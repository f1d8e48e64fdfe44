---------------------------- MODULE PortalActions ----------------------------
(***************************************************************************)
(* Operations on group members that the owner requests on the portal and   *)
(* the bot clients run: mute, unmute, other member operations, and the     *)
(* renaming that follows a new name prefix.                                *)
(*                                                                         *)
(* A request is queued in the group's configuration (portal_actions), so   *)
(* that it travels with the revision that added it and with every later    *)
(* one.  For a group with owners an ACK moves the client's cursor and      *)
(* leaves the configuration alone: only age, the limit of the queue and a  *)
(* newer prefix remove a request.  A client tells what it has run from     *)
(* what it has not by the claims it keeps in memory.                       *)
(*                                                                         *)
(* Administrators mute and unmute with commands in the group as well.  QQ  *)
(* is asked first and the client's record follows its answer, so the two   *)
(* differ while an answer is awaited, and for good where it is lost.       *)
(*                                                                         *)
(* One group bound to the portal.  A request that names several members is *)
(* one request per member here, as the client expands it.                  *)
(***************************************************************************)
EXTENDS Integers, FiniteSets

CONSTANTS
    Clients,       \* bot processes of the group
    Actions,       \* requests the owner may make
    Users,         \* members
    KindOf,        \* "mute", "unmute", "other" or "prefix"
    UserOf,        \* the member a request is about
    QueueLimit,    \* actions[-32:]
    PrefixLimit,   \* actions[-8:] when a prefix is saved
    Horizon,       \* 900: age at which a request is stale
    ClaimTtl,      \* 600: age at which a client forgets a claim
    Outages,       \* can a client be without a QQ account?
    MaxNow,        \* bound: where the clock stops
    MaxRevision,   \* bound: saves on the portal
    MaxTrouble,    \* bound: failed saves, lost ACKs and restarts
    MaxLocal       \* bound: commands in the group

ASSUME RequestAssumption ==
    /\ KindOf \in [Actions -> {"mute", "unmute", "other", "prefix"}]
    /\ UserOf \in [Actions -> Users]

ASSUME LimitAssumption ==
    /\ {QueueLimit, PrefixLimit, Horizon, ClaimTtl, MaxNow, MaxRevision,
        MaxTrouble, MaxLocal} \subseteq Nat
    /\ ClaimTtl > 0
    /\ Outages \in BOOLEAN

VARIABLES
    now,
    revision,   \* the revision of the group's configuration on the portal
    queue,      \* the requests in it
    created,    \* created_at of a request, 0: not made yet
    addedIn,    \* the revision that added it: the order of the queue
    cursor,     \* GroupClientSync.applied_revision
    client,     \* what a client does with the change it received
    claims,     \* _portal_member_action_claims, 0: none
    muteList,   \* muted_at in a client's group file, 0: no record
    overrides,  \* _member_mute_state_overrides: when a process last recorded
                \* a mute that has an end, 0: no such mute
    asked,      \* commands of the group for which QQ's answer is awaited
    muted,      \* QQ: when it accepted the mute it holds a member under, 0: none
    trouble,    \* failures so far
    commands,   \* commands in the group so far
    handled,    \* history: requests a client has run, failed or refused
    dropped,    \* history: young requests the portal removed
    chosen      \* history: how often a process chose a request to run

portalVars == <<revision, queue, created, addedIn, dropped>>
recordVars == <<muteList, overrides>>
clientVars == <<client, claims, recordVars, asked, handled, chosen>>
boundVars == <<trouble, commands>>
actionVars == <<now, portalVars, cursor, clientVars, muted, boundVars>>

Commands == {"mute", "unmute"} \X Users

NoTimes == [u \in Users |-> 0]

\* Mutant: the revision a client works on is not reset.
IdleBefore == [phase |-> "idle", rev |-> 0 - 1, todo |-> {}, known |-> NoTimes]

\* `known` is a history: what the file had on record when a batch was judged.
Idle == [phase |-> "idle", rev |-> 0, todo |-> {}, known |-> NoTimes]

Init ==
    /\ now = 1
    /\ revision = 1
    /\ queue = {}
    /\ created = [a \in Actions |-> 0]
    /\ addedIn = [a \in Actions |-> 0]
    /\ cursor = [c \in Clients |-> 1]
    /\ client = [c \in Clients |-> Idle]
    /\ claims = [c \in Clients |-> [a \in Actions |-> 0]]
    /\ muteList = [c \in Clients |-> NoTimes]
    /\ overrides = [c \in Clients |-> NoTimes]
    /\ asked = [c \in Clients |-> {}]
    /\ muted = NoTimes
    /\ trouble = 0
    /\ commands = 0
    /\ handled = [c \in Clients |-> {}]
    /\ dropped = {}
    /\ chosen = [c \in Clients |-> [a \in Actions |-> 0]]

-----------------------------------------------------------------------------
(* The portal.                                                             *)

Young(a) == now - created[a] <= Horizon

\* actions[-n:], in the order in which the requests were added.
Newest(n, S) == {a \in S : Cardinality({b \in S : addedIn[b] > addedIn[a]}) < n}

\* A save of the configuration that keeps the requests in `kept`; projecting
\* the configuration drops those that are stale.
SaveWith(kept) ==
    /\ revision < MaxRevision
    /\ revision' = revision + 1
    /\ queue' = {a \in kept : Young(a)}
    /\ dropped' = dropped \union {a \in queue : Young(a) /\ a \notin kept}

Add(a, others, limit) ==
    /\ created[a] = 0
    /\ created' = [created EXCEPT ![a] = now]
    /\ addedIn' = [addedIn EXCEPT ![a] = revision + 1]
    /\ revision < MaxRevision
    /\ revision' = revision + 1
    /\ LET kept == {a} \union Newest(limit - 1, others)
       IN  /\ queue' = {b \in kept : b = a \/ Young(b)}
           /\ dropped' = dropped \union {b \in queue : Young(b) /\ b \notin kept}
    /\ UNCHANGED <<now, cursor, clientVars, muted, boundVars>>

QueueMemberAction(a) == KindOf[a] # "prefix" /\ Add(a, queue, QueueLimit)

\* Saving a prefix replaces an earlier request for one.
SavePrefix(a) ==
    /\ KindOf[a] = "prefix"
    /\ Add(a, {b \in queue : KindOf[b] # "prefix"}, PrefixLimit)

\* Any other setting is saved.
SaveSettings ==
    /\ SaveWith(queue)
    /\ UNCHANGED <<now, created, addedIn, cursor, clientVars, muted, boundVars>>

\* The owner of a client pulls the configuration again.
RequestPull(c) ==
    /\ trouble < MaxTrouble
    /\ cursor[c] >= revision
    /\ cursor' = [cursor EXCEPT ![c] = revision - 1]
    /\ trouble' = trouble + 1
    /\ UNCHANGED <<now, portalVars, clientVars, muted, commands>>

-----------------------------------------------------------------------------
(* A client: one exchange at a time.                                       *)

SetClient(c, next) == client' = [client EXCEPT ![c] = next]

\* Mutant: off by one.
HasNewsLater(c) == cursor[c] + 1 < revision

HasNews(c) == cursor[c] < revision

\* The exchange returns the newest revision, with the requests it carries.
Exchange(c) ==
    /\ client[c].phase = "idle"
    /\ HasNews(c)
    /\ SetClient(c, [phase |-> "merge", rev |-> revision, todo |-> queue,
                    known |-> NoTimes])
    /\ UNCHANGED <<now, portalVars, cursor, claims, recordVars, asked, handled,
                   chosen, muted, boundVars>>

\* Mutant: the claims are lost.
ClaimedNever(c, a) == FALSE

Claimed(c, a) == claims[c][a] # 0 /\ now - claims[c][a] < ClaimTtl

\* Mutant: the check for a newer mute is left out.
UndoesNothing(c, a) == FALSE

\* An unmute must not undo a mute this client recorded after the request.  The
\* file and created_at have whole seconds; what the process remembers of a mute
\* that has an end is finer, and tells in the same second.
UndoesNewerMute(c, a) ==
    /\ KindOf[a] = "unmute"
    /\ \/ muteList[c][UserOf[a]] > created[a]
       \/ overrides[c][UserOf[a]] >= created[a]

SameRequest(a, b) == KindOf[a] = KindOf[b] /\ UserOf[a] = UserOf[b]

\* The candidates in order; of equal ones only the first is chosen.
Chosen(c, S) ==
    LET eligible == {a \in S : ~UndoesNewerMute(c, a) /\ ~Claimed(c, a)}
    IN  {a \in eligible :
            \A b \in eligible : SameRequest(a, b) => addedIn[a] <= addedIn[b]}

\* The part of _apply_portal_member_actions before its first await: every
\* request is judged and claimed before one of them runs.  Without a QQ
\* client all of them fail at once.
Choose(c) ==
    /\ client[c].phase = "merge"
    /\ LET received == {a \in client[c].todo : Young(a)}
           picked == Chosen(c, received)
       IN  /\ claims' = [claims EXCEPT ![c] =
                  [a \in Actions |-> IF a \in picked THEN now ELSE claims[c][a]]]
           /\ chosen' = [chosen EXCEPT ![c] =
                  [a \in Actions |-> IF a \in picked THEN chosen[c][a] + 1
                                                     ELSE chosen[c][a]]]
           /\ \/ /\ SetClient(c, [client[c] EXCEPT !.phase = "run",
                                    !.todo = picked, !.known = muteList[c]])
                 /\ handled' = [handled EXCEPT ![c] =
                        handled[c] \union (received \ picked)]
              \/ /\ Outages /\ picked # {}
                 /\ SetClient(c, [client[c] EXCEPT !.phase = "run",
                                    !.todo = {}, !.known = muteList[c]])
                 /\ handled' = [handled EXCEPT ![c] = handled[c] \union received]
    /\ UNCHANGED <<now, portalVars, cursor, recordVars, asked, muted, boundVars>>

First(c, a) ==
    a \in client[c].todo /\ \A b \in client[c].todo : addedIn[a] <= addedIn[b]

\* QQ carries out a mute or an unmute.
AtQQ(kind, u) == muted' = [muted EXCEPT ![u] = IF kind = "mute" THEN now ELSE 0]

\* mute_user or unmute_user on the group's file, and what the process remembers:
\* of a mute without an end, nothing that counts.
Noted(c, kind, u) ==
    /\ muteList' = [muteList EXCEPT ![c][u] = IF kind = "mute" THEN now ELSE 0]
    /\ \E known \in {0, now} :
          /\ kind = "unmute" => known = 0
          /\ overrides' = [overrides EXCEPT ![c][u] = known]

\* One request to QQ.  A mute or unmute that QQ accepted is confirmed and
\* recorded afterwards; anything else is done with, as is a failure: it is
\* recorded for the owner and not tried again.
CallQQ(c, a) ==
    /\ client[c].phase \in {"run", "again"}
    /\ First(c, a)
    /\ \/ /\ KindOf[a] \in {"mute", "unmute"}
          /\ AtQQ(KindOf[a], UserOf[a])
          /\ SetClient(c, [client[c] EXCEPT !.phase =
                             IF client[c].phase = "run" THEN "record" ELSE "last"])
          /\ UNCHANGED handled
       \/ /\ SetClient(c, [client[c] EXCEPT !.phase = "run", !.todo = client[c].todo \ {a}])
          /\ handled' = [handled EXCEPT ![c] = handled[c] \union {a}]
          /\ UNCHANGED muted
    /\ UNCHANGED <<now, portalVars, cursor, claims, recordVars, asked, chosen, boundVars>>

\* QQ's answer.  When it is lost, or QQ does not confirm the unmute, nothing is
\* recorded; an unmute is tried once more, and then the request has failed.
Record(c, a) ==
    /\ client[c].phase \in {"record", "last"}
    /\ First(c, a)
    /\ \/ /\ Noted(c, KindOf[a], UserOf[a]) \/ UNCHANGED recordVars
          /\ SetClient(c, [client[c] EXCEPT !.phase = "run", !.todo = client[c].todo \ {a}])
          /\ handled' = [handled EXCEPT ![c] = handled[c] \union {a}]
       \/ /\ KindOf[a] = "unmute" /\ client[c].phase = "record"
          /\ SetClient(c, [client[c] EXCEPT !.phase = "again"])
          /\ UNCHANGED <<recordVars, handled>>
    /\ UNCHANGED <<now, portalVars, cursor, claims, asked, chosen, muted, boundVars>>

\* save_group_config of the merged configuration, without the requests.  When
\* it fails nothing is acknowledged.
SaveMerged(c) ==
    /\ client[c].phase = "run" /\ client[c].todo = {}
    /\ \/ /\ SetClient(c, [client[c] EXCEPT !.phase = "ack", !.known = NoTimes])
          /\ UNCHANGED trouble
       \/ /\ trouble < MaxTrouble
          /\ SetClient(c, Idle)
          /\ trouble' = trouble + 1
    /\ UNCHANGED <<now, portalVars, cursor, claims, recordVars, asked, handled,
                   chosen, muted, commands>>

\* Mutant: whatever is newest is confirmed.
ConfirmedNewest(c) == revision

Confirmed(c) == IF client[c].rev > cursor[c] THEN client[c].rev ELSE cursor[c]

\* acknowledge_bot_changes for a bound group, or a request that is lost.
Acknowledge(c) ==
    /\ client[c].phase = "ack"
    /\ SetClient(c, Idle)
    /\ \/ /\ cursor' = [cursor EXCEPT ![c] = Confirmed(c)]
          /\ UNCHANGED trouble
       \/ /\ trouble < MaxTrouble
          /\ trouble' = trouble + 1
          /\ UNCHANGED cursor
    /\ UNCHANGED <<now, portalVars, claims, recordVars, asked, handled, chosen,
                   muted, commands>>

\* The process ends, or the plugin is loaded again: what it kept in memory is
\* gone, with the commands that were waiting for QQ.
Restart(c) ==
    /\ trouble < MaxTrouble
    /\ trouble' = trouble + 1
    /\ SetClient(c, Idle)
    /\ claims' = [claims EXCEPT ![c] = [a \in Actions |-> 0]]
    /\ overrides' = [overrides EXCEPT ![c] = NoTimes]
    /\ asked' = [asked EXCEPT ![c] = {}]
    /\ chosen' = [chosen EXCEPT ![c] = [a \in Actions |-> 0]]
    /\ UNCHANGED <<now, portalVars, cursor, muteList, handled, muted, commands>>

-----------------------------------------------------------------------------
(* Commands of administrators of the group.  They run beside the sync loop:*)
(* it may judge or run requests while a command waits for QQ.  Equal       *)
(* commands under way at once are one.                                     *)

Ask(c, kind, u) ==
    /\ commands < MaxLocal
    /\ commands' = commands + 1
    /\ AtQQ(kind, u)
    /\ asked' = [asked EXCEPT ![c] = asked[c] \union {<<kind, u>>}]
    /\ UNCHANGED <<now, portalVars, cursor, client, claims, recordVars, handled,
                   chosen, trouble>>

LocalMute(c, u) == Ask(c, "mute", u)

LocalUnmute(c, u) == Ask(c, "unmute", u)

\* The answer arrives and the record is written; or it is lost, or the record
\* cannot be written, and the command reports a failure.
LocalAnswer(c, kind, u) ==
    /\ <<kind, u>> \in asked[c]
    /\ asked' = [asked EXCEPT ![c] = asked[c] \ {<<kind, u>>}]
    /\ Noted(c, kind, u) \/ UNCHANGED recordVars
    /\ UNCHANGED <<now, portalVars, cursor, client, claims, handled, chosen, muted,
                   boundVars>>

Tick ==
    /\ now < MaxNow
    /\ now' = now + 1
    /\ UNCHANGED <<portalVars, cursor, clientVars, muted, boundVars>>

ClientStep(c) ==
    \/ Exchange(c)
    \/ Choose(c)
    \/ \E a \in Actions : CallQQ(c, a) \/ Record(c, a)
    \/ SaveMerged(c)
    \/ Acknowledge(c)

Next ==
    \/ \E a \in Actions : QueueMemberAction(a) \/ SavePrefix(a)
    \/ SaveSettings
    \/ \E c \in Clients : RequestPull(c) \/ ClientStep(c) \/ Restart(c)
    \/ \E c \in Clients, u \in Users : LocalMute(c, u) \/ LocalUnmute(c, u)
    \/ \E c \in Clients, k \in Commands : LocalAnswer(c, k[1], k[2])
    \/ Tick

Spec == Init /\ [][Next]_actionVars

\* run_forever exchanges at least every interval_seconds, and goes on after an
\* exception.  Nothing is assumed of the clock, the owner or the group.
FairSpec == Spec /\ \A c \in Clients : WF_actionVars(ClientStep(c))

-----------------------------------------------------------------------------
(* Properties.                                                             *)

TypeOK ==
    /\ now \in Nat
    /\ revision \in Nat
    /\ queue \subseteq Actions /\ dropped \subseteq Actions
    /\ created \in [Actions -> Nat] /\ addedIn \in [Actions -> Nat]
    /\ cursor \in [Clients -> Nat]
    /\ client \in [Clients -> [phase : {"idle", "merge", "run", "record", "again",
                                        "last", "ack"},
                               rev : Nat, todo : SUBSET Actions, known : [Users -> Nat]]]
    /\ claims \in [Clients -> [Actions -> Nat]]
    /\ muteList \in [Clients -> [Users -> Nat]]
    /\ overrides \in [Clients -> [Users -> Nat]]
    /\ asked \in [Clients -> SUBSET Commands]
    /\ muted \in [Users -> Nat]
    /\ trouble \in Nat /\ commands \in Nat
    /\ handled \in [Clients -> SUBSET Actions]
    /\ chosen \in [Clients -> [Actions -> Nat]]

\* A revision a client has confirmed carries no request the client has not run,
\* failed or refused, unless the portal removed it or it has become stale.
ConfirmedMeansHandled ==
    \A c \in Clients, a \in Actions :
        created[a] # 0 /\ addedIn[a] <= cursor[c]
            => a \in handled[c] \/ a \in dropped \/ ~Young(a)

\* A process runs a request at most once more than the time to live of its
\* claims fits into the life of a request: twice with 600 and 900 seconds.
RunsBounded ==
    \A c \in Clients, a \in Actions : (chosen[c][a] - 1) * ClaimTtl <= Horizon

\* An unmute requested on the portal undoes a mute that QQ accepted after the
\* request only where the client could not know: its file had no record of that
\* mute when the batch was judged.
UndoneMuteIsUnseen ==
    [][\A c \in Clients, a \in Actions :
          LET u == UserOf[a]
          IN  CallQQ(c, a) /\ KindOf[a] = "unmute" /\ muted'[u] # muted[u]
                => muted[u] <= created[a] \/ client[c].known[u] < muted[u]]_actionVars

\* Every client has nothing outstanding again and again: each request is run, or
\* refused, by every client in the end, unless the portal drops it or it becomes
\* stale first.
EveryRequestHandled ==
    \A c \in Clients :
        []<>(\A a \in Actions :
                created[a] # 0 => a \in handled[c] \/ a \in dropped \/ ~Young(a))

\* "portal_actions are one-shot commands": a request a client has dealt with
\* is not run by it again.
OneShot ==
    [][\A c \in Clients, a \in Actions : CallQQ(c, a) => a \notin handled[c]]_actionVars
=============================================================================
