------------------------------ MODULE ConfigSync ------------------------------
(***************************************************************************)
(* The configuration channel between the Linux portal and the Windows      *)
(* execution clients.                                                      *)
(*                                                                         *)
(* The portal (web_client/remote_store.py behind web_client/app.py) keeps  *)
(* one snapshot row per QQ group and one cursor per (group, client).  A    *)
(* browser save raises the revision of the row; a Windows client           *)
(* (qqadmin/web_sync.py) polls with an exchange, writes the one projection *)
(* the exchange hands out to its local file, and acknowledges it.          *)
(*                                                                         *)
(* A projection is abstracted to the revision that names it.  The network  *)
(* may lose a request or a reply, and may deliver a request after the      *)
(* client gave it up and retried it.                                       *)
(***************************************************************************)
EXTENDS Naturals, FiniteSets, FiniteSetsExt

CONSTANTS
    Groups,       \* QQ group identifiers
    Clients,      \* Windows installations (client_id)
    NoClient,     \* the empty client_id of a row no client reported yet
    NoGroup,      \* "no group"
    Rank,         \* the order of group identifiers as strings
    Joined,       \* the groups each installation lists locally
    Unwritable,   \* the <<client, group>> files that cannot be written
    Blockable,    \* the clients an administrator may stop
    Rebindable,   \* the groups whose web account may come and go
    Pullers,      \* the clients whose owner uses the manual pull command
    Restartable,  \* the clients whose process may end and start again
    Healths,      \* the outcomes of reading the local sources
    MaxRevision,  \* bound: browser saves per group
    MaxLate,      \* bound: abandoned requests still on their way
    Attempts      \* HTTP attempts of one call

ASSUME ConstantsAssumption ==
    /\ NoClient \notin Clients
    /\ NoGroup \notin Groups
    /\ Rank \in [Groups -> Nat]
    /\ \A g, h \in Groups : Rank[g] = Rank[h] => g = h
    /\ Joined \in [Clients -> SUBSET Groups]
    /\ Unwritable \subseteq Clients \X Groups
    /\ Blockable \subseteq Clients
    /\ Rebindable \subseteq Groups
    /\ Pullers \subseteq Clients
    /\ Restartable \subseteq Clients
    /\ Healths \subseteq {"complete", "auth_partial", "auths_unreadable",
                          "config_unreadable"}
    /\ MaxRevision \in Nat
    /\ MaxLate \in Nat
    /\ Attempts \in Nat \ {0}

VARIABLES
    bound,       \* groups with a GroupAccess row (claimed by a web account)
    blocked,     \* clients the execution control refuses
    snapshot,    \* GroupConfigSnapshot rows
    clientSync,  \* GroupClientSync rows
    loop,        \* where each client's synchronization loop is
    call,        \* the exchange or ACK a client is waiting for
    reply,       \* its answer, on the way back
    pull,        \* the group of a client's outstanding config-pull call
    pullReply,   \* its answer, on the way back
    change,      \* the projection a client wrote and has to acknowledge
    managed,     \* _server_managed_group_ids
    probed,      \* _server_scope_supported is no longer None
    manual,      \* _manual_web_pull_group_ids
    failures,    \* _pending_failure_reports
    stored,      \* the last portal revision written to the local group file
    sent,        \* requests whose sender waits for the answer
    late         \* requests their sender gave up

server == <<bound, blocked, snapshot, clientSync>>
client == <<loop, call, reply, pull, pullReply, change, managed, probed,
            manual, failures, stored>>
wire == <<sent, late>>
vars == <<server, client, wire>>

-----------------------------------------------------------------------------
(* Rows, requests and replies.                                             *)

Statuses == {"none", "synced", "pending", "error", "protected", "partial"}

\* "none" is a row that does not exist.
Snapshot == [status : Statuses, revision : Nat, applied : Nat,
             owner : Clients \union {NoClient}]

\* `start' is the applied revision the row was created with, `failed' the
\* revision whose failure report wrote sync_error (0: sync_error is empty).
Cursor == [exists : BOOLEAN, applied : Nat, pulling : BOOLEAN,
           failed : Nat, start : Nat]

NoSnapshot == [status |-> "none", revision |-> 0, applied |-> 0, owner |-> NoClient]
CursorAt(r) == [exists |-> TRUE, applied |-> r, pulling |-> FALSE,
                failed |-> 0, start |-> r]
NoCursor == [CursorAt(0) EXCEPT !.exists = FALSE]

Reports == SUBSET (Groups \X Nat)

ExchangeRequest ==
    [kind : {"exchange"}, from : Clients, health : Healths,
     local : SUBSET Groups, known : SUBSET Groups,
     configs : SUBSET Groups, auths : SUBSET Groups, failures : Reports]
AckRequest == [kind : {"ack"}, from : Clients, group : Groups, revision : Nat]
PullRequest == [kind : {"pull"}, from : Clients, group : Groups]
NoCall == [kind |-> "none"]

Change == [group : Groups, revision : Nat, manual : BOOLEAN]
NoChange == [group |-> NoGroup, revision |-> 0, manual |-> FALSE]

ExchangeReply == [kind : {"exchange"}, blocked : BOOLEAN,
                  scope : SUBSET Groups, change : Change \union {NoChange}]
AckReply == [kind : {"ack"}, confirmed : BOOLEAN]
NoReply == [kind |-> "none"]

\* A call counts the attempts made, the current one included.
Call == [request : ExchangeRequest \union AckRequest, tries : 1 .. Attempts]

-----------------------------------------------------------------------------
(* The portal: operations on one row and its cursors.                      *)

\* Mutant of Summarised: the row is as far as its fastest client.
SummarisedByFastest(row, cursors) ==
    LET known == {c \in Clients : cursors[c].exists}
        fastest == Max({cursors[c].applied : c \in known})
    IN  IF known = {} THEN row
        ELSE [row EXCEPT
                !.applied = fastest,
                !.status = IF fastest >= row.revision THEN "synced" ELSE "pending"]

\* _update_group_sync_summary: the row is as far as its slowest client.
Summarised(row, cursors) ==
    LET known == {c \in Clients : cursors[c].exists}
        slowest == Min({cursors[c].applied : c \in known})
    IN  IF known = {} THEN row
        ELSE [row EXCEPT
                !.applied = slowest,
                !.status = CASE slowest >= row.revision -> "synced"
                             [] slowest < row.revision
                                /\ \E c \in known : cursors[c].failed > 0 -> "error"
                             [] OTHER -> "pending"]

\* Portal discovery, the snapshot: a missing row is created, an unowned one
\* adopted, by the client that lists the group.
Adopted(row, c) ==
    CASE row.status = "none" -> [status |-> "pending", revision |-> 1,
                                 applied |-> 0, owner |-> c]
      [] row.status # "none" /\ row.owner = NoClient ->
            [row EXCEPT !.owner = c, !.applied = 0, !.status = "pending"]
      [] OTHER -> row

\* Portal discovery, the cursors: the owner starts at what the row records as
\* applied, any other client at the current revision.
Registered(row, cursors, c) ==
    [d \in Clients |->
        CASE cursors[d].exists -> cursors[d]
          [] ~cursors[d].exists /\ d = row.owner -> CursorAt(row.applied)
          [] ~cursors[d].exists /\ d # row.owner /\ d = c -> CursorAt(row.revision)
          [] OTHER -> cursors[d]]

SourceRecovered(row) ==
    IF row.status \in {"protected", "partial"}
    THEN [row EXCEPT !.status = IF row.revision > row.applied THEN "pending"
                                ELSE "synced"]
    ELSE row

\* The groups loop, one item: the sender takes the row over, and where no web
\* account claims the group its projection is accepted unless a browser save
\* waits.
Uploaded(row, c, claimed, withConfig) ==
    LET new == IF claimed
               THEN [status |-> "pending", revision |-> 1, applied |-> 0, owner |-> c]
               ELSE [status |-> "synced", revision |-> 1, applied |-> 1, owner |-> c]
        fresh == IF row.status = "none" THEN new ELSE row
    IN  [fresh EXCEPT
            !.owner = c,
            !.status = IF withConfig /\ ~claimed /\ fresh.revision <= fresh.applied
                       THEN "synced" ELSE @]

-----------------------------------------------------------------------------
(* The portal: one exchange, in the order apply_bot_exchange works.        *)

Discovered(q) == q.local \intersect bound

ClientPortal(q) ==
    Discovered(q) \union
    {g \in q.known \intersect bound : snapshot[g].owner = q.from}

ExchangedSync(q) ==
    [g \in Groups |->
        IF g \in ClientPortal(q)
        THEN Registered(Adopted(snapshot[g], q.from), clientSync[g], q.from)
        ELSE clientSync[g]]

\* The rows as the exchange flushed them.  The summary written right after
\* that flush is lost: the sessions have no autoflush, and the rows the client
\* lists are read again with populate_existing.
DiscoveredRows(q) ==
    [g \in Groups |->
        IF g \in ClientPortal(q) THEN Adopted(snapshot[g], q.from) ELSE snapshot[g]]

AuthUnreadable == {"auth_partial", "auths_unreadable"}

\* Authorization unreadable: every row of this client is marked partial, and
\* the same reading takes the mark back from the rows the client lists.
\* Both sources readable: the rows the client lists leave the protected states.
SourceMarkedRows(q) ==
    [g \in Groups |->
        LET row == DiscoveredRows(q)[g]
        IN  CASE /\ q.health \in AuthUnreadable
                 /\ row.owner = q.from
                 /\ g \notin ClientPortal(q) -> [row EXCEPT !.status = "partial"]
              [] q.health = "complete" /\ g \in ClientPortal(q) -> SourceRecovered(row)
              [] OTHER -> row]

\* The items of the groups loop that are not skipped, in their order: the
\* configurations, then the cards of unclaimed groups.
Offered(q) ==
    {g \in q.configs \union q.auths :
        g \in bound => /\ ExchangedSync(q)[g][q.from].exists
                       /\ DiscoveredRows(q)[g].owner = q.from}

ItemBefore(q, g, h) ==
    \/ g \in q.configs /\ h \notin q.configs
    \/ (g \in q.configs <=> h \in q.configs) /\ Rank[g] < Rank[h]

\* Each item reads its row again, which takes back a mark or a recovery that
\* is not flushed; the first row an earlier item creates flushes them all.
ItemRow(q, g) ==
    IF \E h \in Offered(q) : snapshot[h].status = "none" /\ h \notin bound
                              /\ ItemBefore(q, h, g)
    THEN SourceMarkedRows(q)[g]
    ELSE DiscoveredRows(q)[g]

\* A configuration that comes with no authorization of either kind, unless the
\* client pulls the group.
Unverified(q, g) ==
    /\ g \in q.configs
    /\ q.health = "auths_unreadable"
    /\ ~(g \in bound /\ ExchangedSync(q)[g][q.from].pulling)

UploadedRows(q) ==
    [g \in Groups |->
        LET row == Uploaded(ItemRow(q, g), q.from, g \in bound, g \in q.configs)
        IN  CASE g \notin Offered(q) -> SourceMarkedRows(q)[g]
              [] g \in Offered(q) /\ Unverified(q, g) -> [row EXCEPT !.status = "partial"]
              [] OTHER -> row]

\* touch_client_heartbeat, for an exchange without a readable config source.
HeartbeatRows(q) ==
    [g \in Groups |->
        IF q.health = "config_unreadable" /\ UploadedRows(q)[g].owner = q.from
        THEN [UploadedRows(q)[g] EXCEPT !.status = "protected"]
        ELSE UploadedRows(q)[g]]

\* Mutant of Scope: a row nobody owns belongs to whoever asks.
ScopeUnowned(q) ==
    {g \in bound :
        \/ HeartbeatRows(q)[g].owner \in {q.from, NoClient}
        \/ ExchangedSync(q)[g][q.from].exists}

\* bound_group_ids: the web-account scope of the polling client.
Scope(q) ==
    {g \in bound :
        \/ HeartbeatRows(q)[g].owner = q.from
        \/ ExchangedSync(q)[g][q.from].exists
        \/ g \in q.known \union q.local /\ HeartbeatRows(q)[g].owner = NoClient}

\* record_bot_sync_failures: only for the exact revision, still pending.
FailureAccepted(q, g) ==
    /\ g \in Scope(q)
    /\ <<g, HeartbeatRows(q)[g].revision>> \in q.failures
    /\ HeartbeatRows(q)[g].revision > 0
    /\ ExchangedSync(q)[g][q.from].exists
    /\ ExchangedSync(q)[g][q.from].applied < HeartbeatRows(q)[g].revision

SyncAfterExchange(q) ==
    [g \in Groups |->
        IF FailureAccepted(q, g)
        THEN [ExchangedSync(q)[g] EXCEPT ![q.from].failed = HeartbeatRows(q)[g].revision]
        ELSE ExchangedSync(q)[g]]

RowsAfterExchange(q) ==
    [g \in Groups |->
        IF FailureAccepted(q, g)
        THEN Summarised(HeartbeatRows(q)[g], SyncAfterExchange(q)[g])
        ELSE HeartbeatRows(q)[g]]

\* A pull is handed out again, with the authorization, as long as it is open.
ManualPulls(q) ==
    {g \in ClientPortal(q) :
        LET cursor == ExchangedSync(q)[g][q.from]
        IN  /\ q.health # "config_unreadable"
            /\ cursor.pulling
            /\ \/ cursor.applied < DiscoveredRows(q)[g].revision
               \/ q.health \in AuthUnreadable}

\* Mutant of PendingGroups: a revision that failed once is not sent again.
PendingGroupsWithoutFailed(q) ==
    {g \in bound :
        LET cursor == ExchangedSync(q)[g][q.from]
        IN  /\ cursor.exists /\ cursor.failed = 0
            /\ cursor.applied < DiscoveredRows(q)[g].revision}

PendingGroups(q) ==
    {g \in bound :
        LET cursor == ExchangedSync(q)[g][q.from]
        IN  cursor.exists /\ cursor.applied < DiscoveredRows(q)[g].revision}

PendingUnclaimed(q) ==
    {g \in q.configs \ bound : UploadedRows(q)[g].applied < UploadedRows(q)[g].revision}

Candidates(q) == ManualPulls(q) \union PendingGroups(q) \union PendingUnclaimed(q)

\* The sort of the pending changes.  The first key is updated_at, which the
\* column's onupdate renews for every row this exchange touched; within the
\* rows touched together the revision number decides, then the group id.
Precedes(q, g, h) ==
    LET touched(x) == IF x \in ClientPortal(q) THEN 1 ELSE 0
        revision(x) == UploadedRows(q)[x].revision
    IN  \/ touched(g) > touched(h)
        \/ touched(g) = touched(h) /\ revision(g) > revision(h)
        \/ touched(g) = touched(h) /\ revision(g) = revision(h) /\ Rank[g] > Rank[h]

\* Only the first change is kept (MAX_PENDING_CHANGES_PER_EXCHANGE = 1), and
\* only then is the web-account scope applied to it.
Selected(q) ==
    {g \in Candidates(q) : \A h \in Candidates(q) \ {g} : Precedes(q, g, h)}

HandedOut(q) ==
    LET within == Selected(q) \intersect Scope(q)
    IN  IF within = {} THEN NoChange
        ELSE LET g == CHOOSE x \in within : TRUE
             IN  [group |-> g, revision |-> UploadedRows(q)[g].revision,
                  manual |-> g \in ManualPulls(q)]

-----------------------------------------------------------------------------
(* The portal: handlers.  `live' tells whether the sender still waits.     *)

InTransit(q, live) == q \in (IF live THEN sent ELSE late)

Delivered(q, live) ==
    /\ sent' = IF live THEN sent \ {q} ELSE sent
    /\ late' = IF live THEN late ELSE late \ {q}

Answer(q, live, answer) ==
    reply' = IF live THEN [reply EXCEPT ![q.from] = answer] ELSE reply

\* _process_sync_exchange
HandleExchange(q, live) ==
    /\ q.kind = "exchange"
    /\ InTransit(q, live)
    /\ Delivered(q, live)
    /\ \/ /\ q.from \in blocked
          /\ Answer(q, live, [kind |-> "exchange", blocked |-> TRUE,
                              scope |-> {}, change |-> NoChange])
          /\ UNCHANGED <<snapshot, clientSync>>
       \/ /\ q.from \notin blocked
          /\ snapshot' = RowsAfterExchange(q)
          /\ clientSync' = SyncAfterExchange(q)
          /\ Answer(q, live, [kind |-> "exchange", blocked |-> FALSE,
                              scope |-> Scope(q), change |-> HandedOut(q)])
    /\ UNCHANGED <<bound, blocked, loop, call, pull, pullReply, change, managed,
                   probed, manual, failures, stored>>

\* Mutants of Acknowledged: the row's revision is confirmed instead of the one
\* the ACK names, a late ACK takes a newer confirmation back, or an error
\* outlives the delivery it is about.
AcknowledgedCurrent(cursor, revision, row) ==
    [cursor EXCEPT !.applied = row.revision, !.pulling = FALSE, !.failed = 0]
AcknowledgedAsNamed(cursor, revision, row) ==
    [cursor EXCEPT !.applied = revision,
                   !.pulling = cursor.pulling /\ revision < row.revision, !.failed = 0]
AcknowledgedKeepsError(cursor, revision, row) ==
    [cursor EXCEPT !.applied = IF revision > cursor.applied THEN revision
                               ELSE cursor.applied,
                   !.pulling = cursor.pulling /\ revision < row.revision]

\* The cursor moves, never back; the current revision closes an open pull.
Acknowledged(cursor, revision, row) ==
    [cursor EXCEPT !.applied = IF revision > cursor.applied THEN revision
                               ELSE cursor.applied,
                   !.pulling = cursor.pulling /\ revision < row.revision,
                   !.failed = 0]

\* acknowledge_bot_changes, a claimed group: no revision beyond the row's is
\* accepted, and the row is summarised again.
AcknowledgeClaimed(q) ==
    LET g == q.group
        row == snapshot[g]
        confirmed == [clientSync[g] EXCEPT
                        ![q.from] = Acknowledged(@, q.revision, row)]
    IN  /\ clientSync[g][q.from].exists
        /\ q.revision <= row.revision
        /\ clientSync' = [clientSync EXCEPT ![g] = confirmed]
        /\ snapshot' = [snapshot EXCEPT ![g] = Summarised(row, confirmed)]

Completed(row, c) ==
    [row EXCEPT !.applied = row.revision, !.status = "synced", !.owner = c]

\* ... and a group whose web account is gone: the exact revision completes the
\* row, an older one is only consumed.
AcknowledgeUnclaimed(q) ==
    LET g == q.group
        row == snapshot[g]
    IN  /\ row.status # "none"
        /\ row.owner \in {NoClient, q.from}
        /\ \/ /\ q.revision = row.revision
              /\ snapshot' = [snapshot EXCEPT ![g] = Completed(row, q.from)]
           \/ /\ q.revision < row.revision
              /\ UNCHANGED snapshot
        /\ UNCHANGED clientSync

Acknowledgeable(q) ==
    IF q.group \in bound
    THEN clientSync[q.group][q.from].exists /\ q.revision <= snapshot[q.group].revision
    ELSE /\ snapshot[q.group].status # "none"
         /\ snapshot[q.group].owner \in {NoClient, q.from}
         /\ q.revision <= snapshot[q.group].revision

\* _process_sync_ack
HandleAck(q, live) ==
    /\ q.kind = "ack"
    /\ InTransit(q, live)
    /\ Delivered(q, live)
    /\ \/ q.group \in bound /\ AcknowledgeClaimed(q)
       \/ q.group \notin bound /\ AcknowledgeUnclaimed(q)
       \/ ~Acknowledgeable(q) /\ UNCHANGED <<snapshot, clientSync>>
    /\ Answer(q, live, [kind |-> "ack", confirmed |-> Acknowledgeable(q)])
    /\ UNCHANGED <<bound, blocked, loop, call, pull, pullReply, change, managed,
                   probed, manual, failures, stored>>

\* Mutant of Reopened: everything is sent again.
ReopenedFromStart(cursor, revision) ==
    [exists |-> TRUE, pulling |-> TRUE, failed |-> 0, applied |-> 0,
     start |-> IF cursor.exists THEN cursor.start ELSE 0]

\* request_group_config_pull: reopen the current revision for this client.
Reopened(cursor, revision) ==
    LET before == IF revision > 0 THEN revision - 1 ELSE 0
    IN  [exists |-> TRUE, pulling |-> TRUE, failed |-> 0,
         applied |-> IF cursor.exists /\ cursor.applied < revision
                     THEN cursor.applied ELSE before,
         start |-> IF cursor.exists THEN cursor.start ELSE before]

Pullable(g) == g \in bound /\ snapshot[g].revision > 0

\* _process_group_config_pull_request
HandlePull(q, live) ==
    LET g == q.group
        cursors == [clientSync[g] EXCEPT
                        ![q.from] = Reopened(@, snapshot[g].revision)]
    IN  /\ q.kind = "pull"
        /\ InTransit(q, live)
        /\ Delivered(q, live)
        /\ \/ /\ Pullable(g)
              /\ clientSync' = [clientSync EXCEPT ![g] = cursors]
              /\ snapshot' = [snapshot EXCEPT ![g] = Summarised(@, cursors)]
           \/ /\ ~Pullable(g)
              /\ UNCHANGED <<snapshot, clientSync>>
        /\ pullReply' = IF live
                        THEN [pullReply EXCEPT ![q.from] =
                                IF Pullable(g) THEN "ok" ELSE "error"]
                        ELSE pullReply
        /\ UNCHANGED <<bound, blocked, loop, call, reply, pull, change, managed,
                       probed, manual, failures, stored>>

-----------------------------------------------------------------------------
(* The portal: browsers.                                                   *)

\* Mutant of SaveWebConfig: the next revision is counted from the applied one.
SaveAfterApplied(g) ==
    /\ g \in bound \/ snapshot[g].status # "none"
    /\ snapshot[g].revision < MaxRevision
    /\ snapshot' = [snapshot EXCEPT ![g].revision = snapshot[g].applied + 1,
                                    ![g].status = "pending"]
    /\ UNCHANGED <<bound, blocked, clientSync, client, wire>>

\* _save_web_config_locked with a changed projection; an identical one leaves
\* the row as it is.
SaveWebConfig(g) ==
    /\ g \in bound \/ snapshot[g].status # "none"
    /\ snapshot[g].revision < MaxRevision
    /\ snapshot' = [snapshot EXCEPT ![g].revision = @ + 1, ![g].status = "pending"]
    /\ UNCHANGED <<bound, blocked, clientSync, client, wire>>

\* Mutant of ClaimGroup: the status of the row survives the rebinding.
ClaimKeepsStatus(g) ==
    /\ g \in Rebindable
    /\ snapshot[g].owner # NoClient
    /\ bound' = bound \union {g}
    /\ UNCHANGED <<blocked, snapshot, clientSync, client, wire>>

\* claim_activated_card: the row holds an activated card, so a client
\* reported it.
ClaimGroup(g) ==
    /\ g \in Rebindable
    /\ snapshot[g].owner # NoClient
    /\ bound' = bound \union {g}
    /\ snapshot' = [snapshot EXCEPT ![g].status = "pending"]
    /\ UNCHANGED <<blocked, clientSync, client, wire>>

\* admin_unbind_group and delete_portal_group: the cursors stay behind.
UnbindGroup(g) ==
    /\ g \in bound \intersect Rebindable
    /\ bound' = bound \ {g}
    /\ UNCHANGED <<blocked, snapshot, clientSync, client, wire>>

\* save_execution_control
SetBlocked(c) ==
    /\ c \in Blockable
    /\ blocked' = IF c \in blocked THEN blocked \ {c} ELSE blocked \union {c}
    /\ UNCHANGED <<bound, snapshot, clientSync, client, wire>>

-----------------------------------------------------------------------------
(* The Windows client.                                                     *)

\* local_group_ids of the next exchange.
LocalGroups(c) ==
    Joined[c] \union {g \in Groups : stored[c][g] > 0} \union manual[c]

ExchangeKeys(q) ==
    q.local \union q.known \union q.configs \union q.auths
        \union {report[1] : report \in q.failures}

\* The groups whose portal lock the client's outstanding call holds.
HeldGroups(c) ==
    CASE call[c] = NoCall -> {}
      [] call[c] # NoCall /\ call[c].request.kind = "exchange" ->
            ExchangeKeys(call[c].request)
      [] OTHER -> {call[c].request.group}

\* What sync_once reports.  The delta cache decides which of the managed
\* groups carry a configuration and which other ones their card.
ExchangeOf(c, health, configs, auths) ==
    LET readable == health # "config_unreadable"
    IN  [kind |-> "exchange", from |-> c, health |-> health,
         local |-> IF readable THEN LocalGroups(c) ELSE {},
         known |-> CASE health = "complete" -> managed[c] \union auths
                     [] health \in AuthUnreadable -> LocalGroups(c)
                     [] OTHER -> {},
         configs |-> configs, auths |-> auths,
         failures |-> IF readable /\ probed[c]
                      THEN {report \in failures[c] : report[1] \in managed[c]}
                      ELSE {}]

SendExchange(c, health, configs, auths) ==
    LET q == ExchangeOf(c, health, configs, auths)
    IN  /\ loop[c] = "idle"
        /\ configs \subseteq (IF probed[c] /\ health # "config_unreadable"
                              THEN managed[c] \intersect LocalGroups(c)
                              ELSE {})
        /\ auths \subseteq (IF health = "complete"
                            THEN LocalGroups(c) \ managed[c] ELSE {})
        /\ pull[c] \notin ExchangeKeys(q)
        /\ loop' = [loop EXCEPT ![c] = "exchange"]
        /\ call' = [call EXCEPT ![c] = [request |-> q, tries |-> 1]]
        /\ sent' = sent \union {q}
        /\ UNCHANGED <<server, reply, pull, pullReply, change, managed, probed,
                       manual, failures, stored, late>>

\* The reports the portal no longer considers pending are forgotten.
Undiscarded(c, answer) ==
    failures[c] \ {report \in call[c].request.failures :
                    report # <<answer.change.group, answer.change.revision>>}

\* The client is stopped: nothing of the answer is used.
ReceiveBlocked(c) ==
    /\ reply[c].kind = "exchange"
    /\ reply[c].blocked
    /\ loop' = [loop EXCEPT ![c] = "idle"]
    /\ call' = [call EXCEPT ![c] = NoCall]
    /\ reply' = [reply EXCEPT ![c] = NoReply]
    /\ UNCHANGED <<server, pull, pullReply, change, managed, probed, manual,
                   failures, stored, wire>>

ReceiveExchange(c) ==
    /\ reply[c].kind = "exchange"
    /\ ~reply[c].blocked
    /\ call' = [call EXCEPT ![c] = NoCall]
    /\ reply' = [reply EXCEPT ![c] = NoReply]
    /\ managed' = [managed EXCEPT ![c] = reply[c].scope]
    /\ probed' = [probed EXCEPT ![c] = TRUE]
    /\ UNCHANGED <<server, pull, pullReply, manual, wire>>

HasChange(answer) == answer.change.revision > 0

ReceiveNothing(c) ==
    /\ ReceiveExchange(c)
    /\ ~HasChange(reply[c])
    /\ loop' = [loop EXCEPT ![c] = "idle"]
    /\ failures' = [failures EXCEPT ![c] = Undiscarded(c, reply[c])]
    /\ UNCHANGED <<change, stored>>

\* The projection is merged and written, and the ACK prepared.
ReceiveAndStore(c) ==
    /\ ReceiveExchange(c)
    /\ HasChange(reply[c])
    /\ <<c, reply[c].change.group>> \notin Unwritable
    /\ loop' = [loop EXCEPT ![c] = "confirm"]
    /\ change' = [change EXCEPT ![c] = reply[c].change]
    /\ stored' = [stored EXCEPT ![c][reply[c].change.group] = reply[c].change.revision]
    /\ failures' = [failures EXCEPT ![c] = Undiscarded(c, reply[c])]

\* save_group_config or the authorization failed: a later exchange reports it.
ReceiveAndFail(c) ==
    /\ ReceiveExchange(c)
    /\ HasChange(reply[c])
    /\ loop' = [loop EXCEPT ![c] = "idle"]
    /\ failures' = [failures EXCEPT ![c] = Undiscarded(c, reply[c]) \union
                        {<<reply[c].change.group, reply[c].change.revision>>}]
    /\ UNCHANGED <<change, stored>>

SendAck(c) ==
    LET q == [kind |-> "ack", from |-> c, group |-> change[c].group,
              revision |-> change[c].revision]
    IN  /\ loop[c] = "confirm"
        /\ pull[c] # change[c].group
        /\ loop' = [loop EXCEPT ![c] = "ack"]
        /\ call' = [call EXCEPT ![c] = [request |-> q, tries |-> 1]]
        /\ sent' = sent \union {q}
        /\ UNCHANGED <<server, reply, pull, pullReply, change, managed, probed,
                       manual, failures, stored, late>>

ReceiveAck(c) ==
    LET g == change[c].group
        report == <<g, change[c].revision>>
    IN  /\ reply[c].kind = "ack"
        /\ \/ /\ reply[c].confirmed
              /\ failures' = [failures EXCEPT ![c] = @ \ {report}]
              /\ manual' = [manual EXCEPT ![c] = @ \ {g}]
           \/ /\ ~reply[c].confirmed
              /\ failures' = [failures EXCEPT ![c] = @ \union {report}]
              /\ UNCHANGED manual
        /\ loop' = [loop EXCEPT ![c] = "idle"]
        /\ call' = [call EXCEPT ![c] = NoCall]
        /\ reply' = [reply EXCEPT ![c] = NoReply]
        /\ change' = [change EXCEPT ![c] = NoChange]
        /\ UNCHANGED <<server, pull, pullReply, managed, probed, stored, wire>>

\* An abandoned request is lost or still arrives.
Abandon(q) ==
    \/ late' = late
    \/ q \in sent /\ Cardinality(late) < MaxLate /\ late' = late \union {q}

\* _post_json: a transport failure of an attempt that is not the last.
Retry(c) ==
    /\ call[c] # NoCall
    /\ call[c].tries < Attempts
    /\ call' = [call EXCEPT ![c].tries = @ + 1]
    /\ reply' = [reply EXCEPT ![c] = NoReply]
    /\ sent' = sent \union {call[c].request}
    /\ Abandon(call[c].request)
    /\ UNCHANGED <<server, loop, pull, pullReply, change, managed, probed, manual,
                   failures, stored>>

\* Mutant of LostAck: every lost call is reported.
LostCall(c) == {<<change[c].group, change[c].revision>>}

LostAck(c) ==
    IF loop[c] = "ack" THEN {<<change[c].group, change[c].revision>>} ELSE {}

\* The last attempt failed.  An exchange is simply repeated by the next round;
\* a lost ACK becomes a failure report.
GiveUp(c) ==
    /\ call[c] # NoCall
    /\ call[c].tries = Attempts
    /\ call' = [call EXCEPT ![c] = NoCall]
    /\ reply' = [reply EXCEPT ![c] = NoReply]
    /\ sent' = sent \ {call[c].request}
    /\ Abandon(call[c].request)
    /\ loop' = [loop EXCEPT ![c] = "idle"]
    /\ change' = [change EXCEPT ![c] = NoChange]
    /\ failures' = [failures EXCEPT ![c] = @ \union LostAck(c)]
    /\ UNCHANGED <<server, pull, pullReply, managed, probed, manual, stored>>

\* request_web_group_config_pull, started by a chat command at any time.
SendPull(c, g) ==
    LET q == [kind |-> "pull", from |-> c, group |-> g]
    IN  /\ c \in Pullers
        /\ pull[c] = NoGroup
        /\ g \notin HeldGroups(c)
        /\ pull' = [pull EXCEPT ![c] = g]
        /\ sent' = sent \union {q}
        /\ UNCHANGED <<server, loop, call, reply, pullReply, change, managed, probed,
                       manual, failures, stored, late>>

ReceivePull(c) ==
    /\ pullReply[c] # "none"
    /\ manual' = IF pullReply[c] = "ok"
                 THEN [manual EXCEPT ![c] = @ \union {pull[c]}] ELSE manual
    /\ pull' = [pull EXCEPT ![c] = NoGroup]
    /\ pullReply' = [pullReply EXCEPT ![c] = "none"]
    /\ UNCHANGED <<server, loop, call, reply, change, managed, probed, failures,
                   stored, wire>>

GiveUpPull(c) ==
    LET q == [kind |-> "pull", from |-> c, group |-> pull[c]]
    IN  /\ pull[c] # NoGroup
        /\ sent' = sent \ {q}
        /\ Abandon(q)
        /\ pull' = [pull EXCEPT ![c] = NoGroup]
        /\ pullReply' = [pullReply EXCEPT ![c] = "none"]
        /\ UNCHANGED <<server, loop, call, reply, change, managed, probed, manual,
                       failures, stored>>

\* The process ends and starts again: what it kept in memory is gone.
Restart(c) ==
    LET mine == {q \in sent : q.from = c}
    IN  /\ c \in Restartable
        /\ sent' = sent \ mine
        /\ \/ late' = late
           \/ /\ Cardinality(late \union mine) <= MaxLate
              /\ late' = late \union mine
        /\ loop' = [loop EXCEPT ![c] = "idle"]
        /\ call' = [call EXCEPT ![c] = NoCall]
        /\ reply' = [reply EXCEPT ![c] = NoReply]
        /\ pull' = [pull EXCEPT ![c] = NoGroup]
        /\ pullReply' = [pullReply EXCEPT ![c] = "none"]
        /\ change' = [change EXCEPT ![c] = NoChange]
        /\ managed' = [managed EXCEPT ![c] = {}]
        /\ probed' = [probed EXCEPT ![c] = FALSE]
        /\ manual' = [manual EXCEPT ![c] = {}]
        /\ failures' = [failures EXCEPT ![c] = {}]
        /\ UNCHANGED <<server, stored>>

-----------------------------------------------------------------------------
\* A portal that starts with claimed groups has lost their rows, or holds them
\* from before any client reported: revision 0 is the placeholder of
\* request_group_refresh, revision 1 the row of a portal in local mode.
Init ==
    /\ bound \in SUBSET Groups
    /\ blocked = {}
    /\ snapshot \in [Groups ->
            {NoSnapshot,
             [NoSnapshot EXCEPT !.status = "synced"],
             [status |-> "synced", revision |-> 1, applied |-> 1, owner |-> NoClient]}]
    /\ Groups \ Rebindable \subseteq bound
    /\ \A g \in Groups \ bound : snapshot[g] = NoSnapshot
    /\ clientSync = [g \in Groups |-> [c \in Clients |-> NoCursor]]
    /\ loop = [c \in Clients |-> "idle"]
    /\ call = [c \in Clients |-> NoCall]
    /\ reply = [c \in Clients |-> NoReply]
    /\ pull = [c \in Clients |-> NoGroup]
    /\ pullReply = [c \in Clients |-> "none"]
    /\ change = [c \in Clients |-> NoChange]
    /\ managed = [c \in Clients |-> {}]
    /\ probed = [c \in Clients |-> FALSE]
    /\ manual = [c \in Clients |-> {}]
    /\ failures = [c \in Clients |-> {}]
    /\ stored = [c \in Clients |-> [g \in Groups |-> 0]]
    /\ sent = {}
    /\ late = {}

Portal ==
    \/ \E live \in BOOLEAN : \E q \in sent \union late :
            \/ HandleExchange(q, live)
            \/ HandleAck(q, live)
            \/ HandlePull(q, live)
    \/ \E g \in Groups : SaveWebConfig(g) \/ ClaimGroup(g) \/ UnbindGroup(g)
    \/ \E c \in Clients : SetBlocked(c)

Windows(c) ==
    \/ \E health \in Healths,
          configs \in SUBSET LocalGroups(c), auths \in SUBSET LocalGroups(c) :
            SendExchange(c, health, configs, auths)
    \/ ReceiveBlocked(c)
    \/ ReceiveNothing(c)
    \/ ReceiveAndStore(c)
    \/ ReceiveAndFail(c)
    \/ SendAck(c)
    \/ ReceiveAck(c)
    \/ Retry(c)
    \/ GiveUp(c)
    \/ \E g \in Groups : SendPull(c, g)
    \/ ReceivePull(c)
    \/ GiveUpPull(c)
    \/ Restart(c)

Next == Portal \/ \E c \in Clients : Windows(c)

Spec == Init /\ [][Next]_vars

\* The loop of run_forever never ends, its two local sources become readable
\* again, a call that is repeated for ever is answered some time, and a group
\* file that can be written is written in the end.
Fairness ==
    \A c \in Clients :
        /\ SF_vars(\E configs \in SUBSET LocalGroups(c),
                      auths \in SUBSET LocalGroups(c) :
                        SendExchange(c, "complete", configs, auths))
        /\ SF_vars(\E q \in sent : q.from = c /\ HandleExchange(q, TRUE))
        /\ SF_vars(\E q \in sent : q.from = c /\ HandleAck(q, TRUE))
        /\ SF_vars(ReceiveNothing(c) \/ ReceiveBlocked(c))
        /\ \A g \in Groups : SF_vars(reply[c].kind = "exchange"
                                     /\ reply[c].change.group = g
                                     /\ ReceiveAndStore(c))
        /\ SF_vars(SendAck(c))
        /\ SF_vars(ReceiveAck(c))
        /\ WF_vars(ReceivePull(c) \/ GiveUpPull(c))

FairSpec == Spec /\ Fairness

-----------------------------------------------------------------------------
(* The abstract register of one group.                                     *)

Register(g) ==
    INSTANCE ConfigRegister WITH
        revision <- snapshot[g].revision,
        held <- [c \in Clients |-> stored[c][g]],
        enrolled <- {c \in Clients : clientSync[g][c].exists},
        confirmed <- [c \in Clients |-> clientSync[g][c].applied]

-----------------------------------------------------------------------------
(* Properties.                                                             *)

TypeOK ==
    /\ bound \subseteq Groups
    /\ blocked \subseteq Clients
    /\ snapshot \in [Groups -> Snapshot]
    /\ clientSync \in [Groups -> [Clients -> Cursor]]
    /\ loop \in [Clients -> {"idle", "exchange", "confirm", "ack"}]
    /\ call \in [Clients -> Call \union {NoCall}]
    /\ reply \in [Clients -> ExchangeReply \union AckReply \union {NoReply}]
    /\ pull \in [Clients -> Groups \union {NoGroup}]
    /\ pullReply \in [Clients -> {"none", "ok", "error"}]
    /\ change \in [Clients -> Change \union {NoChange}]
    /\ managed \in [Clients -> SUBSET Groups]
    /\ probed \in [Clients -> BOOLEAN]
    /\ manual \in [Clients -> SUBSET Groups]
    /\ failures \in [Clients -> Reports]
    /\ stored \in [Clients -> [Groups -> Nat]]
    /\ sent \subseteq ExchangeRequest \union AckRequest \union PullRequest
    /\ late \subseteq ExchangeRequest \union AckRequest \union PullRequest

\* The cursor of a client never runs ahead of what that client wrote to its
\* disk, apart from the revision the row was created with.
AcknowledgedWasStored ==
    \A g \in Groups, c \in Clients :
        LET cursor == clientSync[g][c]
        IN  cursor.exists /\ cursor.applied > cursor.start
                => cursor.applied <= stored[c][g]

\* A claimed group is shown as synchronized while a client is still behind.
ShownTooSoon(g) ==
    /\ g \in bound
    /\ snapshot[g].status = "synced"
    /\ \E c \in Clients :
            clientSync[g][c].exists /\ clientSync[g][c].applied < snapshot[g].revision

\* Where every exchange can read its sources, or no web account ever leaves,
\* a claimed group shown as synchronized has no client that is still behind.
SyncedMeansNobodyBehind == \A g \in Groups : ~ShownTooSoon(g)

\* A client whose owner pulls nothing by hand owns, follows, manages and holds
\* only groups of its own list, whatever other clients report and whoever
\* claims or leaves a group meanwhile.
OnlyListedGroups ==
    \A c \in Clients \ Pullers, g \in Groups :
        (\/ stored[c][g] > 0 \/ clientSync[g][c].exists
         \/ snapshot[g].owner = c \/ g \in managed[c])
            => g \in Joined[c]

\* The error a row shows is that of a revision which the client that reported
\* it has still not applied.
ErrorShownIsOutstanding ==
    \A g \in Groups :
        snapshot[g].status = "error" =>
            \E c \in Clients :
                /\ clientSync[g][c].exists
                /\ clientSync[g][c].applied < clientSync[g][c].failed
                /\ clientSync[g][c].failed <= snapshot[g].revision

\* A Windows client never writes an older portal revision over a newer one.
StoredNeverRegresses ==
    [][\A c \in Clients, g \in Groups : stored'[c][g] >= stored[c][g]]_vars

\* Whatever becomes of the sources and the web account, a group comes to be
\* shown as synchronized too soon in one way only: its row leaves a protected
\* state with an applied revision recorded for the row, not for its clients.
TooSoonOnlyByRecovery ==
    [][\A g \in Groups :
        ShownTooSoon(g)' /\ ~ShownTooSoon(g) =>
            /\ snapshot[g].status \in {"protected", "partial"}
            /\ snapshot[g].applied >= snapshot'[g].revision]_vars

\* Only an accepted manual pull takes back what a client acknowledged.
CursorOnlyReopenedByPull ==
    [][\A g \in Groups, c \in Clients :
        clientSync'[g][c].applied < clientSync[g][c].applied
            => /\ clientSync'[g][c].pulling
               /\ \E q \in sent \union late :
                    q.kind = "pull" /\ q.group = g /\ q.from = c]_vars

\* Whatever happens on the network and to the clients, each group is such a
\* register.
ImplementsRegister ==
    /\ \A g \in Groups : Register(g)!RegisterInit
    /\ [][\A g \in Groups :
            Register(g)!RegisterNext \/ UNCHANGED Register(g)!registerVars]_vars

\* A client that stays enrolled in a claimed group confirms the current
\* revision again and again, whatever is lost, failed or reopened meanwhile.
EveryRevisionConfirmed ==
    \A g \in Groups, c \in Clients :
        <>[](g \in bound /\ c \notin blocked /\ clientSync[g][c].exists)
            => []<>(clientSync[g][c].applied >= snapshot[g].revision)

=============================================================================
