----------------------------- MODULE LicenseCards -----------------------------
(***************************************************************************)
(* License cards and group authorizations (auth/manager.py, the owner and  *)
(* customer commands of main.py) and their image on the Linux portal       *)
(* (qqadmin/web_sync.py, web_client/remote_store.py).                      *)
(*                                                                         *)
(* Everything lives in one file, auth.json, that every operation reads     *)
(* whole and writes whole.  The operations of one process exclude each     *)
(* other (_auth_lock is a threading.RLock); the web portal started with    *)
(* JOKER_WEB_DATA_MODE=local is another process that shares the file.      *)
(* A read that fails yields an empty default; a write that fails leaves    *)
(* the file as it was.                                                     *)
(*                                                                         *)
(* A card is abstracted to a model value with its duration and the group   *)
(* in its signature; a record's user and activation time are left out, and *)
(* of its number of days only "-1" is kept.  Every group is claimed by a   *)
(* web account, so the scoped exchange reports it.                         *)
(***************************************************************************)
EXTENDS Integers, FiniteSets

CONSTANTS
    Groups,       \* QQ group identifiers, all claimed on the portal
    Cards,        \* the cards that may ever be generated
    NoCard,       \* a MANUAL_ or PORTAL_SYNC_ marker instead of a card
    NoGroup,      \* "no group"
    DaysOf,       \* the duration in a card's name, Forever for a permanent one
    BoundTo,      \* the group in a card's signature, NoGroup for any
    Periods,      \* the day counts an owner enters
    Day,          \* clock units per day
    Retention,    \* clock units an expired authorization is kept
    Legacy,       \* groups that start with a manual authorization
    Commands,     \* what the owner, the customers and the loops do
    LocalPortal,  \* TRUE: the portal runs in local mode beside the bot
    ReadFails,    \* TRUE: a read of auth.json may fail
    WriteFails,   \* TRUE: a write of auth.json or a group file may fail
    MaxNow,       \* bound: the clock
    MaxExpire     \* bound: expiry times

Forever == -1

ASSUME CardsAssumption ==
    /\ NoCard \notin Cards
    /\ NoGroup \notin Groups
    /\ DaysOf \in [Cards -> {Forever} \cup (Nat \ {0})]
    /\ BoundTo \in [Cards -> Groups \cup {NoGroup}]
    /\ Periods \subseteq {Forever} \cup (Nat \ {0})
    /\ Day \in Nat \ {0}
    /\ Retention \in Nat
    /\ Legacy \subseteq Groups
    /\ LocalPortal \in BOOLEAN
    /\ ReadFails \in BOOLEAN
    /\ WriteFails \in BOOLEAN
    /\ MaxNow \in Nat \ {0}
    /\ MaxExpire \in Nat \ {0}
    /\ MaxNow - 1 <= MaxExpire

Processes == {"bot"} \cup (IF LocalPortal THEN {"web"} ELSE {})
Expires == {Forever} \cup 0 .. MaxExpire

VARIABLES
    file,        \* auth.json
    marked,      \* the .portal_auth_initialized file exists
    copy,        \* what each process has read for the operation it is in
    configured,  \* groups with a local configuration file
    minted,      \* cards generated so far
    signed,      \* those that verify under the configured token
    now,         \* the clock
    told,        \* the card the owner was last shown
    mirror,      \* the portal's authorization columns of each group
    pulling,     \* the group whose configuration the owner asked back
    answer       \* the authorization in the exchange answer being applied

cardVars == <<file, marked, copy, configured, minted, signed, now, told,
              mirror, pulling, answer>>
portalVars == <<mirror, pulling, answer>>

------------------------------------------------------------------------------
(* The file and what the operations make of it.                            *)

Unlisted == [listed |-> FALSE, expire |-> 0, key |-> NoCard, lifelong |-> FALSE]
NotUsed == [group |-> NoGroup, expire |-> 0]
Nothing == [group |-> NoGroup]

Empty == [unused |-> {}, used |-> [c \in Cards |-> NotUsed],
          groups |-> [g \in Groups |-> Unlisted]]

Idle == [unused |-> {}]

Used(d) == {c \in Cards : d.used[c].group # NoGroup}
Listed(d) == {g \in Groups : d.groups[g].listed}

Authorization(expire, key, lifelong) ==
    [listed |-> TRUE, expire |-> expire, key |-> key, lifelong |-> lifelong]

\* The group's record names a used card of this group.
HasCard(d, g) ==
    /\ d.groups[g].key # NoCard
    /\ d.used[d.groups[g].key].group = g

\* ... that still verifies under the configured token.
HasValidCard(d, g) == HasCard(d, g) /\ d.groups[g].key \in signed

Later(expire, days) ==
    IF days = Forever THEN Forever
    ELSE (IF expire > now THEN expire ELSE now) + days * Day

\* Mutant of WithCard: the activated card stays on the unused list.
WithCardKept(d, g, c, expire) ==
    [d EXCEPT !.used[c] = [group |-> g, expire |-> expire],
              !.groups[g] = Authorization(expire, c, expire = Forever)]

\* Record an activated card as the current one of its group.
WithCard(d, g, c, expire) ==
    [unused |-> d.unused \ {c},
     used   |-> [d.used EXCEPT ![c] = [group |-> g, expire |-> expire]],
     groups |-> [d.groups EXCEPT
                    ![g] = Authorization(expire, c, expire = Forever)]]

\* A replacement takes the group's former card off the used list.
Replaced(d, g) ==
    IF HasCard(d, g) THEN [d EXCEPT !.used[d.groups[g].key] = NotUsed] ELSE d

\* Mutant of WithExpire: the card's own record is forgotten.
WithExpireAlone(d, g, expire, lifelong) ==
    [d EXCEPT !.groups[g] = Authorization(expire, d.groups[g].key, lifelong)]

\* Change the expiry, and that of the group's current card with it.
WithExpire(d, g, expire, lifelong) ==
    [d EXCEPT
        !.groups[g] = Authorization(expire, d.groups[g].key, lifelong),
        !.used = IF HasCard(d, g)
                 THEN [d.used EXCEPT
                        ![d.groups[g].key] = [group |-> g, expire |-> expire]]
                 ELSE d.used]

Without(d, gs) ==
    [d EXCEPT !.groups = [g \in Groups |->
                            IF g \in gs THEN Unlisted ELSE d.groups[g]]]

\* Mutant of UsedDeleted: the groups the cards are current for stay.
UsedForgotten(d) == [d EXCEPT !.used = [c \in Cards |-> NotUsed]]

\* Forget the used cards, and revoke the groups they are current for.
UsedDeleted(d) ==
    [Without(d, {g \in Groups : d.groups[g].key \in Used(d)})
        EXCEPT !.used = [c \in Cards |-> NotUsed]]

\* Mutant of GrantedExpire: a permanent record is extended like any other.
GrantedAnyway(d, g, days) == Later(d.groups[g].expire, days)

GrantedExpire(d, g, days) ==
    IF d.groups[g].expire = Forever THEN Forever
    ELSE Later(d.groups[g].expire, days)

\* Mutant of ReducedExpire: the expiry is not clamped to the past.
ReducedFreely(d, g, days) == d.groups[g].expire - days * Day

ReducedExpire(d, g, days) ==
    IF d.groups[g].expire - days * Day < now THEN now - 1
    ELSE d.groups[g].expire - days * Day

\* What a pull restores: the portal's record, under the card kept locally.
RestoredExpire(a) ==
    IF a.expire = Forever THEN Forever
    ELSE IF a.state = "unverified" THEN 0 ELSE a.expire

Restored(d, g, a) ==
    IF a.state = "missing" THEN Without(d, {g})
    ELSE [d EXCEPT !.groups[g] = Authorization(RestoredExpire(a),
                                    d.groups[g].key, d.groups[g].lifelong)]

------------------------------------------------------------------------------
(* Reading and writing.                                                    *)

Readings == {file} \cup (IF ReadFails THEN {Empty} ELSE {})
Outcomes == {TRUE} \cup (IF WriteFails THEN {FALSE} ELSE {})

Enabled(name) == name \in Commands

\* A process is in the middle of the named operation.
In(p, name) == p \in Processes /\ Enabled(name) /\ copy[p] # Idle

Load(p) ==
    /\ copy[p] = Idle
    /\ \E d \in Readings :
        /\ copy' = [copy EXCEPT ![p] = d]
        /\ marked' = (marked \/ Listed(d) # {})
    /\ told' = IF p = "bot" THEN Nothing ELSE told
    /\ UNCHANGED <<file, configured, minted, signed, now, portalVars>>

\* save_auth_data: an error is logged and the operation goes on.
Save(p, d, stored) ==
    /\ file' = IF stored THEN d ELSE file
    /\ marked' = (marked \/ (stored /\ Listed(d) # {}))
    /\ copy' = [copy EXCEPT ![p] = Idle]

\* _atomic_write_json where the caller reports the error.
Write(p, d, stored) ==
    /\ file' = IF stored THEN d ELSE file
    /\ copy' = [copy EXCEPT ![p] = Idle]
    /\ UNCHANGED marked

\* The operation refuses, or finds nothing to change.
Decline(p) ==
    /\ copy[p] # Idle
    /\ copy' = [copy EXCEPT ![p] = Idle]
    /\ UNCHANGED <<file, marked, configured, minted, signed, now, told,
                   portalVars>>

------------------------------------------------------------------------------
(* Cards that nobody has used yet.                                         *)

Generate(p) ==
    /\ In(p, "generate")
    /\ \E c \in Cards \ minted, stored \in Outcomes :
        /\ BoundTo[c] = NoGroup
        /\ Save(p, [copy[p] EXCEPT !.unused = @ \cup {c}], stored)
        /\ minted' = minted \cup {c}
        /\ signed' = signed \cup {c}
    /\ UNCHANGED <<configured, now, told, portalVars>>

RemoveUnused ==
    /\ In("web", "remove")
    /\ \E c \in copy["web"].unused, stored \in Outcomes :
        Save("web", [copy["web"] EXCEPT !.unused = @ \ {c}], stored)
    /\ UNCHANGED <<configured, minted, signed, now, told, portalVars>>

Activatable(d, g, c) ==
    /\ BoundTo[c] \in {NoGroup, g}
    /\ c \in signed
    /\ c \notin Used(d)
    /\ c \in d.unused
    /\ d.groups[g].expire # Forever

Activate(g) ==
    /\ In("bot", "activate")
    /\ \E c \in Cards, stored \in Outcomes :
        LET expire == Later(copy["bot"].groups[g].expire, DaysOf[c])
        IN  /\ Activatable(copy["bot"], g, c)
            /\ expire \in Expires
            /\ Write("bot", WithCard(copy["bot"], g, c, expire), stored)
            /\ configured' = IF stored THEN configured \cup {g} ELSE configured
    /\ UNCHANGED <<minted, signed, now, told, portalVars>>

------------------------------------------------------------------------------
(* The owner's grants.                                                     *)

\* The owner is shown a card and its expiry; a marker is not a card.
Tell(g, c, expire) ==
    told' = IF c = NoCard THEN Nothing
            ELSE [group |-> g, card |-> c, expire |-> expire]

\* Mutant of Issue: the card is shown although its record was not saved.
IssueShown(g, expire, stored) ==
    \E c \in Cards \ minted :
        /\ BoundTo[c] = g
        /\ (DaysOf[c] = Forever) = (expire = Forever)
        /\ Write("bot", WithCard(Replaced(copy["bot"], g), g, c, expire),
                 stored)
        /\ minted' = minted \cup {c}
        /\ signed' = signed \cup {c}
        /\ Tell(g, c, expire)

\* A card made for the group replaces what its record named.
Issue(g, expire, stored) ==
    \E c \in Cards \ minted :
        /\ BoundTo[c] = g
        /\ (DaysOf[c] = Forever) = (expire = Forever)
        /\ Write("bot", WithCard(Replaced(copy["bot"], g), g, c, expire),
                 stored)
        /\ minted' = minted \cup {c}
        /\ signed' = signed \cup {c}
        /\ IF stored THEN Tell(g, c, expire) ELSE told' = Nothing

Keep(g, expire, lifelong, stored) ==
    /\ Write("bot", WithExpire(copy["bot"], g, expire, lifelong), stored)
    /\ IF stored THEN Tell(g, copy["bot"].groups[g].key, expire)
       ELSE told' = Nothing
    /\ UNCHANGED <<minted, signed>>

\* The grant commands, and "add time" for a group without a current card.
Grant(g) ==
    /\ In("bot", "grant")
    /\ \E days \in Periods, stored \in Outcomes :
        LET expire == GrantedExpire(copy["bot"], g, days)
        IN  /\ expire \in Expires
            /\ IF HasValidCard(copy["bot"], g)
               THEN Keep(g, expire, expire = Forever, stored)
               ELSE Issue(g, expire, stored)
            /\ configured' = IF stored THEN configured \cup {g} ELSE configured
    /\ UNCHANGED <<now, portalVars>>

\* A card for an old manual grant, without extra days.
Reissue(g) ==
    /\ In("bot", "reissue")
    /\ copy["bot"].groups[g].listed
    /\ \E stored \in Outcomes :
        LET r == copy["bot"].groups[g]
        IN  IF HasValidCard(copy["bot"], g)
            THEN Keep(g, r.expire, r.lifelong, stored)
            ELSE Issue(g, r.expire, stored)
    /\ UNCHANGED <<configured, now, portalVars>>

\* "Add time": the handler's own reads found a current card of the group.
AddTime(g) ==
    /\ In("bot", "add")
    /\ \E days \in Periods, stored \in Outcomes, seen \in Readings :
        LET r == copy["bot"].groups[g]
            expire == GrantedExpire(copy["bot"], g, days)
            made == IF r.listed
                    THEN WithExpire(copy["bot"], g, expire, days = Forever)
                    ELSE [copy["bot"] EXCEPT
                            !.groups[g] = Authorization(Forever, NoCard, TRUE)]
        IN  /\ HasCard(seen, g)
            /\ r.listed \/ days = Forever
            /\ expire \in Expires
            /\ IF r.listed /\ r.expire = Forever /\ days # Forever
               THEN Save("bot", file, FALSE)
               ELSE Save("bot", made, stored)
            /\ Tell(g, file'.groups[g].key, file'.groups[g].expire)
    /\ UNCHANGED <<configured, minted, signed, now, portalVars>>

ReduceTime(g) ==
    /\ In("bot", "reduce")
    /\ copy["bot"].groups[g].listed
    /\ copy["bot"].groups[g].expire # Forever
    /\ \E days \in Periods \ {Forever}, stored \in Outcomes :
        Save("bot", WithExpire(copy["bot"], g,
                        ReducedExpire(copy["bot"], g, days), FALSE), stored)
    /\ UNCHANGED <<configured, minted, signed, now, told, portalVars>>

------------------------------------------------------------------------------
(* Taking authorizations away.                                             *)

\* The configuration file goes first; the record stays when that fails.
PowerOff(g) ==
    \/ /\ configured' = configured \ {g}
       /\ \E stored \in Outcomes :
            Save("bot", Without(copy["bot"], {g}), stored)
    \/ /\ WriteFails
       /\ configured' \in {configured, configured \ {g}}
       /\ Save("bot", file, FALSE)

Deauthorize(g) ==
    /\ In("bot", "deauthorize")
    /\ copy["bot"].groups[g].listed
    /\ PowerOff(g)
    /\ UNCHANGED <<minted, signed, now, told, portalVars>>

Lapsed(r) ==
    /\ r.listed
    /\ r.expire # Forever
    /\ ~r.lifelong
    /\ r.expire <= now
    /\ now - r.expire >= Retention

CleanUp(g) ==
    /\ In("bot", "cleanup")
    /\ Lapsed(copy["bot"].groups[g])
    /\ PowerOff(g)
    /\ UNCHANGED <<minted, signed, now, told, portalVars>>

DeleteUsed ==
    /\ In("bot", "delete_used")
    /\ \E stored \in Outcomes : Save("bot", UsedDeleted(copy["bot"]), stored)
    /\ UNCHANGED <<configured, minted, signed, now, told, portalVars>>

DeleteAll ==
    /\ In("bot", "delete_all")
    /\ \E stored \in Outcomes :
        Save("bot", [UsedDeleted(copy["bot"]) EXCEPT !.unused = {}], stored)
    /\ UNCHANGED <<configured, minted, signed, now, told, portalVars>>

------------------------------------------------------------------------------
(* The portal's image of the authorizations.                               *)

Missing == [state |-> "missing", expire |-> 0]

\* _authorization_payload_from_info: no time at all is no authorization.
Projected(r) ==
    IF r.expire = 0 THEN Missing ELSE [state |-> "known", expire |-> r.expire]

\* What the portal believes before it looks at the groups of this exchange.
Doubted(complete) ==
    [g \in Groups |->
        IF ~complete /\ mirror[g].state # "missing"
        THEN [mirror[g] EXCEPT !.state = "unverified"] ELSE mirror[g]]

\* The groups the client has something to say about.
Reported(complete) ==
    IF complete THEN configured \cup Listed(file) ELSE {}

Exchange(complete) ==
    /\ mirror' = [g \in Groups |->
                    IF g \in Reported(complete) THEN Projected(file.groups[g])
                    ELSE Doubted(complete)[g]]
    /\ answer' = IF pulling = NoGroup THEN Nothing
                 ELSE [group |-> pulling, auth |-> Doubted(complete)[pulling]]

\* One exchange with a readable group directory.
Synchronize ==
    /\ Enabled("exchange")
    /\ answer = Nothing
    /\ \E d \in Readings :
        /\ marked' = (marked \/ Listed(d) # {})
        /\ Exchange(d = file /\ marked')
    /\ UNCHANGED <<file, copy, configured, minted, signed, now, told, pulling>>

RequestPull(g) ==
    /\ Enabled("pull")
    /\ pulling = NoGroup
    /\ pulling' = g
    /\ UNCHANGED <<file, marked, copy, configured, minted, signed, now, told,
                   mirror, answer>>

\* The client applies the answer; what it cannot read back it asks for again.
Restore ==
    /\ In("bot", "pull")
    /\ answer # Nothing
    /\ \E stored \in Outcomes :
        /\ Save("bot", Restored(copy["bot"], answer.group, answer.auth), stored)
        /\ \E seen \in {file'} \cup (IF ReadFails THEN {Empty} ELSE {}) :
            LET applied ==
                    IF answer.auth.state = "missing"
                    THEN ~seen.groups[answer.group].listed
                    ELSE /\ seen.groups[answer.group].listed
                         /\ seen.groups[answer.group].expire
                                = RestoredExpire(answer.auth)
            IN  /\ configured' = IF applied THEN configured \cup {answer.group}
                                 ELSE configured
                /\ pulling' = IF applied THEN NoGroup ELSE pulling
    /\ answer' = Nothing
    /\ UNCHANGED <<minted, signed, now, told, mirror>>

------------------------------------------------------------------------------
\* The owner changes the token that signs cards.
Retoken ==
    /\ Enabled("retoken")
    /\ signed' = {}
    /\ UNCHANGED <<file, marked, copy, configured, minted, now, told,
                   portalVars>>

Tick ==
    /\ now < MaxNow
    /\ now' = now + 1
    /\ UNCHANGED <<file, marked, copy, configured, minted, signed, told,
                   portalVars>>

CardsInit ==
    /\ file = [Empty EXCEPT !.groups = [g \in Groups |->
                IF g \in Legacy THEN Authorization(MaxExpire, NoCard, FALSE)
                ELSE Unlisted]]
    /\ marked = FALSE
    /\ copy = [p \in Processes |-> Idle]
    /\ configured = Legacy
    /\ minted = {}
    /\ signed = {}
    /\ now = 1
    /\ told = Nothing
    /\ mirror = [g \in Groups |-> Missing]
    /\ pulling = NoGroup
    /\ answer = Nothing

CardsNext ==
    \/ \E p \in Processes : Load(p) \/ Decline(p) \/ Generate(p)
    \/ RemoveUnused
    \/ \E g \in Groups :
        \/ Activate(g)
        \/ Grant(g)
        \/ Reissue(g)
        \/ AddTime(g)
        \/ ReduceTime(g)
        \/ Deauthorize(g)
        \/ CleanUp(g)
        \/ RequestPull(g)
    \/ DeleteUsed
    \/ DeleteAll
    \/ Synchronize
    \/ Restore
    \/ Retoken
    \/ Tick

CardsSpec == CardsInit /\ [][CardsNext]_cardVars

------------------------------------------------------------------------------
(* The life of one card.                                                   *)

StateOf(c) ==
    CASE c \notin minted -> "new"
      [] c \in minted /\ c \in file.unused -> "unused"
      [] c \in minted \ file.unused /\ c \in Used(file) -> "used"
      [] OTHER -> "gone"

Life(c) == INSTANCE CardLife WITH state <- StateOf(c),
                                  holder <- file.used[c].group

------------------------------------------------------------------------------
(* Properties.                                                             *)

\* The shape of auth.json.
Data == [unused : SUBSET Cards,
         used   : [Cards -> [group : Groups \cup {NoGroup}, expire : Expires]],
         groups : [Groups -> [listed : BOOLEAN, expire : Expires,
                              key : Cards \cup {NoCard}, lifelong : BOOLEAN]]]

Records == [state : {"missing", "known", "unverified"}, expire : Expires]

\* Every variable keeps its type; above all no operation writes an expiry
\* that means something else than the time it was meant to be.
TypeOK ==
    /\ file \in Data
    /\ marked \in BOOLEAN
    /\ copy \in [Processes -> Data \cup {Idle}]
    /\ configured \subseteq Groups
    /\ minted \subseteq Cards
    /\ signed \subseteq minted
    /\ now \in 1 .. MaxNow
    /\ told \in {Nothing} \cup
                [group : Groups, card : Cards, expire : Expires]
    /\ mirror \in [Groups -> Records]
    /\ pulling \in Groups \cup {NoGroup}
    /\ answer \in {Nothing} \cup [group : Groups, auth : Records]

Consistent(d) ==
    /\ d.unused \cap Used(d) = {}
    /\ \A g \in Groups : d.groups[g].key # NoCard => HasCard(d, g)

\* No card is both unused and used, and the card a group is authorized by is
\* on the used list for this group: a card backs one group at most, and
\* deleting the used cards finds every group they back.  Every one of the
\* operations, and any mixture of copies of two processes, keeps it so.
CardsConsistent == Consistent(file)

\* The expiry shown with a group's current card is the group's own
\* (_sync_current_card_expire), as long as nothing is pulled back.
CardViewInStep ==
    \A g \in Groups :
        HasCard(file, g) =>
            file.used[file.groups[g].key].expire = file.groups[g].expire

\* No command makes a permanent authorization a timed one; it may only be
\* taken away (authorize_group_with_card, add_auth_time, reduce_auth_time).
PermanentNeverDowngraded ==
    [][\A g \in Listed(file) \cap Listed(file)' :
            file.groups[g].expire = Forever =>
                file'.groups[g].expire = Forever]_cardVars

\* Every card has one life: it is activated by one group at most, an activated
\* card does not come back to the unused list and does not change its group,
\* and a card that is gone stays gone (activate_unused_license_key,
\* authorize_group_with_card, delete_used_keys).
ImplementsCardLife ==
    /\ \A c \in Cards : Life(c)!LifeInit
    /\ [][\A c \in Cards :
            Life(c)!LifeNext \/ UNCHANGED Life(c)!lifeVars]_cardVars

\* The card and the expiry shown to the owner are those the file holds for
\* the group: a card is never shown when its record was not saved.
ShownCardIsStored ==
    [][told' \notin {Nothing, told} =>
        /\ file'.used[told'.card].group = told'.group
        /\ file'.groups[told'.group].key = told'.card
        /\ file'.groups[told'.group].expire = told'.expire]_cardVars

===============================================================================
