------------------------- MODULE PortalActionsProofs -------------------------
(***************************************************************************)
(* Proofs about PortalActions, for any number of clients, requests and     *)
(* members, and any limits of the queue and of the claims.                 *)
(***************************************************************************)
EXTENDS PortalActions, TLAPS

Works == [phase : {"idle", "merge", "run", "record", "again", "last", "ack"},
          rev : Nat, todo : SUBSET Actions, known : [Users -> Nat]]

\* Between the judgement of a batch and the save of what it arrived with.
Running(c) == client[c].phase \in {"run", "record", "again", "last"}

-----------------------------------------------------------------------------
(* Types.                                                                  *)

LEMMA WorkFields ==
    ASSUME NEW w \in Works, NEW todo \in SUBSET Actions, NEW known \in [Users -> Nat],
           NEW phase \in {"record", "again", "last"}
    PROVE  /\ [w EXCEPT !.phase = "run", !.todo = todo, !.known = known] \in Works
           /\ [w EXCEPT !.phase = phase] \in Works
           /\ [w EXCEPT !.phase = "run", !.todo = todo] \in Works
           /\ [w EXCEPT !.phase = "ack", !.known = known] \in Works
  BY DEF Works

LEMMA NoTimesType == NoTimes \in [Users -> Nat]
  BY DEF NoTimes

LEMMA IdleType == Idle \in Works
  BY NoTimesType DEF Idle, Works

LEMMA ExchangeType ==
    ASSUME NEW rev \in Nat, NEW todo \in SUBSET Actions
    PROVE  [phase |-> "merge", rev |-> rev, todo |-> todo, known |-> NoTimes] \in Works
  BY NoTimesType DEF Works

\* A step of one client, that leaves the portal alone.
LEMMA ClientType ==
    ASSUME TypeOK, NEW c \in Clients, NEW w \in Works, SetClient(c, w)
    PROVE  client' \in [Clients -> Works]
  BY DEF SetClient, TypeOK, Works

LEMMA TypesOfClient ==
    ASSUME TypeOK, NEW c \in Clients
    PROVE  /\ client \in [Clients -> Works] /\ client[c] \in Works
           /\ client[c].rev \in Nat /\ client[c].todo \in SUBSET Actions
           /\ client[c].known \in [Users -> Nat]
  BY DEF TypeOK, Works

\* The portal has a first revision, and the clock has started.
Started == TypeOK /\ revision > 0 /\ now > 0

LEMMA InitTypes == Init => Started
  <1> SUFFICES ASSUME Init PROVE Started
    OBVIOUS
  <1>1. client \in [Clients -> Works]
    BY IdleType DEF Init
  <1> QED
    BY <1>1, NoTimesType DEF Init, TypeOK, Works, Started

LEMMA PortalTypes ==
    ASSUME Started,
           \/ \E a \in Actions : QueueMemberAction(a) \/ SavePrefix(a)
           \/ SaveSettings \/ Tick \/ \E c \in Clients : RequestPull(c)
    PROVE  Started'
  <1> USE DEF portalVars, recordVars, clientVars, boundVars
  <1>1. CASE \E a \in Actions : QueueMemberAction(a) \/ SavePrefix(a)
    <2>1. PICK a \in Actions, others \in SUBSET queue : \E n : Add(a, others, n)
      BY <1>1 DEF QueueMemberAction, SavePrefix
    <2>2. /\ created' \in [Actions -> Nat] /\ addedIn' \in [Actions -> Nat]
          /\ revision' \in Nat /\ revision' > 0
      BY <2>1 DEF Add, Started, TypeOK
    <2>3. queue' \subseteq Actions /\ dropped' \subseteq Actions
      BY <2>1 DEF Add, Newest, Started, TypeOK
    <2> QED
      BY <2>1, <2>2, <2>3 DEF Add, Started, TypeOK
  <1>2. CASE SaveSettings
    BY <1>2 DEF SaveSettings, SaveWith, Started, TypeOK
  <1>3. CASE Tick
    BY <1>3 DEF Tick, Started, TypeOK
  <1>4. CASE \E c \in Clients : RequestPull(c)
    BY <1>4 DEF RequestPull, Started, TypeOK
  <1> QED
    BY <1>1, <1>2, <1>3, <1>4

LEMMA ChosenThere ==
    ASSUME NEW c \in Clients, NEW S
    PROVE  Chosen(c, S) \subseteq S
  BY DEF Chosen

LEMMA ChooseTypes ==
    ASSUME Started, NEW c \in Clients, Choose(c)
    PROVE  Started'
  <1> USE DEF portalVars, recordVars, boundVars
  <1> DEFINE received == {a \in client[c].todo : Young(a)}
             picked == Chosen(c, received)
  <1>1. client[c] \in Works /\ client[c].todo \in SUBSET Actions
    BY TypesOfClient DEF Started
  <1>2. received \in SUBSET Actions /\ picked \in SUBSET Actions
    BY <1>1, ChosenThere
  <1>3. PICK todo \in SUBSET Actions, done \in SUBSET Actions :
            /\ client' = [client EXCEPT ![c] =
                   [client[c] EXCEPT !.phase = "run", !.todo = todo, !.known = muteList[c]]]
            /\ handled' = [handled EXCEPT ![c] = handled[c] \union done]
    BY <1>2 DEF Choose, SetClient
  <1>4. claims' = [claims EXCEPT ![c] =
                       [a \in Actions |-> IF a \in picked THEN now ELSE claims[c][a]]]
    BY DEF Choose
  <1>5. chosen' = [chosen EXCEPT ![c] =
             [a \in Actions |-> IF a \in picked THEN chosen[c][a] + 1 ELSE chosen[c][a]]]
    BY DEF Choose
  <1> HIDE DEF picked, received
  <1>6. now \in Nat /\ muteList[c] \in [Users -> Nat]
    BY DEF Started, TypeOK
  <1>7. client' \in [Clients -> Works]
    BY <1>1, <1>3, <1>6, WorkFields DEF Started, TypeOK, Works
  <1>8. claims' \in [Clients -> [Actions -> Nat]]
    BY <1>4, <1>6 DEF Started, TypeOK
  <1>9. chosen' \in [Clients -> [Actions -> Nat]]
    BY <1>5 DEF Started, TypeOK
  <1>10. handled' \in [Clients -> SUBSET Actions]
    BY <1>3 DEF Started, TypeOK
  <1> QED
    BY <1>7, <1>8, <1>9, <1>10 DEF Choose, Started, TypeOK, Works

LEMMA TimesField ==
    ASSUME NEW f \in [Clients -> [Users -> Nat]], NEW c \in Clients, NEW u \in Users,
           NEW v \in Nat
    PROVE  [f EXCEPT ![c][u] = v] \in [Clients -> [Users -> Nat]]
  <1>1. [f[c] EXCEPT ![u] = v] \in [Users -> Nat]
    OBVIOUS
  <1> QED
    BY <1>1

LEMMA RecordTypes ==
    ASSUME Started, NEW c \in Clients, NEW u \in Users, NEW kind,
           Noted(c, kind, u) \/ UNCHANGED recordVars
    PROVE  muteList' \in [Clients -> [Users -> Nat]] /\ overrides' \in [Clients -> [Users -> Nat]]
  <1>1. /\ muteList \in [Clients -> [Users -> Nat]] /\ overrides \in [Clients -> [Users -> Nat]]
        /\ now \in Nat /\ 0 \in Nat
    BY DEF Started, TypeOK
  <1>2. CASE UNCHANGED recordVars
    BY <1>1, <1>2 DEF recordVars
  <1>3. CASE Noted(c, kind, u)
    <2>1. PICK v \in {0, now}, w \in {0, now} : /\ muteList' = [muteList EXCEPT ![c][u] = v]
                                              /\ overrides' = [overrides EXCEPT ![c][u] = w]
      BY <1>3 DEF Noted
    <2> QED
      BY <1>1, <2>1, TimesField
  <1> QED
    BY <1>2, <1>3

LEMMA QQTypes ==
    ASSUME Started, NEW kind, NEW u \in Users, AtQQ(kind, u)
    PROVE  muted' \in [Users -> Nat]
  BY DEF AtQQ, Started, TypeOK

LEMMA RunTypes ==
    ASSUME Started, NEW c \in Clients, NEW a \in Actions, CallQQ(c, a) \/ Record(c, a)
    PROVE  Started'
  <1> USE DEF portalVars, boundVars
  <1> DEFINE rest == client[c].todo \ {a}
  <1>1. client[c] \in Works /\ rest \in SUBSET Actions /\ client[c].known \in [Users -> Nat]
    BY TypesOfClient DEF Started
  <1> HIDE DEF rest
  <1>2. /\ \A phase \in {"record", "again", "last"} : [client[c] EXCEPT !.phase = phase] \in Works
        /\ [client[c] EXCEPT !.phase = "run", !.todo = rest] \in Works
    BY <1>1, WorkFields
  <1>3. client' \in [Clients -> Works]
    <2>1. CASE \E phase \in {"record", "again", "last"} :
                   SetClient(c, [client[c] EXCEPT !.phase = phase])
      BY <1>2, <2>1, ClientType DEF Started
    <2>2. CASE SetClient(c, [client[c] EXCEPT !.phase = "run", !.todo = rest])
      BY <1>2, <2>2, ClientType DEF Started
    <2> QED
      BY <2>1, <2>2 DEF CallQQ, Record, rest
  <1>4. handled' \in [Clients -> SUBSET Actions]
    BY DEF CallQQ, Record, Started, TypeOK
  <1>5. UserOf[a] \in Users
    BY RequestAssumption
  <1>6. muted' \in [Users -> Nat]
    <2>1. UNCHANGED muted \/ AtQQ(KindOf[a], UserOf[a])
      BY DEF CallQQ, Record
    <2> QED
      BY <1>5, <2>1, QQTypes DEF Started, TypeOK
  <1>7. muteList' \in [Clients -> [Users -> Nat]] /\ overrides' \in [Clients -> [Users -> Nat]]
    <2>1. Noted(c, KindOf[a], UserOf[a]) \/ UNCHANGED recordVars
      BY DEF CallQQ, Record
    <2> QED
      BY <1>5, <2>1, RecordTypes
  <1> QED
    BY <1>3, <1>4, <1>6, <1>7 DEF CallQQ, Record, Started, TypeOK, Works

LEMMA ClientTypes ==
    ASSUME Started, NEW c \in Clients,
           Exchange(c) \/ SaveMerged(c) \/ Acknowledge(c) \/ Restart(c)
    PROVE  Started'
  <1> USE DEF portalVars, recordVars, boundVars
  <1>1. client[c] \in Works /\ queue \in SUBSET Actions /\ revision \in Nat /\ Idle \in Works
    BY TypesOfClient, IdleType DEF Started, TypeOK
  <1>2. client' \in [Clients -> Works]
    <2>1. [phase |-> "merge", rev |-> revision, todo |-> queue, known |-> NoTimes] \in Works
      BY <1>1, ExchangeType
    <2>2. [client[c] EXCEPT !.phase = "ack", !.known = NoTimes] \in Works
      BY <1>1, NoTimesType, WorkFields
    <2>3. \/ SetClient(c, [phase |-> "merge", rev |-> revision, todo |-> queue, known |-> NoTimes])
          \/ SetClient(c, [client[c] EXCEPT !.phase = "ack", !.known = NoTimes])
          \/ SetClient(c, Idle)
      BY DEF Exchange, SaveMerged, Acknowledge, Restart
    <2> QED
      BY <1>1, <2>1, <2>2, <2>3, ClientType DEF Started
  <1>3. cursor' \in [Clients -> Nat]
    <2>1. cursor \in [Clients -> Nat] /\ Confirmed(c) \in Nat
      BY <1>1 DEF Confirmed, Started, TypeOK, Works
    <2>2. cursor' = cursor \/ cursor' = [cursor EXCEPT ![c] = Confirmed(c)]
      BY DEF Exchange, SaveMerged, Acknowledge, Restart
    <2> QED
      BY <2>1, <2>2
  <1>4. /\ claims' \in [Clients -> [Actions -> Nat]] /\ chosen' \in [Clients -> [Actions -> Nat]]
        /\ overrides' \in [Clients -> [Users -> Nat]] /\ asked' \in [Clients -> SUBSET Commands]
    <2>1. [a \in Actions |-> 0] \in [Actions -> Nat] /\ NoTimes \in [Users -> Nat]
      BY NoTimesType
    <2>2. \/ UNCHANGED <<claims, chosen, overrides, asked>>
          \/ /\ claims' = [claims EXCEPT ![c] = [a \in Actions |-> 0]]
             /\ chosen' = [chosen EXCEPT ![c] = [a \in Actions |-> 0]]
             /\ overrides' = [overrides EXCEPT ![c] = NoTimes]
             /\ asked' = [asked EXCEPT ![c] = {}]
      BY DEF Exchange, SaveMerged, Acknowledge, Restart
    <2>3. /\ claims \in [Clients -> [Actions -> Nat]] /\ chosen \in [Clients -> [Actions -> Nat]]
          /\ overrides \in [Clients -> [Users -> Nat]] /\ asked \in [Clients -> SUBSET Commands]
      BY DEF Started, TypeOK
    <2>4. CASE UNCHANGED <<claims, chosen, overrides, asked>>
      BY <2>3, <2>4
    <2>5. CASE /\ claims' = [claims EXCEPT ![c] = [a \in Actions |-> 0]]
               /\ chosen' = [chosen EXCEPT ![c] = [a \in Actions |-> 0]]
               /\ overrides' = [overrides EXCEPT ![c] = NoTimes]
               /\ asked' = [asked EXCEPT ![c] = {}]
      <3>1. claims' \in [Clients -> [Actions -> Nat]] /\ chosen' \in [Clients -> [Actions -> Nat]]
        BY <2>1, <2>3, <2>5
      <3>2. overrides' \in [Clients -> [Users -> Nat]]
        BY <2>1, <2>3, <2>5
      <3>3. asked' \in [Clients -> SUBSET Commands]
        BY <2>3, <2>5
      <3> QED
        BY <3>1, <3>2, <3>3
    <2> QED
      BY <2>2, <2>4, <2>5
  <1>5. trouble' \in Nat /\ muteList' \in [Clients -> [Users -> Nat]]
    BY DEF Exchange, SaveMerged, Acknowledge, Restart, Started, TypeOK
  <1> QED
    BY <1>2, <1>3, <1>4, <1>5
       DEF Exchange, SaveMerged, Acknowledge, Restart, Started, TypeOK, Works

LEMMA LocalTypes ==
    ASSUME Started, NEW c \in Clients, NEW u \in Users, LocalMute(c, u) \/ LocalUnmute(c, u)
    PROVE  Started'
  <1> USE DEF portalVars, recordVars
  <1>1. PICK kind \in {"mute", "unmute"} : Ask(c, kind, u)
    BY DEF LocalMute, LocalUnmute
  <1>2. muted' \in [Users -> Nat]
    BY <1>1, QQTypes DEF Ask
  <1>3. asked' \in [Clients -> SUBSET Commands]
    BY <1>1 DEF Ask, Commands, Started, TypeOK
  <1> QED
    BY <1>1, <1>2, <1>3 DEF Ask, Started, TypeOK

LEMMA AnswerTypes ==
    ASSUME Started, NEW c \in Clients, NEW k \in Commands, LocalAnswer(c, k[1], k[2])
    PROVE  Started'
  <1> USE DEF portalVars, boundVars
  <1>1. k[2] \in Users
    BY DEF Commands
  <1>2. muteList' \in [Clients -> [Users -> Nat]] /\ overrides' \in [Clients -> [Users -> Nat]]
    BY <1>1, RecordTypes DEF LocalAnswer
  <1>3. asked' \in [Clients -> SUBSET Commands]
    BY DEF LocalAnswer, Started, TypeOK
  <1> QED
    BY <1>2, <1>3 DEF LocalAnswer, Started, TypeOK

LEMMA NextTypes ==
    ASSUME Started, [Next]_actionVars
    PROVE  Started'
  <1>1. CASE UNCHANGED actionVars
    BY <1>1 DEF actionVars, portalVars, recordVars, clientVars, boundVars, Started, TypeOK
  <1>2. CASE \E c \in Clients : ClientStep(c)
    BY <1>2, ChooseTypes, RunTypes, ClientTypes DEF ClientStep
  <1>3. CASE \E c \in Clients : RequestPull(c) \/ Restart(c)
    BY <1>3, PortalTypes, ClientTypes
  <1> QED
    BY <1>1, <1>2, <1>3, PortalTypes, LocalTypes, AnswerTypes DEF Next

THEOREM ActionTypesCorrect == Spec => []TypeOK
  <1>1. Started => TypeOK
    BY DEF Started
  <1> QED
    BY <1>1, InitTypes, NextTypes, PTL DEF Spec

-----------------------------------------------------------------------------
(* How requests, revisions and histories move in every step.               *)

\* A request that is there stays as it is; a new one is of now and of the
\* next revision.
Moves ==
    /\ now <= now' /\ revision <= revision' /\ dropped \subseteq dropped'
    /\ \A c \in Clients : handled[c] \subseteq handled'[c]
    /\ \A a \in Actions :
          \/ created'[a] = created[a] /\ addedIn'[a] = addedIn[a]
          \/ created[a] = 0 /\ created'[a] = now /\ addedIn'[a] = revision + 1
             /\ revision' = revision + 1

LEMMA AddMoves ==
    ASSUME Started, NEW a \in Actions, NEW others, NEW n, Add(a, others, n)
    PROVE  Moves
  <1> USE DEF clientVars
  <1>1. created \in [Actions -> Nat] /\ addedIn \in [Actions -> Nat]
    BY DEF Started, TypeOK
  <1>2. /\ created[a] = 0 /\ created'[a] = now /\ addedIn'[a] = revision + 1
        /\ revision' = revision + 1
        /\ \A b \in Actions : b # a => created'[b] = created[b] /\ addedIn'[b] = addedIn[b]
    BY <1>1 DEF Add
  <1>3. now' = now /\ revision <= revision' /\ dropped \subseteq dropped' /\ UNCHANGED handled
    BY <1>2 DEF Add, Started, TypeOK
  <1>4. now <= now'
    BY <1>3 DEF Started, TypeOK
  <1> QED
    BY <1>2, <1>3, <1>4 DEF Moves

LEMMA NextMoves ==
    ASSUME Started, [Next]_actionVars
    PROVE  Moves
  <1> USE DEF portalVars, clientVars, boundVars
  <1>1. now \in Nat /\ revision \in Nat /\ handled \in [Clients -> SUBSET Actions]
    BY DEF Started, TypeOK
  <1>2. CASE UNCHANGED <<now, portalVars>> /\ \A c \in Clients : handled[c] \subseteq handled'[c]
    BY <1>1, <1>2 DEF Moves
  <1>3. CASE UNCHANGED actionVars
    BY <1>2, <1>3 DEF actionVars
  <1>4. CASE \E a \in Actions : QueueMemberAction(a) \/ SavePrefix(a)
    BY <1>4, AddMoves DEF QueueMemberAction, SavePrefix
  <1>5. CASE SaveSettings
    BY <1>1, <1>5 DEF SaveSettings, SaveWith, Moves
  <1>6. CASE Tick
    BY <1>1, <1>6 DEF Tick, Moves
  <1>7. CASE \E c \in Clients : RequestPull(c) \/ Exchange(c) \/ SaveMerged(c)
                                \/ Acknowledge(c) \/ Restart(c)
    BY <1>2, <1>7 DEF RequestPull, Exchange, SaveMerged, Acknowledge, Restart
  <1>8. CASE \E c \in Clients : Choose(c)
    BY <1>1, <1>2, <1>8 DEF Choose
  <1>9. CASE \E c \in Clients, a \in Actions : CallQQ(c, a) \/ Record(c, a)
    BY <1>1, <1>2, <1>9 DEF CallQQ, Record
  <1>10. CASE \E c \in Clients, u \in Users : LocalMute(c, u) \/ LocalUnmute(c, u)
    BY <1>2, <1>10 DEF LocalMute, LocalUnmute, Ask
  <1>11. CASE \E c \in Clients, k \in Commands : LocalAnswer(c, k[1], k[2])
    BY <1>2, <1>11 DEF LocalAnswer
  <1> QED
    BY <1>3, <1>4, <1>5, <1>6, <1>7, <1>8, <1>9, <1>10, <1>11 DEF Next, ClientStep

\* What is over for a client.
Settled(c, a) == a \in handled[c] \/ a \in dropped \/ ~Young(a)

LEMMA StaleStays ==
    ASSUME Started, Started', Moves, NEW a \in Actions, created[a] # 0, ~Young(a)
    PROVE  ~Young(a)'
  <1>1. created'[a] = created[a] /\ now <= now'
    BY DEF Moves
  <1>2. now \in Nat /\ now' \in Nat /\ created[a] \in Nat /\ Horizon \in Nat
    BY LimitAssumption DEF Started, TypeOK
  <1> QED
    BY <1>1, <1>2 DEF Young

LEMMA SettledStays ==
    ASSUME Started, Started', Moves, NEW c \in Clients, NEW a \in Actions, created[a] # 0,
           Settled(c, a)
    PROVE  Settled(c, a)'
  BY StaleStays DEF Settled, Moves

-----------------------------------------------------------------------------
(* The queue holds what it should; nothing is ahead of its revision.       *)

QueueInv ==
    /\ queue \subseteq {a \in Actions : created[a] # 0}
    /\ \A a \in Actions : created[a] # 0 => a \in queue \/ a \in dropped \/ ~Young(a)
    /\ \A a \in Actions : created[a] <= now /\ addedIn[a] <= revision

LEMMA AddQueue ==
    ASSUME Started, Started', QueueInv, NEW a \in Actions, NEW others \in SUBSET queue, NEW n,
           Add(a, others, n)
    PROVE  QueueInv'
  <1> DEFINE kept == {a} \union Newest(n - 1, others)
  <1>1. kept \subseteq queue \union {a} /\ a \in kept
    BY DEF Newest
  <1>2. /\ created[a] = 0 /\ now' = now
        /\ queue' = {b \in kept : b = a \/ Young(b)}
        /\ dropped' = dropped \union {b \in queue : Young(b) /\ b \notin kept}
    BY DEF Add
  <1>3. /\ created \in [Actions -> Nat] /\ addedIn \in [Actions -> Nat]
        /\ now \in Nat /\ now > 0 /\ revision \in Nat
    BY DEF Started, TypeOK
  <1>4. /\ created'[a] = now /\ addedIn'[a] = revision + 1 /\ revision' = revision + 1
        /\ \A b \in Actions : b # a => created'[b] = created[b] /\ addedIn'[b] = addedIn[b]
    BY <1>3 DEF Add
  <1> HIDE DEF kept
  <1>5. queue' \subseteq {b \in Actions : created'[b] # 0}
    BY <1>1, <1>2, <1>3, <1>4 DEF QueueInv
  <1>6. \A b \in Actions : created'[b] # 0 => b \in queue' \/ b \in dropped' \/ ~Young(b)'
    <2> SUFFICES ASSUME NEW b \in Actions, created'[b] # 0, b # a, Young(b)'
                 PROVE  b \in queue' \/ b \in dropped'
      BY <1>1, <1>2
    <2>1. Young(b) /\ created[b] # 0
      BY <1>2, <1>4 DEF Young
    <2> QED
      BY <1>1, <1>2, <2>1 DEF QueueInv
  <1>7. \A b \in Actions : created'[b] <= now' /\ addedIn'[b] <= revision'
    <2> SUFFICES ASSUME NEW b \in Actions
                 PROVE  created'[b] <= now' /\ addedIn'[b] <= revision'
      OBVIOUS
    <2>1. CASE b = a
      BY <1>2, <1>3, <1>4, <2>1
    <2>2. CASE b # a
      <3>1. addedIn[b] \in Nat /\ addedIn[b] <= revision
        BY <1>3 DEF QueueInv
      <3> QED
        BY <1>2, <1>3, <1>4, <2>2, <3>1 DEF QueueInv
    <2> QED
      BY <2>1, <2>2
  <1> QED
    BY <1>5, <1>6, <1>7 DEF QueueInv

LEMMA SaveQueue ==
    ASSUME Started, QueueInv, SaveSettings
    PROVE  QueueInv'
  <1> USE DEF clientVars
  <1>1. /\ queue' = {a \in queue : Young(a)} /\ dropped \subseteq dropped'
        /\ revision' = revision + 1 /\ UNCHANGED <<now, created, addedIn>>
    BY DEF SaveSettings, SaveWith
  <1>2. \A a \in Actions : Young(a)' = Young(a)
    BY <1>1 DEF Young
  <1>3. \A a \in Actions : addedIn[a] \in Nat /\ revision \in Nat
    BY DEF Started, TypeOK
  <1>4. \A a \in Actions : created'[a] # 0 => a \in queue' \/ a \in dropped' \/ ~Young(a)'
    BY <1>1, <1>2 DEF QueueInv
  <1>5. \A a \in Actions : created'[a] <= now' /\ addedIn'[a] <= revision'
    BY <1>1, <1>3 DEF QueueInv
  <1> QED
    BY <1>1, <1>4, <1>5 DEF QueueInv

LEMMA TickQueue ==
    ASSUME Started, Started', QueueInv, Moves, Tick
    PROVE  QueueInv'
  <1> USE DEF portalVars
  <1>1. UNCHANGED <<revision, queue, created, addedIn, dropped>> /\ now' = now + 1 /\ now \in Nat
    BY DEF Tick, Started, TypeOK
  <1>2. \A a \in Actions : created[a] # 0 /\ ~Young(a) => ~Young(a)'
    BY StaleStays
  <1>3. \A a \in Actions : created[a] \in Nat
    BY DEF Started, TypeOK
  <1> QED
    BY <1>1, <1>2, <1>3 DEF QueueInv

LEMMA NextQueue ==
    ASSUME Started, Started', QueueInv, Moves, [Next]_actionVars
    PROVE  QueueInv'
  <1> USE DEF portalVars
  <1>1. CASE UNCHANGED <<now, portalVars>>
    BY <1>1 DEF QueueInv, Young
  <1>2. CASE UNCHANGED actionVars
    BY <1>1, <1>2 DEF actionVars
  <1>3. CASE \E a \in Actions : QueueMemberAction(a)
    BY <1>3, AddQueue DEF QueueMemberAction
  <1>4. CASE \E a \in Actions : SavePrefix(a)
    <2>1. PICK a \in Actions, others \in SUBSET queue : Add(a, others, PrefixLimit)
      BY <1>4 DEF SavePrefix
    <2> QED
      BY <2>1, AddQueue
  <1>5. CASE SaveSettings \/ Tick
    BY <1>5, SaveQueue, TickQueue
  <1>6. CASE \E c \in Clients : RequestPull(c) \/ ClientStep(c) \/ Restart(c)
    BY <1>1, <1>6 DEF RequestPull, ClientStep, Exchange, Choose, CallQQ, Record, SaveMerged,
                      Acknowledge, Restart
  <1>7. CASE \E c \in Clients, u \in Users : LocalMute(c, u) \/ LocalUnmute(c, u)
    BY <1>1, <1>7 DEF LocalMute, LocalUnmute, Ask
  <1>8. CASE \E c \in Clients, k \in Commands : LocalAnswer(c, k[1], k[2])
    BY <1>1, <1>8 DEF LocalAnswer
  <1> QED
    BY <1>2, <1>3, <1>4, <1>5, <1>6, <1>7, <1>8 DEF Next

-----------------------------------------------------------------------------
(* What a client still has to do covers what its revision carries.         *)

Work(c) ==
    /\ cursor[c] <= revision /\ client[c].rev <= revision
    /\ client[c].todo \subseteq {a \in Actions : created[a] # 0}
    /\ client[c].phase = "ack" => client[c].todo = {}
    /\ \A a \in Actions : client[c].phase # "idle" /\ created[a] # 0
                             /\ addedIn[a] <= client[c].rev
           => Settled(c, a) \/ a \in client[c].todo
    /\ \A a \in Actions : created[a] # 0 /\ addedIn[a] <= cursor[c] => Settled(c, a)

WorkInv == \A c \in Clients : Work(c)

\* A request that was not there is ahead of every revision that was.
LEMMA WasThere ==
    ASSUME Started, Moves, NEW a \in Actions, NEW k \in Nat, k <= revision,
           created'[a] # 0, addedIn'[a] <= k
    PROVE  created[a] # 0 /\ addedIn[a] <= k
  <1>1. revision \in Nat
    BY DEF Started, TypeOK
  <1>2. created'[a] = created[a] /\ addedIn'[a] = addedIn[a]
    BY <1>1 DEF Moves
  <1> QED
    BY <1>2

\* A client that has settled some of its work, and confirmed no more than that.
LEMMA WorkStep ==
    ASSUME Started, Started', Moves, NEW c \in Clients, Work(c),
           cursor'[c] <= cursor[c] \/ (client[c].phase = "ack" /\ cursor'[c] <= client[c].rev),
           client'[c].phase = "idle"
               \/ (client'[c].rev = client[c].rev /\ client[c].phase # "idle"),
           client'[c].rev <= revision',
           client'[c].todo \subseteq client[c].todo,
           \A a \in client[c].todo \ client'[c].todo :
               client'[c].phase # "idle" => Settled(c, a)',
           client'[c].phase = "ack" => client'[c].todo = {}
    PROVE  Work(c)'
  <1>1. /\ cursor[c] \in Nat /\ cursor'[c] \in Nat /\ revision \in Nat /\ revision' \in Nat
        /\ client[c].rev \in Nat /\ client'[c].rev \in Nat
        /\ revision <= revision'
    BY TypesOfClient DEF Started, TypeOK, Works, Moves
  <1>2. cursor'[c] <= revision'
    BY <1>1 DEF Work
  <1>3. client'[c].todo \subseteq {a \in Actions : created'[a] # 0}
    <2>1. \A a \in Actions : created[a] # 0 => created'[a] # 0
      BY DEF Moves
    <2> QED
      BY <2>1 DEF Work
  <1>4. ASSUME NEW a \in Actions, client'[c].phase # "idle", created'[a] # 0,
               addedIn'[a] <= client'[c].rev
        PROVE  Settled(c, a)' \/ a \in client'[c].todo
    <2>1. created[a] # 0 /\ addedIn[a] <= client[c].rev /\ client[c].phase # "idle"
      BY <1>1, <1>4, WasThere DEF Work
    <2>2. Settled(c, a) \/ a \in client[c].todo
      BY <2>1 DEF Work
    <2> QED
      BY <1>4, <2>1, <2>2, SettledStays
  <1>5. ASSUME NEW a \in Actions, created'[a] # 0, addedIn'[a] <= cursor'[c]
        PROVE  Settled(c, a)'
    <2>0. cursor'[c] <= revision
      BY <1>1 DEF Work
    <2>1. created[a] # 0 /\ addedIn[a] <= cursor'[c] /\ addedIn[a] \in Nat
      BY <1>1, <1>5, <2>0, WasThere DEF Started, TypeOK
    <2>2. CASE cursor'[c] <= cursor[c]
      <3>1. addedIn[a] <= cursor[c]
        BY <1>1, <2>1, <2>2
      <3> QED
        BY <2>1, <3>1, SettledStays DEF Work
    <2>3. CASE client[c].phase = "ack" /\ cursor'[c] <= client[c].rev
      <3>1. addedIn[a] <= client[c].rev
        BY <1>1, <2>1, <2>3
      <3>2. Settled(c, a)
        BY <2>1, <2>3, <3>1 DEF Work
      <3> QED
        BY <2>1, <3>2, SettledStays
    <2> QED
      BY <2>2, <2>3
  <1>6. client'[c].rev <= revision'
    OBVIOUS
  <1> QED
    BY <1>2, <1>3, <1>4, <1>5, <1>6 DEF Work

\* A client that has nothing to do.
LEMMA WorkIdle ==
    ASSUME Started, Started', Moves, NEW c \in Clients, Work(c),
           cursor'[c] <= cursor[c] \/ (client[c].phase = "ack" /\ cursor'[c] <= client[c].rev),
           client'[c].phase = "idle",
           client'[c].rev <= revision',
           client'[c].todo \subseteq client[c].todo
    PROVE  Work(c)'
  <1>1. \A a \in client[c].todo \ client'[c].todo :
            client'[c].phase # "idle" => Settled(c, a)'
    OBVIOUS
  <1>2. client'[c].phase = "ack" => client'[c].todo = {}
    OBVIOUS
  <1>3. \/ client'[c].phase = "idle"
        \/ client'[c].rev = client[c].rev /\ client[c].phase # "idle"
    OBVIOUS
  <1> QED
    BY <1>1, <1>2, <1>3, WorkStep

LEMMA WorkSame ==
    ASSUME Started, Started', Moves, NEW c \in Clients, Work(c), cursor'[c] <= cursor[c],
           client'[c] = client[c]
    PROVE  Work(c)'
  <1>1. /\ client[c].rev \in Nat /\ revision \in Nat
        /\ revision' \in Nat /\ now \in Nat /\ now' \in Nat
    BY TypesOfClient DEF Started, TypeOK
  <1>2. client'[c].rev <= revision'
    BY <1>1 DEF Work, Moves
  <1>3. /\ cursor[c] \in Nat /\ cursor'[c] \in Nat /\ revision <= revision'
    BY DEF Started, TypeOK, Moves
  <1>4. CASE client[c].phase # "idle"
    BY <1>2, <1>4, WorkStep DEF Work
  <1>5. CASE client[c].phase = "idle"
    BY <1>2, <1>5, WorkIdle
  <1> QED
    BY <1>4, <1>5

LEMMA ExchangeWork ==
    ASSUME Started, Started', QueueInv, Moves, NEW c \in Clients, Work(c), Exchange(c)
    PROVE  Work(c)'
  <1> USE DEF portalVars, boundVars
  <1>1. client' = [client EXCEPT ![c] =
                      [phase |-> "merge", rev |-> revision, todo |-> queue, known |-> NoTimes]]
        /\ UNCHANGED <<now, revision, queue, created, addedIn, dropped, cursor, handled>>
    BY DEF Exchange, SetClient
  <1>2. client'[c] = [phase |-> "merge", rev |-> revision, todo |-> queue, known |-> NoTimes]
    BY <1>1, TypesOfClient DEF Started
  <1>3. /\ client'[c].phase = "merge" /\ client'[c].rev = revision
        /\ client'[c].todo = queue
    BY <1>2
  <1>4. revision \in Nat /\ now \in Nat
    BY DEF Started, TypeOK
  <1>5. \A a \in Actions : Settled(c, a)' <=> Settled(c, a)
    BY <1>1 DEF Settled, Young
  <1>6. \A a \in Actions : created[a] # 0 => Settled(c, a) \/ a \in queue
    BY DEF QueueInv, Settled
  <1>7. queue \subseteq {a \in Actions : created[a] # 0}
    BY DEF QueueInv
  <1>8. /\ cursor'[c] <= revision' /\ client'[c].rev <= revision'
        /\ client'[c].todo \subseteq {a \in Actions : created'[a] # 0}
        /\ client'[c].phase # "ack"
    BY <1>1, <1>3, <1>4, <1>7 DEF Work
  <1>9. \A a \in Actions : created'[a] # 0 => Settled(c, a)' \/ a \in client'[c].todo
    BY <1>1, <1>3, <1>5, <1>6
  <1>10. \A a \in Actions : created'[a] # 0 /\ addedIn'[a] <= cursor'[c] => Settled(c, a)'
    BY <1>1, <1>5 DEF Work
  <1> QED
    BY <1>8, <1>9, <1>10 DEF Work

LEMMA ChooseWork ==
    ASSUME Started, Started', Moves, NEW c \in Clients, Work(c), Choose(c)
    PROVE  Work(c)'
  <1> USE DEF portalVars, boundVars
  <1> DEFINE received == {a \in client[c].todo : Young(a)}
             picked == Chosen(c, received)
  <1>1. /\ client[c].phase = "merge" /\ UNCHANGED <<now, revision, created, dropped, cursor>>
        /\ client[c] \in Works /\ client[c].todo \in SUBSET Actions
        /\ client[c].rev \in Nat /\ now \in Nat /\ revision \in Nat
        /\ cursor[c] \in Nat
    BY TypesOfClient DEF Choose, Started, TypeOK
  <1>2. picked \subseteq received /\ received \subseteq client[c].todo
    BY ChosenThere
  <1>10. \A a \in client[c].todo : a \in received <=> Young(a)
    OBVIOUS
  <1>11. \/ /\ SetClient(c, [client[c] EXCEPT !.phase = "run", !.todo = picked, !.known = muteList[c]])
            /\ handled' = [handled EXCEPT ![c] = handled[c] \union (received \ picked)]
         \/ /\ SetClient(c, [client[c] EXCEPT !.phase = "run", !.todo = {}, !.known = muteList[c]])
            /\ handled' = [handled EXCEPT ![c] = handled[c] \union received]
    BY DEF Choose
  <1> HIDE DEF received, picked
  <1>12. handled \in [Clients -> SUBSET Actions]
    BY DEF Started, TypeOK
  <1>3. PICK todo \in SUBSET picked :
            /\ client' = [client EXCEPT ![c] =
                   [client[c] EXCEPT !.phase = "run", !.todo = todo, !.known = muteList[c]]]
            /\ received \ todo \subseteq handled'[c]
    <2> DEFINE w(t) == [client[c] EXCEPT !.phase = "run", !.todo = t, !.known = muteList[c]]
    <2>1. \/ client' = [client EXCEPT ![c] = w(picked)] /\ received \ picked \subseteq handled'[c]
          \/ client' = [client EXCEPT ![c] = w({})] /\ received \subseteq handled'[c]
      <3> HIDE DEF w
      <3> QED
        BY <1>11, <1>12 DEF SetClient, w
    <2>2. \E t \in SUBSET picked :
              client' = [client EXCEPT ![c] = w(t)] /\ received \ t \subseteq handled'[c]
      <3> HIDE DEF w
      <3> QED
        BY <2>1
    <2> QED
      BY <2>2
  <1>4. client'[c] = [client[c] EXCEPT !.phase = "run", !.todo = todo, !.known = muteList[c]]
    BY <1>3, TypesOfClient DEF Started
  <1>5. /\ client'[c].phase = "run" /\ client'[c].rev = client[c].rev
        /\ client'[c].todo = todo
    BY <1>1, <1>4 DEF Works
  <1>6. \A a \in client[c].todo \ todo : Settled(c, a)'
    <2> SUFFICES ASSUME NEW a \in client[c].todo \ todo PROVE Settled(c, a)'
      OBVIOUS
    <2>1. CASE a \in received
      BY <1>3, <2>1 DEF Settled
    <2>2. CASE a \notin received
      BY <1>1, <1>10, <2>2 DEF Settled, Young
    <2> QED
      BY <2>1, <2>2
  <1>7. todo \subseteq client[c].todo
    BY <1>2
  <1>8. cursor'[c] <= cursor[c] /\ client[c].phase # "idle" /\ client'[c].rev <= revision'
       
    BY <1>1, <1>5 DEF Work
  <1> QED
    BY <1>5, <1>6, <1>7, <1>8, WorkStep

LEMMA RunWork ==
    ASSUME Started, Started', Moves, NEW c \in Clients, Work(c),
           NEW a \in Actions, CallQQ(c, a) \/ Record(c, a)
    PROVE  Work(c)'
  <1> USE DEF portalVars, boundVars
  <1>1. /\ Running(c)
        /\ UNCHANGED <<now, revision, created, dropped, cursor>>
        /\ client[c] \in Works /\ client[c].rev \in Nat /\ now \in Nat /\ revision \in Nat
        /\ cursor[c] \in Nat
    BY TypesOfClient DEF CallQQ, Record, Running, Started, TypeOK
  <1>2. CASE \E phase \in {"record", "again", "last"} :
                 SetClient(c, [client[c] EXCEPT !.phase = phase])
    <2>1. PICK phase \in {"record", "again", "last"} :
              client'[c] = [client[c] EXCEPT !.phase = phase]
      BY <1>2, TypesOfClient DEF SetClient, Started
    <2>2. /\ client'[c].phase = phase /\ client'[c].rev = client[c].rev
          /\ client'[c].todo = client[c].todo
      BY <1>1, <2>1 DEF Works
    <2>3. cursor'[c] <= cursor[c] /\ client'[c].rev <= revision'
      BY <1>1, <2>2 DEF Work
    <2> QED
      BY <1>1, <2>2, <2>3, WorkStep DEF Running
  <1>3. CASE /\ SetClient(c, [client[c] EXCEPT !.phase = "run", !.todo = client[c].todo \ {a}])
             /\ handled' = [handled EXCEPT ![c] = handled[c] \union {a}]
    <2>1. client'[c] = [client[c] EXCEPT !.phase = "run", !.todo = client[c].todo \ {a}]
      BY <1>3, TypesOfClient DEF SetClient, Started
    <2>2. /\ client'[c].phase = "run" /\ client'[c].rev = client[c].rev
          /\ client'[c].todo = client[c].todo \ {a}
      BY <1>1, <2>1 DEF Works
    <2>3. Settled(c, a)'
      BY <1>3 DEF Settled, Started, TypeOK
    <2>4. cursor'[c] <= cursor[c] /\ client'[c].rev <= revision'
      BY <1>1, <2>2 DEF Work
    <2> QED
      BY <1>1, <2>2, <2>3, <2>4, WorkStep DEF Running
  <1> QED
    BY <1>2, <1>3 DEF CallQQ, Record

LEMMA EndWork ==
    ASSUME Started, Started', Moves, NEW c \in Clients, Work(c),
           SaveMerged(c) \/ Acknowledge(c) \/ Restart(c)
    PROVE  Work(c)'
  <1> USE DEF portalVars, boundVars
  <1>1. /\ UNCHANGED <<now, revision, created, dropped>>
        /\ client[c] \in Works /\ client[c].rev \in Nat /\ now \in Nat /\ revision \in Nat
        /\ cursor[c] \in Nat /\ cursor \in [Clients -> Nat]
    BY TypesOfClient DEF SaveMerged, Acknowledge, Restart, Started, TypeOK
  <1>2. CASE SetClient(c, Idle)
    <2>1. client'[c] = Idle
      BY <1>2, TypesOfClient DEF SetClient, Started
    <2>2. /\ client'[c].phase = "idle" /\ client'[c].rev = 0
          /\ client'[c].todo = {}
      BY <2>1 DEF Idle
    <2>3. \/ cursor'[c] <= cursor[c]
          \/ client[c].phase = "ack" /\ cursor'[c] <= client[c].rev
      <3>1. CASE UNCHANGED cursor
        BY <1>1, <3>1
      <3>2. CASE client[c].phase = "ack" /\ cursor' = [cursor EXCEPT ![c] = Confirmed(c)]
        BY <1>1, <3>2 DEF Confirmed
      <3> QED
        BY <3>1, <3>2 DEF SaveMerged, Acknowledge, Restart
    <2>4. client'[c].rev <= revision'
      BY <1>1, <2>2
    <2>5. client'[c].todo \subseteq client[c].todo
      BY <2>2
    <2> QED
      BY <2>2, <2>3, <2>4, <2>5, WorkIdle
  <1>3. CASE /\ SetClient(c, [client[c] EXCEPT !.phase = "ack", !.known = NoTimes])
             /\ client[c].phase = "run" /\ client[c].todo = {} /\ UNCHANGED cursor
    <2>1. client'[c] = [client[c] EXCEPT !.phase = "ack", !.known = NoTimes]
      BY <1>3, TypesOfClient DEF SetClient, Started
    <2>2. /\ client'[c].phase = "ack" /\ client'[c].rev = client[c].rev
          /\ client'[c].todo = {}
      BY <1>1, <1>3, <2>1 DEF Works
    <2>3. client'[c].rev <= revision' /\ cursor'[c] <= cursor[c]
      BY <1>1, <1>3, <2>2 DEF Work
    <2> QED
      BY <1>3, <2>2, <2>3, WorkStep
  <1> QED
    BY <1>2, <1>3 DEF SaveMerged, Acknowledge, Restart

\* A step of one client is none of another.
LEMMA OthersSame ==
    ASSUME Started, NEW c \in Clients, NEW d \in Clients, c # d,
           RequestPull(c) \/ ClientStep(c) \/ Restart(c)
    PROVE  client'[d] = client[d] /\ cursor'[d] = cursor[d]
  <1> USE DEF clientVars
  <1>1. client \in [Clients -> Works] /\ cursor \in [Clients -> Nat]
    BY TypesOfClient DEF Started, TypeOK
  <1>2. client'[d] = client[d]
    <2>1. UNCHANGED client \/ \E w : SetClient(c, w)
      BY DEF RequestPull, ClientStep, Exchange, Choose, CallQQ, Record, SaveMerged,
             Acknowledge, Restart
    <2> QED
      BY <1>1, <2>1 DEF SetClient
  <1>3. cursor'[d] = cursor[d]
    <2>1. UNCHANGED cursor \/ \E k : cursor' = [cursor EXCEPT ![c] = k]
      BY DEF RequestPull, ClientStep, Exchange, Choose, CallQQ, Record, SaveMerged,
             Acknowledge, Restart
    <2> QED
      BY <1>1, <2>1
  <1> QED
    BY <1>2, <1>3

LEMMA NextWork ==
    ASSUME Started, Started', QueueInv, WorkInv, Moves, [Next]_actionVars
    PROVE  WorkInv'
  <1> USE DEF clientVars
  <1>1. \A d \in Clients : cursor[d] \in Nat
    BY DEF Started, TypeOK
  <1>2. CASE UNCHANGED <<client, cursor>>
    BY <1>1, <1>2, WorkSame DEF WorkInv
  <1>3. CASE UNCHANGED actionVars
    BY <1>2, <1>3 DEF actionVars
  <1>4. CASE \E a \in Actions : QueueMemberAction(a) \/ SavePrefix(a)
    BY <1>2, <1>4 DEF QueueMemberAction, SavePrefix, Add
  <1>5. CASE SaveSettings \/ Tick
    BY <1>2, <1>5 DEF SaveSettings, Tick
  <1>6. CASE \E c \in Clients, u \in Users : LocalMute(c, u) \/ LocalUnmute(c, u)
    BY <1>2, <1>6 DEF LocalMute, LocalUnmute, Ask
  <1>8. CASE \E c \in Clients, k \in Commands : LocalAnswer(c, k[1], k[2])
    BY <1>2, <1>8 DEF LocalAnswer
  <1>7. CASE \E c \in Clients : RequestPull(c) \/ ClientStep(c) \/ Restart(c)
    <2>1. PICK c \in Clients : RequestPull(c) \/ ClientStep(c) \/ Restart(c)
      BY <1>7
    <2>2. \A d \in Clients : d # c => Work(d)'
      <3> SUFFICES ASSUME NEW d \in Clients, d # c PROVE Work(d)'
        OBVIOUS
      <3>1. client'[d] = client[d] /\ cursor'[d] = cursor[d]
        BY <2>1, OthersSame
      <3> QED
        BY <1>1, <3>1, WorkSame DEF WorkInv
    <2>3. Work(c)'
      <3>1. CASE RequestPull(c)
        <4>1. cursor'[c] <= cursor[c] /\ client'[c] = client[c]
          BY <1>1, <3>1 DEF RequestPull, Started, TypeOK
        <4> QED
          BY <4>1, WorkSame DEF WorkInv
      <3>2. CASE Exchange(c) \/ Choose(c)
        BY <3>2, ExchangeWork, ChooseWork DEF WorkInv
      <3>3. CASE \E a \in Actions : CallQQ(c, a) \/ Record(c, a)
        BY <3>3, RunWork DEF WorkInv
      <3>4. CASE SaveMerged(c) \/ Acknowledge(c) \/ Restart(c)
        BY <3>4, EndWork DEF WorkInv
      <3> QED
        BY <2>1, <3>1, <3>2, <3>3, <3>4 DEF ClientStep
    <2> QED
      BY <2>2, <2>3 DEF WorkInv
  <1> QED
    BY <1>3, <1>4, <1>5, <1>6, <1>7, <1>8 DEF Next

PortalInv == Started /\ QueueInv /\ WorkInv

LEMMA InitPortal == Init => PortalInv
  <1> SUFFICES ASSUME Init PROVE PortalInv
    OBVIOUS
  <1>1. QueueInv
    BY DEF Init, QueueInv
  <1>2. WorkInv
    BY DEF Init, WorkInv, Work, Idle
  <1> QED
    BY <1>1, <1>2, InitTypes DEF PortalInv

LEMMA NextPortal == PortalInv /\ [Next]_actionVars => PortalInv' /\ Moves
  BY NextTypes, NextMoves, NextQueue, NextWork DEF PortalInv

\* A revision that a client has confirmed carries no request that the client
\* has not dealt with, unless it was dropped or is stale.
THEOREM ConfirmedAreHandled == Spec => []ConfirmedMeansHandled
  <1>1. PortalInv => ConfirmedMeansHandled
    BY DEF PortalInv, WorkInv, Work, Settled, ConfirmedMeansHandled
  <1> QED
    BY <1>1, InitPortal, NextPortal, PTL DEF Spec

-----------------------------------------------------------------------------
(* How often a request is chosen: each claim has to run out first.         *)

Run(c, a) ==
    chosen[c][a] > 0 =>
        /\ created[a] # 0 /\ created[a] <= claims[c][a] /\ claims[c][a] <= now
        /\ claims[c][a] - created[a] <= Horizon
        /\ (chosen[c][a] - 1) * ClaimTtl <= claims[c][a] - created[a]

RunsInv == \A c \in Clients, a \in Actions : Run(c, a)

LEMMA RunNumbers ==
    ASSUME Started, NEW c \in Clients, NEW a \in Actions
    PROVE  /\ chosen[c][a] \in Nat /\ claims[c][a] \in Nat /\ created[a] \in Nat
           /\ now \in Nat /\ ClaimTtl \in Nat /\ Horizon \in Nat /\ now > 0
  BY LimitAssumption DEF Started, TypeOK

LEMMA RunKept ==
    ASSUME Started, Moves, NEW c \in Clients, NEW a \in Actions, Run(c, a),
           chosen'[c][a] = chosen[c][a], claims'[c][a] = claims[c][a], now' \in Nat
    PROVE  Run(c, a)'
  <1>1. created[a] # 0 => created'[a] = created[a]
    BY DEF Moves
  <1>2. now <= now'
    BY DEF Moves
  <1> QED
    BY <1>1, <1>2, RunNumbers DEF Run

LEMMA ChooseRuns ==
    ASSUME PortalInv, RunsInv, Moves, NEW c \in Clients, Choose(c), NEW a \in Actions
    PROVE  Run(c, a)'
  <1> USE DEF portalVars
  <1> DEFINE received == {x \in client[c].todo : Young(x)}
             picked == Chosen(c, received)
  <1>1. Started /\ Run(c, a) /\ client[c].todo \subseteq {x \in Actions : created[x] # 0}
    BY DEF PortalInv, WorkInv, Work, RunsInv
  <1>2. /\ claims' = [claims EXCEPT ![c] =
               [x \in Actions |-> IF x \in picked THEN now ELSE claims[c][x]]]
        /\ chosen' = [chosen EXCEPT ![c] =
               [x \in Actions |-> IF x \in picked THEN chosen[c][x] + 1 ELSE chosen[c][x]]]
        /\ now' = now /\ created' = created
    BY DEF Choose
  <1>3. a \in picked => created[a] # 0 /\ now - created[a] <= Horizon /\ ~Claimed(c, a)
    BY <1>1 DEF Chosen, Young
  <1> HIDE DEF picked, received
  <1>4. /\ claims'[c][a] = IF a \in picked THEN now ELSE claims[c][a]
        /\ chosen'[c][a] = IF a \in picked THEN chosen[c][a] + 1 ELSE chosen[c][a]
    BY <1>1, <1>2 DEF Started, TypeOK
  <1>5. CASE a \notin picked
    BY <1>1, <1>2, <1>4, <1>5, RunNumbers, RunKept
  <1>6. CASE a \in picked
    <2> DEFINE n == chosen[c][a]
               t == claims[c][a]
    <2>1. n \in Nat /\ t \in Nat /\ created[a] \in Nat /\ now \in Nat /\ ClaimTtl \in Nat
          /\ created[a] <= now
      BY <1>1, RunNumbers DEF PortalInv, QueueInv
    <2>2. chosen'[c][a] = n + 1 /\ claims'[c][a] = now /\ created'[a] = created[a]
      BY <1>2, <1>4, <1>6
    <2>3. n > 0 => /\ created[a] <= t /\ t <= now /\ t # 0
                   /\ (n - 1) * ClaimTtl <= t - created[a]
      BY <1>1, <1>3, <1>6, <2>1 DEF Run
    <2>4. n > 0 => now - t >= ClaimTtl
      BY <1>3, <1>6, <2>1, <2>3, LimitAssumption DEF Claimed
    <2> HIDE DEF n, t
    <2>5. n * ClaimTtl = (n - 1) * ClaimTtl + ClaimTtl
      BY <2>1
    <2>6. n * ClaimTtl <= now - created[a]
      <3>1. CASE n = 0
        BY <2>1, <3>1
      <3>2. CASE n > 0
        <4> DEFINE p == (n - 1) * ClaimTtl
        <4>1. p \in Int /\ p <= t - created[a] /\ now - t >= ClaimTtl
          BY <2>1, <2>3, <2>4, <3>2
        <4>2. n * ClaimTtl = p + ClaimTtl
          BY <2>5
        <4> HIDE DEF p
        <4> QED
          BY <2>1, <4>1, <4>2
      <3> QED
        BY <2>1, <3>1, <3>2
    <2>7. (chosen'[c][a] - 1) * ClaimTtl = n * ClaimTtl
      BY <2>1, <2>2
    <2> QED
      BY <1>2, <1>3, <1>6, <2>1, <2>2, <2>6, <2>7 DEF Run
  <1> QED
    BY <1>5, <1>6

LEMMA NextRuns ==
    ASSUME PortalInv, PortalInv', RunsInv, Moves, [Next]_actionVars
    PROVE  RunsInv'
  <1> USE DEF clientVars
  <1>1. Started /\ now' \in Nat
    BY DEF PortalInv, Started, TypeOK
  <1>2. CASE UNCHANGED <<claims, chosen>>
    BY <1>1, <1>2, RunKept DEF RunsInv
  <1>3. CASE UNCHANGED actionVars
    BY <1>2, <1>3 DEF actionVars
  <1>4. CASE \E a \in Actions : QueueMemberAction(a) \/ SavePrefix(a)
    BY <1>2, <1>4 DEF QueueMemberAction, SavePrefix, Add
  <1>5. CASE SaveSettings \/ Tick
    BY <1>2, <1>5 DEF SaveSettings, Tick
  <1>6. CASE \E c \in Clients, u \in Users : LocalMute(c, u) \/ LocalUnmute(c, u)
    BY <1>2, <1>6 DEF LocalMute, LocalUnmute, Ask
  <1>11. CASE \E c \in Clients, k \in Commands : LocalAnswer(c, k[1], k[2])
    BY <1>2, <1>11 DEF LocalAnswer
  <1>7. CASE \E c \in Clients : RequestPull(c) \/ Exchange(c) \/ SaveMerged(c) \/ Acknowledge(c)
    BY <1>2, <1>7 DEF RequestPull, Exchange, SaveMerged, Acknowledge
  <1>8. CASE \E c \in Clients, a \in Actions : CallQQ(c, a) \/ Record(c, a)
    BY <1>2, <1>8 DEF CallQQ, Record
  <1>9. CASE \E c \in Clients : Restart(c)
    <2>1. PICK c \in Clients : Restart(c)
      BY <1>9
    <2>2. /\ \A a \in Actions : chosen'[c][a] = 0
          /\ \A d \in Clients : d # c => chosen'[d] = chosen[d] /\ claims'[d] = claims[d]
      BY <1>1, <2>1 DEF Restart, Started, TypeOK
    <2>3. \A a \in Actions : Run(c, a)'
      BY <2>2 DEF Run
    <2>4. \A d \in Clients, a \in Actions : d # c => Run(d, a)'
      BY <1>1, <2>2, RunKept DEF RunsInv
    <2> QED
      BY <2>3, <2>4 DEF RunsInv
  <1>10. CASE \E c \in Clients : Choose(c)
    <2>1. PICK c \in Clients : Choose(c)
      BY <1>10
    <2>2. \A d \in Clients : d # c => chosen'[d] = chosen[d] /\ claims'[d] = claims[d]
      BY <1>1, <2>1 DEF Choose, Started, TypeOK
    <2>3. \A d \in Clients, a \in Actions : d # c => Run(d, a)'
      BY <1>1, <2>2, RunKept DEF RunsInv
    <2> QED
      BY <2>1, <2>3, ChooseRuns DEF RunsInv
  <1> QED
    BY <1>3, <1>4, <1>5, <1>6, <1>7, <1>8, <1>9, <1>10, <1>11 DEF Next, ClientStep

\* Between two restarts a client runs a request at most once more than its
\* claims fit into the life of the request.
THEOREM RunsAreBounded == Spec => []RunsBounded
  <1>1. Init => RunsInv
    BY DEF Init, RunsInv, Run
  <1>2. PortalInv /\ RunsInv => RunsBounded
    <2> SUFFICES ASSUME PortalInv, RunsInv, NEW c \in Clients, NEW a \in Actions
                 PROVE  (chosen[c][a] - 1) * ClaimTtl <= Horizon
      BY DEF RunsBounded
    <2>1. Started /\ Run(c, a)
      BY DEF PortalInv, RunsInv
    <2> DEFINE n == chosen[c][a]
    <2>2. n \in Nat /\ ClaimTtl \in Nat /\ Horizon \in Nat /\ claims[c][a] - created[a] \in Int
      BY <2>1, RunNumbers
    <2>3. CASE n = 0
      <3>1. (n - 1) * ClaimTtl = 0 - ClaimTtl
        BY <2>2, <2>3
      <3> QED
        BY <2>2, <3>1
    <2>4. CASE n > 0
      <3>1. (n - 1) * ClaimTtl \in Int
        BY <2>2
      <3> QED
        BY <2>1, <2>2, <2>4, <3>1 DEF Run
    <2> QED
      BY <2>2, <2>3, <2>4
  <1> QED
    BY <1>1, <1>2, InitPortal, NextPortal, NextRuns, PTL DEF Spec

-----------------------------------------------------------------------------
(* A mute that an unmute of the portal may undo.                           *)

\* What the file had on record when the batch was judged is no newer than the
\* unmutes that were let through, however long they wait for their turn.
Judged(c) ==
    Running(c) => \A a \in client[c].todo :
                      KindOf[a] = "unmute" => client[c].known[UserOf[a]] <= created[a]

JudgedInv == \A c \in Clients : Judged(c)

LEMMA MuteNumbers ==
    ASSUME Started, NEW c \in Clients, NEW u \in Users, NEW a \in Actions
    PROVE  /\ muteList[c][u] \in Nat /\ client[c].known[u] \in Nat /\ muted[u] \in Nat
           /\ created[a] \in Nat /\ UserOf[a] \in Users
  BY RequestAssumption DEF Started, TypeOK

\* A batch only gets shorter, and requests keep the time at which they were made.
LEMMA JudgedKept ==
    ASSUME PortalInv, Moves, NEW c \in Clients, Judged(c),
           Running(c)' => /\ Running(c)
                          /\ client'[c].todo \subseteq client[c].todo
                          /\ client'[c].known = client[c].known
    PROVE  Judged(c)'
  <1> SUFFICES ASSUME NEW a \in client'[c].todo, KindOf[a] = "unmute", Running(c)'
               PROVE  client'[c].known[UserOf[a]] <= created'[a]
    BY DEF Judged
  <1>1. a \in client[c].todo /\ a \in Actions /\ created[a] # 0
    BY DEF PortalInv, WorkInv, Work
  <1>2. created'[a] = created[a]
    BY <1>1 DEF Moves
  <1> QED
    BY <1>1, <1>2 DEF Judged

LEMMA ChooseJudged ==
    ASSUME PortalInv, NEW c \in Clients, Choose(c)
    PROVE  Judged(c)'
  <1> USE DEF portalVars
  <1> DEFINE received == {a \in client[c].todo : Young(a)}
             picked == Chosen(c, received)
  <1>1. /\ Started /\ UNCHANGED created
        /\ client[c].todo \subseteq Actions /\ client[c] \in Works
    BY TypesOfClient DEF PortalInv, Started, Choose
  <1>2. \A a \in picked : a \in Actions /\ ~UndoesNewerMute(c, a)
    BY <1>1 DEF Chosen
  <1>3. \E t \in {picked, {}} : SetClient(c, [client[c] EXCEPT !.phase = "run", !.todo = t,
                                                               !.known = muteList[c]])
    BY DEF Choose
  <1> HIDE DEF picked, received
  <1>4. PICK t \in {picked, {}} :
            client'[c] = [client[c] EXCEPT !.phase = "run", !.todo = t, !.known = muteList[c]]
    BY <1>1, <1>3, TypesOfClient DEF SetClient, Started
  <1>5. client'[c].todo \subseteq picked /\ client'[c].known = muteList[c]
    BY <1>1, <1>4 DEF Works
  <1>6. ASSUME NEW a \in client'[c].todo, KindOf[a] = "unmute"
        PROVE  client'[c].known[UserOf[a]] <= created'[a]
    <2>1. a \in Actions /\ ~UndoesNewerMute(c, a) /\ UserOf[a] \in Users
      BY <1>2, <1>5, RequestAssumption
    <2>2. muteList[c][UserOf[a]] \in Nat /\ created[a] \in Nat
      BY <1>1, <2>1, MuteNumbers
    <2> QED
      BY <1>1, <1>5, <1>6, <2>1, <2>2 DEF UndoesNewerMute
  <1> QED
    BY <1>6 DEF Judged

LEMMA NextJudged ==
    ASSUME PortalInv, JudgedInv, Moves, [Next]_actionVars
    PROVE  JudgedInv'
  <1> USE DEF clientVars
  <1>1. Started
    BY DEF PortalInv
  <1>2. ASSUME NEW c \in Clients, client'[c] = client[c]
        PROVE  Judged(c)'
    BY <1>2, JudgedKept DEF JudgedInv, Running
  <1>3. CASE UNCHANGED client
    BY <1>2, <1>3 DEF JudgedInv
  <1>4. CASE UNCHANGED actionVars
    BY <1>3, <1>4 DEF actionVars
  <1>5. CASE \E a \in Actions : QueueMemberAction(a) \/ SavePrefix(a)
    BY <1>3, <1>5 DEF QueueMemberAction, SavePrefix, Add
  <1>6. CASE SaveSettings \/ Tick
    BY <1>3, <1>6 DEF SaveSettings, Tick
  <1>7. CASE \E c \in Clients, u \in Users : LocalMute(c, u) \/ LocalUnmute(c, u)
    BY <1>3, <1>7 DEF LocalMute, LocalUnmute, Ask
  <1>8. CASE \E c \in Clients, k \in Commands : LocalAnswer(c, k[1], k[2])
    BY <1>3, <1>8 DEF LocalAnswer
  <1>9. CASE \E c \in Clients : RequestPull(c)
    BY <1>3, <1>9 DEF RequestPull
  <1>10. CASE \E c \in Clients : ClientStep(c) \/ Restart(c)
    <2>1. PICK c \in Clients : ClientStep(c) \/ Restart(c)
      BY <1>10
    <2>2. ASSUME NEW d \in Clients, d # c PROVE Judged(d)'
      <3>1. client'[d] = client[d]
        BY <1>1, <2>1, <2>2, OthersSame
      <3> QED
        BY <1>2, <3>1
    <2>3. client[c] \in Works
      BY <1>1, TypesOfClient DEF Started
    <2>4. Judged(c)'
      <3>1. CASE Exchange(c)
        <4>1. client'[c] = [phase |-> "merge", rev |-> revision, todo |-> queue,
                            known |-> NoTimes]
          BY <1>1, <3>1, TypesOfClient DEF Exchange, SetClient, Started
        <4> QED
          BY <4>1 DEF Judged, Running
      <3>2. CASE Choose(c)
        BY <3>2, ChooseJudged
      <3>3. CASE \E a \in Actions : CallQQ(c, a) \/ Record(c, a)
        <4>1. PICK a \in Actions : CallQQ(c, a) \/ Record(c, a)
          BY <3>3
        <4>2. Running(c)
          BY <4>1 DEF CallQQ, Record, Running
        <4>3. \/ \E phase \in {"record", "again", "last"} :
                     client'[c] = [client[c] EXCEPT !.phase = phase]
              \/ client'[c] = [client[c] EXCEPT !.phase = "run", !.todo = client[c].todo \ {a}]
          <5>1. \/ \E phase \in {"record", "again", "last"} :
                       SetClient(c, [client[c] EXCEPT !.phase = phase])
                \/ SetClient(c, [client[c] EXCEPT !.phase = "run", !.todo = client[c].todo \ {a}])
            BY <4>1 DEF CallQQ, Record
          <5> QED
            BY <1>1, <5>1, TypesOfClient DEF SetClient, Started
        <4>4. client'[c].todo \subseteq client[c].todo /\ client'[c].known = client[c].known
          BY <2>3, <4>3 DEF Works
        <4> QED
          BY <4>2, <4>4, JudgedKept DEF JudgedInv
      <3>4. CASE SaveMerged(c) \/ Acknowledge(c) \/ Restart(c)
        <4>1. \/ client'[c] = Idle
              \/ client'[c] = [client[c] EXCEPT !.phase = "ack", !.known = NoTimes]
          BY <1>1, <3>4, TypesOfClient DEF SaveMerged, Acknowledge, Restart, SetClient,
                                      Started
        <4>2. client'[c].phase \notin {"run", "record", "again", "last"}
          <5>1. CASE client'[c] = Idle
            BY <5>1 DEF Idle
          <5>2. CASE client'[c] = [client[c] EXCEPT !.phase = "ack", !.known = NoTimes]
            BY <2>3, <5>2 DEF Works
          <5> QED
            BY <4>1, <5>1, <5>2
        <4> QED
          BY <4>2 DEF Judged, Running
      <3> QED
        BY <2>1, <3>1, <3>2, <3>3, <3>4 DEF ClientStep
    <2> QED
      BY <2>2, <2>4 DEF JudgedInv
  <1> QED
    BY <1>4, <1>5, <1>6, <1>7, <1>8, <1>9, <1>10 DEF Next

\* An unmute of the portal undoes a mute that QQ accepted after the request only
\* if the file of the client that runs it had no record of that mute when the
\* batch was judged.
THEOREM OnlyUnseenMutesUndone == Spec => UndoneMuteIsUnseen
  <1>1. Init => JudgedInv
    BY DEF Init, JudgedInv, Judged, Running, Idle
  <1>2. ASSUME PortalInv, JudgedInv, NEW c \in Clients, NEW a \in Actions,
               CallQQ(c, a), KindOf[a] = "unmute"
        PROVE  \/ muted[UserOf[a]] <= created[a]
               \/ client[c].known[UserOf[a]] < muted[UserOf[a]]
    <2>1. client[c].known[UserOf[a]] <= created[a]
      BY <1>2 DEF JudgedInv, Judged, Running, CallQQ, First
    <2>2. /\ client[c].known[UserOf[a]] \in Nat /\ created[a] \in Nat
          /\ muted[UserOf[a]] \in Nat
      BY <1>2, MuteNumbers, RequestAssumption DEF PortalInv
    <2> QED
      BY <2>1, <2>2
  <1>3. PortalInv /\ JudgedInv => \A c \in Clients, a \in Actions :
            LET u == UserOf[a]
            IN  CallQQ(c, a) /\ KindOf[a] = "unmute" /\ muted'[u] # muted[u]
                  => muted[u] <= created[a] \/ client[c].known[u] < muted[u]
    BY <1>2
  <1> QED
    BY <1>1, <1>3, InitPortal, NextPortal, NextJudged, PTL DEF Spec, UndoneMuteIsUnseen

=============================================================================
