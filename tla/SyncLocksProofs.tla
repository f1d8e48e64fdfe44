--------------------------- MODULE SyncLocksProofs ---------------------------
(***************************************************************************)
(* Proofs about SyncLocks, for every set of requests and keys.             *)
(*                                                                         *)
(* Mutual exclusion rests on the bookkeeping of the locks: a closed lock   *)
(* has exactly one call that answers for it, and a transaction runs only   *)
(* while its call answers for all of its keys.  LocksInv says so for every *)
(* stage of a call.                                                        *)
(*                                                                         *)
(* That the queue never deadlocks rests on the order in which a call takes *)
(* its keys: of the calls that queue, the one that queues for the greatest *)
(* key waits for nobody who queues.                                        *)
(***************************************************************************)
EXTENDS SyncLocks, NaturalMin, SequenceTheorems, TLAPS

\* What each stage of a call holds.
StagesHold ==
    \A r \in Requests :
        /\ phase[r] = "queued" =>
                /\ acquired[r] \subseteq Scope(r)
                /\ ~(Scope(r) \subseteq acquired[r])
                /\ deferred[r] = {} /\ thread[r] = "none"
        /\ phase[r] = "running" =>
                acquired[r] = Scope(r) /\ deferred[r] = {} /\ thread[r] # "none"
        /\ phase[r] = "answered" =>
                /\ acquired[r] = {}
                /\ thread[r] = "running" => deferred[r] = Scope(r)

\* A queued request stands in the line of the lock it needs next.
InLine(r) ==
    \E i \in DOMAIN waiting[NextKey(r, acquired[r])] :
        waiting[NextKey(r, acquired[r])][i] = r
QueuedInLine == \A r \in Requests : phase[r] = "queued" => InLine(r)

\* Nobody answers for an open lock, at most one call for a closed one, and
\* somebody for each closed one.
HoldersClose == \A r \in Requests : \A k \in Held(r) : locked[k]
HoldersDiffer == \A r, s \in Requests : r # s => Held(r) \intersect Held(s) = {}
ClosedIsHeld == \A k \in Keys : locked[k] => \E r \in Requests : k \in Held(r)

LocksInv ==
    /\ TypeOK
    /\ StagesHold
    /\ QueuedInLine
    /\ HoldersClose
    /\ HoldersDiffer
    /\ ClosedIsHeld

-----------------------------------------------------------------------------
(* Keys and lines.                                                         *)

\* A request has at least one key, and only keys that exist.
LEMMA ScopeKeys ==
    ASSUME NEW r \in Requests
    PROVE  Scope(r) \subseteq Keys /\ Scope(r) # {}
<1>1. Payload[r] \in Seq(Keys)
    BY SyncLocksAssumption
<1>2. CASE Payload[r] = <<>>
    BY <1>2, SyncLocksAssumption DEF Scope
<1>3. CASE Payload[r] # <<>>
  <2>1. 1 \in DOMAIN Payload[r] /\ \A i \in DOMAIN Payload[r] : Payload[r][i] \in Keys
    BY <1>1, <1>3
  <2>. QED BY <1>3, <2>1 DEF Scope
<1>. QED BY <1>2, <1>3

\* The next key of a request that is not complete is one of its own.
LEMMA NextKeyIsOwn ==
    ASSUME NEW r \in Requests, NEW held, ~(Scope(r) \subseteq held)
    PROVE  NextKey(r, held) \in Scope(r) \ held /\ NextKey(r, held) \in Keys
<1>1. Scope(r) \ held \subseteq Nat /\ Scope(r) \ held # {}
    BY ScopeKeys, SyncLocksAssumption
<1>2. NextKey(r, held) \in Scope(r) \ held
    BY <1>1, MinNat DEF NextKey
<1>. QED BY <1>2, ScopeKeys

\* What remains of a line that somebody leaves.
LEMMA WithoutShape ==
    ASSUME NEW line \in Seq(Requests), NEW r \in Requests,
           \E j \in DOMAIN line : line[j] = r
    PROVE  /\ Without(line, r) \in Seq(Requests)
           /\ Len(Without(line, r)) = Len(line) - 1
           /\ \E i \in 1 .. Len(line) :
                /\ line[i] = r
                /\ \A n \in 1 .. Len(line) - 1 :
                    Without(line, r)[n] = IF n < i THEN line[n] ELSE line[n + 1]
<1>. DEFINE i == CHOOSE j \in DOMAIN line : line[j] = r
            front == SubSeq(line, 1, i - 1)
            back == SubSeq(line, i + 1, Len(line))
<1>1. i \in 1 .. Len(line) /\ line[i] = r /\ Len(line) \in Nat
    OBVIOUS
<1>. HIDE DEF i
<1>2. front \in Seq(Requests) /\ Len(front) = i - 1
      /\ \A j \in 1 .. i - 1 : front[j] = line[j]
    BY <1>1, SubSeqProperties
<1>3. back \in Seq(Requests) /\ Len(back) = Len(line) - i
      /\ \A j \in 1 .. Len(line) - i : back[j] = line[i + j]
    BY <1>1, SubSeqProperties
<1>. HIDE DEF front, back
<1>. DEFINE rest == front \o back
<1>4. Without(line, r) = rest
    BY DEF Without, front, back, i
<1>5. rest \in Seq(Requests) /\ Len(rest) = Len(line) - 1
  <2>1. rest \in Seq(Requests) /\ Len(rest) = Len(front) + Len(back)
    BY <1>2, <1>3, ConcatProperties
  <2>2. Len(front) + Len(back) = Len(line) - 1
    BY <1>1, <1>2, <1>3
  <2>. QED BY <2>1, <2>2
<1>6. \A j \in 1 .. Len(line) - 1 :
        rest[j] = IF j <= i - 1 THEN front[j] ELSE back[j - (i - 1)]
  <2>1. \A j \in 1 .. Len(front) + Len(back) :
            rest[j] = IF j <= Len(front) THEN front[j] ELSE back[j - Len(front)]
    BY <1>2, <1>3, ConcatProperties
  <2>2. Len(front) + Len(back) = Len(line) - 1
    BY <1>1, <1>2, <1>3
  <2>. HIDE DEF rest
  <2>. QED BY <1>2, <2>1, <2>2
<1>. HIDE DEF rest
<1>7. ASSUME NEW n \in 1 .. Len(line) - 1
      PROVE  rest[n] = IF n < i THEN line[n] ELSE line[n + 1]
  <2>1. CASE n < i
    BY <1>1, <1>2, <1>6, <2>1
  <2>2. CASE ~(n < i)
    <3>1. n - (i - 1) \in 1 .. Len(line) - i /\ i + (n - (i - 1)) = n + 1
          /\ ~(n <= i - 1)
      BY <1>1, <2>2
    <3>. QED BY <1>3, <1>6, <2>2, <3>1
  <2>. QED BY <2>1, <2>2
<1>. QED BY <1>1, <1>4, <1>5, <1>7

\* Leaving a line keeps everybody else in it.
LEMMA LeavingALine ==
    ASSUME NEW line \in Seq(Requests), NEW r \in Requests,
           \E j \in DOMAIN line : line[j] = r
    PROVE  /\ Without(line, r) \in Seq(Requests)
           /\ \A s \in Requests \ {r} :
                (\E j \in DOMAIN line : line[j] = s)
                    => \E j \in DOMAIN Without(line, r) : Without(line, r)[j] = s
<1>. DEFINE rest == Without(line, r)
<1>1. rest \in Seq(Requests) /\ Len(rest) = Len(line) - 1 /\ Len(line) \in Nat
    BY WithoutShape
<1>2. PICK i \in 1 .. Len(line) :
        /\ line[i] = r
        /\ \A n \in 1 .. Len(line) - 1 :
            rest[n] = IF n < i THEN line[n] ELSE line[n + 1]
    BY WithoutShape
<1>. HIDE DEF rest
<1>3. ASSUME NEW s \in Requests \ {r}, NEW j \in 1 .. Len(line), line[j] = s
      PROVE  \E n \in 1 .. Len(line) - 1 : rest[n] = s
  <2>1. j # i
    BY <1>2, <1>3
  <2>2. CASE j < i
    <3>1. j \in 1 .. Len(line) - 1
      BY <1>1, <2>2
    <3>2. rest[j] = line[j]
      BY <1>2, <2>2, <3>1
    <3>. QED BY <1>3, <3>1, <3>2
  <2>3. CASE j > i
    <3>1. j - 1 \in 1 .. Len(line) - 1 /\ ~(j - 1 < i) /\ (j - 1) + 1 = j
      BY <1>1, <2>3
    <3>. QED BY <1>2, <1>3, <3>1
  <2>4. j < i \/ j > i
    BY <2>1
  <2>. QED BY <2>2, <2>3, <2>4
<1>4. DOMAIN line = 1 .. Len(line) /\ DOMAIN rest = 1 .. Len(line) - 1
    BY <1>1, LenProperties
<1>. QED BY <1>1, <1>3, <1>4 DEF rest

LEMMA ServingALine ==
    ASSUME NEW line \in Seq(Requests), line # <<>>, NEW s \in Requests,
           s # Head(line), \E j \in DOMAIN line : line[j] = s
    PROVE  \E j \in DOMAIN Tail(line) : Tail(line)[j] = s
<1>1. PICK j \in DOMAIN line : line[j] = s
    OBVIOUS
<1>2. j \in 1 .. Len(line) /\ j # 1
    BY <1>1
<1>3. /\ Tail(line) \in Seq(Requests) /\ DOMAIN Tail(line) = 1 .. Len(line) - 1
      /\ \A n \in 1 .. Len(line) - 1 : Tail(line)[n] = line[n + 1]
    BY HeadTailProperties, LenProperties
<1>4. j - 1 \in 1 .. Len(line) - 1 /\ (j - 1) + 1 = j
    BY <1>2
<1>. QED BY <1>1, <1>3, <1>4

LEMMA JoiningALine ==
    ASSUME NEW line \in Seq(Requests), NEW r \in Requests
    PROVE  /\ Append(line, r) \in Seq(Requests)
           /\ \E j \in DOMAIN Append(line, r) : Append(line, r)[j] = r
<1>1. /\ Append(line, r) \in Seq(Requests) /\ Len(line) \in Nat
      /\ DOMAIN Append(line, r) = 1 .. Len(line) + 1
      /\ Append(line, r)[Len(line) + 1] = r
    BY AppendProperties, LenProperties
<1>2. Len(line) + 1 \in 1 .. Len(line) + 1
    BY <1>1
<1>. QED BY <1>1, <1>2

LEMMA KeepingALine ==
    ASSUME NEW line \in Seq(Requests), NEW r \in Requests, NEW s \in Requests,
           \E j \in DOMAIN line : line[j] = s
    PROVE  \E j \in DOMAIN Append(line, r) : Append(line, r)[j] = s
<1>1. PICK j \in DOMAIN line : line[j] = s
    OBVIOUS
<1>2. j \in 1 .. Len(line)
    BY LenProperties
<1>3. /\ DOMAIN Append(line, r) = 1 .. Len(line) + 1
      /\ Append(line, r)[j] = line[j]
    BY <1>2, AppendProperties, LenProperties
<1>4. j \in 1 .. Len(line) + 1
    BY <1>2
<1>. QED BY <1>1, <1>3, <1>4

-----------------------------------------------------------------------------
(* The invariant.                                                          *)

LEMMA LocksStart == LocksInit => LocksInv
<1>. SUFFICES ASSUME LocksInit PROVE LocksInv
    OBVIOUS
<1>. USE DEF LocksInit
<1>1. TypeOK
    BY DEF TypeOK
<1>2. \A r \in Requests : Held(r) = {}
    BY DEF Held
<1>3. StagesHold /\ QueuedInLine
    BY DEF StagesHold, QueuedInLine
<1>4. HoldersClose /\ HoldersDiffer /\ ClosedIsHeld
    BY <1>2 DEF HoldersClose, HoldersDiffer, ClosedIsHeld
<1>. QED BY <1>1, <1>3, <1>4 DEF LocksInv

\* A step that opens exactly the locks it stops answering for keeps the
\* bookkeeping.
LEMMA OpeningOwnLocks ==
    ASSUME LocksInv, NEW r \in Requests, NEW keys,
           locked' = Released(keys),
           keys \subseteq Held(r), Held(r)' = Held(r) \ keys,
           \A s \in Requests : s # r => Held(s)' = Held(s)
    PROVE  HoldersClose' /\ HoldersDiffer' /\ ClosedIsHeld'
<1>. USE DEF LocksInv
<1>1. \A s \in Requests : Held(s)' \subseteq Held(s) /\ Held(s)' \intersect keys = {}
    BY DEF HoldersDiffer
<1>2. \A s \in Requests : Held(s) \subseteq Keys
    BY DEF TypeOK, Held
<1>3. HoldersClose'
    BY <1>1, <1>2 DEF HoldersClose, Released
<1>4. HoldersDiffer'
    BY <1>1 DEF HoldersDiffer
<1>5. ASSUME NEW k \in Keys, locked'[k] PROVE \E s \in Requests : k \in Held(s)'
  <2>1. locked[k] /\ k \notin keys
    BY <1>5 DEF Released
  <2>2. PICK s \in Requests : k \in Held(s)
    BY <2>1 DEF ClosedIsHeld
  <2>. QED BY <2>1, <2>2
<1>. QED BY <1>3, <1>4, <1>5 DEF ClosedIsHeld

\* A step that leaves all locks and what each call answers for as they are.
LEMMA SameHolders ==
    ASSUME LocksInv, UNCHANGED locked,
           \A s \in Requests : Held(s)' = Held(s)
    PROVE  HoldersClose' /\ HoldersDiffer' /\ ClosedIsHeld'
BY DEF LocksInv, HoldersClose, HoldersDiffer, ClosedIsHeld

\* To stand in the line of a lock whose line kept everybody, or gained one.
LEMMA StillInLine ==
    ASSUME NEW s \in Requests, NEW k, k = NextKey(s, acquired'[s]),
           \E j \in DOMAIN waiting'[k] : waiting'[k][j] = s
    PROVE  InLine(s)'
BY DEF InLine

LEMMA SubmitStep ==
    ASSUME LocksInv, NEW r \in Requests, Submit(r)
    PROVE  LocksInv'
<1>. USE DEF LocksInv
<1>. DEFINE k == NextKey(r, {})
<1>1. /\ acquired[r] = {} /\ k \in Keys
      /\ waiting[k] \in Seq(Requests)
    BY NextKeyIsOwn, ScopeKeys DEF StagesHold, Submit, TypeOK
<1>2. TypeOK'
    BY <1>1, JoiningALine DEF TypeOK, Submit
<1>3. StagesHold'
    BY <1>1, ScopeKeys DEF StagesHold, Submit, TypeOK
<1>4. ASSUME NEW s \in Requests, phase'[s] = "queued" PROVE InLine(s)'
  <2>. DEFINE ks == NextKey(s, acquired[s])
  <2>1. acquired'[s] = acquired[s] /\ waiting'[k] = Append(waiting[k], r)
        /\ \A h \in Keys \ {k} : waiting'[h] = waiting[h]
    BY <1>1 DEF Submit, TypeOK
  <2>2. CASE s = r
    <3>1. k = NextKey(s, acquired'[s])
      BY <1>1, <2>1, <2>2
    <3>2. \E j \in DOMAIN waiting'[k] : waiting'[k][j] = s
      BY <1>1, <2>1, <2>2, JoiningALine
    <3>. QED BY <3>1, <3>2, StillInLine
  <2>3. CASE s # r
    <3>1. phase[s] = "queued"
      BY <1>4, <2>3 DEF Submit, TypeOK
    <3>2. ks \in Keys /\ \E j \in DOMAIN waiting[ks] : waiting[ks][j] = s
      BY <3>1, NextKeyIsOwn DEF QueuedInLine, StagesHold, InLine
    <3>3. ks = NextKey(s, acquired'[s])
      BY <2>1
    <3>. HIDE DEF ks, k
    <3>4. \E j \in DOMAIN waiting'[ks] : waiting'[ks][j] = s
      <4>1. CASE ks # k
        BY <2>1, <3>2, <4>1
      <4>2. CASE ks = k
        <5>1. \E j \in DOMAIN waiting[k] : waiting[k][j] = s
          BY <3>2, <4>2
        <5>2. waiting[k] \in Seq(Requests)
          BY <1>1
        <5>. DEFINE line == waiting[k]
        <5>. HIDE DEF line
        <5>3. line \in Seq(Requests) /\ \E j \in DOMAIN line : line[j] = s
          BY <5>1, <5>2 DEF line
        <5>4. \E j \in DOMAIN Append(line, r) : Append(line, r)[j] = s
          BY <5>3, KeepingALine
        <5>5. waiting'[k] = Append(line, r)
          BY <2>1 DEF line
        <5>. QED BY <4>2, <5>4, <5>5
      <4>. QED BY <4>1, <4>2
    <3>. QED BY <3>3, <3>4, StillInLine
  <2>. QED BY <2>2, <2>3
<1>5. HoldersClose' /\ HoldersDiffer' /\ ClosedIsHeld'
    BY SameHolders DEF Submit, Held
<1>. QED BY <1>2, <1>3, <1>4, <1>5 DEF QueuedInLine

LEMMA TakeStep ==
    ASSUME LocksInv, NEW r \in Requests, Take(r)
    PROVE  LocksInv'
<1>. USE DEF LocksInv
<1>. DEFINE k == NextKey(r, acquired[r])
            held == acquired[r] \union {k}
            next == NextKey(r, held)
<1>1. /\ phase[r] = "queued" /\ ~locked[k] /\ waiting[k] # <<>> /\ Head(waiting[k]) = r
      /\ locked' = [locked EXCEPT ![k] = TRUE]
      /\ acquired' = [acquired EXCEPT ![r] = held]
      /\ deferred' = deferred
    BY DEF Take, IsFirst
<1>2. /\ k \in Scope(r) \ acquired[r] /\ k \in Keys /\ held \subseteq Scope(r)
      /\ held \subseteq Keys /\ deferred[r] = {} /\ thread[r] = "none"
    BY <1>1, NextKeyIsOwn, ScopeKeys DEF StagesHold
<1>3. ~(Scope(r) \subseteq held) => next \in Keys \ {k}
    BY NextKeyIsOwn
<1>4. waiting[k] \in Seq(Requests) /\ Tail(waiting[k]) \in Seq(Requests)
    BY <1>1, <1>2, HeadTailProperties DEF TypeOK
<1>. HIDE DEF k, held, next
<1>5. \/ /\ Scope(r) \subseteq held
         /\ waiting' = [waiting EXCEPT ![k] = Tail(@)]
         /\ phase' = [phase EXCEPT ![r] = "running"]
         /\ thread' = [thread EXCEPT ![r] = "running"]
      \/ /\ ~(Scope(r) \subseteq held)
         /\ waiting' = [waiting EXCEPT ![k] = Tail(@), ![next] = Append(@, r)]
         /\ phase' = phase /\ thread' = thread
    BY DEF Take, k, held, next
<1>6. /\ waiting'[k] = Tail(waiting[k])
      /\ \A h \in Keys \ {k} :
            \/ waiting'[h] = waiting[h]
            \/ h = next /\ waiting'[h] = Append(waiting[h], r)
      /\ ~(Scope(r) \subseteq held) => waiting'[next] = Append(waiting[next], r)
    BY <1>2, <1>3, <1>5 DEF TypeOK
<1>7. TypeOK'
  <2>1. waiting' \in [Keys -> Seq(Requests)]
    <3>1. ASSUME NEW h \in Keys PROVE waiting'[h] \in Seq(Requests)
      <4>1. waiting[h] \in Seq(Requests)
        BY DEF TypeOK
      <4>2. Append(waiting[h], r) \in Seq(Requests)
        BY <4>1, JoiningALine
      <4>. QED BY <1>4, <1>6, <4>1, <4>2
    <3>2. waiting' = [h \in Keys |-> waiting'[h]]
      BY <1>5 DEF TypeOK
    <3>. QED BY <3>1, <3>2
  <2>2. /\ phase' \in [Requests -> {"queued", "running", "answered"}]
        /\ thread' \in [Requests -> {"none", "running", "committed", "failed"}]
    BY <1>5 DEF TypeOK
  <2>. QED BY <1>1, <1>2, <2>1, <2>2 DEF TypeOK
<1>8. StagesHold'
  <2>1. \A s \in Requests \ {r} :
            /\ phase'[s] = phase[s] /\ thread'[s] = thread[s]
            /\ acquired'[s] = acquired[s] /\ deferred'[s] = deferred[s]
    BY <1>1, <1>5 DEF TypeOK
  <2>2. acquired'[r] = held /\ deferred'[r] = {}
    BY <1>1, <1>2 DEF TypeOK
  <2>3. CASE Scope(r) \subseteq held
    <3>1. phase'[r] = "running" /\ thread'[r] = "running" /\ held = Scope(r)
      BY <1>2, <1>5, <2>3 DEF TypeOK
    <3>. QED BY <2>1, <2>2, <3>1 DEF StagesHold
  <2>4. CASE ~(Scope(r) \subseteq held)
    <3>1. phase'[r] = "queued" /\ thread'[r] = "none"
      BY <1>1, <1>2, <1>5, <2>4
    <3>. QED BY <1>2, <2>1, <2>2, <2>4, <3>1 DEF StagesHold
  <2>. QED BY <2>3, <2>4
<1>9. ASSUME NEW s \in Requests, phase'[s] = "queued" PROVE InLine(s)'
  <2>1. CASE s = r
    <3>1. ~(Scope(r) \subseteq held) /\ acquired'[r] = held
      BY <1>1, <1>5, <1>9, <2>1 DEF TypeOK
    <3>2. next \in Keys /\ waiting[next] \in Seq(Requests)
      BY <1>3, <3>1 DEF TypeOK
    <3>3. \E j \in DOMAIN waiting'[next] : waiting'[next][j] = s
      BY <1>6, <2>1, <3>1, <3>2, JoiningALine
    <3>4. next = NextKey(s, acquired'[s])
      BY <2>1, <3>1 DEF next
    <3>. QED BY <3>3, <3>4, StillInLine
  <2>2. CASE s # r
    <3>. DEFINE ks == NextKey(s, acquired[s])
    <3>1. phase[s] = "queued" /\ acquired'[s] = acquired[s]
      BY <1>1, <1>5, <1>9, <2>2 DEF TypeOK
    <3>2. ks \in Keys /\ \E j \in DOMAIN waiting[ks] : waiting[ks][j] = s
      BY <3>1, NextKeyIsOwn DEF QueuedInLine, StagesHold, InLine
    <3>. HIDE DEF ks
    <3>3. ks = NextKey(s, acquired'[s]) /\ waiting[ks] \in Seq(Requests)
      BY <3>1, <3>2 DEF ks, TypeOK
    <3>4. \E j \in DOMAIN waiting'[ks] : waiting'[ks][j] = s
      <4>1. CASE ks = k
        <5>1. \E j \in DOMAIN waiting[k] : waiting[k][j] = s
          BY <3>2, <4>1
        <5>2. \E j \in DOMAIN Tail(waiting[k]) : Tail(waiting[k])[j] = s
          BY <1>1, <1>4, <2>2, <5>1, ServingALine
        <5>. QED BY <1>6, <4>1, <5>2
      <4>2. CASE ks # k
        <5>1. \E j \in DOMAIN Append(waiting[ks], r) : Append(waiting[ks], r)[j] = s
          BY <3>2, <3>3, KeepingALine
        <5>2. waiting'[ks] \in {waiting[ks], Append(waiting[ks], r)}
          BY <1>6, <3>2, <4>2
        <5>. QED BY <3>2, <5>1, <5>2
      <4>. QED BY <4>1, <4>2
    <3>. QED BY <3>3, <3>4, StillInLine
  <2>. QED BY <2>1, <2>2
<1>10. HoldersClose' /\ HoldersDiffer' /\ ClosedIsHeld'
  <2>1. Held(r)' = Held(r) \union {k} /\ \A s \in Requests \ {r} : Held(s)' = Held(s)
    BY <1>1, <1>2 DEF Held, TypeOK, held
  <2>2. \A s \in Requests : k \notin Held(s)
    BY <1>1 DEF HoldersClose
  <2>3. locked'[k] /\ \A h \in Keys \ {k} : locked'[h] = locked[h]
    BY <1>1, <1>2 DEF TypeOK
  <2>4. \A s \in Requests : Held(s) \subseteq Keys
    BY DEF Held, TypeOK
  <2>5. HoldersClose'
    BY <2>1, <2>3, <2>4, <1>2 DEF HoldersClose
  <2>6. HoldersDiffer'
    BY <2>1, <2>2 DEF HoldersDiffer
  <2>7. ClosedIsHeld'
    BY <2>1, <2>3 DEF ClosedIsHeld
  <2>. QED BY <2>5, <2>6, <2>7
<1>. QED BY <1>7, <1>8, <1>9, <1>10 DEF QueuedInLine

LEMMA LeaveQueueStep ==
    ASSUME LocksInv, NEW r \in Requests, LeaveQueue(r)
    PROVE  LocksInv'
<1>. USE DEF LocksInv
<1>. DEFINE k == NextKey(r, acquired[r])
            line == waiting[k]
            rest == Without(line, r)
<1>1. /\ phase[r] = "queued"
      /\ phase' = [phase EXCEPT ![r] = "answered"]
      /\ locked' = Released(acquired[r])
      /\ acquired' = [acquired EXCEPT ![r] = {}]
      /\ deferred' = deferred /\ thread' = thread
      /\ waiting' = [waiting EXCEPT ![k] = rest]
    BY DEF LeaveQueue
<1>2. /\ k \in Keys /\ acquired[r] \subseteq Scope(r)
      /\ deferred[r] = {} /\ thread[r] = "none"
    BY <1>1, NextKeyIsOwn DEF StagesHold
<1>3. line \in Seq(Requests) /\ \E j \in DOMAIN line : line[j] = r
    BY <1>1, <1>2 DEF TypeOK, QueuedInLine, InLine
<1>. HIDE DEF k, line, rest
<1>4. /\ rest \in Seq(Requests)
      /\ \A s \in Requests \ {r} :
            (\E j \in DOMAIN line : line[j] = s) => \E j \in DOMAIN rest : rest[j] = s
    BY <1>3, LeavingALine DEF rest
<1>5. waiting'[k] = rest /\ \A h \in Keys \ {k} : waiting'[h] = waiting[h]
    BY <1>1, <1>2 DEF TypeOK
<1>6. TypeOK'
    BY <1>1, <1>4 DEF TypeOK, Released
<1>7. StagesHold'
    BY <1>1, <1>2 DEF StagesHold, TypeOK
<1>8. ASSUME NEW s \in Requests, phase'[s] = "queued" PROVE InLine(s)'
  <2>. DEFINE ks == NextKey(s, acquired[s])
  <2>1. s # r /\ phase[s] = "queued" /\ acquired'[s] = acquired[s]
    BY <1>1, <1>8 DEF TypeOK
  <2>2. ks \in Keys /\ \E j \in DOMAIN waiting[ks] : waiting[ks][j] = s
    BY <2>1, NextKeyIsOwn DEF QueuedInLine, StagesHold, InLine
  <2>3. ks = NextKey(s, acquired'[s])
    BY <2>1
  <2>. HIDE DEF ks
  <2>4. \E j \in DOMAIN waiting'[ks] : waiting'[ks][j] = s
    <3>1. CASE ks = k
      <4>1. \E j \in DOMAIN line : line[j] = s
        BY <2>2, <3>1 DEF line
      <4>2. \E j \in DOMAIN rest : rest[j] = s
        BY <1>4, <2>1, <4>1
      <4>. QED BY <1>5, <3>1, <4>2
    <3>2. CASE ks # k
      BY <1>5, <2>2, <3>2
    <3>. QED BY <3>1, <3>2
  <2>. QED BY <2>3, <2>4, StillInLine
<1>9. HoldersClose' /\ HoldersDiffer' /\ ClosedIsHeld'
  <2>1. Held(r)' = {} /\ Held(r) = acquired[r]
    BY <1>1, <1>2 DEF Held, TypeOK
  <2>2. \A s \in Requests : s # r => Held(s)' = Held(s)
    BY <1>1 DEF Held, TypeOK
  <2>. QED BY <1>1, <2>1, <2>2, OpeningOwnLocks
<1>. QED BY <1>6, <1>7, <1>8, <1>9 DEF QueuedInLine

\* Nobody joins or leaves a line, and no queued request takes a lock.
LEMMA SameLines ==
    ASSUME LocksInv, UNCHANGED waiting,
           \A s \in Requests : phase'[s] = "queued" =>
                phase[s] = "queued" /\ acquired'[s] = acquired[s]
    PROVE  QueuedInLine'
<1>. SUFFICES ASSUME NEW s \in Requests, phase'[s] = "queued" PROVE InLine(s)'
    BY DEF QueuedInLine
<1>. DEFINE ks == NextKey(s, acquired[s])
<1>1. \E j \in DOMAIN waiting[ks] : waiting[ks][j] = s
    BY DEF LocksInv, QueuedInLine, InLine
<1>2. ks = NextKey(s, acquired'[s])
    OBVIOUS
<1>. HIDE DEF ks
<1>3. \E j \in DOMAIN waiting'[ks] : waiting'[ks][j] = s
    BY <1>1
<1>. QED BY <1>2, <1>3, StillInLine

LEMMA EndTransactionStep ==
    ASSUME LocksInv, NEW r \in Requests, EndTransaction(r)
    PROVE  LocksInv'
<1>. USE DEF LocksInv
<1>1. PICK outcome \in {"committed", "failed"} :
            thread' = [thread EXCEPT ![r] = outcome]
    BY DEF EndTransaction
<1>2. /\ thread[r] = "running" /\ phase' = phase /\ locked' = locked
      /\ waiting' = waiting /\ acquired' = acquired /\ deferred' = deferred
    BY DEF EndTransaction
<1>3. TypeOK'
    BY <1>1, <1>2 DEF TypeOK
<1>4. StagesHold'
    BY <1>1, <1>2 DEF StagesHold, TypeOK
<1>5. QueuedInLine'
    BY <1>2, SameLines
<1>6. HoldersClose' /\ HoldersDiffer' /\ ClosedIsHeld'
    BY <1>2, SameHolders DEF Held
<1>. QED BY <1>3, <1>4, <1>5, <1>6

LEMMA FinishStep ==
    ASSUME LocksInv, NEW r \in Requests, Finish(r)
    PROVE  LocksInv'
<1>. USE DEF LocksInv
<1>1. /\ phase[r] = "running" /\ thread[r] \in {"committed", "failed"}
      /\ phase' = [phase EXCEPT ![r] = "answered"]
      /\ locked' = Released(acquired[r])
      /\ acquired' = [acquired EXCEPT ![r] = {}]
      /\ waiting' = waiting /\ deferred' = deferred /\ thread' = thread
    BY DEF Finish
<1>2. TypeOK'
    BY <1>1 DEF TypeOK, Released
<1>3. StagesHold'
    BY <1>1 DEF StagesHold, TypeOK
<1>4. QueuedInLine'
    BY <1>1, SameLines DEF TypeOK
<1>5. HoldersClose' /\ HoldersDiffer' /\ ClosedIsHeld'
  <2>1. Held(r)' = {} /\ Held(r) = acquired[r]
    BY <1>1 DEF Held, TypeOK, StagesHold
  <2>2. \A s \in Requests : s # r => Held(s)' = Held(s)
    BY <1>1 DEF Held, TypeOK
  <2>. QED BY <1>1, <2>1, <2>2, OpeningOwnLocks
<1>. QED BY <1>2, <1>3, <1>4, <1>5

LEMMA GiveUpStep ==
    ASSUME LocksInv, NEW r \in Requests, GiveUp(r)
    PROVE  LocksInv'
<1>. USE DEF LocksInv
<1>1. /\ phase[r] = "running"
      /\ phase' = [phase EXCEPT ![r] = "answered"]
      /\ deferred' = [deferred EXCEPT ![r] = acquired[r]]
      /\ acquired' = [acquired EXCEPT ![r] = {}]
      /\ locked' = locked /\ waiting' = waiting /\ thread' = thread
    BY DEF GiveUp
<1>2. TypeOK'
    BY <1>1 DEF TypeOK
<1>3. StagesHold'
    BY <1>1 DEF StagesHold, TypeOK
<1>4. QueuedInLine'
    BY <1>1, SameLines DEF TypeOK
<1>5. \A s \in Requests : Held(s)' = Held(s)
    BY <1>1 DEF Held, TypeOK, StagesHold
<1>. QED BY <1>1, <1>2, <1>3, <1>4, <1>5, SameHolders

LEMMA ReleaseDeferredStep ==
    ASSUME LocksInv, NEW r \in Requests, ReleaseDeferred(r)
    PROVE  LocksInv'
<1>. USE DEF LocksInv
<1>1. /\ deferred[r] # {} /\ thread[r] \in {"committed", "failed"}
      /\ locked' = Released(deferred[r])
      /\ deferred' = [deferred EXCEPT ![r] = {}]
      /\ phase' = phase /\ waiting' = waiting
      /\ acquired' = acquired /\ thread' = thread
    BY DEF ReleaseDeferred
<1>2. phase[r] = "answered" /\ acquired[r] = {}
    BY <1>1 DEF StagesHold, TypeOK
<1>3. TypeOK'
    BY <1>1 DEF TypeOK, Released
<1>4. StagesHold'
    BY <1>1, <1>2 DEF StagesHold, TypeOK
<1>5. QueuedInLine'
    BY <1>1, SameLines
<1>6. HoldersClose' /\ HoldersDiffer' /\ ClosedIsHeld'
  <2>1. Held(r)' = {} /\ Held(r) = deferred[r]
    BY <1>1, <1>2 DEF Held, TypeOK
  <2>2. \A s \in Requests : s # r => Held(s)' = Held(s)
    BY <1>1 DEF Held, TypeOK
  <2>. QED BY <1>1, <2>1, <2>2, OpeningOwnLocks
<1>. QED BY <1>3, <1>4, <1>5, <1>6

LEMMA LocksStep ==
    ASSUME LocksInv, [LocksNext]_lockVars
    PROVE  LocksInv'
<1>1. CASE UNCHANGED lockVars
  <2>1. TypeOK' /\ StagesHold'
    BY <1>1 DEF LocksInv, lockVars, TypeOK, StagesHold
  <2>2. QueuedInLine'
    BY <1>1, SameLines DEF lockVars
  <2>3. HoldersClose' /\ HoldersDiffer' /\ ClosedIsHeld'
    BY <1>1, SameHolders DEF lockVars, Held
  <2>. QED BY <2>1, <2>2, <2>3 DEF LocksInv
<1>2. ASSUME NEW r \in Requests,
             \/ Submit(r) \/ Take(r) \/ LeaveQueue(r) \/ EndTransaction(r)
             \/ Finish(r) \/ GiveUp(r) \/ ReleaseDeferred(r)
      PROVE  LocksInv'
    BY <1>2, SubmitStep, TakeStep, LeaveQueueStep, EndTransactionStep,
       FinishStep, GiveUpStep, ReleaseDeferredStep
<1>. QED BY <1>1, <1>2 DEF LocksNext

\* Every reachable state of the queue keeps the books of its locks.
THEOREM LocksInvariance == LocksSpec => []LocksInv
<1>1. LocksInit => LocksInv
    BY LocksStart
<1>2. LocksInv /\ [LocksNext]_lockVars => LocksInv'
    BY LocksStep
<1>. QED BY <1>1, <1>2, PTL DEF LocksSpec

-----------------------------------------------------------------------------
(* What follows from it.                                                   *)

\* A call whose transaction runs answers for all of its keys.
LEMMA RunningHolds ==
    ASSUME LocksInv, NEW r \in Running
    PROVE  r \in Requests /\ thread[r] = "running" /\ Scope(r) \subseteq Held(r)
BY DEF LocksInv, TypeOK, StagesHold, Running, Held

LEMMA Exclusion == LocksInv => MutualExclusion
BY RunningHolds DEF MutualExclusion, LocksInv, HoldersDiffer

\* The variables of the queue keep their types.
THEOREM LocksTypeCorrect == LocksSpec => []TypeOK
<1>1. LocksInv => TypeOK
    BY DEF LocksInv
<1>. QED BY <1>1, LocksInvariance, PTL

\* Transactions that touch the same group never run together, for any number
\* of requests, groups and payloads, and whatever times out or is cancelled.
THEOREM MutualExclusionHolds == LocksSpec => []MutualExclusion
BY Exclusion, LocksInvariance, PTL

\* Every closed lock has exactly one call that will open it.
THEOREM LockedByOneHolds == LocksSpec => []LockedByOne
<1>1. ASSUME LocksInv, NEW k \in Keys
      PROVE  LET owners == {r \in Requests : k \in Held(r)}
             IN  IF locked[k] THEN \E r \in Requests : owners = {r} ELSE owners = {}
  <2>1. CASE locked[k]
    <3>1. PICK r \in Requests : k \in Held(r)
      BY <1>1, <2>1 DEF LocksInv, ClosedIsHeld
    <3>2. \A s \in Requests : k \in Held(s) => s = r
      BY <1>1, <3>1 DEF LocksInv, HoldersDiffer
    <3>3. {s \in Requests : k \in Held(s)} = {r}
      BY <3>1, <3>2
    <3>. QED BY <2>1, <3>3
  <2>2. CASE ~locked[k]
    BY <1>1, <2>2 DEF LocksInv, HoldersClose
  <2>. QED BY <2>1, <2>2
<1>2. LocksInv => LockedByOne
    BY <1>1 DEF LockedByOne
<1>. QED BY <1>2, LocksInvariance, PTL

-----------------------------------------------------------------------------
(* The refinement of ScopedWrites.                                         *)

\* Only Take starts a transaction and only EndTransaction ends one.
LEMMA WritesStep ==
    ASSUME LocksInv, LocksInv', [LocksNext]_lockVars
    PROVE  [Writes!WritesNext]_Running
<1>1. CASE UNCHANGED lockVars
    BY <1>1 DEF lockVars, Running
<1>2. ASSUME NEW r \in Requests, Take(r)
      PROVE  Running' = Running \/ Writes!Begin(r)
  <2>1. thread[r] = "none"
    BY <1>2 DEF LocksInv, StagesHold, Take
  <2>2. \/ thread' = thread
        \/ thread' = [thread EXCEPT ![r] = "running"]
    BY <1>2 DEF Take
  <2>3. CASE thread' = thread
    BY <2>3 DEF Running
  <2>4. CASE thread' = [thread EXCEPT ![r] = "running"]
    <3>1. Running' = Running \union {r} /\ r \notin Running
      BY <2>1, <2>4 DEF LocksInv, TypeOK, Running
    <3>2. \A s \in Running : Scope(r) \intersect Scope(s) = {}
      <4>1. MutualExclusion'
        BY Exclusion, PTL
      <4>. QED BY <3>1, <4>1 DEF MutualExclusion
    <3>. QED BY <3>1, <3>2 DEF Writes!Begin
  <2>. QED BY <2>2, <2>3, <2>4
<1>3. ASSUME NEW r \in Requests, EndTransaction(r)
      PROVE  Writes!End(r)
  <2>1. PICK outcome \in {"committed", "failed"} :
            thread' = [thread EXCEPT ![r] = outcome]
    BY <1>3 DEF EndTransaction
  <2>. QED BY <1>3, <2>1 DEF EndTransaction, LocksInv, TypeOK, Running, Writes!End
<1>4. ASSUME NEW r \in Requests, Submit(r)
      PROVE  Running' = Running
  <2>1. thread[r] # "running"
    BY <1>4, ScopeKeys DEF LocksInv, StagesHold, Submit
  <2>. QED BY <1>4, <2>1 DEF Submit, LocksInv, TypeOK, Running
<1>5. ASSUME NEW r \in Requests,
             LeaveQueue(r) \/ Finish(r) \/ GiveUp(r) \/ ReleaseDeferred(r)
      PROVE  Running' = Running
    BY <1>5 DEF LeaveQueue, Finish, GiveUp, ReleaseDeferred, Running
<1>. QED BY <1>1, <1>2, <1>3, <1>4, <1>5 DEF LocksNext, Writes!WritesNext

\* The queue implements ScopedWrites.
THEOREM ScopedWritesImplemented == LocksSpec => ImplementsScopedWrites
<1>1. LocksInit => Writes!WritesInit
    BY DEF LocksInit, Running, Writes!WritesInit
<1>2. LocksInv /\ LocksInv' /\ [LocksNext]_lockVars => [Writes!WritesNext]_Running
    BY WritesStep
<1>. QED
    BY <1>1, <1>2, LocksInvariance, PTL DEF LocksSpec, ImplementsScopedWrites, Writes!WritesSpec

-----------------------------------------------------------------------------
(* Nobody waits in a circle.                                               *)

\* A line has only requests that queue for this very lock, none twice, and a
\* call holds only keys below the one it queues for.
Members(line) == {line[i] : i \in 1 .. Len(line)}
Once(line) == \A i, j \in 1 .. Len(line) : line[i] = line[j] => i = j
QueuesFor(r, k) == phase[r] = "queued" /\ NextKey(r, acquired[r]) = k

LinesKept ==
    \A k \in Keys : /\ Once(waiting[k])
                    /\ \A r \in Members(waiting[k]) : QueuesFor(r, k)
Ascending ==
    \A r \in Requests : phase[r] = "queued" =>
        \A k \in acquired[r] : k < NextKey(r, acquired[r])

LinesInv == LinesKept /\ Ascending

LEMMA JoinedLine ==
    ASSUME NEW line \in Seq(Requests), Once(line), NEW r \in Requests,
           r \notin Members(line)
    PROVE  /\ Once(Append(line, r))
           /\ Members(Append(line, r)) = Members(line) \union {r}
<1>. DEFINE longer == Append(line, r)
<1>1. /\ Len(line) \in Nat /\ Len(longer) = Len(line) + 1
      /\ \A i \in 1 .. Len(line) : longer[i] = line[i]
      /\ longer[Len(line) + 1] = r
    BY AppendProperties, LenProperties
<1>. HIDE DEF longer
<1>2. 1 .. Len(longer) = 1 .. Len(line) \union {Len(line) + 1}
    BY <1>1
<1>3. Members(longer) = Members(line) \union {r}
    BY <1>1, <1>2 DEF Members
<1>4. Once(longer)
    BY <1>1, <1>2 DEF Once, Members
<1>. QED BY <1>3, <1>4 DEF longer

LEMMA ServedLine ==
    ASSUME NEW line \in Seq(Requests), Once(line), line # <<>>
    PROVE  /\ Once(Tail(line))
           /\ Members(Tail(line)) \subseteq Members(line) \ {Head(line)}
<1>. DEFINE rest == Tail(line)
<1>1. /\ Len(line) \in Nat /\ Len(rest) = Len(line) - 1
      /\ \A i \in 1 .. Len(line) - 1 : rest[i] = line[i + 1]
      /\ Head(line) = line[1] /\ 1 \in 1 .. Len(line)
    BY HeadTailProperties, LenProperties
<1>. HIDE DEF rest
<1>2. \A i \in 1 .. Len(line) - 1 : i + 1 \in 1 .. Len(line) /\ i + 1 # 1
    BY <1>1
<1>3. Once(rest)
    BY <1>1, <1>2 DEF Once
<1>4. Members(rest) \subseteq Members(line) \ {Head(line)}
    BY <1>1, <1>2 DEF Once, Members
<1>. QED BY <1>3, <1>4 DEF rest

LEMMA LeftLine ==
    ASSUME NEW line \in Seq(Requests), Once(line), NEW r \in Requests,
           \E j \in DOMAIN line : line[j] = r
    PROVE  /\ Once(Without(line, r))
           /\ Members(Without(line, r)) \subseteq Members(line) \ {r}
<1>. DEFINE rest == Without(line, r)
<1>1. Len(rest) = Len(line) - 1 /\ Len(line) \in Nat
    BY WithoutShape
<1>2. PICK i \in 1 .. Len(line) :
        /\ line[i] = r
        /\ \A n \in 1 .. Len(line) - 1 :
            rest[n] = IF n < i THEN line[n] ELSE line[n + 1]
    BY WithoutShape
<1>. HIDE DEF rest
<1>. DEFINE was(n) == IF n < i THEN n ELSE n + 1
<1>3. \A n \in 1 .. Len(line) - 1 :
        was(n) \in 1 .. Len(line) /\ was(n) # i /\ rest[n] = line[was(n)]
    BY <1>1, <1>2
<1>4. \A m, n \in 1 .. Len(line) - 1 : was(m) = was(n) => m = n
    BY <1>1
<1>. HIDE DEF was
<1>5. ASSUME NEW m \in 1 .. Len(line) - 1, NEW n \in 1 .. Len(line) - 1,
             rest[m] = rest[n]
      PROVE  m = n
  <2>1. line[was(m)] = line[was(n)]
    BY <1>3, <1>5
  <2>2. was(m) = was(n)
    BY <1>3, <2>1 DEF Once
  <2>. QED BY <1>4, <2>2
<1>6. Members(rest) \subseteq Members(line) \ {r}
    BY <1>1, <1>2, <1>3 DEF Once, Members
<1>. QED BY <1>1, <1>5, <1>6 DEF rest, Once

\* The keys of a scope are taken from the least one upwards.
LEMMA NextKeyIsLeast ==
    ASSUME NEW r \in Requests, NEW held, ~(Scope(r) \subseteq held)
    PROVE  /\ NextKey(r, held) \in Nat
           /\ \A k \in Scope(r) \ held : NextKey(r, held) <= k
<1>1. Scope(r) \ held \subseteq Nat /\ Scope(r) \ held # {}
    BY ScopeKeys, SyncLocksAssumption
<1>. QED BY <1>1, MinNat DEF NextKey

\* Nobody joins or leaves a line, starts or stops to queue, or takes a lock
\* while it queues.
LEMMA LinesSame ==
    ASSUME LocksInv, LinesInv, UNCHANGED waiting,
           \A s \in Requests : /\ phase[s] = "queued" <=> phase'[s] = "queued"
                               /\ phase[s] = "queued" => acquired'[s] = acquired[s]
    PROVE  LinesInv'
<1>1. \A k \in Keys : Members(waiting[k]) \subseteq Requests
    BY DEF LocksInv, TypeOK, Members
<1>2. LinesKept'
    BY <1>1 DEF LinesInv, LinesKept, QueuesFor
<1>3. Ascending'
    BY DEF LinesInv, Ascending
<1>. QED BY <1>2, <1>3 DEF LinesInv

LEMMA SubmitKeepsLines ==
    ASSUME LocksInv, LinesInv, NEW r \in Requests, Submit(r)
    PROVE  LinesInv'
<1>. DEFINE k == NextKey(r, {})
<1>1. /\ phase[r] = "answered" /\ phase' = [phase EXCEPT ![r] = "queued"]
      /\ waiting' = [waiting EXCEPT ![k] = Append(@, r)]
      /\ acquired' = acquired
    BY DEF Submit
<1>2. acquired[r] = {} /\ k \in Keys
    BY <1>1, NextKeyIsOwn, ScopeKeys DEF LocksInv, StagesHold
<1>3. QueuesFor(r, k)'
    BY <1>1, <1>2 DEF QueuesFor, LocksInv, TypeOK
<1>. HIDE DEF k
<1>4. \A h \in Keys : /\ waiting[h] \in Seq(Requests) /\ Once(waiting[h])
                      /\ Members(waiting[h]) \subseteq Requests \ {r}
    BY <1>1 DEF LocksInv, TypeOK, LinesInv, LinesKept, QueuesFor, Members
<1>5. ASSUME NEW h \in Keys
      PROVE  /\ Once(waiting'[h])
             /\ \A s \in Members(waiting'[h]) : QueuesFor(s, h)'
  <2>1. \A s \in Members(waiting[h]) : QueuesFor(s, h)'
    BY <1>1, <1>4 DEF LinesInv, LinesKept, QueuesFor, LocksInv, TypeOK
  <2>2. CASE h = k
    <3>1. waiting'[h] = Append(waiting[h], r)
      BY <1>1, <2>2 DEF LocksInv, TypeOK
    <3>2. /\ Once(Append(waiting[h], r))
          /\ Members(Append(waiting[h], r)) = Members(waiting[h]) \union {r}
      BY <1>4, JoinedLine
    <3>. QED BY <1>3, <2>1, <2>2, <3>1, <3>2
  <2>3. CASE h # k
    BY <1>1, <1>4, <2>1, <2>3 DEF LocksInv, TypeOK
  <2>. QED BY <2>2, <2>3
<1>6. Ascending'
    BY <1>1, <1>2 DEF LinesInv, Ascending, LocksInv, TypeOK
<1>. QED BY <1>5, <1>6 DEF LinesInv, LinesKept

LEMMA TakeKeepsLines ==
    ASSUME LocksInv, LinesInv, NEW r \in Requests, Take(r)
    PROVE  LinesInv'
<1>. DEFINE k == NextKey(r, acquired[r])
            held == acquired[r] \union {k}
            next == NextKey(r, held)
<1>1. /\ phase[r] = "queued" /\ waiting[k] # <<>> /\ Head(waiting[k]) = r
      /\ acquired' = [acquired EXCEPT ![r] = held]
      /\ \/ /\ waiting' = [waiting EXCEPT ![k] = Tail(@)]
            /\ phase' = [phase EXCEPT ![r] = "running"]
         \/ /\ ~(Scope(r) \subseteq held)
            /\ waiting' = [waiting EXCEPT ![k] = Tail(@), ![next] = Append(@, r)]
            /\ phase' = phase
    BY DEF Take, IsFirst
<1>2. k \in Keys /\ k \in Scope(r) \ acquired[r] /\ acquired[r] \subseteq Keys
      /\ ~(Scope(r) \subseteq acquired[r])
    BY <1>1, NextKeyIsOwn DEF LocksInv, StagesHold, TypeOK
<1>3. ~(Scope(r) \subseteq held) =>
        /\ next \in Keys \ {k} /\ next \in Scope(r) \ acquired[r] /\ next \in Nat
    BY NextKeyIsOwn, NextKeyIsLeast
<1>4. k \in Nat /\ \A h \in Scope(r) \ acquired[r] : k <= h
    BY <1>2, NextKeyIsLeast
<1>5. \A h \in acquired[r] : h < k /\ h \in Nat
    BY <1>1, <1>2, SyncLocksAssumption DEF LinesInv, Ascending
<1>. HIDE DEF k
<1>6. ~(Scope(r) \subseteq held) => \A h \in held : h < next
    BY <1>2, <1>3, <1>4, <1>5, SyncLocksAssumption
<1>. HIDE DEF held, next
<1>7. /\ acquired'[r] = held
      /\ \A s \in Requests \ {r} : acquired'[s] = acquired[s] /\ phase'[s] = phase[s]
    BY <1>1 DEF LocksInv, TypeOK
<1>8. \A h \in Keys : /\ waiting[h] \in Seq(Requests) /\ Once(waiting[h])
                      /\ Members(waiting[h]) \subseteq Requests
                      /\ h # k => r \notin Members(waiting[h])
    BY DEF LocksInv, TypeOK, LinesInv, LinesKept, QueuesFor, Members, k
<1>9. ASSUME NEW h \in Keys
      PROVE  /\ Once(waiting'[h])
             /\ \A s \in Members(waiting'[h]) : QueuesFor(s, h)'
  <2>1. \A s \in Members(waiting[h]) \ {r} : QueuesFor(s, h)'
    BY <1>7, <1>8 DEF LinesInv, LinesKept, QueuesFor
  <2>2. CASE h = k
    <3>1. waiting'[k] = Tail(waiting[k])
      BY <1>1, <1>2, <1>3 DEF LocksInv, TypeOK
    <3>2. /\ Once(Tail(waiting[k]))
          /\ Members(Tail(waiting[k])) \subseteq Members(waiting[k]) \ {r}
      BY <1>1, <1>2, <1>8, ServedLine
    <3>. QED BY <2>1, <2>2, <3>1, <3>2
  <2>3. CASE h # k /\ waiting'[h] = waiting[h]
    BY <1>8, <2>1, <2>3
  <2>4. CASE h # k /\ waiting'[h] # waiting[h]
    <3>1. /\ ~(Scope(r) \subseteq held) /\ phase' = phase /\ h = next
          /\ waiting'[h] = Append(waiting[h], r)
      BY <1>1, <2>4 DEF LocksInv, TypeOK
    <3>2. QueuesFor(r, h)'
      BY <1>1, <1>7, <3>1 DEF QueuesFor, next
    <3>3. /\ Once(Append(waiting[h], r))
          /\ Members(Append(waiting[h], r)) = Members(waiting[h]) \union {r}
      BY <1>8, <2>4, JoinedLine
    <3>. QED BY <1>8, <2>1, <2>4, <3>1, <3>2, <3>3
  <2>. QED BY <2>2, <2>3, <2>4
<1>10. Ascending'
  <2>1. ASSUME NEW s \in Requests, phase'[s] = "queued", NEW h \in acquired'[s]
        PROVE  h < NextKey(s, acquired'[s])
    <3>1. CASE s = r
      <4>1. ~(Scope(r) \subseteq held)
        BY <1>1, <2>1, <3>1 DEF LocksInv, TypeOK
      <4>. QED BY <1>6, <1>7, <2>1, <3>1, <4>1 DEF next
    <3>2. CASE s # r
      BY <1>7, <2>1, <3>2 DEF LinesInv, Ascending
    <3>. QED BY <3>1, <3>2
  <2>. QED BY <2>1 DEF Ascending
<1>. QED BY <1>9, <1>10 DEF LinesInv, LinesKept

LEMMA LeaveQueueKeepsLines ==
    ASSUME LocksInv, LinesInv, NEW r \in Requests, LeaveQueue(r)
    PROVE  LinesInv'
<1>. DEFINE k == NextKey(r, acquired[r])
<1>1. /\ phase[r] = "queued" /\ phase' = [phase EXCEPT ![r] = "answered"]
      /\ waiting' = [waiting EXCEPT ![k] = Without(@, r)]
      /\ acquired' = [acquired EXCEPT ![r] = {}]
    BY DEF LeaveQueue
<1>2. k \in Keys /\ \E j \in DOMAIN waiting[k] : waiting[k][j] = r
    BY <1>1, NextKeyIsOwn DEF LocksInv, StagesHold, QueuedInLine, InLine
<1>3. \A h \in Keys : /\ waiting[h] \in Seq(Requests) /\ Once(waiting[h])
                      /\ Members(waiting[h]) \subseteq Requests
                      /\ h # k => r \notin Members(waiting[h])
    BY DEF LocksInv, TypeOK, LinesInv, LinesKept, QueuesFor, Members
<1>. HIDE DEF k
<1>4. /\ phase'[r] = "answered"
      /\ \A s \in Requests \ {r} : acquired'[s] = acquired[s] /\ phase'[s] = phase[s]
    BY <1>1 DEF LocksInv, TypeOK
<1>5. ASSUME NEW h \in Keys
      PROVE  /\ Once(waiting'[h])
             /\ \A s \in Members(waiting'[h]) : QueuesFor(s, h)'
  <2>1. \A s \in Members(waiting[h]) \ {r} : QueuesFor(s, h)'
    BY <1>3, <1>4 DEF LinesInv, LinesKept, QueuesFor
  <2>2. CASE h = k
    <3>1. waiting'[k] = Without(waiting[k], r)
      BY <1>1, <1>2 DEF LocksInv, TypeOK
    <3>2. waiting[k] \in Seq(Requests) /\ Once(waiting[k])
      BY <1>2, <1>3
    <3>3. /\ Once(Without(waiting[k], r))
          /\ Members(Without(waiting[k], r)) \subseteq Members(waiting[k]) \ {r}
      BY <1>2, <3>2, LeftLine
    <3>. QED BY <2>1, <2>2, <3>1, <3>3
  <2>3. CASE h # k
    <3>1. waiting'[h] = waiting[h]
      BY <1>1, <2>3 DEF LocksInv, TypeOK
    <3>. QED BY <1>3, <2>1, <2>3, <3>1
  <2>. QED BY <2>2, <2>3
<1>6. Ascending'
    BY <1>4 DEF LinesInv, Ascending
<1>. QED BY <1>5, <1>6 DEF LinesInv, LinesKept

LEMMA LinesStart == LocksInit => LinesInv
<1>. SUFFICES ASSUME LocksInit PROVE LinesInv
    OBVIOUS
<1>1. \A k \in Keys : waiting[k] = <<>>
    BY DEF LocksInit
<1>2. Once(<<>>) /\ Members(<<>>) = {}
    BY DEF Once, Members
<1>3. Ascending
    BY DEF LocksInit, Ascending
<1>. QED BY <1>1, <1>2, <1>3 DEF LinesInv, LinesKept

LEMMA LinesStep ==
    ASSUME LocksInv, LinesInv, [LocksNext]_lockVars
    PROVE  LinesInv'
<1>1. CASE UNCHANGED lockVars
    BY <1>1, LinesSame DEF lockVars
<1>2. ASSUME NEW r \in Requests, Submit(r) \/ Take(r) \/ LeaveQueue(r)
      PROVE  LinesInv'
    BY <1>2, SubmitKeepsLines, TakeKeepsLines, LeaveQueueKeepsLines
<1>3. ASSUME NEW r \in Requests,
             EndTransaction(r) \/ Finish(r) \/ GiveUp(r) \/ ReleaseDeferred(r)
      PROVE  LinesInv'
  <2>1. UNCHANGED waiting
    BY <1>3 DEF EndTransaction, Finish, GiveUp, ReleaseDeferred
  <2>2. CASE EndTransaction(r) \/ ReleaseDeferred(r)
    BY <2>1, <2>2, LinesSame DEF EndTransaction, ReleaseDeferred
  <2>3. CASE Finish(r) \/ GiveUp(r)
    <3>1. \A s \in Requests :
            /\ phase[s] = "queued" <=> phase'[s] = "queued"
            /\ phase[s] = "queued" => acquired'[s] = acquired[s]
      BY <2>3 DEF Finish, GiveUp, LocksInv, TypeOK
    <3>. QED BY <2>1, <3>1, LinesSame
  <2>. QED BY <1>3, <2>2, <2>3
<1>. QED BY <1>1, <1>2, <1>3 DEF LocksNext

\* In every reachable state the lines and the keys of the queue are in order.
THEOREM LinesInvariance == LocksSpec => [](LocksInv /\ LinesInv)
<1>1. LocksInit => LinesInv
    BY LinesStart
<1>2. LocksInv /\ LinesInv /\ [LocksNext]_lockVars => LinesInv'
    BY LinesStep
<1>. QED BY <1>1, <1>2, LocksInvariance, PTL DEF LocksSpec

LEMMA BoundedKeys ==
    ASSUME NEW S, NEW top \in Nat, S \subseteq 0 .. top, NEW k \in S
    PROVE  k \in Nat /\ k <= top
<1>1. k \in 0 .. top
    OBVIOUS
<1>. QED BY <1>1

\* Of the queued requests, the one that queues for the greatest key waits for
\* nobody that queues: whoever holds that key queues for a greater one.
LEMMA GreatestMoves ==
    ASSUME NEW top \in Nat, Keys \subseteq 0 .. top, LocksInv, LinesInv
    PROVE  SomebodyMoves
<1>. SUFFICES ASSUME NEW q \in Requests, phase[q] = "queued",
                     \A r \in Requests : /\ thread[r] # "running"
                                         /\ phase[r] # "running"
                                         /\ deferred[r] = {}
              PROVE  \E r \in Requests :
                        /\ phase[r] = "queued"
                        /\ ~locked[NextKey(r, acquired[r])]
                        /\ IsFirst(NextKey(r, acquired[r]), r)
    BY DEF SomebodyMoves
<1>. DEFINE Queued == {r \in Requests : phase[r] = "queued"}
            Wanted(r) == NextKey(r, acquired[r])
            Below == {top - Wanted(r) : r \in Queued}
<1>1. ASSUME NEW r \in Queued
      PROVE  Wanted(r) \in Keys /\ Wanted(r) \in Nat /\ Wanted(r) <= top
  <2>1. ~(Scope(r) \subseteq acquired[r])
    BY DEF LocksInv, StagesHold
  <2>2. Wanted(r) \in Keys
    BY <2>1, NextKeyIsOwn
  <2>. HIDE DEF Wanted
  <2>. QED BY <2>2, BoundedKeys
<1>. HIDE DEF Wanted
<1>2. Below \subseteq Nat /\ Below # {}
    BY <1>1
<1>3. PICK g \in Queued : \A r \in Queued : Wanted(r) <= Wanted(g)
  <2>1. Min(Below) \in Below /\ \A x \in Below : Min(Below) <= x
    <3>. HIDE DEF Below
    <3>. QED BY <1>2, MinNat
  <2>2. PICK g \in Queued : Min(Below) = top - Wanted(g)
    BY <2>1
  <2>3. ASSUME NEW r \in Queued PROVE Wanted(r) <= Wanted(g)
    <3>1. top - Wanted(g) <= top - Wanted(r)
      BY <2>1, <2>2
    <3>. QED BY <1>1, <3>1
  <2>. QED BY <2>3
<1>. DEFINE k == Wanted(g)
<1>4. k \in Keys /\ k \in Nat
    BY <1>1
<1>5. ~locked[k]
  <2>. SUFFICES ASSUME locked[k] PROVE FALSE
    OBVIOUS
  <2>1. PICK s \in Requests : k \in Held(s)
    BY <1>4 DEF LocksInv, ClosedIsHeld
  <2>2. k \in acquired[s]
    BY <2>1 DEF Held
  <2>3. s \in Queued
    BY <2>2 DEF LocksInv, StagesHold, TypeOK
  <2>4. k < Wanted(s)
    BY <2>2, <2>3 DEF LinesInv, Ascending, Wanted
  <2>. QED BY <1>1, <1>3, <1>4, <2>3, <2>4
<1>6. waiting[k] \in Seq(Requests) /\ waiting[k] # <<>>
  <2>1. waiting[k] \in Seq(Requests)
    BY <1>4 DEF LocksInv, TypeOK
  <2>2. \E j \in DOMAIN waiting[k] : waiting[k][j] = g
    BY DEF LocksInv, QueuedInLine, InLine, Wanted
  <2>. QED BY <2>1, <2>2
<1>7. Head(waiting[k]) \in Requests /\ Head(waiting[k]) \in Members(waiting[k])
  <2>1. /\ Head(waiting[k]) = waiting[k][1] /\ 1 \in 1 .. Len(waiting[k])
        /\ Head(waiting[k]) \in Requests
    BY <1>6, HeadTailProperties, LenProperties
  <2>. QED BY <2>1 DEF Members
<1>8. QueuesFor(Head(waiting[k]), k)
    BY <1>4, <1>7 DEF LinesInv, LinesKept
<1>. HIDE DEF k
<1>. QED BY <1>5, <1>6, <1>7, <1>8 DEF QueuesFor, IsFirst

\* The queue never deadlocks: with finitely many keys, somebody can always go
\* on by itself while anybody queues, whatever the payloads and their order.
THEOREM SomebodyAlwaysMoves ==
    ASSUME NEW top \in Nat, Keys \subseteq 0 .. top
    PROVE  LocksSpec => []SomebodyMoves
<1>1. LocksInv /\ LinesInv => SomebodyMoves
    BY GreatestMoves
<1>. QED BY <1>1, LinesInvariance, PTL

=============================================================================
