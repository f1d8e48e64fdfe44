------------------------- MODULE TimedDispatchProofs -------------------------
(***************************************************************************)
(* Proofs about TimedDispatch, for every set of workers, every plan and    *)
(* all times with Round < Lease <= RetryDelay.                             *)
(*                                                                         *)
(* A round ends before the lease it took does, and whoever takes a lease   *)
(* off leaves a back-off that lasts as long; so during a send the file     *)
(* refuses every other claim.  What is confirmed becomes the last slot of  *)
(* the file unless a message lost its slot to a retry in between.          *)
(***************************************************************************)
EXTENDS TimedDispatch, TLAPS

\* A round is cut off in time, and the slot it chose is planned and has come.
RoundsInTime ==
    \A w \in Workers :
        Busy(w) => /\ now <= deadline[w] /\ deadline[w] <= now + Round
                   /\ slot[w] \in plan /\ slot[w] <= now

\* During a send the file refuses claims until after the end of the round.
SendsCovered ==
    \A w \in Workers :
        stage[w] = "sending" =>
            /\ LastSent < slot[w]
            /\ \/ task.lock_until > deadline[w]
               \/ task.next_retry_at > deadline[w]

\* A worker that has chosen an older slot than the latest one sent did so
\* before that send.
ChoicesFresh ==
    \A w \in Workers :
        stage[w] = "chosen" =>
            slot[w] >= latest.slot \/ deadline[w] <= latest.at + Round

LatestPlanned ==
    /\ latest.slot \in plan \union {0}
    /\ latest.slot <= latest.at
    /\ latest.at <= now

\* A one-time task has one slot, and its record names no other.
OneSlot ==
    kind = "once" =>
        /\ \A s, t \in plan : s = t
        /\ task.scheduled_at \in plan \union {0}
        /\ task.last_scheduled_at \in plan \union {0}

\* The latest send is the one that is on its way, and its claim is on file
\* until a retry takes it off.
ClaimOnFile ==
    \A w \in Workers :
        stage[w] = "sending" =>
            /\ latest.slot = slot[w]
            /\ ~disturbed => task.scheduled_at = slot[w]

\* The file keeps account of what was sent and what was confirmed.
Recorded ==
    /\ \A s \in confirmed : s <= LastSent
    /\ \/ LastSent >= latest.slot
       \/ task.lock_until >= latest.at + Lease
       \/ task.next_retry_at >= latest.at + Lease

DispatchInv ==
    /\ TypeOK
    /\ RoundsInTime
    /\ SingleFlight
    /\ SendsCovered
    /\ ChoicesFresh
    /\ LatestPlanned
    /\ OneSlot
    /\ ClaimOnFile
    /\ ~SlotLost => Recorded

-----------------------------------------------------------------------------
(* The task's record.                                                      *)

LEMMA Times ==
    /\ Round \in Nat /\ Lease \in Nat /\ RetryDelay \in Nat
    /\ CatchUp \in Nat /\ HourlyCatchUp \in Nat /\ MaxNow \in Nat
    /\ Round < Lease /\ Lease <= RetryDelay
BY TimeAssumption

LEMMA SlotsPositive == \A s \in Slots : s \in Nat /\ 1 <= s
BY PlanAssumption, Times DEF Slots

\* What a claim, a back-off and a confirmation write.
LEMMA ClaimedFields ==
    ASSUME TypeOK, NEW s \in Slots
    PROVE  /\ Claimed(s) \in TaskRecord
           /\ Claimed(s).lock_until = now + Lease
           /\ Claimed(s).scheduled_at = s
           /\ Claimed(s).last_scheduled_at = task.last_scheduled_at
           /\ Claimed(s).last_sent_at = task.last_sent_at
<1>1. now + Lease \in Nat
  BY Times DEF TypeOK
<1>. QED BY <1>1 DEF TypeOK, TaskRecord, Claimed

LEMMA UnclaimedFields ==
    ASSUME TypeOK
    PROVE  /\ Unclaimed(task) \in TaskRecord
           /\ Unclaimed(task).last_scheduled_at = task.last_scheduled_at
           /\ Unclaimed(task).last_sent_at = task.last_sent_at
BY DEF TypeOK, TaskRecord, Unclaimed

LEMMA DeferredFields ==
    ASSUME TypeOK
    PROVE  /\ Deferred \in TaskRecord
           /\ Deferred.next_retry_at = now + RetryDelay
           /\ Deferred.last_scheduled_at = task.last_scheduled_at
           /\ Deferred.last_sent_at = task.last_sent_at
<1>1. now + RetryDelay \in Nat
  BY Times DEF TypeOK
<1>. QED BY <1>1, UnclaimedFields DEF TaskRecord, Deferred

LEMMA SentFields ==
    ASSUME TypeOK, NEW w \in Workers
    PROVE  /\ Sent(w) \in TaskRecord
           /\ CompletedSlot(w) # 0 => Sent(w).last_scheduled_at = CompletedSlot(w)
           /\ CompletedSlot(w) = 0 =>
                Sent(w).last_scheduled_at = task.last_scheduled_at
           /\ Sent(w).last_sent_at = now
<1>1. CompletedSlot(w) \in Slots \union {0}
  BY DEF TypeOK, TaskRecord, CompletedSlot
<1>2. now \in Nat
  BY Times DEF TypeOK
<1>3. task.enabled \in BOOLEAN /\ task.last_scheduled_at \in Slots \union {0}
  BY DEF TypeOK, TaskRecord
<1>4. (task.enabled /\ kind # "once") \in BOOLEAN
  BY <1>3
<1>. QED BY <1>1, <1>2, <1>3, <1>4, UnclaimedFields DEF TaskRecord, Sent

LEMMA LastSentNat ==
    ASSUME TypeOK
    PROVE  LastSent \in Nat
BY SlotsPositive DEF TypeOK, TaskRecord, LastSent

\* LastSent reads two fields only.
LEMMA LastSentKept ==
    ASSUME task'.last_scheduled_at = task.last_scheduled_at,
           task'.last_sent_at = task.last_sent_at
    PROVE  LastSent' = LastSent
BY DEF LastSent

-----------------------------------------------------------------------------
(* The invariant.                                                          *)

LEMMA InitHolds == DispatchInit => DispatchInv
<1>. SUFFICES ASSUME DispatchInit PROVE DispatchInv
  OBVIOUS
<1>1. plan \in SUBSET Slots
  BY DEF DispatchInit, Slots
<1>2. TypeOK
  <2>1. task \in TaskRecord /\ lock \in [expires : Nat, owner : Workers \union {Dead}]
    BY DEF DispatchInit, TaskRecord, NoLock
  <2>2. kind \in {"message", "hourly", "once"}
    BY DEF DispatchInit
  <2>3. latest \in [slot : Slots \union {0}, at : Nat]
    BY DEF DispatchInit
  <2>4. now \in 0 .. MaxNow /\ confirmed \in SUBSET Slots
    BY Times DEF DispatchInit
  <2>6. lockDir \in BOOLEAN /\ disturbed \in BOOLEAN
    BY DEF DispatchInit
  <2>5. /\ stage \in [Workers -> {"idle", "chosen", "sending"}]
        /\ slot \in [Workers -> Slots \union {0}]
        /\ deadline \in [Workers -> Nat]
    BY DEF DispatchInit
  <2>. QED BY <1>1, <2>1, <2>2, <2>3, <2>4, <2>5, <2>6 DEF TypeOK
<1>3. LastSent = 0
  BY DEF DispatchInit, LastSent
<1>. QED
  BY <1>2, <1>3, Times DEF DispatchInit, DispatchInv, RoundsInTime, SingleFlight,
     SendsCovered, ChoicesFresh, LatestPlanned, Recorded, Busy, OneSlot, ClaimOnFile

\* What a due slot is.
LEMMA DueFacts ==
    ASSUME TypeOK, NEW s \in DueSlots
    PROVE  s \in plan /\ s \in Slots /\ s <= now /\ LastSent < s
BY DEF DueSlots, TypeOK

LEMMA TypeStep ==
    ASSUME TypeOK, RoundsInTime, DispatchNext
    PROVE  TypeOK'
<1>1. ASSUME NEW w \in Workers, Poll(w)
      PROVE  TypeOK'
  <2>1. PICK newest \in DueSlots : slot' = [slot EXCEPT ![w] = newest]
    BY <1>1 DEF Poll
  <2>2. newest \in Slots
    BY <2>1, DueFacts
  <2>3. now + Round \in Nat
    BY Times DEF TypeOK
  <2>. QED
    BY <1>1, <2>1, <2>2, <2>3 DEF Poll, TypeOK, setup, taskVars, historyVars
<1>2. ASSUME NEW w \in Workers, Claim(w)
      PROVE  TypeOK'
  <2>1. slot[w] \in Slots
    BY <1>2 DEF Claim, RoundsInTime, Busy, TypeOK
  <2>2. Claimed(slot[w]) \in TaskRecord
    BY <2>1, ClaimedFields
  <2>3. now + Lease \in Nat /\ now \in Nat
    BY Times DEF TypeOK
  <2>. QED
    BY <1>2, <2>1, <2>2, <2>3 DEF Claim, TypeOK, setup
<1>3. ASSUME NEW w \in Workers, Confirm(w)
      PROVE  TypeOK'
  <2>1. slot[w] \in Slots
    BY <1>3 DEF Confirm, RoundsInTime, Busy, TypeOK
  <2>. QED
    BY <1>3, <2>1, SentFields DEF Confirm, Leaves, TypeOK, setup, NoLock
<1>4. ASSUME NEW w \in Workers, Fail(w)
      PROVE  TypeOK'
  BY <1>4, DeferredFields DEF Fail, Leaves, TypeOK, setup, historyVars, NoLock
<1>5. ASSUME NEW w \in Workers, FailEarly(w)
      PROVE  TypeOK'
  BY <1>5, DeferredFields DEF FailEarly, Leaves, TypeOK, setup, NoLock
<1>6. ASSUME NEW w \in Workers, TurnAway(w) \/ GiveUp(w)
      PROVE  TypeOK'
  BY <1>6 DEF TurnAway, GiveUp, Leaves, TypeOK, setup, taskVars, historyVars, NoLock
<1>7. ASSUME NEW w \in Workers, Crash(w)
      PROVE  TypeOK'
  BY <1>7 DEF Crash, Leaves, TypeOK, setup, historyVars
<1>8. ASSUME Switch PROVE TypeOK'
  <2>1. task' \in TaskRecord
    BY <1>8 DEF Switch, TypeOK, TaskRecord
  <2>. QED
    BY <1>8, <2>1 DEF Switch, TypeOK, setup, workerVars, historyVars
<1>9. ASSUME Tick PROVE TypeOK'
  <2>1. now' \in 0 .. MaxNow
    BY <1>9, Times DEF Tick, TypeOK
  <2>. QED
    BY <1>9, <2>1 DEF Tick, TypeOK, setup, taskVars, workerVars, historyVars
<1>. QED
  BY <1>1, <1>2, <1>3, <1>4, <1>5, <1>6, <1>7, <1>8, <1>9
  DEF DispatchNext, Worker

\* Every step but Poll, Claim and Tick leaves the rounds of the workers that
\* go on as they are.
LEMMA RoundsStep ==
    ASSUME TypeOK, RoundsInTime, DispatchNext
    PROVE  RoundsInTime'
<1>1. ASSUME NEW w \in Workers, Poll(w)
      PROVE  RoundsInTime'
  <2>1. PICK newest \in DueSlots : slot' = [slot EXCEPT ![w] = newest]
    BY <1>1 DEF Poll
  <2>2. newest \in plan /\ newest <= now
    BY <2>1, DueFacts
  <2>. QED
    BY <1>1, <2>1, <2>2, Times
    DEF Poll, RoundsInTime, Busy, TypeOK, setup
<1>2. ASSUME NEW w \in Workers, Claim(w)
      PROVE  RoundsInTime'
  BY <1>2 DEF Claim, RoundsInTime, Busy, TypeOK, setup
<1>3. ASSUME NEW w \in Workers, Leaves(w), UNCHANGED <<plan, now>>
      PROVE  RoundsInTime'
  BY <1>3 DEF Leaves, RoundsInTime, Busy, TypeOK
<1>4. ASSUME NEW w \in Workers,
             \/ Confirm(w) \/ Fail(w) \/ FailEarly(w) \/ TurnAway(w)
             \/ GiveUp(w) \/ Crash(w)
      PROVE  Leaves(w) /\ UNCHANGED <<plan, now>>
  BY <1>4 DEF Confirm, Fail, FailEarly, TurnAway, GiveUp, Crash, setup
<1>5. ASSUME Switch PROVE RoundsInTime'
  BY <1>5 DEF Switch, RoundsInTime, Busy, setup, workerVars
<1>6. ASSUME Tick PROVE RoundsInTime'
  <2>. SUFFICES ASSUME NEW w \in Workers, Busy(w)'
       PROVE  /\ now' <= deadline[w] /\ deadline[w] <= now' + Round
              /\ slot[w] \in plan /\ slot[w] <= now'
    BY <1>6 DEF Tick, RoundsInTime, setup, workerVars
  <2>1. Busy(w) /\ now < deadline[w] /\ now' = now + 1
    BY <1>6 DEF Tick, Busy, workerVars
  <2>2. /\ deadline[w] \in Nat /\ now \in Nat /\ slot[w] \in Nat
        /\ deadline[w] <= now + Round /\ slot[w] \in plan /\ slot[w] <= now
    BY <2>1, SlotsPositive, Times DEF RoundsInTime, TypeOK
  <2>. QED BY <2>1, <2>2, Times
<1>. QED
  BY <1>1, <1>2, <1>3, <1>4, <1>5, <1>6 DEF DispatchNext, Worker

\* What a confirmation writes is at least the slot that was sent: an hourly
\* report names it, a message has it on file, a one-time task has no other.
LEMMA ConfirmedLast ==
    ASSUME TypeOK, RoundsInTime, SendsCovered, OneSlot,
           NEW w \in Workers, Confirm(w),
           kind = "message" => task.scheduled_at = slot[w]
    PROVE  LastSent' \in Nat /\ slot[w] <= LastSent'
<1>1. /\ slot[w] \in Nat /\ slot[w] # 0 /\ slot[w] \in plan /\ slot[w] <= now
      /\ now \in Nat
  BY SlotsPositive, Times DEF Confirm, RoundsInTime, Busy, TypeOK
<1>2. CASE CompletedSlot(w) = slot[w]
  <2>1. task'.last_scheduled_at = slot[w]
    BY <1>1, <1>2, SentFields DEF Confirm
  <2>. QED BY <1>1, <2>1 DEF LastSent
<1>3. CASE CompletedSlot(w) # slot[w]
  <2>1. kind = "once"
    BY <1>3 DEF CompletedSlot, TypeOK
  <2>2. CompletedSlot(w) = 0
    BY <1>1, <1>3, <2>1 DEF CompletedSlot, OneSlot
  <2>3. task.last_scheduled_at = 0
    <3>1. LastSent < slot[w]
      BY DEF Confirm, SendsCovered
    <3>2. ASSUME task.last_scheduled_at = slot[w] PROVE FALSE
      BY <1>1, <3>1, <3>2 DEF LastSent
    <3>. QED BY <1>1, <2>1, <3>2 DEF OneSlot
  <2>4. task'.last_scheduled_at = 0 /\ task'.last_sent_at = now
    BY <2>2, <2>3, SentFields DEF Confirm
  <2>. QED BY <1>1, <2>4 DEF LastSent
<1>. QED BY <1>2, <1>3

\* A claim passes only when nobody sends.
LEMMA ClaimAlone ==
    ASSUME TypeOK, RoundsInTime, SendsCovered, NEW w \in Workers, Claim(w)
    PROVE  \A v \in Workers : stage[v] # "sending"
<1>. SUFFICES ASSUME NEW v \in Workers, stage[v] = "sending" PROVE FALSE
  OBVIOUS
<1>1. now <= deadline[v]
  BY DEF RoundsInTime, Busy
<1>2. task.lock_until <= now /\ task.next_retry_at <= now
  BY DEF Claim, MayClaim
<1>3. /\ now \in Nat /\ deadline[v] \in Nat
      /\ task.lock_until \in Nat /\ task.next_retry_at \in Nat
  BY Times DEF TypeOK, TaskRecord
<1>. QED BY <1>1, <1>2, <1>3 DEF SendsCovered

LEMMA SingleFlightStep ==
    ASSUME TypeOK, RoundsInTime, SingleFlight, SendsCovered, DispatchNext
    PROVE  SingleFlight'
<1>1. ASSUME NEW w \in Workers, Claim(w)
      PROVE  SingleFlight'
  BY <1>1, ClaimAlone DEF Claim, SingleFlight, TypeOK
<1>2. ASSUME NEW w \in Workers, Poll(w)
      PROVE  SingleFlight'
  BY <1>2 DEF Poll, SingleFlight, TypeOK
<1>3. ASSUME NEW w \in Workers, Leaves(w)
      PROVE  SingleFlight'
  BY <1>3 DEF Leaves, SingleFlight, TypeOK
<1>4. ASSUME Switch \/ Tick PROVE SingleFlight'
  BY <1>4 DEF Switch, Tick, workerVars, SingleFlight
<1>. QED
  BY <1>1, <1>2, <1>3, <1>4 DEF DispatchNext, Worker, Confirm, Fail, FailEarly,
     TurnAway, GiveUp, Crash

LEMMA CoveredStep ==
    ASSUME TypeOK, RoundsInTime, SingleFlight, SendsCovered, DispatchNext
    PROVE  SendsCovered'
<1>1. ASSUME NEW w \in Workers, Claim(w)
      PROVE  SendsCovered'
  <2>1. slot[w] \in Slots /\ deadline[w] \in Nat /\ deadline[w] <= now + Round
    BY <1>1 DEF Claim, RoundsInTime, Busy, TypeOK
  <2>2. /\ task'.lock_until = now + Lease
        /\ task'.last_scheduled_at = task.last_scheduled_at
        /\ task'.last_sent_at = task.last_sent_at
    BY <1>1, <2>1, ClaimedFields DEF Claim
  <2>3. LastSent' = LastSent /\ LastSent < slot[w]
    BY <1>1, <2>2, LastSentKept DEF Claim, MayClaim
  <2>4. now \in Nat /\ now + Lease > deadline[w]
    BY <2>1, Times DEF TypeOK
  <2>. QED
    BY <1>1, <2>2, <2>3, <2>4, ClaimAlone DEF Claim, SendsCovered, TypeOK
<1>2. ASSUME NEW w \in Workers, Fail(w) \/ FailEarly(w)
      PROVE  SendsCovered'
  <2>1. /\ task'.next_retry_at = now + RetryDelay
        /\ task'.last_scheduled_at = task.last_scheduled_at
        /\ task'.last_sent_at = task.last_sent_at
    BY <1>2, DeferredFields DEF Fail, FailEarly
  <2>2. LastSent' = LastSent
    BY <2>1, LastSentKept
  <2>3. Leaves(w)
    BY <1>2 DEF Fail, FailEarly
  <2>. SUFFICES ASSUME NEW v \in Workers, stage'[v] = "sending"
       PROVE  LastSent < slot'[v] /\ now + RetryDelay > deadline'[v]
    BY <2>1, <2>2 DEF SendsCovered
  <2>4. v # w /\ stage[v] = "sending" /\ slot'[v] = slot[v] /\ deadline'[v] = deadline[v]
    BY <2>3 DEF Leaves, TypeOK
  <2>5. /\ LastSent < slot[v] /\ deadline[v] <= now + Round
        /\ deadline[v] \in Nat /\ now \in Nat
    BY <2>4, Times DEF SendsCovered, RoundsInTime, Busy, TypeOK
  <2>. QED BY <2>4, <2>5, Times
<1>3. ASSUME NEW w \in Workers, Confirm(w)
      PROVE  SendsCovered'
  BY <1>3 DEF Confirm, Leaves, SingleFlight, SendsCovered, TypeOK
<1>4. ASSUME NEW w \in Workers, TurnAway(w) \/ GiveUp(w) \/ Crash(w)
      PROVE  SendsCovered'
  <2>1. Leaves(w) /\ task' = task
    BY <1>4 DEF TurnAway, GiveUp, Crash, taskVars
  <2>. QED BY <2>1 DEF Leaves, SendsCovered, LastSent, TypeOK
<1>5. ASSUME NEW w \in Workers, Poll(w)
      PROVE  SendsCovered'
  BY <1>5 DEF Poll, SendsCovered, LastSent, TypeOK, taskVars
<1>6. ASSUME Switch PROVE SendsCovered'
  <2>1. /\ task'.lock_until = task.lock_until
        /\ task'.next_retry_at = task.next_retry_at
        /\ task'.last_scheduled_at = task.last_scheduled_at
        /\ task'.last_sent_at = task.last_sent_at
    BY <1>6 DEF Switch, TypeOK, TaskRecord
  <2>2. LastSent' = LastSent
    BY <2>1, LastSentKept
  <2>. QED BY <1>6, <2>1, <2>2 DEF Switch, workerVars, SendsCovered
<1>7. ASSUME Tick PROVE SendsCovered'
  BY <1>7 DEF Tick, workerVars, taskVars, SendsCovered, LastSent
<1>. QED
  BY <1>1, <1>2, <1>3, <1>4, <1>5, <1>6, <1>7 DEF DispatchNext, Worker

\* A poll never picks a slot older than the latest one sent.
LEMMA PollFresh ==
    ASSUME TypeOK, LatestPlanned, NEW newest \in DueSlots,
           \A s \in DueSlots : s <= newest
    PROVE  newest >= latest.slot
<1>1. /\ newest \in Nat /\ latest.slot \in Nat /\ latest.at \in Nat /\ now \in Nat
      /\ newest \in plan /\ newest <= now /\ LastSent < newest /\ LastSent \in Nat
  BY DueFacts, LastSentNat, SlotsPositive, Times DEF TypeOK
<1>. SUFFICES ASSUME latest.slot > newest PROVE FALSE
  BY <1>1
<1>2. latest.slot \in plan /\ latest.slot <= now /\ LastSent < latest.slot
  BY <1>1 DEF LatestPlanned
<1>3. latest.slot \in DueSlots
  <2>1. CASE kind = "once"
    BY <1>2, <2>1 DEF DueSlots
  <2>2. CASE kind # "once"
    <3>1. newest >= now - (IF kind = "hourly" THEN HourlyCatchUp ELSE CatchUp)
      BY <2>2 DEF DueSlots
    <3>. QED BY <1>1, <1>2, <2>2, <3>1, Times DEF DueSlots
  <2>. QED BY <2>1, <2>2
<1>. QED BY <1>1, <1>3

LEMMA FreshStep ==
    ASSUME TypeOK, RoundsInTime, ChoicesFresh, LatestPlanned,
           DispatchNext
    PROVE  ChoicesFresh' /\ LatestPlanned'
<1>1. ASSUME NEW w \in Workers, Poll(w)
      PROVE  ChoicesFresh' /\ LatestPlanned'
  <2>1. PICK newest \in DueSlots :
            /\ \A s \in DueSlots : s <= newest
            /\ slot' = [slot EXCEPT ![w] = newest]
    BY <1>1 DEF Poll
  <2>2. newest >= latest.slot
    BY <2>1, PollFresh
  <2>. QED
    BY <1>1, <2>1, <2>2 DEF Poll, ChoicesFresh, LatestPlanned, TypeOK, setup, historyVars
<1>2. ASSUME NEW w \in Workers, Claim(w)
      PROVE  ChoicesFresh' /\ LatestPlanned'
  <2>1. latest' = [slot |-> slot[w], at |-> now] /\ plan' = plan /\ now' = now
    BY <1>2 DEF Claim, setup
  <2>2. slot[w] \in plan /\ slot[w] <= now /\ now \in Nat
    BY <1>2, Times DEF Claim, RoundsInTime, Busy, TypeOK
  <2>3. LatestPlanned'
    BY <2>1, <2>2 DEF LatestPlanned
  <2>4. ASSUME NEW v \in Workers, stage'[v] = "chosen"
        PROVE  deadline'[v] <= now + Round
    <3>1. deadline' = deadline /\ stage' = [stage EXCEPT ![w] = "sending"]
      BY <1>2 DEF Claim
    <3>2. stage[v] = "chosen"
      BY <2>4, <3>1 DEF TypeOK
    <3>. QED BY <3>1, <3>2 DEF RoundsInTime, Busy
  <2>. QED BY <2>1, <2>3, <2>4 DEF ChoicesFresh
<1>3. ASSUME NEW w \in Workers, Leaves(w), UNCHANGED <<plan, now, latest>>
      PROVE  ChoicesFresh' /\ LatestPlanned'
  BY <1>3 DEF Leaves, ChoicesFresh, LatestPlanned, TypeOK
<1>4. ASSUME NEW w \in Workers,
             \/ Confirm(w) \/ Fail(w) \/ FailEarly(w) \/ TurnAway(w)
             \/ GiveUp(w) \/ Crash(w)
      PROVE  Leaves(w) /\ UNCHANGED <<plan, now, latest>>
  BY <1>4 DEF Confirm, Fail, FailEarly, TurnAway, GiveUp, Crash, setup, historyVars
<1>5. ASSUME Switch PROVE ChoicesFresh' /\ LatestPlanned'
  BY <1>5 DEF Switch, ChoicesFresh, LatestPlanned, setup, workerVars, historyVars
<1>6. ASSUME Tick PROVE ChoicesFresh' /\ LatestPlanned'
  <2>1. latest.at \in Nat /\ now \in Nat
    BY Times DEF TypeOK
  <2>. QED
    BY <1>6, <2>1 DEF Tick, ChoicesFresh, LatestPlanned, setup, workerVars, historyVars
<1>. QED
  BY <1>1, <1>2, <1>3, <1>4, <1>5, <1>6 DEF DispatchNext, Worker

\* What a claim that passes knows of the sends and confirmations before it.
LEMMA ClaimNews ==
    ASSUME DispatchInv, ~SlotLost, NEW w \in Workers, Claim(w)
    PROVE  /\ \A s \in confirmed : s < slot[w]
           /\ \/ latest.slot < slot[w]
              \/ latest.slot = slot[w] /\ now >= latest.at + Lease
<1>1. /\ TypeOK /\ RoundsInTime /\ ChoicesFresh /\ Recorded
  BY DEF DispatchInv
<1>2. /\ LastSent < slot[w] /\ task.lock_until <= now /\ task.next_retry_at <= now
      /\ stage[w] = "chosen"
  BY DEF Claim, MayClaim
<1>3. /\ LastSent \in Nat /\ slot[w] \in Nat /\ now \in Nat /\ deadline[w] \in Nat
      /\ task.lock_until \in Nat /\ task.next_retry_at \in Nat
      /\ latest.slot \in Nat /\ latest.at \in Nat
      /\ \A s \in confirmed : s \in Nat
  BY <1>1, LastSentNat, SlotsPositive, Times DEF TypeOK, TaskRecord
<1>4. \A s \in confirmed : s < slot[w]
  BY <1>1, <1>2, <1>3 DEF Recorded
<1>5. CASE LastSent >= latest.slot
  BY <1>2, <1>3, <1>4, <1>5
<1>6. CASE ~(LastSent >= latest.slot)
  <2>1. now >= latest.at + Lease
    BY <1>1, <1>2, <1>3, <1>6, Times DEF Recorded
  <2>2. now <= deadline[w]
    BY <1>1, <1>2 DEF RoundsInTime, Busy
  <2>3. slot[w] >= latest.slot
    BY <1>1, <1>2, <1>3, <2>1, <2>2, Times DEF ChoicesFresh
  <2>. QED BY <1>3, <1>4, <2>1, <2>3
<1>. QED BY <1>5, <1>6

LEMMA OneSlotStep ==
    ASSUME TypeOK, RoundsInTime, OneSlot, DispatchNext
    PROVE  OneSlot'
<1>1. ASSUME NEW w \in Workers, Claim(w)
      PROVE  OneSlot'
  <2>1. slot[w] \in plan /\ slot[w] \in Slots
    BY <1>1 DEF Claim, RoundsInTime, Busy, TypeOK
  <2>2. /\ task'.scheduled_at = slot[w]
        /\ task'.last_scheduled_at = task.last_scheduled_at
    BY <1>1, <2>1, ClaimedFields DEF Claim
  <2>. QED BY <1>1, <2>1, <2>2 DEF Claim, OneSlot, setup
<1>2. ASSUME NEW w \in Workers, Confirm(w)
      PROVE  OneSlot'
  <2>1. task'.scheduled_at = 0
    BY <1>2 DEF Confirm, Sent, Unclaimed, TypeOK, TaskRecord
  <2>2. kind = "once" => task'.last_scheduled_at \in plan \union {0}
    BY <1>2, SentFields DEF Confirm, OneSlot, CompletedSlot
  <2>. QED BY <1>2, <2>1, <2>2 DEF Confirm, OneSlot, setup
<1>3. ASSUME NEW w \in Workers, Fail(w) \/ FailEarly(w)
      PROVE  OneSlot'
  <2>1. /\ task'.scheduled_at = 0
        /\ task'.last_scheduled_at = task.last_scheduled_at
    BY <1>3 DEF Fail, FailEarly, Deferred, Unclaimed, TypeOK, TaskRecord
  <2>. QED BY <1>3, <2>1 DEF Fail, FailEarly, OneSlot, setup
<1>4. ASSUME Switch PROVE OneSlot'
  BY <1>4 DEF Switch, OneSlot, setup, TypeOK, TaskRecord
<1>5. ASSUME NEW w \in Workers, Poll(w) \/ GiveUp(w) \/ TurnAway(w) \/ Crash(w)
      PROVE  OneSlot'
  BY <1>5 DEF Poll, GiveUp, TurnAway, Crash, OneSlot, setup, taskVars
<1>6. ASSUME Tick PROVE OneSlot'
  BY <1>6 DEF Tick, OneSlot, setup, taskVars
<1>. QED
  BY <1>1, <1>2, <1>3, <1>4, <1>5, <1>6 DEF DispatchNext, Worker

LEMMA ClaimOnFileStep ==
    ASSUME TypeOK, RoundsInTime, SingleFlight, SendsCovered, ClaimOnFile, DispatchNext
    PROVE  ClaimOnFile'
<1>1. ASSUME NEW w \in Workers, Claim(w)
      PROVE  ClaimOnFile'
  <2>1. slot[w] \in Slots
    BY <1>1 DEF Claim, RoundsInTime, Busy, TypeOK
  <2>2. task'.scheduled_at = slot[w] /\ latest'.slot = slot[w] /\ slot' = slot
    BY <1>1, <2>1, ClaimedFields DEF Claim
  <2>3. \A v \in Workers : stage'[v] = "sending" => v = w
    BY <1>1, ClaimAlone DEF Claim, TypeOK
  <2>. QED BY <2>2, <2>3 DEF ClaimOnFile
<1>2. ASSUME NEW w \in Workers, Confirm(w) \/ Fail(w)
      PROVE  ClaimOnFile'
  <2>1. \A v \in Workers : stage'[v] # "sending"
    BY <1>2 DEF Confirm, Fail, Leaves, SingleFlight, TypeOK
  <2>. QED BY <2>1 DEF ClaimOnFile
<1>3. ASSUME NEW w \in Workers, FailEarly(w)
      PROVE  ClaimOnFile'
  <2>1. Leaves(w) /\ latest' = latest
    BY <1>3 DEF FailEarly
  <2>2. \A v \in Workers : stage'[v] = "sending" =>
            stage[v] = "sending" /\ slot'[v] = slot[v]
    BY <2>1 DEF Leaves, TypeOK
  <2>3. (\E v \in Workers : stage[v] = "sending") => disturbed'
    BY <1>3, Zenon DEF FailEarly
  <2>. QED BY <2>1, <2>2, <2>3 DEF ClaimOnFile
<1>4. ASSUME NEW w \in Workers, TurnAway(w) \/ GiveUp(w) \/ Crash(w)
      PROVE  ClaimOnFile'
  BY <1>4 DEF TurnAway, GiveUp, Crash, Leaves, ClaimOnFile, TypeOK, taskVars,
     historyVars
<1>5. ASSUME NEW w \in Workers, Poll(w)
      PROVE  ClaimOnFile'
  BY <1>5 DEF Poll, ClaimOnFile, TypeOK, taskVars, historyVars
<1>6. ASSUME Switch PROVE ClaimOnFile'
  <2>1. task'.scheduled_at = task.scheduled_at
    BY <1>6 DEF Switch, TypeOK, TaskRecord
  <2>. QED BY <1>6, <2>1 DEF Switch, workerVars, historyVars, ClaimOnFile
<1>7. ASSUME Tick PROVE ClaimOnFile'
  BY <1>7 DEF Tick, workerVars, taskVars, historyVars, ClaimOnFile
<1>. QED
  BY <1>1, <1>2, <1>3, <1>4, <1>5, <1>6, <1>7 DEF DispatchNext, Worker

\* A slot that was lost stays lost: neither the kind of the task nor the
\* history is taken back.
LEMMA SlotKept ==
    ASSUME TypeOK, DispatchNext, ~SlotLost'
    PROVE  ~SlotLost
<1>1. kind' = kind
  BY DEF DispatchNext, Worker, Poll, GiveUp, FailEarly, TurnAway, Claim, Confirm,
     Fail, Crash, Switch, Tick, setup
<1>2. disturbed => disturbed'
  <2>1. ASSUME NEW w \in Workers, FailEarly(w), disturbed PROVE disturbed'
    BY <2>1, Zenon DEF FailEarly
  <2>. QED
    BY <2>1 DEF DispatchNext, Worker, Poll, GiveUp, TurnAway, Claim, Confirm,
       Fail, Crash, Switch, Tick, historyVars
<1>. QED BY <1>1, <1>2, Zenon DEF SlotLost

LEMMA RecordedStep ==
    ASSUME DispatchInv, DispatchNext, ~SlotLost'
    PROVE  Recorded'
<1>1. /\ TypeOK /\ RoundsInTime /\ SingleFlight /\ SendsCovered /\ LatestPlanned
      /\ OneSlot /\ ClaimOnFile
      /\ Recorded
  <2>1. ~SlotLost
    BY SlotKept DEF DispatchInv
  <2>. QED BY <2>1 DEF DispatchInv
<1>2. /\ now \in Nat /\ latest.slot \in Nat /\ latest.at \in Nat /\ latest.at <= now
      /\ LastSent \in Nat /\ task.lock_until \in Nat /\ task.next_retry_at \in Nat
      /\ \A s \in confirmed : s \in Nat
      /\ \A v \in Workers : slot[v] \in Nat
  BY <1>1, LastSentNat, SlotsPositive, Times DEF TypeOK, TaskRecord, LatestPlanned
<1>3. ASSUME NEW w \in Workers, Claim(w)
      PROVE  Recorded'
  <2>1. slot[w] \in Slots
    BY <1>1, <1>3 DEF Claim, RoundsInTime, Busy, TypeOK
  <2>2. /\ task'.scheduled_at = slot[w] /\ task'.lock_until = now + Lease
        /\ LastSent' = LastSent
    BY <1>1, <1>3, <2>1, ClaimedFields, LastSentKept DEF Claim
  <2>3. latest' = [slot |-> slot[w], at |-> now] /\ confirmed' = confirmed /\ slot' = slot
    BY <1>3 DEF Claim
  <2>4. task'.lock_until >= latest'.at + Lease
    BY <1>2, <2>2, <2>3, Times
  <2>. QED BY <1>1, <2>2, <2>3, <2>4 DEF Recorded
<1>4. ASSUME NEW w \in Workers, Confirm(w)
      PROVE  Recorded'
  <2>1. /\ stage[w] = "sending" /\ latest' = latest
        /\ confirmed' = confirmed \union {slot[w]}
    BY <1>4 DEF Confirm
  <2>2. latest.slot = slot[w] /\ LastSent < slot[w]
    BY <1>1, <2>1 DEF ClaimOnFile, SendsCovered
  <2>3. LastSent' \in Nat /\ slot[w] <= LastSent'
    <3>1. kind = "message" => ~disturbed
      BY <1>4 DEF SlotLost, Confirm, setup
    <3>. QED BY <1>1, <1>4, <2>1, <3>1, ConfirmedLast DEF ClaimOnFile
  <2>4. \A s \in confirmed' : s <= LastSent'
    BY <1>1, <1>2, <2>1, <2>2, <2>3 DEF Recorded
  <2>. QED BY <1>2, <2>1, <2>2, <2>3, <2>4 DEF Recorded
<1>5. ASSUME NEW w \in Workers, Fail(w) \/ FailEarly(w)
      PROVE  Recorded'
  <2>1. /\ task'.next_retry_at = now + RetryDelay
        /\ LastSent' = LastSent
    BY <1>1, <1>5, DeferredFields, LastSentKept DEF Fail, FailEarly
  <2>2. Leaves(w) /\ latest' = latest /\ confirmed' = confirmed
    BY <1>5 DEF Fail, FailEarly, historyVars
  <2>3. task'.next_retry_at >= latest'.at + Lease
    BY <1>2, <2>1, <2>2, Times
  <2>. QED BY <1>1, <2>1, <2>2, <2>3 DEF Recorded
<1>6. ASSUME NEW w \in Workers, TurnAway(w) \/ GiveUp(w) \/ Crash(w)
      PROVE  Recorded'
  <2>1. Leaves(w) /\ task' = task /\ UNCHANGED historyVars
    BY <1>6 DEF TurnAway, GiveUp, Crash, taskVars
  <2>. QED
    BY <1>1, <2>1 DEF Leaves, Recorded, LastSent, TypeOK, historyVars
<1>7. ASSUME NEW w \in Workers, Poll(w)
      PROVE  Recorded'
  BY <1>1, <1>7 DEF Poll, Recorded, LastSent, TypeOK, taskVars, historyVars
<1>8. ASSUME Switch PROVE Recorded'
  <2>1. /\ task'.lock_until = task.lock_until
        /\ task'.next_retry_at = task.next_retry_at
        /\ task'.scheduled_at = task.scheduled_at
        /\ task'.last_scheduled_at = task.last_scheduled_at
        /\ task'.last_sent_at = task.last_sent_at
    BY <1>1, <1>8 DEF Switch, TypeOK, TaskRecord
  <2>2. LastSent' = LastSent
    BY <2>1, LastSentKept
  <2>. QED BY <1>1, <1>8, <2>1, <2>2 DEF Switch, workerVars, historyVars, Recorded
<1>9. ASSUME Tick PROVE Recorded'
  BY <1>1, <1>9 DEF Tick, workerVars, taskVars, historyVars, Recorded, LastSent
<1>. QED
  BY <1>3, <1>4, <1>5, <1>6, <1>7, <1>8, <1>9 DEF DispatchNext, Worker

LEMMA InvStep == DispatchInv /\ [DispatchNext]_dispatchVars => DispatchInv'
<1>. SUFFICES ASSUME DispatchInv, [DispatchNext]_dispatchVars PROVE DispatchInv'
  OBVIOUS
<1>1. CASE DispatchNext
  BY <1>1, TypeStep, RoundsStep, SingleFlightStep, CoveredStep, FreshStep, OneSlotStep,
     ClaimOnFileStep, RecordedStep
  DEF DispatchInv
<1>2. CASE UNCHANGED dispatchVars
  BY <1>2 DEF dispatchVars, setup, taskVars, workerVars, historyVars, DispatchInv,
     TypeOK, RoundsInTime, SingleFlight, SendsCovered, ChoicesFresh, LatestPlanned,
     OneSlot, ClaimOnFile, SlotLost, Recorded, Busy, LastSent
<1>. QED BY <1>1, <1>2

-----------------------------------------------------------------------------
(* The theorems.                                                           *)

\* The invariant: during a send the file refuses every other claim, and
\* accounts for what was sent and confirmed.
THEOREM DispatchInvariance == DispatchSpec => []DispatchInv
<1>. QED BY InitHolds, InvStep, PTL DEF DispatchSpec

\* The runtime fields of the task keep their meaning; the last slot recorded
\* is a planned one.
THEOREM DispatchTypeCorrect == DispatchSpec => []TypeOK
<1>1. DispatchInv => TypeOK
  BY DEF DispatchInv
<1>. QED BY <1>1, DispatchInvariance, PTL

\* No two workers send the task at a time, whatever crashes, is cancelled or
\* fails before its claim.
THEOREM SingleFlightAlways == DispatchSpec => []SingleFlight
<1>1. DispatchInv => SingleFlight
  BY DEF DispatchInv
<1>. QED BY <1>1, DispatchInvariance, PTL

\* Only a claim starts a send.
LEMMA StartIsClaim ==
    ASSUME TypeOK, [DispatchNext]_dispatchVars, NEW w \in Workers, Starts(w)
    PROVE  Claim(w)
<1>1. CASE UNCHANGED dispatchVars
  BY <1>1 DEF dispatchVars, workerVars, Starts
<1>2. CASE Switch \/ Tick
  BY <1>2 DEF Switch, Tick, workerVars, Starts
<1>3. ASSUME NEW v \in Workers, Worker(v)
      PROVE  Claim(w)
  <2>1. CASE Claim(v)
    BY <2>1 DEF Claim, Starts, TypeOK
  <2>2. CASE Poll(v)
    BY <2>2 DEF Poll, Starts, TypeOK
  <2>3. CASE Leaves(v)
    BY <2>3 DEF Leaves, Starts, TypeOK
  <2>. QED
    BY <1>3, <2>1, <2>2, <2>3 DEF Worker, Confirm, Fail, FailEarly, TurnAway, GiveUp, Crash
<1>. QED BY <1>1, <1>2, <1>3 DEF DispatchNext

LEMMA StartNews ==
    ASSUME DispatchInv, [DispatchNext]_dispatchVars, NEW w \in Workers,
           Starts(w), ~SlotLost
    PROVE  /\ \A s \in confirmed : s < slot[w]
           /\ \/ latest.slot < slot[w]
              \/ latest.slot = slot[w] /\ now >= latest.at + Lease
BY StartIsClaim, ClaimNews DEF DispatchInv

\* A confirmed slot is not sent again, nor an older one, unless a retry was
\* recorded over the send of a message; hourly reports and one-time tasks are
\* safe from that.
THEOREM ConfirmedNotRepeatedAlways == DispatchSpec => ConfirmedNotRepeated
<1>1. DispatchInv /\ [DispatchNext]_dispatchVars =>
        [\A w \in Workers :
            Starts(w) /\ ~SlotLost => \A s \in confirmed : s < slot[w]]_dispatchVars
  BY StartNews
<1>. QED BY <1>1, DispatchInvariance, PTL DEF DispatchSpec, ConfirmedNotRepeated

\* Sends of one slot are at least a lease apart and slots never go back,
\* unless a retry was recorded over the send of a message.
THEOREM SendsSpacedAlways == DispatchSpec => SendsSpaced
<1>1. DispatchInv /\ [DispatchNext]_dispatchVars =>
        [\A w \in Workers :
            Starts(w) /\ ~SlotLost =>
                \/ latest.slot < slot[w]
                \/ latest.slot = slot[w] /\ now >= latest.at + Lease]_dispatchVars
  BY StartNews
<1>. QED BY <1>1, DispatchInvariance, PTL DEF DispatchSpec, SendsSpaced

=============================================================================
