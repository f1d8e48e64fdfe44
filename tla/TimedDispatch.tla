---------------------------- MODULE TimedDispatch ----------------------------
(***************************************************************************)
(* One scheduled task of one group, sent by several bot processes that     *)
(* share the group's file and the directory of the dispatch locks.         *)
(*                                                                         *)
(* A round of a worker is get_due_messages on a snapshot, a wait for       *)
(* accounts of a higher priority, claim_timed_message, the request to QQ,  *)
(* and mark_sent or mark_timed_message_retry.  The functions on the file   *)
(* do not await, so each is one action.  A slot is the planned time of a   *)
(* report.                                                                 *)
(***************************************************************************)
EXTENDS Integers

CONSTANTS
    Workers,     \* bot processes
    Dead,        \* a process number nobody has any more
    Plans,       \* sets of slots a recurring task may be planned for
    Round,       \* wait_for(..., timeout=45) around a round
    Lease,       \* lease_seconds of a claim
    RetryDelay,  \* retry_after_seconds
    CatchUp,     \* _CRON_CATCHUP_SECONDS
    HourlyCatchUp,
    MaxNow       \* bound: where the clock stops

ASSUME PlanAssumption == \A plan \in Plans : plan \in SUBSET (1 .. MaxNow)

ASSUME TimeAssumption ==
    /\ {Round, Lease, RetryDelay, CatchUp, HourlyCatchUp, MaxNow} \subseteq Nat
    /\ Round < Lease
    /\ Lease <= RetryDelay

VARIABLES
    kind,      \* "message", "hourly", or "once": what mark_sent distinguishes
    plan,      \* the slots of the cron expression, or the run_at
    task,      \* the runtime fields of the task in the group's file
    lock,      \* the lock file: when it expires (0: no file), and its owner
    lockDir,   \* can the directory of the lock files be written?
    stage,     \* what a worker is doing with this task
    slot,      \* _scheduled_at of the worker's snapshot
    deadline,  \* when the worker's round is cancelled
    now,
    confirmed, \* history: the slots QQ confirmed
    latest,    \* history: the slot whose send started last, and when
    disturbed  \* history: a retry was recorded during a send of another worker

taskVars == <<task, lock>>
workerVars == <<stage, slot, deadline>>
historyVars == <<confirmed, latest, disturbed>>
setup == <<kind, plan, lockDir>>
dispatchVars == <<setup, taskVars, workerVars, now, historyVars>>

-----------------------------------------------------------------------------
(* The file.                                                               *)

\* msg.get("last_scheduled_at", msg.get("last_sent_at", 0)); 0 is absent.
LastSent ==
    IF task.last_scheduled_at # 0 THEN task.last_scheduled_at
                                  ELSE task.last_sent_at

NoLock == [expires |-> 0, owner |-> Dead]

\* The slots a poll may pick: not before the catch-up window, not after now,
\* and newer than the last one.  A one-time task has no window.
DueSlots ==
    IF kind = "once"
    THEN {s \in plan : task.last_sent_at = 0 /\ s <= now /\ LastSent < s}
    ELSE {s \in plan :
            /\ s <= now
            /\ s >= now - (IF kind = "hourly" THEN HourlyCatchUp ELSE CatchUp)
            /\ LastSent < s}

\* Mutant: the claim trusts the slot the worker chose.
MayClaimChosen(s) ==
    task.enabled /\ task.next_retry_at <= now /\ task.lock_until <= now

\* Mutant: the claim forgets the lease in the group's file.
MayClaimLeased(s) ==
    task.enabled /\ LastSent < s /\ task.next_retry_at <= now

MayClaim(s) ==
    /\ task.enabled
    /\ LastSent < s
    /\ task.next_retry_at <= now
    /\ task.lock_until <= now

\* A lock file is created where there is none, and taken over when it has
\* expired or its owner is found dead (os.kill may also fail to tell).
LockGiven == lockDir => lock.expires <= now \/ lock.owner = Dead

Unclaimed(t) == [t EXCEPT !.lock_until = 0, !.scheduled_at = 0]

Claimed(s) ==
    [task EXCEPT !.lock_until = now + Lease, !.scheduled_at = s]

\* Mutant: a failure only takes the claim back.
DeferredNot == Unclaimed(task)

Deferred == [Unclaimed(task) EXCEPT !.next_retry_at = now + RetryDelay]

\* Mutant: the slot is the time of the confirmation.
CompletedNow(w) == now

\* Only the hourly report names its slot; the others take the claim's.
CompletedSlot(w) == IF kind = "hourly" THEN slot[w] ELSE task.scheduled_at

Sent(w) ==
    [Unclaimed(task) EXCEPT
        !.last_sent_at = now,
        !.last_scheduled_at = IF CompletedSlot(w) # 0 THEN CompletedSlot(w)
                                ELSE task.last_scheduled_at,
        !.next_retry_at = 0,
        !.enabled = task.enabled /\ kind # "once"]

-----------------------------------------------------------------------------
(* The workers.                                                            *)

Busy(w) == stage[w] # "idle"

\* The worker goes on with other tasks, or its round ends.
Leaves(w) ==
    /\ stage' = [stage EXCEPT ![w] = "idle"]
    /\ slot' = [slot EXCEPT ![w] = 0]
    /\ deadline' = [deadline EXCEPT ![w] = 0]

\* get_due_messages: the newest due slot of an enabled task that is not
\* backing off.
Poll(w) ==
    /\ ~Busy(w)
    /\ task.enabled
    /\ task.next_retry_at <= now
    /\ \E newest \in DueSlots :
            /\ \A s \in DueSlots : s <= newest
            /\ slot' = [slot EXCEPT ![w] = newest]
    /\ stage' = [stage EXCEPT ![w] = "chosen"]
    /\ deadline' = [deadline EXCEPT ![w] = now + Round]
    /\ UNCHANGED <<setup, taskVars, now, historyVars>>

\* Another account is the primary one of the group, the lock file is held, the
\* round is cut off, or a hot reload cancels it: nothing is written.
GiveUp(w) ==
    /\ Busy(w)
    /\ Leaves(w)
    /\ UNCHANGED <<setup, taskVars, now, historyVars>>

\* mark_timed_message_retry before any claim: no QQ account is connected, or
\* the write of the claim failed.  It removes the lease and the lock file of
\* whoever is sending.
FailEarly(w) ==
    /\ stage[w] = "chosen"
    /\ task' = Deferred
    /\ lock' = IF lockDir THEN NoLock ELSE lock
    /\ disturbed' = (disturbed \/ \E v \in Workers : stage[v] = "sending")
    /\ Leaves(w)
    /\ UNCHANGED <<setup, now, confirmed, latest>>

\* claim_timed_message got the lock file and finds the task disabled, done,
\* backing off or leased: it removes the lock file again.
TurnAway(w) ==
    /\ stage[w] = "chosen"
    /\ LockGiven
    /\ ~MayClaim(slot[w])
    /\ lock' = IF lockDir THEN NoLock ELSE lock
    /\ Leaves(w)
    /\ UNCHANGED <<setup, task, now, historyVars>>

Claim(w) ==
    /\ stage[w] = "chosen"
    /\ LockGiven
    /\ MayClaim(slot[w])
    /\ task' = Claimed(slot[w])
    /\ lock' = IF lockDir THEN [expires |-> now + Lease, owner |-> w] ELSE lock
    /\ stage' = [stage EXCEPT ![w] = "sending"]
    /\ latest' = [slot |-> slot[w], at |-> now]
    /\ UNCHANGED <<setup, slot, deadline, now, confirmed, disturbed>>

\* QQ confirms: mark_sent.
Confirm(w) ==
    /\ stage[w] = "sending"
    /\ task' = Sent(w)
    /\ lock' = IF lockDir THEN NoLock ELSE lock
    /\ confirmed' = confirmed \union {slot[w]}
    /\ Leaves(w)
    /\ UNCHANGED <<setup, now, latest, disturbed>>

\* QQ refuses, or its answer is lost and the message may have been sent.
Fail(w) ==
    /\ stage[w] = "sending"
    /\ task' = Deferred
    /\ lock' = IF lockDir THEN NoLock ELSE lock
    /\ Leaves(w)
    /\ UNCHANGED <<setup, now, historyVars>>

\* The process dies, perhaps after QQ took the message; its successor has
\* another process number.
Crash(w) ==
    /\ lock' = IF lock.owner = w THEN [lock EXCEPT !.owner = Dead] ELSE lock
    /\ Leaves(w)
    /\ UNCHANGED <<setup, task, now, historyVars>>

\* A command or a projection from the portal (_merge_timed_messages keeps
\* the runtime fields) switches the task on or off.
Switch ==
    /\ task' = [task EXCEPT !.enabled = ~task.enabled]
    /\ UNCHANGED <<setup, lock, workerVars, now, historyVars>>

\* Time passes; a round that has used up its 45 seconds is cancelled first.
Tick ==
    /\ now < MaxNow
    /\ \A w \in Workers : Busy(w) => now < deadline[w]
    /\ now' = now + 1
    /\ UNCHANGED <<setup, taskVars, workerVars, historyVars>>

-----------------------------------------------------------------------------
DispatchInit ==
    /\ lockDir \in BOOLEAN
    /\ \/ kind \in {"message", "hourly"} /\ plan \in Plans
       \/ kind = "once" /\ plan \in {{s} : s \in UNION Plans}
    /\ task = [enabled |-> TRUE, last_sent_at |-> 0, last_scheduled_at |-> 0,
               next_retry_at |-> 0, lock_until |-> 0, scheduled_at |-> 0]
    /\ lock = NoLock
    /\ stage = [w \in Workers |-> "idle"]
    /\ slot = [w \in Workers |-> 0]
    /\ deadline = [w \in Workers |-> 0]
    /\ now = 0
    /\ confirmed = {}
    /\ latest = [slot |-> 0, at |-> 0]
    /\ disturbed = FALSE

Worker(w) ==
    \/ Poll(w) \/ GiveUp(w) \/ FailEarly(w) \/ TurnAway(w) \/ Claim(w)
    \/ Confirm(w) \/ Fail(w) \/ Crash(w)

DispatchNext == (\E w \in Workers : Worker(w)) \/ Switch \/ Tick

DispatchSpec == DispatchInit /\ [][DispatchNext]_dispatchVars

-----------------------------------------------------------------------------
(* Properties.                                                             *)

Slots == UNION Plans

TaskRecord ==
    [enabled : BOOLEAN, last_sent_at : Nat,
     last_scheduled_at : Slots \union {0}, next_retry_at : Nat,
     lock_until : Nat, scheduled_at : Slots \union {0}]

TypeOK ==
    /\ kind \in {"message", "hourly", "once"}
    /\ plan \in SUBSET Slots
    /\ lockDir \in BOOLEAN
    /\ task \in TaskRecord
    /\ lock \in [expires : Nat, owner : Workers \union {Dead}]
    /\ stage \in [Workers -> {"idle", "chosen", "sending"}]
    /\ slot \in [Workers -> Slots \union {0}]
    /\ deadline \in [Workers -> Nat]
    /\ now \in 0 .. MaxNow
    /\ confirmed \in SUBSET Slots
    /\ latest \in [slot : Slots \union {0}, at : Nat]
    /\ disturbed \in BOOLEAN

\* "A short persisted lease makes the task single-flight": no two workers
\* send at a time, although leases and lock files are taken off by crashes,
\* cancelled rounds and workers without a QQ account.
SingleFlight ==
    \A v, w \in Workers : stage[v] = "sending" /\ stage[w] = "sending" => v = w

Starts(w) == stage[w] # "sending" /\ stage'[w] = "sending"

\* A retry that was recorded during a send took off the claim, which is where
\* the confirmation of a message finds its slot; an hourly report brings its
\* own, and a one-time task is done once it has been sent at all.
SlotLost == disturbed /\ kind = "message"

\* What QQ confirmed is not sent again, nor anything planned before it,
\* whatever a worker saw when it chose its slot.
ConfirmedNotRepeated ==
    [][\A w \in Workers :
        Starts(w) /\ ~SlotLost => \A s \in confirmed : s < slot[w]]_dispatchVars

\* "One uncertain send" never becomes "a flood": the sends of a slot are a
\* lease apart at least, and after a newer slot no older one is sent.
SendsSpaced ==
    [][\A w \in Workers :
        Starts(w) /\ ~SlotLost =>
            \/ latest.slot < slot[w]
            \/ latest.slot = slot[w] /\ now >= latest.at + Lease]_dispatchVars

=============================================================================
