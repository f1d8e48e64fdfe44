------------------------------ MODULE SyncLocks ------------------------------
(***************************************************************************)
(* The write queue in front of the synchronization transactions            *)
(* (_run_serialized_sync_write in web_client/app.py): one asyncio.Lock per *)
(* QQ group, taken in sorted order, kept until the worker thread that runs *)
(* the transaction has committed or rolled back, even when the HTTP answer *)
(* was given before that.                                                  *)
(***************************************************************************)
EXTENDS Naturals, Sequences, FiniteSets, FiniteSetsExt

CONSTANTS
    Requests,    \* the synchronization requests of a run
    Keys,        \* the lock keys, numbered in their sorted order
    GlobalKey,   \* "__sync_global__"
    Payload      \* the groups each request names, in its own order

ASSUME SyncLocksAssumption ==
    /\ Keys \subseteq Nat
    /\ GlobalKey \in Keys
    /\ Payload \in [Requests -> Seq(Keys)]

VARIABLES
    phase,      \* where the handler of each request is
    locked,     \* asyncio.Lock.locked() of each key
    waiting,    \* the waiters of each lock, in order
    acquired,   \* the list `acquired' of each call, as a set
    deferred,   \* `held_locks' of its deferred release
    thread      \* the worker thread of its transaction

lockVars == <<phase, locked, waiting, acquired, deferred, thread>>

-----------------------------------------------------------------------------
(* Keys and locks.                                                         *)

Scope(r) ==
    IF Payload[r] = <<>> THEN {GlobalKey}
    ELSE {Payload[r][i] : i \in DOMAIN Payload[r]}

\* Mutant of NextKey: the keys are taken in the order of the payload.
NextKeyAsListed(r, held) ==
    IF Payload[r] = <<>> THEN GlobalKey
    ELSE Payload[r][Min({i \in DOMAIN Payload[r] : Payload[r][i] \notin held})]

\* All keys are sorted before acquisition.
NextKey(r, held) == Min(Scope(r) \ held)

\* asyncio.Lock: a free lock goes to its first waiter, a newcomer never
\* overtakes, and a waiter that is cancelled leaves the line.
IsFirst(k, r) == waiting[k] # <<>> /\ Head(waiting[k]) = r

Without(line, r) ==
    LET i == CHOOSE j \in DOMAIN line : line[j] = r
    IN  SubSeq(line, 1, i - 1) \o SubSeq(line, i + 1, Len(line))

\* release() opens the lock whoever took it.
Released(keys) == [k \in Keys |-> locked[k] /\ k \notin keys]

-----------------------------------------------------------------------------
(* The call of one request.                                                *)

\* A client sends its next request, or repeats one, for ever; the slot of an
\* earlier request is used again when nothing of it is left.
Submit(r) ==
    /\ phase[r] = "answered"
    /\ deferred[r] = {}
    /\ phase' = [phase EXCEPT ![r] = "queued"]
    /\ waiting' = [waiting EXCEPT ![NextKey(r, {})] = Append(@, r)]
    /\ thread' = [thread EXCEPT ![r] = "none"]
    /\ UNCHANGED <<locked, acquired, deferred>>

\* Mutant of Take: one lock is enough to start.
TakeOne(r) ==
    LET k == NextKey(r, acquired[r])
    IN  /\ phase[r] = "queued"
        /\ ~locked[k]
        /\ IsFirst(k, r)
        /\ locked' = [locked EXCEPT ![k] = TRUE]
        /\ acquired' = [acquired EXCEPT ![r] = @ \union {k}]
        /\ waiting' = [waiting EXCEPT ![k] = Tail(@)]
        /\ phase' = [phase EXCEPT ![r] = "running"]
        /\ thread' = [thread EXCEPT ![r] = "running"]
        /\ UNCHANGED deferred

\* The next lock is free and the request is first in line; with the last one
\* the transaction starts in a worker thread.
Take(r) ==
    LET k == NextKey(r, acquired[r])
        held == acquired[r] \union {k}
    IN  /\ phase[r] = "queued"
        /\ ~locked[k]
        /\ IsFirst(k, r)
        /\ locked' = [locked EXCEPT ![k] = TRUE]
        /\ acquired' = [acquired EXCEPT ![r] = held]
        /\ \/ /\ Scope(r) \subseteq held
              /\ waiting' = [waiting EXCEPT ![k] = Tail(@)]
              /\ phase' = [phase EXCEPT ![r] = "running"]
              /\ thread' = [thread EXCEPT ![r] = "running"]
           \/ /\ ~(Scope(r) \subseteq held)
              /\ waiting' = [waiting EXCEPT ![k] = Tail(@),
                                            ![NextKey(r, held)] = Append(@, r)]
              /\ UNCHANGED <<phase, thread>>
        /\ UNCHANGED deferred

\* The 30 seconds of the queue are over, or the caller went away.
LeaveQueue(r) ==
    /\ phase[r] = "queued"
    /\ phase' = [phase EXCEPT ![r] = "answered"]
    /\ waiting' = [waiting EXCEPT ![NextKey(r, acquired[r])] = Without(@, r)]
    /\ locked' = Released(acquired[r])
    /\ acquired' = [acquired EXCEPT ![r] = {}]
    /\ UNCHANGED <<deferred, thread>>

\* The worker thread ends: the transaction committed or was rolled back.
EndTransaction(r) ==
    /\ thread[r] = "running"
    /\ \E outcome \in {"committed", "failed"} :
            thread' = [thread EXCEPT ![r] = outcome]
    /\ UNCHANGED <<phase, locked, waiting, acquired, deferred>>

\* The handler still waits, answers, and its finally clause opens the locks.
Finish(r) ==
    /\ phase[r] = "running"
    /\ thread[r] \in {"committed", "failed"}
    /\ phase' = [phase EXCEPT ![r] = "answered"]
    /\ locked' = Released(acquired[r])
    /\ acquired' = [acquired EXCEPT ![r] = {}]
    /\ UNCHANGED <<waiting, deferred, thread>>

\* Mutants of GiveUp: the locks are opened with the answer; `acquired' is not
\* cleared, so the finally clause opens what the deferred release will open
\* again; the thread counts as interrupted.
GiveUpReleasing(r) ==
    /\ phase[r] = "running"
    /\ phase' = [phase EXCEPT ![r] = "answered"]
    /\ locked' = Released(acquired[r])
    /\ acquired' = [acquired EXCEPT ![r] = {}]
    /\ UNCHANGED <<waiting, deferred, thread>>
GiveUpTwice(r) ==
    /\ phase[r] = "running"
    /\ phase' = [phase EXCEPT ![r] = "answered"]
    /\ deferred' = [deferred EXCEPT ![r] = acquired[r]]
    /\ locked' = Released(acquired[r])
    /\ acquired' = [acquired EXCEPT ![r] = {}]
    /\ UNCHANGED <<waiting, thread>>
GiveUpInterrupting(r) ==
    /\ phase[r] = "running"
    /\ phase' = [phase EXCEPT ![r] = "answered"]
    /\ deferred' = [deferred EXCEPT ![r] = acquired[r]]
    /\ acquired' = [acquired EXCEPT ![r] = {}]
    /\ thread' = [thread EXCEPT ![r] = "interrupted"]
    /\ UNCHANGED <<locked, waiting>>

\* The transaction timeout, or a cancelled handler: defer_lock_release keeps
\* the locks for a task that waits for the thread.
GiveUp(r) ==
    /\ phase[r] = "running"
    /\ phase' = [phase EXCEPT ![r] = "answered"]
    /\ deferred' = [deferred EXCEPT ![r] = acquired[r]]
    /\ acquired' = [acquired EXCEPT ![r] = {}]
    /\ UNCHANGED <<locked, waiting, thread>>

\* Mutant of ReleaseDeferred: an exception of the transaction skips it.
ReleaseCommitted(r) ==
    /\ deferred[r] # {}
    /\ thread[r] = "committed"
    /\ locked' = Released(deferred[r])
    /\ deferred' = [deferred EXCEPT ![r] = {}]
    /\ UNCHANGED <<phase, waiting, acquired, thread>>

\* release_after_completion
ReleaseDeferred(r) ==
    /\ deferred[r] # {}
    /\ thread[r] \in {"committed", "failed"}
    /\ locked' = Released(deferred[r])
    /\ deferred' = [deferred EXCEPT ![r] = {}]
    /\ UNCHANGED <<phase, waiting, acquired, thread>>

LocksInit ==
    /\ phase = [r \in Requests |-> "answered"]
    /\ locked = [k \in Keys |-> FALSE]
    /\ waiting = [k \in Keys |-> <<>>]
    /\ acquired = [r \in Requests |-> {}]
    /\ deferred = [r \in Requests |-> {}]
    /\ thread = [r \in Requests |-> "none"]

LocksNext ==
    \E r \in Requests :
        \/ Submit(r)
        \/ Take(r)
        \/ LeaveQueue(r)
        \/ EndTransaction(r)
        \/ Finish(r)
        \/ GiveUp(r)
        \/ ReleaseDeferred(r)

LocksSpec == LocksInit /\ [][LocksNext]_lockVars

\* The event loop resumes a task that can go on, and a database transaction
\* ends.  Nobody has to lose patience.
LocksFairness ==
    \A r \in Requests :
        /\ WF_lockVars(Take(r))
        /\ WF_lockVars(EndTransaction(r))
        /\ WF_lockVars(Finish(r))
        /\ WF_lockVars(ReleaseDeferred(r))

FairLocksSpec == LocksSpec /\ LocksFairness

-----------------------------------------------------------------------------
Running == {r \in Requests : thread[r] = "running"}
Writes == INSTANCE ScopedWrites WITH
            Groups <- Scope, active <- Running

\* What a call answers for: its own locks and those of its deferred release.
Held(r) == acquired[r] \union deferred[r]

TypeOK ==
    /\ phase \in [Requests -> {"queued", "running", "answered"}]
    /\ locked \in [Keys -> BOOLEAN]
    /\ waiting \in [Keys -> Seq(Requests)]
    /\ acquired \in [Requests -> SUBSET Keys]
    /\ deferred \in [Requests -> SUBSET Keys]
    /\ thread \in [Requests -> {"none", "running", "committed", "failed"}]

\* Two transactions that touch the same group never run at the same time,
\* also when the answer of one was given before it ended.
MutualExclusion ==
    \A r, s \in Running : r # s => Scope(r) \intersect Scope(s) = {}

\* Every closed lock belongs to exactly one call, which will open it, and no
\* call answers for an open lock.
LockedByOne ==
    \A k \in Keys :
        LET owners == {r \in Requests : k \in Held(r)}
        IN  IF locked[k] THEN \E r \in Requests : owners = {r} ELSE owners = {}

\* While somebody queues, some call can go on by itself: requests never wait
\* for each other in a circle.
SomebodyMoves ==
    (\E r \in Requests : phase[r] = "queued") =>
        \E r \in Requests :
            \/ thread[r] = "running"
            \/ phase[r] = "running"
            \/ deferred[r] # {}
            \/ /\ phase[r] = "queued"
               /\ ~locked[NextKey(r, acquired[r])]
               /\ IsFirst(NextKey(r, acquired[r]), r)

\* The queue only lets transactions run the abstract mutual exclusion allows.
ImplementsScopedWrites == Writes!WritesSpec

\* A queued request is answered although no other one ever times out.
EveryRequestAnswered ==
    \A r \in Requests : phase[r] = "queued" ~> phase[r] = "answered"

\* No lock stays closed for ever, whatever was answered, cancelled or failed.
LocksComeBack == \A k \in Keys : locked[k] ~> ~locked[k]

=============================================================================
