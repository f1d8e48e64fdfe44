---------------------------- MODULE ConfigRegister ----------------------------
(***************************************************************************)
(* What the configuration channel promises for one group: a replicated     *)
(* register.  The portal numbers the projections; a client's copy only     *)
(* moves forward, to a revision that exists; the portal believes a client  *)
(* no further than that client's copy; and only an explicit pull takes a   *)
(* confirmation back.  Messages, retries and owners do not appear.         *)
(***************************************************************************)
EXTENDS Naturals

CONSTANT Clients

VARIABLES
    revision,   \* the current revision, 0 while there is none
    held,       \* the revision of each client's copy
    enrolled,   \* the clients the portal follows
    confirmed   \* the revision the portal believes each of them to hold

registerVars == <<revision, held, enrolled, confirmed>>

RegisterInit ==
    /\ revision \in Nat
    /\ held = [c \in Clients |-> 0]
    /\ enrolled = {}
    /\ confirmed = [c \in Clients |-> 0]

\* The first report of a group, or a save in a browser.
NewRevision ==
    /\ revision' = revision + 1
    /\ UNCHANGED <<held, enrolled, confirmed>>

\* New clients are followed from some revision on; a group without any gets
\* its first one.
Enrol(new) ==
    /\ new # {}
    /\ new \intersect enrolled = {}
    /\ revision' = revision \/ (revision = 0 /\ revision' = 1)
    /\ enrolled' = enrolled \union new
    /\ \A c \in new : confirmed'[c] \in 0 .. revision'
    /\ \A c \in Clients \ new : confirmed'[c] = confirmed[c]
    /\ confirmed' \in [Clients -> Nat]
    /\ UNCHANGED held

Receive(c) ==
    /\ held[c] < revision
    /\ \E r \in held[c] + 1 .. revision : held' = [held EXCEPT ![c] = r]
    /\ UNCHANGED <<revision, enrolled, confirmed>>

Confirm(c) ==
    /\ c \in enrolled
    /\ confirmed[c] < held[c]
    /\ \E r \in confirmed[c] + 1 .. held[c] : confirmed' = [confirmed EXCEPT ![c] = r]
    /\ UNCHANGED <<revision, held, enrolled>>

\* An explicit pull asks for the current revision once more.
Reopen(c) ==
    /\ revision > 0
    /\ enrolled' = enrolled \union {c}
    /\ confirmed' = [confirmed EXCEPT ![c] = revision - 1]
    /\ UNCHANGED <<revision, held>>

RegisterNext ==
    \/ NewRevision
    \/ \E new \in SUBSET Clients : Enrol(new)
    \/ \E c \in Clients : Receive(c) \/ Confirm(c) \/ Reopen(c)

RegisterSpec == RegisterInit /\ [][RegisterNext]_registerVars

=============================================================================
