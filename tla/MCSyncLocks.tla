----------------------------- MODULE MCSyncLocks -----------------------------
(* Instances of SyncLocks for TLC. *)
EXTENDS SyncLocks, TLC

CONSTANTS r1, r2, r3, r4, r5

\* Exchanges that overlap pairwise and list their groups in circular order,
\* one that repeats the first, and a request without a group.
FivePayloads ==
    [r \in Requests |->
        CASE r = r1 -> <<1, 2>>
          [] r = r2 -> <<2, 3>>
          [] r = r3 -> <<3, 1>>
          [] r = r4 -> <<2, 1>>
          [] r = r5 -> <<>>]

FiveRequests == {r1, r2, r3, r4, r5}

=============================================================================
