----------------------------- MODULE ScopedWrites -----------------------------
(***************************************************************************)
(* What the write queue promises: transactions whose groups overlap never  *)
(* run at the same time, and no request runs twice at once.                *)
(***************************************************************************)
CONSTANTS Requests, Groups(_)

VARIABLE active   \* the requests whose transaction runs

WritesInit == active = {}

Begin(r) ==
    /\ r \notin active
    /\ \A s \in active : Groups(r) \intersect Groups(s) = {}
    /\ active' = active \union {r}

End(r) ==
    /\ r \in active
    /\ active' = active \ {r}

WritesNext == \E r \in Requests : Begin(r) \/ End(r)

WritesSpec == WritesInit /\ [][WritesNext]_active

=============================================================================
