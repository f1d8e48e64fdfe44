-------------------------- MODULE MCSigninDatabase --------------------------
EXTENDS SigninDatabase, TLC

CONSTANTS u1, u2, a1, a2

Roles ==
    (a1 :> {<<"sign", u1>>}) @@ (a2 :> {<<"sign", u1>>, <<"sign", u2>>, <<"reset", u1>>})
MayBe == [a \in Attempts |-> {role \in Roles[a] : role[2] \in Users}]
=============================================================================
