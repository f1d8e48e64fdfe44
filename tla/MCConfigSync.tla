---------------------------- MODULE MCConfigSync ----------------------------
(* Instances of ConfigSync for TLC. *)
EXTENDS ConfigSync, TLC

CONSTANTS g1, g2, c1, c2

RankByName == [g \in Groups |-> IF g = g1 THEN 1 ELSE 2]
EverybodyJoined == [c \in Clients |-> Groups]
FirstListsAll == [c \in Clients |-> IF c = c1 THEN Groups ELSE {}]
ClientSymmetry == Permutations(Clients)
SecondFileBroken == {<<c1, g2>>}

=============================================================================
