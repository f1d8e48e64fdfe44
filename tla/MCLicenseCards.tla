---------------------------- MODULE MCLicenseCards ----------------------------
(* Instances of LicenseCards for TLC. *)
EXTENDS LicenseCards, TLC

CONSTANTS g1, g2, k1, k2, k3, k4, k5

\* Three cards anybody may activate, and group cards of the first group.
OneGroup == {g1}
FourCards == {k1, k2, k3, k4}
ThreeCards == {k1, k3, k4}
DaysOfCard == [c \in Cards |-> IF c \in {k2, k4} THEN Forever ELSE 1]
BoundToCard == [c \in Cards |-> IF c \in {k1, k2} THEN NoGroup
                                ELSE IF c = k5 /\ g2 \in Groups THEN g2 ELSE g1]

Days == {Forever, 2}

AllCommands == {"generate", "remove", "activate", "grant", "reissue", "add",
                "reduce", "deauthorize", "cleanup", "delete_used",
                "delete_all", "exchange", "pull", "retoken"}
LocalCommands == AllCommands \ {"exchange", "pull"}
SharedCommands == {"generate", "remove", "activate", "grant", "deauthorize",
                   "delete_used", "exchange", "pull", "retoken"}
KeepingCommands == {"generate", "grant", "activate", "exchange"}

===============================================================================
