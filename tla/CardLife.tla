------------------------------- MODULE CardLife -------------------------------
(***************************************************************************)
(* What the program promises for one license card: it is made once, it is  *)
(* activated by one group at most, and what is gone or used never comes    *)
(* back to the list of cards that may be activated.  Files, copies and     *)
(* failed writes do not appear.                                            *)
(***************************************************************************)
CONSTANTS
    Groups,     \* those that may activate a card
    NoGroup     \* the holder of a card nobody activated

VARIABLES
    state,      \* where the card is in its life
    holder      \* the group it is activated for

lifeVars == <<state, holder>>

LifeInit == state = "new" /\ holder = NoGroup

\* An owner makes a card that anybody may activate.
Stock ==
    /\ state = "new"
    /\ state' = "unused"
    /\ UNCHANGED holder

\* A customer activates a stocked card, or the owner makes one for a group.
Use(g) ==
    /\ state \in {"new", "unused"}
    /\ state' = "used"
    /\ holder' = g

\* The card is removed or replaced, or its record was never saved.
Discard ==
    /\ state # "gone"
    /\ state' = "gone"
    /\ holder' = NoGroup

LifeNext == Stock \/ Discard \/ \E g \in Groups : Use(g)

LifeSpec == LifeInit /\ [][LifeNext]_lifeVars

===============================================================================
