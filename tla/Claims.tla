------------------------------- MODULE Claims -------------------------------
(* What a round of the land-grab promises its members, in single steps:     *)
(* a selection is granted to one member at a time and first come is first   *)
(* served, a claim may be given up or taken back while the round is being   *)
(* played for, and once the round is decided no claim moves again.          *)
EXTENDS Integers

CONSTANTS Members, Selections, Nothing

VARIABLES
    held,    \* the selection each member holds, or Nothing
    decided  \* the round is over

Free(c, m) == \A o \in Members \ {m} : held[o] # c

Grab(m, c) ==
    /\ ~decided
    /\ Free(c, m)
    /\ held' = [held EXCEPT ![m] = c]
    /\ UNCHANGED decided

GiveUp(S) ==
    /\ ~decided
    /\ held' = [m \in Members |-> IF m \in S THEN Nothing ELSE held[m]]
    /\ UNCHANGED decided

Decide ==
    /\ ~decided
    /\ decided' = TRUE
    /\ UNCHANGED held

ClaimsInit == held = [m \in Members |-> Nothing] /\ decided = FALSE

ClaimsNext ==
    \/ Decide
    \/ \E m \in Members, c \in Selections : Grab(m, c)
    \/ \E S \in SUBSET Members : GiveUp(S)

ClaimsSpec == ClaimsInit /\ [][ClaimsNext]_<<held, decided>>
=============================================================================
