------------------------------ MODULE HandView ------------------------------
(***************************************************************************)
(* What an environment promises of a hand to those who drive it: whose     *)
(* turn it is, how many decisions were taken and whether the hand is over. *)
(* Seat 1 opens a hand and never takes two decisions in a row (seat 0      *)
(* does: it opens every street but the first).                             *)
(***************************************************************************)
EXTENDS Integers

VARIABLES actor, taken, over

vars == <<actor, taken, over>>

Seats == {0, 1}
NextActors == IF actor = 1 THEN {0} ELSE Seats

Init == actor = 1 /\ taken = 0 /\ over = FALSE

Decision == /\ ~over
            /\ taken' = taken + 1
            /\ actor' \in NextActors
            /\ UNCHANGED over

LastDecision == /\ ~over
                /\ taken' = taken + 1
                /\ over' = TRUE
                /\ UNCHANGED actor

NewHand == actor' = 1 /\ taken' = 0 /\ over' = FALSE

Next == Decision \/ LastDecision \/ NewHand

Spec == Init /\ [][Next]_vars
=============================================================================
