---------------------------- MODULE MCObservation ----------------------------
(* Observation on a small instance: a board that no seat's cards are on.   *)
EXTENDS Observation

(* What IEEE 754 doubles make of 0.4, 0.41 and 1 times the pots of the     *)
(* instance: 0.41 * 300 is 122.99..., and 30 + 0.41 * 300 is 153.          *)
MCLostInProduct == {<<41, 300>>, <<41, 600>>}
MCFoundInSum == {<<41, 300, b>> : b \in 6 .. 480}
                \cup {<<41, 600, b>> : b \in 11 .. 480}

MCHole == [p \in Seats |-> IF p = 0 THEN {0, 1} ELSE {2, 3}]
MCCommunity == <<4, 8, 5, 6, 7>>
=============================================================================
