---------------------------- MODULE MCHeaderRace ----------------------------
(* Instances of HeaderRace: the headers are told apart by their numbers. *)
EXTENDS HeaderRace

NineHeaders == [i \in 1..9 |-> i]
=============================================================================
