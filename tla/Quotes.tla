-------------------------------- MODULE Quotes --------------------------------
(* What models.py leaves optional: a price there is none of, a position there is none of. *)
EXTENDS Integers

CONSTANTS NoPrice, NoPosition

ASSUME QuotesAssumption == NoPrice \notin Int
=============================================================================
