----------------------------- MODULE MCIntents -----------------------------
(* The model-checking instance of Intents: two custodians of two Custody      *)
(* instances, the first of which has a second domain.                         *)
EXTENDS Intents, TLC

CONSTANTS first, second, east, west, south

MCHome == (first :> east @@ second :> south)
MCReach == (first :> {east, west} @@ second :> {south})
=============================================================================
