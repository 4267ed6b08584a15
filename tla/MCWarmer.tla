-------------------------------- MODULE MCWarmer --------------------------------
(* Two tasks that share a token; the first has another one of its own.     *)
EXTENDS Warmer, TLC

CONSTANTS t1, t2, k1, k2

SharedToken == (t1 :> {k1, k2}) @@ (t2 :> {k1})
===============================================================================
