------------------------------ MODULE MCUsageCost ------------------------------
(***************************************************************************)
(* UsageCost with a response of each of two accounts.                      *)
(***************************************************************************)
EXTENDS UsageCost

CONSTANTS r1, r2, a1, a2

MCAccountOf == [r \in Responses |-> IF r = r1 THEN a1 ELSE a2]
===============================================================================
