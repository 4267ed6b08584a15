----------------------------- MODULE MCMemorySlots -----------------------------
(***************************************************************************)
(* MemorySlots on a small instance: two accounts (limits 1 and 2) and one  *)
(* token of limit 2, served by three requests.                             *)
(***************************************************************************)
EXTENDS MemorySlots

CONSTANTS a1, a2, t1

MCMax == [k \in Keys |-> IF k = a1 THEN 1 ELSE 2]
===============================================================================
