--------------------------- MODULE MCSessionAdmission ---------------------------
(***************************************************************************)
(* SessionAdmission with one live session per account; one device a day on *)
(* one account, one session a day on the other.                            *)
(***************************************************************************)
EXTENDS SessionAdmission

CONSTANTS a1, a2, s1, s2, d1, d2

MCDeviceOf == [s \in Sessions |-> IF s = s1 THEN d1 ELSE d2]
OneSession == [a \in Accounts |-> 1]
OneDeviceToday == [a \in Accounts |-> IF a = a1 THEN 1 ELSE 0]
OneSessionToday == [a \in Accounts |-> IF a = a1 THEN 0 ELSE 1]
===============================================================================
