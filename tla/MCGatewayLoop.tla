----------------------------- MODULE MCGatewayLoop -----------------------------
(***************************************************************************)
(* GatewayLoop with small retry bounds and three tokens: one that names no *)
(* account; one that blocks a1, its client refused by a3; one that is left *)
(* with a1 only, which refuses its client.                                 *)
(***************************************************************************)
EXTENDS GatewayLoop

CONSTANTS a1, a2, a3

Token(allow, block, accept) ==
  [allowed |-> allow \cap Accounts, blocked |-> block \cap Accounts,
   accepts |-> accept \cap Accounts]

Open == Token({}, {}, Accounts)

MCPolicies ==
  {Open, Token({}, {a1}, {a1, a2}), Token({a1, a2}, {a2}, {a2, a3})}

OpenOnly == {Open}
===============================================================================
