----------------------------- MODULE MCHomeLease -----------------------------
(* Instances of HomeLease for TLC: hosts a, b and c boot the home whose    *)
(* ports are p, q, r in this order, host d a home that starts at q.        *)
EXTENDS HomeLease

CONSTANTS a, b, c, d, p, q, r, home, other

HomesOf    == [h \in Hosts |-> IF h = d THEN other ELSE home]
InOrder    == [h \in Homes |-> IF h = other THEN <<q, r>> ELSE <<p, q, r>>]
TwoInOrder == [h \in Homes |-> <<p, q>>]
==============================================================================
