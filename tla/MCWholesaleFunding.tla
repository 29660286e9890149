------------------------- MODULE MCWholesaleFunding -------------------------
(* Two domains of one payee, one of them new or funded earlier; a request *)
(* for the first, and the poller.                                         *)
EXTENDS WholesaleFunding

CONSTANTS x1, x2, r1, w1, p

OnePayee == [x \in Accounts |-> "payee"]
OwnRequest == [w \in Workers \ Poller |-> r1]
Routed == [w \in Workers |-> IF w = w1 THEN {x1} ELSE Accounts]
Reservations == [w \in Workers |-> IF w = w1 THEN 2 ELSE 0]

Unused == [credited |-> 0, reserved |-> 0, debited |-> 0, version |-> 0]
InUse == [Unused EXCEPT !.credited = 2, !.reserved = 1]
Openings == {[x \in Accounts |-> IF x = x1 THEN first ELSE Unused] : first \in {Unused, InUse}}
=============================================================================
