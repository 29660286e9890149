-------------------------- MODULE MCSessionJanitor --------------------------
(* Two rows: each may start as a claim or as a session. *)
EXTENDS SessionJanitor

CONSTANTS s1, s2
=============================================================================
