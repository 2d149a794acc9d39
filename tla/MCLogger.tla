------------------------------ MODULE MCLogger ------------------------------
(* Two clients and three messages over a queue of two places; the logger   *)
(* is started twice, so that its second run meets a queue already closed.  *)
EXTENDS Logger

CONSTANTS c1, c2, m1, m2, m3

MCClients == {c1, c2}
MCMessages == {m1, m2, m3}
=============================================================================
