--------------------------- MODULE MCProxyRecovery ---------------------------
(* Instances of ProxyRecovery for TLC. *)
EXTENDS ProxyRecovery

\* One part of the world is out of order from the start; repairs are free, so
\* the good world is reached from here with all the faults still to come.
MCForeign == {[GoodWorld EXCEPT !.foreign = FALSE]}
MCOutage == {[GoodWorld EXCEPT !.panel = "down"]}
=============================================================================
