------------------------- MODULE MCDriverLifecycle -------------------------
(* The drivers of DriverScripts, with two devices. *)
EXTENDS DriverLifecycle, DriverScripts, TLC

NoLeftover == [n \in DOMAIN KnownLeftover |-> {}]
=============================================================================
