---------------------------- MODULE MCStm32Bulk ----------------------------
(* A small instance of Stm32Bulk: the board, with the driver loaded. *)
EXTENDS Stm32Bulk, TLC

CONSTANTS d1

Ep(dir, bulk, max) == [dir |-> dir, bulk |-> bulk, max |-> max]

\* An interrupt endpoint before the two bulk ones, and a second bulk endpoint
\* that is passed over.
Board == <<Ep("in", FALSE, 8), Ep("in", TRUE, 2), Ep("out", TRUE, 1), Ep("in", TRUE, 1)>>

OneBoard == d1 :> Board
=============================================================================
