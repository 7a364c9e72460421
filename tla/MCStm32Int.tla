---------------------------- MODULE MCStm32Int -----------------------------
(* A small instance of Stm32Int: two boards, either driver. *)
EXTENDS Stm32Int, TLC

CONSTANTS d1, d2

Ep(dir, bulk, max) == [dir |-> dir, bulk |-> bulk, max |-> max]

\* An interrupt endpoint before the two bulk ones, and a second bulk endpoint
\* that is passed over.
Board == <<Ep("in", FALSE, 8), Ep("in", TRUE, 2), Ep("out", TRUE, 1), Ep("in", TRUE, 1)>>

\* One that has all the endpoints the interrupt driver looks for as well.
IntBoard == Append(Board, Ep("out", FALSE, 8))

Boards == d1 :> Board @@ d2 :> IntBoard
=============================================================================
