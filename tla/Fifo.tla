--------------------------------- MODULE Fifo ---------------------------------
(***************************************************************************)
(* What a queue between two threads promises: what was put in is taken out *)
(* in the same order, each item once.  How it is stored, who holds which   *)
(* lock and where an item is on its way are not part of the promise.       *)
(***************************************************************************)
EXTENDS Naturals, Sequences

CONSTANT Items

VARIABLES
    put,        \* everything put in so far
    taken       \* everything taken out so far

fifoVars == <<put, taken>>

FifoInit == put = << >> /\ taken = << >>

Put == \E item \in Items :
    put' = Append(put, item) /\ UNCHANGED taken

Take ==
    /\ Len(taken) < Len(put)
    /\ taken' = Append(taken, put[Len(taken) + 1])
    /\ UNCHANGED put

Spec == FifoInit /\ [][Put \/ Take]_fifoVars
=============================================================================
