------------------------------- MODULE MCMmfa -------------------------------
(* A ring of three links; a flow takes one or two of them, or goes round. *)
EXTENDS Mmfa

MCLink == {<<0, 1>>, <<1, 2>>, <<2, 0>>}
MCFlowPath == {<<0, 1>>, <<1, 2>>, <<2, 0>>, <<0, 1, 2>>, <<1, 2, 0>>, <<2, 0, 1>>,
               <<0, 1, 2, 0>>}
MCGrain == [u \in 0 .. 3 |-> <<1, 1, 2, 12>>[u + 1]]
=============================================================================
