------------------------------ MODULE MCTcpFlow ------------------------------
(* Two flows of different size to one server; the second outgrows its buffer. *)
EXTENDS TcpFlow

MCFlowSize == [f \in Flow |-> IF f = 1 THEN 2 ELSE 4]
=============================================================================
