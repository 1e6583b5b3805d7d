-------------------------- MODULE MCTcpFlowScheduler --------------------------
(* Two flows between two of three nodes, on one or two systems.             *)
EXTENDS TcpFlowScheduler

MCFlowSize == [f \in Flow |-> f + 1]
=============================================================================
