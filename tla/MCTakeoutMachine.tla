-------------------------- MODULE MCTakeoutMachine --------------------------
(* Instances of TakeoutMachine for TLC. *)
EXTENDS TakeoutMachine

\* Archive 1 has one part, archive 2 two, and so on.
MCParts == [a \in Archive |-> [i \in 1..a |-> i - 1]]
=============================================================================
