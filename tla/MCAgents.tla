------------------------------ MODULE MCAgents ------------------------------
(* Small instances of Agents for TLC.                                       *)
EXTENDS Agents

(* Three specialists without the analyst, four with and a cap of three: as  *)
(* four, five and four in the code.                                         *)
MCShapes == {[time |-> TRUE, dimension |-> TRUE, customer |-> FALSE]}
           \cup {[time |-> FALSE, dimension |-> TRUE, customer |-> TRUE]}
=============================================================================
