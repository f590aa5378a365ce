------------------------------ MODULE MCAgent ------------------------------
(***************************************************************************)
(* Instances of module Agent for TLC.  The configurations give the         *)
(* constants their values; this module only names the parts they share.    *)
(***************************************************************************)
EXTENDS AgentProperties, TLC

(* Requests of one kind are interchangeable.                               *)
Symmetry == Permutations(Handlers) \cup Permutations(Dispatchers)
=============================================================================
