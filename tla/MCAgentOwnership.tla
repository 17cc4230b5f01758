------------------------- MODULE MCAgentOwnership --------------------------
(* AgentOwnership for TLC: processes, slots, promises and decisions are    *)
(* interchangeable.  A run with a liveness property does not use the       *)
(* symmetry.                                                               *)
EXTENDS AgentOwnership, TLC

Symmetry == UNION {Permutations(S) : S \in {Workers, Slots, Gens, Decisions}}
=============================================================================
