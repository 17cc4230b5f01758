---------------------------- MODULE MCAgentTrading ----------------------------
(* The agent trading actor for TLC: slots and instruments are exchangeable. *)
EXTENDS AgentTrading, TLC

Symmetry == Permutations(Slots) \cup Permutations(Instruments)
=============================================================================
