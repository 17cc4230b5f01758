-------------------------- MODULE MCBotLifecycle ---------------------------
(* BotLifecycle for TLC: the identities of processes, slots, actor objects *)
(* and calls are interchangeable.  Only runs without a liveness property   *)
(* use the symmetry.                                                       *)
EXTENDS BotLifecycle, TLC

Symmetry == UNION {Permutations(S) : S \in {Workers, Slots, Gens, Calls}}
=============================================================================
