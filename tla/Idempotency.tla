---------------------------- MODULE Idempotency -----------------------------
(***************************************************************************)
(* What the boundary promises of a side-effecting tool call (idempotency   *)
(* section of docs/features/initial/005-consumer-boundary-contract.md): a  *)
(* key belongs to the first request made under it, that request is         *)
(* executed at most once, and every answer that carries a result carries   *)
(* the one result of that execution.                                       *)
(***************************************************************************)
CONSTANTS
    Keys,       \* the four-tuples (consumer, owner, tool, idempotency key)
    Requests,   \* what is asked for under a key: the request fingerprints
    Results,    \* what an execution can come to
    NoRequest, NoResult

VARIABLES
    claim,      \* claim[k]: the request key k stands for
    outcome,    \* outcome[k]: the result of its execution
    told        \* the results given to consumers, with their key and request

vars == <<claim, outcome, told>>

Init ==
    /\ claim = [k \in Keys |-> NoRequest]
    /\ outcome = [k \in Keys |-> NoResult]
    /\ told = {}

Claim(k, r) ==
    /\ claim[k] = NoRequest
    /\ claim' = [claim EXCEPT ![k] = r]
    /\ UNCHANGED <<outcome, told>>

Execute(k, x) ==
    /\ claim[k] # NoRequest
    /\ outcome[k] = NoResult
    /\ outcome' = [outcome EXCEPT ![k] = x]
    /\ UNCHANGED <<claim, told>>

Tell(k) ==
    /\ outcome[k] # NoResult
    /\ told' = told \cup {<<k, claim[k], outcome[k]>>}
    /\ UNCHANGED <<claim, outcome>>

Next ==
    \E k \in Keys :
        \/ \E r \in Requests : Claim(k, r)
        \/ \E x \in Results : Execute(k, x)
        \/ Tell(k)

Spec == Init /\ [][Next]_vars
=============================================================================
