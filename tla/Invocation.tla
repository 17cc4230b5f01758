----------------------------- MODULE Invocation -----------------------------
(***************************************************************************)
(* Side-effecting tool calls at the boundary: dispatch and                 *)
(* dispatchSideEffecting of packages/boundary/src/dispatcher.ts over the   *)
(* store of packages/db/src/boundary-invocation-repository.ts, for several *)
(* replicas and several calls, among them retries of one another.          *)
(*                                                                         *)
(* A call is one HTTP (or MCP) request.  Its pc names the await it is at.  *)
(* Read-only tools bypass the store and are left out.                      *)
(***************************************************************************)
EXTENDS Naturals

CONSTANTS
    Calls,      \* bound: the requests consumers send, each once
    Replicas,   \* boundary processes
    Keys, Requests, Results, NoRequest, NoResult, NoCall,
    FaultKinds, \* what may fail: "begin", "complete", "die"
    MaxFaults   \* bound on how often

ASSUME InvocationAssumption ==
    /\ NoRequest \notin Requests
    /\ NoResult \notin Results \cup {"refused", "conflict", "in_progress", "error"}
    /\ Results \cap {"refused", "conflict", "in_progress", "error"} = {}
    /\ NoCall \notin Calls
    /\ MaxFaults \in Nat

VARIABLES
    call,       \* call[c]: the request and how far the dispatcher is with it
    rows,       \* rows[k]: the row of boundary_invocations, if any
    lock,       \* lock[k]: the transaction that has the advisory lock
    ran,        \* the calls whose tool was executed
    faults      \* failures so far

vars == <<call, rows, lock, ran, faults>>

Answers == Results \cup {"refused", "conflict", "in_progress", "error"}

Call == [pc      : {"unsent", "arrived", "select", "insert", "execute",
                    "complete", "done", "lost"},
         at      : Replicas,
         key     : Keys,
         request : Requests,
         result  : Results \cup {NoResult},   \* mapped, in the runner's memory
         answer  : Answers \cup {NoResult}]

Row == [state   : {"none", "in_progress", "terminal"},
        request : Requests \cup {NoRequest},
        result  : Results \cup {NoResult}]

NoRow == [state |-> "none", request |-> NoRequest, result |-> NoResult]

TypeOK ==
    /\ call \in [Calls -> Call]
    /\ rows \in [Keys -> Row]
    /\ lock \in [Keys -> Calls \cup {NoCall}]
    /\ ran \subseteq Calls
    /\ faults \in 0..MaxFaults

(* What a call will ask for, and where it arrives, is open at the start. *)
Init ==
    /\ \E at \in [Calls -> Replicas], key \in [Calls -> Keys],
          request \in [Calls -> Requests] :
          call = [c \in Calls |->
                     [pc |-> "unsent", at |-> at[c], key |-> key[c],
                      request |-> request[c], result |-> NoResult,
                      answer |-> NoResult]]
    /\ rows = [k \in Keys |-> NoRow]
    /\ lock = [k \in Keys |-> NoCall]
    /\ ran = {}
    /\ faults = 0

-----------------------------------------------------------------------------
Fault(kind) ==
    /\ kind \in FaultKinds
    /\ faults < MaxFaults
    /\ faults' = faults + 1

At(c, pc) == call[c].pc = pc
Goto(c, pc) == call' = [call EXCEPT ![c].pc = pc]
Answer(c, a) == call' = [call EXCEPT ![c].pc = "done", ![c].answer = a]

Send(c) ==
    /\ At(c, "unsent")
    /\ Goto(c, "arrived")
    /\ UNCHANGED <<rows, lock, ran, faults>>

(* The checks before the store is touched: deadline, version, tool,        *)
(* payload and provenance.  Nothing is awaited between them.               *)
Refuse(c) ==
    /\ At(c, "arrived")
    /\ Answer(c, "refused")
    /\ UNCHANGED <<rows, lock, ran, faults>>

(* Mutant of TakeLock: the transaction does not wait for the lock. *)
TakeNoLock(c) ==
    /\ At(c, "arrived")
    /\ Goto(c, "select")
    /\ UNCHANGED <<rows, lock, ran, faults>>

(* beginOrResolve: the transaction takes the advisory lock of the key ... *)
TakeLock(c) ==
    /\ At(c, "arrived")
    /\ lock[call[c].key] = NoCall
    /\ lock' = [lock EXCEPT ![call[c].key] = c]
    /\ Goto(c, "select")
    /\ UNCHANGED <<rows, ran, faults>>

(* Mutant of Unlock: a lock of the session, which a commit does not release. *)
KeepLock(c) == UNCHANGED lock

Unlock(c) == lock' = [lock EXCEPT ![call[c].key] = NoCall]

(* Mutant of SelectRow: the request is not compared with that of the row. *)
SelectRowOfAny(c) ==
    LET row == rows[call[c].key] IN
    /\ At(c, "select")
    /\ \/ /\ row.state = "none"
          /\ Goto(c, "insert")
          /\ UNCHANGED lock
       \/ /\ row.state = "terminal"
          /\ Answer(c, row.result)
          /\ Unlock(c)
       \/ /\ row.state = "in_progress"
          /\ Answer(c, "in_progress")
          /\ Unlock(c)
    /\ UNCHANGED <<rows, ran, faults>>

(* Mutant of SelectRow: a row in progress is taken to be left over, and    *)
(* the call runs the tool again.                                           *)
SelectRowTakingOver(c) ==
    LET row == rows[call[c].key] IN
    /\ At(c, "select")
    /\ \/ /\ row.state = "none"
          /\ Goto(c, "insert")
          /\ UNCHANGED lock
       \/ /\ row.state = "terminal" /\ row.request = call[c].request
          /\ Answer(c, row.result)
          /\ Unlock(c)
       \/ /\ row.state = "in_progress" /\ row.request = call[c].request
          /\ Goto(c, "execute")
          /\ Unlock(c)
    /\ UNCHANGED <<rows, ran, faults>>

(* ... looks for the row; what it finds decides, and only without a row    *)
(* the transaction goes on to insert one.                                  *)
SelectRow(c) ==
    LET row == rows[call[c].key] IN
    /\ At(c, "select")
    /\ \/ /\ row.state = "none"
          /\ Goto(c, "insert")
          /\ UNCHANGED lock
       \/ /\ row.state # "none" /\ row.request # call[c].request
          /\ Answer(c, "conflict")
          /\ Unlock(c)
       \/ /\ row.state = "terminal" /\ row.request = call[c].request
          /\ Answer(c, row.result)
          /\ Unlock(c)
       \/ /\ row.state = "in_progress" /\ row.request = call[c].request
          /\ Answer(c, "in_progress")
          /\ Unlock(c)
    /\ UNCHANGED <<rows, ran, faults>>

(* Mutant of InsertRow: a deadline that is checked again once the row is   *)
(* there, and refuses the call without completing it.                      *)
InsertRowThenRefuse(c) ==
    LET k == call[c].key IN
    /\ At(c, "insert")
    /\ rows' = [rows EXCEPT ![k] = [state   |-> "in_progress",
                                    request |-> call[c].request,
                                    result  |-> NoResult]]
    /\ Goto(c, "execute") \/ Answer(c, "refused")
    /\ Unlock(c)
    /\ UNCHANGED <<ran, faults>>

(* The insert, which the unique index refuses if there is a row by now;    *)
(* the commit releases the lock.                                           *)
InsertRow(c) ==
    LET k == call[c].key IN
    /\ At(c, "insert")
    /\ \/ /\ rows[k].state = "none"
          /\ rows' = [rows EXCEPT ![k] = [state   |-> "in_progress",
                                          request |-> call[c].request,
                                          result  |-> NoResult]]
          /\ Goto(c, "execute")
       \/ /\ rows[k].state # "none"
          /\ Answer(c, "error")
          /\ UNCHANGED rows
    /\ Unlock(c)
    /\ UNCHANGED <<ran, faults>>

(* The transaction fails, and the call with it; nobody is told whether the *)
(* commit of the row went through.                                         *)
BeginThrows(c) ==
    LET k == call[c].key IN
    /\ call[c].pc \in {"select", "insert"}
    /\ Fault("begin")
    /\ \/ UNCHANGED rows
       \/ /\ At(c, "insert") /\ rows[k].state = "none"
          /\ rows' = [rows EXCEPT ![k] = [state   |-> "in_progress",
                                          request |-> call[c].request,
                                          result  |-> NoResult]]
    /\ Answer(c, "error")
    /\ Unlock(c)
    /\ UNCHANGED ran

(* executeAndMap: whatever comes of the tool, success, failure or a throw, *)
(* is mapped to a result.                                                  *)
ExecuteTool(c) ==
    /\ At(c, "execute")
    /\ \E x \in Results :
          call' = [call EXCEPT ![c].pc = "complete", ![c].result = x]
    /\ ran' = ran \cup {c}
    /\ UNCHANGED <<rows, lock, faults>>

(* The context of the tool cannot be built: a result, and no execution. *)
ContextFails(c) ==
    /\ At(c, "execute")
    /\ \E x \in Results :
          call' = [call EXCEPT ![c].pc = "complete", ![c].result = x]
    /\ UNCHANGED <<rows, lock, ran, faults>>

(* Mutant of Completed: a state no reader of the row knows. *)
CompletedAs(c) ==
    rows' = [rows EXCEPT ![call[c].key] = [@ EXCEPT !.state = "completed",
                                                    !.result = call[c].result]]

(* complete() moves only a row that is in progress. *)
Completed(c) ==
    rows' = [rows EXCEPT ![call[c].key] =
                IF @.state = "in_progress"
                THEN [@ EXCEPT !.state = "terminal", !.result = call[c].result]
                ELSE @]

CompleteRow(c) ==
    /\ At(c, "complete")
    /\ Completed(c)
    /\ Answer(c, call[c].result)
    /\ UNCHANGED <<lock, ran, faults>>

(* Mutant of CompleteThrows: the row is removed, lest it stay in progress. *)
CompleteThrowsForgetting(c) ==
    /\ At(c, "complete")
    /\ Fault("complete")
    /\ rows' = [rows EXCEPT ![call[c].key] = NoRow]
    /\ Answer(c, call[c].result)
    /\ UNCHANGED <<lock, ran>>

(* complete() rejected, the update done or not; the result is returned all *)
(* the same.                                                               *)
CompleteThrows(c) ==
    /\ At(c, "complete")
    /\ Fault("complete")
    /\ Completed(c) \/ UNCHANGED rows
    /\ Answer(c, call[c].result)
    /\ UNCHANGED <<lock, ran>>

InFlight(c) == call[c].pc \in {"arrived", "select", "insert", "execute", "complete"}

(* A replica dies with the calls it was at; its transactions roll back. *)
Die(p) ==
    LET hit == {c \in Calls : call[c].at = p /\ InFlight(c)} IN
    /\ Fault("die")
    /\ hit # {}
    /\ call' = [c \in Calls |->
                   IF c \in hit THEN [call[c] EXCEPT !.pc = "lost"] ELSE call[c]]
    /\ lock' = [k \in Keys |-> IF lock[k] \in hit THEN NoCall ELSE lock[k]]
    /\ UNCHANGED <<rows, ran>>

Handle(c) ==
    \/ TakeLock(c)
    \/ SelectRow(c)
    \/ InsertRow(c)
    \/ ExecuteTool(c)
    \/ CompleteRow(c)

Fail(c) ==
    \/ Refuse(c)
    \/ ContextFails(c)
    \/ BeginThrows(c)
    \/ CompleteThrows(c)

Next ==
    \/ \E c \in Calls : Send(c) \/ Handle(c) \/ Fail(c)
    \/ \E p \in Replicas : Die(p)

Spec == Init /\ [][Next]_vars

(* A call that arrived is handled to its end: every await is of a command  *)
(* that returns or rejects.  Nothing is assumed of consumers and failures. *)
FairSpec == Spec /\ \A c \in Calls : WF_vars(Handle(c))

-----------------------------------------------------------------------------
(* Properties *)

(* However many retries of a call arrive, at whichever replica, while it   *)
(* runs, after it ended or after it died: the tool is executed once.       *)
AtMostOnce ==
    \A c, d \in ran : call[c].key = call[d].key => c = d

(* Two calls under one key that are both answered with a result asked for  *)
(* the same thing and are told the same, whichever of them ran the tool    *)
(* and whether or not that result could be stored.                         *)
AnswersAgree ==
    \A c, d \in Calls :
        /\ call[c].answer \in Results /\ call[d].answer \in Results
        /\ call[c].key = call[d].key
        => /\ call[c].answer = call[d].answer
           /\ call[c].request = call[d].request

(* The advisory lock keeps concurrent retries off the unique index: no     *)
(* call ends in an internal error unless the database failed it            *)
(* (beginOrResolve: "Without this, two concurrent transactions ... both    *)
(* insert, racing the unique index").                                      *)
NoSpuriousError ==
    (\E c \in Calls : call[c].answer = "error") => faults > 0

(* A call answered in_progress is about an execution that is under way, or *)
(* has ended, or was cut off by a failure: never about nothing.            *)
InProgressIsReal ==
    \A c \in Calls :
        call[c].answer = "in_progress" =>
            \/ faults > 0
            \/ \E d \in Calls \ {c} :
                  /\ call[d].key = call[c].key /\ call[d].request = call[c].request
                  /\ At(d, "execute") \/ call[d].result # NoResult

(* The contract of Idempotency, with the claim in the row, the outcome in  *)
(* the memory of the call that ran, and the answers.                       *)
Outcome(k) ==
    LET runners == {c \in Calls : call[c].key = k /\ call[c].result # NoResult}
    IN  IF runners = {} THEN NoResult ELSE call[CHOOSE c \in runners : TRUE].result

Claims == [k \in Keys |-> rows[k].request]
Outcomes == [k \in Keys |-> Outcome(k)]
Told == {<<call[c].key, call[c].request, call[c].answer>> :
            c \in {d \in Calls : call[d].answer \in Results}}

Contract == INSTANCE Idempotency WITH
    claim <- Claims, outcome <- Outcomes, told <- Told

(* The dispatcher over its store keeps the contract. *)
KeepsContract == Contract!Spec

(* Every call that arrived is answered, or its replica died: retries that  *)
(* queue for the lock of one key do not wait for each other for ever.      *)
EveryCallEnds ==
    \A c \in Calls : At(c, "arrived") ~> At(c, "done") \/ At(c, "lost")

(* A row that was begun becomes terminal (dispatchSideEffecting: "the row  *)
(* MUST reach terminal so it is never left stuck in_progress").            *)
RowsSettle ==
    \A k \in Keys : rows[k].state = "in_progress" ~> rows[k].state = "terminal"
=============================================================================
