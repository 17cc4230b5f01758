------------------------- MODULE Invocation_proofs --------------------------
(***************************************************************************)
(* Theorems about Invocation, for every number of calls, replicas, keys,   *)
(* requests, results and failures.                                         *)
(*                                                                         *)
(* A call has begun an execution once it has inserted its row.  The lock   *)
(* keeps two calls from inserting under one key, the row keeps later ones  *)
(* out, and nothing ever removes a row: so a key has at most one call that *)
(* has begun, and every result that is stored or told is that call's.      *)
(***************************************************************************)
EXTENDS Invocation, TLAPS

Began(c) == call[c].pc \in {"execute", "complete"} \/ call[c].result # NoResult
                                                    \/ c \in ran

(* A call between its select and its commit has the lock of its key. *)
Locked ==
    \A c \in Calls : call[c].pc \in {"select", "insert"} => lock[call[c].key] = c

InsertFindsNone ==
    \A c \in Calls : At(c, "insert") => rows[call[c].key].state = "none"

RowBehindBegun ==
    \A c \in Calls : Began(c) => /\ rows[call[c].key].state # "none"
                                 /\ rows[call[c].key].request = call[c].request

OneBegan ==
    \A c, d \in Calls : Began(c) /\ Began(d) /\ call[c].key = call[d].key => c = d

(* What a call has at each stage. *)
Stages ==
    \A c \in Calls :
        /\ call[c].pc \in {"unsent", "arrived", "select", "insert", "execute"}
              => call[c].result = NoResult
        /\ At(c, "execute") => rows[call[c].key].state = "in_progress"
        /\ At(c, "complete") => call[c].result # NoResult
        /\ ~At(c, "done") => call[c].answer = NoResult

(* The claim of a row is there exactly as long as the row. *)
RowShape ==
    \A k \in Keys :
        /\ rows[k].state = "none" <=> rows[k].request = NoRequest
        /\ rows[k].state = "terminal" =>
              \E c \in Calls : /\ call[c].key = k
                               /\ call[c].result # NoResult
                               /\ call[c].result = rows[k].result

(* An answer with a result is the result of a call under the same key, and *)
(* for the request the row was made for.                                   *)
AnswerBacked ==
    \A c \in Calls :
        call[c].answer \in Results =>
            /\ rows[call[c].key].state # "none"
            /\ rows[call[c].key].request = call[c].request
            /\ \E d \in Calls : /\ call[d].key = call[c].key
                                /\ call[d].result = call[c].answer

(* Without a failure a row has a call that executes it or has done so. *)
RowHasCall ==
    \A k \in Keys :
        rows[k].state # "none" =>
            \/ faults > 0
            \/ \E d \in Calls : /\ call[d].key = k
                                /\ call[d].request = rows[k].request
                                /\ At(d, "execute") \/ call[d].result # NoResult

(* The inductive invariant. *)
DispatchInv ==
    /\ TypeOK
    /\ Locked
    /\ InsertFindsNone
    /\ RowBehindBegun
    /\ OneBegan
    /\ Stages
    /\ RowShape
    /\ AnswerBacked
    /\ RowHasCall
    /\ NoSpuriousError
    /\ InProgressIsReal
-----------------------------------------------------------------------------
(* What a step of call c leaves alone in the calls. *)
Others(c) ==
    /\ \A d \in Calls : /\ call'[d].key = call[d].key
                        /\ call'[d].request = call[d].request
    /\ \A d \in Calls \ {c} : call'[d] = call[d]

(* Whatever happens to the locks, those of the other calls are kept. *)
OthersLocked(c) ==
    \A d \in Calls \ {c} : call[d].pc \in {"select", "insert"} => lock'[call[d].key] = d

PCs == {"unsent", "arrived", "select", "insert", "execute", "complete", "done",
        "lost"}

(* Goto and Answer as facts about the fields of the calls. *)
LEMMA CallGoes ==
    ASSUME TypeOK, NEW c \in Calls, NEW pc \in PCs, Goto(c, pc)
    PROVE  /\ call' \in [Calls -> Call] /\ Others(c)
           /\ call'[c].pc = pc
           /\ call'[c].result = call[c].result
           /\ call'[c].answer = call[c].answer
  BY DEF TypeOK, Call, PCs, Goto, Others

(* The call is answered. *)
LEMMA CallAnswers ==
    ASSUME TypeOK, NEW c \in Calls, NEW a \in Answers, Answer(c, a)
    PROVE  /\ call' \in [Calls -> Call] /\ Others(c)
           /\ call'[c].pc = "done"
           /\ call'[c].result = call[c].result
           /\ call'[c].answer = a
  BY DEF TypeOK, Call, Answer, Others

(* The call has a result. *)
LEMMA CallHasResult ==
    ASSUME TypeOK, NEW c \in Calls, NEW x \in Results,
           call' = [call EXCEPT ![c].pc = "complete", ![c].result = x]
    PROVE  /\ call' \in [Calls -> Call] /\ Others(c)
           /\ call'[c].pc = "complete"
           /\ call'[c].result = x
           /\ call'[c].answer = call[c].answer
  BY DEF TypeOK, Call, Others

(* Giving up the lock of a key takes it from no other call. *)
LEMMA UnlockKeepsOthers ==
    ASSUME TypeOK, Locked, NEW c \in Calls, call[c].pc \in {"select", "insert"},
           Unlock(c)
    PROVE  /\ lock' \in [Keys -> Calls \cup {NoCall}]
           /\ OthersLocked(c)
<1>1. lock' \in [Keys -> Calls \cup {NoCall}]
  BY DEF TypeOK, Unlock
<1>2. OthersLocked(c)
  <2> SUFFICES ASSUME NEW d \in Calls \ {c}, call[d].pc \in {"select", "insert"}
               PROVE  lock'[call[d].key] = d
    BY DEF OthersLocked
  <2>1. lock[call[d].key] = d /\ lock[call[c].key] = c
    BY DEF Locked
  <2>2. call[d].key \in Keys /\ call[d].key # call[c].key
    BY <2>1 DEF TypeOK, Call
  <2> QED BY <2>1, <2>2 DEF TypeOK, Unlock
<1> QED BY <1>1, <1>2

(* A call that has not begun moves on towards its insert. *)
LEMMA WaitKeeps ==
    ASSUME DispatchInv, TypeOK', NEW c \in Calls, Others(c), OthersLocked(c),
           call[c].pc \in {"unsent", "arrived", "select"},
           call'[c].pc \in {"arrived", "select", "insert"},
           call'[c].result = call[c].result,
           call'[c].answer = call[c].answer,
           call'[c].pc \in {"select", "insert"} => lock'[call[c].key] = c,
           At(c, "insert")' => rows[call[c].key].state = "none",
           UNCHANGED <<rows, ran, faults>>
    PROVE  DispatchInv'
<1>1. Locked'
  BY DEF DispatchInv, Others, Locked, OthersLocked
<1>2. InsertFindsNone'
  BY DEF DispatchInv, Others, InsertFindsNone, At
<1>3. RowBehindBegun'
  BY DEF DispatchInv, Others, RowBehindBegun, Began
<1>4. OneBegan'
  BY DEF DispatchInv, Others, OneBegan, Began
<1>5. Stages'
  BY DEF DispatchInv, Others, Stages, At
<1>6. RowShape'
  BY DEF DispatchInv, Others, RowShape
<1>7. AnswerBacked'
  BY DEF DispatchInv, Others, AnswerBacked
<1>8. RowHasCall'
  BY DEF DispatchInv, Others, RowHasCall, At
<1>9. NoSpuriousError'
  BY DEF DispatchInv, Others, NoSpuriousError
<1>10. InProgressIsReal'
  BY DEF DispatchInv, Others, InProgressIsReal, At
<1> QED BY <1>1, <1>2, <1>3, <1>4, <1>5,
           <1>6, <1>7, <1>8, <1>9, <1>10 DEF DispatchInv

(* A call is answered before it has begun: with what a row says, or without. *)
LEMMA AnswerKeeps ==
    ASSUME DispatchInv, TypeOK', NEW c \in Calls, Others(c), OthersLocked(c),
           call[c].pc \in {"arrived", "select", "insert"},
           At(c, "done")',
           call'[c].result = call[c].result,
           call'[c].answer \in Results =>
              /\ rows[call[c].key].state # "none"
              /\ rows[call[c].key].request = call[c].request
              /\ \E d \in Calls : /\ call[d].key = call[c].key
                                  /\ call[d].result = call'[c].answer,
           call'[c].answer = "error" => faults' > 0,
           call'[c].answer = "in_progress" =>
              \/ faults' > 0
              \/ \E d \in Calls \ {c} :
                    /\ call[d].key = call[c].key
                    /\ call[d].request = call[c].request
                    /\ At(d, "execute") \/ call[d].result # NoResult,
           UNCHANGED <<rows, ran>>,
           faults' \in Nat, faults' >= faults
    PROVE  DispatchInv'
<1>1. Locked'
  BY DEF DispatchInv, Others, Locked, OthersLocked, At
<1>2. InsertFindsNone'
  BY DEF DispatchInv, Others, InsertFindsNone, At
<1>3. RowBehindBegun'
  BY DEF DispatchInv, Others, RowBehindBegun, Began, At
<1>4. OneBegan'
  BY DEF DispatchInv, Others, OneBegan, Began, At
<1>5. Stages'
  BY DEF DispatchInv, Others, Stages, At
<1>6. RowShape'
  BY DEF DispatchInv, Others, RowShape
<1>7. AnswerBacked'
  BY DEF DispatchInv, Others, AnswerBacked
<1>8. RowHasCall'
  BY DEF DispatchInv, Others, RowHasCall, At, TypeOK
<1>9. NoSpuriousError'
  BY DEF DispatchInv, Others, NoSpuriousError, TypeOK
<1>10. InProgressIsReal'
  BY DEF DispatchInv, Others, InProgressIsReal, At, TypeOK
<1> QED BY <1>1, <1>2, <1>3, <1>4, <1>5,
           <1>6, <1>7, <1>8, <1>9, <1>10 DEF DispatchInv

(* The row is inserted: the call has begun, or was told that the store failed. *)
LEMMA InsertKeeps ==
    ASSUME DispatchInv, TypeOK', NEW c \in Calls, Others(c), OthersLocked(c),
           At(c, "insert"),
           rows' = [rows EXCEPT ![call[c].key] = [state   |-> "in_progress",
                                                    request |-> call[c].request,
                                                    result  |-> NoResult]],
           call'[c].result = call[c].result,
           \/ At(c, "execute")' /\ call'[c].answer = call[c].answer
           \/ At(c, "done")' /\ call'[c].answer = "error" /\ faults' > 0,
           UNCHANGED ran,
           faults' \in Nat, faults' >= faults
    PROVE  DispatchInv'
<1> DEFINE k0 == call[c].key
<1>a. /\ k0 \in Keys
      /\ rows'[k0].state = "in_progress"
      /\ rows'[k0].request = call[c].request
      /\ call[c].request \in Requests
      /\ \A k \in Keys \ {k0} : rows'[k] = rows[k]
  BY DEF DispatchInv, TypeOK, Call
<1>b. \A d \in Calls : Began(d) => call[d].key # k0
  BY DEF DispatchInv, RowBehindBegun, InsertFindsNone
<1>c. \A d \in Calls : call[d].key \in Keys /\ (call[d].answer \in Results => call[d].key # k0)
  BY DEF DispatchInv, InsertFindsNone, AnswerBacked, TypeOK, Call
<1>1. Locked'
  BY DEF DispatchInv, Others, Locked, OthersLocked, At
<1>2. InsertFindsNone'
  BY DEF DispatchInv, Others, InsertFindsNone, At, Locked, TypeOK, Call
<1>3. RowBehindBegun'
  BY <1>a, <1>b, <1>c DEF DispatchInv, Others, RowBehindBegun, Began, At
<1>4. OneBegan'
  BY <1>a, <1>b DEF DispatchInv, Others, OneBegan, Began, At
<1>5. Stages'
  BY <1>a, <1>b, <1>c DEF DispatchInv, Others, Stages, At, Began
<1>6. RowShape'
  BY <1>a, InvocationAssumption DEF DispatchInv, Others, RowShape
<1>7. AnswerBacked'
  BY <1>a, <1>c, InvocationAssumption DEF DispatchInv, Others, AnswerBacked, At, Stages
<1>8. RowHasCall'
  BY <1>a, <1>b, InvocationAssumption DEF DispatchInv, Others, RowHasCall, At, Began, TypeOK
<1>9. NoSpuriousError'
  BY InvocationAssumption DEF DispatchInv, Others, NoSpuriousError, TypeOK, At, Stages
<1>10. InProgressIsReal'
  BY InvocationAssumption DEF DispatchInv, Others, InProgressIsReal, At, TypeOK, Stages
<1> QED BY <1>1, <1>2, <1>3, <1>4, <1>5,
           <1>6, <1>7, <1>8, <1>9, <1>10 DEF DispatchInv

(* The tool has run, or its context could not be built: there is a result. *)
LEMMA ExecuteKeeps ==
    ASSUME DispatchInv, TypeOK', NEW c \in Calls, Others(c), OthersLocked(c),
           At(c, "execute"),
           At(c, "complete")',
           call'[c].result \in Results,
           call'[c].answer = call[c].answer,
           ran' = ran \/ ran' = ran \cup {c},
           UNCHANGED <<rows, faults>>
    PROVE  DispatchInv'
<1>1. Locked'
  BY DEF DispatchInv, Others, Locked, OthersLocked, At
<1>2. InsertFindsNone'
  BY DEF DispatchInv, Others, InsertFindsNone, At
<1>3. RowBehindBegun'
  BY DEF DispatchInv, Others, RowBehindBegun, Began, At
<1>4. OneBegan'
  BY DEF DispatchInv, Others, OneBegan, Began, At
<1>5. Stages'
  BY InvocationAssumption DEF DispatchInv, Others, Stages, At
<1>6. RowShape'
  BY DEF DispatchInv, Others, RowShape, Stages, At
<1>7. AnswerBacked'
  BY InvocationAssumption DEF DispatchInv, Others, AnswerBacked, TypeOK, Stages, At
<1>8. RowHasCall'
  BY InvocationAssumption DEF DispatchInv, Others, RowHasCall, At
<1>9. NoSpuriousError'
  BY DEF DispatchInv, Others, NoSpuriousError
<1>10. InProgressIsReal'
  BY InvocationAssumption DEF DispatchInv, Others, InProgressIsReal, At
<1> QED BY <1>1, <1>2, <1>3, <1>4, <1>5,
           <1>6, <1>7, <1>8, <1>9, <1>10 DEF DispatchInv

(* The call is answered with its result, which the row has now, or has not. *)
LEMMA CompleteKeeps ==
    ASSUME DispatchInv, TypeOK', NEW c \in Calls, Others(c), OthersLocked(c),
           At(c, "complete"),
           At(c, "done")',
           call'[c].result = call[c].result,
           call'[c].answer = call[c].result,
           Completed(c) \/ UNCHANGED rows,
           UNCHANGED ran,
           faults' \in Nat, faults' >= faults
    PROVE  DispatchInv'
<1>a. \A k \in Keys :
        /\ rows'[k].request = rows[k].request
        /\ rows'[k].state = "none" <=> rows[k].state = "none"
        /\ rows'[k].state = "terminal" =>
              \/ rows'[k] = rows[k]
              \/ k = call[c].key /\ rows'[k].result = call[c].result
  <2>1. CASE UNCHANGED rows
    BY <2>1
  <2>2. CASE Completed(c)
    <3> TAKE k \in Keys
    <3>1. rows[k] \in Row /\ rows \in [Keys -> Row]
      BY DEF DispatchInv, TypeOK
    <3>2. CASE rows[k].state = "in_progress" /\ k = call[c].key
      <4>1. rows'[k] = [rows[k] EXCEPT !.state = "terminal", !.result = call[c].result]
        BY <2>2, <3>1, <3>2 DEF Completed
      <4> QED BY <4>1, <3>1, <3>2 DEF Row
    <3>3. CASE ~(rows[k].state = "in_progress" /\ k = call[c].key)
      BY <2>2, <3>1, <3>3 DEF Completed
    <3> QED BY <3>2, <3>3
  <2> QED BY <2>1, <2>2
<1>b. \A d \in Calls : call[d].key \in Keys
  BY DEF DispatchInv, TypeOK, Call
<1>c. call[c].result # NoResult
  BY DEF DispatchInv, Stages
<1>1. Locked'
  BY DEF DispatchInv, Others, Locked, OthersLocked, At
<1>2. InsertFindsNone'
  BY <1>a, <1>b DEF DispatchInv, Others, InsertFindsNone, At
<1>3. RowBehindBegun'
  BY <1>a, <1>b, <1>c DEF DispatchInv, Others, RowBehindBegun, Began, At
<1>4. OneBegan'
  BY DEF DispatchInv, Others, OneBegan, Began, At
<1>5. Stages'
  BY DEF DispatchInv, Others, Stages, At, Completed, TypeOK, Call, Row, OneBegan, Began
<1>6. RowShape'
  BY <1>a, <1>c DEF DispatchInv, Others, RowShape
<1>7. AnswerBacked'
  BY <1>a, <1>b, <1>c DEF DispatchInv, Others, AnswerBacked, RowBehindBegun, Began, At
<1>8. RowHasCall'
  BY <1>a, <1>b, <1>c, InvocationAssumption DEF DispatchInv, Others, RowHasCall, At, TypeOK
<1>9. NoSpuriousError'
  BY InvocationAssumption DEF DispatchInv, Others, NoSpuriousError, TypeOK, Stages, At, Call
<1>10. InProgressIsReal'
  BY InvocationAssumption DEF DispatchInv, Others, InProgressIsReal, At, TypeOK, Stages, Call
<1> QED BY <1>1, <1>2, <1>3, <1>4, <1>5,
           <1>6, <1>7, <1>8, <1>9, <1>10 DEF DispatchInv

(* A replica dies: its calls are lost, their locks free, their rows stay. *)
LEMMA DieKeeps ==
    ASSUME DispatchInv, NEW p \in Replicas, Die(p)
    PROVE  DispatchInv'
<1> DEFINE hit == {c \in Calls : call[c].at = p /\ InFlight(c)}
<1>1. /\ call' \in [Calls -> Call]
      /\ \A c \in Calls : /\ call'[c].key = call[c].key
                          /\ call'[c].request = call[c].request
                          /\ call'[c].result = call[c].result
                          /\ call'[c].answer = call[c].answer
                          /\ \/ c \notin hit /\ call'[c].pc = call[c].pc
                             \/ /\ c \in hit /\ call'[c].pc = "lost"
                                /\ ~At(c, "done") /\ ~At(c, "lost")
  BY DEF Die, DispatchInv, TypeOK, Call, InFlight, At
<1>2. /\ lock' = [k \in Keys |-> IF lock[k] \in hit THEN NoCall ELSE lock[k]]
      /\ UNCHANGED <<rows, ran>>
      /\ faults' = faults + 1 /\ faults < MaxFaults
  BY DEF Die, Fault
<1>3. faults \in Nat /\ faults' \in Nat /\ faults' > 0
  BY <1>2, InvocationAssumption DEF DispatchInv, TypeOK
<1>4. \A c \in Calls : call[c].key \in Keys
  BY DEF DispatchInv, TypeOK, Call
<1> HIDE DEF hit
<1>5. TypeOK'
  <2>1. lock' \in [Keys -> Calls \cup {NoCall}]
    BY <1>2 DEF DispatchInv, TypeOK
  <2>2. faults' \in 0..MaxFaults
    BY <1>2, <1>3, InvocationAssumption
  <2> QED BY <1>1, <1>2, <2>1, <2>2 DEF DispatchInv, TypeOK
<1>6. Locked'
  BY <1>1, <1>2, <1>4 DEF DispatchInv, Locked
<1>7. InsertFindsNone'
  BY <1>1, <1>2 DEF DispatchInv, InsertFindsNone, At
<1>8. RowBehindBegun'
  BY <1>1, <1>2 DEF DispatchInv, RowBehindBegun, Began
<1>9. OneBegan'
  BY <1>1, <1>2 DEF DispatchInv, OneBegan, Began
<1>10. Stages'
  BY <1>1, <1>2 DEF DispatchInv, Stages, At
<1>11. RowShape'
  BY <1>1, <1>2 DEF DispatchInv, RowShape
<1>12. AnswerBacked'
  BY <1>1, <1>2 DEF DispatchInv, AnswerBacked
<1>13. RowHasCall' /\ NoSpuriousError' /\ InProgressIsReal'
  BY <1>3 DEF RowHasCall, NoSpuriousError, InProgressIsReal
<1> QED BY <1>5, <1>6, <1>7, <1>8, <1>9, <1>10, <1>11, <1>12, <1>13 DEF DispatchInv

-----------------------------------------------------------------------------
(* The initial states, and every step. *)

(* The initial states satisfy the invariant. *)
LEMMA InitDispatch == Init => DispatchInv
<1> SUFFICES ASSUME Init PROVE DispatchInv
  OBVIOUS
<1>1. PICK at \in [Calls -> Replicas], key \in [Calls -> Keys],
           request \in [Calls -> Requests] :
         call = [c \in Calls |->
                    [pc |-> "unsent", at |-> at[c], key |-> key[c],
                     request |-> request[c], result |-> NoResult,
                     answer |-> NoResult]]
  BY DEF Init
<1>2. call \in [Calls -> Call] /\ \A c \in Calls : /\ call[c].pc = "unsent"
                                                 /\ call[c].result = NoResult
                                                 /\ call[c].answer = NoResult
  BY <1>1 DEF Call
<1>3. rows = [k \in Keys |-> NoRow] /\ lock = [k \in Keys |-> NoCall]
      /\ ran = {} /\ faults = 0
  BY DEF Init
<1>4. TypeOK
  BY <1>2, <1>3, InvocationAssumption DEF TypeOK, NoRow, Row
<1>5. Locked /\ InsertFindsNone /\ RowBehindBegun /\ OneBegan /\ Stages
  BY <1>2, <1>3 DEF Locked, InsertFindsNone, RowBehindBegun, OneBegan, Stages,
     Began, At
<1>6. RowShape /\ RowHasCall
  BY <1>3 DEF RowShape, RowHasCall, NoRow
<1>7. AnswerBacked /\ NoSpuriousError /\ InProgressIsReal
  BY <1>2, InvocationAssumption DEF AnswerBacked, NoSpuriousError,
     InProgressIsReal
<1> QED BY <1>4, <1>5, <1>6, <1>7 DEF DispatchInv

(* The failure counter goes up, within its bound. *)
LEMMA FaultCounts ==
    ASSUME TypeOK, NEW kind, Fault(kind)
    PROVE  faults' \in 0..MaxFaults /\ faults' > 0 /\ faults' \in Nat /\ faults' >= faults
  BY InvocationAssumption DEF TypeOK, Fault

(* A step that moves no fault counter. *)
LEMMA CalmCounts ==
    ASSUME TypeOK
    PROVE  faults \in Nat /\ faults >= faults
  BY InvocationAssumption DEF TypeOK

(* A request arrives. *)
LEMMA SendKeeps ==
    ASSUME DispatchInv, NEW c \in Calls, Send(c)
    PROVE  DispatchInv'
<1>1. TypeOK /\ Goto(c, "arrived") /\ UNCHANGED <<rows, lock, ran, faults>>
  BY DEF Send, DispatchInv
<1>2. /\ call' \in [Calls -> Call] /\ Others(c)
      /\ call'[c].pc = "arrived"
      /\ call'[c].result = call[c].result
      /\ call'[c].answer = call[c].answer
  BY <1>1, CallGoes DEF PCs
<1>3. TypeOK' /\ OthersLocked(c)
  BY <1>1, <1>2 DEF DispatchInv, TypeOK, Locked, OthersLocked
<1> QED BY <1>1, <1>2, <1>3, WaitKeeps DEF Send, At

(* It is refused before the store is touched. *)
LEMMA RefuseKeeps ==
    ASSUME DispatchInv, NEW c \in Calls, Refuse(c)
    PROVE  DispatchInv'
<1>1. TypeOK /\ Answer(c, "refused") /\ UNCHANGED <<rows, lock, ran, faults>>
  BY DEF Refuse, DispatchInv
<1>2. /\ call' \in [Calls -> Call] /\ Others(c)
      /\ call'[c].pc = "done"
      /\ call'[c].result = call[c].result
      /\ call'[c].answer = "refused"
  BY <1>1, CallAnswers DEF Answers
<1>3. TypeOK' /\ OthersLocked(c)
  BY <1>1, <1>2 DEF DispatchInv, TypeOK, Locked, OthersLocked
<1>4. "refused" \notin Results
  BY InvocationAssumption
<1> QED BY <1>1, <1>2, <1>3, <1>4, AnswerKeeps, CalmCounts DEF Refuse, At

(* Its transaction gets the lock, which nobody has. *)
LEMMA TakeLockKeeps ==
    ASSUME DispatchInv, NEW c \in Calls, TakeLock(c)
    PROVE  DispatchInv'
<1>1. /\ TypeOK /\ Goto(c, "select") /\ UNCHANGED <<rows, ran, faults>>
      /\ lock[call[c].key] = NoCall
      /\ lock' = [lock EXCEPT ![call[c].key] = c]
  BY DEF TakeLock, DispatchInv
<1>2. /\ call' \in [Calls -> Call] /\ Others(c)
      /\ call'[c].pc = "select"
      /\ call'[c].result = call[c].result
      /\ call'[c].answer = call[c].answer
  BY <1>1, CallGoes DEF PCs
<1>3. call[c].key \in Keys
  BY DEF DispatchInv, TypeOK, Call
<1>4. lock'[call[c].key] = c /\ lock' \in [Keys -> Calls \cup {NoCall}]
  BY <1>1, <1>3 DEF TypeOK
<1>5. TypeOK'
  BY <1>1, <1>2, <1>4 DEF TypeOK
<1>6. OthersLocked(c)
  <2> SUFFICES ASSUME NEW d \in Calls \ {c}, call[d].pc \in {"select", "insert"}
               PROVE  lock'[call[d].key] = d
    BY DEF OthersLocked
  <2>1. lock[call[d].key] = d
    BY DEF DispatchInv, Locked
  <2>2. call[d].key # call[c].key /\ call[d].key \in Keys
    BY <1>1, <2>1, InvocationAssumption DEF TypeOK, Call
  <2> QED BY <1>1, <2>1, <2>2 DEF TypeOK
<1> QED BY <1>1, <1>2, <1>4, <1>5, <1>6, WaitKeeps DEF TakeLock, At

(* What the select finds: no row, another request, a result or a call at work. *)
LEMMA SelectRowKeeps ==
    ASSUME DispatchInv, NEW c \in Calls, SelectRow(c)
    PROVE  DispatchInv'
<1> DEFINE r == rows[call[c].key]
<1>1. TypeOK /\ At(c, "select") /\ UNCHANGED <<rows, ran, faults>>
  BY DEF SelectRow, DispatchInv
<1>2. CASE r.state = "none" /\ Goto(c, "insert") /\ UNCHANGED lock
  <2>1. /\ call' \in [Calls -> Call] /\ Others(c)
        /\ call'[c].pc = "insert"
        /\ call'[c].result = call[c].result
        /\ call'[c].answer = call[c].answer
    BY <1>1, <1>2, CallGoes DEF PCs
  <2>2. TypeOK' /\ OthersLocked(c) /\ lock'[call[c].key] = c
    BY <1>1, <1>2, <2>1 DEF DispatchInv, TypeOK, Locked, OthersLocked, At
  <2> QED BY <1>1, <1>2, <2>1, <2>2, WaitKeeps DEF At
<1>3. ASSUME NEW a \in Answers, Answer(c, a), Unlock(c), a # "error",
             a \in Results =>
                 /\ r.state # "none" /\ r.request = call[c].request
                 /\ \E d \in Calls : /\ call[d].key = call[c].key
                                     /\ call[d].result = a,
             a = "in_progress" =>
                 \/ faults > 0
                 \/ \E d \in Calls \ {c} :
                       /\ call[d].key = call[c].key
                       /\ call[d].request = call[c].request
                       /\ At(d, "execute") \/ call[d].result # NoResult
      PROVE  DispatchInv'
  <2>1. /\ call' \in [Calls -> Call] /\ Others(c)
        /\ call'[c].pc = "done"
        /\ call'[c].result = call[c].result
        /\ call'[c].answer = a
    BY <1>1, <1>3, CallAnswers
  <2>2. /\ lock' \in [Keys -> Calls \cup {NoCall}]
        /\ OthersLocked(c)
    BY <1>1, <1>3, UnlockKeepsOthers DEF DispatchInv, At
  <2>3. TypeOK'
    BY <1>1, <2>1, <2>2 DEF TypeOK
  <2> QED BY <1>1, <1>3, <2>1, <2>2, <2>3, AnswerKeeps, CalmCounts DEF At
<1>4. CASE r.state # "none" /\ r.request # call[c].request
           /\ Answer(c, "conflict") /\ Unlock(c)
  <2>1. "conflict" \in Answers /\ "conflict" \notin Results
    BY InvocationAssumption DEF Answers
  <2> QED BY <1>3, <1>4, <2>1
<1>5. call[c].key \in Keys
  BY <1>1 DEF TypeOK, Call
<1>6. CASE r.state = "terminal" /\ r.request = call[c].request
           /\ Answer(c, r.result) /\ Unlock(c)
  <2>1. PICK d \in Calls : /\ call[d].key = call[c].key
                           /\ call[d].result # NoResult
                           /\ call[d].result = r.result
    BY <1>5, <1>6 DEF DispatchInv, RowShape
  <2>2. r.result \in Results
    BY <1>1, <2>1 DEF TypeOK, Call
  <2>3. /\ r.result \in Answers
        /\ r.result # "error" /\ r.result # "in_progress"
    BY <2>2, InvocationAssumption DEF Answers
  <2> QED BY <1>3, <1>6, <2>1, <2>3
<1>7. CASE r.state = "in_progress" /\ r.request = call[c].request
           /\ Answer(c, "in_progress") /\ Unlock(c)
  <2>1. "in_progress" \in Answers /\ "in_progress" \notin Results
    BY InvocationAssumption DEF Answers
  <2>2. \/ faults > 0
        \/ \E d \in Calls : /\ call[d].key = call[c].key
                            /\ call[d].request = call[c].request
                            /\ At(d, "execute") \/ call[d].result # NoResult
    BY <1>5, <1>7 DEF DispatchInv, RowHasCall
  <2>3. ~At(c, "execute") /\ call[c].result = NoResult
    BY <1>1 DEF DispatchInv, Stages, At
  <2> QED BY <1>3, <1>7, <2>1, <2>2, <2>3
<1> QED BY <1>2, <1>4, <1>6, <1>7 DEF SelectRow

(* Under the lock there is still no row: the insert succeeds. *)
LEMMA InsertRowKeeps ==
    ASSUME DispatchInv, NEW c \in Calls, InsertRow(c)
    PROVE  DispatchInv'
<1>1. /\ TypeOK /\ At(c, "insert") /\ Unlock(c) /\ UNCHANGED <<ran, faults>>
      /\ rows[call[c].key].state = "none"
  BY DEF InsertRow, DispatchInv, InsertFindsNone
<1>2. /\ rows' = [rows EXCEPT ![call[c].key] = [state   |-> "in_progress",
                                               request |-> call[c].request,
                                               result  |-> NoResult]]
      /\ Goto(c, "execute")
  BY <1>1 DEF InsertRow
<1>3. /\ call' \in [Calls -> Call] /\ Others(c)
      /\ call'[c].pc = "execute"
      /\ call'[c].result = call[c].result
      /\ call'[c].answer = call[c].answer
  BY <1>1, <1>2, CallGoes DEF PCs
<1>4. /\ lock' \in [Keys -> Calls \cup {NoCall}]
      /\ OthersLocked(c)
  BY <1>1, UnlockKeepsOthers DEF DispatchInv, At
<1>5. rows' \in [Keys -> Row]
  BY <1>1, <1>2 DEF TypeOK, Call, Row
<1>6. TypeOK'
  BY <1>1, <1>3, <1>4, <1>5 DEF TypeOK
<1> QED BY <1>1, <1>2, <1>3, <1>4, <1>6, InsertKeeps, CalmCounts DEF At

(* The transaction fails, with its row or without. *)
LEMMA BeginThrowsKeeps ==
    ASSUME DispatchInv, NEW c \in Calls, BeginThrows(c)
    PROVE  DispatchInv'
<1>1. /\ TypeOK /\ call[c].pc \in {"select", "insert"}
      /\ Answer(c, "error") /\ Unlock(c) /\ UNCHANGED ran
      /\ faults' \in 0..MaxFaults /\ faults' > 0 /\ faults' \in Nat
      /\ faults' >= faults
  BY FaultCounts DEF BeginThrows, DispatchInv
<1>2. "error" \in Answers /\ "error" \notin Results
  BY InvocationAssumption DEF Answers
<1>3. /\ call' \in [Calls -> Call] /\ Others(c)
      /\ call'[c].pc = "done"
      /\ call'[c].result = call[c].result
      /\ call'[c].answer = "error"
  BY <1>1, <1>2, CallAnswers
<1>4. /\ lock' \in [Keys -> Calls \cup {NoCall}]
      /\ OthersLocked(c)
  BY <1>1, UnlockKeepsOthers DEF DispatchInv
<1>5. CASE UNCHANGED rows
  <2>1. TypeOK'
    BY <1>1, <1>3, <1>4, <1>5 DEF TypeOK
  <2> QED BY <1>1, <1>2, <1>3, <1>4, <1>5, <2>1, AnswerKeeps DEF At
<1>6. CASE /\ At(c, "insert")
           /\ rows' = [rows EXCEPT ![call[c].key] = [state   |-> "in_progress",
                                                    request |-> call[c].request,
                                                    result  |-> NoResult]]
  <2>1. rows' \in [Keys -> Row]
    BY <1>1, <1>6 DEF TypeOK, Call, Row
  <2>2. TypeOK'
    BY <1>1, <1>3, <1>4, <2>1 DEF TypeOK
  <2> QED BY <1>1, <1>3, <1>4, <1>6, <2>2, InsertKeeps DEF At
<1> QED BY <1>5, <1>6 DEF BeginThrows

(* The tool runs. *)
LEMMA ExecuteToolKeeps ==
    ASSUME DispatchInv, NEW c \in Calls, ExecuteTool(c)
    PROVE  DispatchInv'
<1>1. /\ TypeOK /\ At(c, "execute") /\ UNCHANGED <<rows, lock, faults>>
      /\ ran' = ran \/ ran' = ran \cup {c}
  BY DEF ExecuteTool, DispatchInv
<1>2. PICK x \in Results :
         call' = [call EXCEPT ![c].pc = "complete", ![c].result = x]
  BY DEF ExecuteTool
<1>3. /\ call' \in [Calls -> Call] /\ Others(c)
      /\ call'[c].pc = "complete"
      /\ call'[c].result = x
      /\ call'[c].answer = call[c].answer
  BY <1>1, <1>2, CallHasResult
<1>4. TypeOK' /\ OthersLocked(c)
  BY <1>1, <1>3 DEF DispatchInv, TypeOK, Locked, OthersLocked
<1> QED BY <1>1, <1>3, <1>4, ExecuteKeeps DEF At

(* The context of the tool cannot be built. *)
LEMMA ContextFailsKeeps ==
    ASSUME DispatchInv, NEW c \in Calls, ContextFails(c)
    PROVE  DispatchInv'
<1>1. /\ TypeOK /\ At(c, "execute") /\ UNCHANGED <<rows, lock, faults>>
      /\ ran' = ran \/ ran' = ran \cup {c}
  BY DEF ContextFails, DispatchInv
<1>2. PICK x \in Results :
         call' = [call EXCEPT ![c].pc = "complete", ![c].result = x]
  BY DEF ContextFails
<1>3. /\ call' \in [Calls -> Call] /\ Others(c)
      /\ call'[c].pc = "complete"
      /\ call'[c].result = x
      /\ call'[c].answer = call[c].answer
  BY <1>1, <1>2, CallHasResult
<1>4. TypeOK' /\ OthersLocked(c)
  BY <1>1, <1>3 DEF DispatchInv, TypeOK, Locked, OthersLocked
<1> QED BY <1>1, <1>3, <1>4, ExecuteKeeps DEF At

(* complete() writes a row. *)
LEMMA CompletedRows ==
    ASSUME TypeOK, NEW c \in Calls, Completed(c) \/ UNCHANGED rows
    PROVE  rows' \in [Keys -> Row]
<1>1. CASE UNCHANGED rows
  BY <1>1 DEF TypeOK
<1>2. CASE Completed(c)
  <2> DEFINE k == call[c].key
  <2>1. k \in Keys /\ rows[k] \in Row /\ call[c].result \in Results \cup {NoResult}
    BY DEF TypeOK, Call
  <2>2. [rows[k] EXCEPT !.state = "terminal", !.result = call[c].result] \in Row
    BY <2>1 DEF Row
  <2> QED BY <1>2, <2>1, <2>2 DEF TypeOK, Completed
<1> QED BY <1>1, <1>2

(* The result is stored and answered. *)
LEMMA CompleteRowKeeps ==
    ASSUME DispatchInv, NEW c \in Calls, CompleteRow(c)
    PROVE  DispatchInv'
<1>1. /\ TypeOK /\ At(c, "complete") /\ Completed(c)
      /\ Answer(c, call[c].result) /\ UNCHANGED <<lock, ran, faults>>
  BY DEF CompleteRow, DispatchInv
<1>2. call[c].result \in Answers
  BY <1>1 DEF DispatchInv, TypeOK, Call, Stages, Answers
<1>3. /\ call' \in [Calls -> Call] /\ Others(c)
      /\ call'[c].pc = "done"
      /\ call'[c].result = call[c].result
      /\ call'[c].answer = call[c].result
  BY <1>1, <1>2, CallAnswers
<1>4. TypeOK' /\ OthersLocked(c)
  BY <1>1, <1>3, CompletedRows DEF DispatchInv, TypeOK, Locked, OthersLocked
<1> QED BY <1>1, <1>3, <1>4, CompleteKeeps, CalmCounts DEF At

(* The result may not be stored, and is answered. *)
LEMMA CompleteThrowsKeeps ==
    ASSUME DispatchInv, NEW c \in Calls, CompleteThrows(c)
    PROVE  DispatchInv'
<1>1. /\ TypeOK /\ At(c, "complete") /\ (Completed(c) \/ UNCHANGED rows)
      /\ Answer(c, call[c].result) /\ UNCHANGED <<lock, ran>>
      /\ faults' \in 0..MaxFaults /\ faults' \in Nat /\ faults' >= faults
  BY FaultCounts DEF CompleteThrows, DispatchInv
<1>2. call[c].result \in Answers
  BY <1>1 DEF DispatchInv, TypeOK, Call, Stages, Answers
<1>3. /\ call' \in [Calls -> Call] /\ Others(c)
      /\ call'[c].pc = "done"
      /\ call'[c].result = call[c].result
      /\ call'[c].answer = call[c].result
  BY <1>1, <1>2, CallAnswers
<1>4. TypeOK' /\ OthersLocked(c)
  BY <1>1, <1>3, CompletedRows DEF DispatchInv, TypeOK, Locked, OthersLocked
<1> QED BY <1>1, <1>3, <1>4, CompleteKeeps DEF At

(* Every step keeps the invariant. *)
LEMMA NextKeeps == DispatchInv /\ [Next]_vars => DispatchInv'
<1> SUFFICES ASSUME DispatchInv, [Next]_vars PROVE DispatchInv'
  OBVIOUS
<1>1. CASE UNCHANGED vars
  BY <1>1 DEF vars, DispatchInv, TypeOK, Locked, InsertFindsNone, RowBehindBegun,
     OneBegan, Stages, RowShape, AnswerBacked, RowHasCall, NoSpuriousError,
     InProgressIsReal, Began, At
<1>2. ASSUME NEW c \in Calls, Send(c) \/ Handle(c) \/ Fail(c)
      PROVE  DispatchInv'
  BY <1>2, SendKeeps, TakeLockKeeps, SelectRowKeeps, InsertRowKeeps,
     ExecuteToolKeeps, CompleteRowKeeps, RefuseKeeps, ContextFailsKeeps,
     BeginThrowsKeeps, CompleteThrowsKeeps DEF Handle, Fail
<1>3. ASSUME NEW p \in Replicas, Die(p)
      PROVE  DispatchInv'
  BY <1>3, DieKeeps
<1> QED BY <1>1, <1>2, <1>3 DEF Next

(* The inductive invariant of the dispatcher and its store holds: begun    *)
(* calls and rows stay together, whatever fails.                           *)
THEOREM DispatchInvariant == Spec => []DispatchInv
  BY InitDispatch, NextKeeps, PTL DEF Spec

(* Every reachable state is well typed. *)
THEOREM TypeCorrect == Spec => []TypeOK
<1>1. DispatchInv => TypeOK
  BY DEF DispatchInv
<1> QED BY <1>1, DispatchInvariant, PTL

(* However many retries, replicas and failures there are, the tool is      *)
(* executed once for each key (beginOrResolve).                            *)
THEOREM ExecutedAtMostOnce == Spec => []AtMostOnce
<1>1. DispatchInv => AtMostOnce
  BY DEF DispatchInv, OneBegan, Began, AtMostOnce, TypeOK
<1> QED BY <1>1, DispatchInvariant, PTL

(* Two answers with a result are backed by one call. *)
LEMMA AgreementFollows == DispatchInv => AnswersAgree
<1> SUFFICES ASSUME DispatchInv, NEW c \in Calls, NEW d \in Calls,
                    call[c].answer \in Results, call[d].answer \in Results,
                    call[c].key = call[d].key
             PROVE  /\ call[c].answer = call[d].answer
                    /\ call[c].request = call[d].request
  BY DEF AnswersAgree
<1>1. PICK e \in Calls : call[e].key = call[c].key /\ call[e].result = call[c].answer
  BY DEF DispatchInv, AnswerBacked
<1>2. PICK f \in Calls : call[f].key = call[d].key /\ call[f].result = call[d].answer
  BY DEF DispatchInv, AnswerBacked
<1>3. Began(e) /\ Began(f)
  BY <1>1, <1>2, InvocationAssumption DEF Began
<1>4. e = f
  BY <1>1, <1>2, <1>3 DEF DispatchInv, OneBegan
<1> QED BY <1>1, <1>2, <1>4 DEF DispatchInv, AnswerBacked

(* Calls under one key that are answered with a result are told the same,  *)
(* for the same request.                                                   *)
THEOREM RetriesAgree == Spec => []AnswersAgree
  BY AgreementFollows, DispatchInvariant, PTL

(* Without a failure of the database no call ends in an internal error:    *)
(* the lock keeps retries off the unique index.                            *)
THEOREM ErrorsAreFailures == Spec => []NoSpuriousError
<1>1. DispatchInv => NoSpuriousError
  BY DEF DispatchInv
<1> QED BY <1>1, DispatchInvariant, PTL

(* Without a failure in_progress is said only of an execution under way or *)
(* ended.                                                                  *)
THEOREM InProgressIsJustified == Spec => []InProgressIsReal
<1>1. DispatchInv => InProgressIsReal
  BY DEF DispatchInv
<1> QED BY <1>1, DispatchInvariant, PTL

-----------------------------------------------------------------------------
(* The dispatcher implements the contract of Idempotency.                  *)

Ran(c) == call[c].result # NoResult

(* The outcome of a key is the result of its one call that has any. *)
LEMMA OutcomeIsResult ==
    ASSUME DispatchInv, NEW c \in Calls, Ran(c)
    PROVE  Outcome(call[c].key) = call[c].result
<1> DEFINE runners == {d \in Calls : call[d].key = call[c].key /\ call[d].result # NoResult}
<1>1. c \in runners /\ \A d \in runners : d = c
  BY DEF DispatchInv, OneBegan, Began, Ran
<1>2. (CHOOSE d \in runners : TRUE) = c
  BY <1>1
<1> QED BY <1>1, <1>2 DEF Outcome

(* The same in the next state. *)
LEMMA NextOutcomeIsResult ==
    ASSUME DispatchInv', NEW c \in Calls, NEW k, call'[c].key = k, Ran(c)'
    PROVE  Outcome(k)' = call'[c].result
<1> DEFINE runners == {d \in Calls : call'[d].key = k /\ call'[d].result # NoResult}
<1>1. c \in runners /\ \A d \in runners : d = c
  BY DEF DispatchInv, OneBegan, Began, Ran
<1>2. (CHOOSE d \in runners : TRUE) = c
  BY <1>1
<1> QED BY <1>1, <1>2 DEF Outcome

(* A key under which nothing ran has no outcome. *)
LEMMA NoOutcome ==
    ASSUME NEW k \in Keys, \A c \in Calls : call[c].key = k => ~Ran(c)
    PROVE  Outcome(k) = NoResult
  BY DEF Outcome, Ran

(* The same results under the same keys make the same outcomes. *)
LEMMA SameOutcomes ==
    ASSUME \A c \in Calls : call'[c].key = call[c].key /\ call'[c].result = call[c].result
    PROVE  Outcomes' = Outcomes
<1> SUFFICES ASSUME NEW k \in Keys PROVE Outcome(k)' = Outcome(k)
  BY DEF Outcomes
<1> DEFINE runners == {d \in Calls : call[d].key = k /\ call[d].result # NoResult}
<1>1. {d \in Calls : call'[d].key = k /\ call'[d].result # NoResult} = runners
  OBVIOUS
<1>2. CASE runners = {}
  BY <1>1, <1>2 DEF Outcome
<1>3. CASE runners # {}
  <2>1. (CHOOSE d \in runners : TRUE) \in runners
    BY <1>3
  <2>2. call'[CHOOSE d \in runners : TRUE].result = call[CHOOSE d \in runners : TRUE].result
    BY <2>1
  <2> QED BY <1>1, <1>3, <2>2 DEF Outcome
<1> QED BY <1>2, <1>3

(* The same answers with results are the same to consumers. *)
LEMMA SameTold ==
    ASSUME \A c \in Calls : /\ call'[c].key = call[c].key
                            /\ call'[c].request = call[c].request
                            /\ \/ call'[c].answer = call[c].answer
                               \/ call'[c].answer \notin Results /\ call[c].answer \notin Results
    PROVE  Told' = Told
  BY DEF Told

(* A step that changes no claim, no result and no answer with a result. *)
LEMMA NothingNew ==
    ASSUME \A c \in Calls : /\ call'[c].key = call[c].key
                            /\ call'[c].request = call[c].request
                            /\ call'[c].result = call[c].result
                            /\ \/ call'[c].answer = call[c].answer
                               \/ call'[c].answer \notin Results /\ call[c].answer \notin Results,
           UNCHANGED rows
    PROVE  UNCHANGED Contract!vars
  BY SameOutcomes, SameTold DEF Contract!vars, Claims

(* A call that has not begun goes on, or ends without a result. *)
LEMMA Silent ==
    ASSUME DispatchInv, NEW c \in Calls, UNCHANGED rows,
           \/ \E pc \in PCs : Goto(c, pc)
           \/ \E a \in {"refused", "conflict", "in_progress", "error"} : Answer(c, a),
           ~At(c, "done")
    PROVE  UNCHANGED Contract!vars
<1>1. CASE \E pc \in PCs : Goto(c, pc)
  BY <1>1, CallGoes, NothingNew DEF DispatchInv, Others
<1>2. ASSUME NEW a \in {"refused", "conflict", "in_progress", "error"}, Answer(c, a)
      PROVE  UNCHANGED Contract!vars
  <2>1. a \in Answers /\ a \notin Results
    BY InvocationAssumption DEF Answers
  <2>2. call[c].answer \notin Results
    BY InvocationAssumption DEF DispatchInv, Stages
  <2>3. /\ Others(c) /\ call'[c].result = call[c].result
        /\ call'[c].answer \notin Results
    BY <1>2, <2>1, CallAnswers DEF DispatchInv
  <2> QED BY <2>2, <2>3, NothingNew DEF Others
<1> QED BY <1>1, <1>2

(* The row is inserted: the key is claimed. *)
LEMMA InsertClaims ==
    ASSUME DispatchInv, NEW c \in Calls, At(c, "insert"),
           rows' = [rows EXCEPT ![call[c].key] = [state   |-> "in_progress",
                                                  request |-> call[c].request,
                                                  result  |-> NoResult]],
           Goto(c, "execute") \/ Answer(c, "error")
    PROVE  Contract!Next
<1> DEFINE k == call[c].key
<1>1. k \in Keys /\ call[c].request \in Requests
  BY DEF DispatchInv, TypeOK, Call
<1>2. Claims[k] = NoRequest
  BY <1>1 DEF DispatchInv, InsertFindsNone, RowShape, Claims
<1>3. Claims' = [Claims EXCEPT ![k] = call[c].request]
  BY <1>1 DEF DispatchInv, TypeOK, Claims
<1>4. /\ Others(c) /\ call'[c].result = call[c].result
      /\ call'[c].answer = call[c].answer \/ call'[c].answer \notin Results
  BY CallGoes, CallAnswers, InvocationAssumption DEF DispatchInv, PCs, Answers
<1>5. call[c].answer \notin Results
  BY InvocationAssumption DEF DispatchInv, Stages, At
<1>6. Outcomes' = Outcomes /\ Told' = Told
  BY <1>4, <1>5, SameOutcomes, SameTold DEF Others
<1>7. Contract!Claim(k, call[c].request)
  BY <1>2, <1>3, <1>6 DEF Contract!Claim
<1> QED BY <1>1, <1>7 DEF Contract!Next

(* There is a result: the claimed key has its outcome. *)
LEMMA ResultExecutes ==
    ASSUME DispatchInv, DispatchInv', NEW c \in Calls, At(c, "execute"),
           NEW x \in Results,
           call' = [call EXCEPT ![c].pc = "complete", ![c].result = x],
           UNCHANGED rows
    PROVE  Contract!Next
<1>0. PICK k \in Keys : k = call[c].key
  BY DEF DispatchInv, TypeOK, Call
<1>1. /\ Others(c) /\ call'[c].result = x /\ call'[c].answer = call[c].answer
      /\ x # NoResult
  BY CallHasResult, InvocationAssumption DEF DispatchInv, TypeOK, Call
<1>2. Claims[k] # NoRequest /\ Claims' = Claims
  BY <1>0, <1>1, InvocationAssumption DEF DispatchInv, RowBehindBegun, Began, At, TypeOK,
     Call, Claims
<1>3. \A d \in Calls : call[d].key = k => ~Ran(d)
  BY <1>0 DEF DispatchInv, OneBegan, Stages, Began, At, Ran
<1>4. Outcome(k) = NoResult
  BY <1>1, <1>3, NoOutcome
<1>5. Outcome(k)' = x
  BY <1>0, <1>1, NextOutcomeIsResult DEF Others, Ran
<1>6. \A j \in Keys \ {k} : Outcome(j)' = Outcome(j)
  <2> TAKE j \in Keys \ {k}
  <2>1. CASE \E d \in Calls : call[d].key = j /\ Ran(d)
    <3>1. PICK d \in Calls : call[d].key = j /\ Ran(d)
      BY <2>1
    <3>2. /\ call'[d].key = j /\ call'[d].result = call[d].result
          /\ Ran(d)'
      BY <1>0, <1>1, <3>1 DEF Others, Ran
    <3>3. Outcome(j) = call[d].result
      BY <3>1, OutcomeIsResult
    <3>4. Outcome(j)' = call'[d].result
      BY <3>2, NextOutcomeIsResult
    <3> QED BY <3>2, <3>3, <3>4
  <2>2. CASE \A d \in Calls : call[d].key = j => ~Ran(d)
    <3>1. \A d \in Calls : call'[d].key = j => ~Ran(d)'
      BY <1>0, <1>1, <2>2 DEF Others, Ran
    <3> QED BY <2>2, <3>1, NoOutcome DEF Outcome, Ran
  <2> QED BY <2>1, <2>2
<1>7. Outcomes' = [Outcomes EXCEPT ![k] = x]
  BY <1>1, <1>5, <1>6 DEF Outcomes
<1>8. Told' = Told
  BY <1>1, SameTold DEF Others
<1>9. Contract!Execute(k, x)
  BY <1>1, <1>2, <1>4, <1>7, <1>8 DEF Contract!Execute, Outcomes
<1> QED BY <1>1, <1>9 DEF Contract!Next

(* A call is answered with a result: the outcome of its key is told. *)
LEMMA AnswerTells ==
    ASSUME DispatchInv, DispatchInv', NEW c \in Calls, NEW x \in Results,
           Answer(c, x), ~At(c, "done"),
           \A k \in Keys : rows'[k].request = rows[k].request
    PROVE  Contract!Next
<1> DEFINE k == call[c].key
<1>1. /\ Others(c) /\ call'[c].result = call[c].result /\ call'[c].answer = x
      /\ call[c].answer \notin Results
  BY CallAnswers, InvocationAssumption DEF DispatchInv, Answers, Stages
<1>2. k \in Keys /\ Claims' = Claims /\ Outcomes' = Outcomes
  BY <1>1, SameOutcomes DEF DispatchInv, TypeOK, Call, Claims, Others
<1>3. Claims[k] = call[c].request
  BY <1>1, <1>2 DEF DispatchInv, AnswerBacked, Others, Claims
<1>4. PICK d \in Calls : call'[d].key = call'[c].key /\ call'[d].result = x
  BY <1>1 DEF DispatchInv, AnswerBacked
<1>5. call[d].key = k /\ call[d].result = x /\ Ran(d)
  BY <1>1, <1>4, InvocationAssumption DEF Others, Ran
<1>6. Outcomes[k] = x /\ x # NoResult
  BY <1>2, <1>5, OutcomeIsResult, InvocationAssumption DEF Outcomes
<1>7. Told' = Told \cup {<<k, call[c].request, x>>}
  BY <1>1 DEF Told, Others
<1>8. Contract!Tell(k)
  BY <1>2, <1>3, <1>6, <1>7 DEF Contract!Tell
<1> QED BY <1>2, <1>8 DEF Contract!Next

(* Every step is one of the contract, or none. *)
LEMMA StepKeepsContract ==
    ASSUME DispatchInv, DispatchInv', [Next]_vars
    PROVE  [Contract!Next]_(Contract!vars)
<1>1. CASE UNCHANGED vars
  BY <1>1, NothingNew DEF vars
<1>2. ASSUME NEW c \in Calls, Send(c) \/ TakeLock(c) \/ Refuse(c)
      PROVE  UNCHANGED Contract!vars
  BY <1>2, Silent DEF Send, TakeLock, Refuse, At, PCs
<1>3. ASSUME NEW c \in Calls, SelectRow(c)
      PROVE  [Contract!Next]_(Contract!vars)
  <2>1. At(c, "select") /\ ~At(c, "done") /\ UNCHANGED rows
    BY <1>3 DEF SelectRow, At
  <2>2. CASE \/ Goto(c, "insert") \/ Answer(c, "conflict") \/ Answer(c, "in_progress")
    BY <2>1, <2>2, Silent DEF PCs
  <2>3. CASE /\ rows[call[c].key].state = "terminal"
             /\ Answer(c, rows[call[c].key].result)
    <3>1. rows[call[c].key].result \in Results
      BY <2>3 DEF DispatchInv, RowShape, TypeOK, Call
    <3> QED BY <2>1, <2>3, <3>1, AnswerTells
  <2> QED BY <1>3, <2>2, <2>3 DEF SelectRow
<1>4. ASSUME NEW c \in Calls, InsertRow(c)
      PROVE  [Contract!Next]_(Contract!vars)
  <2>1. At(c, "insert") /\ rows[call[c].key].state = "none"
    BY <1>4 DEF InsertRow, DispatchInv, InsertFindsNone
  <2> QED BY <1>4, <2>1, InsertClaims DEF InsertRow
<1>5. ASSUME NEW c \in Calls, BeginThrows(c)
      PROVE  [Contract!Next]_(Contract!vars)
  <2>1. Answer(c, "error") /\ ~At(c, "done")
    BY <1>5 DEF BeginThrows, At
  <2>2. CASE UNCHANGED rows
    BY <2>1, <2>2, Silent
  <2>3. CASE ~UNCHANGED rows
    BY <1>5, <2>1, <2>3, InsertClaims DEF BeginThrows
  <2> QED BY <2>2, <2>3
<1>6. ASSUME NEW c \in Calls, ExecuteTool(c) \/ ContextFails(c)
      PROVE  Contract!Next
  BY <1>6, ResultExecutes DEF ExecuteTool, ContextFails
<1>7. ASSUME NEW c \in Calls, CompleteRow(c) \/ CompleteThrows(c)
      PROVE  Contract!Next
  <2>1. /\ At(c, "complete") /\ ~At(c, "done") /\ Answer(c, call[c].result)
        /\ Completed(c) \/ UNCHANGED rows
    BY <1>7 DEF CompleteRow, CompleteThrows, At
  <2>2. call[c].result \in Results
    BY <2>1 DEF DispatchInv, Stages, TypeOK, Call
  <2>3. \A k \in Keys : rows'[k].request = rows[k].request
    <3>1. \A k \in Keys : rows[k] \in Row /\ rows \in [Keys -> Row]
      BY DEF DispatchInv, TypeOK
    <3>2. ASSUME Completed(c), NEW k \in Keys
          PROVE  rows'[k].request = rows[k].request
      <4>1. CASE k = call[c].key /\ rows[k].state = "in_progress"
        <5>1. rows'[k] = [rows[k] EXCEPT !.state = "terminal", !.result = call[c].result]
          BY <3>1, <3>2, <4>1 DEF Completed
        <5> QED BY <3>1, <5>1 DEF Row
      <4>2. CASE ~(k = call[c].key /\ rows[k].state = "in_progress")
        BY <3>1, <3>2, <4>2 DEF Completed
      <4> QED BY <4>1, <4>2
    <3> QED BY <2>1, <3>2
  <2> QED BY <2>1, <2>2, <2>3, AnswerTells
<1>8. ASSUME NEW p \in Replicas, Die(p)
      PROVE  UNCHANGED Contract!vars
  BY <1>8, NothingNew DEF Die, DispatchInv, TypeOK, Call
<1> QED
  BY <1>1, <1>2, <1>3, <1>4, <1>5, <1>6, <1>7, <1>8 DEF Next, Handle, Fail

(* The initial states. *)
LEMMA InitKeepsContract == Init => Contract!Init
<1> SUFFICES ASSUME Init PROVE Contract!Init
  OBVIOUS
<1>1. /\ \A c \in Calls : call[c].result = NoResult /\ call[c].answer = NoResult
      /\ rows = [k \in Keys |-> NoRow]
  BY DEF Init
<1>2. Claims = [k \in Keys |-> NoRequest]
  BY <1>1 DEF Claims, NoRow
<1>3. \A k \in Keys : Outcome(k) = NoResult
  BY <1>1, NoOutcome DEF Ran
<1>4. Told = {}
  BY <1>1, InvocationAssumption DEF Told
<1> QED BY <1>2, <1>3, <1>4 DEF Contract!Init, Outcomes

(* The dispatcher and its store implement the contract: every step of      *)
(* theirs is a claim, an execution, an answer, or nothing to the consumer. *)
THEOREM ContractKept == Spec => KeepsContract
<1>1. DispatchInv /\ DispatchInv' /\ [Next]_vars => [Contract!Next]_(Contract!vars)
  BY StepKeepsContract
<1> QED BY <1>1, InitKeepsContract, DispatchInvariant, PTL
        DEF Spec, KeepsContract, Contract!Spec

=============================================================================
