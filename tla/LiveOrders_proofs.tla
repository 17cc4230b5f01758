------------------------- MODULE LiveOrders_proofs --------------------------
(***************************************************************************)
(* Theorems about LiveOrders, for every number of plans, of orders in a    *)
(* plan, of slots and of mishaps.                                          *)
(*                                                                         *)
(* An order is sent once, by the one execution of its plan, after its row  *)
(* was written; and it ends once.  So what was written, held or announced  *)
(* of its end remains true of it.                                          *)
(***************************************************************************)
EXTENDS LiveOrders, TLAPS

(* The execution of the plan has not come to its j-th order yet. *)
NotYetSent(p, j) ==
    \/ run[p].pc \in {"none", "planned"}
    \/ run[p].pc \in {"prepare", "attempt", "submit"} /\ j >= run[p].i
    \/ run[p].pc = "reply" /\ j > run[p].i

(* A plan is made once, and each of its orders is sent once. *)
FreshPlan == \A p \in Plans : plan[p] = "none" => run[p].pc = "none"

UnsentIsAbsent ==
    \A p \in Plans, j \in 1..PerPlan :
        NotYetSent(p, j) => venue[<<p, j>>] = "absent"

(* The order at hand is written ahead. *)
AttemptWritten ==
    \A p \in Plans :
        run[p].pc \in {"submit", "reply"} => draft[<<p, run[p].i>>] = "attempting"

(* What is said of the end of an order is true. *)
Said(o, status) ==
    /\ status = "filled" => venue[o] = "filled"
    /\ status = "cancelled" => venue[o] \in {"cancelled", "cut"}
    /\ status = "rejected" => venue[o] = "refused"

UpdatesTrue == \A o \in Orders, status \in Status :
                  <<o, status>> \in updates => Said(o, status)
ReceiptsTrue == \A o \in Orders : Said(o, got[o])
RowsTrue == \A o \in Orders : Said(o, booked[o].status)
CancelTrue ==
    \A s \in Slots : task[s].pc = "write" => /\ task[s].cur \in Orders
                                             /\ Said(task[s].cur, "cancelled")

RejectedTrue ==
    None({"unanswered"}) =>
        \A o \in Orders : draft[o] = "rejected" => venue[o] \in {"absent", "refused"}

(* The inductive invariant. *)
OrderInv ==
    /\ TypeOK
    /\ FreshPlan
    /\ UnsentIsAbsent
    /\ AttemptWritten
    /\ WriteAhead
    /\ UpdatesTrue
    /\ ReceiptsTrue
    /\ RowsTrue
    /\ CancelTrue
    /\ RejectedTrue
-----------------------------------------------------------------------------
(* What most steps leave alone. *)
WritesKept ==
    \A s \in Slots : task'[s].pc = "write" => /\ task[s].pc = "write"
                                              /\ task'[s].cur = task[s].cur

OtherRuns(p) == \A q \in Plans \ {p} : run'[q] = run[q] /\ plan'[q] = plan[q]

LEMMA CurIsOrder ==
    ASSUME TypeOK, NEW p \in Plans
    PROVE  Cur(p) \in Orders
  BY DEF TypeOK, Run, Cur, Orders

LEMMA PairIsOrder ==
    ASSUME NEW p \in Plans, NEW j \in 1..PerPlan
    PROVE  <<p, j>> \in Orders
  BY DEF Orders

PCs == {"none", "planned", "prepare", "attempt", "submit", "reply", "record",
        "verdict", "end"}

(* Goto, End and NextOrder as facts about the executions. *)
LEMMA RunGoes ==
    ASSUME TypeOK, NEW p \in Plans, NEW pc \in PCs, Goto(p, pc)
    PROVE  /\ run' \in [Plans -> Run]
           /\ \A q \in Plans \ {p} : run'[q] = run[q]
           /\ run'[p].pc = pc /\ run'[p].i = run[p].i
  BY DEF TypeOK, Run, PCs, Goto

LEMMA RunEnds ==
    ASSUME TypeOK, NEW p \in Plans, End(p)
    PROVE  /\ run' \in [Plans -> Run]
           /\ \A q \in Plans \ {p} : run'[q] = run[q]
           /\ run'[p].pc = "end"
  BY LiveOrdersAssumption DEF TypeOK, Run, End

LEMMA RunAdvances ==
    ASSUME TypeOK, NEW p \in Plans, NextOrder(p)
    PROVE  /\ run' \in [Plans -> Run]
           /\ \A q \in Plans \ {p} : run'[q] = run[q]
           /\ run'[p].pc \in {"prepare", "record", "end"}
           /\ run'[p].pc = "prepare" => run'[p].i = run[p].i + 1
  <1>1. CASE run[p].i < PerPlan
    BY <1>1, LiveOrdersAssumption DEF TypeOK, Run, NextOrder
  <1>2. CASE run[p].i >= PerPlan /\ run[p].awaited
    BY <1>2, LiveOrdersAssumption DEF TypeOK, Run, NextOrder
  <1>3. CASE run[p].i >= PerPlan /\ ~run[p].awaited
    BY <1>3, RunEnds, LiveOrdersAssumption DEF TypeOK, Run, NextOrder
  <1> QED BY <1>1, <1>2, <1>3, LiveOrdersAssumption DEF TypeOK, Run

(* A step that sends nothing and touches no order at the venue. *)
LEMMA Quiet ==
    ASSUME OrderInv, TypeOK',
           UNCHANGED <<draft, venue, run>>,
           \A p \in Plans : plan'[p] = "none" => plan[p] = "none",
           mishaps \subseteq mishaps',
           updates' \subseteq updates,
           \A o \in Orders : Said(o, got'[o]) /\ Said(o, booked'[o].status),
           WritesKept
    PROVE  OrderInv'
  <1>1. FreshPlan' BY DEF OrderInv, FreshPlan
  <1>2. UnsentIsAbsent' BY DEF OrderInv, UnsentIsAbsent, NotYetSent
  <1>3. AttemptWritten' BY DEF OrderInv, AttemptWritten
  <1>4. WriteAhead' BY DEF OrderInv, WriteAhead
  <1>5. UpdatesTrue' BY DEF OrderInv, UpdatesTrue, Said
  <1>6. ReceiptsTrue' /\ RowsTrue' BY DEF ReceiptsTrue, RowsTrue, Said
  <1>7. CancelTrue' BY DEF OrderInv, CancelTrue, WritesKept, Said
  <1>8. RejectedTrue' BY DEF OrderInv, RejectedTrue, None
  <1> QED BY <1>1, <1>2, <1>3, <1>4, <1>5, <1>6, <1>7, <1>8 DEF OrderInv

(* A step of the execution of p that sends nothing. *)
LEMMA ExecutionKeeps ==
    ASSUME OrderInv, TypeOK', NEW p \in Plans,
           UNCHANGED <<venue, updates>>, WritesKept, OtherRuns(p),
           mishaps \subseteq mishaps',
           plan'[p] # "none",
           \A j \in 1..PerPlan : NotYetSent(p, j)' => NotYetSent(p, j),
           \A o \in Orders \ {Cur(p)} : draft'[o] = draft[o],
           \/ draft'[Cur(p)] = draft[Cur(p)]
           \/ venue[Cur(p)] = "absent"
           \/ /\ draft'[Cur(p)] = "rejected"
              /\ venue[Cur(p)] = "refused" \/ "unanswered" \in mishaps',
           run'[p].pc \in {"submit", "reply"} =>
               draft'[<<p, run'[p].i>>] = "attempting",
           \A o \in Orders : Said(o, got'[o]) /\ Said(o, booked'[o].status)
    PROVE  OrderInv'
  <1>0. Cur(p) \in Orders BY CurIsOrder DEF OrderInv
  <1>1. FreshPlan' BY DEF OrderInv, FreshPlan, OtherRuns
  <1>2. UnsentIsAbsent'
    <2> SUFFICES ASSUME NEW q \in Plans, NEW j \in 1..PerPlan,
                        NotYetSent(q, j)'
                 PROVE  venue[<<q, j>>] = "absent"
      BY DEF UnsentIsAbsent
    <2>1. NotYetSent(q, j) BY DEF NotYetSent, OtherRuns
    <2> QED BY <2>1 DEF OrderInv, UnsentIsAbsent
  <1>3. AttemptWritten'
    <2> SUFFICES ASSUME NEW q \in Plans, q # p,
                        run'[q].pc \in {"submit", "reply"}
                 PROVE  draft'[<<q, run'[q].i>>] = "attempting"
      BY DEF AttemptWritten
    <2>1. /\ run'[q] = run[q]
          /\ <<q, run[q].i>> # Cur(p)
      BY DEF OtherRuns, Cur
    <2>2. <<q, run[q].i>> \in Orders BY PairIsOrder DEF OrderInv, TypeOK, Run
    <2> QED BY <2>1, <2>2 DEF OrderInv, AttemptWritten
  <1>4. WriteAhead'
    BY <1>0 DEF OrderInv, WriteAhead
  <1>5. UpdatesTrue' BY DEF OrderInv, UpdatesTrue, Said
  <1>6. ReceiptsTrue' /\ RowsTrue' BY DEF ReceiptsTrue, RowsTrue, Said
  <1>7. CancelTrue' BY DEF OrderInv, CancelTrue, WritesKept, Said
  <1>8. RejectedTrue'
    BY <1>0 DEF OrderInv, RejectedTrue, None
  <1> QED BY <1>1, <1>2, <1>3, <1>4, <1>5, <1>6, <1>7, <1>8 DEF OrderInv

(* A step of one order at the venue, and of what is told of it. *)
LEMMA VenueMoves ==
    ASSUME OrderInv, TypeOK', NEW o \in Orders,
           UNCHANGED <<plan, draft, booked, run, got, mishaps>>,
           \A x \in Orders \ {o} : venue'[x] = venue[x],
           venue[o] \in {"coming"} \cup Live,
           venue'[o] = "refused" => venue[o] = "coming",
           venue'[o] # "absent",
           \A x \in Orders, status \in Status :
               <<x, status>> \in updates' =>
                   <<x, status>> \in updates \/ (x = o /\ Said(o, status)'),
           \A s \in Slots : task'[s].pc = "write" =>
               \/ task[s].pc = "write" /\ task'[s].cur = task[s].cur
               \/ task'[s].cur = o /\ Said(o, "cancelled")'
    PROVE  OrderInv'
  <1>0. \A x \in Orders, status \in Status \cup {"none"} :
            Said(x, status) => Said(x, status)'
    BY DEF Said, Live
  <1>1. FreshPlan' BY DEF OrderInv, FreshPlan
  <1>2. UnsentIsAbsent'
    BY PairIsOrder DEF OrderInv, UnsentIsAbsent, NotYetSent, Live
  <1>3. AttemptWritten' BY DEF OrderInv, AttemptWritten
  <1>4. WriteAhead' BY DEF OrderInv, WriteAhead, Live
  <1>5. UpdatesTrue' BY <1>0 DEF OrderInv, UpdatesTrue
  <1>6. ReceiptsTrue'
    BY <1>0 DEF OrderInv, ReceiptsTrue, TypeOK
  <1>7. RowsTrue'
    BY <1>0 DEF OrderInv, RowsTrue, TypeOK
  <1>8. CancelTrue'
    BY <1>0 DEF OrderInv, CancelTrue, Status
  <1>9. RejectedTrue'
    BY DEF OrderInv, RejectedTrue, None, Live
  <1> QED BY <1>1, <1>2, <1>3, <1>4, <1>5, <1>6, <1>7, <1>8, <1>9 DEF OrderInv

-----------------------------------------------------------------------------
LEMMA MishapsGrow ==
    ASSUME TypeOK, NEW kind, NEW happens, Costs(kind, happens) \/ Mishap(kind)
    PROVE  mishaps' \subseteq Kinds /\ mishaps \subseteq mishaps'
  BY DEF TypeOK, Costs, Mishap

LEMMA TaskWith ==
    ASSUME NEW t \in Task, NEW orders \in SUBSET Orders
    PROVE  /\ [t EXCEPT !.todo = orders] \in Task
           /\ [t EXCEPT !.pc = "sweep", !.todo = orders] \in Task
           /\ [t EXCEPT !.pc = "sweep", !.cur = NoOrder] \in Task
  BY DEF Task

LEMMA RunWith ==
    ASSUME NEW r \in Run, NEW pc \in PCs, NEW j \in 1..PerPlan,
           NEW waits \in BOOLEAN
    PROVE  /\ [r EXCEPT !.i = j] \in Run
           /\ [r EXCEPT !.pc = pc, !.i = j] \in Run
           /\ [r EXCEPT !.awaited = waits] \in Run
  BY DEF Run, PCs

(* The steps of a tick or a crash handler keep the types. *)
LEMMA TaskTypes ==
    ASSUME TypeOK, CancelTrue, NEW s \in Slots,
           \/ TickStep(s) \/ BeginTick(s) \/ BeginStopLoss(s) \/ BeginCrash(s)
    PROVE  TypeOK'
  <1> USE LiveOrdersAssumption
  <1>1. ASSUME NEW o \in Orders, Cancel(s, o) PROVE TypeOK'
    BY <1>1 DEF Cancel, CancelledFrom, Tell, TypeOK, Task, Status, Live, Traded
  <1>2. ASSUME NEW o \in Orders, CancelFails(s, o) PROVE TypeOK'
    <2>1. task' \in [Slots -> Task]
      <3>1. [task[s] EXCEPT !.todo = @ \ {o}] \in Task
        <4>1. task[s] \in Task BY DEF TypeOK
        <4>2. task[s].todo \ {o} \in SUBSET Orders BY <4>1 DEF Task
        <4> QED BY <4>1, <4>2, TaskWith
      <3>2. task' = [task EXCEPT ![s] = [task[s] EXCEPT !.todo = @ \ {o}]]
        BY <1>2 DEF CancelFails, TypeOK
      <3> QED BY <3>1, <3>2 DEF TypeOK
    <2>2. /\ venue' \in [Orders -> {"absent", "coming", "refused", "cancelled"}
                                     \cup Live \cup Traded]
          /\ updates' \subseteq Orders \X Status
      <3>1. CASE UNCHANGED <<venue, updates>> BY <3>1 DEF TypeOK
      <3>2. CASE venue' = [venue EXCEPT ![o] = CancelledFrom(@)]
                 /\ Tell(o, "cancelled")
        BY <3>2 DEF CancelledFrom, Tell, TypeOK, Status, Live, Traded
      <3> QED BY <1>2, <3>1, <3>2 DEF CancelFails
    <2> QED BY <1>2, <2>1, <2>2 DEF CancelFails, TypeOK
  <1>3. ASSUME WriteCancelled(s) PROVE TypeOK'
    <2>1. task' \in [Slots -> Task]
      <3>1. [task[s] EXCEPT !.pc = "sweep", !.cur = NoOrder] \in Task
        BY TaskWith DEF TypeOK
      <3>2. task' = [task EXCEPT ![s] = [task[s] EXCEPT !.pc = "sweep", !.cur = NoOrder]]
        BY <1>3 DEF WriteCancelled, TypeOK
      <3> QED BY <3>1, <3>2 DEF TypeOK
    <2>2. task[s].cur \in Orders BY <1>3 DEF WriteCancelled, CancelTrue
    <2>3. booked' \in [Orders -> [status : Status \cup {"none"},
                                  linked : BOOLEAN]]
      BY <1>3, <2>2 DEF WriteCancelled, TypeOK, Status
    <2> QED BY <1>3, <2>1, <2>3 DEF WriteCancelled, TypeOK
  <1>4. ASSUME Guard(s) PROVE TypeOK'
    BY <1>4 DEF Guard, Settled, Idle, TypeOK, Task, Resolved
  <1>5. ASSUME CrashEnds(s) PROVE TypeOK'
    BY <1>5 DEF CrashEnds, Idle, TypeOK, Task
  <1>6. ASSUME Hold(s) PROVE TypeOK'
    BY <1>6 DEF Hold, Idle, TypeOK, Task
  <1>7. ASSUME NEW p \in Plans, Decide(s, p) PROVE TypeOK'
    <2>1. task' \in [Slots -> Task] BY <1>7 DEF Decide, Idle, TypeOK, Task
    <2>2. run' \in [Plans -> Run]
      <3>1. [run[p] EXCEPT !.pc = "planned", !.awaited = TRUE] \in Run
        <4>1. run[p] \in Run BY DEF TypeOK
        <4> QED BY <4>1 DEF Run
      <3>2. run' = [run EXCEPT ![p] = [run[p] EXCEPT !.pc = "planned",
                                                     !.awaited = TRUE]]
        BY <1>7 DEF Decide, TypeOK
      <3> QED BY <3>1, <3>2 DEF TypeOK
    <2>3. plan' \in [Plans -> {"none", "pending", "executing"} \cup Resolved]
      BY <1>7 DEF Decide, TypeOK
    <2> QED BY <1>7, <2>1, <2>2, <2>3 DEF Decide, TypeOK
  <1>8. ASSUME BeginTick(s) PROVE TypeOK'
    <2>1. task' \in [Slots -> Task]
      <3>1. PICK aged \in SUBSET Referenced :
               task' = [task EXCEPT ![s].pc = "sweep", ![s].todo = aged]
        BY <1>8 DEF BeginTick
      <3>2. [task[s] EXCEPT !.pc = "sweep", !.todo = aged] \in Task
        BY TaskWith DEF Referenced, TypeOK
      <3>3. task' = [task EXCEPT ![s] = [task[s] EXCEPT !.pc = "sweep",
                                                        !.todo = aged]]
        BY <3>1 DEF TypeOK
      <3> QED BY <3>2, <3>3 DEF TypeOK
    <2>2. mishaps' \subseteq Kinds BY <1>8, MishapsGrow DEF BeginTick
    <2> QED BY <1>8, <2>1, <2>2 DEF BeginTick, TypeOK
  <1>9. ASSUME BeginStopLoss(s) PROVE TypeOK'
    <2>1. task' \in [Slots -> Task]
      BY <1>9 DEF BeginStopLoss, Idle, TypeOK, Task
    <2>2. mishaps' \subseteq Kinds BY <1>9, MishapsGrow DEF BeginStopLoss
    <2> QED BY <1>9, <2>1, <2>2 DEF BeginStopLoss, TypeOK
  <1>10. ASSUME BeginCrash(s) PROVE TypeOK'
    BY <1>10 DEF BeginCrash, Referenced, TypeOK, Task
  <1> QED BY <1>1, <1>2, <1>3, <1>4, <1>5, <1>6, <1>7, <1>8, <1>9, <1>10
          DEF TickStep

(* The steps of an execution keep the types. *)
LEMMA ExecutionTypes ==
    ASSUME TypeOK, NEW p \in Plans,
           Execution(p) \/ GiveUp(p) \/ ExecutionThrows(p)
    PROVE  TypeOK'
  <1> USE LiveOrdersAssumption
  <1>0. Cur(p) \in Orders BY CurIsOrder
  <1>1. ASSUME Refuse(p) PROVE TypeOK'
    BY <1>1, RunEnds DEF Refuse, TypeOK, Resolved
  <1>2. ASSUME Approve(p) PROVE TypeOK'
    BY <1>2, RunGoes DEF Approve, TypeOK, PCs
  <1>3. ASSUME RejectUnsupported(p) PROVE TypeOK'
    BY <1>0, <1>3, RunAdvances DEF RejectUnsupported, TypeOK
  <1>4. ASSUME Prepare(p) PROVE TypeOK'
    BY <1>0, <1>4, RunGoes DEF Prepare, TypeOK, PCs
  <1>5. ASSUME Attempt(p) PROVE TypeOK'
    BY <1>0, <1>5, RunGoes DEF Attempt, TypeOK, PCs
  <1>6. ASSUME Submit(p) PROVE TypeOK'
    BY <1>0, <1>6, RunGoes DEF Submit, TypeOK, PCs
  <1>7. ASSUME Acknowledge(p) PROVE TypeOK'
    <2>1. run' \in [Plans -> Run] BY <1>7, RunAdvances DEF Acknowledge
    <2>2. PICK status \in Status :
             /\ got' = [got EXCEPT ![Cur(p)] = status]
             /\ booked' = [booked EXCEPT ![Cur(p)] =
                              [status |-> status, linked |-> TRUE]]
      BY <1>7 DEF Acknowledge, Status
    <2>3. /\ got' \in [Orders -> Status \cup {"none"}]
          /\ booked' \in [Orders -> [status : Status \cup {"none"},
                                     linked : BOOLEAN]]
      BY <1>0, <2>2 DEF TypeOK
    <2> QED BY <1>7, <2>1, <2>3 DEF Acknowledge, TypeOK
  <1>8. ASSUME SubmitFails(p) PROVE TypeOK'
    <2>1. run' \in [Plans -> Run] BY <1>8, RunAdvances DEF SubmitFails
    <2>2. mishaps' \subseteq Kinds BY <1>8, MishapsGrow DEF SubmitFails
    <2> QED BY <1>0, <1>8, <2>1, <2>2 DEF SubmitFails, TypeOK
  <1>9. ASSUME Record(p) PROVE TypeOK'
    <2>1. run' \in [Plans -> Run]
      <3>1. CASE End(p) BY <3>1, RunEnds
      <3>2. CASE run[p].i < PerPlan /\ run' = [run EXCEPT ![p].i = @ + 1]
        <4>1. run[p] \in Run BY DEF TypeOK
        <4>2. run[p].i + 1 \in 1..PerPlan BY <3>2, <4>1 DEF Run
        <4>3. [run[p] EXCEPT !.i = @ + 1] \in Run
          BY <4>1, <4>2, RunWith DEF PCs
        <4>4. run' = [run EXCEPT ![p] = [run[p] EXCEPT !.i = @ + 1]]
          BY <3>2 DEF TypeOK
        <4> QED BY <4>3, <4>4 DEF TypeOK
      <3>3. CASE run' = [run EXCEPT ![p].pc = "verdict", ![p].i = 1]
        <4>1. [run[p] EXCEPT !.pc = "verdict", !.i = 1] \in Run
          <5>1. 1 \in 1..PerPlan OBVIOUS
          <5> QED BY <5>1, RunWith DEF TypeOK, PCs
        <4>2. run' = [run EXCEPT ![p] = [run[p] EXCEPT !.pc = "verdict",
                                                       !.i = 1]]
          BY <3>3 DEF TypeOK
        <4> QED BY <4>1, <4>2 DEF TypeOK
      <3> QED BY <1>9, <3>1, <3>2, <3>3 DEF Record
    <2>2. /\ got' \in [Orders -> Status \cup {"none"}]
          /\ booked' \in [Orders -> [status : Status \cup {"none"},
                                     linked : BOOLEAN]]
      <3>1. got' \in [Orders -> Status \cup {"none"}]
        BY <1>9 DEF Record, Forget, TypeOK
      <3>2. \/ booked' = booked
            \/ /\ got[Cur(p)] # "none"
               /\ booked' = [booked EXCEPT ![Cur(p)].status = got[Cur(p)]]
        BY <1>9 DEF Record
      <3>3. got[Cur(p)] \in Status \cup {"none"}
        BY <1>0 DEF TypeOK
      <3> QED BY <1>0, <3>1, <3>2, <3>3 DEF TypeOK
    <2> QED BY <1>9, <2>1, <2>2 DEF Record, TypeOK
  <1>10. ASSUME Verdict(p) PROVE TypeOK'
    BY <1>10, RunEnds DEF Verdict, TypeOK, Resolved
  <1>11. ASSUME GiveUp(p) PROVE TypeOK'
    <2>1. run' \in [Plans -> Run]
      <3>1. [run[p] EXCEPT !.awaited = FALSE] \in Run
        <4>1. run[p] \in Run /\ 1 \in 1..PerPlan BY DEF TypeOK
        <4> QED BY <4>1, RunWith DEF PCs
      <3>2. run' = [run EXCEPT ![p] = [run[p] EXCEPT !.awaited = FALSE]]
        BY <1>11 DEF GiveUp, TypeOK
      <3> QED BY <3>1, <3>2 DEF TypeOK
    <2>2. mishaps' \subseteq Kinds BY <1>11, MishapsGrow DEF GiveUp
    <2> QED BY <1>11, <2>1, <2>2 DEF GiveUp, TypeOK, Resolved
  <1>12. ASSUME ExecutionThrows(p) PROVE TypeOK'
    <2>1. mishaps' \subseteq Kinds BY <1>12, MishapsGrow DEF ExecutionThrows
    <2>2. got' \in [Orders -> Status \cup {"none"}]
      BY <1>12 DEF ExecutionThrows, Forget, TypeOK
    <2> QED BY <1>12, <2>1, <2>2, RunEnds DEF ExecutionThrows, TypeOK
  <1> QED BY <1>1, <1>2, <1>3, <1>4, <1>5, <1>6, <1>7, <1>8, <1>9, <1>10,
             <1>11, <1>12 DEF Execution

(* The venue, the stream, the recovery and the operator keep the types. *)
LEMMA OtherTypes ==
    ASSUME TypeOK,
           \/ \E o \in Orders : Land(o) \/ Fill(o) \/ VenueCancels(o)
           \/ Stream \/ TryComplete \/ Recovery \/ RecoverBlind
           \/ Disconnect \/ Reconnect \/ Die \/ Stop \/ Start
    PROVE  TypeOK'
  <1> USE LiveOrdersAssumption
  <1>1. ASSUME NEW o \in Orders, Land(o) PROVE TypeOK'
    BY <1>1 DEF Land, Tell, TypeOK, Status, Live, Traded
  <1>2. ASSUME NEW o \in Orders, Fill(o) PROVE TypeOK'
    BY <1>2 DEF Fill, Tell, TypeOK, Status, Live, Traded
  <1>3. ASSUME NEW o \in Orders, VenueCancels(o) PROVE TypeOK'
    BY <1>3 DEF VenueCancels, CancelledFrom, Tell, TypeOK, Status, Live, Traded
  <1>4. ASSUME NEW o \in Orders, NEW status \in Status, ApplyUpdate(o, status)
        PROVE  TypeOK'
    BY <1>4 DEF ApplyUpdate, TypeOK
  <1>5. ASSUME TryComplete PROVE TypeOK'
    BY <1>5 DEF TryComplete, Settled, TypeOK, Resolved
  <1>6. ASSUME FetchOpen PROVE TypeOK' BY <1>6 DEF FetchOpen, TypeOK
  <1>7. ASSUME FetchFills PROVE TypeOK' BY <1>7 DEF FetchFills, TypeOK
  <1>8. ASSUME Recovered PROVE TypeOK'
    BY <1>8 DEF Recovered, NothingFound, TypeOK
  <1>9. ASSUME NEW p \in Plans, RecoverPlan(p) PROVE TypeOK'
    <2> DEFINE Plan == {"none", "pending", "executing"} \cup Resolved
    <2>1. \A seen, ambiguous :
             JudgedByRows(p, seen, ambiguous) \in {"completed", "failed", plan[p]}
      BY DEF JudgedByRows
    <2>2. /\ plan \in [Plans -> Plan]
          /\ {"completed", "failed", plan[p]} \subseteq Plan
      BY DEF TypeOK, Resolved
    <2>3. \/ UNCHANGED plan
          \/ \E status \in {"completed", "failed", plan[p]} :
                plan' = [plan EXCEPT ![p] = status]
      BY <1>9, <2>1 DEF RecoverPlan
    <2>4. plan' \in [Plans -> Plan] BY <2>2, <2>3
    <2>5. found' = [found EXCEPT !.todo = @ \ {p}] BY <1>9 DEF RecoverPlan
    <2>6. found' \in [todo : SUBSET Plans, read : SUBSET {"open", "fills"},
                      open : SUBSET Orders, fills : SUBSET Orders]
      BY <2>5 DEF TypeOK
    <2> QED BY <1>9, <2>4, <2>6 DEF RecoverPlan, TypeOK
  <1>10. ASSUME RecoverBlind PROVE TypeOK'
    <2>1. mishaps' \subseteq Kinds BY <1>10, MishapsGrow DEF RecoverBlind
    <2>2. PICK failed :
             /\ plan' = [p \in Plans |-> IF p \in failed THEN "failed" ELSE plan[p]]
             /\ found' = [found EXCEPT !.todo = @ \ failed]
      BY <1>10 DEF RecoverBlind
    <2>3. plan' \in [Plans -> {"none", "pending", "executing"} \cup Resolved]
      BY <2>2 DEF TypeOK, Resolved
    <2>4. found' \in [todo : SUBSET Plans, read : SUBSET {"open", "fills"},
                      open : SUBSET Orders, fills : SUBSET Orders]
      BY <2>2 DEF TypeOK
    <2> QED BY <1>10, <2>1, <2>3, <2>4 DEF RecoverBlind, TypeOK
  <1>11. ASSUME Disconnect \/ Reconnect \/ Stop PROVE TypeOK'
    BY <1>11 DEF Disconnect, Reconnect, Stop, TypeOK
  <1>12. ASSUME Die PROVE TypeOK'
    BY <1>12 DEF Die, Idle, NothingFound, TypeOK, Run, Task
  <1>13. ASSUME Start PROVE TypeOK'
    <2>1. mishaps' \subseteq Kinds BY <1>13, MishapsGrow DEF Start
    <2> QED BY <1>13, <2>1 DEF Start, NothingFound, Incomplete, TypeOK
  <1> QED BY <1>1, <1>2, <1>3, <1>4, <1>5, <1>6, <1>7, <1>8, <1>9, <1>10,
             <1>11, <1>12, <1>13 DEF Stream, Recovery

LEMMA TypeStep ==
    ASSUME TypeOK, CancelTrue, [Next]_vars
    PROVE  TypeOK'
  <1>1. CASE UNCHANGED vars BY <1>1 DEF vars, TypeOK
  <1>2. CASE Next
    BY <1>2, TaskTypes, ExecutionTypes, OtherTypes DEF Next
  <1> QED BY <1>1, <1>2

-----------------------------------------------------------------------------
(* A tick or a crash handler keeps the invariant: it says of a             *)
(* cancellation only what the venue has answered.                          *)
LEMMA TaskKeeps ==
    ASSUME OrderInv, TypeOK', NEW s \in Slots,
           \/ TickStep(s) \/ BeginTick(s) \/ BeginStopLoss(s) \/ BeginCrash(s)
    PROVE  OrderInv'
  <1>0. \A o \in Orders : Said(o, got[o]) /\ Said(o, booked[o].status)
    BY DEF OrderInv, ReceiptsTrue, RowsTrue
  <1>1. ASSUME NEW o \in Orders, Cancel(s, o) PROVE OrderInv'
    <2>1. venue'[o] \in {"cancelled", "cut"}
      BY <1>1 DEF Cancel, CancelledFrom, OrderInv, TypeOK
    <2>2. /\ \A x \in Orders \ {o} : venue'[x] = venue[x]
          /\ venue[o] \in Live
      BY <1>1 DEF Cancel, OrderInv, TypeOK
    <2>3. \A x \in Orders, status \in Status :
             <<x, status>> \in updates' =>
                 <<x, status>> \in updates \/ (x = o /\ Said(o, status)')
      BY <1>1, <2>1 DEF Cancel, Tell, Said
    <2>4. \A t \in Slots : task'[t].pc = "write" =>
             \/ task[t].pc = "write" /\ task'[t].cur = task[t].cur
             \/ task'[t].cur = o /\ Said(o, "cancelled")'
      BY <1>1, <2>1 DEF Cancel, Said, OrderInv, TypeOK, Task
    <2> QED BY <1>1, <2>1, <2>2, <2>3, <2>4, VenueMoves DEF Cancel
  <1>2. ASSUME NEW o \in Orders, CancelFails(s, o) PROVE OrderInv'
    <2>1. WritesKept BY <1>2 DEF CancelFails, WritesKept, OrderInv, TypeOK, Task
    <2>2. CASE UNCHANGED <<venue, updates>>
      BY <1>0, <1>2, <2>1, <2>2, Quiet DEF CancelFails
    <2>3. CASE /\ venue[o] \in Live
               /\ venue' = [venue EXCEPT ![o] = CancelledFrom(@)]
               /\ Tell(o, "cancelled")
      <3>1. venue'[o] \in {"cancelled", "cut"}
        BY <2>3 DEF CancelledFrom, OrderInv, TypeOK
      <3>2. \A x \in Orders \ {o} : venue'[x] = venue[x]
        BY <2>3 DEF OrderInv, TypeOK
      <3>3. \A x \in Orders, status \in Status :
               <<x, status>> \in updates' =>
                   <<x, status>> \in updates \/ (x = o /\ Said(o, status)')
        BY <2>3, <3>1 DEF Tell, Said
      <3> QED BY <1>2, <2>1, <2>3, <3>1, <3>2, <3>3, VenueMoves
              DEF CancelFails, WritesKept
    <2> QED BY <1>2, <2>2, <2>3 DEF CancelFails
  <1>3. ASSUME WriteCancelled(s) PROVE OrderInv'
    <2>1. WritesKept
      BY <1>3 DEF WriteCancelled, WritesKept, OrderInv, TypeOK, Task
    <2>2. /\ task[s].cur \in Orders
          /\ Said(task[s].cur, "cancelled")
      BY <1>3 DEF WriteCancelled, OrderInv, CancelTrue
    <2>3. \A o \in Orders :
             \/ o = task[s].cur /\ booked'[o].status = "cancelled"
             \/ booked'[o] = booked[o]
      BY <1>3, <2>2 DEF WriteCancelled, OrderInv, TypeOK
    <2>4. \A o \in Orders : Said(o, got'[o]) /\ Said(o, booked'[o].status)
      BY <1>0, <1>3, <2>2, <2>3 DEF WriteCancelled
    <2> QED BY <1>3, <2>1, <2>4, Quiet DEF WriteCancelled
  <1>4. ASSUME Guard(s) PROVE OrderInv'
    <2>1. WritesKept BY <1>4 DEF Guard, Idle, WritesKept, OrderInv, TypeOK, Task
    <2>2. \A p \in Plans : plan'[p] = "none" => plan[p] = "none"
      BY <1>4 DEF Guard, Settled
    <2> QED BY <1>0, <1>4, <2>1, <2>2, Quiet DEF Guard
  <1>5. ASSUME CrashEnds(s) \/ Hold(s) PROVE OrderInv'
    <2>1. WritesKept
      BY <1>5 DEF CrashEnds, Hold, Idle, WritesKept, OrderInv, TypeOK, Task
    <2> QED BY <1>0, <1>5, <2>1, Quiet DEF CrashEnds, Hold
  <1>6. ASSUME NEW p \in Plans, Decide(s, p) PROVE OrderInv'
    <2>1. WritesKept BY <1>6 DEF Decide, Idle, WritesKept, OrderInv, TypeOK, Task
    <2>2. /\ OtherRuns(p)
          /\ plan'[p] # "none"
          /\ run'[p].pc = "planned"
      BY <1>6 DEF Decide, OtherRuns, OrderInv, TypeOK, Run
    <2>3. run[p].pc = "none" BY <1>6 DEF Decide, OrderInv, FreshPlan
    <2>4. \A j \in 1..PerPlan : NotYetSent(p, j) BY <2>3 DEF NotYetSent
    <2> QED BY <1>0, <1>6, <2>1, <2>2, <2>4, ExecutionKeeps DEF Decide
  <1>7. ASSUME BeginTick(s) PROVE OrderInv'
    <2>1. WritesKept
      <3>1. PICK aged \in SUBSET Referenced :
               task' = [task EXCEPT ![s].pc = "sweep", ![s].todo = aged]
        BY <1>7 DEF BeginTick
      <3>2. task'[s].pc = "sweep" BY <3>1 DEF OrderInv, TypeOK, Task
      <3>3. \A t \in Slots \ {s} : task'[t] = task[t]
        BY <3>1 DEF OrderInv, TypeOK
      <3> QED BY <3>2, <3>3 DEF WritesKept
    <2>2. mishaps \subseteq mishaps' BY <1>7, MishapsGrow DEF BeginTick, OrderInv
    <2> QED BY <1>0, <1>7, <2>1, <2>2, Quiet DEF BeginTick
  <1>8. ASSUME BeginStopLoss(s) PROVE OrderInv'
    <2>1. WritesKept
      BY <1>8 DEF BeginStopLoss, Idle, WritesKept, OrderInv, TypeOK, Task
    <2>2. mishaps \subseteq mishaps'
      BY <1>8, MishapsGrow DEF BeginStopLoss, OrderInv
    <2> QED BY <1>0, <1>8, <2>1, <2>2, Quiet DEF BeginStopLoss
  <1>9. ASSUME BeginCrash(s) PROVE OrderInv'
    <2>1. WritesKept
      BY <1>9 DEF BeginCrash, WritesKept, OrderInv, TypeOK, Task
    <2> QED BY <1>0, <1>9, <2>1, Quiet DEF BeginCrash
  <1> QED BY <1>1, <1>2, <1>3, <1>4, <1>5, <1>6, <1>7, <1>8, <1>9 DEF TickStep

(* The execution of a plan keeps the invariant: the row of an order is     *)
(* written before it is sent, and what is written after is the receipt.    *)
LEMMA ExecutionStepKeeps ==
    ASSUME OrderInv, TypeOK', NEW p \in Plans,
           Execution(p) \/ GiveUp(p) \/ ExecutionThrows(p)
    PROVE  OrderInv'
  <1> USE LiveOrdersAssumption
  <1> DEFINE o == Cur(p)
             Kept(x) == Said(x, got'[x]) /\ Said(x, booked'[x].status)
  <1>0. /\ TypeOK /\ o \in Orders /\ run[p] \in Run
        /\ plan[p] = "none" => run[p].pc = "none"
    BY CurIsOrder DEF OrderInv, TypeOK, FreshPlan
  <1>0a. \A x \in Orders : Said(x, got[x]) /\ Said(x, booked[x].status)
    BY DEF OrderInv, ReceiptsTrue, RowsTrue
  <1>0b. UNCHANGED task => WritesKept BY DEF WritesKept
  <1>0c. ASSUME At(p, "prepare") \/ At(p, "attempt") \/ At(p, "submit")
         PROVE  venue[o] = "absent"
    BY <1>0, <1>0c DEF At, Run, Cur, OrderInv, UnsentIsAbsent, NotYetSent
  <1>0d. ASSUME NextOrder(p), At(p, "prepare") \/ At(p, "reply")
         PROVE  \A j \in 1..PerPlan : NotYetSent(p, j)' => NotYetSent(p, j)
    BY <1>0, <1>0d, RunAdvances DEF At, NotYetSent, Run
  <1>1. ASSUME Refuse(p) PROVE OrderInv'
    <2>1. OtherRuns(p) /\ run'[p].pc = "end" /\ plan'[p] = "failed"
      BY <1>0, <1>1, RunEnds DEF Refuse, OtherRuns, TypeOK
    <2> QED BY <1>0, <1>0a, <1>0b, <1>1, <2>1, ExecutionKeeps
            DEF Refuse, NotYetSent
  <1>2. ASSUME Approve(p) PROVE OrderInv'
    <2>1. /\ OtherRuns(p)
          /\ run'[p].pc = "prepare"
          /\ plan'[p] = "executing"
      BY <1>0, <1>2, RunGoes DEF Approve, OtherRuns, PCs, TypeOK
    <2>2. \A j \in 1..PerPlan : NotYetSent(p, j)
      BY <1>2 DEF Approve, At, NotYetSent
    <2> QED BY <1>0, <1>0a, <1>0b, <1>2, <2>1, <2>2, ExecutionKeeps DEF Approve
  <1>3. ASSUME RejectUnsupported(p) PROVE OrderInv'
    <2>1. OtherRuns(p) /\ run'[p].pc \in {"prepare", "record", "end"}
      BY <1>0, <1>3, RunAdvances DEF RejectUnsupported, OtherRuns
    <2>2. \A x \in Orders \ {o} : draft'[x] = draft[x]
      BY <1>3 DEF RejectUnsupported, TypeOK, OrderInv
    <2> QED BY <1>0, <1>0a, <1>0b, <1>0c, <1>0d, <1>3, <2>1, <2>2,
               ExecutionKeeps DEF RejectUnsupported, At
  <1>4. ASSUME Prepare(p) PROVE OrderInv'
    <2>1. OtherRuns(p) /\ run'[p].pc = "attempt" /\ run'[p].i = run[p].i
      BY <1>0, <1>4, RunGoes DEF Prepare, OtherRuns, PCs
    <2>2. \A x \in Orders \ {o} : draft'[x] = draft[x]
      BY <1>4 DEF Prepare, TypeOK, OrderInv
    <2>3. \A j \in 1..PerPlan : NotYetSent(p, j)' => NotYetSent(p, j)
      BY <1>4, <2>1 DEF Prepare, At, NotYetSent
    <2> QED BY <1>0, <1>0a, <1>0b, <1>0c, <1>4, <2>1, <2>2, <2>3,
               ExecutionKeeps DEF Prepare, At
  <1>5. ASSUME Attempt(p) PROVE OrderInv'
    <2>1. OtherRuns(p) /\ run'[p].pc = "submit" /\ run'[p].i = run[p].i
      BY <1>0, <1>5, RunGoes DEF Attempt, OtherRuns, PCs
    <2>2. /\ \A x \in Orders \ {o} : draft'[x] = draft[x]
          /\ draft'[o] = "attempting"
      BY <1>0, <1>5 DEF Attempt, TypeOK
    <2>3. \A j \in 1..PerPlan : NotYetSent(p, j)' => NotYetSent(p, j)
      BY <1>5, <2>1 DEF Attempt, At, NotYetSent
    <2>4. draft'[<<p, run'[p].i>>] = "attempting" BY <2>1, <2>2 DEF Cur
    <2> QED BY <1>0, <1>0a, <1>0b, <1>0c, <1>5, <2>1, <2>2, <2>3, <2>4,
               ExecutionKeeps DEF Attempt, At
  <1>6. ASSUME Submit(p) PROVE OrderInv'
    <2>1. /\ \A q \in Plans \ {p} : run'[q] = run[q]
          /\ run'[p].pc = "reply" /\ run'[p].i = run[p].i
      BY <1>0, <1>6, RunGoes DEF Submit, PCs
    <2>2. /\ venue[o] = "absent" /\ venue'[o] = "coming"
          /\ \A x \in Orders \ {o} : venue'[x] = venue[x]
      BY <1>0, <1>0c, <1>6 DEF Submit, TypeOK
    <2>3. draft[o] = "attempting" /\ UNCHANGED draft
      BY <1>6 DEF Submit, At, Cur, OrderInv, AttemptWritten
    <2>4. \A x \in Orders, status \in Status \cup {"none"} :
             Said(x, status) => Said(x, status)'
      BY <2>2 DEF Said
    <2>5. UNCHANGED <<plan, booked, got, task, updates, mishaps>>
      BY <1>6 DEF Submit
    <2>6. FreshPlan'
      BY <1>0, <1>6, <2>1, <2>5 DEF OrderInv, FreshPlan, Submit, At
    <2>7. UnsentIsAbsent'
      <3> SUFFICES ASSUME NEW q \in Plans, NEW j \in 1..PerPlan,
                          NotYetSent(q, j)'
                   PROVE  venue'[<<q, j>>] = "absent"
        BY DEF UnsentIsAbsent
      <3>1. NotYetSent(q, j) /\ <<q, j>> # o
        BY <1>0, <1>6, <2>1 DEF Submit, At, NotYetSent, Cur, Run
      <3> QED BY <2>2, <3>1, PairIsOrder DEF OrderInv, UnsentIsAbsent
    <2>8. AttemptWritten'
      BY <2>1, <2>3 DEF OrderInv, AttemptWritten, Cur
    <2>9. WriteAhead' BY <2>2, <2>3 DEF OrderInv, WriteAhead
    <2>10. UpdatesTrue' /\ ReceiptsTrue' /\ RowsTrue'
      BY <1>0, <2>4, <2>5 DEF OrderInv, UpdatesTrue, ReceiptsTrue, RowsTrue, TypeOK
    <2>11. CancelTrue' BY <2>4, <2>5 DEF OrderInv, CancelTrue, Status
    <2>12. RejectedTrue'
      BY <2>2, <2>3, <2>5 DEF OrderInv, RejectedTrue, None
    <2> QED BY <2>6, <2>7, <2>8, <2>9, <2>10, <2>11, <2>12 DEF OrderInv
  <1>7. ASSUME Acknowledge(p) PROVE OrderInv'
    <2>1. OtherRuns(p) /\ run'[p].pc \in {"prepare", "record", "end"}
      BY <1>0, <1>7, RunAdvances DEF Acknowledge, OtherRuns
    <2>2. PICK status \in Status :
             /\ Said(o, status)
             /\ got' = [got EXCEPT ![o] = status]
             /\ booked' = [booked EXCEPT ![o] = [status |-> status,
                                                 linked |-> TRUE]]
      BY <1>7 DEF Acknowledge, Status, Said
    <2>3. \A x \in Orders : Kept(x) BY <1>0, <1>0a, <2>2 DEF TypeOK
    <2> QED BY <1>0, <1>0b, <1>0d, <1>7, <2>1, <2>3, ExecutionKeeps
            DEF Acknowledge, At
  <1>8. ASSUME SubmitFails(p) PROVE OrderInv'
    <2>1. OtherRuns(p) /\ run'[p].pc \in {"prepare", "record", "end"}
      BY <1>0, <1>8, RunAdvances DEF SubmitFails, OtherRuns
    <2>2. /\ \A x \in Orders \ {o} : draft'[x] = draft[x]
          /\ draft'[o] = "rejected"
      BY <1>0, <1>8 DEF SubmitFails, TypeOK
    <2>3. mishaps \subseteq mishaps'
      BY <1>0, <1>8, MishapsGrow DEF SubmitFails
    <2>4. venue[o] = "refused" \/ "unanswered" \in mishaps'
      BY <1>8 DEF SubmitFails, Costs, Mishap
    <2> QED BY <1>0, <1>0a, <1>0b, <1>0d, <1>8, <2>1, <2>2, <2>3, <2>4,
               ExecutionKeeps DEF SubmitFails, At
  <1>9. ASSUME Record(p) PROVE OrderInv'
    <2>1. /\ \A q \in Plans \ {p} : run'[q] = run[q]
          /\ run'[p].pc \in {"record", "verdict", "end"}
      <3>1. CASE End(p) BY <1>0, <3>1, RunEnds
      <3>2. CASE ~End(p) BY <1>0, <1>9, <3>2 DEF Record, At, TypeOK, Run
      <3> QED BY <3>1, <3>2
    <2>2. OtherRuns(p) /\ plan'[p] # "none"
      BY <1>0, <1>9, <2>1 DEF Record, At, OtherRuns
    <2>3. \A x \in Orders : Kept(x)
      <3>0. venue' = venue BY <1>9 DEF Record
      <3>1. \A x \in Orders : got'[x] \in {got[x], "none"}
        BY <1>9 DEF Record, Forget
      <3>2. \A x \in Orders : Said(x, got'[x])
        BY <1>0a, <3>0, <3>1 DEF Said
      <3>3. \A x \in Orders : \/ booked'[x].status = booked[x].status
                             \/ booked'[x].status = got[x]
        <4>1. \/ booked' = booked
              \/ booked' = [booked EXCEPT ![o].status = got[o]]
          BY <1>9 DEF Record
        <4> QED BY <1>0, <4>1 DEF TypeOK
      <3> QED BY <1>0a, <3>0, <3>2, <3>3 DEF Said
    <2> QED BY <1>0, <1>0b, <1>9, <2>1, <2>2, <2>3, ExecutionKeeps
            DEF Record, NotYetSent
  <1>10. ASSUME Verdict(p) PROVE OrderInv'
    <2>1. OtherRuns(p) /\ run'[p].pc = "end" /\ plan'[p] = "failed"
      BY <1>0, <1>10, RunEnds DEF Verdict, OtherRuns, TypeOK
    <2> QED BY <1>0, <1>0a, <1>0b, <1>10, <2>1, ExecutionKeeps
            DEF Verdict, NotYetSent
  <1>11. ASSUME GiveUp(p) PROVE OrderInv'
    <2>1. /\ OtherRuns(p)
          /\ run'[p].pc = run[p].pc /\ run'[p].i = run[p].i
          /\ plan'[p] = "failed"
      BY <1>0, <1>11 DEF GiveUp, OtherRuns, TypeOK, Run
    <2>2. mishaps \subseteq mishaps' BY <1>0, <1>11, MishapsGrow DEF GiveUp
    <2>3. \A j \in 1..PerPlan : NotYetSent(p, j)' => NotYetSent(p, j)
      BY <2>1 DEF NotYetSent
    <2>4. run'[p].pc \in {"submit", "reply"} =>
             draft'[<<p, run'[p].i>>] = "attempting"
      BY <1>11, <2>1 DEF GiveUp, OrderInv, AttemptWritten
    <2> QED BY <1>0, <1>0a, <1>0b, <1>11, <2>1, <2>2, <2>3, <2>4,
               ExecutionKeeps DEF GiveUp
  <1>12. ASSUME ExecutionThrows(p) PROVE OrderInv'
    <2>1. OtherRuns(p) /\ run'[p].pc = "end" /\ plan'[p] # "none"
      BY <1>0, <1>12, RunEnds DEF ExecutionThrows, OtherRuns
    <2>2. mishaps \subseteq mishaps'
      BY <1>0, <1>12, MishapsGrow DEF ExecutionThrows
    <2>3. \A x \in Orders : Kept(x)
      <3>1. UNCHANGED <<booked, venue>> /\ \A x \in Orders : got'[x] \in {got[x], "none"}
        BY <1>12 DEF ExecutionThrows, Forget
      <3> QED BY <1>0a, <3>1 DEF Said
    <2> QED BY <1>0, <1>0b, <1>12, <2>1, <2>2, <2>3, ExecutionKeeps
            DEF ExecutionThrows, NotYetSent
  <1> QED BY <1>1, <1>2, <1>3, <1>4, <1>5, <1>6, <1>7, <1>8, <1>9, <1>10,
             <1>11, <1>12 DEF Execution

(* So do the venue, the stream, the recovery and the operator. *)
LEMMA OthersKeep ==
    ASSUME OrderInv, TypeOK',
           \/ \E o \in Orders : Land(o) \/ Fill(o) \/ VenueCancels(o)
           \/ Stream \/ TryComplete \/ Recovery \/ RecoverBlind
           \/ Disconnect \/ Reconnect \/ Die \/ Stop \/ Start
    PROVE  OrderInv'
  <1>0. /\ \A x \in Orders : Said(x, got[x]) /\ Said(x, booked[x].status)
        /\ UNCHANGED task => WritesKept
        /\ TypeOK
    BY DEF OrderInv, ReceiptsTrue, RowsTrue, WritesKept
  <1>1. ASSUME NEW o \in Orders, Land(o) \/ Fill(o) \/ VenueCancels(o)
        PROVE  OrderInv'
    <2>1. /\ UNCHANGED <<plan, draft, booked, run, got, task, mishaps>>
          /\ venue[o] \in {"coming"} \cup Live
          /\ \A x \in Orders \ {o} : venue'[x] = venue[x]
      BY <1>0, <1>1 DEF Land, Fill, VenueCancels, TypeOK
    <2>2. /\ venue'[o] \in {"refused", "open", "partial", "filled",
                            "cancelled", "cut"}
          /\ venue'[o] = "refused" => venue[o] = "coming"
      BY <1>0, <1>1 DEF Land, Fill, VenueCancels, CancelledFrom, TypeOK
    <2>3. \A x \in Orders, status \in Status :
             <<x, status>> \in updates' =>
                 <<x, status>> \in updates \/ (x = o /\ Said(o, status)')
      <3>1. CASE Land(o)
        BY <1>0, <3>1 DEF Land, Tell, Said, TypeOK
      <3>2. CASE Fill(o)
        BY <1>0, <3>2 DEF Fill, Tell, Said, TypeOK
      <3>3. CASE VenueCancels(o)
        BY <1>0, <3>3 DEF VenueCancels, CancelledFrom, Tell, Said, TypeOK
      <3> QED BY <1>1, <3>1, <3>2, <3>3
    <2> QED BY <2>1, <2>2, <2>3, VenueMoves
  <1>2. ASSUME NEW o \in Orders, NEW status \in Status, ApplyUpdate(o, status)
        PROVE  OrderInv'
    <2>1. Said(o, status) BY <1>2 DEF ApplyUpdate, OrderInv, UpdatesTrue
    <2>2. \A x \in Orders : Said(x, got'[x]) /\ Said(x, booked'[x].status)
      BY <1>0, <1>2, <2>1 DEF ApplyUpdate, TypeOK
    <2> QED BY <1>0, <1>2, <2>2, Quiet DEF ApplyUpdate
  <1>3. ASSUME TryComplete PROVE OrderInv'
    <2>1. \A p \in Plans : plan'[p] = "none" => plan[p] = "none"
      BY <1>3 DEF TryComplete, Settled
    <2> QED BY <1>0, <1>3, <2>1, Quiet DEF TryComplete
  <1>4. ASSUME FetchOpen \/ FetchFills \/ Recovered PROVE OrderInv'
    BY <1>0, <1>4, Quiet DEF FetchOpen, FetchFills, Recovered
  <1>5. ASSUME NEW p \in Plans, RecoverPlan(p) PROVE OrderInv'
    <2>1. \A q \in Plans : plan'[q] = "none" => plan[q] = "none"
      <3>1. \A seen, ambiguous :
               JudgedByRows(p, seen, ambiguous) \in {"completed", "failed", plan[p]}
        BY DEF JudgedByRows
      <3>2. \/ UNCHANGED plan
            \/ \E status \in {"completed", "failed", plan[p]} :
                  plan' = [plan EXCEPT ![p] = status]
        BY <1>5, <3>1 DEF RecoverPlan
      <3> QED BY <1>0, <3>2 DEF TypeOK
    <2> QED BY <1>0, <1>5, <2>1, Quiet DEF RecoverPlan
  <1>6. ASSUME RecoverBlind PROVE OrderInv'
    <2>1. \A p \in Plans : plan'[p] = "none" => plan[p] = "none"
      BY <1>6 DEF RecoverBlind
    <2>2. mishaps \subseteq mishaps' BY <1>0, <1>6, MishapsGrow DEF RecoverBlind
    <2> QED BY <1>0, <1>6, <2>1, <2>2, Quiet DEF RecoverBlind
  <1>7. ASSUME Disconnect \/ Reconnect \/ Stop PROVE OrderInv'
    BY <1>0, <1>7, Quiet DEF Disconnect, Reconnect, Stop
  <1>8. ASSUME Start PROVE OrderInv'
    <2>1. mishaps \subseteq mishaps' BY <1>0, <1>8, MishapsGrow DEF Start
    <2> QED BY <1>0, <1>8, <2>1, Quiet DEF Start
  <1>9. ASSUME Die PROVE OrderInv'
    <2>1. UNCHANGED <<plan, draft, booked, venue, mishaps>> BY <1>9 DEF Die
    <2>2. \A p \in Plans : \/ run[p].pc = "none" /\ run'[p] = run[p]
                           \/ run[p].pc # "none" /\ run'[p].pc = "end"
      BY <1>9 DEF Die
    <2>3. FreshPlan' BY <2>1, <2>2 DEF OrderInv, FreshPlan
    <2>4. UnsentIsAbsent'
      BY <2>1, <2>2 DEF OrderInv, UnsentIsAbsent, NotYetSent
    <2>5. AttemptWritten' BY <2>2 DEF AttemptWritten
    <2>6. UpdatesTrue' /\ ReceiptsTrue' /\ CancelTrue'
      BY <1>9 DEF Die, Idle, UpdatesTrue, ReceiptsTrue, CancelTrue, Said
    <2>7. WriteAhead' /\ RowsTrue' /\ RejectedTrue'
      BY <2>1 DEF OrderInv, WriteAhead, RowsTrue, RejectedTrue, Said, None
    <2> QED BY <2>3, <2>4, <2>5, <2>6, <2>7 DEF OrderInv
  <1> QED BY <1>1, <1>2, <1>3, <1>4, <1>5, <1>6, <1>7, <1>8, <1>9
          DEF Stream, Recovery
-----------------------------------------------------------------------------
LEMMA InitOrderInv == Init => OrderInv
  <1> SUFFICES ASSUME Init PROVE OrderInv
    OBVIOUS
  <1>1. TypeOK
    BY LiveOrdersAssumption
       DEF Init, TypeOK, Run, Task, Idle, NothingFound
  <1>2. FreshPlan /\ UnsentIsAbsent /\ AttemptWritten /\ WriteAhead
    BY PairIsOrder DEF Init, FreshPlan, UnsentIsAbsent, AttemptWritten, WriteAhead
  <1>3. UpdatesTrue /\ ReceiptsTrue /\ RowsTrue /\ CancelTrue /\ RejectedTrue
    BY DEF Init, Idle, UpdatesTrue, ReceiptsTrue, RowsTrue, CancelTrue,
           RejectedTrue, Said
  <1> QED BY <1>1, <1>2, <1>3 DEF OrderInv

LEMMA OrderInvStep == OrderInv /\ [Next]_vars => OrderInv'
  <1> SUFFICES ASSUME OrderInv, [Next]_vars PROVE OrderInv'
    OBVIOUS
  <1>1. TypeOK' BY TypeStep DEF OrderInv
  <1>2. CASE UNCHANGED vars
    <2>1. /\ \A o \in Orders : Said(o, got[o]) /\ Said(o, booked[o].status)
          /\ WritesKept
      BY <1>2 DEF OrderInv, ReceiptsTrue, RowsTrue, WritesKept, vars
    <2> QED BY <1>1, <1>2, <2>1, Quiet DEF vars
  <1>3. CASE Next
    BY <1>1, <1>3, TaskKeeps, ExecutionStepKeeps, OthersKeep DEF Next
  <1> QED BY <1>2, <1>3

LEMMA OrderInvHolds == Spec => []OrderInv
  BY InitOrderInv, OrderInvStep, PTL DEF Spec

(* Every variable keeps its type, for any number of plans, slots and       *)
(* mishaps.                                                                *)
THEOREM OrdersTypeCorrect == Spec => []TypeOK
  <1>1. OrderInv => TypeOK BY DEF OrderInv
  <1> QED BY <1>1, OrderInvHolds, PTL

(* Whatever fails and whenever the process dies, an order the venue may    *)
(* know of has a row that says it was attempted (live-executor.ts, the     *)
(* upserts before submitOrder).                                            *)
THEOREM OrdersAreWrittenAhead == Spec => []WriteAhead
  <1>1. OrderInv => WriteAhead BY DEF OrderInv
  <1> QED BY <1>1, OrderInvHolds, PTL

(* A row that says filled or cancelled is right for good, in whatever      *)
(* order replies, updates of the stream and cancellations are written; one *)
(* that says rejected is right if every order was answered                 *)
(* (repositories.ts, live-executor.ts).                                    *)
THEOREM OrderRowsAreTrue == Spec => []StatusTruth
  <1>1. OrderInv => StatusTruth
    BY DEF OrderInv, RowsTrue, RejectedTrue, StatusTruth, Said
  <1> QED BY <1>1, OrderInvHolds, PTL
=============================================================================
