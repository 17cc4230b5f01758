--------------------------- MODULE LivePlans_proofs --------------------------
(***************************************************************************)
(* Theorems about LiveOrders, continued: the plans, which the tick, the    *)
(* executor, the stream and the recovery judge, each from what it can see. *)
(* For every number of plans, slots and mishaps; where it is said, for     *)
(* plans of one order.                                                     *)
(***************************************************************************)
EXTENDS LiveOrders_proofs

(* An order that the executor has not received a reply to.                 *)
Unanswered(p, j) ==
    \/ run[p].pc \in {"none", "planned"}
    \/ run[p].pc \in {"prepare", "attempt", "submit", "reply"} /\ j >= run[p].i

Landed == Live \cup Traded \cup {"cancelled", "refused"}

(* A row gets its plan with the reply, and then the executor does not      *)
(* reject the order any more.                                              *)
LinkInv ==
    /\ \A p \in Plans, j \in 1..PerPlan :
           Unanswered(p, j) => ~booked[<<p, j>>].linked
    /\ \A o \in Orders :
           booked[o].linked => /\ draft[o] = "attempting"
                               /\ venue[o] \in Landed
    /\ \A p \in Plans : run[p].pc = "reply" => venue[<<p, run[p].i>>] # "absent"

(* What a recovery does nobody else does beside it; and every plan is      *)
(* judged once, by one party.                                              *)
Drained ==
    mode = "recovering" =>
        /\ \A s \in Slots : task[s] = Idle
        /\ \A p \in Plans : run[p].pc \in {"none", "end"}

JudgeInv ==
    /\ found # NothingFound => mode = "recovering"
    /\ Drained
    /\ found.todo \subseteq Incomplete
    /\ \A p \in Plans : run[p].pc = "none" => plan[p] = "none"
    /\ \A p \in Plans : run[p].pc = "planned" => plan[p] = "pending"
    /\ \A p \in Plans : plan[p] = "completed" => run[p].pc = "end"

(* What is true of a plan of one order, that of p being o. *)
Sends == {"planned", "prepare", "attempt", "submit", "reply"}
SingleInv ==
    \A p \in Plans : LET o == <<p, 1>> IN
        /\ draft[o] = "rejected" => run[p].pc \in {"record", "verdict", "end"}
        /\ run[p].pc = "verdict" => draft[o] = "rejected" \/ venue[o] = "refused"
        /\ plan[p] \in Resolved => run[p].pc \notin Sends
        /\ plan[p] = "completed" => venue[o] \in {"filled", "cut"}
        /\ plan[p] = "failed" => venue[o] \in {"absent", "refused"}
        /\ booked[o].linked /\ "open" \in found.read /\ o \notin found.open
               => venue[o] \notin Live
        /\ o \in found.fills => venue[o] \in Traded

(* One tick at a time, and none decides beside an unresolved plan. *)
TurnInv ==
    /\ \A p, q \in Incomplete : p = q
    /\ \A s \in Slots : task[s].pc = "decide" => ~task[s].crash /\ Incomplete = {}
    /\ \A s, r \in Slots :
           /\ task[s].pc # "idle" /\ ~task[s].crash
           /\ task[r].pc # "idle" /\ ~task[r].crash
           => s = r
-----------------------------------------------------------------------------
LEMMA MishapsStep ==
    ASSUME TypeOK, [Next]_vars
    PROVE  mishaps \subseteq mishaps'
  <1>1. ASSUME NEW s \in Slots,
               TickStep(s) \/ BeginTick(s) \/ BeginStopLoss(s) \/ BeginCrash(s)
        PROVE  mishaps \subseteq mishaps'
    BY <1>1, MishapsGrow
       DEF TickStep, Cancel, CancelFails, WriteCancelled, Guard, CrashEnds,
           Hold, Decide, BeginTick, BeginStopLoss, BeginCrash
  <1>2. ASSUME NEW p \in Plans, Execution(p) \/ GiveUp(p) \/ ExecutionThrows(p)
        PROVE  mishaps \subseteq mishaps'
    BY <1>2, MishapsGrow
       DEF Execution, GiveUp, ExecutionThrows, Refuse, Approve,
           RejectUnsupported, Prepare, Attempt, Submit, Acknowledge,
           SubmitFails, Record, Verdict
  <1>3. ASSUME NEW o \in Orders, Land(o) \/ Fill(o) \/ VenueCancels(o)
        PROVE  mishaps \subseteq mishaps'
    BY <1>3 DEF Land, Fill, VenueCancels
  <1>4. ASSUME \/ Stream \/ TryComplete \/ Recovery \/ RecoverBlind
               \/ Disconnect \/ Reconnect \/ Die \/ Stop \/ Start
        PROVE  mishaps \subseteq mishaps'
    BY <1>4, MishapsGrow
       DEF Stream, ApplyUpdate, TryComplete, Recovery, FetchOpen, FetchFills,
           Recovered, RecoverPlan, RecoverBlind, Disconnect, Reconnect, Die,
           Stop, Start
  <1>5. CASE UNCHANGED vars
    BY <1>5 DEF vars
  <1> QED BY <1>1, <1>2, <1>3, <1>4, <1>5 DEF Next

(* What a step does to the orders at the venue: one is sent, or moves on.  *)
LEMMA VenueStep ==
    ASSUME OrderInv, [Next]_vars
    PROVE  \A o \in Orders :
              /\ venue[o] # "absent" => venue'[o] # "absent"
              /\ venue[o] \in Landed => venue'[o] \in Landed
              /\ venue[o] \notin {"absent", "coming"} \cup Live
                     => venue'[o] = venue[o]
              /\ venue[o] \in Traded => venue'[o] \in Traded
              /\ venue'[o] \in Live => venue[o] \in {"coming"} \cup Live
              /\ venue'[o] = "coming" /\ venue[o] # "coming"
                     => \E p \in Plans : Submit(p) /\ o = Cur(p)
              /\ venue[o] = "absent" /\ venue'[o] # "absent"
                     => venue'[o] = "coming"
  <1> USE DEF Landed, Live, Traded
  <1>0. TypeOK BY DEF OrderInv
  <1>1. ASSUME NEW o \in Orders, venue'[o] # venue[o]
        PROVE  \/ venue'[o] = "coming" /\ \E p \in Plans : Submit(p) /\ o = Cur(p)
               \/ venue[o] = "coming" /\ venue'[o] \in {"refused", "open", "filled"}
               \/ venue[o] \in Live /\ venue'[o] = "filled"
               \/ venue[o] = "open" /\ venue'[o] = "partial"
               \/ venue[o] \in Live /\ venue'[o] = CancelledFrom(venue[o])
    <2>1. ASSUME NEW s \in Slots,
                 TickStep(s) \/ BeginTick(s) \/ BeginStopLoss(s) \/ BeginCrash(s)
          PROVE  venue[o] \in Live /\ venue'[o] = CancelledFrom(venue[o])
      <3>1. PICK x \in Orders : /\ venue[x] \in Live
                               /\ venue' = [venue EXCEPT ![x] = CancelledFrom(@)]
        BY <1>1, <2>1
           DEF TickStep, Cancel, CancelFails, WriteCancelled, Guard,
               CrashEnds, Hold, Decide, BeginTick, BeginStopLoss, BeginCrash
      <3> QED BY <1>0, <1>1, <3>1 DEF TypeOK
    <2>2. ASSUME NEW p \in Plans,
                 Execution(p) \/ GiveUp(p) \/ ExecutionThrows(p)
          PROVE  venue'[o] = "coming" /\ Submit(p) /\ o = Cur(p)
      <3>1. Submit(p)
        BY <1>1, <2>2
           DEF Execution, GiveUp, ExecutionThrows, Refuse, Approve,
               RejectUnsupported, Prepare, Attempt, Acknowledge,
               SubmitFails, Record, Verdict
      <3> QED BY <1>0, <1>1, <3>1 DEF Submit, TypeOK
    <2>3. ASSUME NEW x \in Orders, Land(x) \/ Fill(x) \/ VenueCancels(x)
          PROVE  \/ venue[o] = "coming" /\ venue'[o] \in {"refused", "open", "filled"}
                 \/ venue[o] \in Live /\ venue'[o] = "filled"
                 \/ venue[o] = "open" /\ venue'[o] = "partial"
                 \/ venue[o] \in Live /\ venue'[o] = CancelledFrom(venue[o])
      BY <1>0, <1>1, <2>3 DEF Land, Fill, VenueCancels, TypeOK
    <2>4. ~(\/ Stream \/ TryComplete \/ Recovery \/ RecoverBlind
            \/ Disconnect \/ Reconnect \/ Die \/ Stop \/ Start)
      BY <1>1
         DEF Stream, ApplyUpdate, TryComplete, Recovery, FetchOpen, FetchFills,
             Recovered, RecoverPlan, RecoverBlind, Disconnect, Reconnect, Die,
             Stop, Start
    <2>5. ~UNCHANGED vars BY <1>1 DEF vars
    <2> QED BY <2>1, <2>2, <2>3, <2>4, <2>5 DEF Next
  <1>2. ASSUME NEW p \in Plans, Submit(p) PROVE venue[Cur(p)] = "absent"
    <2>1. NotYetSent(p, run[p].i) /\ run[p].i \in 1..PerPlan
      BY <1>0, <1>2, LiveOrdersAssumption DEF Submit, At, NotYetSent, TypeOK, Run
    <2> QED BY <2>1 DEF OrderInv, UnsentIsAbsent, Cur
  <1> QED BY <1>0, <1>1, <1>2 DEF CancelledFrom, TypeOK
-----------------------------------------------------------------------------
(* A step after which no order is less answered, and that links none. *)
LEMMA KeepsLinks ==
    ASSUME OrderInv, LinkInv, [Next]_vars,
           \A p \in Plans, j \in 1..PerPlan : Unanswered(p, j)' => Unanswered(p, j),
           \A o \in Orders : booked'[o].linked => booked[o].linked,
           \A o \in Orders : booked[o].linked => draft'[o] = draft[o],
           \A p \in Plans : run'[p].pc = "reply" =>
               \/ run[p].pc = "reply" /\ run'[p].i = run[p].i
               \/ Submit(p)
    PROVE  LinkInv'
  <1>1. \A p \in Plans, j \in 1..PerPlan :
            Unanswered(p, j)' => ~booked'[<<p, j>>].linked
    BY PairIsOrder DEF LinkInv
  <1>2. \A o \in Orders :
            booked'[o].linked => draft'[o] = "attempting" /\ venue'[o] \in Landed
    BY VenueStep DEF LinkInv
  <1>3. ASSUME NEW p \in Plans, run'[p].pc = "reply"
        PROVE  venue'[<<p, run'[p].i>>] # "absent"
    <2>1. CASE run[p].pc = "reply" /\ run'[p].i = run[p].i
      <3>1. <<p, run[p].i>> \in Orders
        BY PairIsOrder DEF OrderInv, TypeOK, Run
      <3> QED BY <2>1, <3>1, VenueStep DEF LinkInv
    <2>2. CASE Submit(p)
      <3>1. Cur(p) \in Orders BY CurIsOrder DEF OrderInv
      <3>2. venue'[Cur(p)] = "coming" /\ run'[p].i = run[p].i
        BY <2>2, <3>1 DEF Submit, Goto, OrderInv, TypeOK, Run
      <3> QED BY <3>2 DEF Cur
    <2> QED BY <1>3, <2>1, <2>2
  <1> QED BY <1>1, <1>2, <1>3 DEF LinkInv

(* A step that neither changes an execution nor links or rejects an order. *)
LEMMA SameLinks ==
    ASSUME OrderInv, LinkInv, [Next]_vars, UNCHANGED <<run, draft>>,
           \A o \in Orders : booked'[o].linked = booked[o].linked
    PROVE  LinkInv'
  BY KeepsLinks DEF Unanswered

LEMMA CurUnanswered ==
    ASSUME OrderInv, LinkInv, NEW p \in Plans,
           run[p].pc \in {"prepare", "attempt", "submit", "reply"}
    PROVE  ~booked[Cur(p)].linked
  <1>1. run[p].i \in 1..PerPlan /\ Unanswered(p, run[p].i)
    BY LiveOrdersAssumption DEF OrderInv, TypeOK, Run, Unanswered
  <1> QED BY <1>1 DEF LinkInv, Cur

LEMMA ExecutionLinks ==
    ASSUME OrderInv, LinkInv, [Next]_vars, NEW p \in Plans,
           Execution(p) \/ GiveUp(p) \/ ExecutionThrows(p)
    PROVE  LinkInv'
  <1> DEFINE o == Cur(p)
  <1>0. /\ TypeOK /\ o \in Orders /\ run[p] \in Run
        /\ run[p].pc \in {"prepare", "attempt", "submit", "reply"}
               => ~booked[o].linked
    BY CurIsOrder, CurUnanswered DEF OrderInv, TypeOK
  <1>1. /\ \A q \in Plans \ {p} : run'[q] = run[q]
        /\ \A j \in 1..PerPlan : Unanswered(p, j)' => Unanswered(p, j)
        /\ run'[p].pc = "reply" => \/ run[p].pc = "reply" /\ run'[p].i = run[p].i
                                   \/ Submit(p)
    <2>1. CASE Refuse(p) \/ Verdict(p) \/ ExecutionThrows(p)
      BY <1>0, <2>1, RunEnds DEF Refuse, Verdict, ExecutionThrows, Unanswered
    <2>2. CASE Approve(p) \/ Prepare(p) \/ Attempt(p) \/ Submit(p)
      BY <1>0, <2>2, RunGoes
         DEF Approve, Prepare, Attempt, Submit, At, Unanswered, PCs
    <2>3. CASE RejectUnsupported(p) \/ Acknowledge(p) \/ SubmitFails(p)
      <3>1. NextOrder(p) /\ run[p].pc \in {"prepare", "reply"}
        BY <2>3 DEF RejectUnsupported, Acknowledge, SubmitFails, At
      <3> QED BY <1>0, <3>1, RunAdvances DEF Unanswered, Run
    <2>4. CASE GiveUp(p)
      <3>1. /\ \A q \in Plans \ {p} : run'[q] = run[q]
            /\ run'[p].pc = run[p].pc /\ run'[p].i = run[p].i
        BY <1>0, <2>4 DEF GiveUp, TypeOK, Run
      <3> QED BY <3>1 DEF Unanswered
    <2>5. CASE Record(p)
      <3>1. /\ \A q \in Plans \ {p} : run'[q] = run[q]
            /\ run'[p].pc \in {"record", "verdict", "end"}
        <4>1. CASE End(p) BY <1>0, <4>1, RunEnds
        <4>2. CASE ~End(p) BY <1>0, <2>5, <4>2 DEF Record, At, TypeOK, Run
        <4> QED BY <4>1, <4>2
      <3> QED BY <3>1 DEF Unanswered
    <2> QED BY <2>1, <2>2, <2>3, <2>4, <2>5 DEF Execution
  <1>2. \A q \in Plans, j \in 1..PerPlan : Unanswered(q, j)' => Unanswered(q, j)
    BY <1>1 DEF Unanswered
  <1>3. \A q \in Plans : run'[q].pc = "reply" =>
           \/ run[q].pc = "reply" /\ run'[q].i = run[q].i
           \/ Submit(q)
    BY <1>1
  <1>4. CASE Acknowledge(p)
    <2>1. /\ UNCHANGED <<draft, venue>>
          /\ \A x \in Orders \ {o} : booked'[x].linked = booked[x].linked
          /\ run[p].pc = "reply"
          /\ venue[o] # "coming"
      BY <1>0, <1>4 DEF Acknowledge, At, TypeOK
    <2>2. draft[o] = "attempting" /\ venue[o] # "absent"
      BY <2>1 DEF OrderInv, AttemptWritten, LinkInv, Cur
    <2>3. venue[o] \in Landed
      BY <1>0, <2>1, <2>2 DEF TypeOK, Landed
    <2>4. run'[p].pc # "reply" /\ \A j \in 1..PerPlan : j = run[p].i => ~Unanswered(p, j)'
      BY <1>0, <1>4, RunAdvances DEF Acknowledge, Unanswered, Run
    <2>5. \A q \in Plans, j \in 1..PerPlan :
              Unanswered(q, j)' => ~booked'[<<q, j>>].linked
      <3> SUFFICES ASSUME NEW q \in Plans, NEW j \in 1..PerPlan, Unanswered(q, j)'
                   PROVE  ~booked'[<<q, j>>].linked
        OBVIOUS
      <3>1. <<q, j>> \in Orders \ {o}
        BY <2>4, PairIsOrder DEF Cur
      <3>2. ~booked[<<q, j>>].linked BY <1>2 DEF LinkInv
      <3> QED BY <2>1, <3>1, <3>2
    <2>6. \A x \in Orders : booked'[x].linked =>
              draft'[x] = "attempting" /\ venue'[x] \in Landed
      BY <2>1, <2>2, <2>3 DEF LinkInv
    <2>7. \A q \in Plans : run'[q].pc = "reply" => venue'[<<q, run'[q].i>>] # "absent"
      BY <1>1, <2>1, <2>4 DEF LinkInv
    <2> QED BY <2>5, <2>6, <2>7 DEF LinkInv
  <1>5. CASE ~Acknowledge(p)
    <2>1. \A x \in Orders : booked'[x].linked = booked[x].linked
      BY <1>0, <1>5
         DEF Execution, GiveUp, ExecutionThrows, Refuse, Approve,
             RejectUnsupported, Prepare, Attempt, Submit, SubmitFails,
             Record, Verdict, TypeOK
    <2>2. \A x \in Orders : booked[x].linked => draft'[x] = draft[x]
      <3>1. \/ UNCHANGED draft
            \/ /\ run[p].pc \in {"prepare", "attempt", "submit", "reply"}
               /\ \E status : draft' = [draft EXCEPT ![o] = status]
        BY DEF Execution, GiveUp, ExecutionThrows, Refuse, Approve, Acknowledge,
             RejectUnsupported, Prepare, Attempt, Submit, SubmitFails,
             Record, Verdict, At
      <3> QED BY <1>0, <3>1 DEF TypeOK
    <2> QED BY <1>2, <1>3, <2>1, <2>2, KeepsLinks
  <1> QED BY <1>4, <1>5

LEMMA NextLinks ==
    ASSUME OrderInv, LinkInv, [Next]_vars
    PROVE  LinkInv'
  <1>0. TypeOK BY DEF OrderInv
  <1>1. ASSUME NEW s \in Slots,
               TickStep(s) \/ BeginTick(s) \/ BeginStopLoss(s) \/ BeginCrash(s)
        PROVE  LinkInv'
    <2>1. CASE \E p \in Plans : Decide(s, p)
      <3>1. PICK p \in Plans : Decide(s, p) BY <2>1
      <3>2. run[p].pc = "none" BY <3>1 DEF Decide, OrderInv, FreshPlan
      <3>3. /\ \A q \in Plans \ {p} : run'[q] = run[q]
            /\ run'[p].pc = "planned"
        BY <1>0, <3>1 DEF Decide, TypeOK, Run
      <3> QED BY <3>1, <3>2, <3>3, KeepsLinks DEF Decide, Unanswered
    <2>2. CASE WriteCancelled(s)
      <3>1. \A o \in Orders : booked'[o].linked = booked[o].linked
        BY <1>0, <2>2 DEF WriteCancelled, OrderInv, CancelTrue, TypeOK
      <3> QED BY <2>2, <3>1, SameLinks DEF WriteCancelled
    <2>3. CASE ~WriteCancelled(s) /\ ~\E p \in Plans : Decide(s, p)
      BY <1>1, <2>3, SameLinks
         DEF TickStep, Cancel, CancelFails, Guard, CrashEnds, Hold,
             BeginTick, BeginStopLoss, BeginCrash
    <2> QED BY <2>1, <2>2, <2>3
  <1>2. ASSUME NEW p \in Plans, Execution(p) \/ GiveUp(p) \/ ExecutionThrows(p)
        PROVE  LinkInv'
    BY <1>2, ExecutionLinks
  <1>3. ASSUME NEW o \in Orders, Land(o) \/ Fill(o) \/ VenueCancels(o)
        PROVE  LinkInv'
    BY <1>3, SameLinks DEF Land, Fill, VenueCancels
  <1>4. ASSUME NEW o \in Orders, NEW status \in Status, ApplyUpdate(o, status)
        PROVE  LinkInv'
    <2>1. \A x \in Orders : booked'[x].linked = booked[x].linked
      BY <1>0, <1>4 DEF ApplyUpdate, TypeOK
    <2> QED BY <1>4, <2>1, SameLinks DEF ApplyUpdate
  <1>5. ASSUME \/ TryComplete \/ Recovery \/ RecoverBlind
               \/ Disconnect \/ Reconnect \/ Stop \/ Start
        PROVE  LinkInv'
    BY <1>5, SameLinks
       DEF TryComplete, Recovery, FetchOpen, FetchFills, Recovered,
           RecoverPlan, RecoverBlind, Disconnect, Reconnect, Stop, Start
  <1>6. ASSUME Die PROVE LinkInv'
    <2>1. \A p \in Plans : run'[p] = run[p] \/ run'[p].pc = "end"
      BY <1>6 DEF Die
    <2>2. \A p \in Plans, j \in 1..PerPlan : Unanswered(p, j)' => Unanswered(p, j)
      BY <2>1 DEF Unanswered
    <2> QED BY <1>6, <2>1, <2>2, KeepsLinks DEF Die
  <1>7. CASE UNCHANGED vars BY <1>7, SameLinks DEF vars
  <1> QED BY <1>1, <1>2, <1>3, <1>4, <1>5, <1>6, <1>7 DEF Next, Stream
-----------------------------------------------------------------------------
(* Rows that are over are of orders that were not accepted: the plan has   *)
(* failed.                                                                 *)
LEMMA SettledPlans ==
    ASSUME LinkInv
    PROVE  \A p \in Plans :
              \/ Settled[p] = plan[p] /\ ~AllOver(p)
              \/ /\ AllOver(p)
                 /\ plan[p] = "executing"
                 /\ Settled[p] = "failed"
  <1> SUFFICES ASSUME NEW p \in Plans, AllOver(p) PROVE ~AnyFilled(p)
    BY DEF Settled, AllOver
  <1>1. OrdersOf(p) \subseteq Orders BY DEF OrdersOf, Orders
  <1> QED BY <1>1 DEF AllOver, AnyFilled, LinkInv

LEMMA SettledTypes ==
    ASSUME LinkInv
    PROVE  \A p \in Plans : /\ plan[p] \in Resolved => Settled[p] = plan[p]
                            /\ Settled[p] = "pending" <=> plan[p] = "pending"
                            /\ Settled[p] = "none" <=> plan[p] = "none"
                            /\ Settled[p] = "completed" => plan[p] = "completed"
  BY SettledPlans DEF Resolved

(* A step beside which nobody recovers. *)
LEMMA NoRecovery ==
    ASSUME JudgeInv, mode # "recovering", mode' # "recovering", UNCHANGED found,
           \A p \in Plans : run'[p].pc = "none" => plan'[p] = "none",
           \A p \in Plans : run'[p].pc = "planned" => plan'[p] = "pending",
           \A p \in Plans : plan'[p] = "completed" => run'[p].pc = "end"
    PROVE  JudgeInv'
  BY DEF JudgeInv, Drained, NothingFound

LEMMA TaskJudge ==
    ASSUME OrderInv, LinkInv, JudgeInv, NEW s \in Slots,
           TickStep(s) \/ BeginTick(s) \/ BeginStopLoss(s) \/ BeginCrash(s)
    PROVE  /\ JudgeInv'
           /\ \A p \in Plans : plan[p] \in Resolved => plan'[p] = plan[p]
  <1>0. TypeOK BY DEF OrderInv
  <1>1. mode # "recovering"
    <2>1. CASE task[s].pc = "idle"
      BY <2>1 DEF TickStep, Cancel, CancelFails, WriteCancelled, Guard, CrashEnds,
                  Hold, Decide, BeginTick, BeginStopLoss, BeginCrash
    <2>2. CASE task[s].pc # "idle"
      BY <2>2 DEF JudgeInv, Drained, Idle
    <2> QED BY <2>1, <2>2
  <1>2. UNCHANGED found /\ mode' \in {mode, "down"}
    BY DEF TickStep, Cancel, CancelFails, WriteCancelled, Guard, CrashEnds,
           Hold, Decide, BeginTick, BeginStopLoss, BeginCrash
  <1>3. /\ \A p \in Plans : run'[p].pc = "none" => plan'[p] = "none"
        /\ \A p \in Plans : run'[p].pc = "planned" => plan'[p] = "pending"
        /\ \A p \in Plans : plan'[p] = "completed" => run'[p].pc = "end"
        /\ \A p \in Plans : plan[p] \in Resolved => plan'[p] = plan[p]
    <2>1. CASE Guard(s)
      BY <2>1, SettledTypes DEF Guard, JudgeInv
    <2>2. CASE \E p \in Plans : Decide(s, p)
      <3>1. PICK p \in Plans : Decide(s, p) BY <2>2
      <3>2. /\ \A q \in Plans \ {p} : run'[q] = run[q] /\ plan'[q] = plan[q]
            /\ plan[p] = "none" /\ plan'[p] = "pending"
            /\ run'[p].pc = "planned"
        BY <1>0, <3>1 DEF Decide, TypeOK, Run
      <3> QED BY <3>2 DEF JudgeInv, Resolved
    <2>3. CASE UNCHANGED <<plan, run>>
      BY <2>3 DEF JudgeInv
    <2> QED
      BY <2>1, <2>2, <2>3
         DEF TickStep, Cancel, CancelFails, WriteCancelled, CrashEnds,
             Hold, BeginTick, BeginStopLoss, BeginCrash
  <1> QED BY <1>1, <1>2, <1>3, NoRecovery

LEMMA ExecutionJudge ==
    ASSUME OrderInv, LinkInv, JudgeInv, NEW p \in Plans,
           Execution(p) \/ ExecutionThrows(p)
    PROVE  /\ JudgeInv'
           /\ \A q \in Plans : plan[q] \in Resolved => plan'[q] = plan[q]
  <1>0. TypeOK BY DEF OrderInv
  <1>1. /\ run[p].pc \notin {"none", "end"}
        /\ UNCHANGED <<found, mode>>
    BY DEF Execution, ExecutionThrows, Refuse, Approve, RejectUnsupported, Prepare,
           Attempt, Submit, Acknowledge, SubmitFails, Record, Verdict, At
  <1>2. mode # "recovering" BY <1>1 DEF JudgeInv, Drained
  <1>3. \A q \in Plans \ {p} : run'[q] = run[q] /\ plan'[q] = plan[q]
    <2>1. \A q \in Plans \ {p} : run'[q] = run[q]
      BY <1>0 DEF Execution, ExecutionThrows, Refuse, Approve, RejectUnsupported,
                  Prepare, Attempt, Submit, Acknowledge, SubmitFails, Record,
                  Verdict, Goto, End, NextOrder, TypeOK
    <2>2. \A q \in Plans \ {p} : plan'[q] = plan[q]
      <3>1. CASE Refuse(p) \/ Approve(p) \/ Verdict(p)
        BY <1>0, <3>1 DEF Refuse, Approve, Verdict, TypeOK
      <3>2. CASE ~(Refuse(p) \/ Approve(p) \/ Verdict(p))
        BY <3>2 DEF Execution, ExecutionThrows, RejectUnsupported, Prepare, Attempt,
                    Submit, Acknowledge, SubmitFails, Record
      <3> QED BY <3>1, <3>2
    <2> QED BY <2>1, <2>2
  <1>4. run'[p].pc \notin {"none", "planned"}
    <2>1. CASE Refuse(p) \/ Verdict(p) \/ ExecutionThrows(p)
      BY <1>0, <2>1, RunEnds DEF Refuse, Verdict, ExecutionThrows
    <2>2. CASE Approve(p) \/ Prepare(p) \/ Attempt(p) \/ Submit(p)
      BY <1>0, <2>2, RunGoes DEF Approve, Prepare, Attempt, Submit, PCs
    <2>3. CASE RejectUnsupported(p) \/ Acknowledge(p) \/ SubmitFails(p)
      BY <1>0, <2>3, RunAdvances DEF RejectUnsupported, Acknowledge, SubmitFails
    <2>4. CASE Record(p)
      <3>1. CASE End(p) BY <1>0, <3>1, RunEnds
      <3>2. CASE run' = [run EXCEPT ![p].i = @ + 1]
        BY <1>0, <2>4, <3>2 DEF Record, At, TypeOK, Run
      <3>3. CASE run' = [run EXCEPT ![p].pc = "verdict", ![p].i = 1]
        BY <1>0, <3>3 DEF TypeOK, Run
      <3> QED BY <2>4, <3>1, <3>2, <3>3 DEF Record
    <2> QED BY <2>1, <2>2, <2>3, <2>4 DEF Execution
  <1>5. /\ plan[p] # "completed"
        /\ plan'[p] # "completed"
        /\ plan[p] = "failed" => plan'[p] = "failed"
    <2>1. plan[p] # "completed" BY <1>1 DEF JudgeInv
    <2>2. CASE Refuse(p) \/ Verdict(p)
      BY <1>0, <2>1, <2>2 DEF Refuse, Verdict, TypeOK
    <2>3. CASE Approve(p)
      BY <1>0, <2>1, <2>3 DEF Approve, At, JudgeInv, TypeOK
    <2>4. CASE UNCHANGED plan BY <2>1, <2>4
    <2> QED
      BY <2>1, <2>2, <2>3, <2>4
         DEF Execution, ExecutionThrows, RejectUnsupported, Prepare, Attempt,
             Submit, Acknowledge, SubmitFails, Record
  <1>6. /\ \A q \in Plans : run'[q].pc = "none" => plan'[q] = "none"
        /\ \A q \in Plans : run'[q].pc = "planned" => plan'[q] = "pending"
        /\ \A q \in Plans : plan'[q] = "completed" => run'[q].pc = "end"
        /\ \A q \in Plans : plan[q] \in Resolved => plan'[q] = plan[q]
    BY <1>3, <1>4, <1>5 DEF JudgeInv, Resolved
  <1> QED BY <1>1, <1>2, <1>6, NoRecovery

(* The recovery of one plan gives it a verdict, or leaves it incomplete. *)
LEMMA RecoveredPlan ==
    ASSUME TypeOK, NEW p \in Plans, RecoverPlan(p)
    PROVE  /\ \A q \in Plans \ {p} : plan'[q] = plan[q]
           /\ plan'[p] \in {"completed", "failed", plan[p]}
           /\ p \in found.todo
           /\ found' = [found EXCEPT !.todo = @ \ {p}]
           /\ found'.todo = found.todo \ {p}
           /\ found.read = {"open", "fills"}
           /\ UNCHANGED <<draft, booked, venue, run, got, task, updates, mode, mishaps>>
  <1>1. \A seen, ambiguous :
           JudgedByRows(p, seen, ambiguous) \in {"completed", "failed", plan[p]}
    BY DEF JudgedByRows
  <1>2. \/ UNCHANGED plan
        \/ \E status \in {"completed", "failed", plan[p]} :
              plan' = [plan EXCEPT ![p] = status]
    BY <1>1 DEF RecoverPlan
  <1>3. /\ \A q \in Plans \ {p} : plan'[q] = plan[q]
        /\ plan'[p] \in {"completed", "failed", plan[p]}
    BY <1>2 DEF TypeOK
  <1> QED BY <1>3 DEF RecoverPlan, TypeOK

LEMMA OthersJudge ==
    ASSUME OrderInv, LinkInv, JudgeInv,
           Start => None({"timeout", "undrained"})',
           \/ \E o \in Orders : Land(o) \/ Fill(o) \/ VenueCancels(o)
           \/ Stream \/ TryComplete \/ Recovery \/ RecoverBlind
           \/ Disconnect \/ Reconnect \/ Die \/ Stop \/ Start
    PROVE  /\ JudgeInv'
           /\ \A q \in Plans : plan[q] \in Resolved => plan'[q] = plan[q]
  <1>0. TypeOK BY DEF OrderInv
  <1>a. mode # "recovering" => found = NothingFound BY DEF JudgeInv
  <1>1. ASSUME NEW o \in Orders, Land(o) \/ Fill(o) \/ VenueCancels(o)
        PROVE  UNCHANGED <<plan, run, task, mode, found>>
    BY <1>1 DEF Land, Fill, VenueCancels
  <1>2. Stream => UNCHANGED <<plan, run, task, mode, found>>
    BY DEF Stream, ApplyUpdate
  <1>3. ASSUME UNCHANGED <<plan, run, task, mode, found>>
        PROVE  /\ JudgeInv'
               /\ \A q \in Plans : plan[q] \in Resolved => plan'[q] = plan[q]
    BY <1>3 DEF JudgeInv, Drained, Incomplete
  <1>4. ASSUME TryComplete
        PROVE  /\ JudgeInv'
               /\ \A q \in Plans : plan[q] \in Resolved => plan'[q] = plan[q]
    <2>1. /\ mode # "recovering" /\ UNCHANGED <<run, mode, found>>
          /\ plan' = Settled
      BY <1>4 DEF TryComplete
    <2> QED BY <2>1, SettledTypes, NoRecovery DEF JudgeInv
  <1>5. ASSUME FetchOpen \/ FetchFills \/ Recovered
        PROVE  /\ JudgeInv'
               /\ \A q \in Plans : plan[q] \in Resolved => plan'[q] = plan[q]
    <2>1. UNCHANGED <<plan, run, task>> /\ mode = "recovering"
      BY <1>5 DEF FetchOpen, FetchFills, Recovered
    <2>2. \/ mode' = "recovering" /\ found'.todo = found.todo
          \/ mode' = "up" /\ found' = NothingFound
      BY <1>0, <1>5 DEF FetchOpen, FetchFills, Recovered, TypeOK
    <2> QED BY <2>1, <2>2 DEF JudgeInv, Drained, Incomplete, NothingFound
  <1>6. ASSUME NEW p \in Plans, RecoverPlan(p)
        PROVE  /\ JudgeInv'
               /\ \A q \in Plans : plan[q] \in Resolved => plan'[q] = plan[q]
    <2>1. mode = "recovering"
      BY <1>0, <1>6, <1>a, RecoveredPlan DEF NothingFound
    <2>2. plan[p] \in {"pending", "executing"} /\ run[p].pc = "end"
      BY <1>0, <1>6, <2>1, RecoveredPlan DEF JudgeInv, Drained, Incomplete
    <2> QED
      BY <1>0, <1>6, <2>1, <2>2, RecoveredPlan
         DEF JudgeInv, Drained, Incomplete, Resolved
  <1>7. ASSUME RecoverBlind
        PROVE  /\ JudgeInv'
               /\ \A q \in Plans : plan[q] \in Resolved => plan'[q] = plan[q]
    <2>1. PICK failed \in {found.todo} \cup {{p} : p \in found.todo} :
             /\ plan' = [p \in Plans |-> IF p \in failed THEN "failed" ELSE plan[p]]
             /\ found' = [found EXCEPT !.todo = @ \ failed]
      BY <1>7 DEF RecoverBlind
    <2>2. /\ failed \subseteq found.todo
          /\ found'.todo = found.todo \ failed
          /\ mode = "recovering" /\ UNCHANGED <<mode, run, task>>
      BY <1>0, <1>7, <2>1 DEF RecoverBlind, TypeOK
    <2>3. \A p \in failed : plan[p] \in {"pending", "executing"}
      BY <2>2 DEF JudgeInv, Incomplete
    <2> QED BY <2>1, <2>2, <2>3 DEF JudgeInv, Drained, Incomplete, Resolved
  <1>8. ASSUME Disconnect \/ Reconnect \/ Stop
        PROVE  /\ JudgeInv'
               /\ \A q \in Plans : plan[q] \in Resolved => plan'[q] = plan[q]
    BY <1>8, NoRecovery DEF Disconnect, Reconnect, Stop, JudgeInv
  <1>9. ASSUME Die
        PROVE  /\ JudgeInv'
               /\ \A q \in Plans : plan[q] \in Resolved => plan'[q] = plan[q]
    <2>1. /\ mode' = "down" /\ found' = NothingFound /\ UNCHANGED plan
          /\ \A p \in Plans : \/ run[p].pc = "none" /\ run'[p] = run[p]
                              \/ run'[p].pc = "end"
      BY <1>9 DEF Die
    <2> QED BY <2>1 DEF JudgeInv, Drained, NothingFound
  <1>10. ASSUME Start
         PROVE  /\ JudgeInv'
                /\ \A q \in Plans : plan[q] \in Resolved => plan'[q] = plan[q]
    <2>1. /\ UNCHANGED <<plan, run, task>>
          /\ mode' = "recovering"
          /\ found'.todo = Incomplete
      BY <1>10 DEF Start, NothingFound
    <2>2. /\ \A s \in Slots : task[s] = Idle
          /\ \A p \in Plans : run[p].pc \in {"none", "end"}
      BY <1>10 DEF Start, Costs, Mishap, None
    <2> QED BY <2>1, <2>2 DEF JudgeInv, Drained, Incomplete
  <1> QED
    BY <1>1, <1>2, <1>3, <1>4, <1>5, <1>6, <1>7, <1>8, <1>9, <1>10 DEF Recovery

LEMMA NextJudge ==
    ASSUME OrderInv, LinkInv, JudgeInv, None({"timeout", "undrained"})', [Next]_vars
    PROVE  /\ JudgeInv'
           /\ \A p \in Plans : plan[p] \in Resolved => plan'[p] = plan[p]
  <1>1. ASSUME NEW p \in Plans PROVE ~GiveUp(p)
    BY DEF GiveUp, Mishap, None
  <1>2. CASE UNCHANGED vars
    BY <1>2 DEF vars, JudgeInv, Drained, Incomplete
  <1> QED BY <1>1, <1>2, TaskJudge, ExecutionJudge, OthersJudge DEF Next
-----------------------------------------------------------------------------
(* What the steps do to each variable that SingleInv is about. *)
LEMMA RunStep ==
    ASSUME TypeOK, [Next]_vars, NEW p \in Plans
    PROVE  \/ run'[p] = run[p]
           \/ \E s \in Slots : Decide(s, p)
           \/ Execution(p) \/ GiveUp(p) \/ ExecutionThrows(p) \/ Die
  <1>1. ASSUME NEW s \in Slots, NEW q \in Plans \ {p}, Decide(s, q)
        PROVE  run'[p] = run[p]
    BY <1>1 DEF Decide, TypeOK
  <1>2. ASSUME NEW q \in Plans \ {p}, Execution(q) \/ GiveUp(q) \/ ExecutionThrows(q)
        PROVE  run'[p] = run[p]
    BY <1>2
       DEF Execution, GiveUp, ExecutionThrows, Refuse, Approve, RejectUnsupported,
           Prepare, Attempt, Submit, Acknowledge, SubmitFails, Record, Verdict,
           Goto, End, NextOrder, TypeOK
  <1>3. ASSUME NEW s \in Slots,
               TickStep(s) \/ BeginTick(s) \/ BeginStopLoss(s) \/ BeginCrash(s),
               ~\E q \in Plans : Decide(s, q)
        PROVE  UNCHANGED run
    BY <1>3 DEF TickStep, Cancel, CancelFails, WriteCancelled, Guard, CrashEnds,
                Hold, BeginTick, BeginStopLoss, BeginCrash
  <1>4. ASSUME \/ \E o \in Orders : Land(o) \/ Fill(o) \/ VenueCancels(o)
               \/ Stream \/ TryComplete \/ Recovery \/ RecoverBlind
               \/ Disconnect \/ Reconnect \/ Stop \/ Start \/ UNCHANGED vars
        PROVE  UNCHANGED run
    BY <1>4
       DEF Land, Fill, VenueCancels, Stream, ApplyUpdate, TryComplete, Recovery,
           FetchOpen, FetchFills, Recovered, RecoverPlan, RecoverBlind,
           Disconnect, Reconnect, Stop, Start, vars
  <1> QED BY <1>1, <1>2, <1>3, <1>4 DEF Next

LEMMA DraftStep ==
    ASSUME TypeOK, [Next]_vars, NEW o \in Orders, draft'[o] # draft[o]
    PROVE  \E p \in Plans :
              /\ o = Cur(p)
              /\ run[p].pc \in {"prepare", "attempt", "reply"}
              /\ draft'[o] = "rejected" =>
                    /\ NextOrder(p)
                    /\ RejectUnsupported(p) \/ SubmitFails(p)
  <1>1. ASSUME NEW s \in Slots,
               TickStep(s) \/ BeginTick(s) \/ BeginStopLoss(s) \/ BeginCrash(s)
        PROVE  UNCHANGED draft
    BY <1>1 DEF TickStep, Cancel, CancelFails, WriteCancelled, Guard, CrashEnds,
                Hold, Decide, BeginTick, BeginStopLoss, BeginCrash
  <1>2. ASSUME \/ \E x \in Orders : Land(x) \/ Fill(x) \/ VenueCancels(x)
               \/ Stream \/ TryComplete \/ Recovery \/ RecoverBlind \/ Die
               \/ Disconnect \/ Reconnect \/ Stop \/ Start \/ UNCHANGED vars
        PROVE  UNCHANGED draft
    BY <1>2
       DEF Land, Fill, VenueCancels, Stream, ApplyUpdate, TryComplete, Recovery,
           FetchOpen, FetchFills, Recovered, RecoverPlan, RecoverBlind, Die,
           Disconnect, Reconnect, Stop, Start, vars
  <1>3. PICK p \in Plans : Execution(p) \/ GiveUp(p) \/ ExecutionThrows(p)
    BY <1>1, <1>2 DEF Next
  <1>4. \/ RejectUnsupported(p) \/ Prepare(p) \/ Attempt(p) \/ SubmitFails(p)
    BY <1>3
       DEF Execution, GiveUp, ExecutionThrows, Refuse, Approve, Submit,
           Acknowledge, Record, Verdict
  <1> QED
    BY <1>4, CurIsOrder
       DEF RejectUnsupported, Prepare, Attempt, SubmitFails, At, TypeOK

LEMMA LinkStep ==
    ASSUME OrderInv, [Next]_vars, NEW o \in Orders, booked'[o].linked # booked[o].linked
    PROVE  \E p \in Plans : run[p].pc = "reply" /\ UNCHANGED <<found, venue>>
  <1>0. TypeOK BY DEF OrderInv
  <1>1. ASSUME NEW s \in Slots,
               TickStep(s) \/ BeginTick(s) \/ BeginStopLoss(s) \/ BeginCrash(s)
        PROVE  booked'[o].linked = booked[o].linked
    <2>1. CASE WriteCancelled(s)
      BY <1>0, <2>1 DEF WriteCancelled, OrderInv, CancelTrue, TypeOK
    <2>2. CASE ~WriteCancelled(s)
      BY <1>1, <2>2
         DEF TickStep, Cancel, CancelFails, Guard, CrashEnds,
             Hold, Decide, BeginTick, BeginStopLoss, BeginCrash
    <2> QED BY <2>1, <2>2
  <1>2. ASSUME NEW x \in Orders, NEW status \in Status, ApplyUpdate(x, status)
        PROVE  booked'[o].linked = booked[o].linked
    BY <1>0, <1>2 DEF ApplyUpdate, TypeOK
  <1>3. ASSUME \/ \E x \in Orders : Land(x) \/ Fill(x) \/ VenueCancels(x)
               \/ TryComplete \/ Recovery \/ RecoverBlind \/ Die
               \/ Disconnect \/ Reconnect \/ Stop \/ Start \/ UNCHANGED vars
        PROVE  UNCHANGED booked
    <2>1. ASSUME Recovery \/ RecoverBlind PROVE UNCHANGED booked
      BY <2>1 DEF Recovery, FetchOpen, FetchFills, Recovered, RecoverPlan, RecoverBlind
    <2>2. ASSUME NEW x \in Orders, Land(x) \/ Fill(x) \/ VenueCancels(x)
          PROVE  UNCHANGED booked
      BY <2>2 DEF Land, Fill, VenueCancels
    <2> QED
      BY <1>3, <2>1, <2>2
         DEF TryComplete, Die, Disconnect, Reconnect, Stop, Start, vars
  <1>4. PICK p \in Plans : Execution(p) \/ GiveUp(p) \/ ExecutionThrows(p)
    BY <1>1, <1>2, <1>3 DEF Next, Stream
  <1>5. Acknowledge(p)
    <2>1. Record(p) => booked'[o].linked = booked[o].linked
      BY <1>0, CurIsOrder DEF Record, TypeOK
    <2> QED
      BY <1>4, <2>1
         DEF Execution, GiveUp, ExecutionThrows, Refuse, Approve,
             RejectUnsupported, Prepare, Attempt, Submit, SubmitFails, Verdict
  <1> QED BY <1>5 DEF Acknowledge, At

LEMMA FoundStep ==
    ASSUME TypeOK, [Next]_vars
    PROVE  /\ "open" \in found'.read =>
                 \/ FetchOpen
                 \/ "open" \in found.read /\ found'.open = found.open
           /\ \A o \in found'.fills : FetchFills \/ o \in found.fills
  <1>1. ASSUME NEW s \in Slots,
               TickStep(s) \/ BeginTick(s) \/ BeginStopLoss(s) \/ BeginCrash(s)
        PROVE  UNCHANGED found
    BY <1>1 DEF TickStep, Cancel, CancelFails, WriteCancelled, Guard, CrashEnds,
                Hold, Decide, BeginTick, BeginStopLoss, BeginCrash
  <1>2. ASSUME NEW p \in Plans, Execution(p) \/ GiveUp(p) \/ ExecutionThrows(p)
        PROVE  UNCHANGED found
    BY <1>2
       DEF Execution, GiveUp, ExecutionThrows, Refuse, Approve,
           RejectUnsupported, Prepare, Attempt, Submit, Acknowledge,
           SubmitFails, Record, Verdict
  <1>3. ASSUME \/ \E x \in Orders : Land(x) \/ Fill(x) \/ VenueCancels(x)
               \/ Stream \/ TryComplete \/ Disconnect \/ Reconnect \/ Stop
               \/ UNCHANGED vars
        PROVE  UNCHANGED found
    BY <1>3 DEF Land, Fill, VenueCancels, Stream, ApplyUpdate, TryComplete,
                Disconnect, Reconnect, Stop, vars
  <1>4. ASSUME Die \/ Start \/ Recovered
        PROVE  found'.read = {} /\ found'.fills = {}
    <2>1. /\ NothingFound.read = {} /\ NothingFound.fills = {}
          /\ \A plans : /\ [NothingFound EXCEPT !.todo = plans].read = {}
                        /\ [NothingFound EXCEPT !.todo = plans].fills = {}
      BY DEF NothingFound
    <2>2. \/ found' = NothingFound
          \/ \E plans : found' = [NothingFound EXCEPT !.todo = plans]
      BY <1>4 DEF Die, Start, Recovered
    <2> QED BY <2>1, <2>2
  <1>5. ASSUME RecoverBlind \/ \E p \in Plans : RecoverPlan(p)
        PROVE  /\ found'.read = found.read
               /\ found'.open = found.open /\ found'.fills = found.fills
    <2>1. \E rest : found' = [found EXCEPT !.todo = rest]
      BY <1>5 DEF RecoverBlind, RecoverPlan
    <2> QED BY <2>1 DEF TypeOK
  <1>6. ASSUME FetchOpen PROVE found'.fills = found.fills
    BY <1>6 DEF FetchOpen, TypeOK
  <1>7. ASSUME FetchFills
        PROVE  /\ found'.open = found.open
               /\ "open" \in found'.read => "open" \in found.read
    BY <1>7 DEF FetchFills, TypeOK
  <1> QED BY <1>1, <1>2, <1>3, <1>4, <1>5, <1>6, <1>7 DEF Next, Recovery

(* Who gives a plan its verdict. *)
LEMMA PlanStep ==
    ASSUME OrderInv, LinkInv, [Next]_vars, NEW p \in Plans,
           plan'[p] \in Resolved, plan'[p] # plan[p]
    PROVE  \/ Refuse(p) \/ Verdict(p) \/ GiveUp(p) \/ RecoverPlan(p) \/ RecoverBlind
           \/ /\ AllOver(p) /\ plan'[p] = "failed"
              /\ UNCHANGED <<run, draft, venue>>
  <1>0. TypeOK BY DEF OrderInv
  <1>1. ASSUME NEW s \in Slots,
               TickStep(s) \/ BeginTick(s) \/ BeginStopLoss(s) \/ BeginCrash(s)
        PROVE  /\ AllOver(p) /\ plan'[p] = "failed"
               /\ UNCHANGED <<run, draft, venue>>
    <2>1. ASSUME NEW q \in Plans PROVE ~Decide(s, q)
      BY <1>0 DEF Decide, TypeOK, Resolved
    <2>2. Guard(s)
      BY <1>1, <2>1
         DEF TickStep, Cancel, CancelFails, WriteCancelled, CrashEnds,
             Hold, BeginTick, BeginStopLoss, BeginCrash
    <2> QED BY <2>2, SettledPlans DEF Guard
  <1>2. ASSUME NEW q \in Plans, Execution(q) \/ GiveUp(q) \/ ExecutionThrows(q)
        PROVE  Refuse(p) \/ Verdict(p) \/ GiveUp(p)
    <2>1. ~Approve(q)
      BY <1>0 DEF Approve, TypeOK, Resolved
    <2>2. Refuse(q) \/ Verdict(q) \/ GiveUp(q)
      BY <1>2, <2>1
         DEF Execution, ExecutionThrows, RejectUnsupported, Prepare,
             Attempt, Submit, Acknowledge, SubmitFails, Record
    <2> QED BY <1>0, <2>2 DEF Refuse, Verdict, GiveUp, TypeOK
  <1>3. ASSUME TryComplete
        PROVE  /\ AllOver(p) /\ plan'[p] = "failed"
               /\ UNCHANGED <<run, draft, venue>>
    BY <1>3, SettledPlans DEF TryComplete
  <1>4. ASSUME NEW q \in Plans, RecoverPlan(q) PROVE RecoverPlan(p)
    BY <1>0, <1>4, RecoveredPlan
  <1>5. ~(\/ \E x \in Orders : Land(x) \/ Fill(x) \/ VenueCancels(x)
          \/ Stream \/ FetchOpen \/ FetchFills \/ Recovered \/ Die
          \/ Disconnect \/ Reconnect \/ Stop \/ Start \/ UNCHANGED vars)
    BY DEF Land, Fill, VenueCancels, Stream, ApplyUpdate, FetchOpen, FetchFills,
           Recovered, Die, Disconnect, Reconnect, Stop, Start, vars
  <1> QED BY <1>1, <1>2, <1>3, <1>4, <1>5 DEF Next, Recovery
-----------------------------------------------------------------------------
LEMMA OneOrder ==
    ASSUME PerPlan = 1
    PROVE  /\ \A p \in Plans : OrdersOf(p) = {<<p, 1>>} /\ <<p, 1>> \in Orders
           /\ TypeOK => \A p \in Plans : Cur(p) = <<p, 1>> /\ run[p].i = 1
           /\ TypeOK => \A p \in Plans : NextOrder(p) => run'[p].pc \in {"record", "end"}
  <1>1. 1..PerPlan = {1} OBVIOUS
  <1>2. \A p \in Plans : OrdersOf(p) = {<<p, 1>>} /\ <<p, 1>> \in Orders
    BY <1>1 DEF OrdersOf, Orders
  <1>3. TypeOK => \A p \in Plans : Cur(p) = <<p, 1>> /\ run[p].i = 1
    BY <1>1 DEF TypeOK, Run, Cur
  <1>4. ASSUME TypeOK, NEW p \in Plans, NextOrder(p)
        PROVE  run'[p].pc \in {"record", "end"}
    BY <1>3, <1>4, RunEnds DEF NextOrder, TypeOK, Run
  <1> QED BY <1>2, <1>3, <1>4

(* The parts of SingleInv, for one plan. *)
RejectedLate(p) ==
    /\ draft[<<p, 1>>] = "rejected" => run[p].pc \in {"record", "verdict", "end"}
    /\ run[p].pc = "verdict" =>
           draft[<<p, 1>>] = "rejected" \/ venue[<<p, 1>>] = "refused"

VerdictTrue(p) ==
    /\ plan[p] \in Resolved => run[p].pc \notin Sends
    /\ plan[p] = "completed" => venue[<<p, 1>>] \in {"filled", "cut"}
    /\ plan[p] = "failed" => venue[<<p, 1>>] \in {"absent", "refused"}

ReadTrue(p) ==
    /\ booked[<<p, 1>>].linked /\ "open" \in found.read /\ <<p, 1>> \notin found.open
           => venue[<<p, 1>>] \notin Live
    /\ <<p, 1>> \in found.fills => venue[<<p, 1>>] \in Traded

LEMMA SingleParts ==
    SingleInv <=> \A p \in Plans : RejectedLate(p) /\ VerdictTrue(p) /\ ReadTrue(p)
  BY DEF SingleInv, RejectedLate, VerdictTrue, ReadTrue

LEMMA NextRejected ==
    ASSUME PerPlan = 1, OrderInv, RejectedTrue, [Next]_vars, NEW p \in Plans,
           RejectedLate(p)
    PROVE  RejectedLate(p)'
  <1> DEFINE o == <<p, 1>>
  <1>0. /\ TypeOK /\ o \in Orders /\ Cur(p) = o
        /\ \A q \in Plans : Cur(q) = o => q = p
    BY OneOrder DEF OrderInv, Cur
  <1>0a. venue[o] = "refused" => venue'[o] = "refused"
    BY <1>0, VenueStep DEF Live
  <1>1. CASE draft'[o] # draft[o]
    <2>1. /\ run[p].pc \in {"prepare", "attempt", "reply"}
          /\ draft'[o] = "rejected" => /\ NextOrder(p)
                                       /\ RejectUnsupported(p) \/ SubmitFails(p)
      BY <1>0, <1>1, DraftStep
    <2>2. draft'[o] = "rejected" => run'[p].pc \in {"record", "end"}
      BY <1>0, <2>1, OneOrder
    <2>3. run'[p].pc # "verdict"
      <3>1. CASE run'[p] = run[p] BY <2>1, <3>1
      <3>2. CASE \E s \in Slots : Decide(s, p)
        BY <1>0, <3>2 DEF Decide, TypeOK, Run
      <3>3. CASE Execution(p) \/ GiveUp(p)
        <4>1. \/ NextOrder(p) \/ Goto(p, "attempt") \/ Goto(p, "submit")
              \/ run' = [run EXCEPT ![p].awaited = FALSE]
          BY <2>1, <3>3
             DEF Execution, Refuse, Approve, Submit, Record, Verdict, At,
                 RejectUnsupported, Prepare, Attempt, Acknowledge, SubmitFails,
                 GiveUp
        <4>2. CASE NextOrder(p) BY <1>0, <4>2, OneOrder
        <4>3. CASE Goto(p, "attempt") \/ Goto(p, "submit")
          BY <1>0, <4>3, RunGoes DEF PCs
        <4>4. CASE run' = [run EXCEPT ![p].awaited = FALSE]
          BY <1>0, <2>1, <4>4 DEF TypeOK, Run
        <4> QED BY <4>1, <4>2, <4>3, <4>4
      <3>4. CASE ExecutionThrows(p) \/ Die
        BY <1>0, <2>1, <3>4, RunEnds DEF ExecutionThrows, Die
      <3> QED BY <1>0, <3>1, <3>2, <3>3, <3>4, RunStep
    <2> QED BY <2>2, <2>3 DEF RejectedLate
  <1>2. CASE draft'[o] = draft[o]
    <2>1. CASE run'[p] = run[p] BY <1>0a, <1>2, <2>1 DEF RejectedLate
    <2>2. CASE \E s \in Slots : Decide(s, p)
      <3>1. run[p].pc = "none" /\ run'[p].pc = "planned"
        BY <1>0, <2>2 DEF Decide, OrderInv, FreshPlan, TypeOK, Run
      <3> QED BY <1>0a, <1>2, <3>1 DEF RejectedLate
    <2>3. CASE ExecutionThrows(p) \/ Die
      <3>1. run'[p].pc = "end" \/ run'[p] = run[p]
        BY <1>0, <2>3, RunEnds DEF ExecutionThrows, Die
      <3> QED BY <1>0a, <1>2, <3>1 DEF RejectedLate
    <2>4. CASE GiveUp(p)
      <3>1. run'[p].pc = run[p].pc BY <1>0, <2>4 DEF GiveUp, TypeOK, Run
      <3> QED BY <1>0a, <1>2, <3>1 DEF RejectedLate
    <2>5. CASE Execution(p)
      <3>1. CASE Refuse(p) \/ Verdict(p)
        BY <1>0, <1>2, <3>1, RunEnds DEF Refuse, Verdict, RejectedLate
      <3>2. CASE Approve(p) \/ Prepare(p) \/ Attempt(p) \/ Submit(p)
        BY <1>0, <1>2, <3>2, RunGoes
           DEF Approve, Prepare, Attempt, Submit, At, PCs, RejectedLate
      <3>3. CASE RejectUnsupported(p) \/ Acknowledge(p) \/ SubmitFails(p)
        BY <1>0, <1>2, <3>3, OneOrder
           DEF RejectUnsupported, Acknowledge, SubmitFails, At, RejectedLate
      <3>4. CASE Record(p)
        <4>1. run[p].i = PerPlan /\ ~(run[p].i < PerPlan) BY <1>0, OneOrder
        <4>2. got[o] = "rejected" => venue[o] = "refused"
          BY <1>0 DEF OrderInv, ReceiptsTrue, Said
        <4>3. CASE End(p)
          BY <1>0, <1>2, <4>3, RunEnds DEF RejectedLate
        <4>4. CASE run' = [run EXCEPT ![p].pc = "verdict", ![p].i = 1]
                   /\ \A any \in OrdersOf(p) : Unaccepted(any)
          <5>1. run'[p].pc = "verdict" BY <1>0, <4>4 DEF TypeOK, Run
          <5>2. draft[o] = "rejected" \/ venue[o] = "refused"
            BY <4>2, <4>4, OneOrder DEF Unaccepted
          <5>3. venue' = venue BY <3>4 DEF Record
          <5> QED BY <1>2, <5>1, <5>2, <5>3 DEF RejectedLate
        <4> QED BY <3>4, <4>1, <4>3, <4>4 DEF Record
      <3> QED BY <2>5, <3>1, <3>2, <3>3, <3>4 DEF Execution
    <2> QED BY <1>0, <2>1, <2>2, <2>3, <2>4, <2>5, RunStep
  <1> QED BY <1>1, <1>2

LEMMA NextRead ==
    ASSUME PerPlan = 1, OrderInv, LinkInv, JudgeInv, [Next]_vars, NEW p \in Plans,
           ReadTrue(p)
    PROVE  ReadTrue(p)'
  <1> DEFINE o == <<p, 1>>
  <1>0. TypeOK /\ o \in Orders BY OneOrder DEF OrderInv
  <1>1. ASSUME o \in found'.fills PROVE venue'[o] \in Traded
    <2>1. CASE FetchFills
      <3>1. o \in found.fills \/ venue[o] \in Traded
        BY <1>0, <1>1, <2>1 DEF FetchFills, TypeOK
      <3> QED BY <1>0, <2>1, <3>1, VenueStep DEF ReadTrue
    <2>2. CASE ~FetchFills
      BY <1>0, <1>1, <2>2, FoundStep, VenueStep DEF ReadTrue
    <2> QED BY <2>1, <2>2
  <1>2. ASSUME booked'[o].linked, "open" \in found'.read, o \notin found'.open
        PROVE  venue'[o] \notin Live
    <2>1. CASE FetchOpen
      BY <1>0, <1>2, <2>1 DEF FetchOpen, TypeOK
    <2>2. CASE "open" \in found.read /\ found'.open = found.open
      <3>1. booked[o].linked
        <4>1. mode = "recovering" BY <2>2 DEF JudgeInv, NothingFound
        <4>2. \A q \in Plans : run[q].pc # "reply"
          BY <4>1 DEF JudgeInv, Drained
        <4> QED BY <1>0, <1>2, <4>2, LinkStep
      <3>2. venue[o] \notin Live BY <1>2, <2>2, <3>1 DEF ReadTrue
      <3>3. venue[o] \in Landed BY <1>0, <3>1 DEF LinkInv
      <3> QED BY <1>0, <3>2, <3>3, VenueStep DEF Landed, Live, Traded
    <2> QED BY <1>0, <1>2, <2>1, <2>2, FoundStep
  <1> QED BY <1>1, <1>2 DEF ReadTrue

(* The recovery of a plan of one order. *)
LEMMA RecoveredTruth ==
    ASSUME PerPlan = 1, OrderInv, LinkInv, JudgeInv, NEW p \in Plans,
           ReadTrue(p), None({"unanswered"}), RecoverPlan(p),
           plan'[p] # plan[p]
    PROVE  VerdictTrue(p)'
  <1> DEFINE o == <<p, 1>>
             rows == {x \in OrdersOf(p) : draft[x] # "none"}
             refs == {x \in rows : booked[x].linked}
  <1>0. /\ TypeOK /\ o \in Orders /\ OrdersOf(p) = {o}
        /\ UNCHANGED <<venue, run>>
        /\ plan[p] \in {"pending", "executing"}
        /\ plan'[p] \in {"completed", "failed"}
        /\ found.read = {"open", "fills"} /\ p \in found.todo
    BY OneOrder, RecoveredPlan DEF OrderInv, JudgeInv, Incomplete
  <1>1. run[p].pc = "end"
    BY <1>0 DEF JudgeInv, Drained, NothingFound
  <1>2. draft[o] \in {"none", "prepared"} => venue[o] = "absent"
    BY <1>0 DEF OrderInv, WriteAhead, TypeOK
  <1>3. draft[o] = "rejected" => venue[o] \in {"absent", "refused"} /\ ~booked[o].linked
    BY <1>0 DEF OrderInv, RejectedTrue, None, LinkInv
  <1>4. booked[o].status = "filled" => venue[o] = "filled"
    BY <1>0 DEF OrderInv, RowsTrue, Said
  <1>5. CASE rows = {} /\ plan' = [plan EXCEPT ![p] = "failed"]
    BY <1>0, <1>1, <1>2, <1>5 DEF VerdictTrue, Sends, TypeOK
  <1>6. CASE /\ refs \cap found.open = {}
             /\ refs \cap found.fills # {}
             /\ plan' = [plan EXCEPT ![p] = "completed"]
    <2>1. booked[o].linked /\ o \in found.fills /\ o \notin found.open
      BY <1>0, <1>6
    <2>2. venue[o] \in Traded \ Live
      BY <1>0, <2>1 DEF ReadTrue
    <2> QED BY <1>0, <1>1, <1>6, <2>2 DEF VerdictTrue, Sends, Traded, Live, TypeOK
  <1>7. ASSUME NEW seen \in SUBSET rows, NEW ambiguous \in BOOLEAN, rows # {},
               plan' = [plan EXCEPT ![p] = JudgedByRows(p, seen, ambiguous)]
        PROVE  VerdictTrue(p)'
    <2>1. plan'[p] = JudgedByRows(p, seen, ambiguous) /\ rows = {o}
      BY <1>0, <1>7 DEF TypeOK
    <2>2. \/ plan'[p] = "completed" /\ venue[o] = "filled"
          \/ plan'[p] = "failed" /\ draft[o] \in {"prepared", "rejected"}
      BY <1>0, <1>4, <2>1 DEF JudgedByRows
    <2> QED BY <1>0, <1>1, <1>2, <1>3, <2>2 DEF VerdictTrue, Sends
  <1> QED BY <1>0, <1>5, <1>6, <1>7 DEF RecoverPlan

LEMMA NextVerdict ==
    ASSUME PerPlan = 1, OrderInv, LinkInv, JudgeInv, [Next]_vars, NEW p \in Plans,
           None({"timeout", "unanswered", "undrained", "blind"})', None({"unanswered"}),
           RejectedLate(p), ReadTrue(p), VerdictTrue(p)
    PROVE  VerdictTrue(p)'
  <1> DEFINE o == <<p, 1>>
  <1>0. /\ TypeOK /\ o \in Orders /\ Cur(p) = o
        /\ \A q \in Plans : Cur(q) = o => q = p
        /\ plan[p] \in Resolved => plan'[p] = plan[p]
    BY OneOrder, NextJudge DEF OrderInv, Cur, None
  <1>1. CASE plan[p] \in Resolved
    <2>1. venue'[o] = venue[o]
      <3>1. venue[o] \in {"filled", "cut", "absent", "refused"}
        BY <1>1 DEF VerdictTrue, Resolved
      <3>2. ~Submit(p)
        BY <1>1 DEF VerdictTrue, Submit, At, Sends
      <3> QED BY <1>0, <3>1, <3>2, VenueStep DEF Live
    <2>2. run'[p].pc \notin Sends
      <3>1. run[p].pc \notin Sends BY <1>1 DEF VerdictTrue
      <3>2. CASE Execution(p)
        <4>1. Record(p) \/ Verdict(p)
          BY <3>1, <3>2
             DEF Execution, Refuse, Approve, RejectUnsupported, Prepare, Attempt,
                 Submit, Acknowledge, SubmitFails, At, Sends
        <4>2. CASE Verdict(p) BY <1>0, <4>2, RunEnds DEF Verdict, Sends
        <4>3. CASE Record(p)
          <5>1. CASE End(p) BY <1>0, <5>1, RunEnds DEF Sends
          <5>2. CASE ~End(p)
            BY <1>0, <4>3, <5>2 DEF Record, At, TypeOK, Run, Sends
          <5> QED BY <5>1, <5>2
        <4> QED BY <4>1, <4>2, <4>3
      <3>3. CASE \E s \in Slots : Decide(s, p)
        BY <1>1, <3>3 DEF Decide, Resolved
      <3>4. CASE GiveUp(p) BY <3>1, <3>4 DEF GiveUp, Sends
      <3>5. CASE ExecutionThrows(p) \/ Die
        BY <1>0, <3>1, <3>5, RunEnds DEF ExecutionThrows, Die, Sends
      <3> QED BY <1>0, <3>1, <3>2, <3>3, <3>4, <3>5, RunStep
    <2> QED BY <1>0, <1>1, <2>1, <2>2 DEF VerdictTrue
  <1>2. CASE plan[p] \notin Resolved /\ plan'[p] \notin Resolved
    BY <1>2 DEF VerdictTrue, Resolved
  <1>3. CASE plan[p] \notin Resolved /\ plan'[p] \in Resolved
    <2>1. CASE Refuse(p)
      <3>1. venue[o] = "absent"
        BY <2>1 DEF Refuse, At, OrderInv, UnsentIsAbsent, NotYetSent
      <3>2. plan'[p] = "failed" /\ run'[p].pc = "end" /\ UNCHANGED venue
        BY <1>0, <2>1, RunEnds DEF Refuse, TypeOK
      <3> QED BY <3>1, <3>2 DEF VerdictTrue, Sends
    <2>2. CASE Verdict(p)
      <3>1. venue[o] \in {"absent", "refused"}
        BY <1>0, <2>2 DEF Verdict, At, RejectedLate, OrderInv, RejectedTrue
      <3>2. plan'[p] = "failed" /\ run'[p].pc = "end" /\ UNCHANGED venue
        BY <1>0, <2>2, RunEnds DEF Verdict, TypeOK
      <3> QED BY <3>1, <3>2 DEF VerdictTrue, Sends
    <2>3. CASE AllOver(p) /\ plan'[p] = "failed" /\ UNCHANGED <<run, draft, venue>>
      <3>1. draft[o] = "rejected"
        BY <1>0, <2>3, OneOrder DEF AllOver
      <3>2. venue[o] \in {"absent", "refused"}
        BY <1>0, <3>1 DEF OrderInv, RejectedTrue
      <3> QED BY <2>3, <3>1, <3>2 DEF RejectedLate, VerdictTrue, Sends
    <2>4. CASE RecoverPlan(p)
      BY <1>3, <2>4, RecoveredTruth
    <2>5. ~GiveUp(p) /\ ~RecoverBlind
      BY DEF GiveUp, RecoverBlind, Mishap, None
    <2> QED BY <1>3, <2>1, <2>2, <2>3, <2>4, <2>5, PlanStep
  <1> QED BY <1>1, <1>2, <1>3

LEMMA NextSingle ==
    ASSUME PerPlan = 1, OrderInv, LinkInv, JudgeInv, SingleInv, [Next]_vars,
           None({"timeout", "unanswered", "undrained", "blind"})'
    PROVE  SingleInv'
  <1>1. None({"unanswered"}) /\ RejectedTrue
    BY MishapsStep DEF OrderInv, None
  <1>2. \A p \in Plans : RejectedLate(p) /\ VerdictTrue(p) /\ ReadTrue(p)
    BY SingleParts
  <1>3. \A p \in Plans : RejectedLate(p)' /\ VerdictTrue(p)' /\ ReadTrue(p)'
    BY <1>1, <1>2, NextRejected, NextRead, NextVerdict
  <1> QED BY <1>3 DEF SingleInv, RejectedLate, VerdictTrue, ReadTrue
-----------------------------------------------------------------------------
(* The tasks, and the plans that have no verdict. *)
LEMMA IncompleteStep ==
    ASSUME OrderInv, LinkInv, JudgeInv, [Next]_vars, None({"timeout", "undrained"})',
           ~\E s \in Slots, p \in Plans : Decide(s, p)
    PROVE  Incomplete' \subseteq Incomplete
  <1> SUFFICES ASSUME NEW p \in Plans, plan'[p] \in {"pending", "executing"}
               PROVE  plan[p] \in {"pending", "executing"}
    BY DEF Incomplete
  <1>0. /\ TypeOK
        /\ plan[p] \in Resolved => plan'[p] = plan[p]
    BY NextJudge DEF OrderInv
  <1>1. ASSUME plan[p] = "none", plan'[p] # "none" PROVE FALSE
    <2>0. run[p].pc = "none" BY <1>1 DEF OrderInv, FreshPlan
    <2>1. ASSUME NEW s \in Slots,
                 TickStep(s) \/ BeginTick(s) \/ BeginStopLoss(s) \/ BeginCrash(s)
          PROVE  FALSE
      <3>1. Guard(s)
        BY <1>1, <2>1
           DEF TickStep, Cancel, CancelFails, WriteCancelled, CrashEnds,
               Hold, BeginTick, BeginStopLoss, BeginCrash
      <3> QED BY <1>1, <3>1, SettledTypes DEF Guard
    <2>2. ASSUME NEW q \in Plans, Execution(q) \/ GiveUp(q) \/ ExecutionThrows(q)
          PROVE  FALSE
      <3>1. run[q].pc # "none" /\ \E status : plan' = plan \/ plan' = [plan EXCEPT ![q] = status]
        BY <2>2
           DEF Execution, GiveUp, ExecutionThrows, Refuse, Approve, RejectUnsupported,
               Prepare, Attempt, Submit, Acknowledge, SubmitFails, Record, Verdict, At
      <3> QED BY <1>0, <1>1, <2>0, <3>1 DEF TypeOK
    <2>3. ~TryComplete BY <1>1, SettledTypes DEF TryComplete
    <2>4. ASSUME NEW q \in Plans, RecoverPlan(q) PROVE FALSE
      BY <1>0, <1>1, <2>4, RecoveredPlan DEF JudgeInv, Incomplete
    <2>5. ASSUME RecoverBlind PROVE FALSE
      <3>1. p \in found.todo
        BY <1>1, <2>5 DEF RecoverBlind
      <3> QED BY <1>1, <3>1 DEF JudgeInv, Incomplete
    <2>6. ~(\/ \E x \in Orders : Land(x) \/ Fill(x) \/ VenueCancels(x)
            \/ Stream \/ FetchOpen \/ FetchFills \/ Recovered \/ Die
            \/ Disconnect \/ Reconnect \/ Stop \/ Start \/ UNCHANGED vars)
      BY <1>1
         DEF Land, Fill, VenueCancels, Stream, ApplyUpdate, FetchOpen, FetchFills,
             Recovered, Die, Disconnect, Reconnect, Stop, Start, vars
    <2> QED BY <2>1, <2>2, <2>3, <2>4, <2>5, <2>6 DEF Next, Recovery
  <1> QED BY <1>0, <1>1 DEF TypeOK, Resolved

Ticks(t) == t.pc # "idle" /\ ~t.crash

LEMMA TurnFrom ==
    ASSUME OrderInv, TurnInv, Incomplete' \subseteq Incomplete,
           \A s \in Slots : Ticks(task'[s]) => Ticks(task[s]),
           \A s \in Slots : task'[s].pc = "decide" => task[s].pc = "decide" /\ ~task'[s].crash
    PROVE  TurnInv'
  BY DEF TurnInv, Ticks

LEMMA TaskTurn ==
    ASSUME OrderInv, LinkInv, JudgeInv, TurnInv, [Next]_vars,
           None({"overlap", "stop_loss", "timeout", "undrained"})',
           NEW s \in Slots,
           TickStep(s) \/ BeginTick(s) \/ BeginStopLoss(s) \/ BeginCrash(s)
    PROVE  TurnInv'
  <1>0. TypeOK BY DEF OrderInv
  <1>1. CASE \E o \in Orders : Cancel(s, o) \/ CancelFails(s, o)
    <2>1. /\ \A r \in Slots \ {s} : task'[r] = task[r]
          /\ task[s].pc = "sweep"
          /\ task'[s].pc \in {"sweep", "write"}
          /\ task'[s].crash = task[s].crash
      BY <1>0, <1>1 DEF Cancel, CancelFails, TypeOK, Task
    <2>2. Incomplete' = Incomplete
      BY <1>1 DEF Cancel, CancelFails, Incomplete
    <2> QED BY <2>1, <2>2, TurnFrom DEF Ticks, TurnInv
  <1>2. CASE WriteCancelled(s)
    <2>1. /\ \A r \in Slots \ {s} : task'[r] = task[r]
          /\ task[s].pc = "write"
          /\ task'[s].pc = "sweep"
          /\ task'[s].crash = task[s].crash
      BY <1>0, <1>2 DEF WriteCancelled, TypeOK, Task
    <2>2. Incomplete' = Incomplete
      BY <1>2 DEF WriteCancelled, Incomplete
    <2> QED BY <2>1, <2>2, TurnFrom DEF Ticks, TurnInv
  <1>3. CASE Guard(s)
    <2>1. /\ \A r \in Slots \ {s} : task'[r] = task[r]
          /\ Ticks(task[s])
          /\ \/ task'[s] = Idle
             \/ /\ task'[s] = [Idle EXCEPT !.pc = "decide"]
                /\ \A p \in Incomplete : AllOver(p)
      BY <1>0, <1>3 DEF Guard, TypeOK, Ticks
    <2>2. /\ Idle.pc = "idle"
          /\ [Idle EXCEPT !.pc = "decide"].crash = FALSE
      BY DEF Idle
    <2>3. Incomplete' \subseteq Incomplete
      BY <1>3, SettledTypes, <1>0 DEF Guard, Incomplete, TypeOK, Resolved
    <2>4. (\A p \in Incomplete : AllOver(p)) => Incomplete' = {}
      BY <1>3, <2>3, SettledPlans DEF Guard, Incomplete
    <2>5. CASE task'[s] = Idle
      BY <2>1, <2>2, <2>3, <2>5, TurnFrom DEF Ticks, TurnInv
    <2>6. CASE /\ task'[s] = [Idle EXCEPT !.pc = "decide"]
               /\ \A p \in Incomplete : AllOver(p)
      BY <2>1, <2>2, <2>4, <2>6 DEF Ticks, TurnInv
    <2> QED BY <2>1, <2>5, <2>6
  <1>4. CASE CrashEnds(s) \/ Hold(s)
    <2>1. /\ \A r \in Slots \ {s} : task'[r] = task[r]
          /\ task'[s].pc = "idle"
      BY <1>0, <1>4 DEF CrashEnds, Hold, TypeOK, Idle
    <2>2. Incomplete' = Incomplete
      BY <1>4 DEF CrashEnds, Hold, Incomplete
    <2> QED BY <2>1, <2>2, TurnFrom DEF Ticks, TurnInv
  <1>5. ASSUME NEW p \in Plans, Decide(s, p) PROVE TurnInv'
    <2>1. /\ \A r \in Slots \ {s} : task'[r] = task[r]
          /\ task'[s].pc = "idle"
          /\ task[s].pc = "decide"
          /\ \A q \in Plans \ {p} : plan'[q] = plan[q]
      BY <1>0, <1>5 DEF Decide, TypeOK, Idle
    <2>2. Incomplete = {} /\ Ticks(task[s])
      BY <2>1 DEF TurnInv, Ticks
    <2>3. Incomplete' \subseteq {p}
      BY <2>1, <2>2 DEF Incomplete
    <2>4. \A r \in Slots : task'[r].pc # "decide"
      BY <2>1, <2>2 DEF TurnInv, Ticks
    <2> QED BY <2>1, <2>2, <2>3, <2>4 DEF TurnInv, Ticks
  <1>6. CASE BeginTick(s)
    <2>1. ~Ticking
      BY <1>6 DEF BeginTick, Costs, Mishap, None
    <2>2. /\ \A r \in Slots \ {s} : task'[r] = task[r]
          /\ task'[s].pc = "sweep"
      <3>1. PICK aged \in SUBSET Referenced :
               task' = [task EXCEPT ![s].pc = "sweep", ![s].todo = aged]
        BY <1>6 DEF BeginTick
      <3> QED BY <1>0, <3>1 DEF TypeOK, Task
    <2>3. Incomplete' = Incomplete
      BY <1>6 DEF BeginTick, Incomplete
    <2> QED BY <2>1, <2>2, <2>3 DEF Ticking, TurnInv
  <1>7. CASE BeginStopLoss(s)
    <2>1. ~Ticking /\ Incomplete = {}
      BY <1>7 DEF BeginStopLoss, Costs, Mishap, None
    <2>2. /\ \A r \in Slots \ {s} : task'[r] = task[r]
          /\ task'[s].pc = "decide" /\ ~task'[s].crash
      BY <1>0, <1>7 DEF BeginStopLoss, TypeOK, Task, Idle
    <2>3. Incomplete' = Incomplete
      BY <1>7 DEF BeginStopLoss, Incomplete
    <2> QED BY <2>1, <2>2, <2>3 DEF Ticking, TurnInv
  <1>8. CASE BeginCrash(s)
    <2>1. /\ \A r \in Slots \ {s} : task'[r] = task[r]
          /\ task'[s].pc = "sweep" /\ task'[s].crash
      BY <1>0, <1>8 DEF BeginCrash, TypeOK, Task
    <2>2. Incomplete' = Incomplete
      BY <1>8 DEF BeginCrash, Incomplete
    <2> QED BY <2>1, <2>2, TurnFrom DEF Ticks, TurnInv
  <1> QED BY <1>1, <1>2, <1>3, <1>4, <1>5, <1>6, <1>7, <1>8 DEF TickStep

LEMMA NextTurn ==
    ASSUME OrderInv, LinkInv, JudgeInv, TurnInv, [Next]_vars,
           None({"overlap", "stop_loss", "timeout", "undrained"})'
    PROVE  TurnInv'
  <1>1. CASE \E s \in Slots :
                TickStep(s) \/ BeginTick(s) \/ BeginStopLoss(s) \/ BeginCrash(s)
    BY <1>1, TaskTurn
  <1>2. CASE ~\E s \in Slots :
                TickStep(s) \/ BeginTick(s) \/ BeginStopLoss(s) \/ BeginCrash(s)
    <2>1. None({"timeout", "undrained"})' BY DEF None
    <2>2. Incomplete' \subseteq Incomplete
      BY <1>2, <2>1, IncompleteStep DEF TickStep
    <2>3. \/ UNCHANGED task
          \/ \A s \in Slots : task'[s].pc = "idle"
      <3>1. ASSUME NEW p \in Plans, Execution(p) \/ GiveUp(p) \/ ExecutionThrows(p)
            PROVE  UNCHANGED task
        BY <3>1
           DEF Execution, GiveUp, ExecutionThrows, Refuse, Approve,
               RejectUnsupported, Prepare, Attempt, Submit, Acknowledge,
               SubmitFails, Record, Verdict
      <3>2. ASSUME NEW o \in Orders, Land(o) \/ Fill(o) \/ VenueCancels(o)
            PROVE  UNCHANGED task
        BY <3>2 DEF Land, Fill, VenueCancels
      <3>3. ASSUME Recovery \/ RecoverBlind
            PROVE  UNCHANGED task
        BY <3>3 DEF Recovery, FetchOpen, FetchFills, Recovered, RecoverPlan, RecoverBlind
      <3>4. ASSUME \/ Stream \/ TryComplete \/ Disconnect \/ Reconnect
                   \/ Stop \/ Start \/ UNCHANGED vars
            PROVE  UNCHANGED task
        BY <3>4
           DEF Stream, ApplyUpdate, TryComplete, Disconnect, Reconnect, Stop, Start, vars
      <3>5. ASSUME Die PROVE \A s \in Slots : task'[s].pc = "idle"
        BY <3>5 DEF Die, Idle
      <3> QED BY <1>2, <3>1, <3>2, <3>3, <3>4, <3>5 DEF Next
    <2> QED BY <2>2, <2>3, TurnFrom DEF Ticks, TurnInv
  <1> QED BY <1>1, <1>2
-----------------------------------------------------------------------------
LEMMA InitPlans ==
    ASSUME Init
    PROVE  LinkInv /\ JudgeInv /\ (PerPlan = 1 => SingleInv) /\ TurnInv
  <1>1. LinkInv
    BY PairIsOrder DEF Init, LinkInv
  <1>2. JudgeInv
    BY DEF Init, JudgeInv, Drained, NothingFound
  <1>3. PerPlan = 1 => SingleInv
    BY OneOrder DEF Init, SingleInv, NothingFound, Resolved
  <1>4. TurnInv
    BY DEF Init, TurnInv, Incomplete, Idle
  <1> QED BY <1>1, <1>2, <1>3, <1>4

(* The plans, as long as no start crosses what is under way and no         *)
(* execution is given up; with plans of one order, while the venue answers; *)
(* and the turns of the ticks, while they do not overlap.                  *)
PlanInv ==
    /\ OrderInv
    /\ LinkInv
    /\ None({"timeout", "undrained"}) => JudgeInv
    /\ PerPlan = 1 /\ None({"timeout", "unanswered", "undrained", "blind"})
           => SingleInv
    /\ None({"overlap", "stop_loss", "timeout", "undrained"}) => TurnInv

LEMMA PlanInvStep == PlanInv /\ [Next]_vars => PlanInv'
  <1> SUFFICES ASSUME PlanInv, [Next]_vars PROVE PlanInv'
    OBVIOUS
  <1>0. \A kinds : None(kinds)' => None(kinds)
    BY MishapsStep DEF PlanInv, OrderInv, None
  <1>1. OrderInv' BY OrderInvStep DEF PlanInv
  <1>2. LinkInv' BY NextLinks DEF PlanInv
  <1>3. None({"timeout", "undrained"})' => JudgeInv'
    BY <1>0, NextJudge DEF PlanInv
  <1>4. ASSUME PerPlan = 1, None({"timeout", "unanswered", "undrained", "blind"})'
        PROVE  SingleInv'
    <2>1. None({"timeout", "undrained"})' BY <1>4 DEF None
    <2> QED BY <1>0, <1>4, <2>1, NextSingle DEF PlanInv
  <1>5. ASSUME None({"overlap", "stop_loss", "timeout", "undrained"})'
        PROVE  TurnInv'
    <2>1. None({"timeout", "undrained"})' BY <1>5 DEF None
    <2> QED BY <1>0, <1>5, <2>1, NextTurn DEF PlanInv
  <1> QED BY <1>1, <1>2, <1>3, <1>4, <1>5 DEF PlanInv

LEMMA PlanInvHolds == Spec => []PlanInv
  <1>1. Init => PlanInv BY InitPlans, InitOrderInv DEF PlanInv
  <1> QED BY <1>1, PlanInvStep, PTL DEF Spec

(* A verdict on a plan is not changed by another party that judges it: not *)
(* by the tick, the stream, a recovery or the executor's own report, for   *)
(* plans of any number of orders (trading-actor.ts, decision-intake.ts).   *)
THEOREM PlanVerdictsStand == Spec => VerdictsStand
  <1>1. PlanInv /\ PlanInv' /\ [Next]_vars =>
            [None({"timeout", "undrained"}) =>
                \A p \in Plans : plan[p] \in Resolved => plan'[p] = plan[p]]_vars
    <2> SUFFICES ASSUME PlanInv, Next, None({"timeout", "undrained"})
                 PROVE  \A p \in Plans : plan[p] \in Resolved => plan'[p] = plan[p]
      BY DEF vars
    <2>1. OrderInv /\ LinkInv /\ JudgeInv BY DEF PlanInv
    <2>2. CASE \E q \in Plans : GiveUp(q)
      BY <2>1, <2>2 DEF GiveUp, JudgeInv, OrderInv, TypeOK, Resolved
    <2>3. CASE Start
      BY <2>3 DEF Start
    <2> QED BY <2>1, <2>2, <2>3, TaskJudge, ExecutionJudge, OthersJudge DEF Next
  <1> QED BY <1>1, PlanInvHolds, PTL DEF Spec, VerdictsStand

(* At most one plan has no verdict, for plans of any number of orders: the *)
(* guard of the tick keeps decisions apart over deaths, crashes and        *)
(* restarts (trading-actor.ts, "skip tick if there are unresolved live     *)
(* plans").                                                                *)
OnePlanOpen ==
    None({"overlap", "stop_loss", "timeout", "undrained"}) =>
        \A p, q \in Incomplete : p = q

THEOREM OnePlanAtATime == Spec => []OnePlanOpen
  <1>1. PlanInv => OnePlanOpen BY DEF PlanInv, TurnInv, OnePlanOpen
  <1> QED BY <1>1, PlanInvHolds, PTL

(* A plan of one order that was resolved has no order on its way or at the *)
(* venue, and sends none any more.                                         *)
THEOREM ResolvedPlansAreOver == ASSUME PerPlan = 1 PROVE Spec => []ResolvedIsOver
  <1>1. PlanInv => ResolvedIsOver
    <2> SUFFICES ASSUME PlanInv, None({"timeout", "unanswered", "undrained", "blind"}),
                        NEW p \in Plans, plan[p] \in Resolved
                 PROVE  /\ run[p].pc \notin Sends
                        /\ \A o \in OrdersOf(p) : venue[o] \notin {"coming"} \cup Live
      BY DEF ResolvedIsOver, Sends
    <2>1. /\ run[p].pc \notin Sends
          /\ venue[<<p, 1>>] \in {"filled", "cut", "absent", "refused"}
      BY DEF PlanInv, SingleInv, Resolved
    <2> QED BY <2>1, OneOrder DEF Live
  <1> QED BY <1>1, PlanInvHolds, PTL

(* A plan of one order is completed only if it traded, and failed only if  *)
(* it did not, whoever judged it (live-recovery.ts, trading-actor.ts).     *)
THEOREM PlanOutcomesAreTrue == ASSUME PerPlan = 1 PROVE Spec => []OutcomeIsTrue
  <1>1. PlanInv => OutcomeIsTrue
    BY OneOrder DEF PlanInv, SingleInv, OutcomeIsTrue, Traded
  <1> QED BY <1>1, PlanInvHolds, PTL

(* The orders of at most one plan of one order each are on their way or at *)
(* the venue, over deaths, crashes and restarts.                           *)
THEOREM OneLivePlanOnly == ASSUME PerPlan = 1 PROVE Spec => []OneLivePlan
  <1>1. PlanInv => OneLivePlan
    <2> SUFFICES ASSUME PlanInv, NEW p \in Plans, NEW q \in Plans, Working(p), Working(q),
                        None({"overlap", "stop_loss", "timeout", "unanswered",
                              "undrained", "blind"})
                 PROVE  p = q
      BY DEF OneLivePlan, NoOverlap
    <2>1. /\ None({"timeout", "unanswered", "undrained", "blind"})
          /\ None({"overlap", "stop_loss", "timeout", "undrained"})
      BY DEF None
    <2>2. ASSUME NEW x \in Plans, Working(x) PROVE x \in Incomplete
      <3>1. venue[<<x, 1>>] \in {"coming"} \cup Live
        BY <2>2, OneOrder DEF Working
      <3>2. plan[x] \notin Resolved
        BY <2>1, <3>1 DEF PlanInv, SingleInv, Resolved, Live
      <3>3. plan[x] # "none"
        <4>1. plan[x] = "none" => venue[<<x, 1>>] = "absent"
          BY LiveOrdersAssumption DEF PlanInv, OrderInv, FreshPlan, UnsentIsAbsent, NotYetSent
        <4> QED BY <3>1, <4>1 DEF Live
      <3> QED BY <3>2, <3>3 DEF PlanInv, OrderInv, TypeOK, Incomplete
    <2> QED BY <2>1, <2>2 DEF PlanInv, TurnInv
  <1> QED BY <1>1, PlanInvHolds, PTL
=============================================================================
