----------------------------- MODULE LiveOrders -----------------------------
(***************************************************************************)
(* The real orders of one bot at an order-book venue: the tick and the     *)
(* recovery of packages/worker/src/trading-actor.ts, the execution of a    *)
(* decision (packages/engine/src/decision-intake.ts, live-executor.ts) and *)
(* the rows of packages/db/src/repositories.ts, against a venue that       *)
(* answers late or never and a private stream that tells some of what      *)
(* happened, in any order.                                                 *)
(*                                                                         *)
(* An order has up to two rows.  The executor writes one before it sends   *)
(* the order, under the client order id (draft).  The reply, the stream    *)
(* and a cancellation write one under the reference of the venue (booked); *)
(* nothing joins the two.                                                  *)
(***************************************************************************)
EXTENDS Naturals, FiniteSets

CONSTANTS
    Plans,      \* bound: the execution plans the bot makes
    PerPlan,    \* orders of a plan: two when it reverses a position
    Slots,      \* bound: ticks and crash handlers at once
    NoOrder,
    Kinds,      \* which mishaps may happen, each once; see mishaps
    MaxMishaps  \* bound on how many do

Orders == Plans \X (1..PerPlan)

ASSUME LiveOrdersAssumption ==
    /\ PerPlan \in Nat \ {0}
    /\ NoOrder \notin Orders
    /\ MaxMishaps \in Nat

VARIABLES
    plan,       \* plan[p]: execution_plans.status
    draft,      \* draft[o]: the row under the client order id
    booked,     \* booked[o]: the row under the venue's reference
    venue,      \* venue[o]: the order itself
    run,        \* run[p]: how far executeDecision is with the plan
    got,        \* got[o]: the receipt the executor holds
    task,       \* task[s]: a tick before its decision, or a crash handler
    updates,    \* order updates of the private stream not yet applied
    mode,       \* of the actor; "paused" while the stream is disconnected
    found,      \* what a start has read of the venue, and the plans to judge
    mishaps     \* history: the kinds of mishap that happened.  "overlap": a
                \* tick began before the last one ended; "stop_loss": one sold
                \* beside an unresolved plan; "timeout": an execution was given
                \* up; "unanswered": the reply to an order was lost;
                \* "undrained": a start before the last tick had ended;
                \* "blind": a start that could not read the venue;
                \* "database": a write failed

vars == <<plan, draft, booked, venue, run, got, task, updates, mode, found,
          mishaps>>

OrdersOf(p) == {p} \X (1..PerPlan)
Live == {"open", "partial"}             \* resting at the venue
Traded == {"partial", "filled", "cut"}  \* "cut": cancelled after a part filled
Resolved == {"completed", "failed"}

(* Of an order row.  A row that says pending or partial is "open" here:    *)
(* whoever reads rows takes the three alike.                               *)
Status == {"open", "filled", "cancelled", "rejected"}
Over == {"filled", "cancelled", "rejected"}
Run == [pc      : {"none", "planned", "prepare", "attempt", "submit", "reply",
                   "record", "verdict", "end"},
        i       : 1..PerPlan,   \* the order at hand
        awaited : BOOLEAN]      \* false once the tick has given up on it
Task == [pc    : {"idle", "sweep", "write", "decide"},
         todo  : SUBSET Orders, \* to be cancelled for their age
         cur   : Orders \cup {NoOrder},
         crash : BOOLEAN]

Idle == [pc |-> "idle", todo |-> {}, cur |-> NoOrder, crash |-> FALSE]
NothingFound == [todo |-> {}, read |-> {}, open |-> {}, fills |-> {}]

TypeOK ==
    /\ plan \in [Plans -> {"none", "pending", "executing"} \cup Resolved]
    /\ draft \in [Orders -> {"none", "prepared", "attempting", "rejected"}]
    /\ booked \in [Orders -> [status : Status \cup {"none"}, linked : BOOLEAN]]
    /\ venue \in [Orders -> {"absent", "coming", "refused", "cancelled"}
                             \cup Live \cup Traded]
    /\ run \in [Plans -> Run]
    /\ got \in [Orders -> Status \cup {"none"}]
    /\ task \in [Slots -> Task]
    /\ updates \subseteq Orders \X Status
    /\ mode \in {"down", "recovering", "up", "paused"}
    /\ found \in [todo : SUBSET Plans, read : SUBSET {"open", "fills"},
                  open : SUBSET Orders, fills : SUBSET Orders]
    /\ mishaps \subseteq Kinds

Init ==
    /\ plan = [p \in Plans |-> "none"]
    /\ draft = [o \in Orders |-> "none"]
    /\ booked = [o \in Orders |-> [status |-> "none", linked |-> FALSE]]
    /\ venue = [o \in Orders |-> "absent"]
    /\ run = [p \in Plans |-> [pc |-> "none", i |-> 1, awaited |-> FALSE]]
    /\ got = [o \in Orders |-> "none"]
    /\ task = [s \in Slots |-> Idle]
    /\ updates = {}
    /\ mode = "down"
    /\ found = NothingFound
    /\ mishaps = {}

-----------------------------------------------------------------------------
Mishap(kind) ==
    /\ kind \in Kinds \ mishaps
    /\ mishaps' = mishaps \cup {kind}
    /\ Cardinality(mishaps') <= MaxMishaps

Costs(kind, happens) == IF happens THEN Mishap(kind) ELSE UNCHANGED mishaps

Incomplete == {p \in Plans : plan[p] \in {"pending", "executing"}}

(* A tick is under way: before its decision, or awaiting its execution. *)
Ticking == \/ \E s \in Slots : task[s].pc # "idle" /\ ~task[s].crash
           \/ \E p \in Plans : run[p].awaited

(* Mutant of AllOver: the rows of a plan are over when none of them is     *)
(* known to be open.                                                       *)
NoneOpen(p) ==
    /\ plan[p] = "executing"
    /\ \E o \in OrdersOf(p) : draft[o] # "none"
    /\ \A o \in OrdersOf(p) : booked[o].linked => booked[o].status # "open"

(* Mutant of AllOver: plans that are resolved already are judged again. *)
AllOverAgain(p) ==
    /\ \E o \in OrdersOf(p) : draft[o] # "none"
    /\ \A o \in OrdersOf(p) :
          /\ draft[o] \in {"none", "rejected"}
          /\ booked[o].linked => booked[o].status \in Over

(* All rows of the plan are filled, cancelled or rejected. *)
AllOver(p) ==
    /\ plan[p] = "executing"
    /\ \E o \in OrdersOf(p) : draft[o] # "none"
    /\ \A o \in OrdersOf(p) :
          /\ draft[o] \in {"none", "rejected"}
          /\ booked[o].linked => booked[o].status \in Over

AnyFilled(p) ==
    \E o \in OrdersOf(p) : booked[o].linked /\ booked[o].status = "filled"

(* plan with every plan resolved whose rows are over *)
Settled == [p \in Plans |-> IF AllOver(p)
                            THEN IF AnyFilled(p) THEN "completed" ELSE "failed"
                            ELSE plan[p]]

(* The stream tells of a change while it is connected. *)
Tell(o, status) ==
    updates' = IF mode = "up" THEN updates \cup {<<o, status>>} ELSE updates

-----------------------------------------------------------------------------
(* The tick: cancel the aged limit orders, skip it while a plan is         *)
(* unresolved, decide.                                                     *)
Referenced == {o \in Orders : booked[o].status = "open"}

BeginTick(s) ==
    /\ task[s] = Idle
    /\ mode = "up"
    /\ Costs("overlap", Ticking)
    /\ \E aged \in SUBSET Referenced :
          task' = [task EXCEPT ![s].pc = "sweep", ![s].todo = aged]
    /\ UNCHANGED <<plan, draft, booked, venue, run, got, updates, mode, found>>

(* The stop-loss, which sells the position, returns before the guard is    *)
(* reached; when the loss is too large is left open.                       *)
BeginStopLoss(s) ==
    /\ task[s] = Idle
    /\ mode = "up"
    /\ Costs("stop_loss", Ticking \/ Incomplete # {})
    /\ task' = [task EXCEPT ![s].pc = "decide"]
    /\ UNCHANGED <<plan, draft, booked, venue, run, got, updates, mode, found>>

(* crash(): every open order that has a reference is cancelled. *)
BeginCrash(s) ==
    /\ task[s] = Idle
    /\ mode \in {"up", "paused"}
    /\ \A other \in Slots : ~task[other].crash
    /\ task' = [task EXCEPT ![s] = [pc |-> "sweep", todo |-> Referenced,
                                    cur |-> NoOrder, crash |-> TRUE]]
    /\ UNCHANGED <<plan, draft, booked, venue, run, got, updates, mode, found,
                   mishaps>>

CancelledFrom(v) == IF v = "partial" THEN "cut" ELSE "cancelled"

(* Mutant of Cancel: the reply of the venue is not looked at. *)
CancelUnchecked(s, o) ==
    /\ task[s].pc = "sweep"
    /\ o \in task[s].todo
    /\ task' = [task EXCEPT ![s].pc = "write", ![s].cur = o,
                            ![s].todo = @ \ {o}]
    /\ IF venue[o] \in Live
       THEN venue' = [venue EXCEPT ![o] = CancelledFrom(@)] /\ Tell(o, "cancelled")
       ELSE UNCHANGED <<venue, updates>>
    /\ UNCHANGED <<plan, draft, booked, run, got, mode, found, mishaps>>

Cancel(s, o) ==
    /\ task[s].pc = "sweep"
    /\ o \in task[s].todo
    /\ venue[o] \in Live
    /\ venue' = [venue EXCEPT ![o] = CancelledFrom(@)]
    /\ Tell(o, "cancelled")
    /\ task' = [task EXCEPT ![s].pc = "write", ![s].cur = o,
                            ![s].todo = @ \ {o}]
    /\ UNCHANGED <<plan, draft, booked, run, got, mode, found, mishaps>>

(* The venue refuses, or cancels and the reply is lost: no row is written. *)
CancelFails(s, o) ==
    /\ task[s].pc = "sweep"
    /\ o \in task[s].todo
    /\ \/ UNCHANGED <<venue, updates>>
       \/ /\ venue[o] \in Live
          /\ venue' = [venue EXCEPT ![o] = CancelledFrom(@)]
          /\ Tell(o, "cancelled")
    /\ task' = [task EXCEPT ![s].todo = @ \ {o}]
    /\ UNCHANGED <<plan, draft, booked, run, got, mode, found, mishaps>>

WriteCancelled(s) ==
    /\ task[s].pc = "write"
    /\ booked' = [booked EXCEPT ![task[s].cur].status = "cancelled"]
    /\ task' = [task EXCEPT ![s].pc = "sweep", ![s].cur = NoOrder]
    /\ UNCHANGED <<plan, draft, venue, run, got, updates, mode, found, mishaps>>

(* Mutant of Guard: the tick decides beside an unresolved plan. *)
GuardNothing(s) ==
    /\ task[s].pc = "sweep"
    /\ task[s].todo = {}
    /\ ~task[s].crash
    /\ plan' = Settled
    /\ task' = [task EXCEPT ![s].pc = "decide"]
    /\ UNCHANGED <<draft, booked, venue, run, got, updates, mode, found, mishaps>>

(* The live guard.  Its reads and marks are one step: a plan whose rows    *)
(* are over has nobody left who changes it.                                *)
Guard(s) ==
    /\ task[s].pc = "sweep"
    /\ task[s].todo = {}
    /\ ~task[s].crash
    /\ plan' = Settled
    /\ task' = [task EXCEPT ![s] =
                   IF \A p \in Incomplete : AllOver(p)
                   THEN [Idle EXCEPT !.pc = "decide"] ELSE Idle]
    /\ UNCHANGED <<draft, booked, venue, run, got, updates, mode, found, mishaps>>

CrashEnds(s) ==
    /\ task[s].pc = "sweep"
    /\ task[s].todo = {}
    /\ task[s].crash
    /\ task' = [task EXCEPT ![s] = Idle]
    /\ mode' = "down"
    /\ UNCHANGED <<plan, draft, booked, venue, run, got, updates, found, mishaps>>

(* The strategy holds, or fails. *)
Hold(s) ==
    /\ task[s].pc = "decide"
    /\ task' = [task EXCEPT ![s] = Idle]
    /\ UNCHANGED <<plan, draft, booked, venue, run, got, updates, mode, found,
                   mishaps>>

(* The plan is written ahead of its execution. *)
Decide(s, p) ==
    /\ task[s].pc = "decide"
    /\ plan[p] = "none"
    /\ plan' = [plan EXCEPT ![p] = "pending"]
    /\ run' = [run EXCEPT ![p].pc = "planned", ![p].awaited = TRUE]
    /\ task' = [task EXCEPT ![s] = Idle]
    /\ UNCHANGED <<draft, booked, venue, got, updates, mode, found, mishaps>>

-----------------------------------------------------------------------------
(* executeDecision: risk check, LiveExecutor over the orders in turn, then *)
(* the orders are written once more and the plan is judged.                *)
At(p, pc) == run[p].pc = pc
Cur(p) == <<p, run[p].i>>
Goto(p, pc) == run' = [run EXCEPT ![p].pc = pc]
End(p) == run' = [run EXCEPT ![p] = [pc |-> "end", i |-> 1, awaited |-> FALSE]]

(* Mutant of NextOrder: one order too many. *)
NextOrderBeyond(p) ==
    IF run[p].i <= PerPlan
    THEN run' = [run EXCEPT ![p].pc = "prepare", ![p].i = @ + 1]
    ELSE IF run[p].awaited
         THEN run' = [run EXCEPT ![p].pc = "record", ![p].i = 1]
         ELSE End(p)

(* The next order; after the last one the tick goes on, if it still waits. *)
NextOrder(p) ==
    IF run[p].i < PerPlan
    THEN run' = [run EXCEPT ![p].pc = "prepare", ![p].i = @ + 1]
    ELSE IF run[p].awaited
         THEN run' = [run EXCEPT ![p].pc = "record", ![p].i = 1]
         ELSE End(p)

Refuse(p) ==
    /\ At(p, "planned")
    /\ plan' = [plan EXCEPT ![p] = "failed"]
    /\ End(p)
    /\ UNCHANGED <<draft, booked, venue, got, task, updates, mode, found, mishaps>>

Approve(p) ==
    /\ At(p, "planned")
    /\ plan' = [plan EXCEPT ![p] = "executing"]
    /\ Goto(p, "prepare")
    /\ UNCHANGED <<draft, booked, venue, got, task, updates, mode, found, mishaps>>

(* The venue does not support the order: it is not sent. *)
RejectUnsupported(p) ==
    /\ At(p, "prepare")
    /\ draft' = [draft EXCEPT ![Cur(p)] = "rejected"]
    /\ NextOrder(p)
    /\ UNCHANGED <<plan, booked, venue, got, task, updates, mode, found, mishaps>>

Prepare(p) ==
    /\ At(p, "prepare")
    /\ draft' = [draft EXCEPT ![Cur(p)] = "prepared"]
    /\ Goto(p, "attempt")
    /\ UNCHANGED <<plan, booked, venue, got, task, updates, mode, found, mishaps>>

(* Mutant of Attempt: the attempt is not written. *)
AttemptUnwritten(p) ==
    /\ At(p, "attempt")
    /\ Goto(p, "submit")
    /\ UNCHANGED <<plan, draft, booked, venue, got, task, updates, mode, found,
                   mishaps>>

Attempt(p) ==
    /\ At(p, "attempt")
    /\ draft' = [draft EXCEPT ![Cur(p)] = "attempting"]
    /\ Goto(p, "submit")
    /\ UNCHANGED <<plan, booked, venue, got, task, updates, mode, found, mishaps>>

Submit(p) ==
    /\ At(p, "submit")
    /\ venue' = [venue EXCEPT ![Cur(p)] = "coming"]
    /\ Goto(p, "reply")
    /\ UNCHANGED <<plan, draft, booked, got, task, updates, mode, found, mishaps>>

(* The receipt carries a status the order had, also that it was refused;   *)
(* it joins the row to its plan if the stream came first.                  *)
Acknowledge(p) ==
    LET o == Cur(p) IN
    /\ At(p, "reply")
    /\ \E status \in {"open"} \cup
                     (IF venue[o] = "filled" THEN {"filled"} ELSE {}) \cup
                     (IF venue[o] \in {"cancelled", "cut"} THEN {"cancelled"} ELSE {}) \cup
                     (IF venue[o] = "refused" THEN {"rejected"} ELSE {}) :
          /\ venue[o] # "coming"
          /\ got' = [got EXCEPT ![o] = status]
          /\ booked' = [booked EXCEPT ![o] = [status |-> status, linked |-> TRUE]]
    /\ NextOrder(p)
    /\ UNCHANGED <<plan, draft, venue, task, updates, mode, found, mishaps>>

(* An error of the venue port, also one that stands for a lost reply. *)
SubmitFails(p) ==
    LET o == Cur(p) IN
    /\ At(p, "reply")
    /\ Costs("unanswered", venue[o] # "refused")
    /\ draft' = [draft EXCEPT ![o] = "rejected"]
    /\ NextOrder(p)
    /\ UNCHANGED <<plan, booked, venue, got, task, updates, mode, found>>

(* The promise race: the tick gives up, the executor goes on. *)
GiveUp(p) ==
    /\ run[p].pc \in {"prepare", "attempt", "submit", "reply"}
    /\ run[p].awaited
    /\ Mishap("timeout")
    /\ plan' = [plan EXCEPT ![p] = "failed"]
    /\ run' = [run EXCEPT ![p].awaited = FALSE]
    /\ UNCHANGED <<draft, booked, venue, got, task, updates, mode, found>>

Unaccepted(o) == draft[o] = "rejected" \/ got[o] = "rejected"
Forget(p) == got' = [o \in Orders |-> IF o \in OrdersOf(p) THEN "none" ELSE got[o]]

(* persistOrder: what the executor returned is written over the row. *)
Record(p) ==
    LET o == Cur(p) IN
    /\ At(p, "record")
    /\ booked' = IF got[o] = "none" THEN booked
                 ELSE [booked EXCEPT ![o].status = got[o]]
    /\ \/ /\ run[p].i < PerPlan
          /\ run' = [run EXCEPT ![p].i = @ + 1]
          /\ UNCHANGED got
       \/ /\ run[p].i = PerPlan
          /\ IF \A any \in OrdersOf(p) : Unaccepted(any)
             THEN run' = [run EXCEPT ![p].pc = "verdict", ![p].i = 1]
             ELSE End(p)
          /\ Forget(p)
    /\ UNCHANGED <<plan, draft, venue, task, updates, mode, found, mishaps>>

(* No order was accepted. *)
Verdict(p) ==
    /\ At(p, "verdict")
    /\ plan' = [plan EXCEPT ![p] = "failed"]
    /\ End(p)
    /\ UNCHANGED <<draft, booked, venue, got, task, updates, mode, found, mishaps>>

(* A write throws; executeDecision returns, and the plan stays as it is. *)
ExecutionThrows(p) ==
    /\ run[p].pc \in {"planned", "prepare", "attempt", "reply", "record", "verdict"}
    /\ Mishap("database")
    /\ End(p)
    /\ Forget(p)
    /\ UNCHANGED <<plan, draft, booked, venue, task, updates, mode, found>>

-----------------------------------------------------------------------------
(* The venue (external), and its private stream. *)
Land(o) ==
    /\ venue[o] = "coming"
    /\ \/ /\ venue' = [venue EXCEPT ![o] = "refused"]
          /\ Tell(o, "rejected") \/ UNCHANGED updates
       \/ venue' = [venue EXCEPT ![o] = "open"] /\ Tell(o, "open")
       \/ venue' = [venue EXCEPT ![o] = "filled"] /\ Tell(o, "filled")
    /\ UNCHANGED <<plan, draft, booked, run, got, task, mode, found, mishaps>>

Fill(o) ==
    /\ venue[o] \in Live
    /\ \/ venue' = [venue EXCEPT ![o] = "filled"] /\ Tell(o, "filled")
       \/ /\ venue[o] = "open"
          /\ venue' = [venue EXCEPT ![o] = "partial"]
          /\ Tell(o, "open")
    /\ UNCHANGED <<plan, draft, booked, run, got, task, mode, found, mishaps>>

VenueCancels(o) ==
    /\ venue[o] \in Live
    /\ venue' = [venue EXCEPT ![o] = CancelledFrom(@)]
    /\ Tell(o, "cancelled")
    /\ UNCHANGED <<plan, draft, booked, run, got, task, mode, found, mishaps>>

(* Each update has a handler of its own, so that they end in any order. *)
ApplyUpdate(o, status) ==
    /\ <<o, status>> \in updates
    /\ updates' = updates \ {<<o, status>>}
    /\ booked' = [booked EXCEPT ![o].status = status]
    /\ UNCHANGED <<plan, draft, venue, run, got, task, mode, found, mishaps>>

(* tryCompleteLivePlan, after a fill, a cancellation or a refusal; when it *)
(* runs is left open.                                                      *)
TryComplete ==
    /\ mode \in {"up", "paused"}
    /\ \E o \in Orders : venue[o] \in Traded \cup {"cancelled", "refused"}
    /\ plan' = Settled
    /\ UNCHANGED <<draft, booked, venue, run, got, task, updates, mode, found,
                   mishaps>>

Disconnect ==
    /\ mode = "up"
    /\ mode' = "paused"
    /\ UNCHANGED <<plan, draft, booked, venue, run, got, task, updates, found,
                   mishaps>>

Reconnect ==
    /\ mode = "paused"
    /\ mode' = "up"
    /\ UNCHANGED <<plan, draft, booked, venue, run, got, task, updates, found,
                   mishaps>>

-----------------------------------------------------------------------------
(* The process dies; what it has sent may still reach the venue. *)
Die ==
    /\ \/ mode # "down"
       \/ \E s \in Slots : task[s] # Idle
       \/ \E p \in Plans : run[p].pc \notin {"none", "end"}
    /\ run' = [p \in Plans |->
                  IF run[p].pc = "none" THEN run[p]
                  ELSE [pc |-> "end", i |-> 1, awaited |-> FALSE]]
    /\ got' = [o \in Orders |-> "none"]
    /\ task' = [s \in Slots |-> Idle]
    /\ updates' = {}
    /\ mode' = "down"
    /\ found' = NothingFound
    /\ UNCHANGED <<plan, draft, booked, venue, mishaps>>

(* stop() waits for nothing that is under way. *)
Stop ==
    /\ mode \in {"up", "paused"}
    /\ mode' = "down"
    /\ UNCHANGED <<plan, draft, booked, venue, run, got, task, updates, found,
                   mishaps>>

(* start(): first of all the incomplete plans are reconciled. *)
Start ==
    /\ mode = "down"
    /\ Costs("undrained", \/ \E s \in Slots : task[s] # Idle
                          \/ \E p \in Plans : run[p].pc \notin {"none", "end"})
    /\ mode' = "recovering"
    /\ found' = [NothingFound EXCEPT !.todo = Incomplete]
    /\ UNCHANGED <<plan, draft, booked, venue, run, got, task, updates>>

(* The two reads are under way at once. *)
FetchOpen ==
    /\ mode = "recovering"
    /\ "open" \notin found.read
    /\ found' = [found EXCEPT !.read = @ \cup {"open"},
                              !.open = {o \in Orders : venue[o] \in Live}]
    /\ UNCHANGED <<plan, draft, booked, venue, run, got, task, updates, mode,
                   mishaps>>

FetchFills ==
    /\ mode = "recovering"
    /\ "fills" \notin found.read
    /\ found' = [found EXCEPT !.read = @ \cup {"fills"},
                              !.fills = {o \in Orders : venue[o] \in Traded}]
    /\ UNCHANGED <<plan, draft, booked, venue, run, got, task, updates, mode,
                   mishaps>>

(* Mutant of JudgedByRows: an order whose sending was only attempted is    *)
(* taken for one that was not sent.                                        *)
JudgedUnsent(p, seen, ambiguous) ==
    LET rows == {o \in OrdersOf(p) : draft[o] # "none"}
        refs == {o \in rows : booked[o].linked}
    IN  IF \E o \in seen : venue[o] \in Live THEN plan[p]
        ELSE IF \/ \E o \in seen : venue[o] = "filled"
                \/ \E o \in refs : booked[o].status = "filled" THEN "completed"
        ELSE IF ambiguous THEN plan[p]
        ELSE IF refs = {} THEN "failed"
        ELSE plan[p]

(* evaluateOrderbookRecovery, when neither the open orders nor the fills   *)
(* have settled it; the lookups answered for the orders of seen.           *)
JudgedByRows(p, seen, ambiguous) ==
    LET rows == {o \in OrdersOf(p) : draft[o] # "none"}
        refs == {o \in rows : booked[o].linked}
    IN  IF \E o \in seen : venue[o] \in Live THEN plan[p]
        ELSE IF \/ \E o \in seen : venue[o] = "filled"
                \/ \E o \in refs : booked[o].status = "filled" THEN "completed"
        ELSE IF ambiguous THEN plan[p]
        ELSE IF /\ \A o \in rows : draft[o] = "rejected"
                /\ \A o \in refs : booked[o].status \in {"cancelled", "rejected"}
             THEN "failed"
        ELSE IF \E o \in rows : draft[o] = "prepared" THEN "failed"
        ELSE plan[p]

(* One plan of reconcileIncompletePlans.  The orders are asked for by both *)
(* references, if the port can: which lookups answer is open.              *)
RecoverPlan(p) ==
    LET rows == {o \in OrdersOf(p) : draft[o] # "none"}
        refs == {o \in rows : booked[o].linked}
    IN  /\ found.read = {"open", "fills"}
        /\ p \in found.todo
        /\ \/ /\ rows = {}
              /\ plan' = [plan EXCEPT ![p] = "failed"]
           \/ /\ refs \cap found.open # {}
              /\ UNCHANGED plan
           \/ /\ refs \cap found.open = {}
              /\ refs \cap found.fills # {}
              /\ plan' = [plan EXCEPT ![p] = "completed"]
           \/ /\ rows # {}
              /\ refs \cap (found.open \cup found.fills) = {}
              /\ \E seen \in SUBSET rows, ambiguous \in BOOLEAN :
                    plan' = [plan EXCEPT ![p] = JudgedByRows(p, seen, ambiguous)]
        /\ found' = [found EXCEPT !.todo = @ \ {p}]
        /\ UNCHANGED <<draft, booked, venue, run, got, task, updates, mode,
                       mishaps>>

(* The venue does not answer, or the judgement of one plan throws: failed. *)
RecoverBlind ==
    /\ mode = "recovering"
    /\ found.todo # {}
    /\ Mishap("blind")
    /\ \E failed \in {found.todo} \cup {{p} : p \in found.todo} :
          /\ plan' = [p \in Plans |-> IF p \in failed THEN "failed" ELSE plan[p]]
          /\ found' = [found EXCEPT !.todo = @ \ failed]
    /\ UNCHANGED <<draft, booked, venue, run, got, task, updates, mode>>

(* The private stream is subscribed and the actor begins to tick. *)
Recovered ==
    /\ mode = "recovering"
    /\ found.todo = {}
    /\ mode' = "up"
    /\ found' = NothingFound
    /\ UNCHANGED <<plan, draft, booked, venue, run, got, task, updates, mishaps>>

-----------------------------------------------------------------------------
TickStep(s) ==
    \/ \E o \in Orders : Cancel(s, o) \/ CancelFails(s, o)
    \/ WriteCancelled(s) \/ Guard(s) \/ CrashEnds(s) \/ Hold(s)
    \/ \E p \in Plans : Decide(s, p)

Execution(p) ==
    \/ Refuse(p) \/ Approve(p) \/ RejectUnsupported(p) \/ Prepare(p)
    \/ Attempt(p) \/ Submit(p) \/ Acknowledge(p) \/ SubmitFails(p)
    \/ Record(p) \/ Verdict(p)

Stream == \E o \in Orders, status \in Status : ApplyUpdate(o, status)

Recovery ==
    \/ FetchOpen \/ FetchFills \/ Recovered
    \/ \E p \in Plans : RecoverPlan(p)

Next ==
    \/ \E s \in Slots :
          TickStep(s) \/ BeginTick(s) \/ BeginStopLoss(s) \/ BeginCrash(s)
    \/ \E p \in Plans : Execution(p) \/ GiveUp(p) \/ ExecutionThrows(p)
    \/ \E o \in Orders : Land(o) \/ Fill(o) \/ VenueCancels(o)
    \/ Stream \/ TryComplete \/ Recovery \/ RecoverBlind
    \/ Disconnect \/ Reconnect \/ Die \/ Stop \/ Start

Spec == Init /\ [][Next]_vars

(* Every await ends, an order that was sent lands, the stream's handlers   *)
(* run, the scan timer fires and a start goes through.  Nothing is assumed *)
(* of fills, cancellations, failures and operators.                        *)
FairSpec ==
    /\ Spec
    /\ \A s \in Slots : WF_vars(TickStep(s)) /\ WF_vars(BeginTick(s))
    /\ \A p \in Plans : WF_vars(Execution(p))
    /\ \A o \in Orders : WF_vars(Land(o))
    /\ WF_vars(Stream) /\ WF_vars(TryComplete) /\ WF_vars(Recovery)
    /\ WF_vars(Start) /\ WF_vars(Reconnect)

-----------------------------------------------------------------------------
None(kinds) == mishaps \cap kinds = {}

(* An order the venue may know of has a durable row that says it was       *)
(* attempted, whatever fails and whenever the process dies: recovery has   *)
(* something to look the order up by (live-executor.ts, the two upserts    *)
(* before submitOrder).                                                    *)
WriteAhead ==
    \A o \in Orders : venue[o] # "absent" => draft[o] \in {"attempting", "rejected"}

(* A row that says cancelled or filled is right for good, however replies, *)
(* updates and cancellations overtake one another; so is one that says     *)
(* rejected by the venue, and, if every order was answered, one that says  *)
(* so of its own accord (TERMINAL_ORDER_STATUSES of repositories.ts).      *)
StatusTruth ==
    \A o \in Orders :
        /\ booked[o].status = "filled" => venue[o] = "filled"
        /\ booked[o].status = "cancelled" => venue[o] \in {"cancelled", "cut"}
        /\ booked[o].status = "rejected" => venue[o] = "refused"
        /\ draft[o] = "rejected" /\ None({"unanswered"})
              => venue[o] \in {"absent", "refused"}

(* A plan that was resolved has no order on its way or at the venue, and   *)
(* sends none any more: the guard of the tick may rely on it.              *)
ResolvedIsOver ==
    None({"timeout", "unanswered", "undrained", "blind"}) =>
        \A p \in Plans : plan[p] \in Resolved =>
            /\ run[p].pc \notin {"planned", "prepare", "attempt", "submit", "reply"}
            /\ \A o \in OrdersOf(p) : venue[o] \notin {"coming"} \cup Live

(* The orders of at most one plan are on their way or at the venue (the    *)
(* live guard of the tick: skip it "if there are unresolved live plans to  *)
(* prevent overlapping real orders").                                      *)
Working(p) == \E o \in OrdersOf(p) : venue[o] \in {"coming"} \cup Live

NoOverlap == \A p, q \in Plans : Working(p) /\ Working(q) => p = q

(* So it is over deaths, crashes and restarts, if ticks, starts and        *)
(* executions do not run into one another and the venue answers.           *)
OneLivePlan ==
    None({"overlap", "stop_loss", "timeout", "unanswered", "undrained", "blind"})
        => NoOverlap

(* A plan is completed only if it traded, and failed only if it did not:   *)
(* the plan is what later decisions and reports look at.                   *)
OutcomeIsTrue ==
    None({"timeout", "unanswered", "undrained", "blind"}) =>
        \A p \in Plans :
            /\ plan[p] = "completed" => \E o \in OrdersOf(p) : venue[o] \in Traded
            /\ plan[p] = "failed" => \A o \in OrdersOf(p) : venue[o] \notin Traded

(* A verdict on a plan is not changed by the other parties that judge it:  *)
(* the tick, the stream, the recovery and the executor's own report.       *)
VerdictsStand ==
    [][None({"timeout", "undrained"}) =>
          \A p \in Plans : plan[p] \in Resolved => plan'[p] = plan[p]]_vars

(* A plan whose orders are over, and known to be, is resolved while the    *)
(* bot keeps on ticking ("Attempt to resolve plans whose orders are all    *)
(* terminal", trading-actor.ts).                                           *)
KnownOver(p) ==
    /\ plan[p] = "executing" /\ run[p].pc = "end"
    /\ mode = "up" /\ updates = {}
    /\ \A o \in OrdersOf(p) :
          booked[o].linked /\ booked[o].status \in Over

PlansResolve ==
    \A p \in Plans : KnownOver(p) ~> plan[p] \in Resolved \/ mode # "up"
=============================================================================
