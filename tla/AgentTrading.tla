---------------------------- MODULE AgentTrading ----------------------------
(***************************************************************************)
(* One agent trading actor: how external decisions, stop-loss exits, the   *)
(* exits of the technical scan and the fills of the private stream change  *)
(* its positions, and what becomes of them across a stop, a crash and a    *)
(* restart:                                                                *)
(*   packages/worker/src/agent-trading-actor.ts                            *)
(*   packages/worker/src/composition/decision-intake.ts   submitDecision   *)
(*   packages/engine/src/decision-intake.ts               the pipeline     *)
(*   packages/engine/src/{planner,risk-gate,fill-accounting}.ts            *)
(*   packages/db/src/repositories.ts                      PositionRepository *)
(*                                                                         *)
(* An activity is a task in a slot; one step is the code between two       *)
(* awaits that other activities can tell apart.  A position is its signed  *)
(* size.  In paper mode the executor's result carries the fills; in live   *)
(* mode it carries none, and they come over the private stream.            *)
(***************************************************************************)
EXTENDS Integers, Sequences, FiniteSets

CONSTANTS
    Instruments, NoInstrument,
    Modes,            \* a subset of {"paper", "live"}
    Intents,          \* the intents of external decisions
    Sizes,            \* their target sizes
    MaxOpenPositions, \* riskLimits.maxOpenPositions
    BreakerLimit,     \* maxConsecutiveVenueErrors
    Slots,            \* bound: activities under way at once
    MaxActivities,    \* bound: activities over the whole behaviour
    FaultKinds,       \* which failures the environment may cause ...
    MaxFaults         \* ... and the bound on how many it causes

ASSUME TradingAssumption ==
    /\ NoInstrument \notin Instruments /\ IsFiniteSet(Instruments)
    /\ Modes \subseteq {"paper", "live"}
    /\ Intents \subseteq {"go_long", "go_short", "go_flat", "increase",
                          "decrease"}
    /\ Sizes \subseteq Nat
    /\ MaxOpenPositions \in Nat /\ BreakerLimit \in Nat \ {0}
    /\ MaxActivities \in Nat /\ MaxFaults \in Nat /\ IsFiniteSet(Slots)

VARIABLES
    mode,          \* execution mode, fixed for the actor
    life,          \* off; starting (running, not yet rehydrated); up
    paused,        \* the private stream is down
    positions,     \* positions[i]: signed size, and whether it carries its id
    exitLevels,    \* exitLevels[i]: the side the stored levels are for
    exiting,       \* exitingInstruments
    stopLossExits, \* the instruments with a recorded stop-loss exit
    errors,        \* consecutive errors counted by the circuit breaker
    accounted,     \* fills that both the equity and the daily-loss tracker contain
    tasks,         \* tasks[s]: the activity in slot s
    queue,         \* streamMutationQueue: messages not yet taken
    mutation,      \* the stream mutation under way
    rows,          \* rows[i][id]: the open position row with, or without, an id
    inserted,      \* number of fill rows
    filled,        \* filled[i]: the sum of the fill rows
    executed,      \* executed[i]: what was really bought and sold
    activities,    \* activities started so far
    protection,    \* history: the side an executed decision gave levels for
    stoppedOut,    \* history: instruments a stop-loss exit was executed on
    wrongs,        \* history: orders that must not have been sent
    happened       \* history: the failures and races that have happened

memory == <<positions, exitLevels, exiting, stopLossExits, errors, accounted>>
database == <<rows, inserted, filled>>
stream == <<paused, queue, mutation>>
history == <<protection, stoppedOut, wrongs>>
vars == <<mode, life, memory, tasks, stream, database, executed, activities,
          history, happened>>

Side(n) == IF n > 0 THEN "long" ELSE IF n < 0 THEN "short" ELSE "none"
Abs(n) == IF n < 0 THEN -n ELSE n
Flat == [net |-> 0, named |-> FALSE]
NoRow == [net |-> 0, levels |-> "none"]

Task ==
    [pc      : {"idle", "next", "context", "risk", "execute", "fill", "store",
                "wrap"},
     kind    : {"none", "decide", "exit", "scan", "crash"},
     inst    : Instruments \cup {NoInstrument},
     intent  : Intents \cup {"go_flat"},
     size    : Sizes \cup {0},
     levels  : BOOLEAN,        \* the decision carries stopLoss or takeProfit
     guarded : BOOLEAN,        \* its instrument is in exitingInstruments
     count   : 0..Cardinality(Instruments),  \* openPositionCount
     cooled  : BOOLEAN,        \* lastStopLossExitMs is set
     pos     : [net : Int, named : BOOLEAN], \* the position it read
     orders  : Seq(Int),       \* planned orders, then fills not yet recorded
     result  : Int,            \* the position it arrives at
     outcome : {"none", "ok", "refused", "failed", "rejected", "noop"},
     todo    : SUBSET Instruments]

IdleTask ==
    [pc |-> "idle", kind |-> "none", inst |-> NoInstrument, intent |-> "go_flat",
     size |-> 0, levels |-> FALSE, guarded |-> FALSE, count |-> 0,
     cooled |-> FALSE, pos |-> Flat, orders |-> <<>>, result |-> 0,
     outcome |-> "none", todo |-> {}]
NoMutation == [pc |-> "idle", inst |-> NoInstrument, pos |-> Flat, qty |-> 0]

(* "crossed": two activities, or an activity and a fill, of one instrument  *)
(* did not know of each other, or one was cut off by a stop.               *)
Races == {"crossed", "early", "untold", "drift", "unsummed", "write",
          "stale_count", "stale_cooldown", "increase_opens", "reverse",
          "live_exit", "restart"}

TypeOK ==
    /\ mode \in Modes /\ life \in {"off", "starting", "up"}
    /\ paused \in BOOLEAN
    /\ positions \in [Instruments -> [net : Int, named : BOOLEAN]]
    /\ exitLevels \in [Instruments -> {"none", "long", "short"}]
    /\ exiting \subseteq Instruments /\ stopLossExits \subseteq Instruments
    /\ errors \in Nat /\ accounted \in Nat
    /\ tasks \in [Slots -> Task]
    /\ queue \in Seq([kind : {"fill", "position"}, inst : Instruments, qty : Int])
    /\ mutation \in [pc : {"idle", "insert", "upsert"},
                     inst : Instruments \cup {NoInstrument},
                     pos : [net : Int, named : BOOLEAN], qty : Int]
    /\ rows \in [Instruments -> [{"named", "unnamed"} ->
                    [net : Int, levels : {"none", "long", "short"}]]]
    /\ inserted \in Nat
    /\ filled \in [Instruments -> Int] /\ executed \in [Instruments -> Int]
    /\ activities \in 0..MaxActivities
    /\ protection \in [Instruments -> {"none", "long", "short"}]
    /\ stoppedOut \subseteq Instruments
    /\ wrongs \subseteq {"turned", "reentry"}
    /\ happened \in [faults : 0..MaxFaults, races : SUBSET Races]

Init ==
    /\ mode \in Modes /\ life = "off" /\ paused = FALSE
    /\ positions = [i \in Instruments |-> Flat]
    /\ exitLevels = [i \in Instruments |-> "none"]
    /\ exiting = {} /\ stopLossExits = {} /\ errors = 0 /\ accounted = 0
    /\ tasks = [s \in Slots |-> IdleTask]
    /\ queue = <<>> /\ mutation = NoMutation
    /\ rows = [i \in Instruments |-> [k \in {"named", "unnamed"} |-> NoRow]]
    /\ inserted = 0
    /\ filled = [i \in Instruments |-> 0] /\ executed = [i \in Instruments |-> 0]
    /\ activities = 0 /\ stoppedOut = {} /\ wrongs = {}
    /\ protection = [i \in Instruments |-> "none"]
    /\ happened = [faults |-> 0, races |-> {}]

-----------------------------------------------------------------------------
(* What the engine computes *)

(* planDecision: the orders that lead from the position n to the target,   *)
(* signed.  A long, or short, position larger than its target is kept.     *)
PlanDecision(intent, size, n) ==
    LET missing == size - Abs(n)
        toward(sign) == IF sign * n < 0
                        THEN IF size > 0 THEN <<-n, sign * size>> ELSE <<-n>>
                        ELSE IF missing > 0 THEN <<sign * missing>> ELSE <<>>
    IN
    CASE intent = "go_flat"  -> IF n = 0 THEN <<>> ELSE <<-n>>
      [] intent = "go_long"  -> toward(1)
      [] intent = "go_short" -> toward(-1)
      [] intent = "increase" ->
             IF missing > 0 THEN <<IF n < 0 THEN -missing ELSE missing>> ELSE <<>>
      [] intent = "decrease" ->
             IF missing < 0 THEN <<IF n < 0 THEN -missing ELSE missing>> ELSE <<>>

RiskReducing(intent) == intent \in {"go_flat", "decrease"}
Opens(t) == t.intent \in {"go_long", "go_short"} /\ t.pos.net = 0
Reverses(t) ==
    \/ t.intent = "go_long" /\ t.pos.net < 0
    \/ t.intent = "go_short" /\ t.pos.net > 0

CooldownBlocksNothing(t) == FALSE   \* mutant: no stop-loss cooldown

(* checkRisk: the cooldown after a stop-loss exit and the limit on open    *)
(* positions, both as the intake captured them.                            *)
CooldownBlocks(t) == ~RiskReducing(t.intent) /\ t.cooled

LimitAllowsOneMore(t) ==            \* mutant: off by one
    Opens(t) /\ t.count > MaxOpenPositions
LimitBlocks(t) == Opens(t) /\ t.count >= MaxOpenPositions

Unpromoted(r, pos) == r             \* mutant: the row without an id stays

Promoted(r, pos) ==
    IF pos.named /\ r["named"].net = 0
    THEN [named |-> r["unnamed"], unnamed |-> NoRow] ELSE r

(* PositionRepository.upsert: the open row with the same identity is       *)
(* updated or closed; a row without an id is promoted when an id is known. *)
Upsert(r, pos, levels) ==
    LET k == IF pos.named THEN "named" ELSE "unnamed"
        p == Promoted(r, pos)
        kept == IF levels # "none" THEN levels
                ELSE IF Side(p[k].net) = Side(pos.net) THEN p[k].levels
                ELSE "none"
    IN  [p EXCEPT ![k] = IF pos.net = 0 THEN NoRow
                         ELSE [net |-> pos.net, levels |-> kept]]

-----------------------------------------------------------------------------
(* What excuses a property is noted once; after "crossed" the finer races  *)
(* no longer matter.                                                       *)
Noted(S) ==
    IF "crossed" \in S THEN S \cap {"crossed", "early", "unsummed", "write"} ELSE S
Note(S) == happened' = [happened EXCEPT !.races = Noted(@ \cup S)]
Fault(k, S) ==
    /\ k \in FaultKinds /\ happened.faults < MaxFaults
    /\ happened' = [faults |-> happened.faults + 1,
                    races  |-> Noted(happened.races \cup S)]

Running == life # "off"
BreakerOpen == errors >= BreakerLimit
OpenPositionCount == Cardinality({i \in Instruments : positions[i].net # 0})
ReallyOpen == {i \in Instruments : executed[i] # 0}

(* A task that holds a position it has read earlier; two of them on one    *)
(* instrument, or one and a fill, do not know of each other.  The per-trade *)
(* exits are to exclude one another by exitingInstruments.                 *)
Holds(t) ==
    \/ t.pc \in {"risk", "execute", "fill", "store", "wrap"}
    \/ t.pc = "context" /\ t.kind = "crash"
Rivals(s, i) ==
    {r \in Slots \ {s} : /\ tasks[r].inst = i /\ Holds(tasks[r])
                         /\ ~(tasks[s].guarded /\ tasks[r].guarded)}
StreamBehind(i) ==
    \/ mutation.pc # "idle" /\ mutation.inst = i
    \/ \E n \in DOMAIN queue : queue[n].inst = i
ReadRaces(s, i) ==
    IF Rivals(s, i) # {} \/ StreamBehind(i) THEN {"crossed"} ELSE {}

Idle(s) == tasks[s].pc = "idle" /\ activities < MaxActivities
Become(s, t) == tasks' = [tasks EXCEPT ![s] = t]
Begin(s, t) ==
    /\ Become(s, t)
    /\ activities' = activities + 1

SetPosition(i, p) ==
    positions' = [positions EXCEPT ![i] = IF p.net = 0 THEN Flat ELSE p]

(* What follows an activity of its own: the crash goes on to the next      *)
(* instrument, an exit leaves exitingInstruments (finally).                *)
After(t) ==
    IF t.kind = "crash" THEN [IdleTask EXCEPT !.pc = "next", !.kind = "crash",
                                              !.todo = t.todo]
    ELSE IdleTask
ReleasedOnSuccess(t) ==             \* mutant: then() for finally()
    IF t.guarded /\ t.outcome = "ok" THEN exiting \ {t.inst} ELSE exiting
Released(t) == IF t.guarded THEN exiting \ {t.inst} ELSE exiting

End(s) ==
    /\ Become(s, After(tasks[s]))
    /\ exiting' = Released(tasks[s])

-----------------------------------------------------------------------------
(* What starts an activity *)

IntakeOpen == Running /\ ~paused /\ ~BreakerOpen

(* getIntakeDeps of submitDecision: its guards, and what it captures.      *)
Submit(s, i) ==
    /\ Idle(s) /\ IntakeOpen
    /\ \E intent \in Intents, size \in Sizes, levels \in BOOLEAN :
          /\ levels => ~RiskReducing(intent)
          /\ Begin(s, [IdleTask EXCEPT
                 !.pc = "context", !.kind = "decide", !.inst = i,
                 !.intent = intent, !.size = size, !.levels = levels,
                 !.count = OpenPositionCount, !.cooled = i \in stopLossExits])
    /\ Note(IF life = "starting" THEN {"early"} ELSE {})
    /\ UNCHANGED <<mode, life, memory, stream, database, executed, history>>

(* The mark has gone through a level, or the portfolio-level threshold: an *)
(* exit is started, and the decision that led here is rejected.  Only the  *)
(* per-trade exit looks at exitingInstruments.                             *)
StartExit(s, i, guarded) ==
    /\ positions[i].net # 0
    /\ Begin(s, [IdleTask EXCEPT !.pc = "context", !.kind = "exit",
                                 !.inst = i, !.guarded = guarded])
    /\ exiting' = IF guarded THEN exiting \cup {i} ELSE exiting
    /\ UNCHANGED <<mode, life, positions, exitLevels, stopLossExits, errors,
                   accounted, stream, database, executed, history, happened>>

StopLossAtIntake(s, i) ==
    /\ Idle(s) /\ IntakeOpen /\ life = "up"
    /\ \/ StartExit(s, i, FALSE)
       \/ exitLevels[i] # "none" /\ i \notin exiting /\ StartExit(s, i, TRUE)

MonitorUnguarded(i) == TRUE         \* mutant: exitingInstruments is not read
NotExiting(i) == i \notin exiting

(* checkAllPerTradeLevels, every few seconds. *)
MonitorLevels(s, i) ==
    /\ Idle(s) /\ life = "up"
    /\ exitLevels[i] # "none" /\ NotExiting(i)
    /\ StartExit(s, i, TRUE)

(* The technical scan closes a position (autonomousExit); one scan at a    *)
(* time, one position after the other, without the guards of the intake.   *)
ScanExit(s, i) ==
    /\ Idle(s) /\ life = "up"
    /\ \A r \in Slots : tasks[r].kind # "scan"
    /\ positions[i].net # 0
    /\ Begin(s, [IdleTask EXCEPT !.pc = "context", !.kind = "scan", !.inst = i])
    /\ UNCHANGED <<mode, life, memory, stream, database, executed, history,
                   happened>>

-----------------------------------------------------------------------------
(* The pipeline of a decision: context, plan, risk, execution, bookkeeping *)

(* fetchMark has answered: the position is read and the orders planned.    *)
(* emergency go-flat has read the position before.                         *)
ContextReady(s) ==
    LET t == tasks[s]
        pos == IF t.kind = "crash" THEN t.pos ELSE positions[t.inst]
        orders == PlanDecision(t.intent, t.size, pos.net)
    IN
    /\ t.pc = "context"
    /\ IF t.kind = "exit" /\ pos.net = 0
       THEN End(s) /\ UNCHANGED happened
       ELSE /\ Become(s, [t EXCEPT
                   !.pc = IF orders = <<>> THEN "wrap" ELSE "risk",
                   !.pos = pos, !.result = pos.net, !.orders = orders,
                   !.outcome = IF orders = <<>> THEN "noop" ELSE "none"])
            /\ Note(IF t.kind = "crash" THEN {} ELSE ReadRaces(s, t.inst))
            /\ UNCHANGED exiting
    /\ UNCHANGED <<mode, life, positions, exitLevels, stopLossExits, errors,
                   accounted, stream, database, executed, activities, history>>

(* There is no mark. *)
NoContext(s) ==
    /\ tasks[s].pc = "context"
    /\ Fault("mark", {})
    /\ End(s)
    /\ UNCHANGED <<mode, life, positions, exitLevels, stopLossExits, errors,
                   accounted, stream, database, executed, activities, history>>

CheckRisk(s) ==
    LET t == tasks[s] IN
    /\ t.pc = "risk"
    /\ Become(s, IF CooldownBlocks(t) \/ LimitBlocks(t)
                 THEN [t EXCEPT !.pc = "wrap", !.outcome = "rejected"]
                 ELSE [t EXCEPT !.pc = "execute"])
    /\ UNCHANGED <<mode, life, memory, stream, database, executed, activities,
                   history, happened>>

(* One of the other limits (size, notional, loss), which hold for exits    *)
(* too as far as they concern an order.                                    *)
OtherLimit(s) ==
    LET t == tasks[s] IN
    /\ t.pc = "risk"
    /\ Fault("limit", {})
    /\ Become(s, [t EXCEPT !.pc = "wrap", !.outcome = "rejected"])
    /\ UNCHANGED <<mode, life, memory, stream, database, executed, activities,
                   history>>

(* A plan has two orders at most: one that closes and one that opens. *)
Total(orders) ==
    CASE orders = <<>>     -> 0
      [] Len(orders) = 1   -> orders[1]
      [] OTHER             -> orders[1] + orders[2]

(* The orders of t are executed: what is held changes, and what should not *)
(* have been sent is noted.                                                *)
Turns(t, d) ==
    LET before == executed[t.inst] IN
    RiskReducing(t.intent) /\ before + d # 0 /\ Side(before + d) # Side(before)
TradeRaces(t) ==
    (IF t.cooled # (t.inst \in stopLossExits) THEN {"stale_cooldown"} ELSE {})
    \cup (IF Opens(t) /\ t.count # Cardinality(ReallyOpen) THEN {"stale_count"}
          ELSE {})
    \cup (IF t.intent = "increase" /\ t.pos.net = 0 THEN {"increase_opens"} ELSE {})
    \cup (IF Reverses(t) THEN {"reverse"} ELSE {})
Trade(t) ==
    LET i == t.inst
        d == Total(t.orders)
        side == Side(executed[i] + d)
    IN
    /\ executed' = [executed EXCEPT ![i] = @ + d]
    /\ protection' = [protection EXCEPT ![i] =
           IF t.levels \/ side = "none" THEN side ELSE @]
    /\ stoppedOut' = IF t.kind = "exit" THEN stoppedOut \cup {i} ELSE stoppedOut
    /\ wrongs' = wrongs
           \cup (IF Turns(t, d) THEN {"turned"} ELSE {})
           \cup (IF ~RiskReducing(t.intent) /\ i \in stoppedOut THEN {"reentry"}
                 ELSE {})

(* applyFillAccounting: the position moves on, the trackers take the fill. *)
Account(t) == [t EXCEPT !.pc = "fill", !.result = @ + Head(t.orders)]

(* The paper executor fills every order; the first fill is accounted.      *)
ExecutePaper(s) ==
    LET t == tasks[s] IN
    /\ t.pc = "execute" /\ mode = "paper"
    /\ Trade(t) /\ Note(TradeRaces(t))
    /\ Become(s, Account(t))
    /\ accounted' = accounted + 1
    /\ UNCHANGED <<mode, life, positions, exitLevels, exiting, stopLossExits,
                   errors, stream, database, activities>>

(* A fill and the position that results from it reach the private stream,  *)
(* in either order; before it is open (the last step of start()) and while *)
(* it is down both are lost.                                               *)
Reports(t) ==
    LET fill(d) == [kind |-> "fill", inst |-> t.inst, qty |-> d]
        now == [kind |-> "position", inst |-> t.inst,
                qty |-> executed[t.inst] + Total(t.orders)]
        fills == [n \in DOMAIN t.orders |-> fill(t.orders[n])]
    IN  IF paused \/ life # "up" THEN {<<>>} ELSE {fills, Append(fills, now), <<now>> \o fills}

ReportRaces(q) ==
    IF q = <<>> \/ Head(q).kind = "position" THEN {"crossed"} ELSE {}

(* The venue acknowledges: the result carries no fills, and the position   *)
(* read before is stored.                                                  *)
ExecuteLive(s) ==
    LET t == tasks[s] IN
    /\ t.pc = "execute" /\ mode = "live"
    /\ \E q \in Reports(t) :
          /\ queue' = queue \o q
          /\ Note(TradeRaces(t) \cup ReportRaces(q))
    /\ Trade(t)
    /\ Become(s, [t EXCEPT !.pc = "store", !.orders = <<>>])
    /\ UNCHANGED <<mode, life, memory, paused, mutation, database, activities>>

(* The venue refuses: the orders are rejected, the result is ok(); like    *)
(* any result it is stored.                                                *)
VenueRefuses(s) ==
    LET t == tasks[s] IN
    /\ t.pc = "execute" /\ mode = "live"
    /\ Fault("refuse", TradeRaces(t))
    /\ Become(s, [t EXCEPT !.pc = "store", !.orders = <<>>, !.outcome = "refused"])
    /\ UNCHANGED <<mode, life, memory, stream, database, executed, activities,
                   history>>

(* The executor needs more than 30 s.  The decision has failed; the order  *)
(* is executed all the same.                                               *)
ExecutionTimesOut(s) ==
    LET t == tasks[s] IN
    /\ t.pc = "execute" /\ mode = "live"
    /\ \E q \in Reports(t) :
          /\ queue' = queue \o q
          /\ Fault("timeout", {"untold"} \cup TradeRaces(t) \cup ReportRaces(q))
    /\ Trade(t)
    /\ Become(s, [t EXCEPT !.pc = "wrap", !.orders = <<>>, !.outcome = "failed"])
    /\ UNCHANGED <<mode, life, memory, paused, mutation, database, activities>>

(* persistFill; then the next fill, or the position.                       *)
FillStored(s) ==
    LET t == tasks[s]
        rest == [t EXCEPT !.orders = Tail(@)]
    IN
    /\ t.pc = "fill"
    /\ inserted' = inserted + 1
    /\ filled' = [filled EXCEPT ![t.inst] = @ + Head(t.orders)]
    /\ IF rest.orders # <<>>
       THEN Become(s, Account(rest)) /\ accounted' = accounted + 1
       ELSE Become(s, [rest EXCEPT !.pc = "store"]) /\ UNCHANGED accounted
    /\ UNCHANGED <<mode, life, positions, exitLevels, exiting, stopLossExits,
                   errors, stream, rows, executed, activities, history, happened>>

(* The write of a fill or of the position throws: the pipeline ends there, *)
(* and no outcome is recorded.                                             *)
WriteFails(s) ==
    /\ tasks[s].pc \in {"fill", "store"}
    /\ Fault("write", {"write"})
    /\ End(s)
    /\ UNCHANGED <<mode, life, positions, exitLevels, stopLossExits, errors,
                   accounted, stream, database, executed, activities, history>>

(* The side a decision's stopLoss and takeProfit were given for. *)
LevelSide(t) ==
    CASE t.intent = "go_long" -> "long"
      [] t.intent = "go_short" -> "short"
      [] OTHER -> Side(t.result)
NewLevels(t) == IF t.levels THEN LevelSide(t) ELSE "none"

(* Only the exits pass an instrument id to the engine. *)
PassesId(t) == t.kind \in {"exit", "crash"}

LevelsAfter(i, p, levels) ==
    IF p.net = 0 THEN "none" ELSE IF levels # "none" THEN levels ELSE exitLevels[i]

(* persistPosition: the row is written, then map and levels follow. *)
Stored(s) ==
    LET t == tasks[s]
        i == t.inst
        pos == [net |-> t.result, named |-> PassesId(t) \/ positions[i].named]
    IN
    /\ t.pc = "store"
    /\ rows' = [rows EXCEPT ![i] = Upsert(@, pos, NewLevels(t))]
    /\ SetPosition(i, pos)
    /\ exitLevels' = [exitLevels EXCEPT ![i] = LevelsAfter(i, pos, NewLevels(t))]
    /\ Become(s, [t EXCEPT !.pc = "wrap",
                           !.outcome = IF @ = "none" THEN "ok" ELSE @])
    /\ Note(IF PassesId(t) /\ mode = "live" THEN {"live_exit"} ELSE {})
    /\ UNCHANGED <<mode, life, exiting, stopLossExits, errors, accounted, stream,
                   inserted, filled, executed, activities, history>>

-----------------------------------------------------------------------------
(* What is done with the result *)

(* recordExecutionOutcome: only a timeout is a failure; a refused order is *)
(* the success of an executor that returned.                               *)
CountsDown(outcome) ==              \* mutant: a success takes one error back
    IF outcome = "failed" THEN errors + 1
    ELSE IF outcome = "ok" THEN errors - 1 ELSE errors
Counted(outcome) ==
    CASE outcome = "failed" -> errors + 1
      [] outcome \in {"ok", "refused"} -> 0
      [] OTHER -> errors

Decided(s) ==
    LET t == tasks[s] IN
    /\ t.pc = "wrap" /\ t.kind = "decide"
    /\ End(s)
    /\ errors' = Counted(t.outcome)
    /\ UNCHANGED <<mode, life, positions, exitLevels, stopLossExits, accounted,
                   stream, database, executed, activities, history, happened>>

WentFlat(t) == t.outcome # "failed" /\ t.result = 0
Written(t) == [net |-> t.result, named |-> t.pos.named]

RecordExit(t) ==
    IF WentFlat(t) /\ t.kind = "exit" THEN stopLossExits \cup {t.inst}
    ELSE stopLossExits

(* An exit writes the result over the map, also when nothing was executed; *)
(* recordStopLossExit starts the cooldown.                                 *)
ExitDone(s) ==
    LET t == tasks[s] IN
    /\ t.pc = "wrap" /\ t.kind \in {"exit", "crash", "scan"}
    /\ End(s)
    /\ SetPosition(t.inst, Written(t))
    /\ exitLevels' = [exitLevels EXCEPT ![t.inst] =
                          IF WentFlat(t) THEN "none" ELSE @]
    /\ stopLossExits' = RecordExit(t)
    /\ UNCHANGED <<mode, life, errors, accounted, stream, database, executed,
                   activities, history, happened>>

-----------------------------------------------------------------------------
(* The private stream: one mutation after the other *)

Crossed(i) ==
    IF \E s \in Slots : tasks[s].inst = i /\ Holds(tasks[s]) THEN {"crossed"}
    ELSE {}

FilledUnsigned(p, qty) ==           \* mutant: a sale adds to the position
    [p EXCEPT !.net = @ + Abs(qty)]
Filled(p, qty) == [p EXCEPT !.net = @ + qty]

(* persistPrivateStreamFill up to its first await: the position is read,   *)
(* the trackers take the fill.                                             *)
TakeFill ==
    LET m == Head(queue) IN
    /\ mutation.pc = "idle" /\ Running
    /\ queue # <<>> /\ m.kind = "fill"
    /\ accounted' = accounted + 1
    /\ mutation' = [pc |-> "insert", inst |-> m.inst, qty |-> m.qty,
                    pos |-> Filled(positions[m.inst], m.qty)]
    /\ queue' = Tail(queue)
    /\ Note(Crossed(m.inst))
    /\ UNCHANGED <<mode, life, positions, exitLevels, exiting, stopLossExits,
                   errors, tasks, paused, database, executed, activities,
                   history>>

(* persistPrivateStreamPositionState: the map, then the row. *)
ApplyToMap(i, p) ==
    /\ SetPosition(i, p)
    /\ exitLevels' = [exitLevels EXCEPT ![i] = LevelsAfter(i, p, "none")]

(* The fill row is there. *)
FillRecorded ==
    LET m == mutation IN
    /\ m.pc = "insert"
    /\ inserted' = inserted + 1
    /\ filled' = [filled EXCEPT ![m.inst] = @ + m.qty]
    /\ ApplyToMap(m.inst, m.pos)
    /\ mutation' = [m EXCEPT !.pc = "upsert"]
    /\ Note(Crossed(m.inst))
    /\ UNCHANGED <<mode, life, exiting, stopLossExits, errors, accounted, tasks,
                   paused, queue, rows, executed, activities, history>>

(* persistPrivateStreamPosition: the venue's word, whatever was counted.   *)
TakePosition ==
    LET m == Head(queue)
        pos == [net |-> m.qty, named |-> positions[m.inst].named]
    IN
    /\ mutation.pc = "idle" /\ Running
    /\ queue # <<>> /\ m.kind = "position"
    /\ ApplyToMap(m.inst, pos)
    /\ mutation' = [pc |-> "upsert", inst |-> m.inst, qty |-> 0, pos |-> pos]
    /\ queue' = Tail(queue)
    /\ Note(Crossed(m.inst))
    /\ UNCHANGED <<mode, life, exiting, stopLossExits, errors, accounted, tasks,
                   paused, database, executed, activities, history>>

RowUpdated ==
    LET m == mutation IN
    /\ m.pc = "upsert"
    /\ rows' = [rows EXCEPT ![m.inst] = Upsert(@, m.pos, "none")]
    /\ mutation' = NoMutation
    /\ UNCHANGED <<mode, life, memory, tasks, paused, queue, inserted, filled,
                   executed, activities, history, happened>>

(* crash(): every open position gets its go-flat, one after the other      *)
(* (crashPolicy auto_go_flat), then stop().  A second cause of a crash     *)
(* starts it over, for the actor runs until the end of it.                 *)
Crash(s) ==
    /\ Idle(s)
    /\ Begin(s, [IdleTask EXCEPT !.pc = "next", !.kind = "crash",
                     !.todo = {i \in Instruments : positions[i].net # 0}])

MutationFails(s) ==
    /\ mutation.pc # "idle" /\ life = "up"
    /\ Fault("write", {"write"})
    /\ Crash(s)
    /\ mutation' = NoMutation
    /\ UNCHANGED <<mode, life, memory, paused, queue, database, executed, history>>

StreamCloses(s) ==
    /\ mode = "live" /\ life = "up"
    /\ Fault("close", {})
    /\ Crash(s)
    /\ UNCHANGED <<mode, life, memory, stream, database, executed, history>>

CrashNext(s) ==
    LET t == tasks[s] IN
    /\ t.pc = "next" /\ t.todo # {}
    /\ \E i \in t.todo :
          LET rest == [t EXCEPT !.todo = @ \ {i}] IN
          IF positions[i].net = 0
          THEN Become(s, rest) /\ UNCHANGED happened
          ELSE /\ Become(s, [rest EXCEPT !.pc = "context", !.inst = i,
                                         !.pos = positions[i]])
               /\ Note(ReadRaces(s, i))
    /\ UNCHANGED <<mode, life, memory, stream, database, executed, activities,
                   history>>

StreamDrops ==
    /\ mode = "live" /\ life = "up" /\ ~paused
    /\ Fault("drop", {})
    /\ paused' = TRUE
    /\ UNCHANGED <<mode, life, memory, tasks, queue, mutation, database,
                   executed, activities, history>>

StreamReconnects ==
    /\ paused
    /\ paused' = FALSE
    /\ UNCHANGED <<mode, life, memory, tasks, queue, mutation, database,
                   executed, activities, history, happened>>

-----------------------------------------------------------------------------
(* Stop, death, start *)

AtWork == \E s \in Slots : tasks[s].pc \notin {"idle", "next"}
Torn == IF AtWork \/ queue # <<>> \/ mutation.pc # "idle" THEN {"crossed"} ELSE {}

(* stop(): activities under way go on, queued messages are not applied.    *)
Halt ==
    /\ life' = "off" /\ paused' = FALSE
    /\ queue' = <<>>

StopActor ==
    /\ life = "up" /\ Halt
    /\ Note(Torn)
    /\ UNCHANGED <<mode, memory, tasks, mutation, database, executed, activities,
                   history>>

CrashEnds(s) ==
    LET t == tasks[s] IN
    /\ t.pc = "next" /\ t.todo = {}
    /\ Halt
    /\ Become(s, IdleTask)
    /\ Note(Torn)
    /\ UNCHANGED <<mode, memory, mutation, database, executed, activities, history>>

ProcessDies ==
    /\ Running
    /\ Fault("die", Torn)
    /\ Halt
    /\ tasks' = [s \in Slots |-> IdleTask]
    /\ mutation' = NoMutation
    /\ UNCHANGED <<mode, memory, database, executed, activities, history>>

(* start() of a new actor: it runs, and has an executor, before it knows   *)
(* its positions.  (Bound: nothing of the previous actor is under way.)    *)
StartActor ==
    /\ life = "off"
    /\ \A s \in Slots : tasks[s].pc = "idle"
    /\ mutation.pc = "idle"
    /\ life' = "starting"
    /\ positions' = [i \in Instruments |-> Flat]
    /\ exitLevels' = [i \in Instruments |-> "none"]
    /\ exiting' = {} /\ stopLossExits' = {} /\ errors' = 0 /\ accounted' = 0
    /\ Note(IF stoppedOut # {} THEN {"restart"} ELSE {})
    /\ UNCHANGED <<mode, tasks, stream, database, executed, activities, history>>

OpenRows(i) == {k \in {"named", "unnamed"} : rows[i][k].net # 0}

LevelsForgotten(i, k) == "none"     \* mutant: the levels are not read back
LevelsReadBack(i, k) == rows[i][k].levels

(* rehydratePositions: of two open rows the last one counts. *)
Rehydrate(chosen) ==
    /\ positions' = [i \in Instruments |->
           IF chosen[i] = "none" THEN positions[i]
           ELSE [net |-> rows[i][chosen[i]].net, named |-> chosen[i] = "named"]]
    /\ exitLevels' = [i \in Instruments |->
           IF chosen[i] # "none" /\ LevelsReadBack(i, chosen[i]) # "none"
           THEN LevelsReadBack(i, chosen[i]) ELSE exitLevels[i]]
RowChoices ==
    {c \in [Instruments -> {"none", "named", "unnamed"}] :
        \A i \in Instruments :
            IF OpenRows(i) = {} THEN c[i] = "none" ELSE c[i] \in OpenRows(i)}

TrackersFresh == 0                  \* mutant: the history is not summed up
TrackersRehydrated == inserted

(* initializeRiskTrackers sums up the fills recorded.  If a sum cannot be  *)
(* read, the equity tracker begins with what the positions have realized   *)
(* and the daily-loss tracker begins fresh: some fills are in neither, or  *)
(* in one only.                                                            *)
InitializeRiskTrackers(read) ==
    accounted' \in IF read THEN {TrackersRehydrated} ELSE 0..inserted

RowsAgree ==
    \A i \in Instruments : rows[i]["named"].net + rows[i]["unnamed"].net = executed[i]

(* startReconciler, in live mode: the first pass blocks trading when it    *)
(* cannot be made, or when rows and venue differ.  If it is not configured *)
(* or only alerts, or within its threshold, the actor comes up all the     *)
(* same.                                                                   *)
StartReconciler ==
    life' \in IF mode = "live" THEN {"up", "off"} ELSE {"up"}
Drift == IF mode = "live" /\ life' = "up" /\ ~RowsAgree THEN {"drift"} ELSE {}

Recover ==
    /\ life = "starting"
    /\ \E c \in RowChoices : Rehydrate(c)
    /\ StartReconciler
    /\ LET met == Drift \cup IF AtWork THEN {"early"} ELSE {} IN
       \/ InitializeRiskTrackers(TRUE) /\ Note(met)
       \/ InitializeRiskTrackers(FALSE) /\ Fault("sum", met \cup {"unsummed"})
    /\ UNCHANGED <<mode, exiting, stopLossExits, errors, tasks, stream, database,
                   executed, activities, history>>

(* The rows cannot be read: the error is logged, the actor starts flat.    *)
(* The fills may be out of reach as well.                                  *)
RehydrationFails ==
    /\ life = "starting"
    /\ \E read \in BOOLEAN :
          /\ InitializeRiskTrackers(read)
          /\ Fault("read", {"untold"} \cup IF read THEN {} ELSE {"unsummed"})
    /\ StartReconciler
    /\ UNCHANGED <<mode, positions, exitLevels, exiting, stopLossExits, errors,
                   tasks, stream, database, executed, activities, history>>

-----------------------------------------------------------------------------
Pipeline(s) ==
    \/ ContextReady(s) \/ NoContext(s)    \/ CheckRisk(s) \/ OtherLimit(s)
    \/ ExecutePaper(s) \/ ExecuteLive(s)  \/ VenueRefuses(s)
    \/ ExecutionTimesOut(s) \/ FillStored(s) \/ WriteFails(s) \/ Stored(s)
    \/ Decided(s)      \/ ExitDone(s)

Next ==
    \/ \E s \in Slots :
          \/ Pipeline(s)
          \/ MutationFails(s) \/ StreamCloses(s) \/ CrashNext(s) \/ CrashEnds(s)
          \/ \E i \in Instruments :
                \/ Submit(s, i)        \/ StopLossAtIntake(s, i)
                \/ MonitorLevels(s, i) \/ ScanExit(s, i)
    \/ TakeFill \/ FillRecorded \/ TakePosition \/ RowUpdated
    \/ StreamDrops \/ StreamReconnects
    \/ StopActor \/ ProcessDies \/ StartActor \/ Recover \/ RehydrationFails

Spec == Init /\ [][Next]_vars

-----------------------------------------------------------------------------
Excused(kinds) == happened.races \cap kinds # {}
Misread == {"crossed", "early", "untold", "drift", "write"}

AtRest(i) ==
    /\ life = "up" /\ ~StreamBehind(i)
    /\ \A s \in Slots : tasks[s].inst = i => ~Holds(tasks[s])

(* What the actor believes to hold is the sum of the fills it recorded and *)
(* what was really executed, across restarts, unless two activities (or an *)
(* activity and a fill) of one instrument crossed, a read or write failed, *)
(* or a restart went on although rows and venue differed.                  *)
PositionTrue ==
    ~Excused(Misread) =>
        \A i \in Instruments : AtRest(i) =>
            /\ positions[i].net = filled[i]
            /\ filled[i] = executed[i]

(* The position table says the same: one open row, with the position's     *)
(* size, or none.                                                          *)
RowsTrue ==
    ~Excused(Misread \cup {"live_exit"}) =>
        \A i \in Instruments : AtRest(i) =>
            /\ Cardinality(OpenRows(i)) = IF positions[i].net = 0 THEN 0 ELSE 1
            /\ \A k \in OpenRows(i) : rows[i][k].net = positions[i].net

(* Every fill is in the loss and equity trackers exactly once: they hold   *)
(* the recorded fills and those about to be recorded, however activities   *)
(* cross and across restarts, unless a fill could not be written, the      *)
(* recorded ones could not be summed up, or a decision came too early.     *)
TrackersTrue ==
    ~Excused({"write", "unsummed", "early"}) =>
        (life = "up" =>
            accounted = inserted + Cardinality({s \in Slots : tasks[s].pc = "fill"})
                        + (IF mutation.pc = "insert" THEN 1 ELSE 0))

(* No exit sells more than is held, or buys: per-trade exits, which the    *)
(* monitor and the intake start independently, exclude one another.        *)
ExitsOnlyClose ==
    ~Excused(Misread \cup {"live_exit"}) => "turned" \notin wrongs

(* No more instruments are open than the limit allows, unless a decision   *)
(* was checked against a count that had changed since, or opened a         *)
(* position with "increase".                                               *)
OpenPositionsLimited ==
    ~Excused(Misread \cup {"stale_count", "increase_opens"}) =>
        Cardinality(ReallyOpen) <= MaxOpenPositions

(* The levels an executed decision carried are monitored for as long as the *)
(* position is held, across restarts, and no longer: "stored on the         *)
(* position and enforced by the agent actor's own exit-level check"         *)
(* (docs/bug-reports/2026/10/06/001-...:6).                                 *)
LevelsArmed ==
    ~Excused(Misread \cup {"reverse"}) =>
        \A i \in Instruments : AtRest(i) => exitLevels[i] = protection[i]

(* After a stop-loss exit no decision re-enters the instrument, until the  *)
(* actor is restarted or when the decision was captured before the exit    *)
(* (paper: in live mode the exit never looks flat).                        *)
CooldownHolds ==
    ~Excused(Misread \cup {"stale_cooldown", "restart"}) =>
        "reentry" \notin wrongs

(* exitingInstruments holds the instruments of the per-trade exits under   *)
(* way, no other: one that is never released would leave a position        *)
(* unprotected for good.                                                   *)
ExitGuardHeld ==
    Running => exiting = {tasks[s].inst : s \in {r \in Slots : tasks[r].guarded}}
=============================================================================
