------------------------ MODULE AgentTrading_proofs -------------------------
EXTENDS AgentTrading, TLAPS, FiniteSetTheorems, SequenceTheorems

Orders == {o \in Seq(Int) : Len(o) <= 2}

LEMMA PlanType ==
  ASSUME NEW intent \in {"go_long", "go_short", "go_flat", "increase", "decrease"},
         NEW size \in Nat, NEW n \in Int
  PROVE  PlanDecision(intent, size, n) \in Orders
<1>1. Abs(n) \in Nat
  BY DEF Abs
<1>2. <<>> \in Orders
  BY DEF Orders
<1>3. \A a \in Int : <<a>> \in Orders
  BY DEF Orders
<1>4. \A a, b \in Int : <<a, b>> \in Orders
  BY DEF Orders
<1> DEFINE m == size - Abs(n)
<1>7. m \in Int
  BY <1>1
<1>8. CASE intent = "go_long"
  BY <1>2, <1>3, <1>4, <1>7, <1>8 DEF PlanDecision
<1>9. CASE intent = "go_short"
  BY <1>2, <1>3, <1>4, <1>7, <1>9 DEF PlanDecision
<1>10. CASE intent = "go_flat"
  BY <1>2, <1>3, <1>10 DEF PlanDecision
<1>11. CASE intent = "increase"
  BY <1>2, <1>3, <1>7, <1>11 DEF PlanDecision
<1>12. CASE intent = "decrease"
  BY <1>2, <1>3, <1>7, <1>12 DEF PlanDecision
<1> QED BY <1>8, <1>9, <1>10, <1>11, <1>12

LEMMA CountType == Cardinality(Instruments) \in Nat
  BY TradingAssumption, FS_CardinalityType

LEMMA IdleType == IdleTask \in Task
<1>1. 0 \in 0..Cardinality(Instruments)
  BY CountType
<1>2. <<>> \in Seq(Int)
  OBVIOUS
<1>3. 0 \in Int /\ FALSE \in BOOLEAN
  OBVIOUS
<1>4. Flat \in [net : Int, named : BOOLEAN]
  BY <1>3, Zenon DEF Flat
<1>5. 0 \in Sizes \cup {0} /\ "go_flat" \in Intents \cup {"go_flat"} /\ {} \in SUBSET Instruments /\ NoInstrument \in Instruments \cup {NoInstrument}
  OBVIOUS
<1> HIDE DEF Flat
<1> QED BY <1>1, <1>2, <1>3, <1>4, <1>5, ZenonT(60) DEF IdleTask, Task

Pc == {"idle", "next", "context", "risk", "execute", "fill", "store", "wrap"}
Outcome == {"none", "ok", "refused", "failed", "rejected", "noop"}
Pos == [net : Int, named : BOOLEAN]

(* The ways in which the actions make a task, or change it. *)
LEMMA NewTask ==
  ASSUME NEW p \in Pc, NEW k \in {"decide", "exit", "scan", "crash"},
         NEW i \in Instruments, NEW guarded \in BOOLEAN
  PROVE  /\ [IdleTask EXCEPT !.pc = p, !.kind = k, !.inst = i, !.guarded = guarded] \in Task
         /\ [IdleTask EXCEPT !.pc = p, !.kind = k, !.inst = i] \in Task
<1>1. [IdleTask EXCEPT !.pc = p, !.kind = k, !.inst = i, !.guarded = guarded] \in Task
  BY IdleType, ZenonT(60) DEF Task, Pc
<1>2. [IdleTask EXCEPT !.pc = p, !.kind = k, !.inst = i] \in Task
  BY IdleType, ZenonT(60) DEF Task, Pc
<1> QED BY <1>1, <1>2

LEMMA CrashTask ==
  ASSUME NEW todo \in SUBSET Instruments
  PROVE  [IdleTask EXCEPT !.pc = "next", !.kind = "crash", !.todo = todo] \in Task
  BY IdleType, ZenonT(60) DEF Task

LEMMA NewDecision ==
  ASSUME NEW i \in Instruments, NEW intent \in Intents, NEW size \in Sizes,
         NEW levels \in BOOLEAN, NEW count \in 0..Cardinality(Instruments),
         NEW cooled \in BOOLEAN
  PROVE  [IdleTask EXCEPT !.pc = "context", !.kind = "decide", !.inst = i,
             !.intent = intent, !.size = size, !.levels = levels,
             !.count = count, !.cooled = cooled] \in Task
  BY IdleType, ZenonT(60) DEF Task

LEMMA MovedTask ==
  ASSUME NEW t \in Task, NEW p \in Pc, NEW o \in Outcome, NEW q \in Seq(Int),
         NEW r \in Int, NEW pos \in Pos
  PROVE  /\ [t EXCEPT !.pc = p] \in Task
         /\ [t EXCEPT !.orders = q] \in Task
         /\ [t EXCEPT !.pc = p, !.result = r] \in Task
         /\ [t EXCEPT !.pc = p, !.outcome = o] \in Task
         /\ [t EXCEPT !.pc = p, !.orders = q] \in Task
         /\ [t EXCEPT !.pc = p, !.orders = q, !.outcome = o] \in Task
         /\ [t EXCEPT !.pc = p, !.pos = pos, !.result = r, !.orders = q, !.outcome = o] \in Task
<1>1. [t EXCEPT !.pc = p] \in Task
  BY ZenonT(60) DEF Task, Pc, Outcome, Pos
<1>2. [t EXCEPT !.orders = q] \in Task
  BY ZenonT(60) DEF Task, Pc, Outcome, Pos
<1>3. [t EXCEPT !.pc = p, !.result = r] \in Task
  BY ZenonT(60) DEF Task, Pc, Outcome, Pos
<1>4. [t EXCEPT !.pc = p, !.outcome = o] \in Task
  BY ZenonT(60) DEF Task, Pc, Outcome, Pos
<1>5. [t EXCEPT !.pc = p, !.orders = q] \in Task
  BY ZenonT(60) DEF Task, Pc, Outcome, Pos
<1>6. [t EXCEPT !.pc = p, !.orders = q, !.outcome = o] \in Task
  BY ZenonT(60) DEF Task, Pc, Outcome, Pos
<1>7. [t EXCEPT !.pc = p, !.pos = pos, !.result = r, !.orders = q, !.outcome = o] \in Task
  BY ZenonT(60) DEF Task, Pc, Outcome, Pos
<1> QED BY <1>1, <1>2, <1>3, <1>4, <1>5, <1>6, <1>7

LEMMA CrashedTask ==
  ASSUME NEW t \in Task, NEW todo \in SUBSET Instruments, NEW i \in Instruments, NEW pos \in Pos
  PROVE  /\ [t EXCEPT !.todo = todo] \in Task
         /\ [t EXCEPT !.pc = "context", !.inst = i, !.pos = pos] \in Task
<1>1. [t EXCEPT !.todo = todo] \in Task
  BY ZenonT(60) DEF Task
<1>2. [t EXCEPT !.pc = "context", !.inst = i, !.pos = pos] \in Task
  BY ZenonT(60) DEF Task, Pos
<1> QED BY <1>1, <1>2

LEMMA AfterType == ASSUME NEW t \in Task PROVE After(t) \in Task
<1>1. t.todo \in SUBSET Instruments
  BY DEF Task
<1>2. [IdleTask EXCEPT !.pc = "next", !.kind = "crash", !.todo = t.todo] \in Task
  BY <1>1, CrashTask
<1> QED BY <1>2, IdleType DEF After

-----------------------------------------------------------------------------
Working(t) == t.pc \notin {"idle", "next"}

(* A task is well formed: one that is at work has an instrument, one that  *)
(* is about to execute or to record has an order at hand.                  *)
TaskOK(t) ==
    /\ t \in Task
    /\ Len(t.orders) <= 2
    /\ t.pc \in {"risk", "execute", "fill"} => t.orders # <<>>
    /\ Working(t) => t.inst \in Instruments
    /\ t.guarded => Working(t)

(* exitingInstruments: one guarded exit per instrument in it. *)
Guards ==
    /\ \A s \in Slots : tasks[s].guarded => tasks[s].inst \in exiting
    /\ \A r, s \in Slots :
          tasks[r].guarded /\ tasks[s].guarded /\ tasks[r].inst = tasks[s].inst
          => r = s
    /\ Running => \A i \in exiting :
                      \E s \in Slots : tasks[s].guarded /\ tasks[s].inst = i

ShapeInv ==
    /\ TypeOK
    /\ \A s \in Slots : TaskOK(tasks[s])
    /\ mutation.pc # "idle" => mutation.inst \in Instruments
    /\ Guards

Happened == [faults : 0..MaxFaults, races : SUBSET Races]

LEMMA NotedType == ASSUME NEW S \in SUBSET Races PROVE Noted(S) \in SUBSET Races
  BY DEF Noted

LEMMA NoteType ==
  ASSUME happened \in Happened, NEW S \in SUBSET Races, Note(S)
  PROVE  happened' \in Happened
<1>1. Noted(happened.races \cup S) \in SUBSET Races
  BY NotedType DEF Happened
<1> QED BY <1>1 DEF Happened, Note

LEMMA FaultType ==
  ASSUME happened \in Happened, NEW S \in SUBSET Races, NEW k, Fault(k, S)
  PROVE  happened' \in Happened
<1>1. Noted(happened.races \cup S) \in SUBSET Races
  BY NotedType DEF Happened
<1>2. happened.faults + 1 \in 0..MaxFaults
  BY TradingAssumption DEF Happened, Fault
<1> QED BY <1>1, <1>2 DEF Happened, Fault

(* One task moves on; the others stay. *)
LEMMA OneMoves ==
  ASSUME ShapeInv, NEW s \in Slots, NEW u, TaskOK(u), tasks' = [tasks EXCEPT ![s] = u]
  PROVE  /\ tasks' \in [Slots -> Task]
         /\ \A r \in Slots : TaskOK(tasks'[r])
         /\ tasks'[s] = u
         /\ \A r \in Slots \ {s} : tasks'[r] = tasks[r]
  BY DEF ShapeInv, TypeOK, TaskOK

(* ... and keeps, or never had, its guard. *)
LEMMA GuardStays ==
  ASSUME ShapeInv, NEW s \in Slots, NEW u, tasks' = [tasks EXCEPT ![s] = u],
         u.guarded <=> tasks[s].guarded, u.inst = tasks[s].inst \/ ~u.guarded,
         exiting' = exiting, life' = life \/ life' = "off"
  PROVE  Guards'
<1>1. tasks \in [Slots -> Task]
  BY DEF ShapeInv, TypeOK
<1> QED BY <1>1 DEF ShapeInv, Guards, Running

LEMMA GuardGoes ==
  ASSUME ShapeInv, NEW s \in Slots, End(s), life' = life
  PROVE  Guards'
<1>1. tasks \in [Slots -> Task]
  BY DEF ShapeInv, TypeOK
<1>2. ~After(tasks[s]).guarded
  BY DEF After, IdleTask
<1> QED BY <1>1, <1>2 DEF ShapeInv, Guards, Running, End, Become, Released

LEMMA GuardComes ==
  ASSUME ShapeInv, NEW s \in Slots, NEW u, tasks' = [tasks EXCEPT ![s] = u],
         ~tasks[s].guarded, u.guarded, u.inst \notin exiting,
         exiting' = exiting \cup {u.inst}, life' = life
  PROVE  Guards'
<1>1. tasks \in [Slots -> Task]
  BY DEF ShapeInv, TypeOK
<1> QED BY <1>1 DEF ShapeInv, Guards, Running
-----------------------------------------------------------------------------
(* What starts an activity. *)
LEMMA CountOfOpen == OpenPositionCount \in 0..Cardinality(Instruments)
<1>1. {i \in Instruments : positions[i].net # 0} \in SUBSET Instruments
  OBVIOUS
<1>2. OpenPositionCount \in Nat /\ OpenPositionCount <= Cardinality(Instruments)
  BY <1>1, TradingAssumption, FS_Subset, FS_CardinalityType DEF OpenPositionCount
<1> QED BY <1>2, CountType

LEMMA Begins ==
  ASSUME ShapeInv, NEW s \in Slots, NEW u, TaskOK(u), Idle(s), Begin(s, u)
  PROVE  /\ tasks' = [tasks EXCEPT ![s] = u]
         /\ tasks' \in [Slots -> Task]
         /\ \A r \in Slots : TaskOK(tasks'[r])
         /\ activities' \in 0..MaxActivities
         /\ ~tasks[s].guarded
<1>1. tasks' = [tasks EXCEPT ![s] = u] /\ activities' = activities + 1
  BY DEF Begin, Become
<1>2. activities \in 0..MaxActivities /\ activities < MaxActivities
  BY DEF ShapeInv, TypeOK, Idle
<1>3. ~tasks[s].guarded
  <2>1. TaskOK(tasks[s]) /\ tasks[s].pc = "idle"
    BY Zenon DEF ShapeInv, Idle
  <2> QED BY <2>1 DEF TaskOK, Working
<1>4. tasks' \in [Slots -> Task] /\ \A r \in Slots : TaskOK(tasks'[r])
  BY <1>1, OneMoves, Zenon
<1>5. activities' \in 0..MaxActivities
  BY <1>1, <1>2, TradingAssumption
<1> QED BY <1>1, <1>3, <1>4, <1>5, Zenon

LEMMA SubmitShape ==
  ASSUME ShapeInv, NEW s \in Slots, NEW i \in Instruments, Submit(s, i)
  PROVE  ShapeInv'
<1>1. PICK intent \in Intents, size \in Sizes, levels \in BOOLEAN :
         Begin(s, [IdleTask EXCEPT
             !.pc = "context", !.kind = "decide", !.inst = i,
             !.intent = intent, !.size = size, !.levels = levels,
             !.count = OpenPositionCount, !.cooled = i \in stopLossExits])
  BY DEF Submit
<1> DEFINE u == [IdleTask EXCEPT
             !.pc = "context", !.kind = "decide", !.inst = i,
             !.intent = intent, !.size = size, !.levels = levels,
             !.count = OpenPositionCount, !.cooled = i \in stopLossExits]
<1>2. u \in Task
  <2>1. (i \in stopLossExits) \in BOOLEAN
    OBVIOUS
  <2> QED BY <2>1, CountOfOpen, NewDecision, Zenon
<1>3. u.pc = "context" /\ u.inst = i /\ u.orders = <<>> /\ ~u.guarded
  BY DEF IdleTask
<1>4. TaskOK(u)
  BY <1>2, <1>3 DEF TaskOK, Working
<1>5. Begin(s, u) /\ Idle(s)
  BY <1>1 DEF Submit
<1> HIDE DEF u
<1>6. /\ tasks' = [tasks EXCEPT ![s] = u] /\ tasks' \in [Slots -> Task]
      /\ \A r \in Slots : TaskOK(tasks'[r])
      /\ activities' \in 0..MaxActivities /\ ~tasks[s].guarded
  BY <1>4, <1>5, Begins
<1>7. Guards'
  BY <1>3, <1>6, GuardStays DEF Submit, memory
<1>8. happened' \in Happened
  <2>1. (IF life = "starting" THEN {"early"} ELSE {}) \in SUBSET Races
    BY DEF Races
  <2>2. happened \in Happened
    BY DEF ShapeInv, TypeOK, Happened
  <2> QED BY <2>1, <2>2, NoteType DEF Submit
<1>9. TypeOK'
  BY <1>6, <1>8 DEF ShapeInv, TypeOK, Submit, memory, stream, database, history, Happened
<1> QED BY <1>6, <1>7, <1>9 DEF ShapeInv, Submit, stream

LEMMA StartExitShape ==
  ASSUME ShapeInv, NEW s \in Slots, NEW i \in Instruments, NEW guarded \in BOOLEAN,
         Idle(s), guarded => i \notin exiting, StartExit(s, i, guarded)
  PROVE  ShapeInv'
<1> DEFINE u == [IdleTask EXCEPT !.pc = "context", !.kind = "exit",
                                 !.inst = i, !.guarded = guarded]
<1>1. u \in Task
  BY NewTask, Zenon DEF Pc
<1>2. u.pc = "context" /\ u.inst = i /\ u.orders = <<>> /\ (u.guarded <=> guarded)
  BY DEF IdleTask
<1>3. TaskOK(u)
  BY <1>1, <1>2 DEF TaskOK, Working
<1>4. Begin(s, u)
  BY DEF StartExit
<1> HIDE DEF u
<1>5. /\ tasks' = [tasks EXCEPT ![s] = u] /\ tasks' \in [Slots -> Task]
      /\ \A r \in Slots : TaskOK(tasks'[r])
      /\ activities' \in 0..MaxActivities /\ ~tasks[s].guarded
  BY <1>3, <1>4, Begins
<1>6. Guards'
  <2>1. CASE guarded
    BY <2>1, <1>2, <1>5, GuardComes DEF StartExit
  <2>2. CASE ~guarded
    BY <2>2, <1>2, <1>5, GuardStays DEF StartExit
  <2> QED BY <2>1, <2>2
<1>7. exiting' \in SUBSET Instruments
  BY DEF ShapeInv, TypeOK, StartExit
<1>8. TypeOK'
  BY <1>5, <1>7 DEF ShapeInv, TypeOK, StartExit, stream, database, history, Happened
<1> QED BY <1>5, <1>6, <1>8 DEF ShapeInv, StartExit, stream

LEMMA StartsShape ==
  ASSUME ShapeInv, NEW s \in Slots, NEW i \in Instruments,
         StopLossAtIntake(s, i) \/ MonitorLevels(s, i)
  PROVE  ShapeInv'
  BY StartExitShape DEF StopLossAtIntake, MonitorLevels, NotExiting

LEMMA ScanExitShape ==
  ASSUME ShapeInv, NEW s \in Slots, NEW i \in Instruments, ScanExit(s, i)
  PROVE  ShapeInv'
<1> DEFINE u == [IdleTask EXCEPT !.pc = "context", !.kind = "scan", !.inst = i]
<1>1. u \in Task
  BY NewTask, Zenon DEF Pc
<1>2. u.pc = "context" /\ u.inst = i /\ u.orders = <<>> /\ ~u.guarded
  BY DEF IdleTask
<1>3. TaskOK(u)
  BY <1>1, <1>2 DEF TaskOK, Working
<1>4. Begin(s, u) /\ Idle(s)
  BY DEF ScanExit
<1> HIDE DEF u
<1>5. /\ tasks' = [tasks EXCEPT ![s] = u] /\ tasks' \in [Slots -> Task]
      /\ \A r \in Slots : TaskOK(tasks'[r])
      /\ activities' \in 0..MaxActivities /\ ~tasks[s].guarded
  BY <1>3, <1>4, Begins
<1>6. Guards'
  BY <1>2, <1>5, GuardStays DEF ScanExit, memory
<1>7. TypeOK'
  BY <1>5 DEF ShapeInv, TypeOK, ScanExit, memory, stream, database, history, Happened
<1> QED BY <1>5, <1>6, <1>7 DEF ShapeInv, ScanExit, stream


-----------------------------------------------------------------------------
(* The pipeline. *)
LEMMA Moves ==
  ASSUME ShapeInv, NEW s \in Slots, Working(tasks[s]), NEW u \in Task, Become(s, u),
         u.inst = tasks[s].inst, u.guarded <=> tasks[s].guarded, Working(u),
         Len(u.orders) <= 2,
         u.pc \in {"risk", "execute", "fill"} => u.orders # <<>>,
         exiting' = exiting, life' = life
  PROVE  /\ tasks' \in [Slots -> Task]
         /\ \A r \in Slots : TaskOK(tasks'[r])
         /\ Guards'
<1>1. TaskOK(tasks[s])
  BY DEF ShapeInv
<1>2. u.inst \in Instruments
  BY <1>1 DEF TaskOK
<1>3. TaskOK(u)
  BY <1>2 DEF TaskOK
<1>4. tasks' = [tasks EXCEPT ![s] = u]
  BY DEF Become
<1>5. tasks' \in [Slots -> Task] /\ \A r \in Slots : TaskOK(tasks'[r])
  BY <1>3, <1>4, OneMoves, Zenon
<1>6. Guards'
  BY <1>4, GuardStays, Zenon
<1> QED BY <1>5, <1>6, Zenon

LEMMA Ends ==
  ASSUME ShapeInv, NEW s \in Slots, End(s), life' = life
  PROVE  /\ tasks' \in [Slots -> Task]
         /\ \A r \in Slots : TaskOK(tasks'[r])
         /\ exiting' \in SUBSET Instruments
         /\ Guards'
<1> DEFINE u == After(tasks[s])
<1>1. tasks[s] \in Task
  BY DEF ShapeInv, TypeOK
<1>2. u \in Task
  BY <1>1, AfterType
<1>3. u.pc \in {"idle", "next"} /\ u.orders = <<>> /\ ~u.guarded
  BY DEF After, IdleTask
<1>4. TaskOK(u)
  BY <1>2, <1>3 DEF TaskOK, Working
<1>5. tasks' = [tasks EXCEPT ![s] = u]
  BY DEF End, Become
<1> HIDE DEF u
<1>6. tasks' \in [Slots -> Task] /\ \A r \in Slots : TaskOK(tasks'[r])
  BY <1>4, <1>5, OneMoves, Zenon
<1>7. exiting' \in SUBSET Instruments
  BY DEF ShapeInv, TypeOK, End, Released
<1>8. Guards'
  BY GuardGoes, Zenon
<1> QED BY <1>6, <1>7, <1>8, Zenon

LEMMA HappenedType == ASSUME ShapeInv PROVE happened \in Happened
  BY DEF ShapeInv, TypeOK, Happened

LEMMA RacesType ==
  ASSUME NEW s, NEW i, NEW t
  PROVE  /\ ReadRaces(s, i) \in SUBSET Races
         /\ Crossed(i) \in SUBSET Races
         /\ Torn \in SUBSET Races
         /\ TradeRaces(t) \in SUBSET Races
<1>1. ReadRaces(s, i) \in SUBSET Races
  BY DEF ReadRaces, Races
<1>2. Crossed(i) \in SUBSET Races
  BY DEF Crossed, Races
<1>3. Torn \in SUBSET Races
  BY DEF Torn, Races
<1>4. TradeRaces(t) \in SUBSET Races
  BY DEF TradeRaces, Races
<1> QED BY <1>1, <1>2, <1>3, <1>4

LEMMA ContextReadyShape ==
  ASSUME ShapeInv, NEW s \in Slots, ContextReady(s)
  PROVE  ShapeInv'
<1> DEFINE t == tasks[s]
           pos == IF t.kind = "crash" THEN t.pos ELSE positions[t.inst]
           orders == PlanDecision(t.intent, t.size, pos.net)
           p == IF orders = <<>> THEN "wrap" ELSE "risk"
           o == IF orders = <<>> THEN "noop" ELSE "none"
           u == [t EXCEPT !.pc = p, !.pos = pos, !.result = pos.net,
                          !.orders = orders, !.outcome = o]
<1>1. t \in Task /\ t.pc = "context" /\ TaskOK(t) /\ t.inst \in Instruments /\ Working(t)
  BY DEF ShapeInv, TaskOK, ContextReady, Working
<1>2. pos \in Pos
  <2>1. t.pos \in Pos
    BY <1>1 DEF Task, Pos
  <2>2. positions[t.inst] \in Pos
    BY <1>1 DEF ShapeInv, TypeOK, Pos
  <2> QED BY <2>1, <2>2
<1>3. orders \in Orders
  <2>1. t.intent \in {"go_long", "go_short", "go_flat", "increase", "decrease"}
    BY <1>1, TradingAssumption DEF Task
  <2>4. t.size \in Sizes \cup {0}
    BY <1>1 DEF Task
  <2>2. t.size \in Nat
    <3>1. \A x \in Sizes \cup {0} : x \in Nat
      BY TradingAssumption
    <3> QED BY <2>4, <3>1, Zenon
  <2>3. pos.net \in Int
    BY <1>2 DEF Pos
  <2> HIDE DEF t, pos
  <2> QED BY <2>1, <2>2, <2>3, PlanType
<1>4. p \in Pc /\ o \in Outcome
  BY DEF Pc, Outcome
<1>5. orders \in Seq(Int) /\ pos.net \in Int
  BY <1>2, <1>3 DEF Orders, Pos
<1>6. CASE t.kind = "exit" /\ pos.net = 0
  <2>1. End(s) /\ UNCHANGED happened /\ life' = life
    BY <1>6 DEF ContextReady
  <2>2. /\ tasks' \in [Slots -> Task] /\ \A r \in Slots : TaskOK(tasks'[r])
        /\ exiting' \in SUBSET Instruments /\ Guards'
    BY <2>1, Ends
  <2>3. TypeOK'
    BY <2>1, <2>2 DEF ShapeInv, TypeOK, ContextReady, stream, database, history
  <2> QED BY <2>2, <2>3 DEF ShapeInv, ContextReady, stream
<1>7. CASE ~(t.kind = "exit" /\ pos.net = 0)
  <2>1. /\ Become(s, u) /\ exiting' = exiting /\ life' = life
        /\ Note(IF t.kind = "crash" THEN {} ELSE ReadRaces(s, t.inst))
    BY <1>7 DEF ContextReady
  <2>2. u \in Task
    <3> HIDE DEF t, pos, orders, p, o
    <3> QED BY <1>1, <1>2, <1>4, <1>5, MovedTask, Zenon
  <2>3. u.pc = p /\ u.orders = orders /\ u.inst = t.inst /\ (u.guarded <=> t.guarded)
    <3> HIDE DEF t, pos, orders, p, o
    <3> QED BY <1>1 DEF Task
  <2>4. Len(u.orders) <= 2 /\ Working(u) /\ (u.pc \in {"risk", "execute", "fill"} => u.orders # <<>>)
    <3> HIDE DEF u, t, orders
    <3> QED BY <1>3, <2>3 DEF Orders, Working
  <2> HIDE DEF u
  <2>5. tasks' \in [Slots -> Task] /\ (\A r \in Slots : TaskOK(tasks'[r])) /\ Guards'
    BY <1>1, <2>1, <2>2, <2>3, <2>4, Moves, Zenon
  <2>6. happened' \in Happened
    <3>1. (IF t.kind = "crash" THEN {} ELSE ReadRaces(s, t.inst)) \in SUBSET Races
      BY RacesType
    <3> QED BY <2>1, <3>1, NoteType, HappenedType, Zenon
  <2>7. TypeOK'
    BY <2>1, <2>5, <2>6 DEF ShapeInv, TypeOK, ContextReady, stream, database, history, Happened
  <2> QED BY <2>5, <2>7 DEF ShapeInv, ContextReady, stream
<1> QED BY <1>6, <1>7

LEMMA NoContextShape ==
  ASSUME ShapeInv, NEW s \in Slots, NoContext(s) \/ WriteFails(s)
  PROVE  ShapeInv'
<1>1. End(s) /\ life' = life
  BY DEF NoContext, WriteFails
<1>2. /\ tasks' \in [Slots -> Task] /\ \A r \in Slots : TaskOK(tasks'[r])
      /\ exiting' \in SUBSET Instruments /\ Guards'
  BY <1>1, Ends
<1>3. happened' \in Happened
  BY HappenedType, FaultType DEF NoContext, WriteFails, Races
<1>4. TypeOK'
  BY <1>2, <1>3 DEF ShapeInv, TypeOK, NoContext, WriteFails, stream, database, history, Happened
<1> QED BY <1>2, <1>4 DEF ShapeInv, NoContext, WriteFails, stream

LEMMA RiskShape ==
  ASSUME ShapeInv, NEW s \in Slots, CheckRisk(s) \/ OtherLimit(s)
  PROVE  ShapeInv'
<1> DEFINE t == tasks[s]
<1>1. t \in Task /\ t.pc = "risk" /\ TaskOK(t) /\ Working(t)
  BY DEF ShapeInv, TaskOK, CheckRisk, OtherLimit, Working
<1>2. PICK u \in {[t EXCEPT !.pc = "wrap", !.outcome = "rejected"], [t EXCEPT !.pc = "execute"]} :
         Become(s, u)
  BY DEF CheckRisk, OtherLimit
<1>3. u \in Task
  <2>1. [t EXCEPT !.pc = "wrap", !.outcome = "rejected"] \in Task
    BY <1>1, ZenonT(60) DEF Task
  <2>2. [t EXCEPT !.pc = "execute"] \in Task
    BY <1>1, ZenonT(60) DEF Task
  <2> QED BY <2>1, <2>2, <1>2, Zenon
<1>4. u.pc \in {"wrap", "execute"} /\ u.orders = t.orders /\ u.inst = t.inst /\ (u.guarded <=> t.guarded)
  BY <1>1 DEF Task
<1>5. Len(u.orders) <= 2 /\ Working(u) /\ u.orders # <<>>
  BY <1>1, <1>4 DEF TaskOK, Working
<1>6. exiting' = exiting /\ life' = life
  BY DEF CheckRisk, OtherLimit, memory
<1> HIDE DEF t
<1>7. tasks' \in [Slots -> Task] /\ (\A r \in Slots : TaskOK(tasks'[r])) /\ Guards'
  BY <1>1, <1>2, <1>3, <1>4, <1>5, <1>6, Moves, Zenon DEF t
<1>8. happened' \in Happened
  BY HappenedType, FaultType DEF CheckRisk, OtherLimit
<1>9. TypeOK'
  BY <1>7, <1>8 DEF ShapeInv, TypeOK, CheckRisk, OtherLimit, memory, stream, database, history, Happened
<1> QED BY <1>7, <1>9 DEF ShapeInv, CheckRisk, OtherLimit, stream

LEMMA TotalType == ASSUME NEW q \in Seq(Int), Len(q) <= 2 PROVE Total(q) \in Int
<1>1. CASE q = <<>>
  BY <1>1 DEF Total
<1>2. CASE q # <<>>
  <2>1. q[1] \in Int /\ (Len(q) # 1 => q[2] \in Int)
    <3>1. q \in [1..Len(q) -> Int] /\ Len(q) \in Nat
      OBVIOUS
    <3>2. Len(q) # 0
      BY <1>2
    <3>3. Len(q) \in 1..2
      BY <3>1, <3>2
    <3>4. 1 \in 1..Len(q) /\ (Len(q) # 1 => 2 \in 1..Len(q))
      BY <3>3
    <3> QED BY <3>1, <3>4
  <2>2. CASE Len(q) = 1
    <3>1. Total(q) = q[1]
      BY <1>2, <2>2 DEF Total
    <3> QED BY <3>1, <2>1
  <2>3. CASE Len(q) # 1
    <3>1. Total(q) = q[1] + q[2]
      BY <1>2, <2>3 DEF Total
    <3> QED BY <3>1, <2>1, <2>3
  <2> QED BY <2>2, <2>3
<1> QED BY <1>1, <1>2

LEMMA TradeType ==
  ASSUME ShapeInv, NEW s \in Slots, Working(tasks[s]), Trade(tasks[s])
  PROVE  /\ executed' \in [Instruments -> Int]
         /\ protection' \in [Instruments -> {"none", "long", "short"}]
         /\ stoppedOut' \in SUBSET Instruments
         /\ wrongs' \in SUBSET {"turned", "reentry"}
<1> DEFINE t == tasks[s]
           d == Total(t.orders)
           side == Side(executed[t.inst] + d)
<1>1. t \in Task /\ t.inst \in Instruments /\ Len(t.orders) <= 2
  BY DEF ShapeInv, TaskOK
<1>2. t.orders \in Seq(Int)
  BY <1>1 DEF Task
<1>3. d \in Int
  BY <1>1, <1>2, TotalType
<1>4. side \in {"none", "long", "short"}
  BY DEF Side
<1> HIDE DEF d, side
<1>5. executed' = [executed EXCEPT ![t.inst] = @ + d]
  BY DEF Trade, d
<1>6. \E x \in {"none", "long", "short"} : protection' = [protection EXCEPT ![t.inst] = x]
  <2>1. protection' = [protection EXCEPT ![t.inst] = IF t.levels \/ side = "none" THEN side ELSE @]
    BY DEF Trade, d, side
  <2>2. protection[t.inst] \in {"none", "long", "short"}
    BY <1>1 DEF ShapeInv, TypeOK
  <2> QED BY <2>1, <2>2, <1>4
<1>7. executed' \in [Instruments -> Int]
  BY <1>1, <1>3, <1>5 DEF ShapeInv, TypeOK
<1>8. protection' \in [Instruments -> {"none", "long", "short"}]
  BY <1>1, <1>6 DEF ShapeInv, TypeOK
<1>9. stoppedOut' \in SUBSET Instruments
  BY <1>1 DEF ShapeInv, TypeOK, Trade
<1>10. wrongs' \in SUBSET {"turned", "reentry"}
  <2>1. wrongs \in SUBSET {"turned", "reentry"}
    BY DEF ShapeInv, TypeOK
  <2> QED BY <2>1 DEF Trade
<1> QED BY <1>7, <1>8, <1>9, <1>10

(* Execution. *)
LEMMA AtHand ==
  ASSUME ShapeInv, NEW s \in Slots, tasks[s].pc \in {"execute", "fill"}
  PROVE  /\ tasks[s] \in Task /\ Working(tasks[s]) /\ tasks[s].inst \in Instruments
         /\ tasks[s].orders \in Seq(Int) /\ tasks[s].orders # <<>>
         /\ Len(tasks[s].orders) <= 2
         /\ Head(tasks[s].orders) \in Int /\ Tail(tasks[s].orders) \in Seq(Int)
         /\ tasks[s].result \in Int
<1> DEFINE t == tasks[s]
           q == t.orders
<1>1. t \in Task /\ Working(t) /\ t.inst \in Instruments /\ t.orders # <<>> /\ Len(t.orders) <= 2
  BY DEF ShapeInv, TaskOK, Working
<1>2. t.orders \in Seq(Int) /\ t.result \in Int
  BY <1>1 DEF Task
<1>3. Head(q) \in Int /\ Tail(q) \in Seq(Int)
  <2>1. q \in Seq(Int) /\ q # <<>>
    BY <1>1, <1>2
  <2> HIDE DEF q
  <2> QED BY <2>1
<1> QED BY <1>1, <1>2, <1>3

LEMMA AccountTask ==
  ASSUME NEW t \in Task, t.orders # <<>>, NEW q \in Seq(Int), q # <<>>
  PROVE  /\ Account(t) \in Task
         /\ [t EXCEPT !.orders = q] \in Task
         /\ Account([t EXCEPT !.orders = q]) \in Task
<1>1. \A u \in Task : u.orders # <<>> => Account(u) \in Task
  <2> SUFFICES ASSUME NEW u \in Task, u.orders # <<>> PROVE Account(u) \in Task
    OBVIOUS
  <2> DEFINE r == u.result + Head(u.orders)
  <2>1. u.orders \in Seq(Int) /\ u.result \in Int
    BY DEF Task
  <2>2. r \in Int
    BY <2>1
  <2> HIDE DEF r
  <2>3. [u EXCEPT !.pc = "fill", !.result = r] \in Task
    BY <2>2, ZenonT(60) DEF Task
  <2>4. Account(u) = [u EXCEPT !.pc = "fill", !.result = r]
    BY DEF Account, r
  <2> QED BY <2>3, <2>4
<1>2. [t EXCEPT !.orders = q] \in Task
  BY ZenonT(60) DEF Task
<1>3. [t EXCEPT !.orders = q].orders = q
  BY DEF Task
<1> QED BY <1>1, <1>2, <1>3

LEMMA AccountFields ==
  ASSUME NEW t \in Task
  PROVE  /\ Account(t).pc = "fill" /\ Account(t).inst = t.inst
         /\ Account(t).orders = t.orders /\ (Account(t).guarded <=> t.guarded)
         /\ Account(t).kind = t.kind /\ Account(t).intent = t.intent
         /\ Account(t).pos = t.pos /\ Account(t).outcome = t.outcome
         /\ Account(t).result = t.result + Head(t.orders)
  BY DEF Account, Task

LEMMA ExecutePaperShape ==
  ASSUME ShapeInv, NEW s \in Slots, ExecutePaper(s)
  PROVE  ShapeInv'
<1> DEFINE t == tasks[s]
           u == Account(t)
<1>1. /\ t \in Task /\ Working(t) /\ t.orders \in Seq(Int) /\ t.orders # <<>>
      /\ Len(t.orders) <= 2
  BY AtHand DEF ExecutePaper
<1>2. u \in Task
  BY <1>1, AccountTask
<1>3. u.pc = "fill" /\ u.inst = t.inst /\ u.orders = t.orders /\ (u.guarded <=> t.guarded)
  BY <1>1, AccountFields
<1>4. Become(s, u) /\ exiting' = exiting /\ life' = life /\ Trade(t) /\ Note(TradeRaces(t))
  BY DEF ExecutePaper
<1> HIDE DEF u
<1>5. Working(u) /\ Len(u.orders) <= 2 /\ u.orders # <<>>
  BY <1>1, <1>3 DEF Working
<1>6. tasks' \in [Slots -> Task] /\ (\A r \in Slots : TaskOK(tasks'[r])) /\ Guards'
  BY <1>1, <1>2, <1>3, <1>4, <1>5, Moves, Zenon
<1>7. happened' \in Happened
  BY <1>4, HappenedType, NoteType, RacesType, Zenon
<1>8. /\ executed' \in [Instruments -> Int] /\ stoppedOut' \in SUBSET Instruments
      /\ protection' \in [Instruments -> {"none", "long", "short"}]
      /\ wrongs' \in SUBSET {"turned", "reentry"}
  BY <1>1, <1>4, TradeType, Zenon
<1>9. accounted' \in Nat
  BY DEF ShapeInv, TypeOK, ExecutePaper
<1>10. TypeOK'
  BY <1>6, <1>7, <1>8, <1>9 DEF ShapeInv, TypeOK, ExecutePaper, stream, database, Happened
<1> QED BY <1>6, <1>10 DEF ShapeInv, ExecutePaper, stream

Message == [kind : {"fill", "position"}, inst : Instruments, qty : Int]

LEMMA ReportsType ==
  ASSUME ShapeInv, NEW s \in Slots, tasks[s].pc = "execute", NEW q \in Reports(tasks[s])
  PROVE  q \in Seq(Message)
<1> DEFINE t == tasks[s]
           fill(d) == [kind |-> "fill", inst |-> t.inst, qty |-> d]
           now == [kind |-> "position", inst |-> t.inst,
                   qty |-> executed[t.inst] + Total(t.orders)]
           fills == [n \in DOMAIN t.orders |-> fill(t.orders[n])]
<1>1. t.inst \in Instruments /\ t.orders \in Seq(Int) /\ t.orders # <<>> /\ Len(t.orders) <= 2
  BY AtHand
<1>2. executed[t.inst] + Total(t.orders) \in Int
  <2>1. Total(t.orders) \in Int
    BY <1>1, TotalType
  <2>2. executed[t.inst] \in Int
    BY <1>1 DEF ShapeInv, TypeOK
  <2> QED BY <2>1, <2>2
<1>3. now \in Message
  BY <1>1, <1>2 DEF Message
<1>4. fills \in Seq(Message)
  <2>1. \A n \in DOMAIN t.orders : fill(t.orders[n]) \in Message
    BY <1>1 DEF Message
  <2>2. DOMAIN t.orders = 1..Len(t.orders) /\ Len(t.orders) \in Nat
    BY <1>1
  <2> HIDE DEF fill, t
  <2> QED BY <2>1, <2>2
<1>5. q \in {<<>>, fills, Append(fills, now), <<now>> \o fills}
  BY DEF Reports
<1> HIDE DEF fills, now
<1>6. <<>> \in Seq(Message) /\ <<now>> \in Seq(Message)
  BY <1>3
<1>7. Append(fills, now) \in Seq(Message)
  BY <1>3, <1>4
<1>8. <<now>> \o fills \in Seq(Message)
  BY <1>4, <1>6
<1> QED BY <1>4, <1>5, <1>6, <1>7, <1>8

LEMMA ReportRacesType == ASSUME NEW q PROVE ReportRaces(q) \in SUBSET Races
  BY DEF ReportRaces, Races

LEMMA ExecuteLiveShape ==
  ASSUME ShapeInv, NEW s \in Slots,
         ExecuteLive(s) \/ VenueRefuses(s) \/ ExecutionTimesOut(s)
  PROVE  ShapeInv'
<1> DEFINE t == tasks[s]
<1>1. /\ t \in Task /\ Working(t) /\ t.pc = "execute"
  BY AtHand DEF ExecuteLive, VenueRefuses, ExecutionTimesOut
<1>2. PICK u \in {[t EXCEPT !.pc = "store", !.orders = <<>>],
                  [t EXCEPT !.pc = "store", !.orders = <<>>, !.outcome = "refused"],
                  [t EXCEPT !.pc = "wrap", !.orders = <<>>, !.outcome = "failed"]} : Become(s, u)
  BY DEF ExecuteLive, VenueRefuses, ExecutionTimesOut
<1>3. u \in Task
  <2>1. <<>> \in Seq(Int)
    OBVIOUS
  <2>2. [t EXCEPT !.pc = "store", !.orders = <<>>] \in Task
    BY <1>1, <2>1, ZenonT(60) DEF Task
  <2>3. [t EXCEPT !.pc = "store", !.orders = <<>>, !.outcome = "refused"] \in Task
    BY <1>1, <2>1, ZenonT(60) DEF Task
  <2>4. [t EXCEPT !.pc = "wrap", !.orders = <<>>, !.outcome = "failed"] \in Task
    BY <1>1, <2>1, ZenonT(60) DEF Task
  <2> QED BY <2>2, <2>3, <2>4, <1>2, Zenon
<1>4. u.pc \in {"store", "wrap"} /\ u.inst = t.inst /\ u.orders = <<>> /\ (u.guarded <=> t.guarded)
  BY <1>1, <1>2 DEF Task
<1>5. Working(u) /\ Len(u.orders) <= 2 /\ u.pc \notin {"risk", "execute", "fill"}
  BY <1>4 DEF Working
<1>6. exiting' = exiting /\ life' = life
  BY DEF ExecuteLive, VenueRefuses, ExecutionTimesOut, memory
<1>7. tasks' \in [Slots -> Task] /\ (\A r \in Slots : TaskOK(tasks'[r])) /\ Guards'
  <2> HIDE DEF t
  <2> QED BY <1>1, <1>2, <1>3, <1>4, <1>5, <1>6, Moves, Zenon DEF t
<1>8. happened' \in Happened
  <2>1. \A q : ReportRaces(q) \in SUBSET Races
    BY ReportRacesType
  <2>2. TradeRaces(t) \in SUBSET Races /\ {"untold"} \in SUBSET Races
    BY RacesType DEF Races
  <2>3. CASE ExecuteLive(s)
    <3>1. PICK q : Note(TradeRaces(t) \cup ReportRaces(q))
      BY <2>3 DEF ExecuteLive
    <3>2. TradeRaces(t) \cup ReportRaces(q) \in SUBSET Races
      BY <2>1, <2>2
    <3> QED BY <3>1, <3>2, NoteType, HappenedType, Zenon
  <2>4. CASE VenueRefuses(s)
    BY <2>4, <2>2, FaultType, HappenedType DEF VenueRefuses
  <2>5. CASE ExecutionTimesOut(s)
    <3>1. PICK q : Fault("timeout", {"untold"} \cup TradeRaces(t) \cup ReportRaces(q))
      BY <2>5 DEF ExecutionTimesOut
    <3>2. {"untold"} \cup TradeRaces(t) \cup ReportRaces(q) \in SUBSET Races
      BY <2>1, <2>2
    <3> QED BY <3>1, <3>2, FaultType, HappenedType, Zenon
  <2> QED BY <2>3, <2>4, <2>5
<1>9. queue' \in Seq(Message)
  <2>1. queue \in Seq(Message)
    BY DEF ShapeInv, TypeOK, Message
  <2>2. CASE ExecuteLive(s) \/ ExecutionTimesOut(s)
    <3>1. PICK q \in Reports(t) : queue' = queue \o q
      BY <2>2 DEF ExecuteLive, ExecutionTimesOut
    <3>2. q \in Seq(Message)
      BY <1>1, ReportsType
    <3> QED BY <2>1, <3>1, <3>2
  <2>3. CASE VenueRefuses(s)
    BY <2>1, <2>3 DEF VenueRefuses, stream
  <2> QED BY <2>2, <2>3
<1>10. /\ executed' \in [Instruments -> Int] /\ stoppedOut' \in SUBSET Instruments
       /\ protection' \in [Instruments -> {"none", "long", "short"}]
       /\ wrongs' \in SUBSET {"turned", "reentry"}
  <2>1. CASE ExecuteLive(s) \/ ExecutionTimesOut(s)
    BY <1>1, <2>1, TradeType DEF ExecuteLive, ExecutionTimesOut
  <2>2. CASE VenueRefuses(s)
    BY <2>2 DEF VenueRefuses, history, ShapeInv, TypeOK
  <2> QED BY <2>1, <2>2
<1>11. UNCHANGED <<mode, life, memory, paused, mutation, database, activities>>
  BY DEF ExecuteLive, VenueRefuses, ExecutionTimesOut, stream
<1>12. TypeOK'
  BY <1>7, <1>8, <1>9, <1>10, <1>11 DEF ShapeInv, TypeOK, memory, database, Happened, Message
<1> QED BY <1>7, <1>11, <1>12 DEF ShapeInv

(* Bookkeeping. *)
LEMMA FillStoredShape ==
  ASSUME ShapeInv, NEW s \in Slots, FillStored(s)
  PROVE  ShapeInv'
<1> DEFINE t == tasks[s]
           rest == [t EXCEPT !.orders = Tail(@)]
           q == Tail(t.orders)
<1>1. /\ t \in Task /\ Working(t) /\ t.inst \in Instruments /\ t.orders \in Seq(Int)
      /\ t.orders # <<>> /\ Len(t.orders) <= 2 /\ Head(t.orders) \in Int /\ q \in Seq(Int)
  BY AtHand DEF FillStored
<1>2. Len(q) <= 2
  BY <1>1
<1>3. rest = [t EXCEPT !.orders = q] /\ rest \in Task
  <2>1. rest = [t EXCEPT !.orders = q]
    BY <1>1 DEF Task
  <2> HIDE DEF t, rest, q
  <2>2. [t EXCEPT !.orders = q] \in Task
    BY <1>1, ZenonT(60) DEF Task
  <2> QED BY <2>1, <2>2
<1>4. rest.orders = q /\ rest.inst = t.inst /\ (rest.guarded <=> t.guarded)
  BY <1>1 DEF Task
<1> DEFINE u == IF rest.orders # <<>> THEN Account(rest) ELSE [rest EXCEPT !.pc = "store"]
<1>5. Become(s, u) /\ exiting' = exiting /\ life' = life
  BY DEF FillStored
<1> HIDE DEF t, rest, q
<1>6. /\ u \in Task /\ u.inst = t.inst /\ (u.guarded <=> t.guarded) /\ u.orders = q
      /\ u.pc \in {"fill", "store"} /\ (u.pc = "fill" => q # <<>>)
  <2>1. CASE q # <<>>
    <3>1. u = Account(rest)
      BY <2>1, <1>4
    <3>2. Account(rest) \in Task
      BY <2>1, <1>3, <1>4, AccountTask, <1>1
    <3> QED BY <2>1, <3>1, <3>2, <1>3, <1>4, AccountFields
  <2>2. CASE q = <<>>
    <3>1. u = [rest EXCEPT !.pc = "store"]
      BY <2>2, <1>4
    <3>2. [rest EXCEPT !.pc = "store"] \in Task
      BY <1>3, ZenonT(60) DEF Task
    <3>3. [rest EXCEPT !.pc = "store"].orders = rest.orders /\ [rest EXCEPT !.pc = "store"].inst = rest.inst
      BY <1>3 DEF Task
    <3>4. [rest EXCEPT !.pc = "store"].guarded <=> rest.guarded
      BY <1>3 DEF Task
    <3>5. [rest EXCEPT !.pc = "store"].pc = "store"
      BY <1>3 DEF Task
    <3> HIDE DEF u
    <3> QED BY <3>1, <3>2, <3>3, <3>4, <3>5, <1>4
  <2> QED BY <2>1, <2>2
<1> HIDE DEF u
<1>7. Working(u) /\ Len(u.orders) <= 2 /\ (u.pc \in {"risk", "execute", "fill"} => u.orders # <<>>)
  BY <1>2, <1>6 DEF Working
<1>8. tasks' \in [Slots -> Task] /\ (\A r \in Slots : TaskOK(tasks'[r])) /\ Guards'
  <2>1. Working(tasks[s]) /\ u.inst = tasks[s].inst /\ (u.guarded <=> tasks[s].guarded)
    BY <1>1, <1>6 DEF t
  <2>2. u.pc \in {"risk", "execute", "fill"} => u.orders # <<>>
    BY <1>7
  <2>3. u \in Task /\ Working(u) /\ Len(u.orders) <= 2
    BY <1>6, <1>7
  <2>4. Become(s, u) /\ exiting' = exiting /\ life' = life
    BY <1>5
  <2> QED BY <2>1, <2>2, <2>3, <2>4, Moves
<1>9. accounted' \in Nat /\ inserted' \in Nat /\ filled' \in [Instruments -> Int]
  <2>1. accounted' \in Nat /\ inserted' \in Nat
    <3>1. accounted' \in {accounted, accounted + 1} /\ inserted' = inserted + 1
      BY DEF FillStored
    <3>2. accounted \in Nat /\ inserted \in Nat
      BY DEF ShapeInv, TypeOK
    <3> QED BY <3>1, <3>2
  <2>2. filled' = [filled EXCEPT ![t.inst] = @ + Head(t.orders)]
    BY DEF FillStored, t
  <2>3. filled \in [Instruments -> Int]
    BY DEF ShapeInv, TypeOK
  <2> QED BY <2>1, <2>2, <2>3, <1>1
<1>10. TypeOK'
  BY <1>8, <1>9 DEF ShapeInv, TypeOK, FillStored, stream, history
<1> QED BY <1>8, <1>10 DEF ShapeInv, FillStored, stream

Row == [net : Int, levels : {"none", "long", "short"}]

LEMMA UpsertType ==
  ASSUME NEW r \in [{"named", "unnamed"} -> Row], NEW p \in Pos,
         NEW l \in {"none", "long", "short"}
  PROVE  Upsert(r, p, l) \in [{"named", "unnamed"} -> Row]
<1> DEFINE k == IF p.named THEN "named" ELSE "unnamed"
           q == Promoted(r, p)
           kept == IF l # "none" THEN l
                   ELSE IF Side(q[k].net) = Side(p.net) THEN q[k].levels ELSE "none"
           x == IF p.net = 0 THEN NoRow ELSE [net |-> p.net, levels |-> kept]
<1>1. k \in {"named", "unnamed"}
  OBVIOUS
<1>2. NoRow \in Row
  BY DEF NoRow, Row
<1>3. q \in [{"named", "unnamed"} -> Row]
  <2>1. r["unnamed"] \in Row
    OBVIOUS
  <2>2. [named |-> r["unnamed"], unnamed |-> NoRow] \in [{"named", "unnamed"} -> Row]
    <3>1. \A a, b \in Row : [named |-> a, unnamed |-> b] \in [named : Row, unnamed : Row]
      OBVIOUS
    <3>2. [named : Row, unnamed : Row] = [{"named", "unnamed"} -> Row]
      OBVIOUS
    <3> QED BY <2>1, <1>2, <3>1, <3>2
  <2> QED BY <2>2 DEF Promoted
<1>4. kept \in {"none", "long", "short"}
  <2> HIDE DEF k, q
  <2> QED BY <1>1, <1>3 DEF Row
<1>5. x \in Row
  <2>1. p.net \in Int
    BY DEF Pos
  <2> HIDE DEF kept
  <2> QED BY <2>1, <1>2, <1>4 DEF Row
<1>6. Upsert(r, p, l) = [q EXCEPT ![k] = x]
  BY DEF Upsert
<1> HIDE DEF k, q, x
<1> QED BY <1>1, <1>3, <1>5, <1>6

LEMMA RowsType ==
  ASSUME ShapeInv, NEW i \in Instruments, NEW p \in Pos, NEW l \in {"none", "long", "short"},
         rows' = [rows EXCEPT ![i] = Upsert(@, p, l)]
  PROVE  rows' \in [Instruments -> [{"named", "unnamed"} -> Row]]
<1>1. rows \in [Instruments -> [{"named", "unnamed"} -> Row]]
  BY DEF ShapeInv, TypeOK, Row
<1>2. Upsert(rows[i], p, l) \in [{"named", "unnamed"} -> Row]
  BY <1>1, UpsertType
<1> QED BY <1>1, <1>2

LEMMA PositionsType ==
  ASSUME ShapeInv, NEW i \in Instruments, NEW p \in Pos, SetPosition(i, p)
  PROVE  positions' \in [Instruments -> Pos]
<1>1. Flat \in Pos
  BY DEF Flat, Pos
<1> QED BY <1>1 DEF ShapeInv, TypeOK, SetPosition, Pos

LEMMA StoredShape ==
  ASSUME ShapeInv, NEW s \in Slots, Stored(s)
  PROVE  ShapeInv'
<1> DEFINE t == tasks[s]
           i == t.inst
           pos == [net |-> t.result, named |-> PassesId(t) \/ positions[i].named]
           o == IF t.outcome = "none" THEN "ok" ELSE t.outcome
           u == [t EXCEPT !.pc = "wrap", !.outcome = o]
<1>1. t \in Task /\ Working(t) /\ i \in Instruments /\ Len(t.orders) <= 2
  BY DEF ShapeInv, TaskOK, Stored, Working
<1>2. pos \in Pos
  <2>1. t.result \in Int
    BY <1>1 DEF Task
  <2>2. (PassesId(t) \/ positions[i].named) \in BOOLEAN
    OBVIOUS
  <2> HIDE DEF t, i
  <2> QED BY <2>1, <2>2 DEF Pos
<1>3. o \in Outcome
  BY <1>1 DEF Task, Outcome
<1>4. u \in Task
  <2> HIDE DEF t, o
  <2> QED BY <1>1, <1>3, ZenonT(60) DEF Task, Outcome
<1>5. u.pc = "wrap" /\ u.inst = t.inst /\ (u.guarded <=> t.guarded) /\ u.orders = t.orders
  <2> HIDE DEF t, o
  <2> QED BY <1>1 DEF Task
<1>6. Become(s, u) /\ exiting' = exiting /\ life' = life
  <2>1. u = [t EXCEPT !.pc = "wrap", !.outcome = IF @ = "none" THEN "ok" ELSE @]
    BY <1>1 DEF Task
  <2> QED BY <2>1 DEF Stored
<1> HIDE DEF u
<1>7. Working(u) /\ Len(u.orders) <= 2 /\ u.pc \notin {"risk", "execute", "fill"}
  BY <1>1, <1>5 DEF Working
<1>8. tasks' \in [Slots -> Task] /\ (\A r \in Slots : TaskOK(tasks'[r])) /\ Guards'
  BY <1>1, <1>4, <1>5, <1>6, <1>7, Moves, Zenon
<1>9. NewLevels(t) \in {"none", "long", "short"}
  BY DEF NewLevels, LevelSide, Side
<1>10. rows' \in [Instruments -> [{"named", "unnamed"} -> Row]]
  BY <1>1, <1>2, <1>9, RowsType DEF Stored
<1>11. positions' \in [Instruments -> Pos]
  BY <1>1, <1>2, PositionsType DEF Stored
<1>12. exitLevels' \in [Instruments -> {"none", "long", "short"}]
  <2>1. LevelsAfter(i, pos, NewLevels(t)) \in {"none", "long", "short"}
    BY <1>1, <1>9 DEF LevelsAfter, ShapeInv, TypeOK
  <2> QED BY <1>1, <2>1 DEF Stored, ShapeInv, TypeOK
<1>13. happened' \in Happened
  <2>1. (IF PassesId(t) /\ mode = "live" THEN {"live_exit"} ELSE {}) \in SUBSET Races
    BY DEF Races
  <2> QED BY <2>1, NoteType, HappenedType DEF Stored
<1>14. UNCHANGED <<mode, life, exiting, stopLossExits, errors, accounted, stream,
                   inserted, filled, executed, activities, history>>
  BY DEF Stored
<1>15. TypeOK'
  BY <1>8, <1>10, <1>11, <1>12, <1>13, <1>14 DEF ShapeInv, TypeOK, stream, history, Happened, Row, Pos
<1> QED BY <1>8, <1>14, <1>15 DEF ShapeInv, stream

LEMMA DecidedShape ==
  ASSUME ShapeInv, NEW s \in Slots, Decided(s)
  PROVE  ShapeInv'
<1>1. End(s) /\ life' = life
  BY DEF Decided
<1>2. /\ tasks' \in [Slots -> Task] /\ \A r \in Slots : TaskOK(tasks'[r])
      /\ exiting' \in SUBSET Instruments /\ Guards'
  BY <1>1, Ends
<1>3. errors' \in Nat
  BY DEF ShapeInv, TypeOK, Decided, Counted
<1>4. TypeOK'
  BY <1>2, <1>3 DEF ShapeInv, TypeOK, Decided, stream, database, history
<1> QED BY <1>2, <1>4 DEF ShapeInv, Decided, stream

LEMMA ExitDoneShape ==
  ASSUME ShapeInv, NEW s \in Slots, ExitDone(s)
  PROVE  ShapeInv'
<1> DEFINE t == tasks[s]
<1>1. End(s) /\ life' = life
  BY DEF ExitDone
<1>2. /\ tasks' \in [Slots -> Task] /\ \A r \in Slots : TaskOK(tasks'[r])
      /\ exiting' \in SUBSET Instruments /\ Guards'
  BY <1>1, Ends
<1>3. t \in Task /\ t.inst \in Instruments
  BY DEF ShapeInv, TaskOK, ExitDone, Working
<1>4. Written(t) \in Pos
  <2>1. t.result \in Int /\ t.pos \in Pos
    BY <1>3 DEF Task, Pos
  <2> HIDE DEF t
  <2>2. t.pos.named \in BOOLEAN
    BY <2>1 DEF Pos
  <2> QED BY <2>1, <2>2, Zenon DEF Written, Pos
<1>5. positions' \in [Instruments -> Pos]
  BY <1>3, <1>4, PositionsType DEF ExitDone
<1>6. exitLevels' \in [Instruments -> {"none", "long", "short"}]
  BY <1>3 DEF ExitDone, ShapeInv, TypeOK
<1>7. stopLossExits' \in SUBSET Instruments
  BY <1>3 DEF ExitDone, ShapeInv, TypeOK, RecordExit
<1>8. UNCHANGED <<mode, life, errors, accounted, stream, database, executed,
                  activities, history, happened>>
  BY DEF ExitDone
<1>9. TypeOK'
  BY <1>2, <1>5, <1>6, <1>7, <1>8 DEF ShapeInv, TypeOK, stream, database, history, Pos
<1> QED BY <1>2, <1>8, <1>9 DEF ShapeInv, stream

(* The private stream. *)
LEMMA HeadOfQueue ==
  ASSUME ShapeInv, queue # <<>>
  PROVE  /\ Head(queue) \in Message /\ Tail(queue) \in Seq(Message)
         /\ Head(queue).inst \in Instruments /\ Head(queue).qty \in Int
<1>1. queue \in Seq(Message)
  BY DEF ShapeInv, TypeOK, Message
<1>2. Head(queue) \in Message /\ Tail(queue) \in Seq(Message)
  BY <1>1
<1> QED BY <1>2 DEF Message

LEMMA GuardsUntouched ==
  ASSUME ShapeInv, UNCHANGED <<tasks, exiting>>, life' = life \/ life' = "off" \/ Running
  PROVE  Guards' /\ \A s \in Slots : TaskOK(tasks'[s])
  BY DEF ShapeInv, Guards, Running

LEMMA TakeFillShape == ASSUME ShapeInv, TakeFill PROVE ShapeInv'
<1> DEFINE m == Head(queue)
<1>1. m.inst \in Instruments /\ m.qty \in Int /\ Tail(queue) \in Seq(Message)
  BY HeadOfQueue DEF TakeFill
<1>2. Filled(positions[m.inst], m.qty) \in Pos
  <2>1. positions[m.inst] \in Pos
    BY <1>1 DEF ShapeInv, TypeOK, Pos
  <2>2. \A p \in Pos : p.net \in Int /\ [p EXCEPT !.net = p.net + m.qty] \in Pos
    BY <1>1 DEF Pos
  <2> QED BY <2>1, <2>2 DEF Filled
<1>3. /\ mutation' = [pc |-> "insert", inst |-> m.inst, qty |-> m.qty,
                      pos |-> Filled(positions[m.inst], m.qty)]
      /\ queue' = Tail(queue) /\ accounted' = accounted + 1 /\ Note(Crossed(m.inst))
      /\ UNCHANGED <<mode, life, positions, exitLevels, exiting, stopLossExits,
                     errors, tasks, paused, database, executed, activities, history>>
  BY DEF TakeFill
<1> HIDE DEF m
<1>4. mutation'.inst \in Instruments
  BY <1>1, <1>3
<1>5. mutation' \in [pc : {"idle", "insert", "upsert"},
                     inst : Instruments \cup {NoInstrument}, pos : Pos, qty : Int]
  BY <1>1, <1>2, <1>3
<1>6. happened' \in Happened
  BY <1>3, HappenedType, NoteType, RacesType, Zenon
<1>7. Guards' /\ \A s \in Slots : TaskOK(tasks'[s])
  BY <1>3, GuardsUntouched
<1>8. accounted' \in Nat
  BY <1>3 DEF ShapeInv, TypeOK
<1>9. TypeOK'
  BY <1>1, <1>3, <1>5, <1>6, <1>8 DEF ShapeInv, TypeOK, database, history, Happened, Message, Pos
<1> QED BY <1>4, <1>7, <1>9 DEF ShapeInv

LEMMA ApplyType ==
  ASSUME ShapeInv, NEW i \in Instruments, NEW p \in Pos, ApplyToMap(i, p)
  PROVE  /\ positions' \in [Instruments -> Pos]
         /\ exitLevels' \in [Instruments -> {"none", "long", "short"}]
<1>1. positions' \in [Instruments -> Pos]
  BY PositionsType DEF ApplyToMap
<1>2. LevelsAfter(i, p, "none") \in {"none", "long", "short"}
  BY DEF LevelsAfter, ShapeInv, TypeOK
<1>3. exitLevels' \in [Instruments -> {"none", "long", "short"}]
  BY <1>2 DEF ApplyToMap, ShapeInv, TypeOK
<1> QED BY <1>1, <1>3

LEMMA FillRecordedShape == ASSUME ShapeInv, FillRecorded PROVE ShapeInv'
<1> DEFINE m == mutation
<1>1. /\ m.inst \in Instruments /\ m.pos \in Pos /\ m.qty \in Int
      /\ m \in [pc : {"idle", "insert", "upsert"},
                inst : Instruments \cup {NoInstrument}, pos : Pos, qty : Int]
  BY DEF ShapeInv, TypeOK, FillRecorded, Pos
<1>2. /\ inserted' = inserted + 1 /\ filled' = [filled EXCEPT ![m.inst] = @ + m.qty]
      /\ ApplyToMap(m.inst, m.pos) /\ mutation' = [m EXCEPT !.pc = "upsert"]
      /\ Note(Crossed(m.inst))
      /\ UNCHANGED <<mode, life, exiting, stopLossExits, errors, accounted, tasks,
                     paused, queue, rows, executed, activities, history>>
  BY DEF FillRecorded
<1>3. mutation'.inst \in Instruments
  BY <1>1, <1>2
<1>4. mutation' \in [pc : {"idle", "insert", "upsert"},
                     inst : Instruments \cup {NoInstrument}, pos : Pos, qty : Int]
  BY <1>1, <1>2
<1>5. happened' \in Happened
  BY <1>2, HappenedType, NoteType, RacesType, Zenon
<1>6. Guards' /\ \A s \in Slots : TaskOK(tasks'[s])
  BY <1>2, GuardsUntouched
<1>7. inserted' \in Nat /\ filled' \in [Instruments -> Int]
  BY <1>1, <1>2 DEF ShapeInv, TypeOK
<1>8. /\ positions' \in [Instruments -> Pos]
      /\ exitLevels' \in [Instruments -> {"none", "long", "short"}]
  BY <1>1, <1>2, ApplyType
<1>9. TypeOK'
  BY <1>2, <1>4, <1>5, <1>7, <1>8 DEF ShapeInv, TypeOK, history, Happened, Pos
<1> QED BY <1>3, <1>6, <1>9 DEF ShapeInv

LEMMA TakePositionShape == ASSUME ShapeInv, TakePosition PROVE ShapeInv'
<1> DEFINE m == Head(queue)
           pos == [net |-> m.qty, named |-> positions[m.inst].named]
<1>1. m.inst \in Instruments /\ m.qty \in Int /\ Tail(queue) \in Seq(Message)
  BY HeadOfQueue DEF TakePosition
<1>2. pos \in Pos
  <2>1. positions[m.inst].named \in BOOLEAN
    BY <1>1 DEF ShapeInv, TypeOK
  <2> HIDE DEF m
  <2> QED BY <1>1, <2>1, Zenon DEF Pos
<1>3. /\ ApplyToMap(m.inst, pos)
      /\ mutation' = [pc |-> "upsert", inst |-> m.inst, qty |-> 0, pos |-> pos]
      /\ queue' = Tail(queue) /\ Note(Crossed(m.inst))
      /\ UNCHANGED <<mode, life, exiting, stopLossExits, errors, accounted, tasks,
                     paused, database, executed, activities, history>>
  BY DEF TakePosition
<1> HIDE DEF m, pos
<1>4. mutation'.inst \in Instruments
  BY <1>1, <1>3
<1>5. mutation' \in [pc : {"idle", "insert", "upsert"},
                     inst : Instruments \cup {NoInstrument}, pos : Pos, qty : Int]
  BY <1>1, <1>2, <1>3
<1>6. happened' \in Happened
  BY <1>3, HappenedType, NoteType, RacesType, Zenon
<1>7. Guards' /\ \A s \in Slots : TaskOK(tasks'[s])
  BY <1>3, GuardsUntouched
<1>8. /\ positions' \in [Instruments -> Pos]
      /\ exitLevels' \in [Instruments -> {"none", "long", "short"}]
  BY <1>1, <1>2, <1>3, ApplyType
<1>9. TypeOK'
  BY <1>1, <1>3, <1>5, <1>6, <1>8 DEF ShapeInv, TypeOK, database, history, Happened, Message, Pos
<1> QED BY <1>4, <1>7, <1>9 DEF ShapeInv

LEMMA NoMutationType ==
  /\ NoMutation.pc = "idle"
  /\ NoMutation \in [pc : {"idle", "insert", "upsert"},
                     inst : Instruments \cup {NoInstrument}, pos : Pos, qty : Int]
<1>1. Flat \in Pos
  BY DEF Flat, Pos
<1> QED BY <1>1 DEF NoMutation

LEMMA RowUpdatedShape == ASSUME ShapeInv, RowUpdated PROVE ShapeInv'
<1> DEFINE m == mutation
<1>1. m.inst \in Instruments /\ m.pos \in Pos
  BY DEF ShapeInv, TypeOK, RowUpdated, Pos
<1>2. /\ rows' = [rows EXCEPT ![m.inst] = Upsert(@, m.pos, "none")]
      /\ mutation' = NoMutation
      /\ UNCHANGED <<mode, life, memory, tasks, paused, queue, inserted, filled,
                     executed, activities, history, happened>>
  BY DEF RowUpdated
<1>3. rows' \in [Instruments -> [{"named", "unnamed"} -> Row]]
  BY <1>1, <1>2, RowsType
<1>4. Guards' /\ \A s \in Slots : TaskOK(tasks'[s])
  BY <1>2, GuardsUntouched DEF memory
<1>5. TypeOK'
  BY <1>2, <1>3, NoMutationType DEF ShapeInv, TypeOK, history, memory, Row, Pos
<1> QED BY <1>2, <1>4, <1>5, NoMutationType DEF ShapeInv

-----------------------------------------------------------------------------
(* A crash, a stop, a start. *)
LEMMA CrashShape ==
  ASSUME ShapeInv, NEW s \in Slots, MutationFails(s) \/ StreamCloses(s)
  PROVE  ShapeInv'
<1> DEFINE todo == {i \in Instruments : positions[i].net # 0}
           u == [IdleTask EXCEPT !.pc = "next", !.kind = "crash", !.todo = todo]
<1>1. u \in Task
  BY CrashTask
<1>2. u.pc = "next" /\ u.orders = <<>> /\ ~u.guarded
  BY DEF IdleTask
<1>3. TaskOK(u)
  BY <1>1, <1>2 DEF TaskOK, Working
<1>4. Idle(s) /\ Begin(s, u)
  BY DEF MutationFails, StreamCloses, Crash
<1> HIDE DEF u
<1>5. /\ tasks' = [tasks EXCEPT ![s] = u] /\ tasks' \in [Slots -> Task]
      /\ \A r \in Slots : TaskOK(tasks'[r])
      /\ activities' \in 0..MaxActivities /\ ~tasks[s].guarded
  BY <1>3, <1>4, Begins
<1>6. UNCHANGED <<mode, life, memory, paused, queue, database, executed, history>>
  BY DEF MutationFails, StreamCloses, stream
<1>7. Guards'
  BY <1>2, <1>5, <1>6, GuardStays DEF memory
<1>8. happened' \in Happened
  BY HappenedType, FaultType DEF MutationFails, StreamCloses, Races
<1>9. mutation' = mutation \/ mutation' = NoMutation
  BY DEF MutationFails, StreamCloses, stream
<1>10. TypeOK'
  BY <1>5, <1>6, <1>8, <1>9, NoMutationType DEF ShapeInv, TypeOK, memory, database, history, Happened, Pos
<1> QED BY <1>5, <1>7, <1>9, <1>10, NoMutationType DEF ShapeInv

LEMMA CrashNextShape ==
  ASSUME ShapeInv, NEW s \in Slots, CrashNext(s)
  PROVE  ShapeInv'
<1> DEFINE t == tasks[s]
<1>1. t \in Task /\ t.pc = "next" /\ TaskOK(t)
  BY DEF ShapeInv, TaskOK, CrashNext
<1>2. ~t.guarded /\ Len(t.orders) <= 2
  BY <1>1 DEF TaskOK, Working
<1>3. PICK i \in t.todo :
          LET rest == [t EXCEPT !.todo = @ \ {i}] IN
          IF positions[i].net = 0
          THEN Become(s, rest) /\ UNCHANGED happened
          ELSE /\ Become(s, [rest EXCEPT !.pc = "context", !.inst = i,
                                         !.pos = positions[i]])
               /\ Note(ReadRaces(s, i))
  BY DEF CrashNext
<1>4. i \in Instruments /\ t.todo \ {i} \in SUBSET Instruments
  BY <1>1, <1>3 DEF Task
<1> DEFINE rest == [t EXCEPT !.todo = t.todo \ {i}]
           w == [rest EXCEPT !.pc = "context", !.inst = i, !.pos = positions[i]]
<1>5. rest \in Task
  <2> HIDE DEF t
  <2> QED BY <1>1, <1>4, ZenonT(60) DEF Task
<1>6. positions[i] \in Pos
  BY <1>4 DEF ShapeInv, TypeOK, Pos
<1>7. w \in Task
  <2> HIDE DEF rest
  <2> QED BY <1>4, <1>5, <1>6, CrashedTask, Zenon
<1>8. rest.pc = "next" /\ rest.orders = t.orders /\ (rest.guarded <=> t.guarded)
  <2> HIDE DEF t
  <2> QED BY <1>1 DEF Task
<1>9. w.pc = "context" /\ w.inst = i /\ w.orders = t.orders /\ (w.guarded <=> t.guarded)
  <2> HIDE DEF rest, t
  <2> QED BY <1>5, <1>8 DEF Task
<1>10. PICK u \in {rest, w} : Become(s, u)
  <2>1. rest = [t EXCEPT !.todo = @ \ {i}]
    BY <1>1 DEF Task
  <2> QED BY <1>3, <2>1
<1> HIDE DEF rest, w, t
<1>11. TaskOK(u)
  BY <1>2, <1>4, <1>5, <1>7, <1>8, <1>9, <1>10 DEF TaskOK, Working
<1>12. tasks' = [tasks EXCEPT ![s] = u] /\ ~u.guarded
  BY <1>2, <1>8, <1>9, <1>10 DEF Become
<1>13. tasks' \in [Slots -> Task] /\ \A r \in Slots : TaskOK(tasks'[r])
  BY <1>11, <1>12, OneMoves, Zenon
<1>14. UNCHANGED <<mode, life, memory, stream, database, executed, activities, history>>
  BY DEF CrashNext
<1>15. Guards'
  BY <1>2, <1>12, <1>14, GuardStays DEF memory, t
<1>16. happened' \in Happened
  BY <1>3, HappenedType, NoteType, RacesType DEF t
<1>17. TypeOK'
  BY <1>13, <1>14, <1>16 DEF ShapeInv, TypeOK, memory, stream, database, history, Happened
<1> QED BY <1>13, <1>14, <1>15, <1>17 DEF ShapeInv, stream

LEMMA StreamUpDownShape ==
  ASSUME ShapeInv, StreamDrops \/ StreamReconnects
  PROVE  ShapeInv'
<1>1. /\ paused' \in BOOLEAN
      /\ UNCHANGED <<mode, life, memory, tasks, queue, mutation, database,
                     executed, activities, history>>
  BY DEF StreamDrops, StreamReconnects
<1>2. happened' \in Happened
  BY HappenedType, FaultType DEF StreamDrops, StreamReconnects
<1>3. Guards' /\ \A s \in Slots : TaskOK(tasks'[s])
  BY <1>1, GuardsUntouched DEF memory
<1>4. TypeOK'
  BY <1>1, <1>2 DEF ShapeInv, TypeOK, memory, database, history, Happened
<1> QED BY <1>1, <1>3, <1>4 DEF ShapeInv

LEMMA EmptyQueue == <<>> \in Seq([kind : {"fill", "position"}, inst : Instruments, qty : Int])
  OBVIOUS

LEMMA StopActorShape == ASSUME ShapeInv, StopActor PROVE ShapeInv'
<1>1. /\ life' = "off" /\ paused' = FALSE /\ queue' = <<>> /\ Note(Torn)
      /\ UNCHANGED <<mode, memory, tasks, mutation, database, executed, activities, history>>
  BY DEF StopActor, Halt
<1>2. happened' \in Happened
  BY <1>1, HappenedType, NoteType, RacesType, Zenon
<1>3. Guards' /\ \A s \in Slots : TaskOK(tasks'[s])
  BY <1>1, GuardsUntouched DEF memory
<1>4. TypeOK'
  BY <1>1, <1>2, EmptyQueue DEF ShapeInv, TypeOK, memory, database, history, Happened
<1> QED BY <1>1, <1>3, <1>4 DEF ShapeInv

LEMMA CrashEndsShape ==
  ASSUME ShapeInv, NEW s \in Slots, CrashEnds(s)
  PROVE  ShapeInv'
<1>1. /\ tasks' = [tasks EXCEPT ![s] = IdleTask] /\ tasks[s].pc = "next"
      /\ life' = "off" /\ paused' = FALSE /\ queue' = <<>> /\ Note(Torn)
      /\ UNCHANGED <<mode, memory, mutation, database, executed, activities, history>>
  BY DEF CrashEnds, Halt, Become
<1>2. ~tasks[s].guarded
  BY <1>1 DEF ShapeInv, TaskOK, Working
<1>3. TaskOK(IdleTask) /\ ~IdleTask.guarded
  <2>1. IdleTask.pc = "idle" /\ IdleTask.orders = <<>> /\ ~IdleTask.guarded
    BY DEF IdleTask
  <2> QED BY <2>1, IdleType DEF TaskOK, Working
<1>4. tasks' \in [Slots -> Task] /\ \A r \in Slots : TaskOK(tasks'[r])
  BY <1>1, <1>3, OneMoves, Zenon
<1>5. Guards'
  <2>1. exiting' = exiting
    BY <1>1 DEF memory
  <2> QED BY <1>1, <1>2, <1>3, <2>1, GuardStays
<1>6. happened' \in Happened
  BY <1>1, HappenedType, NoteType, RacesType, Zenon
<1>7. TypeOK'
  BY <1>1, <1>4, <1>6, EmptyQueue DEF ShapeInv, TypeOK, memory, database, history, Happened
<1> QED BY <1>1, <1>4, <1>5, <1>7 DEF ShapeInv

LEMMA ProcessDiesShape == ASSUME ShapeInv, ProcessDies PROVE ShapeInv'
<1>1. /\ tasks' = [s \in Slots |-> IdleTask] /\ mutation' = NoMutation
      /\ life' = "off" /\ paused' = FALSE /\ queue' = <<>> /\ Fault("die", Torn)
      /\ UNCHANGED <<mode, memory, database, executed, activities, history>>
  BY DEF ProcessDies, Halt
<1>2. TaskOK(IdleTask) /\ ~IdleTask.guarded
  <2>1. IdleTask.pc = "idle" /\ IdleTask.orders = <<>> /\ ~IdleTask.guarded
    BY DEF IdleTask
  <2> QED BY <2>1, IdleType DEF TaskOK, Working
<1>3. tasks' \in [Slots -> Task] /\ \A r \in Slots : TaskOK(tasks'[r])
  BY <1>1, <1>2, IdleType
<1>4. Guards'
  BY <1>1, <1>2 DEF Guards, Running
<1>5. happened' \in Happened
  BY <1>1, HappenedType, FaultType, RacesType, Zenon
<1>6. TypeOK'
  BY <1>1, <1>3, <1>5, EmptyQueue, NoMutationType DEF ShapeInv, TypeOK, memory, database, history, Happened, Pos
<1> QED BY <1>1, <1>3, <1>4, <1>6, NoMutationType DEF ShapeInv

LEMMA StartActorShape == ASSUME ShapeInv, StartActor PROVE ShapeInv'
<1>1. \A s \in Slots : ~tasks[s].guarded
  BY DEF ShapeInv, StartActor, TaskOK, Working
<1>2. Guards'
  BY <1>1 DEF StartActor, Guards
<1>3. happened' \in Happened
  <2>1. (IF stoppedOut # {} THEN {"restart"} ELSE {}) \in SUBSET Races
    BY DEF Races
  <2> QED BY <2>1, HappenedType, NoteType DEF StartActor
<1>4. positions' \in [Instruments -> Pos]
  <2>1. Flat \in Pos
    BY DEF Flat, Pos
  <2> QED BY <2>1 DEF StartActor
<1>5. TypeOK'
  BY <1>3, <1>4 DEF ShapeInv, TypeOK, StartActor, stream, database, history, Happened, Pos
<1> QED BY <1>2, <1>5 DEF ShapeInv, StartActor, stream

LEMMA RehydrateType ==
  ASSUME ShapeInv, NEW c \in RowChoices, Rehydrate(c)
  PROVE  /\ positions' \in [Instruments -> Pos]
         /\ exitLevels' \in [Instruments -> {"none", "long", "short"}]
<1>1. c \in [Instruments -> {"none", "named", "unnamed"}]
  BY DEF RowChoices
<1>2. \A i \in Instruments : c[i] # "none" => rows[i][c[i]] \in Row
  <2>1. rows \in [Instruments -> [{"named", "unnamed"} -> Row]]
    BY DEF ShapeInv, TypeOK, Row
  <2>2. \A i \in Instruments : c[i] # "none" => c[i] \in {"named", "unnamed"}
    BY <1>1
  <2>3. \A i \in Instruments : rows[i] \in [{"named", "unnamed"} -> Row]
    BY <2>1
  <2> HIDE DEF Row
  <2> QED BY <2>2, <2>3
<1>3. positions' \in [Instruments -> Pos]
  <2>1. \A i \in Instruments : c[i] # "none" => rows[i][c[i]].net \in Int
    BY <1>2 DEF Row
  <2>2. \A n \in Int, b \in BOOLEAN : [net |-> n, named |-> b] \in Pos
    BY DEF Pos
  <2>3. \A i \in Instruments : (c[i] = "named") \in BOOLEAN
    OBVIOUS
  <2>4. \A i \in Instruments : c[i] # "none" => [net |-> rows[i][c[i]].net, named |-> c[i] = "named"] \in Pos
    BY <2>1, <2>2, <2>3, Zenon
  <2>5. positions \in [Instruments -> Pos]
    BY DEF ShapeInv, TypeOK, Pos
  <2> QED BY <2>4, <2>5 DEF Rehydrate
<1>4. exitLevels' \in [Instruments -> {"none", "long", "short"}]
  <2>1. \A i \in Instruments : c[i] # "none" => LevelsReadBack(i, c[i]) \in {"none", "long", "short"}
    BY <1>2 DEF LevelsReadBack, Row
  <2>2. exitLevels \in [Instruments -> {"none", "long", "short"}]
    BY DEF ShapeInv, TypeOK
  <2> QED BY <2>1, <2>2 DEF Rehydrate
<1> QED BY <1>3, <1>4

(* What a restart notes: the sums it could not read are the only failure. *)
LEMMA RecoverNotes ==
  ASSUME Recover
  PROVE  \E S \in SUBSET Races :
            /\ Drift \subseteq S
            /\ S \subseteq {"drift", "early", "unsummed"}
            /\ Note(S) \/ Fault("sum", S)
            /\ accounted' = TrackersRehydrated \/ "unsummed" \in S
<1> DEFINE met == Drift \cup IF AtWork THEN {"early"} ELSE {}
<1>1. met \subseteq {"drift", "early"}
  BY DEF Drift
<1>2. CASE InitializeRiskTrackers(TRUE) /\ Note(met)
  <2>1. met \in SUBSET Races
    BY <1>1 DEF Races
  <2> QED BY <1>1, <1>2, <2>1 DEF InitializeRiskTrackers
<1>3. CASE Fault("sum", met \cup {"unsummed"})
  <2>1. met \cup {"unsummed"} \in SUBSET Races
    BY <1>1 DEF Races
  <2> QED BY <1>1, <1>3, <2>1
<1> QED BY <1>2, <1>3 DEF Recover

LEMMA RecoverShape == ASSUME ShapeInv, Recover \/ RehydrationFails PROVE ShapeInv'
<1>1. /\ positions' \in [Instruments -> Pos]
      /\ exitLevels' \in [Instruments -> {"none", "long", "short"}]
  <2>1. CASE Recover
    BY <2>1, RehydrateType DEF Recover
  <2>2. CASE RehydrationFails
    BY <2>2 DEF RehydrationFails, ShapeInv, TypeOK, Pos
  <2> QED BY <2>1, <2>2
<1>2. /\ accounted' \in Nat /\ life' \in {"off", "up"} /\ life = "starting"
      /\ UNCHANGED <<mode, exiting, stopLossExits, errors, tasks, stream, database,
                     executed, activities, history>>
  <2>1. inserted \in Nat
    BY DEF ShapeInv, TypeOK
  <2>2. ASSUME NEW read \in BOOLEAN, InitializeRiskTrackers(read)
        PROVE  accounted' \in Nat
    BY <2>1, <2>2 DEF InitializeRiskTrackers, TrackersRehydrated
  <2>3. accounted' \in Nat
    BY <2>2 DEF Recover, RehydrationFails
  <2>4. life' \in {"off", "up"}
    BY DEF Recover, RehydrationFails, StartReconciler
  <2>5. life = "starting" /\ UNCHANGED <<mode, exiting, stopLossExits, errors, tasks,
                                        stream, database, executed, activities, history>>
    BY DEF Recover, RehydrationFails
  <2> QED BY <2>3, <2>4, <2>5
<1>3. happened' \in Happened
  <2>1. CASE Recover
    BY <2>1, RecoverNotes, HappenedType, NoteType, FaultType
  <2>2. CASE RehydrationFails
    <3>1. PICK read \in BOOLEAN :
             Fault("read", {"untold"} \cup IF read THEN {} ELSE {"unsummed"})
      BY <2>2 DEF RehydrationFails
    <3>2. ({"untold"} \cup IF read THEN {} ELSE {"unsummed"}) \in SUBSET Races
      BY DEF Races
    <3> QED BY <3>1, <3>2, HappenedType, FaultType
  <2> QED BY <2>1, <2>2
<1>4. Guards' /\ \A s \in Slots : TaskOK(tasks'[s])
  BY <1>2, GuardsUntouched DEF Running
<1>5. TypeOK'
  BY <1>1, <1>2, <1>3 DEF ShapeInv, TypeOK, stream, database, history, Happened, Pos
<1> QED BY <1>2, <1>4, <1>5 DEF ShapeInv, stream

-----------------------------------------------------------------------------
LEMMA InitShape == Init => ShapeInv
<1> SUFFICES ASSUME Init PROVE ShapeInv
  OBVIOUS
<1>1. IdleTask.pc = "idle" /\ IdleTask.orders = <<>> /\ ~IdleTask.guarded
  BY DEF IdleTask
<1>2. TaskOK(IdleTask)
  BY <1>1, IdleType DEF TaskOK, Working
<1>3. tasks \in [Slots -> Task] /\ \A s \in Slots : TaskOK(tasks[s]) /\ ~tasks[s].guarded
  BY <1>1, <1>2, IdleType DEF Init
<1>4. Guards
  BY <1>3 DEF Guards, Init
<1>5. positions \in [Instruments -> Pos]
  <2>1. Flat \in Pos
    BY DEF Flat, Pos
  <2> QED BY <2>1 DEF Init
<1>6. rows \in [Instruments -> [{"named", "unnamed"} -> Row]]
  <2>1. NoRow \in Row
    BY DEF NoRow, Row
  <2> QED BY <2>1 DEF Init
<1>7. happened \in Happened /\ activities \in 0..MaxActivities
  BY TradingAssumption DEF Init, Happened
<1>8. mutation \in [pc : {"idle", "insert", "upsert"},
                    inst : Instruments \cup {NoInstrument}, pos : Pos, qty : Int]
  BY NoMutationType DEF Init
<1>9. TypeOK
  <2>1. queue \in Seq([kind : {"fill", "position"}, inst : Instruments, qty : Int])
    BY EmptyQueue, Zenon DEF Init
  <2>2. /\ mode \in Modes /\ life \in {"off", "starting", "up"} /\ paused \in BOOLEAN
        /\ exitLevels \in [Instruments -> {"none", "long", "short"}]
        /\ exiting \subseteq Instruments /\ stopLossExits \subseteq Instruments
        /\ errors \in Nat /\ accounted \in Nat /\ inserted \in Nat
    BY DEF Init
  <2>3. /\ filled \in [Instruments -> Int] /\ executed \in [Instruments -> Int]
        /\ protection \in [Instruments -> {"none", "long", "short"}]
        /\ stoppedOut \subseteq Instruments /\ wrongs \subseteq {"turned", "reentry"}
    BY DEF Init
  <2> QED BY <1>3, <1>5, <1>6, <1>7, <1>8, <2>1, <2>2, <2>3, Zenon DEF TypeOK, Happened, Pos, Row
<1> QED BY <1>3, <1>4, <1>9, NoMutationType DEF ShapeInv, Init

LEMMA StutterShape == ASSUME ShapeInv, UNCHANGED vars PROVE ShapeInv'
<1>1. Guards' /\ \A s \in Slots : TaskOK(tasks'[s])
  BY GuardsUntouched DEF vars, memory
<1>2. TypeOK'
  BY DEF ShapeInv, TypeOK, vars, memory, stream, database, history
<1> QED BY <1>1, <1>2 DEF ShapeInv, vars, stream

LEMMA NextShape == ShapeInv /\ [Next]_vars => ShapeInv'
<1> SUFFICES ASSUME ShapeInv, [Next]_vars PROVE ShapeInv'
  OBVIOUS
<1>1. CASE \E s \in Slots : Pipeline(s)
  BY <1>1, ContextReadyShape, NoContextShape, RiskShape, ExecutePaperShape,
     ExecuteLiveShape, FillStoredShape, StoredShape, DecidedShape, ExitDoneShape
     DEF Pipeline
<1>2. CASE \E s \in Slots : MutationFails(s) \/ StreamCloses(s) \/ CrashNext(s) \/ CrashEnds(s)
  BY <1>2, CrashShape, CrashNextShape, CrashEndsShape
<1>3. CASE \E s \in Slots, i \in Instruments :
             Submit(s, i) \/ StopLossAtIntake(s, i) \/ MonitorLevels(s, i) \/ ScanExit(s, i)
  BY <1>3, SubmitShape, StartsShape, ScanExitShape
<1>4. CASE TakeFill \/ FillRecorded \/ TakePosition \/ RowUpdated
  BY <1>4, TakeFillShape, FillRecordedShape, TakePositionShape, RowUpdatedShape
<1>5. CASE StreamDrops \/ StreamReconnects
  BY <1>5, StreamUpDownShape
<1>6. CASE StopActor \/ ProcessDies \/ StartActor \/ Recover \/ RehydrationFails
  BY <1>6, StopActorShape, ProcessDiesShape, StartActorShape, RecoverShape
<1>7. CASE UNCHANGED vars
  BY <1>7, StutterShape
<1> QED BY <1>1, <1>2, <1>3, <1>4, <1>5, <1>6, <1>7 DEF Next

LEMMA Shape == Spec => []ShapeInv
<1>1. ShapeInv /\ [Next]_vars => ShapeInv'
  BY NextShape
<1> QED BY <1>1, InitShape, PTL DEF Spec

(* Every variable of the actor keeps its type. *)
THEOREM TypeCorrect == Spec => []TypeOK
<1>1. ShapeInv => TypeOK
  BY DEF ShapeInv
<1> QED BY <1>1, Shape, PTL

(* exitingInstruments is exactly the set of instruments of the per-trade    *)
(* exits under way, however they end: no exit leaves an instrument behind   *)
(* that the monitor then never looks at again.                              *)
THEOREM ExitGuardIsHeld == Spec => []ExitGuardHeld
<1>1. ShapeInv => ExitGuardHeld
  <2> SUFFICES ASSUME ShapeInv, Running
      PROVE  exiting = {tasks[s].inst : s \in {r \in Slots : tasks[r].guarded}}
    BY DEF ExitGuardHeld
  <2>1. \A i \in exiting : i \in {tasks[s].inst : s \in {r \in Slots : tasks[r].guarded}}
    BY DEF ShapeInv, Guards
  <2>2. \A i \in {tasks[s].inst : s \in {r \in Slots : tasks[r].guarded}} : i \in exiting
    BY DEF ShapeInv, Guards
  <2> QED BY <2>1, <2>2
<1> QED BY <1>1, Shape, PTL

-----------------------------------------------------------------------------
(* The fills the trackers contain, and those the rows contain. *)
Unread == {"write", "unsummed", "early"}
Fills == {s \in Slots : tasks[s].pc = "fill"}
Inserting == IF mutation.pc = "insert" THEN 1 ELSE 0
Fresh ==
    /\ \A s \in Slots : tasks[s].pc = "idle"
    /\ mutation.pc = "idle" /\ queue = <<>>
Balanced == accounted = inserted + Cardinality(Fills) + Inserting

(* The stream is open as long as the actor is up; one that has not yet read *)
(* its rows has done nothing.                                               *)
CountInv ==
    /\ life # "up" => queue = <<>>
    /\ ~Excused(Unread) => (life = "starting" => Fresh) /\ (life = "up" => Balanced)

(* What excuses a property, once noted, stays noted. *)
Lasting(K) == "crossed" \in K \/ K \subseteq {"crossed", "early", "unsummed", "write"}

LEMMA ExcuseLasts ==
  ASSUME ShapeInv, NEW K, Lasting(K), Excused(K),
         NEW S, NEW k, Note(S) \/ Fault(k, S) \/ happened' = happened
  PROVE  Excused(K)'
<1>1. happened \in Happened
  BY HappenedType
<1>2. \/ happened' = happened
      \/ happened'.races = Noted(happened.races \cup S)
  BY <1>1 DEF Note, Fault, Happened
<1>3. Noted(happened.races \cup S) \cap K # {}
  BY DEF Noted, Lasting, Excused
<1> QED BY <1>2, <1>3 DEF Excused

LEMMA ExcuseComes ==
  ASSUME ShapeInv, NEW K, Lasting(K), NEW S, NEW k, Note(S) \/ Fault(k, S),
         NEW x \in K, x \in S
  PROVE  Excused(K)'
<1>1. happened \in Happened
  BY HappenedType
<1>2. happened'.races = Noted(happened.races \cup S)
  BY <1>1 DEF Note, Fault, Happened
<1>3. Noted(happened.races \cup S) \cap K # {}
  BY DEF Noted, Lasting
<1> QED BY <1>2, <1>3 DEF Excused

LEMMA ExcuseStays ==
  ASSUME ShapeInv, NEW S, NEW k, Note(S) \/ Fault(k, S) \/ happened' = happened,
         Excused(Unread)
  PROVE  Excused(Unread)'
<1>1. Lasting(Unread)
  BY DEF Lasting, Unread
<1> QED BY <1>1, ExcuseLasts

LEMMA WriteExcuses ==
  ASSUME ShapeInv, NEW k, NEW x \in Unread, Fault(k, {x}) \/ Note({x})
  PROVE  Excused(Unread)'
<1>1. Lasting(Unread)
  BY DEF Lasting, Unread
<1> QED BY <1>1, ExcuseComes

LEMMA FillsFinite == IsFiniteSet(Fills) /\ Cardinality(Fills) \in Nat
  BY TradingAssumption, FS_Subset, FS_CardinalityType DEF Fills

(* A step that neither takes nor records a fill. *)
LEMMA QuietCount ==
  ASSUME ShapeInv, CountInv, life' = life, UNCHANGED <<accounted, inserted>>,
         mutation'.pc = "insert" <=> mutation.pc = "insert",
         Excused(Unread) => Excused(Unread)',
         life # "up" => queue' = queue,
         life = "starting" /\ ~Excused(Unread)' => UNCHANGED <<tasks, mutation, queue>>,
         \A r \in Slots : tasks'[r].pc = "fill" <=> tasks[r].pc = "fill"
  PROVE  CountInv'
<1>1. Fills' = Fills
  BY DEF Fills
<1>2. Inserting' = Inserting
  BY DEF Inserting
<1>3. life = "starting" /\ ~Excused(Unread)' => Fresh'
  BY DEF CountInv, Fresh
<1>4. life = "up" /\ ~Excused(Unread)' => Balanced'
  BY <1>1, <1>2 DEF CountInv, Balanced
<1> QED BY <1>3, <1>4 DEF CountInv

(* ... of a task that is under way. *)
LEMMA QuietTask ==
  ASSUME ShapeInv, CountInv, NEW s \in Slots, tasks[s].pc \notin {"idle", "fill"},
         NEW u, Become(s, u), u.pc # "fill", life' = life,
         UNCHANGED <<accounted, inserted, mutation>>,
         Excused(Unread) => Excused(Unread)',
         life # "up" => queue' = queue
  PROVE  CountInv'
<1>1. \A r \in Slots : tasks'[r].pc = "fill" <=> tasks[r].pc = "fill"
  BY DEF ShapeInv, TypeOK, Become
<1>2. ~(life = "starting" /\ ~Excused(Unread)')
  BY DEF CountInv, Fresh
<1> QED BY <1>1, <1>2, QuietCount

LEMMA ContextCount ==
  ASSUME ShapeInv, CountInv, NEW s \in Slots,
         ContextReady(s) \/ NoContext(s) \/ CheckRisk(s) \/ OtherLimit(s)
  PROVE  CountInv'
<1>1. tasks[s] \in Task /\ tasks[s].pc \in {"context", "risk"}
  BY DEF ShapeInv, TypeOK, ContextReady, NoContext, CheckRisk, OtherLimit
<1>2. PICK u : Become(s, u) /\ u.pc # "fill"
  <2>1. After(tasks[s]).pc # "fill"
    BY DEF After, IdleTask
  <2>2. CASE ContextReady(s)
    <3>2. CASE End(s)
      BY <2>1, <3>2 DEF End
    <3>3. CASE ~End(s)
      <4> DEFINE t == tasks[s]
                 pos == IF t.kind = "crash" THEN t.pos ELSE positions[t.inst]
                 orders == PlanDecision(t.intent, t.size, pos.net)
                 p == IF orders = <<>> THEN "wrap" ELSE "risk"
                 o == IF orders = <<>> THEN "noop" ELSE "none"
                 u == [t EXCEPT !.pc = p, !.pos = pos, !.result = pos.net,
                                !.orders = orders, !.outcome = o]
      <4>1. Become(s, u)
        BY <2>2, <3>3 DEF ContextReady
      <4>2. p # "fill"
        OBVIOUS
      <4>3. u.pc = p
        <5> HIDE DEF t, p, pos, orders, o
        <5> QED BY <1>1 DEF Task, t
      <4> HIDE DEF u, p
      <4> QED BY <4>1, <4>2, <4>3
    <3> QED BY <3>2, <3>3
  <2>3. CASE NoContext(s)
    BY <2>1, <2>3 DEF NoContext, End
  <2>4. CASE CheckRisk(s) \/ OtherLimit(s)
    <3>1. [tasks[s] EXCEPT !.pc = "wrap", !.outcome = "rejected"].pc = "wrap"
      BY <1>1 DEF Task
    <3>2. [tasks[s] EXCEPT !.pc = "execute"].pc = "execute"
      BY <1>1 DEF Task
    <3> QED BY <2>4, <3>1, <3>2 DEF CheckRisk, OtherLimit
  <2> QED BY <2>2, <2>3, <2>4
<1>3. /\ life' = life /\ queue' = queue
      /\ UNCHANGED <<accounted, inserted, mutation>>
  BY DEF ContextReady, NoContext, CheckRisk, OtherLimit, memory, stream, database
<1>4. PICK S, k : Note(S) \/ Fault(k, S) \/ happened' = happened
  BY DEF ContextReady, NoContext, CheckRisk, OtherLimit
<1>5. Excused(Unread) => Excused(Unread)'
  BY <1>4, ExcuseStays
<1> QED BY <1>1, <1>2, <1>3, <1>5, QuietTask

LEMMA LiveCount ==
  ASSUME ShapeInv, CountInv, NEW s \in Slots,
         ExecuteLive(s) \/ VenueRefuses(s) \/ ExecutionTimesOut(s)
  PROVE  CountInv'
<1>1. tasks[s] \in Task /\ tasks[s].pc = "execute"
  BY DEF ShapeInv, TypeOK, ExecuteLive, VenueRefuses, ExecutionTimesOut
<1>2. PICK u : Become(s, u) /\ u.pc # "fill"
  <2>1. [tasks[s] EXCEPT !.pc = "store", !.orders = <<>>].pc = "store"
    BY <1>1 DEF Task
  <2>2. [tasks[s] EXCEPT !.pc = "store", !.orders = <<>>, !.outcome = "refused"].pc = "store"
    BY <1>1 DEF Task
  <2>3. [tasks[s] EXCEPT !.pc = "wrap", !.orders = <<>>, !.outcome = "failed"].pc = "wrap"
    BY <1>1 DEF Task
  <2> QED BY <2>1, <2>2, <2>3 DEF ExecuteLive, VenueRefuses, ExecutionTimesOut
<1>3. life' = life /\ UNCHANGED <<accounted, inserted, mutation>>
  BY DEF ExecuteLive, VenueRefuses, ExecutionTimesOut, memory, stream, database
<1>4. life # "up" => queue' = queue
  <2> SUFFICES ASSUME life # "up" PROVE queue' = queue
    OBVIOUS
  <2>1. Reports(tasks[s]) = {<<>>}
    BY DEF Reports
  <2>2. queue = <<>> /\ queue \o <<>> = queue
    BY DEF CountInv
  <2> QED BY <2>1, <2>2 DEF ExecuteLive, VenueRefuses, ExecutionTimesOut, stream
<1>5. PICK S, k : Note(S) \/ Fault(k, S) \/ happened' = happened
  BY DEF ExecuteLive, VenueRefuses, ExecutionTimesOut
<1>6. Excused(Unread) => Excused(Unread)'
  BY <1>5, ExcuseStays
<1> QED BY <1>1, <1>2, <1>3, <1>4, <1>6, QuietTask

LEMMA StoreCount ==
  ASSUME ShapeInv, CountInv, NEW s \in Slots, Stored(s) \/ Decided(s) \/ ExitDone(s)
  PROVE  CountInv'
<1>1. tasks[s] \in Task /\ tasks[s].pc \in {"store", "wrap"}
  BY DEF ShapeInv, TypeOK, Stored, Decided, ExitDone
<1>2. PICK u : Become(s, u) /\ u.pc # "fill"
  <2>1. After(tasks[s]).pc # "fill"
    BY DEF After, IdleTask
  <2>2. \A o : [tasks[s] EXCEPT !.pc = "wrap", !.outcome = o].pc = "wrap"
    BY <1>1 DEF Task
  <2>3. CASE Stored(s)
    BY <1>1, <2>2, <2>3 DEF Stored
  <2>4. CASE Decided(s) \/ ExitDone(s)
    BY <2>1, <2>4 DEF Decided, ExitDone, End
  <2> QED BY <2>3, <2>4
<1>3. /\ life' = life /\ queue' = queue
      /\ UNCHANGED <<accounted, inserted, mutation>>
  BY DEF Stored, Decided, ExitDone, stream, database
<1>4. PICK S, k : Note(S) \/ Fault(k, S) \/ happened' = happened
  BY DEF Stored, Decided, ExitDone
<1>5. Excused(Unread) => Excused(Unread)'
  BY <1>4, ExcuseStays
<1> QED BY <1>1, <1>2, <1>3, <1>5, QuietTask

LEMMA WriteFailsCount ==
  ASSUME ShapeInv, CountInv, NEW s \in Slots, WriteFails(s) \/ MutationFails(s)
  PROVE  CountInv'
<1>1. Fault("write", {"write"}) /\ life' = life /\ queue' = queue
  BY DEF WriteFails, MutationFails, stream
<1>2. Excused(Unread)'
  BY <1>1, WriteExcuses DEF Unread
<1> QED BY <1>1, <1>2 DEF CountInv

LEMMA PaperCount ==
  ASSUME ShapeInv, CountInv, NEW s \in Slots, ExecutePaper(s)
  PROVE  CountInv'
<1>1. tasks[s] \in Task /\ tasks[s].pc = "execute"
  BY DEF ShapeInv, TypeOK, ExecutePaper
<1>2. /\ Become(s, Account(tasks[s])) /\ Note(TradeRaces(tasks[s]))
      /\ accounted' = accounted + 1 /\ UNCHANGED <<life, queue, mutation, inserted>>
  BY DEF ExecutePaper, stream, database
<1>3. Account(tasks[s]).pc = "fill"
  BY <1>1, AccountFields
<1>4. Fills' = Fills \cup {s} /\ s \notin Fills
  BY <1>1, <1>2, <1>3 DEF ShapeInv, TypeOK, Become, Fills
<1>5. Cardinality(Fills') = Cardinality(Fills) + 1
  BY <1>4, FillsFinite, FS_AddElement
<1>6. Excused(Unread) => Excused(Unread)'
  BY <1>2, ExcuseStays
<1>7. ~(life = "starting" /\ ~Excused(Unread)')
  BY <1>1, <1>6 DEF CountInv, Fresh
<1>8. life = "up" /\ ~Excused(Unread)' => Balanced'
  <2> SUFFICES ASSUME life = "up", ~Excused(Unread)' PROVE Balanced'
    OBVIOUS
  <2>1. accounted = inserted + Cardinality(Fills) + Inserting
    BY <1>6 DEF CountInv, Balanced
  <2>2. Inserting' = Inserting /\ Inserting \in Nat
    BY <1>2 DEF Inserting
  <2>3. accounted \in Nat /\ inserted \in Nat
    BY DEF ShapeInv, TypeOK
  <2> QED BY <1>2, <1>5, <2>1, <2>2, <2>3, FillsFinite DEF Balanced
<1> QED BY <1>2, <1>7, <1>8 DEF CountInv

LEMMA FillStoredCount ==
  ASSUME ShapeInv, CountInv, NEW s \in Slots, FillStored(s)
  PROVE  CountInv'
<1> DEFINE t == tasks[s]
           rest == [t EXCEPT !.orders = Tail(@)]
<1>1. t \in Task /\ t.pc = "fill" /\ Tail(t.orders) \in Seq(Int)
  BY AtHand DEF FillStored
<1>2. /\ IF rest.orders # <<>>
         THEN Become(s, Account(rest)) /\ accounted' = accounted + 1
         ELSE Become(s, [rest EXCEPT !.pc = "store"]) /\ UNCHANGED accounted
      /\ inserted' = inserted + 1 /\ UNCHANGED <<life, queue, mutation, happened>>
  BY DEF FillStored, stream
<1>3. rest \in Task
  <2> DEFINE q == Tail(t.orders)
  <2>1. rest = [t EXCEPT !.orders = q]
    BY <1>1 DEF Task
  <2> HIDE DEF t, rest, q
  <2>2. [t EXCEPT !.orders = q] \in Task
    BY <1>1, ZenonT(60) DEF Task, q
  <2> QED BY <2>1, <2>2
<1>4. Account(rest).pc = "fill" /\ [rest EXCEPT !.pc = "store"].pc = "store"
  <2> HIDE DEF rest
  <2> QED BY <1>3, AccountFields DEF Task
<1>5. s \in Fills
  BY <1>1 DEF Fills
<1>6. \/ Fills' = Fills /\ accounted' = accounted + 1
      \/ Fills' = Fills \ {s} /\ accounted' = accounted
  <2>1. tasks \in [Slots -> Task]
    BY DEF ShapeInv, TypeOK
  <2> HIDE DEF rest
  <2>2. CASE rest.orders # <<>>
    BY <1>2, <1>4, <1>5, <2>1, <2>2 DEF Become, Fills
  <2>3. CASE rest.orders = <<>>
    BY <1>2, <1>4, <1>5, <2>1, <2>3 DEF Become, Fills
  <2> QED BY <2>2, <2>3
<1>7. Cardinality(Fills \ {s}) = Cardinality(Fills) - 1
  BY <1>5, FillsFinite, FS_RemoveElement
<1>8. Excused(Unread)' <=> Excused(Unread)
  BY <1>2 DEF Excused
<1>9. ~(life = "starting" /\ ~Excused(Unread)')
  BY <1>1, <1>8 DEF CountInv, Fresh
<1>10. life = "up" /\ ~Excused(Unread)' => Balanced'
  <2> SUFFICES ASSUME life = "up", ~Excused(Unread)' PROVE Balanced'
    OBVIOUS
  <2>1. accounted = inserted + Cardinality(Fills) + Inserting
    BY <1>8 DEF CountInv, Balanced
  <2>2. Inserting' = Inserting /\ Inserting \in Nat
    BY <1>2 DEF Inserting
  <2>3. accounted \in Nat /\ inserted \in Nat
    BY DEF ShapeInv, TypeOK
  <2>4. inserted' = inserted + 1
    BY <1>2
  <2> QED BY <1>6, <1>7, <2>1, <2>2, <2>3, <2>4, FillsFinite DEF Balanced
<1> QED BY <1>2, <1>9, <1>10 DEF CountInv

LEMMA StreamCount ==
  ASSUME ShapeInv, CountInv, TakeFill \/ FillRecorded \/ TakePosition \/ RowUpdated
  PROVE  CountInv'
<1>1. PICK S, k : Note(S) \/ Fault(k, S) \/ happened' = happened
  BY DEF TakeFill, FillRecorded, TakePosition, RowUpdated
<1>2. Excused(Unread) => Excused(Unread)'
  BY <1>1, ExcuseStays
<1>3. life' = life /\ tasks' = tasks /\ (life # "up" => queue' = queue)
  BY DEF CountInv, TakeFill, FillRecorded, TakePosition, RowUpdated
<1>4. ~(life = "starting" /\ ~Excused(Unread)')
  BY <1>2 DEF CountInv, Fresh, TakeFill, FillRecorded, TakePosition, RowUpdated
<1>5. Fills' = Fills
  BY <1>3 DEF Fills
<1>6. accounted' - inserted' - Inserting' = accounted - inserted - Inserting
  <2>1. accounted \in Nat /\ inserted \in Nat /\ Inserting \in Nat
    BY DEF ShapeInv, TypeOK, Inserting
  <2>2. CASE TakeFill
    <3>1. mutation'.pc = "insert" /\ mutation.pc = "idle" /\ accounted' = accounted + 1 /\ inserted' = inserted
      BY <2>2 DEF TakeFill, database
    <3> QED BY <2>1, <3>1 DEF Inserting
  <2>3. CASE FillRecorded
    <3>1. mutation'.pc = "upsert" /\ mutation.pc = "insert" /\ accounted' = accounted /\ inserted' = inserted + 1
      BY <2>3 DEF FillRecorded, ShapeInv, TypeOK
    <3> QED BY <2>1, <3>1 DEF Inserting
  <2>4. CASE TakePosition \/ RowUpdated
    <3>1. mutation'.pc # "insert" /\ mutation.pc # "insert" /\ accounted' = accounted /\ inserted' = inserted
      BY <2>4 DEF TakePosition, RowUpdated, database, memory, NoMutation
    <3> QED BY <2>1, <3>1 DEF Inserting
  <2> QED BY <2>2, <2>3, <2>4
<1>7. life = "up" /\ ~Excused(Unread)' => Balanced'
  <2> SUFFICES ASSUME life = "up", ~Excused(Unread)' PROVE Balanced'
    OBVIOUS
  <2>1. accounted = inserted + Cardinality(Fills) + Inserting
    BY <1>2 DEF CountInv, Balanced
  <2>2. accounted \in Nat /\ inserted \in Nat /\ Inserting \in Nat /\ Inserting' \in Nat
    BY DEF ShapeInv, TypeOK, Inserting
  <2>3. accounted' \in Nat /\ inserted' \in Nat
    BY <2>2 DEF TakeFill, FillRecorded, TakePosition, RowUpdated, database, memory
  <2> QED BY <1>5, <1>6, <2>1, <2>2, <2>3, FillsFinite DEF Balanced
<1> QED BY <1>3, <1>4, <1>7 DEF CountInv

LEMMA BeginCount ==
  ASSUME ShapeInv, CountInv, NEW s \in Slots, NEW u, Idle(s), Begin(s, u), u.pc # "fill",
         life' = life, UNCHANGED <<accounted, inserted, mutation, queue>>,
         life = "starting" => Excused(Unread)',
         Excused(Unread) => Excused(Unread)'
  PROVE  CountInv'
<1>1. \A r \in Slots : tasks'[r].pc = "fill" <=> tasks[r].pc = "fill"
  BY DEF ShapeInv, TypeOK, Begin, Become, Idle
<1> QED BY <1>1, QuietCount

LEMMA SubmitCount ==
  ASSUME ShapeInv, CountInv, NEW s \in Slots, NEW i \in Instruments, Submit(s, i)
  PROVE  CountInv'
<1>1. PICK u : Begin(s, u) /\ u.pc = "context"
  <2>1. PICK intent, size, levels :
          Begin(s, [IdleTask EXCEPT
              !.pc = "context", !.kind = "decide", !.inst = i,
              !.intent = intent, !.size = size, !.levels = levels,
              !.count = OpenPositionCount, !.cooled = i \in stopLossExits])
    BY DEF Submit
  <2> DEFINE u == [IdleTask EXCEPT
              !.pc = "context", !.kind = "decide", !.inst = i,
              !.intent = intent, !.size = size, !.levels = levels,
              !.count = OpenPositionCount, !.cooled = i \in stopLossExits]
  <2>2. u.pc = "context"
    BY DEF IdleTask
  <2> HIDE DEF u
  <2> QED BY <2>1, <2>2 DEF u
<1>2. /\ Idle(s) /\ life' = life /\ UNCHANGED <<accounted, inserted, mutation, queue>>
      /\ Note(IF life = "starting" THEN {"early"} ELSE {})
  BY DEF Submit, memory, stream, database
<1>3. Excused(Unread) => Excused(Unread)'
  BY <1>2, ExcuseStays
<1>4. life = "starting" => Excused(Unread)'
  BY <1>2, WriteExcuses DEF Unread
<1> QED BY <1>1, <1>2, <1>3, <1>4, BeginCount

LEMMA StartExitCount ==
  ASSUME ShapeInv, CountInv, NEW s \in Slots, NEW i \in Instruments, NEW guarded \in BOOLEAN,
         Idle(s), life = "up", StartExit(s, i, guarded)
  PROVE  CountInv'
<1>1. PICK u : Begin(s, u) /\ u.pc = "context"
  <2>1. [IdleTask EXCEPT !.pc = "context", !.kind = "exit",
                         !.inst = i, !.guarded = guarded].pc = "context"
    BY DEF IdleTask
  <2> QED BY <2>1 DEF StartExit
<1>2. /\ life' = life /\ UNCHANGED <<accounted, inserted, mutation, queue, happened>>
  BY DEF StartExit, stream, database
<1>3. Excused(Unread) => Excused(Unread)'
  BY <1>2 DEF Excused
<1> QED BY <1>1, <1>2, <1>3, BeginCount

LEMMA StartsCount ==
  ASSUME ShapeInv, CountInv, NEW s \in Slots, NEW i \in Instruments,
         StopLossAtIntake(s, i) \/ MonitorLevels(s, i)
  PROVE  CountInv'
<1>1. PICK guarded \in BOOLEAN : Idle(s) /\ life = "up" /\ StartExit(s, i, guarded)
  BY DEF StopLossAtIntake, MonitorLevels
<1> QED BY <1>1, StartExitCount

LEMMA ScanExitCount ==
  ASSUME ShapeInv, CountInv, NEW s \in Slots, NEW i \in Instruments, ScanExit(s, i)
  PROVE  CountInv'
<1>1. PICK u : Begin(s, u) /\ u.pc = "context"
  <2>1. [IdleTask EXCEPT !.pc = "context", !.kind = "scan", !.inst = i].pc = "context"
    BY DEF IdleTask
  <2> QED BY <2>1 DEF ScanExit
<1>2. /\ Idle(s) /\ life = "up" /\ life' = life
      /\ UNCHANGED <<accounted, inserted, mutation, queue, happened>>
  BY DEF ScanExit, memory, stream, database
<1>3. Excused(Unread) => Excused(Unread)'
  BY <1>2 DEF Excused
<1> QED BY <1>1, <1>2, <1>3, BeginCount

LEMMA CrashCount ==
  ASSUME ShapeInv, CountInv, NEW s \in Slots, StreamCloses(s) \/ CrashNext(s)
  PROVE  CountInv'
<1>1. PICK S, k : Note(S) \/ Fault(k, S) \/ happened' = happened
  BY DEF StreamCloses, CrashNext
<1>2. Excused(Unread) => Excused(Unread)'
  BY <1>1, ExcuseStays
<1>3. life' = life /\ UNCHANGED <<accounted, inserted, mutation, queue>>
  BY DEF StreamCloses, CrashNext, memory, stream, database
<1>4. CASE StreamCloses(s)
  <2>1. PICK u : Begin(s, u) /\ u.pc = "next"
    <3>1. \A todo : [IdleTask EXCEPT !.pc = "next", !.kind = "crash", !.todo = todo].pc = "next"
      BY DEF IdleTask
    <3> QED BY <1>4, <3>1 DEF StreamCloses, Crash
  <2>2. Idle(s) /\ life = "up"
    BY <1>4 DEF StreamCloses, Crash
  <2> QED BY <1>2, <1>3, <2>1, <2>2, BeginCount
<1>5. CASE CrashNext(s)
  <2>1. tasks[s] \in Task /\ tasks[s].pc = "next"
    BY <1>5 DEF CrashNext, ShapeInv, TypeOK
  <2>2. PICK u : Become(s, u) /\ u.pc # "fill"
    <3>1. \A x : [tasks[s] EXCEPT !.todo = x].pc = "next"
      BY <2>1 DEF Task
    <3>2. \A x, i, p : [[tasks[s] EXCEPT !.todo = x] EXCEPT !.pc = "context", !.inst = i,
                                                            !.pos = p].pc = "context"
      BY <2>1 DEF Task
    <3> QED BY <1>5, <2>1, <3>1, <3>2 DEF CrashNext
  <2> QED BY <1>2, <1>3, <2>1, <2>2, QuietTask
<1> QED BY <1>4, <1>5

LEMMA StreamUpDownCount ==
  ASSUME ShapeInv, CountInv, StreamDrops \/ StreamReconnects
  PROVE  CountInv'
<1>1. UNCHANGED <<life, accounted, inserted, mutation, queue, tasks>>
  BY DEF StreamDrops, StreamReconnects, memory, database
<1>2. PICK S, k : Note(S) \/ Fault(k, S) \/ happened' = happened
  BY DEF StreamDrops, StreamReconnects
<1>3. Excused(Unread) => Excused(Unread)'
  BY <1>2, ExcuseStays
<1> QED BY <1>1, <1>3, QuietCount

LEMMA HaltCount ==
  ASSUME Halt
  PROVE  CountInv'
  BY DEF Halt, CountInv

LEMMA StartActorCount == ASSUME ShapeInv, CountInv, StartActor PROVE CountInv'
<1>1. Fresh'
  BY DEF StartActor, CountInv, Fresh, stream
<1>2. life' = "starting"
  BY DEF StartActor
<1> QED BY <1>1, <1>2 DEF CountInv, Fresh

LEMMA RecoverCount ==
  ASSUME ShapeInv, CountInv, Recover \/ RehydrationFails
  PROVE  CountInv'
<1>1. PICK S, k : /\ Note(S) \/ Fault(k, S)
                  /\ accounted' = inserted \/ "unsummed" \in S
  <2>1. CASE Recover
    BY <2>1, RecoverNotes DEF TrackersRehydrated
  <2>2. CASE RehydrationFails
    <3>1. PICK read \in BOOLEAN :
             /\ InitializeRiskTrackers(read)
             /\ Fault("read", {"untold"} \cup IF read THEN {} ELSE {"unsummed"})
      BY <2>2 DEF RehydrationFails
    <3>2. CASE read
      BY <3>1, <3>2 DEF InitializeRiskTrackers, TrackersRehydrated
    <3>3. CASE ~read
      BY <3>1, <3>3
    <3> QED BY <3>2, <3>3
  <2> QED BY <2>1, <2>2
<1>2. Excused(Unread) => Excused(Unread)'
  BY <1>1, ExcuseStays
<1>3. /\ life = "starting" /\ life' \in {"off", "up"}
      /\ UNCHANGED <<inserted, tasks, mutation, queue>>
  BY DEF Recover, RehydrationFails, StartReconciler, stream, database
<1>4. ~Excused(Unread)' => Fresh' /\ accounted' = inserted
  <2> SUFFICES ASSUME ~Excused(Unread)' PROVE Fresh' /\ accounted' = inserted
    OBVIOUS
  <2>1. "unsummed" \notin S
    BY <1>1, ExcuseComes DEF Unread, Lasting
  <2> QED BY <1>1, <1>2, <1>3, <2>1 DEF CountInv, Fresh
<1>5. Fresh' /\ accounted' = inserted => Balanced'
  <2> SUFFICES ASSUME Fresh', accounted' = inserted PROVE Balanced'
    OBVIOUS
  <2>1. Fills' = {} /\ Inserting' = 0
    BY DEF Fresh, Fills, Inserting
  <2>2. Cardinality(Fills') = 0
    BY <2>1, FS_EmptySet
  <2>3. inserted \in Nat
    BY DEF ShapeInv, TypeOK
  <2> QED BY <1>3, <2>1, <2>2, <2>3 DEF Balanced
<1>6. queue' = <<>>
  BY <1>3 DEF CountInv
<1> QED BY <1>3, <1>4, <1>5, <1>6 DEF CountInv

-----------------------------------------------------------------------------
LEMMA InitCount == Init => CountInv
  BY DEF Init, CountInv

LEMMA NextCount == ShapeInv /\ CountInv /\ [Next]_vars => CountInv'
<1> SUFFICES ASSUME ShapeInv, CountInv, [Next]_vars PROVE CountInv'
  OBVIOUS
<1>1. CASE \E s \in Slots : Pipeline(s)
  BY <1>1, ContextCount, LiveCount, StoreCount, WriteFailsCount, PaperCount,
     FillStoredCount DEF Pipeline
<1>2. CASE \E s \in Slots : MutationFails(s) \/ StreamCloses(s) \/ CrashNext(s) \/ CrashEnds(s)
  BY <1>2, WriteFailsCount, CrashCount, HaltCount DEF CrashEnds
<1>3. CASE \E s \in Slots, i \in Instruments :
             Submit(s, i) \/ StopLossAtIntake(s, i) \/ MonitorLevels(s, i) \/ ScanExit(s, i)
  BY <1>3, SubmitCount, StartsCount, ScanExitCount
<1>4. CASE TakeFill \/ FillRecorded \/ TakePosition \/ RowUpdated
  BY <1>4, StreamCount
<1>5. CASE StreamDrops \/ StreamReconnects
  BY <1>5, StreamUpDownCount
<1>6. CASE StopActor \/ ProcessDies \/ StartActor \/ Recover \/ RehydrationFails
  BY <1>6, HaltCount, StartActorCount, RecoverCount DEF StopActor, ProcessDies
<1>7. CASE UNCHANGED vars
  <2>1. UNCHANGED <<life, accounted, inserted, mutation, queue, tasks, happened>>
    BY <1>7 DEF vars, memory, stream, database
  <2>2. Excused(Unread) => Excused(Unread)'
    BY <2>1 DEF Excused
  <2> QED BY <2>1, <2>2, QuietCount
<1> QED BY <1>1, <1>2, <1>3, <1>4, <1>5, <1>6, <1>7 DEF Next

(* Every fill is in the loss and equity trackers exactly once, whatever     *)
(* activities cross and however often the actor is stopped, killed and      *)
(* started, unless a write failed, a restart could not sum up the fills, or *)
(* a decision was taken before that.                                        *)
THEOREM TrackersAreTrue == Spec => []TrackersTrue
<1>1. ShapeInv /\ CountInv => TrackersTrue
  BY DEF CountInv, TrackersTrue, Balanced, Fills, Inserting, Unread
<1>2. ShapeInv /\ CountInv /\ [Next]_vars => CountInv'
  BY NextCount
<1> QED BY <1>1, <1>2, InitCount, Shape, PTL DEF Spec

-----------------------------------------------------------------------------
(* In paper mode there is no private stream, so nothing crashes the actor. *)
PaperInv ==
    mode = "paper" =>
        /\ queue = <<>> /\ mutation.pc = "idle"
        /\ \A s \in Slots : /\ tasks[s].kind # "crash" /\ tasks[s].pc # "next"
                            /\ tasks[s].kind # "decide" => tasks[s].intent = "go_flat"

Steady(t) ==
    /\ t.kind # "crash" /\ t.pc # "next"
    /\ t.kind # "decide" => t.intent = "go_flat"

LEMMA SteadyAfter ==
  ASSUME NEW t \in Task, t.kind # "crash"
  PROVE  After(t) = IdleTask /\ Steady(After(t))
  BY DEF After, Steady, IdleTask

LEMMA SteadyStep ==
  ASSUME ShapeInv, PaperInv, mode' = mode, UNCHANGED <<queue, mutation>>,
         NEW s \in Slots, NEW u, tasks' = [tasks EXCEPT ![s] = u],
         mode = "paper" => Steady(u)
  PROVE  PaperInv'
<1>1. tasks \in [Slots -> Task]
  BY DEF ShapeInv, TypeOK
<1> QED BY <1>1 DEF PaperInv, Steady

(* A step leaves the kind and the intent of a task alone. *)
LEMMA SameSteady ==
  ASSUME ShapeInv, PaperInv, mode = "paper", NEW s \in Slots, NEW u,
         u.kind = tasks[s].kind, u.intent = tasks[s].intent, u.pc # "next"
  PROVE  Steady(u)
  BY DEF PaperInv, Steady

LEMMA ContextPaper ==
  ASSUME ShapeInv, PaperInv, NEW s \in Slots, ContextReady(s)
  PROVE  PaperInv'
<1> DEFINE t == tasks[s]
           pos == IF t.kind = "crash" THEN t.pos ELSE positions[t.inst]
           orders == PlanDecision(t.intent, t.size, pos.net)
           p == IF orders = <<>> THEN "wrap" ELSE "risk"
           o == IF orders = <<>> THEN "noop" ELSE "none"
           u == [t EXCEPT !.pc = p, !.pos = pos, !.result = pos.net,
                          !.orders = orders, !.outcome = o]
<1>1. t \in Task /\ mode' = mode /\ UNCHANGED <<queue, mutation>>
  BY DEF ShapeInv, TypeOK, ContextReady, stream
<1>2. CASE End(s)
  <2>1. tasks' = [tasks EXCEPT ![s] = After(t)]
    BY <1>2 DEF End, Become
  <2>2. mode = "paper" => Steady(After(t))
    BY <1>1, SteadyAfter DEF PaperInv
  <2> QED BY <1>1, <2>1, <2>2, SteadyStep
<1>3. CASE ~End(s)
  <2>1. tasks' = [tasks EXCEPT ![s] = u]
    BY <1>3 DEF ContextReady, Become
  <2>2. u.kind = t.kind /\ u.intent = t.intent /\ u.pc = p
    <3> HIDE DEF t, p, o, orders, pos
    <3> QED BY <1>1 DEF Task, t
  <2>3. u.pc # "next"
    BY <2>2
  <2> HIDE DEF u
  <2>4. mode = "paper" => Steady(u)
    BY <2>2, <2>3, SameSteady
  <2> QED BY <1>1, <2>1, <2>4, SteadyStep
<1> QED BY <1>2, <1>3

LEMMA EndPaper ==
  ASSUME ShapeInv, PaperInv, NEW s \in Slots,
         NoContext(s) \/ WriteFails(s) \/ Decided(s) \/ ExitDone(s)
  PROVE  PaperInv'
<1>1. End(s) /\ mode' = mode /\ UNCHANGED <<queue, mutation>> /\ tasks[s] \in Task
  BY DEF NoContext, WriteFails, Decided, ExitDone, stream, ShapeInv, TypeOK
<1>2. tasks' = [tasks EXCEPT ![s] = After(tasks[s])]
  BY <1>1 DEF End, Become
<1>3. mode = "paper" => Steady(After(tasks[s]))
  BY <1>1, SteadyAfter DEF PaperInv
<1> QED BY <1>1, <1>2, <1>3, SteadyStep

LEMMA RiskPaper ==
  ASSUME ShapeInv, PaperInv, NEW s \in Slots,
         CheckRisk(s) \/ OtherLimit(s) \/ Stored(s) \/ ExecutePaper(s)
  PROVE  PaperInv'
<1> DEFINE t == tasks[s]
<1>1. t \in Task /\ mode' = mode /\ UNCHANGED <<queue, mutation>>
  BY DEF ShapeInv, TypeOK, CheckRisk, OtherLimit, Stored, ExecutePaper, stream
<1>2. \E u : Become(s, u) /\ u.kind = t.kind /\ u.intent = t.intent /\ u.pc # "next"
  <2>1. CASE CheckRisk(s) \/ OtherLimit(s)
    <3>1. PICK u \in {[t EXCEPT !.pc = "wrap", !.outcome = "rejected"], [t EXCEPT !.pc = "execute"]} :
             Become(s, u)
      BY <2>1 DEF CheckRisk, OtherLimit
    <3>2. u.kind = t.kind /\ u.intent = t.intent /\ u.pc # "next"
      <4> HIDE DEF t
      <4> QED BY <1>1, <3>1 DEF Task
    <3> QED BY <3>1, <3>2
  <2>2. CASE Stored(s)
    <3> DEFINE o == IF t.outcome = "none" THEN "ok" ELSE t.outcome
               u == [t EXCEPT !.pc = "wrap", !.outcome = o]
    <3>1. Become(s, u)
      BY <1>1, <2>2 DEF Stored, Task
    <3>2. u.kind = t.kind /\ u.intent = t.intent /\ u.pc # "next"
      <4> HIDE DEF t, o
      <4> QED BY <1>1 DEF Task
    <3> HIDE DEF u
    <3> QED BY <3>1, <3>2
  <2>3. CASE ExecutePaper(s)
    <3>1. Become(s, Account(t))
      BY <2>3 DEF ExecutePaper
    <3>2. Account(t).kind = t.kind /\ Account(t).intent = t.intent /\ Account(t).pc = "fill"
      BY <1>1, AccountFields
    <3> QED BY <3>1, <3>2
  <2> QED BY <2>1, <2>2, <2>3
<1>3. PICK u : Become(s, u) /\ u.kind = t.kind /\ u.intent = t.intent /\ u.pc # "next"
  BY <1>2
<1>4. mode = "paper" => Steady(u)
  BY <1>3, SameSteady
<1> QED BY <1>1, <1>3, <1>4, SteadyStep DEF Become

(* The two ways in which a fill is recorded. *)
LEMMA FillStep ==
  ASSUME ShapeInv, NEW s \in Slots, FillStored(s)
  PROVE  LET t == tasks[s]
             q == Tail(t.orders)
         IN \E u \in Task :
            /\ Become(s, u)
            /\ u.kind = t.kind /\ u.intent = t.intent /\ u.inst = t.inst
            /\ u.orders = q /\ u.pos = t.pos /\ u.outcome = t.outcome /\ u.levels = t.levels
            /\ \/ q # <<>> /\ u.pc = "fill" /\ u.result = t.result + Head(q)
               \/ q = <<>> /\ u.pc = "store" /\ u.result = t.result
<1> DEFINE t == tasks[s]
           q == Tail(t.orders)
           rest == [t EXCEPT !.orders = q]
<1>1. /\ t \in Task /\ t.orders \in Seq(Int) /\ t.orders # <<>> /\ q \in Seq(Int)
      /\ t.result \in Int
  BY AtHand DEF FillStored
<1>2. [t EXCEPT !.orders = Tail(@)] = rest
  BY <1>1 DEF Task
<1>3. rest \in Task
  <2> HIDE DEF t, q
  <2> QED BY <1>1, ZenonT(60) DEF Task
<1>4. /\ rest.kind = t.kind /\ rest.intent = t.intent /\ rest.inst = t.inst
      /\ rest.orders = q /\ rest.pos = t.pos /\ rest.outcome = t.outcome
      /\ rest.levels = t.levels /\ rest.result = t.result
  <2> HIDE DEF t, q
  <2> QED BY <1>1 DEF Task
<1>5. IF rest.orders # <<>> THEN Become(s, Account(rest))
      ELSE Become(s, [rest EXCEPT !.pc = "store"])
  BY <1>2 DEF FillStored
<1> HIDE DEF rest
<1>6. CASE q # <<>>
  <2>1. Account(rest) \in Task
    BY <1>1, <1>3, <1>4, <1>6, AccountTask
  <2>2. Account(rest).levels = rest.levels
    BY <1>3 DEF Account, Task
  <2> QED BY <1>3, <1>4, <1>5, <1>6, <2>1, <2>2, AccountFields
<1>7. CASE q = <<>>
  <2> DEFINE u == [rest EXCEPT !.pc = "store"]
  <2>1. u \in Task
    BY <1>3, ZenonT(60) DEF Task
  <2>2. /\ u.kind = rest.kind /\ u.intent = rest.intent /\ u.inst = rest.inst
        /\ u.orders = rest.orders /\ u.pos = rest.pos /\ u.outcome = rest.outcome
        /\ u.levels = rest.levels /\ u.result = rest.result /\ u.pc = "store"
    BY <1>3 DEF Task
  <2>3. Become(s, u)
    BY <1>4, <1>5, <1>7
  <2> HIDE DEF u
  <2> QED BY <1>4, <1>7, <2>1, <2>2, <2>3
<1> QED BY <1>6, <1>7

LEMMA FillPaper ==
  ASSUME ShapeInv, PaperInv, NEW s \in Slots, FillStored(s)
  PROVE  PaperInv'
<1>1. PICK u : Become(s, u) /\ u.kind = tasks[s].kind /\ u.intent = tasks[s].intent /\ u.pc # "next"
  BY FillStep
<1>2. mode = "paper" => Steady(u)
  BY <1>1, SameSteady
<1>3. mode' = mode /\ UNCHANGED <<queue, mutation>>
  BY DEF FillStored, stream
<1> QED BY <1>1, <1>2, <1>3, SteadyStep DEF Become

LEMMA StartPaper ==
  ASSUME ShapeInv, PaperInv, NEW s \in Slots, NEW i \in Instruments,
         Submit(s, i) \/ StopLossAtIntake(s, i) \/ MonitorLevels(s, i) \/ ScanExit(s, i)
  PROVE  PaperInv'
<1>1. mode' = mode /\ UNCHANGED <<queue, mutation>>
  BY DEF Submit, StopLossAtIntake, MonitorLevels, ScanExit, StartExit, stream
<1>2. \E u : Become(s, u) /\ Steady(u)
  <2>1. CASE Submit(s, i)
    <3>1. PICK intent, size, levels :
            Become(s, [IdleTask EXCEPT
                !.pc = "context", !.kind = "decide", !.inst = i,
                !.intent = intent, !.size = size, !.levels = levels,
                !.count = OpenPositionCount, !.cooled = i \in stopLossExits])
      BY <2>1 DEF Submit, Begin
    <3> DEFINE u == [IdleTask EXCEPT
                !.pc = "context", !.kind = "decide", !.inst = i,
                !.intent = intent, !.size = size, !.levels = levels,
                !.count = OpenPositionCount, !.cooled = i \in stopLossExits]
    <3>2. Steady(u)
      BY DEF Steady, IdleTask
    <3> HIDE DEF u
    <3> QED BY <3>1, <3>2 DEF u
  <2>2. CASE StopLossAtIntake(s, i) \/ MonitorLevels(s, i)
    <3>1. PICK guarded : Become(s, [IdleTask EXCEPT !.pc = "context", !.kind = "exit",
                                                   !.inst = i, !.guarded = guarded])
      BY <2>2 DEF StopLossAtIntake, MonitorLevels, StartExit, Begin
    <3> DEFINE u == [IdleTask EXCEPT !.pc = "context", !.kind = "exit",
                                     !.inst = i, !.guarded = guarded]
    <3>2. Steady(u)
      BY DEF Steady, IdleTask
    <3> HIDE DEF u
    <3> QED BY <3>1, <3>2 DEF u
  <2>3. CASE ScanExit(s, i)
    <3> DEFINE u == [IdleTask EXCEPT !.pc = "context", !.kind = "scan", !.inst = i]
    <3>1. Become(s, u)
      BY <2>3 DEF ScanExit, Begin
    <3>2. Steady(u)
      BY DEF Steady, IdleTask
    <3> HIDE DEF u
    <3> QED BY <3>1, <3>2
  <2> QED BY <2>1, <2>2, <2>3
<1>3. PICK u : Become(s, u) /\ Steady(u)
  BY <1>2
<1> QED BY <1>1, <1>3, SteadyStep DEF Become

LEMMA LiveOnlyPaper ==
  ASSUME ShapeInv, PaperInv, NEW s \in Slots,
         \/ ExecuteLive(s) \/ VenueRefuses(s) \/ ExecutionTimesOut(s)
         \/ MutationFails(s) \/ StreamCloses(s) \/ CrashNext(s) \/ CrashEnds(s)
  PROVE  mode = "live" /\ mode' = mode
<1>1. mode' = mode
  BY DEF ExecuteLive, VenueRefuses, ExecutionTimesOut, MutationFails, StreamCloses,
         CrashNext, CrashEnds
<1>2. mode \in {"paper", "live"}
  BY TradingAssumption DEF ShapeInv, TypeOK
<1>3. mode # "paper"
  BY DEF PaperInv, ExecuteLive, VenueRefuses, ExecutionTimesOut, MutationFails,
         StreamCloses, CrashNext, CrashEnds
<1> QED BY <1>1, <1>2, <1>3

LEMMA LiveStreamPaper ==
  ASSUME ShapeInv, PaperInv,
         \/ TakeFill \/ FillRecorded \/ TakePosition \/ RowUpdated \/ StreamDrops
  PROVE  mode = "live" /\ mode' = mode
<1>1. mode' = mode
  BY DEF TakeFill, FillRecorded, TakePosition, RowUpdated, StreamDrops
<1>2. mode \in {"paper", "live"}
  BY TradingAssumption DEF ShapeInv, TypeOK
<1>3. mode # "paper"
  BY DEF PaperInv, TakeFill, FillRecorded, TakePosition, RowUpdated, StreamDrops
<1> QED BY <1>1, <1>2, <1>3

LEMMA LifePaper ==
  ASSUME ShapeInv, PaperInv,
         StreamReconnects \/ StopActor \/ ProcessDies \/ StartActor \/ Recover \/ RehydrationFails
  PROVE  PaperInv'
<1>1. mode' = mode /\ (queue' = queue \/ queue' = <<>>)
  BY DEF StreamReconnects, StopActor, ProcessDies, StartActor, Recover, RehydrationFails, Halt, stream
<1>2. mutation' = mutation \/ mutation'.pc = "idle"
  BY NoMutationType DEF StreamReconnects, StopActor, ProcessDies, StartActor, Recover, RehydrationFails, stream
<1>3. tasks' = tasks \/ tasks' = [s \in Slots |-> IdleTask]
  BY DEF StreamReconnects, StopActor, ProcessDies, StartActor, Recover, RehydrationFails
<1>4. Steady(IdleTask)
  BY DEF Steady, IdleTask
<1> QED BY <1>1, <1>2, <1>3, <1>4 DEF PaperInv, Steady

LEMMA InitPaper == Init => PaperInv
  BY NoMutationType DEF Init, PaperInv, IdleTask

LEMMA NextPaper == ShapeInv /\ PaperInv /\ [Next]_vars => PaperInv'
<1> SUFFICES ASSUME ShapeInv, PaperInv, [Next]_vars PROVE PaperInv'
  OBVIOUS
<1>1. CASE mode = "live" /\ mode' = mode
  BY <1>1 DEF PaperInv
<1>2. CASE \E s \in Slots : Pipeline(s)
  BY <1>1, <1>2, ContextPaper, EndPaper, RiskPaper, FillPaper, LiveOnlyPaper DEF Pipeline
<1>3. CASE \E s \in Slots : MutationFails(s) \/ StreamCloses(s) \/ CrashNext(s) \/ CrashEnds(s)
  BY <1>1, <1>3, LiveOnlyPaper
<1>4. CASE \E s \in Slots, i \in Instruments :
             Submit(s, i) \/ StopLossAtIntake(s, i) \/ MonitorLevels(s, i) \/ ScanExit(s, i)
  BY <1>4, StartPaper
<1>5. CASE TakeFill \/ FillRecorded \/ TakePosition \/ RowUpdated \/ StreamDrops
  BY <1>1, <1>5, LiveStreamPaper
<1>6. CASE StreamReconnects \/ StopActor \/ ProcessDies \/ StartActor \/ Recover \/ RehydrationFails
  BY <1>6, LifePaper
<1>7. CASE UNCHANGED vars
  BY <1>7 DEF vars, stream, PaperInv
<1> QED BY <1>2, <1>3, <1>4, <1>5, <1>6, <1>7 DEF Next

-----------------------------------------------------------------------------
(* The books in paper mode: what the map of the positions, the position     *)
(* rows, the fill rows and the venue say of one instrument, and how far the *)
(* one activity that holds it has got.                                      *)
Key(p) == IF p.named THEN "named" ELSE "unnamed"
Other(p) == IF p.named THEN "unnamed" ELSE "named"

RowFollows(r, p) ==
    /\ r[Key(p)].net = p.net /\ r[Other(p)].net = 0
    /\ p.net = 0 => ~p.named

Booked(i) == RowFollows(rows[i], positions[i])
Settled(i) == positions[i].net = filled[i] /\ filled[i] = executed[i]
Kept(i) ==
    /\ filled[i] = executed[i]
    /\ \/ rows[i]["named"].net = filled[i] /\ rows[i]["unnamed"].net = 0
       \/ rows[i]["unnamed"].net = filled[i] /\ rows[i]["named"].net = 0

TaskBooks(t) ==
    /\ t.pc \in {"risk", "execute"} =>
          /\ t.pos = positions[t.inst] /\ t.result = t.pos.net
          /\ Settled(t.inst)
          /\ t.orders = PlanDecision(t.intent, t.size, t.pos.net)
    /\ t.pc = "fill" =>
          /\ executed[t.inst] = filled[t.inst] + Total(t.orders)
          /\ t.result = filled[t.inst] + Head(t.orders)
          /\ t.kind # "decide" => Tail(t.orders) = <<>> /\ t.result = 0
    /\ t.pc = "store" =>
          /\ t.result = filled[t.inst] /\ filled[t.inst] = executed[t.inst]
          /\ t.kind # "decide" => t.result = 0
    /\ t.pc = "wrap" =>
          /\ Settled(t.inst)
          /\ t.kind # "decide" => /\ t.result = positions[t.inst].net
                                  /\ t.result # 0 => t.pos = positions[t.inst]

Untouched(i) == \A s \in Slots : tasks[s].inst = i => ~Holds(tasks[s])
OneHolder ==
    \A r, s \in Slots :
        Holds(tasks[r]) /\ Holds(tasks[s]) /\ tasks[r].inst = tasks[s].inst => r = s

Books ==
    /\ OneHolder
    /\ life = "up" =>
          /\ \A i \in Instruments : Booked(i) /\ (Untouched(i) => Settled(i))
          /\ \A s \in Slots : Holds(tasks[s]) => TaskBooks(tasks[s])
    /\ life # "up" =>
          /\ \A s \in Slots : tasks[s].pc = "idle"
          /\ \A i \in Instruments : Kept(i)
    /\ life = "starting" => \A i \in Instruments : positions[i] = Flat

Clean == mode = "paper" /\ ~Excused(Misread)
BooksInv == Clean => Books

LEMMA MisreadLasts == Lasting(Misread)
  BY DEF Lasting, Misread

LEMMA CleanBefore ==
  ASSUME ShapeInv, NEW S, NEW k, Note(S) \/ Fault(k, S) \/ happened' = happened,
         mode' = mode, Clean'
  PROVE  Clean
<1>1. Excused(Misread) => Excused(Misread)'
  BY ExcuseLasts, MisreadLasts
<1> QED BY <1>1 DEF Clean

LEMMA CleanNotes ==
  ASSUME ShapeInv, NEW S, NEW k, Note(S) \/ Fault(k, S), Clean'
  PROVE  S \cap Misread = {}
<1> SUFFICES ASSUME NEW x \in S, x \in Misread PROVE FALSE
  OBVIOUS
<1>1. Excused(Misread)'
  BY ExcuseComes, MisreadLasts
<1> QED BY <1>1 DEF Clean

(* PositionRepository.upsert keeps one open row, under the position's key. *)
LEMMA Upserted ==
  ASSUME NEW r \in [{"named", "unnamed"} -> Row], NEW old \in Pos, NEW p \in Pos, NEW l,
         RowFollows(r, old), old.named => p.named
  PROVE  /\ Upsert(r, p, l)[Key(p)].net = p.net
         /\ Upsert(r, p, l)[Other(p)].net = 0
<1> DEFINE q == Promoted(r, p)
           kept == IF l # "none" THEN l
                   ELSE IF Side(q[Key(p)].net) = Side(p.net) THEN q[Key(p)].levels
                   ELSE "none"
           x == IF p.net = 0 THEN NoRow ELSE [net |-> p.net, levels |-> kept]
<1>1. Upsert(r, p, l) = [q EXCEPT ![Key(p)] = x]
  BY DEF Upsert, Key
<1>2. DOMAIN q = {"named", "unnamed"} /\ Key(p) \in DOMAIN q /\ Other(p) \in DOMAIN q /\ Key(p) # Other(p)
  <2>1. DOMAIN [named |-> r["unnamed"], unnamed |-> NoRow] = {"named", "unnamed"}
    OBVIOUS
  <2> QED BY <2>1 DEF Promoted, Key, Other
<1>3. x.net = p.net
  <2>1. NoRow.net = 0
    BY DEF NoRow
  <2> HIDE DEF kept
  <2> QED BY <2>1
<1>4. q[Other(p)].net = 0
  <2>1. CASE ~p.named
    BY <2>1 DEF Promoted, RowFollows, Key, Other
  <2>2. CASE p.named /\ r["named"].net = 0
    BY <2>2 DEF Promoted, Other, NoRow
  <2>3. CASE p.named /\ r["named"].net # 0
    BY <2>3 DEF Promoted, RowFollows, Key, Other
  <2> QED BY <2>1, <2>2, <2>3
<1> HIDE DEF q, x
<1> QED BY <1>1, <1>2, <1>3, <1>4

LEMMA Rebooked ==
  ASSUME ShapeInv, NEW i \in Instruments, NEW p \in Pos, NEW l, Booked(i),
         positions[i].named => p.named,
         rows' = [rows EXCEPT ![i] = Upsert(@, p, l)], SetPosition(i, p)
  PROVE  Booked(i)' /\ positions'[i].net = p.net
<1>1. rows \in [Instruments -> [{"named", "unnamed"} -> Row]] /\ positions \in [Instruments -> Pos]
  BY DEF ShapeInv, TypeOK, Row, Pos
<1>2. rows'[i] = Upsert(rows[i], p, l)
  BY <1>1
<1>3. rows'[i][Key(p)].net = p.net /\ rows'[i][Other(p)].net = 0
  BY <1>1, <1>2, Upserted DEF Booked
<1>4. positions'[i] = IF p.net = 0 THEN Flat ELSE p
  BY <1>1 DEF SetPosition
<1>5. CASE p.net = 0
  <2>1. rows'[i]["named"].net = 0 /\ rows'[i]["unnamed"].net = 0
    BY <1>3, <1>5 DEF Key, Other
  <2> QED BY <1>4, <1>5, <2>1 DEF Booked, RowFollows, Key, Other, Flat
<1>6. CASE p.net # 0
  BY <1>3, <1>4, <1>6 DEF Booked, RowFollows
<1> QED BY <1>5, <1>6

Free(s, i) == \A r \in Slots \ {s} : tasks[r].inst = i => ~Holds(tasks[r])

LEMMA NoRivals ==
  ASSUME ShapeInv, NEW s \in Slots, Rivals(s, tasks[s].inst) = {}
  PROVE  Free(s, tasks[s].inst)
<1> SUFFICES ASSUME NEW r \in Slots \ {s}, tasks[r].inst = tasks[s].inst, Holds(tasks[r])
    PROVE  FALSE
  BY DEF Free
<1>1. tasks[r].guarded /\ tasks[s].guarded
  BY DEF Rivals
<1> QED BY <1>1 DEF ShapeInv, Guards

LEMMA HolderFree ==
  ASSUME Books, NEW s \in Slots, Holds(tasks[s])
  PROVE  Free(s, tasks[s].inst)
  BY DEF Books, OneHolder, Free

(* A step of one activity, alone on its instrument. *)
LEMMA StepBooks ==
  ASSUME ShapeInv, Books, life = "up", life' = life, NEW s \in Slots, NEW u,
         NEW i \in Instruments, Become(s, u),
         u.inst = i \/ ~Holds(u), tasks[s].inst = i, Free(s, i),
         \A j \in Instruments \ {i} : /\ positions'[j] = positions[j] /\ rows'[j] = rows[j]
                                      /\ filled'[j] = filled[j] /\ executed'[j] = executed[j],
         Booked(i)', Holds(u) => TaskBooks(u)', ~Holds(u) => Settled(i)'
  PROVE  Books'
<1>1. tasks \in [Slots -> Task] /\ \A r \in Slots : Holds(tasks[r]) => tasks[r].inst \in Instruments
  <2>1. \A r \in Slots : Holds(tasks[r]) => Working(tasks[r])
    BY DEF Holds, Working
  <2> QED BY <2>1 DEF ShapeInv, TypeOK, TaskOK
<1>2. tasks'[s] = u /\ \A r \in Slots \ {s} : tasks'[r] = tasks[r]
  BY <1>1 DEF Become
<1>3. OneHolder'
  BY <1>2 DEF OneHolder, Books, Free
<1>4. \A j \in Instruments : Booked(j)'
  BY DEF Books, Booked
<1>5. ASSUME NEW j \in Instruments, Untouched(j)' PROVE Settled(j)'
  <2>1. CASE j = i
    <3>1. ~Holds(u)
      <4>1. u.inst = i => ~Holds(u)
        BY <1>2, <1>5, <2>1 DEF Untouched
      <4> QED BY <4>1
    <3> QED BY <2>1, <3>1
  <2>2. CASE j # i
    <3>1. Untouched(j)
      BY <1>2, <1>5, <2>2 DEF Untouched
    <3> QED BY <2>2, <3>1 DEF Books, Settled
  <2> QED BY <2>1, <2>2
<1>6. ASSUME NEW r \in Slots, Holds(tasks'[r]) PROVE TaskBooks(tasks[r])'
  <2>1. CASE r = s
    BY <1>2, <1>6, <2>1
  <2>2. CASE r # s
    <3>1. Holds(tasks[r]) /\ tasks'[r] = tasks[r] /\ tasks[r].inst \in Instruments \ {i}
      BY <1>1, <1>2, <1>6, <2>2 DEF Free
    <3>2. TaskBooks(tasks[r])
      BY <3>1 DEF Books
    <3> QED BY <3>1, <3>2 DEF TaskBooks, Settled
  <2> QED BY <2>1, <2>2
<1> QED BY <1>3, <1>4, <1>5, <1>6 DEF Books

(* A step that touches no book, of an activity that holds nothing. *)
LEMMA QuietBooks ==
  ASSUME ShapeInv, Books, life = "up", life' = life, NEW s \in Slots, NEW u,
         Become(s, u), ~Holds(tasks[s]), ~Holds(u),
         UNCHANGED <<positions, rows, filled, executed>>
  PROVE  Books'
<1>1. tasks \in [Slots -> Task]
  BY DEF ShapeInv, TypeOK
<1>2. tasks'[s] = u /\ \A r \in Slots \ {s} : tasks'[r] = tasks[r]
  BY <1>1 DEF Become
<1>3. OneHolder'
  BY <1>2 DEF OneHolder, Books
<1>4. \A j \in Instruments : Booked(j)'
  BY DEF Books, Booked
<1>5. ASSUME NEW j \in Instruments, Untouched(j)' PROVE Settled(j)'
  <2>1. Untouched(j)
    BY <1>2, <1>5 DEF Untouched
  <2> QED BY <2>1 DEF Books, Settled
<1>6. ASSUME NEW r \in Slots, Holds(tasks'[r]) PROVE TaskBooks(tasks[r])'
  <2>1. r # s /\ tasks'[r] = tasks[r] /\ Holds(tasks[r])
    BY <1>2, <1>6
  <2>2. TaskBooks(tasks[r])
    BY <2>1 DEF Books
  <2> QED BY <2>1, <2>2 DEF TaskBooks, Settled
<1> QED BY <1>3, <1>4, <1>5, <1>6 DEF Books

LEMMA IdleHoldsNot == ~Holds(IdleTask)
  BY DEF Holds, IdleTask

LEMMA StartHoldsNot ==
  ASSUME NEW s \in Slots, NEW i \in Instruments,
         Submit(s, i) \/ StopLossAtIntake(s, i) \/ MonitorLevels(s, i) \/ ScanExit(s, i)
  PROVE  \E u : Become(s, u) /\ ~Holds(u) /\ u.pos = Flat
<1>1. CASE Submit(s, i)
  <2>1. PICK intent, size, levels :
          Become(s, [IdleTask EXCEPT
              !.pc = "context", !.kind = "decide", !.inst = i,
              !.intent = intent, !.size = size, !.levels = levels,
              !.count = OpenPositionCount, !.cooled = i \in stopLossExits])
    BY <1>1 DEF Submit, Begin
  <2> DEFINE u == [IdleTask EXCEPT
              !.pc = "context", !.kind = "decide", !.inst = i,
              !.intent = intent, !.size = size, !.levels = levels,
              !.count = OpenPositionCount, !.cooled = i \in stopLossExits]
  <2>2. ~Holds(u) /\ u.pos = Flat
    BY DEF Holds, IdleTask
  <2> HIDE DEF u
  <2> QED BY <2>1, <2>2 DEF u
<1>2. CASE StopLossAtIntake(s, i) \/ MonitorLevels(s, i)
  <2>1. PICK guarded : Become(s, [IdleTask EXCEPT !.pc = "context", !.kind = "exit",
                                                 !.inst = i, !.guarded = guarded])
    BY <1>2 DEF StopLossAtIntake, MonitorLevels, StartExit, Begin
  <2> DEFINE u == [IdleTask EXCEPT !.pc = "context", !.kind = "exit",
                                   !.inst = i, !.guarded = guarded]
  <2>2. ~Holds(u) /\ u.pos = Flat
    BY DEF Holds, IdleTask
  <2> HIDE DEF u
  <2> QED BY <2>1, <2>2 DEF u
<1>3. CASE ScanExit(s, i)
  <2> DEFINE u == [IdleTask EXCEPT !.pc = "context", !.kind = "scan", !.inst = i]
  <2>1. Become(s, u)
    BY <1>3 DEF ScanExit, Begin
  <2>2. ~Holds(u) /\ u.pos = Flat
    BY DEF Holds, IdleTask
  <2> HIDE DEF u
  <2> QED BY <2>1, <2>2
<1> QED BY <1>1, <1>2, <1>3

LEMMA StartBooks ==
  ASSUME ShapeInv, Books, Clean', mode' = mode, NEW s \in Slots, NEW i \in Instruments,
         Submit(s, i) \/ StopLossAtIntake(s, i) \/ MonitorLevels(s, i) \/ ScanExit(s, i)
  PROVE  Books'
<1>1. \E u : Become(s, u) /\ ~Holds(u)
  BY StartHoldsNot
<1>2. PICK u : Become(s, u) /\ ~Holds(u)
  BY <1>1
<1>3. ~Holds(tasks[s])
  BY DEF Submit, StopLossAtIntake, MonitorLevels, ScanExit, Idle, Holds
<1>4. life' = life /\ UNCHANGED <<positions, rows, filled, executed>>
  BY DEF Submit, StopLossAtIntake, MonitorLevels, ScanExit, StartExit, memory, database
<1>5. life = "up"
  <2>1. CASE Submit(s, i)
    <3>1. life \in {"starting", "up"}
      BY <2>1 DEF Submit, IntakeOpen, Running, ShapeInv, TypeOK
    <3>2. CASE life = "starting"
      <4>1. Note({"early"})
        BY <2>1, <3>2 DEF Submit
      <4>2. {"early"} \cap Misread = {}
        BY <4>1, CleanNotes
      <4> QED BY <4>2 DEF Misread
    <3> QED BY <3>1, <3>2
  <2>2. CASE ~Submit(s, i)
    BY <2>2 DEF StopLossAtIntake, MonitorLevels, ScanExit
  <2> QED BY <2>1, <2>2
<1> QED BY <1>2, <1>3, <1>4, <1>5, QuietBooks

LEMMA WorkingIsUp ==
  ASSUME Books, NEW s \in Slots, tasks[s].pc # "idle"
  PROVE  life = "up"
  BY DEF Books

LEMMA ContextBooks ==
  ASSUME ShapeInv, PaperInv, Books, Clean', mode' = mode, NEW s \in Slots, ContextReady(s)
  PROVE  Books'
<1>0. PICK t, i, pos : t = tasks[s] /\ i = t.inst /\ pos = IF t.kind = "crash" THEN t.pos ELSE positions[i]
  OBVIOUS
<1> USE <1>0
<1> DEFINE orders == PlanDecision(t.intent, t.size, pos.net)
           p == IF orders = <<>> THEN "wrap" ELSE "risk"
           o == IF orders = <<>> THEN "noop" ELSE "none"
           u == [t EXCEPT !.pc = p, !.pos = pos, !.result = pos.net,
                          !.orders = orders, !.outcome = o]
<1>1. t \in Task /\ i \in Instruments /\ t.kind # "crash" /\ t.pc = "context"
  BY DEF ShapeInv, TypeOK, TaskOK, ContextReady, Working, PaperInv, Clean
<1>2. ~Holds(t) /\ life = "up" /\ pos = positions[i]
  BY <1>1, WorkingIsUp DEF Holds
<1>3. life' = life /\ UNCHANGED <<positions, rows, filled, executed>>
  BY DEF ContextReady, database
<1>4. CASE End(s)
  <2>1. Become(s, IdleTask)
    BY <1>1, <1>4, SteadyAfter DEF End
  <2> QED BY <1>2, <1>3, <2>1, IdleHoldsNot, QuietBooks
<1>5. CASE ~End(s)
  <2>1. Become(s, u) /\ Note(ReadRaces(s, i))
    BY <1>1, <1>5 DEF ContextReady
  <2>2. /\ u.pc = p /\ u.inst = i /\ u.pos = pos /\ u.result = pos.net /\ u.orders = orders
        /\ u.kind = t.kind /\ u.intent = t.intent /\ u.size = t.size
    <3> HIDE DEF p, orders, o
    <3> QED BY <1>1 DEF Task
  <2>3. Rivals(s, i) = {}
    <3>1. ReadRaces(s, i) \cap Misread = {}
      BY <2>1, CleanNotes
    <3> QED BY <3>1 DEF ReadRaces, Misread
  <2>4. Free(s, i)
    BY <2>3, NoRivals
  <2>5. Untouched(i)
    BY <1>2, <2>4 DEF Untouched, Free
  <2>6. Booked(i) /\ Settled(i)
    BY <1>1, <1>2, <2>5 DEF Books
  <2>7. Booked(i)' /\ Settled(i)'
    BY <1>3, <2>6 DEF Booked, Settled
  <2> HIDE DEF u
  <2>8. u.pc \in {"risk", "wrap"}
    BY <2>2
  <2>9. TaskBooks(u)'
    BY <1>2, <1>3, <2>2, <2>7, <2>8 DEF TaskBooks
  <2> HIDE DEF orders, p, o
  <2>10. Holds(u) => TaskBooks(u)'
    BY <2>9
  <2>11. ~Holds(u) => Settled(i)'
    BY <2>7
  <2> QED BY <1>1, <1>2, <1>3, <2>1, <2>2, <2>4, <2>7, <2>10, <2>11, StepBooks
<1> QED BY <1>4, <1>5

LEMMA NoContextBooks ==
  ASSUME ShapeInv, PaperInv, Books, Clean', mode' = mode, NEW s \in Slots, NoContext(s)
  PROVE  Books'
<1>1. tasks[s] \in Task /\ tasks[s].kind # "crash" /\ tasks[s].pc = "context"
  BY DEF ShapeInv, TypeOK, NoContext, PaperInv, Clean
<1>2. ~Holds(tasks[s]) /\ life = "up"
  BY <1>1, WorkingIsUp DEF Holds
<1>3. life' = life /\ UNCHANGED <<positions, rows, filled, executed>>
  BY DEF NoContext, database
<1>4. Become(s, IdleTask)
  BY <1>1, SteadyAfter DEF NoContext, End
<1> QED BY <1>2, <1>3, <1>4, IdleHoldsNot, QuietBooks

(* What is known of an activity that holds its instrument. *)
LEMMA Holder ==
  ASSUME ShapeInv, Books, NEW s \in Slots,
         tasks[s].pc \in {"risk", "execute", "fill", "store", "wrap"}
  PROVE  /\ tasks[s] \in Task /\ tasks[s].inst \in Instruments /\ life = "up"
         /\ Holds(tasks[s]) /\ Free(s, tasks[s].inst)
         /\ Booked(tasks[s].inst) /\ TaskBooks(tasks[s])
<1>1. tasks[s] \in Task /\ tasks[s].inst \in Instruments
  BY DEF ShapeInv, TaskOK, Working
<1>2. Holds(tasks[s]) /\ life = "up"
  BY WorkingIsUp DEF Holds
<1> QED BY <1>1, <1>2, HolderFree DEF Books

LEMMA RiskBooks ==
  ASSUME ShapeInv, Books, NEW s \in Slots, CheckRisk(s) \/ OtherLimit(s)
  PROVE  Books'
<1>0. PICK t, i : t = tasks[s] /\ i = t.inst
  OBVIOUS
<1> USE <1>0
<1>1. t.pc = "risk"
  BY DEF CheckRisk, OtherLimit
<1>2. /\ t \in Task /\ i \in Instruments /\ life = "up" /\ Free(s, i) /\ Booked(i)
      /\ TaskBooks(t)
  BY <1>1, Holder
<1>3. life' = life /\ UNCHANGED <<positions, rows, filled, executed>>
  BY DEF CheckRisk, OtherLimit, memory, database
<1>4. PICK u \in {[t EXCEPT !.pc = "wrap", !.outcome = "rejected"], [t EXCEPT !.pc = "execute"]} :
         Become(s, u)
  BY DEF CheckRisk, OtherLimit
<1>5. /\ u.pc \in {"wrap", "execute"} /\ u.inst = t.inst /\ u.pos = t.pos /\ u.result = t.result
      /\ u.orders = t.orders /\ u.kind = t.kind /\ u.intent = t.intent /\ u.size = t.size
  BY <1>2, <1>4 DEF Task
<1>6. Booked(i)'
  BY <1>2, <1>3 DEF Booked
<1>7. TaskBooks(u)'
  BY <1>1, <1>2, <1>3, <1>5 DEF TaskBooks, Settled
<1>8. Holds(u)
  BY <1>5 DEF Holds
<1> QED BY <1>2, <1>3, <1>4, <1>5, <1>6, <1>7, <1>8, StepBooks

(* The orders of a plan of one or two. *)
LEMMA Orders2 ==
  ASSUME NEW q \in Seq(Int), q # <<>>, Len(q) <= 2
  PROVE  /\ Total(q) = Head(q) + Total(Tail(q))
         /\ Total(Tail(q)) \in Int /\ Head(q) \in Int
         /\ Tail(q) = <<>> => Total(q) = Head(q)
         /\ Tail(q) # <<>> => Total(Tail(q)) = Head(Tail(q)) /\ Tail(Tail(q)) = <<>>
<1> DEFINE r == Tail(q)
<1>1. /\ r \in Seq(Int) /\ Len(r) = Len(q) - 1 /\ Head(q) \in Int
      /\ \A n \in 1..Len(r) : r[n] = q[n + 1]
  BY HeadTailProperties
<1>2. q \in [1..Len(q) -> Int] /\ Len(q) \in Nat \ {0}
  BY EmptySeq, LenProperties
<1>3. Head(q) = q[1]
  OBVIOUS
<1> HIDE DEF r
<1>4. CASE Len(q) = 1
  <2>1. r = <<>>
    BY <1>1, <1>4, EmptySeq
  <2>2. Total(q) = q[1] /\ Total(r) = 0
    BY <1>4, <2>1 DEF Total
  <2> QED BY <1>1, <1>3, <2>1, <2>2 DEF r
<1>5. CASE Len(q) = 2
  <2>1. Len(r) = 1 /\ r # <<>> /\ r[1] = q[2] /\ q[1] \in Int /\ q[2] \in Int
    <3>1. Len(r) = 1
      BY <1>1, <1>5
    <3>2. r # <<>>
      BY <1>1, <3>1, EmptySeq
    <3>3. r[1] = q[1 + 1]
      BY <1>1, <3>1
    <3>4. q[1] \in Int /\ q[2] \in Int
      BY <1>2, <1>5
    <3> QED BY <3>1, <3>2, <3>3, <3>4
  <2>2. Tail(r) = <<>>
    <3>1. Tail(r) \in Seq(Int) /\ Len(Tail(r)) = 0
      BY <1>1, <2>1, HeadTailProperties
    <3> QED BY <3>1, EmptySeq
  <2>3. Total(q) = q[1] + q[2]
    BY <1>5 DEF Total
  <2>4. Total(r) = q[2] /\ Head(r) = q[2]
    BY <2>1 DEF Total
  <2> QED BY <1>3, <2>1, <2>2, <2>3, <2>4 DEF r
<1> QED BY <1>2, <1>4, <1>5

LEMMA PaperBooks ==
  ASSUME ShapeInv, PaperInv, Clean, Books, NEW s \in Slots, ExecutePaper(s)
  PROVE  Books'
<1>0. PICK t, i, q : t = tasks[s] /\ i = t.inst /\ q = t.orders
  OBVIOUS
<1> USE <1>0
<1> DEFINE u == Account(t)
<1>1. t.pc = "execute"
  BY DEF ExecutePaper
<1>2. /\ t \in Task /\ i \in Instruments /\ life = "up" /\ Free(s, i) /\ Booked(i)
      /\ TaskBooks(t)
  BY <1>1, Holder
<1>3. q \in Seq(Int) /\ q # <<>> /\ Len(q) <= 2
  BY <1>1, AtHand
<1>4. /\ Become(s, u) /\ life' = life /\ UNCHANGED <<positions, rows, filled>>
      /\ executed' = [executed EXCEPT ![i] = @ + Total(q)]
  BY DEF ExecutePaper, Trade, database
<1>5. /\ u.pc = "fill" /\ u.inst = i /\ u.orders = q /\ u.kind = t.kind
      /\ u.result = t.result + Head(q)
  BY <1>2, AccountFields
<1>6. executed \in [Instruments -> Int] /\ filled \in [Instruments -> Int]
      /\ positions \in [Instruments -> Pos]
  BY DEF ShapeInv, TypeOK, Pos
<1>7. /\ t.pos = positions[i] /\ t.result = t.pos.net /\ Settled(i)
      /\ q = PlanDecision(t.intent, t.size, t.pos.net)
  BY <1>1, <1>2 DEF TaskBooks
<1>8. t.kind # "decide" => q = <<-t.pos.net>>
  <2>1. t.kind # "decide" => t.intent = "go_flat"
    BY DEF PaperInv, Clean
  <2> QED BY <1>3, <1>7, <2>1 DEF PlanDecision
<1> HIDE DEF u
<1>9. TaskBooks(u)'
  <2>1. executed'[i] = filled[i] + Total(q)
    BY <1>2, <1>4, <1>6, <1>7 DEF Settled
  <2>2. u.result = filled[i] + Head(q)
    BY <1>5, <1>7 DEF Settled
  <2>3. t.kind # "decide" => Tail(q) = <<>> /\ filled[i] + Head(q) = 0
    <3> SUFFICES ASSUME t.kind # "decide" PROVE Tail(q) = <<>> /\ filled[i] + Head(q) = 0
      OBVIOUS
    <3>1. t.pos.net = filled[i] /\ filled[i] \in Int
      BY <1>2, <1>6, <1>7 DEF Settled
    <3>2. q = <<-filled[i]>>
      BY <1>8, <3>1
    <3> QED BY <3>1, <3>2
  <2> QED BY <1>4, <1>5, <2>1, <2>2, <2>3 DEF TaskBooks
<1>10. Booked(i)' /\ Holds(u)
  BY <1>2, <1>4, <1>5 DEF Booked, Holds
<1>11. \A j \in Instruments \ {i} : executed'[j] = executed[j]
  BY <1>4, <1>6
<1> QED BY <1>2, <1>4, <1>5, <1>9, <1>10, <1>11, StepBooks

LEMMA FillBooks ==
  ASSUME ShapeInv, PaperInv, Clean, Books, NEW s \in Slots, FillStored(s)
  PROVE  Books'
<1>0. PICK t, i, q : t = tasks[s] /\ i = t.inst /\ q = t.orders
  OBVIOUS
<1> USE <1>0
<1>1. t.pc = "fill"
  BY DEF FillStored
<1>2. /\ t \in Task /\ i \in Instruments /\ life = "up" /\ Free(s, i) /\ Booked(i)
      /\ TaskBooks(t)
  BY <1>1, Holder
<1>3. q \in Seq(Int) /\ q # <<>> /\ Len(q) <= 2
  BY <1>1, AtHand
<1>4. life' = life /\ UNCHANGED <<positions, rows, executed>>
      /\ filled' = [filled EXCEPT ![i] = @ + Head(q)]
  BY DEF FillStored
<1>5. PICK u \in Task :
            /\ Become(s, u)
            /\ u.kind = t.kind /\ u.inst = i /\ u.orders = Tail(q)
            /\ \/ Tail(q) # <<>> /\ u.pc = "fill" /\ u.result = t.result + Head(Tail(q))
               \/ Tail(q) = <<>> /\ u.pc = "store" /\ u.result = t.result
  BY FillStep
<1>6. executed \in [Instruments -> Int] /\ filled \in [Instruments -> Int]
  BY DEF ShapeInv, TypeOK
<1>7. /\ executed[i] = filled[i] + Total(q) /\ t.result = filled[i] + Head(q)
      /\ t.kind # "decide" => Tail(q) = <<>> /\ t.result = 0
  BY <1>1, <1>2 DEF TaskBooks
<1>8. filled'[i] = filled[i] + Head(q) /\ \A j \in Instruments \ {i} : filled'[j] = filled[j]
  BY <1>2, <1>4, <1>6
<1>9. /\ Total(q) = Head(q) + Total(Tail(q)) /\ Total(Tail(q)) \in Int /\ Head(q) \in Int
      /\ Tail(q) = <<>> => Total(q) = Head(q)
      /\ Tail(q) # <<>> => Total(Tail(q)) = Head(Tail(q)) /\ Tail(Tail(q)) = <<>>
  BY <1>3, Orders2
<1>10. TaskBooks(u)'
  <2>1. filled[i] \in Int /\ executed[i] \in Int
    BY <1>2, <1>6
  <2>2. t.result = filled'[i]
    BY <1>7, <1>8
  <2>3. executed[i] = filled'[i] + Total(Tail(q))
    BY <1>7, <1>8, <1>9, <2>1
  <2>4. CASE Tail(q) # <<>>
    BY <1>4, <1>5, <1>7, <2>2, <2>3, <2>4 DEF TaskBooks
  <2>5. CASE Tail(q) = <<>>
    <3>1. executed[i] = filled'[i]
      BY <1>7, <1>8, <1>9, <2>1, <2>5
    <3> QED BY <1>4, <1>5, <1>7, <2>2, <2>5, <3>1 DEF TaskBooks
  <2> QED BY <2>4, <2>5
<1>11. Booked(i)' /\ Holds(u)
  BY <1>2, <1>4, <1>5 DEF Booked, Holds
<1> QED BY <1>2, <1>4, <1>5, <1>8, <1>10, <1>11, StepBooks

LEMMA StoredBooks ==
  ASSUME ShapeInv, PaperInv, Clean, Books, NEW s \in Slots, Stored(s)
  PROVE  Books'
<1>0. PICK t, i, p : /\ t = tasks[s] /\ i = t.inst
                     /\ p = [net |-> t.result, named |-> PassesId(t) \/ positions[i].named]
  OBVIOUS
<1> USE <1>0
<1>1. t.pc = "store"
  BY DEF Stored
<1>2. /\ t \in Task /\ i \in Instruments /\ life = "up" /\ Free(s, i) /\ Booked(i)
      /\ TaskBooks(t)
  BY <1>1, Holder
<1>3. /\ life' = life /\ UNCHANGED <<filled, executed>>
      /\ rows' = [rows EXCEPT ![i] = Upsert(@, p, NewLevels(t))]
      /\ SetPosition(i, p)
  BY DEF Stored
<1>4. p \in Pos /\ p.net = t.result /\ (positions[i].named => p.named)
  <2>1. t.result \in Int
    BY <1>2 DEF Task
  <2>2. (PassesId(t) \/ positions[i].named) \in BOOLEAN
    OBVIOUS
  <2>3. p \in Pos
    BY <2>1, <2>2, Zenon DEF Pos
  <2>4. p.net = t.result
    BY Zenon
  <2>5. p.named <=> (PassesId(t) \/ positions[i].named)
    BY Zenon
  <2> QED BY <2>3, <2>4, <2>5
<1> DEFINE o == IF t.outcome = "none" THEN "ok" ELSE t.outcome
           u == [t EXCEPT !.pc = "wrap", !.outcome = o]
<1>5. Become(s, u)
  BY <1>2 DEF Stored, Task
<1>6. u.pc = "wrap" /\ u.inst = i /\ u.pos = t.pos /\ u.result = t.result /\ u.kind = t.kind
  <2> HIDE DEF o
  <2> QED BY <1>2 DEF Task
<1> HIDE DEF u
<1>7. Booked(i)' /\ positions'[i].net = p.net
  BY <1>2, <1>3, <1>4, Rebooked
<1>8. t.result = filled[i] /\ filled[i] = executed[i] /\ (t.kind # "decide" => t.result = 0)
  BY <1>1, <1>2 DEF TaskBooks
<1>9. TaskBooks(u)'
  BY <1>3, <1>4, <1>6, <1>7, <1>8 DEF TaskBooks, Settled
<1>10. \A j \in Instruments \ {i} : positions'[j] = positions[j] /\ rows'[j] = rows[j]
  BY <1>3 DEF SetPosition, ShapeInv, TypeOK
<1>11. Holds(u)
  BY <1>6 DEF Holds
<1> QED BY <1>2, <1>3, <1>5, <1>6, <1>7, <1>9, <1>10, <1>11, StepBooks

(* An exit that is done writes the position that is already there. *)
LEMMA DonePosition ==
  ASSUME ShapeInv, NEW s \in Slots, Decided(s) \/ ExitDone(s), tasks[s].pc = "wrap",
         tasks[s].inst \in Instruments, Booked(tasks[s].inst), TaskBooks(tasks[s])
  PROVE  positions' = positions
<1>0. PICK t, i : t = tasks[s] /\ i = t.inst
  OBVIOUS
<1> USE <1>0
<1>1. t.kind # "decide" => /\ t.result = positions[i].net
                           /\ t.result # 0 => t.pos = positions[i]
  BY DEF TaskBooks
<1>2. positions \in [Instruments -> Pos]
  BY DEF ShapeInv, TypeOK, Pos
<1>3. CASE Decided(s)
  BY <1>3 DEF Decided
<1>4. CASE ExitDone(s)
  <2>1. t.kind # "decide"
    BY <1>4 DEF ExitDone
  <2>2. positions' = [positions EXCEPT ![i] = IF Written(t).net = 0 THEN Flat ELSE Written(t)]
    BY <1>4 DEF ExitDone, SetPosition
  <2>3. Written(t).net = t.result /\ Written(t) = [net |-> t.result, named |-> t.pos.named]
    BY DEF Written
  <2>4. positions[i] = [net |-> positions[i].net, named |-> positions[i].named]
    BY <1>2, Zenon DEF Pos
  <2>5. (IF Written(t).net = 0 THEN Flat ELSE Written(t)) = positions[i]
    <3>1. CASE t.result = 0
      <4>1. positions[i].net = 0 /\ ~positions[i].named
        BY <1>1, <2>1, <3>1 DEF Booked, RowFollows
      <4>2. positions[i].named \in BOOLEAN
        BY <1>2, Zenon DEF Pos
      <4>3. positions[i].named = FALSE
        BY <4>1, <4>2
      <4> QED BY <2>3, <2>4, <3>1, <4>1, <4>3 DEF Flat
    <3>2. CASE t.result # 0
      BY <1>1, <2>1, <2>3, <2>4, <3>2
    <3> QED BY <3>1, <3>2
  <2> QED BY <1>2, <2>2, <2>5
<1> QED BY <1>3, <1>4

LEMMA DecidedBooks ==
  ASSUME ShapeInv, PaperInv, Clean, Books, NEW s \in Slots, Decided(s) \/ ExitDone(s)
  PROVE  Books'
<1>0. PICK t, i : t = tasks[s] /\ i = t.inst
  OBVIOUS
<1> USE <1>0
<1>1. t.pc = "wrap" /\ t.kind # "crash"
  BY DEF Decided, ExitDone, PaperInv, Clean
<1>2. /\ t \in Task /\ i \in Instruments /\ life = "up" /\ Free(s, i) /\ Booked(i)
      /\ TaskBooks(t)
  BY <1>1, Holder
<1>3. life' = life /\ UNCHANGED <<rows, filled, executed>>
  BY DEF Decided, ExitDone, database
<1>4. Become(s, IdleTask) /\ ~Holds(IdleTask)
  BY <1>1, <1>2, SteadyAfter, IdleHoldsNot DEF Decided, ExitDone, End
<1>5. Settled(i)
  BY <1>1, <1>2 DEF TaskBooks
<1>6. positions' = positions
  BY <1>1, <1>2, DonePosition
<1>7. Booked(i)' /\ Settled(i)'
  BY <1>2, <1>3, <1>5, <1>6 DEF Booked, Settled
<1> QED BY <1>2, <1>3, <1>4, <1>6, <1>7, StepBooks

(* A stop that cuts nothing off leaves rows that say what is held. *)
LEMMA StopBooks ==
  ASSUME ShapeInv, PaperInv, Clean, Clean', Books,
         StopActor \/ ProcessDies
  PROVE  Books'
<1>1. PICK k : Note(Torn) \/ Fault(k, Torn)
  BY DEF StopActor, ProcessDies
<1>2. Torn \cap Misread = {}
  BY <1>1, CleanNotes
<1>3. ~AtWork
  BY <1>2 DEF Torn, Misread
<1>4. \A s \in Slots : tasks[s].pc = "idle"
  BY <1>3 DEF AtWork, PaperInv, Clean
<1>5. \A s \in Slots : tasks'[s].pc = "idle"
  BY <1>4 DEF StopActor, ProcessDies, IdleTask
<1>6. life' = "off" /\ UNCHANGED <<positions, rows, filled, executed>>
  BY DEF StopActor, ProcessDies, Halt, memory, database
<1>7. \A i \in Instruments : Kept(i)
  <2>1. CASE life = "up"
    <3> TAKE i \in Instruments
    <3>1. Booked(i) /\ Settled(i)
      BY <1>4, <2>1 DEF Books, Untouched, Holds
    <3> QED BY <3>1 DEF Booked, RowFollows, Settled, Kept, Key, Other
  <2>2. CASE life # "up"
    BY <2>2 DEF Books
  <2> QED BY <2>1, <2>2
<1>8. \A i \in Instruments : Kept(i)'
  BY <1>6, <1>7 DEF Kept
<1>9. OneHolder'
  BY <1>5 DEF OneHolder, Holds
<1> QED BY <1>5, <1>6, <1>8, <1>9 DEF Books

LEMMA StartActorBooks ==
  ASSUME ShapeInv, PaperInv, Clean, Books, StartActor
  PROVE  Books'
<1>1. /\ life = "off" /\ life' = "starting" /\ UNCHANGED <<tasks, rows, filled, executed>>
      /\ positions' = [i \in Instruments |-> Flat]
  BY DEF StartActor, database
<1>2. OneHolder' /\ \A i \in Instruments : Kept(i)'
  BY <1>1 DEF Books, OneHolder, Kept
<1> QED BY <1>1, <1>2 DEF Books

LEMMA RecoverBooks ==
  ASSUME ShapeInv, PaperInv, Clean, Books, Recover
  PROVE  Books'
<1>1. /\ life = "starting" /\ UNCHANGED <<tasks, rows, filled, executed>> /\ life' = "up"
  BY DEF Recover, StartReconciler, database, Clean
<1>2. PICK c \in RowChoices : Rehydrate(c)
  BY DEF Recover
<1>3. \A s \in Slots : tasks[s].pc = "idle" /\ ~Holds(tasks[s])
  BY <1>1 DEF Books, Holds
<1>4. ASSUME NEW i \in Instruments PROVE Booked(i)' /\ Settled(i)'
  <2>1. Kept(i) /\ positions[i] = Flat
    BY <1>1 DEF Books
  <2>2. c \in [Instruments -> {"none", "named", "unnamed"}]
        /\ IF OpenRows(i) = {} THEN c[i] = "none" ELSE c[i] \in OpenRows(i)
    BY DEF RowChoices
  <2>3. positions'[i] = IF c[i] = "none" THEN positions[i]
                        ELSE [net |-> rows[i][c[i]].net, named |-> c[i] = "named"]
    BY <1>2 DEF Rehydrate
  <2>4. CASE OpenRows(i) = {}
    <3>1. rows[i]["named"].net = 0 /\ rows[i]["unnamed"].net = 0
      BY <2>4 DEF OpenRows
    <3>2. positions'[i] = Flat
      BY <2>1, <2>2, <2>3, <2>4
    <3> QED BY <1>1, <2>1, <3>1, <3>2 DEF Booked, RowFollows, Settled, Kept, Flat, Key, Other
  <2>5. CASE OpenRows(i) # {}
    <3>1. c[i] \in {"named", "unnamed"} /\ rows[i][c[i]].net # 0
      BY <2>2, <2>5 DEF OpenRows
    <3>2. positions'[i] = [net |-> rows[i][c[i]].net, named |-> c[i] = "named"]
      BY <2>3, <3>1
    <3>3. positions'[i].net = rows[i][c[i]].net /\ (positions'[i].named <=> c[i] = "named")
      <4>1. positions'[i].net = rows[i][c[i]].net
        BY <3>2
      <4>2. positions'[i].named <=> c[i] = "named"
        <5>1. PICK b \in BOOLEAN : b <=> c[i] = "named"
          OBVIOUS
        <5>2. positions'[i] = [net |-> rows[i][c[i]].net, named |-> b]
          BY <3>2, <5>1
        <5>3. positions'[i].named = b
          BY <5>2
        <5> QED BY <5>1, <5>3
      <4> QED BY <4>1, <4>2
    <3>4. rows[i][c[i]].net = filled[i] /\ Kept(i)
      BY <2>1, <3>1 DEF Kept
    <3> QED BY <1>1, <3>1, <3>3, <3>4 DEF Booked, RowFollows, Settled, Kept, Key, Other
  <2> QED BY <2>4, <2>5
<1>5. OneHolder'
  BY <1>1, <1>3 DEF OneHolder
<1> QED BY <1>1, <1>3, <1>4, <1>5 DEF Books

LEMMA InitBooks == Init => BooksInv
  BY DEF Init, BooksInv, Books, OneHolder, Kept, IdleTask, Holds, NoRow

(* An actor's mode is fixed when it is built. *)
LEMMA ModeFixed == [Next]_vars => mode' = mode
<1> SUFFICES ASSUME [Next]_vars PROVE mode' = mode
  OBVIOUS
<1>1. CASE \E s \in Slots : ContextReady(s) \/ NoContext(s) \/ CheckRisk(s) \/ OtherLimit(s)
  BY <1>1 DEF ContextReady, NoContext, CheckRisk, OtherLimit
<1>2. CASE \E s \in Slots : \/ ExecutePaper(s) \/ ExecuteLive(s) \/ VenueRefuses(s)
                            \/ ExecutionTimesOut(s) \/ FillStored(s)
  BY <1>2 DEF ExecutePaper, ExecuteLive, VenueRefuses, ExecutionTimesOut, FillStored
<1>3. CASE \E s \in Slots : WriteFails(s) \/ Stored(s) \/ Decided(s) \/ ExitDone(s)
  BY <1>3 DEF WriteFails, Stored, Decided, ExitDone
<1>4. CASE \E s \in Slots : MutationFails(s) \/ StreamCloses(s) \/ CrashNext(s) \/ CrashEnds(s)
  BY <1>4 DEF MutationFails, StreamCloses, CrashNext, CrashEnds
<1>5. CASE \E s \in Slots, i \in Instruments :
             Submit(s, i) \/ StopLossAtIntake(s, i) \/ MonitorLevels(s, i) \/ ScanExit(s, i)
  BY <1>5 DEF Submit, StopLossAtIntake, MonitorLevels, ScanExit, StartExit
<1>6. CASE TakeFill \/ FillRecorded \/ TakePosition \/ RowUpdated \/ StreamDrops \/ StreamReconnects
  BY <1>6 DEF TakeFill, FillRecorded, TakePosition, RowUpdated, StreamDrops, StreamReconnects
<1>7. CASE StopActor \/ ProcessDies \/ StartActor \/ Recover \/ RehydrationFails
  BY <1>7 DEF StopActor, ProcessDies, StartActor, Recover, RehydrationFails
<1>8. CASE UNCHANGED vars
  BY <1>8 DEF vars
<1> QED BY <1>1, <1>2, <1>3, <1>4, <1>5, <1>6, <1>7, <1>8 DEF Next, Pipeline

LEMMA NextBooks ==
  ShapeInv /\ PaperInv /\ BooksInv /\ [Next]_vars => BooksInv'
<1> SUFFICES ASSUME ShapeInv, PaperInv, BooksInv, [Next]_vars, Clean' PROVE Books'
  BY DEF BooksInv
<1>1. mode' = mode
  BY ModeFixed
<1>2. mode # "live"
  BY <1>1 DEF Clean
<1>3. CASE \E s \in Slots : \/ WriteFails(s) \/ ExecuteLive(s) \/ VenueRefuses(s)
                            \/ ExecutionTimesOut(s)
  <2>1. PICK s \in Slots : WriteFails(s)
    BY <1>2, <1>3, LiveOnlyPaper
  <2>2. {"write"} \cap Misread = {}
    BY <2>1, CleanNotes DEF WriteFails
  <2> QED BY <2>2 DEF Misread
<1>4. CASE \E s \in Slots : MutationFails(s) \/ StreamCloses(s) \/ CrashNext(s) \/ CrashEnds(s)
  BY <1>2, <1>4, LiveOnlyPaper
<1>5. CASE TakeFill \/ FillRecorded \/ TakePosition \/ RowUpdated \/ StreamDrops
  BY <1>2, <1>5, LiveStreamPaper
<1>6. CASE RehydrationFails
  <2>1. {"untold"} \cap Misread = {}
    BY <1>6, CleanNotes DEF RehydrationFails
  <2> QED BY <2>1 DEF Misread
<1>7. CASE \E s \in Slots : \/ ContextReady(s) \/ NoContext(s) \/ CheckRisk(s) \/ OtherLimit(s)
                            \/ ExecutePaper(s) \/ FillStored(s) \/ Stored(s)
                            \/ Decided(s) \/ ExitDone(s)
  <2>1. PICK S, k : Note(S) \/ Fault(k, S) \/ happened' = happened
    BY <1>7 DEF ContextReady, NoContext, CheckRisk, OtherLimit, ExecutePaper, FillStored,
                Stored, Decided, ExitDone
  <2>2. Clean /\ Books
    BY <1>1, <2>1, CleanBefore DEF BooksInv
  <2> QED BY <1>1, <1>7, <2>2, ContextBooks, NoContextBooks, RiskBooks, PaperBooks,
             FillBooks, StoredBooks, DecidedBooks
<1>8. CASE \E s \in Slots, i \in Instruments :
             Submit(s, i) \/ StopLossAtIntake(s, i) \/ MonitorLevels(s, i) \/ ScanExit(s, i)
  <2>1. PICK S, k : Note(S) \/ Fault(k, S) \/ happened' = happened
    BY <1>8 DEF Submit, StopLossAtIntake, MonitorLevels, ScanExit, StartExit
  <2>2. Clean /\ Books
    BY <1>1, <2>1, CleanBefore DEF BooksInv
  <2> QED BY <1>1, <1>8, <2>2, StartBooks
<1>9. CASE StopActor \/ ProcessDies \/ StartActor \/ Recover
  <2>1. PICK S, k : Note(S) \/ Fault(k, S) \/ happened' = happened
    BY <1>9 DEF StopActor, ProcessDies, StartActor, Recover
  <2>2. Clean /\ Books
    BY <1>1, <2>1, CleanBefore DEF BooksInv
  <2> QED BY <1>9, <2>2, StopBooks, StartActorBooks, RecoverBooks
<1>10. CASE StreamReconnects \/ UNCHANGED vars
  <2>1. UNCHANGED <<mode, life, tasks, positions, rows, filled, executed, happened>>
    BY <1>10 DEF StreamReconnects, vars, memory, database
  <2>2. Clean
    BY <2>1 DEF Clean, Excused
  <2> QED BY <2>1, <2>2 DEF BooksInv, Books, OneHolder, Booked, Untouched, Settled, Kept, TaskBooks
<1> QED BY <1>3, <1>4, <1>5, <1>6, <1>7, <1>8, <1>9, <1>10 DEF Next, Pipeline

LEMMA PaperBooksKept == Spec => [](ShapeInv /\ PaperInv /\ BooksInv)
<1>1. ShapeInv /\ PaperInv /\ [Next]_vars => PaperInv'
  BY NextPaper
<1>2. ShapeInv /\ PaperInv /\ BooksInv /\ [Next]_vars => BooksInv'
  BY NextBooks
<1> QED BY <1>1, <1>2, InitPaper, InitBooks, Shape, PTL DEF Spec

(* In paper mode what the actor believes to hold is what it recorded and    *)
(* what was executed, for every number of instruments, activities, stops    *)
(* and restarts.                                                            *)
LEMMA PaperPositionsAreTrue == Spec => [](mode = "paper" => PositionTrue)
<1>1. BooksInv => (mode = "paper" => PositionTrue)
  BY DEF BooksInv, Clean, Books, PositionTrue, AtRest, Untouched, Settled
<1> QED BY <1>1, PaperBooksKept, PTL

(* ... and the position table has one open row for it, or none. *)
LEMMA PaperRowsAreTrue == Spec => [](mode = "paper" => RowsTrue)
<1>1. BooksInv => (mode = "paper" => RowsTrue)
  <2> SUFFICES ASSUME BooksInv, mode = "paper", ~Excused(Misread \cup {"live_exit"}),
                      NEW i \in Instruments, AtRest(i)
      PROVE  /\ Cardinality(OpenRows(i)) = IF positions[i].net = 0 THEN 0 ELSE 1
             /\ \A k \in OpenRows(i) : rows[i][k].net = positions[i].net
    BY DEF RowsTrue
  <2>1. Clean
    BY DEF Clean, Excused
  <2>2. Booked(i)
    BY <2>1 DEF BooksInv, Books, AtRest
  <2>3. CASE positions[i].net = 0
    <3>1. OpenRows(i) = {}
      BY <2>2, <2>3 DEF Booked, RowFollows, OpenRows, Key, Other
    <3> QED BY <2>3, <3>1, FS_EmptySet
  <2>4. CASE positions[i].net # 0
    <3>1. OpenRows(i) = {Key(positions[i])} /\ rows[i][Key(positions[i])].net = positions[i].net
      BY <2>2, <2>4 DEF Booked, RowFollows, OpenRows, Key, Other
    <3> QED BY <2>4, <3>1, FS_Singleton
  <2> QED BY <2>3, <2>4
<1> QED BY <1>1, PaperBooksKept, PTL

-----------------------------------------------------------------------------
(* What is sent to the venue: an order was checked before, an exit plans    *)
(* from the position that is really held, and an instrument that was        *)
(* stopped out is in cooldown or its exit is still under way.               *)
LimitKinds == Misread \cup {"stale_count", "increase_opens"}
CoolKinds == Misread \cup {"stale_cooldown", "restart"}

Leaving(t) == t.kind = "exit" /\ t.pc \in {"fill", "store", "wrap"} /\ t.result = 0
Cooling(i) == i \in stopLossExits \/ \E s \in Slots : tasks[s].inst = i /\ Leaving(tasks[s])

CheckedTask(t) ==
    /\ t.pc = "execute" => ~CooldownBlocks(t) /\ ~LimitBlocks(t)
    /\ t.outcome # "failed"
NoneTurned == "turned" \notin wrongs
WithinLimit == Cardinality(ReallyOpen) <= MaxOpenPositions
NoReentry == "reentry" \notin wrongs /\ \A i \in stoppedOut : Cooling(i)

ConductInv ==
    mode = "paper" =>
        /\ \A s \in Slots : CheckedTask(tasks[s])
        /\ ~Excused(Misread) => NoneTurned
        /\ ~Excused(LimitKinds) => WithinLimit
        /\ ~Excused(CoolKinds) => NoReentry

LEMMA KindsLast == Lasting(Misread) /\ Lasting(LimitKinds) /\ Lasting(CoolKinds)
  BY DEF Lasting, Misread, LimitKinds, CoolKinds

LEMMA KindsBefore ==
  ASSUME ShapeInv, NEW S, NEW k, Note(S) \/ Fault(k, S) \/ happened' = happened
  PROVE  /\ Excused(Misread) => Excused(Misread)'
         /\ Excused(LimitKinds) => Excused(LimitKinds)'
         /\ Excused(CoolKinds) => Excused(CoolKinds)'
  BY ExcuseLasts, KindsLast

(* A step of one activity that sends nothing. *)
LEMMA StepConduct ==
  ASSUME ShapeInv, ConductInv, mode' = mode,
         NEW S, NEW k, Note(S) \/ Fault(k, S) \/ happened' = happened,
         NEW s \in Slots, NEW u, Become(s, u), CheckedTask(u),
         UNCHANGED <<executed, wrongs, stoppedOut>>, stopLossExits \subseteq stopLossExits',
         (mode = "paper" /\ ~Excused(CoolKinds)' /\ Leaving(tasks[s])) =>
             \/ Leaving(u) /\ u.inst = tasks[s].inst
             \/ tasks[s].inst \in stopLossExits'
  PROVE  ConductInv'
<1>1. tasks \in [Slots -> Task]
  BY DEF ShapeInv, TypeOK
<1>2. tasks'[s] = u /\ \A r \in Slots \ {s} : tasks'[r] = tasks[r]
  BY <1>1 DEF Become
<1>3. mode = "paper" => \A r \in Slots : CheckedTask(tasks[r])'
  BY <1>2 DEF ConductInv, CheckedTask
<1>4. ASSUME mode = "paper", ~Excused(CoolKinds)', NEW i \in stoppedOut, Cooling(i)
      PROVE  Cooling(i)'
  <2>1. CASE i \in stopLossExits
    BY <2>1 DEF Cooling
  <2>2. CASE i \notin stopLossExits
    <3>1. PICK r \in Slots : tasks[r].inst = i /\ Leaving(tasks[r])
      BY <1>4, <2>2 DEF Cooling
    <3>2. CASE r # s
      <4>1. tasks'[r].inst = i /\ Leaving(tasks'[r])
        BY <1>2, <3>1, <3>2
      <4> QED BY <4>1 DEF Cooling, Leaving
    <3>3. CASE r = s
      <4>1. CASE Leaving(u) /\ u.inst = i
        <5>1. Leaving(tasks'[s]) /\ tasks'[s].inst = i
          BY <1>2, <4>1
        <5> QED BY <5>1 DEF Cooling, Leaving
      <4>2. CASE i \in stopLossExits'
        BY <4>2 DEF Cooling
      <4> QED BY <1>4, <3>1, <3>3, <4>1, <4>2
    <3> QED BY <3>2, <3>3
  <2> QED BY <2>1, <2>2
<1>5. ReallyOpen' = ReallyOpen
  BY DEF ReallyOpen
<1>6. mode = "paper" /\ ~Excused(CoolKinds)' => NoReentry'
  BY <1>4, KindsBefore DEF ConductInv, NoReentry
<1>7. mode = "paper" /\ ~Excused(LimitKinds)' => WithinLimit'
  BY <1>5, KindsBefore DEF ConductInv, WithinLimit
<1>8. mode = "paper" /\ ~Excused(Misread)' => NoneTurned'
  BY KindsBefore DEF ConductInv, NoneTurned
<1> QED BY <1>3, <1>6, <1>7, <1>8 DEF ConductInv

LEMMA AfterChecked == ASSUME NEW t PROVE CheckedTask(After(t))
<1>1. CheckedTask(IdleTask)
  BY DEF CheckedTask, IdleTask
<1>2. CheckedTask([IdleTask EXCEPT !.pc = "next", !.kind = "crash", !.todo = t.todo])
  BY DEF CheckedTask, IdleTask
<1> QED BY <1>1, <1>2 DEF After

LEMMA NewChecked ==
  ASSUME NEW s \in Slots, NEW i \in Instruments,
         Submit(s, i) \/ StopLossAtIntake(s, i) \/ MonitorLevels(s, i) \/ ScanExit(s, i)
  PROVE  \E u : Become(s, u) /\ CheckedTask(u)
<1>1. CASE Submit(s, i)
  <2>1. PICK intent, size, levels :
          Become(s, [IdleTask EXCEPT
              !.pc = "context", !.kind = "decide", !.inst = i,
              !.intent = intent, !.size = size, !.levels = levels,
              !.count = OpenPositionCount, !.cooled = i \in stopLossExits])
    BY <1>1 DEF Submit, Begin
  <2> DEFINE u == [IdleTask EXCEPT
              !.pc = "context", !.kind = "decide", !.inst = i,
              !.intent = intent, !.size = size, !.levels = levels,
              !.count = OpenPositionCount, !.cooled = i \in stopLossExits]
  <2>2. CheckedTask(u)
    BY DEF CheckedTask, IdleTask
  <2> HIDE DEF u
  <2> QED BY <2>1, <2>2 DEF u
<1>2. CASE StopLossAtIntake(s, i) \/ MonitorLevels(s, i)
  <2>1. PICK guarded : Become(s, [IdleTask EXCEPT !.pc = "context", !.kind = "exit",
                                                 !.inst = i, !.guarded = guarded])
    BY <1>2 DEF StopLossAtIntake, MonitorLevels, StartExit, Begin
  <2> DEFINE u == [IdleTask EXCEPT !.pc = "context", !.kind = "exit",
                                   !.inst = i, !.guarded = guarded]
  <2>2. CheckedTask(u)
    BY DEF CheckedTask, IdleTask
  <2> HIDE DEF u
  <2> QED BY <2>1, <2>2 DEF u
<1>3. CASE ScanExit(s, i)
  <2> DEFINE u == [IdleTask EXCEPT !.pc = "context", !.kind = "scan", !.inst = i]
  <2>1. Become(s, u)
    BY <1>3 DEF ScanExit, Begin
  <2>2. CheckedTask(u)
    BY DEF CheckedTask, IdleTask
  <2> HIDE DEF u
  <2> QED BY <2>1, <2>2
<1> QED BY <1>1, <1>2, <1>3

LEMMA StartConduct ==
  ASSUME ShapeInv, ConductInv, NEW s \in Slots, NEW i \in Instruments,
         Submit(s, i) \/ StopLossAtIntake(s, i) \/ MonitorLevels(s, i) \/ ScanExit(s, i)
  PROVE  ConductInv'
<1>1. PICK u : Become(s, u) /\ CheckedTask(u)
  BY NewChecked
<1>2. /\ mode' = mode /\ UNCHANGED <<executed, wrongs, stoppedOut, stopLossExits>>
      /\ tasks[s].pc = "idle"
  BY DEF Submit, StopLossAtIntake, MonitorLevels, ScanExit, StartExit, Idle, memory, history
<1>3. PICK S, k : Note(S) \/ Fault(k, S) \/ happened' = happened
  BY DEF Submit, StopLossAtIntake, MonitorLevels, ScanExit, StartExit
<1>4. ~Leaving(tasks[s])
  BY <1>2 DEF Leaving
<1> QED BY <1>1, <1>2, <1>3, <1>4, StepConduct

(* A step of the actor that touches no activity. *)
LEMMA FrameConduct ==
  ASSUME ShapeInv, ConductInv, mode' = mode,
         NEW S, NEW k, Note(S) \/ Fault(k, S) \/ happened' = happened,
         UNCHANGED <<tasks, executed, wrongs, stoppedOut>>,
         (mode = "paper" /\ ~Excused(CoolKinds)') =>
             stoppedOut = {} \/ stopLossExits \subseteq stopLossExits'
  PROVE  ConductInv'
<1>1. mode = "paper" => \A r \in Slots : CheckedTask(tasks[r])'
  BY DEF ConductInv, CheckedTask
<1>2. ReallyOpen' = ReallyOpen
  BY DEF ReallyOpen
<1>3. ASSUME mode = "paper", ~Excused(CoolKinds)', NEW i \in stoppedOut, Cooling(i)
      PROVE  Cooling(i)'
  BY <1>3 DEF Cooling, Leaving
<1>4. mode = "paper" /\ ~Excused(CoolKinds)' => NoReentry'
  BY <1>3, KindsBefore DEF ConductInv, NoReentry
<1>5. mode = "paper" /\ ~Excused(LimitKinds)' => WithinLimit'
  BY <1>2, KindsBefore DEF ConductInv, WithinLimit
<1>6. mode = "paper" /\ ~Excused(Misread)' => NoneTurned'
  BY KindsBefore DEF ConductInv, NoneTurned
<1> QED BY <1>1, <1>4, <1>5, <1>6 DEF ConductInv

LEMMA ContextConduct ==
  ASSUME ShapeInv, ConductInv, NEW s \in Slots, ContextReady(s)
  PROVE  ConductInv'
<1>0. PICK t, pos : t = tasks[s] /\ pos = IF t.kind = "crash" THEN t.pos ELSE positions[t.inst]
  OBVIOUS
<1> USE <1>0
<1> DEFINE orders == PlanDecision(t.intent, t.size, pos.net)
           p == IF orders = <<>> THEN "wrap" ELSE "risk"
           o == IF orders = <<>> THEN "noop" ELSE "none"
           u == [t EXCEPT !.pc = p, !.pos = pos, !.result = pos.net,
                          !.orders = orders, !.outcome = o]
<1>1. t \in Task /\ t.pc = "context"
  BY DEF ShapeInv, TypeOK, ContextReady
<1>2. mode' = mode /\ UNCHANGED <<executed, wrongs, stoppedOut, stopLossExits>>
  BY DEF ContextReady, history
<1>3. PICK S, k : Note(S) \/ Fault(k, S) \/ happened' = happened
  BY DEF ContextReady
<1>4. \E v : Become(s, v) /\ CheckedTask(v)
  <2>1. CASE End(s)
    BY <2>1, AfterChecked DEF End
  <2>2. CASE ~End(s)
    <3>1. Become(s, u)
      BY <2>2 DEF ContextReady
    <3>2. u.pc = p /\ u.outcome = o
      <4> HIDE DEF p, o, orders
      <4> QED BY <1>1 DEF Task
    <3> HIDE DEF u
    <3>3. CheckedTask(u)
      BY <3>2 DEF CheckedTask
    <3> QED BY <3>1, <3>3
  <2> QED BY <2>1, <2>2
<1>5. ~Leaving(tasks[s])
  BY <1>1 DEF Leaving
<1> QED BY <1>2, <1>3, <1>4, <1>5, StepConduct

LEMMA NoContextConduct ==
  ASSUME ShapeInv, ConductInv, NEW s \in Slots, NoContext(s)
  PROVE  ConductInv'
<1>1. mode' = mode /\ UNCHANGED <<executed, wrongs, stoppedOut, stopLossExits>>
      /\ tasks[s].pc = "context" /\ Fault("mark", {}) /\ Become(s, After(tasks[s]))
  BY DEF NoContext, End, history
<1>2. ~Leaving(tasks[s]) /\ CheckedTask(After(tasks[s]))
  BY <1>1, AfterChecked DEF Leaving
<1> QED BY <1>1, <1>2, StepConduct

(* checkRisk lets an order through only if neither the cooldown nor the     *)
(* limit blocks it.                                                         *)
LEMMA RiskConduct ==
  ASSUME ShapeInv, ConductInv, NEW s \in Slots, CheckRisk(s) \/ OtherLimit(s)
  PROVE  ConductInv'
<1>0. PICK t : t = tasks[s]
  OBVIOUS
<1> USE <1>0
<1> DEFINE u == [t EXCEPT !.pc = "wrap", !.outcome = "rejected"]
           v == [t EXCEPT !.pc = "execute"]
<1>1. t \in Task /\ t.pc = "risk"
  BY DEF ShapeInv, TypeOK, CheckRisk, OtherLimit
<1>2. mode' = mode /\ UNCHANGED <<executed, wrongs, stoppedOut, stopLossExits>>
  BY DEF CheckRisk, OtherLimit, memory, history
<1>3. PICK S, k : Note(S) \/ Fault(k, S) \/ happened' = happened
  BY DEF CheckRisk, OtherLimit
<1>4. CheckedTask(u)
  <2>1. u.pc = "wrap" /\ u.outcome = "rejected"
    BY <1>1 DEF Task
  <2> HIDE DEF u
  <2> QED BY <2>1 DEF CheckedTask
<1>5. Become(s, u) \/ (Become(s, v) /\ ~CooldownBlocks(t) /\ ~LimitBlocks(t))
  BY DEF CheckRisk, OtherLimit
<1>6. CooldownBlocks(v) <=> CooldownBlocks(t)
  <2>1. v.intent = t.intent
    BY <1>1 DEF Task
  <2>2. v.cooled = t.cooled
    BY <1>1, Zenon DEF Task
  <2> HIDE DEF v
  <2>3. RiskReducing(v.intent) <=> RiskReducing(t.intent)
    BY <2>1
  <2> QED BY <2>2, <2>3, Zenon DEF CooldownBlocks
<1>7. LimitBlocks(v) <=> LimitBlocks(t)
  <2>1. v.intent = t.intent /\ v.count = t.count /\ v.pos = t.pos
    BY <1>1 DEF Task
  <2> HIDE DEF v
  <2> QED BY <2>1 DEF LimitBlocks, Opens
<1>8. ~Leaving(t)
  BY <1>1 DEF Leaving
<1>9. CASE Become(s, u)
  BY <1>2, <1>3, <1>4, <1>8, <1>9, StepConduct
<1>10. CASE Become(s, v) /\ ~CooldownBlocks(t) /\ ~LimitBlocks(t) /\ mode = "paper"
  <2>1. v.outcome = t.outcome /\ t.outcome # "failed"
    <3>1. v.outcome = t.outcome
      BY <1>1 DEF Task
    <3>2. t.outcome # "failed"
      BY <1>10 DEF ConductInv, CheckedTask
    <3> QED BY <3>1, <3>2
  <2>2. CheckedTask(v)
    BY <1>6, <1>7, <1>10, <2>1 DEF CheckedTask
  <2> QED BY <1>2, <1>3, <1>8, <1>10, <2>2, StepConduct
<1>11. CASE mode # "paper"
  BY <1>2, <1>11 DEF ConductInv
<1> QED BY <1>5, <1>9, <1>10, <1>11

LEMMA FillConduct ==
  ASSUME ShapeInv, BooksInv, ConductInv, NEW s \in Slots, FillStored(s)
  PROVE  ConductInv'
<1>0. PICK t : t = tasks[s]
  OBVIOUS
<1> USE <1>0
<1>1. t.pc = "fill" /\ mode' = mode /\ UNCHANGED <<executed, wrongs, stoppedOut, stopLossExits, happened>>
  BY DEF FillStored, history
<1>2. PICK u \in Task :
            /\ Become(s, u)
            /\ u.kind = t.kind /\ u.inst = t.inst /\ u.outcome = t.outcome
            /\ \/ Tail(t.orders) # <<>> /\ u.pc = "fill"
               \/ Tail(t.orders) = <<>> /\ u.pc = "store" /\ u.result = t.result
  BY FillStep
<1>3. CASE mode = "paper"
  <2>1. CheckedTask(u)
    BY <1>2, <1>3 DEF ConductInv, CheckedTask
  <2>2. ASSUME ~Excused(CoolKinds)', Leaving(t) PROVE Leaving(u) /\ u.inst = t.inst
    <3>1. Clean
      BY <1>1, <1>3, <2>2 DEF Clean, Excused, CoolKinds
    <3>2. TaskBooks(t)
      BY <1>1, <3>1, Holder DEF BooksInv
    <3>3. Tail(t.orders) = <<>>
      BY <1>1, <2>2, <3>2 DEF TaskBooks, Leaving
    <3> QED BY <1>2, <2>2, <3>3 DEF Leaving
  <2> QED BY <1>1, <1>2, <2>1, <2>2, StepConduct
<1>4. CASE mode # "paper"
  BY <1>1, <1>4 DEF ConductInv
<1> QED BY <1>3, <1>4

LEMMA WriteFailsConduct ==
  ASSUME ShapeInv, ConductInv, NEW s \in Slots, WriteFails(s)
  PROVE  ConductInv'
<1>1. mode' = mode /\ UNCHANGED <<executed, wrongs, stoppedOut, stopLossExits>>
      /\ Fault("write", {"write"}) /\ Become(s, After(tasks[s]))
  BY DEF WriteFails, End, history
<1>2. "write" \in CoolKinds
  BY DEF CoolKinds, Misread
<1>3. Excused(CoolKinds)'
  BY <1>1, <1>2, ExcuseComes, KindsLast
<1>4. CheckedTask(After(tasks[s]))
  BY AfterChecked
<1> QED BY <1>1, <1>3, <1>4, StepConduct

LEMMA StoredConduct ==
  ASSUME ShapeInv, ConductInv, NEW s \in Slots, Stored(s)
  PROVE  ConductInv'
<1>0. PICK t : t = tasks[s]
  OBVIOUS
<1> USE <1>0
<1> DEFINE o == IF t.outcome = "none" THEN "ok" ELSE t.outcome
           u == [t EXCEPT !.pc = "wrap", !.outcome = o]
<1>1. t \in Task /\ t.pc = "store"
  BY DEF ShapeInv, TypeOK, Stored
<1>2. mode' = mode /\ UNCHANGED <<executed, wrongs, stoppedOut, stopLossExits>>
  BY DEF Stored, history
<1>3. PICK S, k : Note(S) \/ Fault(k, S) \/ happened' = happened
  BY DEF Stored
<1>4. Become(s, u)
  BY <1>1 DEF Stored, Task
<1>5. u.pc = "wrap" /\ u.kind = t.kind /\ u.inst = t.inst /\ u.result = t.result /\ u.outcome = o
  <2> HIDE DEF o
  <2> QED BY <1>1 DEF Task
<1> HIDE DEF u
<1>6. CASE mode = "paper"
  <2>1. t.outcome # "failed"
    BY <1>6 DEF ConductInv, CheckedTask
  <2>2. CheckedTask(u)
    BY <1>5, <2>1 DEF CheckedTask
  <2>3. Leaving(t) => Leaving(u) /\ u.inst = t.inst
    BY <1>5 DEF Leaving
  <2> QED BY <1>2, <1>3, <1>4, <2>2, <2>3, StepConduct
<1>7. CASE mode # "paper"
  BY <1>2, <1>7 DEF ConductInv
<1> QED BY <1>6, <1>7

LEMMA DecidedConduct ==
  ASSUME ShapeInv, ConductInv, NEW s \in Slots, Decided(s)
  PROVE  ConductInv'
<1>1. mode' = mode /\ UNCHANGED <<executed, wrongs, stoppedOut, stopLossExits, happened>>
      /\ tasks[s].kind = "decide" /\ Become(s, After(tasks[s]))
  BY DEF Decided, End, history
<1>2. ~Leaving(tasks[s]) /\ CheckedTask(After(tasks[s]))
  BY <1>1, AfterChecked DEF Leaving
<1> QED BY <1>1, <1>2, StepConduct

(* The exit is over, and its instrument in cooldown. *)
LEMMA ExitDoneConduct ==
  ASSUME ShapeInv, ConductInv, NEW s \in Slots, ExitDone(s)
  PROVE  ConductInv'
<1>0. PICK t : t = tasks[s]
  OBVIOUS
<1> USE <1>0
<1>1. mode' = mode /\ UNCHANGED <<executed, wrongs, stoppedOut, happened>>
      /\ Become(s, After(t)) /\ stopLossExits' = RecordExit(t)
  BY DEF ExitDone, End, history
<1>2. CheckedTask(After(t)) /\ stopLossExits \subseteq stopLossExits'
  BY <1>1, AfterChecked DEF RecordExit
<1>3. ASSUME mode = "paper", Leaving(t) PROVE t.inst \in stopLossExits'
  <2>1. t.outcome # "failed"
    BY <1>3 DEF ConductInv, CheckedTask
  <2> QED BY <1>1, <1>3, <2>1 DEF Leaving, RecordExit, WentFlat
<1> QED BY <1>1, <1>2, <1>3, StepConduct

(* What the plans of the engine do to the position they were made for.      *)
LEMMA PlanCloses ==
  ASSUME NEW intent \in {"go_flat", "decrease"}, NEW size \in Nat, NEW n \in Int,
         PlanDecision(intent, size, n) # <<>>
  PROVE  LET d == Total(PlanDecision(intent, size, n))
         IN  n + d = 0 \/ Side(n + d) = Side(n)
<1>1. \A a \in Int : <<a>> # <<>> /\ Total(<<a>>) = a
  BY DEF Total
<1>2. CASE intent = "go_flat"
  <2>1. PlanDecision(intent, size, n) = <<-n>>
    BY <1>2 DEF PlanDecision
  <2> QED BY <1>1, <2>1
<1>3. CASE intent = "decrease"
  <2> DEFINE m == size - Abs(n)
  <2>1. Abs(n) \in Nat /\ m \in Int /\ (n < 0 => Abs(n) = -n) /\ (n >= 0 => Abs(n) = n)
    BY DEF Abs
  <2>2. m < 0 /\ PlanDecision(intent, size, n) = <<IF n < 0 THEN -m ELSE m>>
    BY <1>3 DEF PlanDecision
  <2>3. Total(PlanDecision(intent, size, n)) = IF n < 0 THEN -m ELSE m
    BY <1>1, <2>1, <2>2
  <2>4. CASE n < 0
    <3>1. n + (-m) = -size
      BY <2>1, <2>4
    <3> QED BY <2>3, <2>4, <3>1 DEF Side
  <2>5. CASE n >= 0
    <3>1. n + m = size /\ ~(n < 0)
      BY <2>1, <2>5
    <3>2. n > 0
      BY <2>1, <2>2, <2>5
    <3> QED BY <2>3, <3>1, <3>2 DEF Side
  <2> QED BY <2>4, <2>5
<1> QED BY <1>2, <1>3

LEMMA PlanOpens ==
  ASSUME NEW intent \in {"go_flat", "increase", "decrease"}, NEW size \in Nat,
         PlanDecision(intent, size, 0) # <<>>
  PROVE  intent = "increase"
<1>1. Abs(0) = 0
  BY DEF Abs
<1>2. CASE intent = "go_flat"
  BY <1>2 DEF PlanDecision
<1>3. CASE intent = "decrease"
  BY <1>1, <1>3 DEF PlanDecision
<1> QED BY <1>2, <1>3

LEMMA OpenFinite ==
  ASSUME ShapeInv
  PROVE  IsFiniteSet(ReallyOpen) /\ Cardinality(ReallyOpen) \in Nat
  BY TradingAssumption, FS_Subset, FS_CardinalityType DEF ReallyOpen

(* A plan that is sent was made from the position that is held. *)
FromHeld(t) ==
    /\ executed[t.inst] = t.pos.net /\ t.pos.net \in Int
    /\ t.orders = PlanDecision(t.intent, t.size, t.pos.net) /\ t.orders # <<>>
    /\ t.size \in Nat
    /\ t.intent \in {"go_long", "go_short", "go_flat", "increase", "decrease"}

LEMMA SentTurnsNothing ==
  ASSUME NEW t, FromHeld(t)
  PROVE  ~Turns(t, Total(t.orders))
<1>0. PICK n : n = t.pos.net
  OBVIOUS
<1>1. /\ executed[t.inst] = n /\ n \in Int
      /\ t.orders = PlanDecision(t.intent, t.size, n) /\ t.orders # <<>> /\ t.size \in Nat
  BY <1>0 DEF FromHeld
<1>2. ASSUME RiskReducing(t.intent)
      PROVE  n + Total(t.orders) = 0 \/ Side(n + Total(t.orders)) = Side(n)
  <2>1. t.intent \in {"go_flat", "decrease"}
    BY <1>2 DEF RiskReducing
  <2> QED BY <1>1, <2>1, PlanCloses
<1> QED BY <1>1, <1>2 DEF Turns

LEMMA SentWithinLimit ==
  ASSUME ShapeInv, NEW s \in Slots, NEW t, t = tasks[s], t.pc = "execute", FromHeld(t),
         executed' = [executed EXCEPT ![t.inst] = @ + Total(t.orders)],
         TradeRaces(t) \cap LimitKinds = {}, WithinLimit, ~LimitBlocks(t)
  PROVE  WithinLimit'
<1>0. PICK i : i = t.inst
  OBVIOUS
<1>1. executed' = [executed EXCEPT ![i] = @ + Total(t.orders)]
  BY <1>0
<1>6. IsFiniteSet(ReallyOpen) /\ Cardinality(ReallyOpen) \in Nat
  BY OpenFinite
<1>7. i \in Instruments /\ t \in Task
  BY <1>0, AtHand
<1>8. executed \in [Instruments -> Int]
  BY DEF ShapeInv, TypeOK
<1>9. ReallyOpen' \subseteq ReallyOpen \cup {i}
  BY <1>1, <1>7, <1>8 DEF ReallyOpen
<1>11. CASE i \in ReallyOpen
  <2>1. ReallyOpen' \subseteq ReallyOpen
    BY <1>9, <1>11
  <2>2. Cardinality(ReallyOpen') <= Cardinality(ReallyOpen) /\ Cardinality(ReallyOpen') \in Nat
    BY <1>6, <2>1, FS_Subset, FS_CardinalityType
  <2> QED BY <1>6, <2>2, TradingAssumption DEF WithinLimit
<1>12. CASE i \notin ReallyOpen
  <2>1. t.pos.net = 0
    BY <1>0, <1>7, <1>12 DEF ReallyOpen, FromHeld
  <2>2. t.intent # "increase"
    BY <2>1 DEF TradeRaces, LimitKinds
  <2>3. Opens(t)
    <3>1. t.intent \notin {"go_flat", "decrease"}
      BY <2>1, PlanOpens DEF FromHeld
    <3> QED BY <2>1, <2>2, <3>1 DEF Opens, FromHeld
  <2>4. t.count = Cardinality(ReallyOpen)
    BY <2>3 DEF TradeRaces, LimitKinds
  <2>5. Cardinality(ReallyOpen) < MaxOpenPositions
    BY <1>6, <2>3, <2>4, TradingAssumption DEF LimitBlocks
  <2>6. IsFiniteSet(ReallyOpen \cup {i}) /\ Cardinality(ReallyOpen \cup {i}) = Cardinality(ReallyOpen) + 1
    BY <1>6, <1>12, FS_AddElement
  <2>7. Cardinality(ReallyOpen') <= Cardinality(ReallyOpen) + 1 /\ Cardinality(ReallyOpen') \in Nat
    BY <1>9, <2>6, FS_Subset, FS_CardinalityType
  <2> QED BY <1>6, <2>5, <2>7, TradingAssumption DEF WithinLimit
<1> QED BY <1>11, <1>12

(* What is known of the task that sends its orders, in paper mode.          *)
LEMMA Sender ==
  ASSUME ShapeInv, PaperInv, BooksInv, Clean, NEW s \in Slots, ExecutePaper(s)
  PROVE  LET t == tasks[s] IN
         /\ FromHeld(t)
         /\ \A r \in Slots : Leaving(tasks[r]) => tasks[r].inst # t.inst
<1>0. PICK t : t = tasks[s]
  OBVIOUS
<1> USE <1>0
<1>1. t.pc = "execute" /\ Books
  BY DEF ExecutePaper, BooksInv
<1>2. t \in Task /\ t.inst \in Instruments /\ Free(s, t.inst) /\ TaskBooks(t)
  BY <1>1, Holder
<1>3. t.orders # <<>>
  BY <1>1, AtHand
<1>4. /\ t.pos = positions[t.inst] /\ Settled(t.inst)
      /\ t.orders = PlanDecision(t.intent, t.size, t.pos.net)
  BY <1>1, <1>2 DEF TaskBooks
<1>5. t.size \in Nat /\ t.intent \in {"go_long", "go_short", "go_flat", "increase", "decrease"}
  <2>1. t.size \in Sizes \cup {0}
    BY <1>2 DEF Task
  <2>2. \A x \in Sizes \cup {0} : x \in Nat
    BY TradingAssumption
  <2>3. t.size \in Nat
    BY <2>1, <2>2, Zenon
  <2>4. t.intent \in {"go_long", "go_short", "go_flat", "increase", "decrease"}
    BY <1>2, TradingAssumption DEF Task
  <2> QED BY <2>3, <2>4
<1>6. executed[t.inst] = t.pos.net /\ t.pos.net \in Int
  <2>1. positions[t.inst].net \in Int
    BY <1>2 DEF ShapeInv, TypeOK
  <2> QED BY <1>4, <2>1 DEF Settled
<1>7. ASSUME NEW r \in Slots, Leaving(tasks[r]) PROVE tasks[r].inst # t.inst
  <2>1. r # s /\ Holds(tasks[r])
    BY <1>1, <1>7 DEF Leaving, Holds
  <2> QED BY <1>2, <2>1 DEF Free
<1> QED BY <1>3, <1>4, <1>5, <1>6, <1>7 DEF FromHeld

LEMMA PaperTurnsNothing ==
  ASSUME ShapeInv, PaperInv, BooksInv, Clean, NEW s \in Slots, ExecutePaper(s)
  PROVE  ~Turns(tasks[s], Total(tasks[s].orders))
<1>1. PICK t : t = tasks[s]
  OBVIOUS
<1>2. FromHeld(t)
  BY <1>1, Sender
<1> QED BY <1>1, <1>2, SentTurnsNothing

LEMMA PaperWithinLimit ==
  ASSUME ShapeInv, PaperInv, BooksInv, ConductInv, mode = "paper", mode' = mode,
         ~Excused(LimitKinds)', NEW s \in Slots, ExecutePaper(s)
  PROVE  WithinLimit'
<1>0. PICK t : t = tasks[s]
  OBVIOUS
<1>1. Note(TradeRaces(t)) /\ t.pc = "execute"
      /\ executed' = [executed EXCEPT ![t.inst] = @ + Total(t.orders)]
  BY <1>0 DEF ExecutePaper, Trade
<1>2. ~Excused(LimitKinds)
  BY <1>1, KindsBefore
<1>3. Clean
  BY <1>2 DEF Clean, Excused, LimitKinds
<1>4. TradeRaces(t) \cap LimitKinds = {}
  <2> SUFFICES ASSUME NEW x \in TradeRaces(t), x \in LimitKinds PROVE FALSE
    OBVIOUS
  <2> QED BY <1>1, ExcuseComes, KindsLast
<1>5. WithinLimit /\ ~LimitBlocks(t)
  BY <1>0, <1>1, <1>2 DEF ConductInv, CheckedTask
<1>6. FromHeld(t)
  BY <1>0, <1>3, Sender
<1> QED BY <1>0, <1>1, <1>4, <1>5, <1>6, SentWithinLimit

LEMMA PaperNoReentry ==
  ASSUME ShapeInv, PaperInv, BooksInv, ConductInv, mode = "paper", mode' = mode,
         ~Excused(CoolKinds)', NEW s \in Slots, ExecutePaper(s)
  PROVE  NoReentry'
<1>0. PICK t, i, u : t = tasks[s] /\ i = t.inst /\ u = Account(t)
  OBVIOUS
<1> USE <1>0
<1>1. /\ Note(TradeRaces(t)) /\ t.pc = "execute" /\ Become(s, u)
      /\ stopLossExits' = stopLossExits
      /\ stoppedOut' = IF t.kind = "exit" THEN stoppedOut \cup {i} ELSE stoppedOut
      /\ wrongs' = wrongs
           \cup (IF Turns(t, Total(t.orders)) THEN {"turned"} ELSE {})
           \cup (IF ~RiskReducing(t.intent) /\ i \in stoppedOut THEN {"reentry"} ELSE {})
  BY DEF ExecutePaper, Trade
<1>2. ~Excused(CoolKinds)
  BY <1>1, KindsBefore
<1>3. Clean
  BY <1>2 DEF Clean, Excused, CoolKinds
<1>4. TradeRaces(t) \cap CoolKinds = {}
  <2> SUFFICES ASSUME NEW x \in TradeRaces(t), x \in CoolKinds PROVE FALSE
    OBVIOUS
  <2> QED BY <1>1, ExcuseComes, KindsLast
<1>5. NoReentry /\ ~CooldownBlocks(t)
  BY <1>1, <1>2 DEF ConductInv, CheckedTask
<1>6. t \in Task /\ i \in Instruments
  BY <1>1, AtHand
<1>7. \A r \in Slots : Leaving(tasks[r]) => tasks[r].inst # i
  BY <1>3, Sender
<1>8. t.cooled <=> i \in stopLossExits
  <2>1. "stale_cooldown" \notin TradeRaces(t)
    BY <1>4 DEF CoolKinds
  <2>2. ~(t.cooled # (i \in stopLossExits))
    BY <2>1 DEF TradeRaces
  <2>3. t.cooled \in BOOLEAN
    BY <1>6, Zenon DEF Task
  <2> QED BY <2>2, <2>3, Zenon
<1>9. ~(~RiskReducing(t.intent) /\ i \in stoppedOut)
  <2> SUFFICES ASSUME ~RiskReducing(t.intent), i \in stoppedOut PROVE FALSE
    OBVIOUS
  <2>1. i \in stopLossExits
    BY <1>5, <1>7 DEF NoReentry, Cooling
  <2>2. t.cooled
    BY <1>8, <2>1
  <2> QED BY <1>5, <2>2 DEF CooldownBlocks
<1>10. "reentry" \notin wrongs'
  BY <1>1, <1>5, <1>9 DEF NoReentry
<1>11. tasks'[s] = u /\ \A r \in Slots \ {s} : tasks'[r] = tasks[r]
  BY <1>1 DEF Become, ShapeInv, TypeOK
<1>12. ASSUME NEW j \in stoppedOut PROVE Cooling(j)'
  <2>1. CASE j \in stopLossExits
    BY <1>1, <2>1 DEF Cooling
  <2>2. CASE j \notin stopLossExits
    <3>1. PICK r \in Slots : tasks[r].inst = j /\ Leaving(tasks[r])
      BY <1>5, <2>2 DEF NoReentry, Cooling
    <3>2. r # s
      BY <1>1, <3>1 DEF Leaving
    <3>3. tasks'[r].inst = j /\ Leaving(tasks'[r])
      BY <1>11, <3>1, <3>2
    <3> QED BY <3>3 DEF Cooling, Leaving
  <2> QED BY <2>1, <2>2
<1>13. ASSUME t.kind = "exit" PROVE Cooling(i)'
  <2>1. Books'
    BY <1>3, PaperBooks DEF BooksInv
  <2>2. u.pc = "fill" /\ u.inst = i /\ u.kind = "exit"
    BY <1>6, <1>13, AccountFields
  <2>3. life' = "up"
    <3>1. life = "up"
      BY <1>1, <1>3, Holder DEF BooksInv
    <3> QED BY <3>1 DEF ExecutePaper
  <2>4. TaskBooks(u)'
    <3>1. Holds(tasks'[s])
      BY <1>11, <2>2 DEF Holds
    <3>2. TaskBooks(tasks[s])'
      BY <2>1, <2>3, <3>1 DEF Books, Holds
    <3> QED BY <1>11, <3>2 DEF TaskBooks, Settled
  <2>5. u.result = 0
    BY <2>2, <2>4 DEF TaskBooks
  <2>6. tasks'[s].inst = i /\ Leaving(tasks'[s])
    BY <1>11, <2>2, <2>5 DEF Leaving
  <2> QED BY <2>6 DEF Cooling, Leaving
<1>14. \A j \in stoppedOut' : Cooling(j)'
  BY <1>1, <1>12, <1>13
<1> QED BY <1>10, <1>14 DEF NoReentry

LEMMA PaperConduct ==
  ASSUME ShapeInv, PaperInv, BooksInv, ConductInv, NEW s \in Slots, ExecutePaper(s)
  PROVE  ConductInv'
<1>0. PICK t, u : t = tasks[s] /\ u = Account(t)
  OBVIOUS
<1> USE <1>0
<1>1. /\ Note(TradeRaces(t)) /\ t.pc = "execute" /\ Become(s, u) /\ mode = "paper" /\ mode' = mode
      /\ wrongs' = wrongs
           \cup (IF Turns(t, Total(t.orders)) THEN {"turned"} ELSE {})
           \cup (IF ~RiskReducing(t.intent) /\ t.inst \in stoppedOut THEN {"reentry"} ELSE {})
  BY DEF ExecutePaper, Trade
<1>2. CheckedTask(u)
  <2>1. t \in Task /\ t.outcome # "failed"
    BY <1>1, AtHand DEF ConductInv, CheckedTask
  <2>2. u.pc = "fill" /\ u.outcome = t.outcome
    BY <2>1, AccountFields
  <2> QED BY <2>1, <2>2 DEF CheckedTask
<1>3. tasks'[s] = u /\ \A r \in Slots \ {s} : tasks'[r] = tasks[r]
  BY <1>1 DEF Become, ShapeInv, TypeOK
<1>4. \A r \in Slots : CheckedTask(tasks[r])'
  BY <1>1, <1>2, <1>3 DEF ConductInv, CheckedTask
<1>5. ASSUME ~Excused(Misread)' PROVE NoneTurned'
  <2>1. ~Excused(Misread)
    BY <1>1, <1>5, KindsBefore
  <2>2. ~Turns(t, Total(t.orders))
    BY <1>1, <2>1, PaperTurnsNothing DEF Clean
  <2> QED BY <1>1, <2>1, <2>2 DEF ConductInv, NoneTurned
<1> QED BY <1>1, <1>4, <1>5, PaperWithinLimit, PaperNoReentry DEF ConductInv

LEMMA InitConduct == Init => ConductInv
<1> SUFFICES ASSUME Init PROVE ConductInv
  OBVIOUS
<1>1. ReallyOpen = {}
  BY DEF Init, ReallyOpen
<1>2. WithinLimit
  BY <1>1, FS_EmptySet, TradingAssumption DEF WithinLimit
<1>3. \A s \in Slots : CheckedTask(tasks[s])
  BY DEF Init, IdleTask, CheckedTask
<1> QED BY <1>2, <1>3 DEF Init, ConductInv, NoneTurned, NoReentry

LEMMA LifeConduct ==
  ASSUME ShapeInv, ConductInv,
         StreamReconnects \/ StopActor \/ StartActor \/ Recover \/ RehydrationFails \/ UNCHANGED vars
  PROVE  ConductInv'
<1>1. mode' = mode /\ UNCHANGED <<tasks, executed, wrongs, stoppedOut>>
  BY DEF StreamReconnects, StopActor, StartActor, Recover, RehydrationFails, vars, history
<1>2. PICK S, k : Note(S) \/ Fault(k, S) \/ happened' = happened
  BY DEF StreamReconnects, StopActor, StartActor, Recover, RehydrationFails, vars
<1>3. ~Excused(CoolKinds)' => stoppedOut = {} \/ stopLossExits \subseteq stopLossExits'
  <2>1. CASE StartActor
    <3> SUFFICES ASSUME ~Excused(CoolKinds)', stoppedOut # {} PROVE FALSE
      OBVIOUS
    <3>1. Note({"restart"})
      BY <2>1 DEF StartActor
    <3>2. "restart" \in CoolKinds
      BY DEF CoolKinds
    <3> QED BY <3>1, <3>2, ExcuseComes, KindsLast
  <2>2. CASE ~StartActor
    <3>1. stopLossExits' = stopLossExits
      BY <2>2 DEF StreamReconnects, StopActor, Recover, RehydrationFails, vars, memory
    <3> QED BY <3>1
  <2> QED BY <2>1, <2>2
<1> QED BY <1>1, <1>2, <1>3, FrameConduct

LEMMA DeathConduct ==
  ASSUME ShapeInv, ConductInv, ProcessDies
  PROVE  ConductInv'
<1>1. mode' = mode /\ UNCHANGED <<executed, wrongs, stoppedOut, stopLossExits>>
      /\ tasks' = [s \in Slots |-> IdleTask] /\ Fault("die", Torn)
  BY DEF ProcessDies, memory, history
<1>2. \A s \in Slots : CheckedTask(tasks'[s])
  BY <1>1 DEF CheckedTask, IdleTask
<1>3. \A s \in Slots : CheckedTask(tasks[s])'
  BY <1>2 DEF CheckedTask
<1>4. ReallyOpen' = ReallyOpen
  BY <1>1 DEF ReallyOpen
<1>5. ASSUME mode = "paper", ~Excused(CoolKinds)' PROVE NoReentry'
  <2>1. Torn \cap CoolKinds = {}
    <3> SUFFICES ASSUME NEW x \in Torn, x \in CoolKinds PROVE FALSE
      OBVIOUS
    <3> QED BY <1>1, <1>5, ExcuseComes, KindsLast
  <2>2. ~AtWork
    BY <2>1 DEF Torn, CoolKinds, Misread
  <2>3. \A s \in Slots : ~Leaving(tasks[s])
    BY <2>2 DEF AtWork, Leaving
  <2>4. NoReentry
    BY <1>1, <1>5, KindsBefore DEF ConductInv
  <2> QED BY <1>1, <2>3, <2>4 DEF NoReentry, Cooling
<1>6. mode = "paper" /\ ~Excused(LimitKinds)' => WithinLimit'
  BY <1>1, <1>4, KindsBefore DEF ConductInv, WithinLimit
<1>7. mode = "paper" /\ ~Excused(Misread)' => NoneTurned'
  BY <1>1, KindsBefore DEF ConductInv, NoneTurned
<1> QED BY <1>1, <1>3, <1>5, <1>6, <1>7 DEF ConductInv

LEMMA NextConduct ==
  ShapeInv /\ PaperInv /\ BooksInv /\ ConductInv /\ [Next]_vars => ConductInv'
<1> SUFFICES ASSUME ShapeInv, PaperInv, BooksInv, ConductInv, [Next]_vars PROVE ConductInv'
  OBVIOUS
<1>1. CASE mode = "live" /\ mode' = mode
  BY <1>1 DEF ConductInv
<1>2. CASE \E s \in Slots : Pipeline(s)
  <2>1. PICK s \in Slots : Pipeline(s)
    BY <1>2
  <2>2. CASE ExecuteLive(s) \/ VenueRefuses(s) \/ ExecutionTimesOut(s)
    BY <1>1, <2>2, LiveOnlyPaper
  <2>3. CASE ContextReady(s) \/ NoContext(s) \/ CheckRisk(s) \/ OtherLimit(s)
    BY <2>3, ContextConduct, NoContextConduct, RiskConduct
  <2>4. CASE ExecutePaper(s) \/ FillStored(s) \/ WriteFails(s)
    BY <2>4, PaperConduct, FillConduct, WriteFailsConduct
  <2>5. CASE Stored(s) \/ Decided(s) \/ ExitDone(s)
    BY <2>5, StoredConduct, DecidedConduct, ExitDoneConduct
  <2> QED BY <2>1, <2>2, <2>3, <2>4, <2>5 DEF Pipeline
<1>3. CASE \E s \in Slots : MutationFails(s) \/ StreamCloses(s) \/ CrashNext(s) \/ CrashEnds(s)
  BY <1>1, <1>3, LiveOnlyPaper
<1>4. CASE \E s \in Slots, i \in Instruments :
             Submit(s, i) \/ StopLossAtIntake(s, i) \/ MonitorLevels(s, i) \/ ScanExit(s, i)
  BY <1>4, StartConduct
<1>5. CASE TakeFill \/ FillRecorded \/ TakePosition \/ RowUpdated \/ StreamDrops
  BY <1>1, <1>5, LiveStreamPaper
<1>6. CASE ProcessDies
  BY <1>6, DeathConduct
<1>7. CASE StreamReconnects \/ StopActor \/ StartActor \/ Recover \/ RehydrationFails \/ UNCHANGED vars
  BY <1>7, LifeConduct
<1> QED BY <1>2, <1>3, <1>4, <1>5, <1>6, <1>7 DEF Next

LEMMA PaperConductKept == Spec => []ConductInv
<1>1. ShapeInv /\ PaperInv /\ BooksInv /\ ConductInv /\ [Next]_vars => ConductInv'
  BY NextConduct
<1> QED BY <1>1, InitConduct, Shape, PaperBooksKept, PTL DEF Spec

(* No exit of a paper actor sells more than is held, or buys, whoever       *)
(* starts it and whatever is under way on other instruments.                *)
LEMMA PaperExitsOnlyClose == Spec => [](mode = "paper" => ExitsOnlyClose)
<1>1. ConductInv => (mode = "paper" => ExitsOnlyClose)
  BY DEF ConductInv, ExitsOnlyClose, NoneTurned, Excused
<1> QED BY <1>1, PaperConductKept, PTL

(* A paper actor never holds more instruments than maxOpenPositions, unless *)
(* a count was stale or an "increase" opened a position.                    *)
LEMMA PaperOpenLimited == Spec => [](mode = "paper" => OpenPositionsLimited)
<1>1. ConductInv => (mode = "paper" => OpenPositionsLimited)
  BY DEF ConductInv, OpenPositionsLimited, WithinLimit, LimitKinds
<1> QED BY <1>1, PaperConductKept, PTL

(* After a stop-loss exit a paper actor does not re-enter the instrument    *)
(* before it is restarted, unless the decision was captured before.         *)
THEOREM PaperCooldownHolds == Spec => [](mode = "paper" => CooldownHolds)
<1>1. ConductInv => (mode = "paper" => CooldownHolds)
  BY DEF ConductInv, CooldownHolds, NoReentry, CoolKinds
<1> QED BY <1>1, PaperConductKept, PTL

-----------------------------------------------------------------------------
(* The levels: those in the map are those of the row, and are for the side  *)
(* that is held; they are those the last executed decision asked for, or    *)
(* will be when the activity that holds the instrument stores its result.   *)
LevelKinds == Misread \cup {"reverse"}

Watched(i) == exitLevels[i] = protection[i]
LevelsFollow(i) ==
    /\ exitLevels[i] \in {"none", Side(positions[i].net)}
    /\ positions[i].net # 0 => rows[i][Key(positions[i])].levels = exitLevels[i]
LevelsKept(i) ==
    /\ \A k \in OpenRows(i) : /\ rows[i][k].levels = protection[i]
                               /\ protection[i] \in {"none", Side(rows[i][k].net)}
    /\ OpenRows(i) = {} => protection[i] = "none"

SameSide(n, m) == n = 0 \/ m = 0 \/ Side(n) = Side(m)
Toward(intent, n) == /\ intent = "go_long" => n >= 0
                     /\ intent = "go_short" => n <= 0
TaskLevels(t) ==
    /\ t.pc \in {"risk", "execute", "wrap"} => Watched(t.inst)
    /\ t.pc \in {"fill", "store"} =>
          LET held == executed[t.inst] IN
          /\ SameSide(positions[t.inst].net, held) /\ Toward(t.intent, held)
          /\ protection[t.inst] = IF held = 0 THEN "none"
                                  ELSE IF t.levels THEN Side(held)
                                  ELSE exitLevels[t.inst]

Armed ==
    /\ life = "up" =>
          /\ \A i \in Instruments : LevelsFollow(i) /\ (Untouched(i) => Watched(i))
          /\ \A s \in Slots : Holds(tasks[s]) => TaskLevels(tasks[s])
    /\ life # "up" => \A i \in Instruments : LevelsKept(i)
    /\ life = "starting" => \A i \in Instruments : exitLevels[i] = "none"

Forward == mode = "paper" /\ ~Excused(LevelKinds)
ArmedInv == Forward => Armed

LEMMA ForwardIsClean == Forward => Clean
  BY DEF Forward, Clean, Excused, LevelKinds

LEMMA LevelsLast == Lasting(LevelKinds)
  BY DEF Lasting, LevelKinds, Misread

LEMMA ForwardBefore ==
  ASSUME ShapeInv, NEW S, NEW k, Note(S) \/ Fault(k, S) \/ happened' = happened,
         mode' = mode, Forward'
  PROVE  Forward
<1>1. Excused(LevelKinds) => Excused(LevelKinds)'
  BY ExcuseLasts, LevelsLast
<1> QED BY <1>1 DEF Forward

LEMMA ForwardNotes ==
  ASSUME ShapeInv, NEW S, NEW k, Note(S) \/ Fault(k, S), Forward'
  PROVE  S \cap LevelKinds = {}
<1> SUFFICES ASSUME NEW x \in S, x \in LevelKinds PROVE FALSE
  OBVIOUS
<1>1. Excused(LevelKinds)'
  BY ExcuseComes, LevelsLast
<1> QED BY <1>1 DEF Forward

(* What PositionRepository.upsert leaves in the row of an open position. *)
LEMMA UpsertLevels ==
  ASSUME NEW r \in [{"named", "unnamed"} -> Row], NEW old \in Pos, NEW p \in Pos, NEW l,
         RowFollows(r, old), old.named => p.named, p.net # 0, SameSide(old.net, p.net)
  PROVE  Upsert(r, p, l)[Key(p)].levels =
             IF l # "none" THEN l
             ELSE IF old.net = 0 THEN "none" ELSE r[Key(old)].levels
<1> DEFINE q == Promoted(r, p)
           kept == IF l # "none" THEN l
                   ELSE IF Side(q[Key(p)].net) = Side(p.net) THEN q[Key(p)].levels
                   ELSE "none"
<1>1. Upsert(r, p, l) = [q EXCEPT ![Key(p)] = [net |-> p.net, levels |-> kept]]
  BY DEF Upsert, Key
<1>2. Key(p) \in DOMAIN q
  <2>1. DOMAIN [named |-> r["unnamed"], unnamed |-> NoRow] = {"named", "unnamed"}
    OBVIOUS
  <2> QED BY <2>1 DEF Promoted, Key
<1>3. q[Key(p)].net = old.net /\ (old.net # 0 => q[Key(p)] = r[Key(old)])
  <2>1. CASE ~p.named
    BY <2>1 DEF Promoted, RowFollows, Key, Other
  <2>2. CASE p.named /\ r["named"].net = 0
    BY <2>2 DEF Promoted, RowFollows, Key, Other
  <2>3. CASE p.named /\ r["named"].net # 0
    BY <2>3 DEF Promoted, RowFollows, Key, Other
  <2> QED BY <2>1, <2>2, <2>3
<1> HIDE DEF q
<1>4. p.net \in Int /\ old.net \in Int
  BY DEF Pos
<1>5. Side(p.net) # Side(0)
  BY <1>4 DEF Side
<1>6. kept = IF l # "none" THEN l
             ELSE IF old.net = 0 THEN "none" ELSE r[Key(old)].levels
  BY <1>3, <1>5 DEF SameSide
<1> HIDE DEF kept
<1> QED BY <1>1, <1>2, <1>6

(* A step of one activity, alone on its instrument. *)
LEMMA StepArmed ==
  ASSUME ShapeInv, Armed, life = "up", life' = life, NEW s \in Slots, NEW u,
         NEW i \in Instruments, Become(s, u),
         u.inst = i \/ ~Holds(u), tasks[s].inst = i, Free(s, i),
         \A j \in Instruments \ {i} :
            /\ positions'[j] = positions[j] /\ rows'[j] = rows[j]
            /\ executed'[j] = executed[j] /\ protection'[j] = protection[j]
            /\ exitLevels'[j] = exitLevels[j],
         LevelsFollow(i)', Holds(u) => TaskLevels(u)', ~Holds(u) => Watched(i)'
  PROVE  Armed'
<1>1. tasks \in [Slots -> Task] /\ \A r \in Slots : Holds(tasks[r]) => tasks[r].inst \in Instruments
  <2>1. \A r \in Slots : Holds(tasks[r]) => Working(tasks[r])
    BY DEF Holds, Working
  <2> QED BY <2>1 DEF ShapeInv, TypeOK, TaskOK
<1>2. tasks'[s] = u /\ \A r \in Slots \ {s} : tasks'[r] = tasks[r]
  BY <1>1 DEF Become
<1>3. \A j \in Instruments : LevelsFollow(j)'
  BY DEF Armed, LevelsFollow
<1>4. ASSUME NEW j \in Instruments, Untouched(j)' PROVE Watched(j)'
  <2>1. CASE j = i
    <3>1. u.inst = i => ~Holds(u)
      BY <1>2, <1>4, <2>1 DEF Untouched
    <3> QED BY <2>1, <3>1
  <2>2. CASE j # i
    <3>1. Untouched(j)
      BY <1>2, <1>4, <2>2 DEF Untouched
    <3> QED BY <2>2, <3>1 DEF Armed, Watched
  <2> QED BY <2>1, <2>2
<1>5. ASSUME NEW r \in Slots, Holds(tasks'[r]) PROVE TaskLevels(tasks[r])'
  <2>1. CASE r = s
    BY <1>2, <1>5, <2>1
  <2>2. CASE r # s
    <3>1. Holds(tasks[r]) /\ tasks'[r] = tasks[r] /\ tasks[r].inst \in Instruments \ {i}
      BY <1>1, <1>2, <1>5, <2>2 DEF Free
    <3>2. TaskLevels(tasks[r])
      BY <3>1 DEF Armed
    <3> QED BY <3>1, <3>2 DEF TaskLevels, Watched
  <2> QED BY <2>1, <2>2
<1> QED BY <1>3, <1>4, <1>5 DEF Armed

(* A step that touches no book, of an activity that holds nothing. *)
LEMMA QuietArmed ==
  ASSUME ShapeInv, Armed, life = "up", life' = life, NEW s \in Slots, NEW u,
         Become(s, u), ~Holds(tasks[s]), ~Holds(u),
         UNCHANGED <<positions, rows, executed, exitLevels, protection>>
  PROVE  Armed'
<1>1. tasks \in [Slots -> Task]
  BY DEF ShapeInv, TypeOK
<1>2. tasks'[s] = u /\ \A r \in Slots \ {s} : tasks'[r] = tasks[r]
  BY <1>1 DEF Become
<1>3. \A j \in Instruments : LevelsFollow(j)'
  BY DEF Armed, LevelsFollow
<1>4. ASSUME NEW j \in Instruments, Untouched(j)' PROVE Watched(j)'
  <2>1. Untouched(j)
    BY <1>2, <1>4 DEF Untouched
  <2> QED BY <2>1 DEF Armed, Watched
<1>5. ASSUME NEW r \in Slots, Holds(tasks'[r]) PROVE TaskLevels(tasks[r])'
  <2>1. r # s /\ tasks'[r] = tasks[r] /\ Holds(tasks[r])
    BY <1>2, <1>5
  <2>2. TaskLevels(tasks[r])
    BY <2>1 DEF Armed
  <2> QED BY <2>1, <2>2 DEF TaskLevels, Watched
<1> QED BY <1>3, <1>4, <1>5 DEF Armed

LEMMA StartArmed ==
  ASSUME ShapeInv, Books, Armed, Forward', mode' = mode, NEW s \in Slots, NEW i \in Instruments,
         Submit(s, i) \/ StopLossAtIntake(s, i) \/ MonitorLevels(s, i) \/ ScanExit(s, i)
  PROVE  Armed'
<1>1. \E u : Become(s, u) /\ ~Holds(u)
  BY StartHoldsNot
<1>2. PICK u : Become(s, u) /\ ~Holds(u)
  BY <1>1
<1>3. ~Holds(tasks[s])
  BY DEF Submit, StopLossAtIntake, MonitorLevels, ScanExit, Idle, Holds
<1>4. life' = life /\ UNCHANGED <<positions, rows, executed, exitLevels, protection>>
  BY DEF Submit, StopLossAtIntake, MonitorLevels, ScanExit, StartExit, memory, database, history
<1>5. life = "up"
  <2>1. CASE Submit(s, i)
    <3>1. life \in {"starting", "up"}
      BY <2>1 DEF Submit, IntakeOpen, Running, ShapeInv, TypeOK
    <3>2. CASE life = "starting"
      <4>1. Note({"early"})
        BY <2>1, <3>2 DEF Submit
      <4>2. {"early"} \cap LevelKinds = {}
        BY <4>1, ForwardNotes
      <4> QED BY <4>2 DEF LevelKinds, Misread
    <3> QED BY <3>1, <3>2
  <2>2. CASE ~Submit(s, i)
    BY <2>2 DEF StopLossAtIntake, MonitorLevels, ScanExit
  <2> QED BY <2>1, <2>2
<1> QED BY <1>2, <1>3, <1>4, <1>5, QuietArmed

LEMMA ContextArmed ==
  ASSUME ShapeInv, PaperInv, Books, Armed, Forward', mode' = mode, NEW s \in Slots,
         ContextReady(s)
  PROVE  Armed'
<1>0. PICK t, i, pos : t = tasks[s] /\ i = t.inst /\ pos = IF t.kind = "crash" THEN t.pos ELSE positions[i]
  OBVIOUS
<1> USE <1>0
<1> DEFINE orders == PlanDecision(t.intent, t.size, pos.net)
           p == IF orders = <<>> THEN "wrap" ELSE "risk"
           o == IF orders = <<>> THEN "noop" ELSE "none"
           u == [t EXCEPT !.pc = p, !.pos = pos, !.result = pos.net,
                          !.orders = orders, !.outcome = o]
<1>1. t \in Task /\ i \in Instruments /\ t.kind # "crash" /\ t.pc = "context"
  BY DEF ShapeInv, TypeOK, TaskOK, ContextReady, Working, PaperInv, Forward
<1>2. ~Holds(t) /\ life = "up"
  BY <1>1, WorkingIsUp DEF Holds
<1>3. life' = life /\ UNCHANGED <<positions, rows, executed, exitLevels, protection>>
  BY DEF ContextReady, database, history
<1>4. CASE End(s)
  <2>1. Become(s, IdleTask)
    BY <1>1, <1>4, SteadyAfter DEF End
  <2> QED BY <1>2, <1>3, <2>1, IdleHoldsNot, QuietArmed
<1>5. CASE ~End(s)
  <2>1. Become(s, u) /\ Note(ReadRaces(s, i))
    BY <1>1, <1>5 DEF ContextReady
  <2>2. u.pc = p /\ u.inst = i
    <3> HIDE DEF p, orders, o
    <3> QED BY <1>1 DEF Task
  <2>3. Rivals(s, i) = {}
    <3>1. ReadRaces(s, i) \cap LevelKinds = {}
      BY <2>1, ForwardNotes
    <3> QED BY <3>1 DEF ReadRaces, LevelKinds, Misread
  <2>4. Free(s, i)
    BY <2>3, NoRivals
  <2>5. Untouched(i)
    BY <1>2, <2>4 DEF Untouched, Free
  <2>6. LevelsFollow(i) /\ Watched(i)
    BY <1>1, <1>2, <2>5 DEF Armed
  <2>7. LevelsFollow(i)' /\ Watched(i)'
    BY <1>3, <2>6 DEF LevelsFollow, Watched
  <2> HIDE DEF u
  <2>8. u.pc \in {"risk", "wrap"}
    BY <2>2
  <2>9. TaskLevels(u)'
    BY <2>2, <2>7, <2>8 DEF TaskLevels, Watched
  <2> HIDE DEF orders, p, o
  <2> QED BY <1>1, <1>2, <1>3, <2>1, <2>2, <2>4, <2>7, <2>9, StepArmed
<1> QED BY <1>4, <1>5

LEMMA NoContextArmed ==
  ASSUME ShapeInv, PaperInv, Books, Armed, mode = "paper", NEW s \in Slots, NoContext(s)
  PROVE  Armed'
<1>1. tasks[s] \in Task /\ tasks[s].kind # "crash" /\ tasks[s].pc = "context"
  BY DEF ShapeInv, TypeOK, NoContext, PaperInv
<1>2. ~Holds(tasks[s]) /\ life = "up"
  BY <1>1, WorkingIsUp DEF Holds
<1>3. life' = life /\ UNCHANGED <<positions, rows, executed, exitLevels, protection>>
  BY DEF NoContext, database, history
<1>4. Become(s, IdleTask)
  BY <1>1, SteadyAfter DEF NoContext, End
<1> QED BY <1>2, <1>3, <1>4, IdleHoldsNot, QuietArmed

LEMMA HolderLevels ==
  ASSUME ShapeInv, Books, Armed, NEW s \in Slots,
         tasks[s].pc \in {"risk", "execute", "fill", "store", "wrap"}
  PROVE  LevelsFollow(tasks[s].inst) /\ TaskLevels(tasks[s])
  BY Holder DEF Armed

LEMMA RiskArmed ==
  ASSUME ShapeInv, Books, Armed, NEW s \in Slots, CheckRisk(s) \/ OtherLimit(s)
  PROVE  Armed'
<1>0. PICK t, i : t = tasks[s] /\ i = t.inst
  OBVIOUS
<1> USE <1>0
<1>1. t.pc = "risk"
  BY DEF CheckRisk, OtherLimit
<1>2. /\ t \in Task /\ i \in Instruments /\ life = "up" /\ Free(s, i)
      /\ LevelsFollow(i) /\ Watched(i)
  BY <1>1, Holder, HolderLevels DEF TaskLevels
<1>3. life' = life /\ UNCHANGED <<positions, rows, executed, exitLevels, protection>>
  BY DEF CheckRisk, OtherLimit, memory, database, history
<1>4. PICK u \in {[t EXCEPT !.pc = "wrap", !.outcome = "rejected"], [t EXCEPT !.pc = "execute"]} :
         Become(s, u)
  BY DEF CheckRisk, OtherLimit
<1>5. u.pc \in {"wrap", "execute"} /\ u.inst = i
  BY <1>2, <1>4 DEF Task
<1>6. LevelsFollow(i)' /\ Watched(i)'
  BY <1>2, <1>3 DEF LevelsFollow, Watched
<1>7. TaskLevels(u)'
  BY <1>5, <1>6 DEF TaskLevels, Watched
<1> QED BY <1>2, <1>3, <1>4, <1>5, <1>6, <1>7, StepArmed

(* A plan that does not reverse keeps the side. *)
LEMMA PlanKeepsSide ==
  ASSUME NEW intent \in {"go_long", "go_short", "go_flat", "increase", "decrease"},
         NEW size \in Nat, NEW n \in Int, PlanDecision(intent, size, n) # <<>>,
         intent = "go_long" => n >= 0, intent = "go_short" => n <= 0
  PROVE  LET m == n + Total(PlanDecision(intent, size, n))
         IN  m \in Int /\ SameSide(n, m) /\ Toward(intent, m)
<1> DEFINE d == Total(PlanDecision(intent, size, n))
           missing == size - Abs(n)
<1>1. \A a \in Int : <<a>> # <<>> /\ Total(<<a>>) = a
  BY DEF Total
<1>2. Abs(n) \in Nat /\ missing \in Int /\ (n < 0 => Abs(n) = -n) /\ (n >= 0 => Abs(n) = n)
  BY DEF Abs
<1>3. \A m \in Int : (n >= 0 /\ m >= 0) \/ (n <= 0 /\ m <= 0) => SameSide(n, m)
  BY DEF SameSide, Side
<1>4. CASE intent = "go_long"
  <2>1. n >= 0 /\ ~(1 * n < 0)
    BY <1>4
  <2>2. missing > 0 /\ PlanDecision(intent, size, n) = <<1 * missing>>
    BY <1>2, <1>4, <2>1 DEF PlanDecision
  <2>3. d = missing /\ n + d = size
    BY <1>1, <1>2, <2>1, <2>2
  <2> QED BY <1>3, <1>4, <2>1, <2>3 DEF Toward
<1>5. CASE intent = "go_short"
  <2>1. n <= 0 /\ ~((-1) * n < 0)
    BY <1>5
  <2>2. missing > 0 /\ PlanDecision(intent, size, n) = <<(-1) * missing>>
    BY <1>2, <1>5, <2>1 DEF PlanDecision
  <2>3. d = -missing /\ n + d = -size
    <3>1. d = -missing
      BY <1>1, <1>2, <2>2
    <3>2. Abs(n) = -n
      BY <1>2, <2>1
    <3> QED BY <1>2, <3>1, <3>2
  <2> QED BY <1>3, <1>5, <2>1, <2>3 DEF Toward
<1>6. CASE intent = "go_flat"
  <2>1. PlanDecision(intent, size, n) = <<-n>>
    BY <1>6 DEF PlanDecision
  <2>2. n + d = 0
    BY <1>1, <2>1
  <2> QED BY <1>6, <2>2 DEF Toward, SameSide
<1>7. CASE intent = "increase"
  <2>1. missing > 0 /\ PlanDecision(intent, size, n) = <<IF n < 0 THEN -missing ELSE missing>>
    BY <1>2, <1>7 DEF PlanDecision
  <2>2. d = IF n < 0 THEN -missing ELSE missing
    BY <1>1, <1>2, <2>1
  <2>3. n + d = IF n < 0 THEN -size ELSE size
    BY <1>2, <2>2
  <2> QED BY <1>3, <1>7, <2>3 DEF Toward
<1>8. CASE intent = "decrease"
  <2>1. missing < 0 /\ PlanDecision(intent, size, n) = <<IF n < 0 THEN -missing ELSE missing>>
    BY <1>2, <1>8 DEF PlanDecision
  <2>2. d = IF n < 0 THEN -missing ELSE missing
    BY <1>1, <1>2, <2>1
  <2>3. n + d = IF n < 0 THEN -size ELSE size
    BY <1>2, <2>2
  <2> QED BY <1>3, <1>8, <2>3 DEF Toward
<1> QED BY <1>4, <1>5, <1>6, <1>7, <1>8

LEMMA PaperArmed ==
  ASSUME ShapeInv, PaperInv, BooksInv, Armed, Forward, Forward', NEW s \in Slots,
         ExecutePaper(s)
  PROVE  Armed'
<1>0. PICK t, i, q, u : t = tasks[s] /\ i = t.inst /\ q = t.orders /\ u = Account(t)
  OBVIOUS
<1> USE <1>0
<1>1. t.pc = "execute" /\ Clean /\ Books
  BY ForwardIsClean DEF ExecutePaper, BooksInv
<1>2. /\ t \in Task /\ i \in Instruments /\ life = "up" /\ Free(s, i)
      /\ LevelsFollow(i) /\ Watched(i) /\ TaskBooks(t)
  BY <1>1, Holder, HolderLevels DEF TaskLevels
<1>3. /\ Become(s, u) /\ life' = life /\ UNCHANGED <<positions, rows, exitLevels>>
      /\ executed' = [executed EXCEPT ![i] = @ + Total(q)]
      /\ Note(TradeRaces(t))
  BY DEF ExecutePaper, Trade, database
<1>4. u.pc = "fill" /\ u.inst = i /\ u.intent = t.intent /\ (u.levels <=> t.levels)
  <2>1. u.levels = t.levels
    BY <1>2 DEF Account, Task
  <2> QED BY <1>2, <2>1, AccountFields
<1>5. /\ executed \in [Instruments -> Int]
      /\ protection \in [Instruments -> {"none", "long", "short"}]
  BY DEF ShapeInv, TypeOK
<1>6. /\ executed[i] = t.pos.net /\ t.pos.net \in Int
      /\ q = PlanDecision(t.intent, t.size, t.pos.net) /\ q # <<>> /\ t.size \in Nat
      /\ t.intent \in {"go_long", "go_short", "go_flat", "increase", "decrease"}
  BY <1>1, Sender DEF FromHeld
<1>7. positions[i].net = executed[i]
  BY <1>1, <1>2 DEF TaskBooks, Settled
<1>8. ~Reverses(t)
  <2>1. TradeRaces(t) \cap LevelKinds = {}
    BY <1>3, ForwardNotes
  <2> QED BY <2>1 DEF TradeRaces, LevelKinds
<1>9. (t.intent = "go_long" => t.pos.net >= 0) /\ (t.intent = "go_short" => t.pos.net <= 0)
  BY <1>6, <1>8 DEF Reverses
<1> DEFINE held == executed[i] + Total(q)
<1>10. held \in Int /\ SameSide(executed[i], held) /\ Toward(t.intent, held)
  BY <1>6, <1>9, PlanKeepsSide
<1>11. executed'[i] = held
  BY <1>2, <1>3, <1>5
<1>12. protection'[i] = IF t.levels \/ Side(held) = "none" THEN Side(held) ELSE protection[i]
  BY <1>2, <1>5 DEF ExecutePaper, Trade
<1> HIDE DEF held
<1>13. Side(held) = "none" <=> held = 0
  BY <1>10 DEF Side
<1>14. protection'[i] = IF held = 0 THEN "none"
                        ELSE IF t.levels THEN Side(held) ELSE exitLevels[i]
  BY <1>2, <1>12, <1>13 DEF Watched
<1>15. TaskLevels(u)'
  BY <1>3, <1>4, <1>7, <1>10, <1>11, <1>14 DEF TaskLevels
<1>16. LevelsFollow(i)' /\ Holds(u)
  BY <1>2, <1>3, <1>4 DEF LevelsFollow, Holds
<1>17. \A j \in Instruments \ {i} : executed'[j] = executed[j] /\ protection'[j] = protection[j]
  BY <1>3, <1>5 DEF ExecutePaper, Trade
<1> QED BY <1>2, <1>3, <1>4, <1>15, <1>16, <1>17, StepArmed

LEMMA FillArmed ==
  ASSUME ShapeInv, Books, Armed, NEW s \in Slots, FillStored(s)
  PROVE  Armed'
<1>0. PICK t, i : t = tasks[s] /\ i = t.inst
  OBVIOUS
<1> USE <1>0
<1>1. t.pc = "fill"
  BY DEF FillStored
<1>2. /\ t \in Task /\ i \in Instruments /\ life = "up" /\ Free(s, i)
      /\ LevelsFollow(i) /\ TaskLevels(t)
  BY <1>1, Holder, HolderLevels
<1>3. life' = life /\ UNCHANGED <<positions, rows, executed, exitLevels, protection>>
  BY DEF FillStored, history
<1>4. PICK u : /\ Become(s, u) /\ u.intent = t.intent /\ u.inst = i /\ u.levels = t.levels
               /\ u.pc \in {"fill", "store"}
  BY FillStep
<1>5. TaskLevels(u)'
  BY <1>1, <1>2, <1>3, <1>4 DEF TaskLevels
<1>6. LevelsFollow(i)' /\ Holds(u)
  BY <1>2, <1>3, <1>4 DEF LevelsFollow, Holds
<1> QED BY <1>2, <1>3, <1>4, <1>5, <1>6, StepArmed

LEMMA StoredArmed ==
  ASSUME ShapeInv, Books, Armed, NEW s \in Slots, Stored(s)
  PROVE  Armed'
<1>0. PICK t, i, p, l :
         /\ t = tasks[s] /\ i = t.inst /\ l = NewLevels(t)
         /\ p = [net |-> t.result, named |-> PassesId(t) \/ positions[i].named]
  OBVIOUS
<1> USE <1>0
<1>1. t.pc = "store"
  BY DEF Stored
<1>2. /\ t \in Task /\ i \in Instruments /\ life = "up" /\ Free(s, i) /\ Booked(i)
      /\ LevelsFollow(i) /\ TaskLevels(t) /\ TaskBooks(t)
  BY <1>1, Holder, HolderLevels
<1>3. /\ life' = life /\ UNCHANGED <<executed, protection>>
      /\ rows' = [rows EXCEPT ![i] = Upsert(@, p, l)]
      /\ positions' = [positions EXCEPT ![i] = IF p.net = 0 THEN Flat ELSE p]
      /\ exitLevels' = [exitLevels EXCEPT ![i] = LevelsAfter(i, p, l)]
  BY DEF Stored, SetPosition, history
<1>4. p \in Pos /\ p.net = t.result /\ (positions[i].named => p.named)
  <2>1. t.result \in Int
    BY <1>2 DEF Task
  <2>2. (PassesId(t) \/ positions[i].named) \in BOOLEAN
    OBVIOUS
  <2>3. p \in Pos
    BY <2>1, <2>2, Zenon DEF Pos
  <2>4. p.net = t.result
    BY Zenon
  <2>5. p.named <=> (PassesId(t) \/ positions[i].named)
    BY Zenon
  <2> QED BY <2>3, <2>4, <2>5
<1> DEFINE o == IF t.outcome = "none" THEN "ok" ELSE t.outcome
           u == [t EXCEPT !.pc = "wrap", !.outcome = o]
<1>5. Become(s, u)
  BY <1>2 DEF Stored, Task
<1>6. u.pc = "wrap" /\ u.inst = i
  <2> HIDE DEF o
  <2> QED BY <1>2 DEF Task
<1> HIDE DEF u
<1>7. /\ positions \in [Instruments -> Pos]
      /\ rows \in [Instruments -> [{"named", "unnamed"} -> Row]]
      /\ exitLevels \in [Instruments -> {"none", "long", "short"}]
  BY DEF ShapeInv, TypeOK, Row, Pos
<1> DEFINE held == executed[i]
           old == positions[i].net
<1>8. /\ t.result = held /\ held \in Int /\ old \in Int
      /\ SameSide(old, held) /\ Toward(t.intent, held)
      /\ protection[i] = IF held = 0 THEN "none"
                         ELSE IF t.levels THEN Side(held) ELSE exitLevels[i]
  <2>1. t.result = executed[i]
    BY <1>1, <1>2 DEF TaskBooks
  <2>2. executed[i] \in Int /\ positions[i].net \in Int
    BY <1>2, <1>7 DEF ShapeInv, TypeOK, Pos
  <2> QED BY <1>1, <1>2, <2>1, <2>2 DEF TaskLevels
<1>9. /\ positions'[i] = IF p.net = 0 THEN Flat ELSE p
      /\ rows'[i] = Upsert(rows[i], p, l)
      /\ exitLevels'[i] = LevelsAfter(i, p, l)
  BY <1>2, <1>3, <1>7
<1> HIDE DEF held, old
<1>10. ASSUME held = 0 PROVE LevelsFollow(i)' /\ Watched(i)'
  <2>1. positions'[i].net = 0 /\ exitLevels'[i] = "none"
    BY <1>4, <1>8, <1>9, <1>10 DEF Flat, LevelsAfter
  <2> QED BY <1>3, <1>8, <1>10, <2>1 DEF LevelsFollow, Watched
<1>11. ASSUME held # 0 PROVE LevelsFollow(i)' /\ Watched(i)'
  <2>1. positions'[i] = p /\ p.net = held /\ Side(held) \in {"long", "short"}
    BY <1>4, <1>8, <1>9, <1>11 DEF Side
  <2>2. l = IF t.levels THEN Side(held) ELSE "none"
    <3>1. LevelSide(t) = Side(held)
      BY <1>8, <1>11 DEF LevelSide, Toward, Side
    <3> QED BY <3>1 DEF NewLevels
  <2>3. exitLevels'[i] = IF l # "none" THEN l ELSE exitLevels[i]
    BY <1>4, <1>8, <1>9, <1>11 DEF LevelsAfter
  <2>4. Watched(i)'
    BY <1>3, <1>8, <1>11, <2>1, <2>2, <2>3 DEF Watched
  <2>5. exitLevels[i] \in {"none", Side(held)} /\ (old = 0 => exitLevels[i] = "none")
    <3>1. exitLevels[i] \in {"none", Side(old)} /\ Side(0) = "none"
      BY <1>2 DEF LevelsFollow, old, Side
    <3> QED BY <1>8, <1>11, <3>1 DEF SameSide
  <2>6. exitLevels'[i] \in {"none", Side(held)}
    BY <2>2, <2>3, <2>5
  <2>7. rows'[i][Key(p)].levels = IF l # "none" THEN l
                                  ELSE IF old = 0 THEN "none"
                                  ELSE rows[i][Key(positions[i])].levels
    <3>1. RowFollows(rows[i], positions[i]) /\ SameSide(positions[i].net, p.net) /\ p.net # 0
      BY <1>2, <1>8, <1>11, <2>1 DEF Booked, old
    <3> QED BY <1>2, <1>4, <1>7, <1>9, <3>1, UpsertLevels DEF old
  <2>8. rows'[i][Key(p)].levels = exitLevels'[i]
    BY <1>2, <2>3, <2>5, <2>7 DEF LevelsFollow, old
  <2> QED BY <2>1, <2>4, <2>6, <2>8 DEF LevelsFollow
<1>12. TaskLevels(u)'
  BY <1>6, <1>10, <1>11 DEF TaskLevels, Watched
<1>13. \A j \in Instruments \ {i} : /\ positions'[j] = positions[j] /\ rows'[j] = rows[j]
                                    /\ exitLevels'[j] = exitLevels[j]
  BY <1>3, <1>7
<1>14. Holds(u)
  BY <1>6 DEF Holds
<1> QED BY <1>2, <1>3, <1>5, <1>6, <1>10, <1>11, <1>12, <1>13, <1>14, StepArmed

LEMMA DoneArmed ==
  ASSUME ShapeInv, PaperInv, Books, Books', Armed, mode = "paper", NEW s \in Slots,
         Decided(s) \/ ExitDone(s)
  PROVE  Armed'
<1>0. PICK t, i : t = tasks[s] /\ i = t.inst
  OBVIOUS
<1> USE <1>0
<1>1. t.pc = "wrap" /\ t.kind # "crash"
  BY DEF Decided, ExitDone, PaperInv
<1>2. /\ t \in Task /\ i \in Instruments /\ life = "up" /\ Free(s, i) /\ Booked(i)
      /\ LevelsFollow(i) /\ Watched(i) /\ TaskBooks(t)
  BY <1>1, Holder, HolderLevels DEF TaskLevels
<1>3. life' = life /\ UNCHANGED <<rows, executed, protection>>
  BY DEF Decided, ExitDone, database, history
<1>4. Become(s, IdleTask) /\ ~Holds(IdleTask)
  BY <1>1, <1>2, SteadyAfter, IdleHoldsNot DEF Decided, ExitDone, End
<1>5. positions' = positions
  BY <1>1, <1>2, DonePosition
<1>6. exitLevels' = exitLevels
  <2>1. CASE Decided(s)
    BY <2>1 DEF Decided
  <2>2. CASE ExitDone(s)
    <3>1. exitLevels' = [exitLevels EXCEPT ![i] = IF WentFlat(t) THEN "none" ELSE @]
      BY <2>2 DEF ExitDone
    <3>2. WentFlat(t) => exitLevels[i] = "none"
      <4>1. t.kind # "decide"
        BY <2>2 DEF ExitDone
      <4>2. WentFlat(t) => positions[i].net = 0
        BY <1>1, <1>2, <4>1 DEF WentFlat, TaskBooks
      <4>3. Side(0) = "none"
        BY DEF Side
      <4> QED BY <1>2, <4>2, <4>3 DEF LevelsFollow
    <3>3. exitLevels \in [Instruments -> {"none", "long", "short"}]
      BY DEF ShapeInv, TypeOK
    <3> QED BY <1>2, <3>1, <3>2, <3>3
  <2> QED BY <2>1, <2>2
<1>7. LevelsFollow(i)' /\ Watched(i)'
  BY <1>2, <1>3, <1>5, <1>6 DEF LevelsFollow, Watched
<1> QED BY <1>2, <1>3, <1>4, <1>5, <1>6, <1>7, StepArmed

(* The rows of an actor that nothing is under way of say what to watch. *)
LEMMA StopArmed ==
  ASSUME ShapeInv, PaperInv, Books, Armed, Forward, Forward', StopActor \/ ProcessDies
  PROVE  Armed'
<1>1. PICK k : Note(Torn) \/ Fault(k, Torn)
  BY DEF StopActor, ProcessDies
<1>2. Torn \cap LevelKinds = {}
  BY <1>1, ForwardNotes
<1>3. ~AtWork
  BY <1>2 DEF Torn, LevelKinds, Misread
<1>4. \A s \in Slots : tasks[s].pc = "idle"
  BY <1>3 DEF AtWork, PaperInv, Forward
<1>5. life' = "off" /\ UNCHANGED <<rows, protection>>
  BY DEF StopActor, ProcessDies, Halt, memory, database, history
<1>6. ASSUME NEW i \in Instruments PROVE LevelsKept(i)
  <2>1. CASE life = "up"
    <3>1. Booked(i) /\ LevelsFollow(i) /\ Watched(i)
      BY <1>4, <2>1 DEF Books, Armed, Untouched, Holds
    <3>2. CASE positions[i].net = 0
      <4>1. OpenRows(i) = {}
        BY <3>1, <3>2 DEF Booked, RowFollows, OpenRows, Key, Other
      <4>2. Side(0) = "none"
        BY DEF Side
      <4> QED BY <3>1, <3>2, <4>1, <4>2 DEF LevelsFollow, LevelsKept, Watched
    <3>3. CASE positions[i].net # 0
      <4>1. /\ OpenRows(i) = {Key(positions[i])}
            /\ rows[i][Key(positions[i])].net = positions[i].net
        BY <3>1, <3>3 DEF Booked, RowFollows, OpenRows, Key, Other
      <4> QED BY <3>1, <3>3, <4>1 DEF LevelsFollow, LevelsKept, Watched
    <3> QED BY <3>2, <3>3
  <2>2. CASE life # "up"
    BY <2>2 DEF Armed
  <2> QED BY <2>1, <2>2
<1>7. \A i \in Instruments : LevelsKept(i)'
  BY <1>5, <1>6 DEF LevelsKept, OpenRows
<1> QED BY <1>5, <1>7 DEF Armed

LEMMA StartActorArmed ==
  ASSUME ShapeInv, Armed, StartActor
  PROVE  Armed'
<1>1. /\ life = "off" /\ life' = "starting" /\ UNCHANGED <<rows, protection>>
      /\ exitLevels' = [i \in Instruments |-> "none"]
  BY DEF StartActor, database, history
<1>2. \A i \in Instruments : LevelsKept(i)' /\ exitLevels'[i] = "none"
  BY <1>1 DEF Armed, LevelsKept, OpenRows
<1> QED BY <1>1, <1>2 DEF Armed

LEMMA RecoverArmed ==
  ASSUME ShapeInv, Books, Armed, mode = "paper", Recover
  PROVE  Armed'
<1>1. life = "starting" /\ life' = "up" /\ UNCHANGED <<tasks, rows, protection>>
  BY DEF Recover, StartReconciler, database, history
<1>2. PICK c \in RowChoices : Rehydrate(c)
  BY DEF Recover
<1>3. \A s \in Slots : ~Holds(tasks[s])
  BY <1>1 DEF Books, Holds
<1>4. ASSUME NEW i \in Instruments PROVE LevelsFollow(i)' /\ Watched(i)'
  <2>1. Kept(i) /\ positions[i] = Flat /\ LevelsKept(i) /\ exitLevels[i] = "none"
    BY <1>1 DEF Books, Armed
  <2>2. c \in [Instruments -> {"none", "named", "unnamed"}]
        /\ IF OpenRows(i) = {} THEN c[i] = "none" ELSE c[i] \in OpenRows(i)
    BY DEF RowChoices
  <2>3. /\ positions'[i] = IF c[i] = "none" THEN positions[i]
                           ELSE [net |-> rows[i][c[i]].net, named |-> c[i] = "named"]
        /\ exitLevels'[i] = IF c[i] # "none" /\ rows[i][c[i]].levels # "none"
                            THEN rows[i][c[i]].levels ELSE exitLevels[i]
    BY <1>2 DEF Rehydrate, LevelsReadBack
  <2>4. CASE OpenRows(i) = {}
    <3>1. positions'[i] = Flat /\ exitLevels'[i] = "none" /\ protection[i] = "none"
      BY <2>1, <2>2, <2>3, <2>4 DEF LevelsKept
    <3> QED BY <1>1, <3>1 DEF LevelsFollow, Watched, Flat
  <2>5. CASE OpenRows(i) # {}
    <3>1. c[i] \in OpenRows(i) /\ c[i] \in {"named", "unnamed"}
      BY <2>2, <2>5 DEF OpenRows
    <3>2. /\ rows[i][c[i]].levels = protection[i]
          /\ protection[i] \in {"none", Side(rows[i][c[i]].net)}
      BY <2>1, <3>1 DEF LevelsKept
    <3>3. exitLevels'[i] = protection[i]
      BY <2>1, <2>3, <3>1, <3>2
    <3>4. Key(positions'[i]) = c[i] /\ positions'[i].net = rows[i][c[i]].net
      <4>1. PICK b \in BOOLEAN : b <=> c[i] = "named"
        OBVIOUS
      <4>2. positions'[i] = [net |-> rows[i][c[i]].net, named |-> b]
        BY <2>3, <3>1, <4>1
      <4> QED BY <3>1, <4>1, <4>2 DEF Key
    <3>5. exitLevels'[i] \in {"none", Side(positions'[i].net)}
      BY <3>2, <3>3, <3>4
    <3> QED BY <1>1, <3>2, <3>3, <3>4, <3>5 DEF LevelsFollow, Watched
  <2> QED BY <2>4, <2>5
<1> QED BY <1>1, <1>3, <1>4 DEF Armed

LEMMA InitArmed == Init => ArmedInv
  BY DEF Init, ArmedInv, Armed, LevelsKept, OpenRows, NoRow

LEMMA NextArmed ==
  ShapeInv /\ PaperInv /\ BooksInv /\ BooksInv' /\ ArmedInv /\ [Next]_vars => ArmedInv'
<1> SUFFICES ASSUME ShapeInv, PaperInv, BooksInv, BooksInv', ArmedInv, [Next]_vars, Forward'
    PROVE  Armed'
  BY DEF ArmedInv
<1>1. mode' = mode
  BY ModeFixed
<1>2. mode # "live" /\ mode = "paper"
  BY <1>1 DEF Forward
<1>3. Books'
  BY ForwardIsClean DEF BooksInv, Forward, Clean, Excused, LevelKinds
<1>4. ASSUME NEW S, NEW k, Note(S) \/ Fault(k, S) \/ happened' = happened
      PROVE  Forward /\ Clean /\ Books /\ Armed
  BY <1>1, <1>4, ForwardBefore, ForwardIsClean DEF BooksInv, ArmedInv
<1>5. CASE \E s \in Slots : \/ WriteFails(s) \/ ExecuteLive(s) \/ VenueRefuses(s)
                            \/ ExecutionTimesOut(s)
  <2>1. PICK s \in Slots : WriteFails(s)
    BY <1>2, <1>5, LiveOnlyPaper
  <2>2. {"write"} \cap LevelKinds = {}
    BY <2>1, ForwardNotes DEF WriteFails
  <2> QED BY <2>2 DEF LevelKinds, Misread
<1>6. CASE \E s \in Slots : MutationFails(s) \/ StreamCloses(s) \/ CrashNext(s) \/ CrashEnds(s)
  BY <1>2, <1>6, LiveOnlyPaper
<1>7. CASE TakeFill \/ FillRecorded \/ TakePosition \/ RowUpdated \/ StreamDrops
  BY <1>2, <1>7, LiveStreamPaper
<1>8. CASE RehydrationFails
  <2>1. {"untold"} \cap LevelKinds = {}
    BY <1>8, ForwardNotes DEF RehydrationFails
  <2> QED BY <2>1 DEF LevelKinds, Misread
<1>9. CASE \E s \in Slots : \/ ContextReady(s) \/ NoContext(s) \/ CheckRisk(s) \/ OtherLimit(s)
                            \/ ExecutePaper(s) \/ FillStored(s) \/ Stored(s)
                            \/ Decided(s) \/ ExitDone(s)
  <2>1. PICK S, k : Note(S) \/ Fault(k, S) \/ happened' = happened
    BY <1>9 DEF ContextReady, NoContext, CheckRisk, OtherLimit, ExecutePaper, FillStored,
                Stored, Decided, ExitDone
  <2>2. Forward /\ Books /\ Armed
    BY <1>4, <2>1
  <2> QED BY <1>1, <1>2, <1>3, <1>9, <2>2, ContextArmed, NoContextArmed, RiskArmed, PaperArmed,
             FillArmed, StoredArmed, DoneArmed
<1>10. CASE \E s \in Slots, i \in Instruments :
             Submit(s, i) \/ StopLossAtIntake(s, i) \/ MonitorLevels(s, i) \/ ScanExit(s, i)
  <2>1. PICK S, k : Note(S) \/ Fault(k, S) \/ happened' = happened
    BY <1>10 DEF Submit, StopLossAtIntake, MonitorLevels, ScanExit, StartExit
  <2> QED BY <1>1, <1>4, <1>10, <2>1, StartArmed
<1>11. CASE StopActor \/ ProcessDies \/ StartActor \/ Recover
  <2>1. PICK S, k : Note(S) \/ Fault(k, S) \/ happened' = happened
    BY <1>11 DEF StopActor, ProcessDies, StartActor, Recover
  <2>2. Forward /\ Books /\ Armed
    BY <1>4, <2>1
  <2> QED BY <1>2, <1>11, <2>2, StopArmed, StartActorArmed, RecoverArmed
<1>12. CASE StreamReconnects \/ UNCHANGED vars
  <2>1. UNCHANGED <<mode, life, tasks, positions, rows, executed, exitLevels, protection, happened>>
    BY <1>12 DEF StreamReconnects, vars, memory, database, history
  <2>2. Armed
    BY <1>4, <2>1
  <2> QED BY <2>1, <2>2 DEF Armed, LevelsFollow, LevelsKept, OpenRows, Untouched, Watched, TaskLevels
<1> QED BY <1>5, <1>6, <1>7, <1>8, <1>9, <1>10, <1>11, <1>12 DEF Next, Pipeline

(* In paper mode the levels an executed decision carried are the ones that *)
(* are monitored, until the position is closed and across restarts, unless *)
(* a reversal (which keeps those of the other side) was executed.           *)
THEOREM PaperLevelsAreArmed == Spec => [](mode = "paper" => LevelsArmed)
<1>1. ArmedInv /\ BooksInv => (mode = "paper" => LevelsArmed)
  BY DEF ArmedInv, Forward, Armed, LevelKinds, LevelsArmed, AtRest, Untouched, Watched
<1>2. ShapeInv /\ PaperInv /\ BooksInv /\ BooksInv' /\ ArmedInv /\ [Next]_vars => ArmedInv'
  BY NextArmed
<1> QED BY <1>1, <1>2, InitArmed, PaperBooksKept, PTL DEF Spec

-----------------------------------------------------------------------------
(* Live mode: the queue of the stream is a ledger.  Read from its head, it  *)
(* leads from what is recorded to what was executed: a fill moves the       *)
(* balance of its instrument, a position message states it.                 *)
Balances == [Instruments -> Int]

Posts(a, m, b) ==
    IF m.kind = "fill" THEN b = [a EXCEPT ![m.inst] = @ + m.qty]
    ELSE a[m.inst] = m.qty /\ b = a

NoneLeft(q, k, i) == \A n \in k..Len(q) : q[n].inst # i

Ledger(a, q, b) ==
    \E f \in [1..(Len(q) + 1) -> Balances] :
        /\ f[1] = a /\ f[Len(q) + 1] = b
        /\ \A n \in 1..Len(q) : Posts(f[n], q[n], f[n + 1])
        /\ \A k \in 1..(Len(q) + 1), i \in Instruments :
               NoneLeft(q, k, i) => f[k][i] = b[i]

LEMMA LedgerEmpty ==
  ASSUME NEW a \in Balances, NEW b
  PROVE  Ledger(a, <<>>, b) <=> a = b
<1>1. Len(<<>>) = 0 /\ 1..(0 + 1) = {1} /\ 1..0 = {}
  OBVIOUS
<1>2. ASSUME Ledger(a, <<>>, b) PROVE a = b
  BY <1>1, <1>2 DEF Ledger
<1>3. ASSUME a = b PROVE Ledger(a, <<>>, b)
  <2> DEFINE f == [n \in 1..(Len(<<>>) + 1) |-> a]
  <2>1. f \in [1..(Len(<<>>) + 1) -> Balances] /\ f[1] = a /\ f[Len(<<>>) + 1] = b
    BY <1>1, <1>3
  <2>2. \A k \in 1..(Len(<<>>) + 1) : f[k] = b
    BY <1>1, <1>3
  <2> HIDE DEF f
  <2> QED BY <1>1, <2>1, <2>2 DEF Ledger
<1> QED BY <1>2, <1>3

LEMMA LedgerHead ==
  ASSUME NEW a \in Balances, NEW b, NEW q \in Seq(Message), q # <<>>, Ledger(a, q, b)
  PROVE  \E c \in Balances : Posts(a, Head(q), c) /\ Ledger(c, Tail(q), b)
<1>1. PICK f \in [1..(Len(q) + 1) -> Balances] :
          /\ f[1] = a /\ f[Len(q) + 1] = b
          /\ \A n \in 1..Len(q) : Posts(f[n], q[n], f[n + 1])
          /\ \A k \in 1..(Len(q) + 1), i \in Instruments :
                 NoneLeft(q, k, i) => f[k][i] = b[i]
  BY DEF Ledger
<1>2. Len(q) \in Nat \ {0} /\ Head(q) = q[1]
  BY EmptySeq, LenProperties
<1> DEFINE r == Tail(q)
<1>3. r \in Seq(Message) /\ Len(r) = Len(q) - 1 /\ \A n \in 1..Len(r) : r[n] = q[n + 1]
  BY HeadTailProperties
<1> HIDE DEF r
<1> DEFINE g == [n \in 1..(Len(r) + 1) |-> f[n + 1]]
<1>4. \A n \in 1..(Len(r) + 1) : n + 1 \in 1..(Len(q) + 1)
  BY <1>2, <1>3
<1>5. g \in [1..(Len(r) + 1) -> Balances]
  BY <1>4
<1>6. \A n \in 1..(Len(r) + 1) : g[n] = f[n + 1]
  OBVIOUS
<1> HIDE DEF g
<1>7. g[1] = f[2] /\ g[Len(r) + 1] = b /\ f[2] \in Balances
  BY <1>1, <1>2, <1>3, <1>6
<1>8. ASSUME NEW n \in 1..Len(r) PROVE Posts(g[n], r[n], g[n + 1])
  <2>1. n + 1 \in 1..Len(q) /\ n \in 1..(Len(r) + 1) /\ n + 1 \in 1..(Len(r) + 1)
    BY <1>2, <1>3
  <2>2. g[n] = f[n + 1] /\ g[n + 1] = f[(n + 1) + 1] /\ r[n] = q[n + 1]
    BY <1>3, <1>6, <2>1
  <2> QED BY <1>1, <2>1, <2>2
<1>9. ASSUME NEW k \in 1..(Len(r) + 1), NEW i \in Instruments, NoneLeft(r, k, i)
      PROVE  g[k][i] = b[i]
  <2>1. NoneLeft(q, k + 1, i)
    <3> SUFFICES ASSUME NEW n \in (k + 1)..Len(q) PROVE q[n].inst # i
      BY DEF NoneLeft
    <3>1. n - 1 \in k..Len(r) /\ n - 1 \in 1..Len(r) /\ (n - 1) + 1 = n
      BY <1>2, <1>3
    <3>2. r[n - 1] = q[(n - 1) + 1]
      BY <1>3, <3>1
    <3> QED BY <1>9, <3>1, <3>2 DEF NoneLeft
  <2> QED BY <1>1, <1>4, <1>6, <2>1
<1>10. Ledger(f[2], r, b)
  BY <1>5, <1>7, <1>8, <1>9 DEF Ledger
<1>11. Posts(a, Head(q), f[2])
  <2>1. 1 \in 1..Len(q) /\ 1 + 1 = 2
    BY <1>2
  <2> QED BY <1>1, <1>2, <2>1
<1> QED BY <1>7, <1>10, <1>11 DEF r

LEMMA LedgerAppend ==
  ASSUME NEW a, NEW b \in Balances, NEW c \in Balances, NEW q \in Seq(Message),
         NEW m \in Message, Ledger(a, q, b), Posts(b, m, c)
  PROVE  Ledger(a, Append(q, m), c)
<1>1. PICK f \in [1..(Len(q) + 1) -> Balances] :
          /\ f[1] = a /\ f[Len(q) + 1] = b
          /\ \A n \in 1..Len(q) : Posts(f[n], q[n], f[n + 1])
          /\ \A k \in 1..(Len(q) + 1), i \in Instruments :
                 NoneLeft(q, k, i) => f[k][i] = b[i]
  BY DEF Ledger
<1>2. Len(q) \in Nat
  BY LenProperties
<1> DEFINE r == Append(q, m)
<1>3. /\ Len(r) = Len(q) + 1 /\ r[Len(q) + 1] = m
      /\ \A n \in 1..Len(q) : r[n] = q[n]
  BY AppendProperties
<1> HIDE DEF r
<1> DEFINE g == [n \in 1..(Len(r) + 1) |-> IF n <= Len(q) + 1 THEN f[n] ELSE c]
<1>4. g \in [1..(Len(r) + 1) -> Balances]
  BY <1>2, <1>3
<1>5. /\ \A n \in 1..(Len(q) + 1) : n \in 1..(Len(r) + 1) /\ g[n] = f[n]
      /\ g[Len(r) + 1] = c
  BY <1>2, <1>3
<1> HIDE DEF g
<1>6. g[1] = a
  BY <1>1, <1>2, <1>5
<1>7. ASSUME NEW n \in 1..Len(r) PROVE Posts(g[n], r[n], g[n + 1])
  <2>1. CASE n \in 1..Len(q)
    <3>1. n \in 1..(Len(q) + 1) /\ n + 1 \in 1..(Len(q) + 1)
      BY <1>2, <2>1
    <3>2. g[n] = f[n] /\ g[n + 1] = f[n + 1] /\ r[n] = q[n]
      BY <1>3, <1>5, <2>1, <3>1
    <3> QED BY <1>1, <2>1, <3>2
  <2>2. CASE n = Len(q) + 1
    <3>1. g[n] = b /\ r[n] = m /\ g[n + 1] = c
      BY <1>1, <1>2, <1>3, <1>5, <2>2
    <3> QED BY <3>1
  <2> QED BY <1>2, <1>3, <2>1, <2>2
<1>8. ASSUME NEW k \in 1..(Len(r) + 1), NEW i \in Instruments, NoneLeft(r, k, i)
      PROVE  g[k][i] = c[i]
  <2>1. CASE k \in 1..(Len(q) + 1)
    <3>1. NoneLeft(q, k, i)
      <4> SUFFICES ASSUME NEW n \in k..Len(q) PROVE q[n].inst # i
        BY DEF NoneLeft
      <4>1. n \in k..Len(r) /\ n \in 1..Len(q)
        BY <1>2, <1>3, <2>1
      <4> QED BY <1>3, <1>8, <4>1 DEF NoneLeft
    <3>2. m.inst # i
      <4>1. Len(q) + 1 \in k..Len(r)
        BY <1>2, <1>3, <2>1
      <4> QED BY <1>3, <1>8, <4>1 DEF NoneLeft
    <3>3. c[i] = b[i]
      BY <3>2 DEF Posts, Balances
    <3> QED BY <1>1, <1>5, <2>1, <3>1, <3>3
  <2>2. CASE k = Len(r) + 1
    BY <1>5, <2>2
  <2> QED BY <1>2, <1>3, <2>1, <2>2
<1>9. Ledger(a, r, c)
  BY <1>4, <1>5, <1>6, <1>7, <1>8 DEF Ledger
<1> QED BY <1>9 DEF r

(* An instrument the queue says nothing of is settled. *)
LEMMA LedgerSettled ==
  ASSUME NEW a, NEW b, NEW q \in Seq(Message), Ledger(a, q, b), NEW i \in Instruments,
         \A n \in DOMAIN q : q[n].inst # i
  PROVE  a[i] = b[i]
<1>1. Len(q) \in Nat /\ DOMAIN q = 1..Len(q)
  BY LenProperties
<1>2. NoneLeft(q, 1, i) /\ 1 \in 1..(Len(q) + 1)
  BY <1>1 DEF NoneLeft
<1> QED BY <1>2 DEF Ledger

(* As long as nothing is noted that misleads the actor, the map says what   *)
(* is recorded, an activity that holds its instrument has seen that         *)
(* position, and a row says it too, but for the one about to be updated.    *)
Owes(i) == IF mutation.pc = "insert" /\ mutation.inst = i THEN mutation.qty ELSE 0
Recorded == [i \in Instruments |-> filled[i] + Owes(i)]
Updating(i) == mutation.pc = "upsert" /\ mutation.inst = i
Knows(t) ==
    IF t.pc = "context" THEN t.pos.net = positions[t.inst].net
    ELSE t.pc # "fill" /\ t.result = positions[t.inst].net
InMemory == life = "up" \/ (life = "off" /\ \E s \in Slots : tasks[s].pc # "idle")
RowKnown(i) == Updating(i) \/ \E k \in {"named", "unnamed"} : rows[i][k].net = filled[i]

LiveBooks ==
    /\ Ledger(Recorded, queue, executed)
    /\ life # "up" => queue = <<>> /\ mutation.pc = "idle"
    /\ life = "starting" => /\ \A s \in Slots : tasks[s].pc = "idle"
                            /\ \A i \in Instruments : positions[i] = Flat
    /\ InMemory => \A i \in Instruments : positions[i].net = filled[i]
    /\ \A s \in Slots : Holds(tasks[s]) => Knows(tasks[s])
    /\ \A i \in Instruments : RowKnown(i)
    /\ mutation.pc = "insert" =>
           mutation.pos.net = positions[mutation.inst].net + mutation.qty
    /\ mutation.pc = "upsert" => mutation.pos.net = positions[mutation.inst].net

LiveClean == mode = "live" /\ ~Excused(Misread)
LiveInv == LiveClean => LiveBooks

LEMMA LiveBefore ==
  ASSUME ShapeInv, NEW S, NEW k, Note(S) \/ Fault(k, S) \/ happened' = happened,
         mode' = mode, LiveClean'
  PROVE  LiveClean
<1>1. Excused(Misread) => Excused(Misread)'
  BY ExcuseLasts, MisreadLasts
<1> QED BY <1>1 DEF LiveClean

LEMMA LiveNotes ==
  ASSUME ShapeInv, NEW S, NEW k, Note(S) \/ Fault(k, S), LiveClean'
  PROVE  S \cap Misread = {}
<1> SUFFICES ASSUME NEW x \in S, x \in Misread PROVE FALSE
  OBVIOUS
<1>1. Excused(Misread)'
  BY ExcuseComes, MisreadLasts
<1> QED BY <1>1 DEF LiveClean

LEMMA RecordedType == ASSUME ShapeInv PROVE Recorded \in Balances /\ executed \in Balances
<1>1. filled \in [Instruments -> Int] /\ executed \in [Instruments -> Int] /\ mutation.qty \in Int
  BY DEF ShapeInv, TypeOK
<1>2. \A i \in Instruments : filled[i] + Owes(i) \in Int
  BY <1>1 DEF Owes
<1> QED BY <1>1, <1>2 DEF Recorded, Balances

LEMMA HolderWorks ==
  ASSUME ShapeInv, NEW s \in Slots, Holds(tasks[s])
  PROVE  tasks[s] \in Task /\ tasks[s].inst \in Instruments /\ tasks[s].pc # "idle"
<1>1. Working(tasks[s])
  BY DEF Holds, Working
<1> QED BY <1>1 DEF ShapeInv, TaskOK, Working

(* A step of one activity that moves no balance. *)
LEMMA TaskLive ==
  ASSUME ShapeInv, LiveBooks, InMemory, NEW s \in Slots, NEW u, Become(s, u),
         life' = life, UNCHANGED <<mutation, filled>>, life # "up" => queue' = queue,
         Ledger(Recorded, queue, executed)',
         \A i \in Instruments : positions'[i].net = positions[i].net,
         \A i \in Instruments : RowKnown(i)', Holds(u) => Knows(u)'
  PROVE  LiveBooks'
<1>1. tasks'[s] = u /\ \A r \in Slots \ {s} : tasks'[r] = tasks[r]
  BY DEF ShapeInv, TypeOK, Become
<1>2. life # "starting"
  BY DEF InMemory
<1>3. \A i \in Instruments : positions[i].net = filled[i]
  BY DEF LiveBooks
<1>4. ASSUME NEW r \in Slots, Holds(tasks'[r]) PROVE Knows(tasks[r])'
  <2>1. CASE r = s
    BY <1>1, <1>4, <2>1
  <2>2. CASE r # s
    <3>1. tasks'[r] = tasks[r] /\ Holds(tasks[r])
      BY <1>1, <1>4, <2>2
    <3>2. Knows(tasks[r]) /\ tasks[r].inst \in Instruments
      BY <3>1, HolderWorks DEF LiveBooks
    <3> QED BY <3>1, <3>2 DEF Knows
  <2> QED BY <2>1, <2>2
<1>5. mutation.pc # "idle" => mutation.inst \in Instruments
  BY DEF ShapeInv
<1> QED BY <1>2, <1>3, <1>4, <1>5 DEF LiveBooks

(* ... nor any row. *)
LEMMA QuietLive ==
  ASSUME ShapeInv, LiveBooks, InMemory, NEW s \in Slots, NEW u, Become(s, u),
         life' = life, UNCHANGED <<queue, mutation, filled, executed, rows>>,
         \A i \in Instruments : positions'[i].net = positions[i].net,
         Holds(u) => Knows(u)'
  PROVE  LiveBooks'
<1>1. Ledger(Recorded, queue, executed)'
  BY DEF LiveBooks, Ledger, Recorded, Owes
<1>2. \A i \in Instruments : RowKnown(i)'
  BY DEF LiveBooks, RowKnown, Updating
<1> QED BY <1>1, <1>2, TaskLive

LEMMA StartLive ==
  ASSUME ShapeInv, LiveBooks, LiveClean', NEW s \in Slots, NEW i \in Instruments,
         Submit(s, i) \/ StopLossAtIntake(s, i) \/ MonitorLevels(s, i) \/ ScanExit(s, i)
  PROVE  LiveBooks'
<1>1. PICK u : Become(s, u) /\ ~Holds(u)
  BY StartHoldsNot
<1>2. life' = life /\ UNCHANGED <<positions, rows, filled, executed, queue, mutation>>
  BY DEF Submit, StopLossAtIntake, MonitorLevels, ScanExit, StartExit, memory, database, stream
<1>3. life = "up"
  <2>1. CASE Submit(s, i)
    <3>1. life \in {"starting", "up"}
      BY <2>1 DEF Submit, IntakeOpen, Running, ShapeInv, TypeOK
    <3>2. CASE life = "starting"
      <4>1. Note({"early"})
        BY <2>1, <3>2 DEF Submit
      <4>2. {"early"} \cap Misread = {}
        BY <4>1, LiveNotes
      <4> QED BY <4>2 DEF Misread
    <3> QED BY <3>1, <3>2
  <2>2. CASE ~Submit(s, i)
    BY <2>2 DEF StopLossAtIntake, MonitorLevels, ScanExit
  <2> QED BY <2>1, <2>2
<1> QED BY <1>1, <1>2, <1>3, QuietLive DEF InMemory

(* An activity that is under way finds the map in memory. *)
LEMMA AtWorkLive ==
  ASSUME ShapeInv, LiveBooks, NEW s \in Slots, tasks[s].pc # "idle"
  PROVE  InMemory /\ life # "starting"
  BY DEF LiveBooks, InMemory, ShapeInv, TypeOK

LEMMA CrashStartsLive ==
  ASSUME ShapeInv, LiveBooks, NEW s \in Slots, StreamCloses(s)
  PROVE  LiveBooks'
<1>1. PICK todo : Become(s, [IdleTask EXCEPT !.pc = "next", !.kind = "crash", !.todo = todo])
  BY DEF StreamCloses, Crash, Begin
<1> DEFINE u == [IdleTask EXCEPT !.pc = "next", !.kind = "crash", !.todo = todo]
<1>2. ~Holds(u)
  BY DEF Holds, IdleTask
<1>3. life = "up" /\ life' = life
      /\ UNCHANGED <<positions, rows, filled, executed, queue, mutation>>
  BY DEF StreamCloses, memory, database, stream
<1> HIDE DEF u
<1> QED BY <1>1, <1>2, <1>3, QuietLive DEF InMemory, u

LEMMA CrashNextLive ==
  ASSUME ShapeInv, LiveBooks, NEW s \in Slots, CrashNext(s)
  PROVE  LiveBooks'
<1>0. PICK t : t = tasks[s]
  OBVIOUS
<1> USE <1>0
<1>1. t \in Task /\ t.pc = "next" /\ InMemory
  BY AtWorkLive DEF CrashNext, ShapeInv, TypeOK
<1>2. life' = life /\ UNCHANGED <<positions, rows, filled, executed, queue, mutation>>
  BY DEF CrashNext, memory, database, stream
<1>3. PICK i, v, w :
          /\ v = [t EXCEPT !.todo = t.todo \ {i}]
          /\ w = [v EXCEPT !.pc = "context", !.inst = i, !.pos = positions[i]]
          /\ Become(s, v) \/ Become(s, w)
  BY DEF CrashNext
<1>4. v \in Task /\ v.pc = "next"
  <2>1. t.todo \ {i} \in SUBSET Instruments
    BY <1>1 DEF Task
  <2>2. v \in Task
    BY <1>1, <1>3, <2>1, ZenonT(60) DEF Task
  <2> QED BY <1>1, <1>3, <2>2 DEF Task
<1>5. w.pc = "context" /\ w.inst = i /\ w.pos = positions[i]
  BY <1>3, <1>4 DEF Task
<1>6. Holds(w) => Knows(w)'
  BY <1>2, <1>5 DEF Knows
<1>7. \A j \in Instruments : positions'[j].net = positions[j].net
  BY <1>2
<1>8. CASE Become(s, v)
  <2>1. ~Holds(v)
    BY <1>4 DEF Holds
  <2> QED BY <1>1, <1>2, <1>7, <1>8, <2>1, QuietLive
<1>9. CASE Become(s, w)
  BY <1>1, <1>2, <1>6, <1>7, <1>9, QuietLive
<1> QED BY <1>3, <1>8, <1>9

LEMMA AppendAfter ==
  ASSUME NEW p \in Seq(Message), NEW q \in Seq(Message), NEW m \in Message
  PROVE  p \o Append(q, m) = Append(p \o q, m)
<1>1. <<m>> \in Seq(Message) /\ p \o q \in Seq(Message)
  OBVIOUS
<1>2. Append(q, m) = q \o <<m>> /\ Append(p \o q, m) = (p \o q) \o <<m>>
  BY <1>1, AppendIsConcat
<1>3. p \o (q \o <<m>>) = (p \o q) \o <<m>>
  BY <1>1, ConcatAssociative
<1> QED BY <1>2, <1>3

(* What the venue reports of an execution, if it reports all of it and a    *)
(* fill first, carries the ledger on to what is then held.                  *)
LEMMA LedgerReports ==
  ASSUME ShapeInv, NEW s \in Slots, NEW t, t = tasks[s], t.pc = "execute",
         NEW a, Ledger(a, queue, executed), NEW q \in Reports(t), ReportRaces(q) = {},
         executed' = [executed EXCEPT ![t.inst] = @ + Total(t.orders)]
  PROVE  Ledger(a, queue \o q, executed')
<1>0. PICK i, o, b, c, p, sum :
          /\ i = t.inst /\ o = t.orders /\ b = executed /\ p = queue /\ c = executed'
          /\ sum = Total(o)
  OBVIOUS
<1>1. /\ i \in Instruments /\ o \in Seq(Int) /\ o # <<>> /\ Len(o) <= 2
      /\ sum \in Int
  BY <1>0, AtHand, TotalType
<1>2. /\ b \in Balances /\ c \in Balances /\ p \in Seq(Message) /\ c[i] = b[i] + sum
      /\ c = [b EXCEPT ![i] = @ + sum]
  <2>1. b \in Balances /\ p \in Seq(Message)
    BY <1>0, RecordedType DEF ShapeInv, TypeOK, Message
  <2>2. c = [b EXCEPT ![i] = @ + sum]
    BY <1>0
  <2>3. b[i] + sum \in Int
    BY <1>1, <2>1 DEF Balances
  <2>4. c \in Balances
    BY <1>1, <2>1, <2>2, <2>3 DEF Balances
  <2>5. c[i] = b[i] + sum
    BY <1>1, <2>1, <2>2 DEF Balances
  <2> QED BY <2>1, <2>2, <2>4, <2>5
<1> DEFINE fill(d) == [kind |-> "fill", inst |-> i, qty |-> d]
           now == [kind |-> "position", inst |-> i, qty |-> c[i]]
           fills == [n \in DOMAIN o |-> fill(o[n])]
<1>3. now \in Message /\ \A d \in Int : fill(d) \in Message
  BY <1>1, <1>2 DEF Message, Balances
<1>4. o \in [1..Len(o) -> Int] /\ Len(o) \in 1..2 /\ DOMAIN o = 1..Len(o)
  <2>1. o \in [1..Len(o) -> Int] /\ Len(o) \in Nat /\ DOMAIN o = 1..Len(o)
    BY <1>1, LenProperties
  <2>2. Len(o) # 0
    BY <1>1, EmptySeq
  <2> QED BY <1>1, <2>1, <2>2
<1>5. fills \in Seq(Message) /\ fills # <<>> /\ Len(fills) = Len(o)
      /\ \A n \in 1..Len(o) : fills[n] = fill(o[n])
  <2>1. fills \in [1..Len(o) -> Message]
    BY <1>3, <1>4
  <2>2. Len(fills) = Len(o) /\ fills \in Seq(Message)
    BY <1>4, <2>1
  <2>3. \A n \in 1..Len(o) : fills[n] = fill(o[n])
    BY <1>4
  <2> QED BY <1>4, <2>2, <2>3, EmptySeq
<1>6. q \in {<<>>, fills, Append(fills, now), <<now>> \o fills}
  <2>1. executed[t.inst] + Total(t.orders) = c[i]
    BY <1>0, <1>2
  <2> QED BY <1>0, <2>1 DEF Reports
<1>7. now.kind = "position"
  OBVIOUS
<1> HIDE DEF now, fills
<1>8. q = fills \/ q = Append(fills, now)
  <2>1. Head(<<now>> \o fills) = now
    <3>1. <<now>> \in Seq(Message) /\ Len(<<now>>) = 1 /\ <<now>>[1] = now
      BY <1>3
    <3>2. <<now>> \o fills \in Seq(Message) /\ (<<now>> \o fills)[1] = now
      BY <1>5, <3>1, ConcatProperties
    <3> QED BY <3>2 
  <2>2. q # <<>> /\ Head(q).kind # "position"
    BY DEF ReportRaces
  <2> QED BY <1>6, <1>7, <2>1, <2>2
<1>9. Ledger(a, p \o fills, c)
  <2> DEFINE b1 == [b EXCEPT ![i] = @ + o[1]]
             p1 == Append(p, fill(o[1]))
  <2>1. o[1] \in Int /\ fills[1] = fill(o[1]) /\ fill(o[1]) \in Message
    BY <1>3, <1>4, <1>5
  <2>2. b1 \in Balances /\ b1[i] = b[i] + o[1] /\ Posts(b, fill(o[1]), b1)
    BY <1>1, <1>2, <2>1 DEF Balances, Posts
  <2>3. p1 \in Seq(Message) /\ Ledger(a, p1, b1)
    BY <1>0, <1>2, <2>1, <2>2, LedgerAppend
  <2>4. <<fill(o[1])>> \in Seq(Message) /\ p \o <<fill(o[1])>> = p1
    BY <1>2, <2>1, AppendIsConcat
  <2>5. CASE Len(o) = 1
    <3>1. sum = o[1] /\ c = b1
      BY <1>0, <1>1, <1>2, <2>5 DEF Total
    <3>2. fills = <<fill(o[1])>>
      BY <1>5, <2>1, <2>5
    <3> QED BY <2>3, <2>4, <3>1, <3>2
  <2>6. CASE Len(o) = 2
    <3>1. o[2] \in Int /\ fills[2] = fill(o[2]) /\ fill(o[2]) \in Message
      BY <1>3, <1>4, <1>5, <2>6
    <3>2. sum = o[1] + o[2]
      BY <1>0, <1>1, <2>6 DEF Total
    <3>3. c = [b1 EXCEPT ![i] = @ + o[2]]
      <4>1. b[i] + sum = (b[i] + o[1]) + o[2]
        BY <1>1, <1>2, <2>1, <3>1, <3>2 DEF Balances
      <4> QED BY <1>1, <1>2, <2>2, <4>1 DEF Balances
    <3>4. Posts(b1, fill(o[2]), c)
      BY <3>3 DEF Posts
    <3> HIDE DEF b1, p1
    <3>5. Ledger(a, Append(p1, fill(o[2])), c)
      BY <1>2, <2>2, <2>3, <3>1, <3>4, LedgerAppend
    <3>6. fills = Append(<<fill(o[1])>>, fill(o[2]))
      <4> DEFINE r == Append(<<fill(o[1])>>, fill(o[2]))
      <4>1. r \in Seq(Message) /\ Len(r) = 2 /\ r[1] = fill(o[1]) /\ r[2] = fill(o[2])
        BY <2>4, <3>1
      <4> HIDE DEF r, fill
      <4>2. \A n \in 1..2 : fills[n] = r[n]
        BY <2>1, <3>1, <4>1
      <4> QED BY <1>5, <2>6, <4>1, <4>2, SeqEqual DEF r
    <3>7. p \o fills = Append(p1, fill(o[2]))
      BY <1>2, <2>4, <3>1, <3>6, AppendAfter
    <3> QED BY <3>5, <3>7
  <2> QED BY <1>4, <2>5, <2>6
<1>10. Ledger(a, p \o Append(fills, now), c)
  <2>1. Posts(c, now, c)
    BY DEF Posts, now
  <2>2. p \o fills \in Seq(Message)
    BY <1>2, <1>5
  <2>3. Ledger(a, Append(p \o fills, now), c)
    BY <1>2, <1>3, <1>9, <2>1, <2>2, LedgerAppend
  <2> QED BY <1>2, <1>3, <1>5, <2>3, AppendAfter
<1> QED BY <1>0, <1>8, <1>9, <1>10

LEMMA AfterHoldsNot == ASSUME NEW t PROVE ~Holds(After(t))
  BY DEF After, Holds, IdleTask

(* An activity that ends without a word. *)
LEMMA EndLive ==
  ASSUME ShapeInv, LiveBooks, NEW s \in Slots, NoContext(s) \/ Decided(s)
  PROVE  LiveBooks'
<1>1. tasks[s].pc # "idle" /\ life' = life /\ Become(s, After(tasks[s]))
      /\ UNCHANGED <<positions, rows, filled, executed, queue, mutation>>
  BY DEF NoContext, Decided, End, database, stream
<1>2. PICK u : u = After(tasks[s])
  OBVIOUS
<1>3. ~Holds(u) /\ \A i \in Instruments : positions'[i].net = positions[i].net
  BY <1>1, <1>2, AfterHoldsNot
<1> QED BY <1>1, <1>2, <1>3, AtWorkLive, QuietLive

LEMMA ContextLive ==
  ASSUME ShapeInv, LiveBooks, NEW s \in Slots, ContextReady(s)
  PROVE  LiveBooks'
<1>0. PICK t, i, pos : t = tasks[s] /\ i = t.inst /\ pos = IF t.kind = "crash" THEN t.pos ELSE positions[i]
  OBVIOUS
<1>1. t \in Task /\ i \in Instruments /\ t.pc = "context" /\ InMemory
  BY <1>0, AtWorkLive DEF ShapeInv, TypeOK, TaskOK, ContextReady, Working
<1>2. life' = life /\ UNCHANGED <<positions, rows, filled, executed, queue, mutation>>
  BY DEF ContextReady, database, stream
<1>3. \A j \in Instruments : positions'[j].net = positions[j].net
  BY <1>2
<1>4. pos.net = positions[i].net
  <2>1. t.kind = "crash" => Holds(tasks[s])
    BY <1>0, <1>1 DEF Holds
  <2>2. t.kind = "crash" => Knows(tasks[s])
    BY <2>1 DEF LiveBooks
  <2> QED BY <1>0, <1>1, <2>2 DEF Knows
<1>5. CASE End(s)
  <2>1. Become(s, After(t)) /\ ~Holds(After(t))
    BY <1>0, <1>5, AfterHoldsNot DEF End
  <2> QED BY <1>1, <1>2, <1>3, <2>1, QuietLive
<1>6. CASE ~End(s)
  <2> DEFINE orders == PlanDecision(t.intent, t.size, pos.net)
             p == IF orders = <<>> THEN "wrap" ELSE "risk"
             o == IF orders = <<>> THEN "noop" ELSE "none"
             u == [t EXCEPT !.pc = p, !.pos = pos, !.result = pos.net,
                            !.orders = orders, !.outcome = o]
  <2>1. Become(s, u)
    BY <1>0, <1>6 DEF ContextReady
  <2>2. u.pc = p /\ u.inst = i /\ u.result = pos.net
    <3> HIDE DEF p, orders, o
    <3> QED BY <1>0, <1>1 DEF Task
  <2>3. u.pc \in {"risk", "wrap"}
    BY <2>2
  <2> HIDE DEF u
  <2>4. Knows(u)'
    BY <1>2, <1>4, <2>2, <2>3 DEF Knows
  <2> QED BY <1>1, <1>2, <1>3, <2>1, <2>4, QuietLive
<1> QED BY <1>5, <1>6

LEMMA RiskLive ==
  ASSUME ShapeInv, LiveBooks, NEW s \in Slots,
         CheckRisk(s) \/ OtherLimit(s) \/ VenueRefuses(s)
  PROVE  LiveBooks'
<1>0. PICK t : t = tasks[s]
  OBVIOUS
<1>1. t \in Task /\ InMemory /\ t.pc \in {"risk", "execute"}
  BY <1>0, AtWorkLive DEF ShapeInv, TypeOK, CheckRisk, OtherLimit, VenueRefuses
<1>2. t.result = positions[t.inst].net
  <2>1. Holds(tasks[s])
    BY <1>0, <1>1 DEF Holds
  <2> QED BY <1>0, <1>1, <2>1 DEF LiveBooks, Knows
<1>3. life' = life /\ UNCHANGED <<positions, rows, filled, executed, queue, mutation>>
  BY DEF CheckRisk, OtherLimit, VenueRefuses, memory, database, stream
<1>4. PICK u \in {[t EXCEPT !.pc = "wrap", !.outcome = "rejected"],
                  [t EXCEPT !.pc = "execute"],
                  [t EXCEPT !.pc = "store", !.orders = <<>>, !.outcome = "refused"]} :
         Become(s, u)
  BY <1>0 DEF CheckRisk, OtherLimit, VenueRefuses
<1>5. u.pc \in {"wrap", "execute", "store"} /\ u.inst = t.inst /\ u.result = t.result
  BY <1>1, <1>4 DEF Task
<1>6. Knows(u)'
  BY <1>2, <1>3, <1>5 DEF Knows
<1> QED BY <1>1, <1>3, <1>4, <1>6, QuietLive

LEMMA ExecuteBooksLive ==
  ASSUME ShapeInv, LiveBooks, LiveClean', NEW s \in Slots, ExecuteLive(s)
  PROVE  LiveBooks'
<1>0. PICK t, a : t = tasks[s] /\ a = Recorded
  OBVIOUS
<1>1. /\ t \in Task /\ t.inst \in Instruments /\ InMemory /\ t.pc = "execute"
      /\ t.result = positions[t.inst].net
  <2>1. t.pc = "execute" /\ Holds(tasks[s])
    BY <1>0 DEF ExecuteLive, Holds
  <2>2. InMemory
    BY <1>0, <2>1, AtWorkLive
  <2>3. t.result = positions[t.inst].net
    BY <1>0, <2>1 DEF LiveBooks, Knows
  <2> QED BY <1>0, <2>1, <2>2, <2>3, HolderWorks
<1>2. PICK q \in Reports(t) :
          queue' = queue \o q /\ Note(TradeRaces(t) \cup ReportRaces(q))
  BY <1>0 DEF ExecuteLive
<1>3. ReportRaces(q) = {}
  <2>1. (TradeRaces(t) \cup ReportRaces(q)) \cap Misread = {}
    BY <1>2, LiveNotes
  <2> QED BY <2>1 DEF ReportRaces, Misread
<1>4. /\ life' = life /\ UNCHANGED <<positions, rows, filled, mutation>>
      /\ executed' = [executed EXCEPT ![t.inst] = @ + Total(t.orders)]
  BY <1>0 DEF ExecuteLive, Trade, memory, database
<1>5. Ledger(Recorded, queue, executed)'
  <2>1. Ledger(a, queue, executed)
    BY <1>0 DEF LiveBooks
  <2>2. Ledger(a, queue \o q, executed')
    BY <1>0, <1>1, <1>2, <1>3, <1>4, <2>1, LedgerReports
  <2>3. Recorded' = a
    BY <1>0, <1>4 DEF Recorded, Owes
  <2> QED BY <1>2, <2>2, <2>3
<1>6. life = "up"
  BY <1>2, <1>3 DEF Reports, ReportRaces
<1> DEFINE u == [t EXCEPT !.pc = "store", !.orders = <<>>]
<1>7. Become(s, u)
  BY <1>0 DEF ExecuteLive
<1>8. u.pc = "store" /\ u.inst = t.inst /\ u.result = t.result
  BY <1>1 DEF Task
<1> HIDE DEF u
<1>9. Knows(u)'
  BY <1>1, <1>4, <1>8 DEF Knows
<1>10. \A i \in Instruments : RowKnown(i)'
  BY <1>4 DEF LiveBooks, RowKnown, Updating
<1> QED BY <1>1, <1>4, <1>5, <1>6, <1>7, <1>9, <1>10, TaskLive

(* The row under the position's key gets its size. *)
LEMMA UpsertNet ==
  ASSUME NEW r \in [{"named", "unnamed"} -> Row], NEW p \in Pos, NEW l
  PROVE  Upsert(r, p, l)[Key(p)].net = p.net /\ Key(p) \in {"named", "unnamed"}
<1> DEFINE q == Promoted(r, p)
           kept == IF l # "none" THEN l
                   ELSE IF Side(q[Key(p)].net) = Side(p.net) THEN q[Key(p)].levels
                   ELSE "none"
           x == IF p.net = 0 THEN NoRow ELSE [net |-> p.net, levels |-> kept]
<1>1. Upsert(r, p, l) = [q EXCEPT ![Key(p)] = x]
  BY DEF Upsert, Key
<1>2. DOMAIN q = {"named", "unnamed"} /\ Key(p) \in DOMAIN q
  <2>1. DOMAIN [named |-> r["unnamed"], unnamed |-> NoRow] = {"named", "unnamed"}
    OBVIOUS
  <2> QED BY <2>1 DEF Promoted, Key
<1>3. x.net = p.net
  <2>1. NoRow.net = 0
    BY DEF NoRow
  <2> HIDE DEF kept
  <2> QED BY <2>1
<1> HIDE DEF q, x
<1> QED BY <1>1, <1>2, <1>3

LEMMA SetNet ==
  ASSUME ShapeInv, NEW i \in Instruments, NEW p, SetPosition(i, p)
  PROVE  /\ positions'[i].net = p.net
         /\ \A j \in Instruments \ {i} : positions'[j] = positions[j]
<1>1. positions \in [Instruments -> Pos]
  BY DEF ShapeInv, TypeOK, Pos
<1>2. Flat.net = 0
  BY DEF Flat
<1> QED BY <1>1, <1>2 DEF SetPosition

LEMMA StoredLive ==
  ASSUME ShapeInv, LiveBooks, NEW s \in Slots, Stored(s)
  PROVE  LiveBooks'
<1>0. PICK t, i, p : /\ t = tasks[s] /\ i = t.inst
                     /\ p = [net |-> t.result, named |-> PassesId(t) \/ positions[i].named]
  OBVIOUS
<1>1. t.pc = "store" /\ Holds(tasks[s])
  BY <1>0 DEF Stored, Holds
<1>2. t \in Task /\ i \in Instruments /\ InMemory /\ t.result = positions[i].net
  <2>1. InMemory
    BY <1>0, <1>1, AtWorkLive
  <2>2. t.result = positions[i].net
    BY <1>0, <1>1 DEF LiveBooks, Knows
  <2> QED BY <1>0, <1>1, <2>1, <2>2, HolderWorks
<1>3. /\ life' = life /\ UNCHANGED <<filled, executed, queue, mutation>>
      /\ rows' = [rows EXCEPT ![i] = Upsert(@, p, NewLevels(t))]
      /\ SetPosition(i, p)
  BY <1>0 DEF Stored, stream
<1>4. p \in Pos /\ p.net = t.result
  <2>1. t.result \in Int
    BY <1>2 DEF Task
  <2>2. (PassesId(t) \/ positions[i].named) \in BOOLEAN
    OBVIOUS
  <2>3. p \in Pos
    BY <1>0, <2>1, <2>2, Zenon DEF Pos
  <2>4. p.net = t.result
    BY <1>0, Zenon
  <2> QED BY <2>3, <2>4
<1>5. \A j \in Instruments : positions'[j].net = positions[j].net
  BY <1>2, <1>3, <1>4, SetNet
<1>6. \A j \in Instruments : RowKnown(j)'
  <2>1. rows \in [Instruments -> [{"named", "unnamed"} -> Row]]
    BY DEF ShapeInv, TypeOK, Row
  <2>2. rows'[i] = Upsert(rows[i], p, NewLevels(t)) /\ rows[i] \in [{"named", "unnamed"} -> Row]
    BY <1>2, <1>3, <2>1
  <2>3. rows'[i][Key(p)].net = p.net /\ Key(p) \in {"named", "unnamed"}
    BY <1>4, <2>2, UpsertNet
  <2>4. p.net = filled'[i]
    BY <1>2, <1>3, <1>4 DEF LiveBooks
  <2>5. \A j \in Instruments \ {i} : rows'[j] = rows[j]
    BY <1>3, <2>1
  <2> QED BY <1>3, <2>3, <2>4, <2>5 DEF LiveBooks, RowKnown, Updating
<1>7. Ledger(Recorded, queue, executed)'
  BY <1>3 DEF LiveBooks, Ledger, Recorded, Owes
<1> DEFINE o == IF t.outcome = "none" THEN "ok" ELSE t.outcome
           u == [t EXCEPT !.pc = "wrap", !.outcome = o]
<1>8. Become(s, u)
  BY <1>0, <1>2 DEF Stored, Task
<1>9. u.pc = "wrap" /\ u.inst = i /\ u.result = t.result
  <2> HIDE DEF o
  <2> QED BY <1>0, <1>2 DEF Task
<1> HIDE DEF u
<1>10. Knows(u)'
  BY <1>2, <1>5, <1>9 DEF Knows
<1> QED BY <1>2, <1>3, <1>5, <1>6, <1>7, <1>8, <1>10, TaskLive

LEMMA ExitDoneLive ==
  ASSUME ShapeInv, LiveBooks, NEW s \in Slots, ExitDone(s)
  PROVE  LiveBooks'
<1>0. PICK t, i, w : t = tasks[s] /\ i = t.inst /\ w = Written(t)
  OBVIOUS
<1>1. t.pc = "wrap" /\ Holds(tasks[s])
  BY <1>0 DEF ExitDone, Holds
<1>2. i \in Instruments /\ InMemory /\ w.net = positions[i].net
  <2>1. InMemory /\ i \in Instruments
    BY <1>0, <1>1, AtWorkLive, HolderWorks
  <2>2. t.result = positions[i].net
    BY <1>0, <1>1 DEF LiveBooks, Knows
  <2>3. w.net = t.result
    BY <1>0 DEF Written
  <2> QED BY <2>1, <2>2, <2>3
<1>3. /\ life' = life /\ UNCHANGED <<rows, filled, executed, queue, mutation>>
      /\ SetPosition(i, w) /\ Become(s, After(t)) /\ ~Holds(After(t))
  BY <1>0, AfterHoldsNot DEF ExitDone, End, database, stream
<1>4. \A j \in Instruments : positions'[j].net = positions[j].net
  BY <1>2, <1>3, SetNet
<1> QED BY <1>2, <1>3, <1>4, QuietLive

(* A fill of paper mode: nobody is about to store one. *)
LEMMA NoFillLive == ASSUME LiveBooks, NEW s \in Slots PROVE ~FillStored(s)
  BY DEF LiveBooks, FillStored, Holds, Knows

(* The private stream takes one message after the other. *)
LEMMA AloneOn ==
  ASSUME ShapeInv, NEW i \in Instruments, LiveClean', Note(Crossed(i)),
         NEW s \in Slots, Holds(tasks[s])
  PROVE  tasks[s].inst # i
<1>1. Crossed(i) \cap Misread = {}
  BY LiveNotes
<1> QED BY <1>1 DEF Crossed, Misread

LEMMA TakeFillLive ==
  ASSUME ShapeInv, LiveBooks, TakeFill
  PROVE  LiveBooks'
<1>0. PICK m, a, q : m = Head(queue) /\ a = Recorded /\ q = Tail(queue)
  OBVIOUS
<1>1. /\ queue # <<>> /\ queue \in Seq(Message) /\ m.kind = "fill" /\ mutation.pc = "idle"
      /\ m.inst \in Instruments /\ m.qty \in Int
  BY <1>0, HeadOfQueue DEF TakeFill, ShapeInv, TypeOK, Message
<1>2. /\ mutation'.pc = "insert" /\ mutation'.inst = m.inst /\ mutation'.qty = m.qty
      /\ mutation'.pos = Filled(positions[m.inst], m.qty)
      /\ queue' = q /\ UNCHANGED <<life, positions, tasks, rows, filled, executed>>
  BY <1>0 DEF TakeFill, database
<1>3. life = "up"
  BY <1>1 DEF LiveBooks
<1>4. Ledger(Recorded, queue, executed)'
  <2>1. PICK c \in Balances : Posts(a, m, c) /\ Ledger(c, q, executed)
    BY <1>0, <1>1, RecordedType, LedgerHead DEF LiveBooks
  <2>2. a \in Balances /\ a[m.inst] = filled[m.inst]
    <3>1. a \in Balances
      BY <1>0, RecordedType
    <3>2. filled[m.inst] \in Int /\ Owes(m.inst) = 0
      BY <1>1 DEF ShapeInv, TypeOK, Owes
    <3> QED BY <1>0, <1>1, <3>1, <3>2 DEF Recorded
  <2>3. c = [a EXCEPT ![m.inst] = @ + m.qty]
    BY <1>1, <2>1 DEF Posts
  <2>4. \A i \in Instruments : c[i] = filled'[i] + Owes(i)'
    <3> TAKE i \in Instruments
    <3>1. CASE i = m.inst
      BY <1>1, <1>2, <2>2, <2>3, <3>1 DEF Owes, Balances
    <3>2. CASE i # m.inst
      BY <1>0, <1>1, <1>2, <2>2, <2>3, <3>2 DEF Owes, Balances, Recorded
    <3> QED BY <3>1, <3>2
  <2>5. Recorded' = c
    BY <2>1, <2>4 DEF Recorded, Balances
  <2> QED BY <1>2, <2>1, <2>5
<1>5. mutation'.pos.net = positions'[m.inst].net + m.qty
  <2>1. positions[m.inst] \in Pos
    BY <1>1 DEF ShapeInv, TypeOK, Pos
  <2> QED BY <1>2, <2>1 DEF Filled, Pos
<1>6. \A i \in Instruments : RowKnown(i)'
  BY <1>1, <1>2 DEF LiveBooks, RowKnown, Updating
<1>7. \A s \in Slots : Holds(tasks'[s]) => Knows(tasks[s])'
  BY <1>2 DEF LiveBooks, Knows
<1> QED BY <1>2, <1>3, <1>4, <1>5, <1>6, <1>7 DEF LiveBooks, InMemory

LEMMA FillRecordedLive ==
  ASSUME ShapeInv, LiveBooks, LiveClean', FillRecorded
  PROVE  LiveBooks'
<1>0. PICK m, i, a : m = mutation /\ i = m.inst /\ a = Recorded
  OBVIOUS
<1>1. /\ m.pc = "insert" /\ i \in Instruments /\ m.qty \in Int /\ m.pos \in Pos
      /\ filled \in [Instruments -> Int] /\ life = "up"
      /\ m.pos.net = positions[i].net + m.qty
  BY <1>0 DEF FillRecorded, ShapeInv, TypeOK, Pos, LiveBooks
<1>2. /\ filled' = [filled EXCEPT ![i] = @ + m.qty] /\ SetPosition(i, m.pos)
      /\ mutation' = [m EXCEPT !.pc = "upsert"] /\ Note(Crossed(i))
      /\ UNCHANGED <<life, tasks, queue, rows, executed>>
  BY <1>0 DEF FillRecorded, ApplyToMap
<1>3. mutation'.pc = "upsert" /\ mutation'.inst = i /\ mutation'.pos = m.pos
  BY <1>0, <1>2 DEF ShapeInv, TypeOK
<1>4. positions'[i].net = m.pos.net /\ \A j \in Instruments \ {i} : positions'[j] = positions[j]
  BY <1>1, <1>2, SetNet
<1>5. filled'[i] = filled[i] + m.qty /\ \A j \in Instruments \ {i} : filled'[j] = filled[j]
  BY <1>1, <1>2
<1>6. \A j \in Instruments : positions'[j].net = filled'[j]
  BY <1>1, <1>4, <1>5 DEF LiveBooks, InMemory
<1>7. Recorded' = a
  <2>1. \A j \in Instruments : filled'[j] + Owes(j)' = filled[j] + Owes(j)
    BY <1>0, <1>1, <1>3, <1>5 DEF Owes
  <2> QED BY <1>0, <2>1 DEF Recorded
<1>8. Ledger(Recorded, queue, executed)'
  BY <1>0, <1>2, <1>7 DEF LiveBooks
<1>9. \A j \in Instruments : RowKnown(j)'
  BY <1>0, <1>1, <1>2, <1>3, <1>5 DEF LiveBooks, RowKnown, Updating
<1>10. ASSUME NEW s \in Slots, Holds(tasks'[s]) PROVE Knows(tasks[s])'
  <2>1. tasks'[s] = tasks[s] /\ Holds(tasks[s])
    BY <1>2, <1>10
  <2>2. tasks[s].inst \in Instruments \ {i} /\ Knows(tasks[s])
    BY <1>1, <1>2, <2>1, AloneOn, HolderWorks DEF LiveBooks
  <2> QED BY <1>4, <2>1, <2>2 DEF Knows
<1> QED BY <1>1, <1>2, <1>3, <1>4, <1>6, <1>8, <1>9, <1>10 DEF LiveBooks

LEMMA TakePositionLive ==
  ASSUME ShapeInv, LiveBooks, TakePosition
  PROVE  LiveBooks'
<1>0. PICK m, i, a, q, p : /\ m = Head(queue) /\ i = m.inst /\ a = Recorded /\ q = Tail(queue)
                           /\ p = [net |-> m.qty, named |-> positions[i].named]
  OBVIOUS
<1>1. /\ queue # <<>> /\ queue \in Seq(Message) /\ m.kind = "position" /\ mutation.pc = "idle"
      /\ i \in Instruments /\ m.qty \in Int
  BY <1>0, HeadOfQueue DEF TakePosition, ShapeInv, TypeOK, Message
<1>2. /\ mutation'.pc = "upsert" /\ mutation'.inst = i /\ mutation'.pos = p
      /\ SetPosition(i, p)
      /\ queue' = q /\ UNCHANGED <<life, tasks, rows, filled, executed>>
  BY <1>0 DEF TakePosition, ApplyToMap, database
<1>3. life = "up"
  BY <1>1 DEF LiveBooks
<1>4. PICK c \in Balances : Posts(a, m, c) /\ Ledger(c, q, executed)
  BY <1>0, <1>1, RecordedType, LedgerHead DEF LiveBooks
<1>5. a[i] = m.qty /\ c = a
  BY <1>0, <1>1, <1>4 DEF Posts
<1>6. \A j \in Instruments : Owes(j) = 0 /\ Owes(j)' = 0
  BY <1>1, <1>2 DEF Owes
<1>7. Recorded' = a
  BY <1>0, <1>2, <1>6 DEF Recorded
<1>8. p.net = positions[i].net
  <2>1. positions[i].net = filled[i] /\ filled[i] \in Int
    BY <1>1, <1>3 DEF LiveBooks, InMemory, ShapeInv, TypeOK
  <2>2. a[i] = filled[i]
    BY <1>0, <1>1, <1>6, <2>1 DEF Recorded
  <2> QED BY <1>0, <1>5, <2>1, <2>2
<1>9. \A j \in Instruments : positions'[j].net = positions[j].net
  BY <1>1, <1>2, <1>8, SetNet
<1>10. Ledger(Recorded, queue, executed)'
  BY <1>2, <1>4, <1>5, <1>7
<1>11. \A j \in Instruments : RowKnown(j)'
  BY <1>1, <1>2 DEF LiveBooks, RowKnown, Updating
<1>12. ASSUME NEW s \in Slots, Holds(tasks'[s]) PROVE Knows(tasks[s])'
  <2>1. tasks'[s] = tasks[s] /\ Knows(tasks[s]) /\ tasks[s].inst \in Instruments
    BY <1>2, <1>12, HolderWorks DEF LiveBooks
  <2> QED BY <1>9, <2>1 DEF Knows
<1> QED BY <1>1, <1>2, <1>3, <1>8, <1>9, <1>10, <1>11, <1>12 DEF LiveBooks, InMemory

LEMMA RowUpdatedLive ==
  ASSUME ShapeInv, LiveBooks, RowUpdated
  PROVE  LiveBooks'
<1>0. PICK m, i : m = mutation /\ i = m.inst
  OBVIOUS
<1>1. /\ m.pc = "upsert" /\ i \in Instruments /\ m.pos \in Pos /\ life = "up"
      /\ m.pos.net = positions[i].net /\ positions[i].net = filled[i]
  BY <1>0 DEF RowUpdated, ShapeInv, TypeOK, Pos, LiveBooks, InMemory
<1>2. /\ rows' = [rows EXCEPT ![i] = Upsert(@, m.pos, "none")] /\ mutation'.pc = "idle"
      /\ UNCHANGED <<life, positions, tasks, queue, filled, executed>>
  BY <1>0 DEF RowUpdated, memory, NoMutation
<1>3. rows \in [Instruments -> [{"named", "unnamed"} -> Row]]
  BY DEF ShapeInv, TypeOK, Row
<1>4. rows'[i][Key(m.pos)].net = m.pos.net /\ Key(m.pos) \in {"named", "unnamed"}
  <2>1. rows'[i] = Upsert(rows[i], m.pos, "none") /\ rows[i] \in [{"named", "unnamed"} -> Row]
    BY <1>1, <1>2, <1>3
  <2> QED BY <1>1, <2>1, UpsertNet
<1>5. \A j \in Instruments \ {i} : rows'[j] = rows[j]
  BY <1>2, <1>3
<1>6. \A j \in Instruments : RowKnown(j)'
  BY <1>0, <1>1, <1>2, <1>4, <1>5 DEF LiveBooks, RowKnown, Updating
<1>7. Ledger(Recorded, queue, executed)'
  <2>1. Recorded' = Recorded
    BY <1>0, <1>1, <1>2 DEF Recorded, Owes
  <2> QED BY <1>2, <2>1 DEF LiveBooks
<1>8. \A s \in Slots : Holds(tasks'[s]) => Knows(tasks[s])'
  BY <1>2 DEF LiveBooks, Knows
<1> QED BY <1>1, <1>2, <1>6, <1>7, <1>8 DEF LiveBooks, InMemory

(* A stop that cuts nothing off leaves nothing in the queue. *)
LEMMA StopLive ==
  ASSUME ShapeInv, LiveBooks, LiveClean', Halt, Running,
         NEW S, NEW k, Note(S) \/ Fault(k, S), S = Torn,
         UNCHANGED <<positions, rows, filled, executed>>,
         mutation' = mutation \/ mutation' = NoMutation,
         \A s \in Slots : \/ tasks'[s] = tasks[s]
                          \/ tasks'[s] = IdleTask
  PROVE  LiveBooks'
<1>1. Torn \cap Misread = {}
  BY LiveNotes
<1>2. ~AtWork /\ queue = <<>> /\ mutation.pc = "idle"
  BY <1>1 DEF Torn, Misread
<1>3. /\ life' = "off" /\ queue' = queue /\ mutation'.pc = "idle"
  BY <1>2, NoMutationType DEF Halt
<1>4. \A s \in Slots : ~Holds(tasks'[s])
  BY <1>2, IdleHoldsNot DEF AtWork, Holds
<1>5. Ledger(Recorded, queue, executed)'
  <2>1. Recorded' = Recorded
    BY <1>2, <1>3 DEF Recorded, Owes
  <2> QED BY <1>3, <2>1 DEF LiveBooks
<1>6. \A j \in Instruments : RowKnown(j)'
  BY <1>2 DEF LiveBooks, RowKnown, Updating
<1>7. InMemory' => InMemory
  <2> SUFFICES ASSUME InMemory' PROVE InMemory
    OBVIOUS
  <2>1. PICK s \in Slots : tasks'[s].pc # "idle"
    BY <1>3 DEF InMemory
  <2>2. tasks[s].pc # "idle"
    BY <2>1 DEF IdleTask
  <2> QED BY <2>2, AtWorkLive
<1> QED BY <1>2, <1>3, <1>4, <1>5, <1>6, <1>7 DEF LiveBooks

LEMMA StartActorLive ==
  ASSUME ShapeInv, LiveBooks, StartActor
  PROVE  LiveBooks'
<1>1. /\ life = "off" /\ life' = "starting" /\ mutation.pc = "idle"
      /\ \A s \in Slots : tasks[s].pc = "idle"
      /\ UNCHANGED <<tasks, queue, mutation, rows, filled, executed>>
      /\ positions' = [i \in Instruments |-> Flat]
  BY DEF StartActor, database, stream
<1>2. Ledger(Recorded, queue, executed)'
  BY <1>1 DEF LiveBooks, Ledger, Recorded, Owes
<1>3. \A j \in Instruments : RowKnown(j)'
  BY <1>1 DEF LiveBooks, RowKnown, Updating
<1> QED BY <1>1, <1>2, <1>3 DEF LiveBooks, InMemory, Holds

(* The rows that are read back are what was executed: where rows and venue  *)
(* differ the actor does not come up.                                       *)
LEMMA RecoverLive ==
  ASSUME ShapeInv, LiveBooks, LiveClean', mode' = mode, Recover
  PROVE  LiveBooks'
<1>1. /\ life = "starting" /\ UNCHANGED <<tasks, queue, mutation, rows, filled, executed>>
      /\ life' \in {"off", "up"} /\ (life' = "up" => RowsAgree)
  <2>1. PICK S \in SUBSET Races : Drift \subseteq S /\ (Note(S) \/ Fault("sum", S))
    BY RecoverNotes
  <2>2. S \cap Misread = {}
    BY <2>1, LiveNotes
  <2>3. "drift" \notin Drift
    BY <2>1, <2>2 DEF Misread
  <2>4. life' = "up" => RowsAgree
    BY <2>3 DEF Drift, LiveClean
  <2> QED BY <2>4 DEF Recover, StartReconciler, database, stream
<1>2. /\ queue = <<>> /\ mutation.pc = "idle"
      /\ \A s \in Slots : tasks[s].pc = "idle" /\ ~Holds(tasks[s])
      /\ \A i \in Instruments : positions[i] = Flat
  BY <1>1 DEF LiveBooks, Holds
<1>3. \A i \in Instruments : filled[i] = executed[i]
  <2>1. Recorded = executed
    BY <1>2, RecordedType, LedgerEmpty DEF LiveBooks
  <2>2. \A i \in Instruments : filled[i] \in Int /\ Owes(i) = 0
    BY <1>2 DEF ShapeInv, TypeOK, Owes
  <2> QED BY <2>1, <2>2 DEF Recorded
<1>4. PICK c \in RowChoices : Rehydrate(c)
  BY DEF Recover
<1>5. ASSUME RowsAgree, NEW i \in Instruments PROVE positions'[i].net = filled[i]
  <2>1. PICK k \in {"named", "unnamed"} : rows[i][k].net = filled[i]
    BY <1>2 DEF LiveBooks, RowKnown, Updating
  <2>2. rows[i]["named"].net + rows[i]["unnamed"].net = filled[i]
    BY <1>3, <1>5 DEF RowsAgree
  <2>3. \A l \in {"named", "unnamed"} : rows[i][l].net \in Int
    BY DEF ShapeInv, TypeOK
  <2>4. \A l \in {"named", "unnamed"} : rows[i][l].net # 0 => rows[i][l].net = filled[i]
    <3>1. filled[i] \in Int
      BY DEF ShapeInv, TypeOK
    <3>2. \A l \in {"named", "unnamed"} \ {k} : rows[i][l].net = 0
      BY <2>1, <2>2, <2>3, <3>1
    <3> QED BY <2>1, <3>2
  <2>5. c \in [Instruments -> {"none", "named", "unnamed"}]
        /\ IF OpenRows(i) = {} THEN c[i] = "none" ELSE c[i] \in OpenRows(i)
    BY DEF RowChoices
  <2>6. positions'[i] = IF c[i] = "none" THEN positions[i]
                        ELSE [net |-> rows[i][c[i]].net, named |-> c[i] = "named"]
    BY <1>4 DEF Rehydrate
  <2>7. CASE OpenRows(i) = {}
    <3>1. filled[i] = 0
      BY <2>1, <2>7 DEF OpenRows
    <3>2. positions'[i] = Flat
      BY <1>2, <2>5, <2>6, <2>7
    <3> QED BY <3>1, <3>2 DEF Flat
  <2>8. CASE OpenRows(i) # {}
    <3>1. c[i] \in {"named", "unnamed"} /\ rows[i][c[i]].net # 0
      BY <2>5, <2>8 DEF OpenRows
    <3>2. positions'[i] = [net |-> rows[i][c[i]].net, named |-> c[i] = "named"]
      BY <2>6, <3>1
    <3>3. positions'[i].net = rows[i][c[i]].net
      BY <3>2
    <3> QED BY <2>4, <3>1, <3>3
  <2> QED BY <2>7, <2>8
<1>6. InMemory' => life' = "up"
  BY <1>1, <1>2 DEF InMemory
<1>7. Ledger(Recorded, queue, executed)'
  BY <1>1 DEF LiveBooks, Ledger, Recorded, Owes
<1>8. \A j \in Instruments : RowKnown(j)'
  BY <1>1 DEF LiveBooks, RowKnown, Updating
<1> QED BY <1>1, <1>2, <1>5, <1>6, <1>7, <1>8 DEF LiveBooks

LEMMA InitLive == Init => LiveInv
<1> SUFFICES ASSUME Init PROVE LiveBooks
  BY DEF LiveInv
<1>1. /\ queue = <<>> /\ mutation.pc = "idle" /\ life = "off"
      /\ \A s \in Slots : tasks[s].pc = "idle"
      /\ \A i \in Instruments : filled[i] = 0 /\ executed[i] = 0
      /\ executed = [i \in Instruments |-> 0]
  BY DEF Init, NoMutation, IdleTask
<1>2. Recorded = executed
  BY <1>1 DEF Recorded, Owes
<1>3. Ledger(Recorded, queue, executed)
  BY <1>1, <1>2, LedgerEmpty DEF Balances
<1>4. \A i \in Instruments : RowKnown(i)
  BY <1>1 DEF Init, RowKnown, NoRow
<1> QED BY <1>1, <1>3, <1>4 DEF LiveBooks, InMemory, Holds

LEMMA NextLive == ShapeInv /\ LiveInv /\ [Next]_vars => LiveInv'
<1> SUFFICES ASSUME ShapeInv, LiveInv, [Next]_vars, LiveClean' PROVE LiveBooks'
  BY DEF LiveInv
<1>1. mode' = mode /\ mode = "live"
  BY ModeFixed DEF LiveClean
<1>2. CASE \E s \in Slots : WriteFails(s) \/ MutationFails(s) \/ ExecutionTimesOut(s)
  <2>1. PICK k, S : Fault(k, S) /\ S \cap Misread # {}
    BY <1>2 DEF WriteFails, MutationFails, ExecutionTimesOut, Misread
  <2> QED BY <2>1, LiveNotes
<1>3. CASE RehydrationFails
  <2>1. {"untold"} \cap Misread = {}
    BY <1>3, LiveNotes DEF RehydrationFails
  <2> QED BY <2>1 DEF Misread
<1>4. CASE \E s \in Slots : ExecutePaper(s)
  BY <1>1, <1>4 DEF ExecutePaper
<1>5. CASE \E s \in Slots : \/ ContextReady(s) \/ NoContext(s) \/ CheckRisk(s) \/ OtherLimit(s)
                            \/ ExecuteLive(s) \/ VenueRefuses(s) \/ FillStored(s)
                            \/ Stored(s) \/ Decided(s) \/ ExitDone(s)
  <2>1. PICK S, k : Note(S) \/ Fault(k, S) \/ happened' = happened
    BY <1>5 DEF ContextReady, NoContext, CheckRisk, OtherLimit, ExecuteLive, VenueRefuses,
                FillStored, Stored, Decided, ExitDone
  <2>2. LiveBooks
    BY <1>1, <2>1, LiveBefore DEF LiveInv
  <2> QED BY <1>5, <2>2, ContextLive, EndLive, RiskLive, ExecuteBooksLive, NoFillLive,
             StoredLive, ExitDoneLive
<1>6. CASE \E s \in Slots : StreamCloses(s) \/ CrashNext(s)
  <2>1. PICK S, k : Note(S) \/ Fault(k, S) \/ happened' = happened
    BY <1>6 DEF StreamCloses, CrashNext
  <2>2. LiveBooks
    BY <1>1, <2>1, LiveBefore DEF LiveInv
  <2> QED BY <1>6, <2>2, CrashStartsLive, CrashNextLive
<1>7. CASE \E s \in Slots : CrashEnds(s)
  <2>1. PICK s \in Slots : CrashEnds(s)
    BY <1>7
  <2>2. /\ Note(Torn) /\ Halt /\ Become(s, IdleTask) /\ tasks[s].pc = "next"
        /\ UNCHANGED <<positions, rows, filled, executed, mutation>>
    BY <2>1 DEF CrashEnds, memory, database
  <2>3. LiveBooks
    BY <1>1, <2>2, LiveBefore DEF LiveInv
  <2>4. \A r \in Slots : tasks'[r] = tasks[r] \/ tasks'[r] = IdleTask
    BY <2>2 DEF Become, ShapeInv, TypeOK
  <2>5. CASE Running
    BY <2>2, <2>3, <2>4, <2>5, StopLive
  <2>6. CASE ~Running
    <3>1. life' = life /\ queue' = queue
      BY <2>2, <2>3, <2>6 DEF Halt, Running, LiveBooks
    <3>2. InMemory /\ ~Holds(IdleTask)
      BY <2>2, <2>3, AtWorkLive, IdleHoldsNot
    <3> QED BY <2>2, <2>3, <3>1, <3>2, QuietLive
  <2> QED BY <2>5, <2>6
<1>8. CASE \E s \in Slots, i \in Instruments :
             Submit(s, i) \/ StopLossAtIntake(s, i) \/ MonitorLevels(s, i) \/ ScanExit(s, i)
  <2>1. PICK S, k : Note(S) \/ Fault(k, S) \/ happened' = happened
    BY <1>8 DEF Submit, StopLossAtIntake, MonitorLevels, ScanExit, StartExit
  <2>2. LiveBooks
    BY <1>1, <2>1, LiveBefore DEF LiveInv
  <2> QED BY <1>8, <2>2, StartLive
<1>9. CASE TakeFill \/ FillRecorded \/ TakePosition \/ RowUpdated
  <2>1. PICK S, k : Note(S) \/ Fault(k, S) \/ happened' = happened
    BY <1>9 DEF TakeFill, FillRecorded, TakePosition, RowUpdated
  <2>2. LiveBooks
    BY <1>1, <2>1, LiveBefore DEF LiveInv
  <2> QED BY <1>9, <2>2, TakeFillLive, FillRecordedLive, TakePositionLive, RowUpdatedLive
<1>10. CASE StreamDrops \/ StreamReconnects \/ UNCHANGED vars
  <2>1. UNCHANGED <<mode, life, tasks, queue, mutation, positions, rows, filled, executed>>
    BY <1>10 DEF StreamDrops, StreamReconnects, vars, memory, database, stream
  <2>2. PICK S, k : Note(S) \/ Fault(k, S) \/ happened' = happened
    BY <1>10 DEF StreamDrops, StreamReconnects, vars
  <2>3. LiveBooks
    BY <1>1, <2>2, LiveBefore DEF LiveInv
  <2>4. Ledger(Recorded, queue, executed)'
    <3>1. Recorded' = Recorded
      BY <2>1 DEF Recorded, Owes
    <3> QED BY <2>1, <2>3, <3>1 DEF LiveBooks
  <2>5. \A j \in Instruments : RowKnown(j)'
    BY <2>1, <2>3 DEF LiveBooks, RowKnown, Updating
  <2>6. \A s \in Slots : Holds(tasks'[s]) => Knows(tasks[s])'
    BY <2>1, <2>3 DEF LiveBooks, Knows
  <2> QED BY <2>1, <2>3, <2>4, <2>5, <2>6 DEF LiveBooks, InMemory
<1>11. CASE StopActor \/ ProcessDies
  <2>1. PICK k : Note(Torn) \/ Fault(k, Torn)
    BY <1>11 DEF StopActor, ProcessDies
  <2>2. LiveBooks
    BY <1>1, <2>1, LiveBefore DEF LiveInv
  <2>3. /\ Halt /\ Running /\ UNCHANGED <<positions, rows, filled, executed>>
        /\ mutation' = mutation \/ mutation' = NoMutation
        /\ \A r \in Slots : tasks'[r] = tasks[r] \/ tasks'[r] = IdleTask
    BY <1>11 DEF StopActor, ProcessDies, memory, database, Running
  <2> QED BY <2>1, <2>2, <2>3, StopLive
<1>12. CASE StartActor \/ Recover
  <2>1. PICK S, k : Note(S) \/ Fault(k, S) \/ happened' = happened
    BY <1>12 DEF StartActor, Recover
  <2>2. LiveBooks
    BY <1>1, <2>1, LiveBefore DEF LiveInv
  <2> QED BY <1>1, <1>12, <2>2, StartActorLive, RecoverLive
<1> QED BY <1>2, <1>3, <1>4, <1>5, <1>6, <1>7, <1>8, <1>9, <1>10, <1>11, <1>12 DEF Next, Pipeline

LEMMA LiveKept == Spec => [](ShapeInv /\ LiveInv)
<1>1. ShapeInv /\ LiveInv /\ [Next]_vars => LiveInv'
  BY NextLive
<1> QED BY <1>1, InitLive, Shape, PTL DEF Spec

(* What the actor believes to hold is what it recorded and what was         *)
(* executed, whether an executor's result brings the fills or the private   *)
(* stream does, for every number of instruments, activities, stops and      *)
(* restarts.                                                                *)
THEOREM PositionsAreTrue == Spec => []PositionTrue
<1>1. ShapeInv /\ LiveInv /\ (mode = "paper" => PositionTrue) => PositionTrue
  <2> SUFFICES ASSUME ShapeInv, LiveInv, mode # "paper", ~Excused(Misread),
                      NEW i \in Instruments, AtRest(i)
      PROVE  positions[i].net = filled[i] /\ filled[i] = executed[i]
    BY DEF PositionTrue
  <2>1. LiveBooks
    BY TradingAssumption DEF LiveInv, LiveClean, ShapeInv, TypeOK
  <2>2. positions[i].net = filled[i]
    BY <2>1 DEF LiveBooks, InMemory, AtRest
  <2>3. queue \in Seq(Message) /\ \A n \in DOMAIN queue : queue[n].inst # i
    BY DEF AtRest, StreamBehind, ShapeInv, TypeOK, Message
  <2>4. Recorded[i] = executed[i]
    BY <2>1, <2>3, LedgerSettled DEF LiveBooks
  <2>5. filled[i] \in Int /\ Owes(i) = 0
    BY DEF AtRest, StreamBehind, Owes, ShapeInv, TypeOK
  <2>6. Recorded[i] = filled[i]
    BY <2>5 DEF Recorded
  <2> QED BY <2>2, <2>4, <2>6
<1> QED BY <1>1, LiveKept, PaperPositionsAreTrue, PTL

(* In live mode no position carries an id until an exit stores one: there   *)
(* is one row per instrument, the one without an id.                        *)
NamelessKinds == Misread \cup {"live_exit"}
Nameless ==
    /\ \A i \in Instruments : ~positions[i].named /\ rows[i]["named"].net = 0
    /\ \A i \in Instruments : Updating(i) \/ rows[i]["unnamed"].net = filled[i]
    /\ \A s \in Slots : ~tasks[s].pos.named
    /\ ~mutation.pos.named
NamelessClean == mode = "live" /\ ~Excused(NamelessKinds)
NamelessInv == NamelessClean => Nameless

LEMMA NamelessLast == Lasting(NamelessKinds) /\ (NamelessClean => LiveClean)
  BY DEF Lasting, NamelessKinds, Misread, NamelessClean, LiveClean, Excused

LEMMA NamelessBefore ==
  ASSUME ShapeInv, NEW S, NEW k, Note(S) \/ Fault(k, S) \/ happened' = happened,
         mode' = mode, NamelessClean'
  PROVE  NamelessClean
<1>1. Excused(NamelessKinds) => Excused(NamelessKinds)'
  BY ExcuseLasts, NamelessLast
<1> QED BY <1>1 DEF NamelessClean

LEMMA NamelessNotes ==
  ASSUME ShapeInv, NEW S, NEW k, Note(S) \/ Fault(k, S), NamelessClean'
  PROVE  S \cap NamelessKinds = {}
<1> SUFFICES ASSUME NEW x \in S, x \in NamelessKinds PROVE FALSE
  OBVIOUS
<1>1. Excused(NamelessKinds)'
  BY ExcuseComes, NamelessLast
<1> QED BY <1>1 DEF NamelessClean

LEMMA IdleNameless == ~Flat.named /\ IdleTask.pos = Flat /\ NoMutation.pos = Flat
  BY DEF Flat, IdleTask, NoMutation

LEMMA AfterNameless == ASSUME NEW t PROVE ~After(t).pos.named
<1>1. [IdleTask EXCEPT !.pc = "next", !.kind = "crash", !.todo = t.todo].pos = IdleTask.pos
  BY DEF IdleTask
<1> QED BY <1>1, IdleNameless DEF After

(* A step of one activity, on a task that has read such a position. *)
LEMMA TaskNameless ==
  ASSUME ShapeInv, Nameless, NEW s \in Slots, NEW u, Become(s, u), ~u.pos.named,
         UNCHANGED <<mutation, filled, rows, positions>>
  PROVE  Nameless'
<1>1. tasks'[s] = u /\ \A r \in Slots \ {s} : tasks'[r] = tasks[r]
  BY DEF ShapeInv, TypeOK, Become
<1>2. \A r \in Slots : ~tasks'[r].pos.named
  BY <1>1 DEF Nameless
<1> QED BY <1>2 DEF Nameless, Updating

LEMMA StartNameless ==
  ASSUME ShapeInv, Nameless, NEW s \in Slots, NEW i \in Instruments,
         Submit(s, i) \/ StopLossAtIntake(s, i) \/ MonitorLevels(s, i) \/ ScanExit(s, i)
  PROVE  Nameless'
<1>1. PICK u : Become(s, u) /\ u.pos = Flat
  BY StartHoldsNot
<1>2. UNCHANGED <<mutation, filled, rows, positions>>
  BY DEF Submit, StopLossAtIntake, MonitorLevels, ScanExit, StartExit, memory, database, stream
<1> QED BY <1>1, <1>2, IdleNameless, TaskNameless

LEMMA CrashNameless ==
  ASSUME ShapeInv, Nameless, NEW s \in Slots, StreamCloses(s) \/ CrashNext(s)
  PROVE  Nameless'
<1>1. UNCHANGED <<mutation, filled, rows, positions>>
  BY DEF StreamCloses, CrashNext, memory, database, stream
<1>2. CASE StreamCloses(s)
  <2>1. PICK todo : Become(s, [IdleTask EXCEPT !.pc = "next", !.kind = "crash", !.todo = todo])
    BY <1>2 DEF StreamCloses, Crash, Begin
  <2> DEFINE u == [IdleTask EXCEPT !.pc = "next", !.kind = "crash", !.todo = todo]
  <2>2. u.pos = Flat
    BY DEF IdleTask
  <2> HIDE DEF u
  <2> QED BY <1>1, <2>1, <2>2, IdleNameless, TaskNameless DEF u
<1>3. CASE CrashNext(s)
  <2>1. PICK t : t = tasks[s] /\ t \in Task
    BY DEF ShapeInv, TypeOK
  <2>2. t.todo \subseteq Instruments /\ ~t.pos.named
    BY <2>1 DEF Task, Nameless
  <2>3. PICK i \in t.todo :
            \/ Become(s, [t EXCEPT !.todo = t.todo \ {i}])
            \/ Become(s, [[t EXCEPT !.todo = t.todo \ {i}] EXCEPT
                             !.pc = "context", !.inst = i, !.pos = positions[i]])
    BY <1>3, <2>1 DEF CrashNext
  <2> DEFINE v == [t EXCEPT !.todo = t.todo \ {i}]
             w == [v EXCEPT !.pc = "context", !.inst = i, !.pos = positions[i]]
  <2>4. v.pos = t.pos /\ w.pos = positions[i]
    <3>1. v.pos = t.pos /\ DOMAIN v = DOMAIN t /\ {"pc", "inst", "pos"} \subseteq DOMAIN t
      BY <2>1 DEF Task
    <3> HIDE DEF v
    <3> QED BY <3>1
  <2>5. ~v.pos.named /\ ~w.pos.named
    BY <2>2, <2>4 DEF Nameless
  <2>6. Become(s, v) \/ Become(s, w)
    BY <2>3
  <2> HIDE DEF v, w
  <2> QED BY <1>1, <2>5, <2>6, TaskNameless
<1> QED BY <1>2, <1>3

LEMMA PipelineNameless ==
  ASSUME ShapeInv, Nameless, NEW s \in Slots,
         \/ NoContext(s) \/ CheckRisk(s) \/ OtherLimit(s) \/ ExecuteLive(s)
         \/ VenueRefuses(s) \/ Decided(s)
  PROVE  Nameless'
<1>1. UNCHANGED <<mutation, filled, rows, positions>>
  BY DEF NoContext, CheckRisk, OtherLimit, ExecuteLive, VenueRefuses, Decided, memory,
         database, stream
<1>2. PICK t : t = tasks[s] /\ t \in Task
  BY DEF ShapeInv, TypeOK
<1>3. ~t.pos.named
  BY <1>2 DEF Nameless
<1>4. PICK u \in {After(t),
                  [t EXCEPT !.pc = "wrap", !.outcome = "rejected"],
                  [t EXCEPT !.pc = "execute"],
                  [t EXCEPT !.pc = "store", !.orders = <<>>],
                  [t EXCEPT !.pc = "store", !.orders = <<>>, !.outcome = "refused"]} :
          Become(s, u)
  BY <1>2 DEF NoContext, CheckRisk, OtherLimit, ExecuteLive, VenueRefuses, Decided, End
<1>5. u = After(t) \/ u.pos = t.pos
  BY <1>2, <1>4 DEF Task
<1>6. ~u.pos.named
  BY <1>3, <1>5, AfterNameless
<1> QED BY <1>1, <1>4, <1>6, TaskNameless

LEMMA ContextNameless ==
  ASSUME ShapeInv, Nameless, NEW s \in Slots, ContextReady(s)
  PROVE  Nameless'
<1>0. PICK t, i, pos : t = tasks[s] /\ i = t.inst /\ pos = IF t.kind = "crash" THEN t.pos ELSE positions[i]
  OBVIOUS
<1>1. t \in Task /\ i \in Instruments
  BY <1>0 DEF ShapeInv, TypeOK, TaskOK, ContextReady, Working
<1>2. UNCHANGED <<mutation, filled, rows, positions>>
  BY DEF ContextReady, database, stream
<1>3. ~pos.named
  BY <1>0, <1>1 DEF Nameless
<1>4. CASE End(s)
  BY <1>0, <1>2, <1>4, AfterNameless, TaskNameless DEF End
<1>5. CASE ~End(s)
  <2> DEFINE orders == PlanDecision(t.intent, t.size, pos.net)
             p == IF orders = <<>> THEN "wrap" ELSE "risk"
             o == IF orders = <<>> THEN "noop" ELSE "none"
             u == [t EXCEPT !.pc = p, !.pos = pos, !.result = pos.net,
                            !.orders = orders, !.outcome = o]
  <2>1. Become(s, u)
    BY <1>0, <1>5 DEF ContextReady
  <2>2. u.pos = pos
    <3> HIDE DEF p, orders, o
    <3> QED BY <1>0, <1>1 DEF Task
  <2> HIDE DEF u
  <2> QED BY <1>2, <1>3, <2>1, <2>2, TaskNameless
<1> QED BY <1>4, <1>5

LEMMA SetNameless ==
  ASSUME ShapeInv, NEW i \in Instruments, NEW p, SetPosition(i, p), ~p.named,
         \A j \in Instruments : ~positions[j].named
  PROVE  \A j \in Instruments : ~positions'[j].named
<1>1. positions \in [Instruments -> Pos]
  BY DEF ShapeInv, TypeOK, Pos
<1> QED BY <1>1, IdleNameless DEF SetPosition

LEMMA UpsertNameless ==
  ASSUME NEW r \in [{"named", "unnamed"} -> Row], NEW p \in Pos, NEW l, ~p.named
  PROVE  /\ Upsert(r, p, l)["unnamed"].net = p.net
         /\ Upsert(r, p, l)["named"] = r["named"]
<1>1. Upsert(r, p, l)["unnamed"].net = p.net
  BY UpsertNet DEF Key
<1> DEFINE kept == IF l # "none" THEN l
                   ELSE IF Side(r["unnamed"].net) = Side(p.net) THEN r["unnamed"].levels
                   ELSE "none"
           x == IF p.net = 0 THEN NoRow ELSE [net |-> p.net, levels |-> kept]
<1>2. Upsert(r, p, l) = [r EXCEPT !["unnamed"] = x]
  BY DEF Upsert, Promoted
<1> HIDE DEF x
<1> QED BY <1>1, <1>2

(* The row of i is written with the position that has been recorded. *)
LEMMA WrittenNameless ==
  ASSUME ShapeInv, Nameless, NEW i \in Instruments, NEW p \in Pos, NEW l, ~p.named,
         p.net = filled[i], rows' = [rows EXCEPT ![i] = Upsert(@, p, l)], filled' = filled,
         mutation' = mutation \/ (Updating(i) /\ mutation'.pc = "idle")
  PROVE  \A j \in Instruments : /\ rows'[j]["named"].net = 0
                                /\ Updating(j)' \/ rows'[j]["unnamed"].net = filled'[j]
<1>1. rows \in [Instruments -> [{"named", "unnamed"} -> Row]]
  BY DEF ShapeInv, TypeOK, Row
<1>2. /\ rows'[i]["unnamed"].net = p.net /\ rows'[i]["named"] = rows[i]["named"]
      /\ \A j \in Instruments \ {i} : rows'[j] = rows[j]
  <2>1. rows'[i] = Upsert(rows[i], p, l) /\ rows[i] \in [{"named", "unnamed"} -> Row]
    BY <1>1
  <2> QED BY <1>1, <2>1, UpsertNameless
<1> QED BY <1>2 DEF Nameless, Updating

LEMMA StoredNameless ==
  ASSUME ShapeInv, LiveBooks, Nameless, NamelessClean', mode' = mode, NEW s \in Slots, Stored(s)
  PROVE  Nameless'
<1>0. PICK t, i, p : /\ t = tasks[s] /\ i = t.inst
                     /\ p = [net |-> t.result, named |-> PassesId(t) \/ positions[i].named]
  OBVIOUS
<1>1. /\ t \in Task /\ i \in Instruments /\ InMemory /\ t.result = positions[i].net
      /\ ~t.pos.named
  <2>1. t.pc = "store" /\ Holds(tasks[s])
    BY <1>0 DEF Stored, Holds
  <2>2. InMemory
    BY <1>0, <2>1, AtWorkLive
  <2>3. t.result = positions[i].net
    BY <1>0, <2>1 DEF LiveBooks, Knows
  <2> QED BY <1>0, <2>1, <2>2, <2>3, HolderWorks DEF Nameless
<1>2. /\ UNCHANGED <<filled, mutation>> /\ SetPosition(i, p)
      /\ rows' = [rows EXCEPT ![i] = Upsert(@, p, NewLevels(t))]
  BY <1>0 DEF Stored, stream
<1>3. ~PassesId(t)
  <2>1. (IF PassesId(t) /\ mode = "live" THEN {"live_exit"} ELSE {}) \cap NamelessKinds = {}
    BY <1>0, NamelessNotes DEF Stored
  <2> QED BY <2>1 DEF NamelessKinds, NamelessClean
<1>4. p \in Pos /\ p.net = filled[i] /\ ~p.named
  <2>1. t.result \in Int
    BY <1>1 DEF Task
  <2>2. (PassesId(t) \/ positions[i].named) \in BOOLEAN
    OBVIOUS
  <2>3. p \in Pos
    BY <1>0, <2>1, <2>2, Zenon DEF Pos
  <2>4. p.net = t.result
    BY <1>0, Zenon
  <2>5. p.named <=> (PassesId(t) \/ positions[i].named)
    BY <1>0, Zenon
  <2> QED BY <1>1, <1>3, <2>3, <2>4, <2>5 DEF Nameless, LiveBooks
<1>5. \A j \in Instruments : ~positions'[j].named
  BY <1>1, <1>2, <1>4, SetNameless DEF Nameless
<1>6. \A j \in Instruments : /\ rows'[j]["named"].net = 0
                             /\ Updating(j)' \/ rows'[j]["unnamed"].net = filled'[j]
  BY <1>1, <1>2, <1>4, WrittenNameless
<1>7. \A r \in Slots : ~tasks'[r].pos.named
  <2> DEFINE o == IF t.outcome = "none" THEN "ok" ELSE t.outcome
             u == [t EXCEPT !.pc = "wrap", !.outcome = o]
  <2>1. Become(s, u)
    BY <1>0, <1>1 DEF Stored, Task
  <2>2. u.pos = t.pos
    <3> HIDE DEF o
    <3> QED BY <1>0, <1>1 DEF Task
  <2> HIDE DEF u
  <2> QED BY <1>1, <2>1, <2>2 DEF Become, ShapeInv, TypeOK, Nameless
<1> QED BY <1>2, <1>5, <1>6, <1>7 DEF Nameless

LEMMA ExitDoneNameless ==
  ASSUME ShapeInv, Nameless, NEW s \in Slots, ExitDone(s)
  PROVE  Nameless'
<1>0. PICK t, i, w : t = tasks[s] /\ i = t.inst /\ w = Written(t)
  OBVIOUS
<1>1. i \in Instruments /\ ~w.named
  <2>1. Holds(tasks[s])
    BY DEF ExitDone, Holds
  <2>2. w.named = t.pos.named
    BY <1>0 DEF Written
  <2> QED BY <1>0, <2>1, <2>2, HolderWorks DEF Nameless
<1>2. /\ UNCHANGED <<filled, rows, mutation>> /\ SetPosition(i, w) /\ Become(s, After(t))
  BY <1>0 DEF ExitDone, End, database, stream
<1>3. \A j \in Instruments : ~positions'[j].named
  BY <1>1, <1>2, SetNameless DEF Nameless
<1>4. \A r \in Slots : ~tasks'[r].pos.named
  BY <1>2, AfterNameless DEF Become, ShapeInv, TypeOK, Nameless
<1> QED BY <1>2, <1>3, <1>4 DEF Nameless, Updating

LEMMA StreamNameless ==
  ASSUME ShapeInv, LiveBooks, Nameless, TakeFill \/ FillRecorded \/ TakePosition \/ RowUpdated
  PROVE  Nameless'
<1>1. UNCHANGED tasks
  BY DEF TakeFill, FillRecorded, TakePosition, RowUpdated
<1>2. CASE TakeFill
  <2>1. PICK m : m = Head(queue)
    OBVIOUS
  <2>2. /\ mutation'.pos = Filled(positions[m.inst], m.qty) /\ mutation.pc = "idle"
        /\ m.inst \in Instruments /\ UNCHANGED <<filled, rows, positions>>
    BY <1>2, <2>1, HeadOfQueue DEF TakeFill, database
  <2>3. ~mutation'.pos.named
    <3>1. positions[m.inst] \in Pos
      BY <2>2 DEF ShapeInv, TypeOK, Pos
    <3>2. Filled(positions[m.inst], m.qty).named = positions[m.inst].named
      BY <3>1 DEF Filled, Pos
    <3> QED BY <2>2, <3>2 DEF Nameless
  <2> QED BY <1>1, <2>2, <2>3 DEF Nameless, Updating
<1>3. CASE FillRecorded
  <2>1. PICK m, i : m = mutation /\ i = m.inst
    OBVIOUS
  <2>2. /\ i \in Instruments /\ m.pc = "insert" /\ UNCHANGED rows
        /\ filled' = [filled EXCEPT ![i] = @ + m.qty] /\ filled \in [Instruments -> Int]
        /\ SetPosition(i, m.pos) /\ mutation' = [m EXCEPT !.pc = "upsert"]
    BY <1>3, <2>1 DEF FillRecorded, ApplyToMap, ShapeInv, TypeOK
  <2>3. mutation'.pc = "upsert" /\ mutation'.inst = i /\ mutation'.pos = m.pos
    BY <2>1, <2>2 DEF ShapeInv, TypeOK
  <2>4. \A j \in Instruments \ {i} : filled'[j] = filled[j]
    BY <2>2
  <2>5. \A j \in Instruments : ~positions'[j].named
    BY <2>1, <2>2, SetNameless DEF Nameless
  <2> QED BY <1>1, <2>1, <2>2, <2>3, <2>4, <2>5 DEF Nameless, Updating
<1>4. CASE TakePosition
  <2>1. PICK m, i, p : /\ m = Head(queue) /\ i = m.inst
                       /\ p = [net |-> m.qty, named |-> positions[i].named]
    OBVIOUS
  <2>2. /\ i \in Instruments /\ mutation.pc = "idle" /\ UNCHANGED <<rows, filled>>
        /\ SetPosition(i, p) /\ mutation'.pos = p
    BY <1>4, <2>1, HeadOfQueue DEF TakePosition, ApplyToMap, database
  <2>3. ~p.named
    BY <2>1, <2>2 DEF Nameless
  <2>4. \A j \in Instruments : ~positions'[j].named
    BY <2>2, <2>3, SetNameless DEF Nameless
  <2> QED BY <1>1, <2>2, <2>3, <2>4 DEF Nameless, Updating
<1>5. CASE RowUpdated
  <2>1. PICK m, i, p : m = mutation /\ i = m.inst /\ p = m.pos
    OBVIOUS
  <2>2. /\ Updating(i) /\ i \in Instruments /\ p \in Pos /\ ~p.named /\ p.net = filled[i]
    BY <1>5, <2>1 DEF RowUpdated, ShapeInv, TypeOK, Pos, LiveBooks, InMemory, Nameless, Updating
  <2>3. /\ rows' = [rows EXCEPT ![i] = Upsert(@, p, "none")] /\ mutation' = NoMutation
        /\ UNCHANGED <<positions, filled>>
    BY <1>5, <2>1 DEF RowUpdated, memory
  <2>4. mutation'.pc = "idle" /\ ~mutation'.pos.named
    BY <2>3, NoMutationType, IdleNameless
  <2>5. \A j \in Instruments : /\ rows'[j]["named"].net = 0
                               /\ Updating(j)' \/ rows'[j]["unnamed"].net = filled'[j]
    BY <2>2, <2>3, <2>4, WrittenNameless
  <2> QED BY <1>1, <2>3, <2>4, <2>5 DEF Nameless
<1> QED BY <1>2, <1>3, <1>4, <1>5

LEMMA StopNameless ==
  ASSUME ShapeInv, LiveClean', Nameless, NEW k, Note(Torn) \/ Fault(k, Torn),
         UNCHANGED <<positions, rows, filled>>,
         mutation' = mutation \/ mutation' = NoMutation,
         \A s \in Slots : tasks'[s] = tasks[s] \/ tasks'[s] = IdleTask
  PROVE  Nameless'
<1>1. mutation.pc = "idle"
  <2>1. Torn \cap Misread = {}
    BY LiveNotes
  <2> QED BY <2>1 DEF Torn, Misread
<1> QED BY <1>1, IdleNameless DEF Nameless, Updating

LEMMA LifeNameless ==
  ASSUME ShapeInv, Nameless, StartActor \/ Recover
  PROVE  Nameless'
<1>1. UNCHANGED <<tasks, mutation, rows, filled>>
  BY DEF StartActor, Recover, database, stream
<1>2. \A i \in Instruments : ~positions'[i].named
  <2>1. CASE StartActor
    BY <2>1, IdleNameless DEF StartActor
  <2>2. CASE Recover
    <3> TAKE i \in Instruments
    <3>1. PICK c \in RowChoices : Rehydrate(c)
      BY <2>2 DEF Recover
    <3>2. c[i] # "named"
      BY <3>1 DEF RowChoices, OpenRows, Nameless
    <3>3. positions'[i] = IF c[i] = "none" THEN positions[i]
                          ELSE [net |-> rows[i][c[i]].net, named |-> c[i] = "named"]
      BY <3>1 DEF Rehydrate
    <3>4. (c[i] = "named") = FALSE
      BY <3>2
    <3>5. CASE c[i] = "none"
      BY <3>3, <3>5 DEF Nameless
    <3>6. CASE c[i] # "none"
      <4>1. positions'[i] = [net |-> rows[i][c[i]].net, named |-> FALSE]
        BY <3>3, <3>4, <3>6, Zenon
      <4> QED BY <4>1
    <3> QED BY <3>5, <3>6
  <2> QED BY <2>1, <2>2
<1> QED BY <1>1, <1>2 DEF Nameless, Updating

LEMMA InitNameless == Init => NamelessInv
<1> SUFFICES ASSUME Init PROVE Nameless
  BY DEF NamelessInv
<1> QED BY IdleNameless DEF Init, Nameless, NoRow, Flat

LEMMA NextNameless == ShapeInv /\ LiveInv /\ NamelessInv /\ [Next]_vars => NamelessInv'
<1> SUFFICES ASSUME ShapeInv, LiveInv, NamelessInv, [Next]_vars, NamelessClean'
    PROVE Nameless'
  BY DEF NamelessInv
<1>1. mode' = mode /\ mode = "live" /\ LiveClean'
  BY ModeFixed DEF NamelessClean, LiveClean, NamelessKinds, Excused
<1>2. ASSUME NEW S, NEW k, Note(S) \/ Fault(k, S) \/ happened' = happened
      PROVE  LiveBooks /\ Nameless
  BY <1>1, <1>2, NamelessBefore, NamelessLast DEF LiveInv, NamelessInv
<1>3. CASE \E s \in Slots : WriteFails(s) \/ MutationFails(s) \/ ExecutionTimesOut(s)
  <2>1. PICK k, S : Fault(k, S) /\ S \cap Misread # {}
    BY <1>3 DEF WriteFails, MutationFails, ExecutionTimesOut, Misread
  <2> QED BY <1>1, <2>1, LiveNotes
<1>4. CASE RehydrationFails
  <2>1. {"untold"} \cap Misread = {}
    BY <1>1, <1>4, LiveNotes DEF RehydrationFails
  <2> QED BY <2>1 DEF Misread
<1>5. CASE \E s \in Slots : ExecutePaper(s)
  BY <1>1, <1>5 DEF ExecutePaper
<1>6. CASE \E s \in Slots : \/ ContextReady(s) \/ NoContext(s) \/ CheckRisk(s) \/ OtherLimit(s)
                            \/ ExecuteLive(s) \/ VenueRefuses(s) \/ FillStored(s)
                            \/ Stored(s) \/ Decided(s) \/ ExitDone(s)
  <2>1. PICK S, k : Note(S) \/ Fault(k, S) \/ happened' = happened
    BY <1>6 DEF ContextReady, NoContext, CheckRisk, OtherLimit, ExecuteLive, VenueRefuses,
                FillStored, Stored, Decided, ExitDone
  <2>2. LiveBooks /\ Nameless
    BY <1>2, <2>1
  <2> QED BY <1>1, <1>6, <2>2, ContextNameless, PipelineNameless, NoFillLive,
             StoredNameless, ExitDoneNameless
<1>7. CASE \E s \in Slots : StreamCloses(s) \/ CrashNext(s)
  <2>1. PICK S, k : Note(S) \/ Fault(k, S) \/ happened' = happened
    BY <1>7 DEF StreamCloses, CrashNext
  <2>2. Nameless
    BY <1>2, <2>1
  <2> QED BY <1>7, <2>2, CrashNameless
<1>8. CASE \E s \in Slots : CrashEnds(s)
  <2>1. PICK s \in Slots : CrashEnds(s)
    BY <1>8
  <2>2. /\ Note(Torn) /\ Become(s, IdleTask) /\ UNCHANGED <<positions, rows, filled, mutation>>
    BY <2>1 DEF CrashEnds, memory, database
  <2>3. Nameless
    BY <1>2, <2>2
  <2>4. \A r \in Slots : tasks'[r] = tasks[r] \/ tasks'[r] = IdleTask
    BY <2>2 DEF Become, ShapeInv, TypeOK
  <2> QED BY <1>1, <2>2, <2>3, <2>4, StopNameless
<1>9. CASE \E s \in Slots, i \in Instruments :
             Submit(s, i) \/ StopLossAtIntake(s, i) \/ MonitorLevels(s, i) \/ ScanExit(s, i)
  <2>1. PICK S, k : Note(S) \/ Fault(k, S) \/ happened' = happened
    BY <1>9 DEF Submit, StopLossAtIntake, MonitorLevels, ScanExit, StartExit
  <2>2. Nameless
    BY <1>2, <2>1
  <2> QED BY <1>9, <2>2, StartNameless
<1>10. CASE TakeFill \/ FillRecorded \/ TakePosition \/ RowUpdated
  <2>1. PICK S, k : Note(S) \/ Fault(k, S) \/ happened' = happened
    BY <1>10 DEF TakeFill, FillRecorded, TakePosition, RowUpdated
  <2>2. LiveBooks /\ Nameless
    BY <1>2, <2>1
  <2> QED BY <1>10, <2>2, StreamNameless
<1>11. CASE StreamDrops \/ StreamReconnects \/ UNCHANGED vars
  <2>1. UNCHANGED <<tasks, mutation, positions, rows, filled>>
    BY <1>11 DEF StreamDrops, StreamReconnects, vars, memory, database, stream
  <2>2. PICK S, k : Note(S) \/ Fault(k, S) \/ happened' = happened
    BY <1>11 DEF StreamDrops, StreamReconnects, vars
  <2>3. Nameless
    BY <1>2, <2>2
  <2> QED BY <2>1, <2>3 DEF Nameless, Updating
<1>12. CASE StopActor \/ ProcessDies
  <2>1. PICK k : Note(Torn) \/ Fault(k, Torn)
    BY <1>12 DEF StopActor, ProcessDies
  <2>2. Nameless
    BY <1>2, <2>1
  <2>3. /\ UNCHANGED <<positions, rows, filled>>
        /\ mutation' = mutation \/ mutation' = NoMutation
        /\ \A r \in Slots : tasks'[r] = tasks[r] \/ tasks'[r] = IdleTask
    BY <1>12 DEF StopActor, ProcessDies, memory, database
  <2> QED BY <1>1, <2>1, <2>2, <2>3, StopNameless
<1>13. CASE StartActor \/ Recover
  <2>1. PICK S, k : Note(S) \/ Fault(k, S) \/ happened' = happened
    BY <1>13 DEF StartActor, Recover
  <2>2. Nameless
    BY <1>2, <2>1
  <2> QED BY <1>13, <2>2, LifeNameless
<1> QED BY <1>3, <1>4, <1>5, <1>6, <1>7, <1>8, <1>9, <1>10, <1>11, <1>12, <1>13
        DEF Next, Pipeline

LEMMA NamelessKept == Spec => [](ShapeInv /\ LiveInv /\ NamelessInv)
<1>1. ShapeInv /\ LiveInv /\ NamelessInv /\ [Next]_vars => NamelessInv'
  BY NextNameless
<1> QED BY <1>1, LiveKept, InitNameless, PTL DEF Spec

(* ... and the position table has one open row for it, or none, in either   *)
(* mode, as long as no exit of live mode has stored a position with an id.  *)
THEOREM RowsAreTrue == Spec => []RowsTrue
<1>1. ShapeInv /\ LiveInv /\ NamelessInv /\ (mode = "paper" => RowsTrue) => RowsTrue
  <2> SUFFICES ASSUME ShapeInv, LiveInv, NamelessInv, mode # "paper",
                      ~Excused(NamelessKinds), NEW i \in Instruments, AtRest(i)
      PROVE  /\ Cardinality(OpenRows(i)) = IF positions[i].net = 0 THEN 0 ELSE 1
             /\ \A k \in OpenRows(i) : rows[i][k].net = positions[i].net
    BY DEF RowsTrue, NamelessKinds
  <2>1. LiveBooks /\ Nameless
    BY TradingAssumption, NamelessLast
       DEF LiveInv, NamelessInv, NamelessClean, ShapeInv, TypeOK
  <2>2. positions[i].net = filled[i]
    BY <2>1 DEF LiveBooks, InMemory, AtRest
  <2>3. rows[i]["unnamed"].net = filled[i] /\ rows[i]["named"].net = 0
    BY <2>1 DEF Nameless, AtRest, StreamBehind, Updating
  <2>4. CASE positions[i].net = 0
    <3>1. OpenRows(i) = {}
      BY <2>2, <2>3, <2>4 DEF OpenRows
    <3> QED BY <2>4, <3>1, FS_EmptySet
  <2>5. CASE positions[i].net # 0
    <3>1. OpenRows(i) = {"unnamed"}
      BY <2>2, <2>3, <2>5 DEF OpenRows
    <3> QED BY <2>2, <2>3, <2>5, <3>1, FS_Singleton
  <2> QED BY <2>4, <2>5
<1> QED BY <1>1, NamelessKept, PaperRowsAreTrue, PTL

-----------------------------------------------------------------------------
(* What is sent to the venue in live mode.  Who is about to send, and the   *)
(* emergency exit as soon as it has read the position, is alone on its      *)
(* instrument and has nothing of it before it on the stream; so the orders  *)
(* are planned from what is really held.                                    *)
Sends(t) == t.pc \in {"risk", "execute"} \/ (t.pc = "context" /\ t.kind = "crash")

Ready(t) ==
    /\ ~StreamBehind(t.inst)
    /\ t.pc \in {"risk", "execute"} =>
          /\ t.result = t.pos.net
          /\ t.orders = PlanDecision(t.intent, t.size, t.pos.net)
    /\ t.pc = "execute" => ~LimitBlocks(t)

SendBooks == OneHolder /\ \A s \in Slots : Sends(tasks[s]) => Ready(tasks[s])
SendInv == LiveClean => SendBooks

LEMMA SendsHolds == ASSUME NEW t, Sends(t) PROVE Holds(t)
  BY DEF Sends, Holds

LEMMA SendStep ==
  ASSUME ShapeInv, SendBooks, NEW s \in Slots, NEW u, Become(s, u),
         \A i \in Instruments : StreamBehind(i)' =>
             StreamBehind(i) \/ (Holds(tasks[s]) /\ tasks[s].inst = i),
         Holds(u) => Free(s, u.inst), Sends(u) => Ready(u)'
  PROVE  SendBooks'
<1>1. tasks'[s] = u /\ \A r \in Slots \ {s} : tasks'[r] = tasks[r]
  BY DEF ShapeInv, TypeOK, Become
<1>2. OneHolder'
  BY <1>1 DEF SendBooks, OneHolder, Free
<1>3. ASSUME NEW r \in Slots, Sends(tasks'[r]) PROVE Ready(tasks[r])'
  <2>1. CASE r = s
    BY <1>1, <1>3, <2>1 DEF Ready, StreamBehind
  <2>2. CASE r # s
    <3>1. tasks'[r] = tasks[r] /\ Sends(tasks[r]) /\ Holds(tasks[r]) /\ Ready(tasks[r])
      BY <1>1, <1>3, <2>2, SendsHolds DEF SendBooks
    <3>2. PICK i \in Instruments : i = tasks[r].inst
      BY <3>1, HolderWorks
    <3>3. ~(Holds(tasks[s]) /\ tasks[s].inst = i)
      BY <2>2, <3>1, <3>2 DEF SendBooks, OneHolder
    <3>4. ~StreamBehind(i)'
      BY <3>1, <3>2, <3>3 DEF Ready
    <3> QED BY <3>1, <3>2, <3>4 DEF Ready, StreamBehind
  <2> QED BY <2>1, <2>2
<1> QED BY <1>2, <1>3 DEF SendBooks

(* A step that only ends activities and takes from the stream. *)
LEMMA SendFrame ==
  ASSUME ShapeInv, SendBooks, \A r \in Slots : tasks'[r] = tasks[r] \/ ~Holds(tasks'[r]),
         \A i \in Instruments : StreamBehind(i)' => StreamBehind(i)
  PROVE  SendBooks'
<1>1. OneHolder'
  BY DEF SendBooks, OneHolder
<1>2. ASSUME NEW r \in Slots, Sends(tasks'[r]) PROVE Ready(tasks[r])'
  <2>1. tasks'[r] = tasks[r]
    BY <1>2, SendsHolds
  <2>2. Holds(tasks[r]) /\ Ready(tasks[r])
    BY <1>2, <2>1, SendsHolds DEF SendBooks
  <2>3. PICK i \in Instruments : i = tasks[r].inst
    BY <2>2, HolderWorks
  <2>4. ~StreamBehind(i)'
    BY <2>2, <2>3 DEF Ready
  <2> QED BY <2>1, <2>2, <2>3, <2>4 DEF Ready, StreamBehind
<1> QED BY <1>1, <1>2 DEF SendBooks

LEMMA AloneHolder ==
  ASSUME SendBooks, NEW s \in Slots, Holds(tasks[s])
  PROVE  Free(s, tasks[s].inst)
  BY DEF SendBooks, OneHolder, Free

LEMMA StartSend ==
  ASSUME ShapeInv, SendBooks, NEW s \in Slots, NEW i \in Instruments,
         Submit(s, i) \/ StopLossAtIntake(s, i) \/ MonitorLevels(s, i) \/ ScanExit(s, i)
  PROVE  SendBooks'
<1>1. PICK u : Become(s, u) /\ ~Holds(u)
  BY StartHoldsNot
<1>2. UNCHANGED <<queue, mutation>>
  BY DEF Submit, StopLossAtIntake, MonitorLevels, ScanExit, StartExit, stream
<1>3. ~Sends(u) /\ \A j \in Instruments : StreamBehind(j)' => StreamBehind(j)
  BY <1>1, <1>2, SendsHolds DEF StreamBehind
<1> QED BY <1>1, <1>3, SendStep

(* fetchMark has answered: with nobody else on the instrument and nothing   *)
(* on the stream, or the read has noted that it crossed.                    *)
LEMMA ContextSend ==
  ASSUME ShapeInv, SendBooks, LiveClean', NEW s \in Slots, ContextReady(s)
  PROVE  SendBooks'
<1>0. PICK t, i, pos : t = tasks[s] /\ i = t.inst /\ pos = IF t.kind = "crash" THEN t.pos ELSE positions[i]
  OBVIOUS
<1>1. t \in Task /\ i \in Instruments /\ t.pc = "context"
  BY <1>0 DEF ShapeInv, TypeOK, TaskOK, ContextReady, Working
<1>2. UNCHANGED <<queue, mutation>>
  BY DEF ContextReady, stream
<1>3. \A j \in Instruments : StreamBehind(j)' <=> StreamBehind(j)
  BY <1>2 DEF StreamBehind
<1>4. CASE End(s)
  <2>1. Become(s, After(t)) /\ ~Holds(After(t)) /\ ~Sends(After(t))
    BY <1>0, <1>4, AfterHoldsNot, SendsHolds DEF End
  <2> QED BY <1>3, <2>1, SendStep
<1>5. CASE ~End(s)
  <2> DEFINE orders == PlanDecision(t.intent, t.size, pos.net)
             p == IF orders = <<>> THEN "wrap" ELSE "risk"
             o == IF orders = <<>> THEN "noop" ELSE "none"
             u == [t EXCEPT !.pc = p, !.pos = pos, !.result = pos.net,
                            !.orders = orders, !.outcome = o]
  <2>1. Become(s, u) /\ Note(IF t.kind = "crash" THEN {} ELSE ReadRaces(s, i))
    BY <1>0, <1>5 DEF ContextReady
  <2>2. /\ u.pc = p /\ u.inst = i /\ u.result = pos.net /\ u.pos = pos /\ u.orders = orders
        /\ u.intent = t.intent /\ u.size = t.size
    <3> HIDE DEF p, orders, o
    <3> QED BY <1>0, <1>1 DEF Task
  <2>3. u.pc \in {"risk", "wrap"}
    BY <2>2
  <2>4. Free(s, i) /\ ~StreamBehind(i)
    <3>1. CASE t.kind = "crash"
      <4>1. Sends(tasks[s]) /\ Holds(tasks[s])
        BY <1>0, <1>1, <3>1 DEF Sends, Holds
      <4> QED BY <1>0, <4>1, AloneHolder DEF SendBooks, Ready
    <3>2. CASE t.kind # "crash"
      <4>1. ReadRaces(s, i) \cap Misread = {}
        BY <2>1, <3>2, LiveNotes
      <4>2. Rivals(s, i) = {} /\ ~StreamBehind(i)
        BY <4>1 DEF ReadRaces, Misread
      <4> QED BY <1>0, <4>2, NoRivals
    <3> QED BY <3>1, <3>2
  <2> HIDE DEF u
  <2>5. ~StreamBehind(i)'
    BY <1>1, <1>3, <2>4
  <2>6. Ready(u)'
    BY <2>2, <2>3, <2>5 DEF Ready, StreamBehind
  <2> QED BY <1>3, <2>1, <2>2, <2>4, <2>6, SendStep
<1> QED BY <1>4, <1>5

LEMMA RiskSend ==
  ASSUME ShapeInv, SendBooks, NEW s \in Slots,
         CheckRisk(s) \/ OtherLimit(s) \/ VenueRefuses(s) \/ Stored(s)
  PROVE  SendBooks'
<1>0. PICK t : t = tasks[s]
  OBVIOUS
<1>1. t \in Task /\ t.pc \in {"risk", "execute", "store"} /\ Holds(tasks[s]) /\ UNCHANGED <<queue, mutation>>
  BY <1>0 DEF ShapeInv, TypeOK, CheckRisk, OtherLimit, VenueRefuses, Stored, Holds, stream
<1>2. \A j \in Instruments : StreamBehind(j)' => StreamBehind(j)
  BY <1>1 DEF StreamBehind
<1>3. CASE CheckRisk(s) /\ ~LimitBlocks(t) /\ Become(s, [t EXCEPT !.pc = "execute"])
  <2> DEFINE u == [t EXCEPT !.pc = "execute"]
  <2>1. t.pc = "risk" /\ Sends(tasks[s])
    BY <1>0, <1>3 DEF CheckRisk, Sends
  <2>2. Ready(t)
    BY <1>0, <2>1 DEF SendBooks
  <2>3. /\ u.pc = "execute" /\ u.inst = t.inst /\ u.result = t.result /\ u.pos = t.pos
        /\ u.orders = t.orders /\ u.intent = t.intent /\ u.size = t.size /\ u.count = t.count
    BY <1>1 DEF Task
  <2> HIDE DEF u
  <2>4. ~LimitBlocks(u)
    BY <1>3, <2>3 DEF LimitBlocks, Opens
  <2>5. Ready(u)'
    BY <1>1, <2>1, <2>2, <2>3, <2>4 DEF Ready, StreamBehind, LimitBlocks, Opens
  <2> QED BY <1>0, <1>1, <1>2, <1>3, <2>3, <2>5, AloneHolder, SendStep DEF u
<1>4. CASE ~(CheckRisk(s) /\ ~LimitBlocks(t) /\ Become(s, [t EXCEPT !.pc = "execute"]))
  <2>1. PICK o, u : /\ Become(s, u)
                    /\ u \in {[t EXCEPT !.pc = "wrap", !.outcome = o],
                              [t EXCEPT !.pc = "store", !.orders = <<>>, !.outcome = "refused"]}
    BY <1>0, <1>4 DEF CheckRisk, OtherLimit, VenueRefuses, Stored
  <2>2. u.pc \in {"wrap", "store"} /\ u.inst = t.inst
    BY <1>1, <2>1 DEF Task
  <2>3. ~Sends(u)
    BY <2>2 DEF Sends
  <2> QED BY <1>0, <1>1, <1>2, <2>1, <2>2, <2>3, AloneHolder, SendStep
<1> QED BY <1>3, <1>4

(* The venue reports on the instrument that was traded only.                *)
LEMMA ReportsOn ==
  ASSUME ShapeInv, NEW s \in Slots, tasks[s].pc = "execute", NEW q \in Reports(tasks[s]),
         NEW n \in DOMAIN q
  PROVE  q[n].inst = tasks[s].inst
<1>0. PICK t, i, o : t = tasks[s] /\ i = t.inst /\ o = t.orders
  OBVIOUS
<1>1. i \in Instruments /\ o \in Seq(Int) /\ executed[i] + Total(o) \in Int
  <2>1. i \in Instruments /\ o \in Seq(Int) /\ Len(o) <= 2
    BY <1>0, AtHand
  <2>2. Total(o) \in Int /\ executed[i] \in Int
    BY <2>1, TotalType DEF ShapeInv, TypeOK
  <2> QED BY <2>1, <2>2
<1> DEFINE fill(d) == [kind |-> "fill", inst |-> i, qty |-> d]
           now == [kind |-> "position", inst |-> i, qty |-> executed[i] + Total(o)]
           fills == [k \in DOMAIN o |-> fill(o[k])]
           On == {m \in Message : m.inst = i}
<1>2. fills \in Seq(On) /\ now \in On
  <2>1. Len(o) \in Nat /\ DOMAIN o = 1..Len(o) /\ \A k \in 1..Len(o) : o[k] \in Int
    BY <1>1, LenProperties
  <2>2. \A d \in Int : fill(d) \in On
    BY <1>1 DEF Message
  <2>3. now \in On
    BY <1>1 DEF Message
  <2> HIDE DEF fill, now, On
  <2>4. fills \in [1..Len(o) -> On]
    BY <2>1, <2>2
  <2> QED BY <2>1, <2>3, <2>4
<1>3. q \in {<<>>, fills, Append(fills, now), <<now>> \o fills}
  BY <1>0 DEF Reports
<1> HIDE DEF fills, now
<1>4. q \in Seq(On)
  <2> HIDE DEF On
  <2>1. <<>> \in Seq(On) /\ <<now>> \in Seq(On)
    BY <1>2
  <2>2. Append(fills, now) \in Seq(On)
    BY <1>2
  <2>3. <<now>> \o fills \in Seq(On)
    BY <1>2, <2>1
  <2> QED BY <1>2, <1>3, <2>1, <2>2, <2>3
<1>5. q[n] \in On
  <2> HIDE DEF On
  <2> QED BY <1>4
<1> QED BY <1>0, <1>5

LEMMA ExecuteSend ==
  ASSUME ShapeInv, SendBooks, NEW s \in Slots, ExecuteLive(s)
  PROVE  SendBooks'
<1>0. PICK t : t = tasks[s]
  OBVIOUS
<1>1. t \in Task /\ t.pc = "execute" /\ Holds(tasks[s]) /\ mutation' = mutation
  BY <1>0 DEF ShapeInv, TypeOK, ExecuteLive, Holds
<1>2. PICK q \in Reports(tasks[s]) : queue' = queue \o q
  BY DEF ExecuteLive
<1>3. ASSUME NEW j \in Instruments, StreamBehind(j)', ~StreamBehind(j) PROVE t.inst = j
  <2>1. queue \in Seq(Message) /\ q \in Seq(Message)
    BY <1>0, <1>1, <1>2, ReportsType DEF ShapeInv, TypeOK, Message
  <2>2. PICK n \in DOMAIN (queue \o q) : (queue \o q)[n].inst = j
    BY <1>1, <1>2, <1>3 DEF StreamBehind
  <2>3. CASE n \in 1..Len(queue)
    <3>1. (queue \o q)[n] = queue[n] /\ n \in DOMAIN queue
      BY <2>1, <2>3, ConcatProperties, LenProperties
    <3> QED BY <1>3, <2>2, <3>1 DEF StreamBehind
  <2>4. CASE n \notin 1..Len(queue)
    <3>1. n - Len(queue) \in DOMAIN q /\ (queue \o q)[n] = q[n - Len(queue)]
      BY <2>1, <2>2, <2>4, ConcatProperties, LenProperties
    <3> QED BY <1>0, <1>1, <2>2, <3>1, ReportsOn
  <2> QED BY <2>3, <2>4
<1> DEFINE u == [t EXCEPT !.pc = "store", !.orders = <<>>]
<1>4. Become(s, u)
  BY <1>0 DEF ExecuteLive
<1>5. u.pc = "store" /\ u.inst = t.inst
  BY <1>1 DEF Task
<1> HIDE DEF u
<1>6. ~Sends(u)
  BY <1>5 DEF Sends
<1> QED BY <1>0, <1>1, <1>3, <1>4, <1>5, <1>6, AloneHolder, SendStep

(* An activity that ends. *)
LEMMA EndSend ==
  ASSUME ShapeInv, SendBooks, NEW s \in Slots, NoContext(s) \/ Decided(s) \/ ExitDone(s)
  PROVE  SendBooks'
<1>1. Become(s, After(tasks[s])) /\ UNCHANGED <<queue, mutation>>
  BY DEF NoContext, Decided, ExitDone, End, stream
<1>2. PICK u : u = After(tasks[s])
  OBVIOUS
<1>3. ~Holds(u) /\ ~Sends(u) /\ \A j \in Instruments : StreamBehind(j)' => StreamBehind(j)
  BY <1>1, <1>2, AfterHoldsNot, SendsHolds DEF StreamBehind
<1> QED BY <1>1, <1>2, <1>3, SendStep

(* The emergency exit of a crash reads the position before the mark. *)
LEMMA CrashSend ==
  ASSUME ShapeInv, SendBooks, LiveClean', NEW s \in Slots, StreamCloses(s) \/ CrashNext(s)
  PROVE  SendBooks'
<1>0. PICK t : t = tasks[s]
  OBVIOUS
<1>1. UNCHANGED <<queue, mutation>>
  BY DEF StreamCloses, CrashNext, stream
<1>2. \A j \in Instruments : StreamBehind(j)' <=> StreamBehind(j)
  BY <1>1 DEF StreamBehind
<1>3. CASE StreamCloses(s)
  <2>1. PICK todo : Become(s, [IdleTask EXCEPT !.pc = "next", !.kind = "crash", !.todo = todo])
    BY <1>3 DEF StreamCloses, Crash, Begin
  <2> DEFINE u == [IdleTask EXCEPT !.pc = "next", !.kind = "crash", !.todo = todo]
  <2>2. u.pc = "next"
    BY DEF IdleTask
  <2> HIDE DEF u
  <2>3. ~Holds(u) /\ ~Sends(u)
    BY <2>2 DEF Holds, Sends
  <2> QED BY <1>2, <2>1, <2>3, SendStep DEF u
<1>4. CASE CrashNext(s)
  <2>1. t \in Task /\ t.pc = "next"
    BY <1>0, <1>4 DEF CrashNext, ShapeInv, TypeOK
  <2>2. PICK i, v, w :
            /\ i \in t.todo /\ v = [t EXCEPT !.todo = t.todo \ {i}]
            /\ w = [v EXCEPT !.pc = "context", !.inst = i, !.pos = positions[i]]
            /\ Become(s, v) \/ (Become(s, w) /\ Note(ReadRaces(s, i)))
    BY <1>0, <1>4 DEF CrashNext
  <2>3. i \in Instruments /\ v \in Task /\ v.pc = "next"
    <3>1. i \in Instruments /\ t.todo \ {i} \in SUBSET Instruments
      BY <2>1, <2>2 DEF Task
    <3>2. v \in Task
      BY <2>1, <2>2, <3>1, ZenonT(60) DEF Task
    <3> QED BY <2>1, <2>2, <3>1, <3>2 DEF Task
  <2>4. CASE Become(s, v)
    <3>1. ~Holds(v) /\ ~Sends(v)
      BY <2>3 DEF Holds, Sends
    <3> QED BY <1>2, <2>4, <3>1, SendStep
  <2>5. CASE Become(s, w) /\ Note(ReadRaces(s, i))
    <3>1. w.pc = "context" /\ w.inst = i
      BY <2>2, <2>3 DEF Task
    <3>2. Rivals(s, i) = {} /\ ~StreamBehind(i)
      <4>1. ReadRaces(s, i) \cap Misread = {}
        BY <2>5, LiveNotes
      <4> QED BY <4>1 DEF ReadRaces, Misread
    <3>3. Free(s, i)
      <4>1. ~tasks[s].guarded
        BY <1>0, <2>1 DEF ShapeInv, TaskOK, Working
      <4> QED BY <3>2, <4>1 DEF Rivals, Free
    <3>4. Ready(w)'
      BY <1>2, <2>3, <3>1, <3>2 DEF Ready, StreamBehind
    <3> QED BY <1>2, <2>5, <3>1, <3>3, <3>4, SendStep
  <2> QED BY <2>2, <2>4, <2>5
<1> QED BY <1>3, <1>4

(* The stream passes on what it holds. *)
LEMMA StreamSend ==
  ASSUME ShapeInv, SendBooks, TakeFill \/ FillRecorded \/ TakePosition \/ RowUpdated
  PROVE  SendBooks'
<1>1. tasks' = tasks
  BY DEF TakeFill, FillRecorded, TakePosition, RowUpdated
<1>2. ASSUME NEW i \in Instruments, StreamBehind(i)' PROVE StreamBehind(i)
  <2>1. CASE TakeFill \/ TakePosition
    <3>1. PICK q : q = queue
      OBVIOUS
    <3>2. q \in Seq(Message) /\ q # <<>> /\ queue' = Tail(q) /\ mutation'.inst = Head(q).inst
      <4>1. q \in Seq(Message)
        BY <3>1 DEF ShapeInv, TypeOK, Message
      <4>2. CASE TakeFill
        BY <3>1, <4>1, <4>2 DEF TakeFill
      <4>3. CASE TakePosition
        BY <3>1, <4>1, <4>3 DEF TakePosition
      <4> QED BY <2>1, <4>2, <4>3
    <3>3. Len(q) \in Nat /\ DOMAIN q = 1..Len(q) /\ 1 \in DOMAIN q /\ Head(q) = q[1]
      BY <3>2, LenProperties, EmptySeq
    <3>4. CASE mutation'.inst = i
      BY <3>1, <3>2, <3>3, <3>4 DEF StreamBehind
    <3>5. CASE mutation'.inst # i
      <4>1. PICK n \in DOMAIN Tail(q) : Tail(q)[n].inst = i
        BY <1>2, <3>2, <3>5 DEF StreamBehind
      <4>2. n + 1 \in DOMAIN q /\ Tail(q)[n] = q[n + 1]
        BY <3>2, <3>3, <4>1, HeadTailProperties, LenProperties
      <4> QED BY <3>1, <4>1, <4>2 DEF StreamBehind
    <3> QED BY <3>4, <3>5
  <2>2. CASE FillRecorded
    <3>1. mutation.pc = "insert" /\ mutation'.inst = mutation.inst /\ queue' = queue
      BY <2>2 DEF FillRecorded, ShapeInv, TypeOK
    <3> QED BY <1>2, <3>1 DEF StreamBehind
  <2>3. CASE RowUpdated
    <3>1. mutation'.pc = "idle" /\ queue' = queue
      BY <2>3, NoMutationType DEF RowUpdated
    <3> QED BY <1>2, <3>1 DEF StreamBehind
  <2> QED BY <2>1, <2>2, <2>3
<1> QED BY <1>1, <1>2, SendFrame

LEMMA HaltSend ==
  ASSUME ShapeInv, SendBooks, Halt, mutation' = mutation \/ mutation' = NoMutation,
         \A s \in Slots : tasks'[s] = tasks[s] \/ tasks'[s] = IdleTask
  PROVE  SendBooks'
<1>1. \A i \in Instruments : StreamBehind(i)' => StreamBehind(i)
  BY NoMutationType DEF Halt, StreamBehind
<1>2. \A s \in Slots : tasks'[s] = tasks[s] \/ ~Holds(tasks'[s])
  BY IdleHoldsNot
<1> QED BY <1>1, <1>2, SendFrame

LEMMA InitSend == Init => SendInv
<1> SUFFICES ASSUME Init PROVE SendBooks
  BY DEF SendInv
<1>1. \A s \in Slots : ~Holds(tasks[s]) /\ ~Sends(tasks[s])
  BY IdleHoldsNot, SendsHolds DEF Init
<1> QED BY <1>1 DEF SendBooks, OneHolder

LEMMA NextSend == ShapeInv /\ LiveInv /\ SendInv /\ [Next]_vars => SendInv'
<1> SUFFICES ASSUME ShapeInv, LiveInv, SendInv, [Next]_vars, LiveClean' PROVE SendBooks'
  BY DEF SendInv
<1>1. mode' = mode /\ mode = "live"
  BY ModeFixed DEF LiveClean
<1>2. ASSUME NEW S, NEW k, Note(S) \/ Fault(k, S) \/ happened' = happened
      PROVE  LiveBooks /\ SendBooks
  BY <1>1, <1>2, LiveBefore DEF LiveInv, SendInv
<1>3. CASE \E s \in Slots : WriteFails(s) \/ MutationFails(s) \/ ExecutionTimesOut(s)
  <2>1. PICK k, S : Fault(k, S) /\ S \cap Misread # {}
    BY <1>3 DEF WriteFails, MutationFails, ExecutionTimesOut, Misread
  <2> QED BY <2>1, LiveNotes
<1>4. CASE \E s \in Slots : ExecutePaper(s)
  BY <1>1, <1>4 DEF ExecutePaper
<1>5. CASE \E s \in Slots : \/ ContextReady(s) \/ NoContext(s) \/ CheckRisk(s) \/ OtherLimit(s)
                            \/ ExecuteLive(s) \/ VenueRefuses(s) \/ FillStored(s)
                            \/ Stored(s) \/ Decided(s) \/ ExitDone(s)
  <2>1. PICK S, k : Note(S) \/ Fault(k, S) \/ happened' = happened
    BY <1>5 DEF ContextReady, NoContext, CheckRisk, OtherLimit, ExecuteLive, VenueRefuses,
                FillStored, Stored, Decided, ExitDone
  <2>2. LiveBooks /\ SendBooks
    BY <1>2, <2>1
  <2> QED BY <1>5, <2>2, ContextSend, EndSend, RiskSend, ExecuteSend, NoFillLive
<1>6. CASE \E s \in Slots : StreamCloses(s) \/ CrashNext(s)
  <2>1. PICK S, k : Note(S) \/ Fault(k, S) \/ happened' = happened
    BY <1>6 DEF StreamCloses, CrashNext
  <2> QED BY <1>2, <1>6, <2>1, CrashSend
<1>7. CASE (\E s \in Slots : CrashEnds(s)) \/ StopActor \/ ProcessDies
  <2>1. PICK S, k : Note(S) \/ Fault(k, S) \/ happened' = happened
    BY <1>7 DEF CrashEnds, StopActor, ProcessDies
  <2>2. Halt /\ (mutation' = mutation \/ mutation' = NoMutation)
    BY <1>7 DEF CrashEnds, StopActor, ProcessDies
  <2>3. \A r \in Slots : tasks'[r] = tasks[r] \/ tasks'[r] = IdleTask
    BY <1>7 DEF CrashEnds, StopActor, ProcessDies, Become, ShapeInv, TypeOK
  <2> QED BY <1>2, <2>1, <2>2, <2>3, HaltSend
<1>8. CASE \E s \in Slots, i \in Instruments :
             Submit(s, i) \/ StopLossAtIntake(s, i) \/ MonitorLevels(s, i) \/ ScanExit(s, i)
  <2>1. PICK S, k : Note(S) \/ Fault(k, S) \/ happened' = happened
    BY <1>8 DEF Submit, StopLossAtIntake, MonitorLevels, ScanExit, StartExit
  <2> QED BY <1>2, <1>8, <2>1, StartSend
<1>9. CASE TakeFill \/ FillRecorded \/ TakePosition \/ RowUpdated
  <2>1. PICK S, k : Note(S) \/ Fault(k, S) \/ happened' = happened
    BY <1>9 DEF TakeFill, FillRecorded, TakePosition, RowUpdated
  <2> QED BY <1>2, <1>9, <2>1, StreamSend
<1>10. CASE \/ StreamDrops \/ StreamReconnects \/ StartActor \/ Recover \/ RehydrationFails
            \/ UNCHANGED vars
  <2>1. PICK S, k : Note(S) \/ Fault(k, S) \/ happened' = happened
    BY <1>10 DEF StreamDrops, StreamReconnects, StartActor, Recover, RehydrationFails, vars
  <2>2. UNCHANGED <<tasks, queue, mutation>>
    BY <1>10 DEF StreamDrops, StreamReconnects, StartActor, Recover, RehydrationFails, vars, stream
  <2>3. \A i \in Instruments : StreamBehind(i)' => StreamBehind(i)
    BY <2>2 DEF StreamBehind
  <2> QED BY <1>2, <2>1, <2>2, <2>3, SendFrame
<1> QED BY <1>3, <1>4, <1>5, <1>6, <1>7, <1>8, <1>9, <1>10 DEF Next, Pipeline

LEMMA SendKept == Spec => [](ShapeInv /\ LiveInv /\ SendInv)
<1>1. ShapeInv /\ LiveInv /\ SendInv /\ [Next]_vars => SendInv'
  BY NextSend
<1> QED BY <1>1, LiveKept, InitSend, PTL DEF Spec

(* What a live activity sends is planned from the position that is held:    *)
(* nothing of the instrument is on the stream, so that what is recorded is  *)
(* what was executed, and that is the position it has read.                 *)
LEMMA LiveSender ==
  ASSUME ShapeInv, LiveBooks, SendBooks, NEW s \in Slots, ExecuteLive(s)
  PROVE  FromHeld(tasks[s]) /\ ~LimitBlocks(tasks[s])
<1>0. PICK t, i : t = tasks[s] /\ i = t.inst
  OBVIOUS
<1>1. t.pc = "execute" /\ Sends(tasks[s]) /\ Holds(tasks[s]) /\ InMemory
  <2>1. t.pc = "execute"
    BY <1>0 DEF ExecuteLive
  <2> QED BY <1>0, <2>1, AtWorkLive DEF Sends, Holds
<1>2. t \in Task /\ i \in Instruments /\ t.orders # <<>>
  BY <1>0, <1>1, AtHand
<1>3. /\ ~StreamBehind(i) /\ t.result = t.pos.net /\ ~LimitBlocks(t)
      /\ t.orders = PlanDecision(t.intent, t.size, t.pos.net)
  BY <1>0, <1>1 DEF SendBooks, Ready
<1>4. t.result = positions[i].net /\ positions[i].net = filled[i] /\ filled[i] \in Int
  BY <1>0, <1>1, <1>2 DEF LiveBooks, Knows, ShapeInv, TypeOK
<1>5. Recorded[i] = executed[i]
  <2>1. queue \in Seq(Message) /\ \A n \in DOMAIN queue : queue[n].inst # i
    BY <1>3 DEF StreamBehind, ShapeInv, TypeOK, Message
  <2> QED BY <1>2, <2>1, LedgerSettled DEF LiveBooks
<1>6. Recorded[i] = filled[i]
  <2>1. Owes(i) = 0
    BY <1>3 DEF StreamBehind, Owes
  <2> QED BY <1>2, <1>4, <2>1 DEF Recorded
<1>7. t.size \in Nat
  <2>1. t.size \in Sizes \cup {0}
    BY <1>2 DEF Task
  <2>2. \A x \in Sizes \cup {0} : x \in Nat
    BY TradingAssumption
  <2> QED BY <2>1, <2>2, Zenon
<1>8. t.intent \in {"go_long", "go_short", "go_flat", "increase", "decrease"}
  BY <1>2, TradingAssumption DEF Task
<1> QED BY <1>0, <1>2, <1>3, <1>4, <1>5, <1>6, <1>7, <1>8 DEF FromHeld

LiveConduct ==
    mode = "live" => /\ ~Excused(Misread) => NoneTurned
                     /\ ~Excused(LimitKinds) => WithinLimit

LEMMA SilentConduct ==
  ASSUME ShapeInv, LiveConduct, mode' = mode,
         NEW S, NEW k, Note(S) \/ Fault(k, S) \/ happened' = happened,
         UNCHANGED <<executed, wrongs>>
  PROVE  LiveConduct'
<1>1. ReallyOpen' = ReallyOpen
  BY DEF ReallyOpen
<1> QED BY <1>1, KindsBefore DEF LiveConduct, NoneTurned, WithinLimit

LEMMA ExecuteConduct ==
  ASSUME ShapeInv, LiveInv, SendInv, LiveConduct, NEW s \in Slots, ExecuteLive(s)
  PROVE  LiveConduct'
<1>0. PICK t : t = tasks[s]
  OBVIOUS
<1>1. PICK S : Note(TradeRaces(t) \cup S)
  BY <1>0 DEF ExecuteLive
<1>2. /\ mode = "live" /\ mode' = mode /\ t.pc = "execute"
      /\ executed' = [executed EXCEPT ![t.inst] = @ + Total(t.orders)]
      /\ wrongs' = wrongs
           \cup (IF Turns(t, Total(t.orders)) THEN {"turned"} ELSE {})
           \cup (IF ~RiskReducing(t.intent) /\ t.inst \in stoppedOut THEN {"reentry"} ELSE {})
  BY <1>0 DEF ExecuteLive, Trade
<1>3. ASSUME ~Excused(Misread) PROVE FromHeld(t) /\ ~LimitBlocks(t)
  <2>1. LiveBooks /\ SendBooks
    BY <1>2, <1>3 DEF LiveInv, SendInv, LiveClean
  <2> QED BY <1>0, <2>1, LiveSender
<1>4. ASSUME ~Excused(Misread)' PROVE NoneTurned'
  <2>1. ~Excused(Misread)
    BY <1>1, <1>4, KindsBefore
  <2>2. ~Turns(t, Total(t.orders))
    BY <1>3, <2>1, SentTurnsNothing
  <2> QED BY <1>2, <2>1, <2>2 DEF LiveConduct, NoneTurned
<1>5. ASSUME ~Excused(LimitKinds)' PROVE WithinLimit'
  <2>1. ~Excused(LimitKinds)
    BY <1>1, <1>5, KindsBefore
  <2>2. ~Excused(Misread)
    BY <2>1 DEF Excused, LimitKinds
  <2>3. TradeRaces(t) \cap LimitKinds = {}
    <3> SUFFICES ASSUME NEW x \in TradeRaces(t), x \in LimitKinds PROVE FALSE
      OBVIOUS
    <3>1. x \in TradeRaces(t) \cup S
      OBVIOUS
    <3> QED BY <1>1, <1>5, <3>1, ExcuseComes, KindsLast
  <2>4. WithinLimit
    BY <1>2, <2>1 DEF LiveConduct
  <2> QED BY <1>0, <1>2, <1>3, <2>2, <2>3, <2>4, SentWithinLimit
<1> QED BY <1>4, <1>5 DEF LiveConduct

LEMMA TimeoutConduct ==
  ASSUME ShapeInv, LiveConduct, NEW s \in Slots, ExecutionTimesOut(s)
  PROVE  LiveConduct'
<1>1. PICK S : Fault("timeout", {"untold"} \cup S)
  BY DEF ExecutionTimesOut
<1>2. "untold" \in Misread /\ "untold" \in LimitKinds /\ "untold" \in {"untold"} \cup S
  BY DEF Misread, LimitKinds
<1>3. Excused(Misread)' /\ Excused(LimitKinds)'
  BY <1>1, <1>2, ExcuseComes, KindsLast
<1> QED BY <1>3 DEF LiveConduct

LEMMA InitLiveConduct == Init => LiveConduct
<1> SUFFICES ASSUME Init PROVE LiveConduct
  OBVIOUS
<1>1. ReallyOpen = {}
  BY DEF Init, ReallyOpen
<1>2. WithinLimit
  BY <1>1, FS_EmptySet, TradingAssumption DEF WithinLimit
<1> QED BY <1>2 DEF Init, LiveConduct, NoneTurned

LEMMA NextLiveConduct ==
  ShapeInv /\ LiveInv /\ SendInv /\ LiveConduct /\ [Next]_vars => LiveConduct'
<1> SUFFICES ASSUME ShapeInv, LiveInv, SendInv, LiveConduct, [Next]_vars PROVE LiveConduct'
  OBVIOUS
<1>1. mode' = mode
  BY ModeFixed
<1>2. CASE \E s \in Slots : ExecutePaper(s)
  BY <1>1, <1>2 DEF ExecutePaper, LiveConduct
<1>3. CASE \E s \in Slots : ExecuteLive(s) \/ ExecutionTimesOut(s)
  BY <1>3, ExecuteConduct, TimeoutConduct
<1>4. CASE \E s \in Slots : \/ ContextReady(s) \/ NoContext(s) \/ CheckRisk(s) \/ OtherLimit(s)
                            \/ VenueRefuses(s) \/ FillStored(s) \/ WriteFails(s)
                            \/ Stored(s) \/ Decided(s) \/ ExitDone(s)
  <2>1. UNCHANGED <<executed, wrongs>>
    BY <1>4 DEF ContextReady, NoContext, CheckRisk, OtherLimit, VenueRefuses, FillStored,
                WriteFails, Stored, Decided, ExitDone, history
  <2>2. PICK S, k : Note(S) \/ Fault(k, S) \/ happened' = happened
    BY <1>4 DEF ContextReady, NoContext, CheckRisk, OtherLimit, VenueRefuses, FillStored,
                WriteFails, Stored, Decided, ExitDone
  <2> QED BY <1>1, <2>1, <2>2, SilentConduct
<1>5. CASE \/ \E s \in Slots : MutationFails(s) \/ StreamCloses(s) \/ CrashNext(s) \/ CrashEnds(s)
           \/ \E s \in Slots, i \in Instruments :
                Submit(s, i) \/ StopLossAtIntake(s, i) \/ MonitorLevels(s, i) \/ ScanExit(s, i)
  <2>1. UNCHANGED <<executed, wrongs>>
    BY <1>5 DEF MutationFails, StreamCloses, CrashNext, CrashEnds, Submit, StopLossAtIntake,
                MonitorLevels, ScanExit, StartExit, history
  <2>2. PICK S, k : Note(S) \/ Fault(k, S) \/ happened' = happened
    BY <1>5 DEF MutationFails, StreamCloses, CrashNext, CrashEnds, Submit, StopLossAtIntake,
                MonitorLevels, ScanExit, StartExit
  <2> QED BY <1>1, <2>1, <2>2, SilentConduct
<1>6. CASE \/ TakeFill \/ FillRecorded \/ TakePosition \/ RowUpdated
           \/ StreamDrops \/ StreamReconnects
           \/ StopActor \/ ProcessDies \/ StartActor \/ Recover \/ RehydrationFails
           \/ UNCHANGED vars
  <2>1. UNCHANGED <<executed, wrongs>>
    BY <1>6 DEF TakeFill, FillRecorded, TakePosition, RowUpdated, StreamDrops, StreamReconnects,
                StopActor, ProcessDies, StartActor, Recover, RehydrationFails, vars, history
  <2>2. PICK S, k : Note(S) \/ Fault(k, S) \/ happened' = happened
    BY <1>6 DEF TakeFill, FillRecorded, TakePosition, RowUpdated, StreamDrops, StreamReconnects,
                StopActor, ProcessDies, StartActor, Recover, RehydrationFails, vars
  <2> QED BY <1>1, <2>1, <2>2, SilentConduct
<1> QED BY <1>2, <1>3, <1>4, <1>5, <1>6 DEF Next, Pipeline

LEMMA LiveConductKept == Spec => [](ShapeInv /\ LiveConduct)
<1>1. ShapeInv /\ LiveInv /\ SendInv /\ LiveConduct /\ [Next]_vars => LiveConduct'
  BY NextLiveConduct
<1> QED BY <1>1, InitLiveConduct, SendKept, PTL DEF Spec

(* No exit sells more than is held, or buys, whoever starts it and whatever *)
(* is under way on other instruments, in paper and in live mode.            *)
THEOREM ExitsCloseOnly == Spec => []ExitsOnlyClose
<1>1. ShapeInv => mode \in {"paper", "live"}
  BY TradingAssumption DEF ShapeInv, TypeOK
<1>2. ShapeInv /\ LiveConduct /\ (mode = "paper" => ExitsOnlyClose) => ExitsOnlyClose
  BY <1>1 DEF LiveConduct, ExitsOnlyClose, NoneTurned, Excused
<1> QED BY <1>2, LiveConductKept, PaperExitsOnlyClose, PTL

(* No more instruments are open than maxOpenPositions allows, in either     *)
(* mode, unless a count was stale or an "increase" opened a position.       *)
THEOREM OpensAreLimited == Spec => []OpenPositionsLimited
<1>1. ShapeInv => mode \in {"paper", "live"}
  BY TradingAssumption DEF ShapeInv, TypeOK
<1>2. ShapeInv /\ LiveConduct /\ (mode = "paper" => OpenPositionsLimited) => OpenPositionsLimited
  BY <1>1 DEF LiveConduct, OpenPositionsLimited, WithinLimit, LimitKinds
<1> QED BY <1>2, LiveConductKept, PaperOpenLimited, PTL
=============================================================================
