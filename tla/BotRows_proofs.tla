--------------------------- MODULE BotRows_proofs ---------------------------
(***************************************************************************)
(* Theorems about the row of a bot and its actors, on top of those about   *)
(* the lease: what still runs of a stopped bot has its stop on the way,    *)
(* and nothing runs of a crashed one.                                      *)
(*                                                                         *)
(* They hold of a bot for as long as it meets none of the races that the   *)
(* code loses.  Calls, jobs, signals, sweeps, crashes, failures, deaths    *)
(* and shutdowns are otherwise free to meet.                               *)
(***************************************************************************)
EXTENDS BotLifecycle_proofs

(* The bot has met nothing that its teardowns do not survive. *)
Orderly(b) == Protected(b) /\ "overlap" \notin races[b]

(* A teardown is alone in its process, and the one that will write the row *)
(* still has its actor registered, so it still has the lease.              *)
OneTeardown(w, b) ==
    /\ \A s, r \in Slots :
          OnBot(w, s, b, TeardownPcs) /\ OnBot(w, r, b, TeardownPcs) => s = r
    /\ \A s \in Slots : OnBot(w, s, b, {"crashing", "mark"}) => actors[w][b] # NoGen

TeardownInv == \A w \in Workers, b \in Bots : Orderly(b) => OneTeardown(w, b)

(* What will be there if nothing stops it. *)
Stands(w, b) == RunsOn(w, b) \/ (Making(w, b) /\ b \notin pendingStops[w])

RowObeyed(w, b) ==
    /\ row[b] # "running" /\ Stands(w, b) => StopComing(w, b)
    /\ row[b] = "crashed" => ~Live(w, b)

RowInv == \A w \in Workers, b \in Bots : races[b] = {} => RowObeyed(w, b)

(* Only the calls of startBot and of the stops write the row. *)
CallOps == \A c \in Calls : call[c].pc \in {"mark", "rollback"} => call[c].op # "restart"

BotInv == TypeInv /\ PendingInv /\ OwnerInv

-----------------------------------------------------------------------------
(* Teardowns one at a time *)

(* A slot gets another task, of b if it is a teardown, and b's actor in w  *)
(* is all that may change of the entries.                                  *)
LEMMA SlotTeardown ==
  ASSUME RuntimeInv, TeardownInv, NEW w \in Workers, NEW s \in Slots, NEW b \in Bots,
         NEW t, Become(w, s, t), t.bot = b \/ t.pc \notin TeardownPcs,
         \A c \in Bots : races[c] \subseteq races'[c],
         \A v \in Workers, c \in Bots :
            v # w \/ c # b => actors'[v][c] = actors[v][c],
         Orderly(b)' /\ OneTeardown(w, b) => OneTeardown(w, b)'
  PROVE  TeardownInv'
<1> SUFFICES ASSUME NEW v \in Workers, NEW c \in Bots, Orderly(c)'
             PROVE  OneTeardown(v, c)'
  BY DEF TeardownInv
<1>1. OneTeardown(v, c)
  BY DEF TeardownInv, Orderly, Protected
<1>2. CASE v = w /\ c = b
  BY <1>1, <1>2
<1>3. CASE v # w \/ c # b
  <2>1. ASSUME NEW r \in Slots, NEW pcs \in SUBSET TeardownPcs, OnBot(v, r, c, pcs)'
        PROVE  OnBot(v, r, c, pcs)
    <3>1. CASE v = w /\ r = s
      BY <1>3, <2>1, <3>1, BecomeAt DEF OnBot
    <3>2. CASE v # w \/ r # s
      BY <2>1, <3>2, BecomeAt DEF OnBot
    <3> QED
      BY <3>1, <3>2
  <2>2. \A r \in Slots : /\ OnBot(v, r, c, TeardownPcs)' => OnBot(v, r, c, TeardownPcs)
                         /\ OnBot(v, r, c, {"crashing", "mark"})'
                              => OnBot(v, r, c, {"crashing", "mark"})
    BY <2>1 DEF TeardownPcs
  <2>3. actors'[v][c] = actors[v][c]
    BY <1>3
  <2> QED
    BY <1>1, <2>2, <2>3 DEF OneTeardown
<1> QED
  BY <1>2, <1>3

(* The slot is in no teardown any more; the entry of the bot is not        *)
(* dropped.                                                                *)
LEMMA SlotLeaves ==
  ASSUME RuntimeInv, TeardownInv, NEW w \in Workers, NEW s \in Slots, NEW b \in Bots,
         NEW t, Become(w, s, t), t.pc \notin TeardownPcs,
         \A c \in Bots : races[c] \subseteq races'[c],
         \A v \in Workers, c \in Bots :
            v # w \/ c # b => actors'[v][c] = actors[v][c],
         actors'[w][b] \in {actors[w][b]} \cup Gens
  PROVE  TeardownInv'
<1>1. ASSUME OneTeardown(w, b) PROVE OneTeardown(w, b)'
  <2>1. \A r \in Slots : /\ OnBot(w, r, b, TeardownPcs)' => OnBot(w, r, b, TeardownPcs)
                         /\ OnBot(w, r, b, {"crashing", "mark"})'
                              => OnBot(w, r, b, {"crashing", "mark"})
    BY BecomeAt DEF OnBot, TeardownPcs
  <2> QED
    BY <1>1, <2>1, RuntimeAssumption DEF OneTeardown
<1> QED
  BY <1>1, SlotTeardown

(* The slot is at a teardown of b, and no other slot of w is. *)
LEMMA SlotTearsDown ==
  ASSUME RuntimeInv, TeardownInv, NEW w \in Workers, NEW s \in Slots, NEW b \in Bots,
         NEW t, Become(w, s, t), t.bot = b,
         \A c \in Bots : races[c] \subseteq races'[c],
         \A v \in Workers, c \in Bots :
            v # w \/ c # b => actors'[v][c] = actors[v][c],
         Orderly(b)' /\ OneTeardown(w, b) =>
            /\ \A r \in Slots : r # s => ~OnBot(w, r, b, TeardownPcs)
            /\ t.pc \in {"crashing", "mark"} => actors'[w][b] # NoGen
  PROVE  TeardownInv'
<1>1. ASSUME Orderly(b)', OneTeardown(w, b) PROVE OneTeardown(w, b)'
  <2>1. \A r \in Slots : r # s => ~OnBot(w, r, b, TeardownPcs)'
    BY <1>1, BecomeAt DEF OnBot
  <2>2. tasks'[w][s] = t
    BY BecomeAt
  <2> QED
    BY <1>1, <2>1, <2>2 DEF OneTeardown, OnBot, TeardownPcs
<1> QED
  BY <1>1, SlotTeardown

(* The bot meets the overlap, if there is one. *)
LEMMA NoOverlap ==
  ASSUME RuntimeInv, NEW w \in Workers, NEW b \in Bots,
         Meets(b, Overlapping(w, b)), Orderly(b)'
  PROVE  \A r \in Slots : ~OnBot(w, r, b, TeardownPcs)
<1>1. Overlapping(w, b) \subseteq races'[b]
  BY RestIsEnough, RacesGrow
<1> QED
  BY <1>1 DEF Orderly, Overlapping, TearingDown, OnBot

(* The factory is over and the actor is not taken: the lease goes back. *)
LEMMA FactoryEndsTeardown ==
  ASSUME RuntimeInv, OwnerInv, TeardownInv, NEW w \in Workers, NEW s \in Slots,
         FactoryReturns(w, s) \/ FactoryThrows(w, s)
  PROVE  TeardownInv'
<1> DEFINE t == tasks[w][s]
<1>1. PICK b \in Bots : t \in Task /\ t.bot = b /\ RestTypeOK
  BY TaskAt, RestIsEnough DEF FactoryReturns, FactoryThrows, At, AtWork
<1>2. UNCHANGED races /\ \A c \in Bots : races[c] \subseteq races'[c]
  BY DEF FactoryReturns, FactoryThrows
<1>3. ASSUME NEW u, Become(w, s, u), u.bot = b, u.pc \in {"abort", "undo"},
             UNCHANGED actors
      PROVE  TeardownInv'
  <2>1. ASSUME Orderly(b)'
        PROVE  \A r \in Slots : r # s => ~OnBot(w, r, b, TeardownPcs)
    <3>1. OwnedAt(w, b)
      BY <1>2, <2>1 DEF OwnerInv, Orderly, Protected
    <3>2. OnBot(w, s, b, {"factory"})
      BY <1>1 DEF FactoryReturns, FactoryThrows, At, OnBot
    <3> QED
      BY <3>1, <3>2 DEF OwnedAt, FactoryAlone, OnBot, BusyPcs
  <2> QED
    BY <1>2, <1>3, <2>1, SlotTearsDown
<1>4. CASE FactoryThrows(w, s)
  <2> DEFINE u == [t EXCEPT !.pc = "undo"]
  <2>1. u.bot = b /\ u.pc = "undo"
    BY <1>1 DEF Task
  <2> QED
    BY <1>3, <1>4, <2>1 DEF FactoryThrows
<1>5. CASE FactoryReturns(w, s)
  <2>1. CASE Become(w, s, [t EXCEPT !.pc = "abort"]) /\ UNCHANGED <<actors, phase>>
    <3> DEFINE u == [t EXCEPT !.pc = "abort"]
    <3>1. u.bot = b /\ u.pc = "abort"
      BY <1>1 DEF Task
    <3> QED
      BY <1>3, <2>1, <3>1
  <2>2. ASSUME NEW g \in Fresh(w, b), Register(w, b, g),
               Become(w, s, [t EXCEPT !.pc = "starting", !.gen = g])
        PROVE  TeardownInv'
    <3> DEFINE u == [t EXCEPT !.pc = "starting", !.gen = g]
    <3>1. g \in Gens /\ u.pc \notin TeardownPcs
      BY <1>1 DEF Fresh, Task, TeardownPcs
    <3>2. \A v \in Workers, c \in Bots :
             actors'[v][c] = IF v = w /\ c = b THEN g ELSE actors[v][c]
      BY <1>1, <2>2, OneUpdate
    <3>3. Become(w, s, u)
      BY <2>2
    <3> HIDE DEF u
    <3> QED
      BY <1>2, <3>1, <3>2, <3>3, SlotLeaves
  <2> QED
    BY <1>1, <1>5, <2>1, <2>2 DEF FactoryReturns
<1> QED
  BY <1>4, <1>5

(* start() rejected: a teardown begins. *)
LEMMA StartThrowsTeardown ==
  ASSUME RuntimeInv, TeardownInv, NEW w \in Workers, NEW s \in Slots,
         StartThrows(w, s)
  PROVE  TeardownInv'
<1> DEFINE t == tasks[w][s]
           u == [t EXCEPT !.pc = "undo"]
<1>1. PICK b \in Bots : t \in Task /\ t.bot = b /\ RestTypeOK
  BY TaskAt, RestIsEnough DEF StartThrows, At, AtWork
<1>2. u.bot = b /\ u.pc = "undo" /\ Become(w, s, u) /\ Meets(b, Overlapping(w, b))
  BY <1>1 DEF StartThrows, Task
<1>3. \A v \in Workers, c \in Bots :
         actors'[v][c] = IF v = w /\ c = b THEN NoGen ELSE actors[v][c]
  BY <1>1, OneUpdate DEF StartThrows
<1>4. \A c \in Bots : races[c] \subseteq races'[c]
  BY <1>1, <1>2, RacesGrow
<1> HIDE DEF u
<1> QED
  BY <1>2, <1>3, <1>4, NoOverlap, SlotTearsDown

(* A stop finds an actor, and begins a teardown, or does not. *)
LEMMA BeginStopTeardown ==
  ASSUME RuntimeInv, TeardownInv, NEW w \in Workers, NEW s \in Slots,
         NEW kind \in Kinds, NEW b \in Bots, BeginStop(w, s, kind, b)
  PROVE  TeardownInv'
<1> DEFINE g == actors[w][b]
           t == [Idle EXCEPT !.kind = kind, !.bot = b, !.gen = g]
<1>1. RestTypeOK /\ \A c \in Bots : races[c] \subseteq races'[c]
  BY RestIsEnough, RacesGrow DEF BeginStop
<1>2. CASE g = NoGen
  <2> DEFINE u == IF kind = "restart" THEN CheckedStart(w, t, b) ELSE Idle
  <2>1. u.pc \notin TeardownPcs
    BY <1>2 DEF CheckedStart, Idle, TeardownPcs
  <2>2. Become(w, s, u) /\ UNCHANGED actors
    BY <1>2 DEF BeginStop
  <2> HIDE DEF u
  <2> QED
    BY <1>1, <2>1, <2>2, SlotLeaves
<1>3. CASE g # NoGen
  <2>1. PICK u : /\ Become(w, s, u) /\ u.bot = b
                 /\ u.pc \in {"stopping", "release"}
    <3>1. /\ [t EXCEPT !.pc = "stopping"].bot = b
          /\ [t EXCEPT !.pc = "stopping"].pc = "stopping"
          /\ [t EXCEPT !.pc = "release"].bot = b
          /\ [t EXCEPT !.pc = "release"].pc = "release"
      BY DEF Idle
    <3> QED
      BY <1>3, <3>1 DEF BeginStop
  <2>2. \A v \in Workers, c \in Bots :
           v # w \/ c # b => actors'[v][c] = actors[v][c]
    BY <1>1, <1>3, OneUpdate DEF BeginStop
  <2>3. Meets(b, Overlapping(w, b))
    BY <1>3 DEF BeginStop
  <2> QED
    BY <1>1, <2>1, <2>2, <2>3, NoOverlap, SlotTearsDown
<1> QED
  BY <1>2, <1>3

(* An actor ends by itself: it is registered, and it is the only teardown. *)
LEMMA ActorEndsTeardown ==
  ASSUME RuntimeInv, OwnerInv, TeardownInv, NEW w \in Workers, NEW s \in Slots,
         NEW b \in Bots, NEW g \in Gens, BeginCrash(w, s, b, g) \/ BeginHalt(w, s, b, g)
  PROVE  TeardownInv'
<1>1. /\ RestTypeOK /\ g # NoGen /\ Running(w, b, g) /\ UNCHANGED actors
      /\ Meets(b, Overlapping(w, b))
      /\ \A c \in Bots : races[c] \subseteq races'[c]
  BY RestIsEnough, RuntimeAssumption, RacesGrow DEF BeginCrash, BeginHalt, local, Running
<1>2. PICK u : Become(w, s, u) /\ u.bot = b
  <2> DEFINE u == [Idle EXCEPT !.pc = "crashing", !.kind = "crash",
                               !.bot = b, !.gen = g]
             h == [Idle EXCEPT !.pc = "mark", !.kind = "halt", !.bot = b, !.gen = g]
  <2>1. u.bot = b /\ h.bot = b
    BY DEF Idle
  <2> QED
    BY <2>1 DEF BeginCrash, BeginHalt
<1>3. ASSUME Orderly(b)' PROVE actors[w][b] # NoGen
  BY <1>1, <1>3 DEF OwnerInv, OwnedAt, OnlyRegistered, Orderly, Protected
<1> QED
  BY <1>1, <1>2, <1>3, NoOverlap, SlotTearsDown

(* A teardown goes on to its next await, or ends. *)
LEMMA GoesOnTeardown ==
  ASSUME RuntimeInv, TeardownInv, NEW w \in Workers, NEW s \in Slots,
         \/ StopReturns(w, s) \/ ReleaseLease(w, s) \/ ReleaseThrows(w, s)
         \/ CrashStops(w, s) \/ MarkTerminal(w, s) \/ HandleActorCrash(w, s)
  PROVE  TeardownInv'
<1> DEFINE t == tasks[w][s]
<1>1. PICK b \in Bots : /\ t \in Task /\ t.bot = b /\ RestTypeOK
                        /\ OnBot(w, s, b, TeardownPcs)
  BY TaskAt, RestIsEnough
  DEF StopReturns, ReleaseLease, ReleaseThrows, ReleasePcs, CrashStops, MarkTerminal,
      HandleActorCrash, At, AtWork, OnBot, TeardownPcs
<1>2. /\ \A c \in Bots : races[c] \subseteq races'[c]
      /\ \A v \in Workers, c \in Bots :
            v # w \/ c # b => actors'[v][c] = actors[v][c]
  BY <1>1, OneUpdate
  DEF StopReturns, ReleaseLease, ReleaseThrows, CrashStops, MarkTerminal,
      HandleActorCrash, local
<1>3. ASSUME OneTeardown(w, b)
      PROVE  \A r \in Slots : r # s => ~OnBot(w, r, b, TeardownPcs)
  BY <1>1, <1>3 DEF OneTeardown
<1>4. CASE StopReturns(w, s) \/ HandleActorCrash(w, s)
  <2> DEFINE u == [t EXCEPT !.pc = "release"]
  <2>1. u.bot = b /\ u.pc = "release" /\ Become(w, s, u)
    BY <1>1, <1>4 DEF StopReturns, HandleActorCrash, Task
  <2> HIDE DEF u
  <2> QED
    BY <1>2, <1>3, <2>1, SlotTearsDown
<1>5. CASE MarkTerminal(w, s)
  <2> DEFINE u == [t EXCEPT !.pc = "evict"]
  <2>1. u.bot = b /\ u.pc = "evict" /\ Become(w, s, u)
    BY <1>1, <1>5 DEF MarkTerminal, Task
  <2> HIDE DEF u
  <2> QED
    BY <1>2, <1>3, <2>1, SlotTearsDown
<1>6. CASE CrashStops(w, s)
  <2> DEFINE u == [t EXCEPT !.pc = "mark"]
  <2>1. u.bot = b /\ Become(w, s, u) /\ UNCHANGED actors
    BY <1>1, <1>6 DEF CrashStops, Task
  <2>2. OnBot(w, s, b, {"crashing", "mark"})
    BY <1>1, <1>6 DEF CrashStops, At, OnBot
  <2> HIDE DEF u
  <2> QED
    BY <1>2, <1>3, <2>1, <2>2, SlotTearsDown DEF OneTeardown
<1>7. CASE ReleaseLease(w, s) \/ ReleaseThrows(w, s)
  <2>1. Done(t).pc \notin TeardownPcs /\ [t EXCEPT !.pc = "failed"].pc \notin TeardownPcs
    BY <1>1 DEF Done, Idle, TeardownPcs, Task
  <2>2. CheckedStart(w, t, t.bot).pc \notin TeardownPcs
    BY <1>1, <2>1 DEF CheckedStart, TeardownPcs, Task
  <2>3. PICK u : Become(w, s, u) /\ u.pc \notin TeardownPcs
    <3>1. CASE ReleaseLease(w, s)
      BY <2>1, <2>2, <3>1 DEF ReleaseLease, AfterRelease
    <3>2. CASE ReleaseThrows(w, s)
      BY <2>1, <3>2 DEF ReleaseThrows
    <3> QED
      BY <1>7, <3>1, <3>2
  <2>4. UNCHANGED actors
    BY <1>7 DEF ReleaseLease, ReleaseThrows, local
  <2> QED
    BY <1>1, <1>2, <2>3, <2>4, SlotLeaves
<1> QED
  BY <1>4, <1>5, <1>6, <1>7

(* The rest of what a slot does has nothing to do with teardowns. *)
LEMMA OthersTeardown ==
  ASSUME RuntimeInv, TeardownInv, NEW w \in Workers, NEW s \in Slots,
         \/ AcquireLease(w, s) \/ AcquireThrows(w, s) \/ StartReturns(w, s)
         \/ StartFailed(w, s) \/ TakeStart(w, s) \/ BeginSweep(w, s)
         \/ SweepNext(w, s)
  PROVE  TeardownInv'
<1> DEFINE t == tasks[w][s]
<1>1. RestTypeOK /\ t \in Task
  BY TaskAt, RestIsEnough
<1>2. /\ Done(t).pc \notin TeardownPcs /\ Idle.pc \notin TeardownPcs
      /\ [t EXCEPT !.pc = "factory"].pc \notin TeardownPcs
      /\ [t EXCEPT !.pc = "failed"].pc \notin TeardownPcs
  BY <1>1 DEF Done, Idle, TeardownPcs, Task
<1>3. ASSUME NEW k \in Task, NEW b \in Bots
      PROVE  CheckedStart(w, k, b).pc \notin TeardownPcs
  BY DEF CheckedStart, Done, Idle, TeardownPcs, Task
<1>4. PICK u : Become(w, s, u) /\ u.pc \notin TeardownPcs
  <2>1. CASE AcquireLease(w, s) \/ AcquireThrows(w, s) \/ StartReturns(w, s) \/ StartFailed(w, s)
    BY <1>2, <2>1 DEF AcquireLease, AcquireThrows, StartReturns, StartFailed
  <2>2. CASE TakeStart(w, s)
    <3>1. Head(jobs).bot \in Bots
      BY <1>1, <2>2, HeadOfJobs DEF TakeStart
    <3>2. [Idle EXCEPT !.kind = "start"] \in Task
      BY DEF Idle, Task, Kinds
    <3> QED
      BY <1>3, <2>2, <3>1, <3>2 DEF TakeStart
  <2>3. CASE BeginSweep(w, s)
    <3> DEFINE u == [Idle EXCEPT !.pc = "scan", !.kind = "sweep",
                                 !.todo = {b \in Bots : row[b] = "running"}]
    <3>1. u.pc = "scan"
      BY DEF Idle
    <3> QED
      BY <2>3, <3>1 DEF BeginSweep, TeardownPcs
  <2>4. CASE SweepNext(w, s)
    <3>1. \A b \in t.todo : b \in Bots /\ [t EXCEPT !.todo = @ \ {b}] \in Task
      BY <1>1 DEF Task
    <3> QED
      BY <1>2, <1>3, <2>4, <3>1 DEF SweepNext
  <2> QED
    BY <2>1, <2>2, <2>3, <2>4
<1>5. UNCHANGED actors
  BY DEF AcquireLease, AcquireThrows, StartReturns, StartFailed, TakeStart, BeginSweep,
         SweepNext, local
<1>6. \A c \in Bots : races[c] \subseteq races'[c]
  <2>1. CASE AcquireLease(w, s) \/ StartFailed(w, s)
    <3>1. t.bot \in Bots
      BY <2>1, TaskAt DEF AcquireLease, StartFailed, At, AtWork
    <3> QED
      BY <1>1, <2>1, <3>1, RacesGrow DEF AcquireLease, StartFailed
  <2>2. CASE UNCHANGED races
    BY <2>2
  <2> QED
    BY <2>1, <2>2 DEF AcquireThrows, StartReturns, TakeStart, BeginSweep, SweepNext
<1>7. ASSUME NEW b \in Bots PROVE TeardownInv'
  BY <1>4, <1>5, <1>6, SlotLeaves
<1>8. CASE Bots = {}
  BY <1>8 DEF TeardownInv
<1> QED
  BY <1>7, <1>8

(* Every step of a process keeps teardowns one at a time. *)
LEMMA StepTeardown ==
  TypeInv /\ OwnerInv /\ TeardownInv /\ [Next]_vars => TeardownInv'
<1> SUFFICES ASSUME TypeInv, OwnerInv, TeardownInv, [Next]_vars PROVE TeardownInv'
  OBVIOUS
<1>1. RuntimeInv /\ RestTypeOK
  BY TypeInvParts, RestIsEnough
<1>2. ASSUME UNCHANGED <<actors, tasks>>, \A c \in Bots : races[c] \subseteq races'[c]
      PROVE  TeardownInv'
  BY <1>2 DEF TeardownInv, OneTeardown, OnBot, Orderly, Protected
<1>3. ASSUME NEW c \in Calls, NEW op \in Ops, NEW b \in Bots, BeginCall(c, op, b)
      PROVE  TeardownInv'
  BY <1>2, <1>3 DEF BeginCall, runtimeVars, local
<1>4. ASSUME NEW c \in Calls, CallStep(c) \/ SendThrows(c) PROVE TeardownInv'
  <2>1. Open(c) => call[c].bot \in Bots
    BY DEF TypeInv, CallShape
  <2>2. UNCHANGED <<actors, tasks>>
    BY <1>4 DEF CallStep, MarkRow, RefuseStart, Enqueue, Publish, RestoreRow,
                SendThrows, runtimeVars, local
  <2>3. CASE MarkRow(c) \/ RestoreRow(c)
    BY <1>1, <1>2, <2>1, <2>2, <2>3, RacesGrow DEF MarkRow, RestoreRow, Open
  <2>4. CASE UNCHANGED races
    BY <1>2, <2>2, <2>4
  <2> QED
    BY <1>4, <2>3, <2>4 DEF CallStep, RefuseStart, Enqueue, Publish, SendThrows,
                            runtimeVars
<1>5. ASSUME NEW w \in Workers, NEW s \in Slots, HandleSignal(w, s)
      PROVE  TeardownInv'
  BY <1>1, <1>5, BeginStopTeardown DEF HandleSignal, Kinds
<1>6. ASSUME NEW w \in Workers, NEW s \in Slots, Sweep(w, s) \/ ActorEnds(w, s)
      PROVE  TeardownInv'
  BY <1>1, <1>6, OthersTeardown, ActorEndsTeardown DEF Sweep, ActorEnds
<1>7. ASSUME NEW w \in Workers, NEW s \in Slots, SlotStep(w, s) PROVE TeardownInv'
  <2>1. CASE TakeStop(w, s)
    <3>1. Head(jobs).bot \in Bots /\ Head(jobs).cmd \in Kinds
      BY <1>1, <2>1, HeadOfJobs DEF TakeStop, Kinds
    <3> QED
      BY <1>1, <2>1, <3>1, BeginStopTeardown DEF TakeStop
  <2>2. CASE ShutdownStops(w, s)
    <3>1. PICK b \in shutdownTodo[w] : BeginStop(w, s, "shutdown", b)
      BY <2>2 DEF ShutdownStops
    <3>2. b \in Bots /\ "shutdown" \in Kinds
      BY <1>1 DEF RestTypeOK, Kinds
    <3> QED
      BY <1>1, <3>1, <3>2, BeginStopTeardown
  <2> QED
    BY <1>1, <1>7, <2>1, <2>2, FactoryEndsTeardown, StartThrowsTeardown,
       GoesOnTeardown, OthersTeardown DEF SlotStep, TaskStep, TaskFails
<1>8. ASSUME NEW w \in Workers, ProcessStep(w) PROVE TeardownInv'
  <2>1. CASE ProcessGone(w) /\ UNCHANGED races
    <3>1. ASSUME NEW v \in Workers, NEW c \in Bots, OneTeardown(v, c)
          PROVE  OneTeardown(v, c)'
      <4>1. CASE v = w
        BY <1>1, <2>1, <4>1, GoneState DEF OneTeardown, OnBot, Idle, TeardownPcs
      <4>2. CASE v # w
        BY <1>1, <2>1, <3>1, <4>2, GoneState DEF OneTeardown, OnBot
      <4> QED
        BY <4>1, <4>2
    <3> QED
      BY <2>1, <3>1 DEF TeardownInv, Orderly, Protected
  <2> QED
    BY <1>2, <1>8, <2>1 DEF ProcessStep, Shutdown, CloseWorker, Exit, Die, LeaseLost, local
<1>9. ASSUME NEW b \in Bots, LeaseStep(b) PROVE TeardownInv'
  BY <1>1, <1>2, <1>9, RacesGrow DEF LeaseStep, LeaseExpires, LeaseStalls, local
<1>10. ASSUME NEW w \in Workers, DropSignals(w) PROVE TeardownInv'
  BY <1>2, <1>10 DEF DropSignals, runtimeVars, local
<1>11. CASE UNCHANGED vars
  BY <1>2, <1>11 DEF vars, runtimeVars, local
<1> QED
  BY <1>3, <1>4, <1>5, <1>6, <1>7, <1>8, <1>9, <1>10, <1>11 DEF Next, WorkerStep

-----------------------------------------------------------------------------
(* The row and the actors *)

(* Before and after a step, of a bot that has still met no race. *)
Known(b) == /\ races[b] = {}
            /\ \A w \in Workers : OwnedAt(w, b) /\ OneTeardown(w, b) /\ RowObeyed(w, b)

LEMMA RowEach ==
  ASSUME OwnerInv, TeardownInv, RowInv, \A c \in Bots : races[c] \subseteq races'[c],
         \A v \in Workers, c \in Bots :
            races'[c] = {} /\ Known(c) => RowObeyed(v, c)'
  PROVE  RowInv'
<1> SUFFICES ASSUME NEW v \in Workers, NEW c \in Bots, races'[c] = {}
             PROVE  RowObeyed(v, c)'
  BY DEF RowInv
<1>1. races[c] = {}
  OBVIOUS
<1>2. Known(c)
  BY <1>1 DEF Known, OwnerInv, TeardownInv, RowInv, Orderly, Protected, OwnerRaces
<1> QED
  BY <1>2

(* What keeps a row obeyed: no actor comes up, and no stop gets lost. *)
LEMMA RowKept ==
  ASSUME NEW v \in Workers, NEW c \in Bots, RowObeyed(v, c), row'[c] = row[c],
         Stands(v, c)' => Stands(v, c), Live(v, c)' => Live(v, c),
         Stands(v, c)' /\ StopComing(v, c) => StopComing(v, c)'
  PROVE  RowObeyed(v, c)'
  BY DEF RowObeyed

(* Live is Stands, or a call that a pending stop will abort. *)
LEMMA LiveParts ==
  /\ \A w \in Workers, b \in Bots : Live(w, b) <=> RunsOn(w, b) \/ Making(w, b)
  /\ \A w \in Workers, b \in Bots : Live(w, b)' <=> RunsOn(w, b)' \/ Making(w, b)'
  BY DEF Live, RunsOn, Making, OnBot, At

(* An owned bot lives only where its lease is. *)
LEMMA LiveIsLeased ==
  ASSUME NEW w \in Workers, NEW b \in Bots, OwnedAt(w, b), Live(w, b)
  PROVE  leaseKey[b] = w /\ (RunsOn(w, b) => actors[w][b] # NoGen)
                         /\ (Making(w, b) => actors[w][b] = NoGen)
<1>1. RunsOn(w, b) => actors[w][b] # NoGen
  BY RuntimeAssumption DEF OwnedAt, OnlyRegistered, RunsOn
<1>2. Making(w, b) => actors[w][b] = NoGen
  BY DEF OwnedAt, FactoryAlone, Making
<1>3. Has(w, b)
  BY <1>1, LiveParts DEF Has
<1> QED
  BY <1>1, <1>2, <1>3 DEF OwnedAt, HolderIsLeased

(* A slot gets a task that is not at the factory; nothing begins to run.   *)
LEMMA NothingComes ==
  ASSUME RuntimeInv, NEW w \in Workers, NEW s \in Slots, NEW t, Become(w, s, t),
         t.pc # "factory",
         \A v \in Workers, c \in Bots, g \in Gens :
            phase'[v][c][g] # "off" => phase[v][c][g] # "off"
  PROVE  \A v \in Workers, c \in Bots :
            /\ RunsOn(v, c)' => RunsOn(v, c)
            /\ Making(v, c)' => Making(v, c)
            /\ Live(v, c)' => Live(v, c)
<1> TAKE v \in Workers, c \in Bots
<1>1. RunsOn(v, c)' => RunsOn(v, c)
  BY DEF RunsOn, Running
<1>2. Making(v, c)' => Making(v, c)
  <2> SUFFICES ASSUME NEW r \in Slots, OnBot(v, r, c, {"factory"})'
               PROVE  OnBot(v, r, c, {"factory"})
    BY DEF Making
  <2>1. v # w \/ r # s
    BY BecomeAt DEF OnBot
  <2> QED
    BY <2>1, BecomeAt DEF OnBot
<1> QED
  BY <1>1, <1>2, LiveParts

(* A stop on the way stays on the way, unless it is the crash in the slot  *)
(* itself, or the job that is taken.                                       *)
LEMMA StopStays ==
  ASSUME RuntimeInv, NEW w \in Workers, NEW s \in Slots, NEW t, Become(w, s, t),
         UNCHANGED <<mode, call>>, NEW v \in Workers, NEW c \in Bots,
         ~OnBot(w, s, c, {"crashing"}) \/ v # w,
         <<v, c>> \in signals => <<v, c>> \in signals',
         (\E i \in DOMAIN jobs : jobs[i].bot = c /\ jobs[i].cmd = "stop")
            => \E i \in DOMAIN jobs' : jobs'[i].bot = c /\ jobs'[i].cmd = "stop",
         StopComing(v, c)
  PROVE  StopComing(v, c)'
<1>1. ASSUME NEW r \in Slots, tasks[v][r].bot = c, At(v, r, "crashing")
      PROVE  tasks'[v][r] = tasks[v][r]
  <2>1. v # w \/ r # s
    BY <1>1 DEF OnBot, At
  <2> QED
    BY <2>1, BecomeAt
<1>2. (\E r \in Slots : tasks[v][r].bot = c /\ At(v, r, "crashing"))
        => \E r \in Slots : tasks'[v][r].bot = c /\ tasks'[v][r].pc = "crashing"
  BY <1>1 DEF At
<1> QED
  BY <1>2 DEF StopComing, Working, At

(* A slot that is not crashing goes on, with no row, call or signal.       *)
LEMMA SlotRow ==
  ASSUME RuntimeInv, OwnerInv, TeardownInv, RowInv,
         NEW w \in Workers, NEW s \in Slots, NEW t, Become(w, s, t),
         t.pc # "factory", ~At(w, s, "crashing"),
         UNCHANGED <<row, mode, call, signals>>,
         \A c \in Bots : races[c] \subseteq races'[c],
         \A v \in Workers, c \in Bots, g \in Gens :
            phase'[v][c][g] # "off" => phase[v][c][g] # "off",
         \A v \in Workers, c \in Bots :
            /\ Known(c) /\ Making(v, c)' /\ c \in pendingStops[v]
                  => c \in pendingStops'[v]
            /\ (\E i \in DOMAIN jobs : jobs[i].bot = c /\ jobs[i].cmd = "stop")
                  => \E i \in DOMAIN jobs' : jobs'[i].bot = c /\ jobs'[i].cmd = "stop"
  PROVE  RowInv'
<1> SUFFICES ASSUME NEW v \in Workers, NEW c \in Bots, races'[c] = {}, Known(c)
             PROVE  RowObeyed(v, c)'
  BY RowEach
<1>1. RowObeyed(v, c)
  BY DEF Known
<1>2. Stands(v, c)' => Stands(v, c)
  BY NothingComes DEF Stands
<1>3. Live(v, c)' => Live(v, c)
  BY NothingComes
<1>4. ~OnBot(w, s, c, {"crashing"}) /\ UNCHANGED <<mode, call>>
  BY DEF OnBot, At
<1>5. StopComing(v, c) => StopComing(v, c)'
  BY <1>4, StopStays
<1> QED
  BY <1>1, <1>2, <1>3, <1>5, RowKept

(* A start gets the lease: its bot is to run, or it is out of date. *)
LEMMA AcquireLeaseRow ==
  ASSUME RuntimeInv, OwnerInv, TeardownInv, RowInv,
         NEW w \in Workers, NEW s \in Slots, AcquireLease(w, s),
         UNCHANGED <<call, signals>>
  PROVE  RowInv'
<1> DEFINE t == tasks[w][s]
           u == [t EXCEPT !.pc = "factory"]
<1>1. PICK b \in Bots : t \in Task /\ t.bot = b /\ RestTypeOK /\ t.pc = "acquire"
  BY TaskAt, RestIsEnough DEF AcquireLease, At, AtWork
<1>2. UNCHANGED <<row, jobs, mode, phase, pendingStops>>
  BY DEF AcquireLease
<1>3. CASE Become(w, s, Done(t)) /\ UNCHANGED races
  <2>1. Done(t).pc # "factory"
    BY <1>1 DEF Done, Idle
  <2> QED
    BY <1>1, <1>2, <1>3, <2>1, SlotRow DEF At
<1>4. CASE Become(w, s, u) /\ Meets(b, Reentering(w, b) \cup OutOfDate(b))
  <2>1. /\ \A c \in Bots : races[c] \subseteq races'[c]
        /\ OutOfDate(b) \subseteq races'[b]
    BY <1>1, <1>4, RacesGrow
  <2> SUFFICES ASSUME NEW v \in Workers, NEW c \in Bots, races'[c] = {}, Known(c)
               PROVE  RowObeyed(v, c)'
    BY <2>1, RowEach
  <2>2. CASE c = b
    <3>1. OutOfDate(b) = {}
      BY <2>1, <2>2
    <3>2. row[b] = "running"
      BY <3>1 DEF OutOfDate
    <3> QED
      BY <1>2, <2>2, <3>2 DEF RowObeyed
  <2>3. CASE c # b
    <3>1. \A r \in Slots : OnBot(v, r, c, {"factory"})' => OnBot(v, r, c, {"factory"})
      <4> TAKE r \in Slots
      <4>1. CASE v = w /\ r = s
        <5>1. tasks'[w][s].bot = b
          BY <1>1, <1>4, BecomeAt DEF Task
        <5> QED
          BY <2>3, <4>1, <5>1 DEF OnBot
      <4>2. CASE v # w \/ r # s
        BY <1>4, <4>2, BecomeAt DEF OnBot
      <4> QED
        BY <4>1, <4>2
    <3>2. (Making(v, c)' => Making(v, c)) /\ (RunsOn(v, c)' => RunsOn(v, c))
      BY <1>2, <3>1 DEF Making, RunsOn, Running
    <3>3. StopComing(v, c) => StopComing(v, c)'
      BY <1>1, <1>2, <1>4, StopStays DEF OnBot
    <3>4. RowObeyed(v, c)
      BY DEF Known
    <3> QED
      BY <1>2, <3>2, <3>3, <3>4, LiveParts, RowKept DEF Stands
  <2> QED
    BY <2>2, <2>3
<1> QED
  BY <1>1, <1>3, <1>4 DEF AcquireLease

(* The factory returns or fails: an actor that is taken was on its way. *)
LEMMA FactoryRow ==
  ASSUME RuntimeInv, OwnerInv, TeardownInv, RowInv,
         NEW w \in Workers, NEW s \in Slots, FactoryReturns(w, s) \/ FactoryThrows(w, s),
         UNCHANGED <<call, signals>>
  PROVE  RowInv'
<1> DEFINE t == tasks[w][s]
<1>1. PICK b \in Bots : t \in Task /\ t.bot = b /\ RestTypeOK /\ t.pc = "factory"
  BY TaskAt, RestIsEnough DEF FactoryReturns, FactoryThrows, At, AtWork
<1>2. /\ UNCHANGED <<row, jobs, mode, races>>
      /\ pendingStops' = [pendingStops EXCEPT ![w] = @ \ {b}]
      /\ \A c \in Bots : races[c] \subseteq races'[c]
  BY <1>1 DEF FactoryReturns, FactoryThrows
<1>3. ASSUME NEW u, Become(w, s, u), u.pc # "factory", Known(b)
      PROVE  ~Making(w, b)' /\ OnBot(w, s, b, {"factory"})
  <2>1. OnBot(w, s, b, {"factory"})
    BY <1>1 DEF OnBot
  <2>2. \A r \in Slots : r # s => ~OnBot(w, r, b, {"factory"})
    BY <1>3, <2>1, NoFactory DEF Known, OnBot, BusyPcs
  <2> QED
    BY <1>3, <2>1, <2>2, BecomeAt DEF Making, OnBot
<1>4. \A v \in Workers, c \in Bots : v # w \/ c # b =>
         (c \in pendingStops[v] => c \in pendingStops'[v])
  BY <1>1, <1>2 DEF RestTypeOK
<1>5. CASE UNCHANGED phase
  <2>1. PICK u : Become(w, s, u) /\ u.pc # "factory"
    <3>1. [t EXCEPT !.pc = "abort"].pc # "factory" /\ [t EXCEPT !.pc = "undo"].pc # "factory"
      BY <1>1 DEF Task
    <3>2. \A g : [t EXCEPT !.pc = "starting", !.gen = g].pc # "factory"
      BY <1>1 DEF Task
    <3> QED
      BY <3>1, <3>2 DEF FactoryReturns, FactoryThrows
  <2>2. \A v \in Workers, c \in Bots :
           Known(c) /\ Making(v, c)' /\ c \in pendingStops[v] => c \in pendingStops'[v]
    BY <1>3, <1>4, <2>1
  <2> QED
    BY <1>1, <1>2, <1>5, <2>1, <2>2, SlotRow DEF At
<1>6. ASSUME NEW g \in Fresh(w, b), b \notin pendingStops[w], SetPhase(w, b, g, "starting"),
             Become(w, s, [t EXCEPT !.pc = "starting", !.gen = g])
      PROVE  RowInv'
  <2> DEFINE u == [t EXCEPT !.pc = "starting", !.gen = g]
  <2>1. g \in Gens /\ u.pc = "starting" /\ Become(w, s, u)
    BY <1>1, <1>6 DEF Fresh, Task
  <2>2. \A v \in Workers, c \in Bots, h \in Gens :
           phase'[v][c][h] = IF v = w /\ c = b /\ h = g THEN "starting"
                             ELSE phase[v][c][h]
    BY <1>1, <1>6, <2>1, OneUpdate
  <2> HIDE DEF u
  <2> SUFFICES ASSUME NEW v \in Workers, NEW c \in Bots, races'[c] = {}, Known(c)
               PROVE  RowObeyed(v, c)'
    BY <1>2, RowEach
  <2>3. RowObeyed(v, c)
    BY DEF Known
  <2>4. StopComing(v, c) => StopComing(v, c)'
    BY <1>1, <1>2, <2>1, StopStays DEF OnBot
  <2>5. CASE v = w /\ c = b
    <3>1. Stands(v, c) /\ Live(v, c)
      BY <1>3, <1>6, <2>1, <2>5, LiveParts DEF Stands, Making
    <3> QED
      BY <1>2, <2>3, <2>4, <3>1, RowKept
  <2>6. CASE v # w \/ c # b
    <3>1. RunsOn(v, c)' => RunsOn(v, c)
      BY <2>2, <2>6 DEF RunsOn, Running
    <3>2. Making(v, c)' => Making(v, c)
      <4> SUFFICES ASSUME NEW r \in Slots, OnBot(v, r, c, {"factory"})'
                   PROVE  OnBot(v, r, c, {"factory"})
        BY DEF Making
      <4>1. v # w \/ r # s
        BY <2>1, BecomeAt DEF OnBot
      <4> QED
        BY <2>1, <4>1, BecomeAt DEF OnBot
    <3> QED
      BY <1>2, <1>4, <2>3, <2>4, <2>6, <3>1, <3>2, LiveParts, RowKept DEF Stands
  <2> QED
    BY <2>5, <2>6
<1> QED
  BY <1>1, <1>5, <1>6 DEF FactoryReturns, FactoryThrows

(* The other steps of a slot that take no stop with them. *)
LEMMA PlainRow ==
  ASSUME RuntimeInv, OwnerInv, TeardownInv, RowInv,
         NEW w \in Workers, NEW s \in Slots, UNCHANGED <<call, signals>>,
         \/ AcquireThrows(w, s) \/ StartReturns(w, s) \/ StartThrows(w, s)
         \/ StopReturns(w, s) \/ ReleaseLease(w, s) \/ ReleaseThrows(w, s)
         \/ HandleActorCrash(w, s) \/ BeginSweep(w, s) \/ SweepNext(w, s)
         \/ \E b \in Bots, g \in Gens : BeginCrash(w, s, b, g) \/ BeginHalt(w, s, b, g)
  PROVE  RowInv'
<1> DEFINE t == tasks[w][s]
<1>1. RestTypeOK /\ t \in Task /\ AtWork(t)
  BY TaskAt, RestIsEnough
<1>2. UNCHANGED <<row, jobs, mode, pendingStops>>
  BY DEF AcquireThrows, StartReturns, StartThrows, StopReturns, ReleaseLease, ReleaseThrows,
         HandleActorCrash, BeginSweep, SweepNext, BeginCrash, BeginHalt, local
<1>3. ~At(w, s, "crashing")
  BY DEF AcquireThrows, StartReturns, StartThrows, StopReturns, ReleaseLease, ReleaseThrows,
         ReleasePcs, HandleActorCrash, BeginSweep, SweepNext, BeginCrash, BeginHalt, At
<1>4. \A c \in Bots : races[c] \subseteq races'[c]
  <2>1. CASE StartThrows(w, s)
    <3>1. t.bot \in Bots
      BY <1>1, <2>1 DEF StartThrows, At, AtWork
    <3> QED
      BY <1>1, <2>1, <3>1, RacesGrow DEF StartThrows
  <2>2. ASSUME NEW b \in Bots, NEW g \in Gens, BeginCrash(w, s, b, g) \/ BeginHalt(w, s, b, g)
        PROVE  \A c \in Bots : races[c] \subseteq races'[c]
    BY <1>1, <2>2, RacesGrow DEF BeginCrash, BeginHalt
  <2>3. CASE UNCHANGED races
    BY <2>3
  <2> QED
    BY <2>1, <2>2, <2>3
    DEF AcquireThrows, StartReturns, StopReturns, ReleaseLease, ReleaseThrows,
        HandleActorCrash, BeginSweep, SweepNext
<1>5. \A v \in Workers, c \in Bots, h \in Gens :
         phase'[v][c][h] # "off" => phase[v][c][h] # "off"
  <2>1. CASE StartReturns(w, s)
    <3>1. t.bot \in Bots /\ t.gen \in Gens
      BY <1>1, <2>1 DEF StartReturns, At, AtWork
    <3> DEFINE p == IF Running(w, t.bot, t.gen) THEN "armed" ELSE "off"
    <3>2. \A v \in Workers, c \in Bots, h \in Gens :
             phase'[v][c][h] = IF v = w /\ c = t.bot /\ h = t.gen THEN p
                               ELSE phase[v][c][h]
      BY <1>1, <2>1, <3>1, OneUpdate DEF StartReturns
    <3> QED
      BY <3>2 DEF Running
  <2>2. CASE StartThrows(w, s)
    <3>1. t.bot \in Bots /\ t.gen \in Gens
      BY <1>1, <2>2 DEF StartThrows, At, AtWork
    <3> QED
      BY <1>1, <2>2, <3>1, OneUpdate DEF StartThrows
  <2>3. ASSUME NEW b \in Bots, NEW g \in Gens, BeginCrash(w, s, b, g) \/ BeginHalt(w, s, b, g)
        PROVE  \A v \in Workers, c \in Bots, h \in Gens :
                  phase'[v][c][h] # "off" => phase[v][c][h] # "off"
    <3>1. CASE BeginCrash(w, s, b, g)
      BY <3>1 DEF BeginCrash, local
    <3>2. CASE BeginHalt(w, s, b, g)
      <4>1. SetPhase(w, b, g, "off")
        BY <3>2 DEF BeginHalt
      <4> QED
        BY <1>1, <4>1, OneUpdate
    <3> QED
      BY <2>3, <3>1, <3>2
  <2>4. CASE UNCHANGED phase
    BY <2>4
  <2> QED
    BY <2>1, <2>2, <2>3, <2>4
    DEF AcquireThrows, StopReturns, ReleaseLease, ReleaseThrows, HandleActorCrash,
        BeginSweep, SweepNext, local
<1>6. PICK u : Become(w, s, u) /\ u.pc # "factory"
  <2>1. /\ Done(t).pc # "factory" /\ Idle.pc # "factory"
        /\ \A pc \in {"failed", "undo", "release"} : [t EXCEPT !.pc = pc].pc # "factory"
    BY <1>1 DEF Done, Idle, Task
  <2>2. \A k \in Task, b \in Bots : CheckedStart(w, k, b).pc # "factory"
    BY DEF CheckedStart, Done, Idle, Task
  <2>3. CASE \/ AcquireThrows(w, s) \/ StartReturns(w, s) \/ StartThrows(w, s)
             \/ StopReturns(w, s) \/ ReleaseThrows(w, s) \/ HandleActorCrash(w, s)
    BY <2>1, <2>3
    DEF AcquireThrows, StartReturns, StartThrows, StopReturns, ReleaseThrows, HandleActorCrash
  <2>4. CASE ReleaseLease(w, s)
    <3>1. t.bot \in Bots
      BY <1>1, <2>4 DEF ReleaseLease, ReleasePcs, AtWork
    <3> QED
      BY <1>1, <2>1, <2>2, <2>4, <3>1 DEF ReleaseLease, AfterRelease
  <2>5. CASE BeginSweep(w, s)
    <3> DEFINE u == [Idle EXCEPT !.pc = "scan", !.kind = "sweep",
                                 !.todo = {b \in Bots : row[b] = "running"}]
    <3>1. u.pc = "scan"
      BY DEF Idle
    <3> QED
      BY <2>5, <3>1 DEF BeginSweep
  <2>6. CASE SweepNext(w, s)
    <3>1. \A b \in t.todo : b \in Bots /\ [t EXCEPT !.todo = @ \ {b}] \in Task
      BY <1>1 DEF Task
    <3> QED
      BY <2>1, <2>2, <2>6, <3>1 DEF SweepNext
  <2>7. ASSUME NEW b \in Bots, NEW g \in Gens, BeginCrash(w, s, b, g) \/ BeginHalt(w, s, b, g)
        PROVE  \E u : Become(w, s, u) /\ u.pc # "factory"
    <3> DEFINE u == [Idle EXCEPT !.pc = "crashing", !.kind = "crash",
                                 !.bot = b, !.gen = g]
               h == [Idle EXCEPT !.pc = "mark", !.kind = "halt", !.bot = b, !.gen = g]
    <3>1. u.pc = "crashing" /\ h.pc = "mark"
      BY DEF Idle
    <3> QED
      BY <2>7, <3>1 DEF BeginCrash, BeginHalt
  <2> QED
    BY <2>3, <2>4, <2>5, <2>6, <2>7
<1> QED
  BY <1>2, <1>3, <1>4, <1>5, <1>6, SlotRow

(* The head of the queue is taken: the stops behind it stay. *)
LEMMA TailKeeps ==
  ASSUME RestTypeOK, jobs # <<>>, jobs' = Tail(jobs), NEW c,
         Head(jobs).cmd # "stop" \/ Head(jobs).bot # c,
         \E i \in DOMAIN jobs : jobs[i].bot = c /\ jobs[i].cmd = "stop"
  PROVE  \E i \in DOMAIN jobs' : jobs'[i].bot = c /\ jobs'[i].cmd = "stop"
<1>1. jobs \in Seq(Job)
  BY DEF RestTypeOK
<1>2. PICK i \in DOMAIN jobs : jobs[i].bot = c /\ jobs[i].cmd = "stop"
  OBVIOUS
<1>3. i # 1
  BY <1>2
<1>4. i - 1 \in DOMAIN Tail(jobs) /\ Tail(jobs)[i - 1] = jobs[i]
  BY <1>1, <1>3
<1> QED
  BY <1>2, <1>4

(* A start job is taken. *)
LEMMA TakeStartRow ==
  ASSUME RuntimeInv, OwnerInv, TeardownInv, RowInv,
         NEW w \in Workers, NEW s \in Slots, TakeStart(w, s), UNCHANGED <<call, signals>>
  PROVE  RowInv'
<1> DEFINE u == CheckedStart(w, [Idle EXCEPT !.kind = "start"], Head(jobs).bot)
<1>1. RestTypeOK /\ Head(jobs).bot \in Bots
  BY RestIsEnough, HeadOfJobs DEF TakeStart
<1>2. u.pc # "factory"
  BY DEF CheckedStart, Done, Idle
<1>3. /\ Become(w, s, u) /\ ~At(w, s, "crashing")
      /\ UNCHANGED <<row, mode, phase, pendingStops, races>>
  BY DEF TakeStart, At, local
<1>4. \A c \in Bots :
         (\E i \in DOMAIN jobs : jobs[i].bot = c /\ jobs[i].cmd = "stop")
            => \E i \in DOMAIN jobs' : jobs'[i].bot = c /\ jobs'[i].cmd = "stop"
  BY <1>1, TailKeeps DEF TakeStart
<1> HIDE DEF u
<1> QED
  BY <1>2, <1>3, <1>4, SlotRow

(* What a stop does to its bot, and to no other.                           *)
LEMMA BeginStopMoves ==
  ASSUME RuntimeInv, NEW w \in Workers, NEW s \in Slots, NEW kind, NEW b \in Bots,
         BeginStop(w, s, kind, b)
  PROVE  /\ \E u : Become(w, s, u) /\ u.pc # "factory"
         /\ \A c \in Bots : races[c] \subseteq races'[c]
         /\ \A v \in Workers, c \in Bots, h \in Gens :
               phase'[v][c][h] # "off" => phase[v][c][h] # "off"
         /\ \A v \in Workers, c \in Bots :
               c \in pendingStops[v] => c \in pendingStops'[v]
         /\ actors[w][b] = NoGen /\ b \in starting[w] => b \in pendingStops'[w]
         /\ actors[w][b] = NoGen => Meets(b, Missed(w, kind, b))
<1> DEFINE g == actors[w][b]
           t == [Idle EXCEPT !.kind = kind, !.bot = b, !.gen = g]
<1>1. RestTypeOK /\ g \in Gens \cup {NoGen}
  BY RestIsEnough DEF RestTypeOK
<1>2. \E u : Become(w, s, u) /\ u.pc # "factory"
  <2>1. /\ [t EXCEPT !.pc = "stopping"].pc # "factory" /\ Idle.pc # "factory"
        /\ [t EXCEPT !.pc = "release"].pc # "factory"
        /\ g = NoGen => CheckedStart(w, t, b).pc # "factory"
    BY DEF Idle, CheckedStart
  <2> QED
    BY <2>1 DEF BeginStop
<1>3. \A c \in Bots : races[c] \subseteq races'[c]
  BY <1>1, RacesGrow DEF BeginStop
<1>4. \A v \in Workers, c \in Bots, h \in Gens :
         phase'[v][c][h] # "off" => phase[v][c][h] # "off"
  <2>1. CASE UNCHANGED phase
    BY <2>1
  <2>2. CASE g # NoGen /\ SetPhase(w, b, g, "off")
    BY <1>1, <2>2, OneUpdate
  <2> QED
    BY <2>1, <2>2 DEF BeginStop
<1>5. /\ \A v \in Workers, c \in Bots :
            c \in pendingStops[v] => c \in pendingStops'[v]
      /\ g = NoGen /\ b \in starting[w] => b \in pendingStops'[w]
  BY <1>1 DEF BeginStop, RestTypeOK
<1> QED
  BY <1>2, <1>3, <1>4, <1>5 DEF BeginStop

(* After a stop began at w, nothing of the bot stands there. *)
LEMMA BeginStopHere ==
  ASSUME RuntimeInv, NEW w \in Workers, NEW s \in Slots, NEW kind, NEW b \in Bots,
         BeginStop(w, s, kind, b), OwnedAt(w, b)
  PROVE  ~Stands(w, b)'
<1> DEFINE g == actors[w][b]
<1>1. RestTypeOK /\ g \in Gens \cup {NoGen}
  BY RestIsEnough DEF RestTypeOK
<1>2. /\ RunsOn(w, b)' => RunsOn(w, b)
      /\ Making(w, b)' => Making(w, b)
  BY BeginStopMoves, NothingComes
<1>3. CASE g = NoGen
  <2>1. ~RunsOn(w, b)
    BY <1>3, LiveIsLeased, LiveParts
  <2>2. Making(w, b) => b \in pendingStops'[w]
    BY <1>3, BeginStopMoves DEF OwnedAt, FactoryAlone, Making
  <2> QED
    BY <1>2, <2>1, <2>2 DEF Stands
<1>4. CASE g # NoGen
  <2>1. ~Making(w, b)
    BY <1>4, LiveIsLeased, LiveParts
  <2>2. \A h \in Gens : Running(w, b, h) => h = g
    BY DEF OwnedAt, OnlyRegistered
  <2>3. \A h \in Gens : phase'[w][b][h] = "off"
    <3>1. CASE Running(w, b, g)
      <4>1. SetPhase(w, b, g, "off")
        BY <1>4, <3>1 DEF BeginStop
      <4> QED
        BY <1>1, <1>4, <2>2, <4>1, OneUpdate DEF Running
    <3>2. CASE ~Running(w, b, g)
      BY <1>4, <2>2, <3>2 DEF BeginStop, Running
    <3> QED
      BY <3>1, <3>2
  <2>4. ~RunsOn(w, b)'
    BY <2>3 DEF RunsOn, Running
  <2> QED
    BY <1>2, <2>1, <2>4 DEF Stands
<1> QED
  BY <1>3, <1>4

(* A slot goes on, and what stands of a bot keeps the stop it waits for. *)
LEMMA SlotRowStops ==
  ASSUME RuntimeInv, OwnerInv, TeardownInv, RowInv,
         NEW w \in Workers, NEW s \in Slots, NEW t, Become(w, s, t),
         t.pc # "factory", UNCHANGED row,
         \A c \in Bots : races[c] \subseteq races'[c],
         \A v \in Workers, c \in Bots, g \in Gens :
            phase'[v][c][g] # "off" => phase[v][c][g] # "off",
         \A v \in Workers, c \in Bots : c \in pendingStops[v] => c \in pendingStops'[v],
         \A v \in Workers, c \in Bots :
            races'[c] = {} /\ Known(c) /\ Stands(v, c)' /\ StopComing(v, c)
               => StopComing(v, c)'
  PROVE  RowInv'
<1> SUFFICES ASSUME NEW v \in Workers, NEW c \in Bots, races'[c] = {}, Known(c)
             PROVE  RowObeyed(v, c)'
  BY RowEach
<1>1. RowObeyed(v, c)
  BY DEF Known
<1>2. Stands(v, c)' => Stands(v, c)
  BY NothingComes DEF Stands
<1>3. Live(v, c)' => Live(v, c)
  BY NothingComes
<1> QED
  BY <1>1, <1>2, <1>3, RowKept

(* The crash has stopped its actor: nothing of the bot stands here. *)
LEMMA CrashStopsRow ==
  ASSUME RuntimeInv, OwnerInv, TeardownInv, RowInv,
         NEW w \in Workers, NEW s \in Slots, CrashStops(w, s), UNCHANGED <<call, signals>>
  PROVE  RowInv'
<1> DEFINE t == tasks[w][s]
           u == [t EXCEPT !.pc = "mark"]
<1>1. PICK b \in Bots : /\ t \in Task /\ t.bot = b /\ RestTypeOK /\ t.gen \in Gens
                        /\ t.pc = "crashing"
  BY TaskAt, RestIsEnough DEF CrashStops, At, AtWork
<1>2. /\ Become(w, s, u) /\ u.pc # "factory"
      /\ SetPhase(w, b, t.gen, "off")
      /\ UNCHANGED <<row, jobs, mode, pendingStops, races>>
  BY <1>1 DEF CrashStops, Task
<1>3. \A v \in Workers, c \in Bots, h \in Gens :
         phase'[v][c][h] = IF v = w /\ c = b /\ h = t.gen THEN "off" ELSE phase[v][c][h]
  BY <1>1, <1>2, OneUpdate
<1> HIDE DEF u
<1>4. ASSUME NEW v \in Workers, NEW c \in Bots, Known(c), Stands(v, c)', StopComing(v, c)
      PROVE  StopComing(v, c)'
  <2>1. CASE v = w /\ c = b
    <3>1. OnBot(w, s, b, {"crashing"}) /\ OnBot(w, s, b, BusyPcs) /\ OwnedAt(w, b)
      BY <1>1, <1>4, <2>1 DEF OnBot, BusyPcs, TeardownPcs, Known
    <3>2. ~Making(w, b)
      BY <1>1, <3>1, NoFactory DEF Making, OnBot
    <3>3. ~Making(w, b)'
      BY <1>2, <1>3, <3>2, NothingComes
    <3>4. \A h \in Gens : Running(w, b, h) => h = t.gen
      BY <3>1, RuntimeAssumption DEF OwnedAt, Fits, OnlyRegistered, OnBot
    <3>5. ~RunsOn(w, b)'
      BY <1>3, <3>4 DEF RunsOn, Running
    <3> QED
      BY <1>4, <2>1, <3>3, <3>5 DEF Stands
  <2>2. CASE v # w \/ c # b
    BY <1>1, <1>2, <1>4, <2>2, StopStays DEF OnBot
  <2> QED
    BY <2>1, <2>2
<1> QED
  BY <1>2, <1>3, <1>4, SlotRowStops

(* A stop job is taken: nothing of its bot stands anywhere, or it is lost. *)
LEMMA TakeStopRow ==
  ASSUME RuntimeInv, PendingInv, OwnerInv, TeardownInv, RowInv,
         NEW w \in Workers, NEW s \in Slots, TakeStop(w, s), UNCHANGED <<call, signals>>
  PROVE  RowInv'
<1>1. PICK b \in Bots, k \in {"stop", "restart"} :
         /\ Head(jobs).bot = b /\ Head(jobs).cmd = k
         /\ BeginStop(w, s, k, b) /\ RestTypeOK
  BY RestIsEnough, HeadOfJobs DEF TakeStop
<1>2. UNCHANGED <<row, mode, starting>> /\ ~At(w, s, "crashing")
  BY DEF TakeStop, At
<1>3. PICK u : Become(w, s, u) /\ u.pc # "factory"
  BY <1>1, BeginStopMoves
<1>4. /\ \A c \in Bots : races[c] \subseteq races'[c]
      /\ \A v \in Workers, c \in Bots, h \in Gens :
            phase'[v][c][h] # "off" => phase[v][c][h] # "off"
      /\ \A v \in Workers, c \in Bots : c \in pendingStops[v] => c \in pendingStops'[v]
  BY <1>1, BeginStopMoves
<1>5. ASSUME NEW v \in Workers, NEW c \in Bots, k # "stop" \/ c # b, StopComing(v, c)
      PROVE  StopComing(v, c)'
  <2>1. (\E i \in DOMAIN jobs : jobs[i].bot = c /\ jobs[i].cmd = "stop")
           => \E i \in DOMAIN jobs' : jobs'[i].bot = c /\ jobs'[i].cmd = "stop"
    BY <1>1, <1>5, TailKeeps DEF TakeStop
  <2> QED
    BY <1>2, <1>3, <1>5, <2>1, StopStays DEF OnBot, At
<1>6. ASSUME k = "stop", races'[b] = {}, Known(b), NEW v \in Workers, Stands(v, b)'
      PROVE  FALSE
  <2>1. Live(v, b)
    BY <1>3, <1>4, <1>6, NothingComes, LiveParts DEF Stands
  <2>2. v # w
    BY <1>1, <1>6, BeginStopHere DEF Known
  <2>3. leaseKey[b] # w
    BY <1>6, <2>1, <2>2, LiveIsLeased DEF Known
  <2>4. ~Has(w, b)
    BY <1>6, <2>3 DEF Known, OwnedAt, HolderIsLeased
  <2>5. actors[w][b] = NoGen /\ b \notin starting[w]
    BY <2>4 DEF Has, Making, PendingInv, StartingIsFactory, OnBot, At
  <2>6. Meets(b, Missed(w, k, b))
    BY <1>1, <2>5, BeginStopMoves
  <2>7. Missed(w, k, b) = {}
    BY <1>1, <1>6, <2>6, RacesGrow
  <2> QED
    BY <1>6, <2>1, <2>5, <2>7 DEF Missed, LiveSomewhere
<1> QED
  BY <1>2, <1>3, <1>4, <1>5, <1>6, SlotRowStops

(* A process handles its own signal. *)
LEMMA HandleSignalRow ==
  ASSUME RuntimeInv, OwnerInv, TeardownInv, RowInv,
         NEW w \in Workers, NEW s \in Slots, HandleSignal(w, s)
  PROVE  RowInv'
<1>1. PICK b \in Bots : BeginStop(w, s, "signal", b) /\ signals' = signals \ {<<w, b>>}
  BY DEF HandleSignal
<1>2. UNCHANGED <<row, jobs, mode, call>> /\ ~At(w, s, "crashing")
  BY DEF HandleSignal, At
<1>3. PICK u : Become(w, s, u) /\ u.pc # "factory"
  BY <1>1, BeginStopMoves
<1>4. /\ \A c \in Bots : races[c] \subseteq races'[c]
      /\ \A v \in Workers, c \in Bots, h \in Gens :
            phase'[v][c][h] # "off" => phase[v][c][h] # "off"
      /\ \A v \in Workers, c \in Bots : c \in pendingStops[v] => c \in pendingStops'[v]
  BY <1>1, BeginStopMoves
<1>5. ASSUME NEW v \in Workers, NEW c \in Bots, v # w \/ c # b, StopComing(v, c)
      PROVE  StopComing(v, c)'
  BY <1>1, <1>2, <1>3, <1>5, StopStays DEF OnBot, At
<1>6. Known(b) => ~Stands(w, b)'
  BY <1>1, BeginStopHere DEF Known
<1> QED
  BY <1>2, <1>3, <1>4, <1>5, <1>6, SlotRowStops

(* shutdown() stops one of the actors it found. *)
LEMMA ShutdownStopsRow ==
  ASSUME RuntimeInv, OwnerInv, TeardownInv, RowInv,
         NEW w \in Workers, NEW s \in Slots, ShutdownStops(w, s),
         UNCHANGED <<call, signals>>
  PROVE  RowInv'
<1>1. PICK b \in shutdownTodo[w] : BeginStop(w, s, "shutdown", b)
  BY DEF ShutdownStops
<1>2. b \in Bots
  BY RestIsEnough DEF RestTypeOK
<1>3. PICK u : Become(w, s, u) /\ u.pc # "factory"
  BY <1>1, <1>2, BeginStopMoves
<1>4. /\ \A c \in Bots : races[c] \subseteq races'[c]
      /\ \A v \in Workers, c \in Bots, h \in Gens :
            phase'[v][c][h] # "off" => phase[v][c][h] # "off"
      /\ \A v \in Workers, c \in Bots : c \in pendingStops[v] => c \in pendingStops'[v]
  BY <1>1, <1>2, BeginStopMoves
<1>5. UNCHANGED <<row, jobs, mode>> /\ ~At(w, s, "crashing")
  BY DEF ShutdownStops, At
<1> QED
  BY <1>3, <1>4, <1>5, SlotRow

(* A slot writes the status of a bot that lives nowhere. *)
LEMMA WrittenRow ==
  ASSUME RuntimeInv, OwnerInv, TeardownInv, RowInv,
         NEW w \in Workers, NEW s \in Slots, NEW t, Become(w, s, t),
         t.pc # "factory", ~At(w, s, "crashing"), NEW b \in Bots,
         \A c \in Bots : c # b => row'[c] = row[c],
         UNCHANGED <<jobs, mode, phase, pendingStops, call, signals>>,
         \A c \in Bots : races[c] \subseteq races'[c],
         races'[b] = {} /\ Known(b) => \A v \in Workers : ~Live(v, b)
  PROVE  RowInv'
<1> SUFFICES ASSUME NEW v \in Workers, NEW c \in Bots, races'[c] = {}, Known(c)
             PROVE  RowObeyed(v, c)'
  BY RowEach
<1>1. /\ Stands(v, c)' => Stands(v, c)
      /\ Live(v, c)' => Live(v, c)
      /\ Stands(v, c)' => Live(v, c)'
  BY NothingComes, LiveParts DEF Stands
<1>2. CASE c = b
  BY <1>1, <1>2 DEF RowObeyed
<1>3. CASE c # b
  <2>1. RowObeyed(v, c)
    BY DEF Known
  <2>2. ~OnBot(w, s, c, {"crashing"})
    BY DEF OnBot, At
  <2>3. StopComing(v, c) => StopComing(v, c)'
    BY <2>2, StopStays
  <2> QED
    BY <1>1, <1>3, <2>1, <2>3, RowKept
<1> QED
  BY <1>2, <1>3

(* A start that failed marks its bot, which runs nowhere, or has met the   *)
(* late mark.                                                              *)
LEMMA StartFailedRow ==
  ASSUME RuntimeInv, OwnerInv, TeardownInv, RowInv,
         NEW w \in Workers, NEW s \in Slots, StartFailed(w, s), UNCHANGED <<call, signals>>
  PROVE  RowInv'
<1> DEFINE t == tasks[w][s]
           u == Done(t)
<1>1. PICK b \in Bots : t \in Task /\ t.bot = b /\ RestTypeOK
  BY TaskAt, RestIsEnough DEF StartFailed, At, AtWork
<1>2. /\ Become(w, s, u) /\ u.pc # "factory" /\ ~At(w, s, "crashing")
      /\ UNCHANGED <<jobs, mode, phase, pendingStops>>
  BY <1>1 DEF StartFailed, Done, Idle, At, local
<1> HIDE DEF u
<1>3. CASE UNCHANGED <<row, races>>
  BY <1>2, <1>3, SlotRow
<1>4. CASE /\ row' = [row EXCEPT ![b] = "crashed"]
           /\ Meets(b, IF LiveSomewhere(b) THEN {"late_mark"} ELSE {})
  <2>1. \A c \in Bots : c # b => row'[c] = row[c]
    BY <1>1, <1>4 DEF RestTypeOK
  <2>2. /\ \A c \in Bots : races[c] \subseteq races'[c]
        /\ LiveSomewhere(b) => "late_mark" \in races'[b]
    BY <1>1, <1>4, RacesGrow
  <2>3. races'[b] = {} => \A v \in Workers : ~Live(v, b)
    BY <2>2 DEF LiveSomewhere
  <2> QED
    BY <1>2, <2>1, <2>2, <2>3, WrittenRow
<1> QED
  BY <1>1, <1>3, <1>4 DEF StartFailed

(* A crash or a halt marks its bot: it is alone with it in its process,    *)
(* where nothing runs any more, and it still has the lease.                *)
LEMMA MarkTerminalRow ==
  ASSUME RuntimeInv, OwnerInv, TeardownInv, RowInv,
         NEW w \in Workers, NEW s \in Slots, MarkTerminal(w, s), UNCHANGED <<call, signals>>
  PROVE  RowInv'
<1> DEFINE t == tasks[w][s]
           u == [t EXCEPT !.pc = "evict"]
<1>1. PICK b \in Bots : t \in Task /\ t.bot = b /\ RestTypeOK
  BY TaskAt, RestIsEnough DEF MarkTerminal, At, AtWork
<1>2. /\ Become(w, s, u) /\ u.pc # "factory" /\ ~At(w, s, "crashing")
      /\ UNCHANGED <<jobs, mode, phase, pendingStops, races>>
  BY <1>1 DEF MarkTerminal, Task, At, local
<1>3. \A c \in Bots : c # b => row'[c] = row[c]
  BY <1>1 DEF MarkTerminal, RestTypeOK
<1>4. ASSUME Known(b), NEW v \in Workers PROVE ~Live(v, b)
  <2>1. OnBot(w, s, b, {"mark"})
    BY <1>1 DEF MarkTerminal, At, OnBot
  <2>2. actors[w][b] # NoGen
    BY <1>4, <2>1 DEF Known, OneTeardown, OnBot
  <2>3. leaseKey[b] = w
    BY <1>4, <2>2 DEF Known, OwnedAt, HolderIsLeased, Has
  <2>4. ~RunsOn(w, b)
    BY <1>4, <2>1 DEF Known, OwnedAt, Fits, OnBot, RunsOn
  <2>5. ~Making(w, b)
    BY <1>4, <2>2 DEF Known, OwnedAt, FactoryAlone, Making
  <2>6. CASE v = w
    BY <2>4, <2>5, <2>6, LiveParts
  <2>7. CASE v # w
    BY <1>4, <2>3, <2>7, LiveIsLeased DEF Known
  <2> QED
    BY <2>6, <2>7
<1> HIDE DEF u
<1> QED
  BY <1>2, <1>3, <1>4, WrittenRow

(* Every step of a slot keeps the rows obeyed. *)
LEMMA SlotStepRow ==
  ASSUME RuntimeInv, PendingInv, OwnerInv, TeardownInv, RowInv,
         NEW w \in Workers, NEW s \in Slots, SlotStep(w, s), UNCHANGED <<call, signals>>
  PROVE  RowInv'
  BY AcquireLeaseRow, FactoryRow, PlainRow, TakeStartRow, CrashStopsRow, TakeStopRow,
     ShutdownStopsRow, StartFailedRow, MarkTerminalRow
  DEF SlotStep, TaskStep, TaskFails

(* No slot moves: every bot keeps its status and what comes to stop it, or *)
(* is obeyed for a reason of its own.                                      *)
LEMMA QuietRow ==
  ASSUME OwnerInv, TeardownInv, RowInv, UNCHANGED <<phase, pendingStops, tasks>>,
         \A c \in Bots : races[c] \subseteq races'[c],
         \A v \in Workers, c \in Bots :
            races'[c] = {} /\ Known(c) =>
               \/ row'[c] = row[c] /\ (StopComing(v, c) => StopComing(v, c)')
               \/ RowObeyed(v, c)'
  PROVE  RowInv'
<1> SUFFICES ASSUME NEW v \in Workers, NEW c \in Bots, races'[c] = {}, Known(c)
             PROVE  RowObeyed(v, c)'
  BY RowEach
<1>1. /\ Stands(v, c)' <=> Stands(v, c)
      /\ Live(v, c)' <=> Live(v, c)
  BY DEF Stands, RunsOn, Making, Live, Running, OnBot, At
<1>2. RowObeyed(v, c)
  BY DEF Known
<1> QED
  BY <1>1, <1>2, RowKept

(* A process that ends takes all its actors with it; what the others have  *)
(* stays, and so does every stop on its way to them.                       *)
LEMMA GoneRow ==
  ASSUME RuntimeInv, OwnerInv, TeardownInv, RowInv, NEW w \in Workers, ProcessGone(w),
         UNCHANGED <<row, races, call, signals>>,
         \A c \in Bots :
            (\E i \in DOMAIN jobs : jobs[i].bot = c /\ jobs[i].cmd = "stop")
               => \E i \in DOMAIN jobs' : jobs'[i].bot = c /\ jobs'[i].cmd = "stop"
  PROVE  RowInv'
<1> SUFFICES ASSUME NEW v \in Workers, NEW c \in Bots, races'[c] = {}, Known(c)
             PROVE  RowObeyed(v, c)'
  BY RowEach
<1>1. CASE v = w
  <2>1. \A r \in Slots : tasks'[w][r].pc = "idle"
    BY GoneState DEF Idle
  <2>2. ~Making(v, c)' /\ ~RunsOn(v, c)'
    BY <1>1, <2>1, GoneState DEF Making, OnBot, RunsOn, Running
  <2> QED
    BY <2>2, LiveParts DEF RowObeyed, Stands
<1>2. CASE v # w
  <2>1. tasks'[v] = tasks[v] /\ phase'[v] = phase[v] /\ pendingStops'[v] = pendingStops[v]
    BY <1>2, GoneState
  <2>2. /\ Stands(v, c)' <=> Stands(v, c)
        /\ Live(v, c)' <=> Live(v, c)
    BY <2>1 DEF Stands, RunsOn, Making, Live, Running, OnBot, At
  <2>3. mode'[v] = mode[v]
    BY <1>2, RestIsEnough DEF ProcessGone, RestTypeOK
  <2>4. StopComing(v, c) => StopComing(v, c)'
    BY <2>1, <2>3 DEF StopComing, Working, At
  <2>5. RowObeyed(v, c)
    BY DEF Known
  <2> QED
    BY <2>2, <2>4, <2>5, RowKept
<1> QED
  BY <1>1, <1>2

(* A process closes, ends, dies or finds its lease lost. *)
LEMMA ProcessStepRow ==
  ASSUME RuntimeInv, OwnerInv, TeardownInv, RowInv, NEW w \in Workers, ProcessStep(w),
         UNCHANGED <<call, signals>>
  PROVE  RowInv'
<1>1. RestTypeOK
  BY RestIsEnough
<1>2. ASSUME UNCHANGED <<row, jobs, races, local, tasks>>,
             \A v \in Workers : ~Working(v) => ~Working(v)'
      PROVE  RowInv'
  <2>1. ASSUME NEW v \in Workers, NEW c \in Bots, StopComing(v, c)
        PROVE  StopComing(v, c)'
    BY <1>2, <2>1 DEF StopComing, At
  <2> QED
    BY <1>2, <2>1, QuietRow DEF local
<1>3. CASE Shutdown(w) \/ CloseWorker(w)
  <2>1. \A v \in Workers : ~Working(v) => ~Working(v)'
    BY <1>1, <1>3 DEF Shutdown, CloseWorker, Working, RestTypeOK
  <2> QED
    BY <1>2, <1>3, <2>1 DEF Shutdown, CloseWorker
<1>4. CASE \E b \in Bots : LeaseLost(w, b)
  BY <1>2, <1>4 DEF LeaseLost, Working
<1>5. CASE Exit(w)
  BY <1>5, GoneRow DEF Exit
<1>6. CASE Die(w)
  <2>1. PICK back \in Seq(Job) : jobs' = back \o jobs
    BY <1>6, DieJobs
  <2>2. jobs \in Seq(Job)
    BY <1>1 DEF RestTypeOK
  <2>3. ASSUME NEW i \in DOMAIN jobs
        PROVE  Len(back) + i \in DOMAIN jobs' /\ jobs'[Len(back) + i] = jobs[i]
    BY <2>1, <2>2, <2>3
  <2>4. \A c \in Bots :
           (\E i \in DOMAIN jobs : jobs[i].bot = c /\ jobs[i].cmd = "stop")
              => \E i \in DOMAIN jobs' : jobs'[i].bot = c /\ jobs'[i].cmd = "stop"
    BY <2>3
  <2> QED
    BY <1>6, <2>4, GoneRow DEF Die
<1> QED
  BY <1>3, <1>4, <1>5, <1>6 DEF ProcessStep

-----------------------------------------------------------------------------
(* Calls and signals *)

(* Call c is at a point from which it will still stop b. *)
WillStop(c, b) == /\ call[c].bot = b /\ call[c].op \in {"stop", "stop_bot"}
                  /\ call[c].pc \in {"send", "rollback"}

(* One call goes on, and nothing that it was to stop is forgotten. *)
LEMMA CallStays ==
  ASSUME NEW c \in Calls, \A d \in Calls : d # c => call'[d] = call[d],
         UNCHANGED <<tasks, mode>>, NEW v \in Workers, NEW b \in Bots,
         (\E i \in DOMAIN jobs : jobs[i].bot = b /\ jobs[i].cmd = "stop")
            => \E i \in DOMAIN jobs' : jobs'[i].bot = b /\ jobs'[i].cmd = "stop",
         <<v, b>> \in signals => <<v, b>> \in signals',
         WillStop(c, b) => StopComing(v, b)',
         StopComing(v, b)
  PROVE  StopComing(v, b)'
<1>1. CASE \E d \in Calls : WillStop(d, b)
  <2>1. PICK d \in Calls : WillStop(d, b)
    BY <1>1
  <2>2. CASE d = c
    BY <2>1, <2>2
  <2>3. CASE d # c
    BY <2>1, <2>3 DEF WillStop, StopComing
  <2> QED
    BY <2>2, <2>3
<1>2. CASE ~\E d \in Calls : WillStop(d, b)
  BY <1>2 DEF StopComing, WillStop, Working, At
<1> QED
  BY <1>1, <1>2

(* What a step of a call does to the call itself, and to no other. *)
LEMMA StepOfCall ==
  ASSUME call \in [Calls -> Call], NEW c \in Calls, NEW pc, Step(c, pc)
  PROVE  /\ call'[c].pc = pc /\ call'[c].op = call[c].op /\ call'[c].bot = call[c].bot
         /\ \A d \in Calls : d # c => call'[d] = call[d]
  BY DEF Step, Call

(* A restart neither claims the row nor gives it back. *)
LEMMA CallOpsStep ==
  TypeInv /\ CallOps /\ [Next]_vars => CallOps'
<1> SUFFICES ASSUME TypeInv, CallOps, [Next]_vars PROVE CallOps'
  OBVIOUS
<1>1. call \in [Calls -> Call]
  BY TypeInvParts
<1>2. CASE UNCHANGED call
  BY <1>2 DEF CallOps
<1>3. ASSUME NEW c \in Calls, NEW op \in Ops, NEW b \in Bots, BeginCall(c, op, b)
      PROVE  CallOps'
  <2>1. /\ call'[c].pc = IF op = "restart" THEN "send" ELSE "mark"
        /\ call'[c].op = op
        /\ \A d \in Calls : d # c => call'[d] = call[d]
    BY <1>1, <1>3 DEF BeginCall
  <2> QED
    BY <2>1 DEF CallOps
<1>4. ASSUME NEW c \in Calls, NEW pc, Step(c, pc),
             pc \in {"mark", "rollback"} => call[c].op # "restart"
      PROVE  CallOps'
  BY <1>1, <1>4, StepOfCall DEF CallOps
<1>5. ASSUME NEW c \in Calls, CallStep(c) PROVE CallOps'
  <2>1. PICK pc \in {"done", "send"} : Step(c, pc)
    BY <1>5 DEF CallStep, MarkRow, RefuseStart, Enqueue, Publish, RestoreRow
  <2> QED
    BY <1>4, <2>1
<1>6. ASSUME NEW c \in Calls, SendThrows(c) PROVE CallOps'
  BY <1>4, <1>6 DEF SendThrows
<1> QED
  BY <1>2, <1>3, <1>5, <1>6
  DEF Next, HandleSignal, Sweep, ActorEnds, DropSignals, WorkerStep, LeaseStep, vars

(* A call begins. *)
LEMMA BeginCallRow ==
  ASSUME TypeInv, OwnerInv, TeardownInv, RowInv,
         NEW c \in Calls, NEW op \in Ops, NEW b \in Bots, BeginCall(c, op, b)
  PROVE  RowInv'
<1>1. /\ call \in [Calls -> Call] /\ ~\E d \in Bots : WillStop(c, d)
      /\ UNCHANGED <<row, jobs, mode, phase, pendingStops, tasks, races, signals>>
      /\ \A d \in Calls : d # c => call'[d] = call[d]
  BY TypeInvParts DEF BeginCall, WillStop, runtimeVars, local
<1>2. ASSUME NEW v \in Workers, NEW d \in Bots, StopComing(v, d)
      PROVE  StopComing(v, d)'
  BY <1>1, <1>2, CallStays
<1> QED
  BY <1>1, <1>2, QuietRow

(* A call writes the row: a start claims it, a stop has yet to be sent, or *)
(* there was nothing that it has to stop.                                  *)
LEMMA MarkRowRow ==
  ASSUME TypeInv, CallOps, OwnerInv, TeardownInv, RowInv, NEW c \in Calls, MarkRow(c)
  PROVE  RowInv'
<1> DEFINE k == call[c]
<1>1. /\ call \in [Calls -> Call] /\ RestTypeOK
      /\ UNCHANGED <<jobs, mode, phase, pendingStops, tasks, signals>>
  BY TypeInvParts, RestIsEnough DEF MarkRow, local
<1>2. k.pc = "mark" /\ k.op \in {"start", "stop", "stop_bot"}
  BY <1>1 DEF MarkRow, CallOps, TypeInv, CallShape, Open, Call
<1>3. PICK b \in Bots : k.bot = b
  BY <1>2 DEF TypeInv, CallShape, Open
<1>4. PICK pc : Step(c, pc) /\ pc = IF Silent(k) THEN "done" ELSE "send"
  BY DEF MarkRow
<1>5. /\ call'[c].pc = pc /\ call'[c].op = k.op /\ call'[c].bot = b
      /\ \A d \in Calls : d # c => call'[d] = call[d]
  BY <1>1, <1>3, <1>4, StepOfCall
<1>6. /\ row'[b] = IF k.op = "start" THEN "running" ELSE "stopped"
      /\ \A d \in Bots : d # b => row'[d] = row[d]
  BY <1>1, <1>3 DEF MarkRow, RestTypeOK
<1>7. /\ \A d \in Bots : races[d] \subseteq races'[d]
      /\ Silent(k) /\ row[b] = "running" => "stale_read" \in races'[b]
  <2>1. Meets(b, IF Silent(k) /\ row[b] = "running" THEN {"stale_read"} ELSE {})
    BY <1>3 DEF MarkRow
  <2> QED
    BY <1>1, <2>1, RacesGrow
<1>8. ASSUME NEW v \in Workers, NEW d \in Bots, StopComing(v, d)
      PROVE  StopComing(v, d)'
  BY <1>1, <1>2, <1>5, <1>8, CallStays DEF WillStop
<1>9. ASSUME NEW v \in Workers, races'[b] = {}, Known(b)
      PROVE  RowObeyed(v, b)'
  <2>1. CASE k.op = "start"
    BY <1>6, <2>1 DEF RowObeyed
  <2>2. CASE k.op # "start" /\ ~Silent(k)
    <3>1. StopComing(v, b)'
      BY <1>2, <1>4, <1>5, <2>2 DEF StopComing
    <3> QED
      BY <1>6, <2>2, <3>1 DEF RowObeyed
  <2>3. CASE k.op # "start" /\ Silent(k)
    <3>1. row[b] # "running" /\ RowObeyed(v, b)
      BY <1>7, <1>9, <2>3 DEF Known
    <3>2. Stands(v, b)' <=> Stands(v, b)
      BY <1>1 DEF Stands, RunsOn, Making, Running, OnBot
    <3> QED
      BY <1>6, <1>8, <2>3, <3>1, <3>2 DEF RowObeyed
  <2> QED
    BY <2>1, <2>2, <2>3
<1> QED
  BY <1>1, <1>6, <1>7, <1>8, <1>9, QuietRow

(* A call sends what it has to send, or fails to. *)
LEMMA SendRow ==
  ASSUME TypeInv, OwnerInv, TeardownInv, RowInv, NEW c \in Calls,
         RefuseStart(c) \/ Enqueue(c) \/ Publish(c) \/ SendThrows(c)
  PROVE  RowInv'
<1>1. /\ call \in [Calls -> Call] /\ jobs \in Seq(Job)
      /\ UNCHANGED <<row, mode, phase, pendingStops, tasks, races>>
  BY TypeInvParts, RestIsEnough
  DEF RestTypeOK, RefuseStart, Enqueue, Publish, SendThrows, runtimeVars, local
<1>2. ASSUME NEW pc, Step(c, pc)
      PROVE  /\ call'[c].pc = pc /\ call'[c].op = call[c].op /\ call'[c].bot = call[c].bot
             /\ \A d \in Calls : d # c => call'[d] = call[d]
  BY <1>1, <1>2, StepOfCall
<1>3. ASSUME NEW v \in Workers, NEW b \in Bots, StopComing(v, b)
      PROVE  StopComing(v, b)'
  <2>1. CASE RefuseStart(c)
    <3>1. ~WillStop(c, b) /\ UNCHANGED <<jobs, signals>>
          /\ \A d \in Calls : d # c => call'[d] = call[d]
      BY <1>2, <2>1 DEF RefuseStart, WillStop, runtimeVars
    <3> QED
      BY <1>1, <1>3, <3>1, CallStays
  <2>2. CASE Enqueue(c)
    <3> DEFINE j == [cmd |-> call[c].op, bot |-> call[c].bot]
    <3>1. /\ jobs' = Append(jobs, j) /\ UNCHANGED signals /\ call[c].op # "stop_bot"
          /\ \A d \in Calls : d # c => call'[d] = call[d]
      BY <1>2, <2>2 DEF Enqueue
    <3>2. j.cmd = call[c].op /\ j.bot = call[c].bot
      OBVIOUS
    <3> HIDE DEF j
    <3>3. /\ \A i \in DOMAIN jobs : i \in DOMAIN jobs' /\ jobs'[i] = jobs[i]
          /\ Len(jobs) + 1 \in DOMAIN jobs' /\ jobs'[Len(jobs) + 1] = j
      BY <1>1, <3>1
    <3>4. WillStop(c, b) => StopComing(v, b)'
      BY <3>1, <3>2, <3>3 DEF WillStop, StopComing
    <3> QED
      BY <1>1, <1>3, <3>1, <3>3, <3>4, CallStays
  <2>3. CASE Publish(c)
    <3>1. /\ signals' = signals \cup {<<w, call[c].bot>> : w \in {u \in Workers : Working(u)}}
          /\ UNCHANGED jobs
          /\ \A d \in Calls : d # c => call'[d] = call[d]
      BY <1>2, <2>3 DEF Publish, runtimeVars
    <3>2. WillStop(c, b) => StopComing(v, b)'
      <4>1. CASE Working(v)
        BY <3>1, <4>1 DEF WillStop, StopComing
      <4>2. CASE ~Working(v)
        BY <1>1, <4>2 DEF StopComing, Working
      <4> QED
        BY <4>1, <4>2
    <3> QED
      BY <1>1, <1>3, <3>1, <3>2, CallStays
  <2>4. CASE SendThrows(c)
    <3>1. PICK pc : Step(c, pc) /\ pc = IF call[c].op = "restart" THEN "done" ELSE "rollback"
      BY <2>4 DEF SendThrows
    <3>2. /\ UNCHANGED <<jobs, signals>>
          /\ \A d \in Calls : d # c => call'[d] = call[d]
      BY <1>2, <2>4, <3>1 DEF SendThrows
    <3>3. WillStop(c, b) => StopComing(v, b)'
      BY <1>2, <3>1 DEF WillStop, StopComing
    <3> QED
      BY <1>1, <1>3, <3>2, <3>3, CallStays
  <2> QED
    BY <2>1, <2>2, <2>3, <2>4
<1> QED
  BY <1>1, <1>3, QuietRow

(* A rollback writes back a status; the bot runs nowhere, or may run. *)
LEMMA RestoreRowRow ==
  ASSUME TypeInv, OwnerInv, TeardownInv, RowInv, NEW c \in Calls, RestoreRow(c)
  PROVE  RowInv'
<1>1. /\ call \in [Calls -> Call] /\ RestTypeOK
      /\ UNCHANGED <<jobs, mode, phase, pendingStops, tasks, signals>>
  BY TypeInvParts, RestIsEnough DEF RestoreRow, local
<1>2. PICK b \in Bots : call[c].bot = b
  BY DEF RestoreRow, TypeInv, CallShape, Open
<1>3. \A d \in Calls : d # c => call'[d] = call[d]
  BY <1>1, StepOfCall DEF RestoreRow
<1>4. \A d \in Bots : d # b => row'[d] = row[d]
  BY <1>1, <1>2 DEF RestoreRow, RestTypeOK
<1>5. /\ \A d \in Bots : races[d] \subseteq races'[d]
      /\ row'[b] # "running" /\ LiveSomewhere(b) => "rollback" \in races'[b]
  <2>1. Meets(b, IF row'[b] # "running" /\ LiveSomewhere(b) THEN {"rollback"} ELSE {})
    BY <1>2 DEF RestoreRow
  <2> QED
    BY <1>1, <2>1, RacesGrow
<1>6. ASSUME NEW v \in Workers, NEW d \in Bots, d # b, StopComing(v, d)
      PROVE  StopComing(v, d)'
  BY <1>1, <1>2, <1>3, <1>6, CallStays DEF WillStop
<1>7. ASSUME NEW v \in Workers, races'[b] = {} PROVE RowObeyed(v, b)'
  <2>1. /\ Live(v, b)' => Live(v, b)
        /\ Stands(v, b)' => Live(v, b)'
    BY <1>1, LiveParts DEF Live, Running, At, Stands
  <2>2. CASE row'[b] = "running"
    BY <2>2 DEF RowObeyed
  <2>3. CASE row'[b] # "running"
    BY <1>5, <1>7, <2>1, <2>3 DEF LiveSomewhere, RowObeyed
  <2> QED
    BY <2>2, <2>3
<1> QED
  BY <1>1, <1>4, <1>5, <1>6, <1>7, QuietRow

-----------------------------------------------------------------------------
(* The whole system *)

(* Every step keeps the rows obeyed. *)
LEMMA StepRow ==
  BotInv /\ CallOps /\ TeardownInv /\ RowInv /\ [Next]_vars => RowInv'
<1> SUFFICES ASSUME BotInv, CallOps, TeardownInv, RowInv, [Next]_vars PROVE RowInv'
  OBVIOUS
<1>1. TypeInv /\ PendingInv /\ OwnerInv /\ RuntimeInv /\ RestTypeOK
  BY TypeInvParts, RestIsEnough DEF BotInv
<1>2. ASSUME NEW c \in Calls, NEW op \in Ops, NEW b \in Bots, BeginCall(c, op, b)
      PROVE  RowInv'
  BY <1>1, <1>2, BeginCallRow
<1>3. ASSUME NEW c \in Calls, CallStep(c) \/ SendThrows(c) PROVE RowInv'
  BY <1>1, <1>3, MarkRowRow, SendRow, RestoreRowRow DEF CallStep
<1>4. ASSUME NEW w \in Workers, NEW s \in Slots, HandleSignal(w, s) PROVE RowInv'
  BY <1>1, <1>4, HandleSignalRow
<1>5. ASSUME NEW w \in Workers, NEW s \in Slots, Sweep(w, s) \/ ActorEnds(w, s)
      PROVE  RowInv'
  BY <1>1, <1>5, PlainRow DEF Sweep, ActorEnds
<1>6. ASSUME NEW w \in Workers, WorkerStep(w) PROVE RowInv'
  BY <1>1, <1>6, ProcessStepRow, SlotStepRow DEF WorkerStep
<1>7. ASSUME UNCHANGED <<row, phase, pendingStops, tasks>>,
             \A c \in Bots : races[c] \subseteq races'[c],
             \A v \in Workers, c \in Bots : StopComing(v, c) => StopComing(v, c)'
      PROVE  RowInv'
  BY <1>1, <1>7, QuietRow
<1>8. ASSUME NEW w \in Workers, DropSignals(w) PROVE RowInv'
  <2>1. ~Working(w) /\ signals' = signals \ ({w} \X Bots)
        /\ UNCHANGED <<row, jobs, mode, phase, pendingStops, tasks, races, call>>
    BY <1>8 DEF DropSignals, runtimeVars, local
  <2>2. ASSUME NEW v \in Workers, NEW c \in Bots, StopComing(v, c)
        PROVE  StopComing(v, c)'
    <3>1. CASE v = w
      BY <2>1, <3>1 DEF StopComing, Working
    <3>2. CASE v # w
      BY <2>1, <2>2, <3>2 DEF StopComing, Working, At
    <3> QED
      BY <3>1, <3>2
  <2> QED
    BY <1>7, <2>1, <2>2
<1>9. ASSUME NEW b \in Bots, LeaseStep(b) PROVE RowInv'
  <2>1. UNCHANGED <<row, jobs, mode, phase, pendingStops, tasks, call, signals>>
    BY <1>9 DEF LeaseStep, LeaseExpires, LeaseStalls, local
  <2>2. \A c \in Bots : races[c] \subseteq races'[c]
    BY <1>1, <1>9, RacesGrow DEF LeaseStep, LeaseExpires, LeaseStalls
  <2>3. \A v \in Workers, c \in Bots : StopComing(v, c) => StopComing(v, c)'
    BY <2>1 DEF StopComing, Working, At
  <2> QED
    BY <1>7, <2>1, <2>2, <2>3
<1>10. CASE UNCHANGED vars
  <2>1. UNCHANGED <<row, jobs, mode, phase, pendingStops, tasks, races, call, signals>>
    BY <1>10 DEF vars, runtimeVars, local
  <2>2. \A v \in Workers, c \in Bots : StopComing(v, c) => StopComing(v, c)'
    BY <2>1 DEF StopComing, Working, At
  <2> QED
    BY <1>7, <2>1, <2>2
<1> QED
  BY <1>2, <1>3, <1>4, <1>5, <1>6, <1>8, <1>9, <1>10 DEF Next

(* At the start no process has anything, and no call has been made. *)
LEMMA InitRows == Init => CallOps /\ TeardownInv /\ RowInv
<1> SUFFICES ASSUME Init PROVE CallOps /\ TeardownInv /\ RowInv
  OBVIOUS
<1>1. CallOps
  BY DEF Init, CallOps
<1>2. ASSUME NEW w \in Workers, NEW b \in Bots, NEW s \in Slots, NEW pcs,
             "idle" \notin pcs
      PROVE  ~OnBot(w, s, b, pcs)
  BY <1>2 DEF Init, RuntimeInit, OnBot, Idle
<1>3. TeardownInv
  BY <1>2 DEF TeardownInv, OneTeardown, TeardownPcs
<1>4. ASSUME NEW w \in Workers, NEW b \in Bots PROVE ~RunsOn(w, b) /\ ~Making(w, b)
  BY <1>2 DEF Init, RuntimeInit, RunsOn, Running, Making
<1>5. RowInv
  BY <1>4, LiveParts DEF RowInv, RowObeyed, Stands
<1> QED
  BY <1>1, <1>3, <1>5

(* A bot that has met no race is obeyed: whatever its row says but         *)
(* "running", what stands of it has its stop on the way, and of a crashed  *)
(* one nothing lives; its teardowns follow one another, and the one that   *)
(* will mark the row still has the lease.                                  *)
THEOREM RowInvariant == Spec => [](TeardownInv /\ RowInv)
<1> DEFINE IInv == BotInv /\ CallOps /\ TeardownInv /\ RowInv
<1>1. Init => IInv
  <2>1. Init => PendingInv
    BY DEF Init, RuntimeInit, PendingInv, NoPoisonedStart, StartingIsFactory
  <2> QED
    BY <2>1, InitTypes, InitOwned, InitRows DEF BotInv
<1>2. IInv /\ [Next]_vars => IInv'
  BY StepTypes, StepPending, StepOwned, StepTeardown, StepRow, CallOpsStep DEF BotInv
<1>3. IInv => TeardownInv /\ RowInv
  OBVIOUS
<1> QED
  BY <1>1, <1>2, <1>3, PTL DEF Spec

(* An actor of a bot whose row says stopped has its stop on the way to it, *)
(* through every interleaving of calls, sweeps, crashes, failures, deaths  *)
(* and shutdowns that is none of the races.                                *)
THEOREM StoppedBotsRest == Spec => []StoppedStaysStopped
<1>1. RowInv => StoppedStaysStopped
  BY DEF RowInv, RowObeyed, Stands, StoppedStaysStopped
<1> QED
  BY <1>1, RowInvariant, PTL

(* No actor of a bot that is marked crashed runs or is being made: whoever *)
(* marks it holds the lease, and what comes later finds the mark.          *)
THEOREM CrashedBotsRest == Spec => []CrashedNeverRuns
<1>1. RowInv => CrashedNeverRuns
  BY DEF RowInv, RowObeyed, CrashedNeverRuns
<1> QED
  BY <1>1, RowInvariant, PTL
=============================================================================
