------------------------ MODULE BotLifecycle_proofs -------------------------
(***************************************************************************)
(* Theorems about BotLifecycle, for every number of processes, bots, tasks *)
(* and calls.                                                              *)
(*                                                                         *)
(* The argument goes bot by bot, for as long as none of the races that     *)
(* take the lease away from its holder has happened (Protected): an actor  *)
(* that is registered, or a factory call that will register one, has the   *)
(* lease and its renewal; a factory call is alone in its process; what     *)
(* runs is what is registered.  Teardowns of the bot may overlap.          *)
(***************************************************************************)
EXTENDS BotLifecycle, FiniteSetTheorems, TLAPS

(* A task that is at work has a bot, and an actor object where it uses one. *)
AtWork(t) ==
    /\ t \in Task
    /\ t.pc \notin {"idle", "scan"} => t.bot \in Bots
    /\ t.kind \in {"start", "stop", "restart"} => t.bot \in Bots
    /\ t.pc \in {"starting", "crashing"} => t.gen \in Gens

TaskShape == \A w \in Workers, s \in Slots : AtWork(tasks[w][s])

RuntimeInv == RuntimeTypeOK /\ TaskShape

CallShape ==
    \A c \in Calls : Open(c) => call[c].bot \in Bots /\ call[c].op # "none"

TypeInv == TypeOK /\ TaskShape /\ CallShape

(* The awaits of a task that has to do with an actor of its bot. *)
BusyPcs == TeardownPcs \cup {"factory", "starting"}
OnBot(w, s, b, pcs) == tasks[w][s].bot = b /\ tasks[w][s].pc \in pcs
Making(w, b) == \E s \in Slots : OnBot(w, s, b, {"factory"})
Has(w, b) == actors[w][b] # NoGen \/ Making(w, b)

(* The parts of the invariant of a bot that is protected. *)
HolderIsLeased(w, b) ==
    Has(w, b) => leaseKey[b] = w /\ (Working(w) => b \in renewTimers[w])

FactoryAlone(w, b) ==
    \A s \in Slots : OnBot(w, s, b, {"factory"}) =>
        /\ b \in starting[w]
        /\ actors[w][b] = NoGen
        /\ \A r \in Slots : OnBot(w, r, b, BusyPcs) => r = s

OnlyRegistered(w, b) == \A g \in Gens : Running(w, b, g) => actors[w][b] = g

(* What each await of a teardown, or of start(), knows of the actor. *)
Fits(w, s, b) ==
    /\ OnBot(w, s, b, {"abort", "undo", "release"}) => actors[w][b] = NoGen
    /\ OnBot(w, s, b, {"stopping", "mark", "evict"}) =>
          \A g \in Gens : ~Running(w, b, g)
    /\ OnBot(w, s, b, {"starting", "crashing"}) =>
          actors[w][b] \in {tasks[w][s].gen, NoGen}

OwnedAt(w, b) ==
    /\ HolderIsLeased(w, b)
    /\ FactoryAlone(w, b)
    /\ OnlyRegistered(w, b)
    /\ \A s \in Slots : Fits(w, s, b)

OwnerInv == \A w \in Workers, b \in Bots : Protected(b) => OwnedAt(w, b)

(* Only a factory call under way counts as starting. *)
StartingIsFactory ==
    \A w \in Workers, b \in Bots :
        b \in starting[w] =>
            \E s \in Slots : tasks[w][s].bot = b /\ At(w, s, "factory")

-----------------------------------------------------------------------------
(* Type correctness *)

(* An empty slot is a task with nothing to show for itself. *)
LEMMA IdleAtWork == AtWork(Idle)
  BY DEF AtWork, Idle, Task, Kinds

(* A task that finishes with its bot, or checks for another start of it,   *)
(* keeps its shape.                                                        *)
LEMMA DoneAtWork ==
  ASSUME NEW t \in Task PROVE AtWork(Done(t))
<1>1. CASE t.kind = "sweep"
  BY <1>1 DEF AtWork, Done, Task, Kinds
<1>2. CASE t.kind # "sweep"
  BY <1>2, IdleAtWork DEF Done
<1> QED
  BY <1>1, <1>2

(* What startInstance makes of a task is a task. *)
LEMMA CheckedStartAtWork ==
  ASSUME NEW t \in Task, NEW w \in Workers, NEW b \in Bots
  PROVE  AtWork(CheckedStart(w, t, b))
<1>1. CASE actors[w][b] # NoGen
  BY <1>1, DoneAtWork DEF CheckedStart
<1>2. CASE actors[w][b] = NoGen
  BY <1>2 DEF CheckedStart, AtWork, Task, Kinds
<1> QED
  BY <1>1, <1>2

(* One slot changes, to a task of the right shape. *)
LEMMA BecomeShape ==
  ASSUME RuntimeInv, NEW w \in Workers, NEW s \in Slots,
         NEW t, AtWork(t), Become(w, s, t)
  PROVE  /\ tasks' \in [Workers -> [Slots -> Task]]
         /\ TaskShape'
         /\ tasks'[w][s] = t
         /\ \A v \in Workers, r \in Slots :
               v # w \/ r # s => tasks'[v][r] = tasks[v][r]
<1>1. tasks \in [Workers -> [Slots -> Task]] /\ t \in Task
  BY DEF RuntimeInv, RuntimeTypeOK, AtWork
<1>2. tasks' = [tasks EXCEPT ![w][s] = t]
  BY DEF Become
<1>3. tasks' \in [Workers -> [Slots -> Task]]
  BY <1>1, <1>2
<1>4. tasks'[w][s] = t
  BY <1>1, <1>2
<1>5. \A v \in Workers, r \in Slots :
         v # w \/ r # s => tasks'[v][r] = tasks[v][r]
  BY <1>1, <1>2
<1>6. ASSUME NEW v \in Workers, NEW r \in Slots
      PROVE  AtWork(tasks'[v][r])
  <2>1. CASE v = w /\ r = s
    BY <2>1, <1>4
  <2>2. CASE v # w \/ r # s
    BY <2>2, <1>5 DEF RuntimeInv, TaskShape
  <2> QED
    BY <2>1, <2>2
<1>7. TaskShape'
  BY <1>6 DEF TaskShape, AtWork, Task
<1> QED
  BY <1>3, <1>4, <1>5, <1>7

(* The task in a slot, after the slot was given another one. *)
LEMMA TaskAt ==
  ASSUME RuntimeInv, NEW w \in Workers, NEW s \in Slots
  PROVE  AtWork(tasks[w][s]) /\ tasks[w][s] \in Task
  BY DEF RuntimeInv, TaskShape, AtWork

(* What is left to show of a step that replaces one task. *)
RestTypeOK ==
    /\ LeaseTypeOK
    /\ row \in [Bots -> Statuses]
    /\ jobs \in Seq(Job)
    /\ faults \in 0..MaxFaults
    /\ mode \in [Workers -> {"up", "stopping", "closing", "down"}]
    /\ shutdownTodo \in [Workers -> SUBSET Bots]
    /\ actors \in [Workers -> [Bots -> Gens \cup {NoGen}]]
    /\ phase \in [Workers -> [Bots -> [Gens -> Phases]]]
    /\ starting \in [Workers -> SUBSET Bots]
    /\ pendingStops \in [Workers -> SUBSET Bots]
    /\ races \in [Bots -> SUBSET Races]

(* A step that leaves every task but one alone need only account for that one. *)
LEMMA RestIsEnough ==
  /\ RuntimeInv => RestTypeOK
  /\ RestTypeOK' /\ (tasks \in [Workers -> [Slots -> Task]])' /\ TaskShape'
        => RuntimeInv'
  BY DEF RestTypeOK, RuntimeInv, RuntimeTypeOK

(* A bot that meets races keeps those it has met; no other bot is touched. *)
LEMMA RacesGrow ==
  ASSUME RestTypeOK, NEW b \in Bots
  PROVE  \A K : Meets(b, K) =>
           /\ races' \in [Bots -> SUBSET Races]
           /\ races'[b] = races[b] \cup K
           /\ \A c \in Bots : c # b => races'[c] = races[c]
<1> TAKE K
<1> HAVE Meets(b, K)
<1>1. K \subseteq Races /\ races \in [Bots -> SUBSET Races]
  BY RuntimeAssumption DEF Meets, RestTypeOK
<1>2. races' = [races EXCEPT ![b] = @ \cup K]
  BY DEF Meets
<1> QED
  BY <1>1, <1>2

(* How the types of the variables survive one update each. *)
LEMMA UpdateTypes ==
  ASSUME RestTypeOK, NEW w \in Workers, NEW b \in Bots
  PROVE  /\ \A k : Fault(k) => faults' \in 0..MaxFaults
         /\ \A g \in Gens \cup {NoGen} :
               Register(w, b, g) =>
                 actors' \in [Workers -> [Bots -> Gens \cup {NoGen}]]
         /\ \A g \in Gens, p \in Phases :
               SetPhase(w, b, g, p) =>
                 phase' \in [Workers -> [Bots -> [Gens -> Phases]]]
         /\ Acquire(w, b) => LeaseTypeOK'
         /\ AcquireRejected(w, b) => LeaseTypeOK'
         /\ Release(w, b) => LeaseTypeOK'
         /\ ReleaseRejected(w, b) => LeaseTypeOK'
         /\ \A K : Meets(b, K) => races' \in [Bots -> SUBSET Races]
<1>1. ASSUME NEW k, Fault(k) PROVE faults' \in 0..MaxFaults
  BY <1>1, RuntimeAssumption DEF Fault, RestTypeOK
<1>2. ASSUME NEW g \in Gens \cup {NoGen}, Register(w, b, g)
      PROVE  actors' \in [Workers -> [Bots -> Gens \cup {NoGen}]]
  BY <1>2 DEF Register, RestTypeOK
<1>3. ASSUME NEW g \in Gens, NEW p \in Phases, SetPhase(w, b, g, p)
      PROVE  phase' \in [Workers -> [Bots -> [Gens -> Phases]]]
  BY <1>3 DEF SetPhase, RestTypeOK
<1>4. Acquire(w, b) => LeaseTypeOK'
  BY DEF Acquire, RestTypeOK, LeaseTypeOK, Bots
<1>5. AcquireRejected(w, b) => LeaseTypeOK'
  BY DEF AcquireRejected, RestTypeOK, LeaseTypeOK, Bots
<1>6. Release(w, b) => LeaseTypeOK'
  BY DEF Release, RestTypeOK, LeaseTypeOK, Bots
<1>7. ReleaseRejected(w, b) => LeaseTypeOK'
  BY DEF ReleaseRejected, RestTypeOK, LeaseTypeOK, Bots
<1>8. \A K : Meets(b, K) => races' \in [Bots -> SUBSET Races]
  BY RacesGrow
<1> QED
  BY <1>1, <1>2, <1>3, <1>4, <1>5, <1>6, <1>7, <1>8

(* AcquireLease keeps the state of the runtime well typed. *)
LEMMA AcquireLeaseType ==
  ASSUME RuntimeInv, NEW w \in Workers, NEW s \in Slots, AcquireLease(w, s)
  PROVE  RuntimeInv'
<1> DEFINE t == tasks[w][s]
<1>1. t \in Task /\ t.bot \in Bots /\ RestTypeOK
  BY TaskAt, RestIsEnough DEF AcquireLease, At, AtWork
<1>2. CASE /\ Acquire(w, t.bot)
           /\ starting' = [starting EXCEPT ![w] = @ \cup {t.bot}]
           /\ Become(w, s, [t EXCEPT !.pc = "factory"])
           /\ Meets(t.bot, Reentering(w, t.bot) \cup OutOfDate(t.bot))
  <2>1. AtWork([t EXCEPT !.pc = "factory"])
    BY <1>1, TaskAt DEF AtWork, Task
  <2>2. RestTypeOK'
    BY <1>1, <1>2, UpdateTypes DEF AcquireLease, RestTypeOK
  <2> QED
    BY <1>2, <2>1, <2>2, BecomeShape, RestIsEnough
<1>3. CASE AcquireRefused(t.bot) /\ Become(w, s, Done(t)) /\ UNCHANGED <<starting, races>>
  <2>1. RestTypeOK'
    BY <1>1, <1>3 DEF AcquireLease, AcquireRefused, leaseVars, RestTypeOK, LeaseTypeOK
  <2> QED
    BY <1>1, <1>3, <2>1, DoneAtWork, BecomeShape, RestIsEnough
<1> QED
  BY <1>2, <1>3 DEF AcquireLease

(* AcquireThrows keeps the state of the runtime well typed. *)
LEMMA AcquireThrowsType ==
  ASSUME RuntimeInv, NEW w \in Workers, NEW s \in Slots, AcquireThrows(w, s)
  PROVE  RuntimeInv'
<1> DEFINE t == tasks[w][s]
<1>1. t \in Task /\ t.bot \in Bots /\ RestTypeOK
  BY TaskAt, RestIsEnough DEF AcquireThrows, At, AtWork
<1>2. AtWork([t EXCEPT !.pc = "failed"])
  BY <1>1, TaskAt DEF AtWork, Task
<1>3. RestTypeOK'
  BY <1>1, UpdateTypes DEF AcquireThrows, RestTypeOK, local
<1> QED
  BY <1>2, <1>3, BecomeShape, RestIsEnough DEF AcquireThrows

(* FactoryReturns keeps the state of the runtime well typed. *)
LEMMA FactoryReturnsType ==
  ASSUME RuntimeInv, NEW w \in Workers, NEW s \in Slots, FactoryReturns(w, s)
  PROVE  RuntimeInv'
<1> DEFINE t == tasks[w][s]
           b == t.bot
<1>1. t \in Task /\ b \in Bots /\ RestTypeOK
  BY TaskAt, RestIsEnough DEF FactoryReturns, At, AtWork
<1>2. /\ starting' \in [Workers -> SUBSET Bots]
      /\ pendingStops' \in [Workers -> SUBSET Bots]
  BY <1>1 DEF FactoryReturns, RestTypeOK
<1>3. CASE Become(w, s, [t EXCEPT !.pc = "abort"]) /\ UNCHANGED <<actors, phase>>
  <2>1. AtWork([t EXCEPT !.pc = "abort"])
    BY <1>1, TaskAt DEF AtWork, Task
  <2>2. RestTypeOK'
    BY <1>1, <1>2, <1>3 DEF FactoryReturns, RestTypeOK, leaseVars, LeaseTypeOK
  <2> QED
    BY <1>3, <2>1, <2>2, BecomeShape, RestIsEnough
<1>4. ASSUME NEW g \in Fresh(w, b), Register(w, b, g),
             SetPhase(w, b, g, "starting"),
             Become(w, s, [t EXCEPT !.pc = "starting", !.gen = g])
      PROVE  RuntimeInv'
  <2>1. g \in Gens
    BY DEF Fresh
  <2>2. AtWork([t EXCEPT !.pc = "starting", !.gen = g])
    BY <1>1, <2>1, TaskAt DEF AtWork, Task
  <2>3. "starting" \in Phases
    BY DEF Phases
  <2>4. RestTypeOK'
    BY <1>1, <1>2, <1>4, <2>1, <2>3, UpdateTypes
    DEF FactoryReturns, RestTypeOK, leaseVars, LeaseTypeOK
  <2> QED
    BY <1>4, <2>2, <2>4, BecomeShape, RestIsEnough
<1> QED
  BY <1>3, <1>4 DEF FactoryReturns

(* FactoryThrows keeps the state of the runtime well typed. *)
LEMMA FactoryThrowsType ==
  ASSUME RuntimeInv, NEW w \in Workers, NEW s \in Slots, FactoryThrows(w, s)
  PROVE  RuntimeInv'
<1> DEFINE t == tasks[w][s]
<1>1. t \in Task /\ t.bot \in Bots /\ RestTypeOK
  BY TaskAt, RestIsEnough DEF FactoryThrows, At, AtWork
<1>2. AtWork([t EXCEPT !.pc = "undo"])
  BY <1>1, TaskAt DEF AtWork, Task
<1>3. RestTypeOK'
  BY <1>1, UpdateTypes DEF FactoryThrows, RestTypeOK, leaseVars, LeaseTypeOK
<1> QED
  BY <1>2, <1>3, BecomeShape, RestIsEnough DEF FactoryThrows

(* StartReturns keeps the state of the runtime well typed. *)
LEMMA StartReturnsType ==
  ASSUME RuntimeInv, NEW w \in Workers, NEW s \in Slots, StartReturns(w, s)
  PROVE  RuntimeInv'
<1> DEFINE t == tasks[w][s]
           p == IF Running(w, t.bot, t.gen) THEN "armed" ELSE "off"
<1>1. t \in Task /\ t.bot \in Bots /\ t.gen \in Gens /\ RestTypeOK
  BY TaskAt, RestIsEnough DEF StartReturns, At, AtWork
<1>2. p \in Phases
  BY DEF Phases
<1>3. SetPhase(w, t.bot, t.gen, p)
  BY DEF StartReturns
<1>4. phase' \in [Workers -> [Bots -> [Gens -> Phases]]]
  BY <1>1, <1>2, <1>3, UpdateTypes
<1>5. RestTypeOK'
  BY <1>1, <1>4 DEF StartReturns, RestTypeOK, leaseVars, LeaseTypeOK
<1> QED
  BY <1>1, <1>5, DoneAtWork, BecomeShape, RestIsEnough DEF StartReturns

(* StartThrows keeps the state of the runtime well typed. *)
LEMMA StartThrowsType ==
  ASSUME RuntimeInv, NEW w \in Workers, NEW s \in Slots, StartThrows(w, s)
  PROVE  RuntimeInv'
<1> DEFINE t == tasks[w][s]
<1>1. t \in Task /\ t.bot \in Bots /\ t.gen \in Gens /\ RestTypeOK
  BY TaskAt, RestIsEnough DEF StartThrows, At, AtWork
<1>2. AtWork([t EXCEPT !.pc = "undo"])
  BY <1>1, TaskAt DEF AtWork, Task
<1>3. "off" \in Phases
  BY DEF Phases
<1>4. /\ phase' \in [Workers -> [Bots -> [Gens -> Phases]]]
      /\ actors' \in [Workers -> [Bots -> Gens \cup {NoGen}]]
      /\ faults' \in 0..MaxFaults
      /\ races' \in [Bots -> SUBSET Races]
  BY <1>1, <1>3, UpdateTypes DEF StartThrows
<1>5. RestTypeOK'
  BY <1>1, <1>4 DEF StartThrows, RestTypeOK, leaseVars, LeaseTypeOK
<1> QED
  BY <1>2, <1>5, BecomeShape, RestIsEnough DEF StartThrows

(* StartFailed keeps the state of the runtime well typed. *)
LEMMA StartFailedType ==
  ASSUME RuntimeInv, NEW w \in Workers, NEW s \in Slots, StartFailed(w, s)
  PROVE  RuntimeInv'
<1> DEFINE t == tasks[w][s]
<1>1. t \in Task /\ t.bot \in Bots /\ RestTypeOK
  BY TaskAt, RestIsEnough DEF StartFailed, At, AtWork
<1>2. /\ row' \in [Bots -> Statuses] /\ faults' \in 0..MaxFaults
      /\ races' \in [Bots -> SUBSET Races]
  BY <1>1, UpdateTypes DEF StartFailed, RestTypeOK, Statuses
<1>3. RestTypeOK'
  BY <1>1, <1>2 DEF StartFailed, RestTypeOK, leaseVars, LeaseTypeOK, local
<1> QED
  BY <1>1, <1>3, DoneAtWork, BecomeShape, RestIsEnough DEF StartFailed

(* The first segment of a stop, whoever asks for it. *)
LEMMA BeginStopType ==
  ASSUME RuntimeInv, NEW w \in Workers, NEW s \in Slots,
         NEW kind \in Kinds, NEW b \in Bots, BeginStop(w, s, kind, b)
  PROVE  /\ tasks' \in [Workers -> [Slots -> Task]]
         /\ TaskShape'
         /\ actors' \in [Workers -> [Bots -> Gens \cup {NoGen}]]
         /\ phase' \in [Workers -> [Bots -> [Gens -> Phases]]]
         /\ pendingStops' \in [Workers -> SUBSET Bots]
         /\ races' \in [Bots -> SUBSET Races]
<1> DEFINE g == actors[w][b]
           t == [Idle EXCEPT !.kind = kind, !.bot = b, !.gen = g]
<1>1. RestTypeOK /\ g \in Gens \cup {NoGen}
  BY RestIsEnough DEF RestTypeOK
<1>2. t \in Task /\ races' \in [Bots -> SUBSET Races]
  BY <1>1, UpdateTypes DEF Task, Idle, BeginStop
<1>3. CASE /\ g = NoGen
           /\ pendingStops' = IF b \in starting[w]
                              THEN [pendingStops EXCEPT ![w] = @ \cup {b}]
                              ELSE pendingStops
           /\ Become(w, s, IF kind = "restart" THEN CheckedStart(w, t, b) ELSE Idle)
           /\ UNCHANGED <<actors, phase>>
  <2>1. AtWork(IF kind = "restart" THEN CheckedStart(w, t, b) ELSE Idle)
    BY <1>2, CheckedStartAtWork, IdleAtWork
  <2>2. pendingStops' \in [Workers -> SUBSET Bots]
    BY <1>1, <1>3 DEF RestTypeOK
  <2> QED
    BY <1>1, <1>2, <1>3, <2>1, <2>2, BecomeShape DEF RestTypeOK
<1>4. CASE /\ g # NoGen
           /\ Running(w, b, g)
           /\ SetPhase(w, b, g, "off")
           /\ Become(w, s, [t EXCEPT !.pc = "stopping"])
           /\ UNCHANGED <<actors, pendingStops>>
  <2>1. AtWork([t EXCEPT !.pc = "stopping"])
    BY <1>2 DEF AtWork, Task, Idle
  <2>2. phase' \in [Workers -> [Bots -> [Gens -> Phases]]]
    BY <1>1, <1>4, UpdateTypes DEF Phases
  <2> QED
    BY <1>1, <1>2, <1>4, <2>1, <2>2, BecomeShape DEF RestTypeOK
<1>5. CASE /\ g # NoGen
           /\ ~Running(w, b, g)
           /\ Register(w, b, NoGen)
           /\ Become(w, s, [t EXCEPT !.pc = "release"])
           /\ UNCHANGED <<phase, pendingStops>>
  <2>1. AtWork([t EXCEPT !.pc = "release"])
    BY <1>2 DEF AtWork, Task, Idle
  <2>2. actors' \in [Workers -> [Bots -> Gens \cup {NoGen}]]
    BY <1>1, <1>5, UpdateTypes
  <2> QED
    BY <1>1, <1>2, <1>5, <2>1, <2>2, BecomeShape DEF RestTypeOK
<1> QED
  BY <1>3, <1>4, <1>5 DEF BeginStop

(* StopReturns keeps the state of the runtime well typed. *)
LEMMA StopReturnsType ==
  ASSUME RuntimeInv, NEW w \in Workers, NEW s \in Slots, StopReturns(w, s)
  PROVE  RuntimeInv'
<1> DEFINE t == tasks[w][s]
<1>1. t \in Task /\ t.bot \in Bots /\ RestTypeOK
  BY TaskAt, RestIsEnough DEF StopReturns, At, AtWork
<1>2. AtWork([t EXCEPT !.pc = "release"])
  BY <1>1, TaskAt DEF AtWork, Task
<1>3. RestTypeOK'
  BY <1>1, UpdateTypes DEF StopReturns, RestTypeOK, leaseVars, LeaseTypeOK
<1> QED
  BY <1>2, <1>3, BecomeShape, RestIsEnough DEF StopReturns

(* ReleaseLease keeps the state of the runtime well typed. *)
LEMMA ReleaseLeaseType ==
  ASSUME RuntimeInv, NEW w \in Workers, NEW s \in Slots, ReleaseLease(w, s)
  PROVE  RuntimeInv'
<1> DEFINE t == tasks[w][s]
<1>1. t \in Task /\ t.bot \in Bots /\ RestTypeOK
  BY TaskAt, RestIsEnough DEF ReleaseLease, ReleasePcs, AtWork
<1>2. AtWork([t EXCEPT !.pc = "failed"])
  BY <1>1, TaskAt DEF AtWork, Task
<1>3. AtWork(AfterRelease(w, t))
  BY <1>1, <1>2, DoneAtWork, CheckedStartAtWork DEF AfterRelease
<1>4. RestTypeOK'
  BY <1>1, UpdateTypes DEF ReleaseLease, RestTypeOK, local
<1> QED
  BY <1>3, <1>4, BecomeShape, RestIsEnough DEF ReleaseLease

(* ReleaseThrows keeps the state of the runtime well typed. *)
LEMMA ReleaseThrowsType ==
  ASSUME RuntimeInv, NEW w \in Workers, NEW s \in Slots, ReleaseThrows(w, s)
  PROVE  RuntimeInv'
<1> DEFINE t == tasks[w][s]
           u == IF t.pc = "release" THEN Done(t) ELSE [t EXCEPT !.pc = "failed"]
<1>1. t \in Task /\ t.bot \in Bots /\ RestTypeOK
  BY TaskAt, RestIsEnough DEF ReleaseThrows, ReleasePcs, AtWork
<1>2. AtWork([t EXCEPT !.pc = "failed"])
  BY <1>1, TaskAt DEF AtWork, Task
<1>3. AtWork(u)
  BY <1>1, <1>2, DoneAtWork
<1>4. RestTypeOK'
  BY <1>1, UpdateTypes DEF ReleaseThrows, RestTypeOK, local
<1>5. Become(w, s, u)
  BY DEF ReleaseThrows
<1> QED
  BY <1>3, <1>4, <1>5, BecomeShape, RestIsEnough

(* BeginCrash keeps the state of the runtime well typed. *)
LEMMA BeginCrashType ==
  ASSUME RuntimeInv, NEW w \in Workers, NEW s \in Slots, NEW b \in Bots,
         NEW g \in Gens, BeginCrash(w, s, b, g)
  PROVE  RuntimeInv'
<1>1. RestTypeOK
  BY RestIsEnough
<1>2. AtWork([Idle EXCEPT !.pc = "crashing", !.kind = "crash",
                          !.bot = b, !.gen = g])
  BY DEF AtWork, Task, Idle, Kinds
<1>3. RestTypeOK'
  BY <1>1, UpdateTypes DEF BeginCrash, RestTypeOK, leaseVars, LeaseTypeOK, local
<1> QED
  BY <1>2, <1>3, BecomeShape, RestIsEnough DEF BeginCrash

(* CrashStops keeps the state of the runtime well typed. *)
LEMMA CrashStopsType ==
  ASSUME RuntimeInv, NEW w \in Workers, NEW s \in Slots, CrashStops(w, s)
  PROVE  RuntimeInv'
<1> DEFINE t == tasks[w][s]
<1>1. t \in Task /\ t.bot \in Bots /\ t.gen \in Gens /\ RestTypeOK
  BY TaskAt, RestIsEnough DEF CrashStops, At, AtWork
<1>2. AtWork([t EXCEPT !.pc = "mark"])
  BY <1>1, TaskAt DEF AtWork, Task
<1>3. phase' \in [Workers -> [Bots -> [Gens -> Phases]]]
  BY <1>1, UpdateTypes DEF CrashStops, Phases
<1>4. RestTypeOK'
  BY <1>1, <1>3 DEF CrashStops, RestTypeOK, leaseVars, LeaseTypeOK
<1> QED
  BY <1>2, <1>4, BecomeShape, RestIsEnough DEF CrashStops

(* BeginHalt keeps the state of the runtime well typed. *)
LEMMA BeginHaltType ==
  ASSUME RuntimeInv, NEW w \in Workers, NEW s \in Slots, NEW b \in Bots,
         NEW g \in Gens, BeginHalt(w, s, b, g)
  PROVE  RuntimeInv'
<1>1. RestTypeOK
  BY RestIsEnough
<1>2. AtWork([Idle EXCEPT !.pc = "mark", !.kind = "halt", !.bot = b, !.gen = g])
  BY DEF AtWork, Task, Idle, Kinds
<1>3. /\ phase' \in [Workers -> [Bots -> [Gens -> Phases]]]
      /\ faults' \in 0..MaxFaults
      /\ races' \in [Bots -> SUBSET Races]
  BY <1>1, UpdateTypes DEF BeginHalt, Phases
<1>4. RestTypeOK'
  BY <1>1, <1>3 DEF BeginHalt, RestTypeOK, leaseVars, LeaseTypeOK
<1> QED
  BY <1>2, <1>4, BecomeShape, RestIsEnough DEF BeginHalt

(* MarkTerminal keeps the state of the runtime well typed. *)
LEMMA MarkTerminalType ==
  ASSUME RuntimeInv, NEW w \in Workers, NEW s \in Slots, MarkTerminal(w, s)
  PROVE  RuntimeInv'
<1> DEFINE t == tasks[w][s]
<1>1. t \in Task /\ t.bot \in Bots /\ RestTypeOK
  BY TaskAt, RestIsEnough DEF MarkTerminal, At, AtWork
<1>2. AtWork([t EXCEPT !.pc = "evict"])
  BY <1>1, TaskAt DEF AtWork, Task
<1>3. row' \in [Bots -> Statuses] /\ faults' \in 0..MaxFaults
  BY <1>1, UpdateTypes DEF MarkTerminal, RestTypeOK, Statuses
<1>4. RestTypeOK'
  BY <1>1, <1>3 DEF MarkTerminal, RestTypeOK, leaseVars, LeaseTypeOK, local
<1> QED
  BY <1>2, <1>4, BecomeShape, RestIsEnough DEF MarkTerminal

(* HandleActorCrash keeps the state of the runtime well typed. *)
LEMMA HandleActorCrashType ==
  ASSUME RuntimeInv, NEW w \in Workers, NEW s \in Slots, HandleActorCrash(w, s)
  PROVE  RuntimeInv'
<1> DEFINE t == tasks[w][s]
<1>1. t \in Task /\ t.bot \in Bots /\ RestTypeOK
  BY TaskAt, RestIsEnough DEF HandleActorCrash, At, AtWork
<1>2. AtWork([t EXCEPT !.pc = "release"])
  BY <1>1, TaskAt DEF AtWork, Task
<1>3. RestTypeOK'
  BY <1>1, UpdateTypes DEF HandleActorCrash, RestTypeOK, leaseVars, LeaseTypeOK
<1> QED
  BY <1>2, <1>3, BecomeShape, RestIsEnough DEF HandleActorCrash

(* The job at the head of the queue is a job, and so are the rest. *)
LEMMA HeadOfJobs ==
  ASSUME RestTypeOK, jobs # <<>>
  PROVE  /\ Head(jobs).bot \in Bots /\ Head(jobs).cmd \in {"start", "stop", "restart"}
         /\ Tail(jobs) \in Seq(Job)
<1>1. Head(jobs) \in Job /\ Tail(jobs) \in Seq(Job)
  BY DEF RestTypeOK
<1> QED
  BY <1>1 DEF Job

(* TakeStart keeps the state of the runtime well typed. *)
LEMMA TakeStartType ==
  ASSUME RuntimeInv, NEW w \in Workers, NEW s \in Slots, TakeStart(w, s)
  PROVE  RuntimeInv'
<1>1. RestTypeOK /\ Head(jobs).bot \in Bots /\ jobs' \in Seq(Job)
  BY RestIsEnough, HeadOfJobs DEF TakeStart
<1>2. [Idle EXCEPT !.kind = "start"] \in Task
  BY DEF Idle, Task, Kinds
<1>3. RestTypeOK'
  BY <1>1 DEF TakeStart, RestTypeOK, leaseVars, LeaseTypeOK, local
<1> QED
  BY <1>1, <1>2, <1>3, CheckedStartAtWork, BecomeShape, RestIsEnough DEF TakeStart

(* TakeStop keeps the state of the runtime well typed. *)
LEMMA TakeStopType ==
  ASSUME RuntimeInv, NEW w \in Workers, NEW s \in Slots, TakeStop(w, s)
  PROVE  RuntimeInv'
<1>1. /\ RestTypeOK /\ Head(jobs).bot \in Bots /\ Head(jobs).cmd \in Kinds
      /\ jobs' \in Seq(Job)
  BY RestIsEnough, HeadOfJobs DEF TakeStop, Kinds
<1>2. BeginStop(w, s, Head(jobs).cmd, Head(jobs).bot)
  BY DEF TakeStop
<1>3. /\ tasks' \in [Workers -> [Slots -> Task]] /\ TaskShape'
      /\ actors' \in [Workers -> [Bots -> Gens \cup {NoGen}]]
      /\ phase' \in [Workers -> [Bots -> [Gens -> Phases]]]
      /\ pendingStops' \in [Workers -> SUBSET Bots]
      /\ races' \in [Bots -> SUBSET Races]
  BY <1>1, <1>2, BeginStopType
<1>4. RestTypeOK'
  BY <1>1, <1>3 DEF TakeStop, RestTypeOK, leaseVars, LeaseTypeOK
<1> QED
  BY <1>3, <1>4, RestIsEnough

(* ShutdownStops keeps the state of the runtime well typed. *)
LEMMA ShutdownStopsType ==
  ASSUME RuntimeInv, NEW w \in Workers, NEW s \in Slots, ShutdownStops(w, s)
  PROVE  RuntimeInv'
<1>1. RestTypeOK
  BY RestIsEnough
<1>2. PICK b \in shutdownTodo[w] :
        /\ shutdownTodo' = [shutdownTodo EXCEPT ![w] = @ \ {b}]
        /\ BeginStop(w, s, "shutdown", b)
  BY DEF ShutdownStops
<1>3. b \in Bots /\ "shutdown" \in Kinds
  BY <1>1 DEF RestTypeOK, Kinds
<1>4. /\ tasks' \in [Workers -> [Slots -> Task]] /\ TaskShape'
      /\ actors' \in [Workers -> [Bots -> Gens \cup {NoGen}]]
      /\ phase' \in [Workers -> [Bots -> [Gens -> Phases]]]
      /\ pendingStops' \in [Workers -> SUBSET Bots]
      /\ races' \in [Bots -> SUBSET Races]
  BY <1>2, <1>3, BeginStopType
<1>5. RestTypeOK'
  BY <1>1, <1>2, <1>4 DEF ShutdownStops, RestTypeOK, leaseVars, LeaseTypeOK
<1> QED
  BY <1>4, <1>5, RestIsEnough

(* BeginSweep keeps the state of the runtime well typed. *)
LEMMA BeginSweepType ==
  ASSUME RuntimeInv, NEW w \in Workers, NEW s \in Slots, BeginSweep(w, s)
  PROVE  RuntimeInv'
<1> DEFINE listed == {b \in Bots : row[b] = "running"}
<1>1. RestTypeOK
  BY RestIsEnough
<1>2. AtWork([Idle EXCEPT !.pc = "scan", !.kind = "sweep", !.todo = listed])
  BY DEF AtWork, Task, Idle, Kinds
<1>3. RestTypeOK'
  BY <1>1 DEF BeginSweep, RestTypeOK, leaseVars, LeaseTypeOK, local
<1> QED
  BY <1>2, <1>3, BecomeShape, RestIsEnough DEF BeginSweep

(* SweepNext keeps the state of the runtime well typed. *)
LEMMA SweepNextType ==
  ASSUME RuntimeInv, NEW w \in Workers, NEW s \in Slots, SweepNext(w, s)
  PROVE  RuntimeInv'
<1> DEFINE t == tasks[w][s]
<1>1. RestTypeOK /\ t \in Task /\ t.todo \subseteq Bots
  BY TaskAt, RestIsEnough DEF Task
<1>2. RestTypeOK'
  BY <1>1 DEF SweepNext, RestTypeOK, leaseVars, LeaseTypeOK, local
<1>3. CASE Become(w, s, Idle)
  BY <1>2, <1>3, IdleAtWork, BecomeShape, RestIsEnough
<1>4. ASSUME NEW b \in t.todo,
             Become(w, s, CheckedStart(w, [t EXCEPT !.todo = @ \ {b}], b))
      PROVE  RuntimeInv'
  <2>1. b \in Bots /\ [t EXCEPT !.todo = @ \ {b}] \in Task
    BY <1>1 DEF Task
  <2> QED
    BY <1>2, <1>4, <2>1, CheckedStartAtWork, BecomeShape, RestIsEnough
<1> QED
  BY <1>3, <1>4 DEF SweepNext

(* The tasks of a process that is gone. *)
LEMMA ProcessGoneType ==
  ASSUME RuntimeInv, NEW w \in Workers, ProcessGone(w),
         UNCHANGED <<leaseKey, row, races>>,
         jobs' \in Seq(Job), faults' \in 0..MaxFaults
  PROVE  RuntimeInv'
<1>1. RestTypeOK
  BY RestIsEnough
<1>2. RestTypeOK'
  BY <1>1 DEF ProcessGone, ClearTimers, RestTypeOK, LeaseTypeOK, Phases, Bots
<1>3. tasks \in [Workers -> [Slots -> Task]] /\ Idle \in Task
  BY IdleAtWork DEF RuntimeInv, RuntimeTypeOK, AtWork
<1>4. tasks' = [tasks EXCEPT ![w] = [s \in Slots |-> Idle]]
  BY DEF ProcessGone
<1>5. tasks' \in [Workers -> [Slots -> Task]]
  BY <1>3, <1>4
<1>6. ASSUME NEW v \in Workers, NEW r \in Slots
      PROVE  tasks'[v][r] = Idle \/ tasks'[v][r] = tasks[v][r]
  BY <1>3, <1>4
<1>7. ASSUME NEW v \in Workers, NEW r \in Slots PROVE AtWork(tasks'[v][r])
  BY <1>6, IdleAtWork, TaskAt
<1>8. TaskShape'
  BY <1>7 DEF TaskShape, AtWork, Task
<1> QED
  BY <1>2, <1>5, <1>8, RestIsEnough

(* A function on 1..n is a sequence. *)
LEMMA FunctionIsSeq ==
  ASSUME NEW S, NEW n \in Nat, NEW f \in [1..n -> S]
  PROVE  f \in Seq(S)
  OBVIOUS

(* The jobs that a dead process was at come back in front of the queue. *)
LEMMA DieJobs ==
  ASSUME RuntimeInv, NEW w \in Workers, Die(w)
  PROVE  \E back \in Seq(Job) : jobs' = back \o jobs
<1> DEFINE lost == {s \in Slots : InJob(w, s)}
           n == Cardinality(lost)
<1>1. n \in Nat
  BY RuntimeAssumption, FS_Subset, FS_CardinalityType
<1>2. PICK order \in [1..n -> lost] :
        jobs' = [i \in DOMAIN order |->
                   [cmd |-> tasks[w][order[i]].kind,
                    bot |-> tasks[w][order[i]].bot]] \o jobs
  BY DEF Die
<1> DEFINE back == [i \in DOMAIN order |->
                      [cmd |-> tasks[w][order[i]].kind,
                       bot |-> tasks[w][order[i]].bot]]
<1>3. ASSUME NEW i \in 1..n
      PROVE  [cmd |-> tasks[w][order[i]].kind, bot |-> tasks[w][order[i]].bot] \in Job
  <2>1. order[i] \in Slots /\ InJob(w, order[i])
    OBVIOUS
  <2> QED
    BY <2>1, TaskAt DEF InJob, AtWork, Job
<1>4. back \in Seq(Job)
  <2>1. back \in [1..n -> Job]
    BY <1>3
  <2> HIDE DEF n, back
  <2>2. \A f \in [1..n -> Job] : f \in Seq(Job)
    BY <1>1, FunctionIsSeq
  <2> QED
    BY <2>1, <2>2
<1>5. jobs' = back \o jobs
  BY <1>2
<1> HIDE DEF back
<1> QED
  BY <1>4, <1>5

(* Die keeps the state of the runtime well typed. *)
LEMMA DieType ==
  ASSUME RuntimeInv, NEW w \in Workers, Die(w)
  PROVE  RuntimeInv'
<1>1. RestTypeOK
  BY RestIsEnough
<1>2. jobs' \in Seq(Job)
  <2>1. PICK back \in Seq(Job) : jobs' = back \o jobs
    BY DieJobs
  <2>2. jobs \in Seq(Job)
    BY <1>1 DEF RestTypeOK
  <2> QED
    BY <2>1, <2>2
<1>3. faults' \in 0..MaxFaults
  BY <1>1, RuntimeAssumption DEF Die, Fault, RestTypeOK
<1> QED
  BY <1>2, <1>3, ProcessGoneType DEF Die

(* ProcessStep keeps the state of the runtime well typed. *)
LEMMA ProcessStepType ==
  ASSUME RuntimeInv, NEW w \in Workers, ProcessStep(w)
  PROVE  RuntimeInv'
<1>1. /\ RestTypeOK /\ tasks \in [Workers -> [Slots -> Task]] /\ TaskShape
  BY RestIsEnough DEF RuntimeInv, RuntimeTypeOK
<1>2. UNCHANGED tasks =>
        (tasks \in [Workers -> [Slots -> Task]])' /\ TaskShape'
  BY <1>1 DEF TaskShape, AtWork, Task
<1>3. CASE Shutdown(w)
  <2>1. RestTypeOK'
    BY <1>1, <1>3 DEF Shutdown, RestTypeOK, leaseVars, LeaseTypeOK, local
  <2> QED
    BY <1>2, <1>3, <2>1, RestIsEnough DEF Shutdown
<1>4. CASE CloseWorker(w)
  <2>1. RestTypeOK'
    BY <1>1, <1>4 DEF CloseWorker, ClearTimers, RestTypeOK, LeaseTypeOK, local, Bots
  <2> QED
    BY <1>2, <1>4, <2>1, RestIsEnough DEF CloseWorker
<1>5. CASE Exit(w)
  BY <1>1, <1>5, ProcessGoneType DEF Exit, RestTypeOK
<1>6. CASE Die(w)
  BY <1>6, DieType
<1>7. ASSUME NEW b \in Bots, LeaseLost(w, b) PROVE RuntimeInv'
  <2>1. RestTypeOK'
    BY <1>1, <1>7 DEF LeaseLost, RenewFindsLost, RestTypeOK, LeaseTypeOK, local, Bots
  <2> QED
    BY <1>2, <1>7, <2>1, RestIsEnough DEF LeaseLost
<1> QED
  BY <1>3, <1>4, <1>5, <1>6, <1>7 DEF ProcessStep

(* SlotStep keeps the state of the runtime well typed. *)
LEMMA SlotStepType ==
  ASSUME RuntimeInv, NEW w \in Workers, NEW s \in Slots, SlotStep(w, s)
  PROVE  RuntimeInv'
  BY AcquireLeaseType, FactoryReturnsType, StartReturnsType, StartFailedType,
     StopReturnsType, ReleaseLeaseType, CrashStopsType, MarkTerminalType,
     HandleActorCrashType, SweepNextType, AcquireThrowsType, FactoryThrowsType,
     StartThrowsType, ReleaseThrowsType, TakeStartType, TakeStopType,
     ShutdownStopsType
  DEF SlotStep, TaskStep, TaskFails

(* LeaseStep keeps the state of the runtime well typed. *)
LEMMA LeaseStepType ==
  ASSUME RuntimeInv, NEW b \in Bots, LeaseStep(b)
  PROVE  RuntimeInv'
<1>1. /\ RestTypeOK /\ tasks \in [Workers -> [Slots -> Task]] /\ TaskShape
  BY RestIsEnough DEF RuntimeInv, RuntimeTypeOK
<1>2. (tasks \in [Workers -> [Slots -> Task]])' /\ TaskShape'
  BY <1>1 DEF TaskShape, AtWork, Task, LeaseStep, LeaseExpires, LeaseStalls
<1>3. faults' \in 0..MaxFaults
  BY <1>1, UpdateTypes DEF LeaseStep, LeaseExpires, LeaseStalls, RestTypeOK, Fault, Bots
<1>4. LeaseTypeOK'
  BY <1>1 DEF LeaseStep, LeaseExpires, LeaseStalls, KeyExpires, RestTypeOK,
              LeaseTypeOK, Bots
<1>5. races' \in [Bots -> SUBSET Races]
  BY <1>1, RacesGrow DEF LeaseStep, LeaseExpires, LeaseStalls
<1>6. RestTypeOK'
  BY <1>1, <1>3, <1>4, <1>5
  DEF LeaseStep, LeaseExpires, LeaseStalls, RestTypeOK, local
<1> QED
  BY <1>2, <1>6, RestIsEnough

(* TypeInv, split into the runtime's part and the calls' part, now and next. *)
LEMMA TypeInvParts ==
  /\ TypeInv <=> /\ RuntimeInv /\ CallShape
                 /\ call \in [Calls -> Call]
                 /\ signals \subseteq Workers \X Bots
  /\ TypeInv' <=> /\ RuntimeInv' /\ CallShape'
                  /\ call' \in [Calls -> Call]
                  /\ signals' \subseteq Workers \X Bots
  BY DEF TypeInv, TypeOK, RuntimeInv

(* A step that leaves the runtime alone keeps its part of the invariant. *)
LEMMA RuntimeUnchanged ==
  ASSUME RuntimeInv, UNCHANGED runtimeVars PROVE RuntimeInv'
  BY DEF RuntimeInv, RuntimeTypeOK, LeaseTypeOK, TaskShape, AtWork, runtimeVars,
         leaseVars, local, Task

(* A step that changes only rows, jobs and faults of the runtime. *)
LEMMA RowsAndJobs ==
  ASSUME RuntimeInv, row' \in [Bots -> Statuses], jobs' \in Seq(Job),
         faults' \in 0..MaxFaults, races' \in [Bots -> SUBSET Races],
         UNCHANGED <<leaseVars, mode, shutdownTodo, local, tasks>>
  PROVE  RuntimeInv'
  BY DEF RuntimeInv, RuntimeTypeOK, LeaseTypeOK, TaskShape, AtWork, leaseVars,
         local, Task

(* The initial states are well typed. *)
LEMMA InitTypes == Init => TypeInv
<1> SUFFICES ASSUME Init PROVE TypeInv
  OBVIOUS
<1>1. /\ \A w \in Workers, s \in Slots : tasks[w][s] = Idle
      /\ tasks = [w \in Workers |-> [s \in Slots |-> Idle]]
  BY DEF Init, RuntimeInit
<1>2. TaskShape /\ tasks \in [Workers -> [Slots -> Task]]
  BY <1>1, IdleAtWork DEF TaskShape, AtWork
<1>3. RestTypeOK
  BY RuntimeAssumption
  DEF Init, RuntimeInit, LeaseInit, RestTypeOK, LeaseTypeOK, Statuses, Phases
<1>4. RuntimeInv
  BY <1>2, <1>3 DEF RuntimeInv, RuntimeTypeOK, RestTypeOK
<1>5. /\ call \in [Calls -> Call] /\ CallShape /\ signals \subseteq Workers \X Bots
  BY DEF Init, Call, CallShape, Open, Statuses
<1> QED
  BY <1>4, <1>5, TypeInvParts

(* The steps of the calls keep the state well typed. *)
LEMMA CallTypes ==
  ASSUME TypeInv, NEW c \in Calls, CallStep(c) \/ SendThrows(c)
  PROVE  TypeInv'
<1>1. /\ RuntimeInv /\ CallShape /\ RestTypeOK
      /\ call \in [Calls -> Call]
      /\ signals \subseteq Workers \X Bots
  BY TypeInvParts, RestIsEnough
<1>2. Open(c) => call[c].bot \in Bots /\ call[c].op \in {"start", "stop", "restart", "stop_bot"}
  BY <1>1 DEF CallShape, Call
<1>3. ASSUME NEW pc \in {"send", "rollback", "done"}, Step(c, pc), Open(c)
      PROVE  CallShape' /\ call' \in [Calls -> Call]
  BY <1>1, <1>2, <1>3 DEF Step, CallShape, Open, Call
<1>4. CASE MarkRow(c)
  <2>1. row' \in [Bots -> Statuses] /\ races' \in [Bots -> SUBSET Races]
    BY <1>1, <1>2, <1>4, RacesGrow DEF MarkRow, RestTypeOK, Statuses, Open
  <2>2. RuntimeInv'
    BY <1>1, <1>4, <2>1, RowsAndJobs DEF MarkRow, RestTypeOK
  <2>3. CallShape' /\ call' \in [Calls -> Call]
    BY <1>3, <1>4 DEF MarkRow, Open
  <2> QED
    BY <1>1, <1>4, <2>2, <2>3, TypeInvParts DEF MarkRow
<1>5. CASE Enqueue(c)
  <2>1. [cmd |-> call[c].op, bot |-> call[c].bot] \in Job
    BY <1>2, <1>5 DEF Enqueue, Open, Job
  <2>2. jobs' \in Seq(Job)
    BY <1>1, <1>5, <2>1 DEF Enqueue, RestTypeOK
  <2>3. RuntimeInv'
    BY <1>1, <1>5, <2>2, RowsAndJobs DEF Enqueue, RestTypeOK
  <2>4. CallShape' /\ call' \in [Calls -> Call]
    BY <1>3, <1>5 DEF Enqueue, Open
  <2> QED
    BY <1>1, <1>5, <2>3, <2>4, TypeInvParts DEF Enqueue
<1>6. CASE Publish(c)
  <2>1. RuntimeInv'
    BY <1>1, <1>6, RuntimeUnchanged DEF Publish
  <2>2. CallShape' /\ call' \in [Calls -> Call]
    BY <1>3, <1>6 DEF Publish, Open
  <2>3. signals' \subseteq Workers \X Bots
    BY <1>1, <1>2, <1>6 DEF Publish, Open
  <2> QED
    BY <2>1, <2>2, <2>3, TypeInvParts
<1>7. CASE RestoreRow(c)
  <2>1. call[c].seen \in Statuses
    BY <1>1 DEF Call
  <2>2. row' \in [Bots -> Statuses] /\ faults' \in 0..MaxFaults
    <3>1. CASE row' = [row EXCEPT ![call[c].bot] = call[c].seen] /\ UNCHANGED faults
      BY <1>1, <2>1, <3>1 DEF RestTypeOK
    <3>2. CASE Fault("restore") /\ UNCHANGED row
      BY <1>1, <3>2, RuntimeAssumption DEF RestTypeOK, Fault
    <3> QED
      BY <1>7, <3>1, <3>2 DEF RestoreRow
  <2>3. races' \in [Bots -> SUBSET Races]
    BY <1>1, <1>2, <1>7, RacesGrow DEF RestoreRow, Open
  <2>4. RuntimeInv'
    BY <1>1, <1>7, <2>2, <2>3, RowsAndJobs DEF RestoreRow, RestTypeOK
  <2>5. CallShape' /\ call' \in [Calls -> Call]
    BY <1>3, <1>7 DEF RestoreRow, Open
  <2> QED
    BY <1>1, <1>7, <2>4, <2>5, TypeInvParts DEF RestoreRow
<1>8. CASE SendThrows(c)
  <2>1. faults' \in 0..MaxFaults
    BY <1>1, <1>8, RuntimeAssumption DEF SendThrows, Fault, RestTypeOK
  <2>2. RuntimeInv'
    BY <1>1, <1>8, <2>1, RowsAndJobs DEF SendThrows, RestTypeOK
  <2>3. CallShape' /\ call' \in [Calls -> Call]
    BY <1>3, <1>8 DEF SendThrows, Open
  <2> QED
    BY <1>1, <1>8, <2>2, <2>3, TypeInvParts DEF SendThrows
<1>9. CASE RefuseStart(c)
  <2>1. RuntimeInv'
    BY <1>1, <1>9, RuntimeUnchanged DEF RefuseStart
  <2>2. CallShape' /\ call' \in [Calls -> Call]
    BY <1>3, <1>9 DEF RefuseStart, Open
  <2> QED
    BY <1>1, <1>9, <2>1, <2>2, TypeInvParts DEF RefuseStart
<1> QED
  BY <1>4, <1>5, <1>6, <1>7, <1>8, <1>9 DEF CallStep

(* The subscriber of bot:stop keeps the state well typed. *)
LEMMA HandleSignalTypes ==
  ASSUME TypeInv, NEW w \in Workers, NEW s \in Slots, HandleSignal(w, s)
  PROVE  TypeInv'
<1>1. /\ RuntimeInv /\ CallShape /\ RestTypeOK
      /\ call \in [Calls -> Call]
      /\ signals \subseteq Workers \X Bots
  BY TypeInvParts, RestIsEnough
<1>2. PICK b \in Bots : /\ signals' = signals \ {<<w, b>>}
                        /\ BeginStop(w, s, "signal", b)
  BY DEF HandleSignal
<1>3. "signal" \in Kinds
  BY DEF Kinds
<1>4. /\ tasks' \in [Workers -> [Slots -> Task]] /\ TaskShape'
      /\ actors' \in [Workers -> [Bots -> Gens \cup {NoGen}]]
      /\ phase' \in [Workers -> [Bots -> [Gens -> Phases]]]
      /\ pendingStops' \in [Workers -> SUBSET Bots]
      /\ races' \in [Bots -> SUBSET Races]
  BY <1>1, <1>2, <1>3, BeginStopType
<1>5. RestTypeOK'
  BY <1>1, <1>4 DEF HandleSignal, RestTypeOK, leaseVars, LeaseTypeOK
<1>6. RuntimeInv'
  BY <1>4, <1>5, RestIsEnough
<1>7. CallShape' /\ (call \in [Calls -> Call])' /\ signals' \subseteq Workers \X Bots
  BY <1>1, <1>2 DEF HandleSignal, CallShape, Open
<1> QED
  BY <1>6, <1>7, TypeInvParts

(* Every step keeps the state well typed. *)
LEMMA StepTypes == TypeInv /\ [Next]_vars => TypeInv'
<1> SUFFICES ASSUME TypeInv, [Next]_vars PROVE TypeInv'
  OBVIOUS
<1>1. /\ RuntimeInv /\ CallShape /\ RestTypeOK
      /\ call \in [Calls -> Call]
      /\ signals \subseteq Workers \X Bots
  BY TypeInvParts, RestIsEnough
<1>2. ASSUME RuntimeInv', UNCHANGED <<call, signals>> PROVE TypeInv'
  BY <1>1, <1>2, TypeInvParts DEF CallShape, Open
<1>3. ASSUME NEW c \in Calls, NEW op \in Ops, NEW b \in Bots, BeginCall(c, op, b)
      PROVE  TypeInv'
  <2>1. RuntimeInv'
    BY <1>1, <1>3, RuntimeUnchanged DEF BeginCall
  <2>2. row[b] \in Statuses
    BY <1>1 DEF RestTypeOK
  <2>3. op \in {"start", "stop", "restart", "stop_bot"}
    BY LifecycleAssumption
  <2>4. CallShape' /\ call' \in [Calls -> Call]
    BY <1>1, <1>3, <2>2, <2>3 DEF BeginCall, CallShape, Open, Call
  <2> QED
    BY <1>1, <1>3, <2>1, <2>4, TypeInvParts DEF BeginCall
<1>4. ASSUME NEW w \in Workers, DropSignals(w) PROVE TypeInv'
  <2>1. RuntimeInv'
    BY <1>1, <1>4, RuntimeUnchanged DEF DropSignals
  <2> QED
    BY <1>1, <1>4, <2>1, TypeInvParts DEF DropSignals, CallShape, Open
<1>5. ASSUME NEW w \in Workers, NEW s \in Slots, Sweep(w, s) PROVE TypeInv'
  BY <1>1, <1>2, <1>5, BeginSweepType DEF Sweep
<1>6. ASSUME NEW w \in Workers, NEW s \in Slots, ActorEnds(w, s) PROVE TypeInv'
  BY <1>1, <1>2, <1>6, BeginCrashType, BeginHaltType DEF ActorEnds
<1>7. ASSUME NEW w \in Workers, WorkerStep(w) PROVE TypeInv'
  BY <1>1, <1>2, <1>7, ProcessStepType, SlotStepType DEF WorkerStep
<1>8. ASSUME NEW b \in Bots, LeaseStep(b) PROVE TypeInv'
  BY <1>1, <1>2, <1>8, LeaseStepType DEF LeaseStep
<1>9. CASE UNCHANGED vars
  BY <1>1, <1>2, <1>9, RuntimeUnchanged DEF vars
<1> QED
  BY <1>3, <1>4, <1>5, <1>6, <1>7, <1>8, <1>9, CallTypes, HandleSignalTypes DEF Next

(* Every reachable state is well typed: a task that is past its guards     *)
(* names a bot, and a queue entry, put back by a dead process or not, is a *)
(* job.                                                                    *)
THEOREM TypeCorrect == Spec => []TypeOK
<1>1. Init => TypeInv
  BY InitTypes
<1>2. TypeInv /\ [Next]_vars => TypeInv'
  BY StepTypes
<1>3. TypeInv => TypeOK
  BY DEF TypeInv
<1> QED
  BY <1>1, <1>2, <1>3, PTL DEF Spec

-----------------------------------------------------------------------------
(* A pending stop is for a factory call under way *)

PendingInv == NoPoisonedStart /\ StartingIsFactory

(* What Become does to each slot. *)
LEMMA BecomeAt ==
  ASSUME RuntimeInv, NEW w \in Workers, NEW s \in Slots, NEW t, Become(w, s, t)
  PROVE  /\ tasks'[w][s] = t
         /\ \A v \in Workers, r \in Slots :
               v # w \/ r # s => tasks'[v][r] = tasks[v][r]
<1>1. tasks \in [Workers -> [Slots -> Task]]
  BY DEF RuntimeInv, RuntimeTypeOK
<1> QED
  BY <1>1 DEF Become

(* A task that was not in the factory changes; at most a pending stop for  *)
(* a bot that is starting is added.                                        *)
LEMMA OtherTaskPending ==
  ASSUME RuntimeInv, PendingInv, NEW w \in Workers, NEW s \in Slots, NEW t,
         Become(w, s, t), ~At(w, s, "factory"), UNCHANGED starting,
         \A v \in Workers, b \in Bots :
            b \in pendingStops'[v] => b \in pendingStops[v] \/ b \in starting[v]
  PROVE  PendingInv'
<1>1. ASSUME NEW v \in Workers, NEW b \in Bots, NEW r \in Slots,
             tasks[v][r].bot = b, At(v, r, "factory")
      PROVE  tasks'[v][r] = tasks[v][r]
  BY <1>1, BecomeAt DEF At
<1>2. ASSUME NEW v \in Workers, NEW b \in Bots,
             \E r \in Slots : tasks[v][r].bot = b /\ At(v, r, "factory")
      PROVE  \E r \in Slots : tasks'[v][r].bot = b /\ tasks'[v][r].pc = "factory"
  BY <1>1, <1>2 DEF At
<1> QED
  BY <1>2 DEF PendingInv, NoPoisonedStart, StartingIsFactory, At

(* The factory is over for b in w: whatever other slots are at it too, b   *)
(* is struck from both sets.                                               *)
LEMMA FactoryOverPending ==
  ASSUME RuntimeInv, PendingInv, NEW w \in Workers, NEW s \in Slots, NEW t,
         Become(w, s, t),
         starting' = [starting EXCEPT ![w] = @ \ {tasks[w][s].bot}],
         pendingStops' = [pendingStops EXCEPT ![w] = @ \ {tasks[w][s].bot}]
  PROVE  PendingInv'
<1>1. RestTypeOK
  BY RestIsEnough
<1>2. ASSUME NEW v \in Workers, NEW b \in Bots,
             b \in pendingStops'[v] \/ b \in starting'[v]
      PROVE  \E r \in Slots : tasks'[v][r].bot = b /\ tasks'[v][r].pc = "factory"
  <2>1. b \in pendingStops[v] \/ b \in starting[v]
    BY <1>1, <1>2 DEF RestTypeOK
  <2>2. v # w \/ b # tasks[w][s].bot
    BY <1>1, <1>2 DEF RestTypeOK
  <2>3. PICK r \in Slots : tasks[v][r].bot = b /\ tasks[v][r].pc = "factory"
    BY <2>1 DEF PendingInv, NoPoisonedStart, StartingIsFactory, At
  <2>4. tasks'[v][r] = tasks[v][r]
    BY <2>2, <2>3, BecomeAt
  <2> QED
    BY <2>3, <2>4
<1> QED
  BY <1>2 DEF PendingInv, NoPoisonedStart, StartingIsFactory, At

(* BeginStop leaves no pending stop without its factory call. *)
LEMMA BeginStopPending ==
  ASSUME RuntimeInv, PendingInv, NEW w \in Workers, NEW s \in Slots,
         NEW kind, NEW b \in Bots, At(w, s, "idle"),
         BeginStop(w, s, kind, b), UNCHANGED starting
  PROVE  PendingInv'
<1>1. RestTypeOK /\ ~At(w, s, "factory")
  BY RestIsEnough DEF At
<1>2. \A v \in Workers, c \in Bots :
         c \in pendingStops'[v] => c \in pendingStops[v] \/ c \in starting[v]
  <2>1. \/ UNCHANGED pendingStops
        \/ /\ b \in starting[w]
           /\ pendingStops' = [pendingStops EXCEPT ![w] = @ \cup {b}]
    BY DEF BeginStop
  <2>2. pendingStops \in [Workers -> SUBSET Bots]
    BY <1>1 DEF RestTypeOK
  <2>3. CASE UNCHANGED pendingStops
    BY <2>3
  <2>4. CASE /\ b \in starting[w]
             /\ pendingStops' = [pendingStops EXCEPT ![w] = @ \cup {b}]
    BY <2>2, <2>4
  <2> QED
    BY <2>1, <2>3, <2>4
<1>3. \E t : Become(w, s, t)
  BY DEF BeginStop
<1> QED
  BY <1>1, <1>2, <1>3, OtherTaskPending

(* SlotStep leaves no pending stop without its factory call. *)
LEMMA SlotStepPending ==
  ASSUME RuntimeInv, PendingInv, NEW w \in Workers, NEW s \in Slots, SlotStep(w, s)
  PROVE  PendingInv'
<1>1. RestTypeOK
  BY RestIsEnough
<1>2. ASSUME UNCHANGED <<starting, pendingStops>>, ~At(w, s, "factory"),
             \E t : Become(w, s, t)
      PROVE  PendingInv'
  BY <1>2, OtherTaskPending
<1>3. CASE AcquireLease(w, s)
  <2> DEFINE t == tasks[w][s]
  <2>1. CASE /\ starting' = [starting EXCEPT ![w] = @ \cup {t.bot}]
             /\ Become(w, s, [t EXCEPT !.pc = "factory"])
    <3>1. t \in Task /\ t.pc = "acquire"
      BY <1>3, TaskAt DEF AcquireLease, At
    <3>2. /\ tasks'[w][s].pc = "factory" /\ tasks'[w][s].bot = t.bot
          /\ \A v \in Workers, r \in Slots :
                v # w \/ r # s => tasks'[v][r] = tasks[v][r]
      BY <2>1, <3>1, BecomeAt DEF Task
    <3>3. ASSUME NEW v \in Workers, NEW b \in Bots,
                 b \in pendingStops'[v] \/ b \in starting'[v]
          PROVE  \E r \in Slots : tasks'[v][r].bot = b /\ tasks'[v][r].pc = "factory"
      <4>1. CASE v = w /\ b = t.bot
        BY <3>2, <4>1
      <4>2. CASE ~(v = w /\ b = t.bot)
        <5>1. b \in pendingStops[v] \/ b \in starting[v]
          BY <1>1, <1>3, <2>1, <3>3, <4>2 DEF AcquireLease, RestTypeOK
        <5>2. PICK r \in Slots : tasks[v][r].bot = b /\ tasks[v][r].pc = "factory"
          BY <5>1 DEF PendingInv, NoPoisonedStart, StartingIsFactory, At
        <5>3. tasks'[v][r] = tasks[v][r]
          BY <3>1, <3>2, <5>2
        <5> QED
          BY <5>2, <5>3
      <4> QED
        BY <4>1, <4>2
    <3> QED
      BY <3>3 DEF PendingInv, NoPoisonedStart, StartingIsFactory, At
  <2>2. CASE Become(w, s, Done(t)) /\ UNCHANGED starting
    BY <1>2, <1>3, <2>2 DEF AcquireLease, At
  <2> QED
    BY <1>3, <2>1, <2>2 DEF AcquireLease
<1>4. CASE FactoryReturns(w, s) \/ FactoryThrows(w, s)
  <2>1. \E t : Become(w, s, t)
    BY <1>4 DEF FactoryReturns, FactoryThrows
  <2> QED
    BY <1>4, <2>1, FactoryOverPending DEF FactoryReturns, FactoryThrows
<1>5. CASE StartReturns(w, s) \/ StartFailed(w, s) \/ StopReturns(w, s)
  BY <1>2, <1>5 DEF StartReturns, StartFailed, StopReturns, At, local
<1>6. CASE ReleaseLease(w, s) \/ ReleaseThrows(w, s)
  BY <1>2, <1>6 DEF ReleaseLease, ReleaseThrows, ReleasePcs, At, local
<1>7. CASE CrashStops(w, s) \/ MarkTerminal(w, s) \/ HandleActorCrash(w, s)
  BY <1>2, <1>7 DEF CrashStops, MarkTerminal, HandleActorCrash, At, local
<1>8. CASE SweepNext(w, s)
  BY <1>2, <1>8 DEF SweepNext, At, local
<1>9. CASE AcquireThrows(w, s) \/ StartThrows(w, s)
  BY <1>2, <1>9 DEF AcquireThrows, StartThrows, At, local
<1>10. CASE TakeStart(w, s)
  BY <1>2, <1>10 DEF TakeStart, At, local
<1>11. CASE TakeStop(w, s)
  <2>1. Head(jobs).bot \in Bots
    BY <1>1, <1>11, HeadOfJobs DEF TakeStop
  <2> QED
    BY <1>11, <2>1, BeginStopPending DEF TakeStop
<1>12. CASE ShutdownStops(w, s)
  <2>1. PICK b \in shutdownTodo[w] : BeginStop(w, s, "shutdown", b)
    BY <1>12 DEF ShutdownStops
  <2>2. b \in Bots
    BY <1>1 DEF RestTypeOK
  <2> QED
    BY <1>12, <2>1, <2>2, BeginStopPending DEF ShutdownStops
<1> QED
  BY <1>3, <1>4, <1>5, <1>6, <1>7, <1>8, <1>9, <1>10, <1>11, <1>12
  DEF SlotStep, TaskStep, TaskFails

(* A process that is gone: everything of w is as at the start.             *)
LEMMA GoneState ==
  ASSUME RuntimeInv, NEW w \in Workers, ProcessGone(w)
  PROVE  /\ \A r \in Slots : tasks'[w][r] = Idle
         /\ \A b \in Bots : actors'[w][b] = NoGen
         /\ \A b \in Bots, g \in Gens : phase'[w][b][g] = "off"
         /\ starting'[w] = {} /\ pendingStops'[w] = {}
         /\ \A v \in Workers : v # w =>
               /\ tasks'[v] = tasks[v] /\ actors'[v] = actors[v]
               /\ phase'[v] = phase[v] /\ starting'[v] = starting[v]
               /\ pendingStops'[v] = pendingStops[v]
  BY DEF ProcessGone, RuntimeInv, RuntimeTypeOK

(* ProcessStep leaves no pending stop without its factory call. *)
LEMMA ProcessStepPending ==
  ASSUME RuntimeInv, PendingInv, NEW w \in Workers, ProcessStep(w)
  PROVE  PendingInv'
<1>1. CASE UNCHANGED <<starting, pendingStops, tasks>>
  BY <1>1 DEF PendingInv, NoPoisonedStart, StartingIsFactory, At
<1>2. CASE ProcessGone(w)
  BY <1>2, GoneState DEF PendingInv, NoPoisonedStart, StartingIsFactory, At
<1> QED
  BY <1>1, <1>2 DEF ProcessStep, Shutdown, CloseWorker, Exit, Die, LeaseLost, local

(* Every step keeps a pending stop tied to a factory call. *)
LEMMA StepPending == TypeInv /\ PendingInv /\ [Next]_vars => PendingInv'
<1> SUFFICES ASSUME TypeInv, PendingInv, [Next]_vars PROVE PendingInv'
  OBVIOUS
<1>1. RuntimeInv /\ RestTypeOK
  BY TypeInvParts, RestIsEnough
<1>2. CASE UNCHANGED <<starting, pendingStops, tasks>>
  BY <1>2 DEF PendingInv, NoPoisonedStart, StartingIsFactory, At
<1>3. ASSUME NEW c \in Calls, NEW op \in Ops, NEW b \in Bots, BeginCall(c, op, b)
      PROVE  PendingInv'
  BY <1>2, <1>3 DEF BeginCall, runtimeVars, local
<1>4. ASSUME NEW c \in Calls, CallStep(c) \/ SendThrows(c) PROVE PendingInv'
  BY <1>2, <1>4
  DEF CallStep, MarkRow, RefuseStart, Enqueue, Publish, RestoreRow, SendThrows, runtimeVars, local
<1>5. ASSUME NEW w \in Workers, NEW s \in Slots, HandleSignal(w, s)
      PROVE  PendingInv'
  BY <1>1, <1>5, BeginStopPending DEF HandleSignal
<1>6. ASSUME NEW w \in Workers, NEW s \in Slots, Sweep(w, s) \/ ActorEnds(w, s)
      PROVE  PendingInv'
  <2>1. /\ ~At(w, s, "factory") /\ UNCHANGED <<starting, pendingStops>>
        /\ \E t : Become(w, s, t)
    BY <1>6 DEF Sweep, BeginSweep, ActorEnds, BeginCrash, BeginHalt, At, local
  <2> QED
    BY <1>1, <2>1, OtherTaskPending
<1>7. ASSUME NEW w \in Workers, DropSignals(w) PROVE PendingInv'
  BY <1>2, <1>7 DEF DropSignals, runtimeVars, local
<1>8. ASSUME NEW w \in Workers, WorkerStep(w) PROVE PendingInv'
  BY <1>1, <1>8, ProcessStepPending, SlotStepPending DEF WorkerStep
<1>9. ASSUME NEW b \in Bots, LeaseStep(b) PROVE PendingInv'
  BY <1>2, <1>9 DEF LeaseStep, LeaseExpires, LeaseStalls, local
<1>10. CASE UNCHANGED vars
  BY <1>2, <1>10 DEF vars, runtimeVars, local
<1> QED
  BY <1>3, <1>4, <1>5, <1>6, <1>7, <1>8, <1>9, <1>10 DEF Next

(* However starts, stops, restarts and shutdowns overlap, a stop that came *)
(* while the factory ran is used up with that factory call: it cannot be   *)
(* left over for a start that is asked for later.                          *)
THEOREM PendingStopIsForAStart == Spec => []NoPoisonedStart
<1>1. Init => TypeInv
  BY InitTypes
<1>2. Init => PendingInv
  BY DEF Init, RuntimeInit, PendingInv, NoPoisonedStart, StartingIsFactory
<1>3. TypeInv /\ [Next]_vars => TypeInv'
  BY StepTypes
<1>4. TypeInv /\ PendingInv /\ [Next]_vars => PendingInv'
  BY StepPending
<1>5. PendingInv => NoPoisonedStart
  BY DEF PendingInv
<1> QED
  BY <1>1, <1>2, <1>3, <1>4, <1>5, PTL DEF Spec

-----------------------------------------------------------------------------
(* Who has a bot *)

(* Nothing gets busy with b at v: what is busy with it was, as it is now;  *)
(* no actor of b begins to run there; and what v has, it keeps leased.     *)
Quiet(v, b) ==
    /\ \A r \in Slots : OnBot(v, r, b, BusyPcs)' => tasks'[v][r] = tasks[v][r]
    /\ actors'[v][b] = actors[v][b]
    /\ \A g \in Gens : phase'[v][b][g] # "off" => phase[v][b][g] # "off"
    /\ Has(v, b) /\ leaseKey[b] = v =>
          /\ leaseKey'[b] = v
          /\ b \in starting[v] => b \in starting'[v]
          /\ Working(v)' => /\ Working(v)
                            /\ b \in renewTimers[v] => b \in renewTimers'[v]

(* What is said of a bot that nothing gets busy with stays true. *)
LEMMA QuietOwned ==
  ASSUME NEW v \in Workers, NEW b \in Bots, OwnedAt(v, b), Quiet(v, b)
  PROVE  OwnedAt(v, b)'
<1>1. ASSUME NEW r \in Slots, NEW pcs \in SUBSET BusyPcs, OnBot(v, r, b, pcs)'
      PROVE  OnBot(v, r, b, pcs) /\ tasks'[v][r] = tasks[v][r]
  BY <1>1 DEF Quiet, OnBot
<1>2. Has(v, b)' => Has(v, b)
  <2>1. {"factory"} \in SUBSET BusyPcs
    BY DEF BusyPcs
  <2>2. ASSUME NEW r \in Slots, OnBot(v, r, b, {"factory"})'
        PROVE  OnBot(v, r, b, {"factory"})
    BY <1>1, <2>1, <2>2
  <2> QED
    BY <2>2 DEF Has, Making, Quiet
<1>3. HolderIsLeased(v, b)'
  BY <1>2 DEF OwnedAt, HolderIsLeased, Quiet
<1>4. FactoryAlone(v, b)'
  <2> SUFFICES ASSUME NEW s \in Slots, OnBot(v, s, b, {"factory"})'
               PROVE  /\ b \in starting'[v] /\ actors'[v][b] = NoGen
                      /\ \A r \in Slots : OnBot(v, r, b, BusyPcs)' => r = s
    BY DEF FactoryAlone
  <2>1. OnBot(v, s, b, {"factory"})
    BY <1>1 DEF BusyPcs
  <2>2. Has(v, b) /\ leaseKey[b] = v /\ b \in starting[v] /\ actors[v][b] = NoGen
    BY <2>1 DEF OwnedAt, HolderIsLeased, FactoryAlone, Has, Making
  <2>3. \A r \in Slots : OnBot(v, r, b, BusyPcs)' => r = s
    BY <1>1, <2>1 DEF OwnedAt, FactoryAlone
  <2> QED
    BY <2>2, <2>3 DEF Quiet
<1>5. OnlyRegistered(v, b)'
  BY DEF OwnedAt, OnlyRegistered, Quiet, Running
<1>6. ASSUME NEW s \in Slots PROVE Fits(v, s, b)'
  <2>1. Fits(v, s, b)
    BY DEF OwnedAt
  <2>2. OnBot(v, s, b, BusyPcs)' => tasks'[v][s] = tasks[v][s]
    BY DEF Quiet
  <2> QED
    BY <2>1, <2>2 DEF Fits, OnBot, BusyPcs, TeardownPcs, Quiet, Running
<1> QED
  BY <1>3, <1>4, <1>5, <1>6 DEF OwnedAt

(* A task of a bot with an actor, or past its factory call, takes it a     *)
(* step down: its entry may be dropped, its actors may stop.               *)
LEMMA DownOwned ==
  ASSUME NEW w \in Workers, NEW s \in Slots, NEW b \in Bots, OwnedAt(w, b),
         \A r \in Slots : r # s => tasks'[w][r] = tasks[w][r],
         \A r \in Slots : r # s => ~OnBot(w, r, b, {"factory"}),
         ~OnBot(w, s, b, {"factory"})',
         UNCHANGED leaseVars, UNCHANGED mode,
         actors'[w][b] \in {actors[w][b], NoGen},
         \A g \in Gens : phase'[w][b][g] # "off" =>
            phase[w][b][g] # "off" /\ actors'[w][b] = g,
         Fits(w, s, b)'
  PROVE  OwnedAt(w, b)'
<1>1. ~Making(w, b)'
  BY DEF Making, OnBot
<1>2. HolderIsLeased(w, b)'
  BY <1>1 DEF OwnedAt, HolderIsLeased, Has, leaseVars, Working
<1>3. FactoryAlone(w, b)'
  BY <1>1 DEF FactoryAlone, Making
<1>4. OnlyRegistered(w, b)'
  BY DEF OnlyRegistered, Running
<1>5. ASSUME NEW r \in Slots PROVE Fits(w, r, b)'
  <2>1. CASE r # s
    BY <2>1 DEF OwnedAt, Fits, OnBot, Running
  <2> QED
    BY <2>1
<1> QED
  BY <1>2, <1>3, <1>4, <1>5 DEF OwnedAt

(* The bots that a step of w for b has nothing to do with. *)
Elsewhere(w, b) ==
    \A v \in Workers, c \in Bots : v # w \/ c # b => Quiet(v, c)

(* The invariant of all bots, from that of the one a step is about. *)
LEMMA OwnedByParts ==
  ASSUME OwnerInv, NEW w \in Workers, NEW b \in Bots, Elsewhere(w, b),
         \A c \in Bots : races[c] \subseteq races'[c],
         Protected(b) /\ Protected(b)' /\ OwnedAt(w, b) => OwnedAt(w, b)'
  PROVE  OwnerInv'
<1> SUFFICES ASSUME NEW v \in Workers, NEW c \in Bots, Protected(c)'
             PROVE  OwnedAt(v, c)'
  BY DEF OwnerInv
<1>1. Protected(c) /\ OwnedAt(v, c)
  BY DEF Protected, OwnerInv
<1>2. CASE v = w /\ c = b
  BY <1>1, <1>2
<1>3. CASE v # w \/ c # b
  BY <1>1, <1>3, QuietOwned DEF Elsewhere
<1> QED
  BY <1>2, <1>3

(* A step in slot s of w for b, at most with the lease of b. *)
LEMMA SlotElsewhere ==
  ASSUME RuntimeInv, NEW w \in Workers, NEW s \in Slots, NEW b \in Bots,
         NEW t, Become(w, s, t), t.bot = b \/ t.pc \notin BusyPcs,
         UNCHANGED mode,
         \A v \in Workers, c \in Bots : v # w \/ c # b =>
            /\ actors'[v][c] = actors[v][c]
            /\ \A g \in Gens : phase'[v][c][g] # "off" => phase[v][c][g] # "off"
            /\ leaseKey[c] = v => leaseKey'[c] = v
            /\ c \in starting[v] => c \in starting'[v]
            /\ c \in renewTimers[v] => c \in renewTimers'[v]
  PROVE  Elsewhere(w, b)
<1> SUFFICES ASSUME NEW v \in Workers, NEW c \in Bots, v # w \/ c # b
             PROVE  Quiet(v, c)
  BY DEF Elsewhere
<1>1. ASSUME NEW r \in Slots, OnBot(v, r, c, BusyPcs)'
      PROVE  tasks'[v][r] = tasks[v][r]
  <2>1. CASE v = w /\ r = s
    BY <1>1, <2>1, BecomeAt DEF OnBot
  <2>2. CASE v # w \/ r # s
    BY <2>2, BecomeAt
  <2> QED
    BY <2>1, <2>2
<1> QED
  BY <1>1 DEF Quiet, Working

(* The invariant, bot by bot and process by process. *)
LEMMA OwnedEach ==
  ASSUME OwnerInv, \A c \in Bots : races[c] \subseteq races'[c],
         \A v \in Workers, c \in Bots :
            Protected(c)' /\ OwnedAt(v, c) => OwnedAt(v, c)'
  PROVE  OwnerInv'
  BY DEF OwnerInv, Protected

(* A slot gets a task that is not busy; what is held stays leased. *)
LEMMA SlotQuiet ==
  ASSUME RuntimeInv, OwnerInv, NEW w \in Workers, NEW s \in Slots,
         NEW t, Become(w, s, t), t.pc \notin BusyPcs,
         \A c \in Bots : races[c] \subseteq races'[c],
         UNCHANGED <<mode, actors, starting, renewTimers>>,
         \A v \in Workers, c \in Bots :
            /\ \A g \in Gens : phase'[v][c][g] # "off" => phase[v][c][g] # "off"
            /\ leaseKey[c] = v => leaseKey'[c] = v
  PROVE  OwnerInv'
<1>1. ASSUME NEW v \in Workers, NEW c \in Bots PROVE Quiet(v, c)
  <2>1. \A r \in Slots : OnBot(v, r, c, BusyPcs)' => tasks'[v][r] = tasks[v][r]
    BY BecomeAt DEF OnBot
  <2> QED
    BY <2>1 DEF Quiet, Working
<1> QED
  BY <1>1, QuietOwned, OwnedEach

(* What one update does to entries and actors. *)
LEMMA OneUpdate ==
  ASSUME RestTypeOK, NEW w \in Workers, NEW b \in Bots
  PROVE  /\ \A g : Register(w, b, g) =>
               \A v \in Workers, c \in Bots :
                  actors'[v][c] = IF v = w /\ c = b THEN g ELSE actors[v][c]
         /\ \A g \in Gens : \A p : SetPhase(w, b, g, p) =>
               \A v \in Workers, c \in Bots, h \in Gens :
                  phase'[v][c][h] = IF v = w /\ c = b /\ h = g THEN p
                                    ELSE phase[v][c][h]
  BY DEF RestTypeOK, Register, SetPhase

(* Beside a task that is busy with b, no factory call for b is under way   *)
(* in its process, nor where b is registered.                              *)
LEMMA NoFactory ==
  ASSUME NEW w \in Workers, NEW s \in Slots, NEW b \in Bots, OwnedAt(w, b),
         OnBot(w, s, b, BusyPcs) \/ actors[w][b] # NoGen
  PROVE  \A r \in Slots : r # s => ~OnBot(w, r, b, {"factory"})
  BY DEF OwnedAt, FactoryAlone

(* A start gets the lease: nothing of the bot is left in this process, and *)
(* nobody else has it.                                                     *)
LEMMA AcquireLeaseOwned ==
  ASSUME RuntimeInv, OwnerInv, NEW w \in Workers, NEW s \in Slots,
         AcquireLease(w, s)
  PROVE  OwnerInv'
<1> DEFINE t == tasks[w][s]
           u == [t EXCEPT !.pc = "factory"]
<1>1. PICK b \in Bots : t \in Task /\ t.bot = b /\ RestTypeOK
  BY TaskAt, RestIsEnough DEF AcquireLease, At, AtWork
<1>2. CASE AcquireRefused(b) /\ Become(w, s, Done(t)) /\ UNCHANGED <<starting, races>>
  <2>1. Done(t).pc \notin BusyPcs
    BY <1>1 DEF Done, Idle, BusyPcs, TeardownPcs, Task
  <2> QED
    BY <1>2, <2>1, SlotQuiet DEF AcquireLease, AcquireRefused, leaseVars
<1>3. CASE /\ Acquire(w, b)
           /\ starting' = [starting EXCEPT ![w] = @ \cup {b}]
           /\ Become(w, s, u)
           /\ Meets(b, Reentering(w, b) \cup OutOfDate(b))
  <2>1. u.bot = b /\ u.pc = "factory"
    BY <1>1 DEF Task
  <2>2. /\ \A c \in Bots : races[c] \subseteq races'[c]
        /\ Reentering(w, b) \subseteq races'[b]
    BY <1>1, <1>3, RacesGrow
  <2>3. Elsewhere(w, b)
    <3>1. UNCHANGED <<mode, actors, phase>>
      BY <1>3 DEF AcquireLease
    <3>2. \A v \in Workers, c \in Bots : v # w \/ c # b =>
            /\ leaseKey[c] = v => leaseKey'[c] = v
            /\ c \in starting[v] => c \in starting'[v]
            /\ c \in renewTimers[v] => c \in renewTimers'[v]
      BY <1>1, <1>3, NoWorkerAssumption DEF Acquire, RestTypeOK, LeaseTypeOK, Bots
    <3>3. \A v \in Workers, c \in Bots : v # w \/ c # b =>
            /\ actors'[v][c] = actors[v][c]
            /\ \A g \in Gens : phase'[v][c][g] # "off" => phase[v][c][g] # "off"
            /\ leaseKey[c] = v => leaseKey'[c] = v
            /\ c \in starting[v] => c \in starting'[v]
            /\ c \in renewTimers[v] => c \in renewTimers'[v]
      BY <3>1, <3>2
    <3> HIDE DEF u
    <3> QED
      BY <1>3, <2>1, <3>1, <3>3, SlotElsewhere
  <2>4. ASSUME Protected(b)', OwnedAt(w, b) PROVE OwnedAt(w, b)'
    <3>1. /\ leaseKey[b] = NoWorker /\ leaseKey'[b] = w
          /\ b \in renewTimers'[w] /\ b \in starting'[w]
      BY <1>1, <1>3 DEF Acquire, RestTypeOK, LeaseTypeOK, Bots
    <3>2. actors[w][b] = NoGen /\ \A r \in Slots : ~OnBot(w, r, b, {"factory"})
      BY <2>4, <3>1, NoWorkerAssumption DEF OwnedAt, HolderIsLeased, Has, Making
    <3>3. Reentering(w, b) = {}
      BY <2>2, <2>4 DEF Protected, OwnerRaces, Reentering
    <3>4. \A r \in Slots : ~OnBot(w, r, b, BusyPcs)
      BY <3>2, <3>3 DEF Reentering, OnBot, BusyPcs
    <3>5. \A r \in Slots : r # s => ~OnBot(w, r, b, BusyPcs)'
      BY <1>3, <3>4, BecomeAt DEF OnBot
    <3>6. tasks'[w][s] = u
      BY <1>3, BecomeAt
    <3>7. HolderIsLeased(w, b)' /\ FactoryAlone(w, b)'
      <4>1. actors'[w][b] = NoGen
        BY <3>2 DEF AcquireLease
      <4> QED
        BY <3>1, <3>5, <4>1 DEF HolderIsLeased, FactoryAlone, OnBot, BusyPcs
    <3>8. OnlyRegistered(w, b)'
      BY <2>4 DEF AcquireLease, OwnedAt, OnlyRegistered, Running
    <3>9. ASSUME NEW r \in Slots PROVE Fits(w, r, b)'
      BY <2>1, <3>5, <3>6 DEF Fits, OnBot, BusyPcs, TeardownPcs
    <3> QED
      BY <3>7, <3>8, <3>9 DEF OwnedAt
  <2> QED
    BY <1>1, <2>2, <2>3, <2>4, OwnedByParts
<1> QED
  BY <1>1, <1>2, <1>3 DEF AcquireLease

(* A rejected acquire may leave the key set, for nobody. *)
LEMMA AcquireThrowsOwned ==
  ASSUME RuntimeInv, OwnerInv, NEW w \in Workers, NEW s \in Slots,
         AcquireThrows(w, s)
  PROVE  OwnerInv'
<1> DEFINE t == tasks[w][s]
<1>1. t \in Task /\ t.bot \in Bots /\ RestTypeOK
  BY TaskAt, RestIsEnough DEF AcquireThrows, At, AtWork
<1>2. [t EXCEPT !.pc = "failed"].pc \notin BusyPcs
  BY <1>1 DEF Task, BusyPcs, TeardownPcs
<1>3. \A v \in Workers, c \in Bots : leaseKey[c] = v => leaseKey'[c] = v
  BY <1>1, NoWorkerAssumption
  DEF AcquireThrows, AcquireRejected, RestTypeOK, LeaseTypeOK, Bots
<1> QED
  BY <1>2, <1>3, SlotQuiet DEF AcquireThrows, AcquireRejected, local

(* A task that is busy with b, or begins to end its actor, takes b a step  *)
(* down in w, and nobody else notices.                                     *)
LEMMA SlotDown ==
  ASSUME RuntimeInv, OwnerInv, NEW w \in Workers, NEW s \in Slots, NEW b \in Bots,
         NEW t, Become(w, s, t), t.bot = b, t.pc # "factory",
         \A c \in Bots : races[c] \subseteq races'[c],
         UNCHANGED leaseVars, UNCHANGED mode,
         \A v \in Workers, c \in Bots : v # w \/ c # b =>
            /\ actors'[v][c] = actors[v][c]
            /\ \A g \in Gens : phase'[v][c][g] # "off" => phase[v][c][g] # "off"
            /\ c \in starting[v] => c \in starting'[v],
         OwnedAt(w, b) =>
            /\ OnBot(w, s, b, BusyPcs) \/ actors[w][b] # NoGen
            /\ actors'[w][b] \in {actors[w][b], NoGen}
            /\ \A g \in Gens : phase'[w][b][g] # "off" =>
                  phase[w][b][g] # "off" /\ actors'[w][b] = g
            /\ Fits(w, s, b)'
  PROVE  OwnerInv'
<1>1. Elsewhere(w, b)
  BY SlotElsewhere DEF leaseVars
<1>2. ASSUME OwnedAt(w, b) PROVE OwnedAt(w, b)'
  <2>1. \A r \in Slots : r # s => tasks'[w][r] = tasks[w][r]
    BY BecomeAt
  <2>2. ~OnBot(w, s, b, {"factory"})'
    BY BecomeAt DEF OnBot
  <2>3. \A r \in Slots : r # s => ~OnBot(w, r, b, {"factory"})
    BY <1>2, NoFactory
  <2> QED
    BY <1>2, <2>1, <2>2, <2>3, DownOwned
<1> QED
  BY <1>1, <1>2, OwnedByParts

(* A factory call that fails or is aborted goes on to give the lease back. *)
LEMMA FactoryEndsOwned ==
  ASSUME RuntimeInv, OwnerInv, NEW w \in Workers, NEW s \in Slots,
         NEW b \in Bots, NEW pc \in {"abort", "undo"},
         tasks[w][s].bot = b, At(w, s, "factory"),
         Become(w, s, [tasks[w][s] EXCEPT !.pc = pc]),
         starting' = [starting EXCEPT ![w] = @ \ {b}],
         UNCHANGED <<leaseVars, mode, actors, phase, races>>
  PROVE  OwnerInv'
<1> DEFINE t == [tasks[w][s] EXCEPT !.pc = pc]
<1>1. RestTypeOK /\ t.bot = b /\ t.pc = pc /\ pc # "factory"
  BY TaskAt, RestIsEnough DEF Task
<1>2. \A v \in Workers, c \in Bots : v # w \/ c # b =>
            (c \in starting[v] => c \in starting'[v])
  BY <1>1 DEF RestTypeOK
<1>3. ASSUME OwnedAt(w, b)
      PROVE  /\ OnBot(w, s, b, BusyPcs)
             /\ \A g \in Gens : phase'[w][b][g] = "off"
             /\ Fits(w, s, b)'
  <2>1. OnBot(w, s, b, {"factory"}) /\ OnBot(w, s, b, BusyPcs)
    BY DEF OnBot, At, BusyPcs
  <2>2. actors[w][b] = NoGen
    BY <1>3, <2>1 DEF OwnedAt, FactoryAlone
  <2>3. \A g \in Gens : phase[w][b][g] = "off"
    BY <1>3, <2>2, RuntimeAssumption DEF OwnedAt, OnlyRegistered, Running
  <2>4. tasks'[w][s] = t
    BY BecomeAt
  <2> QED
    BY <1>1, <2>1, <2>2, <2>3, <2>4 DEF Fits, OnBot
<1>4. \A c \in Bots : races[c] \subseteq races'[c]
  OBVIOUS
<1> HIDE DEF t
<1>5. Become(w, s, t)
  BY DEF t
<1> QED
  BY <1>1, <1>2, <1>3, <1>4, <1>5, SlotDown

(* The factory returns: its actor is registered before it runs, and no     *)
(* teardown is left that would drop it again.                              *)
LEMMA FactoryReturnsOwned ==
  ASSUME RuntimeInv, OwnerInv, NEW w \in Workers, NEW s \in Slots,
         FactoryReturns(w, s)
  PROVE  OwnerInv'
<1> DEFINE t == tasks[w][s]
<1>1. PICK b \in Bots : t \in Task /\ t.bot = b /\ RestTypeOK
  BY TaskAt, RestIsEnough DEF FactoryReturns, At, AtWork
<1>2. CASE Become(w, s, [t EXCEPT !.pc = "abort"]) /\ UNCHANGED <<actors, phase>>
  BY <1>1, <1>2, FactoryEndsOwned DEF FactoryReturns
<1>3. ASSUME NEW g \in Fresh(w, b), Register(w, b, g),
             SetPhase(w, b, g, "starting"),
             Become(w, s, [t EXCEPT !.pc = "starting", !.gen = g])
      PROVE  OwnerInv'
  <2> DEFINE u == [t EXCEPT !.pc = "starting", !.gen = g]
  <2>1. /\ g \in Gens /\ g # NoGen /\ tasks'[w][s] = u
        /\ u.bot = b /\ u.pc = "starting" /\ u.gen = g
    BY <1>1, <1>3, BecomeAt, RuntimeAssumption DEF Fresh, Task
  <2>2. /\ \A v \in Workers, c \in Bots :
              actors'[v][c] = IF v = w /\ c = b THEN g ELSE actors[v][c]
        /\ \A v \in Workers, c \in Bots, h \in Gens :
              phase'[v][c][h] = IF v = w /\ c = b /\ h = g THEN "starting"
                                ELSE phase[v][c][h]
    BY <1>1, <1>3, <2>1, OneUpdate
  <2>3. /\ UNCHANGED <<leaseKey, renewTimers, mode, races>>
        /\ starting' = [starting EXCEPT ![w] = @ \ {b}]
    BY <1>1 DEF FactoryReturns, leaseVars
  <2>4. Elsewhere(w, b)
    <3>1. \A v \in Workers, c \in Bots : v # w \/ c # b =>
            /\ actors'[v][c] = actors[v][c]
            /\ \A h \in Gens : phase'[v][c][h] # "off" => phase[v][c][h] # "off"
            /\ leaseKey[c] = v => leaseKey'[c] = v
            /\ c \in starting[v] => c \in starting'[v]
            /\ c \in renewTimers[v] => c \in renewTimers'[v]
      BY <1>1, <2>2, <2>3 DEF RestTypeOK
    <3>2. Become(w, s, u)
      BY <1>3
    <3> HIDE DEF u
    <3> QED
      BY <2>1, <2>3, <3>1, <3>2, SlotElsewhere
  <2>5. ASSUME OwnedAt(w, b) PROVE OwnedAt(w, b)'
    <3>1. OnBot(w, s, b, {"factory"})
      BY <1>1 DEF FactoryReturns, At, OnBot
    <3>2. /\ actors[w][b] = NoGen /\ Has(w, b)
          /\ \A r \in Slots : r # s => ~OnBot(w, r, b, BusyPcs)
      BY <2>5, <3>1 DEF OwnedAt, FactoryAlone, Has, Making
    <3>3. \A h \in Gens : phase[w][b][h] = "off"
      BY <2>5, <3>2, RuntimeAssumption DEF OwnedAt, OnlyRegistered, Running
    <3>4. \A r \in Slots : r # s => ~OnBot(w, r, b, BusyPcs)'
      BY <1>3, <3>2, BecomeAt DEF OnBot
    <3>5. HolderIsLeased(w, b)'
      BY <2>3, <2>5, <3>2 DEF OwnedAt, HolderIsLeased, Working
    <3>6. FactoryAlone(w, b)'
      BY <2>1, <3>4 DEF FactoryAlone, OnBot, BusyPcs
    <3>7. OnlyRegistered(w, b)'
      BY <2>2, <3>3 DEF OnlyRegistered, Running
    <3>8. ASSUME NEW r \in Slots PROVE Fits(w, r, b)'
      <4> HIDE DEF u
      <4>1. CASE r = s
        BY <2>1, <2>2, <4>1 DEF Fits, OnBot
      <4>2. CASE r # s
        BY <3>4, <4>2 DEF Fits, OnBot, BusyPcs, TeardownPcs
      <4> QED
        BY <4>1, <4>2
    <3> QED
      BY <3>5, <3>6, <3>7, <3>8 DEF OwnedAt
  <2> QED
    BY <2>3, <2>4, <2>5, OwnedByParts
<1> QED
  BY <1>1, <1>2, <1>3 DEF FactoryReturns

(* start() resolved: what runs goes on running. *)
LEMMA StartReturnsOwned ==
  ASSUME RuntimeInv, OwnerInv, NEW w \in Workers, NEW s \in Slots,
         StartReturns(w, s)
  PROVE  OwnerInv'
<1> DEFINE t == tasks[w][s]
           p == IF Running(w, t.bot, t.gen) THEN "armed" ELSE "off"
<1>1. t \in Task /\ t.bot \in Bots /\ t.gen \in Gens /\ RestTypeOK
  BY TaskAt, RestIsEnough DEF StartReturns, At, AtWork
<1>2. \A v \in Workers, c \in Bots, h \in Gens :
         phase'[v][c][h] = IF v = w /\ c = t.bot /\ h = t.gen THEN p
                           ELSE phase[v][c][h]
  BY <1>1, OneUpdate DEF StartReturns
<1>3. \A v \in Workers, c \in Bots, h \in Gens :
         phase'[v][c][h] # "off" => phase[v][c][h] # "off"
  BY <1>1, <1>2 DEF Running
<1>4. Done(t).pc \notin BusyPcs
  BY <1>1 DEF Done, Idle, BusyPcs, TeardownPcs, Task
<1> QED
  BY <1>3, <1>4, SlotQuiet DEF StartReturns, leaseVars

(* start() rejected: its own actor is stopped; the entry it drops is its   *)
(* own, or there is none.                                                  *)
LEMMA StartThrowsOwned ==
  ASSUME RuntimeInv, OwnerInv, NEW w \in Workers, NEW s \in Slots,
         StartThrows(w, s)
  PROVE  OwnerInv'
<1> DEFINE t == tasks[w][s]
           u == [t EXCEPT !.pc = "undo"]
<1>1. PICK b \in Bots : t \in Task /\ t.bot = b /\ t.gen \in Gens /\ RestTypeOK
  BY TaskAt, RestIsEnough DEF StartThrows, At, AtWork
<1>2. u.bot = b /\ u.pc = "undo" /\ tasks'[w][s] = u /\ Become(w, s, u)
  BY <1>1, BecomeAt DEF StartThrows, Task
<1>3. /\ \A v \in Workers, c \in Bots :
            actors'[v][c] = IF v = w /\ c = b THEN NoGen ELSE actors[v][c]
      /\ \A v \in Workers, c \in Bots, h \in Gens :
            phase'[v][c][h] = IF v = w /\ c = b /\ h = t.gen THEN "off"
                              ELSE phase[v][c][h]
  BY <1>1, OneUpdate DEF StartThrows
<1>4. \A c \in Bots : races[c] \subseteq races'[c]
  BY <1>1, RacesGrow DEF StartThrows
<1>5. ASSUME OwnedAt(w, b)
      PROVE  /\ OnBot(w, s, b, BusyPcs)
             /\ \A h \in Gens : phase'[w][b][h] = "off"
             /\ Fits(w, s, b)'
  <2>1. OnBot(w, s, b, BusyPcs) /\ OnBot(w, s, b, {"starting", "crashing"})
    BY <1>1 DEF StartThrows, At, OnBot, BusyPcs
  <2>2. actors[w][b] \in {t.gen, NoGen}
    BY <1>5, <2>1 DEF OwnedAt, Fits
  <2>3. \A h \in Gens : phase'[w][b][h] = "off"
    BY <1>1, <1>3, <1>5, <2>2, RuntimeAssumption DEF OwnedAt, OnlyRegistered, Running
  <2> QED
    BY <1>2, <1>3, <2>1, <2>3 DEF Fits, OnBot
<1>6. UNCHANGED <<leaseVars, mode, starting>>
  BY DEF StartThrows
<1> HIDE DEF t, u
<1> QED
  BY <1>2, <1>3, <1>4, <1>5, <1>6, SlotDown

(* A start that failed is over; its row is another matter. *)
LEMMA StartFailedOwned ==
  ASSUME RuntimeInv, OwnerInv, NEW w \in Workers, NEW s \in Slots,
         StartFailed(w, s)
  PROVE  OwnerInv'
<1> DEFINE t == tasks[w][s]
<1>1. t \in Task /\ t.bot \in Bots /\ RestTypeOK
  BY TaskAt, RestIsEnough DEF StartFailed, At, AtWork
<1>2. Done(t).pc \notin BusyPcs
  BY <1>1 DEF Done, Idle, BusyPcs, TeardownPcs, Task
<1>3. \A c \in Bots : races[c] \subseteq races'[c]
  BY <1>1, RacesGrow DEF StartFailed
<1> QED
  BY <1>2, <1>3, SlotQuiet DEF StartFailed, leaseVars, local

(* The first segment of a stop: whoever else is at it, the actor that is   *)
(* registered is the only one that may run.                                *)
LEMMA BeginStopOwned ==
  ASSUME RuntimeInv, OwnerInv, NEW w \in Workers, NEW s \in Slots,
         NEW kind \in Kinds, NEW b \in Bots, BeginStop(w, s, kind, b),
         UNCHANGED <<leaseVars, mode, starting>>
  PROVE  OwnerInv'
<1> DEFINE g == actors[w][b]
           t == [Idle EXCEPT !.kind = kind, !.bot = b, !.gen = g]
<1>1. RestTypeOK /\ g \in Gens \cup {NoGen}
  BY RestIsEnough DEF RestTypeOK
<1>2. /\ t.bot = b /\ t.pc = "idle" /\ [t EXCEPT !.pc = "stopping"].bot = b
      /\ [t EXCEPT !.pc = "stopping"].pc = "stopping"
      /\ [t EXCEPT !.pc = "release"].bot = b
      /\ [t EXCEPT !.pc = "release"].pc = "release"
  BY DEF Idle
<1>3. \A c \in Bots : races[c] \subseteq races'[c]
  BY <1>1, RacesGrow DEF BeginStop
<1>4. ASSUME OwnedAt(w, b), g # NoGen
      PROVE  \A h \in Gens : Running(w, b, h) => h = g
  BY <1>4 DEF OwnedAt, OnlyRegistered
<1>5. CASE g = NoGen
  <2> DEFINE u == IF kind = "restart" THEN CheckedStart(w, t, b) ELSE Idle
  <2>1. u.pc \notin BusyPcs
    BY <1>2, <1>5 DEF CheckedStart, Idle, BusyPcs, TeardownPcs
  <2>2. Become(w, s, u) /\ UNCHANGED <<actors, phase>>
    BY <1>5 DEF BeginStop
  <2> HIDE DEF u
  <2> QED
    BY <1>3, <2>1, <2>2, SlotQuiet DEF leaseVars
<1>6. CASE g # NoGen /\ Running(w, b, g)
  <2> DEFINE u == [t EXCEPT !.pc = "stopping"]
  <2>1. /\ SetPhase(w, b, g, "off") /\ Become(w, s, u) /\ UNCHANGED actors
        /\ tasks'[w][s] = u
    BY <1>6, BecomeAt DEF BeginStop
  <2>2. \A v \in Workers, c \in Bots, h \in Gens :
           phase'[v][c][h] = IF v = w /\ c = b /\ h = g THEN "off"
                             ELSE phase[v][c][h]
    BY <1>1, <1>6, <2>1, OneUpdate
  <2>3. ASSUME OwnedAt(w, b)
        PROVE  (\A h \in Gens : phase'[w][b][h] = "off") /\ Fits(w, s, b)'
    <3>1. \A h \in Gens : phase'[w][b][h] = "off"
      BY <1>4, <1>6, <2>2, <2>3 DEF Running
    <3> HIDE DEF u
    <3>2. u.pc = "stopping"
      BY <1>2 DEF u
    <3> QED
      BY <2>1, <3>1, <3>2 DEF Fits, OnBot, Running
  <2>4. u.bot = b /\ u.pc = "stopping"
    BY <1>2
  <2> HIDE DEF t, u
  <2> QED
    BY <1>3, <1>6, <2>1, <2>2, <2>3, <2>4, SlotDown
<1>7. CASE g # NoGen /\ ~Running(w, b, g)
  <2> DEFINE u == [t EXCEPT !.pc = "release"]
  <2>1. /\ Register(w, b, NoGen) /\ Become(w, s, u) /\ UNCHANGED phase
        /\ tasks'[w][s] = u
    BY <1>7, BecomeAt DEF BeginStop
  <2>2. \A v \in Workers, c \in Bots :
           actors'[v][c] = IF v = w /\ c = b THEN NoGen ELSE actors[v][c]
    BY <1>1, <2>1, OneUpdate
  <2>3. ASSUME OwnedAt(w, b)
        PROVE  (\A h \in Gens : phase'[w][b][h] = "off") /\ Fits(w, s, b)'
    <3>1. \A h \in Gens : phase'[w][b][h] = "off"
      BY <1>4, <1>7, <2>1, <2>3 DEF Running
    <3> HIDE DEF u
    <3>2. u.pc = "release"
      BY <1>2 DEF u
    <3>3. actors'[w][b] = NoGen
      BY <2>2
    <3>4. Fits(w, s, b)'
      BY <2>1, <3>2, <3>3 DEF Fits, OnBot
    <3> QED
      BY <3>1, <3>4
  <2>4. u.bot = b /\ u.pc = "release"
    BY <1>2
  <2> HIDE DEF t, u
  <2> QED
    BY <1>3, <1>7, <2>1, <2>2, <2>3, <2>4, SlotDown
<1> QED
  BY <1>5, <1>6, <1>7

(* A teardown after which no actor of the bot runs drops its entry: what   *)
(* stop() and the crash callback do when the actor has stopped.            *)
LEMMA DropsOwned ==
  ASSUME RuntimeInv, OwnerInv, NEW w \in Workers, NEW s \in Slots,
         StopReturns(w, s) \/ HandleActorCrash(w, s)
  PROVE  OwnerInv'
<1> DEFINE t == tasks[w][s]
           u == [t EXCEPT !.pc = "release"]
<1>1. PICK b \in Bots : t \in Task /\ t.bot = b /\ RestTypeOK
  BY TaskAt, RestIsEnough DEF StopReturns, HandleActorCrash, At, AtWork
<1>2. /\ u.bot = b /\ u.pc = "release" /\ tasks'[w][s] = u /\ Become(w, s, u)
      /\ Register(w, b, NoGen) /\ UNCHANGED <<leaseVars, mode, phase, starting, races>>
  BY <1>1, BecomeAt DEF StopReturns, HandleActorCrash, Task
<1>3. \A v \in Workers, c \in Bots :
         actors'[v][c] = IF v = w /\ c = b THEN NoGen ELSE actors[v][c]
  BY <1>1, <1>2, OneUpdate
<1>4. ASSUME OwnedAt(w, b)
      PROVE  /\ OnBot(w, s, b, BusyPcs)
             /\ \A h \in Gens : phase'[w][b][h] = "off"
             /\ Fits(w, s, b)'
  <2>1. OnBot(w, s, b, BusyPcs) /\ OnBot(w, s, b, {"stopping", "mark", "evict"})
    BY <1>1 DEF StopReturns, HandleActorCrash, At, OnBot, BusyPcs, TeardownPcs
  <2>2. \A h \in Gens : phase[w][b][h] = "off"
    BY <1>4, <2>1 DEF OwnedAt, Fits, Running
  <2> HIDE DEF u
  <2> QED
    BY <1>2, <1>3, <2>1, <2>2 DEF Fits, OnBot
<1> HIDE DEF t, u
<1> QED
  BY <1>2, <1>3, <1>4, SlotDown

(* A lease is given back, in vain or not, where the bot has no actor and   *)
(* none is being made.                                                     *)
LEMMA ReleaseOwned ==
  ASSUME RuntimeInv, OwnerInv, NEW w \in Workers, NEW s \in Slots,
         ReleaseLease(w, s) \/ ReleaseThrows(w, s)
  PROVE  OwnerInv'
<1> DEFINE t == tasks[w][s]
<1>1. PICK b \in Bots : t \in Task /\ t.bot = b /\ t.pc \in ReleasePcs /\ RestTypeOK
  BY TaskAt, RestIsEnough DEF ReleaseLease, ReleaseThrows, ReleasePcs, AtWork
<1>2. PICK u : Become(w, s, u) /\ u.pc \notin BusyPcs
  <2>1. Done(t).pc \notin BusyPcs /\ [t EXCEPT !.pc = "failed"].pc \notin BusyPcs
    BY <1>1 DEF Done, Idle, BusyPcs, TeardownPcs, Task
  <2>2. CheckedStart(w, t, t.bot).pc \notin BusyPcs
    BY <1>1, <2>1 DEF CheckedStart, BusyPcs, TeardownPcs, Task
  <2>3. CASE ReleaseLease(w, s)
    BY <2>1, <2>2, <2>3 DEF ReleaseLease, AfterRelease
  <2>4. CASE ReleaseThrows(w, s)
    BY <2>1, <2>4 DEF ReleaseThrows
  <2> QED
    BY <2>3, <2>4
<1>3. /\ UNCHANGED <<mode, actors, phase, starting, races>>
      /\ Release(w, b) \/ ReleaseRejected(w, b)
  BY <1>1 DEF ReleaseLease, ReleaseThrows, local
<1>4. \A v \in Workers, c \in Bots : v # w \/ c # b =>
         /\ leaseKey[c] = v => leaseKey'[c] = v
         /\ c \in renewTimers[v] => c \in renewTimers'[v]
  BY <1>1, <1>3 DEF Release, ReleaseRejected, RestTypeOK, LeaseTypeOK, Bots
<1>5. Elsewhere(w, b)
  BY <1>2, <1>3, <1>4, SlotElsewhere
<1>6. ASSUME OwnedAt(w, b) PROVE OwnedAt(w, b)'
  <2>1. OnBot(w, s, b, {"abort", "undo", "release"}) /\ OnBot(w, s, b, BusyPcs)
    BY <1>1 DEF OnBot, ReleasePcs, BusyPcs, TeardownPcs
  <2>2. ~Has(w, b)
    BY <1>6, <2>1 DEF OwnedAt, Fits, FactoryAlone, Has, Making, OnBot
  <2>3. \A r \in Slots : OnBot(w, r, b, BusyPcs)' => tasks'[w][r] = tasks[w][r]
    BY <1>2, BecomeAt DEF OnBot
  <2>4. Quiet(w, b)
    BY <1>3, <2>2, <2>3 DEF Quiet
  <2> QED
    BY <1>6, <2>4, QuietOwned
<1> QED
  BY <1>3, <1>5, <1>6, OwnedByParts

(* An actor begins to crash: it still runs, and it is the one registered. *)
LEMMA BeginCrashOwned ==
  ASSUME RuntimeInv, OwnerInv, NEW w \in Workers, NEW s \in Slots,
         NEW b \in Bots, NEW g \in Gens, BeginCrash(w, s, b, g)
  PROVE  OwnerInv'
<1> DEFINE u == [Idle EXCEPT !.pc = "crashing", !.kind = "crash",
                             !.bot = b, !.gen = g]
<1>1. /\ RestTypeOK /\ g # NoGen /\ Running(w, b, g)
      /\ UNCHANGED <<leaseVars, mode, actors, phase, starting>>
  BY RestIsEnough, RuntimeAssumption DEF BeginCrash, local
<1>2. /\ u.bot = b /\ u.pc = "crashing" /\ u.gen = g
      /\ tasks'[w][s] = u /\ Become(w, s, u)
  BY BecomeAt DEF BeginCrash, Idle
<1>3. \A c \in Bots : races[c] \subseteq races'[c]
  BY <1>1, RacesGrow DEF BeginCrash
<1> HIDE DEF u
<1>4. ASSUME OwnedAt(w, b)
      PROVE  /\ actors[w][b] # NoGen /\ Fits(w, s, b)'
             /\ \A h \in Gens : phase'[w][b][h] # "off" =>
                  phase[w][b][h] # "off" /\ actors'[w][b] = h
  <2>1. actors[w][b] = g /\ \A h \in Gens : Running(w, b, h) => actors[w][b] = h
    BY <1>1, <1>4 DEF OwnedAt, OnlyRegistered
  <2> QED
    BY <1>1, <1>2, <2>1 DEF Fits, OnBot, Running
<1> QED
  BY <1>1, <1>2, <1>3, <1>4, SlotDown

(* The error breaker: the actor that runs, the registered one, stops. *)
LEMMA BeginHaltOwned ==
  ASSUME RuntimeInv, OwnerInv, NEW w \in Workers, NEW s \in Slots,
         NEW b \in Bots, NEW g \in Gens, BeginHalt(w, s, b, g)
  PROVE  OwnerInv'
<1> DEFINE u == [Idle EXCEPT !.pc = "mark", !.kind = "halt", !.bot = b, !.gen = g]
<1>1. /\ RestTypeOK /\ g # NoGen /\ Running(w, b, g)
      /\ UNCHANGED <<leaseVars, mode, actors, starting>>
  BY RestIsEnough, RuntimeAssumption DEF BeginHalt, Running
<1>2. /\ u.bot = b /\ u.pc = "mark" /\ tasks'[w][s] = u /\ Become(w, s, u)
  BY BecomeAt DEF BeginHalt, Idle
<1>3. \A v \in Workers, c \in Bots, h \in Gens :
         phase'[v][c][h] = IF v = w /\ c = b /\ h = g THEN "off"
                           ELSE phase[v][c][h]
  BY <1>1, OneUpdate DEF BeginHalt
<1>4. \A c \in Bots : races[c] \subseteq races'[c]
  BY <1>1, RacesGrow DEF BeginHalt
<1> HIDE DEF u
<1>5. ASSUME OwnedAt(w, b)
      PROVE  /\ actors[w][b] # NoGen /\ Fits(w, s, b)'
             /\ \A h \in Gens : phase'[w][b][h] = "off"
  <2>1. actors[w][b] = g /\ \A h \in Gens : Running(w, b, h) => actors[w][b] = h
    BY <1>1, <1>5 DEF OwnedAt, OnlyRegistered
  <2>2. \A h \in Gens : phase'[w][b][h] = "off"
    BY <1>3, <2>1 DEF Running
  <2> QED
    BY <1>1, <1>2, <2>1, <2>2 DEF Fits, OnBot, Running
<1> QED
  BY <1>1, <1>2, <1>3, <1>4, <1>5, SlotDown

(* A crash has cancelled its orders: its actor stops. *)
LEMMA CrashStopsOwned ==
  ASSUME RuntimeInv, OwnerInv, NEW w \in Workers, NEW s \in Slots,
         CrashStops(w, s)
  PROVE  OwnerInv'
<1> DEFINE t == tasks[w][s]
           u == [t EXCEPT !.pc = "mark"]
<1>1. PICK b \in Bots : t \in Task /\ t.bot = b /\ t.gen \in Gens /\ RestTypeOK
  BY TaskAt, RestIsEnough DEF CrashStops, At, AtWork
<1>2. /\ u.bot = b /\ u.pc = "mark" /\ tasks'[w][s] = u /\ Become(w, s, u)
      /\ UNCHANGED <<leaseVars, mode, actors, starting, races>>
  BY <1>1, BecomeAt DEF CrashStops, Task
<1>3. \A v \in Workers, c \in Bots, h \in Gens :
         phase'[v][c][h] = IF v = w /\ c = b /\ h = t.gen THEN "off"
                           ELSE phase[v][c][h]
  BY <1>1, OneUpdate DEF CrashStops
<1>4. ASSUME OwnedAt(w, b)
      PROVE  /\ OnBot(w, s, b, BusyPcs) /\ Fits(w, s, b)'
             /\ \A h \in Gens : phase'[w][b][h] = "off"
  <2>1. OnBot(w, s, b, BusyPcs) /\ OnBot(w, s, b, {"starting", "crashing"})
    BY <1>1 DEF CrashStops, At, OnBot, BusyPcs, TeardownPcs
  <2>2. actors[w][b] \in {t.gen, NoGen}
    BY <1>4, <2>1 DEF OwnedAt, Fits
  <2>3. \A h \in Gens : phase'[w][b][h] = "off"
    BY <1>1, <1>3, <1>4, <2>2, RuntimeAssumption DEF OwnedAt, OnlyRegistered, Running
  <2> HIDE DEF t, u
  <2> QED
    BY <1>2, <2>1, <2>3 DEF Fits, OnBot, Running
<1> HIDE DEF t, u
<1> QED
  BY <1>2, <1>3, <1>4, SlotDown

(* The row is written, or could not be: nothing runs before or after it. *)
LEMMA MarkTerminalOwned ==
  ASSUME RuntimeInv, OwnerInv, NEW w \in Workers, NEW s \in Slots,
         MarkTerminal(w, s)
  PROVE  OwnerInv'
<1> DEFINE t == tasks[w][s]
           u == [t EXCEPT !.pc = "evict"]
<1>1. PICK b \in Bots : t \in Task /\ t.bot = b /\ RestTypeOK
  BY TaskAt, RestIsEnough DEF MarkTerminal, At, AtWork
<1>2. /\ u.bot = b /\ u.pc = "evict" /\ tasks'[w][s] = u /\ Become(w, s, u)
      /\ UNCHANGED <<leaseVars, mode, actors, phase, starting, races>>
  BY <1>1, BecomeAt DEF MarkTerminal, Task, local
<1>3. ASSUME OwnedAt(w, b)
      PROVE  /\ OnBot(w, s, b, BusyPcs) /\ Fits(w, s, b)'
             /\ \A h \in Gens : phase'[w][b][h] = "off"
  <2>1. OnBot(w, s, b, BusyPcs) /\ OnBot(w, s, b, {"stopping", "mark", "evict"})
    BY <1>1 DEF MarkTerminal, At, OnBot, BusyPcs, TeardownPcs
  <2>2. \A h \in Gens : phase[w][b][h] = "off"
    BY <1>3, <2>1 DEF OwnedAt, Fits, Running
  <2> HIDE DEF t, u
  <2> QED
    BY <1>2, <2>1, <2>2 DEF Fits, OnBot, Running
<1> HIDE DEF t, u
<1> QED
  BY <1>2, <1>3, SlotDown

(* The queue and the sweep: a start is only asked for. *)
LEMMA TakesOwned ==
  ASSUME RuntimeInv, OwnerInv, NEW w \in Workers, NEW s \in Slots,
         TakeStart(w, s) \/ BeginSweep(w, s) \/ SweepNext(w, s)
  PROVE  OwnerInv'
<1>1. ASSUME NEW t \in Task, NEW b \in Bots
      PROVE  CheckedStart(w, t, b).pc \notin BusyPcs
  BY DEF CheckedStart, Done, Idle, BusyPcs, TeardownPcs, Task
<1>2. Idle.pc \notin BusyPcs
  BY DEF Idle, BusyPcs, TeardownPcs
<1>3. PICK u : Become(w, s, u) /\ u.pc \notin BusyPcs
  <2>1. CASE TakeStart(w, s)
    <3>1. Head(jobs).bot \in Bots
      BY <2>1, RestIsEnough, HeadOfJobs DEF TakeStart
    <3>2. [Idle EXCEPT !.kind = "start"] \in Task
      BY DEF Idle, Task, Kinds
    <3> QED
      BY <1>1, <2>1, <3>1, <3>2 DEF TakeStart
  <2>2. CASE BeginSweep(w, s)
    <3> DEFINE u == [Idle EXCEPT !.pc = "scan", !.kind = "sweep",
                                 !.todo = {b \in Bots : row[b] = "running"}]
    <3>1. u.pc = "scan"
      BY DEF Idle
    <3> QED
      BY <2>2, <3>1 DEF BeginSweep, BusyPcs, TeardownPcs
  <2>3. CASE SweepNext(w, s)
    <3> DEFINE t == tasks[w][s]
    <3>1. t \in Task /\ t.todo \subseteq Bots
      BY TaskAt DEF Task
    <3>2. \A b \in t.todo : [t EXCEPT !.todo = @ \ {b}] \in Task
      BY <3>1 DEF Task
    <3> QED
      BY <1>1, <1>2, <2>3, <3>1, <3>2 DEF SweepNext
  <2> QED
    BY <2>1, <2>2, <2>3
<1>4. UNCHANGED <<leaseVars, mode, actors, phase, starting, races>>
  BY DEF TakeStart, BeginSweep, SweepNext, local
<1> QED
  BY <1>3, <1>4, SlotQuiet DEF leaseVars

(* The steps of a slot. *)
LEMMA SlotStepOwned ==
  ASSUME RuntimeInv, OwnerInv, NEW w \in Workers, NEW s \in Slots, SlotStep(w, s)
  PROVE  OwnerInv'
<1>1. CASE FactoryThrows(w, s)
  <2>1. tasks[w][s].bot \in Bots
    BY <1>1, TaskAt DEF FactoryThrows, At, AtWork
  <2> QED
    BY <1>1, <2>1, FactoryEndsOwned DEF FactoryThrows
<1>2. CASE TakeStop(w, s)
  <2>1. Head(jobs).bot \in Bots /\ Head(jobs).cmd \in Kinds
    BY <1>2, RestIsEnough, HeadOfJobs DEF TakeStop, Kinds
  <2> QED
    BY <1>2, <2>1, BeginStopOwned DEF TakeStop
<1>3. CASE ShutdownStops(w, s)
  <2>1. PICK b \in shutdownTodo[w] : BeginStop(w, s, "shutdown", b)
    BY <1>3 DEF ShutdownStops
  <2>2. b \in Bots /\ "shutdown" \in Kinds
    BY RestIsEnough DEF RestTypeOK, Kinds
  <2> QED
    BY <1>3, <2>1, <2>2, BeginStopOwned DEF ShutdownStops
<1> QED
  BY <1>1, <1>2, <1>3, AcquireLeaseOwned, AcquireThrowsOwned, FactoryReturnsOwned,
     StartReturnsOwned, StartThrowsOwned, StartFailedOwned, DropsOwned,
     ReleaseOwned, CrashStopsOwned, MarkTerminalOwned, TakesOwned
  DEF SlotStep, TaskStep, TaskFails

(* Where the runtime's own state of b at v stays as it is, and so does its *)
(* lease, nothing is lost.                                                 *)
LEMMA SameQuiet ==
  ASSUME NEW v \in Workers, NEW c \in Bots, tasks'[v] = tasks[v],
         actors'[v] = actors[v], phase'[v] = phase[v], starting'[v] = starting[v],
         Has(v, c) /\ leaseKey[c] = v =>
            /\ leaseKey'[c] = v
            /\ Working(v)' => /\ Working(v)
                              /\ c \in renewTimers[v] => c \in renewTimers'[v]
  PROVE  Quiet(v, c)
  BY DEF Quiet, OnBot

(* A process shuts down, ends or dies: what it no longer renews, it is no  *)
(* longer expected to.  A renewal that is lost was of no use to anybody.   *)
LEMMA ProcessStepOwned ==
  ASSUME RuntimeInv, OwnerInv, NEW w \in Workers, ProcessStep(w)
  PROVE  OwnerInv'
<1>1. /\ RestTypeOK /\ UNCHANGED races
      /\ \A c \in Bots : races[c] \subseteq races'[c]
  BY RestIsEnough DEF ProcessStep, Shutdown, CloseWorker, Exit, Die, LeaseLost
<1>2. CASE Shutdown(w)
  <2>1. ASSUME NEW v \in Workers, NEW c \in Bots PROVE Quiet(v, c)
    <3>1. Working(v)' => Working(v)
      BY <1>1, <1>2 DEF Shutdown, Working, RestTypeOK
    <3> QED
      BY <1>2, <3>1, SameQuiet DEF Shutdown, local, leaseVars
  <2> QED
    BY <1>1, <2>1, QuietOwned, OwnedEach
<1>3. CASE CloseWorker(w)
  <2>1. ASSUME NEW v \in Workers, NEW c \in Bots PROVE Quiet(v, c)
    <3>1. Working(v)' => Working(v) /\ renewTimers'[v] = renewTimers[v]
      BY <1>1, <1>3 DEF CloseWorker, ClearTimers, Working, RestTypeOK, LeaseTypeOK
    <3> QED
      BY <1>3, <3>1, SameQuiet DEF CloseWorker, ClearTimers, local
  <2> QED
    BY <1>1, <2>1, QuietOwned, OwnedEach
<1>4. CASE Exit(w) \/ Die(w)
  <2>1. ProcessGone(w) /\ UNCHANGED leaseKey
    BY <1>4 DEF Exit, Die
  <2>2. /\ \A r \in Slots : tasks'[w][r] = Idle
        /\ \A c \in Bots : actors'[w][c] = NoGen
        /\ \A c \in Bots, g \in Gens : phase'[w][c][g] = "off"
        /\ \A v \in Workers : v # w =>
              /\ tasks'[v] = tasks[v] /\ actors'[v] = actors[v]
              /\ phase'[v] = phase[v] /\ starting'[v] = starting[v]
    BY <2>1, GoneState
  <2>3. ASSUME NEW v \in Workers, NEW c \in Bots, OwnedAt(v, c) PROVE OwnedAt(v, c)'
    <3>1. CASE v = w
      <4>1. \A r \in Slots : ~OnBot(w, r, c, BusyPcs)'
        BY <2>2 DEF OnBot, Idle, BusyPcs, TeardownPcs
      <4>2. HolderIsLeased(w, c)' /\ FactoryAlone(w, c)'
        BY <2>2, <4>1
        DEF HolderIsLeased, FactoryAlone, Has, Making, OnBot, BusyPcs
      <4>3. OnlyRegistered(w, c)'
        BY <2>2 DEF OnlyRegistered, Running
      <4>4. \A r \in Slots : Fits(w, r, c)'
        BY <4>1 DEF Fits, OnBot, BusyPcs, TeardownPcs
      <4> QED
        BY <3>1, <4>2, <4>3, <4>4 DEF OwnedAt
    <3>2. CASE v # w
      <4>1. mode'[v] = mode[v] /\ renewTimers'[v] = renewTimers[v]
        BY <1>1, <2>1, <3>2 DEF ProcessGone, ClearTimers, RestTypeOK, LeaseTypeOK
      <4>2. Quiet(v, c)
        BY <2>1, <2>2, <3>2, <4>1, SameQuiet DEF Working
      <4> QED
        BY <2>3, <4>2, QuietOwned
    <3> QED
      BY <3>1, <3>2
  <2> QED
    BY <1>1, <2>3, OwnedEach
<1>5. ASSUME NEW b \in Bots, LeaseLost(w, b) PROVE OwnerInv'
  <2>1. /\ leaseKey[b] # w /\ UNCHANGED <<leaseKey, mode, tasks, local>>
        /\ renewTimers' = [renewTimers EXCEPT ![w] = @ \ {b}]
    BY <1>5 DEF LeaseLost, RenewFindsLost
  <2>2. ASSUME NEW v \in Workers, NEW c \in Bots PROVE Quiet(v, c)
    <3>1. v # w \/ c # b => (c \in renewTimers[v] => c \in renewTimers'[v])
      BY <1>1, <2>1 DEF RestTypeOK, LeaseTypeOK, Bots
    <3> QED
      BY <2>1, <3>1, SameQuiet DEF Working, local
  <2> QED
    BY <1>1, <2>2, QuietOwned, OwnedEach
<1> QED
  BY <1>2, <1>3, <1>4, <1>5 DEF ProcessStep

(* A key runs out: it was nobody's, or its holder had nothing of the bot,  *)
(* or that is one of the races that a protected bot has not met.           *)
LEMMA LeaseStepOwned ==
  ASSUME RuntimeInv, OwnerInv, NEW b \in Bots, LeaseStep(b)
  PROVE  OwnerInv'
<1>1. /\ RestTypeOK /\ UNCHANGED <<renewTimers, mode, local, tasks>>
      /\ leaseKey' = [leaseKey EXCEPT ![b] = NoWorker]
      /\ \A c \in Bots : races[c] \subseteq races'[c]
  BY RestIsEnough, RacesGrow
  DEF LeaseStep, LeaseExpires, LeaseStalls, KeyExpires
<1>2. ASSUME NEW v \in Workers, NEW c \in Bots, OwnedAt(v, c), Protected(c)'
      PROVE  Quiet(v, c)
  <2>1. c # b => leaseKey'[c] = leaseKey[c]
    BY <1>1 DEF RestTypeOK, LeaseTypeOK, Bots
  <2>2. c = b => ~(Has(v, c) /\ leaseKey[c] = v)
    <3> SUFFICES ASSUME c = b, Has(v, b), leaseKey[b] = v PROVE FALSE
      OBVIOUS
    <3>1. Working(v) => b \in renewTimers[v]
      BY <1>2 DEF OwnedAt, HolderIsLeased
    <3>2. InHand(v, b)
      BY DEF InHand, Has, Making, Live, OnBot, At
    <3>3. CASE LeaseExpires(b)
      <4>1. ~Working(v)
        BY <3>1, <3>3 DEF LeaseExpires
      <4>2. Meets(b, {"unrenewed"})
        BY <3>2, <3>3, <4>1 DEF LeaseExpires
      <4> QED
        BY <1>1, <1>2, <4>2, RacesGrow DEF Protected, OwnerRaces
    <3>4. CASE LeaseStalls(b)
      <4>1. "stalled" \in races'[b]
        BY <1>1, <3>4, RacesGrow DEF LeaseStalls
      <4> QED
        BY <1>2, <4>1 DEF Protected, OwnerRaces
    <3> QED
      BY <3>3, <3>4 DEF LeaseStep
  <2> QED
    BY <1>1, <2>1, <2>2, SameQuiet DEF local, Working
<1> QED
  BY <1>1, <1>2, QuietOwned, OwnedEach

(* Every step keeps every protected bot leased. *)
LEMMA StepOwned == TypeInv /\ OwnerInv /\ [Next]_vars => OwnerInv'
<1> SUFFICES ASSUME TypeInv, OwnerInv, [Next]_vars PROVE OwnerInv'
  OBVIOUS
<1>1. RuntimeInv /\ RestTypeOK
  BY TypeInvParts, RestIsEnough
<1>2. ASSUME UNCHANGED <<leaseVars, mode, local, tasks>>,
             \A c \in Bots : races[c] \subseteq races'[c]
      PROVE  OwnerInv'
  <2>1. ASSUME NEW v \in Workers, NEW c \in Bots PROVE Quiet(v, c)
    BY <1>2, SameQuiet DEF leaseVars, local, Working
  <2> QED
    BY <1>2, <2>1, QuietOwned, OwnedEach
<1>3. ASSUME NEW c \in Calls, NEW op \in Ops, NEW b \in Bots, BeginCall(c, op, b)
      PROVE  OwnerInv'
  BY <1>2, <1>3 DEF BeginCall, runtimeVars
<1>4. ASSUME NEW c \in Calls, CallStep(c) \/ SendThrows(c) PROVE OwnerInv'
  <2>1. Open(c) => call[c].bot \in Bots
    BY DEF TypeInv, CallShape
  <2>2. UNCHANGED <<leaseVars, mode, local, tasks>>
    BY <1>4 DEF CallStep, MarkRow, RefuseStart, Enqueue, Publish, RestoreRow,
                SendThrows, runtimeVars
  <2>3. \A d \in Bots : races[d] \subseteq races'[d]
    <3>1. CASE UNCHANGED races
      BY <3>1
    <3>2. CASE MarkRow(c) \/ RestoreRow(c)
      BY <1>1, <2>1, <3>2, RacesGrow DEF MarkRow, RestoreRow, Open
    <3> QED
      BY <1>4, <3>1, <3>2 DEF CallStep, RefuseStart, Enqueue, Publish, SendThrows,
                              runtimeVars
  <2> QED
    BY <1>2, <2>2, <2>3
<1>5. ASSUME NEW w \in Workers, NEW s \in Slots, HandleSignal(w, s)
      PROVE  OwnerInv'
  BY <1>1, <1>5, BeginStopOwned DEF HandleSignal, Kinds
<1>6. ASSUME NEW w \in Workers, NEW s \in Slots, Sweep(w, s) \/ ActorEnds(w, s)
      PROVE  OwnerInv'
  BY <1>1, <1>6, TakesOwned, BeginCrashOwned, BeginHaltOwned DEF Sweep, ActorEnds
<1>7. ASSUME NEW w \in Workers, DropSignals(w) PROVE OwnerInv'
  BY <1>2, <1>7 DEF DropSignals, runtimeVars
<1>8. ASSUME NEW w \in Workers, WorkerStep(w) PROVE OwnerInv'
  BY <1>1, <1>8, ProcessStepOwned, SlotStepOwned DEF WorkerStep
<1>9. ASSUME NEW b \in Bots, LeaseStep(b) PROVE OwnerInv'
  BY <1>1, <1>9, LeaseStepOwned
<1>10. CASE UNCHANGED vars
  BY <1>2, <1>10 DEF vars, runtimeVars
<1> QED
  BY <1>3, <1>4, <1>5, <1>6, <1>7, <1>8, <1>9, <1>10 DEF Next

(* At the start no process has anything. *)
LEMMA InitOwned == Init => OwnerInv
<1> SUFFICES ASSUME Init, NEW w \in Workers, NEW b \in Bots PROVE OwnedAt(w, b)
  BY DEF OwnerInv
<1>1. \A s \in Slots : ~OnBot(w, s, b, BusyPcs)
  BY DEF Init, RuntimeInit, OnBot, Idle, BusyPcs, TeardownPcs
<1>2. actors[w][b] = NoGen /\ \A g \in Gens : ~Running(w, b, g)
  BY DEF Init, RuntimeInit, Running
<1> QED
  BY <1>1, <1>2
  DEF OwnedAt, HolderIsLeased, FactoryAlone, OnlyRegistered, Fits, Has, Making,
      OnBot, BusyPcs, TeardownPcs

(* A bot that has met none of the three races for its lease is owned: what *)
(* a process has registered or is making, it holds and renews the lease    *)
(* of; a factory call is the only thing its process does for the bot; and  *)
(* every teardown knows whether its actor still runs and is registered.    *)
(* Failures, deaths, shutdowns and overlapping teardowns do not disturb    *)
(* it.                                                                     *)
THEOREM OwnerInvariant == Spec => []OwnerInv
<1>1. Init => TypeInv /\ OwnerInv
  BY InitTypes, InitOwned
<1>2. TypeInv /\ OwnerInv /\ [Next]_vars => (TypeInv /\ OwnerInv)'
  BY StepTypes, StepOwned
<1> QED
  BY <1>1, <1>2, PTL DEF Spec

(* An actor that runs is covered by the lease of its process, at every     *)
(* await of every teardown and failure.                                    *)
THEOREM LeaseCoversRunning == Spec => []RunningIsLeased
<1>1. OwnerInv => RunningIsLeased
  BY RuntimeAssumption
  DEF OwnerInv, OwnedAt, OnlyRegistered, HolderIsLeased, Has, RunningIsLeased, RunsOn
<1> QED
  BY <1>1, OwnerInvariant, PTL

(* No actor runs that a stop would not find, however the teardowns of its  *)
(* bot overlap: each drops the entry only when nothing runs.               *)
THEOREM StopsFindRunning == Spec => []RunningIsRegistered
<1>1. OwnerInv => RunningIsRegistered
  BY DEF OwnerInv, OwnedAt, OnlyRegistered, RunningIsRegistered
<1> QED
  BY <1>1, OwnerInvariant, PTL

(* Two actors of one bot never run at a time, in one process or in two. *)
THEOREM OneActorPerBot == Spec => []OneOwner
<1>1. OwnerInv => OneOwner
  <2> SUFFICES ASSUME OwnerInv, NEW b \in Bots, NEW v \in Workers, NEW w \in Workers,
                      NEW g \in Gens, NEW h \in Gens, Protected(b),
                      Running(v, b, g), Running(w, b, h)
               PROVE  v = w /\ g = h
    BY DEF OneOwner
  <2>1. /\ actors[v][b] = g /\ actors[w][b] = h
        /\ g # NoGen /\ h # NoGen
    BY RuntimeAssumption DEF OwnerInv, OwnedAt, OnlyRegistered
  <2>2. leaseKey[b] = v /\ leaseKey[b] = w
    BY <2>1 DEF OwnerInv, OwnedAt, HolderIsLeased, Has
  <2> QED
    BY <2>1, <2>2
<1> QED
  BY <1>1, OwnerInvariant, PTL
=============================================================================
