--------------------------- MODULE WorkerRuntime ---------------------------
(***************************************************************************)
(* The bot runtime of one worker process (packages/worker/src/runtime.ts), *)
(* for several processes that share the lifecycle queue, the bots table    *)
(* and the leases.                                                         *)
(*                                                                         *)
(* An async function of the runtime is a task: a record in a slot of the   *)
(* process, whose pc names the await it is suspended at.  One step of a    *)
(* task is the code between two awaits, which nothing in the same process  *)
(* interrupts.  Tasks of one process interleave freely.                    *)
(***************************************************************************)
EXTENDS InstanceLease, Naturals, Sequences, FiniteSets

CONSTANTS
    Slots,       \* bound: async activities a process has under way at once
    Gens,        \* bound: actor objects of one bot alive in one process
    NoGen, NoBot,
    FaultKinds,  \* which failures the environment may cause ...
    MaxFaults,   \* ... and the bound on how many it causes
    RaceKinds,   \* which races a bot may meet ...
    MaxRaces     \* ... and the bound on how many kinds one bot meets

Bots == Ids

(***************************************************************************)
(* The races that the code loses.  They are recorded when they happen, so  *)
(* that a property can say which of them it does not survive:              *)
(*   "reentered"   a start takes the lease while an earlier start or       *)
(*                 teardown of the bot is unfinished in the process        *)
(*   "stalled"     a key runs out although its holder renews it            *)
(*   "unrenewed"   a key runs out under a process that shuts down, which   *)
(*                 has stopped renewing before its jobs have ended         *)
(*   "overlap"     two teardowns of the bot are under way in one process   *)
(*   "stale_start" a start takes the lease of a bot that should not run:   *)
(*                 a late job, a restart, or a sweep with an old list      *)
(*   "late_mark"   a start that failed marks a bot that has started since  *)
(*   "missed_stop" a stop job is taken by a process without the bot        *)
(*   "stale_read"  a stop_bot sends nothing, on a read that is out of date *)
(*   "rollback"    a rollback gives a bot that runs the status of before   *)
(***************************************************************************)
OwnerRaces == {"reentered", "stalled", "unrenewed"}
Races == OwnerRaces \cup {"overlap", "stale_start", "late_mark", "missed_stop",
                          "stale_read", "rollback"}

ASSUME RuntimeAssumption ==
    /\ NoGen \notin Gens
    /\ NoBot \notin Bots
    /\ IsFiniteSet(Slots)
    /\ MaxFaults \in Nat
    /\ RaceKinds \subseteq Races
    /\ MaxRaces \in Nat

VARIABLES
    row,          \* row[b]: bots.status
    jobs,         \* the BullMQ queue bot-lifecycle, oldest first
    faults,       \* failures so far
    mode,         \* mode[w]: up, stopping (SIGTERM), closing, down
    shutdownTodo, \* actors that shutdown() has still to stop
    actors,       \* actors[w][b]: WorkerRuntime.actors
    phase,        \* phase[w][b][g]: what the actor object g itself does
    starting,     \* WorkerRuntime.startingInstances
    pendingStops, \* WorkerRuntime.pendingStops
    tasks,        \* tasks[w][s]: the async activity in slot s
    races         \* history: the races that bot b has met

local == <<actors, phase, starting, pendingStops>>
runtimeVars ==
    <<leaseVars, row, jobs, faults, mode, shutdownTodo, local, tasks, races>>

Statuses == {"stopped", "running", "crashed"}
Phases == {"off", "starting", "armed"}   \* running flag false / start() / scanning
Job == [cmd : {"start", "stop", "restart"}, bot : Bots]
Kinds == {"none", "start", "stop", "restart", "sweep", "signal", "shutdown",
          "crash", "halt"}
Task == [pc   : {"idle", "scan", "acquire", "factory", "starting", "abort",
                 "undo", "failed", "stopping", "release", "crashing", "mark",
                 "evict"},
         kind : Kinds,
         bot  : Bots \cup {NoBot},
         gen  : Gens \cup {NoGen},
         todo : SUBSET Bots]

Idle == [pc |-> "idle", kind |-> "none", bot |-> NoBot, gen |-> NoGen,
         todo |-> {}]

RuntimeTypeOK ==
    /\ LeaseTypeOK
    /\ row \in [Bots -> Statuses]
    /\ jobs \in Seq(Job)
    /\ faults \in 0..MaxFaults
    /\ mode \in [Workers -> {"up", "stopping", "closing", "down"}]
    /\ shutdownTodo \in [Workers -> SUBSET Bots]
    /\ actors \in [Workers -> [Bots -> Gens \cup {NoGen}]]
    /\ phase \in [Workers -> [Bots -> [Gens -> Phases]]]
    /\ starting \in [Workers -> SUBSET Bots]
    /\ pendingStops \in [Workers -> SUBSET Bots]
    /\ tasks \in [Workers -> [Slots -> Task]]
    /\ races \in [Bots -> SUBSET Races]

RuntimeInit ==
    /\ LeaseInit
    /\ row \in [Bots -> {"stopped", "running"}]
    /\ jobs = <<>>
    /\ faults = 0
    /\ mode = [w \in Workers |-> "up"]
    /\ shutdownTodo = [w \in Workers |-> {}]
    /\ actors = [w \in Workers |-> [b \in Bots |-> NoGen]]
    /\ phase = [w \in Workers |-> [b \in Bots |-> [g \in Gens |-> "off"]]]
    /\ starting = [w \in Workers |-> {}]
    /\ pendingStops = [w \in Workers |-> {}]
    /\ tasks = [w \in Workers |-> [s \in Slots |-> Idle]]
    /\ races = [b \in Bots |-> {}]

-----------------------------------------------------------------------------
(* A failure of kind k happens now, within the bound. *)
Fault(k) ==
    /\ k \in FaultKinds
    /\ faults < MaxFaults
    /\ faults' = faults + 1

(* What happens now is a race of each kind in K for bot b. *)
Meets(b, K) ==
    /\ K \subseteq RaceKinds
    /\ races' = [races EXCEPT ![b] = @ \cup K]
    /\ Cardinality(races'[b]) <= MaxRaces

At(w, s, pc) == tasks[w][s].pc = pc
Become(w, s, t) == tasks' = [tasks EXCEPT ![w][s] = t]
Register(w, b, g) == actors' = [actors EXCEPT ![w][b] = g]
SetPhase(w, b, g, p) == phase' = [phase EXCEPT ![w][b][g] = p]
Running(w, b, g) == phase[w][b][g] # "off"

(* The awaits at which a task is in the middle of taking bot b down. *)
TeardownPcs == {"abort", "undo", "stopping", "release", "crashing", "mark",
                "evict"}
TearingDown(w, b) ==
    \E s \in Slots : tasks[w][s].bot = b /\ tasks[w][s].pc \in TeardownPcs

(* A teardown of b that begins now overlaps with another one. *)
Overlapping(w, b) == IF TearingDown(w, b) THEN {"overlap"} ELSE {}

(* An actor of b runs at w, or is about to: its factory is under way. *)
Live(w, b) ==
    \/ \E g \in Gens : Running(w, b, g)
    \/ \E s \in Slots : tasks[w][s].bot = b /\ At(w, s, "factory")
LiveSomewhere(b) == \E w \in Workers : Live(w, b)

(* w has something of b in hand, for which it took the lease. *)
InHand(w, b) ==
    actors[w][b] # NoGen \/ Live(w, b) \/ TearingDown(w, b)

(* What a task is when it is done with its bot: a sweep goes on with the   *)
(* rest of its list, anything else returns.                                *)
Done(t) == IF t.kind = "sweep"
           THEN [t EXCEPT !.pc = "scan", !.bot = NoBot, !.gen = NoGen]
           ELSE Idle

(* startInstance up to its first await: a bot that is registered here is   *)
(* skipped, for any other one the lease is asked for.                      *)
CheckedStart(w, t, b) ==
    IF actors[w][b] # NoGen
    THEN Done(t)
    ELSE [t EXCEPT !.pc = "acquire", !.bot = b, !.gen = NoGen]

-----------------------------------------------------------------------------
(* startInstance: lease, factory, actor.start() *)

(* The races of a start of b that now gets the lease. *)
Reentering(w, b) ==
    IF \E r \in Slots : /\ tasks[w][r].bot = b
                        /\ tasks[w][r].pc \in TeardownPcs \cup {"starting"}
    THEN {"reentered"} ELSE {}
OutOfDate(b) == IF row[b] # "running" THEN {"stale_start"} ELSE {}

AcquireLease(w, s) ==
    LET t == tasks[w][s] IN
    /\ At(w, s, "acquire")
    /\ \/ /\ Acquire(w, t.bot)
          /\ starting' = [starting EXCEPT ![w] = @ \cup {t.bot}]
          /\ Become(w, s, [t EXCEPT !.pc = "factory"])
          /\ Meets(t.bot, Reentering(w, t.bot) \cup OutOfDate(t.bot))
       \/ /\ AcquireRefused(t.bot)
          /\ Become(w, s, Done(t))
          /\ UNCHANGED <<starting, races>>
    /\ UNCHANGED <<row, jobs, faults, mode, shutdownTodo, actors, phase,
                   pendingStops>>

(* lease.acquire threw, before anything was started. *)
AcquireThrows(w, s) ==
    /\ At(w, s, "acquire")
    /\ Fault("acquire")
    /\ AcquireRejected(w, tasks[w][s].bot)
    /\ Become(w, s, [tasks[w][s] EXCEPT !.pc = "failed"])
    /\ UNCHANGED <<row, jobs, mode, shutdownTodo, local, races>>

(* Actor objects nothing refers to any more stand for new ones. *)
Fresh(w, b) ==
    {g \in Gens : /\ ~Running(w, b, g)
                  /\ actors[w][b] # g
                  /\ \A s \in Slots : tasks[w][s].bot = b => tasks[w][s].gen # g}

(* Mutant of FactoryReturns: the actor is started, but its entry is left   *)
(* for later.                                                              *)
FactoryReturnsUnregistered(w, s) ==
    LET t == tasks[w][s]
        b == t.bot
    IN
    /\ At(w, s, "factory")
    /\ starting' = [starting EXCEPT ![w] = @ \ {b}]
    /\ pendingStops' = [pendingStops EXCEPT ![w] = @ \ {b}]
    /\ \E g \in Fresh(w, b) :
          /\ SetPhase(w, b, g, "starting")
          /\ Become(w, s, [t EXCEPT !.pc = "starting", !.gen = g])
    /\ UNCHANGED <<leaseVars, row, jobs, faults, mode, shutdownTodo, actors,
                   races>>

(* The factory returned: a stop that came meanwhile aborts the start,      *)
(* otherwise the actor is registered and its start() begins.               *)
FactoryReturns(w, s) ==
    LET t == tasks[w][s]
        b == t.bot
    IN
    /\ At(w, s, "factory")
    /\ starting' = [starting EXCEPT ![w] = @ \ {b}]
    /\ pendingStops' = [pendingStops EXCEPT ![w] = @ \ {b}]
    /\ \/ /\ b \in pendingStops[w]
          /\ Become(w, s, [t EXCEPT !.pc = "abort"])
          /\ UNCHANGED <<actors, phase>>
       \/ /\ b \notin pendingStops[w]
          /\ \E g \in Fresh(w, b) :
                /\ Register(w, b, g)
                /\ SetPhase(w, b, g, "starting")
                /\ Become(w, s, [t EXCEPT !.pc = "starting", !.gen = g])
    /\ UNCHANGED <<leaseVars, row, jobs, faults, mode, shutdownTodo, races>>

(* Mutant of FactoryThrows: the failure is reported, the lease is kept. *)
FactoryThrowsKeepingLease(w, s) ==
    LET t == tasks[w][s] IN
    /\ At(w, s, "factory")
    /\ Fault("factory")
    /\ starting' = [starting EXCEPT ![w] = @ \ {t.bot}]
    /\ pendingStops' = [pendingStops EXCEPT ![w] = @ \ {t.bot}]
    /\ Become(w, s, [t EXCEPT !.pc = "failed"])
    /\ UNCHANGED <<leaseVars, row, jobs, mode, shutdownTodo, actors, phase,
                   races>>

FactoryThrows(w, s) ==
    LET t == tasks[w][s] IN
    /\ At(w, s, "factory")
    /\ Fault("factory")
    /\ starting' = [starting EXCEPT ![w] = @ \ {t.bot}]
    /\ pendingStops' = [pendingStops EXCEPT ![w] = @ \ {t.bot}]
    /\ Become(w, s, [t EXCEPT !.pc = "undo"])
    /\ UNCHANGED <<leaseVars, row, jobs, mode, shutdownTodo, actors, phase,
                   races>>

(* actor.start() resolved.  The scan timer is armed unless stop() ran      *)
(* while start() was suspended.                                            *)
StartReturns(w, s) ==
    LET t == tasks[w][s] IN
    /\ At(w, s, "starting")
    /\ SetPhase(w, t.bot, t.gen, IF Running(w, t.bot, t.gen) THEN "armed" ELSE "off")
    /\ Become(w, s, Done(t))
    /\ UNCHANGED <<leaseVars, row, jobs, faults, mode, shutdownTodo, actors,
                   starting, pendingStops, races>>

(* Mutant of StartThrows: the actor that failed to start is not stopped. *)
StartThrowsUnstopped(w, s) ==
    LET t == tasks[w][s] IN
    /\ At(w, s, "starting")
    /\ Fault("start")
    /\ Become(w, s, [t EXCEPT !.pc = "undo"])
    /\ UNCHANGED <<leaseVars, row, jobs, mode, shutdownTodo, local, races>>

(* actor.start() rejected: the entry is dropped, the actor stopped and the *)
(* lease given back, whoever they belong to by now.                        *)
StartThrows(w, s) ==
    LET t == tasks[w][s] IN
    /\ At(w, s, "starting")
    /\ Fault("start")
    /\ Register(w, t.bot, NoGen)
    /\ SetPhase(w, t.bot, t.gen, "off")
    /\ Become(w, s, [t EXCEPT !.pc = "undo"])
    /\ Meets(t.bot, Overlapping(w, t.bot))
    /\ UNCHANGED <<leaseVars, row, jobs, mode, shutdownTodo, starting,
                   pendingStops>>

(* onStartFailed: the row becomes crashed, if the write gets through. *)
StartFailed(w, s) ==
    LET t == tasks[w][s] IN
    /\ At(w, s, "failed")
    /\ \/ /\ row' = [row EXCEPT ![t.bot] = "crashed"]
          /\ Meets(t.bot, IF LiveSomewhere(t.bot) THEN {"late_mark"} ELSE {})
          /\ UNCHANGED faults
       \/ /\ Fault("mark")
          /\ UNCHANGED <<row, races>>
    /\ Become(w, s, Done(t))
    /\ UNCHANGED <<leaseVars, jobs, mode, shutdownTodo, local>>

-----------------------------------------------------------------------------
(* stopInstance *)

(* A stop job that finds neither an actor nor a factory call here, while   *)
(* the bot runs or starts elsewhere.                                       *)
Missed(w, kind, b) ==
    IF kind = "stop" /\ b \notin starting[w] /\ LiveSomewhere(b)
    THEN {"missed_stop"} ELSE {}

(* Mutant of BeginStop: a stop that finds no actor is kept for whatever    *)
(* start comes next.                                                       *)
BeginStopKept(w, s, kind, b) ==
    LET g == actors[w][b]
        t == [Idle EXCEPT !.kind = kind, !.bot = b, !.gen = g]
    IN
    \/ /\ g = NoGen
       /\ pendingStops' = [pendingStops EXCEPT ![w] = @ \cup {b}]
       /\ Become(w, s, IF kind = "restart" THEN CheckedStart(w, t, b) ELSE Idle)
       /\ Meets(b, Missed(w, kind, b))
       /\ UNCHANGED <<actors, phase>>
    \/ /\ g # NoGen
       /\ SetPhase(w, b, g, "off")
       /\ Become(w, s, [t EXCEPT !.pc = "stopping"])
       /\ Meets(b, Overlapping(w, b))
       /\ UNCHANGED <<actors, pendingStops>>

(* Up to its first await, in slot s.  Without an actor there is nothing to *)
(* stop; a start whose factory is under way is told to give up.  stop() of *)
(* an actor that no longer runs does not suspend.                          *)
BeginStop(w, s, kind, b) ==
    LET g == actors[w][b]
        t == [Idle EXCEPT !.kind = kind, !.bot = b, !.gen = g]
    IN
    \/ /\ g = NoGen
       /\ pendingStops' = IF b \in starting[w]
                          THEN [pendingStops EXCEPT ![w] = @ \cup {b}]
                          ELSE pendingStops
       /\ Become(w, s, IF kind = "restart" THEN CheckedStart(w, t, b) ELSE Idle)
       /\ Meets(b, Missed(w, kind, b))
       /\ UNCHANGED <<actors, phase>>
    \/ /\ g # NoGen
       /\ Meets(b, Overlapping(w, b))
       /\ IF Running(w, b, g)
          THEN /\ SetPhase(w, b, g, "off")
               /\ Become(w, s, [t EXCEPT !.pc = "stopping"])
               /\ UNCHANGED actors
          ELSE /\ Register(w, b, NoGen)
               /\ Become(w, s, [t EXCEPT !.pc = "release"])
               /\ UNCHANGED phase
       /\ UNCHANGED pendingStops

(* actor.stop() resolved: the entry of the bot is dropped, whichever actor *)
(* it names by now.                                                        *)
StopReturns(w, s) ==
    LET t == tasks[w][s] IN
    /\ At(w, s, "stopping")
    /\ Register(w, t.bot, NoGen)
    /\ Become(w, s, [t EXCEPT !.pc = "release"])
    /\ UNCHANGED <<leaseVars, row, jobs, faults, mode, shutdownTodo, phase,
                   starting, pendingStops, races>>

(* Where each of the three releases goes on. *)
AfterRelease(w, t) ==
    CASE t.pc = "undo"       -> [t EXCEPT !.pc = "failed"]
      [] t.kind = "restart" /\ t.pc = "release" -> CheckedStart(w, t, t.bot)
      [] OTHER               -> Done(t)

ReleasePcs == {"abort", "undo", "release"}

ReleaseLease(w, s) ==
    LET t == tasks[w][s] IN
    /\ t.pc \in ReleasePcs
    /\ Release(w, t.bot)
    /\ Become(w, s, AfterRelease(w, t))
    /\ UNCHANGED <<row, jobs, faults, mode, shutdownTodo, local, races>>

(* The release rejected: inside a start that is a start failure, after a   *)
(* stop the job or the callback fails.                                     *)
ReleaseThrows(w, s) ==
    LET t == tasks[w][s] IN
    /\ t.pc \in ReleasePcs
    /\ Fault("release")
    /\ ReleaseRejected(w, t.bot)
    /\ Become(w, s, IF t.pc = "release" THEN Done(t)
                    ELSE [t EXCEPT !.pc = "failed"])
    /\ UNCHANGED <<row, jobs, mode, shutdownTodo, local, races>>

-----------------------------------------------------------------------------
(* The two ways an actor ends by itself *)

(* crash() begins by cancelling its open orders: the actor still runs. *)
BeginCrash(w, s, b, g) ==
    /\ At(w, s, "idle")
    /\ Fault("crash")
    /\ Running(w, b, g)
    /\ Meets(b, Overlapping(w, b))
    /\ \A r \in Slots : tasks[w][r].bot = b /\ At(w, r, "crashing")
                            => tasks[w][r].gen # g
    /\ Become(w, s, [Idle EXCEPT !.pc = "crashing", !.kind = "crash",
                                 !.bot = b, !.gen = g])
    /\ UNCHANGED <<leaseVars, row, jobs, mode, shutdownTodo, local>>

CrashStops(w, s) ==
    LET t == tasks[w][s] IN
    /\ At(w, s, "crashing")
    /\ SetPhase(w, t.bot, t.gen, "off")
    /\ Become(w, s, [t EXCEPT !.pc = "mark"])
    /\ UNCHANGED <<leaseVars, row, jobs, faults, mode, shutdownTodo, actors,
                   starting, pendingStops, races>>

(* The error breaker of a tick stops the actor at once. *)
BeginHalt(w, s, b, g) ==
    /\ At(w, s, "idle")
    /\ Fault("halt")
    /\ phase[w][b][g] = "armed"
    /\ Meets(b, Overlapping(w, b))
    /\ SetPhase(w, b, g, "off")
    /\ Become(w, s, [Idle EXCEPT !.pc = "mark", !.kind = "halt",
                                 !.bot = b, !.gen = g])
    /\ UNCHANGED <<leaseVars, row, jobs, mode, shutdownTodo, actors, starting,
                   pendingStops>>

(* Mutant of MarkTerminal: the row is given a status it does not know. *)
MarkTerminalByKind(w, s) ==
    LET t == tasks[w][s] IN
    /\ At(w, s, "mark")
    /\ row' = [row EXCEPT ![t.bot] = t.kind]
    /\ Become(w, s, [t EXCEPT !.pc = "evict"])
    /\ UNCHANGED <<leaseVars, jobs, faults, mode, shutdownTodo, local, races>>

(* Mutant of MarkTerminal: the runtime cleanup first, then the row. *)
MarkAfterCleanup(w, s) ==
    LET t == tasks[w][s] IN
    /\ At(w, s, "mark")
    /\ \/ /\ actors[w][t.bot] = t.gen
          /\ Register(w, t.bot, NoGen)
          /\ Release(w, t.bot)
          /\ UNCHANGED <<row, tasks>>
       \/ /\ actors[w][t.bot] # t.gen
          /\ row' = [row EXCEPT ![t.bot] = IF t.kind = "crash" THEN "crashed"
                                           ELSE "stopped"]
          /\ Become(w, s, Idle)
          /\ UNCHANGED <<leaseVars, actors>>
    /\ UNCHANGED <<jobs, faults, mode, shutdownTodo, phase, starting,
                   pendingStops, races>>

(* onCrashed and onHalted write the row before anything is released. *)
MarkTerminal(w, s) ==
    LET t == tasks[w][s] IN
    /\ At(w, s, "mark")
    /\ \/ /\ row' = [row EXCEPT ![t.bot] = IF t.kind = "crash" THEN "crashed"
                                           ELSE "stopped"]
          /\ UNCHANGED faults
       \/ /\ Fault("mark")
          /\ UNCHANGED row
    /\ Become(w, s, [t EXCEPT !.pc = "evict"])
    /\ UNCHANGED <<leaseVars, jobs, mode, shutdownTodo, local, races>>

(* handleActorCrash drops the entry of the bot, whichever actor it names. *)
HandleActorCrash(w, s) ==
    LET t == tasks[w][s] IN
    /\ At(w, s, "evict")
    /\ Register(w, t.bot, NoGen)
    /\ Become(w, s, [t EXCEPT !.pc = "release"])
    /\ UNCHANGED <<leaseVars, row, jobs, faults, mode, shutdownTodo, phase,
                   starting, pendingStops, races>>

-----------------------------------------------------------------------------
(* Where tasks come from: the queue, the reclaim sweep, shutdown *)

Working(w) == mode[w] \in {"up", "stopping"}

TakeStart(w, s) ==
    /\ Working(w) /\ At(w, s, "idle")
    /\ jobs # <<>> /\ Head(jobs).cmd = "start"
    /\ jobs' = Tail(jobs)
    /\ Become(w, s, CheckedStart(w, [Idle EXCEPT !.kind = "start"], Head(jobs).bot))
    /\ UNCHANGED <<leaseVars, row, faults, mode, shutdownTodo, local, races>>

TakeStop(w, s) ==
    /\ Working(w) /\ At(w, s, "idle")
    /\ jobs # <<>> /\ Head(jobs).cmd \in {"stop", "restart"}
    /\ jobs' = Tail(jobs)
    /\ BeginStop(w, s, Head(jobs).cmd, Head(jobs).bot)
    /\ UNCHANGED <<leaseVars, row, faults, mode, shutdownTodo, starting>>

(* reclaimOrphans loads its list once ... *)
BeginSweep(w, s) ==
    LET listed == {b \in Bots : row[b] = "running"} IN
    /\ mode[w] = "up" /\ At(w, s, "idle")
    /\ listed # {}
    /\ Become(w, s, [Idle EXCEPT !.pc = "scan", !.kind = "sweep", !.todo = listed])
    /\ UNCHANGED <<leaseVars, row, jobs, faults, mode, shutdownTodo, local,
                   races>>

(* ... and starts what it lists, one after the other. *)
SweepNext(w, s) ==
    LET t == tasks[w][s] IN
    /\ At(w, s, "scan")
    /\ \/ /\ t.todo = {}
          /\ Become(w, s, Idle)
       \/ \E b \in t.todo :
             Become(w, s, CheckedStart(w, [t EXCEPT !.todo = @ \ {b}], b))
    /\ UNCHANGED <<leaseVars, row, jobs, faults, mode, shutdownTodo, local,
                   races>>

(* SIGTERM: no more sweeps, and every actor registered now is stopped. *)
Shutdown(w) ==
    /\ mode[w] = "up"
    /\ mode' = [mode EXCEPT ![w] = "stopping"]
    /\ shutdownTodo' = [shutdownTodo EXCEPT ![w] =
                            {b \in Bots : actors[w][b] # NoGen}]
    /\ UNCHANGED <<leaseVars, row, jobs, faults, local, tasks, races>>

ShutdownStops(w, s) ==
    /\ mode[w] = "stopping" /\ At(w, s, "idle")
    /\ \E b \in shutdownTodo[w] :
          /\ shutdownTodo' = [shutdownTodo EXCEPT ![w] = @ \ {b}]
          /\ BeginStop(w, s, "shutdown", b)
    /\ UNCHANGED <<leaseVars, row, jobs, faults, mode, starting>>

(* The stops are done: the timers of all leases still held are cleared and *)
(* the queue takes no more jobs.                                           *)
CloseWorker(w) ==
    /\ mode[w] = "stopping"
    /\ shutdownTodo[w] = {}
    /\ \A s \in Slots : tasks[w][s].kind # "shutdown"
    /\ mode' = [mode EXCEPT ![w] = "closing"]
    /\ ClearTimers(w)
    /\ UNCHANGED <<row, jobs, faults, shutdownTodo, local, tasks, races>>

(* All that lived in the process is gone; the keys it held are not. *)
ProcessGone(w) ==
    /\ mode' = [mode EXCEPT ![w] = "down"]
    /\ ClearTimers(w)
    /\ shutdownTodo' = [shutdownTodo EXCEPT ![w] = {}]
    /\ actors' = [actors EXCEPT ![w] = [b \in Bots |-> NoGen]]
    /\ phase' = [phase EXCEPT ![w] = [b \in Bots |-> [g \in Gens |-> "off"]]]
    /\ starting' = [starting EXCEPT ![w] = {}]
    /\ pendingStops' = [pendingStops EXCEPT ![w] = {}]
    /\ tasks' = [tasks EXCEPT ![w] = [s \in Slots |-> Idle]]

InJob(w, s) == tasks[w][s].kind \in {"start", "stop", "restart"}

(* worker.close() waits for the jobs in progress, not for the sweeps. *)
Exit(w) ==
    /\ mode[w] = "closing"
    /\ \A s \in Slots : ~InJob(w, s)
    /\ ProcessGone(w)
    /\ UNCHANGED <<leaseKey, row, jobs, faults, races>>

(* The process dies.  BullMQ finds the jobs it was at stalled and puts     *)
(* them back in front of the queue, in any order.                          *)
Die(w) ==
    LET lost == {s \in Slots : InJob(w, s)} IN
    /\ mode[w] # "down"
    /\ Fault("die")
    /\ \E order \in [1..Cardinality(lost) -> lost] :
          /\ \A s \in lost : \E i \in DOMAIN order : order[i] = s
          /\ jobs' = [i \in DOMAIN order |->
                         [cmd |-> tasks[w][order[i]].kind,
                          bot |-> tasks[w][order[i]].bot]] \o jobs
    /\ ProcessGone(w)
    /\ UNCHANGED <<leaseKey, row, races>>

-----------------------------------------------------------------------------
(* Leases, as time passes *)

LeaseLost(w, b) ==
    /\ RenewFindsLost(w, b)
    /\ UNCHANGED <<row, jobs, faults, mode, shutdownTodo, local, tasks, races>>

(* A key that nobody renews runs out: its holder is gone, has given it     *)
(* back in vain, never knew that it got it, or shuts down: then all its    *)
(* timers are cleared, also those of starts that close() still waits for.  *)
LeaseExpires(b) ==
    /\ \A w \in Workers : leaseKey[b] = w => b \notin renewTimers[w]
    /\ KeyExpires(b)
    /\ Meets(b, IF \E w \in Workers : /\ leaseKey[b] = w /\ ~Working(w)
                                      /\ InHand(w, b)
                THEN {"unrenewed"} ELSE {})
    /\ UNCHANGED <<row, jobs, faults, mode, shutdownTodo, local, tasks>>

(* It ran out although it is renewed: no renewal got through for a TTL.    *)
LeaseStalls(b) ==
    /\ Fault("stall")
    /\ \E w \in Workers : leaseKey[b] = w /\ b \in renewTimers[w]
    /\ KeyExpires(b)
    /\ Meets(b, {"stalled"})
    /\ UNCHANGED <<row, jobs, mode, shutdownTodo, local, tasks>>

(* What the code of a process does once a task is under way. *)
TaskStep(w, s) ==
    \/ AcquireLease(w, s)
    \/ FactoryReturns(w, s)
    \/ StartReturns(w, s)
    \/ StartFailed(w, s)
    \/ StopReturns(w, s)
    \/ ReleaseLease(w, s)
    \/ CrashStops(w, s)
    \/ MarkTerminal(w, s)
    \/ HandleActorCrash(w, s)
    \/ SweepNext(w, s)

TaskFails(w, s) ==
    \/ AcquireThrows(w, s)
    \/ FactoryThrows(w, s)
    \/ StartThrows(w, s)
    \/ ReleaseThrows(w, s)

(* A task of w goes on, or begins for a reason of the process itself. *)
SlotStep(w, s) ==
    \/ TaskStep(w, s)
    \/ TaskFails(w, s)
    \/ TakeStart(w, s)
    \/ TakeStop(w, s)
    \/ ShutdownStops(w, s)

ProcessStep(w) ==
    \/ Shutdown(w)
    \/ CloseWorker(w)
    \/ Exit(w)
    \/ Die(w)
    \/ \E b \in Bots : LeaseLost(w, b)
=============================================================================
