--------------------------- MODULE BotLifecycle ----------------------------
(***************************************************************************)
(* Who runs a bot: the calls that drive it (composition/drive-target.ts,   *)
(* the stop_bot tool and its bot:stop signal), composed with the worker    *)
(* processes of WorkerRuntime.                                             *)
(***************************************************************************)
EXTENDS WorkerRuntime

CONSTANTS
    Calls,       \* bound: the calls made, each once
    Ops          \* the operations they may ask for

ASSUME LifecycleAssumption ==
    Ops \subseteq {"start", "stop", "restart", "stop_bot"}

VARIABLES
    call,        \* call[c]: how far call c is
    signals      \* bot:stop messages a subscribed process has not handled

vars == <<runtimeVars, call, signals>>

Call == [pc   : {"unused", "mark", "send", "rollback", "done"},
         op   : {"none"} \cup {"start", "stop", "restart", "stop_bot"},
         bot  : Bots \cup {NoBot},
         seen : Statuses]

TypeOK ==
    /\ RuntimeTypeOK
    /\ call \in [Calls -> Call]
    /\ signals \subseteq Workers \X Bots

Init ==
    /\ RuntimeInit
    /\ call = [c \in Calls |-> [pc |-> "unused", op |-> "none", bot |-> NoBot,
                                seen |-> "stopped"]]
    /\ signals = {}

-----------------------------------------------------------------------------
Open(c) == call[c].pc \in {"mark", "send", "rollback"}

Step(c, pc) == call' = [call EXCEPT ![c].pc = pc]

(* The call reads the row; what it decides later, it decides on this read. *)
BeginCall(c, op, b) ==
    /\ call[c].pc = "unused"
    /\ call' = [call EXCEPT ![c] =
                   [pc   |-> IF op = "restart" THEN "send" ELSE "mark",
                    op   |-> op, bot |-> b, seen |-> row[b]]]
    /\ UNCHANGED <<runtimeVars, signals>>

(* A stop_bot that read a bot not running sends no signal. *)
Silent(k) == k.op = "stop_bot" /\ k.seen # "running"

(* startBot claims the row, stopBot and stop_bot mark it stopped.          *)
MarkRow(c) ==
    LET k == call[c] IN
    /\ k.pc = "mark"
    /\ row' = [row EXCEPT ![k.bot] = IF k.op = "start" THEN "running" ELSE "stopped"]
    /\ Step(c, IF Silent(k) THEN "done" ELSE "send")
    /\ Meets(k.bot, IF Silent(k) /\ row[k.bot] = "running"
                    THEN {"stale_read"} ELSE {})
    /\ UNCHANGED <<leaseVars, jobs, faults, mode, shutdownTodo, local, tasks,
                   signals>>

(* startBot gives up before it claims the row: an invalid configuration,   *)
(* or no slot left under the limit of the owner.                           *)
RefuseStart(c) ==
    /\ call[c].pc = "mark" /\ call[c].op = "start"
    /\ Step(c, "done")
    /\ UNCHANGED <<runtimeVars, signals>>

(* enqueueLifecycle, for any process to take. *)
Enqueue(c) ==
    LET k == call[c] IN
    /\ k.pc = "send" /\ k.op # "stop_bot"
    /\ jobs' = Append(jobs, [cmd |-> k.op, bot |-> k.bot])
    /\ Step(c, "done")
    /\ UNCHANGED <<leaseVars, row, faults, mode, shutdownTodo, local, tasks,
                   races, signals>>

(* Mutant of Publish: the signal reaches one process, as a job would. *)
PublishToOne(c) ==
    LET k == call[c] IN
    /\ k.pc = "send" /\ k.op = "stop_bot"
    /\ \E w \in Workers : Working(w) /\ signals' = signals \cup {<<w, k.bot>>}
    /\ Step(c, "done")
    /\ UNCHANGED runtimeVars

(* PUBLISH bot:stop:<id>: every process subscribed at this moment gets it. *)
Publish(c) ==
    LET k == call[c] IN
    /\ k.pc = "send" /\ k.op = "stop_bot"
    /\ signals' = signals \cup {<<w, k.bot>> : w \in {v \in Workers : Working(v)}}
    /\ Step(c, "done")
    /\ UNCHANGED runtimeVars

SendThrows(c) ==
    /\ call[c].pc = "send"
    /\ Fault("send")
    /\ Step(c, IF call[c].op = "restart" THEN "done" ELSE "rollback")
    /\ UNCHANGED <<leaseVars, row, jobs, mode, shutdownTodo, local, tasks,
                   races, signals>>

(* restoreBotRuntimeState writes back what the call read at its start. *)
RestoreRow(c) ==
    /\ call[c].pc = "rollback"
    /\ \/ /\ row' = [row EXCEPT ![call[c].bot] = call[c].seen]
          /\ UNCHANGED faults
       \/ /\ Fault("restore")
          /\ UNCHANGED row
    /\ Meets(call[c].bot, IF /\ row'[call[c].bot] # "running"
                             /\ LiveSomewhere(call[c].bot)
                          THEN {"rollback"} ELSE {})
    /\ Step(c, "done")
    /\ UNCHANGED <<leaseVars, jobs, mode, shutdownTodo, local, tasks, signals>>

(* The subscriber of bot:stop:* calls stopInstanceDirect. *)
HandleSignal(w, s) ==
    /\ Working(w) /\ At(w, s, "idle")
    /\ \E b \in Bots :
          /\ <<w, b>> \in signals
          /\ signals' = signals \ {<<w, b>>}
          /\ BeginStop(w, s, "signal", b)
    /\ UNCHANGED <<leaseVars, row, jobs, faults, mode, shutdownTodo, starting,
                   call>>

(* A message a process did not handle before it stopped listening is lost. *)
DropSignals(w) ==
    /\ ~Working(w)
    /\ \E b \in Bots : <<w, b>> \in signals
    /\ signals' = signals \ ({w} \X Bots)
    /\ UNCHANGED <<runtimeVars, call>>

CallStep(c) ==
    MarkRow(c) \/ RefuseStart(c) \/ Enqueue(c) \/ Publish(c) \/ RestoreRow(c)

(* The steps of the runtime. *)
Sweep(w, s) == BeginSweep(w, s) /\ UNCHANGED <<call, signals>>

ActorEnds(w, s) ==
    /\ \E b \in Bots, g \in Gens : BeginCrash(w, s, b, g) \/ BeginHalt(w, s, b, g)
    /\ UNCHANGED <<call, signals>>

WorkerStep(w) ==
    /\ ProcessStep(w) \/ \E s \in Slots : SlotStep(w, s)
    /\ UNCHANGED <<call, signals>>

LeaseStep(b) ==
    /\ LeaseExpires(b) \/ LeaseStalls(b)
    /\ UNCHANGED <<call, signals>>

Next ==
    \/ \E c \in Calls, op \in Ops, b \in Bots : BeginCall(c, op, b)
    \/ \E c \in Calls : CallStep(c) \/ SendThrows(c)
    \/ \E w \in Workers, s \in Slots :
          HandleSignal(w, s) \/ Sweep(w, s) \/ ActorEnds(w, s)
    \/ \E w \in Workers : DropSignals(w) \/ WorkerStep(w)
    \/ \E b \in Bots : LeaseStep(b)

Spec == Init /\ [][Next]_vars

(***************************************************************************)
(* Fairness.  A task that is not suspended for ever goes on (every await   *)
(* of the runtime is of a command with a reply or a rejection); a call,    *)
(* once made, is carried through; the queue and the subscriber deliver;    *)
(* the sweep is a periodic timer; an unrenewed key runs out.  Nothing is   *)
(* assumed of callers, of failures or of SIGTERM.                          *)
(***************************************************************************)
FairSpec ==
    /\ Spec
    /\ \A c \in Calls : WF_vars(CallStep(c))
    /\ \A w \in Workers, s \in Slots :
          /\ WF_vars(TaskStep(w, s) /\ UNCHANGED <<call, signals>>)
          /\ WF_vars(ShutdownStops(w, s) /\ UNCHANGED <<call, signals>>)
    /\ \A w \in Workers :
          /\ WF_vars(\E s \in Slots : Sweep(w, s))
          /\ WF_vars(\E s \in Slots : HandleSignal(w, s))
          /\ WF_vars(DropSignals(w))
          /\ WF_vars((CloseWorker(w) \/ Exit(w)) /\ UNCHANGED <<call, signals>>)
          /\ WF_vars(\E b \in Bots : LeaseLost(w, b) /\ UNCHANGED <<call, signals>>)
    /\ WF_vars(\E w \in Workers, s \in Slots :
                  /\ TakeStart(w, s) \/ TakeStop(w, s)
                  /\ UNCHANGED <<call, signals>>)
    /\ \A b \in Bots : WF_vars(LeaseExpires(b) /\ UNCHANGED <<call, signals>>)

-----------------------------------------------------------------------------
(* Properties *)

RunsOn(w, b) == \E g \in Gens : Running(w, b, g)

(* The lease protects b: none of its races but those of the code around it *)
(* (a late mark, a lost stop) has happened.                                *)
Protected(b) == races[b] \cap OwnerRaces = {}

(* At no time do two actor objects of one bot run, in one process or in    *)
(* two: what the lease is for (instance-lease.ts, startInstance).          *)
OneOwner ==
    \A b \in Bots, v, w \in Workers, g, h \in Gens :
        Protected(b) /\ Running(v, b, g) /\ Running(w, b, h) => v = w /\ g = h

(* An actor that runs is covered by the lease of its process for as long   *)
(* as it runs, whatever stops, crashes or fails around it: stopInstance,   *)
(* handleActorCrash and the failure paths release only after the actor has *)
(* stopped, and never what a later start has taken, unless that one began  *)
(* while they were under way.                                              *)
RunningIsLeased ==
    \A w \in Workers, b \in Bots :
        Protected(b) /\ RunsOn(w, b) => leaseKey[b] = w

(* Every running actor can be found by a stop: it is the registered one,   *)
(* however the stops, crashes and failed starts of the bot overlap.  (An   *)
(* actor that runs unregistered trades on, and no command reaches it.)     *)
RunningIsRegistered ==
    \A w \in Workers, b \in Bots, g \in Gens :
        Protected(b) /\ Running(w, b, g) => actors[w][b] = g

(* A pending stop is addressed to a factory call under way, so it can      *)
(* never abort a start that is asked for later (runtime.ts, stopInstance:  *)
(* "a stale stop ... would poison the next start").                        *)
NoPoisonedStart ==
    \A w \in Workers, b \in Bots :
        b \in pendingStops[w] =>
            \E s \in Slots : tasks[w][s].bot = b /\ At(w, s, "factory")

(* What will still stop the actor of b at w: a call that has not sent its  *)
(* stop yet, a stop job, a signal, a crash that goes on, or the end of w.  *)
StopComing(w, b) ==
    \/ \E c \in Calls : /\ call[c].bot = b /\ call[c].op \in {"stop", "stop_bot"}
                        /\ call[c].pc \in {"send", "rollback"}
    \/ \E i \in DOMAIN jobs : jobs[i].bot = b /\ jobs[i].cmd = "stop"
    \/ <<w, b>> \in signals
    \/ \E s \in Slots : tasks[w][s].bot = b /\ At(w, s, "crashing")
    \/ ~Working(w)

(* When the row of a bot says stopped and an actor runs all the same, its  *)
(* stop is on the way: to that very process, or to one that will take it   *)
(* (stop_bot: "The bot will cease trading").                               *)
StoppedStaysStopped ==
    \A w \in Workers, b \in Bots :
        races[b] = {} /\ row[b] = "stopped" /\ RunsOn(w, b) => StopComing(w, b)

(* No actor of a bot that is marked crashed runs, or is being made, in any *)
(* process: onCrashed marks the row before the lease is given back, so     *)
(* that no sweep takes up what is crashing (create-trading-runtime.ts).    *)
CrashedNeverRuns ==
    \A w \in Workers, b \in Bots :
        races[b] = {} /\ row[b] = "crashed" => ~Live(w, b)

(* A process that shuts down and waits for no job only has to exit. *)
Serves(w) == \/ mode[w] \in {"up", "stopping"}
             \/ \E s \in Slots : InJob(w, s)

(* No two processes run one bot (instance-lease.ts: "ensure only one       *)
(* worker runs each instance").                                            *)
OneWorker ==
    \A b \in Bots, v, w \in Workers :
        RunsOn(v, b) /\ Serves(v) /\ RunsOn(w, b) /\ Serves(w) => v = w

(* A bot whose row says running gets an actor as long as a process is up   *)
(* to claim it, or its row changes: leases of dead processes run out and   *)
(* the sweep of another one takes over (reclaimOrphans).                   *)
RunningResumes ==
    \A b \in Bots :
        row[b] = "running" ~>
            \/ \E w \in Workers : RunsOn(w, b)
            \/ row[b] # "running"
            \/ \A w \in Workers : mode[w] # "up"
=============================================================================
