--------------------------- MODULE AgentOwnership ---------------------------
(***************************************************************************)
(* Which boundary process runs the trading actor of an agent, and where a  *)
(* decision for that agent is executed:                                    *)
(*   packages/boundary/src/agent-direct-actor-ensure.ts   ensure, evict    *)
(*   packages/boundary/src/agent-actor-lifecycle-ops.ts   start, stop      *)
(*   packages/boundary/src/agent-orphan-sweep.ts          sweep            *)
(*   packages/boundary/src/agent-actor-rehydrate.ts       boot             *)
(*   packages/boundary/src/agent-command-router.ts        decisions        *)
(*                                                                         *)
(* As in WorkerRuntime an async activity of a process is a task in a slot, *)
(* and one step of it is the code between two awaits.  A promise of the    *)
(* ensure cache and the actor it constructs share one identity g.          *)
(***************************************************************************)
EXTENDS InstanceLease, Naturals, Sequences, FiniteSets

CONSTANTS
    Slots,        \* bound: async activities a process has under way at once
    MaxTasks,     \* bound: the same over all processes
    Gens,         \* bound: promises (and actors) of an agent in one process
    NoGen, NoAgent,
    Decisions,    \* bound: decisions submitted
    NoDecision,
    FaultKinds,   \* which failures the environment may cause ...
    MaxFaults,    \* ... and the bound on how many it causes
    MaxCalls      \* bound: calls from outside, and changes of a profile

Agents == Ids

ASSUME AgentAssumption ==
    /\ NoGen \notin Gens /\ NoAgent \notin Agents
    /\ NoDecision \notin Decisions
    /\ MaxTasks \in Nat /\ MaxFaults \in Nat /\ MaxCalls \in Nat

VARIABLES
    runRow,       \* runRow[a]: agent_actor_runs.desired_state
    revision,     \* revision[a]: the revision of the trading profile
    process,      \* process[w]: off, boot (rehydrating), up, closing, down
    ensureCache,  \* ensureCache[w][a]: the cached promise
    promise,      \* promise[w][a][g]: how it settled, and what it was built from
    registry,     \* registry[w][a]: actorRegistry
    actor,        \* actor[w][a][g]: what the actor object itself does
    tasks,        \* tasks[w][s]: the async activity in slot s
    inbox,        \* inbox[w]: the Redis list agent-actor:cmd:{w}, oldest first
    consumer,     \* consumer[w]: the command consumer loop
    target,       \* target[d]: the agent a decision was submitted for
    reply,        \* reply[d]: what was written to agent:decision:reply:{d}
    calls,        \* calls and changes of a profile so far
    happened,     \* history: the failures and races that have happened
    executions,   \* history: executions[d], the processes that executed d
    ownersSince,  \* history: the holders of the agent's key since d was asked
    wanted        \* history: wanted[a], FALSE from a stop until the next ensure

localState == <<ensureCache, promise, registry, actor>>
routing == <<inbox, consumer, target, reply, executions>>
agentVars == <<leaseVars, runRow, revision, process, localState, tasks, routing,
               calls, happened, ownersSince, wanted>>

Races == {"overlap", "remote_stop", "stale_sweep"}
Owners == Workers \cup {NoWorker}
Pcs == {"idle", "profile", "waitPrior", "checkHolder", "acquire", "holder",
        "teardown", "starting", "abort", "release", "join", "record",
        "publish", "execute", "mark", "halt", "scan", "crash"}
ActorTask ==
    [pc    : Pcs,
     kind  : {"none", "start", "stop", "decide", "sweep", "boot", "crash"},
     agent : Agents \cup {NoAgent},
     gen   : Gens \cup {NoGen},   \* the promise it runs or waits for
     prior : Gens \cup {NoGen},   \* the cached promise, or the actor, it replaces
     rev   : 0..MaxCalls,      \* the profile it read
     owner : Owners,              \* the outcome of its ensure
     todo  : SUBSET Agents,       \* the rest of a listing
     dec   : Decisions \cup {NoDecision}]

IdleTask == [pc |-> "idle", kind |-> "none", agent |-> NoAgent, gen |-> NoGen,
             prior |-> NoGen, rev |-> 0, owner |-> NoWorker, todo |-> {},
             dec |-> NoDecision]
NoPromise == [st |-> "none", owner |-> NoWorker, rev |-> 0]
IdleConsumer == [pc |-> "pop", dec |-> NoDecision]

TypeOK ==
    /\ LeaseTypeOK
    /\ runRow \in [Agents -> {"absent", "running", "stopped"}]
    /\ revision \in [Agents -> 0..MaxCalls]
    /\ process \in [Workers -> {"off", "boot", "up", "closing", "down"}]
    /\ ensureCache \in [Workers -> [Agents -> Gens \cup {NoGen}]]
    /\ promise \in [Workers -> [Agents -> [Gens ->
           [st : {"none", "pending", "done", "failed"}, owner : Owners,
            rev : 0..MaxCalls]]]]
    /\ registry \in [Workers -> [Agents -> Gens \cup {NoGen}]]
    /\ actor \in [Workers -> [Agents -> [Gens ->
           {"off", "starting", "on", "stopping"}]]]
    /\ tasks \in [Workers -> [Slots -> ActorTask]]
    /\ inbox \in [Workers -> Seq(Decisions)]
    /\ consumer \in [Workers -> [pc : {"pop", "holder", "execute"},
                                 dec : Decisions \cup {NoDecision}]]
    /\ target \in [Decisions -> Agents \cup {NoAgent}]
    /\ reply \in [Decisions -> {"none", "not_ready", "not_running",
                                "accepted", "timeout"}]
    /\ calls \in 0..MaxCalls
    /\ happened \in SUBSET (FaultKinds \cup Races)
    /\ executions \in [Decisions -> Seq(Workers)]
    /\ ownersSince \in [Decisions -> SUBSET Workers]
    /\ wanted \in [Agents -> BOOLEAN]

Init ==
    /\ LeaseInit
    /\ runRow \in [Agents -> {"absent", "running"}]
    /\ revision = [a \in Agents |-> 0]
    /\ process = [w \in Workers |-> "off"]
    /\ ensureCache = [w \in Workers |-> [a \in Agents |-> NoGen]]
    /\ promise = [w \in Workers |-> [a \in Agents |-> [g \in Gens |-> NoPromise]]]
    /\ registry = [w \in Workers |-> [a \in Agents |-> NoGen]]
    /\ actor = [w \in Workers |-> [a \in Agents |-> [g \in Gens |-> "off"]]]
    /\ tasks = [w \in Workers |-> [s \in Slots |-> IdleTask]]
    /\ inbox = [w \in Workers |-> <<>>]
    /\ consumer = [w \in Workers |-> IdleConsumer]
    /\ target = [d \in Decisions |-> NoAgent]
    /\ reply = [d \in Decisions |-> "none"]
    /\ calls = 0
    /\ happened = {}
    /\ executions = [d \in Decisions |-> <<>>]
    /\ ownersSince = [d \in Decisions |-> {}]
    /\ wanted = [a \in Agents |-> runRow[a] = "running"]

-----------------------------------------------------------------------------
(* A failure of kind k may happen now, within the bound; it happens now. *)
MayFail(k) ==
    /\ k \in FaultKinds \ happened
    /\ Cardinality(happened \cap FaultKinds) < MaxFaults
Fault(k) == MayFail(k) /\ happened' = happened \cup {k}

At(w, s, pc) == tasks[w][s].pc = pc
Idle(w, s) ==
    /\ At(w, s, "idle")
    /\ Cardinality({p \in Workers \X Slots : ~At(p[1], p[2], "idle")}) < MaxTasks
Become(w, s, t) == tasks' = [tasks EXCEPT ![w][s] = t]
SetActor(w, a, g, p) == actor' = [actor EXCEPT ![w][a][g] = p]
Register(w, a, g) == registry' = [registry EXCEPT ![w][a] = g]

(* AgentTradingActor.isRunning, true from the first line of start() to the *)
(* last one of stop(); and ops.isActorAlive().                             *)
IsRunning(w, a, g) == actor[w][a][g] # "off"
IsActorAlive(w, a) ==
    registry[w][a] # NoGen /\ IsRunning(w, a, registry[w][a])

(* The tasks of w that change what runs for a, other than in slot s: those *)
(* building an actor, and those taking one down.                           *)
Builds(t) == t.pc \in {"acquire", "holder", "teardown", "starting", "abort",
                       "release"}
TakesDown(t) == t.pc \in {"halt", "crash"}
Building(w, a) == \E s \in Slots : tasks[w][s].agent = a /\ Builds(tasks[w][s])
TakingDown(w, a) ==
    \E s \in Slots : tasks[w][s].agent = a /\ TakesDown(tasks[w][s])

(* w is about to have an actor of a; has one or is about to; some sweep    *)
(* has read that a should run.                                             *)
Ensuring(w, a) ==
    \E s \in Slots : tasks[w][s].agent = a /\ tasks[w][s].kind # "stop"
Hosts(w, a) == Ensuring(w, a) \/ \E g \in Gens : IsRunning(w, a, g)
Listed(a) == \E w \in Workers, s \in Slots : a \in tasks[w][s].todo

(* Every holder of an agent's key while one of its decisions is open. *)
NoteOwners ==
    ownersSince' = [d \in Decisions |->
        IF target'[d] = NoAgent THEN {}
        ELSE IF executions[d] # <<>> THEN ownersSince[d]
        ELSE ownersSince[d] \cup ({leaseKey'[target'[d]]} \ {NoWorker})]

-----------------------------------------------------------------------------
(* What a task does with the outcome of its ensure: the tool start_agent_  *)
(* actor records the intent, submit_decision goes on to publishToInbound,  *)
(* sweep and rehydrate take the next agent, whatever the outcome.          *)
After(t, owner) ==
    LET u == [IdleTask EXCEPT !.kind = t.kind, !.agent = t.agent,
                              !.dec = t.dec, !.owner = owner] IN
    CASE t.kind = "start"  -> [u EXCEPT !.pc = "record"]
      [] t.kind = "decide" -> [u EXCEPT !.pc = "publish"]
      [] t.kind = "sweep" /\ t.todo = {} -> IdleTask
      [] OTHER -> [IdleTask EXCEPT !.pc = "scan", !.kind = t.kind,
                                   !.todo = t.todo]

(* A rejected ensure: the dispatcher answers not_ready, the loops log it. *)
Abandoned(t) ==
    IF t.kind \in {"sweep", "boot"} THEN After(t, NoWorker) ELSE IdleTask

AnswerIf(cond, d, r) ==
    reply' = IF cond /\ reply[d] = "none" THEN [reply EXCEPT ![d] = r] ELSE reply

(* The promise of t settles, and t, which awaits it first, goes on.  When  *)
(* it rejects, t deletes the cache entry of its key, whoever put it there. *)
Settle(w, s, t, p) ==
    /\ promise' = [promise EXCEPT ![w][t.agent][t.gen] =
                       [p EXCEPT !.rev = promise[w][t.agent][t.gen].rev]]
    /\ IF p.st = "failed"
       THEN /\ ensureCache' = [ensureCache EXCEPT ![w][t.agent] = NoGen]
            /\ Become(w, s, Abandoned(t))
            /\ IF t.kind = "decide"
               THEN AnswerIf(TRUE, t.dec, "not_ready")
               ELSE UNCHANGED reply
       ELSE /\ Become(w, s, After(t, p.owner))
            /\ UNCHANGED <<ensureCache, reply>>

(* Mutant: the outcome is stored as the state of the promise. *)
ResolvedAsState(owner) == [st |-> owner, owner |-> owner, rev |-> 0]

Resolved(owner) == [st |-> "done", owner |-> owner, rev |-> 0]
Rejected == [st |-> "failed", owner |-> NoWorker, rev |-> 0]

(* Identities nothing refers to once slot s has replaced the cache entry. *)
FreeGens(w, s, a) ==
    {g \in Gens : /\ ~IsRunning(w, a, g) /\ g # registry[w][a]
                  /\ \A r \in Slots \ {s} : tasks[w][r].agent = a =>
                         g \notin {tasks[w][r].gen, tasks[w][r].prior}}

(* The synchronous block that ends with ensureCache.set: the new promise   *)
(* is in the cache before it sends its first command.                      *)
NewPromise(w, s, t) ==
    \E g \in FreeGens(w, s, t.agent) :
        /\ promise' = [promise EXCEPT ![w][t.agent] =
               [h \in Gens |->
                   IF h = g THEN [st |-> "pending", owner |-> NoWorker,
                                  rev |-> t.rev]
                   ELSE IF h \in FreeGens(w, s, t.agent) THEN NoPromise
                   ELSE promise[w][t.agent][h]]]
        /\ ensureCache' = [ensureCache EXCEPT ![w][t.agent] = g]
        /\ Become(w, s, [t EXCEPT !.pc = "acquire", !.gen = g, !.prior = NoGen])
        /\ happened' = IF TakingDown(w, t.agent)
                       THEN happened \cup {"overlap"} ELSE happened

-----------------------------------------------------------------------------
(* ensure(): from the request to the promise it runs or waits for *)

(* getProfile answered; the cache is read in the same step.  A cached      *)
(* promise is awaited before anything is decided.                          *)
ReadProfile(w, s) ==
    LET t == [tasks[w][s] EXCEPT !.rev = revision[tasks[w][s].agent]]
        cached == ensureCache[w][t.agent]
    IN
    /\ At(w, s, "profile")
    /\ IF cached # NoGen
       THEN /\ Become(w, s, [t EXCEPT !.pc = "waitPrior", !.prior = cached])
            /\ UNCHANGED <<promise, ensureCache, happened>>
       ELSE NewPromise(w, s, t)
    /\ UNCHANGED <<leaseVars, runRow, revision, process, registry, actor,
                   routing, calls, wanted>>
    /\ NoteOwners

(* There is no profile, or none with an execution mode: the ensure rejects *)
(* before it has looked at the cache.                                      *)
ProfileMissing(w, s) ==
    LET t == tasks[w][s] IN
    /\ At(w, s, "profile")
    /\ Fault("start")
    /\ Become(w, s, Abandoned(t))
    /\ AnswerIf(t.kind = "decide", t.dec, "not_ready")
    /\ UNCHANGED <<leaseVars, runRow, revision, process, localState, inbox,
                   consumer, target, executions, calls, wanted>>
    /\ NoteOwners

(* Mutant: no second look at the cache. *)
ReconstructBlindly(w, s, t) == NewPromise(w, s, t)

(* The cached promise is not good enough.  Whoever waited for it too may   *)
(* have replaced it meanwhile: then that promise is joined.                *)
Reconstruct(w, s, t) ==
    LET current == ensureCache[w][t.agent] IN
    IF current # NoGen /\ current # t.prior
    THEN /\ Become(w, s, [t EXCEPT !.pc = "join", !.gen = current,
                                   !.prior = NoGen])
         /\ UNCHANGED <<promise, ensureCache, happened>>
    ELSE NewPromise(w, s, t)

(* Mutant: the cached promise is kept although its actor is gone. *)
WorthKeepingDead(w, t, p) == p.st = "done" /\ p.owner = w

(* Only a local promise with a live actor is worth a look at the lease. *)
WorthKeeping(w, t, p) ==
    p.st = "done" /\ p.owner = w /\ IsActorAlive(w, t.agent)

PriorSettled(w, s) ==
    LET t == tasks[w][s]
        p == promise[w][t.agent][t.prior]
    IN
    /\ At(w, s, "waitPrior")
    /\ p.st # "pending"
    /\ IF WorthKeeping(w, t, p)
       THEN /\ Become(w, s, [t EXCEPT !.pc = "checkHolder"])
            /\ UNCHANGED <<promise, ensureCache, happened>>
       ELSE Reconstruct(w, s, t)
    /\ UNCHANGED <<leaseVars, runRow, revision, process, registry, actor,
                   routing, calls, wanted>>
    /\ NoteOwners

(* Mutant: the cached actor is trusted without a look at the lease. *)
StillOwnerUnchecked(w, t) == promise[w][t.agent][t.prior].rev = t.rev

(* The fast path: still the holder, and nothing changed in the profile. *)
StillOwner(w, t) ==
    /\ leaseKey[t.agent] = w
    /\ promise[w][t.agent][t.prior].rev = t.rev

CheckHolder(w, s) ==
    LET t == tasks[w][s] IN
    /\ At(w, s, "checkHolder")
    /\ IF StillOwner(w, t)
       THEN /\ Become(w, s, After(t, w))
            /\ UNCHANGED <<promise, ensureCache, happened>>
       ELSE Reconstruct(w, s, t)
    /\ UNCHANGED <<leaseVars, runRow, revision, process, registry, actor,
                   routing, calls, wanted>>
    /\ NoteOwners

JoinSettled(w, s) ==
    LET t == tasks[w][s]
        p == promise[w][t.agent][t.gen]
    IN
    /\ At(w, s, "join")
    /\ p.st # "pending"
    /\ IF p.st = "done"
       THEN /\ Become(w, s, After(t, p.owner))
            /\ UNCHANGED reply
       ELSE /\ Become(w, s, Abandoned(t))
            /\ AnswerIf(t.kind = "decide", t.dec, "not_ready")
    /\ UNCHANGED <<leaseVars, runRow, revision, process, localState, inbox,
                   consumer, target, executions, calls, happened, wanted>>
    /\ NoteOwners

-----------------------------------------------------------------------------
(* The promise itself: lease, teardown of the previous actor, new actor *)

(* Under the lease: the previous actor first, its registration has the     *)
(* same key; without one the new actor is constructed and registered, and  *)
(* start() runs to its first await.                                        *)
Construct(w, s, t) ==
    LET previous == registry[w][t.agent] IN
    IF previous # NoGen
    THEN /\ Become(w, s, [t EXCEPT !.pc = "teardown", !.prior = previous])
         /\ IF IsRunning(w, t.agent, previous)
            THEN SetActor(w, t.agent, previous, "stopping")
            ELSE UNCHANGED actor
         /\ UNCHANGED registry
    ELSE /\ Become(w, s, [t EXCEPT !.pc = "starting"])
         /\ Register(w, t.agent, t.gen)
         /\ SetActor(w, t.agent, t.gen, "starting")

TakeLease(w, s) ==
    LET t == tasks[w][s] IN
    /\ At(w, s, "acquire")
    /\ \/ /\ Acquire(w, t.agent)
          /\ Construct(w, s, t)
          /\ UNCHANGED <<promise, ensureCache, reply, happened>>
       \/ /\ AcquireRefused(t.agent)
          /\ Become(w, s, [t EXCEPT !.pc = "holder"])
          /\ UNCHANGED <<localState, reply, happened>>
       \/ /\ Fault("acquire")
          /\ AcquireRejected(w, t.agent)
          /\ Settle(w, s, t, Rejected)
          /\ UNCHANGED <<registry, actor>>
    /\ UNCHANGED <<runRow, revision, process, inbox, consumer, target,
                   executions, calls, wanted>>
    /\ NoteOwners

(* Mutant: a key that exists is taken for ours. *)
KeptBySomeone(w, a) == leaseKey[a] # NoWorker

KeptByUs(w, a) == leaseKey[a] = w

(* The key exists: ours from an earlier ensure, or another process owns    *)
(* the agent, or it is gone by now and the owner unknown.                  *)
ReadHolder(w, s) ==
    LET t == tasks[w][s] IN
    /\ At(w, s, "holder")
    /\ IF KeptByUs(w, t.agent)
       THEN /\ Construct(w, s, t)
            /\ UNCHANGED <<promise, ensureCache, reply>>
       ELSE /\ Settle(w, s, t, Resolved(leaseKey[t.agent]))
            /\ UNCHANGED <<registry, actor>>
    /\ UNCHANGED <<leaseVars, runRow, revision, process, inbox, consumer,
                   target, executions, calls, happened, wanted>>
    /\ NoteOwners

(* Mutant: the new actor is registered before the previous one is          *)
(* deregistered, under the same key.                                       *)
TornDownLate(w, s) ==
    LET t == tasks[w][s] IN
    /\ At(w, s, "teardown")
    /\ actor' = [actor EXCEPT ![w][t.agent] =
                     [@ EXCEPT ![t.prior] = "off", ![t.gen] = "starting"]]
    /\ Register(w, t.agent, NoGen)
    /\ Become(w, s, [t EXCEPT !.pc = "starting", !.prior = NoGen])
    /\ UNCHANGED <<leaseVars, runRow, revision, process, ensureCache, promise,
                   routing, calls, happened, wanted>>
    /\ NoteOwners

(* stopAndDeregisterAgentActor returned; construct, register, start. *)
TornDown(w, s) ==
    LET t == tasks[w][s] IN
    /\ At(w, s, "teardown")
    /\ actor' = [actor EXCEPT ![w][t.agent] =
                     [@ EXCEPT ![t.prior] = "off", ![t.gen] = "starting"]]
    /\ Register(w, t.agent, t.gen)
    /\ Become(w, s, [t EXCEPT !.pc = "starting", !.prior = NoGen])
    /\ UNCHANGED <<leaseVars, runRow, revision, process, ensureCache, promise,
                   routing, calls, happened, wanted>>
    /\ NoteOwners

(* actor.start() returned, also of an actor that was stopped meanwhile; or *)
(* it failed, and stops itself before it rethrows.                         *)
Started(w, s) ==
    LET t == tasks[w][s] IN
    /\ At(w, s, "starting")
    /\ \/ /\ IF actor[w][t.agent][t.gen] = "starting"
             THEN SetActor(w, t.agent, t.gen, "on")
             ELSE UNCHANGED actor
          /\ Settle(w, s, t, Resolved(w))
          /\ UNCHANGED happened
       \/ /\ Fault("start")
          /\ IF IsRunning(w, t.agent, t.gen)
             THEN SetActor(w, t.agent, t.gen, "stopping")
             ELSE UNCHANGED actor
          /\ Become(w, s, [t EXCEPT !.pc = "abort"])
          /\ UNCHANGED <<promise, ensureCache, reply>>
    /\ UNCHANGED <<leaseVars, runRow, revision, process, registry, inbox,
                   consumer, target, executions, calls, wanted>>
    /\ NoteOwners

(* The failed actor is stopped and its agent deregistered. *)
Aborted(w, s) ==
    LET t == tasks[w][s] IN
    /\ At(w, s, "abort")
    /\ SetActor(w, t.agent, t.gen, "off")
    /\ Register(w, t.agent, NoGen)
    /\ Become(w, s, [t EXCEPT !.pc = "release"])
    /\ UNCHANGED <<leaseVars, runRow, revision, process, ensureCache, promise,
                   routing, calls, happened, wanted>>
    /\ NoteOwners

(* Best effort: the lease goes back, and the ensure rejects either way. *)
GiveUpLease(w, s) ==
    LET t == tasks[w][s] IN
    /\ At(w, s, "release")
    /\ \/ Release(w, t.agent) /\ UNCHANGED happened
       \/ Fault("release") /\ ReleaseRejected(w, t.agent)
    /\ Settle(w, s, t, Rejected)
    /\ UNCHANGED <<runRow, revision, process, registry, actor, inbox, consumer,
                   target, executions, calls, wanted>>
    /\ NoteOwners

-----------------------------------------------------------------------------
(* The tools: start_agent_actor, stop_agent_actor, submit_decision *)

Serving(w) == process[w] = "up"
EnsureTask(kind, a) ==
    [IdleTask EXCEPT !.pc = "profile", !.kind = kind, !.agent = a]

(* The context factory ensures the actor before the tool runs. *)
StartAgentActor(w, s, a) ==
    /\ Serving(w) /\ Idle(w, s)
    /\ calls < MaxCalls
    /\ calls' = calls + 1
    /\ Become(w, s, EnsureTask("start", a))
    /\ wanted' = [wanted EXCEPT ![a] = TRUE]
    /\ UNCHANGED <<leaseVars, runRow, revision, process, localState, routing,
                   happened>>
    /\ NoteOwners

RecordRunning(w, s) ==
    LET t == tasks[w][s] IN
    /\ At(w, s, "record")
    /\ runRow' = [runRow EXCEPT ![t.agent] = "running"]
    /\ wanted' = [wanted EXCEPT ![t.agent] = TRUE]
    /\ Become(w, s, IdleTask)
    /\ UNCHANGED <<leaseVars, revision, process, localState, routing, calls,
                   happened>>
    /\ NoteOwners

StopAgentActor(w, s, a) ==
    /\ Serving(w) /\ Idle(w, s)
    /\ calls < MaxCalls
    /\ calls' = calls + 1
    /\ Become(w, s, [IdleTask EXCEPT !.pc = "mark", !.kind = "stop",
                                     !.agent = a])
    /\ UNCHANGED <<leaseVars, runRow, revision, process, localState, routing,
                   happened, wanted>>
    /\ NoteOwners

(* ensure.evict: the cache entry is dropped and the release is sent; the   *)
(* commands that follow on the connection reach Redis after it.            *)
Evict(w, a, races) ==
    /\ ensureCache' = [ensureCache EXCEPT ![w][a] = NoGen]
    /\ \/ Release(w, a) /\ happened' = happened \cup races
       \/ /\ MayFail("release")
          /\ ReleaseRejected(w, a)
          /\ happened' = happened \cup races \cup {"release"}

(* stopAgent: the row first, then the actor of this process, if any. *)
MarkStopped(w, s) ==
    LET t == tasks[w][s]
        g == registry[w][t.agent]
        races == {r \in Races :
            \/ r = "overlap" /\ Ensuring(w, t.agent)
            \/ r = "remote_stop" /\ \E v \in Workers \ {w} : Hosts(v, t.agent)
            \/ r = "stale_sweep" /\ Listed(t.agent)}
    IN
    /\ At(w, s, "mark")
    /\ runRow' = [runRow EXCEPT ![t.agent] =
                      IF @ = "running" THEN "stopped" ELSE @]
    /\ wanted' = [wanted EXCEPT ![t.agent] = FALSE]
    /\ IF g # NoGen
       THEN /\ Become(w, s, [t EXCEPT !.pc = "halt", !.gen = g])
            /\ IF IsRunning(w, t.agent, g)
               THEN SetActor(w, t.agent, g, "stopping")
               ELSE UNCHANGED actor
            /\ happened' = happened \cup races
            /\ UNCHANGED <<leaseVars, ensureCache>>
       ELSE /\ Become(w, s, IdleTask)
            /\ Evict(w, t.agent, races)
            /\ UNCHANGED actor
    /\ UNCHANGED <<revision, process, promise, registry, routing, calls>>
    /\ NoteOwners

(* The actor has stopped: its agent is deregistered, by id, and evicted. *)
Halted(w, s) ==
    LET t == tasks[w][s] IN
    /\ At(w, s, "halt")
    /\ SetActor(w, t.agent, t.gen, "off")
    /\ Register(w, t.agent, NoGen)
    /\ Evict(w, t.agent, {})
    /\ Become(w, s, IdleTask)
    /\ UNCHANGED <<runRow, revision, process, promise, routing, calls, wanted>>
    /\ NoteOwners

(* A decision, which the boundary ensures the actor for like for a start. *)
AskDecision(w, s, d, a) ==
    /\ Serving(w) /\ Idle(w, s)
    /\ target[d] = NoAgent
    /\ calls < MaxCalls
    /\ calls' = calls + 1
    /\ target' = [target EXCEPT ![d] = a]
    /\ Become(w, s, [EnsureTask("decide", a) EXCEPT !.dec = d])
    /\ wanted' = [wanted EXCEPT ![a] = TRUE]
    /\ UNCHANGED <<leaseVars, runRow, revision, process, localState, inbox,
                   consumer, reply, executions, happened>>
    /\ NoteOwners

(* submitDecision in process w: without a running actor it is refused;     *)
(* what follows the check awaits the actor's intake before it executes.    *)
Submit(w, d, accepted, refused) ==
    IF IsActorAlive(w, target[d])
    THEN accepted /\ UNCHANGED reply
    ELSE refused /\ AnswerIf(TRUE, d, "not_running")

(* wrapPublishToInbound: here, nowhere, or to the owner's list. *)
Publish(w, s) ==
    LET t == tasks[w][s] IN
    /\ At(w, s, "publish")
    /\ \/ /\ t.owner = w
          /\ Submit(w, t.dec, Become(w, s, [t EXCEPT !.pc = "execute"]),
                    Become(w, s, IdleTask))
          /\ UNCHANGED inbox
       \/ /\ t.owner = NoWorker
          /\ Become(w, s, IdleTask)
          /\ AnswerIf(TRUE, t.dec, "not_ready")
          /\ UNCHANGED inbox
       \/ /\ t.owner \notin {w, NoWorker}
          /\ Become(w, s, IdleTask)
          /\ inbox' = [inbox EXCEPT ![t.owner] = Append(@, t.dec)]
          /\ UNCHANGED reply
    /\ UNCHANGED <<leaseVars, runRow, revision, process, localState, consumer,
                   target, executions, calls, happened, wanted>>
    /\ NoteOwners

Executed(w, d) ==
    /\ executions' = [executions EXCEPT ![d] = Append(@, w)]
    /\ AnswerIf(TRUE, d, "accepted")

ExecuteHere(w, s) ==
    LET t == tasks[w][s] IN
    /\ At(w, s, "execute")
    /\ Executed(w, t.dec)
    /\ Become(w, s, IdleTask)
    /\ UNCHANGED <<leaseVars, runRow, revision, process, localState, inbox,
                   consumer, target, calls, happened, wanted>>
    /\ NoteOwners

(* BLPOP of the reply key, which follows publishToInbound, ended after     *)
(* 30 s.  The envelope, or the decision under way, is not taken back.      *)
ReplyTimesOut(d) ==
    /\ target[d] # NoAgent /\ reply[d] = "none"
    /\ \A w \in Workers, s \in Slots : tasks[w][s].dec # d
    /\ reply' = [reply EXCEPT ![d] = "timeout"]
    /\ UNCHANGED <<leaseVars, runRow, revision, process, localState, tasks,
                   inbox, consumer, target, executions, calls, happened, wanted>>
    /\ NoteOwners

-----------------------------------------------------------------------------
(* The command consumer: one loop per process, one envelope at a time *)

Unpopped(q) == q   \* mutant: the list is read, not popped
Popped(q) == Tail(q)

Pop(w) ==
    /\ Serving(w)
    /\ consumer[w].pc = "pop" /\ inbox[w] # <<>>
    /\ inbox' = [inbox EXCEPT ![w] = Popped(@)]
    /\ consumer' = [consumer EXCEPT ![w] =
                        [pc |-> "holder", dec |-> Head(inbox[w])]]
    /\ UNCHANGED <<leaseVars, runRow, revision, process, localState, tasks,
                   target, reply, executions, calls, happened, wanted>>
    /\ NoteOwners

(* The split-brain guard. *)
ConsumerMayRun(w, d) == leaseKey[target[d]] = w

CheckEnvelope(w) ==
    LET d == consumer[w].dec IN
    /\ consumer[w].pc = "holder"
    /\ IF ConsumerMayRun(w, d)
       THEN Submit(w, d, consumer' = [consumer EXCEPT ![w].pc = "execute"],
                   consumer' = [consumer EXCEPT ![w] = IdleConsumer])
       ELSE /\ consumer' = [consumer EXCEPT ![w] = IdleConsumer]
            /\ AnswerIf(TRUE, d, "not_ready")
    /\ UNCHANGED <<leaseVars, runRow, revision, process, localState, tasks,
                   inbox, target, executions, calls, happened, wanted>>
    /\ NoteOwners

ExecuteForwarded(w) ==
    /\ consumer[w].pc = "execute"
    /\ Executed(w, consumer[w].dec)
    /\ consumer' = [consumer EXCEPT ![w] = IdleConsumer]
    /\ UNCHANGED <<leaseVars, runRow, revision, process, localState, tasks,
                   inbox, target, calls, happened, wanted>>
    /\ NoteOwners

-----------------------------------------------------------------------------
(* Boot, orphan sweep, crash of an actor, end of a process *)

(* Mutant: every row is listed. *)
AnyRow == {a \in Agents : runRow[a] # "absent"}

Running == {a \in Agents : runRow[a] = "running"}

(* rehydrateAgentActors is awaited before the process serves. *)
Boot(w, s) ==
    /\ process[w] = "off" /\ Idle(w, s)
    /\ process' = [process EXCEPT ![w] = "boot"]
    /\ Become(w, s, [IdleTask EXCEPT !.pc = "scan", !.kind = "boot",
                                     !.todo = Running])
    /\ UNCHANGED <<leaseVars, runRow, revision, localState, routing, calls,
                   happened, wanted>>
    /\ NoteOwners

(* A tick of the sweep; it reschedules itself when it has ended. *)
Sweep(w, s) ==
    /\ Serving(w) /\ Idle(w, s)
    /\ \A r \in Slots : tasks[w][r].kind # "sweep"
    /\ Running # {}
    /\ Become(w, s, [IdleTask EXCEPT !.pc = "scan", !.kind = "sweep",
                                     !.todo = Running])
    /\ UNCHANGED <<leaseVars, runRow, revision, process, localState, routing,
                   calls, happened, wanted>>
    /\ NoteOwners

(* The next agent of the listing, which may be old by now; the sweep skips *)
(* one whose actor is alive here, the rehydration does not look.           *)
ScanNext(w, s) ==
    LET t == tasks[w][s] IN
    /\ At(w, s, "scan")
    /\ \E a \in t.todo :
         LET rest == t.todo \ {a} IN
         Become(w, s,
             IF t.kind = "sweep" /\ IsActorAlive(w, a)
             THEN After([t EXCEPT !.todo = rest], NoWorker)
             ELSE [EnsureTask(t.kind, a) EXCEPT !.todo = rest])
    /\ UNCHANGED <<leaseVars, runRow, revision, process, localState, routing,
                   calls, happened, wanted>>
    /\ NoteOwners

(* The rehydration has ended: the process serves. *)
Listen(w, s) ==
    /\ At(w, s, "scan")
    /\ tasks[w][s].todo = {}
    /\ Become(w, s, IdleTask)
    /\ process' = [process EXCEPT ![w] = "up"]
    /\ UNCHANGED <<leaseVars, runRow, revision, localState, routing, calls,
                   happened, wanted>>
    /\ NoteOwners

(* AgentTradingActor.crash(), up to its first await, and its end: stop(),  *)
(* then onCrashed, which deregisters the agent by id.  Neither the lease   *)
(* nor the cache hears of it.                                              *)
Crash(w, s, a, g) ==
    /\ process[w] \in {"boot", "up"} /\ Idle(w, s)
    /\ actor[w][a][g] = "on"
    /\ MayFail("crash")
    /\ happened' = happened \cup {"crash"} \cup
           (IF Building(w, a) \/ TakingDown(w, a) THEN {"overlap"} ELSE {})
    /\ Become(w, s, [IdleTask EXCEPT !.pc = "crash", !.kind = "crash",
                                     !.agent = a, !.gen = g])
    /\ UNCHANGED <<leaseVars, runRow, revision, process, localState, routing,
                   calls, wanted>>
    /\ NoteOwners

Crashed(w, s) ==
    LET t == tasks[w][s] IN
    /\ At(w, s, "crash")
    /\ SetActor(w, t.agent, t.gen, "off")
    /\ Register(w, t.agent, NoGen)
    /\ Become(w, s, IdleTask)
    /\ UNCHANGED <<leaseVars, runRow, revision, process, ensureCache, promise,
                   routing, calls, happened, wanted>>
    /\ NoteOwners

(* SIGTERM: the loops stop, the listener closes, and runtime.shutdown()    *)
(* clears every renewal timer, those of the agents too; no agent actor is  *)
(* stopped before the process exits.                                       *)
ShutDown(w) ==
    /\ Serving(w)
    /\ Fault("term")
    /\ process' = [process EXCEPT ![w] = "closing"]
    /\ ClearTimers(w)
    /\ UNCHANGED <<runRow, revision, localState, tasks, routing, calls, wanted>>
    /\ NoteOwners

Vanish(w) ==
    /\ process' = [process EXCEPT ![w] = "down"]
    /\ ClearTimers(w)
    /\ ensureCache' = [ensureCache EXCEPT ![w] = [a \in Agents |-> NoGen]]
    /\ promise' = [promise EXCEPT ![w] =
                       [a \in Agents |-> [g \in Gens |-> NoPromise]]]
    /\ registry' = [registry EXCEPT ![w] = [a \in Agents |-> NoGen]]
    /\ actor' = [actor EXCEPT ![w] = [a \in Agents |-> [g \in Gens |-> "off"]]]
    /\ tasks' = [tasks EXCEPT ![w] = [s \in Slots |-> IdleTask]]
    /\ consumer' = [consumer EXCEPT ![w] = IdleConsumer]
    /\ UNCHANGED <<runRow, revision, inbox, target, reply, executions, calls,
                   wanted>>
    /\ NoteOwners

Die(w) ==
    /\ process[w] \in {"boot", "up"}
    /\ Fault("die")
    /\ Vanish(w)

Exit(w) ==
    /\ process[w] = "closing"
    /\ Vanish(w)
    /\ UNCHANGED happened

-----------------------------------------------------------------------------
(* The environment of the ensure *)

(* A renewal that found another holder. *)
RenewalStops(w, a) ==
    /\ RenewFindsLost(w, a)
    /\ UNCHANGED <<runRow, revision, process, localState, tasks, routing,
                   calls, happened, wanted>>
    /\ NoteOwners

(* A key that nobody renews runs out. *)
KeyRunsOut(a) ==
    /\ leaseKey[a] # NoWorker => a \notin renewTimers[leaseKey[a]]
    /\ KeyExpires(a)
    /\ UNCHANGED <<runRow, revision, process, localState, tasks, routing,
                   calls, happened, wanted>>
    /\ NoteOwners

(* One that is renewed runs out when its process is cut off from Redis for *)
(* a whole TTL.                                                            *)
LeaseStalls(a) ==
    /\ leaseKey[a] # NoWorker => a \in renewTimers[leaseKey[a]]
    /\ KeyExpires(a)
    /\ Fault("stall")
    /\ UNCHANGED <<runRow, revision, process, localState, tasks, routing,
                   calls, wanted>>
    /\ NoteOwners

ProfileChanges(a) ==
    /\ calls < MaxCalls
    /\ calls' = calls + 1
    /\ revision' = [revision EXCEPT ![a] = @ + 1]
    /\ UNCHANGED <<leaseVars, runRow, process, localState, tasks, routing,
                   happened, wanted>>
    /\ NoteOwners

-----------------------------------------------------------------------------
EnsureStep(w, s) ==
    \/ ReadProfile(w, s)  \/ ProfileMissing(w, s) \/ PriorSettled(w, s)
    \/ CheckHolder(w, s)  \/ JoinSettled(w, s)    \/ TakeLease(w, s)
    \/ ReadHolder(w, s)   \/ TornDown(w, s)       \/ Started(w, s)
    \/ Aborted(w, s)      \/ GiveUpLease(w, s)

ToolStep(w, s) ==
    \/ RecordRunning(w, s) \/ MarkStopped(w, s) \/ Halted(w, s)
    \/ Publish(w, s)       \/ ExecuteHere(w, s)

LoopStep(w, s) == ScanNext(w, s) \/ Listen(w, s) \/ Crashed(w, s)

Consume(w) ==
    Pop(w) \/ CheckEnvelope(w) \/ ExecuteForwarded(w)

Call(w, s, a) ==
    \/ StartAgentActor(w, s, a)
    \/ StopAgentActor(w, s, a)
    \/ \E d \in Decisions : AskDecision(w, s, d, a)
    \/ \E g \in Gens : Crash(w, s, a, g)

TaskStep(w, s) == EnsureStep(w, s) \/ ToolStep(w, s) \/ LoopStep(w, s)

Next ==
    \/ \E w \in Workers, s \in Slots :
          \/ TaskStep(w, s)
          \/ Boot(w, s)
          \/ Sweep(w, s)
          \/ \E a \in Agents : Call(w, s, a)
    \/ \E w \in Workers : Consume(w) \/ ShutDown(w) \/ Die(w) \/ Exit(w)
    \/ \E w \in Workers, a \in Agents : RenewalStops(w, a)
    \/ \E a \in Agents : KeyRunsOut(a) \/ LeaseStalls(a) \/ ProfileChanges(a)
    \/ \E d \in Decisions : ReplyTimesOut(d)

Spec == Init /\ [][Next]_agentVars

(* Tasks that are ready go on, the sweep comes round, a key that nobody    *)
(* renews runs out, and a process that shuts down exits.  Calls, faults,   *)
(* boots and changes of a profile need not happen.                         *)
Fairness ==
    /\ \A w \in Workers, s \in Slots : WF_agentVars(TaskStep(w, s))
    /\ \A w \in Workers :
          /\ WF_agentVars(\E s \in Slots : Sweep(w, s))
          /\ WF_agentVars(Consume(w))
          /\ WF_agentVars(Exit(w))
    /\ \A a \in Agents : WF_agentVars(KeyRunsOut(a))

LiveSpec == Spec /\ Fairness

-----------------------------------------------------------------------------
Excused(kinds) == happened \cap kinds # {}

(* What can part an actor from its lease: a command whose answer was lost, *)
(* a renewal that does not get through or was cleared by the shutdown, a   *)
(* stop that crosses an ensure.                                            *)
LeaseHazards == {"acquire", "release", "stall", "term", "overlap"}

(* Over all processes an agent has at most one actor that runs: the lease  *)
(* keeps processes apart, the ensure cache the calls of one process        *)
(* (agent-direct-actor-ensure.ts:218-229).                                 *)
OneActor ==
    ~Excused(LeaseHazards) =>
        \A a \in Agents, v, w \in Workers : \A g, h \in Gens :
            IsRunning(v, a, g) /\ IsRunning(w, a, h) => v = w /\ g = h

(* An actor runs only under the key of its agent, and the key is renewed.  *)
ActorIsLeased ==
    ~Excused(LeaseHazards) =>
        \A a \in Agents, w \in Workers : \A g \in Gens :
            IsRunning(w, a, g) => leaseKey[a] = w /\ a \in renewTimers[w]

(* Every actor that runs is the registered one, so that a stop, a sweep    *)
(* and a reconstruction find it: deregistration is by agent id, and must   *)
(* never hit another actor than the one that was stopped.                  *)
ActorIsRegistered ==
    ~Excused({"overlap"}) =>
        \A a \in Agents, w \in Workers : \A g \in Gens :
            IsRunning(w, a, g) => registry[w][a] = g

(* One construction of an agent is under way in a process at a time, the   *)
(* guarantee of the single-flight cache, whatever fails and however the    *)
(* lease moves.                                                            *)
SingleFlight ==
    ~Excused({"overlap"}) =>
        \A a \in Agents, w \in Workers : \A r, s \in Slots :
            /\ tasks[w][r].agent = a /\ Builds(tasks[w][r])
            /\ tasks[w][s].agent = a /\ Builds(tasks[w][s])
            => r = s

(* A decision is executed only by a process that held the agent's lease at *)
(* some time since it was submitted, even when a lease was lost unnoticed: *)
(* both paths look at the lease (the split-brain guards).                  *)
OwnerExecutes ==
    \A d \in Decisions : \A i \in DOMAIN executions[d] :
        executions[d][i] \in ownersSince[d]

(* A decision is executed once at most, and never when its submitter was   *)
(* told that it was refused.                                               *)
ExecutedOnce ==
    \A d \in Decisions :
        /\ Len(executions[d]) <= 1
        /\ reply[d] \in {"not_ready", "not_running"} => executions[d] = <<>>

(* After stop_agent_actor nothing revives the agent: once everything that  *)
(* was under way has ended, no actor of it runs, unless the stop was       *)
(* served elsewhere, crossed an ensure or came after a listing.            *)
StopHolds ==
    ~Excused(Races) =>
        \A a \in Agents :
            /\ ~wanted[a]
            /\ \A w \in Workers : ~Ensuring(w, a)
            /\ \A w \in Workers, s \in Slots :
                  tasks[w][s].kind = "stop" => tasks[w][s].agent # a
            => \A w \in Workers, g \in Gens : ~IsRunning(w, a, g)

(* What the comment on the stop signal promises (boundary/src/bin.ts:292): *)
(* also a stop that a process other than the owner serves takes effect.    *)
RemoteStopHolds ==
    ~Excused({"overlap", "stale_sweep"} \cup FaultKinds) =>
        \A a \in Agents :
            /\ ~wanted[a]
            /\ \A w \in Workers, s \in Slots : tasks[w][s] = IdleTask
            => \A w \in Workers, g \in Gens : ~IsRunning(w, a, g)

(* An agent that should run does run, or is brought back: by the sweep of  *)
(* any process that is up, after its actor crashed or its process died.    *)
AgentResumes ==
    \A a \in Agents :
        runRow[a] = "running" /\ (\E w \in Workers : Serving(w)) ~>
            \/ runRow[a] # "running"
            \/ \A w \in Workers : ~Serving(w)
            \/ \E w \in Workers, g \in Gens : actor[w][a][g] = "on"
=============================================================================
