----------------------- MODULE AgentOwnership_proofs ------------------------
(***************************************************************************)
(* Theorems about AgentOwnership, for every number of processes, agents,   *)
(* activities and decisions, and whatever fails.                           *)
(*                                                                         *)
(* A decision is in one place at a time: with the call that asked for it,  *)
(* in the list of the process it was sent to, with the consumer there, or  *)
(* executed.  A process that is about to execute it held the lease of the  *)
(* agent after it was asked for.  The hard case is a call that joins a     *)
(* promise of another call: that promise replaced one the call had found   *)
(* in the cache, so whoever runs it took the lease later than that.        *)
(***************************************************************************)
EXTENDS AgentOwnership, SequenceTheorems, TLAPS

EnsurePcs == {"profile", "waitPrior", "checkHolder", "join", "acquire", "holder",
              "teardown", "starting", "abort", "release"}
GenPcs == {"join", "acquire", "holder", "teardown", "starting", "abort",
           "release", "halt", "crash"}

(* What a task has at each of its steps. *)
Shape(t) ==
    /\ t.pc \notin {"idle", "scan"} => t.agent \in Agents
    /\ t.pc \in {"waitPrior", "checkHolder", "teardown"} => t.prior \in Gens
    /\ t.pc \in GenPcs => t.gen \in Gens
    /\ t.pc \in EnsurePcs => t.kind \in {"start", "decide", "sweep", "boot"}
    /\ t.pc \in {"publish", "execute"} => t.kind = "decide"
    /\ t.pc = "scan" => t.kind \in {"sweep", "boot"}
    /\ t.pc = "idle" => t.kind # "decide"
    /\ t.kind = "decide" <=> t.dec # NoDecision

Good(t) == t \in ActorTask /\ Shape(t)

CoreType ==
    /\ LeaseTypeOK
    /\ runRow \in [Agents -> {"absent", "running", "stopped"}]
    /\ revision \in [Agents -> 0..MaxCalls]
    /\ \A a \in Agents : revision[a] <= calls
    /\ process \in [Workers -> {"off", "boot", "up", "closing", "down"}]
    /\ calls \in 0..MaxCalls
    /\ happened \in SUBSET (FaultKinds \cup Races)
    /\ wanted \in [Agents -> BOOLEAN]

Promise == [st : {"none", "pending", "done", "failed"}, owner : Owners,
            rev : 0..MaxCalls]
LocalType ==
    /\ ensureCache \in [Workers -> [Agents -> Gens \cup {NoGen}]]
    /\ promise \in [Workers -> [Agents -> [Gens -> Promise]]]
    /\ registry \in [Workers -> [Agents -> Gens \cup {NoGen}]]
    /\ actor \in [Workers -> [Agents -> [Gens ->
           {"off", "starting", "on", "stopping"}]]]

Consumer == [pc : {"pop", "holder", "execute"}, dec : Decisions \cup {NoDecision}]
RouteType ==
    /\ inbox \in [Workers -> Seq(Decisions)]
    /\ consumer \in [Workers -> Consumer]
    /\ \A w \in Workers : consumer[w].pc # "pop" => consumer[w].dec \in Decisions
    /\ target \in [Decisions -> Agents \cup {NoAgent}]
    /\ reply \in [Decisions -> {"none", "not_ready", "not_running",
                                "accepted", "timeout"}]
    /\ executions \in [Decisions -> Seq(Workers)]

TaskType ==
    /\ tasks \in [Workers -> [Slots -> ActorTask]]
    /\ \A w \in Workers, s \in Slots : Good(tasks[w][s])

ShapeInv ==
    /\ CoreType
    /\ LocalType
    /\ RouteType
    /\ TaskType
    /\ ownersSince \in [Decisions -> SUBSET Workers]

-----------------------------------------------------------------------------
(* Tasks and what is made of them *)

LEMMA IdleGood == Good(IdleTask) /\ IdleTask.dec = NoDecision /\ IdleTask.pc = "idle"
<1>1. 0 \in 0..MaxCalls
  BY AgentAssumption
<1>2. IdleTask \in ActorTask
  BY <1>1 DEF IdleTask, ActorTask, Owners, Pcs
<1> QED BY <1>2 DEF Good, Shape, IdleTask, GenPcs, EnsurePcs

LEMMA IdleFields == /\ IdleTask \in ActorTask /\ IdleTask.dec = NoDecision
                    /\ IdleTask.gen = NoGen /\ IdleTask.prior = NoGen
<1> QED BY IdleGood DEF IdleTask, Good

LEMMA EnsureGood ==
  ASSUME NEW k \in {"start", "decide", "sweep", "boot"}, NEW a \in Agents
  PROVE  LET u == EnsureTask(k, a)
         IN  /\ u \in ActorTask /\ u.pc = "profile" /\ u.kind = k /\ u.agent = a
             /\ u.dec = NoDecision
             /\ k # "decide" => Good(u)
<1> DEFINE u == [IdleTask EXCEPT !.pc = "profile", !.kind = k, !.agent = a]
<1>1. u \in ActorTask /\ u.pc = "profile" /\ u.kind = k /\ u.agent = a /\ u.dec = IdleTask.dec
  <2>1. "profile" \in Pcs /\ k \in {"none", "start", "stop", "decide", "sweep", "boot", "crash"}
    BY DEF Pcs
  <2> QED BY <2>1, IdleFields, ZenonT(60) DEF ActorTask
<1>2. EnsureTask(k, a) = u
  BY DEF EnsureTask
<1> HIDE DEF u
<1>3. k # "decide" => Good(u)
  BY <1>1, IdleFields DEF Good, Shape, GenPcs, EnsurePcs
<1> QED BY <1>1, <1>2, <1>3, IdleFields

LEMMA EnsureNextGood ==
  ASSUME NEW k \in {"start", "sweep", "boot"}, NEW a \in Agents, NEW R \in SUBSET Agents
  PROVE  LET u == [EnsureTask(k, a) EXCEPT !.todo = R]
         IN  Good(u) /\ u.dec = NoDecision /\ u.pc = "profile"
<1> DEFINE v == EnsureTask(k, a)
           u == [v EXCEPT !.todo = R]
<1>1. v \in ActorTask /\ v.pc = "profile" /\ v.kind = k /\ v.agent = a /\ v.dec = NoDecision
  BY EnsureGood
<1> HIDE DEF v
<1>2. /\ u \in ActorTask /\ u.pc = v.pc /\ u.kind = v.kind /\ u.agent = v.agent
      /\ u.dec = v.dec
  BY <1>1, ZenonT(60) DEF ActorTask
<1> HIDE DEF u
<1>3. Good(u) /\ u.dec = NoDecision /\ u.pc = "profile"
  BY <1>1, <1>2 DEF Good, Shape, GenPcs, EnsurePcs
<1> QED BY <1>3 DEF u, v

LEMMA DecideGood ==
  ASSUME NEW a \in Agents, NEW d \in Decisions
  PROVE  LET u == [EnsureTask("decide", a) EXCEPT !.dec = d]
         IN  Good(u) /\ u.dec = d /\ u.agent = a /\ u.pc = "profile"
<1> DEFINE v == EnsureTask("decide", a)
           u == [v EXCEPT !.dec = d]
<1>1. v \in ActorTask /\ v.pc = "profile" /\ v.kind = "decide" /\ v.agent = a
  BY EnsureGood
<1> HIDE DEF v
<1>2. /\ u \in ActorTask /\ u.pc = v.pc /\ u.kind = v.kind /\ u.agent = v.agent
      /\ u.dec = d
  BY <1>1, ZenonT(60) DEF ActorTask
<1> HIDE DEF u
<1>3. d # NoDecision
  BY AgentAssumption
<1>4. Good(u) /\ u.dec = d /\ u.agent = a /\ u.pc = "profile"
  BY <1>1, <1>2, <1>3 DEF Good, Shape, GenPcs, EnsurePcs
<1> QED BY <1>4 DEF u, v

LEMMA StopGood ==
  ASSUME NEW a \in Agents
  PROVE  LET u == [IdleTask EXCEPT !.pc = "mark", !.kind = "stop", !.agent = a]
         IN  Good(u) /\ u.dec = NoDecision /\ u.pc = "mark"
<1> DEFINE u == [IdleTask EXCEPT !.pc = "mark", !.kind = "stop", !.agent = a]
<1>1. u \in ActorTask /\ u.pc = "mark" /\ u.kind = "stop" /\ u.agent = a /\ u.dec = IdleTask.dec
  <2>1. "mark" \in Pcs
    BY DEF Pcs
  <2> QED BY <2>1, IdleFields, ZenonT(60) DEF ActorTask
<1> HIDE DEF u
<1>2. Good(u) /\ u.dec = NoDecision /\ u.pc = "mark"
  BY <1>1, IdleFields DEF Good, Shape, GenPcs, EnsurePcs
<1> QED BY <1>2 DEF u

LEMMA CrashGood ==
  ASSUME NEW a \in Agents, NEW g \in Gens
  PROVE  LET u == [IdleTask EXCEPT !.pc = "crash", !.kind = "crash",
                                   !.agent = a, !.gen = g]
         IN  Good(u) /\ u.dec = NoDecision /\ u.pc = "crash"
<1> DEFINE u == [IdleTask EXCEPT !.pc = "crash", !.kind = "crash",
                                 !.agent = a, !.gen = g]
<1>1. /\ u \in ActorTask /\ u.pc = "crash" /\ u.kind = "crash" /\ u.agent = a
      /\ u.gen = g /\ u.dec = IdleTask.dec
  <2>1. "crash" \in Pcs
    BY DEF Pcs
  <2> QED BY <2>1, IdleFields, ZenonT(60) DEF ActorTask
<1> HIDE DEF u
<1>2. Good(u) /\ u.dec = NoDecision /\ u.pc = "crash"
  BY <1>1, IdleFields DEF Good, Shape, GenPcs, EnsurePcs
<1> QED BY <1>2 DEF u

LEMMA ScanGood ==
  ASSUME NEW k \in {"sweep", "boot"}, NEW R \in SUBSET Agents
  PROVE  LET u == [IdleTask EXCEPT !.pc = "scan", !.kind = k, !.todo = R]
         IN  Good(u) /\ u.dec = NoDecision /\ u.pc = "scan"
<1> DEFINE u == [IdleTask EXCEPT !.pc = "scan", !.kind = k, !.todo = R]
<1>1. u \in ActorTask /\ u.pc = "scan" /\ u.kind = k /\ u.dec = IdleTask.dec
  <2>1. "scan" \in Pcs
    BY DEF Pcs
  <2> QED BY <2>1, IdleFields, ZenonT(60) DEF ActorTask
<1> HIDE DEF u
<1>2. Good(u) /\ u.dec = NoDecision /\ u.pc = "scan"
  BY <1>1, IdleFields DEF Good, Shape, GenPcs, EnsurePcs
<1> QED BY <1>2 DEF u

(* What follows an ensure has an outcome and, of a decision, the decision. *)
LEMMA AfterGood ==
  ASSUME NEW t, Good(t), t.pc \in EnsurePcs, NEW o \in Owners
  PROVE  LET u == After(t, o)
         IN  /\ Good(u)
             /\ u.dec = t.dec
             /\ u.pc \in {"record", "publish", "scan", "idle"}
             /\ u.pc = "publish" => u.owner = o
             /\ u.dec # NoDecision => u.agent = t.agent
<1>0. t.agent \in Agents /\ t.kind \in {"start", "decide", "sweep", "boot"}
  BY DEF Good, Shape, EnsurePcs
<1>1. t.dec \in Decisions \cup {NoDecision} /\ t.todo \in SUBSET Agents
  BY DEF Good, ActorTask
<1>2. 0 \in 0..MaxCalls
  BY AgentAssumption
<1>3. t.kind = "decide" <=> t.dec # NoDecision
  BY DEF Good, Shape
<1>4. CASE t.kind = "start"
  <2>1. After(t, o) = [pc |-> "record", kind |-> "start", agent |-> t.agent,
            gen |-> NoGen, prior |-> NoGen, rev |-> 0, owner |-> o, todo |-> {},
            dec |-> t.dec]
    BY <1>4 DEF After, IdleTask
  <2>2. After(t, o) \in ActorTask
    BY <1>0, <1>1, <1>2, <2>1 DEF ActorTask, Pcs
  <2> QED BY <1>0, <1>3, <1>4, <2>1, <2>2 DEF Good, Shape, GenPcs, EnsurePcs
<1>5. CASE t.kind = "decide"
  <2>1. After(t, o) = [pc |-> "publish", kind |-> "decide", agent |-> t.agent,
            gen |-> NoGen, prior |-> NoGen, rev |-> 0, owner |-> o, todo |-> {},
            dec |-> t.dec]
    BY <1>5 DEF After, IdleTask
  <2>2. After(t, o) \in ActorTask
    BY <1>0, <1>1, <1>2, <2>1 DEF ActorTask, Pcs
  <2> QED BY <1>0, <1>3, <1>5, <2>1, <2>2 DEF Good, Shape, GenPcs, EnsurePcs
<1>6. CASE t.kind \in {"sweep", "boot"}
  <2>1. t.dec = NoDecision
    BY <1>3, <1>6
  <2>2. CASE t.kind = "sweep" /\ t.todo = {}
    <3>1. After(t, o) = IdleTask
      BY <2>2 DEF After
    <3> QED BY <2>1, <3>1, IdleGood
  <2>3. CASE ~(t.kind = "sweep" /\ t.todo = {})
    <3>1. After(t, o) = [IdleTask EXCEPT !.pc = "scan", !.kind = t.kind, !.todo = t.todo]
      BY <1>6, <2>3 DEF After
    <3>2. PICK k, R : k = t.kind /\ R = t.todo
      OBVIOUS
    <3> DEFINE u == [IdleTask EXCEPT !.pc = "scan", !.kind = k, !.todo = R]
    <3>3. k \in {"sweep", "boot"} /\ R \in SUBSET Agents
      BY <1>1, <1>6, <3>2
    <3>4. Good(u) /\ u.dec = NoDecision /\ u.pc = "scan"
      BY <3>3, ScanGood
    <3>5. After(t, o) = u
      BY <3>1, <3>2
    <3> HIDE DEF u
    <3> QED BY <2>1, <3>4, <3>5
  <2> QED BY <2>2, <2>3
<1> QED BY <1>0, <1>4, <1>5, <1>6

LEMMA AbandonedGood ==
  ASSUME NEW t, Good(t), t.pc \in EnsurePcs
  PROVE  LET u == Abandoned(t)
         IN  Good(u) /\ u.dec = NoDecision /\ u.pc \in {"scan", "idle", "record"}
<1>1. CASE t.kind \in {"sweep", "boot"}
  <2>1. t.dec = NoDecision
    BY <1>1 DEF Good, Shape
  <2>2. After(t, NoWorker).pc # "publish"
    BY <1>1, <2>1, AfterGood DEF Good, Shape, Owners
  <2> QED BY <1>1, <2>1, <2>2, AfterGood DEF Abandoned, Owners
<1>2. CASE t.kind \notin {"sweep", "boot"}
  BY <1>2, IdleGood DEF Abandoned
<1> QED BY <1>1, <1>2

(* A task with the profile it read. *)
LEMMA WithRev ==
  ASSUME NEW t \in ActorTask, NEW r \in 0..MaxCalls
  PROVE  LET u == [t EXCEPT !.rev = r]
         IN  /\ u \in ActorTask /\ u.rev = r
             /\ u.pc = t.pc /\ u.gen = t.gen /\ u.prior = t.prior
             /\ u.kind = t.kind /\ u.agent = t.agent /\ u.dec = t.dec
             /\ u.owner = t.owner /\ u.todo = t.todo
  BY ZenonT(60) DEF ActorTask

-----------------------------------------------------------------------------
(* Type correctness, action by action, with what a step of a task does to  *)
(* its decision and to the promises of its agent.                          *)

LEMMA SameCore ==
  ASSUME CoreType,
         UNCHANGED <<leaseVars, runRow, revision, process, calls, happened, wanted>>
  PROVE  CoreType'
  BY DEF CoreType, LeaseTypeOK, leaseVars

LEMMA SameLocal == ASSUME LocalType, UNCHANGED localState PROVE LocalType'
  BY DEF LocalType, localState

LEMMA SameRoute ==
  ASSUME RouteType, UNCHANGED <<inbox, consumer, target, reply, executions>>
  PROVE  RouteType'
  BY DEF RouteType

(* Only the replies change. *)
LEMMA ReplyRoute ==
  ASSUME RouteType, UNCHANGED <<inbox, consumer, target, executions>>,
         \/ reply' = reply
         \/ \E d \in Decisions, r \in {"not_ready", "not_running", "timeout"} :
               reply' = [reply EXCEPT ![d] = r]
  PROVE  RouteType'
  BY DEF RouteType

LEMMA NotedOwners ==
  ASSUME ShapeInv, NoteOwners, CoreType', RouteType'
  PROVE  ownersSince' \in [Decisions -> SUBSET Workers]
<1>1. \A d \in Decisions : target'[d] \in Agents \cup {NoAgent}
  BY DEF RouteType
<1>2. \A a \in Agents : leaseKey'[a] \in Workers \cup {NoWorker}
  BY DEF CoreType, LeaseTypeOK, Agents
<1>3. ownersSince \in [Decisions -> SUBSET Workers]
  BY DEF ShapeInv
<1> QED BY <1>1, <1>2, <1>3 DEF NoteOwners

LEMMA ShapeFrom ==
  ASSUME ShapeInv, NoteOwners, CoreType', LocalType', RouteType', TaskType'
  PROVE  ShapeInv'
<1>1. ownersSince' \in [Decisions -> SUBSET Workers]
  BY NotedOwners
<1> QED BY <1>1 DEF ShapeInv

LEMMA TaskAt ==
  ASSUME TaskType, NEW w \in Workers, NEW s \in Slots
  PROVE  Good(tasks[w][s]) /\ tasks[w][s] \in ActorTask /\ Shape(tasks[w][s])
  BY DEF TaskType, Good

LEMMA BecomeTasks ==
  ASSUME TaskType, NEW w \in Workers, NEW s \in Slots, NEW u, Good(u), Become(w, s, u)
  PROVE  /\ TaskType'
         /\ tasks'[w][s] = u
         /\ \A v \in Workers, r \in Slots : v # w \/ r # s => tasks'[v][r] = tasks[v][r]
<1>1. tasks \in [Workers -> [Slots -> ActorTask]] /\ u \in ActorTask
  BY DEF TaskType, Good
<1>2. /\ tasks' \in [Workers -> [Slots -> ActorTask]]
      /\ tasks'[w][s] = u
      /\ \A v \in Workers, r \in Slots : v # w \/ r # s => tasks'[v][r] = tasks[v][r]
  BY <1>1 DEF Become
<1>3. ASSUME NEW v \in Workers, NEW r \in Slots PROVE Good(tasks'[v][r])
  BY <1>2 DEF TaskType
<1>4. \A v \in Workers, r \in Slots : Good(tasks[v][r])'
  BY <1>3 DEF Good, Shape, ActorTask
<1> QED BY <1>2, <1>4 DEF TaskType

(* Steps that hold the lease for their agent. *)
LeasePcs == {"teardown", "starting"}

(* What task t of slot s in w, now u, does to its decision: it keeps it,   *)
(* or drops it with an answer; and what u has of the lease and the cache   *)
(* it has from t, or read in this step.                                    *)
Replies(t, u) ==
    \/ reply' = reply
    \/ /\ t.dec \in Decisions /\ u.dec = NoDecision
       /\ \E r \in {"not_ready", "not_running"} : reply' = [reply EXCEPT ![t.dec] = r]

Vouched(w, t, u) ==
    u.pc \in LeasePcs =>
        \/ t.pc \in LeasePcs /\ t.agent = u.agent /\ t.gen = u.gen
        \/ leaseKey'[u.agent] = w

Earned(w, t, u) ==
    /\ u.agent = t.agent
    /\ u.pc \in {"waitPrior", "checkHolder"} =>
          /\ ensureCache' = ensureCache
          /\ \/ u.prior = ensureCache[w][t.agent]
             \/ t.pc = "waitPrior" /\ u.prior = t.prior
    /\ u.pc = "join" =>
          /\ t.pc \in {"waitPrior", "checkHolder"}
          /\ u.gen = ensureCache[w][t.agent] /\ u.gen \notin {NoGen, t.prior}
    /\ u.pc = "publish" /\ u.owner = w =>
          \/ leaseKey'[t.agent] = w
          \/ t.pc = "starting"
          \/ /\ t.pc = "join"
             /\ promise[w][t.agent][t.gen].st = "done"
             /\ promise[w][t.agent][t.gen].owner = w
    /\ u.pc = "execute" => t.pc = "publish" /\ t.owner = w

Moves(w, s, u) ==
    /\ Become(w, s, u) /\ Good(u)
    /\ u.dec \in {tasks[w][s].dec, NoDecision}
    /\ Replies(tasks[w][s], u)
    /\ Vouched(w, tasks[w][s], u)
    /\ u.dec # NoDecision => Earned(w, tasks[w][s], u)

(* A promise settles for its own process only when its actor has started;  *)
(* what comes into the cache is a promise nobody has got anywhere with.    *)
PromisesKept(w, t) ==
    \A v \in Workers, a \in Agents, g \in Gens :
        \/ promise'[v][a][g] = promise[v][a][g]
        \/ ~(promise'[v][a][g].st = "done" /\ promise'[v][a][g].owner = v)
        \/ v = w /\ a = t.agent /\ g = t.gen /\ t.pc = "starting"

CacheKept ==
    \A v \in Workers, a \in Agents :
        \/ ensureCache'[v][a] \in {ensureCache[v][a], NoGen}
        \/ /\ promise'[v][a][ensureCache'[v][a]].st # "done"
           /\ \A r \in Slots :
                 tasks'[v][r].agent = a /\ tasks'[v][r].gen = ensureCache'[v][a]
                     => tasks'[v][r].pc \notin LeasePcs

StepOf(w, s) ==
    /\ \E u : Moves(w, s, u)
    /\ PromisesKept(w, tasks[w][s])
    /\ CacheKept

LEMMA SameKept ==
  ASSUME UNCHANGED <<promise, ensureCache>>, NEW w, NEW t
  PROVE  PromisesKept(w, t) /\ CacheKept
  BY DEF PromisesKept, CacheKept

LEMMA MovesTyped ==
  ASSUME ShapeInv, NEW w \in Workers, NEW s \in Slots, NEW u, Moves(w, s, u)
  PROVE  TaskType'
  BY BecomeTasks DEF ShapeInv, Moves

-----------------------------------------------------------------------------
(* The ensure *)

LEMMA AnswerReplies ==
  ASSUME NEW c, NEW t, NEW u, NEW r \in {"not_ready", "not_running"}, AnswerIf(c, t.dec, r),
         (t.dec \in Decisions /\ u.dec = NoDecision) \/ ~c
  PROVE  Replies(t, u)
  BY DEF AnswerIf, Replies

(* The new promise: t, which is at one of its first steps, builds it. *)
LEMMA NewPromiseMoves ==
  ASSUME ShapeInv, NEW w \in Workers, NEW s \in Slots, NEW t, Good(t),
         t.agent \in Agents, t.pc \in {"profile", "waitPrior", "checkHolder"},
         t.rev \in 0..MaxCalls,
         t.dec = tasks[w][s].dec, t.agent = tasks[w][s].agent,
         NewPromise(w, s, t), reply' = reply
  PROVE  /\ StepOf(w, s)
         /\ promise' \in [Workers -> [Agents -> [Gens -> Promise]]]
         /\ ensureCache' \in [Workers -> [Agents -> Gens \cup {NoGen}]]
         /\ happened' \in {happened, happened \cup {"overlap"}}
<1> DEFINE a == t.agent
           P(g) == [h \in Gens |->
                   IF h = g THEN [st |-> "pending", owner |-> NoWorker, rev |-> t.rev]
                   ELSE IF h \in FreeGens(w, s, a) THEN NoPromise
                   ELSE promise[w][a][h]]
           U(g) == [t EXCEPT !.pc = "acquire", !.gen = g, !.prior = NoGen]
<1>1. PICK g \in FreeGens(w, s, a) :
         /\ promise' = [promise EXCEPT ![w][a] = P(g)]
         /\ ensureCache' = [ensureCache EXCEPT ![w][a] = g]
         /\ Become(w, s, U(g))
         /\ happened' \in {happened, happened \cup {"overlap"}}
  BY DEF NewPromise
<1>2. g \in Gens /\ a \in Agents
  BY DEF FreeGens
<1>3. U(g) \in ActorTask /\ U(g).pc = "acquire" /\ U(g).gen = g /\ U(g).prior = NoGen
      /\ U(g).kind = t.kind /\ U(g).agent = a /\ U(g).dec = t.dec
  <2>1. "acquire" \in Pcs /\ t \in ActorTask /\ NoGen \in Gens \cup {NoGen}
    BY DEF Pcs, Good
  <2>2. g \in Gens \cup {NoGen}
    BY <1>2
  <2> QED BY <2>1, <2>2, ZenonT(60) DEF ActorTask
<1>4. PICK u : u = U(g)
  OBVIOUS
<1>5. Good(u)
  BY <1>2, <1>3, <1>4 DEF Good, Shape, GenPcs, EnsurePcs
<1> HIDE DEF U
<1>6. /\ TaskType' /\ tasks'[w][s] = u
      /\ \A v \in Workers, r \in Slots : v # w \/ r # s => tasks'[v][r] = tasks[v][r]
  BY <1>1, <1>4, <1>5, BecomeTasks DEF ShapeInv
<1>7. /\ promise \in [Workers -> [Agents -> [Gens -> Promise]]]
      /\ ensureCache \in [Workers -> [Agents -> Gens \cup {NoGen}]]
  BY DEF ShapeInv, LocalType
<1>8. P(g) \in [Gens -> Promise]
  <2>1. [st |-> "pending", owner |-> NoWorker, rev |-> t.rev] \in Promise
    BY DEF Promise, Owners
  <2>2. NoPromise \in Promise
    BY AgentAssumption DEF NoPromise, Promise, Owners
  <2>3. promise[w][a] \in [Gens -> Promise]
    BY <1>2, <1>7
  <2> QED BY <2>1, <2>2, <2>3
<1>9. \A h \in Gens : P(g)[h] = promise[w][a][h] \/ P(g)[h].st # "done"
  BY DEF NoPromise
<1>10. P(g)[g].st # "done"
  BY <1>2
<1> HIDE DEF P
<1>11. promise' \in [Workers -> [Agents -> [Gens -> Promise]]]
  BY <1>1, <1>2, <1>7, <1>8
<1>12. ensureCache' \in [Workers -> [Agents -> Gens \cup {NoGen}]]
  BY <1>1, <1>2, <1>7
<1>13. /\ promise'[w][a] = P(g)
       /\ \A v \in Workers, b \in Agents : v # w \/ b # a => promise'[v][b] = promise[v][b]
  BY <1>1, <1>2, <1>7
<1>14. /\ ensureCache'[w][a] = g
       /\ \A v \in Workers, b \in Agents :
             v # w \/ b # a => ensureCache'[v][b] = ensureCache[v][b]
  BY <1>1, <1>2, <1>7
<1>15. PromisesKept(w, tasks[w][s])
  BY <1>9, <1>13 DEF PromisesKept
<1>16. CacheKept
  <2>1. ASSUME NEW r \in Slots, tasks'[w][r].agent = a, tasks'[w][r].gen = g
        PROVE  tasks'[w][r].pc \notin LeasePcs
    <3>1. r = s
      BY <1>1, <1>6, <2>1 DEF FreeGens
    <3> QED BY <1>3, <1>4, <1>6, <3>1 DEF LeasePcs
  <2> QED BY <1>10, <1>13, <1>14, <2>1 DEF CacheKept
<1>17. Moves(w, s, u)
  BY <1>1, <1>3, <1>4, <1>5 DEF Moves, Replies, Vouched, Earned, LeasePcs
<1> QED BY <1>1, <1>11, <1>12, <1>15, <1>16, <1>17 DEF StepOf

(* Only the task, the cache and the promises of an agent change. *)
LEMMA LookShape ==
  ASSUME ShapeInv, NEW w \in Workers, NEW s \in Slots, StepOf(w, s), NoteOwners,
         promise' \in [Workers -> [Agents -> [Gens -> Promise]]],
         ensureCache' \in [Workers -> [Agents -> Gens \cup {NoGen}]],
         happened' \in {happened, happened \cup {"overlap"}},
         UNCHANGED <<leaseVars, runRow, revision, process, registry, actor,
                     routing, calls, wanted>>
  PROVE  ShapeInv'
<1>1. CoreType'
  BY DEF ShapeInv, CoreType, LeaseTypeOK, leaseVars, Races
<1>2. LocalType'
  BY DEF ShapeInv, LocalType
<1>3. RouteType'
  BY SameRoute DEF ShapeInv, routing
<1>4. TaskType'
  BY MovesTyped DEF StepOf
<1> QED BY <1>1, <1>2, <1>3, <1>4, ShapeFrom

LEMMA ReadProfileShape ==
  ASSUME ShapeInv, NEW w \in Workers, NEW s \in Slots, ReadProfile(w, s)
  PROVE  ShapeInv' /\ StepOf(w, s)
<1> DEFINE t == [tasks[w][s] EXCEPT !.rev = revision[tasks[w][s].agent]]
           cached == ensureCache[w][t.agent]
           v == [t EXCEPT !.pc = "waitPrior", !.prior = cached]
<1>1. Good(tasks[w][s]) /\ tasks[w][s].pc = "profile" /\ tasks[w][s].agent \in Agents
      /\ tasks[w][s] \in ActorTask
  BY TaskAt DEF ReadProfile, At, ShapeInv, Good, Shape
<1>2. revision[tasks[w][s].agent] \in 0..MaxCalls
  BY <1>1 DEF ShapeInv, CoreType
<1>3. /\ t \in ActorTask /\ t.pc = "profile" /\ t.agent = tasks[w][s].agent
      /\ t.dec = tasks[w][s].dec /\ t.kind = tasks[w][s].kind /\ t.gen = tasks[w][s].gen
      /\ t.prior = tasks[w][s].prior /\ t.rev \in 0..MaxCalls
  BY <1>1, <1>2, WithRev
<1>4. /\ IF cached # NoGen
         THEN /\ Become(w, s, v)
              /\ UNCHANGED <<promise, ensureCache, happened>>
         ELSE NewPromise(w, s, t)
      /\ UNCHANGED <<leaseVars, runRow, revision, process, registry, actor,
                     routing, calls, wanted>>
      /\ NoteOwners
  BY DEF ReadProfile
<1> HIDE DEF t
<1>5. Good(t)
  BY <1>1, <1>3 DEF Good, Shape, GenPcs, EnsurePcs
<1>6. cached \in Gens \cup {NoGen}
  BY <1>1, <1>3 DEF ShapeInv, LocalType
<1>7. CASE cached # NoGen
  <2>1. PICK u : u = v
    OBVIOUS
  <2>2. /\ u \in ActorTask /\ u.pc = "waitPrior" /\ u.prior = cached /\ u.gen = t.gen
        /\ u.kind = t.kind /\ u.agent = t.agent /\ u.dec = t.dec
    <3>1. "waitPrior" \in Pcs
      BY DEF Pcs
    <3> HIDE DEF cached
    <3> QED BY <1>3, <1>6, <2>1, <3>1, ZenonT(60) DEF ActorTask
  <2> HIDE DEF v
  <2>3. Good(u)
    BY <1>5, <1>6, <1>7, <1>3, <2>2 DEF Good, Shape, GenPcs, EnsurePcs
  <2>4. Moves(w, s, u)
    BY <1>3, <1>4, <1>7, <2>1, <2>2, <2>3
       DEF Moves, Replies, Vouched, Earned, LeasePcs, routing
  <2>5. TaskType' /\ StepOf(w, s)
    BY <1>4, <1>7, <2>4, MovesTyped, SameKept DEF StepOf
  <2> QED BY <1>4, <1>7, <2>5, SameCore, SameLocal, SameRoute, ShapeFrom
          DEF ShapeInv, localState, routing
<1>8. CASE cached = NoGen
  <2>1. /\ StepOf(w, s)
        /\ promise' \in [Workers -> [Agents -> [Gens -> Promise]]]
        /\ ensureCache' \in [Workers -> [Agents -> Gens \cup {NoGen}]]
        /\ happened' \in {happened, happened \cup {"overlap"}}
    BY <1>1, <1>3, <1>4, <1>5, <1>8, NewPromiseMoves DEF routing
  <2> QED BY <1>4, <2>1, LookShape
<1> QED BY <1>7, <1>8

(* A cached promise was not good enough for t. *)
LEMMA ReconstructMoves ==
  ASSUME ShapeInv, NEW w \in Workers, NEW s \in Slots, NEW t, t = tasks[w][s],
         t.pc \in {"waitPrior", "checkHolder"}, Reconstruct(w, s, t), reply' = reply
  PROVE  /\ StepOf(w, s)
         /\ promise' \in [Workers -> [Agents -> [Gens -> Promise]]]
         /\ ensureCache' \in [Workers -> [Agents -> Gens \cup {NoGen}]]
         /\ happened' \in {happened, happened \cup {"overlap"}}
<1> DEFINE current == ensureCache[w][t.agent]
           v == [t EXCEPT !.pc = "join", !.gen = current, !.prior = NoGen]
<1>1. /\ Good(t) /\ t \in ActorTask /\ t.agent \in Agents /\ t.rev \in 0..MaxCalls
      /\ t.kind \in {"start", "decide", "sweep", "boot"}
  <2>1. Good(t) /\ t \in ActorTask /\ Shape(t)
    BY TaskAt DEF ShapeInv
  <2> QED BY <2>1 DEF Shape, ActorTask, EnsurePcs
<1>2. /\ promise \in [Workers -> [Agents -> [Gens -> Promise]]]
      /\ ensureCache \in [Workers -> [Agents -> Gens \cup {NoGen}]]
  BY DEF ShapeInv, LocalType
<1>3. CASE current # NoGen /\ current # t.prior
  <2>1. Become(w, s, v) /\ UNCHANGED <<promise, ensureCache, happened>>
    BY <1>3 DEF Reconstruct
  <2>2. current \in Gens
    BY <1>1, <1>2, <1>3
  <2>3. PICK u : u = v
    OBVIOUS
  <2>4. /\ u \in ActorTask /\ u.pc = "join" /\ u.gen = current /\ u.prior = NoGen
        /\ u.kind = t.kind /\ u.agent = t.agent /\ u.dec = t.dec
    <3>1. "join" \in Pcs /\ current \in Gens \cup {NoGen}
      BY <2>2 DEF Pcs
    <3> HIDE DEF current
    <3> QED BY <1>1, <2>3, <3>1, ZenonT(60) DEF ActorTask
  <2> HIDE DEF v
  <2>5. Good(u)
    BY <1>1, <2>2, <2>4 DEF Good, Shape, GenPcs, EnsurePcs
  <2>6. Moves(w, s, u)
    BY <1>3, <2>1, <2>3, <2>4, <2>5 DEF Moves, Replies, Vouched, Earned, LeasePcs
  <2> QED BY <1>2, <2>1, <2>6, SameKept DEF StepOf
<1>4. CASE ~(current # NoGen /\ current # t.prior)
  <2>1. NewPromise(w, s, t)
    BY <1>4 DEF Reconstruct
  <2> QED BY <1>1, <2>1, NewPromiseMoves
<1> QED BY <1>3, <1>4

(* The cached promise has settled, and is worth a look at the lease or not. *)
LEMMA PriorSettledShape ==
  ASSUME ShapeInv, NEW w \in Workers, NEW s \in Slots, PriorSettled(w, s)
  PROVE  ShapeInv' /\ StepOf(w, s)
<1>1. PICK t : t = tasks[w][s]
  OBVIOUS
<1>2. /\ t.pc = "waitPrior"
      /\ \/ /\ Become(w, s, [t EXCEPT !.pc = "checkHolder"])
            /\ UNCHANGED <<promise, ensureCache, happened>>
         \/ Reconstruct(w, s, t)
      /\ UNCHANGED <<leaseVars, runRow, revision, process, registry, actor,
                     routing, calls, wanted>>
      /\ NoteOwners
  BY <1>1 DEF PriorSettled, At
<1>3. Good(t) /\ t \in ActorTask
  BY <1>1, TaskAt DEF ShapeInv
<1>4. reply' = reply
  BY <1>2 DEF routing
<1>5. CASE /\ Become(w, s, [t EXCEPT !.pc = "checkHolder"])
           /\ UNCHANGED <<promise, ensureCache, happened>>
  <2>1. PICK u : u = [t EXCEPT !.pc = "checkHolder"]
    OBVIOUS
  <2>2. /\ u \in ActorTask /\ u.pc = "checkHolder" /\ u.prior = t.prior /\ u.gen = t.gen
        /\ u.kind = t.kind /\ u.agent = t.agent /\ u.dec = t.dec
    <3>1. "checkHolder" \in Pcs
      BY DEF Pcs
    <3> QED BY <1>3, <2>1, <3>1, ZenonT(60) DEF ActorTask
  <2>3. Good(u)
    BY <1>2, <1>3, <2>2 DEF Good, Shape, GenPcs, EnsurePcs
  <2>4. Become(w, s, u)
    BY <1>5, <2>1
  <2>5. Moves(w, s, u)
    BY <1>1, <1>2, <1>4, <1>5, <2>2, <2>3, <2>4
       DEF Moves, Replies, Vouched, Earned, LeasePcs
  <2>6. StepOf(w, s)
    BY <1>5, <2>5, SameKept DEF StepOf
  <2>7. /\ promise' \in [Workers -> [Agents -> [Gens -> Promise]]]
        /\ ensureCache' \in [Workers -> [Agents -> Gens \cup {NoGen}]]
    BY <1>5 DEF ShapeInv, LocalType
  <2> QED BY <1>2, <1>5, <2>6, <2>7, LookShape
<1>6. CASE Reconstruct(w, s, t)
  BY <1>1, <1>2, <1>4, <1>6, ReconstructMoves, LookShape
<1> QED BY <1>2, <1>5, <1>6

(* The fast path: what follows the ensure has this process as the owner,   *)
(* and this process holds the lease.                                       *)
LEMMA CheckHolderShape ==
  ASSUME ShapeInv, NEW w \in Workers, NEW s \in Slots, CheckHolder(w, s)
  PROVE  ShapeInv' /\ StepOf(w, s)
<1>1. PICK t : t = tasks[w][s]
  OBVIOUS
<1>2. /\ t.pc = "checkHolder"
      /\ \/ /\ leaseKey[t.agent] = w
            /\ Become(w, s, After(t, w))
            /\ UNCHANGED <<promise, ensureCache, happened>>
         \/ Reconstruct(w, s, t)
      /\ UNCHANGED <<leaseVars, runRow, revision, process, registry, actor,
                     routing, calls, wanted>>
      /\ NoteOwners
  BY <1>1 DEF CheckHolder, At, StillOwner
<1>3. Good(t) /\ t \in ActorTask /\ t.agent \in Agents
  BY <1>1, <1>2, TaskAt DEF ShapeInv, Shape
<1>4. reply' = reply /\ leaseKey' = leaseKey
  BY <1>2 DEF routing, leaseVars
<1>5. CASE /\ leaseKey[t.agent] = w
           /\ Become(w, s, After(t, w))
           /\ UNCHANGED <<promise, ensureCache, happened>>
  <2>1. PICK u : u = After(t, w)
    OBVIOUS
  <2>2. /\ Good(u) /\ u.dec = t.dec
        /\ u.pc \in {"record", "publish", "scan", "idle"}
        /\ u.pc = "publish" => u.owner = w
        /\ u.dec # NoDecision => u.agent = t.agent
    BY <1>2, <1>3, <2>1, AfterGood DEF Owners, EnsurePcs
  <2>3. Moves(w, s, u)
    BY <1>1, <1>4, <1>5, <2>1, <2>2 DEF Moves, Replies, Vouched, Earned, LeasePcs
  <2>4. StepOf(w, s)
    BY <1>5, <2>3, SameKept DEF StepOf
  <2>5. /\ promise' \in [Workers -> [Agents -> [Gens -> Promise]]]
        /\ ensureCache' \in [Workers -> [Agents -> Gens \cup {NoGen}]]
    BY <1>5 DEF ShapeInv, LocalType
  <2> QED BY <1>2, <1>5, <2>4, <2>5, LookShape
<1>6. CASE Reconstruct(w, s, t)
  BY <1>1, <1>2, <1>4, <1>6, ReconstructMoves, LookShape
<1> QED BY <1>2, <1>5, <1>6

LEMMA StepRoute ==
  ASSUME ShapeInv, NEW w \in Workers, NEW s \in Slots, StepOf(w, s),
         UNCHANGED <<inbox, consumer, target, executions>>
  PROVE  RouteType'
  BY ReplyRoute DEF ShapeInv, StepOf, Moves, Replies

(* Without a profile the ensure rejects at once. *)
LEMMA ProfileMissingShape ==
  ASSUME ShapeInv, NEW w \in Workers, NEW s \in Slots, ProfileMissing(w, s)
  PROVE  ShapeInv' /\ StepOf(w, s)
<1>1. PICK t : t = tasks[w][s]
  OBVIOUS
<1>2. /\ t.pc = "profile"
      /\ Fault("start")
      /\ Become(w, s, Abandoned(t))
      /\ AnswerIf(t.kind = "decide", t.dec, "not_ready")
      /\ UNCHANGED <<leaseVars, runRow, revision, process, localState, inbox,
                     consumer, target, executions, calls, wanted>>
      /\ NoteOwners
  BY <1>1 DEF ProfileMissing, At
<1>3. Good(t)
  BY <1>1, TaskAt DEF ShapeInv
<1>4. PICK u : u = Abandoned(t)
  OBVIOUS
<1>5. Good(u) /\ u.dec = NoDecision /\ u.pc \in {"scan", "idle", "record"}
  BY <1>2, <1>3, <1>4, AbandonedGood DEF EnsurePcs
<1>6. t.dec \in Decisions \/ t.kind # "decide"
  BY <1>3 DEF Good, Shape, ActorTask
<1>7. Replies(t, u)
  BY <1>2, <1>5, <1>6, AnswerReplies
<1>8. Moves(w, s, u)
  BY <1>1, <1>2, <1>4, <1>5, <1>7 DEF Moves, Vouched, LeasePcs
<1>9. StepOf(w, s)
  BY <1>2, <1>8, SameKept DEF StepOf, localState
<1>10. CoreType'
  BY <1>2 DEF ShapeInv, CoreType, LeaseTypeOK, leaseVars, Fault, MayFail
<1>11. LocalType' /\ TaskType' /\ RouteType'
  BY <1>2, <1>8, <1>9, SameLocal, MovesTyped, StepRoute DEF ShapeInv
<1> QED BY <1>2, <1>9, <1>10, <1>11, ShapeFrom

(* The promise that was joined has settled. *)
LEMMA JoinSettledShape ==
  ASSUME ShapeInv, NEW w \in Workers, NEW s \in Slots, JoinSettled(w, s)
  PROVE  ShapeInv' /\ StepOf(w, s)
<1>1. PICK t, p : t = tasks[w][s] /\ p = promise[w][t.agent][t.gen]
  OBVIOUS
<1>2. /\ t.pc = "join"
      /\ \/ /\ p.st = "done"
            /\ Become(w, s, After(t, p.owner))
            /\ UNCHANGED reply
         \/ /\ Become(w, s, Abandoned(t))
            /\ AnswerIf(t.kind = "decide", t.dec, "not_ready")
      /\ UNCHANGED <<leaseVars, runRow, revision, process, localState, inbox,
                     consumer, target, executions, calls, happened, wanted>>
      /\ NoteOwners
  BY <1>1 DEF JoinSettled, At
<1>3. Good(t) /\ t.agent \in Agents /\ t.gen \in Gens
  BY <1>1, <1>2, TaskAt DEF ShapeInv, Shape, GenPcs
<1>4. p.owner \in Owners
  <2>1. p \in Promise
    BY <1>1, <1>3 DEF ShapeInv, LocalType
  <2> QED BY <2>1 DEF Promise
<1>5. \E u : Moves(w, s, u)
  <2>1. CASE p.st = "done" /\ Become(w, s, After(t, p.owner)) /\ UNCHANGED reply
    <3>1. PICK u : u = After(t, p.owner)
      OBVIOUS
    <3>2. /\ Good(u) /\ u.dec = t.dec
          /\ u.pc \in {"record", "publish", "scan", "idle"}
          /\ u.pc = "publish" => u.owner = p.owner
          /\ u.dec # NoDecision => u.agent = t.agent
      BY <1>2, <1>3, <1>4, <3>1, AfterGood DEF EnsurePcs
    <3>3. Moves(w, s, u)
      BY <1>1, <1>2, <2>1, <3>1, <3>2 DEF Moves, Replies, Vouched, Earned, LeasePcs
    <3> QED BY <3>3
  <2>2. CASE Become(w, s, Abandoned(t)) /\ AnswerIf(t.kind = "decide", t.dec, "not_ready")
    <3>1. PICK u : u = Abandoned(t)
      OBVIOUS
    <3>2. Good(u) /\ u.dec = NoDecision /\ u.pc \in {"scan", "idle", "record"}
      BY <1>2, <1>3, <3>1, AbandonedGood DEF EnsurePcs
    <3>3. t.dec \in Decisions \/ t.kind # "decide"
      BY <1>3 DEF Good, Shape, ActorTask
    <3>4. Replies(t, u)
      BY <2>2, <3>2, <3>3, AnswerReplies
    <3>5. Moves(w, s, u)
      BY <1>1, <2>2, <3>1, <3>2, <3>4 DEF Moves, Vouched, LeasePcs
    <3> QED BY <3>5
  <2> QED BY <1>2, <2>1, <2>2
<1>6. StepOf(w, s)
  BY <1>2, <1>5, SameKept DEF StepOf, localState
<1>7. CoreType' /\ LocalType' /\ TaskType' /\ RouteType'
  BY <1>2, <1>5, <1>6, SameCore, SameLocal, MovesTyped, StepRoute DEF ShapeInv
<1> QED BY <1>2, <1>6, <1>7, ShapeFrom

(* A promise settles; with its own process only when the actor started.    *)
LEMMA SettleMoves ==
  ASSUME ShapeInv, NEW w \in Workers, NEW s \in Slots, NEW t, t = tasks[w][s],
         t.pc \in {"acquire", "holder", "starting", "release"},
         NEW p, Settle(w, s, t, p),
         p = Rejected \/ \E o \in Owners : p = Resolved(o) /\ (o = w => t.pc = "starting")
  PROVE  /\ StepOf(w, s)
         /\ promise' \in [Workers -> [Agents -> [Gens -> Promise]]]
         /\ ensureCache' \in [Workers -> [Agents -> Gens \cup {NoGen}]]
<1>1. Good(t) /\ t.agent \in Agents /\ t.gen \in Gens
  BY TaskAt DEF ShapeInv, Shape, GenPcs
<1>2. /\ promise \in [Workers -> [Agents -> [Gens -> Promise]]]
      /\ ensureCache \in [Workers -> [Agents -> Gens \cup {NoGen}]]
  BY DEF ShapeInv, LocalType
<1>3. PICK r, q : r = promise[w][t.agent][t.gen].rev /\ q = [p EXCEPT !.rev = r]
  OBVIOUS
<1>4. r \in 0..MaxCalls
  <2>1. promise[w][t.agent][t.gen] \in Promise
    BY <1>1, <1>2
  <2> QED BY <1>3, <2>1 DEF Promise
<1>5. q = [st |-> p.st, owner |-> p.owner, rev |-> r]
  BY <1>3 DEF Rejected, Resolved
<1>6. p.owner \in Owners /\ p.st \in {"done", "failed"}
  BY DEF Rejected, Resolved, Owners
<1>7. q \in Promise
  BY <1>4, <1>5, <1>6 DEF Promise
<1>8. promise' = [promise EXCEPT ![w][t.agent][t.gen] = q]
  BY <1>3 DEF Settle
<1>9. /\ promise' \in [Workers -> [Agents -> [Gens -> Promise]]]
      /\ promise'[w][t.agent][t.gen] = q
      /\ \A v \in Workers, a \in Agents, g \in Gens :
            v # w \/ a # t.agent \/ g # t.gen => promise'[v][a][g] = promise[v][a][g]
  BY <1>1, <1>2, <1>7, <1>8
<1>10. PromisesKept(w, t)
  <2>1. ~(q.st = "done" /\ q.owner = w) \/ t.pc = "starting"
    BY <1>5 DEF Rejected, Resolved
  <2> QED BY <1>9, <2>1 DEF PromisesKept
<1>11. /\ ensureCache' \in [Workers -> [Agents -> Gens \cup {NoGen}]]
       /\ CacheKept
  <2>1. \/ ensureCache' = [ensureCache EXCEPT ![w][t.agent] = NoGen]
        \/ ensureCache' = ensureCache
    BY DEF Settle
  <2>2. /\ ensureCache' \in [Workers -> [Agents -> Gens \cup {NoGen}]]
        /\ \A v \in Workers, a \in Agents :
              ensureCache'[v][a] = ensureCache[v][a] \/ ensureCache'[v][a] = NoGen
    <3>1. CASE ensureCache' = ensureCache
      BY <1>2, <3>1
    <3>2. CASE ensureCache' = [ensureCache EXCEPT ![w][t.agent] = NoGen]
      BY <1>1, <1>2, <3>2
    <3> QED BY <2>1, <3>1, <3>2
  <2>3. CacheKept
    BY <2>2, Zenon DEF CacheKept
  <2> QED BY <2>2, <2>3
<1>12. \E u : Moves(w, s, u)
  <2>1. CASE p.st = "failed"
    <3>1. PICK u : u = Abandoned(t)
      OBVIOUS
    <3>2. Good(u) /\ u.dec = NoDecision /\ u.pc \in {"scan", "idle", "record"}
      BY <1>1, <3>1, AbandonedGood DEF EnsurePcs
    <3>3. t.dec \in Decisions \/ t.kind # "decide"
      BY <1>1 DEF Good, Shape, ActorTask
    <3>4. Become(w, s, u) /\ ((AnswerIf(TRUE, t.dec, "not_ready") /\ t.kind = "decide") \/ reply' = reply)
      BY <2>1, <3>1 DEF Settle
    <3>5. Replies(t, u)
      <4>1. CASE reply' = reply
        BY <4>1 DEF Replies
      <4>2. CASE AnswerIf(TRUE, t.dec, "not_ready") /\ t.kind = "decide"
        BY <3>2, <3>3, <4>2, AnswerReplies
      <4> QED BY <3>4, <4>1, <4>2
    <3>6. Moves(w, s, u)
      BY <3>2, <3>4, <3>5 DEF Moves, Vouched, LeasePcs
    <3> QED BY <3>6
  <2>2. CASE p.st # "failed"
    <3>1. PICK u : u = After(t, p.owner)
      OBVIOUS
    <3>2. /\ Good(u) /\ u.dec = t.dec
          /\ u.pc \in {"record", "publish", "scan", "idle"}
          /\ u.pc = "publish" => u.owner = p.owner
          /\ u.dec # NoDecision => u.agent = t.agent
      BY <1>1, <1>6, <3>1, AfterGood DEF EnsurePcs
    <3>3. Become(w, s, u) /\ reply' = reply
      BY <2>2, <3>1 DEF Settle
    <3>4. p.owner = w => t.pc = "starting"
      BY <2>2 DEF Rejected, Resolved
    <3>5. Moves(w, s, u)
      BY <3>2, <3>3, <3>4 DEF Moves, Replies, Vouched, Earned, LeasePcs
    <3> QED BY <3>5
  <2> QED BY <2>1, <2>2
<1> QED BY <1>9, <1>10, <1>11, <1>12 DEF StepOf

-----------------------------------------------------------------------------
(* The promise itself *)

LEMMA ActorType ==
  ASSUME ShapeInv, NEW w \in Workers, NEW a \in Agents, NEW g \in Gens,
         actor' = actor \/ \E p \in {"off", "starting", "on", "stopping"} : SetActor(w, a, g, p)
  PROVE  actor' \in [Workers -> [Agents -> [Gens -> {"off", "starting", "on", "stopping"}]]]
<1>1. actor \in [Workers -> [Agents -> [Gens -> {"off", "starting", "on", "stopping"}]]]
  BY DEF ShapeInv, LocalType
<1>2. CASE actor' = actor
  BY <1>1, <1>2
<1>3. ASSUME NEW p \in {"off", "starting", "on", "stopping"}, SetActor(w, a, g, p)
      PROVE  actor' \in [Workers -> [Agents -> [Gens -> {"off", "starting", "on", "stopping"}]]]
  BY <1>1, <1>3 DEF SetActor
<1> QED BY <1>2, <1>3

(* With the lease: the previous actor is torn down, or a new one starts. *)
LEMMA ConstructMoves ==
  ASSUME ShapeInv, NEW w \in Workers, NEW s \in Slots, NEW t, t = tasks[w][s],
         t.pc \in {"acquire", "holder"}, Construct(w, s, t),
         leaseKey'[t.agent] = w, UNCHANGED <<promise, ensureCache, reply>>
  PROVE  StepOf(w, s) /\ LocalType'
<1> DEFINE previous == registry[w][t.agent]
<1>1. Good(t) /\ t \in ActorTask /\ t.agent \in Agents /\ t.gen \in Gens
  BY TaskAt DEF ShapeInv, Shape, GenPcs
<1>2. previous \in Gens \cup {NoGen}
  BY <1>1 DEF ShapeInv, LocalType
<1>3. CASE previous # NoGen
  <2>1. PICK u : u = [t EXCEPT !.pc = "teardown", !.prior = previous]
    OBVIOUS
  <2>2. /\ Become(w, s, u)
        /\ actor' = actor \/ SetActor(w, t.agent, previous, "stopping")
        /\ registry' = registry
    BY <1>3, <2>1 DEF Construct
  <2>3. /\ u \in ActorTask /\ u.pc = "teardown" /\ u.prior = previous /\ u.gen = t.gen
        /\ u.kind = t.kind /\ u.agent = t.agent /\ u.dec = t.dec
    <3>1. "teardown" \in Pcs
      BY DEF Pcs
    <3> HIDE DEF previous
    <3> QED BY <1>1, <1>2, <2>1, <3>1, ZenonT(60) DEF ActorTask
  <2>4. Good(u)
    BY <1>1, <1>2, <1>3, <2>3 DEF Good, Shape, GenPcs, EnsurePcs
  <2>5. Moves(w, s, u)
    BY <2>2, <2>3, <2>4 DEF Moves, Replies, Vouched, Earned, LeasePcs
  <2>6. LocalType'
    <3>1. actor' \in [Workers -> [Agents -> [Gens -> {"off", "starting", "on", "stopping"}]]]
      BY <1>1, <1>2, <1>3, <2>2, ActorType
    <3> QED BY <2>2, <3>1 DEF ShapeInv, LocalType
  <2> QED BY <2>5, <2>6, SameKept DEF StepOf
<1>4. CASE previous = NoGen
  <2>1. PICK u : u = [t EXCEPT !.pc = "starting"]
    OBVIOUS
  <2>2. /\ Become(w, s, u)
        /\ Register(w, t.agent, t.gen)
        /\ SetActor(w, t.agent, t.gen, "starting")
    BY <1>4, <2>1 DEF Construct
  <2>3. /\ u \in ActorTask /\ u.pc = "starting" /\ u.gen = t.gen
        /\ u.kind = t.kind /\ u.agent = t.agent /\ u.dec = t.dec
    <3>1. "starting" \in Pcs
      BY DEF Pcs
    <3> QED BY <1>1, <2>1, <3>1, ZenonT(60) DEF ActorTask
  <2>4. Good(u)
    BY <1>1, <2>3 DEF Good, Shape, GenPcs, EnsurePcs
  <2>5. Moves(w, s, u)
    BY <2>2, <2>3, <2>4 DEF Moves, Replies, Vouched, Earned, LeasePcs
  <2>6. LocalType'
    BY <1>1, <2>2 DEF ShapeInv, LocalType, SetActor, Register
  <2> QED BY <2>5, <2>6, SameKept DEF StepOf
<1> QED BY <1>3, <1>4

(* SET ... NX: it is ours, or the key exists, or the command was rejected. *)
LEMMA TakeLeaseShape ==
  ASSUME ShapeInv, NEW w \in Workers, NEW s \in Slots, TakeLease(w, s)
  PROVE  ShapeInv' /\ StepOf(w, s)
<1>1. PICK t : t = tasks[w][s]
  OBVIOUS
<1>2. t.pc = "acquire" /\ NoteOwners
      /\ UNCHANGED <<runRow, revision, process, inbox, consumer, target,
                     executions, calls, wanted>>
  BY <1>1 DEF TakeLease, At
<1>3. Good(t) /\ t \in ActorTask /\ t.agent \in Agents /\ t.gen \in Gens
  BY <1>1, <1>2, TaskAt DEF ShapeInv, Shape, GenPcs
<1>4. /\ leaseKey \in [Agents -> Workers \cup {NoWorker}]
      /\ renewTimers \in [Workers -> SUBSET Agents]
  BY DEF ShapeInv, CoreType, LeaseTypeOK, Agents
<1>5. CASE /\ Acquire(w, t.agent)
           /\ Construct(w, s, t)
           /\ UNCHANGED <<promise, ensureCache, reply, happened>>
  <2>1. leaseKey'[t.agent] = w
    BY <1>3, <1>4, <1>5 DEF Acquire
  <2>2. StepOf(w, s) /\ LocalType'
    BY <1>1, <1>2, <1>5, <2>1, ConstructMoves
  <2>3. LeaseTypeOK'
    BY <1>3, <1>4, <1>5 DEF Acquire, LeaseTypeOK, Agents
  <2>4. CoreType'
    BY <1>2, <1>5, <2>3 DEF ShapeInv, CoreType
  <2>5. TaskType' /\ RouteType'
    BY <1>2, <2>2, MovesTyped, StepRoute DEF StepOf
  <2> QED BY <1>2, <2>2, <2>4, <2>5, ShapeFrom
<1>6. CASE /\ AcquireRefused(t.agent)
           /\ Become(w, s, [t EXCEPT !.pc = "holder"])
           /\ UNCHANGED <<localState, reply, happened>>
  <2>1. PICK u : u = [t EXCEPT !.pc = "holder"]
    OBVIOUS
  <2>2. /\ u \in ActorTask /\ u.pc = "holder" /\ u.gen = t.gen
        /\ u.kind = t.kind /\ u.agent = t.agent /\ u.dec = t.dec
    <3>1. "holder" \in Pcs
      BY DEF Pcs
    <3> QED BY <1>3, <2>1, <3>1, ZenonT(60) DEF ActorTask
  <2>3. Good(u)
    BY <1>2, <1>3, <2>2 DEF Good, Shape, GenPcs, EnsurePcs
  <2>4. Become(w, s, u)
    BY <1>6, <2>1
  <2>5. Moves(w, s, u)
    BY <1>1, <1>6, <2>2, <2>3, <2>4 DEF Moves, Replies, Vouched, Earned, LeasePcs
  <2>6. StepOf(w, s)
    BY <1>6, <2>5, SameKept DEF StepOf, localState
  <2>7. CoreType' /\ LocalType' /\ TaskType' /\ RouteType'
    BY <1>2, <1>6, <2>5, <2>6, SameCore, SameLocal, MovesTyped, StepRoute
       DEF ShapeInv, AcquireRefused
  <2> QED BY <1>2, <2>6, <2>7, ShapeFrom
<1>7. CASE /\ Fault("acquire")
           /\ AcquireRejected(w, t.agent)
           /\ Settle(w, s, t, Rejected)
           /\ UNCHANGED <<registry, actor>>
  <2>1. /\ StepOf(w, s)
        /\ promise' \in [Workers -> [Agents -> [Gens -> Promise]]]
        /\ ensureCache' \in [Workers -> [Agents -> Gens \cup {NoGen}]]
    BY <1>1, <1>2, <1>7, SettleMoves
  <2>2. LocalType'
    BY <1>7, <2>1 DEF ShapeInv, LocalType
  <2>3. LeaseTypeOK'
    BY <1>3, <1>4, <1>7 DEF AcquireRejected, LeaseTypeOK, Agents
  <2>4. CoreType'
    BY <1>2, <1>7, <2>3 DEF ShapeInv, CoreType, Fault, MayFail
  <2>5. TaskType' /\ RouteType'
    BY <1>2, <2>1, MovesTyped, StepRoute DEF StepOf
  <2> QED BY <1>2, <2>1, <2>2, <2>4, <2>5, ShapeFrom
<1> QED BY <1>1, <1>5, <1>6, <1>7 DEF TakeLease

(* GET of the key: ours from before, another process's, or gone. *)
LEMMA ReadHolderShape ==
  ASSUME ShapeInv, NEW w \in Workers, NEW s \in Slots, ReadHolder(w, s)
  PROVE  ShapeInv' /\ StepOf(w, s)
<1>1. PICK t : t = tasks[w][s]
  OBVIOUS
<1>2. t.pc = "holder" /\ NoteOwners
      /\ UNCHANGED <<leaseVars, runRow, revision, process, inbox, consumer,
                     target, executions, calls, happened, wanted>>
  BY <1>1 DEF ReadHolder, At
<1>3. t.agent \in Agents
  BY <1>1, <1>2, TaskAt DEF ShapeInv, Shape
<1>4. StepOf(w, s) /\ LocalType'
  <2>1. CASE leaseKey[t.agent] = w
    <3>1. Construct(w, s, t) /\ UNCHANGED <<promise, ensureCache, reply>>
      BY <1>1, <2>1 DEF ReadHolder, KeptByUs
    <3>2. leaseKey'[t.agent] = w
      BY <1>2, <2>1 DEF leaseVars
    <3> QED BY <1>1, <1>2, <3>1, <3>2, ConstructMoves
  <2>2. CASE leaseKey[t.agent] # w
    <3>1. PICK o : o = leaseKey[t.agent]
      OBVIOUS
    <3>2. Settle(w, s, t, Resolved(o)) /\ UNCHANGED <<registry, actor>>
      BY <1>1, <2>2, <3>1 DEF ReadHolder, KeptByUs
    <3>3. o \in Owners /\ o # w
      BY <1>3, <2>2, <3>1 DEF ShapeInv, CoreType, LeaseTypeOK, Owners, Agents
    <3>4. /\ StepOf(w, s)
          /\ promise' \in [Workers -> [Agents -> [Gens -> Promise]]]
          /\ ensureCache' \in [Workers -> [Agents -> Gens \cup {NoGen}]]
      BY <1>1, <1>2, <3>2, <3>3, SettleMoves
    <3> QED BY <3>2, <3>4 DEF ShapeInv, LocalType
  <2> QED BY <2>1, <2>2
<1>5. CoreType' /\ TaskType' /\ RouteType'
  BY <1>2, <1>4, SameCore, MovesTyped, StepRoute DEF ShapeInv, StepOf
<1> QED BY <1>2, <1>4, <1>5, ShapeFrom

(* The previous actor has stopped; the new one is registered and starts. *)
LEMMA TornDownShape ==
  ASSUME ShapeInv, NEW w \in Workers, NEW s \in Slots, TornDown(w, s)
  PROVE  ShapeInv' /\ StepOf(w, s)
<1>1. PICK t : t = tasks[w][s]
  OBVIOUS
<1>2. /\ t.pc = "teardown" /\ NoteOwners
      /\ actor' = [actor EXCEPT ![w][t.agent] =
                       [@ EXCEPT ![t.prior] = "off", ![t.gen] = "starting"]]
      /\ Register(w, t.agent, t.gen)
      /\ Become(w, s, [t EXCEPT !.pc = "starting", !.prior = NoGen])
      /\ UNCHANGED <<leaseVars, runRow, revision, process, ensureCache, promise,
                     routing, calls, happened, wanted>>
  BY <1>1 DEF TornDown, At
<1>3. Good(t) /\ t \in ActorTask /\ t.agent \in Agents /\ t.gen \in Gens /\ t.prior \in Gens
  BY <1>1, <1>2, TaskAt DEF ShapeInv, Shape, GenPcs
<1>4. PICK u : u = [t EXCEPT !.pc = "starting", !.prior = NoGen]
  OBVIOUS
<1>5. /\ u \in ActorTask /\ u.pc = "starting" /\ u.prior = NoGen /\ u.gen = t.gen
      /\ u.kind = t.kind /\ u.agent = t.agent /\ u.dec = t.dec
  <2>1. "starting" \in Pcs /\ NoGen \in Gens \cup {NoGen}
    BY DEF Pcs
  <2> QED BY <1>3, <1>4, <2>1, ZenonT(60) DEF ActorTask
<1>6. Good(u)
  BY <1>2, <1>3, <1>5 DEF Good, Shape, GenPcs, EnsurePcs
<1>7. Become(w, s, u) /\ reply' = reply
  BY <1>2, <1>4 DEF routing
<1>8. Moves(w, s, u)
  BY <1>1, <1>2, <1>5, <1>6, <1>7 DEF Moves, Replies, Vouched, Earned, LeasePcs
<1>9. StepOf(w, s)
  BY <1>2, <1>8, SameKept DEF StepOf
<1>10. LocalType'
  <2>1. actor' \in [Workers -> [Agents -> [Gens -> {"off", "starting", "on", "stopping"}]]]
    <3>1. actor \in [Workers -> [Agents -> [Gens -> {"off", "starting", "on", "stopping"}]]]
      BY DEF ShapeInv, LocalType
    <3> QED BY <1>2, <1>3, <3>1
  <2> QED BY <1>2, <1>3, <2>1 DEF ShapeInv, LocalType, Register
<1>11. CoreType' /\ TaskType' /\ RouteType'
  BY <1>2, <1>8, SameCore, MovesTyped, SameRoute DEF ShapeInv, routing
<1> QED BY <1>2, <1>9, <1>10, <1>11, ShapeFrom

(* start() has returned, or failed. *)
LEMMA StartedShape ==
  ASSUME ShapeInv, NEW w \in Workers, NEW s \in Slots, Started(w, s)
  PROVE  ShapeInv' /\ StepOf(w, s)
<1>1. PICK t : t = tasks[w][s]
  OBVIOUS
<1>2. /\ t.pc = "starting" /\ NoteOwners
      /\ UNCHANGED <<leaseVars, runRow, revision, process, registry, inbox,
                     consumer, target, executions, calls, wanted>>
  BY <1>1 DEF Started, At
<1>3. Good(t) /\ t \in ActorTask /\ t.agent \in Agents /\ t.gen \in Gens
  BY <1>1, <1>2, TaskAt DEF ShapeInv, Shape, GenPcs
<1>4. CASE /\ \/ SetActor(w, t.agent, t.gen, "on")
              \/ UNCHANGED actor
           /\ Settle(w, s, t, Resolved(w))
           /\ UNCHANGED happened
  <2>1. /\ StepOf(w, s)
        /\ promise' \in [Workers -> [Agents -> [Gens -> Promise]]]
        /\ ensureCache' \in [Workers -> [Agents -> Gens \cup {NoGen}]]
    BY <1>1, <1>2, <1>4, SettleMoves DEF Owners
  <2>2. actor' \in [Workers -> [Agents -> [Gens -> {"off", "starting", "on", "stopping"}]]]
    BY <1>3, <1>4, ActorType
  <2>3. LocalType'
    BY <1>2, <2>1, <2>2 DEF ShapeInv, LocalType
  <2>4. CoreType' /\ TaskType' /\ RouteType'
    BY <1>2, <1>4, <2>1, SameCore, MovesTyped, StepRoute DEF ShapeInv, StepOf
  <2> QED BY <1>2, <2>1, <2>3, <2>4, ShapeFrom
<1>5. CASE /\ Fault("start")
           /\ \/ SetActor(w, t.agent, t.gen, "stopping")
              \/ UNCHANGED actor
           /\ Become(w, s, [t EXCEPT !.pc = "abort"])
           /\ UNCHANGED <<promise, ensureCache, reply>>
  <2>1. PICK u : u = [t EXCEPT !.pc = "abort"]
    OBVIOUS
  <2>2. /\ u \in ActorTask /\ u.pc = "abort" /\ u.gen = t.gen
        /\ u.kind = t.kind /\ u.agent = t.agent /\ u.dec = t.dec
    <3>1. "abort" \in Pcs
      BY DEF Pcs
    <3> QED BY <1>3, <2>1, <3>1, ZenonT(60) DEF ActorTask
  <2>3. Good(u)
    BY <1>2, <1>3, <2>2 DEF Good, Shape, GenPcs, EnsurePcs
  <2>4. Become(w, s, u)
    BY <1>5, <2>1
  <2>5. Moves(w, s, u)
    BY <1>1, <1>5, <2>2, <2>3, <2>4 DEF Moves, Replies, Vouched, Earned, LeasePcs
  <2>6. StepOf(w, s)
    BY <1>5, <2>5, SameKept DEF StepOf
  <2>7. actor' \in [Workers -> [Agents -> [Gens -> {"off", "starting", "on", "stopping"}]]]
    BY <1>3, <1>5, ActorType
  <2>8. LocalType'
    BY <1>2, <1>5, <2>7 DEF ShapeInv, LocalType
  <2>9. CoreType'
    BY <1>2, <1>5 DEF ShapeInv, CoreType, LeaseTypeOK, leaseVars, Fault, MayFail
  <2>10. TaskType' /\ RouteType'
    BY <1>2, <2>5, <2>6, MovesTyped, StepRoute
  <2> QED BY <1>2, <2>6, <2>8, <2>9, <2>10, ShapeFrom
<1>6. \/ /\ \/ SetActor(w, t.agent, t.gen, "on")
            \/ UNCHANGED actor
         /\ Settle(w, s, t, Resolved(w))
         /\ UNCHANGED happened
      \/ /\ Fault("start")
         /\ \/ SetActor(w, t.agent, t.gen, "stopping")
            \/ UNCHANGED actor
         /\ Become(w, s, [t EXCEPT !.pc = "abort"])
         /\ UNCHANGED <<promise, ensureCache, reply>>
  BY <1>1 DEF Started
<1> QED BY <1>4, <1>5, <1>6

LEMMA AbortedShape ==
  ASSUME ShapeInv, NEW w \in Workers, NEW s \in Slots, Aborted(w, s)
  PROVE  ShapeInv' /\ StepOf(w, s)
<1>1. PICK t : t = tasks[w][s]
  OBVIOUS
<1>2. /\ t.pc = "abort" /\ NoteOwners
      /\ SetActor(w, t.agent, t.gen, "off")
      /\ Register(w, t.agent, NoGen)
      /\ Become(w, s, [t EXCEPT !.pc = "release"])
      /\ UNCHANGED <<leaseVars, runRow, revision, process, ensureCache, promise,
                     routing, calls, happened, wanted>>
  BY <1>1 DEF Aborted, At
<1>3. Good(t) /\ t \in ActorTask /\ t.agent \in Agents /\ t.gen \in Gens
  BY <1>1, <1>2, TaskAt DEF ShapeInv, Shape, GenPcs
<1>4. PICK u : u = [t EXCEPT !.pc = "release"]
  OBVIOUS
<1>5. /\ u \in ActorTask /\ u.pc = "release" /\ u.gen = t.gen
      /\ u.kind = t.kind /\ u.agent = t.agent /\ u.dec = t.dec
  <2>1. "release" \in Pcs
    BY DEF Pcs
  <2> QED BY <1>3, <1>4, <2>1, ZenonT(60) DEF ActorTask
<1>6. Good(u)
  BY <1>2, <1>3, <1>5 DEF Good, Shape, GenPcs, EnsurePcs
<1>7. Become(w, s, u) /\ reply' = reply
  BY <1>2, <1>4 DEF routing
<1>8. Moves(w, s, u)
  BY <1>1, <1>5, <1>6, <1>7 DEF Moves, Replies, Vouched, Earned, LeasePcs
<1>9. StepOf(w, s)
  BY <1>2, <1>8, SameKept DEF StepOf
<1>10. actor' \in [Workers -> [Agents -> [Gens -> {"off", "starting", "on", "stopping"}]]]
  BY <1>2, <1>3, ActorType
<1>11. LocalType'
  BY <1>2, <1>3, <1>10 DEF ShapeInv, LocalType, Register
<1>12. CoreType' /\ TaskType' /\ RouteType'
  BY <1>2, <1>8, SameCore, MovesTyped, SameRoute DEF ShapeInv, routing
<1> QED BY <1>2, <1>9, <1>11, <1>12, ShapeFrom

(* The renewal timer goes, the key may go. *)
LEMMA ReleaseType ==
  ASSUME CoreType, NEW w \in Workers, NEW a \in Agents,
         Release(w, a) \/ ReleaseRejected(w, a)
  PROVE  LeaseTypeOK'
  BY DEF CoreType, LeaseTypeOK, Release, ReleaseRejected, Agents

LEMMA GiveUpLeaseShape ==
  ASSUME ShapeInv, NEW w \in Workers, NEW s \in Slots, GiveUpLease(w, s)
  PROVE  ShapeInv' /\ StepOf(w, s)
<1>1. PICK t : t = tasks[w][s]
  OBVIOUS
<1>2. /\ t.pc = "release" /\ NoteOwners
      /\ \/ Release(w, t.agent) /\ UNCHANGED happened
         \/ Fault("release") /\ ReleaseRejected(w, t.agent)
      /\ Settle(w, s, t, Rejected)
      /\ UNCHANGED <<runRow, revision, process, registry, actor, inbox, consumer,
                     target, executions, calls, wanted>>
  BY <1>1 DEF GiveUpLease, At
<1>3. t.agent \in Agents
  BY <1>1, <1>2, TaskAt DEF ShapeInv, Shape
<1>4. /\ StepOf(w, s)
      /\ promise' \in [Workers -> [Agents -> [Gens -> Promise]]]
      /\ ensureCache' \in [Workers -> [Agents -> Gens \cup {NoGen}]]
  BY <1>1, <1>2, SettleMoves
<1>5. LocalType'
  BY <1>2, <1>4 DEF ShapeInv, LocalType
<1>6. LeaseTypeOK'
  BY <1>2, <1>3, ReleaseType DEF ShapeInv
<1>7. CoreType'
  BY <1>2, <1>6 DEF ShapeInv, CoreType, Fault, MayFail
<1>8. TaskType' /\ RouteType'
  BY <1>2, <1>4, MovesTyped, StepRoute DEF StepOf
<1> QED BY <1>2, <1>4, <1>5, <1>7, <1>8, ShapeFrom

LEMMA EnsureShape ==
  ASSUME ShapeInv, NEW w \in Workers, NEW s \in Slots, EnsureStep(w, s)
  PROVE  ShapeInv' /\ StepOf(w, s)
  BY ReadProfileShape, ProfileMissingShape, PriorSettledShape, CheckHolderShape,
     JoinSettledShape, TakeLeaseShape, ReadHolderShape, TornDownShape,
     StartedShape, AbortedShape, GiveUpLeaseShape
     DEF EnsureStep

-----------------------------------------------------------------------------
(* The tools, the loops and the crash of an actor: none of these tasks has *)
(* a decision afterwards, and none holds the lease.                        *)

LEMMA PlainMoves ==
  ASSUME NEW w \in Workers, NEW s \in Slots, NEW u, Good(u),
         u.dec = NoDecision, u.pc \notin LeasePcs, Become(w, s, u), reply' = reply
  PROVE  Moves(w, s, u)
  BY DEF Moves, Replies, Vouched

LEMMA PlainShape ==
  ASSUME ShapeInv, NEW w \in Workers, NEW s \in Slots, NEW u, Good(u),
         u.dec = NoDecision, u.pc \notin LeasePcs, Become(w, s, u),
         UNCHANGED promise, CacheKept, UNCHANGED routing, NoteOwners,
         CoreType', LocalType'
  PROVE  ShapeInv' /\ StepOf(w, s)
<1>1. Moves(w, s, u)
  BY PlainMoves DEF routing
<1>2. PromisesKept(w, tasks[w][s])
  BY DEF PromisesKept
<1>3. TaskType' /\ RouteType'
  BY <1>1, MovesTyped, SameRoute DEF ShapeInv, routing
<1> QED BY <1>1, <1>2, <1>3, ShapeFrom DEF StepOf

LEMMA StartAgentActorShape ==
  ASSUME ShapeInv, NEW w \in Workers, NEW s \in Slots, NEW a \in Agents,
         StartAgentActor(w, s, a)
  PROVE  ShapeInv' /\ StepOf(w, s)
<1>1. PICK u : u = EnsureTask("start", a)
  OBVIOUS
<1>2. Good(u) /\ u.dec = NoDecision /\ u.pc = "profile"
  BY <1>1, EnsureGood
<1>3. CoreType'
  BY AgentAssumption DEF StartAgentActor, ShapeInv, CoreType, LeaseTypeOK, leaseVars
<1>4. LocalType' /\ CacheKept
  BY SameLocal, SameKept DEF StartAgentActor, ShapeInv, localState
<1>5. Become(w, s, u) /\ UNCHANGED promise /\ UNCHANGED routing /\ NoteOwners
  BY <1>1 DEF StartAgentActor, localState
<1> QED BY <1>2, <1>3, <1>4, <1>5, PlainShape DEF LeasePcs

LEMMA RecordRunningShape ==
  ASSUME ShapeInv, NEW w \in Workers, NEW s \in Slots, RecordRunning(w, s)
  PROVE  ShapeInv' /\ StepOf(w, s)
<1>1. PICK u : u = IdleTask
  OBVIOUS
<1>2. Good(u) /\ u.dec = NoDecision /\ u.pc = "idle"
  BY <1>1, IdleGood
<1>3. CoreType'
  BY DEF RecordRunning, ShapeInv, CoreType, LeaseTypeOK, leaseVars
<1>4. LocalType' /\ CacheKept
  BY SameLocal, SameKept DEF RecordRunning, ShapeInv, localState
<1>5. Become(w, s, u) /\ UNCHANGED promise /\ UNCHANGED routing /\ NoteOwners
  BY <1>1 DEF RecordRunning, localState
<1> QED BY <1>2, <1>3, <1>4, <1>5, PlainShape DEF LeasePcs

LEMMA StopAgentActorShape ==
  ASSUME ShapeInv, NEW w \in Workers, NEW s \in Slots, NEW a \in Agents,
         StopAgentActor(w, s, a)
  PROVE  ShapeInv' /\ StepOf(w, s)
<1>1. PICK u : u = [IdleTask EXCEPT !.pc = "mark", !.kind = "stop", !.agent = a]
  OBVIOUS
<1>2. Good(u) /\ u.dec = NoDecision /\ u.pc = "mark"
  BY <1>1, StopGood
<1>3. CoreType'
  BY AgentAssumption DEF StopAgentActor, ShapeInv, CoreType, LeaseTypeOK, leaseVars
<1>4. LocalType' /\ CacheKept
  BY SameLocal, SameKept DEF StopAgentActor, ShapeInv, localState
<1>5. Become(w, s, u) /\ UNCHANGED promise /\ UNCHANGED routing /\ NoteOwners
  BY <1>1 DEF StopAgentActor, localState
<1> QED BY <1>2, <1>3, <1>4, <1>5, PlainShape DEF LeasePcs

LEMMA EvictType ==
  ASSUME ShapeInv, NEW w \in Workers, NEW a \in Agents, NEW R \in SUBSET Races,
         Evict(w, a, R)
  PROVE  /\ LeaseTypeOK'
         /\ happened' \in SUBSET (FaultKinds \cup Races)
         /\ ensureCache' \in [Workers -> [Agents -> Gens \cup {NoGen}]]
         /\ promise' = promise => CacheKept
<1>1. LeaseTypeOK'
  BY ReleaseType DEF Evict, ShapeInv
<1>2. happened' \in SUBSET (FaultKinds \cup Races)
  BY DEF Evict, ShapeInv, CoreType, MayFail
<1>3. ensureCache \in [Workers -> [Agents -> Gens \cup {NoGen}]]
  BY DEF ShapeInv, LocalType
<1>4. /\ ensureCache' \in [Workers -> [Agents -> Gens \cup {NoGen}]]
      /\ \A v \in Workers, b \in Agents :
            ensureCache'[v][b] = ensureCache[v][b] \/ ensureCache'[v][b] = NoGen
  BY <1>3 DEF Evict
<1>5. CacheKept
  BY <1>4, Zenon DEF CacheKept
<1> QED BY <1>1, <1>2, <1>4, <1>5

LEMMA MarkStoppedShape ==
  ASSUME ShapeInv, NEW w \in Workers, NEW s \in Slots, MarkStopped(w, s)
  PROVE  ShapeInv' /\ StepOf(w, s)
<1>1. PICK t, g : t = tasks[w][s] /\ g = registry[w][t.agent]
  OBVIOUS
<1>2. PICK R \in SUBSET Races :
         IF g # NoGen
         THEN /\ Become(w, s, [t EXCEPT !.pc = "halt", !.gen = g])
              /\ IF IsRunning(w, t.agent, g)
                 THEN SetActor(w, t.agent, g, "stopping")
                 ELSE UNCHANGED actor
              /\ happened' = happened \cup R
              /\ UNCHANGED <<leaseVars, ensureCache>>
         ELSE /\ Become(w, s, IdleTask)
              /\ Evict(w, t.agent, R)
              /\ UNCHANGED actor
  <2> DEFINE R == {r \in Races :
            \/ r = "overlap" /\ Ensuring(w, t.agent)
            \/ r = "remote_stop" /\ \E v \in Workers \ {w} : Hosts(v, t.agent)
            \/ r = "stale_sweep" /\ Listed(t.agent)}
  <2>1. R \in SUBSET Races
    OBVIOUS
  <2> QED BY <1>1, <2>1 DEF MarkStopped
<1>3. /\ t.pc = "mark" /\ NoteOwners
      /\ runRow' = [runRow EXCEPT ![t.agent] = IF @ = "running" THEN "stopped" ELSE @]
      /\ wanted' = [wanted EXCEPT ![t.agent] = FALSE]
      /\ UNCHANGED <<revision, process, promise, registry, routing, calls>>
  BY <1>1 DEF MarkStopped, At
<1>4. Good(t) /\ t \in ActorTask /\ t.agent \in Agents
  BY <1>1, <1>3, TaskAt DEF ShapeInv, Shape
<1>5. g \in Gens \cup {NoGen}
  BY <1>1, <1>4 DEF ShapeInv, LocalType
<1>6. CoreType'
  <2>1. LeaseTypeOK' /\ happened' \in SUBSET (FaultKinds \cup Races)
    BY <1>2, <1>4, EvictType DEF ShapeInv, CoreType, LeaseTypeOK, leaseVars
  <2>2. /\ runRow' \in [Agents -> {"absent", "running", "stopped"}]
        /\ wanted' \in [Agents -> BOOLEAN]
    BY <1>3, <1>4 DEF ShapeInv, CoreType
  <2> QED BY <1>3, <2>1, <2>2 DEF ShapeInv, CoreType
<1>7. actor' \in [Workers -> [Agents -> [Gens -> {"off", "starting", "on", "stopping"}]]]
  <2>1. CASE g = NoGen
    BY <1>2, <2>1 DEF ShapeInv, LocalType
  <2>2. CASE g # NoGen
    BY <1>2, <1>4, <1>5, <2>2, ActorType
  <2> QED BY <2>1, <2>2
<1>8. ensureCache' \in [Workers -> [Agents -> Gens \cup {NoGen}]] /\ CacheKept
  BY <1>2, <1>3, <1>4, EvictType, SameKept DEF ShapeInv, LocalType
<1>9. LocalType'
  BY <1>3, <1>7, <1>8 DEF ShapeInv, LocalType
<1>10. RouteType' /\ reply' = reply /\ PromisesKept(w, t)
  BY <1>3, SameRoute DEF ShapeInv, routing, PromisesKept
<1>11. \E u : Moves(w, s, u)
  <2>1. CASE g = NoGen
    BY <1>2, <1>10, <2>1, IdleGood, PlainMoves DEF LeasePcs
  <2>2. CASE g # NoGen
    <3>1. PICK u : u = [t EXCEPT !.pc = "halt", !.gen = g]
      OBVIOUS
    <3>2. /\ u \in ActorTask /\ u.pc = "halt" /\ u.gen = g
          /\ u.kind = t.kind /\ u.agent = t.agent /\ u.dec = t.dec
      <4>1. "halt" \in Pcs
        BY DEF Pcs
      <4> QED BY <1>4, <1>5, <3>1, <4>1, ZenonT(60) DEF ActorTask
    <3>3. Good(u)
      BY <1>3, <1>4, <1>5, <2>2, <3>2 DEF Good, Shape, GenPcs, EnsurePcs
    <3>4. Become(w, s, u)
      BY <1>2, <2>2, <3>1
    <3>5. Moves(w, s, u)
      BY <1>1, <1>10, <3>2, <3>3, <3>4 DEF Moves, Replies, Vouched, Earned, LeasePcs
    <3> QED BY <3>5
  <2> QED BY <2>1, <2>2
<1>12. StepOf(w, s) /\ TaskType'
  BY <1>1, <1>8, <1>10, <1>11, MovesTyped DEF StepOf
<1> QED BY <1>3, <1>6, <1>9, <1>10, <1>12, ShapeFrom

LEMMA HaltedShape ==
  ASSUME ShapeInv, NEW w \in Workers, NEW s \in Slots, Halted(w, s)
  PROVE  ShapeInv' /\ StepOf(w, s)
<1>1. PICK t : t = tasks[w][s]
  OBVIOUS
<1>2. /\ t.pc = "halt" /\ NoteOwners
      /\ SetActor(w, t.agent, t.gen, "off")
      /\ Register(w, t.agent, NoGen)
      /\ Evict(w, t.agent, {})
      /\ Become(w, s, IdleTask)
      /\ UNCHANGED <<runRow, revision, process, promise, routing, calls, wanted>>
  BY <1>1 DEF Halted, At
<1>3. t.agent \in Agents /\ t.gen \in Gens
  BY <1>1, <1>2, TaskAt DEF ShapeInv, Shape, GenPcs
<1>4. /\ LeaseTypeOK'
      /\ happened' \in SUBSET (FaultKinds \cup Races)
      /\ ensureCache' \in [Workers -> [Agents -> Gens \cup {NoGen}]]
      /\ CacheKept
  BY <1>2, <1>3, EvictType
<1>5. CoreType'
  BY <1>2, <1>4 DEF ShapeInv, CoreType
<1>6. actor' \in [Workers -> [Agents -> [Gens -> {"off", "starting", "on", "stopping"}]]]
  BY <1>2, <1>3, ActorType
<1>7. LocalType'
  BY <1>2, <1>3, <1>4, <1>6 DEF ShapeInv, LocalType, Register
<1> QED BY <1>2, <1>4, <1>5, <1>7, IdleGood, PlainShape DEF LeasePcs

LEMMA BootShape ==
  ASSUME ShapeInv, NEW w \in Workers, NEW s \in Slots, Boot(w, s)
  PROVE  ShapeInv' /\ StepOf(w, s)
<1>1. PICK u : u = [IdleTask EXCEPT !.pc = "scan", !.kind = "boot", !.todo = Running]
  OBVIOUS
<1>2. Good(u) /\ u.dec = NoDecision /\ u.pc = "scan"
  BY <1>1, ScanGood DEF Running
<1>3. CoreType'
  BY DEF Boot, ShapeInv, CoreType, LeaseTypeOK, leaseVars
<1>4. LocalType' /\ CacheKept
  BY SameLocal, SameKept DEF Boot, ShapeInv, localState
<1>5. Become(w, s, u) /\ UNCHANGED promise /\ UNCHANGED routing /\ NoteOwners
  BY <1>1 DEF Boot, localState
<1> QED BY <1>2, <1>3, <1>4, <1>5, PlainShape DEF LeasePcs

LEMMA SweepShape ==
  ASSUME ShapeInv, NEW w \in Workers, NEW s \in Slots, Sweep(w, s)
  PROVE  ShapeInv' /\ StepOf(w, s)
<1>1. PICK u : u = [IdleTask EXCEPT !.pc = "scan", !.kind = "sweep", !.todo = Running]
  OBVIOUS
<1>2. Good(u) /\ u.dec = NoDecision /\ u.pc = "scan"
  BY <1>1, ScanGood DEF Running
<1>3. CoreType'
  BY SameCore DEF Sweep, ShapeInv
<1>4. LocalType' /\ CacheKept
  BY SameLocal, SameKept DEF Sweep, ShapeInv, localState
<1>5. Become(w, s, u) /\ UNCHANGED promise /\ UNCHANGED routing /\ NoteOwners
  BY <1>1 DEF Sweep, localState
<1> QED BY <1>2, <1>3, <1>4, <1>5, PlainShape DEF LeasePcs

LEMMA ScanNextShape ==
  ASSUME ShapeInv, NEW w \in Workers, NEW s \in Slots, ScanNext(w, s)
  PROVE  ShapeInv' /\ StepOf(w, s)
<1>1. PICK t : t = tasks[w][s]
  OBVIOUS
<1>2. /\ t.pc = "scan" /\ NoteOwners
      /\ UNCHANGED <<leaseVars, runRow, revision, process, localState, routing,
                     calls, happened, wanted>>
  BY <1>1 DEF ScanNext, At
<1>3. PICK a \in t.todo :
         Become(w, s,
             IF t.kind = "sweep" /\ IsActorAlive(w, a)
             THEN After([t EXCEPT !.todo = t.todo \ {a}], NoWorker)
             ELSE [EnsureTask(t.kind, a) EXCEPT !.todo = t.todo \ {a}])
  BY <1>1 DEF ScanNext
<1>4. PICK R, k : R = t.todo \ {a} /\ k = t.kind
  OBVIOUS
<1>5. /\ Good(t) /\ a \in Agents /\ R \in SUBSET Agents
      /\ k \in {"sweep", "boot"}
  BY <1>1, <1>2, <1>3, <1>4, TaskAt DEF ShapeInv, Shape, ActorTask, Good
<1>6. \E u : Good(u) /\ u.dec = NoDecision /\ u.pc \notin LeasePcs /\ Become(w, s, u)
  <2>1. CASE k = "sweep" /\ IsActorAlive(w, a)
    <3>1. PICK u : u = After([t EXCEPT !.todo = t.todo \ {a}], NoWorker)
      OBVIOUS
    <3>2. Become(w, s, u)
      BY <1>3, <1>4, <2>1, <3>1
    <3>3. u = IdleTask \/ u = [IdleTask EXCEPT !.pc = "scan", !.kind = k, !.todo = R]
      <4>1. PICK v : v = [t EXCEPT !.todo = t.todo \ {a}]
        OBVIOUS
      <4>2. v.kind = k /\ v.todo = R
        BY <1>4, <1>5, <4>1 DEF Good, ActorTask
      <4>3. u = After(v, NoWorker)
        BY <3>1, <4>1
      <4> QED BY <2>1, <4>2, <4>3 DEF After
    <3>4. Good(u) /\ u.dec = NoDecision /\ u.pc \in {"idle", "scan"}
      <4>1. CASE u = IdleTask
        BY <4>1, IdleGood
      <4>2. CASE u = [IdleTask EXCEPT !.pc = "scan", !.kind = k, !.todo = R]
        BY <1>5, <4>2, ScanGood
      <4> QED BY <3>3, <4>1, <4>2
    <3> QED BY <3>2, <3>4 DEF LeasePcs
  <2>2. CASE ~(k = "sweep" /\ IsActorAlive(w, a))
    <3>1. PICK u : u = [EnsureTask(k, a) EXCEPT !.todo = R]
      OBVIOUS
    <3>2. Become(w, s, u)
      BY <1>3, <1>4, <2>2, <3>1
    <3>3. Good(u) /\ u.dec = NoDecision /\ u.pc = "profile"
      BY <1>5, <3>1, EnsureNextGood
    <3> QED BY <3>2, <3>3 DEF LeasePcs
  <2> QED BY <2>1, <2>2
<1>7. /\ UNCHANGED promise /\ UNCHANGED routing /\ CoreType' /\ LocalType' /\ CacheKept
  BY <1>2, SameCore, SameLocal, SameKept DEF ShapeInv, localState
<1> QED BY <1>2, <1>6, <1>7, PlainShape

LEMMA ListenShape ==
  ASSUME ShapeInv, NEW w \in Workers, NEW s \in Slots, Listen(w, s)
  PROVE  ShapeInv' /\ StepOf(w, s)
<1>1. CoreType'
  BY DEF Listen, ShapeInv, CoreType, LeaseTypeOK, leaseVars
<1>2. LocalType' /\ CacheKept
  BY SameLocal, SameKept DEF Listen, ShapeInv, localState
<1>3. Become(w, s, IdleTask) /\ UNCHANGED promise /\ UNCHANGED routing /\ NoteOwners
  BY DEF Listen, localState
<1> QED BY <1>1, <1>2, <1>3, IdleGood, PlainShape DEF LeasePcs

LEMMA CrashShape ==
  ASSUME ShapeInv, NEW w \in Workers, NEW s \in Slots, NEW a \in Agents, NEW g \in Gens,
         Crash(w, s, a, g)
  PROVE  ShapeInv' /\ StepOf(w, s)
<1>1. PICK u : u = [IdleTask EXCEPT !.pc = "crash", !.kind = "crash",
                                    !.agent = a, !.gen = g]
  OBVIOUS
<1>2. Good(u) /\ u.dec = NoDecision /\ u.pc = "crash"
  BY <1>1, CrashGood
<1>3. CoreType'
  BY DEF Crash, ShapeInv, CoreType, LeaseTypeOK, leaseVars, MayFail, Races
<1>4. LocalType' /\ CacheKept
  BY SameLocal, SameKept DEF Crash, ShapeInv, localState
<1>5. Become(w, s, u) /\ UNCHANGED promise /\ UNCHANGED routing /\ NoteOwners
  BY <1>1 DEF Crash, localState
<1> QED BY <1>2, <1>3, <1>4, <1>5, PlainShape DEF LeasePcs

LEMMA CrashedShape ==
  ASSUME ShapeInv, NEW w \in Workers, NEW s \in Slots, Crashed(w, s)
  PROVE  ShapeInv' /\ StepOf(w, s)
<1>1. PICK t : t = tasks[w][s]
  OBVIOUS
<1>2. /\ t.pc = "crash" /\ NoteOwners
      /\ SetActor(w, t.agent, t.gen, "off")
      /\ Register(w, t.agent, NoGen)
      /\ Become(w, s, IdleTask)
      /\ UNCHANGED <<leaseVars, runRow, revision, process, ensureCache, promise,
                     routing, calls, happened, wanted>>
  BY <1>1 DEF Crashed, At
<1>3. t.agent \in Agents /\ t.gen \in Gens
  BY <1>1, <1>2, TaskAt DEF ShapeInv, Shape, GenPcs
<1>4. CoreType' /\ CacheKept
  BY <1>2, SameCore, SameKept DEF ShapeInv
<1>5. actor' \in [Workers -> [Agents -> [Gens -> {"off", "starting", "on", "stopping"}]]]
  BY <1>2, <1>3, ActorType
<1>6. LocalType'
  BY <1>2, <1>3, <1>5 DEF ShapeInv, LocalType, Register
<1> QED BY <1>2, <1>4, <1>6, IdleGood, PlainShape DEF LeasePcs

-----------------------------------------------------------------------------
(* Decisions on their way, and the environment *)

LEMMA AskDecisionShape ==
  ASSUME ShapeInv, NEW w \in Workers, NEW s \in Slots, NEW d \in Decisions,
         NEW a \in Agents, AskDecision(w, s, d, a)
  PROVE  ShapeInv'
<1>1. PICK u : u = [EnsureTask("decide", a) EXCEPT !.dec = d]
  OBVIOUS
<1>2. Good(u) /\ Become(w, s, u)
  BY <1>1, DecideGood DEF AskDecision
<1>3. TaskType'
  BY <1>2, BecomeTasks DEF ShapeInv
<1>4. CoreType'
  BY AgentAssumption DEF AskDecision, ShapeInv, CoreType, LeaseTypeOK, leaseVars
<1>5. LocalType'
  BY SameLocal DEF AskDecision, ShapeInv
<1>6. RouteType'
  BY DEF AskDecision, ShapeInv, RouteType
<1> QED BY <1>3, <1>4, <1>5, <1>6, ShapeFrom DEF AskDecision

(* The reply of a decision is a refusal, unless it has another one. *)
Answers(d) ==
    \/ reply' = reply
    \/ \E r \in {"not_ready", "not_running"} : reply' = [reply EXCEPT ![d] = r]

(* Where a decision goes after its ensure: this process's actor takes it,  *)
(* nobody does, or it goes to the list of the owner.                       *)
LEMMA PublishCases ==
  ASSUME ShapeInv, NEW w \in Workers, NEW s \in Slots, Publish(w, s),
         NEW t, t = tasks[w][s]
  PROVE  /\ t.pc = "publish" /\ Good(t) /\ t.dec \in Decisions
         /\ \E u :
              /\ Become(w, s, u) /\ Good(u)
              /\ \/ /\ t.owner = w /\ UNCHANGED <<inbox, reply>>
                    /\ u.pc = "execute" /\ u.dec = t.dec /\ u.agent = t.agent
                 \/ /\ u = IdleTask /\ inbox' = inbox
                    /\ Answers(t.dec)
                 \/ /\ u = IdleTask /\ reply' = reply
                    /\ \E o \in Workers :
                          inbox' = [inbox EXCEPT ![o] = Append(inbox[o], t.dec)]
         /\ UNCHANGED <<leaseVars, runRow, revision, process, localState, consumer,
                        target, executions, calls, happened, wanted>>
         /\ NoteOwners
<1>1. t.pc = "publish"
  BY DEF Publish, At
<1>2. Good(t) /\ t \in ActorTask /\ t.dec \in Decisions /\ t.owner \in Owners
  <2>1. Good(t) /\ t \in ActorTask /\ Shape(t)
    BY TaskAt DEF ShapeInv
  <2> QED BY <1>1, <2>1 DEF Shape, ActorTask
<1>3. /\ UNCHANGED <<leaseVars, runRow, revision, process, localState, consumer,
                     target, executions, calls, happened, wanted>>
      /\ NoteOwners
  BY DEF Publish
<1>4. \/ /\ t.owner = w /\ Become(w, s, [t EXCEPT !.pc = "execute"])
         /\ UNCHANGED <<inbox, reply>>
      \/ /\ Become(w, s, IdleTask) /\ inbox' = inbox
         /\ Answers(t.dec)
      \/ /\ Become(w, s, IdleTask) /\ reply' = reply
         /\ t.owner \in Workers
         /\ inbox' = [inbox EXCEPT ![t.owner] = Append(@, t.dec)]
  BY <1>2 DEF Publish, Submit, Owners, AnswerIf, Answers
<1>5. \E u :
        /\ Become(w, s, u) /\ Good(u)
        /\ \/ /\ t.owner = w /\ UNCHANGED <<inbox, reply>>
              /\ u.pc = "execute" /\ u.dec = t.dec /\ u.agent = t.agent
           \/ /\ u = IdleTask /\ inbox' = inbox
              /\ Answers(t.dec)
           \/ /\ u = IdleTask /\ reply' = reply
              /\ \E o \in Workers :
                    inbox' = [inbox EXCEPT ![o] = Append(inbox[o], t.dec)]
  <2>1. CASE /\ t.owner = w /\ Become(w, s, [t EXCEPT !.pc = "execute"])
             /\ UNCHANGED <<inbox, reply>>
    <3>1. PICK u : u = [t EXCEPT !.pc = "execute"]
      OBVIOUS
    <3>2. /\ u \in ActorTask /\ u.pc = "execute"
          /\ u.kind = t.kind /\ u.agent = t.agent /\ u.dec = t.dec
      <4>1. "execute" \in Pcs
        BY DEF Pcs
      <4> QED BY <1>2, <3>1, <4>1, ZenonT(60) DEF ActorTask
    <3>3. Good(u)
      BY <1>1, <1>2, <3>2 DEF Good, Shape, GenPcs, EnsurePcs
    <3>4. Become(w, s, u)
      BY <2>1, <3>1
    <3> QED BY <2>1, <3>2, <3>3, <3>4
  <2>2. CASE /\ Become(w, s, IdleTask) /\ inbox' = inbox
             /\ Answers(t.dec)
    BY <2>2, IdleGood
  <2>3. CASE /\ Become(w, s, IdleTask) /\ reply' = reply
             /\ t.owner \in Workers
             /\ inbox' = [inbox EXCEPT ![t.owner] = Append(@, t.dec)]
    <3>1. \E o \in Workers : inbox' = [inbox EXCEPT ![o] = Append(inbox[o], t.dec)]
      BY <2>3
    <3> QED BY <2>3, <3>1, IdleGood
  <2> QED BY <1>4, <2>1, <2>2, <2>3
<1> QED BY <1>1, <1>2, <1>3, <1>5

LEMMA PublishShape ==
  ASSUME ShapeInv, NEW w \in Workers, NEW s \in Slots, Publish(w, s)
  PROVE  ShapeInv'
<1>1. PICK t : t = tasks[w][s]
  OBVIOUS
<1>2. /\ t.dec \in Decisions
      /\ UNCHANGED <<leaseVars, runRow, revision, process, localState, consumer,
                     target, executions, calls, happened, wanted>>
      /\ NoteOwners
  BY <1>1, PublishCases
<1>3. PICK u :
        /\ Become(w, s, u) /\ Good(u)
        /\ \/ UNCHANGED <<inbox, reply>>
           \/ /\ inbox' = inbox
              /\ Answers(t.dec)
           \/ /\ reply' = reply
              /\ \E o \in Workers :
                    inbox' = [inbox EXCEPT ![o] = Append(inbox[o], t.dec)]
  BY <1>1, PublishCases
<1>4. TaskType'
  BY <1>3, BecomeTasks DEF ShapeInv
<1>5. CoreType' /\ LocalType'
  BY <1>2, SameCore, SameLocal DEF ShapeInv
<1>6. RouteType'
  <2>1. inbox' \in [Workers -> Seq(Decisions)]
    <3>1. inbox \in [Workers -> Seq(Decisions)]
      BY DEF ShapeInv, RouteType
    <3>2. CASE inbox' = inbox
      BY <3>1, <3>2
    <3>3. ASSUME NEW o \in Workers, inbox' = [inbox EXCEPT ![o] = Append(inbox[o], t.dec)]
          PROVE  inbox' \in [Workers -> Seq(Decisions)]
      BY <1>2, <3>1, <3>3
    <3> QED BY <1>3, <3>2, <3>3
  <2>2. reply' \in [Decisions -> {"none", "not_ready", "not_running",
                                  "accepted", "timeout"}]
    BY <1>2, <1>3 DEF ShapeInv, RouteType, Answers
  <2> QED BY <1>2, <2>1, <2>2 DEF ShapeInv, RouteType
<1> QED BY <1>2, <1>4, <1>5, <1>6, ShapeFrom

LEMMA ExecutedType ==
  ASSUME ShapeInv, NEW w \in Workers, NEW d \in Decisions, Executed(w, d)
  PROVE  /\ executions' \in [Decisions -> Seq(Workers)]
         /\ reply' \in [Decisions -> {"none", "not_ready", "not_running",
                                      "accepted", "timeout"}]
  BY DEF ShapeInv, RouteType, Executed, AnswerIf

LEMMA ExecuteHereShape ==
  ASSUME ShapeInv, NEW w \in Workers, NEW s \in Slots, ExecuteHere(w, s)
  PROVE  ShapeInv' /\ tasks[w][s].dec \in Decisions
<1>1. PICK t : t = tasks[w][s]
  OBVIOUS
<1>2. /\ t.pc = "execute" /\ Executed(w, t.dec) /\ Become(w, s, IdleTask)
      /\ UNCHANGED <<leaseVars, runRow, revision, process, localState, inbox,
                     consumer, target, calls, happened, wanted>>
      /\ NoteOwners
  BY <1>1 DEF ExecuteHere, At
<1>3. t.dec \in Decisions
  <2>1. t \in ActorTask /\ Shape(t)
    BY <1>1, TaskAt DEF ShapeInv
  <2> QED BY <1>2, <2>1 DEF Shape, ActorTask
<1>4. TaskType'
  BY <1>2, IdleGood, BecomeTasks DEF ShapeInv
<1>5. CoreType' /\ LocalType'
  BY <1>2, SameCore, SameLocal DEF ShapeInv
<1>6. RouteType'
  BY <1>2, <1>3, ExecutedType DEF ShapeInv, RouteType
<1> QED BY <1>1, <1>2, <1>3, <1>4, <1>5, <1>6, ShapeFrom

(* Only replies, lists, consumers and executions change. *)
LEMMA RoutedShape ==
  ASSUME ShapeInv, NoteOwners, RouteType',
         UNCHANGED <<leaseVars, runRow, revision, process, localState, tasks,
                     calls, happened, wanted>>
  PROVE  ShapeInv'
<1>1. TaskType'
  BY DEF ShapeInv, TaskType
<1> QED BY <1>1, SameCore, SameLocal, ShapeFrom DEF ShapeInv

LEMMA ReplyTimesOutShape ==
  ASSUME ShapeInv, NEW d \in Decisions, ReplyTimesOut(d)
  PROVE  ShapeInv'
<1>1. RouteType'
  BY DEF ReplyTimesOut, ShapeInv, RouteType
<1> QED BY <1>1, RoutedShape DEF ReplyTimesOut

LEMMA PopShape ==
  ASSUME ShapeInv, NEW w \in Workers, Pop(w)
  PROVE  /\ ShapeInv'
         /\ Head(inbox[w]) \in Decisions
<1>1. /\ inbox \in [Workers -> Seq(Decisions)] /\ consumer \in [Workers -> Consumer]
      /\ inbox[w] # <<>>
  BY DEF Pop, ShapeInv, RouteType
<1>2. inbox[w] \in Seq(Decisions)
  BY <1>1
<1>3. Head(inbox[w]) \in Decisions /\ Tail(inbox[w]) \in Seq(Decisions)
  BY <1>1, <1>2
<1>4. inbox' \in [Workers -> Seq(Decisions)]
  BY <1>1, <1>3 DEF Pop, Popped
<1>5. PICK c : c = [pc |-> "holder", dec |-> Head(inbox[w])]
  OBVIOUS
<1>6. c \in Consumer /\ c.dec \in Decisions
  BY <1>3, <1>5 DEF Consumer
<1>7. consumer' = [consumer EXCEPT ![w] = c]
  BY <1>5 DEF Pop
<1>8. /\ consumer' \in [Workers -> Consumer]
      /\ \A v \in Workers : consumer'[v].pc # "pop" => consumer'[v].dec \in Decisions
  BY <1>1, <1>6, <1>7 DEF ShapeInv, RouteType
<1>9. RouteType'
  BY <1>4, <1>8 DEF Pop, ShapeInv, RouteType
<1> QED BY <1>3, <1>9, RoutedShape DEF Pop

(* A consumer goes on to execute, or is done with its envelope. *)
LEMMA ConsumerType ==
  ASSUME ShapeInv, NEW w \in Workers, consumer[w].pc # "pop",
         \/ consumer' = [consumer EXCEPT ![w] = IdleConsumer]
         \/ consumer' = [consumer EXCEPT ![w].pc = "execute"]
  PROVE  /\ consumer' \in [Workers -> Consumer]
         /\ \A v \in Workers : v # w => consumer'[v] = consumer[v]
         /\ \A v \in Workers : consumer'[v].pc # "pop" =>
               consumer'[v].dec \in Decisions /\ consumer'[v].dec = consumer[v].dec
<1>1. /\ consumer \in [Workers -> Consumer]
      /\ \A v \in Workers : consumer[v].pc # "pop" => consumer[v].dec \in Decisions
  BY DEF ShapeInv, RouteType
<1>2. CASE consumer' = [consumer EXCEPT ![w] = IdleConsumer]
  BY <1>1, <1>2 DEF IdleConsumer, Consumer
<1>3. CASE consumer' = [consumer EXCEPT ![w].pc = "execute"]
  <2>1. PICK c : c = [consumer[w] EXCEPT !.pc = "execute"]
    OBVIOUS
  <2>2. c \in Consumer /\ c.dec = consumer[w].dec
    BY <1>1, <2>1 DEF Consumer
  <2>3. consumer' = [consumer EXCEPT ![w] = c]
    BY <1>3, <2>1
  <2> QED BY <1>1, <2>2, <2>3
<1> QED BY <1>2, <1>3

LEMMA CheckEnvelopeCases ==
  ASSUME ShapeInv, NEW w \in Workers, CheckEnvelope(w), NEW d, d = consumer[w].dec
  PROVE  /\ consumer[w].pc = "holder" /\ d \in Decisions
         /\ \/ /\ leaseKey[target[d]] = w /\ reply' = reply
               /\ consumer' = [consumer EXCEPT ![w].pc = "execute"]
            \/ /\ consumer' = [consumer EXCEPT ![w] = IdleConsumer]
               /\ Answers(d)
         /\ UNCHANGED <<leaseVars, runRow, revision, process, localState, tasks,
                        inbox, target, executions, calls, happened, wanted>>
         /\ NoteOwners
<1>1. consumer[w].pc = "holder" /\ d \in Decisions
  BY DEF CheckEnvelope, ShapeInv, RouteType
<1>2. \/ /\ leaseKey[target[d]] = w /\ reply' = reply
         /\ consumer' = [consumer EXCEPT ![w].pc = "execute"]
      \/ /\ consumer' = [consumer EXCEPT ![w] = IdleConsumer]
         /\ Answers(d)
  BY DEF CheckEnvelope, Submit, ConsumerMayRun, AnswerIf, Answers
<1> QED BY <1>1, <1>2 DEF CheckEnvelope

LEMMA CheckEnvelopeShape ==
  ASSUME ShapeInv, NEW w \in Workers, CheckEnvelope(w)
  PROVE  ShapeInv'
<1>1. PICK d : d = consumer[w].dec
  OBVIOUS
<1>2. /\ consumer[w].pc = "holder" /\ d \in Decisions
      /\ \/ /\ reply' = reply
            /\ consumer' = [consumer EXCEPT ![w].pc = "execute"]
         \/ /\ consumer' = [consumer EXCEPT ![w] = IdleConsumer]
            /\ Answers(d)
      /\ UNCHANGED <<leaseVars, runRow, revision, process, localState, tasks,
                     inbox, target, executions, calls, happened, wanted>>
      /\ NoteOwners
  BY <1>1, CheckEnvelopeCases
<1>3. /\ consumer' \in [Workers -> Consumer]
      /\ \A v \in Workers : consumer'[v].pc # "pop" => consumer'[v].dec \in Decisions
  BY <1>2, ConsumerType
<1>4. reply' \in [Decisions -> {"none", "not_ready", "not_running", "accepted", "timeout"}]
  BY <1>2 DEF ShapeInv, RouteType, Answers
<1>5. RouteType'
  BY <1>2, <1>3, <1>4 DEF ShapeInv, RouteType
<1> QED BY <1>2, <1>5, RoutedShape

LEMMA ExecuteForwardedShape ==
  ASSUME ShapeInv, NEW w \in Workers, ExecuteForwarded(w)
  PROVE  ShapeInv' /\ consumer[w].dec \in Decisions
<1>1. PICK d : d = consumer[w].dec
  OBVIOUS
<1>2. /\ consumer[w].pc = "execute" /\ Executed(w, d)
      /\ consumer' = [consumer EXCEPT ![w] = IdleConsumer]
      /\ UNCHANGED <<leaseVars, runRow, revision, process, localState, tasks,
                     inbox, target, calls, happened, wanted>>
      /\ NoteOwners
  BY <1>1 DEF ExecuteForwarded
<1>3. d \in Decisions
  BY <1>1, <1>2 DEF ShapeInv, RouteType
<1>4. /\ consumer' \in [Workers -> Consumer]
      /\ \A v \in Workers : consumer'[v].pc # "pop" => consumer'[v].dec \in Decisions
  BY <1>2, ConsumerType
<1>5. RouteType'
  BY <1>2, <1>3, <1>4, ExecutedType DEF ShapeInv, RouteType
<1> QED BY <1>1, <1>2, <1>3, <1>5, RoutedShape

(* A process has gone, with everything it had in memory. *)
LEMMA VanishType ==
  ASSUME ShapeInv, NEW w \in Workers, Vanish(w), NoteOwners,
         happened' \in SUBSET (FaultKinds \cup Races)
  PROVE  /\ ShapeInv'
         /\ \A s \in Slots : tasks'[w][s] = IdleTask
         /\ \A v \in Workers, s \in Slots : v # w => tasks'[v][s] = tasks[v][s]
         /\ consumer'[w] = IdleConsumer
         /\ \A v \in Workers : v # w => consumer'[v] = consumer[v]
         /\ UNCHANGED <<inbox, target, reply, executions>>
<1>1. CoreType'
  BY DEF Vanish, ShapeInv, CoreType, LeaseTypeOK, ClearTimers
<1>2. LocalType'
  <2>1. [a \in Agents |-> NoGen] \in [Agents -> Gens \cup {NoGen}]
    OBVIOUS
  <2>2. NoPromise \in Promise
    BY AgentAssumption DEF NoPromise, Promise, Owners
  <2>3. promise' \in [Workers -> [Agents -> [Gens -> Promise]]]
    BY <2>2 DEF Vanish, ShapeInv, LocalType
  <2>4. actor' \in [Workers -> [Agents -> [Gens -> {"off", "starting", "on", "stopping"}]]]
    BY DEF Vanish, ShapeInv, LocalType
  <2> QED BY <2>1, <2>3, <2>4 DEF Vanish, ShapeInv, LocalType
<1>3. consumer \in [Workers -> Consumer]
  BY DEF ShapeInv, RouteType
<1>4. consumer'[w] = IdleConsumer /\ \A v \in Workers : v # w => consumer'[v] = consumer[v]
  BY <1>3 DEF Vanish
<1>5. RouteType'
  <2>1. IdleConsumer \in Consumer /\ IdleConsumer.pc = "pop"
    BY DEF IdleConsumer, Consumer
  <2>2. consumer' \in [Workers -> Consumer]
    BY <1>3, <2>1 DEF Vanish
  <2>3. \A v \in Workers : consumer'[v].pc # "pop" => consumer'[v].dec \in Decisions
    BY <1>4, <2>1 DEF ShapeInv, RouteType
  <2> QED BY <2>2, <2>3 DEF Vanish, ShapeInv, RouteType
<1>6. tasks \in [Workers -> [Slots -> ActorTask]]
  BY DEF ShapeInv, TaskType
<1>7. IdleTask \in ActorTask
  BY IdleGood DEF Good
<1>8. /\ tasks' \in [Workers -> [Slots -> ActorTask]]
      /\ \A s \in Slots : tasks'[w][s] = IdleTask
      /\ \A v \in Workers, s \in Slots : v # w => tasks'[v][s] = tasks[v][s]
  BY <1>6, <1>7 DEF Vanish
<1>9. TaskType'
  <2>1. \A v \in Workers, s \in Slots : Good(tasks'[v][s])
    BY <1>8, IdleGood DEF ShapeInv, TaskType
  <2>2. \A v \in Workers, s \in Slots : Good(tasks[v][s])'
    BY <2>1 DEF Good, Shape, ActorTask
  <2> QED BY <1>8, <2>2 DEF TaskType
<1>10. UNCHANGED <<inbox, target, reply, executions>>
  BY DEF Vanish
<1> QED BY <1>1, <1>2, <1>4, <1>5, <1>8, <1>9, <1>10, ShapeFrom

(* Only leases, faults and profiles change. *)
LEMMA EnvironmentShape ==
  ASSUME ShapeInv, NoteOwners, CoreType', UNCHANGED <<localState, tasks, routing>>
  PROVE  ShapeInv'
<1>1. TaskType'
  BY DEF ShapeInv, TaskType
<1>2. LocalType' /\ RouteType'
  BY SameLocal, SameRoute DEF ShapeInv, routing
<1> QED BY <1>1, <1>2, ShapeFrom DEF ShapeInv

Environment ==
    \/ \E w \in Workers : ShutDown(w)
    \/ \E w \in Workers, a \in Agents : RenewalStops(w, a)
    \/ \E a \in Agents : KeyRunsOut(a) \/ LeaseStalls(a) \/ ProfileChanges(a)

LEMMA EnvironmentSteps ==
  ASSUME ShapeInv, Environment
  PROVE  ShapeInv' /\ NoteOwners /\ UNCHANGED <<localState, tasks, routing>>
<1>1. ASSUME NEW w \in Workers, ShutDown(w)
      PROVE  CoreType' /\ NoteOwners /\ UNCHANGED <<localState, tasks, routing>>
  BY <1>1 DEF ShutDown, ShapeInv, CoreType, LeaseTypeOK, ClearTimers, Fault, MayFail
<1>2. ASSUME NEW w \in Workers, NEW a \in Agents, RenewalStops(w, a)
      PROVE  CoreType' /\ NoteOwners /\ UNCHANGED <<localState, tasks, routing>>
  BY <1>2 DEF RenewalStops, RenewFindsLost, ShapeInv, CoreType, LeaseTypeOK, Agents
<1>3. ASSUME NEW a \in Agents, KeyRunsOut(a)
      PROVE  CoreType' /\ NoteOwners /\ UNCHANGED <<localState, tasks, routing>>
  BY <1>3 DEF KeyRunsOut, KeyExpires, ShapeInv, CoreType, LeaseTypeOK, Agents
<1>4. ASSUME NEW a \in Agents, LeaseStalls(a)
      PROVE  CoreType' /\ NoteOwners /\ UNCHANGED <<localState, tasks, routing>>
  BY <1>4 DEF LeaseStalls, KeyExpires, ShapeInv, CoreType, LeaseTypeOK, Agents, Fault, MayFail
<1>5. ASSUME NEW a \in Agents, ProfileChanges(a)
      PROVE  CoreType' /\ NoteOwners /\ UNCHANGED <<localState, tasks, routing>>
  <2>1. calls' \in 0..MaxCalls /\ calls' = calls + 1
    BY <1>5, AgentAssumption DEF ProfileChanges, ShapeInv, CoreType
  <2>2. revision \in [Agents -> 0..MaxCalls] /\ revision[a] <= calls
    BY DEF ShapeInv, CoreType
  <2>3. /\ revision' \in [Agents -> 0..MaxCalls]
        /\ \A b \in Agents : revision'[b] <= calls'
    BY <1>5, <2>1, <2>2, AgentAssumption DEF ProfileChanges, ShapeInv, CoreType
  <2>4. CoreType'
    BY <1>5, <2>1, <2>3 DEF ProfileChanges, ShapeInv, CoreType, LeaseTypeOK, leaseVars
  <2> QED BY <1>5, <2>4 DEF ProfileChanges
<1>6. CoreType' /\ NoteOwners /\ UNCHANGED <<localState, tasks, routing>>
  BY <1>1, <1>2, <1>3, <1>4, <1>5 DEF Environment
<1> QED BY <1>6, EnvironmentShape

LEMMA InitShape == Init => ShapeInv
<1> SUFFICES ASSUME Init PROVE ShapeInv
  OBVIOUS
<1>1. CoreType
  BY AgentAssumption DEF Init, CoreType, LeaseInit, LeaseTypeOK, Agents
<1>2. LocalType
  <2>1. NoPromise \in Promise
    BY AgentAssumption DEF NoPromise, Promise, Owners
  <2> QED BY <2>1 DEF Init, LocalType
<1>3. RouteType
  <2>1. IdleConsumer \in Consumer /\ IdleConsumer.pc = "pop"
    BY DEF IdleConsumer, Consumer
  <2>2. <<>> \in Seq(Decisions) /\ <<>> \in Seq(Workers)
    OBVIOUS
  <2> QED BY <2>1, <2>2 DEF Init, RouteType
<1>4. TaskType
  BY IdleGood DEF Init, TaskType, Good
<1>5. ownersSince \in [Decisions -> SUBSET Workers]
  BY DEF Init
<1> QED BY <1>1, <1>2, <1>3, <1>4, <1>5 DEF ShapeInv

(* Every step of a task but those that execute, send or ask a decision. *)
TaskOnly(w, s) ==
    \/ EnsureStep(w, s) \/ LoopStep(w, s)
    \/ RecordRunning(w, s) \/ MarkStopped(w, s) \/ Halted(w, s)
    \/ Boot(w, s) \/ Sweep(w, s)
    \/ \E a \in Agents : StartAgentActor(w, s, a) \/ StopAgentActor(w, s, a)
    \/ \E a \in Agents, g \in Gens : Crash(w, s, a, g)

LEMMA TaskOnlyShape ==
  ASSUME ShapeInv, NEW w \in Workers, NEW s \in Slots, TaskOnly(w, s)
  PROVE  ShapeInv' /\ StepOf(w, s)
  BY EnsureShape, ScanNextShape, ListenShape, CrashedShape, RecordRunningShape,
     MarkStoppedShape, HaltedShape, BootShape, SweepShape, StartAgentActorShape,
     StopAgentActorShape, CrashShape
     DEF TaskOnly, LoopStep

LEMMA TaskOnlyRoute ==
  ASSUME NEW w, NEW s, TaskOnly(w, s)
  PROVE  NoteOwners /\ UNCHANGED <<inbox, consumer, target, executions>>
<1>1. ASSUME EnsureStep(w, s)
      PROVE  NoteOwners /\ UNCHANGED <<inbox, consumer, target, executions>>
  BY <1>1 DEF EnsureStep, ReadProfile, ProfileMissing, PriorSettled, CheckHolder,
     JoinSettled, TakeLease, ReadHolder, TornDown, Started, Aborted, GiveUpLease,
     routing
<1>2. ASSUME \/ LoopStep(w, s) \/ RecordRunning(w, s) \/ MarkStopped(w, s)
             \/ Halted(w, s) \/ Boot(w, s) \/ Sweep(w, s)
             \/ \E a \in Agents : StartAgentActor(w, s, a) \/ StopAgentActor(w, s, a)
             \/ \E a \in Agents, g \in Gens : Crash(w, s, a, g)
      PROVE  NoteOwners /\ UNCHANGED <<inbox, consumer, target, executions>>
  BY <1>2 DEF LoopStep, RecordRunning, MarkStopped, Halted, Boot, Sweep,
     StartAgentActor, StopAgentActor, Crash, ScanNext, Listen, Crashed, routing
<1> QED BY <1>1, <1>2 DEF TaskOnly

(* The steps of the specification, by what they do to a decision. *)
LEMMA Steps ==
  ASSUME Next
  PROVE  \/ \E w \in Workers, s \in Slots : TaskOnly(w, s)
         \/ \E w \in Workers, s \in Slots, d \in Decisions, a \in Agents :
               AskDecision(w, s, d, a)
         \/ \E w \in Workers, s \in Slots : Publish(w, s) \/ ExecuteHere(w, s)
         \/ \E w \in Workers : Pop(w) \/ CheckEnvelope(w) \/ ExecuteForwarded(w)
         \/ \E w \in Workers :
               Vanish(w) /\ NoteOwners /\ (happened' = happened \/ Fault("die"))
         \/ \E d \in Decisions : ReplyTimesOut(d)
         \/ Environment
<1>1. ASSUME NEW w \in Workers, NEW s \in Slots, TaskStep(w, s)
      PROVE  TaskOnly(w, s) \/ Publish(w, s) \/ ExecuteHere(w, s)
  BY <1>1 DEF TaskStep, ToolStep, TaskOnly
<1>2. ASSUME NEW w \in Workers, NEW s \in Slots, NEW a \in Agents, Call(w, s, a)
      PROVE  TaskOnly(w, s) \/ \E d \in Decisions : AskDecision(w, s, d, a)
  BY <1>2 DEF Call, TaskOnly
<1>3. ASSUME NEW w \in Workers, Die(w) \/ Exit(w)
      PROVE  Vanish(w) /\ NoteOwners /\ (happened' = happened \/ Fault("die"))
  BY <1>3 DEF Die, Exit, Vanish
<1> QED BY <1>1, <1>2, <1>3 DEF Next, TaskOnly, Consume, Environment

LEMMA NextShape ==
  ASSUME ShapeInv, [Next]_agentVars
  PROVE  ShapeInv'
<1>1. CASE UNCHANGED agentVars
  <2>1. /\ CoreType' /\ LocalType' /\ RouteType'
    BY <1>1, SameCore, SameLocal, SameRoute DEF agentVars, routing, ShapeInv
  <2>2. TaskType' /\ ownersSince' \in [Decisions -> SUBSET Workers]
    BY <1>1 DEF agentVars, ShapeInv, TaskType
  <2> QED BY <2>1, <2>2 DEF ShapeInv
<1>2. ASSUME NEW w \in Workers, Vanish(w), NoteOwners, happened' = happened \/ Fault("die")
      PROVE  ShapeInv'
  <2>1. happened' \in SUBSET (FaultKinds \cup Races)
    BY <1>2 DEF Fault, MayFail, ShapeInv, CoreType
  <2> QED BY <1>2, <2>1, VanishType
<1>3. CASE Next
  BY <1>2, <1>3, Steps, TaskOnlyShape, AskDecisionShape, PublishShape,
     ExecuteHereShape, PopShape, CheckEnvelopeShape, ExecuteForwardedShape,
     ReplyTimesOutShape, EnvironmentSteps
<1> QED BY <1>1, <1>3

LEMMA ShapeTyped == ShapeInv => TypeOK
  BY DEF ShapeInv, CoreType, LocalType, RouteType, TaskType, TypeOK, Promise, Consumer

LEMMA Shaped == Spec => []ShapeInv
<1>1. ShapeInv /\ [Next]_agentVars => ShapeInv'
  BY NextShape
<1> QED BY <1>1, InitShape, PTL DEF Spec

(* Every variable has its type, for every number of processes, agents and  *)
(* decisions.                                                              *)
THEOREM TypeCorrect == Spec => []TypeOK
  BY Shaped, ShapeTyped, PTL

-----------------------------------------------------------------------------
(* Where a decision is *)

InTask(w, s, d) == tasks[w][s].dec = d
InList(w, i, d) == i \in 1..Len(inbox[w]) /\ inbox[w][i] = d
InLoop(w, d) == consumer[w].pc # "pop" /\ consumer[w].dec = d

Called(d) == \E w \in Workers, s \in Slots : InTask(w, s, d)
Sent(d) == \E w \in Workers : \E i \in Nat : InList(w, i, d)
Popping(d) == \E w \in Workers : InLoop(w, d)
Ran(d) == executions[d] # <<>>
Nowhere(d) == ~Called(d) /\ ~Sent(d) /\ ~Popping(d) /\ ~Ran(d)
Refused == {"not_ready", "not_running"}

OneCall(d) ==
    \A v, w \in Workers, r, s \in Slots :
        InTask(v, r, d) /\ InTask(w, s, d) => v = w /\ r = s
OneEnvelope(d) ==
    \A v, w \in Workers : \A i, j \in Nat :
        InList(v, i, d) /\ InList(w, j, d) => v = w /\ i = j
OneLoop(d) ==
    \A v, w \in Workers : InLoop(v, d) /\ InLoop(w, d) => v = w

OnePlace(d) ==
    /\ OneCall(d) /\ OneEnvelope(d) /\ OneLoop(d)
    /\ Called(d) => ~Sent(d) /\ ~Popping(d) /\ ~Ran(d)
    /\ Sent(d) => ~Popping(d) /\ ~Ran(d)
    /\ Popping(d) => ~Ran(d)
    /\ Len(executions[d]) <= 1
    /\ reply[d] \in Refused => Nowhere(d)
    /\ target[d] = NoAgent => Nowhere(d) /\ reply[d] = "none"

PlaceInv == \A d \in Decisions : OnePlace(d)

(* The decision comes to no place where it was not. *)
LEMMA PlaceKept ==
  ASSUME NEW d, OnePlace(d),
         \A w \in Workers, s \in Slots : InTask(w, s, d)' => InTask(w, s, d),
         \A w \in Workers : \A i \in Nat : InList(w, i, d)' => InList(w, i, d),
         \A w \in Workers : InLoop(w, d)' => InLoop(w, d),
         executions'[d] = executions[d], target'[d] = target[d],
         reply'[d] # reply[d] =>
             ~Nowhere(d) /\ (reply'[d] \in Refused => Nowhere(d)')
  PROVE  OnePlace(d)'
<1>1. /\ Called(d)' => Called(d)
      /\ Sent(d)' => Sent(d)
      /\ Popping(d)' => Popping(d)
      /\ Ran(d)' <=> Ran(d)
  BY DEF Called, Sent, Popping, Ran
<1>2. OneCall(d)' /\ OneEnvelope(d)' /\ OneLoop(d)'
  BY DEF OnePlace, OneCall, OneEnvelope, OneLoop
<1>3. Nowhere(d) => Nowhere(d)'
  BY <1>1 DEF Nowhere
<1> QED BY <1>1, <1>2, <1>3 DEF OnePlace

LEMMA SameLists ==
  ASSUME UNCHANGED inbox, NEW d
  PROVE  \A w \in Workers : \A i \in Nat : InList(w, i, d)' => InList(w, i, d)
  BY DEF InList
LEMMA SameLoops ==
  ASSUME UNCHANGED consumer, NEW d
  PROVE  \A w \in Workers : InLoop(w, d)' => InLoop(w, d)
  BY DEF InLoop
LEMMA SameCalls ==
  ASSUME UNCHANGED tasks, NEW d
  PROVE  \A w \in Workers, s \in Slots : InTask(w, s, d)' => InTask(w, s, d)
  BY DEF InTask

(* A call that answers has dropped its decision. *)
LEMMA StepPlace ==
  ASSUME ShapeInv, PlaceInv, NEW w \in Workers, NEW s \in Slots, StepOf(w, s),
         UNCHANGED <<inbox, consumer, target, executions>>
  PROVE  PlaceInv'
<1>1. PICK t, u : t = tasks[w][s] /\ Moves(w, s, u)
  BY DEF StepOf
<1>2. /\ tasks'[w][s] = u
      /\ \A v \in Workers, r \in Slots : v # w \/ r # s => tasks'[v][r] = tasks[v][r]
      /\ u.dec \in {t.dec, NoDecision}
      /\ Replies(t, u)
  BY <1>1, BecomeTasks DEF Moves, ShapeInv
<1>3. ASSUME NEW d \in Decisions PROVE OnePlace(d)'
  <2>1. d # NoDecision
    BY AgentAssumption
  <2>2. ASSUME NEW v \in Workers, NEW r \in Slots, InTask(v, r, d)' PROVE InTask(v, r, d)
    BY <1>1, <1>2, <2>1, <2>2 DEF InTask
  <2>3. ASSUME reply'[d] # reply[d] PROVE ~Nowhere(d) /\ Nowhere(d)'
    <3>1. t.dec = d /\ u.dec = NoDecision
      BY <1>2, <2>3 DEF Replies, ShapeInv, RouteType
    <3>2. Called(d)
      BY <1>1, <3>1 DEF Called, InTask
    <3>3. ~Sent(d) /\ ~Popping(d) /\ ~Ran(d)
      BY <3>2 DEF PlaceInv, OnePlace
    <3>4. ASSUME NEW v \in Workers, NEW r \in Slots, InTask(v, r, d)' PROVE FALSE
      <4>1. InTask(v, r, d) /\ InTask(w, s, d)
        BY <1>1, <2>2, <3>1, <3>4 DEF InTask
      <4>2. v = w /\ r = s
        BY <4>1 DEF PlaceInv, OnePlace, OneCall
      <4> QED BY <1>2, <2>1, <3>1, <3>4, <4>2 DEF InTask
    <3> QED BY <3>2, <3>3, <3>4 DEF Nowhere, Called, Sent, Popping, Ran, InList, InLoop
  <2> QED BY <2>2, <2>3, SameLists, SameLoops, PlaceKept DEF PlaceInv
<1> QED BY <1>3 DEF PlaceInv

(* A new decision is with the call that asks for it, and nowhere else. *)
LEMMA AskPlace ==
  ASSUME ShapeInv, PlaceInv, NEW w \in Workers, NEW s \in Slots, NEW e \in Decisions,
         NEW a \in Agents, AskDecision(w, s, e, a)
  PROVE  PlaceInv'
<1>1. PICK u : u = [EnsureTask("decide", a) EXCEPT !.dec = e]
  OBVIOUS
<1>2. Good(u) /\ u.dec = e /\ Become(w, s, u)
  BY <1>1, DecideGood DEF AskDecision
<1>3. /\ tasks'[w][s] = u
      /\ \A v \in Workers, r \in Slots : v # w \/ r # s => tasks'[v][r] = tasks[v][r]
  BY <1>2, BecomeTasks DEF ShapeInv
<1>4. /\ target[e] = NoAgent /\ target' = [target EXCEPT ![e] = a]
      /\ UNCHANGED <<inbox, consumer, reply, executions>>
      /\ target \in [Decisions -> Agents \cup {NoAgent}]
  BY DEF AskDecision, ShapeInv, RouteType
<1>5. ASSUME NEW d \in Decisions, d # e PROVE OnePlace(d)'
  <2>1. \A v \in Workers, r \in Slots : InTask(v, r, d)' => InTask(v, r, d)
    BY <1>2, <1>3, <1>5 DEF InTask
  <2>2. target'[d] = target[d]
    BY <1>4, <1>5
  <2> QED BY <1>4, <2>1, <2>2, SameLists, SameLoops, PlaceKept DEF PlaceInv
<1>6. OnePlace(e)'
  <2>1. Nowhere(e) /\ OnePlace(e)
    BY <1>4 DEF PlaceInv, OnePlace
  <2>2. ~Sent(e)' /\ ~Popping(e)' /\ ~Ran(e)'
    BY <1>4, <2>1 DEF Nowhere, Sent, Popping, Ran, InList, InLoop
  <2>3. \A v \in Workers, r \in Slots : InTask(v, r, e)' => v = w /\ r = s
    BY <1>3, <2>1 DEF InTask, Nowhere, Called
  <2>4. OneCall(e)' /\ OneEnvelope(e)' /\ OneLoop(e)'
    BY <2>2, <2>3 DEF OneCall, OneEnvelope, OneLoop, Sent, Popping
  <2>5. reply[e] \notin Refused /\ target'[e] # NoAgent
    <3>1. target'[e] = a
      BY <1>4
    <3>2. a # NoAgent
      BY AgentAssumption
    <3>3. reply[e] \notin Refused
      BY <1>4, <2>1 DEF OnePlace, Refused
    <3> QED BY <3>1, <3>2, <3>3
  <2>6. Len(executions'[e]) <= 1
    BY <1>4, <2>1 DEF OnePlace
  <2> QED BY <1>4, <2>2, <2>4, <2>5, <2>6 DEF OnePlace, Ran
<1> QED BY <1>5, <1>6 DEF PlaceInv

(* A call that has given its decision away, or executed it. *)
LEMMA CallDone ==
  ASSUME ShapeInv, PlaceInv, NEW w \in Workers, NEW s \in Slots, NEW e \in Decisions,
         tasks[w][s].dec = e, Become(w, s, IdleTask)
  PROVE  /\ Called(e) /\ ~Sent(e) /\ ~Popping(e) /\ ~Ran(e)
         /\ ~Called(e)'
         /\ \A d \in Decisions, v \in Workers, r \in Slots :
               InTask(v, r, d)' => InTask(v, r, d)
<1>1. /\ tasks'[w][s] = IdleTask
      /\ \A v \in Workers, r \in Slots : v # w \/ r # s => tasks'[v][r] = tasks[v][r]
      /\ IdleTask.dec = NoDecision
  BY IdleGood, BecomeTasks DEF ShapeInv
<1>2. InTask(w, s, e) /\ Called(e)
  BY DEF InTask, Called
<1>3. ASSUME NEW d \in Decisions, NEW v \in Workers, NEW r \in Slots, InTask(v, r, d)'
      PROVE  InTask(v, r, d) /\ (v # w \/ r # s)
  <2>1. d # NoDecision
    BY AgentAssumption
  <2> QED BY <1>1, <1>3, <2>1 DEF InTask
<1>4. ~Called(e)'
  <2>1. OneCall(e)
    BY DEF PlaceInv, OnePlace
  <2> QED BY <1>2, <1>3, <2>1 DEF Called, OneCall
<1>5. ~Sent(e) /\ ~Popping(e) /\ ~Ran(e)
  BY <1>2 DEF PlaceInv, OnePlace
<1> QED BY <1>2, <1>3, <1>4, <1>5

(* An answer changes the reply of its decision alone. *)
LEMMA AnswerOne ==
  ASSUME ShapeInv, NEW e \in Decisions, Answers(e), NEW d \in Decisions, d # e
  PROVE  reply'[d] = reply[d]
  BY DEF Answers, ShapeInv, RouteType

LEMMA PublishPlace ==
  ASSUME ShapeInv, PlaceInv, NEW w \in Workers, NEW s \in Slots, Publish(w, s)
  PROVE  PlaceInv'
<1>1. PICK t : t = tasks[w][s]
  OBVIOUS
<1>2. t.dec \in Decisions /\ UNCHANGED <<consumer, target, executions>>
  BY <1>1, PublishCases
<1>3. PICK u :
        /\ Become(w, s, u) /\ Good(u)
        /\ \/ /\ t.owner = w /\ UNCHANGED <<inbox, reply>>
              /\ u.pc = "execute" /\ u.dec = t.dec /\ u.agent = t.agent
           \/ /\ u = IdleTask /\ inbox' = inbox
              /\ Answers(t.dec)
           \/ /\ u = IdleTask /\ reply' = reply
              /\ \E o \in Workers :
                    inbox' = [inbox EXCEPT ![o] = Append(inbox[o], t.dec)]
  BY <1>1, PublishCases
<1>4. CASE UNCHANGED <<inbox, reply>> /\ u.dec = t.dec
  <2>1. /\ tasks'[w][s] = u
        /\ \A v \in Workers, r \in Slots : v # w \/ r # s => tasks'[v][r] = tasks[v][r]
    BY <1>3, BecomeTasks DEF ShapeInv
  <2>2. \A d \in Decisions, v \in Workers, r \in Slots :
           InTask(v, r, d)' => InTask(v, r, d)
    BY <1>1, <1>4, <2>1 DEF InTask
  <2>3. ASSUME NEW d \in Decisions PROVE OnePlace(d)'
    BY <1>2, <1>4, <2>2, SameLists, SameLoops, PlaceKept DEF PlaceInv
  <2> QED BY <2>3 DEF PlaceInv
<1>5. CASE /\ u = IdleTask /\ inbox' = inbox
           /\ Answers(t.dec)
  <2>1. PICK e : e = t.dec
    OBVIOUS
  <2>2. /\ Called(e) /\ ~Sent(e) /\ ~Popping(e) /\ ~Ran(e) /\ ~Called(e)'
        /\ \A d \in Decisions, v \in Workers, r \in Slots :
              InTask(v, r, d)' => InTask(v, r, d)
    BY <1>1, <1>2, <1>3, <1>5, <2>1, CallDone
  <2>3. Nowhere(e)' /\ ~Nowhere(e)
    BY <1>2, <1>5, <2>2 DEF Nowhere, Sent, Popping, Ran, InList, InLoop
  <2>4. ASSUME NEW d \in Decisions PROVE OnePlace(d)'
    <3>1. reply'[d] # reply[d] => d = e
      BY <1>2, <1>5, <2>1, AnswerOne
    <3>2. reply'[d] # reply[d] => ~Nowhere(d) /\ (reply'[d] \in Refused => Nowhere(d)')
      BY <2>3, <3>1
    <3> QED BY <1>2, <1>5, <2>2, <3>2, SameLists, SameLoops, PlaceKept DEF PlaceInv
  <2> QED BY <2>4 DEF PlaceInv
<1>6. ASSUME u = IdleTask, reply' = reply, NEW o \in Workers,
             inbox' = [inbox EXCEPT ![o] = Append(inbox[o], t.dec)]
      PROVE  PlaceInv'
  <2>1. PICK e : e = t.dec
    OBVIOUS
  <2>2. /\ Called(e) /\ ~Sent(e) /\ ~Popping(e) /\ ~Ran(e) /\ ~Called(e)'
        /\ \A d \in Decisions, v \in Workers, r \in Slots :
              InTask(v, r, d)' => InTask(v, r, d)
    BY <1>1, <1>2, <1>3, <1>6, <2>1, CallDone
  <2>3. inbox \in [Workers -> Seq(Decisions)] /\ inbox[o] \in Seq(Decisions)
    BY DEF ShapeInv, RouteType
  <2>4. \A v \in Workers : v # o => inbox'[v] = inbox[v]
    BY <1>6, <2>3
  <2>5. /\ Len(inbox'[o]) = Len(inbox[o]) + 1
        /\ inbox'[o][Len(inbox[o]) + 1] = e
        /\ \A i \in 1..Len(inbox[o]) : inbox'[o][i] = inbox[o][i]
    <3>1. inbox'[o] = Append(inbox[o], e)
      BY <1>6, <2>1, <2>3
    <3> QED BY <1>2, <2>1, <2>3, <3>1
  <2>6. ASSUME NEW d, NEW v \in Workers, NEW i \in Nat, InList(v, i, d)'
        PROVE  InList(v, i, d) \/ (d = e /\ v = o /\ i = Len(inbox[o]) + 1)
    <3>1. CASE v # o
      BY <2>4, <2>6, <3>1 DEF InList
    <3>2. CASE v = o
      <4>1. Len(inbox[o]) \in Nat
        BY <2>3
      <4>2. i \in 1..Len(inbox[o]) \/ i = Len(inbox[o]) + 1
        BY <2>5, <2>6, <3>2, <4>1 DEF InList
      <4> QED BY <2>5, <2>6, <3>2, <4>2 DEF InList
    <3> QED BY <3>1, <3>2
  <2>7. ASSUME NEW d \in Decisions, d # e PROVE OnePlace(d)'
    BY <1>2, <1>6, <2>2, <2>6, <2>7, SameLoops, PlaceKept DEF PlaceInv
  <2>8. OnePlace(e)'
    <3>1. ~Popping(e)' /\ ~Ran(e)'
      BY <1>2, <2>2 DEF Popping, Ran, InLoop
    <3>2. OneCall(e)' /\ OneLoop(e)'
      BY <2>2, <3>1 DEF OneCall, OneLoop, Called, Popping
    <3>3. OneEnvelope(e)'
      BY <2>2, <2>6 DEF OneEnvelope, Sent
    <3>4. /\ Len(executions'[e]) <= 1 /\ reply'[e] \notin Refused /\ target'[e] # NoAgent
      <4>1. ~Nowhere(e) /\ OnePlace(e)
        BY <1>2, <2>1, <2>2 DEF Nowhere, PlaceInv
      <4> QED BY <1>2, <1>6, <4>1 DEF OnePlace
    <3> QED BY <2>2, <3>1, <3>2, <3>3, <3>4 DEF OnePlace
  <2> QED BY <2>7, <2>8 DEF PlaceInv
<1> QED BY <1>3, <1>4, <1>5, <1>6

(* The envelope leaves the list for the consumer. *)
LEMMA PopPlace ==
  ASSUME ShapeInv, PlaceInv, NEW w \in Workers, Pop(w)
  PROVE  PlaceInv'
<1>1. PICK e : e = Head(inbox[w])
  OBVIOUS
<1>2. e \in Decisions
  BY <1>1, PopShape
<1>3. /\ consumer[w].pc = "pop" /\ inbox[w] # <<>>
      /\ inbox' = [inbox EXCEPT ![w] = Tail(inbox[w])]
      /\ UNCHANGED <<tasks, target, reply, executions>>
  BY DEF Pop, Popped
<1>4. /\ inbox \in [Workers -> Seq(Decisions)] /\ inbox[w] \in Seq(Decisions)
      /\ consumer \in [Workers -> Consumer]
  BY DEF ShapeInv, RouteType
<1>5. /\ consumer'[w].dec = e /\ \A v \in Workers : v # w => consumer'[v] = consumer[v]
  BY <1>1, <1>4 DEF Pop
<1>6. Len(inbox[w]) \in Nat /\ Len(inbox[w]) >= 1 /\ inbox[w][1] = e
  BY <1>1, <1>3, <1>4
<1>7. InList(w, 1, e) /\ Sent(e)
  BY <1>6 DEF InList, Sent
<1>8. ASSUME NEW d, NEW v \in Workers, NEW i \in Nat, InList(v, i, d)'
      PROVE  \/ v # w /\ InList(v, i, d)
             \/ v = w /\ i >= 1 /\ InList(w, i + 1, d)
  <2>1. CASE v # w
    <3>1. inbox'[v] = inbox[v]
      BY <1>3, <1>4, <2>1
    <3> QED BY <1>8, <2>1, <3>1 DEF InList
  <2>2. CASE v = w
    <3>1. inbox'[w] = Tail(inbox[w])
      BY <1>3, <1>4
    <3>2. /\ Len(inbox'[w]) = Len(inbox[w]) - 1
          /\ \A j \in 1..Len(inbox[w]) - 1 : inbox'[w][j] = inbox[w][j + 1]
      BY <1>3, <1>4, <3>1
    <3>3. i \in 1..Len(inbox[w]) - 1 /\ inbox'[w][i] = d
      BY <1>8, <2>2, <3>2 DEF InList
    <3> QED BY <1>6, <2>2, <3>2, <3>3 DEF InList
  <2> QED BY <2>1, <2>2
<1>9. ASSUME NEW d \in Decisions PROVE OneEnvelope(d)' /\ (Sent(d)' => Sent(d))
  <2>1. OneEnvelope(d)
    BY DEF PlaceInv, OnePlace
  <2>2. ASSUME NEW v \in Workers, NEW x \in Workers, NEW i \in Nat, NEW j \in Nat,
               InList(v, i, d)', InList(x, j, d)'
        PROVE  v = x /\ i = j
    BY <1>8, <2>1, <2>2 DEF OneEnvelope
  <2>3. Sent(d)' => Sent(d)
    BY <1>8 DEF Sent
  <2> QED BY <2>2, <2>3 DEF OneEnvelope
<1>10. ASSUME NEW d \in Decisions, d # e PROVE OnePlace(d)'
  <2>1. \A v \in Workers : InLoop(v, d)' => InLoop(v, d)
    BY <1>5, <1>10 DEF InLoop
  <2>2. /\ Called(d)' <=> Called(d)
        /\ Popping(d)' => Popping(d)
        /\ Ran(d)' <=> Ran(d)
    BY <1>3, <2>1 DEF Called, Popping, Ran, InTask
  <2>3. OneCall(d)' /\ OneLoop(d)'
    BY <1>3, <2>1 DEF PlaceInv, OnePlace, OneCall, OneLoop, InTask
  <2>4. Nowhere(d) => Nowhere(d)'
    BY <1>9, <2>2 DEF Nowhere
  <2>5. OnePlace(d) /\ OneEnvelope(d)' /\ (Sent(d)' => Sent(d))
    BY <1>9 DEF PlaceInv
  <2> QED BY <1>3, <2>2, <2>3, <2>4, <2>5 DEF OnePlace
<1>11. OnePlace(e)'
  <2>1. OnePlace(e) /\ ~Called(e) /\ ~Popping(e) /\ ~Ran(e) /\ ~Nowhere(e)
    BY <1>2, <1>7 DEF PlaceInv, OnePlace, Nowhere
  <2>2. ~Sent(e)'
    <3>1. ASSUME NEW v \in Workers, NEW i \in Nat, InList(v, i, e)' PROVE FALSE
      BY <1>7, <1>8, <2>1, <3>1 DEF OnePlace, OneEnvelope
    <3> QED BY <3>1 DEF Sent
  <2>3. ~Called(e)' /\ ~Ran(e)' /\ OneCall(e)' /\ OneEnvelope(e)'
    BY <1>2, <1>3, <1>9, <2>1 DEF Called, Ran, InTask, OnePlace, OneCall
  <2>4. OneLoop(e)'
    <3>1. ASSUME NEW v \in Workers, InLoop(v, e)' PROVE v = w
      BY <1>5, <2>1, <3>1 DEF InLoop, Popping
    <3> QED BY <3>1 DEF OneLoop
  <2>5. Len(executions'[e]) <= 1 /\ reply'[e] \notin Refused /\ target'[e] # NoAgent
    BY <1>3, <2>1 DEF OnePlace
  <2> QED BY <2>2, <2>3, <2>4, <2>5 DEF OnePlace
<1> QED BY <1>10, <1>11 DEF PlaceInv

(* The decision is executed, and has left where it was. *)
LEMMA RunPlace ==
  ASSUME ShapeInv, PlaceInv, NEW w \in Workers, NEW e \in Decisions, Executed(w, e),
         Called(e) \/ Popping(e), ~Called(e)', ~Popping(e)',
         UNCHANGED <<inbox, target>>,
         \A d \in Decisions, v \in Workers, r \in Slots :
             InTask(v, r, d)' => InTask(v, r, d),
         \A d \in Decisions, v \in Workers : InLoop(v, d)' => InLoop(v, d)
  PROVE  PlaceInv'
<1>1. executions \in [Decisions -> Seq(Workers)]
  BY DEF ShapeInv, RouteType
<1>2. /\ executions'[e] = Append(executions[e], w)
      /\ \A d \in Decisions : d # e => executions'[d] = executions[d]
  BY <1>1 DEF Executed
<1>3. \A d \in Decisions : d # e => reply'[d] = reply[d]
  BY DEF Executed, AnswerIf, ShapeInv, RouteType
<1>4. ASSUME NEW d \in Decisions, d # e PROVE OnePlace(d)'
  BY <1>2, <1>3, <1>4, SameLists, PlaceKept DEF PlaceInv
<1>5. OnePlace(e)'
  <2>1. OnePlace(e) /\ ~Sent(e) /\ ~Ran(e) /\ ~Nowhere(e)
    BY DEF PlaceInv, OnePlace, Nowhere
  <2>2. Len(executions'[e]) <= 1
    BY <1>2, <2>1 DEF Ran
  <2>3. ~Sent(e)'
    BY <2>1 DEF Sent, InList
  <2>4. OneCall(e)' /\ OneEnvelope(e)' /\ OneLoop(e)'
    BY <2>3 DEF OneCall, OneEnvelope, OneLoop, Called, Sent, Popping
  <2>5. reply'[e] \notin Refused
    <3>1. reply[e] \notin Refused /\ reply \in [Decisions -> {"none", "not_ready",
              "not_running", "accepted", "timeout"}]
      BY <2>1 DEF OnePlace, ShapeInv, RouteType
    <3> QED BY <3>1 DEF Executed, AnswerIf, Refused
  <2>6. target'[e] # NoAgent
    BY <2>1 DEF OnePlace
  <2> QED BY <2>2, <2>3, <2>4, <2>5, <2>6 DEF OnePlace
<1> QED BY <1>4, <1>5 DEF PlaceInv

LEMMA ExecuteHerePlace ==
  ASSUME ShapeInv, PlaceInv, NEW w \in Workers, NEW s \in Slots, ExecuteHere(w, s)
  PROVE  PlaceInv'
<1>1. PICK e : e = tasks[w][s].dec
  OBVIOUS
<1>2. /\ e \in Decisions /\ Executed(w, e) /\ Become(w, s, IdleTask)
      /\ UNCHANGED <<inbox, target, consumer>>
  BY <1>1, ExecuteHereShape DEF ExecuteHere
<1>3. /\ Called(e) /\ ~Popping(e) /\ ~Called(e)'
      /\ \A d \in Decisions, v \in Workers, r \in Slots :
            InTask(v, r, d)' => InTask(v, r, d)
  BY <1>1, <1>2, CallDone
<1>4. ~Popping(e)' /\ \A d \in Decisions, v \in Workers : InLoop(v, d)' => InLoop(v, d)
  BY <1>2, <1>3 DEF Popping, InLoop
<1> QED BY <1>2, <1>3, <1>4, RunPlace

(* A consumer that is done with its envelope. *)
LEMMA LoopDone ==
  ASSUME ShapeInv, PlaceInv, NEW w \in Workers, consumer[w].pc # "pop",
         consumer' = [consumer EXCEPT ![w] = IdleConsumer], NEW e, e = consumer[w].dec
  PROVE  /\ e \in Decisions /\ Popping(e) /\ ~Popping(e)'
         /\ ~Called(e) /\ ~Sent(e) /\ ~Ran(e)
         /\ \A d \in Decisions, v \in Workers : InLoop(v, d)' => InLoop(v, d)
<1>1. e \in Decisions /\ consumer \in [Workers -> Consumer]
  BY DEF ShapeInv, RouteType
<1>2. InLoop(w, e) /\ Popping(e)
  BY DEF InLoop, Popping
<1>3. OneLoop(e) /\ ~Called(e) /\ ~Sent(e) /\ ~Ran(e)
  BY <1>1, <1>2 DEF PlaceInv, OnePlace
<1>4. consumer'[w].pc = "pop" /\ \A v \in Workers : v # w => consumer'[v] = consumer[v]
  BY <1>1 DEF IdleConsumer
<1>5. \A d \in Decisions, v \in Workers : InLoop(v, d)' => v # w /\ InLoop(v, d)
  BY <1>4 DEF InLoop
<1>6. ~Popping(e)'
  BY <1>1, <1>2, <1>3, <1>5 DEF Popping, OneLoop
<1> QED BY <1>1, <1>2, <1>3, <1>5, <1>6

LEMMA CheckEnvelopePlace ==
  ASSUME ShapeInv, PlaceInv, NEW w \in Workers, CheckEnvelope(w)
  PROVE  PlaceInv'
<1>1. PICK e : e = consumer[w].dec
  OBVIOUS
<1>2. /\ consumer[w].pc = "holder" /\ e \in Decisions
      /\ \/ /\ reply' = reply
            /\ consumer' = [consumer EXCEPT ![w].pc = "execute"]
         \/ /\ consumer' = [consumer EXCEPT ![w] = IdleConsumer]
            /\ Answers(e)
      /\ UNCHANGED <<tasks, inbox, target, executions>>
  BY <1>1, CheckEnvelopeCases
<1>3. CASE reply' = reply /\ consumer' = [consumer EXCEPT ![w].pc = "execute"]
  <2>1. /\ \A v \in Workers : v # w => consumer'[v] = consumer[v]
        /\ \A v \in Workers : consumer'[v].pc # "pop" => consumer'[v].dec = consumer[v].dec
    BY <1>2, <1>3, ConsumerType
  <2>2. \A d \in Decisions, v \in Workers : InLoop(v, d)' => InLoop(v, d)
    BY <1>2, <2>1 DEF InLoop
  <2>3. ASSUME NEW d \in Decisions PROVE OnePlace(d)'
    BY <1>2, <1>3, <2>2, SameCalls, SameLists, PlaceKept DEF PlaceInv
  <2> QED BY <2>3 DEF PlaceInv
<1>4. CASE /\ consumer' = [consumer EXCEPT ![w] = IdleConsumer]
           /\ Answers(e)
  <2>1. /\ Popping(e) /\ ~Popping(e)' /\ ~Called(e) /\ ~Sent(e) /\ ~Ran(e)
        /\ \A d \in Decisions, v \in Workers : InLoop(v, d)' => InLoop(v, d)
    BY <1>1, <1>2, <1>4, LoopDone
  <2>2. ~Nowhere(e) /\ Nowhere(e)'
    BY <1>2, <2>1 DEF Nowhere, Called, Sent, Ran, InTask, InList
  <2>3. ASSUME NEW d \in Decisions PROVE OnePlace(d)'
    <3>1. reply'[d] # reply[d] => ~Nowhere(d) /\ (reply'[d] \in Refused => Nowhere(d)')
      BY <1>2, <1>4, <2>2, AnswerOne
    <3> QED BY <1>2, <2>1, <3>1, SameCalls, SameLists, PlaceKept DEF PlaceInv
  <2> QED BY <2>3 DEF PlaceInv
<1> QED BY <1>2, <1>3, <1>4

LEMMA ExecuteForwardedPlace ==
  ASSUME ShapeInv, PlaceInv, NEW w \in Workers, ExecuteForwarded(w)
  PROVE  PlaceInv'
<1>1. PICK e : e = consumer[w].dec
  OBVIOUS
<1>2. /\ consumer[w].pc = "execute" /\ Executed(w, e)
      /\ consumer' = [consumer EXCEPT ![w] = IdleConsumer]
      /\ UNCHANGED <<tasks, inbox, target>>
  BY <1>1 DEF ExecuteForwarded
<1>3. /\ e \in Decisions /\ Popping(e) /\ ~Popping(e)' /\ ~Called(e)
      /\ \A d \in Decisions, v \in Workers : InLoop(v, d)' => InLoop(v, d)
  BY <1>1, <1>2, LoopDone
<1>4. ~Called(e)' /\ \A d \in Decisions, v \in Workers, r \in Slots :
         InTask(v, r, d)' => InTask(v, r, d)
  BY <1>2, <1>3 DEF Called, InTask
<1> QED BY <1>2, <1>3, <1>4, RunPlace

LEMMA ReplyTimesOutPlace ==
  ASSUME ShapeInv, PlaceInv, NEW e \in Decisions, ReplyTimesOut(e)
  PROVE  PlaceInv'
<1>1. /\ target[e] # NoAgent /\ reply' = [reply EXCEPT ![e] = "timeout"]
      /\ UNCHANGED <<tasks, inbox, consumer, target, executions>>
  BY DEF ReplyTimesOut
<1>2. reply \in [Decisions -> {"none", "not_ready", "not_running", "accepted", "timeout"}]
  BY DEF ShapeInv, RouteType
<1>3. ASSUME NEW d \in Decisions
      PROVE  /\ Called(d)' = Called(d)
             /\ Sent(d)' = Sent(d)
             /\ Popping(d)' = Popping(d)
             /\ Ran(d)' = Ran(d)
             /\ OneCall(d)' = OneCall(d)
             /\ OneEnvelope(d)' = OneEnvelope(d)
             /\ OneLoop(d)' = OneLoop(d)
  BY <1>1 DEF Called, Sent, Popping, Ran, OneCall, OneEnvelope, OneLoop,
              InTask, InList, InLoop
<1>4. ASSUME NEW d \in Decisions PROVE OnePlace(d)'
  <2>1. OnePlace(d)
    BY DEF PlaceInv
  <2>2. d # e => reply'[d] = reply[d]
    BY <1>1, <1>2
  <2>3. reply'[e] = "timeout"
    BY <1>1, <1>2
  <2> QED BY <1>1, <1>3, <2>1, <2>2, <2>3 DEF OnePlace, Nowhere, Refused
<1> QED BY <1>4 DEF PlaceInv

LEMMA VanishPlace ==
  ASSUME ShapeInv, PlaceInv, NEW w \in Workers, Vanish(w), NoteOwners,
         happened' = happened \/ Fault("die")
  PROVE  PlaceInv'
<1>1. happened' \in SUBSET (FaultKinds \cup Races)
  BY DEF Fault, MayFail, ShapeInv, CoreType
<1>2. /\ \A s \in Slots : tasks'[w][s] = IdleTask
      /\ \A v \in Workers, s \in Slots : v # w => tasks'[v][s] = tasks[v][s]
      /\ consumer'[w] = IdleConsumer
      /\ \A v \in Workers : v # w => consumer'[v] = consumer[v]
      /\ UNCHANGED <<inbox, target, reply, executions>>
  BY <1>1, VanishType
<1>3. IdleTask.dec = NoDecision /\ IdleConsumer.pc = "pop"
  BY IdleGood DEF IdleConsumer
<1>4. ASSUME NEW d \in Decisions PROVE OnePlace(d)'
  <2>1. d # NoDecision
    BY AgentAssumption
  <2>2. \A v \in Workers, s \in Slots : InTask(v, s, d)' => InTask(v, s, d)
    BY <1>2, <1>3, <2>1 DEF InTask
  <2>3. \A v \in Workers : InLoop(v, d)' => InLoop(v, d)
    BY <1>2, <1>3 DEF InLoop
  <2> QED BY <1>2, <2>2, <2>3, SameLists, PlaceKept DEF PlaceInv
<1> QED BY <1>4 DEF PlaceInv

LEMMA SamePlace ==
  ASSUME PlaceInv, UNCHANGED <<tasks, inbox, consumer, target, reply, executions>>
  PROVE  PlaceInv'
<1>1. ASSUME NEW d \in Decisions PROVE OnePlace(d)'
  BY SameCalls, SameLists, SameLoops, PlaceKept DEF PlaceInv
<1> QED BY <1>1 DEF PlaceInv

LEMMA NextPlace ==
  ASSUME ShapeInv, PlaceInv, [Next]_agentVars
  PROVE  PlaceInv'
<1>1. CASE UNCHANGED agentVars
  BY <1>1, SamePlace DEF agentVars, routing
<1>2. CASE Environment
  BY <1>2, EnvironmentSteps, SamePlace DEF routing
<1>3. ASSUME NEW w \in Workers, NEW s \in Slots, TaskOnly(w, s) PROVE PlaceInv'
  BY <1>3, TaskOnlyShape, TaskOnlyRoute, StepPlace
<1> QED BY <1>1, <1>2, <1>3, Steps, AskPlace, PublishPlace, ExecuteHerePlace,
           PopPlace, CheckEnvelopePlace, ExecuteForwardedPlace, VanishPlace,
           ReplyTimesOutPlace

LEMMA InitPlace == Init => PlaceInv
<1> SUFFICES ASSUME Init, NEW d \in Decisions PROVE OnePlace(d)
  BY DEF PlaceInv
<1>1. d # NoDecision
  BY AgentAssumption
<1>2. Nowhere(d)
  <2>1. ~Called(d)
    BY <1>1, IdleGood DEF Init, Called, InTask
  <2>2. ~Sent(d)
    BY DEF Init, Sent, InList
  <2>3. ~Popping(d) /\ ~Ran(d)
    BY DEF Init, Popping, Ran, InLoop, IdleConsumer
  <2> QED BY <2>1, <2>2, <2>3 DEF Nowhere
<1>3. OneCall(d) /\ OneEnvelope(d) /\ OneLoop(d)
  BY <1>2 DEF Nowhere, Called, Sent, Popping, OneCall, OneEnvelope, OneLoop
<1>4. Len(executions[d]) <= 1 /\ reply[d] = "none"
  BY DEF Init
<1> QED BY <1>2, <1>3, <1>4 DEF OnePlace, Refused, Nowhere

LEMMA Placed == Spec => []PlaceInv
<1>1. ShapeInv /\ PlaceInv /\ [Next]_agentVars => PlaceInv'
  BY NextPlace
<1> QED BY <1>1, InitPlace, Shaped, PTL DEF Spec

(* Whatever fails and however often it is forwarded, a decision is         *)
(* executed at most once, and never after its caller was told that it was  *)
(* refused.                                                                *)
THEOREM DecisionsRunOnce == Spec => []ExecutedOnce
<1>1. PlaceInv => ExecutedOnce
  BY DEF PlaceInv, OnePlace, ExecutedOnce, Nowhere, Ran, Refused
<1> QED BY <1>1, Placed, PTL

-----------------------------------------------------------------------------
(* Who has held the lease since a decision was asked for *)

Held(w, d) == w \in ownersSince[d]

(* Who settled promise g of agent a in w, or may still settle it, took the *)
(* lease after d was asked for.                                            *)
Proven(w, a, g, d) ==
    /\ promise[w][a][g].st = "done" /\ promise[w][a][g].owner = w => Held(w, d)
    /\ \A r \in Slots :
          tasks[w][r].agent = a /\ tasks[w][r].gen = g /\ tasks[w][r].pc \in LeasePcs
              => Held(w, d)

(* The promise in the cache, other than q, is one of these. *)
CacheProven(w, a, d, q) ==
    \A g \in Gens : g = ensureCache[w][a] /\ g # q => Proven(w, a, g, d)

(* What task t of w has for its decision. *)
Owns(w, t) ==
    t.dec \in Decisions =>
        /\ target[t.dec] = t.agent
        /\ t.pc \in {"waitPrior", "checkHolder"} =>
              CacheProven(w, t.agent, t.dec, t.prior)
        /\ t.pc = "join" => Proven(w, t.agent, t.gen, t.dec)
        /\ t.pc \in LeasePcs => Held(w, t.dec)
        /\ t.pc = "publish" /\ t.owner = w => Held(w, t.dec)
        /\ t.pc = "execute" => Held(w, t.dec)

Owned(w, s) == \A t \in ActorTask : t = tasks[w][s] => Owns(w, t)

OwnerInv ==
    /\ \A w \in Workers, s \in Slots : Owned(w, s)
    /\ \A w \in Workers :
          consumer[w].pc = "execute" => Held(w, consumer[w].dec)
    /\ OwnerExecutes

(* The holders of a decision that is asked for and not executed only grow, *)
(* and whoever holds the lease now is one of them.                         *)
LEMMA HeldGrows ==
  ASSUME ShapeInv, ShapeInv', NoteOwners, NEW d \in Decisions,
         target[d] \in Agents, target'[d] = target[d]
  PROVE  /\ \A w \in Workers : Held(w, d) => Held(w, d)'
         /\ ~Ran(d) => \A w \in Workers : leaseKey'[target[d]] = w => Held(w, d)'
<1>1. target'[d] # NoAgent
  BY AgentAssumption
<1>2. ownersSince'[d] = IF executions[d] # <<>> THEN ownersSince[d]
                        ELSE ownersSince[d] \cup ({leaseKey'[target'[d]]} \ {NoWorker})
  BY <1>1 DEF NoteOwners
<1>3. \A w \in Workers : w # NoWorker
  BY NoWorkerAssumption
<1> QED BY <1>2, <1>3 DEF Held, Ran

(* A task with a decision: the decision is asked for, and not executed.    *)
LEMMA CalledOpen ==
  ASSUME ShapeInv, PlaceInv, NEW w \in Workers, NEW s \in Slots, NEW d \in Decisions,
         tasks[w][s].dec = d
  PROVE  target[d] \in Agents /\ ~Ran(d)
<1>1. Called(d)
  BY DEF Called, InTask
<1>2. target[d] # NoAgent /\ ~Ran(d)
  BY <1>1 DEF PlaceInv, OnePlace, Nowhere
<1> QED BY <1>2 DEF ShapeInv, RouteType

LEMMA ProvenKept ==
  ASSUME ShapeInv, ShapeInv', NoteOwners, NEW w \in Workers, NEW s \in Slots, StepOf(w, s),
         NEW v \in Workers, NEW a \in Agents, NEW g \in Gens, NEW d \in Decisions,
         target[d] = a, target'[d] = a, ~Ran(d), Proven(v, a, g, d)
  PROVE  Proven(v, a, g, d)'
<1>1. PICK t, u : t = tasks[w][s] /\ Moves(w, s, u)
  BY DEF StepOf
<1>2. /\ tasks'[w][s] = u
      /\ \A x \in Workers, r \in Slots : x # w \/ r # s => tasks'[x][r] = tasks[x][r]
      /\ Vouched(w, t, u)
  BY <1>1, BecomeTasks DEF Moves, ShapeInv
<1>3. /\ Held(v, d) => Held(v, d)'
      /\ leaseKey'[a] = v => Held(v, d)'
  BY HeldGrows
<1>4. ASSUME promise'[v][a][g].st = "done", promise'[v][a][g].owner = v
      PROVE  Held(v, d)'
  <2>1. \/ promise'[v][a][g] = promise[v][a][g]
        \/ v = w /\ a = t.agent /\ g = t.gen /\ t.pc = "starting"
    BY <1>1, <1>4 DEF StepOf, PromisesKept
  <2> QED BY <1>1, <1>3, <1>4, <2>1 DEF Proven, LeasePcs
<1>5. ASSUME NEW r \in Slots, tasks'[v][r].agent = a, tasks'[v][r].gen = g,
             tasks'[v][r].pc \in LeasePcs
      PROVE  Held(v, d)'
  <2>1. CASE v # w \/ r # s
    BY <1>2, <1>3, <1>5, <2>1 DEF Proven
  <2>2. CASE v = w /\ r = s
    BY <1>1, <1>2, <1>3, <1>5, <2>2 DEF Proven, Vouched
  <2> QED BY <2>1, <2>2
<1> QED BY <1>4, <1>5 DEF Proven

(* What the cache holds after the step is as good as what it held, or new. *)
LEMMA CachedProven ==
  ASSUME ShapeInv, ShapeInv', NoteOwners, NEW w \in Workers, NEW s \in Slots, StepOf(w, s),
         NEW v \in Workers, NEW a \in Agents, NEW d \in Decisions, NEW q,
         target[d] = a, target'[d] = a, ~Ran(d), CacheProven(v, a, d, q)
  PROVE  CacheProven(v, a, d, q)'
<1> SUFFICES ASSUME NEW g \in Gens, g = ensureCache'[v][a], g # q
             PROVE  Proven(v, a, g, d)'
  BY DEF CacheProven
<1>1. CASE g = ensureCache[v][a]
  BY <1>1, ProvenKept DEF CacheProven
<1>2. CASE g # ensureCache[v][a]
  <2>1. /\ promise'[v][a][g].st # "done"
        /\ \A r \in Slots :
              tasks'[v][r].agent = a /\ tasks'[v][r].gen = g
                  => tasks'[v][r].pc \notin LeasePcs
    BY <1>2, AgentAssumption DEF StepOf, CacheKept
  <2> QED BY <2>1 DEF Proven
<1> QED BY <1>1, <1>2

(* A task that did not move has what it had. *)
LEMMA OwnsKept ==
  ASSUME ShapeInv, ShapeInv', PlaceInv, OwnerInv, NoteOwners, UNCHANGED target,
         NEW w \in Workers, NEW s \in Slots, StepOf(w, s),
         NEW v \in Workers, NEW r \in Slots, tasks'[v][r] = tasks[v][r]
  PROVE  Owned(v, r)'
<1> SUFFICES ASSUME NEW t \in ActorTask, t = tasks'[v][r], t.dec \in Decisions
             PROVE  Owns(v, t)'
  BY DEF Owned, Owns
<1>1. t = tasks[v][r]
  OBVIOUS
<1>2. PICK d, a, p, g : d = t.dec /\ a = t.agent /\ p = t.prior /\ g = t.gen
  OBVIOUS
<1>3. Owns(v, t)
  BY <1>1 DEF OwnerInv, Owned
<1>4. /\ d \in Decisions /\ target[d] = a /\ a \in Agents /\ ~Ran(d) /\ target'[d] = a
  BY <1>1, <1>2, <1>3, CalledOpen DEF Owns
<1>5. Held(v, d) => Held(v, d)'
  BY <1>4, HeldGrows
<1>6. t.pc \in {"waitPrior", "checkHolder"} => CacheProven(v, a, d, p)'
  <2>1. t.pc \in {"waitPrior", "checkHolder"} => CacheProven(v, a, d, p)
    BY <1>2, <1>3 DEF Owns
  <2> QED BY <1>4, <2>1, CachedProven
<1>7. t.pc = "join" => Proven(v, a, g, d)'
  <2>1. t.pc = "join" => g \in Gens /\ Proven(v, a, g, d)
    BY <1>1, <1>2, <1>3, TaskAt DEF Owns, ShapeInv, Shape, GenPcs
  <2> QED BY <1>4, <2>1, ProvenKept
<1>8. /\ t.pc \in LeasePcs => Held(v, d)'
      /\ t.pc = "publish" /\ t.owner = v => Held(v, d)'
      /\ t.pc = "execute" => Held(v, d)'
  BY <1>2, <1>3, <1>5 DEF Owns
<1> QED BY <1>2, <1>4, <1>6, <1>7, <1>8 DEF Owns

(* The task that moved: what it has for its decision it has from its lease *)
(* or read it in this step.                                                *)
LEMMA OwnsMoved ==
  ASSUME ShapeInv, ShapeInv', PlaceInv, OwnerInv, NoteOwners, UNCHANGED target,
         NEW w \in Workers, NEW s \in Slots, StepOf(w, s)
  PROVE  Owned(w, s)'
<1>1. PICK t, u : t = tasks[w][s] /\ Moves(w, s, u)
  BY DEF StepOf
<1>2. /\ tasks'[w][s] = u
      /\ u.dec \in {t.dec, NoDecision}
      /\ Vouched(w, t, u)
      /\ u.dec # NoDecision => Earned(w, t, u)
  BY <1>1, BecomeTasks DEF Moves, ShapeInv
<1>3. NoDecision \notin Decisions
  BY AgentAssumption
<1>4. SUFFICES ASSUME u.dec \in Decisions PROVE Owns(w, u)'
  BY <1>2 DEF Owned, Owns
<1>5. PICK d, a, p, g : d = t.dec /\ a = t.agent /\ p = u.prior /\ g = u.gen
  OBVIOUS
<1>6. d \in Decisions /\ u.dec = d /\ u.agent = a /\ Earned(w, t, u)
  BY <1>2, <1>3, <1>4, <1>5 DEF Earned
<1>7. Owns(w, t)
  BY <1>1, TaskAt DEF OwnerInv, Owned, ShapeInv, Good
<1>8. target[d] = a /\ a \in Agents /\ ~Ran(d) /\ target'[d] = a
  BY <1>1, <1>5, <1>6, <1>7, CalledOpen DEF Owns
<1>9. /\ Held(w, d) => Held(w, d)'
      /\ leaseKey'[a] = w => Held(w, d)'
  BY <1>8, <1>6, HeldGrows
<1>10. u.pc \in {"waitPrior", "checkHolder"} => CacheProven(w, a, d, p)'
  <2>1. CASE u.pc \in {"waitPrior", "checkHolder"} /\ p = ensureCache[w][a]
    <3>1. ensureCache' = ensureCache
      BY <1>6, <2>1 DEF Earned
    <3> QED BY <2>1, <3>1 DEF CacheProven
  <2>2. CASE /\ u.pc \in {"waitPrior", "checkHolder"}
             /\ t.pc = "waitPrior" /\ p = t.prior
    <3>1. CacheProven(w, a, d, p)
      BY <1>5, <1>6, <1>7, <2>2 DEF Owns
    <3> QED BY <1>6, <1>8, <3>1, CachedProven
  <2> QED BY <1>5, <1>6, <2>1, <2>2 DEF Earned
<1>11. u.pc = "join" => Proven(w, a, g, d)'
  <2> SUFFICES ASSUME u.pc = "join" PROVE Proven(w, a, g, d)'
    OBVIOUS
  <2>1. /\ t.pc \in {"waitPrior", "checkHolder"} /\ g = ensureCache[w][a]
        /\ g # NoGen /\ g # t.prior
    BY <1>5, <1>6 DEF Earned
  <2>2. g \in Gens
    BY <1>8, <2>1 DEF ShapeInv, LocalType
  <2>3. CacheProven(w, a, d, t.prior)
    BY <1>5, <1>6, <1>7, <2>1 DEF Owns
  <2>4. Proven(w, a, g, d)
    BY <2>1, <2>2, <2>3 DEF CacheProven
  <2> QED BY <1>6, <1>8, <2>2, <2>4, ProvenKept
<1>12. u.pc \in LeasePcs => Held(w, d)'
  <2>1. t.pc \in LeasePcs => Held(w, d)
    BY <1>5, <1>6, <1>7 DEF Owns
  <2> QED BY <1>2, <1>6, <1>9, <2>1 DEF Vouched
<1>13. u.pc = "publish" /\ u.owner = w => Held(w, d)'
  <2>1. t.pc = "starting" => Held(w, d)
    BY <1>5, <1>6, <1>7 DEF Owns, LeasePcs
  <2>2. /\ t.pc = "join"
        /\ promise[w][a][t.gen].st = "done" /\ promise[w][a][t.gen].owner = w
        => Held(w, d)
    BY <1>5, <1>6, <1>7 DEF Owns, Proven
  <2> QED BY <1>5, <1>6, <1>9, <2>1, <2>2 DEF Earned
<1>14. u.pc = "execute" => Held(w, d)'
  <2>1. t.pc = "publish" /\ t.owner = w => Held(w, d)
    BY <1>5, <1>6, <1>7 DEF Owns
  <2> QED BY <1>6, <1>9, <2>1 DEF Earned
<1> QED BY <1>5, <1>6, <1>8, <1>10, <1>11, <1>12, <1>13, <1>14 DEF Owns

(* A task that did not move, in a step that gives no task a lease. *)
LEMMA OwnedSame ==
  ASSUME ShapeInv, ShapeInv', PlaceInv, OwnerInv, NoteOwners,
         NEW v \in Workers, NEW r \in Slots, tasks'[v][r] = tasks[v][r],
         promise'[v] = promise[v], ensureCache'[v] = ensureCache[v],
         \A y \in Slots : tasks'[v][y] = tasks[v][y] \/ tasks'[v][y].pc \notin LeasePcs,
         \A d \in Decisions : target[d] # NoAgent => target'[d] = target[d]
  PROVE  Owned(v, r)'
<1> SUFFICES ASSUME NEW t \in ActorTask, t = tasks'[v][r], t.dec \in Decisions
             PROVE  Owns(v, t)'
  BY DEF Owned, Owns
<1>1. PICK d, a, p, g : d = t.dec /\ a = t.agent /\ p = t.prior /\ g = t.gen
  OBVIOUS
<1>2. Owns(v, t)
  BY DEF OwnerInv, Owned
<1>3. /\ d \in Decisions /\ target[d] = a /\ a \in Agents /\ ~Ran(d) /\ target'[d] = a
  <2>1. d \in Decisions /\ target[d] = a /\ a \in Agents /\ ~Ran(d)
    BY <1>1, <1>2, CalledOpen DEF Owns
  <2> QED BY <2>1, AgentAssumption
<1>4. Held(v, d) => Held(v, d)'
  BY <1>3, HeldGrows
<1>5. ASSUME NEW h \in Gens, Proven(v, a, h, d) PROVE Proven(v, a, h, d)'
  BY <1>4, <1>5 DEF Proven
<1>6. CacheProven(v, a, d, p) => CacheProven(v, a, d, p)'
  BY <1>5 DEF CacheProven
<1>7. t.pc = "join" => g \in Gens
  BY <1>1, TaskAt DEF ShapeInv, Shape, GenPcs
<1> QED BY <1>1, <1>2, <1>3, <1>4, <1>5, <1>6, <1>7 DEF Owns

(* A consumer that goes on as it was. *)
LEMMA LoopOwned ==
  ASSUME ShapeInv, ShapeInv', PlaceInv, OwnerInv, NoteOwners, NEW v \in Workers,
         consumer'[v] = consumer[v] \/ consumer'[v].pc # "execute",
         \A d \in Decisions : target[d] # NoAgent => target'[d] = target[d]
  PROVE  consumer'[v].pc = "execute" => v \in ownersSince'[consumer'[v].dec]
<1> SUFFICES ASSUME consumer'[v] = consumer[v], consumer[v].pc = "execute"
             PROVE  v \in ownersSince'[consumer[v].dec]
  OBVIOUS
<1>1. PICK d : d = consumer[v].dec
  OBVIOUS
<1>2. d \in Decisions /\ InLoop(v, d) /\ Held(v, d)
  BY <1>1 DEF ShapeInv, RouteType, InLoop, OwnerInv
<1>3. target[d] \in Agents /\ target'[d] = target[d]
  <2>1. target[d] # NoAgent
    BY <1>2 DEF PlaceInv, OnePlace, Nowhere, Popping
  <2> QED BY <1>2, <2>1 DEF ShapeInv, RouteType
<1>4. Held(v, d)'
  BY <1>2, <1>3, HeldGrows
<1> QED BY <1>1, <1>4 DEF Held

(* What was executed stays with the holders it had. *)
LEMMA RunKept ==
  ASSUME ShapeInv, ShapeInv', PlaceInv, OwnerInv, NoteOwners,
         NEW d \in Decisions, executions'[d] = executions[d],
         target[d] # NoAgent => target'[d] = target[d]
  PROVE  \A i \in DOMAIN executions'[d] : executions'[d][i] \in ownersSince'[d]
<1>1. CASE Ran(d)
  <2>1. target'[d] # NoAgent
    BY <1>1 DEF PlaceInv, OnePlace, Nowhere
  <2>2. ownersSince'[d] = ownersSince[d]
    BY <1>1, <2>1 DEF NoteOwners, Ran
  <2> QED BY <2>2 DEF OwnerInv, OwnerExecutes
<1>2. CASE ~Ran(d)
  BY <1>2 DEF Ran
<1> QED BY <1>1, <1>2

(* A holder executes. *)
LEMMA RunOwned ==
  ASSUME ShapeInv, ShapeInv', PlaceInv, OwnerInv, NoteOwners, UNCHANGED target,
         NEW w \in Workers, NEW e \in Decisions, Executed(w, e), Held(w, e), ~Ran(e),
         target[e] \in Agents
  PROVE  OwnerExecutes'
<1>1. executions \in [Decisions -> Seq(Workers)] /\ executions[e] = <<>>
  BY DEF ShapeInv, RouteType, Ran
<1>2. /\ executions'[e] = <<w>>
      /\ \A d \in Decisions : d # e => executions'[d] = executions[d]
  BY <1>1 DEF Executed
<1>3. w \in ownersSince'[e]
  BY HeldGrows DEF Held
<1>4. ASSUME NEW d \in Decisions
      PROVE  \A i \in DOMAIN executions'[d] : executions'[d][i] \in ownersSince'[d]
  <2>1. CASE d = e
    BY <1>2, <1>3, <2>1
  <2>2. CASE d # e
    BY <1>2, <2>2, RunKept
  <2> QED BY <2>1, <2>2
<1> QED BY <1>4 DEF OwnerExecutes

(* From what each part has to what all have. *)
LEMMA OwnerFrom ==
  ASSUME \A v \in Workers, r \in Slots : Owned(v, r)',
         \A v \in Workers :
             consumer'[v].pc = "execute" => v \in ownersSince'[consumer'[v].dec],
         OwnerExecutes'
  PROVE  OwnerInv'
  BY DEF OwnerInv, Held

LEMMA TaskOnlyOwner ==
  ASSUME ShapeInv, ShapeInv', PlaceInv, OwnerInv, NEW w \in Workers, NEW s \in Slots,
         StepOf(w, s), NoteOwners, UNCHANGED <<inbox, consumer, target, executions>>
  PROVE  OwnerInv'
<1>1. \A v \in Workers, r \in Slots : v # w \/ r # s => tasks'[v][r] = tasks[v][r]
  BY BecomeTasks DEF StepOf, Moves, ShapeInv
<1>2. Owned(w, s)'
  BY OwnsMoved
<1>3. ASSUME NEW v \in Workers, NEW r \in Slots PROVE Owned(v, r)'
  <2>1. CASE v = w /\ r = s
    BY <1>2, <2>1
  <2>2. CASE v # w \/ r # s
    <3>1. tasks'[v][r] = tasks[v][r]
      BY <1>1, <2>2
    <3> QED BY <3>1, OwnsKept
  <2> QED BY <2>1, <2>2
<1>4. ASSUME NEW v \in Workers
      PROVE  consumer'[v].pc = "execute" => v \in ownersSince'[consumer'[v].dec]
  BY LoopOwned
<1>5. OwnerExecutes'
  BY RunKept DEF OwnerExecutes
<1> QED BY <1>3, <1>4, <1>5, OwnerFrom

(* The steps that leave promises and caches alone, and move one task at    *)
(* most: to u, which holds no lease.                                       *)
LEMMA OneTaskOwner ==
  ASSUME ShapeInv, ShapeInv', PlaceInv, OwnerInv, NoteOwners,
         UNCHANGED <<promise, ensureCache>>,
         NEW w \in Workers, NEW s \in Slots, NEW u, Good(u), Become(w, s, u),
         u.pc \notin LeasePcs,
         \A d \in Decisions : target[d] # NoAgent => target'[d] = target[d],
         u.dec \in Decisions => Owns(w, u)',
         UNCHANGED consumer, OwnerExecutes'
  PROVE  OwnerInv'
<1>1. /\ tasks'[w][s] = u
      /\ \A v \in Workers, r \in Slots : v # w \/ r # s => tasks'[v][r] = tasks[v][r]
  BY BecomeTasks DEF ShapeInv
<1>2. Owned(w, s)'
  BY <1>1 DEF Owned, Owns
<1>3. ASSUME NEW v \in Workers, NEW r \in Slots PROVE Owned(v, r)'
  <2>1. CASE v = w /\ r = s
    BY <1>2, <2>1
  <2>2. CASE v # w \/ r # s
    <3>1. tasks'[v][r] = tasks[v][r]
      BY <1>1, <2>2
    <3>2. \A y \in Slots : tasks'[v][y] = tasks[v][y] \/ tasks'[v][y].pc \notin LeasePcs
      BY <1>1
    <3> QED BY <3>1, <3>2, OwnedSame
  <2> QED BY <2>1, <2>2
<1>4. ASSUME NEW v \in Workers
      PROVE  consumer'[v].pc = "execute" => v \in ownersSince'[consumer'[v].dec]
  BY LoopOwned
<1> QED BY <1>3, <1>4, OwnerFrom

LEMMA AskOwner ==
  ASSUME ShapeInv, ShapeInv', PlaceInv, OwnerInv, NEW w \in Workers, NEW s \in Slots,
         NEW e \in Decisions, NEW a \in Agents, AskDecision(w, s, e, a)
  PROVE  OwnerInv'
<1>1. PICK u : u = [EnsureTask("decide", a) EXCEPT !.dec = e]
  OBVIOUS
<1>2. Good(u) /\ u.dec = e /\ u.agent = a /\ u.pc = "profile" /\ Become(w, s, u)
  BY <1>1, DecideGood DEF AskDecision
<1>3. /\ target[e] = NoAgent /\ target' = [target EXCEPT ![e] = a] /\ NoteOwners
      /\ UNCHANGED <<promise, ensureCache, consumer, executions>>
      /\ target \in [Decisions -> Agents \cup {NoAgent}]
  BY DEF AskDecision, localState, ShapeInv, RouteType
<1>4. target'[e] = a /\ \A d \in Decisions : target[d] # NoAgent => target'[d] = target[d]
  BY <1>3
<1>5. Owns(w, u)'
  BY <1>2, <1>4 DEF Owns, LeasePcs
<1>6. OwnerExecutes'
  BY <1>3, <1>4, RunKept DEF OwnerExecutes
<1> QED BY <1>2, <1>3, <1>4, <1>5, <1>6, OneTaskOwner DEF LeasePcs

LEMMA PublishOwner ==
  ASSUME ShapeInv, ShapeInv', PlaceInv, OwnerInv, NEW w \in Workers, NEW s \in Slots,
         Publish(w, s)
  PROVE  OwnerInv'
<1>1. PICK t : t = tasks[w][s]
  OBVIOUS
<1>2. /\ t.pc = "publish" /\ Good(t) /\ t.dec \in Decisions
      /\ UNCHANGED <<promise, ensureCache, consumer, target, executions>>
      /\ NoteOwners
  BY <1>1, PublishCases DEF localState
<1>3. PICK u :
        /\ Become(w, s, u) /\ Good(u)
        /\ \/ t.owner = w /\ u.pc = "execute" /\ u.dec = t.dec /\ u.agent = t.agent
           \/ u = IdleTask
  BY <1>1, PublishCases
<1>4. PICK d, a : d = t.dec /\ a = t.agent
  OBVIOUS
<1>5. Owns(w, t)
  BY <1>1, <1>2 DEF OwnerInv, Owned, Good
<1>6. target[d] = a /\ a \in Agents
  BY <1>1, <1>2, <1>4, <1>5, CalledOpen DEF Owns
<1>7. Held(w, d) => Held(w, d)'
  BY <1>2, <1>4, <1>6, HeldGrows
<1>8. u.dec \in Decisions => Owns(w, u)'
  <2>1. CASE t.owner = w /\ u.pc = "execute" /\ u.dec = t.dec /\ u.agent = t.agent
    <3>1. Held(w, d)'
      BY <1>2, <1>4, <1>5, <1>7, <2>1 DEF Owns
    <3>2. target'[d] = a
      BY <1>2, <1>6
    <3> QED BY <1>4, <2>1, <3>1, <3>2 DEF Owns, LeasePcs
  <2>2. CASE u = IdleTask
    BY <2>2, IdleGood, AgentAssumption
  <2> QED BY <1>3, <2>1, <2>2
<1>9. u.pc \notin LeasePcs
  BY <1>3, IdleGood DEF LeasePcs
<1>10. OwnerExecutes'
  BY <1>2, RunKept DEF OwnerExecutes
<1> QED BY <1>2, <1>3, <1>8, <1>9, <1>10, OneTaskOwner

LEMMA ExecuteHereOwner ==
  ASSUME ShapeInv, ShapeInv', PlaceInv, OwnerInv, NEW w \in Workers, NEW s \in Slots,
         ExecuteHere(w, s)
  PROVE  OwnerInv'
<1>1. PICK t, e : t = tasks[w][s] /\ e = t.dec
  OBVIOUS
<1>2. /\ t.pc = "execute" /\ e \in Decisions /\ Executed(w, e) /\ Become(w, s, IdleTask)
      /\ UNCHANGED <<promise, ensureCache, consumer, target>> /\ NoteOwners
  BY <1>1, ExecuteHereShape DEF ExecuteHere, At, localState
<1>3. Owns(w, t)
  BY <1>1, TaskAt DEF OwnerInv, Owned, ShapeInv, Good
<1>4. Held(w, e) /\ target[e] \in Agents /\ ~Ran(e)
  BY <1>1, <1>2, <1>3, CalledOpen DEF Owns
<1>5. OwnerExecutes'
  BY <1>2, <1>4, RunOwned
<1>6. IdleTask.dec \notin Decisions /\ IdleTask.pc \notin LeasePcs /\ Good(IdleTask)
  BY IdleGood, AgentAssumption DEF LeasePcs
<1> QED BY <1>2, <1>5, <1>6, OneTaskOwner

(* The steps that leave the tasks, the promises and the caches alone. *)
LEMMA NoTaskOwner ==
  ASSUME ShapeInv, ShapeInv', PlaceInv, OwnerInv, NoteOwners,
         UNCHANGED <<promise, ensureCache, tasks, target>>,
         \A v \in Workers :
             \/ consumer'[v] = consumer[v] \/ consumer'[v].pc # "execute"
             \/ v \in ownersSince'[consumer'[v].dec],
         OwnerExecutes'
  PROVE  OwnerInv'
<1>1. ASSUME NEW v \in Workers, NEW r \in Slots PROVE Owned(v, r)'
  BY OwnedSame
<1>2. ASSUME NEW v \in Workers
      PROVE  consumer'[v].pc = "execute" => v \in ownersSince'[consumer'[v].dec]
  BY LoopOwned
<1> QED BY <1>1, <1>2, OwnerFrom

LEMMA PopOwner ==
  ASSUME ShapeInv, ShapeInv', PlaceInv, OwnerInv, NEW w \in Workers, Pop(w)
  PROVE  OwnerInv'
<1>1. /\ UNCHANGED <<promise, ensureCache, tasks, target, executions>> /\ NoteOwners
      /\ consumer \in [Workers -> Consumer]
  BY DEF Pop, localState, ShapeInv, RouteType
<1>2. consumer'[w].pc # "execute" /\ \A v \in Workers : v # w => consumer'[v] = consumer[v]
  BY <1>1 DEF Pop
<1>3. OwnerExecutes'
  BY <1>1, RunKept DEF OwnerExecutes
<1> QED BY <1>1, <1>2, <1>3, NoTaskOwner

(* The split-brain guard: who executes an envelope holds the lease now. *)
LEMMA CheckEnvelopeOwner ==
  ASSUME ShapeInv, ShapeInv', PlaceInv, OwnerInv, NEW w \in Workers, CheckEnvelope(w)
  PROVE  OwnerInv'
<1>1. PICK e : e = consumer[w].dec
  OBVIOUS
<1>2. /\ consumer[w].pc = "holder" /\ e \in Decisions
      /\ \/ /\ leaseKey[target[e]] = w
            /\ consumer' = [consumer EXCEPT ![w].pc = "execute"]
         \/ consumer' = [consumer EXCEPT ![w] = IdleConsumer]
      /\ UNCHANGED <<leaseVars, promise, ensureCache, tasks, target, executions>>
      /\ NoteOwners
  BY <1>1, CheckEnvelopeCases DEF localState
<1>3. /\ \A v \in Workers : v # w => consumer'[v] = consumer[v]
      /\ consumer'[w].pc # "pop" => consumer'[w].dec = e
  BY <1>1, <1>2, ConsumerType
<1>4. target[e] \in Agents /\ ~Ran(e)
  <2>1. InLoop(w, e)
    BY <1>1, <1>2 DEF InLoop
  <2> QED BY <1>2, <2>1 DEF PlaceInv, OnePlace, Nowhere, Popping, ShapeInv, RouteType
<1>5. consumer'[w].pc = "execute" => w \in ownersSince'[consumer'[w].dec]
  <2>1. CASE leaseKey[target[e]] = w
    <3>1. leaseKey'[target[e]] = w
      BY <1>2, <2>1 DEF leaseVars
    <3>2. Held(w, e)'
      BY <1>2, <1>4, <3>1, HeldGrows
    <3> QED BY <1>3, <3>2 DEF Held
  <2>2. CASE consumer' = [consumer EXCEPT ![w] = IdleConsumer]
    BY <2>2 DEF IdleConsumer, ShapeInv, RouteType
  <2> QED BY <1>2, <2>1, <2>2
<1>6. OwnerExecutes'
  BY <1>2, RunKept DEF OwnerExecutes
<1> QED BY <1>2, <1>3, <1>5, <1>6, NoTaskOwner

LEMMA ExecuteForwardedOwner ==
  ASSUME ShapeInv, ShapeInv', PlaceInv, OwnerInv, NEW w \in Workers, ExecuteForwarded(w)
  PROVE  OwnerInv'
<1>1. PICK e : e = consumer[w].dec
  OBVIOUS
<1>2. /\ consumer[w].pc = "execute" /\ Executed(w, e)
      /\ consumer' = [consumer EXCEPT ![w] = IdleConsumer]
      /\ UNCHANGED <<promise, ensureCache, tasks, target>> /\ NoteOwners
  BY <1>1 DEF ExecuteForwarded, localState
<1>3. e \in Decisions /\ InLoop(w, e) /\ Held(w, e)
  BY <1>1, <1>2 DEF ShapeInv, RouteType, InLoop, OwnerInv
<1>4. target[e] \in Agents /\ ~Ran(e)
  BY <1>3 DEF PlaceInv, OnePlace, Nowhere, Popping, ShapeInv, RouteType
<1>5. OwnerExecutes'
  BY <1>2, <1>3, <1>4, RunOwned
<1>6. consumer'[w].pc # "execute" /\ \A v \in Workers : v # w => consumer'[v] = consumer[v]
  BY <1>2 DEF IdleConsumer, ShapeInv, RouteType
<1> QED BY <1>2, <1>5, <1>6, NoTaskOwner

(* The process that has gone has no task and no envelope. *)
LEMMA VanishOwner ==
  ASSUME ShapeInv, ShapeInv', PlaceInv, OwnerInv, NEW w \in Workers, Vanish(w),
         NoteOwners, happened' = happened \/ Fault("die")
  PROVE  OwnerInv'
<1>1. happened' \in SUBSET (FaultKinds \cup Races)
  BY DEF Fault, MayFail, ShapeInv, CoreType
<1>2. /\ \A s \in Slots : tasks'[w][s] = IdleTask
      /\ \A v \in Workers, s \in Slots : v # w => tasks'[v][s] = tasks[v][s]
      /\ consumer'[w] = IdleConsumer
      /\ \A v \in Workers : v # w => consumer'[v] = consumer[v]
      /\ UNCHANGED <<target, executions>>
  BY <1>1, VanishType
<1>3. \A v \in Workers : v # w => promise'[v] = promise[v] /\ ensureCache'[v] = ensureCache[v]
  BY DEF Vanish, ShapeInv, LocalType
<1>4. ASSUME NEW v \in Workers, NEW r \in Slots PROVE Owned(v, r)'
  <2>1. CASE v = w
    <3>1. tasks'[v][r] = IdleTask /\ IdleTask.dec \notin Decisions
      BY <1>2, <2>1, IdleGood, AgentAssumption
    <3> QED BY <3>1 DEF Owned, Owns
  <2>2. CASE v # w
    <3>1. /\ tasks'[v][r] = tasks[v][r] /\ promise'[v] = promise[v]
          /\ ensureCache'[v] = ensureCache[v]
          /\ \A y \in Slots : tasks'[v][y] = tasks[v][y]
      BY <1>2, <1>3, <2>2
    <3> QED BY <1>2, <3>1, OwnedSame
  <2> QED BY <2>1, <2>2
<1>5. ASSUME NEW v \in Workers
      PROVE  consumer'[v].pc = "execute" => v \in ownersSince'[consumer'[v].dec]
  <2>1. consumer'[v] = consumer[v] \/ consumer'[v].pc # "execute"
    BY <1>2 DEF IdleConsumer
  <2> QED BY <1>2, <2>1, LoopOwned
<1>6. OwnerExecutes'
  BY <1>2, RunKept DEF OwnerExecutes
<1> QED BY <1>4, <1>5, <1>6, OwnerFrom

(* The steps that leave everything but leases, faults and replies alone. *)
LEMMA QuietOwner ==
  ASSUME ShapeInv, ShapeInv', PlaceInv, OwnerInv, NoteOwners,
         UNCHANGED <<localState, tasks, consumer, target, executions>>
  PROVE  OwnerInv'
<1>1. OwnerExecutes'
  BY RunKept DEF OwnerExecutes
<1> QED BY <1>1, NoTaskOwner DEF localState

LEMMA NextOwner ==
  ASSUME ShapeInv, ShapeInv', PlaceInv, OwnerInv, [Next]_agentVars
  PROVE  OwnerInv'
<1>1. CASE UNCHANGED agentVars
  <2>1. UNCHANGED <<localState, tasks, consumer, target, executions, ownersSince>>
    BY <1>1 DEF agentVars, routing
  <2>2. UNCHANGED <<promise, ensureCache>>
    BY <2>1 DEF localState
  <2> QED BY <2>1, <2>2 DEF OwnerInv, Owned, Owns, CacheProven, Proven, Held, OwnerExecutes
<1>2. CASE Environment
  BY <1>2, EnvironmentSteps, QuietOwner DEF routing
<1>3. ASSUME NEW d \in Decisions, ReplyTimesOut(d) PROVE OwnerInv'
  BY <1>3, QuietOwner DEF ReplyTimesOut
<1>4. ASSUME NEW w \in Workers, NEW s \in Slots, TaskOnly(w, s) PROVE OwnerInv'
  BY <1>4, TaskOnlyShape, TaskOnlyRoute, TaskOnlyOwner
<1> QED BY <1>1, <1>2, <1>3, <1>4, Steps, AskOwner, PublishOwner, ExecuteHereOwner,
           PopOwner, CheckEnvelopeOwner, ExecuteForwardedOwner, VanishOwner

LEMMA InitOwner == Init => OwnerInv
<1> SUFFICES ASSUME Init PROVE OwnerInv
  OBVIOUS
<1>1. ASSUME NEW w \in Workers, NEW s \in Slots PROVE Owned(w, s)
  BY IdleGood, AgentAssumption DEF Init, Owned, Owns
<1>2. \A w \in Workers : consumer[w].pc # "execute"
  BY DEF Init, IdleConsumer
<1>3. OwnerExecutes
  BY DEF Init, OwnerExecutes
<1> QED BY <1>1, <1>2, <1>3 DEF OwnerInv

(* Only a process that held the lease of the agent at some time since a    *)
(* decision was asked for executes it: also a call that joined the promise *)
(* of another call, or was forwarded, or lost the lease without noticing.  *)
THEOREM OwnersExecuteDecisions == Spec => []OwnerExecutes
<1>1. ShapeInv /\ ShapeInv' /\ PlaceInv /\ OwnerInv /\ [Next]_agentVars => OwnerInv'
  BY NextOwner
<1>2. OwnerInv => OwnerExecutes
  BY DEF OwnerInv
<1> QED BY <1>1, <1>2, InitOwner, Shaped, Placed, PTL DEF Spec
=============================================================================
