-------------------------- MODULE AgentActors_proofs -------------------------
(***************************************************************************)
(* Theorems about AgentOwnership, continued: what runs for an agent in a   *)
(* process, for every number of processes, agents and activities, and      *)
(* whatever fails.                                                         *)
(*                                                                         *)
(* A construction is visible in the cache from its first step to its last, *)
(* as the pending promise everybody else waits for; so there is one at a   *)
(* time, and as long as none crosses a teardown, who registers an actor    *)
(* knows what was registered before.  From this follow the lease of what   *)
(* runs, and that a stop holds.                                            *)
(***************************************************************************)
EXTENDS AgentOwnership_proofs

Crossed == "overlap" \in happened

(* The tasks that have an actor, or look at one, in hand. *)
Relevant(t) == Builds(t) \/ TakesDown(t) \/ t.pc = "checkHolder"

(* What task t of w knows of the cache, its promise and the registry. *)
Fits(w, t) ==
    /\ Builds(t) => /\ ensureCache[w][t.agent] = t.gen
                    /\ promise[w][t.agent][t.gen].st = "pending"
    /\ t.pc = "checkHolder" => promise[w][t.agent][t.prior].st # "pending"
    /\ t.pc = "teardown" => registry[w][t.agent] = t.prior
    /\ t.pc \in {"starting", "abort"} => registry[w][t.agent] = t.gen
    /\ t.pc = "release" => registry[w][t.agent] = NoGen
    /\ TakesDown(t) => registry[w][t.agent] \in {t.gen, NoGen}

Fitting(w, s) == \A t \in ActorTask : t = tasks[w][s] => Fits(w, t)

(* A construction has no other one, and no teardown, beside it. *)
Alone(w, s) ==
    \A r \in Slots \ {s} : \A t, x \in ActorTask :
        /\ t = tasks[w][s] /\ x = tasks[w][r] /\ t.agent = x.agent
        /\ Builds(t)
        => ~Builds(x) /\ ~TakesDown(x)

Registered(w, a) == \A g \in Gens : IsRunning(w, a, g) => registry[w][a] = g

FlightInv ==
    /\ \A w \in Workers, s \in Slots : Fitting(w, s)
    /\ \A w \in Workers, s \in Slots : Alone(w, s)
    /\ \A w \in Workers, a \in Agents : Registered(w, a)

(* Nothing of another process or another agent changes. *)
Elsewhere(w, a) ==
    \A v \in Workers, b \in Agents : v # w \/ b # a =>
        /\ ensureCache'[v][b] = ensureCache[v][b]
        /\ promise'[v][b] = promise[v][b]
        /\ registry'[v][b] = registry[v][b]
        /\ actor'[v][b] = actor[v][b]

-----------------------------------------------------------------------------
(* One step of a task, by what it has to keep *)

LEMMA RelevantAgent ==
  ASSUME NEW t, Good(t), Relevant(t)
  PROVE  t.agent \in Agents
  BY DEF Good, Shape, Relevant, Builds, TakesDown

LEMMA FlightFrom ==
  ASSUME ShapeInv, FlightInv, NEW w \in Workers, NEW s \in Slots, NEW a \in Agents,
         NEW u, Good(u), Become(w, s, u), Elsewhere(w, a),
         Relevant(u) => u.agent = a,
         Fits(w, u)',
         \A r \in Slots \ {s} : \A x \in ActorTask :
             x = tasks[w][r] /\ x.agent = a /\ Relevant(x)
                 => /\ Fits(w, x)'
                    /\ Builds(u) => ~Builds(x) /\ ~TakesDown(x)
                    /\ TakesDown(u) => ~Builds(x),
         Registered(w, a)'
  PROVE  FlightInv'
<1>1. /\ tasks'[w][s] = u
      /\ \A v \in Workers, r \in Slots : v # w \/ r # s => tasks'[v][r] = tasks[v][r]
  BY BecomeTasks DEF ShapeInv
<1>2. \A v \in Workers, r \in Slots : Good(tasks[v][r])
  BY TaskAt DEF ShapeInv
<1>3. ASSUME NEW v \in Workers, NEW r \in Slots, NEW x \in ActorTask, x = tasks'[v][r]
      PROVE  Fits(v, x)'
  <2>1. CASE v = w /\ r = s
    BY <1>1, <1>3, <2>1
  <2>2. CASE v # w \/ r # s
    <3>1. x = tasks[v][r] /\ Good(x)
      BY <1>1, <1>2, <1>3, <2>2
    <3>2. Fits(v, x)
      BY <3>1 DEF FlightInv, Fitting
    <3>3. CASE ~Relevant(x)
      BY <3>3 DEF Fits, Relevant, Builds, TakesDown
    <3>4. CASE Relevant(x) /\ v = w /\ x.agent = a
      BY <2>2, <3>1, <3>4
    <3>5. CASE Relevant(x) /\ (v # w \/ x.agent # a)
      <4>1. x.agent \in Agents
        BY <3>1, <3>5, RelevantAgent
      <4>2. /\ ensureCache'[v][x.agent] = ensureCache[v][x.agent]
            /\ promise'[v][x.agent] = promise[v][x.agent]
            /\ registry'[v][x.agent] = registry[v][x.agent]
        BY <3>5, <4>1 DEF Elsewhere
      <4> QED BY <3>2, <4>2 DEF Fits
    <3> QED BY <3>3, <3>4, <3>5
  <2> QED BY <2>1, <2>2
<1>4. ASSUME NEW v \in Workers, NEW p \in Slots, NEW r \in Slots \ {p},
             NEW t \in ActorTask, NEW x \in ActorTask,
             t = tasks'[v][p], x = tasks'[v][r], t.agent = x.agent, Builds(t)
      PROVE  ~Builds(x) /\ ~TakesDown(x)
  <2>1. CASE v = w /\ p = s
    <3>1. t = u /\ x = tasks[w][r] /\ t.agent = a
      BY <1>1, <1>4, <2>1 DEF Relevant
    <3> QED BY <1>4, <2>1, <3>1 DEF Relevant
  <2>2. CASE v = w /\ r = s
    <3>1. x = u /\ t = tasks[w][p] /\ Relevant(t)
      BY <1>1, <1>4, <2>2 DEF Relevant
    <3> QED BY <1>4, <2>2, <3>1 DEF Relevant
  <2>3. CASE v # w \/ (p # s /\ r # s)
    <3>1. t = tasks[v][p] /\ x = tasks[v][r]
      BY <1>1, <1>4, <2>3
    <3> QED BY <1>4, <3>1 DEF FlightInv, Alone
  <2> QED BY <2>1, <2>2, <2>3
<1>5. ASSUME NEW v \in Workers, NEW b \in Agents PROVE Registered(v, b)'
  <2>1. CASE v = w /\ b = a
    BY <2>1
  <2>2. CASE v # w \/ b # a
    <3>1. registry'[v][b] = registry[v][b] /\ actor'[v][b] = actor[v][b]
      BY <2>2 DEF Elsewhere
    <3> QED BY <3>1 DEF FlightInv, Registered, IsRunning
  <2> QED BY <2>1, <2>2
<1> QED BY <1>3, <1>4, <1>5 DEF FlightInv, Fitting, Alone

(* A step of a construction: others of the agent only look at promises. *)
LEMMA BuilderFlight ==
  ASSUME ShapeInv, FlightInv, NEW w \in Workers, NEW s \in Slots, NEW t, t = tasks[w][s],
         Builds(t), NEW a, a = t.agent, NEW u, Good(u), Become(w, s, u), Elsewhere(w, a),
         Relevant(u) => Builds(u) /\ u.agent = a,
         Fits(w, u)',
         \A h \in Gens : \/ promise'[w][a][h] = promise[w][a][h]
                         \/ promise'[w][a][h].st # "pending",
         Registered(w, a)'
  PROVE  FlightInv'
<1>1. Good(t) /\ t \in ActorTask /\ a \in Agents
  BY TaskAt, RelevantAgent DEF ShapeInv, Relevant
<1>2. ASSUME NEW r \in Slots \ {s}, NEW x \in ActorTask,
             x = tasks[w][r], x.agent = a, Relevant(x)
      PROVE  Fits(w, x)' /\ ~Builds(x) /\ ~TakesDown(x)
  <2>1. ~Builds(x) /\ ~TakesDown(x)
    BY <1>1, <1>2 DEF FlightInv, Alone
  <2>2. x.pc = "checkHolder" /\ x.prior \in Gens /\ promise[w][a][x.prior].st # "pending"
    <3>1. Shape(x) /\ Fits(w, x)
      BY <1>2, TaskAt DEF ShapeInv, FlightInv, Fitting
    <3> QED BY <1>2, <2>1, <3>1 DEF Relevant, Shape, Fits
  <2>3. promise'[w][a][x.prior].st # "pending"
    BY <2>2
  <2> QED BY <1>2, <2>1, <2>2, <2>3 DEF Fits, Builds, TakesDown
<1>3. TakesDown(u) => FALSE
  BY DEF Relevant, Builds, TakesDown
<1> QED BY <1>1, <1>2, <1>3, FlightFrom DEF Relevant

(* A step that changes only its task, which has no actor in hand. *)
LEMMA QuietFlight ==
  ASSUME ShapeInv, FlightInv, NEW w \in Workers, NEW s \in Slots,
         NEW u, Good(u), Become(w, s, u), UNCHANGED localState,
         ~Builds(u), ~TakesDown(u), Fits(w, u)
  PROVE  FlightInv'
<1>0. UNCHANGED <<ensureCache, promise, registry, actor>>
  BY DEF localState
<1>1. /\ tasks'[w][s] = u
      /\ \A v \in Workers, r \in Slots : v # w \/ r # s => tasks'[v][r] = tasks[v][r]
  BY BecomeTasks DEF ShapeInv
<1>2. ASSUME NEW v \in Workers, NEW r \in Slots, NEW x \in ActorTask, x = tasks'[v][r]
      PROVE  Fits(v, x)'
  <2>1. Fits(v, x)
    BY <1>1, <1>2 DEF FlightInv, Fitting
  <2> QED BY <1>0, <2>1 DEF Fits
<1>3. ASSUME NEW v \in Workers, NEW p \in Slots, NEW r \in Slots \ {p},
             NEW t \in ActorTask, NEW x \in ActorTask,
             t = tasks'[v][p], x = tasks'[v][r], t.agent = x.agent, Builds(t)
      PROVE  ~Builds(x) /\ ~TakesDown(x)
  <2>1. t = tasks[v][p] /\ (x = u \/ x = tasks[v][r])
    BY <1>1, <1>3
  <2> QED BY <1>3, <2>1 DEF FlightInv, Alone
<1>4. \A v \in Workers, b \in Agents : Registered(v, b)'
  BY <1>0 DEF FlightInv, Registered, IsRunning
<1> QED BY <1>2, <1>3, <1>4 DEF FlightInv, Fitting, Alone

-----------------------------------------------------------------------------
(* What becomes of a task *)

LEMMA AtPc ==
  ASSUME NEW t \in ActorTask, NEW p, NEW u, u = [t EXCEPT !.pc = p]
  PROVE  /\ u.pc = p /\ u.agent = t.agent /\ u.kind = t.kind /\ u.gen = t.gen
         /\ u.prior = t.prior /\ u.todo = t.todo
  BY ZenonT(60) DEF ActorTask

LEMMA BecomeGood ==
  ASSUME ShapeInv, NEW w \in Workers, NEW s \in Slots, StepOf(w, s), NEW u, Become(w, s, u)
  PROVE  Good(u)
<1>1. PICK x : Become(w, s, x) /\ Good(x)
  BY DEF StepOf, Moves
<1>2. tasks \in [Workers -> [Slots -> ActorTask]]
  BY DEF ShapeInv, TaskType
<1>3. tasks'[w][s] = x /\ tasks'[w][s] = u
  BY <1>1, <1>2 DEF Become
<1> QED BY <1>1, <1>3

(* A task that has no actor in hand. *)
LEMMA AwayFits ==
  ASSUME NEW u, u.pc \notin {"checkHolder", "acquire", "holder", "teardown", "starting",
                             "abort", "release", "halt", "crash"}
  PROVE  ~Builds(u) /\ ~TakesDown(u) /\ ~Relevant(u) /\ \A w : Fits(w, u) /\ Fits(w, u)'
  BY DEF Builds, TakesDown, Relevant, Fits

(* A new construction starts when no promise of the agent is pending. *)
LEMMA NewPromiseFlight ==
  ASSUME ShapeInv, FlightInv, ~Crossed', NEW w \in Workers, NEW s \in Slots, StepOf(w, s),
         NEW t \in ActorTask, NEW a \in Agents, a = t.agent,
         NewPromise(w, s, t), UNCHANGED <<registry, actor>>,
         \/ ensureCache[w][a] = NoGen
         \/ promise[w][a][ensureCache[w][a]].st # "pending"
  PROVE  FlightInv'
<1> DEFINE P(g) == [h \in Gens |->
                   IF h = g THEN [st |-> "pending", owner |-> NoWorker, rev |-> t.rev]
                   ELSE IF h \in FreeGens(w, s, a) THEN NoPromise
                   ELSE promise[w][a][h]]
           U(g) == [t EXCEPT !.pc = "acquire", !.gen = g, !.prior = NoGen]
<1>0. PICK g \in FreeGens(w, s, a) :
         /\ promise' = [promise EXCEPT ![w][a] = P(g)]
         /\ ensureCache' = [ensureCache EXCEPT ![w][a] = g]
         /\ Become(w, s, U(g))
         /\ happened' = IF TakingDown(w, a) THEN happened \cup {"overlap"} ELSE happened
  BY DEF NewPromise
<1>1. PICK u : u = U(g) /\ Become(w, s, u)
  BY <1>0
<1>2. g \in Gens /\ Good(u) /\ u.pc = "acquire" /\ u.agent = a /\ u.gen = g
  <2>1. Good(u)
    BY <1>1, BecomeGood
  <2>2. u = U(g)
    BY <1>1
  <2>3. u.pc = "acquire" /\ u.agent = t.agent /\ u.gen = g
    BY <2>2, ZenonT(60) DEF ActorTask
  <2> QED BY <2>1, <2>3 DEF FreeGens
<1>3. ~TakingDown(w, a)
  BY <1>0 DEF Crossed
<1>4. /\ promise \in [Workers -> [Agents -> [Gens -> Promise]]]
      /\ ensureCache \in [Workers -> [Agents -> Gens \cup {NoGen}]]
  BY DEF ShapeInv, LocalType
<1>5. /\ promise'[w][a] = [h \in Gens |->
                   IF h = g THEN [st |-> "pending", owner |-> NoWorker, rev |-> t.rev]
                   ELSE IF h \in FreeGens(w, s, a) THEN NoPromise
                   ELSE promise[w][a][h]]
      /\ \A v \in Workers, b \in Agents : v # w \/ b # a => promise'[v][b] = promise[v][b]
  BY <1>0, <1>4
<1>6. /\ ensureCache'[w][a] = g
      /\ \A v \in Workers, b \in Agents :
            v # w \/ b # a => ensureCache'[v][b] = ensureCache[v][b]
  BY <1>0, <1>4
<1>7. /\ promise'[w][a][g].st = "pending"
      /\ \A h \in Gens : h # g /\ h \notin FreeGens(w, s, a)
            => promise'[w][a][h] = promise[w][a][h]
  BY <1>2, <1>5
<1>8. Elsewhere(w, a)
  BY <1>5, <1>6 DEF Elsewhere
<1>9. Fits(w, u)' /\ Relevant(u) /\ Builds(u) /\ ~TakesDown(u)
  BY <1>2, <1>6, <1>7 DEF Fits, Builds, TakesDown, Relevant
<1>10. ASSUME NEW r \in Slots \ {s}, NEW x \in ActorTask,
              x = tasks[w][r], x.agent = a, Relevant(x)
       PROVE  Fits(w, x)' /\ ~Builds(x) /\ ~TakesDown(x)
  <2>1. ~TakesDown(x)
    BY <1>3, <1>10 DEF TakingDown
  <2>2. Fits(w, x) /\ Good(x)
    BY <1>10, TaskAt DEF FlightInv, Fitting, ShapeInv
  <2>3. ~Builds(x)
    <3>1. Builds(x) => x.gen \in Gens
      BY <2>2 DEF Good, Shape, Builds, GenPcs
    <3> QED BY <1>10, <2>2, <3>1, AgentAssumption DEF Fits
  <2>4. /\ x.pc = "checkHolder" /\ x.prior \in Gens
        /\ promise[w][a][x.prior].st # "pending"
    BY <1>10, <2>1, <2>2, <2>3 DEF Relevant, Good, Shape, Fits
  <2>5. x.prior # g /\ x.prior \notin FreeGens(w, s, a)
    BY <1>0, <1>10 DEF FreeGens
  <2>6. promise'[w][a][x.prior].st # "pending"
    BY <1>7, <2>4, <2>5
  <2> QED BY <1>10, <2>1, <2>3, <2>4, <2>6 DEF Fits, Builds, TakesDown
<1>11. Registered(w, a)'
  BY DEF FlightInv, Registered, IsRunning
<1>12. Become(w, s, u)
  BY <1>1
<1> HIDE DEF U, P
<1> QED BY <1>2, <1>8, <1>9, <1>10, <1>11, <1>12, FlightFrom

LEMMA ReconstructFlight ==
  ASSUME ShapeInv, FlightInv, ~Crossed', NEW w \in Workers, NEW s \in Slots, StepOf(w, s),
         NEW t, t = tasks[w][s], t.agent \in Agents, Reconstruct(w, s, t),
         UNCHANGED <<registry, actor>>, promise[w][t.agent][t.prior].st # "pending"
  PROVE  FlightInv'
<1>1. PICK a, current : a = t.agent /\ current = ensureCache[w][a]
  OBVIOUS
<1>2. t \in ActorTask
  BY TaskAt DEF ShapeInv, Good
<1>3. CASE current # NoGen /\ current # t.prior
  <2>1. PICK u : u = [t EXCEPT !.pc = "join", !.gen = current, !.prior = NoGen]
    OBVIOUS
  <2>2. Become(w, s, u) /\ UNCHANGED <<promise, ensureCache>>
    BY <1>1, <1>3, <2>1 DEF Reconstruct
  <2>3. Good(u) /\ u.pc = "join"
    <3>1. Good(u)
      BY <2>2, BecomeGood
    <3>2. u.pc = "join"
      BY <1>2, <2>1, ZenonT(60) DEF ActorTask
    <3> QED BY <3>1, <3>2
  <2> QED BY <2>2, <2>3, AwayFits, QuietFlight DEF localState
<1>4. CASE ~(current # NoGen /\ current # t.prior)
  <2>1. NewPromise(w, s, t)
    BY <1>1, <1>4 DEF Reconstruct
  <2>2. \/ ensureCache[w][a] = NoGen
        \/ promise[w][a][ensureCache[w][a]].st # "pending"
    BY <1>1, <1>4
  <2> QED BY <1>1, <1>2, <2>1, <2>2, NewPromiseFlight
<1> QED BY <1>3, <1>4

-----------------------------------------------------------------------------
(* The ensure *)

LEMMA ReadProfileFlight ==
  ASSUME ShapeInv, FlightInv, ~Crossed', NEW w \in Workers, NEW s \in Slots,
         ReadProfile(w, s)
  PROVE  FlightInv'
<1>1. PICK t, a : /\ t = [tasks[w][s] EXCEPT !.rev = revision[tasks[w][s].agent]]
                  /\ a = tasks[w][s].agent
  OBVIOUS
<1>2. StepOf(w, s)
  BY ReadProfileShape
<1>3. tasks[w][s].pc = "profile" /\ a \in Agents /\ tasks[w][s] \in ActorTask
  BY <1>1, TaskAt DEF ReadProfile, At, ShapeInv, Good, Shape
<1>4. revision[a] \in 0..MaxCalls
  BY <1>3 DEF ShapeInv, CoreType
<1>5. t \in ActorTask /\ t.agent = a
  BY <1>1, <1>3, <1>4, WithRev
<1>6. CASE ensureCache[w][a] # NoGen
  <2>1. PICK q, u : q = ensureCache[w][a] /\ u = [t EXCEPT !.pc = "waitPrior", !.prior = q]
    OBVIOUS
  <2>2. Become(w, s, u) /\ UNCHANGED localState
    BY <1>1, <1>5, <1>6, <2>1 DEF ReadProfile, localState
  <2>3. Good(u) /\ u.pc = "waitPrior"
    <3>1. Good(u)
      BY <1>2, <2>2, BecomeGood
    <3>2. u.pc = "waitPrior"
      BY <1>5, <2>1, ZenonT(60) DEF ActorTask
    <3> QED BY <3>1, <3>2
  <2> QED BY <2>2, <2>3, AwayFits, QuietFlight
<1>7. CASE ensureCache[w][a] = NoGen
  <2>1. NewPromise(w, s, t) /\ UNCHANGED <<registry, actor>>
    BY <1>1, <1>5, <1>7 DEF ReadProfile
  <2> QED BY <1>2, <1>3, <1>5, <1>7, <2>1, NewPromiseFlight
<1> QED BY <1>6, <1>7

LEMMA ProfileMissingFlight ==
  ASSUME ShapeInv, FlightInv, ~Crossed', NEW w \in Workers, NEW s \in Slots,
         ProfileMissing(w, s)
  PROVE  FlightInv'
<1>1. PICK t, u : t = tasks[w][s] /\ u = Abandoned(t)
  OBVIOUS
<1>2. t.pc = "profile" /\ Become(w, s, u) /\ UNCHANGED localState
  BY <1>1 DEF ProfileMissing, At
<1>3. Good(u) /\ u.pc \in {"scan", "idle", "record"}
  BY <1>1, <1>2, TaskAt, AbandonedGood DEF ShapeInv, EnsurePcs
<1> QED BY <1>2, <1>3, AwayFits, QuietFlight

LEMMA PriorSettledFlight ==
  ASSUME ShapeInv, FlightInv, ~Crossed', NEW w \in Workers, NEW s \in Slots,
         PriorSettled(w, s)
  PROVE  FlightInv'
<1>1. PICK t : t = tasks[w][s]
  OBVIOUS
<1>2. /\ t.pc = "waitPrior" /\ promise[w][t.agent][t.prior].st # "pending"
      /\ \/ /\ Become(w, s, [t EXCEPT !.pc = "checkHolder"])
            /\ UNCHANGED <<promise, ensureCache>>
         \/ Reconstruct(w, s, t)
      /\ UNCHANGED <<registry, actor>>
  BY <1>1 DEF PriorSettled, At
<1>3. StepOf(w, s)
  BY PriorSettledShape
<1>4. t \in ActorTask /\ t.agent \in Agents
  BY <1>1, <1>2, TaskAt DEF ShapeInv, Good, Shape
<1>5. CASE /\ Become(w, s, [t EXCEPT !.pc = "checkHolder"])
           /\ UNCHANGED <<promise, ensureCache>>
  <2>1. PICK u : u = [t EXCEPT !.pc = "checkHolder"]
    OBVIOUS
  <2>2. Become(w, s, u) /\ UNCHANGED localState
    BY <1>2, <1>5, <2>1 DEF localState
  <2>3. Good(u) /\ u.pc = "checkHolder" /\ u.agent = t.agent /\ u.prior = t.prior
    BY <1>3, <1>4, <2>1, <2>2, BecomeGood, AtPc
  <2>4. ~Builds(u) /\ ~TakesDown(u) /\ Fits(w, u)
    BY <1>2, <2>3 DEF Fits, Builds, TakesDown
  <2> QED BY <2>2, <2>3, <2>4, QuietFlight
<1>6. CASE Reconstruct(w, s, t)
  BY <1>1, <1>2, <1>3, <1>4, <1>6, ReconstructFlight
<1> QED BY <1>2, <1>5, <1>6

LEMMA CheckHolderFlight ==
  ASSUME ShapeInv, FlightInv, ~Crossed', NEW w \in Workers, NEW s \in Slots,
         CheckHolder(w, s)
  PROVE  FlightInv'
<1>1. PICK t : t = tasks[w][s]
  OBVIOUS
<1>2. /\ t.pc = "checkHolder"
      /\ \/ /\ Become(w, s, After(t, w))
            /\ UNCHANGED <<promise, ensureCache>>
         \/ Reconstruct(w, s, t)
      /\ UNCHANGED <<registry, actor>>
  BY <1>1 DEF CheckHolder, At
<1>3. StepOf(w, s)
  BY CheckHolderShape
<1>4. t \in ActorTask /\ t.agent \in Agents /\ Good(t) /\ Fits(w, t)
  BY <1>1, <1>2, TaskAt DEF ShapeInv, Good, Shape, FlightInv, Fitting
<1>5. CASE /\ Become(w, s, After(t, w))
           /\ UNCHANGED <<promise, ensureCache>>
  <2>1. PICK u : u = After(t, w)
    OBVIOUS
  <2>2. Become(w, s, u) /\ UNCHANGED localState
    BY <1>2, <1>5, <2>1 DEF localState
  <2>3. Good(u) /\ u.pc \in {"record", "publish", "scan", "idle"}
    BY <1>2, <1>4, <2>1, AfterGood DEF EnsurePcs, Owners
  <2> QED BY <2>2, <2>3, AwayFits, QuietFlight
<1>6. CASE Reconstruct(w, s, t)
  <2>1. promise[w][t.agent][t.prior].st # "pending"
    BY <1>2, <1>4 DEF Fits
  <2> QED BY <1>1, <1>2, <1>3, <1>4, <1>6, <2>1, ReconstructFlight
<1> QED BY <1>2, <1>5, <1>6

LEMMA JoinSettledFlight ==
  ASSUME ShapeInv, FlightInv, ~Crossed', NEW w \in Workers, NEW s \in Slots,
         JoinSettled(w, s)
  PROVE  FlightInv'
<1>1. PICK t, p : t = tasks[w][s] /\ p = promise[w][t.agent][t.gen]
  OBVIOUS
<1>2. /\ t.pc = "join" /\ UNCHANGED localState
      /\ Become(w, s, After(t, p.owner)) \/ Become(w, s, Abandoned(t))
  BY <1>1 DEF JoinSettled, At
<1>3. Good(t) /\ t.agent \in Agents /\ t.gen \in Gens
  BY <1>1, <1>2, TaskAt DEF ShapeInv, Good, Shape, GenPcs
<1>4. p.owner \in Owners
  BY <1>1, <1>3 DEF ShapeInv, LocalType, Promise
<1>5. PICK u : u \in {After(t, p.owner), Abandoned(t)} /\ Become(w, s, u)
  BY <1>2
<1>6. Good(u) /\ u.pc \in {"record", "publish", "scan", "idle"}
  BY <1>2, <1>3, <1>4, <1>5, AfterGood, AbandonedGood DEF EnsurePcs
<1> QED BY <1>2, <1>5, <1>6, AwayFits, QuietFlight

-----------------------------------------------------------------------------
(* The construction *)

LEMMA ActorSet ==
  ASSUME ShapeInv, NEW w \in Workers, NEW a \in Agents, NEW g \in Gens, NEW p,
         actor' = actor \/ SetActor(w, a, g, p)
  PROVE  /\ \A v \in Workers, b \in Agents :
               v # w \/ b # a => actor'[v][b] = actor[v][b]
         /\ \A h \in Gens : h # g => actor'[w][a][h] = actor[w][a][h]
         /\ SetActor(w, a, g, p) => actor'[w][a][g] = p
<1>1. actor \in [Workers -> [Agents -> [Gens -> {"off", "starting", "on", "stopping"}]]]
  BY DEF ShapeInv, LocalType
<1>2. CASE SetActor(w, a, g, p)
  BY <1>1, <1>2 DEF SetActor
<1>3. CASE actor' = actor /\ ~SetActor(w, a, g, p)
  BY <1>3
<1> QED BY <1>2, <1>3

LEMMA RegistrySet ==
  ASSUME ShapeInv, NEW w \in Workers, NEW a \in Agents, NEW g, Register(w, a, g)
  PROVE  /\ registry'[w][a] = g
         /\ \A v \in Workers, b \in Agents :
               v # w \/ b # a => registry'[v][b] = registry[v][b]
<1>1. registry \in [Workers -> [Agents -> Gens \cup {NoGen}]]
  BY DEF ShapeInv, LocalType
<1> QED BY <1>1 DEF Register

(* The promise of the construction settles: it has ended. *)
LEMMA SettleFlight ==
  ASSUME ShapeInv, FlightInv, NEW w \in Workers, NEW s \in Slots,
         NEW t, t = tasks[w][s], Builds(t), NEW a, a = t.agent,
         NEW p, p = Rejected \/ \E o \in Owners : p = Resolved(o),
         Settle(w, s, t, p), UNCHANGED registry,
         \A v \in Workers, b \in Agents :
             v # w \/ b # a => actor'[v][b] = actor[v][b],
         Registered(w, a)'
  PROVE  FlightInv'
<1>1. Good(t) /\ t \in ActorTask /\ a \in Agents /\ t.gen \in Gens
  BY TaskAt DEF ShapeInv, Good, Shape, Builds, GenPcs
<1>2. PICK r, q : r = promise[w][t.agent][t.gen].rev /\ q = [p EXCEPT !.rev = r]
  OBVIOUS
<1>3. q.st \in {"done", "failed"} /\ p.owner \in Owners
  BY <1>2 DEF Rejected, Resolved, Owners
<1>4. promise' = [promise EXCEPT ![w][a][t.gen] = q]
  BY <1>2 DEF Settle
<1>5. /\ promise \in [Workers -> [Agents -> [Gens -> Promise]]]
      /\ ensureCache \in [Workers -> [Agents -> Gens \cup {NoGen}]]
  BY DEF ShapeInv, LocalType
<1>6. /\ promise'[w][a][t.gen] = q
      /\ \A h \in Gens : h # t.gen => promise'[w][a][h] = promise[w][a][h]
      /\ \A v \in Workers, b \in Agents : v # w \/ b # a => promise'[v][b] = promise[v][b]
  BY <1>1, <1>4, <1>5
<1>7. \A v \in Workers, b \in Agents :
          v # w \/ b # a => ensureCache'[v][b] = ensureCache[v][b]
  <2>1. \/ ensureCache' = [ensureCache EXCEPT ![w][a] = NoGen]
        \/ ensureCache' = ensureCache
    BY DEF Settle
  <2>2. CASE ensureCache' = [ensureCache EXCEPT ![w][a] = NoGen]
    BY <1>1, <1>5, <2>2
  <2> QED BY <2>1, <2>2
<1>8. Elsewhere(w, a)
  BY <1>6, <1>7 DEF Elsewhere
<1>9. PICK u : u \in {After(t, p.owner), Abandoned(t)} /\ Become(w, s, u)
  BY DEF Settle
<1>10. Good(u) /\ u.pc \in {"record", "publish", "scan", "idle"}
  <2>1. t.pc \in EnsurePcs
    BY DEF Builds, EnsurePcs
  <2> QED BY <1>1, <1>3, <1>9, <2>1, AfterGood, AbandonedGood
<1>11. ~Relevant(u) /\ Fits(w, u)'
  BY <1>10, AwayFits
<1>12. \A h \in Gens : \/ promise'[w][a][h] = promise[w][a][h]
                       \/ promise'[w][a][h].st # "pending"
  BY <1>3, <1>6
<1> QED BY <1>8, <1>9, <1>10, <1>11, <1>12, BuilderFlight

(* The construction goes on; the promise stays as it is. *)
LEMMA OnFlight ==
  ASSUME ShapeInv, FlightInv, NEW w \in Workers, NEW s \in Slots, StepOf(w, s),
         NEW t, t = tasks[w][s], Builds(t), NEW a, a = t.agent,
         NEW u, Become(w, s, u), Builds(u), u.agent = a, u.gen = t.gen,
         UNCHANGED <<ensureCache, promise>>,
         \A v \in Workers, b \in Agents : v # w \/ b # a =>
             actor'[v][b] = actor[v][b] /\ registry'[v][b] = registry[v][b],
         u.pc = "teardown" => registry'[w][a] = u.prior,
         u.pc \in {"starting", "abort"} => registry'[w][a] = u.gen,
         u.pc = "release" => registry'[w][a] = NoGen,
         Registered(w, a)'
  PROVE  FlightInv'
<1>1. Good(u)
  BY BecomeGood
<1>2. Elsewhere(w, a)
  BY DEF Elsewhere
<1>3. t \in ActorTask
  BY TaskAt DEF ShapeInv
<1>4. ensureCache[w][a] = t.gen /\ promise[w][a][t.gen].st = "pending"
  BY <1>3 DEF FlightInv, Fitting, Fits
<1>5. Fits(w, u)'
  BY <1>4 DEF Fits, Builds, TakesDown
<1> QED BY <1>1, <1>2, <1>5, BuilderFlight

LEMMA ConstructFlight ==
  ASSUME ShapeInv, FlightInv, NEW w \in Workers, NEW s \in Slots, StepOf(w, s),
         NEW t, t = tasks[w][s], t.pc \in {"acquire", "holder"},
         Construct(w, s, t), UNCHANGED <<ensureCache, promise>>
  PROVE  FlightInv'
<1>1. t \in ActorTask /\ t.agent \in Agents /\ t.gen \in Gens /\ Builds(t)
  BY TaskAt DEF ShapeInv, Good, Shape, GenPcs, Builds
<1>2. PICK a, g : a = t.agent /\ g = registry[w][a]
  OBVIOUS
<1>3. g \in Gens \cup {NoGen} /\ Registered(w, a)
  BY <1>1, <1>2 DEF ShapeInv, LocalType, FlightInv
<1>4. CASE g # NoGen
  <2>1. PICK u : u = [t EXCEPT !.pc = "teardown", !.prior = g]
    OBVIOUS
  <2>2. /\ Become(w, s, u) /\ UNCHANGED registry
        /\ \/ IsRunning(w, a, g) /\ SetActor(w, a, g, "stopping")
           \/ UNCHANGED actor
    BY <1>2, <1>4, <2>1 DEF Construct
  <2>3. u.pc = "teardown" /\ u.agent = a /\ u.gen = t.gen /\ u.prior = g
    <3>1. u.pc = "teardown" /\ u.agent = t.agent /\ u.gen = t.gen /\ u.prior = g
      BY <1>1, <2>1, ZenonT(60) DEF ActorTask
    <3> QED BY <1>2, <3>1
  <2>4. /\ \A v \in Workers, b \in Agents :
              v # w \/ b # a => actor'[v][b] = actor[v][b]
        /\ \A h \in Gens : h # g => actor'[w][a][h] = actor[w][a][h]
    <3>1. a \in Agents /\ g \in Gens
      BY <1>1, <1>2, <1>3, <1>4
    <3>2. actor' = actor \/ SetActor(w, a, g, "stopping")
      BY <2>2
    <3> QED BY <3>1, <3>2, ActorSet
  <2>5. Registered(w, a)'
    BY <1>2, <1>3, <2>2, <2>4 DEF Registered, IsRunning
  <2>6. \A v \in Workers, b \in Agents : v # w \/ b # a =>
            actor'[v][b] = actor[v][b] /\ registry'[v][b] = registry[v][b]
    BY <2>2, <2>4
  <2>7. Builds(u) /\ registry'[w][a] = u.prior /\ a = t.agent /\ Become(w, s, u)
    BY <1>2, <2>2, <2>3 DEF Builds
  <2> QED BY <1>1, <2>3, <2>5, <2>6, <2>7, OnFlight
<1>5. CASE g = NoGen
  <2>1. PICK u : u = [t EXCEPT !.pc = "starting"]
    OBVIOUS
  <2>2. Become(w, s, u) /\ Register(w, a, t.gen) /\ SetActor(w, a, t.gen, "starting")
    BY <1>2, <1>5, <2>1 DEF Construct
  <2>3. u.pc = "starting" /\ u.agent = a /\ u.gen = t.gen
    BY <1>1, <1>2, <2>1, AtPc
  <2>4. /\ \A v \in Workers, b \in Agents :
              v # w \/ b # a => actor'[v][b] = actor[v][b]
        /\ \A h \in Gens : h # t.gen => actor'[w][a][h] = actor[w][a][h]
    BY <1>1, <1>2, <2>2, ActorSet
  <2>5. /\ registry'[w][a] = t.gen
        /\ \A v \in Workers, b \in Agents :
              v # w \/ b # a => registry'[v][b] = registry[v][b]
    BY <1>1, <1>2, <2>2, RegistrySet
  <2>6. \A h \in Gens : ~IsRunning(w, a, h)
    BY <1>2, <1>3, <1>5, AgentAssumption DEF Registered
  <2>7. Registered(w, a)'
    BY <2>4, <2>5, <2>6 DEF Registered, IsRunning
  <2> QED BY <1>1, <1>2, <2>2, <2>3, <2>4, <2>5, <2>7, OnFlight DEF Builds
<1> QED BY <1>4, <1>5

LEMMA TakeLeaseFlight ==
  ASSUME ShapeInv, FlightInv, NEW w \in Workers, NEW s \in Slots, TakeLease(w, s)
  PROVE  FlightInv'
<1>1. PICK t, a : t = tasks[w][s] /\ a = t.agent
  OBVIOUS
<1>2. /\ t.pc = "acquire"
      /\ \/ Construct(w, s, t) /\ UNCHANGED <<promise, ensureCache>>
         \/ Become(w, s, [t EXCEPT !.pc = "holder"]) /\ UNCHANGED localState
         \/ Settle(w, s, t, Rejected) /\ UNCHANGED <<registry, actor>>
  BY <1>1 DEF TakeLease, At
<1>3. StepOf(w, s)
  BY TakeLeaseShape
<1>4. t \in ActorTask /\ a \in Agents /\ Builds(t) /\ Registered(w, a)
  BY <1>1, <1>2, TaskAt DEF ShapeInv, Good, Shape, Builds, FlightInv
<1>5. CASE Construct(w, s, t) /\ UNCHANGED <<promise, ensureCache>>
  BY <1>1, <1>2, <1>3, <1>5, ConstructFlight
<1>6. CASE Become(w, s, [t EXCEPT !.pc = "holder"]) /\ UNCHANGED localState
  <2>1. PICK u : u = [t EXCEPT !.pc = "holder"]
    OBVIOUS
  <2>2. Become(w, s, u) /\ UNCHANGED <<ensureCache, promise, registry, actor>>
    BY <1>6, <2>1 DEF localState
  <2>3. u.pc = "holder" /\ u.agent = a /\ u.gen = t.gen
    BY <1>1, <1>4, <2>1, AtPc
  <2>4. Registered(w, a)'
    BY <1>4, <2>2 DEF Registered, IsRunning
  <2> QED BY <1>1, <1>3, <1>4, <2>2, <2>3, <2>4, OnFlight DEF Builds
<1>7. CASE Settle(w, s, t, Rejected) /\ UNCHANGED <<registry, actor>>
  <2>1. Registered(w, a)'
    BY <1>4, <1>7 DEF Registered, IsRunning
  <2> QED BY <1>1, <1>4, <1>7, <2>1, SettleFlight
<1> QED BY <1>2, <1>5, <1>6, <1>7

LEMMA ReadHolderFlight ==
  ASSUME ShapeInv, FlightInv, NEW w \in Workers, NEW s \in Slots, ReadHolder(w, s)
  PROVE  FlightInv'
<1>1. PICK t, a, o : t = tasks[w][s] /\ a = t.agent /\ o = leaseKey[a]
  OBVIOUS
<1>2. /\ t.pc = "holder"
      /\ \/ Construct(w, s, t) /\ UNCHANGED <<promise, ensureCache>>
         \/ Settle(w, s, t, Resolved(o)) /\ UNCHANGED <<registry, actor>>
  BY <1>1 DEF ReadHolder, At
<1>3. StepOf(w, s)
  BY ReadHolderShape
<1>4. t \in ActorTask /\ a \in Agents /\ Builds(t) /\ Registered(w, a)
  BY <1>1, <1>2, TaskAt DEF ShapeInv, Good, Shape, Builds, FlightInv
<1>5. CASE Construct(w, s, t) /\ UNCHANGED <<promise, ensureCache>>
  BY <1>1, <1>2, <1>3, <1>5, ConstructFlight
<1>6. CASE Settle(w, s, t, Resolved(o)) /\ UNCHANGED <<registry, actor>>
  <2>1. Registered(w, a)'
    BY <1>4, <1>6 DEF Registered, IsRunning
  <2>2. o \in Owners
    BY <1>1, <1>4 DEF ShapeInv, CoreType, LeaseTypeOK, Owners, Agents
  <2> QED BY <1>1, <1>4, <1>6, <2>1, <2>2, SettleFlight
<1> QED BY <1>2, <1>5, <1>6

LEMMA TornDownFlight ==
  ASSUME ShapeInv, FlightInv, NEW w \in Workers, NEW s \in Slots, TornDown(w, s)
  PROVE  FlightInv'
<1>1. PICK t, a : t = tasks[w][s] /\ a = t.agent
  OBVIOUS
<1>2. PICK u : u = [t EXCEPT !.pc = "starting", !.prior = NoGen]
  OBVIOUS
<1>3. /\ t.pc = "teardown" /\ Register(w, a, t.gen) /\ Become(w, s, u)
      /\ actor' = [actor EXCEPT ![w][a] =
                       [@ EXCEPT ![t.prior] = "off", ![t.gen] = "starting"]]
      /\ UNCHANGED <<ensureCache, promise>>
  BY <1>1, <1>2 DEF TornDown, At
<1>4. StepOf(w, s)
  BY TornDownShape
<1>5. /\ t \in ActorTask /\ a \in Agents /\ Builds(t) /\ t.gen \in Gens
      /\ t.prior \in Gens
  BY <1>1, <1>3, TaskAt DEF ShapeInv, Good, Shape, Builds, GenPcs
<1>6. Registered(w, a) /\ registry[w][a] = t.prior
  BY <1>1, <1>3, <1>5 DEF FlightInv, Fitting, Fits
<1>7. u.pc = "starting" /\ u.agent = a /\ u.gen = t.gen
  <2>1. u.pc = "starting" /\ u.agent = t.agent /\ u.gen = t.gen
    BY <1>2, <1>5, ZenonT(60) DEF ActorTask
  <2> QED BY <1>1, <2>1
<1>8. actor \in [Workers -> [Agents -> [Gens -> {"off", "starting", "on", "stopping"}]]]
  BY DEF ShapeInv, LocalType
<1>9. /\ \A v \in Workers, b \in Agents :
              v # w \/ b # a => actor'[v][b] = actor[v][b]
      /\ \A h \in Gens : h # t.gen /\ h # t.prior => actor'[w][a][h] = actor[w][a][h]
      /\ t.prior # t.gen => actor'[w][a][t.prior] = "off"
  BY <1>3, <1>5, <1>8
<1>10. /\ registry'[w][a] = t.gen
       /\ \A v \in Workers, b \in Agents :
              v # w \/ b # a => registry'[v][b] = registry[v][b]
  BY <1>3, <1>5, RegistrySet
<1>11. Registered(w, a)'
  BY <1>5, <1>6, <1>9, <1>10 DEF Registered, IsRunning
<1>12. Become(w, s, u) /\ UNCHANGED <<ensureCache, promise>>
  BY <1>3
<1>13. \A v \in Workers, b \in Agents : v # w \/ b # a =>
           actor'[v][b] = actor[v][b] /\ registry'[v][b] = registry[v][b]
  BY <1>9, <1>10
<1> QED BY <1>1, <1>4, <1>5, <1>7, <1>10, <1>11, <1>12, <1>13, OnFlight DEF Builds

LEMMA StartedFlight ==
  ASSUME ShapeInv, FlightInv, NEW w \in Workers, NEW s \in Slots, Started(w, s)
  PROVE  FlightInv'
<1>1. PICK t, a : t = tasks[w][s] /\ a = t.agent
  OBVIOUS
<1>2. /\ t.pc = "starting" /\ UNCHANGED registry
      /\ \/ /\ SetActor(w, a, t.gen, "on") \/ UNCHANGED actor
            /\ Settle(w, s, t, Resolved(w))
         \/ /\ SetActor(w, a, t.gen, "stopping") \/ UNCHANGED actor
            /\ Become(w, s, [t EXCEPT !.pc = "abort"])
            /\ UNCHANGED <<ensureCache, promise>>
  BY <1>1 DEF Started, At
<1>3. StepOf(w, s)
  BY StartedShape
<1>4. t \in ActorTask /\ a \in Agents /\ Builds(t) /\ t.gen \in Gens
  BY <1>1, <1>2, TaskAt DEF ShapeInv, Good, Shape, Builds, GenPcs
<1>5. Registered(w, a) /\ registry[w][a] = t.gen
  BY <1>1, <1>2, <1>4 DEF FlightInv, Fitting, Fits
<1>6. /\ \A v \in Workers, b \in Agents :
              v # w \/ b # a => actor'[v][b] = actor[v][b]
      /\ \A h \in Gens : h # t.gen => actor'[w][a][h] = actor[w][a][h]
  BY <1>2, <1>4, ActorSet
<1>7. Registered(w, a)'
  BY <1>2, <1>5, <1>6 DEF Registered, IsRunning
<1>8. CASE Settle(w, s, t, Resolved(w))
  BY <1>1, <1>2, <1>4, <1>6, <1>7, <1>8, SettleFlight DEF Owners
<1>9. CASE /\ Become(w, s, [t EXCEPT !.pc = "abort"])
           /\ UNCHANGED <<ensureCache, promise>>
  <2>1. PICK u : u = [t EXCEPT !.pc = "abort"]
    OBVIOUS
  <2>2. Become(w, s, u)
    BY <1>9, <2>1
  <2>3. u.pc = "abort" /\ u.agent = a /\ u.gen = t.gen
    BY <1>1, <1>4, <2>1, AtPc
  <2> QED BY <1>1, <1>2, <1>3, <1>4, <1>5, <1>6, <1>7, <1>9, <2>2, <2>3, OnFlight
          DEF Builds
<1> QED BY <1>2, <1>8, <1>9

LEMMA AbortedFlight ==
  ASSUME ShapeInv, FlightInv, NEW w \in Workers, NEW s \in Slots, Aborted(w, s)
  PROVE  FlightInv'
<1>1. PICK t, a : t = tasks[w][s] /\ a = t.agent
  OBVIOUS
<1>2. PICK u : u = [t EXCEPT !.pc = "release"]
  OBVIOUS
<1>3. /\ t.pc = "abort" /\ SetActor(w, a, t.gen, "off") /\ Register(w, a, NoGen)
      /\ Become(w, s, u) /\ UNCHANGED <<ensureCache, promise>>
  BY <1>1, <1>2 DEF Aborted, At
<1>4. StepOf(w, s)
  BY AbortedShape
<1>5. t \in ActorTask /\ a \in Agents /\ Builds(t) /\ t.gen \in Gens
  BY <1>1, <1>3, TaskAt DEF ShapeInv, Good, Shape, Builds, GenPcs
<1>6. Registered(w, a) /\ registry[w][a] = t.gen
  BY <1>1, <1>3, <1>5 DEF FlightInv, Fitting, Fits
<1>7. u.pc = "release" /\ u.agent = a /\ u.gen = t.gen
  BY <1>1, <1>2, <1>5, AtPc
<1>8. /\ \A v \in Workers, b \in Agents :
              v # w \/ b # a => actor'[v][b] = actor[v][b]
      /\ \A h \in Gens : h # t.gen => actor'[w][a][h] = actor[w][a][h]
      /\ actor'[w][a][t.gen] = "off"
  BY <1>3, <1>5, ActorSet
<1>9. /\ registry'[w][a] = NoGen
      /\ \A v \in Workers, b \in Agents :
              v # w \/ b # a => registry'[v][b] = registry[v][b]
  BY <1>3, <1>5, RegistrySet
<1>10. Registered(w, a)'
  BY <1>5, <1>6, <1>8, <1>9 DEF Registered, IsRunning
<1> QED BY <1>1, <1>3, <1>4, <1>5, <1>7, <1>8, <1>9, <1>10, OnFlight DEF Builds

LEMMA GiveUpLeaseFlight ==
  ASSUME ShapeInv, FlightInv, NEW w \in Workers, NEW s \in Slots, GiveUpLease(w, s)
  PROVE  FlightInv'
<1>1. PICK t, a : t = tasks[w][s] /\ a = t.agent
  OBVIOUS
<1>2. /\ t.pc = "release" /\ Settle(w, s, t, Rejected)
      /\ UNCHANGED <<registry, actor>>
  BY <1>1 DEF GiveUpLease, At
<1>3. a \in Agents /\ Builds(t)
  BY <1>1, <1>2, TaskAt DEF ShapeInv, Shape, Builds
<1>4. Registered(w, a)'
  BY <1>2, <1>3 DEF FlightInv, Registered, IsRunning
<1> QED BY <1>1, <1>2, <1>3, <1>4, SettleFlight

LEMMA EnsureFlight ==
  ASSUME ShapeInv, FlightInv, ~Crossed', NEW w \in Workers, NEW s \in Slots,
         EnsureStep(w, s)
  PROVE  FlightInv'
  BY ReadProfileFlight, ProfileMissingFlight, PriorSettledFlight, CheckHolderFlight,
     JoinSettledFlight, TakeLeaseFlight, ReadHolderFlight, TornDownFlight,
     StartedFlight, AbortedFlight, GiveUpLeaseFlight
     DEF EnsureStep

-----------------------------------------------------------------------------
(* Stopping an actor, and its crash *)

LEMMA MarkStoppedFlight ==
  ASSUME ShapeInv, FlightInv, ~Crossed', NEW w \in Workers, NEW s \in Slots,
         MarkStopped(w, s)
  PROVE  FlightInv'
<1>1. PICK t, a, g : t = tasks[w][s] /\ a = t.agent /\ g = registry[w][a]
  OBVIOUS
<1>2. /\ t.pc = "mark" /\ UNCHANGED <<promise, registry>>
      /\ Ensuring(w, a) => "overlap" \in happened'
      /\ \/ /\ g # NoGen /\ Become(w, s, [t EXCEPT !.pc = "halt", !.gen = g])
            /\ SetActor(w, a, g, "stopping") \/ UNCHANGED actor
            /\ UNCHANGED ensureCache
         \/ /\ g = NoGen /\ Become(w, s, IdleTask)
            /\ ensureCache' = [ensureCache EXCEPT ![w][a] = NoGen]
            /\ UNCHANGED actor
  BY <1>1 DEF MarkStopped, At, Evict, Races
<1>3. StepOf(w, s)
  BY MarkStoppedShape
<1>4. /\ t \in ActorTask /\ a \in Agents /\ g \in Gens \cup {NoGen}
      /\ Registered(w, a)
  <2>1. t \in ActorTask /\ a \in Agents
    BY <1>1, <1>2, TaskAt DEF ShapeInv, Shape
  <2> QED BY <1>1, <2>1 DEF ShapeInv, LocalType, FlightInv
<1>5. ~Ensuring(w, a)
  BY <1>2 DEF Crossed
<1>6. ASSUME NEW r \in Slots \ {s}, NEW x \in ActorTask,
             x = tasks[w][r], x.agent = a, Relevant(x)
      PROVE  Fits(w, x)' /\ ~Builds(x)
  <2>1. Good(x) /\ Fits(w, x)
    BY <1>6, TaskAt DEF ShapeInv, FlightInv, Fitting
  <2>2. x.kind = "stop"
    BY <1>5, <1>6 DEF Ensuring
  <2>3. x.pc \notin EnsurePcs
    BY <2>1, <2>2 DEF Good, Shape
  <2>4. ~Builds(x) /\ x.pc # "checkHolder" /\ TakesDown(x)
    BY <1>6, <2>3 DEF EnsurePcs, Relevant, Builds
  <2>5. registry'[w][a] = registry[w][a]
    BY <1>2
  <2> QED BY <1>6, <2>1, <2>4, <2>5 DEF Fits, Builds, TakesDown
<1>7. CASE /\ g # NoGen /\ Become(w, s, [t EXCEPT !.pc = "halt", !.gen = g])
           /\ SetActor(w, a, g, "stopping") \/ UNCHANGED actor
           /\ UNCHANGED ensureCache
  <2>1. PICK u : u = [t EXCEPT !.pc = "halt", !.gen = g]
    OBVIOUS
  <2>2. Become(w, s, u) /\ Good(u)
    BY <1>3, <1>7, <2>1, BecomeGood
  <2>3. u.pc = "halt" /\ u.gen = g /\ u.agent = t.agent
    BY <1>4, <2>1, ZenonT(60) DEF ActorTask
  <2>4. /\ \A v \in Workers, b \in Agents :
              v # w \/ b # a => actor'[v][b] = actor[v][b]
        /\ \A h \in Gens : h # g => actor'[w][a][h] = actor[w][a][h]
    BY <1>4, <1>7, ActorSet
  <2>5. Elsewhere(w, a)
    BY <1>2, <1>7, <2>4 DEF Elsewhere
  <2>6. registry'[w][a] = g /\ registry[w][a] = g
    BY <1>1, <1>2
  <2>7. Registered(w, a)'
    BY <1>4, <2>4, <2>6 DEF Registered, IsRunning
  <2>8. Fits(w, u)' /\ ~Builds(u) /\ u.agent = a
    BY <1>1, <2>3, <2>6 DEF Fits, Builds, TakesDown
  <2> QED BY <1>4, <1>6, <2>2, <2>5, <2>7, <2>8, FlightFrom
<1>8. CASE /\ g = NoGen /\ Become(w, s, IdleTask)
           /\ ensureCache' = [ensureCache EXCEPT ![w][a] = NoGen]
           /\ UNCHANGED actor
  <2>1. PICK u : u = IdleTask
    OBVIOUS
  <2>2. Become(w, s, u) /\ Good(u) /\ u.pc = "idle"
    BY <1>8, <2>1, IdleGood
  <2>3. ensureCache \in [Workers -> [Agents -> Gens \cup {NoGen}]]
    BY DEF ShapeInv, LocalType
  <2>4. Elsewhere(w, a)
    BY <1>2, <1>4, <1>8, <2>3 DEF Elsewhere
  <2>5. Registered(w, a)'
    BY <1>2, <1>4, <1>8 DEF Registered, IsRunning
  <2>6. ~Relevant(u) /\ ~Builds(u) /\ ~TakesDown(u) /\ Fits(w, u)'
    BY <2>2, AwayFits
  <2> QED BY <1>4, <1>6, <2>2, <2>4, <2>5, <2>6, FlightFrom
<1> QED BY <1>2, <1>7, <1>8

(* An actor has stopped: its agent is deregistered. *)
LEMMA DownFlight ==
  ASSUME ShapeInv, FlightInv, NEW w \in Workers, NEW s \in Slots,
         NEW t, t = tasks[w][s], TakesDown(t), NEW a, a = t.agent,
         SetActor(w, a, t.gen, "off"), Register(w, a, NoGen),
         Become(w, s, IdleTask), UNCHANGED promise,
         \A v \in Workers, b \in Agents :
             v # w \/ b # a => ensureCache'[v][b] = ensureCache[v][b]
  PROVE  FlightInv'
<1>1. t \in ActorTask /\ a \in Agents /\ t.gen \in Gens
  BY TaskAt DEF ShapeInv, Good, Shape, TakesDown, GenPcs
<1>2. Registered(w, a) /\ registry[w][a] \in {t.gen, NoGen}
  BY <1>1 DEF FlightInv, Fitting, Fits
<1>3. /\ \A v \in Workers, b \in Agents :
              v # w \/ b # a => actor'[v][b] = actor[v][b]
      /\ \A h \in Gens : h # t.gen => actor'[w][a][h] = actor[w][a][h]
      /\ actor'[w][a][t.gen] = "off"
  BY <1>1, ActorSet
<1>4. /\ registry'[w][a] = NoGen
      /\ \A v \in Workers, b \in Agents :
              v # w \/ b # a => registry'[v][b] = registry[v][b]
  BY <1>1, RegistrySet
<1>5. Elsewhere(w, a)
  BY <1>3, <1>4 DEF Elsewhere
<1>6. Registered(w, a)'
  BY <1>1, <1>2, <1>3, AgentAssumption DEF Registered, IsRunning
<1>7. PICK u : u = IdleTask
  OBVIOUS
<1>8. Become(w, s, u) /\ Good(u) /\ u.pc = "idle"
  BY <1>7, IdleGood
<1>9. ~Relevant(u) /\ ~Builds(u) /\ ~TakesDown(u) /\ Fits(w, u)'
  BY <1>8, AwayFits
<1>10. ASSUME NEW r \in Slots \ {s}, NEW x \in ActorTask,
              x = tasks[w][r], x.agent = a, Relevant(x)
       PROVE  Fits(w, x)'
  <2>1. ~Builds(x)
    BY <1>1, <1>10 DEF FlightInv, Alone
  <2>2. Fits(w, x)
    BY <1>10 DEF FlightInv, Fitting
  <2>3. x.pc \notin {"teardown", "starting", "abort", "release"}
    BY <2>1 DEF Builds
  <2> QED BY <1>4, <1>10, <2>1, <2>2, <2>3 DEF Fits
<1> QED BY <1>1, <1>5, <1>6, <1>8, <1>9, <1>10, FlightFrom

LEMMA HaltedFlight ==
  ASSUME ShapeInv, FlightInv, NEW w \in Workers, NEW s \in Slots, Halted(w, s)
  PROVE  FlightInv'
<1>1. PICK t, a : t = tasks[w][s] /\ a = t.agent
  OBVIOUS
<1>2. /\ t.pc = "halt" /\ SetActor(w, a, t.gen, "off") /\ Register(w, a, NoGen)
      /\ Become(w, s, IdleTask) /\ UNCHANGED promise
      /\ ensureCache' = [ensureCache EXCEPT ![w][a] = NoGen]
  BY <1>1 DEF Halted, At, Evict
<1>3. a \in Agents
  BY <1>1, <1>2, TaskAt DEF ShapeInv, Shape
<1>4. ensureCache \in [Workers -> [Agents -> Gens \cup {NoGen}]]
  BY DEF ShapeInv, LocalType
<1>5. \A v \in Workers, b \in Agents :
          v # w \/ b # a => ensureCache'[v][b] = ensureCache[v][b]
  BY <1>2, <1>3, <1>4
<1> QED BY <1>1, <1>2, <1>5, DownFlight DEF TakesDown

LEMMA CrashedFlight ==
  ASSUME ShapeInv, FlightInv, NEW w \in Workers, NEW s \in Slots, Crashed(w, s)
  PROVE  FlightInv'
<1>1. PICK t, a : t = tasks[w][s] /\ a = t.agent
  OBVIOUS
<1>2. /\ t.pc = "crash" /\ SetActor(w, a, t.gen, "off") /\ Register(w, a, NoGen)
      /\ Become(w, s, IdleTask) /\ UNCHANGED <<ensureCache, promise>>
  BY <1>1 DEF Crashed, At
<1> QED BY <1>1, <1>2, DownFlight DEF TakesDown

LEMMA CrashFlight ==
  ASSUME ShapeInv, FlightInv, ~Crossed', NEW w \in Workers, NEW s \in Slots,
         NEW a \in Agents, NEW g \in Gens, Crash(w, s, a, g)
  PROVE  FlightInv'
<1>1. PICK u : u = [IdleTask EXCEPT !.pc = "crash", !.kind = "crash",
                                    !.agent = a, !.gen = g]
  OBVIOUS
<1>2. /\ Become(w, s, u) /\ UNCHANGED localState /\ actor[w][a][g] = "on"
      /\ Building(w, a) \/ TakingDown(w, a) => "overlap" \in happened'
  BY <1>1 DEF Crash
<1>3. Good(u)
  BY <1>1, CrashGood
<1>4. u.pc = "crash" /\ u.agent = a /\ u.gen = g
  BY <1>1, IdleFields, ZenonT(60) DEF ActorTask
<1>5. UNCHANGED <<ensureCache, promise, registry, actor>>
  BY <1>2 DEF localState
<1>6. Registered(w, a) /\ Registered(w, a)' /\ registry'[w][a] = g
  <2>1. Registered(w, a) /\ Registered(w, a)'
    BY <1>5 DEF FlightInv, Registered, IsRunning
  <2> QED BY <1>2, <1>5, <2>1 DEF Registered, IsRunning
<1>7. Fits(w, u)' /\ ~Builds(u)
  BY <1>4, <1>6 DEF Fits, Builds, TakesDown
<1>8. ASSUME NEW r \in Slots \ {s}, NEW x \in ActorTask,
             x = tasks[w][r], x.agent = a, Relevant(x)
      PROVE  Fits(w, x)' /\ ~Builds(x) /\ ~TakesDown(x)
  <2>1. ~Builds(x) /\ ~TakesDown(x)
    BY <1>2, <1>8 DEF Crossed, Building, TakingDown
  <2>2. Fits(w, x)
    BY <1>8 DEF FlightInv, Fitting
  <2> QED BY <1>5, <2>1, <2>2 DEF Fits
<1>9. Elsewhere(w, a)
  BY <1>5 DEF Elsewhere
<1> QED BY <1>2, <1>3, <1>4, <1>6, <1>7, <1>8, <1>9, FlightFrom

-----------------------------------------------------------------------------
(* The calls and the loops have no actor in hand between two ensures *)

Plain(w, s) ==
    /\ \E u : /\ Good(u) /\ Become(w, s, u)
              /\ u.pc \in {"idle", "profile", "mark", "execute", "scan"}
    /\ UNCHANGED localState

LEMMA PlainFlight ==
  ASSUME ShapeInv, FlightInv, NEW w \in Workers, NEW s \in Slots, Plain(w, s)
  PROVE  FlightInv'
<1>1. PICK u : /\ Good(u) /\ Become(w, s, u)
               /\ u.pc \in {"idle", "profile", "mark", "execute", "scan"}
  BY DEF Plain
<1>2. ~Builds(u) /\ ~TakesDown(u) /\ Fits(w, u)
  BY <1>1, AwayFits
<1>3. UNCHANGED localState
  BY DEF Plain
<1> QED BY <1>1, <1>2, <1>3, QuietFlight

LEMMA CallsPlain ==
  ASSUME ShapeInv, NEW w \in Workers, NEW s \in Slots, NEW a \in Agents,
         \/ StartAgentActor(w, s, a) \/ StopAgentActor(w, s, a)
         \/ \E d \in Decisions : AskDecision(w, s, d, a)
  PROVE  Plain(w, s)
<1>1. CASE StartAgentActor(w, s, a)
  <2>1. PICK u : u = EnsureTask("start", a)
    OBVIOUS
  <2>2. Become(w, s, u) /\ UNCHANGED localState
    BY <1>1, <2>1 DEF StartAgentActor
  <2>3. Good(u) /\ u.pc = "profile"
    BY <2>1, EnsureGood
  <2> QED BY <2>2, <2>3 DEF Plain
<1>2. CASE StopAgentActor(w, s, a)
  <2>1. PICK u : u = [IdleTask EXCEPT !.pc = "mark", !.kind = "stop", !.agent = a]
    OBVIOUS
  <2>2. Become(w, s, u) /\ UNCHANGED localState
    BY <1>2, <2>1 DEF StopAgentActor
  <2>3. Good(u) /\ u.pc = "mark"
    BY <2>1, StopGood
  <2> QED BY <2>2, <2>3 DEF Plain
<1>3. ASSUME NEW d \in Decisions, AskDecision(w, s, d, a)
      PROVE  Plain(w, s)
  <2>1. PICK u : u = [EnsureTask("decide", a) EXCEPT !.dec = d]
    OBVIOUS
  <2>2. Become(w, s, u) /\ UNCHANGED localState
    BY <1>3, <2>1 DEF AskDecision
  <2>3. Good(u) /\ u.pc = "profile"
    BY <2>1, DecideGood
  <2> QED BY <2>2, <2>3 DEF Plain
<1> QED BY <1>1, <1>2, <1>3

LEMMA EndsPlain ==
  ASSUME ShapeInv, NEW w \in Workers, NEW s \in Slots,
         RecordRunning(w, s) \/ ExecuteHere(w, s) \/ Listen(w, s)
  PROVE  Plain(w, s)
<1>1. Become(w, s, IdleTask) /\ UNCHANGED localState
  BY DEF RecordRunning, ExecuteHere, Listen
<1> QED BY <1>1, IdleGood DEF Plain

LEMMA ListingPlain ==
  ASSUME ShapeInv, NEW w \in Workers, NEW s \in Slots,
         Boot(w, s) \/ Sweep(w, s)
  PROVE  Plain(w, s)
<1>1. PICK k \in {"sweep", "boot"} :
         /\ Become(w, s, [IdleTask EXCEPT !.pc = "scan", !.kind = k, !.todo = Running])
         /\ UNCHANGED localState
  BY DEF Boot, Sweep
<1>2. PICK R : R = Running
  OBVIOUS
<1>3. PICK u : u = [IdleTask EXCEPT !.pc = "scan", !.kind = k, !.todo = R]
  OBVIOUS
<1>4. R \in SUBSET Agents
  BY <1>2 DEF Running
<1>5. Good(u) /\ u.pc = "scan"
  BY <1>3, <1>4, ScanGood
<1>6. Become(w, s, u)
  BY <1>1, <1>2, <1>3
<1> QED BY <1>1, <1>5, <1>6 DEF Plain

LEMMA ScanNextPlain ==
  ASSUME ShapeInv, NEW w \in Workers, NEW s \in Slots, ScanNext(w, s)
  PROVE  Plain(w, s)
<1>1. PICK t : t = tasks[w][s]
  OBVIOUS
<1>2. t.pc = "scan" /\ UNCHANGED localState
  BY <1>1 DEF ScanNext, At
<1>3. PICK a \in t.todo :
         Become(w, s,
             IF t.kind = "sweep" /\ IsActorAlive(w, a)
             THEN After([t EXCEPT !.todo = t.todo \ {a}], NoWorker)
             ELSE [EnsureTask(t.kind, a) EXCEPT !.todo = t.todo \ {a}])
  BY <1>1 DEF ScanNext
<1>4. PICK R, k : R = t.todo \ {a} /\ k = t.kind
  OBVIOUS
<1>5. /\ Good(t) /\ a \in Agents /\ R \in SUBSET Agents
      /\ k \in {"sweep", "boot"}
  BY <1>1, <1>2, <1>3, <1>4, TaskAt DEF ShapeInv, Shape, ActorTask, Good
<1>6. CASE k = "sweep" /\ IsActorAlive(w, a)
  <2>1. PICK v, u : v = [t EXCEPT !.todo = t.todo \ {a}] /\ u = After(v, NoWorker)
    OBVIOUS
  <2>2. Become(w, s, u)
    BY <1>3, <1>4, <1>6, <2>1
  <2>3. v.kind = k /\ v.todo = R
    BY <1>4, <1>5, <2>1 DEF Good, ActorTask
  <2>4. u = IdleTask \/ u = [IdleTask EXCEPT !.pc = "scan", !.kind = k, !.todo = R]
    BY <1>6, <2>1, <2>3 DEF After
  <2>5. Good(u) /\ u.pc \in {"idle", "scan"}
    <3>1. CASE u = IdleTask
      BY <3>1, IdleGood
    <3>2. CASE u = [IdleTask EXCEPT !.pc = "scan", !.kind = k, !.todo = R]
      BY <1>5, <3>2, ScanGood
    <3> QED BY <2>4, <3>1, <3>2
  <2> QED BY <1>2, <2>2, <2>5 DEF Plain
<1>7. CASE ~(k = "sweep" /\ IsActorAlive(w, a))
  <2>1. PICK u : u = [EnsureTask(k, a) EXCEPT !.todo = R]
    OBVIOUS
  <2>2. Become(w, s, u)
    BY <1>3, <1>4, <1>7, <2>1
  <2>3. Good(u) /\ u.pc = "profile"
    BY <1>5, <2>1, EnsureNextGood
  <2> QED BY <1>2, <2>2, <2>3 DEF Plain
<1> QED BY <1>6, <1>7

LEMMA PublishPlain ==
  ASSUME ShapeInv, NEW w \in Workers, NEW s \in Slots, Publish(w, s)
  PROVE  Plain(w, s)
<1>1. PICK t : t = tasks[w][s]
  OBVIOUS
<1>2. /\ t.pc = "publish" /\ UNCHANGED localState
      /\ \/ Become(w, s, [t EXCEPT !.pc = "execute"])
         \/ Become(w, s, IdleTask)
  BY <1>1 DEF Publish, At, Submit
<1>3. t \in ActorTask /\ Shape(t)
  BY <1>1, TaskAt DEF ShapeInv
<1>4. CASE Become(w, s, [t EXCEPT !.pc = "execute"])
  <2>1. PICK u : u = [t EXCEPT !.pc = "execute"]
    OBVIOUS
  <2>2. /\ u \in ActorTask /\ u.pc = "execute" /\ u.agent = t.agent
        /\ u.kind = t.kind /\ u.dec = t.dec
    <3>1. "execute" \in Pcs
      BY DEF Pcs
    <3> QED BY <1>3, <2>1, <3>1, ZenonT(60) DEF ActorTask
  <2>3. Good(u)
    BY <1>2, <1>3, <2>2 DEF Good, Shape, GenPcs, EnsurePcs
  <2> QED BY <1>2, <1>4, <2>1, <2>2, <2>3 DEF Plain
<1>5. CASE Become(w, s, IdleTask)
  BY <1>2, <1>5, IdleGood DEF Plain
<1> QED BY <1>2, <1>4, <1>5

(* Calls, the ends of tools, and listings. *)
PlainStep(w, s) ==
    \/ \E a \in Agents : StartAgentActor(w, s, a) \/ StopAgentActor(w, s, a)
    \/ \E d \in Decisions, a \in Agents : AskDecision(w, s, d, a)
    \/ RecordRunning(w, s) \/ Publish(w, s) \/ ExecuteHere(w, s)
    \/ Boot(w, s) \/ Sweep(w, s) \/ ScanNext(w, s) \/ Listen(w, s)

LEMMA PlainSteps ==
  ASSUME ShapeInv, NEW w \in Workers, NEW s \in Slots, PlainStep(w, s)
  PROVE  Plain(w, s)
  BY CallsPlain, EndsPlain, ListingPlain, ScanNextPlain, PublishPlain DEF PlainStep

-----------------------------------------------------------------------------
(* The other steps *)

LEMMA NoTaskFlight ==
  ASSUME ShapeInv, FlightInv, UNCHANGED <<localState, tasks>>
  PROVE  FlightInv'
  BY DEF FlightInv, Fitting, Alone, Registered, IsRunning, localState, Fits

LEMMA VanishFlight ==
  ASSUME ShapeInv, FlightInv, NEW w \in Workers, Vanish(w), NoteOwners,
         happened' \in SUBSET (FaultKinds \cup Races)
  PROVE  FlightInv'
<1>1. /\ \A s \in Slots : tasks'[w][s] = IdleTask
      /\ \A v \in Workers, s \in Slots : v # w => tasks'[v][s] = tasks[v][s]
  BY VanishType
<1>2. /\ \A v \in Workers : v # w =>
            /\ ensureCache'[v] = ensureCache[v] /\ promise'[v] = promise[v]
            /\ registry'[v] = registry[v] /\ actor'[v] = actor[v]
      /\ actor'[w] = [a \in Agents |-> [g \in Gens |-> "off"]]
  BY DEF Vanish, ShapeInv, LocalType
<1>3. IdleTask.pc = "idle"
  BY IdleGood
<1>4. ASSUME NEW v \in Workers, NEW s \in Slots, NEW x \in ActorTask, x = tasks'[v][s]
      PROVE  Fits(v, x)'
  <2>1. CASE v = w
    <3>1. x.pc = "idle"
      BY <1>1, <1>3, <1>4, <2>1
    <3> QED BY <3>1, AwayFits
  <2>2. CASE v # w
    <3>1. Fits(v, x)
      BY <1>1, <1>4, <2>2 DEF FlightInv, Fitting
    <3> QED BY <1>2, <2>2, <3>1 DEF Fits
  <2> QED BY <2>1, <2>2
<1>5. ASSUME NEW v \in Workers, NEW p \in Slots, NEW r \in Slots \ {p},
             NEW t \in ActorTask, NEW x \in ActorTask,
             t = tasks'[v][p], x = tasks'[v][r], t.agent = x.agent, Builds(t)
      PROVE  ~Builds(x) /\ ~TakesDown(x)
  <2>1. CASE v = w
    BY <1>1, <1>3, <1>5, <2>1 DEF Builds
  <2>2. CASE v # w
    BY <1>1, <1>5, <2>2 DEF FlightInv, Alone
  <2> QED BY <2>1, <2>2
<1>6. ASSUME NEW v \in Workers, NEW b \in Agents PROVE Registered(v, b)'
  <2>1. CASE v = w
    BY <1>2, <2>1 DEF Registered, IsRunning
  <2>2. CASE v # w
    BY <1>2, <2>2 DEF FlightInv, Registered, IsRunning
  <2> QED BY <2>1, <2>2
<1> QED BY <1>4, <1>5, <1>6 DEF FlightInv, Fitting, Alone

(* What has happened has happened. *)
LEMMA HappenedGrows ==
  ASSUME [Next]_agentVars
  PROVE  happened \subseteq happened'
<1>1. CASE UNCHANGED agentVars
  BY <1>1 DEF agentVars
<1>2. ASSUME NEW w \in Workers, NEW s \in Slots, EnsureStep(w, s) PROVE happened \subseteq happened'
  <2>1. \/ UNCHANGED happened
        \/ \E t : NewPromise(w, s, t)
        \/ \E k : Fault(k)
    BY <1>2 DEF EnsureStep, ReadProfile, ProfileMissing, PriorSettled, CheckHolder,
       JoinSettled, TakeLease, ReadHolder, TornDown, Started, Aborted, GiveUpLease,
       Reconstruct
  <2> QED BY <2>1 DEF NewPromise, Fault
<1>3. ASSUME NEW w \in Workers, NEW s \in Slots, MarkStopped(w, s) \/ Halted(w, s)
      PROVE  happened \subseteq happened'
  BY <1>3 DEF MarkStopped, Halted, Evict
<1>4. ASSUME NEW w \in Workers, NEW s \in Slots,
             \/ LoopStep(w, s) \/ RecordRunning(w, s) \/ Boot(w, s) \/ Sweep(w, s)
             \/ \E a \in Agents : StartAgentActor(w, s, a) \/ StopAgentActor(w, s, a)
             \/ \E a \in Agents, g \in Gens : Crash(w, s, a, g)
             \/ \E d \in Decisions, a \in Agents : AskDecision(w, s, d, a)
             \/ Publish(w, s) \/ ExecuteHere(w, s)
      PROVE  happened \subseteq happened'
  BY <1>4 DEF LoopStep, ScanNext, Listen, Crashed, RecordRunning, Boot, Sweep,
     StartAgentActor, StopAgentActor, Crash, AskDecision, Publish, ExecuteHere
<1>5. ASSUME NEW w \in Workers, Pop(w) \/ CheckEnvelope(w) \/ ExecuteForwarded(w)
      PROVE  happened \subseteq happened'
  BY <1>5 DEF Pop, CheckEnvelope, ExecuteForwarded
<1>6. ASSUME Environment \/ \E d \in Decisions : ReplyTimesOut(d) PROVE happened \subseteq happened'
  BY <1>6 DEF Environment, ShutDown, RenewalStops, KeyRunsOut, LeaseStalls,
     ProfileChanges, ReplyTimesOut, Fault
<1>7. ASSUME happened' = happened \/ Fault("die") PROVE happened \subseteq happened'
  BY <1>7 DEF Fault
<1>8. CASE Next
  BY <1>2, <1>3, <1>4, <1>5, <1>6, <1>7, <1>8, Steps DEF TaskOnly
<1> QED BY <1>1, <1>8

LEMMA StillCrossed ==
  ASSUME Crossed, [Next]_agentVars
  PROVE  Crossed'
  BY HappenedGrows DEF Crossed

LEMMA NextFlight ==
  ASSUME ShapeInv, FlightInv, ~Crossed', [Next]_agentVars
  PROVE  FlightInv'
<1>1. CASE UNCHANGED agentVars
  BY <1>1, NoTaskFlight DEF agentVars
<1>2. ASSUME NEW w \in Workers, NEW s \in Slots, TaskOnly(w, s) PROVE FlightInv'
  BY <1>2, PlainSteps, PlainFlight, EnsureFlight, CrashedFlight, MarkStoppedFlight,
     HaltedFlight, CrashFlight DEF TaskOnly, LoopStep, PlainStep
<1>3. ASSUME NEW w \in Workers, Vanish(w), NoteOwners, happened' = happened \/ Fault("die")
      PROVE  FlightInv'
  <2>1. happened' \in SUBSET (FaultKinds \cup Races)
    BY <1>3 DEF Fault, MayFail, ShapeInv, CoreType
  <2> QED BY <1>3, <2>1, VanishFlight
<1>4. ASSUME \/ \E w \in Workers : Pop(w) \/ CheckEnvelope(w) \/ ExecuteForwarded(w)
             \/ \E d \in Decisions : ReplyTimesOut(d)
             \/ Environment
      PROVE  FlightInv'
  <2>1. UNCHANGED <<localState, tasks>>
    BY <1>4, EnvironmentSteps DEF Pop, CheckEnvelope, ExecuteForwarded, ReplyTimesOut
  <2> QED BY <2>1, NoTaskFlight
<1>5. CASE Next
  <2>1. \A w \in Workers, s \in Slots : PlainStep(w, s) => FlightInv'
    BY PlainSteps, PlainFlight
  <2> QED BY <1>2, <1>3, <1>4, <1>5, <2>1, Steps DEF PlainStep
<1> QED BY <1>1, <1>5

LEMMA InitFlight == Init => FlightInv
<1> SUFFICES ASSUME Init PROVE FlightInv
  OBVIOUS
<1>1. \A w \in Workers, s \in Slots : tasks[w][s].pc = "idle"
  BY IdleGood DEF Init
<1>2. \A w \in Workers, s \in Slots, t \in ActorTask :
          t = tasks[w][s] => Fits(w, t) /\ ~Builds(t)
  BY <1>1, AwayFits
<1>3. \A w \in Workers, a \in Agents : Registered(w, a)
  BY DEF Init, Registered, IsRunning
<1> QED BY <1>2, <1>3 DEF FlightInv, Fitting, Alone

LEMMA Flown == Spec => []((Crossed \/ FlightInv) /\ ShapeInv)
<1>1. Init => (Crossed \/ FlightInv) /\ ShapeInv
  BY InitFlight, InitShape
<1>2. /\ (Crossed \/ FlightInv) /\ ShapeInv
      /\ [Next]_agentVars
      => ((Crossed \/ FlightInv) /\ ShapeInv)'
  <2> SUFFICES ASSUME Crossed \/ FlightInv, ShapeInv, [Next]_agentVars
               PROVE  (Crossed' \/ FlightInv') /\ ShapeInv'
    OBVIOUS
  <2>1. ShapeInv'
    BY NextShape
  <2>2. Crossed' \/ FlightInv'
    BY StillCrossed, NextFlight
  <2> QED BY <2>1, <2>2
<1> QED BY <1>1, <1>2, PTL DEF Spec

(* However many callers ask for an agent, and whatever fails, a process    *)
(* constructs one actor of it at a time (agent-direct-actor-ensure.ts:     *)
(* 218-229), unless a teardown crossed the construction.                   *)
THEOREM OneConstruction == Spec => []SingleFlight
<1>1. (Crossed \/ FlightInv) /\ ShapeInv => SingleFlight
  <2> SUFFICES ASSUME FlightInv, ShapeInv,
                      NEW a \in Agents, NEW w \in Workers, NEW r \in Slots, NEW s \in Slots,
                      tasks[w][r].agent = a, Builds(tasks[w][r]),
                      tasks[w][s].agent = a, Builds(tasks[w][s]), r # s
               PROVE  FALSE
    BY DEF SingleFlight, Excused, Crossed
  <2>1. PICK t, x : t = tasks[w][r] /\ x = tasks[w][s]
    OBVIOUS
  <2>2. t \in ActorTask /\ x \in ActorTask
    BY <2>1, TaskAt DEF ShapeInv
  <2> QED BY <2>1, <2>2 DEF FlightInv, Alone
<1> QED BY <1>1, Flown, PTL

(* An actor that runs is the one its process has registered for the agent, *)
(* so every stop, sweep and replacement finds it, however often the agent  *)
(* was started, stopped, replaced or crashed.                              *)
THEOREM RunningIsRegistered == Spec => []ActorIsRegistered
<1>1. (Crossed \/ FlightInv) /\ ShapeInv => ActorIsRegistered
  BY DEF ActorIsRegistered, Excused, Crossed, FlightInv, Registered
<1> QED BY <1>1, Flown, PTL

-----------------------------------------------------------------------------
(* An actor and its lease.  A process that has an actor in hand, running   *)
(* or about to, holds the key of its agent and renews it; what takes the   *)
(* key away without a word is excused.                                     *)

Parted == happened \cap LeaseHazards # {}

Has(w, a) == leaseKey[a] = w /\ a \in renewTimers[w]
InHand(t) == t.pc \in {"teardown", "starting", "abort", "release"}

LeasedInv ==
    (* What runs, and what is being built, is leased. *)
    /\ \A w \in Workers, a \in Agents, g \in Gens : IsRunning(w, a, g) => Has(w, a)
    /\ \A w \in Workers, s \in Slots, t \in ActorTask :
           t = tasks[w][s] /\ InHand(t) => Has(w, t.agent)
    (* A key is renewed while its process lives, which is the only one that *)
    (* does anything.                                                       *)
    /\ \A w \in Workers, a \in Agents :
           leaseKey[a] = w /\ process[w] # "down" => a \in renewTimers[w]
    /\ \A w \in Workers, s \in Slots :
           process[w] = "down" => tasks[w][s].pc = "idle"

SameLives == \A v \in Workers : process'[v] = "down" <=> process[v] = "down"

LEMMA InHandAgent ==
  ASSUME NEW t, Good(t), InHand(t)
  PROVE  t.agent \in Agents /\ Builds(t)
  BY DEF Good, Shape, InHand, Builds

LEMMA LeasedFrom ==
  ASSUME ShapeInv, LeasedInv, NEW w \in Workers, NEW s \in Slots, NEW a \in Agents,
         NEW u, Good(u), Become(w, s, u), process[w] # "down", SameLives,
         \A v \in Workers, b \in Agents :
             v # w \/ b # a => /\ actor'[v][b] = actor[v][b]
                               /\ Has(v, b) => Has(v, b)',
         \A v \in Workers, b \in Agents :
             leaseKey'[b] = v => \/ b \in renewTimers'[v]
                                 \/ leaseKey[b] = v /\ b \notin renewTimers[v],
         InHand(u) => u.agent = a /\ Has(w, a)',
         \A g \in Gens : IsRunning(w, a, g)' => Has(w, a)',
         \A r \in Slots \ {s} : \A x \in ActorTask :
             x = tasks[w][r] /\ InHand(x) /\ x.agent = a => Has(w, a)'
  PROVE  LeasedInv'
<1>1. /\ tasks'[w][s] = u
      /\ \A v \in Workers, r \in Slots : v # w \/ r # s => tasks'[v][r] = tasks[v][r]
  BY BecomeTasks DEF ShapeInv
<1>2. ASSUME NEW v \in Workers, NEW b \in Agents, NEW g \in Gens, IsRunning(v, b, g)'
      PROVE  Has(v, b)'
  <2>1. CASE v = w /\ b = a
    BY <1>2, <2>1
  <2>2. CASE v # w \/ b # a
    <3>1. IsRunning(v, b, g)
      BY <1>2, <2>2 DEF IsRunning
    <3>2. Has(v, b)
      BY <3>1 DEF LeasedInv
    <3> QED BY <2>2, <3>2
  <2> QED BY <2>1, <2>2
<1>3. ASSUME NEW v \in Workers, NEW r \in Slots, NEW x \in ActorTask,
             x = tasks'[v][r], InHand(x)
      PROVE  Has(v, x.agent)'
  <2>1. CASE v = w /\ r = s
    <3>1. x = u
      BY <1>1, <1>3, <2>1
    <3> QED BY <1>3, <2>1, <3>1
  <2>2. CASE v # w \/ r # s
    <3>1. x = tasks[v][r] /\ Good(x)
      BY <1>1, <1>3, <2>2, TaskAt DEF ShapeInv
    <3>2. Has(v, x.agent) /\ x.agent \in Agents
      BY <1>3, <3>1, InHandAgent DEF LeasedInv
    <3>3. CASE v # w \/ x.agent # a
      BY <3>2, <3>3
    <3>4. CASE v = w /\ x.agent = a
      BY <1>3, <2>2, <3>1, <3>4
    <3> QED BY <3>3, <3>4
  <2> QED BY <2>1, <2>2
<1>4. ASSUME NEW v \in Workers, NEW b \in Agents, leaseKey'[b] = v, process'[v] # "down"
      PROVE  b \in renewTimers'[v]
  <2>1. process[v] # "down"
    BY <1>4 DEF SameLives
  <2> QED BY <1>4, <2>1 DEF LeasedInv
<1>5. ASSUME NEW v \in Workers, NEW r \in Slots, process'[v] = "down"
      PROVE  tasks'[v][r].pc = "idle"
  <2>1. process[v] = "down" /\ v # w
    BY <1>5 DEF SameLives
  <2> QED BY <1>1, <2>1 DEF LeasedInv
<1> QED BY <1>2, <1>3, <1>4, <1>5 DEF LeasedInv

(* A step under an unchanged lease. *)
LEMMA SameLeased ==
  ASSUME ShapeInv, LeasedInv, NEW w \in Workers, NEW s \in Slots, NEW a \in Agents,
         NEW u, Good(u), Become(w, s, u), process[w] # "down", SameLives,
         UNCHANGED leaseVars,
         \A v \in Workers, b \in Agents :
             v # w \/ b # a => actor'[v][b] = actor[v][b],
         InHand(u) => u.agent = a /\ Has(w, a),
         \A g \in Gens : IsRunning(w, a, g)' => Has(w, a)
  PROVE  LeasedInv'
<1>1. leaseKey' = leaseKey /\ renewTimers' = renewTimers
  BY DEF leaseVars
<1>2. \A v \in Workers, b \in Agents : Has(v, b)' <=> Has(v, b)
  BY <1>1 DEF Has
<1>3. \A r \in Slots \ {s} : \A x \in ActorTask :
          x = tasks[w][r] /\ InHand(x) /\ x.agent = a => Has(w, a)'
  BY <1>2 DEF LeasedInv
<1>4. \A v \in Workers, b \in Agents :
          v # w \/ b # a => actor'[v][b] = actor[v][b] /\ (Has(v, b) => Has(v, b)')
  BY <1>2
<1>5. \A v \in Workers, b \in Agents :
          leaseKey'[b] = v => \/ b \in renewTimers'[v]
                              \/ leaseKey[b] = v /\ b \notin renewTimers[v]
  BY <1>1
<1> QED BY <1>2, <1>3, <1>4, <1>5, LeasedFrom

(* A task with nothing in hand; no actor changes. *)
LEMMA EmptyLeased ==
  ASSUME ShapeInv, LeasedInv, NEW w \in Workers, NEW s \in Slots,
         NEW u, Good(u), Become(w, s, u), ~InHand(u), process[w] # "down", SameLives,
         UNCHANGED <<leaseVars, actor>>
  PROVE  LeasedInv'
<1>1. CASE \E a \in Agents : TRUE
  <2>1. PICK a \in Agents : TRUE
    BY <1>1
  <2>2. \A g \in Gens : IsRunning(w, a, g)' => Has(w, a)
    BY DEF LeasedInv, IsRunning
  <2> QED BY <2>2, SameLeased
<1>2. CASE Agents = {}
  <2>1. /\ tasks'[w][s] = u
        /\ \A v \in Workers, r \in Slots : v # w \/ r # s => tasks'[v][r] = tasks[v][r]
    BY BecomeTasks DEF ShapeInv
  <2>2. \A v \in Workers, r \in Slots, x \in ActorTask :
            x = tasks'[v][r] /\ InHand(x) => FALSE
    <3>1. \A v \in Workers, r \in Slots : ~InHand(tasks[v][r])
      BY <1>2, TaskAt, InHandAgent DEF ShapeInv
    <3> QED BY <2>1, <3>1
  <2>3. \A v \in Workers, r \in Slots : process'[v] = "down" => tasks'[v][r].pc = "idle"
    BY <2>1 DEF LeasedInv, SameLives
  <2> QED BY <1>2, <2>2, <2>3 DEF LeasedInv
<1> QED BY <1>1, <1>2

(* The lease is given back: nothing of the agent runs here, and nothing is *)
(* about to.                                                               *)
LEMMA ReleaseLeased ==
  ASSUME ShapeInv, LeasedInv, NEW w \in Workers, NEW s \in Slots, NEW a \in Agents,
         Release(w, a),
         NEW u, Good(u), Become(w, s, u), ~InHand(u), process[w] # "down", SameLives,
         \A v \in Workers, b \in Agents :
             v # w \/ b # a => actor'[v][b] = actor[v][b],
         \A g \in Gens : ~IsRunning(w, a, g)',
         \A r \in Slots \ {s} : \A x \in ActorTask :
             x = tasks[w][r] /\ x.agent = a => ~InHand(x)
  PROVE  LeasedInv'
<1>1. /\ leaseKey \in [Agents -> Workers \cup {NoWorker}]
      /\ renewTimers \in [Workers -> SUBSET Agents]
  BY DEF ShapeInv, CoreType, LeaseTypeOK, Agents
<1>2. /\ \A b \in Agents : b # a => leaseKey'[b] = leaseKey[b]
      /\ leaseKey'[a] = IF leaseKey[a] = w THEN NoWorker ELSE leaseKey[a]
      /\ \A v \in Workers : v # w => renewTimers'[v] = renewTimers[v]
      /\ renewTimers'[w] = renewTimers[w] \ {a}
  BY <1>1 DEF Release
<1>3. \A v \in Workers, b \in Agents :
          v # w \/ b # a => actor'[v][b] = actor[v][b] /\ (Has(v, b) => Has(v, b)')
  BY <1>2 DEF Has
<1>4. \A v \in Workers, b \in Agents :
          leaseKey'[b] = v => \/ b \in renewTimers'[v]
                              \/ leaseKey[b] = v /\ b \notin renewTimers[v]
  BY <1>2, NoWorkerAssumption
<1> QED BY <1>3, <1>4, LeasedFrom

(* A task at an await belongs to a process that lives. *)
LEMMA BusyLives ==
  ASSUME LeasedInv, NEW w \in Workers, NEW s \in Slots, tasks[w][s].pc # "idle"
  PROVE  process[w] # "down"
  BY DEF LeasedInv

-----------------------------------------------------------------------------
(* The steps, again *)

LEMMA NewPromiseAt ==
  ASSUME NEW w, NEW s, NEW t \in ActorTask, NewPromise(w, s, t)
  PROVE  \E u : Become(w, s, u) /\ u.pc = "acquire"
<1> DEFINE U(g) == [t EXCEPT !.pc = "acquire", !.gen = g, !.prior = NoGen]
<1>1. PICK g : Become(w, s, U(g))
  BY DEF NewPromise
<1>2. U(g).pc = "acquire"
  BY ZenonT(60) DEF ActorTask
<1> HIDE DEF U
<1> QED BY <1>1, <1>2

LEMMA ReconstructAt ==
  ASSUME NEW w, NEW s, NEW t \in ActorTask, Reconstruct(w, s, t)
  PROVE  \E u : Become(w, s, u) /\ u.pc \in {"join", "acquire"}
<1> DEFINE U(g) == [t EXCEPT !.pc = "join", !.gen = g, !.prior = NoGen]
<1>1. CASE NewPromise(w, s, t)
  BY <1>1, NewPromiseAt
<1>2. ASSUME NEW g, Become(w, s, U(g))
      PROVE  \E u : Become(w, s, u) /\ u.pc \in {"join", "acquire"}
  <2>1. U(g).pc = "join"
    BY ZenonT(60) DEF ActorTask
  <2> HIDE DEF U
  <2> QED BY <1>2, <2>1
<1>3. NewPromise(w, s, t) \/ \E g : Become(w, s, U(g))
  BY DEF Reconstruct
<1> QED BY <1>1, <1>2, <1>3

(* The steps of an ensure up to its promise. *)
Look(w, s) ==
    \/ ReadProfile(w, s) \/ ProfileMissing(w, s) \/ PriorSettled(w, s)
    \/ CheckHolder(w, s) \/ JoinSettled(w, s)

LEMMA LookAt ==
  ASSUME ShapeInv, NEW w \in Workers, NEW s \in Slots, Look(w, s)
  PROVE  /\ \E u : Become(w, s, u) /\ ~InHand(u)
         /\ tasks[w][s].pc # "idle"
         /\ UNCHANGED <<leaseVars, actor, process>>
<1>1. PICK t : t = tasks[w][s]
  OBVIOUS
<1>2. t \in ActorTask /\ Good(t) /\ Shape(t)
  BY <1>1, TaskAt DEF ShapeInv
<1>3. tasks[w][s].pc # "idle" /\ UNCHANGED <<leaseVars, actor, process>>
  BY DEF Look, ReadProfile, ProfileMissing, PriorSettled, CheckHolder, JoinSettled, At,
     localState
<1>4. CASE ReadProfile(w, s)
  <2>1. PICK v : v = [t EXCEPT !.rev = revision[t.agent]]
    OBVIOUS
  <2>2. t.agent \in Agents
    BY <1>1, <1>2, <1>4 DEF ReadProfile, At, Shape
  <2>3. revision[t.agent] \in 0..MaxCalls
    BY <2>2 DEF ShapeInv, CoreType
  <2>4. v \in ActorTask
    BY <1>2, <2>1, <2>3, WithRev
  <2> DEFINE U(q) == [v EXCEPT !.pc = "waitPrior", !.prior = q]
  <2>5. NewPromise(w, s, v) \/ \E q : Become(w, s, U(q))
    BY <1>1, <1>4, <2>1 DEF ReadProfile
  <2>6. ASSUME NEW q, Become(w, s, U(q)) PROVE \E u : Become(w, s, u) /\ ~InHand(u)
    <3>1. U(q).pc = "waitPrior"
      BY <2>4, ZenonT(60) DEF ActorTask
    <3> HIDE DEF U
    <3> QED BY <2>6, <3>1 DEF InHand
  <2> QED BY <1>3, <2>4, <2>5, <2>6, NewPromiseAt DEF InHand
<1>5. CASE ProfileMissing(w, s)
  <2>1. PICK u : u = Abandoned(t)
    OBVIOUS
  <2>2. t.pc = "profile" /\ Become(w, s, u)
    BY <1>1, <1>5, <2>1 DEF ProfileMissing, At
  <2>3. u.pc \in {"scan", "idle", "record"}
    BY <1>2, <2>1, <2>2, AbandonedGood DEF EnsurePcs
  <2> QED BY <1>3, <2>2, <2>3 DEF InHand
<1>6. CASE PriorSettled(w, s)
  <2>1. Reconstruct(w, s, t) \/ Become(w, s, [t EXCEPT !.pc = "checkHolder"])
    BY <1>1, <1>6 DEF PriorSettled
  <2>2. [t EXCEPT !.pc = "checkHolder"].pc = "checkHolder"
    BY <1>2 DEF ActorTask
  <2> QED BY <1>2, <1>3, <2>1, <2>2, ReconstructAt DEF InHand
<1>7. CASE CheckHolder(w, s)
  <2>1. PICK u : u = After(t, w)
    OBVIOUS
  <2>2. t.pc = "checkHolder" /\ (Reconstruct(w, s, t) \/ Become(w, s, u))
    BY <1>1, <1>7, <2>1 DEF CheckHolder, At
  <2>3. u.pc \in {"record", "publish", "scan", "idle"}
    BY <1>2, <2>1, <2>2, AfterGood DEF EnsurePcs, Owners
  <2> QED BY <1>2, <1>3, <2>2, <2>3, ReconstructAt DEF InHand
<1>8. CASE JoinSettled(w, s)
  <2>1. PICK o : o = promise[w][t.agent][t.gen].owner
    OBVIOUS
  <2>2. t.pc = "join" /\ (Become(w, s, After(t, o)) \/ Become(w, s, Abandoned(t)))
    BY <1>1, <1>8, <2>1 DEF JoinSettled, At
  <2>3. t.agent \in Agents /\ t.gen \in Gens
    BY <1>2, <2>2 DEF Shape, GenPcs
  <2>4. o \in Owners
    BY <2>1, <2>3 DEF ShapeInv, LocalType, Promise
  <2>5. PICK u : u \in {After(t, o), Abandoned(t)} /\ Become(w, s, u)
    BY <2>2
  <2>6. u.pc \in {"record", "publish", "scan", "idle"}
    BY <1>2, <2>2, <2>4, <2>5, AfterGood, AbandonedGood DEF EnsurePcs
  <2> QED BY <1>3, <2>5, <2>6 DEF InHand
<1> QED BY <1>3, <1>4, <1>5, <1>6, <1>7, <1>8 DEF Look

LEMMA LookLeased ==
  ASSUME ShapeInv, LeasedInv, NEW w \in Workers, NEW s \in Slots, Look(w, s)
  PROVE  LeasedInv'
<1>1. PICK u : Become(w, s, u) /\ ~InHand(u)
  BY LookAt
<1>2. StepOf(w, s)
  BY ReadProfileShape, ProfileMissingShape, PriorSettledShape, CheckHolderShape,
     JoinSettledShape DEF Look
<1>3. Good(u)
  BY <1>1, <1>2, BecomeGood
<1>4. tasks[w][s].pc # "idle" /\ UNCHANGED <<leaseVars, actor, process>>
  BY LookAt
<1>5. process[w] # "down" /\ SameLives
  BY <1>4, BusyLives DEF SameLives
<1> QED BY <1>1, <1>3, <1>4, <1>5, EmptyLeased

LEMMA SettleAt ==
  ASSUME NEW w, NEW s, NEW t, Good(t), Builds(t),
         NEW p, p = Rejected \/ \E o \in Owners : p = Resolved(o), Settle(w, s, t, p)
  PROVE  \E u : Become(w, s, u) /\ Good(u) /\ ~InHand(u)
<1>1. p.owner \in Owners
  BY DEF Rejected, Resolved, Owners
<1>2. PICK u : u \in {After(t, p.owner), Abandoned(t)} /\ Become(w, s, u)
  BY DEF Settle
<1>3. t.pc \in EnsurePcs
  BY DEF Builds, EnsurePcs
<1>4. Good(u) /\ u.pc \in {"record", "publish", "scan", "idle"}
  BY <1>1, <1>2, <1>3, AfterGood, AbandonedGood
<1> QED BY <1>2, <1>4 DEF InHand

(* What a construction does to its agent when it has the lease. *)
LEMMA ConstructAt ==
  ASSUME ShapeInv, NEW w \in Workers, NEW s \in Slots, NEW t, t = tasks[w][s],
         t.pc \in {"acquire", "holder"}, Construct(w, s, t)
  PROVE  /\ \E u : Become(w, s, u) /\ u.agent = t.agent /\ InHand(u)
         /\ \A v \in Workers, b \in Agents :
                v # w \/ b # t.agent => actor'[v][b] = actor[v][b]
<1>1. t \in ActorTask /\ t.agent \in Agents /\ t.gen \in Gens
  BY TaskAt DEF ShapeInv, Good, Shape, GenPcs
<1>2. PICK a, g : a = t.agent /\ g = registry[w][a]
  OBVIOUS
<1>3. g \in Gens \cup {NoGen}
  BY <1>1, <1>2 DEF ShapeInv, LocalType
<1>4. CASE g # NoGen
  <2>1. PICK u : u = [t EXCEPT !.pc = "teardown", !.prior = g]
    OBVIOUS
  <2>2. /\ Become(w, s, u)
        /\ actor' = actor \/ SetActor(w, a, g, "stopping")
    BY <1>2, <1>4, <2>1 DEF Construct
  <2>3. u.pc = "teardown" /\ u.agent = t.agent
    BY <1>1, <2>1, ZenonT(60) DEF ActorTask
  <2>4. \A v \in Workers, b \in Agents : v # w \/ b # a => actor'[v][b] = actor[v][b]
    <3>1. g \in Gens
      BY <1>3, <1>4
    <3> QED BY <1>1, <1>2, <2>2, <3>1, ActorSet
  <2> QED BY <1>2, <2>2, <2>3, <2>4 DEF InHand
<1>5. CASE g = NoGen
  <2>1. PICK u : u = [t EXCEPT !.pc = "starting"]
    OBVIOUS
  <2>2. Become(w, s, u) /\ SetActor(w, a, t.gen, "starting")
    BY <1>2, <1>5, <2>1 DEF Construct
  <2>3. u.pc = "starting" /\ u.agent = t.agent
    BY <1>1, <2>1, AtPc
  <2>4. \A v \in Workers, b \in Agents : v # w \/ b # a => actor'[v][b] = actor[v][b]
    BY <1>1, <1>2, <2>2, ActorSet
  <2> QED BY <1>2, <2>2, <2>3, <2>4 DEF InHand
<1> QED BY <1>4, <1>5

LEMMA TakeLeaseLeased ==
  ASSUME ShapeInv, LeasedInv, ~Parted', NEW w \in Workers, NEW s \in Slots,
         TakeLease(w, s)
  PROVE  LeasedInv'
<1>1. PICK t, a : t = tasks[w][s] /\ a = t.agent
  OBVIOUS
<1>2. /\ t.pc = "acquire" /\ UNCHANGED process
      /\ \/ Acquire(w, a) /\ Construct(w, s, t)
         \/ AcquireRefused(a) /\ Become(w, s, [t EXCEPT !.pc = "holder"]) /\ UNCHANGED actor
         \/ Fault("acquire")
  BY <1>1 DEF TakeLease, At, localState
<1>3. ~Fault("acquire")
  BY DEF Fault, Parted, LeaseHazards
<1>4. StepOf(w, s)
  BY TakeLeaseShape
<1>5. t \in ActorTask /\ a \in Agents
  BY <1>1, <1>2, TaskAt DEF ShapeInv, Good, Shape
<1>6. process[w] # "down" /\ SameLives
  BY <1>1, <1>2, BusyLives DEF SameLives
<1>7. CASE Acquire(w, a) /\ Construct(w, s, t)
  <2>1. PICK u : Become(w, s, u) /\ u.agent = a /\ InHand(u)
    BY <1>1, <1>2, <1>7, ConstructAt
  <2>2. \A v \in Workers, b \in Agents : v # w \/ b # a => actor'[v][b] = actor[v][b]
    BY <1>1, <1>2, <1>7, ConstructAt
  <2>3. Good(u)
    BY <1>4, <2>1, BecomeGood
  <2>4. /\ leaseKey \in [Agents -> Workers \cup {NoWorker}]
        /\ renewTimers \in [Workers -> SUBSET Agents]
    BY DEF ShapeInv, CoreType, LeaseTypeOK, Agents
  <2>5. /\ leaseKey[a] = NoWorker /\ leaseKey'[a] = w
        /\ \A b \in Agents : b # a => leaseKey'[b] = leaseKey[b]
        /\ a \in renewTimers'[w] /\ renewTimers[w] \subseteq renewTimers'[w]
        /\ \A v \in Workers : v # w => renewTimers'[v] = renewTimers[v]
    BY <1>5, <1>7, <2>4 DEF Acquire
  <2>6. Has(w, a)'
    BY <2>5 DEF Has
  <2>7. \A v \in Workers, b \in Agents :
            v # w \/ b # a => actor'[v][b] = actor[v][b] /\ (Has(v, b) => Has(v, b)')
    BY <2>2, <2>5, NoWorkerAssumption DEF Has
  <2>8. \A v \in Workers, b \in Agents :
            leaseKey'[b] = v => \/ b \in renewTimers'[v]
                                \/ leaseKey[b] = v /\ b \notin renewTimers[v]
    BY <2>5
  <2> QED BY <1>5, <1>6, <2>1, <2>3, <2>6, <2>7, <2>8, LeasedFrom
<1>8. CASE AcquireRefused(a) /\ Become(w, s, [t EXCEPT !.pc = "holder"]) /\ UNCHANGED actor
  <2>1. PICK u : u = [t EXCEPT !.pc = "holder"]
    OBVIOUS
  <2>2. Become(w, s, u) /\ UNCHANGED <<leaseVars, actor>>
    BY <1>8, <2>1 DEF AcquireRefused
  <2>3. Good(u) /\ ~InHand(u)
    BY <1>4, <1>5, <2>1, <2>2, BecomeGood, AtPc DEF InHand
  <2> QED BY <1>6, <2>2, <2>3, EmptyLeased
<1> QED BY <1>2, <1>3, <1>7, <1>8

LEMMA ReadHolderLeased ==
  ASSUME ShapeInv, LeasedInv, NEW w \in Workers, NEW s \in Slots, ReadHolder(w, s)
  PROVE  LeasedInv'
<1>1. PICK t, a, o : t = tasks[w][s] /\ a = t.agent /\ o = leaseKey[a]
  OBVIOUS
<1>2. /\ t.pc = "holder" /\ UNCHANGED <<leaseVars, process>>
      /\ \/ leaseKey[a] = w /\ Construct(w, s, t)
         \/ Settle(w, s, t, Resolved(o)) /\ UNCHANGED actor
  BY <1>1 DEF ReadHolder, At, KeptByUs
<1>3. StepOf(w, s)
  BY ReadHolderShape
<1>4. Good(t) /\ a \in Agents /\ Builds(t)
  BY <1>1, <1>2, TaskAt DEF ShapeInv, Shape, Builds
<1>5. process[w] # "down" /\ SameLives
  BY <1>1, <1>2, BusyLives DEF SameLives
<1>6. CASE leaseKey[a] = w /\ Construct(w, s, t)
  <2>1. PICK u : Become(w, s, u) /\ u.agent = a /\ InHand(u)
    BY <1>1, <1>2, <1>6, ConstructAt
  <2>2. \A v \in Workers, b \in Agents : v # w \/ b # a => actor'[v][b] = actor[v][b]
    BY <1>1, <1>2, <1>6, ConstructAt
  <2>3. Good(u)
    BY <1>3, <2>1, BecomeGood
  <2>4. Has(w, a)
    BY <1>4, <1>5, <1>6 DEF LeasedInv, Has
  <2> QED BY <1>2, <1>4, <1>5, <2>1, <2>2, <2>3, <2>4, SameLeased
<1>7. CASE Settle(w, s, t, Resolved(o)) /\ UNCHANGED actor
  <2>1. o \in Owners
    BY <1>1, <1>4 DEF ShapeInv, CoreType, LeaseTypeOK, Owners, Agents
  <2>2. PICK u : Become(w, s, u) /\ Good(u) /\ ~InHand(u)
    BY <1>4, <1>7, <2>1, SettleAt
  <2> QED BY <1>2, <1>5, <1>7, <2>2, EmptyLeased
<1> QED BY <1>2, <1>6, <1>7

(* A step of a construction that has the lease and keeps it. *)
LEMMA HandLeased ==
  ASSUME ShapeInv, LeasedInv, NEW w \in Workers, NEW s \in Slots,
         NEW t, t = tasks[w][s], InHand(t), NEW a, a = t.agent,
         NEW u, Good(u), Become(w, s, u), InHand(u) => u.agent = a,
         UNCHANGED <<leaseVars, process>>,
         \A v \in Workers, b \in Agents :
             v # w \/ b # a => actor'[v][b] = actor[v][b]
  PROVE  LeasedInv'
<1>1. t \in ActorTask /\ a \in Agents
  BY TaskAt, InHandAgent DEF ShapeInv, Good
<1>2. Has(w, a)
  BY <1>1 DEF LeasedInv
<1>3. process[w] # "down" /\ SameLives
  BY BusyLives DEF SameLives, InHand
<1> QED BY <1>1, <1>2, <1>3, SameLeased

LEMMA TornDownLeased ==
  ASSUME ShapeInv, LeasedInv, NEW w \in Workers, NEW s \in Slots, TornDown(w, s)
  PROVE  LeasedInv'
<1>1. PICK t, a : t = tasks[w][s] /\ a = t.agent
  OBVIOUS
<1>2. PICK u : u = [t EXCEPT !.pc = "starting", !.prior = NoGen]
  OBVIOUS
<1>3. /\ t.pc = "teardown" /\ Become(w, s, u)
      /\ actor' = [actor EXCEPT ![w][a] =
                       [@ EXCEPT ![t.prior] = "off", ![t.gen] = "starting"]]
      /\ UNCHANGED <<leaseVars, process>>
  BY <1>1, <1>2 DEF TornDown, At
<1>4. t \in ActorTask /\ a \in Agents
  BY <1>1, <1>3, TaskAt DEF ShapeInv, Good, Shape
<1>5. u.agent = t.agent
  BY <1>2, <1>4, ZenonT(60) DEF ActorTask
<1>6. Good(u)
  <2>1. StepOf(w, s) /\ Become(w, s, u)
    BY <1>3, TornDownShape
  <2> QED BY <2>1, BecomeGood
<1>7. actor \in [Workers -> [Agents -> [Gens -> {"off", "starting", "on", "stopping"}]]]
  BY DEF ShapeInv, LocalType
<1>8. \A v \in Workers, b \in Agents : v # w \/ b # a => actor'[v][b] = actor[v][b]
  BY <1>3, <1>4, <1>7
<1>9. InHand(t) /\ Become(w, s, u) /\ UNCHANGED <<leaseVars, process>>
  BY <1>3 DEF InHand
<1> QED BY <1>1, <1>5, <1>6, <1>8, <1>9, HandLeased

LEMMA StartedLeased ==
  ASSUME ShapeInv, LeasedInv, NEW w \in Workers, NEW s \in Slots, Started(w, s)
  PROVE  LeasedInv'
<1>1. PICK t, a : t = tasks[w][s] /\ a = t.agent
  OBVIOUS
<1>2. /\ t.pc = "starting" /\ UNCHANGED <<leaseVars, process>>
      /\ \/ /\ SetActor(w, a, t.gen, "on") \/ UNCHANGED actor
            /\ Settle(w, s, t, Resolved(w))
         \/ /\ SetActor(w, a, t.gen, "stopping") \/ UNCHANGED actor
            /\ Become(w, s, [t EXCEPT !.pc = "abort"])
  BY <1>1 DEF Started, At
<1>3. StepOf(w, s)
  BY StartedShape
<1>4. Good(t) /\ t \in ActorTask /\ a \in Agents /\ t.gen \in Gens /\ Builds(t)
  BY <1>1, <1>2, TaskAt DEF ShapeInv, Shape, Builds, GenPcs
<1>5. \A v \in Workers, b \in Agents : v # w \/ b # a => actor'[v][b] = actor[v][b]
  BY <1>2, <1>4, ActorSet
<1>6. CASE Settle(w, s, t, Resolved(w))
  <2>1. PICK u : Become(w, s, u) /\ Good(u) /\ ~InHand(u)
    BY <1>4, <1>6, SettleAt DEF Owners
  <2> QED BY <1>1, <1>2, <1>5, <2>1, HandLeased DEF InHand
<1>7. CASE Become(w, s, [t EXCEPT !.pc = "abort"])
  <2>1. PICK u : u = [t EXCEPT !.pc = "abort"]
    OBVIOUS
  <2>2. Become(w, s, u)
    BY <1>7, <2>1
  <2>3. u.agent = t.agent
    BY <1>4, <2>1, AtPc
  <2>4. Good(u)
    BY <1>3, <2>2, BecomeGood
  <2> QED BY <1>1, <1>2, <1>5, <2>2, <2>3, <2>4, HandLeased DEF InHand
<1> QED BY <1>2, <1>6, <1>7

LEMMA AbortedLeased ==
  ASSUME ShapeInv, LeasedInv, NEW w \in Workers, NEW s \in Slots, Aborted(w, s)
  PROVE  LeasedInv'
<1>1. PICK t, a : t = tasks[w][s] /\ a = t.agent
  OBVIOUS
<1>2. PICK u : u = [t EXCEPT !.pc = "release"]
  OBVIOUS
<1>3. /\ t.pc = "abort" /\ SetActor(w, a, t.gen, "off") /\ Become(w, s, u)
      /\ UNCHANGED <<leaseVars, process>>
  BY <1>1, <1>2 DEF Aborted, At
<1>4. t \in ActorTask /\ a \in Agents /\ t.gen \in Gens
  BY <1>1, <1>3, TaskAt DEF ShapeInv, Good, Shape, GenPcs
<1>5. u.agent = t.agent
  BY <1>2, <1>4, AtPc
<1>6. StepOf(w, s)
  BY AbortedShape
<1>7. Good(u)
  BY <1>3, <1>6, BecomeGood
<1>8. \A v \in Workers, b \in Agents : v # w \/ b # a => actor'[v][b] = actor[v][b]
  BY <1>3, <1>4, ActorSet
<1> QED BY <1>1, <1>3, <1>5, <1>7, <1>8, HandLeased DEF InHand

LEMMA GiveUpLeaseLeased ==
  ASSUME ShapeInv, FlightInv, LeasedInv, ~Parted', NEW w \in Workers, NEW s \in Slots,
         GiveUpLease(w, s)
  PROVE  LeasedInv'
<1>1. PICK t, a : t = tasks[w][s] /\ a = t.agent
  OBVIOUS
<1>2. /\ t.pc = "release" /\ Settle(w, s, t, Rejected)
      /\ UNCHANGED <<registry, actor, process>>
      /\ Release(w, a) \/ Fault("release")
  BY <1>1 DEF GiveUpLease, At
<1>3. Release(w, a)
  BY <1>2 DEF Fault, Parted, LeaseHazards
<1>4. Good(t) /\ t \in ActorTask /\ a \in Agents /\ Builds(t)
  BY <1>1, <1>2, TaskAt DEF ShapeInv, Shape, Builds
<1>5. process[w] # "down" /\ SameLives
  BY <1>1, <1>2, BusyLives DEF SameLives
<1>6. PICK u : Become(w, s, u) /\ Good(u) /\ ~InHand(u)
  BY <1>2, <1>4, SettleAt
<1>7. \A g \in Gens : ~IsRunning(w, a, g)'
  <2>1. registry[w][a] = NoGen /\ Registered(w, a)
    BY <1>1, <1>2, <1>4 DEF FlightInv, Fitting, Fits
  <2> QED BY <1>2, <2>1, AgentAssumption DEF Registered, IsRunning
<1>8. \A r \in Slots \ {s} : \A x \in ActorTask :
          x = tasks[w][r] /\ x.agent = a => ~InHand(x)
  BY <1>1, <1>4 DEF FlightInv, Alone, InHand, Builds
<1> QED BY <1>2, <1>3, <1>4, <1>5, <1>6, <1>7, <1>8, ReleaseLeased

LEMMA EnsureLeased ==
  ASSUME ShapeInv, FlightInv, LeasedInv, ~Parted', NEW w \in Workers, NEW s \in Slots,
         EnsureStep(w, s)
  PROVE  LeasedInv'
  BY LookLeased, TakeLeaseLeased, ReadHolderLeased, TornDownLeased, StartedLeased,
     AbortedLeased, GiveUpLeaseLeased DEF EnsureStep, Look

LEMMA MarkStoppedLeased ==
  ASSUME ShapeInv, FlightInv, LeasedInv, ~Parted', NEW w \in Workers, NEW s \in Slots,
         MarkStopped(w, s)
  PROVE  LeasedInv'
<1>1. PICK t, a, g : t = tasks[w][s] /\ a = t.agent /\ g = registry[w][a]
  OBVIOUS
<1>2. /\ t.pc = "mark" /\ UNCHANGED process
      /\ Ensuring(w, a) => "overlap" \in happened'
      /\ \/ /\ g # NoGen /\ Become(w, s, [t EXCEPT !.pc = "halt", !.gen = g])
            /\ \/ IsRunning(w, a, g) /\ SetActor(w, a, g, "stopping")
               \/ UNCHANGED actor
            /\ UNCHANGED leaseVars
         \/ /\ g = NoGen /\ Become(w, s, IdleTask)
            /\ Release(w, a) \/ "release" \in happened'
            /\ UNCHANGED <<registry, actor>>
  BY <1>1 DEF MarkStopped, At, Evict, Races
<1>3. StepOf(w, s)
  BY MarkStoppedShape
<1>4. t \in ActorTask /\ a \in Agents
  BY <1>1, <1>2, TaskAt DEF ShapeInv, Shape
<1>5. process[w] # "down" /\ SameLives
  BY <1>1, <1>2, BusyLives DEF SameLives
<1>6. g \in Gens \cup {NoGen} /\ Registered(w, a)
  BY <1>1, <1>4 DEF ShapeInv, LocalType, FlightInv
<1>7. CASE /\ g # NoGen /\ Become(w, s, [t EXCEPT !.pc = "halt", !.gen = g])
           /\ \/ IsRunning(w, a, g) /\ SetActor(w, a, g, "stopping")
              \/ UNCHANGED actor
           /\ UNCHANGED leaseVars
  <2>1. PICK u : u = [t EXCEPT !.pc = "halt", !.gen = g]
    OBVIOUS
  <2>2. Become(w, s, u) /\ UNCHANGED leaseVars
    BY <1>7, <2>1
  <2>3. u.pc = "halt"
    BY <1>4, <2>1, ZenonT(60) DEF ActorTask
  <2>4. Good(u)
    BY <1>3, <2>2, BecomeGood
  <2>5. /\ \A v \in Workers, b \in Agents :
              v # w \/ b # a => actor'[v][b] = actor[v][b]
        /\ \A h \in Gens : h # g => actor'[w][a][h] = actor[w][a][h]
    <3>1. g \in Gens /\ (actor' = actor \/ SetActor(w, a, g, "stopping"))
      BY <1>6, <1>7
    <3> QED BY <1>4, <3>1, ActorSet
  <2>6. ASSUME NEW h \in Gens, IsRunning(w, a, h)' PROVE Has(w, a)
    <3>1. IsRunning(w, a, h)
      BY <1>7, <2>5, <2>6 DEF IsRunning
    <3> QED BY <1>4, <3>1 DEF LeasedInv
  <2> QED BY <1>4, <1>5, <2>2, <2>3, <2>4, <2>5, <2>6, SameLeased DEF InHand
<1>8. CASE /\ g = NoGen /\ Become(w, s, IdleTask)
           /\ Release(w, a) \/ "release" \in happened'
           /\ UNCHANGED <<registry, actor>>
  <2>1. Release(w, a) /\ ~Ensuring(w, a)
    BY <1>2, <1>8 DEF Parted, LeaseHazards
  <2>2. \A h \in Gens : ~IsRunning(w, a, h)'
    BY <1>1, <1>6, <1>8, AgentAssumption DEF Registered, IsRunning
  <2>3. ASSUME NEW r \in Slots \ {s}, NEW x \in ActorTask,
               x = tasks[w][r], x.agent = a
        PROVE  ~InHand(x)
    <3>1. x.kind = "stop" /\ Shape(x)
      BY <2>1, <2>3, TaskAt DEF Ensuring, ShapeInv
    <3> QED BY <3>1 DEF Shape, EnsurePcs, InHand
  <2>4. ~InHand(IdleTask)
    BY IdleGood DEF InHand
  <2> QED BY <1>4, <1>5, <1>8, <2>1, <2>2, <2>3, <2>4, IdleGood, ReleaseLeased
<1> QED BY <1>2, <1>7, <1>8

(* Who takes an actor down has the agent to itself. *)
LEMMA DownAlone ==
  ASSUME ShapeInv, FlightInv, NEW w \in Workers, NEW s \in Slots,
         NEW t, t = tasks[w][s], TakesDown(t), NEW a, a = t.agent,
         SetActor(w, a, t.gen, "off")
  PROVE  /\ t \in ActorTask /\ a \in Agents /\ t.gen \in Gens
         /\ \A v \in Workers, b \in Agents :
                v # w \/ b # a => actor'[v][b] = actor[v][b]
         /\ \A g \in Gens : ~IsRunning(w, a, g)'
         /\ \A r \in Slots \ {s} : \A x \in ActorTask :
                x = tasks[w][r] /\ x.agent = a => ~InHand(x)
<1>1. t \in ActorTask /\ a \in Agents /\ t.gen \in Gens
  BY TaskAt DEF ShapeInv, Good, Shape, TakesDown, GenPcs
<1>2. Registered(w, a) /\ registry[w][a] \in {t.gen, NoGen}
  BY <1>1 DEF FlightInv, Fitting, Fits
<1>3. /\ \A v \in Workers, b \in Agents :
              v # w \/ b # a => actor'[v][b] = actor[v][b]
      /\ \A h \in Gens : h # t.gen => actor'[w][a][h] = actor[w][a][h]
      /\ actor'[w][a][t.gen] = "off"
  BY <1>1, ActorSet
<1>4. \A g \in Gens : ~IsRunning(w, a, g)'
  BY <1>1, <1>2, <1>3, AgentAssumption DEF Registered, IsRunning
<1>5. \A r \in Slots \ {s} : \A x \in ActorTask :
          x = tasks[w][r] /\ x.agent = a => ~InHand(x)
  BY <1>1 DEF FlightInv, Alone, InHand, Builds
<1> QED BY <1>1, <1>3, <1>4, <1>5

LEMMA HaltedLeased ==
  ASSUME ShapeInv, FlightInv, LeasedInv, ~Parted', NEW w \in Workers, NEW s \in Slots,
         Halted(w, s)
  PROVE  LeasedInv'
<1>1. PICK t, a : t = tasks[w][s] /\ a = t.agent
  OBVIOUS
<1>2. /\ t.pc = "halt" /\ SetActor(w, a, t.gen, "off")
      /\ Become(w, s, IdleTask) /\ UNCHANGED process
      /\ Release(w, a) \/ "release" \in happened'
  BY <1>1 DEF Halted, At, Evict
<1>3. Release(w, a)
  BY <1>2 DEF Parted, LeaseHazards
<1>4. process[w] # "down" /\ SameLives
  BY <1>1, <1>2, BusyLives DEF SameLives
<1>5. ~InHand(IdleTask) /\ Good(IdleTask)
  BY IdleGood DEF InHand
<1>6. TakesDown(t)
  BY <1>2 DEF TakesDown
<1> QED BY <1>1, <1>2, <1>3, <1>4, <1>5, <1>6, DownAlone, ReleaseLeased

LEMMA CrashedLeased ==
  ASSUME ShapeInv, FlightInv, LeasedInv, NEW w \in Workers, NEW s \in Slots,
         Crashed(w, s)
  PROVE  LeasedInv'
<1>1. PICK t, a : t = tasks[w][s] /\ a = t.agent
  OBVIOUS
<1>2. /\ t.pc = "crash" /\ SetActor(w, a, t.gen, "off")
      /\ Become(w, s, IdleTask) /\ UNCHANGED <<leaseVars, process>>
  BY <1>1 DEF Crashed, At
<1>3. process[w] # "down" /\ SameLives
  BY <1>1, <1>2, BusyLives DEF SameLives
<1>4. ~InHand(IdleTask) /\ Good(IdleTask)
  BY IdleGood DEF InHand
<1>5. TakesDown(t)
  BY <1>2 DEF TakesDown
<1> QED BY <1>1, <1>2, <1>3, <1>4, <1>5, DownAlone, SameLeased

LEMMA CrashLeased ==
  ASSUME ShapeInv, LeasedInv, NEW w \in Workers, NEW s \in Slots, NEW a \in Agents,
         NEW g \in Gens, Crash(w, s, a, g)
  PROVE  LeasedInv'
<1>1. PICK u : u = [IdleTask EXCEPT !.pc = "crash", !.kind = "crash",
                                    !.agent = a, !.gen = g]
  OBVIOUS
<1>2. Become(w, s, u) /\ UNCHANGED <<leaseVars, actor, process>> /\ process[w] # "down"
  BY <1>1 DEF Crash, localState
<1>3. Good(u) /\ u.pc = "crash"
  BY <1>1, CrashGood
<1>4. ~InHand(u) /\ SameLives
  BY <1>2, <1>3 DEF InHand, SameLives
<1> QED BY <1>2, <1>3, <1>4, EmptyLeased

LEMMA PlainLeased ==
  ASSUME ShapeInv, LeasedInv, NEW w \in Workers, NEW s \in Slots, PlainStep(w, s)
  PROVE  LeasedInv'
<1>1. PICK u : /\ Good(u) /\ Become(w, s, u)
               /\ u.pc \in {"idle", "profile", "mark", "execute", "scan"}
  BY PlainSteps DEF Plain
<1>2. UNCHANGED <<leaseVars, actor>>
  BY DEF PlainStep, StartAgentActor, StopAgentActor, AskDecision, RecordRunning, Publish,
     ExecuteHere, Boot, Sweep, ScanNext, Listen, localState
<1>3. process[w] # "down"
  <2>1. process[w] # "down" \/ tasks[w][s].pc # "idle"
    BY DEF PlainStep, StartAgentActor, StopAgentActor, AskDecision, RecordRunning, Publish,
       ExecuteHere, Boot, Sweep, ScanNext, Listen, Serving, At
  <2> QED BY <2>1, BusyLives
<1>4. SameLives
  <2>1. \/ UNCHANGED process
        \/ process' = [process EXCEPT ![w] = "boot"]
        \/ process' = [process EXCEPT ![w] = "up"]
    BY DEF PlainStep, StartAgentActor, StopAgentActor, AskDecision, RecordRunning, Publish,
       ExecuteHere, Boot, Sweep, ScanNext, Listen
  <2>2. process \in [Workers -> {"off", "boot", "up", "closing", "down"}]
    BY DEF ShapeInv, CoreType
  <2> QED BY <1>3, <2>1, <2>2 DEF SameLives
<1>5. ~InHand(u)
  BY <1>1 DEF InHand
<1> QED BY <1>1, <1>2, <1>3, <1>4, <1>5, EmptyLeased

(* No task moves, and who has a lease in its hands keeps it. *)
LEMMA NoTaskLeased ==
  ASSUME LeasedInv, UNCHANGED <<actor, tasks, process>>,
         \A v \in Workers, b \in Agents : Has(v, b) => Has(v, b)',
         \A v \in Workers, b \in Agents :
             leaseKey'[b] = v => \/ b \in renewTimers'[v]
                                 \/ leaseKey[b] = v /\ b \notin renewTimers[v],
         ShapeInv
  PROVE  LeasedInv'
<1>1. ASSUME NEW v \in Workers, NEW r \in Slots, NEW x \in ActorTask,
             x = tasks'[v][r], InHand(x)
      PROVE  Has(v, x.agent)'
  <2>1. x = tasks[v][r] /\ Good(x)
    BY <1>1, TaskAt DEF ShapeInv
  <2> QED BY <1>1, <2>1, InHandAgent DEF LeasedInv
<1>2. \A v \in Workers, b \in Agents, g \in Gens : IsRunning(v, b, g)' => Has(v, b)'
  BY DEF LeasedInv, IsRunning
<1>3. \A v \in Workers, b \in Agents :
          leaseKey'[b] = v /\ process'[v] # "down" => b \in renewTimers'[v]
  BY DEF LeasedInv
<1>4. \A v \in Workers, r \in Slots : process'[v] = "down" => tasks'[v][r].pc = "idle"
  BY DEF LeasedInv
<1> QED BY <1>1, <1>2, <1>3, <1>4 DEF LeasedInv

LEMMA EnvironmentLeased ==
  ASSUME ShapeInv, LeasedInv, ~Parted', Environment
  PROVE  LeasedInv'
<1>1. UNCHANGED <<actor, tasks>>
  BY EnvironmentSteps DEF localState
<1>2. /\ leaseKey \in [Agents -> Workers \cup {NoWorker}]
      /\ renewTimers \in [Workers -> SUBSET Agents]
  BY DEF ShapeInv, CoreType, LeaseTypeOK, Agents
<1>3. ASSUME NEW w \in Workers, NEW a \in Agents, RenewalStops(w, a) PROVE LeasedInv'
  <2>1. /\ leaseKey' = leaseKey /\ UNCHANGED process /\ leaseKey[a] # w
        /\ \A v \in Workers : v # w => renewTimers'[v] = renewTimers[v]
        /\ renewTimers'[w] = renewTimers[w] \ {a}
    BY <1>2, <1>3 DEF RenewalStops, RenewFindsLost
  <2>2. \A v \in Workers, b \in Agents : Has(v, b) => Has(v, b)'
    BY <2>1 DEF Has
  <2>3. \A v \in Workers, b \in Agents :
            leaseKey'[b] = v => \/ b \in renewTimers'[v]
                                \/ leaseKey[b] = v /\ b \notin renewTimers[v]
    BY <2>1
  <2> QED BY <1>1, <2>1, <2>2, <2>3, NoTaskLeased
<1>4. ASSUME NEW a \in Agents, KeyRunsOut(a) PROVE LeasedInv'
  <2>1. /\ leaseKey[a] # NoWorker => a \notin renewTimers[leaseKey[a]]
        /\ leaseKey'[a] = NoWorker /\ \A b \in Agents : b # a => leaseKey'[b] = leaseKey[b]
        /\ renewTimers' = renewTimers /\ UNCHANGED process
    BY <1>2, <1>4 DEF KeyRunsOut, KeyExpires
  <2>2. \A v \in Workers, b \in Agents : Has(v, b) => Has(v, b)'
    BY <2>1, NoWorkerAssumption DEF Has
  <2>3. \A v \in Workers, b \in Agents :
            leaseKey'[b] = v => \/ b \in renewTimers'[v]
                                \/ leaseKey[b] = v /\ b \notin renewTimers[v]
    BY <2>1, NoWorkerAssumption
  <2> QED BY <1>1, <2>1, <2>2, <2>3, NoTaskLeased
<1>5. ASSUME NEW a \in Agents, ProfileChanges(a) PROVE LeasedInv'
  <2>1. leaseKey' = leaseKey /\ renewTimers' = renewTimers /\ UNCHANGED process
    BY <1>5 DEF ProfileChanges, leaseVars
  <2>2. \A v \in Workers, b \in Agents : Has(v, b) => Has(v, b)'
    BY <2>1 DEF Has
  <2> QED BY <1>1, <2>1, <2>2, NoTaskLeased
<1>6. ~(\E w \in Workers : ShutDown(w)) /\ ~(\E a \in Agents : LeaseStalls(a))
  BY DEF ShutDown, LeaseStalls, Fault, Parted, LeaseHazards
<1> QED BY <1>3, <1>4, <1>5, <1>6 DEF Environment

LEMMA VanishLeased ==
  ASSUME ShapeInv, LeasedInv, NEW w \in Workers, Vanish(w), NoteOwners,
         happened' \in SUBSET (FaultKinds \cup Races)
  PROVE  LeasedInv'
<1>1. /\ \A s \in Slots : tasks'[w][s].pc = "idle"
      /\ \A v \in Workers, s \in Slots : v # w => tasks'[v][s] = tasks[v][s]
  BY VanishType, IdleGood
<1>2. /\ \A v \in Workers : v # w =>
            /\ actor'[v] = actor[v] /\ process'[v] = process[v]
            /\ renewTimers'[v] = renewTimers[v]
      /\ actor'[w] = [a \in Agents |-> [g \in Gens |-> "off"]]
      /\ process'[w] = "down" /\ leaseKey' = leaseKey
  BY DEF Vanish, ClearTimers, ShapeInv, LocalType, CoreType, LeaseTypeOK
<1>3. \A v \in Workers, b \in Agents : v # w /\ Has(v, b) => Has(v, b)'
  BY <1>2 DEF Has
<1>4. ASSUME NEW v \in Workers, NEW b \in Agents, NEW g \in Gens, IsRunning(v, b, g)'
      PROVE  Has(v, b)'
  <2>1. v # w
    BY <1>2, <1>4 DEF IsRunning
  <2>2. Has(v, b)
    BY <1>2, <1>4, <2>1 DEF LeasedInv, IsRunning
  <2> QED BY <1>3, <2>1, <2>2
<1>5. ASSUME NEW v \in Workers, NEW r \in Slots, NEW x \in ActorTask,
             x = tasks'[v][r], InHand(x)
      PROVE  Has(v, x.agent)'
  <2>1. v # w
    BY <1>1, <1>5 DEF InHand
  <2>2. x = tasks[v][r] /\ Good(x)
    BY <1>1, <1>5, <2>1, TaskAt DEF ShapeInv
  <2>3. Has(v, x.agent) /\ x.agent \in Agents
    BY <1>5, <2>2, InHandAgent DEF LeasedInv
  <2> QED BY <1>3, <2>1, <2>3
<1>6. \A v \in Workers, b \in Agents :
          leaseKey'[b] = v /\ process'[v] # "down" => b \in renewTimers'[v]
  BY <1>2 DEF LeasedInv
<1>7. \A v \in Workers, r \in Slots : process'[v] = "down" => tasks'[v][r].pc = "idle"
  BY <1>1, <1>2 DEF LeasedInv
<1> QED BY <1>4, <1>5, <1>6, <1>7 DEF LeasedInv

LEMMA NextLeased ==
  ASSUME ShapeInv, FlightInv, LeasedInv, ~Parted', [Next]_agentVars
  PROVE  LeasedInv'
<1>1. ASSUME UNCHANGED <<leaseVars, actor, tasks, process>> PROVE LeasedInv'
  <2>1. leaseKey' = leaseKey /\ renewTimers' = renewTimers
    BY <1>1 DEF leaseVars
  <2>2. \A v \in Workers, b \in Agents : Has(v, b) => Has(v, b)'
    BY <2>1 DEF Has
  <2> QED BY <1>1, <2>1, <2>2, NoTaskLeased
<1>2. ASSUME NEW w \in Workers, NEW s \in Slots, TaskOnly(w, s) PROVE LeasedInv'
  BY <1>2, PlainLeased, EnsureLeased, CrashedLeased, MarkStoppedLeased,
     HaltedLeased, CrashLeased DEF TaskOnly, LoopStep, PlainStep
<1>3. ASSUME NEW w \in Workers, Vanish(w), NoteOwners, happened' = happened \/ Fault("die")
      PROVE  LeasedInv'
  <2>1. happened' \in SUBSET (FaultKinds \cup Races)
    BY <1>3 DEF Fault, MayFail, ShapeInv, CoreType
  <2> QED BY <1>3, <2>1, VanishLeased
<1>4. ASSUME \/ \E w \in Workers : Pop(w) \/ CheckEnvelope(w) \/ ExecuteForwarded(w)
             \/ \E d \in Decisions : ReplyTimesOut(d)
      PROVE  LeasedInv'
  BY <1>1, <1>4 DEF Pop, CheckEnvelope, ExecuteForwarded, ReplyTimesOut, localState
<1>5. CASE Next
  <2>1. \A w \in Workers, s \in Slots : PlainStep(w, s) => LeasedInv'
    BY PlainLeased
  <2> QED BY <1>2, <1>3, <1>4, <1>5, <2>1, EnvironmentLeased, Steps DEF PlainStep
<1>6. CASE UNCHANGED agentVars
  BY <1>1, <1>6 DEF agentVars, localState
<1> QED BY <1>5, <1>6

LEMMA InitLeased == Init => LeasedInv
<1> SUFFICES ASSUME Init PROVE LeasedInv
  OBVIOUS
<1>1. \A w \in Workers, s \in Slots : tasks[w][s].pc = "idle"
  BY IdleGood DEF Init
<1>2. \A w \in Workers, a \in Agents, g \in Gens : ~IsRunning(w, a, g)
  BY DEF Init, IsRunning
<1>3. \A w \in Workers, a \in Agents : leaseKey[a] # w
  BY NoWorkerAssumption DEF Init, LeaseInit, Agents
<1> QED BY <1>1, <1>2, <1>3 DEF LeasedInv, InHand

LEMMA Leased ==
  Spec => []((Crossed \/ FlightInv) /\ (Parted \/ LeasedInv) /\ ShapeInv)
<1>1. Init => (Crossed \/ FlightInv) /\ (Parted \/ LeasedInv) /\ ShapeInv
  BY InitFlight, InitLeased, InitShape
<1>2. /\ (Crossed \/ FlightInv) /\ (Parted \/ LeasedInv) /\ ShapeInv
      /\ [Next]_agentVars
      => ((Crossed \/ FlightInv) /\ (Parted \/ LeasedInv) /\ ShapeInv)'
  <2> SUFFICES ASSUME Crossed \/ FlightInv, Parted \/ LeasedInv, ShapeInv,
                      [Next]_agentVars
               PROVE  (Crossed' \/ FlightInv') /\ (Parted' \/ LeasedInv') /\ ShapeInv'
    OBVIOUS
  <2>1. ShapeInv'
    BY NextShape
  <2>2. Crossed' \/ FlightInv'
    BY StillCrossed, NextFlight
  <2>3. Parted' \/ LeasedInv'
    <3>1. Parted => Parted'
      BY HappenedGrows DEF Parted
    <3>2. Crossed => Parted
      BY DEF Crossed, Parted, LeaseHazards
    <3> QED BY <3>1, <3>2, NextLeased
  <2> QED BY <2>1, <2>2, <2>3
<1> QED BY <1>1, <1>2, PTL DEF Spec

(* An actor that runs is covered by the lease of its agent, renewed by its *)
(* process: whatever starts, stops, replaces or crashes actors, and even   *)
(* when processes die; unless a lease is lost by one of LeaseHazards.      *)
THEOREM RunningIsLeased == Spec => []ActorIsLeased
<1>1. Parted \/ LeasedInv => ActorIsLeased
  BY DEF ActorIsLeased, Excused, Parted, LeasedInv, Has
<1> QED BY <1>1, Leased, PTL

(* Over all processes at most one actor of an agent runs, for any number   *)
(* of processes and callers: the promise of the lease and of the cache     *)
(* together.                                                               *)
THEOREM OneActorRuns == Spec => []OneActor
<1>1. (Crossed \/ FlightInv) /\ (Parted \/ LeasedInv) => OneActor
  <2>1. Crossed => Parted
    BY DEF Crossed, Parted, LeaseHazards
  <2> QED BY <2>1 DEF OneActor, Excused, Parted, LeasedInv, Has, FlightInv, Registered
<1> QED BY <1>1, Leased, PTL

-----------------------------------------------------------------------------
(* A stop.  Once it has been recorded, unless it raced with what revives   *)
(* an agent, nothing is left that would: no row, no listing and no task    *)
(* speaks for the agent, and an actor that still runs is being halted.     *)

Raced == happened \cap Races # {}

Halts(w, a, g) ==
    \E s \in Slots : /\ tasks[w][s].pc = "halt"
                     /\ tasks[w][s].agent = a /\ tasks[w][s].gen = g

AtRest(a) ==
    /\ runRow[a] # "running"
    /\ \A w \in Workers, s \in Slots :
          /\ a \notin tasks[w][s].todo
          /\ tasks[w][s].agent = a => tasks[w][s].kind = "stop"
    /\ \A w \in Workers, g \in Gens :
          IsRunning(w, a, g) => actor[w][a][g] = "stopping" /\ Halts(w, a, g)

RestInv == \A a \in Agents : ~wanted[a] => AtRest(a)

(* What becomes of a task has no agent that it did not have. *)
Follows(t, u) == u.agent \in {t.agent, NoAgent} /\ u.todo \subseteq t.todo

LEMMA AfterFollows ==
  ASSUME NEW t, NEW o
  PROVE  Follows(t, After(t, o)) /\ Follows(t, Abandoned(t))
<1>1. /\ IdleTask.agent = NoAgent /\ IdleTask.todo = {}
      /\ Follows(t, IdleTask)
  BY DEF IdleTask, Follows
<1>2. ASSUME NEW p PROVE Follows(t, After(t, p))
  <2>1. CASE t.kind = "start" \/ t.kind = "decide"
    BY <2>1 DEF After, IdleTask, Follows
  <2>2. CASE t.kind = "sweep" /\ t.todo = {}
    BY <1>1, <2>2 DEF After
  <2>3. CASE /\ t.kind # "start" /\ t.kind # "decide"
             /\ ~(t.kind = "sweep" /\ t.todo = {})
    <3>1. After(t, p) = [IdleTask EXCEPT !.pc = "scan", !.kind = t.kind, !.todo = t.todo]
      BY <2>3 DEF After
    <3> QED BY <3>1 DEF IdleTask, Follows
  <2> QED BY <2>1, <2>2, <2>3
<1>3. Follows(t, Abandoned(t))
  BY <1>1, <1>2 DEF Abandoned
<1> QED BY <1>2, <1>3

LEMMA SettleFollows ==
  ASSUME NEW w, NEW s, NEW t, NEW p, Settle(w, s, t, p)
  PROVE  \E u : Become(w, s, u) /\ Follows(t, u)
  BY AfterFollows DEF Settle

LEMMA NewPromiseFollows ==
  ASSUME NEW w, NEW s, NEW t \in ActorTask, NewPromise(w, s, t)
  PROVE  \E u : Become(w, s, u) /\ Follows(t, u)
<1> DEFINE U(g) == [t EXCEPT !.pc = "acquire", !.gen = g, !.prior = NoGen]
<1>1. PICK g : Become(w, s, U(g))
  BY DEF NewPromise
<1>2. U(g).agent = t.agent /\ U(g).todo = t.todo
  BY ZenonT(60) DEF ActorTask
<1> HIDE DEF U
<1> QED BY <1>1, <1>2 DEF Follows

LEMMA ReconstructFollows ==
  ASSUME NEW w, NEW s, NEW t \in ActorTask, Reconstruct(w, s, t)
  PROVE  \E u : Become(w, s, u) /\ Follows(t, u)
<1> DEFINE U(g) == [t EXCEPT !.pc = "join", !.gen = g, !.prior = NoGen]
<1>1. NewPromise(w, s, t) \/ \E g : Become(w, s, U(g))
  BY DEF Reconstruct
<1>2. \A g : U(g).agent = t.agent /\ U(g).todo = t.todo
  BY ZenonT(60) DEF ActorTask
<1> HIDE DEF U
<1> QED BY <1>1, <1>2, NewPromiseFollows DEF Follows

LEMMA LookFollows ==
  ASSUME ShapeInv, NEW w \in Workers, NEW s \in Slots, Look(w, s)
  PROVE  /\ \E u : Become(w, s, u) /\ Follows(tasks[w][s], u)
         /\ tasks[w][s].pc \in EnsurePcs
         /\ UNCHANGED <<runRow, wanted, actor>>
<1>1. PICK t : t = tasks[w][s]
  OBVIOUS
<1>2. t \in ActorTask /\ Shape(t)
  BY <1>1, TaskAt DEF ShapeInv
<1>3. t.pc \in EnsurePcs /\ UNCHANGED <<runRow, wanted, actor>>
  BY <1>1
     DEF Look, ReadProfile, ProfileMissing, PriorSettled, CheckHolder, JoinSettled, At,
         localState, EnsurePcs
<1>4. CASE ReadProfile(w, s)
  <2>1. PICK v : v = [t EXCEPT !.rev = revision[t.agent]]
    OBVIOUS
  <2>2. t.agent \in Agents
    BY <1>1, <1>2, <1>4 DEF ReadProfile, At, Shape
  <2>3. v \in ActorTask /\ v.agent = t.agent /\ v.todo = t.todo
    <3>1. revision[t.agent] \in 0..MaxCalls
      BY <2>2 DEF ShapeInv, CoreType
    <3> QED BY <1>2, <2>1, <3>1, WithRev
  <2> DEFINE U(q) == [v EXCEPT !.pc = "waitPrior", !.prior = q]
  <2>4. NewPromise(w, s, v) \/ \E q : Become(w, s, U(q))
    BY <1>1, <1>4, <2>1 DEF ReadProfile
  <2>5. \A q : U(q).agent = v.agent /\ U(q).todo = v.todo
    BY <2>3, ZenonT(60) DEF ActorTask
  <2> HIDE DEF U
  <2>6. PICK u : Become(w, s, u) /\ Follows(v, u)
    BY <2>3, <2>4, <2>5, NewPromiseFollows DEF Follows
  <2> QED BY <1>1, <1>3, <2>3, <2>6 DEF Follows
<1>5. CASE ProfileMissing(w, s)
  BY <1>1, <1>3, <1>5, AfterFollows DEF ProfileMissing
<1>6. CASE PriorSettled(w, s)
  <2>1. Reconstruct(w, s, t) \/ Become(w, s, [t EXCEPT !.pc = "checkHolder"])
    BY <1>1, <1>6 DEF PriorSettled
  <2>2. Follows(t, [t EXCEPT !.pc = "checkHolder"])
    BY <1>2, AtPc DEF Follows
  <2> QED BY <1>1, <1>2, <1>3, <2>1, <2>2, ReconstructFollows
<1>7. CASE CheckHolder(w, s)
  <2>1. Reconstruct(w, s, t) \/ Become(w, s, After(t, w))
    BY <1>1, <1>7 DEF CheckHolder
  <2> QED BY <1>1, <1>2, <1>3, <2>1, AfterFollows, ReconstructFollows
<1>8. CASE JoinSettled(w, s)
  <2>1. \/ Become(w, s, After(t, promise[w][t.agent][t.gen].owner))
        \/ Become(w, s, Abandoned(t))
    BY <1>1, <1>8 DEF JoinSettled
  <2> QED BY <1>1, <1>3, <2>1, AfterFollows
<1> QED BY <1>4, <1>5, <1>6, <1>7, <1>8 DEF Look

(* What a construction does is done to its own agent. *)
OwnActor(w, a) ==
    \A v \in Workers, b \in Agents : b # a => actor'[v][b] = actor[v][b]

LEMMA ConstructFollows ==
  ASSUME ShapeInv, NEW w \in Workers, NEW s \in Slots, NEW t, t = tasks[w][s],
         t.pc \in {"acquire", "holder"}, Construct(w, s, t)
  PROVE  /\ \E u : Become(w, s, u) /\ Follows(t, u)
         /\ OwnActor(w, t.agent)
<1>1. t \in ActorTask
  BY TaskAt DEF ShapeInv
<1>2. OwnActor(w, t.agent)
  BY ConstructAt DEF OwnActor
<1> DEFINE U(g) == [t EXCEPT !.pc = "teardown", !.prior = g]
           V == [t EXCEPT !.pc = "starting"]
<1>3. Become(w, s, V) \/ \E g : Become(w, s, U(g))
  BY DEF Construct
<1>4. /\ \A g : U(g).agent = t.agent /\ U(g).todo = t.todo
      /\ V.agent = t.agent /\ V.todo = t.todo
  BY <1>1, ZenonT(60) DEF ActorTask
<1> HIDE DEF U, V
<1> QED BY <1>2, <1>3, <1>4 DEF Follows

LEMMA BuildFollows ==
  ASSUME ShapeInv, NEW w \in Workers, NEW s \in Slots,
         \/ TakeLease(w, s) \/ ReadHolder(w, s) \/ TornDown(w, s) \/ Started(w, s)
         \/ Aborted(w, s) \/ GiveUpLease(w, s)
  PROVE  /\ \E u : Become(w, s, u) /\ Follows(tasks[w][s], u)
         /\ tasks[w][s].pc \in EnsurePcs
         /\ UNCHANGED <<runRow, wanted>>
         /\ OwnActor(w, tasks[w][s].agent)
<1>1. PICK t : t = tasks[w][s]
  OBVIOUS
<1>2. t.pc \in EnsurePcs \cap GenPcs /\ UNCHANGED <<runRow, wanted>>
  BY <1>1
     DEF TakeLease, ReadHolder, TornDown, Started, Aborted, GiveUpLease, At,
         EnsurePcs, GenPcs
<1>3. t \in ActorTask /\ t.agent \in Agents /\ t.gen \in Gens
  BY <1>1, <1>2, TaskAt DEF ShapeInv, Shape, GenPcs
<1>4. \A p : Follows(t, [t EXCEPT !.pc = p])
  BY <1>3, AtPc DEF Follows
<1>5. \A g \in Gens : \A p : SetActor(w, t.agent, g, p) => OwnActor(w, t.agent)
  BY <1>3, ActorSet DEF OwnActor
<1>6. UNCHANGED actor => OwnActor(w, t.agent)
  BY DEF OwnActor
<1>7. CASE TakeLease(w, s)
  <2>1. t.pc = "acquire"
    BY <1>1, <1>7 DEF TakeLease, At
  <2>2. \/ Construct(w, s, t)
        \/ Become(w, s, [t EXCEPT !.pc = "holder"]) /\ UNCHANGED actor
        \/ Settle(w, s, t, Rejected) /\ UNCHANGED actor
    BY <1>1, <1>7 DEF TakeLease, localState
  <2> QED BY <1>1, <1>2, <1>4, <1>6, <2>1, <2>2, ConstructFollows, SettleFollows
             DEF EnsurePcs
<1>8. CASE ReadHolder(w, s)
  <2>1. t.pc = "holder"
    BY <1>1, <1>8 DEF ReadHolder, At
  <2>2. \/ Construct(w, s, t)
        \/ Settle(w, s, t, Resolved(leaseKey[t.agent])) /\ UNCHANGED actor
    BY <1>1, <1>8 DEF ReadHolder
  <2> QED BY <1>1, <1>2, <1>6, <2>1, <2>2, ConstructFollows, SettleFollows
             DEF EnsurePcs
<1>9. CASE TornDown(w, s)
  <2>1. actor' = [actor EXCEPT ![w][t.agent] =
                     [@ EXCEPT ![t.prior] = "off", ![t.gen] = "starting"]]
    BY <1>1, <1>9 DEF TornDown
  <2>2. OwnActor(w, t.agent)
    BY <1>3, <2>1 DEF OwnActor, ShapeInv, LocalType
  <2> DEFINE U == [t EXCEPT !.pc = "starting", !.prior = NoGen]
  <2>3. Become(w, s, U)
    BY <1>1, <1>9 DEF TornDown
  <2>4. U.agent = t.agent /\ U.todo = t.todo
    BY <1>3, ZenonT(60) DEF ActorTask
  <2> HIDE DEF U
  <2>5. t.pc = "teardown"
    BY <1>1, <1>9 DEF TornDown, At
  <2> QED BY <1>1, <1>2, <2>2, <2>3, <2>4, <2>5 DEF Follows, EnsurePcs
<1>10. CASE Started(w, s)
  <2>1. t.pc = "starting"
    BY <1>1, <1>10 DEF Started, At
  <2>2. \/ Settle(w, s, t, Resolved(w))
        \/ Become(w, s, [t EXCEPT !.pc = "abort"])
    BY <1>1, <1>10 DEF Started
  <2>3. \/ UNCHANGED actor
        \/ \E p \in {"on", "stopping"} : SetActor(w, t.agent, t.gen, p)
    BY <1>1, <1>10 DEF Started
  <2> QED BY <1>1, <1>2, <1>3, <1>4, <1>5, <1>6, <2>1, <2>2, <2>3, SettleFollows
             DEF EnsurePcs
<1>11. CASE Aborted(w, s)
  <2>1. /\ t.pc = "abort" /\ Become(w, s, [t EXCEPT !.pc = "release"])
        /\ SetActor(w, t.agent, t.gen, "off")
    BY <1>1, <1>11 DEF Aborted, At
  <2> QED BY <1>1, <1>2, <1>3, <1>4, <1>5, <2>1 DEF EnsurePcs
<1>12. CASE GiveUpLease(w, s)
  <2>1. t.pc = "release" /\ Settle(w, s, t, Rejected) /\ UNCHANGED actor
    BY <1>1, <1>12 DEF GiveUpLease, At
  <2> QED BY <1>1, <1>2, <1>6, <2>1, SettleFollows DEF EnsurePcs
<1> QED BY <1>7, <1>8, <1>9, <1>10, <1>11, <1>12

LEMMA EnsureFollows ==
  ASSUME ShapeInv, NEW w \in Workers, NEW s \in Slots, EnsureStep(w, s)
  PROVE  /\ \E u : Become(w, s, u) /\ Follows(tasks[w][s], u)
         /\ tasks[w][s].pc \in EnsurePcs
         /\ UNCHANGED <<runRow, wanted>>
         /\ OwnActor(w, tasks[w][s].agent)
<1>1. CASE Look(w, s)
  BY <1>1, LookFollows DEF OwnActor
<1>2. CASE ~Look(w, s)
  BY <1>2, BuildFollows DEF Look, EnsureStep
<1> QED BY <1>1, <1>2

-----------------------------------------------------------------------------
(* What is at rest stays at rest when a task becomes u. *)
LEMMA RestFrom ==
  ASSUME ShapeInv, NEW a \in Agents, AtRest(a),
         NEW w \in Workers, NEW s \in Slots, NEW u, Good(u), Become(w, s, u),
         a \notin u.todo, u.agent = a => u.kind = "stop",
         runRow'[a] # "running",
         \A v \in Workers, g \in Gens :
             IsRunning(v, a, g)' => /\ actor'[v][a][g] = "stopping"
                                    /\ IsRunning(v, a, g)
                                    /\ v = w /\ tasks[w][s].agent = a
                                       /\ tasks[w][s].pc = "halt"
                                       => tasks[w][s].gen # g
  PROVE  AtRest(a)'
<1>1. /\ tasks'[w][s] = u
      /\ \A v \in Workers, r \in Slots : v # w \/ r # s => tasks'[v][r] = tasks[v][r]
  BY BecomeTasks DEF ShapeInv
<1>2. ASSUME NEW v \in Workers, NEW r \in Slots
      PROVE  a \notin tasks'[v][r].todo /\ (tasks'[v][r].agent = a => tasks'[v][r].kind = "stop")
  BY <1>1 DEF AtRest
<1>3. ASSUME NEW v \in Workers, NEW g \in Gens, IsRunning(v, a, g)'
      PROVE  actor'[v][a][g] = "stopping" /\ Halts(v, a, g)'
  <2>1. actor'[v][a][g] = "stopping" /\ Halts(v, a, g)
    BY <1>3 DEF AtRest
  <2>2. PICK r \in Slots : /\ tasks[v][r].pc = "halt"
                           /\ tasks[v][r].agent = a /\ tasks[v][r].gen = g
    BY <2>1 DEF Halts
  <2>3. v # w \/ r # s
    BY <1>3, <2>2
  <2> QED BY <1>1, <2>1, <2>2, <2>3 DEF Halts
<1> QED BY <1>2, <1>3 DEF AtRest

LEMMA EnsureRests ==
  ASSUME ShapeInv, RestInv, NEW w \in Workers, NEW s \in Slots, EnsureStep(w, s)
  PROVE  RestInv'
<1>1. PICK u : Become(w, s, u) /\ Follows(tasks[w][s], u)
  BY EnsureFollows
<1>2. /\ tasks[w][s].pc \in EnsurePcs
      /\ UNCHANGED <<runRow, wanted>>
      /\ OwnActor(w, tasks[w][s].agent)
  BY EnsureFollows
<1>3. Good(u)
  BY <1>1, EnsureShape, BecomeGood
<1>4. tasks[w][s].kind # "stop" /\ Shape(tasks[w][s])
  BY <1>2, TaskAt DEF ShapeInv, Shape
<1> SUFFICES ASSUME NEW a \in Agents, ~wanted[a] PROVE AtRest(a)'
  BY <1>2 DEF RestInv
<1>5. AtRest(a) BY DEF RestInv
<1>6. tasks[w][s].agent # a BY <1>4, <1>5 DEF AtRest
<1>7. u.agent # a /\ a \notin u.todo
  BY <1>1, <1>5, <1>6, AgentAssumption DEF Follows, AtRest
<1>8. runRow'[a] # "running" BY <1>2, <1>5 DEF AtRest
<1>9. \A v \in Workers, g \in Gens :
          /\ actor'[v][a][g] = actor[v][a][g]
          /\ IsRunning(v, a, g)' => IsRunning(v, a, g) /\ actor[v][a][g] = "stopping"
  BY <1>2, <1>5, <1>6 DEF OwnActor, IsRunning, AtRest
<1> QED BY <1>1, <1>3, <1>5, <1>6, <1>7, <1>8, <1>9, RestFrom
(* A step of a task that is not a halt and leaves the actors alone. *)
LEMMA PlainRests ==
  ASSUME ShapeInv, RestInv, NEW w \in Workers, NEW s \in Slots, NEW u, Good(u),
         Become(w, s, u), UNCHANGED actor, tasks[w][s].pc # "halt",
         \A a \in Agents :
             ~wanted'[a] => /\ ~wanted[a] /\ runRow'[a] = runRow[a]
                            /\ u.agent = a => u.kind = "stop"
                            /\ a \in u.todo => \/ runRow[a] = "running"
                                               \/ \E v \in Workers, r \in Slots : a \in tasks[v][r].todo
  PROVE  RestInv'
<1> SUFFICES ASSUME NEW a \in Agents, ~wanted'[a] PROVE AtRest(a)'
  BY DEF RestInv
<1>1. AtRest(a) /\ runRow'[a] # "running"
  BY DEF RestInv, AtRest
<1>2. a \notin u.todo /\ (u.agent = a => u.kind = "stop")
  BY <1>1 DEF AtRest
<1>3. \A v \in Workers, g \in Gens :
          IsRunning(v, a, g)' => actor'[v][a][g] = "stopping" /\ IsRunning(v, a, g)
  BY <1>1 DEF AtRest, IsRunning
<1> QED BY <1>1, <1>2, <1>3, RestFrom

LEMMA EnsureFields ==
  ASSUME NEW k \in {"start", "decide", "sweep", "boot"}, NEW a \in Agents
  PROVE  EnsureTask(k, a).agent = a /\ EnsureTask(k, a).todo = {}
  BY DEF EnsureTask, IdleTask

LEMMA CallsRest ==
  ASSUME ShapeInv, RestInv, NEW w \in Workers, NEW s \in Slots, NEW a \in Agents,
         \/ StartAgentActor(w, s, a) \/ StopAgentActor(w, s, a)
         \/ \E d \in Decisions : AskDecision(w, s, d, a)
  PROVE  RestInv'
<1>1. /\ UNCHANGED <<actor, runRow>> /\ tasks[w][s].pc # "halt"
      /\ wanted \in [Agents -> BOOLEAN]
  BY DEF StartAgentActor, StopAgentActor, AskDecision, Idle, At, localState, ShapeInv, CoreType
<1>2. CASE StartAgentActor(w, s, a)
  <2>1. PICK u : u = EnsureTask("start", a)
    OBVIOUS
  <2>2. Good(u) /\ Become(w, s, u) /\ u.agent = a /\ u.todo = {}
    BY <1>2, <2>1, EnsureGood, EnsureFields DEF StartAgentActor
  <2>3. wanted' = [wanted EXCEPT ![a] = TRUE]
    BY <1>2 DEF StartAgentActor
  <2> QED BY <1>1, <2>2, <2>3, PlainRests
<1>3. CASE StopAgentActor(w, s, a)
  <2>1. PICK u : u = [IdleTask EXCEPT !.pc = "mark", !.kind = "stop", !.agent = a]
    OBVIOUS
  <2>2. Good(u) /\ Become(w, s, u) /\ UNCHANGED wanted
    BY <1>3, <2>1, StopGood DEF StopAgentActor
  <2>3. u.kind = "stop" /\ u.todo = {}
    BY <2>1 DEF IdleTask
  <2> QED BY <1>1, <2>2, <2>3, PlainRests
<1>4. ASSUME NEW d \in Decisions, AskDecision(w, s, d, a)
      PROVE  RestInv'
  <2>1. PICK u : u = [EnsureTask("decide", a) EXCEPT !.dec = d]
    OBVIOUS
  <2>2. Good(u) /\ Become(w, s, u)
    BY <1>4, <2>1, DecideGood DEF AskDecision
  <2>3. u.agent = a /\ u.todo = {}
    BY <2>1 DEF EnsureTask, IdleTask
  <2>4. wanted' = [wanted EXCEPT ![a] = TRUE]
    BY <1>4 DEF AskDecision
  <2> QED BY <1>1, <2>2, <2>3, <2>4, PlainRests
<1> QED BY <1>2, <1>3, <1>4

LEMMA EndsRest ==
  ASSUME ShapeInv, RestInv, NEW w \in Workers, NEW s \in Slots,
         RecordRunning(w, s) \/ ExecuteHere(w, s) \/ Listen(w, s) \/ Publish(w, s)
  PROVE  RestInv'
<1>1. IdleTask.agent \notin Agents /\ IdleTask.todo = {}
  BY AgentAssumption DEF IdleTask
<1>2. PICK t : t = tasks[w][s]
  OBVIOUS
<1>3. t \in ActorTask /\ Shape(t)
  BY <1>2, TaskAt DEF ShapeInv
<1>4. UNCHANGED actor /\ t.pc # "halt"
  BY <1>2 DEF RecordRunning, ExecuteHere, Listen, Publish, At, localState
<1>5. CASE RecordRunning(w, s)
  <2>1. /\ Become(w, s, IdleTask)
        /\ runRow' = [runRow EXCEPT ![t.agent] = "running"]
        /\ wanted' = [wanted EXCEPT ![t.agent] = TRUE]
    BY <1>2, <1>5 DEF RecordRunning
  <2>2. \A a \in Agents : ~wanted'[a] => ~wanted[a] /\ runRow'[a] = runRow[a]
    BY <2>1 DEF ShapeInv, CoreType
  <2> QED BY <1>1, <1>2, <1>4, <2>1, <2>2, IdleGood, PlainRests
<1>6. CASE ExecuteHere(w, s) \/ Listen(w, s)
  <2>1. Become(w, s, IdleTask) /\ UNCHANGED <<runRow, wanted>>
    BY <1>6 DEF ExecuteHere, Listen
  <2> QED BY <1>1, <1>2, <1>4, <2>1, IdleGood, PlainRests
<1>7. CASE Publish(w, s)
  <2>1. UNCHANGED <<runRow, wanted>> /\ t.pc = "publish"
    BY <1>2, <1>7 DEF Publish, At
  <2>2. Become(w, s, [t EXCEPT !.pc = "execute"]) \/ Become(w, s, IdleTask)
    BY <1>2, <1>7 DEF Publish, Submit
  <2>3. CASE Become(w, s, IdleTask)
    BY <1>1, <1>2, <1>4, <2>1, <2>3, IdleGood, PlainRests
  <2>4. CASE Become(w, s, [t EXCEPT !.pc = "execute"])
    <3>1. PICK u : u = [t EXCEPT !.pc = "execute"]
      OBVIOUS
    <3>2. u.agent = t.agent /\ u.kind = t.kind /\ u.todo = t.todo /\ Become(w, s, u)
      BY <1>3, <2>4, <3>1, AtPc
    <3>3. Good(u)
      <4>1. PICK x : Good(x) /\ Become(w, s, x)
        BY <1>7, PublishPlain DEF Plain
      <4>2. tasks \in [Workers -> [Slots -> ActorTask]]
        BY DEF ShapeInv, TaskType
      <4>3. tasks'[w][s] = x /\ tasks'[w][s] = u
        BY <3>2, <4>1, <4>2 DEF Become
      <4> QED BY <4>1, <4>3
    <3>4. \A a \in Agents : ~wanted[a] => (u.agent = a => u.kind = "stop")
      <4>1. ASSUME NEW a \in Agents, ~wanted[a], t.agent = a PROVE t.kind = "stop"
        <5>1. AtRest(a)
          BY <4>1 DEF RestInv
        <5> QED BY <1>2, <4>1, <5>1 DEF AtRest
      <4> QED BY <3>2, <4>1
    <3>5. \A a \in u.todo : \E v \in Workers, r \in Slots : a \in tasks[v][r].todo
      BY <1>2, <3>2
    <3> HIDE <2>4
    <3>6. /\ Become(w, s, u) /\ UNCHANGED actor /\ tasks[w][s].pc # "halt"
          /\ wanted' = wanted /\ runRow' = runRow
      BY <1>2, <1>4, <2>1, <3>2
    <3> QED BY <3>3, <3>4, <3>5, <3>6, PlainRests
  <2> QED BY <2>2, <2>3, <2>4
<1> QED BY <1>5, <1>6, <1>7

(* A listing has the agents whose row says running. *)
LEMMA ListingRests ==
  ASSUME ShapeInv, RestInv, NEW w \in Workers, NEW s \in Slots,
         Boot(w, s) \/ Sweep(w, s)
  PROVE  RestInv'
<1>1. PICK k \in {"sweep", "boot"} :
         Become(w, s, [IdleTask EXCEPT !.pc = "scan", !.kind = k, !.todo = Running])
  BY DEF Boot, Sweep
<1>2. PICK R, u : R = Running /\ u = [IdleTask EXCEPT !.pc = "scan", !.kind = k, !.todo = R]
  OBVIOUS
<1>3. R \in SUBSET Agents /\ \A a \in R : runRow[a] = "running"
  BY <1>2 DEF Running
<1>4. Good(u) /\ Become(w, s, u)
  BY <1>1, <1>2, <1>3, ScanGood
<1>5. u.agent \notin Agents /\ u.todo = R
  BY <1>2, AgentAssumption DEF IdleTask
<1>6. UNCHANGED <<actor, runRow, wanted>> /\ tasks[w][s].pc # "halt"
  BY DEF Boot, Sweep, Idle, At, localState
<1> QED BY <1>3, <1>4, <1>5, <1>6, PlainRests

LEMMA ScanNextRests ==
  ASSUME ShapeInv, RestInv, NEW w \in Workers, NEW s \in Slots, ScanNext(w, s)
  PROVE  RestInv'
<1>1. PICK t : t = tasks[w][s]
  OBVIOUS
<1>2. t.pc = "scan" /\ UNCHANGED <<actor, runRow, wanted>>
  BY <1>1 DEF ScanNext, At, localState
<1>3. PICK a \in t.todo :
         Become(w, s,
             IF t.kind = "sweep" /\ IsActorAlive(w, a)
             THEN After([t EXCEPT !.todo = t.todo \ {a}], NoWorker)
             ELSE [EnsureTask(t.kind, a) EXCEPT !.todo = t.todo \ {a}])
  BY <1>1 DEF ScanNext
<1>4. PICK R, k : R = t.todo \ {a} /\ k = t.kind
  OBVIOUS
<1>5. t \in ActorTask /\ a \in Agents /\ R \in SUBSET Agents /\ k \in {"sweep", "boot"}
  BY <1>1, <1>2, <1>3, <1>4, TaskAt DEF ShapeInv, Shape, ActorTask
<1>6. wanted[a]
  BY <1>1, <1>3, <1>5 DEF RestInv, AtRest
<1>7. PICK u : Become(w, s, u) /\ u.agent \in {a, NoAgent} /\ u.todo \subseteq R
  <2>1. CASE k = "sweep" /\ IsActorAlive(w, a)
    <3>1. PICK v, u : v = [t EXCEPT !.todo = t.todo \ {a}] /\ u = After(v, NoWorker)
      OBVIOUS
    <3>2. v.kind = k /\ v.todo = R
      BY <1>4, <1>5, <3>1 DEF ActorTask
    <3>3. u = IdleTask \/ u = [IdleTask EXCEPT !.pc = "scan", !.kind = k, !.todo = R]
      BY <2>1, <3>1, <3>2 DEF After
    <3>4. u.agent = NoAgent /\ u.todo \subseteq R
      <4>1. IdleTask.agent = NoAgent /\ IdleTask.todo = {}
        BY DEF IdleTask
      <4>2. CASE u = [IdleTask EXCEPT !.pc = "scan", !.kind = k, !.todo = R]
        BY <4>2 DEF IdleTask
      <4> QED BY <3>3, <4>1, <4>2
    <3>5. Become(w, s, u)
      BY <1>3, <1>4, <2>1, <3>1
    <3> QED BY <3>4, <3>5
  <2>2. CASE ~(k = "sweep" /\ IsActorAlive(w, a))
    <3>1. PICK u : u = [EnsureTask(k, a) EXCEPT !.todo = R]
      OBVIOUS
    <3>2. u.agent = a /\ u.todo = R
      BY <3>1 DEF EnsureTask, IdleTask
    <3>3. Become(w, s, u)
      BY <1>3, <1>4, <2>2, <3>1
    <3> QED BY <3>2, <3>3
  <2> QED BY <2>1, <2>2
<1>8. Good(u)
  BY <1>7, ScanNextShape, BecomeGood
<1>9. \A b \in u.todo : \E v \in Workers, r \in Slots : b \in tasks[v][r].todo
  BY <1>1, <1>4, <1>7
<1>10. \A b \in Agents : ~wanted[b] => (u.agent = b => u.kind = "stop")
  BY <1>6, <1>7, AgentAssumption
<1> QED BY <1>1, <1>2, <1>7, <1>8, <1>9, <1>10, PlainRests
-----------------------------------------------------------------------------
(* The crash of an actor, and the stop. *)

LEMMA CrashedRests ==
  ASSUME ShapeInv, RestInv, NEW w \in Workers, NEW s \in Slots, Crashed(w, s)
  PROVE  RestInv'
<1>1. PICK t : t = tasks[w][s]
  OBVIOUS
<1>2. /\ t.pc = "crash" /\ SetActor(w, t.agent, t.gen, "off")
      /\ Become(w, s, IdleTask) /\ UNCHANGED <<runRow, wanted>>
  BY <1>1 DEF Crashed, At
<1>3. t.agent \in Agents /\ t.gen \in Gens
  BY <1>1, <1>2, TaskAt DEF ShapeInv, Shape, GenPcs
<1>4. \A v \in Workers, b \in Agents, g \in Gens :
          actor'[v][b][g] \in {actor[v][b][g], "off"}
  BY <1>2, <1>3, ActorSet
<1>5. IdleTask.agent \notin Agents /\ IdleTask.todo = {}
  BY AgentAssumption DEF IdleTask
<1> SUFFICES ASSUME NEW a \in Agents, ~wanted[a] PROVE AtRest(a)'
  BY <1>2 DEF RestInv
<1>6. AtRest(a) /\ runRow'[a] # "running" BY <1>2 DEF RestInv, AtRest
<1>7. \A v \in Workers, g \in Gens :
          IsRunning(v, a, g)' => IsRunning(v, a, g) /\ actor'[v][a][g] = "stopping"
  BY <1>4, <1>6 DEF IsRunning, AtRest
<1> QED BY <1>1, <1>2, <1>5, <1>6, <1>7, IdleGood, RestFrom

LEMMA CrashRests ==
  ASSUME ShapeInv, RestInv, NEW w \in Workers, NEW s \in Slots, NEW a \in Agents,
         NEW g \in Gens, Crash(w, s, a, g)
  PROVE  RestInv'
<1>1. PICK u : u = [IdleTask EXCEPT !.pc = "crash", !.kind = "crash",
                                    !.agent = a, !.gen = g]
  OBVIOUS
<1>2. /\ Become(w, s, u) /\ UNCHANGED <<actor, runRow, wanted>>
      /\ actor[w][a][g] = "on" /\ tasks[w][s].pc # "halt"
  BY <1>1 DEF Crash, Idle, At, localState
<1>3. Good(u) /\ u.agent = a /\ u.todo = {}
  BY <1>1, CrashGood DEF IdleTask
<1>4. ~AtRest(a)
  BY <1>2 DEF AtRest, IsRunning
<1>5. \A b \in Agents : ~wanted[b] => b # a
  BY <1>4 DEF RestInv
<1> QED BY <1>2, <1>3, <1>5, PlainRests

LEMMA HaltedRests ==
  ASSUME ShapeInv, RestInv, NEW w \in Workers, NEW s \in Slots, Halted(w, s)
  PROVE  RestInv'
<1>1. PICK t : t = tasks[w][s]
  OBVIOUS
<1>2. /\ t.pc = "halt" /\ SetActor(w, t.agent, t.gen, "off")
      /\ Become(w, s, IdleTask) /\ UNCHANGED <<runRow, wanted>>
  BY <1>1 DEF Halted, At
<1>3. t.agent \in Agents /\ t.gen \in Gens
  BY <1>1, <1>2, TaskAt DEF ShapeInv, Shape, GenPcs
<1>4. /\ \A v \in Workers, b \in Agents, g \in Gens :
             actor'[v][b][g] \in {actor[v][b][g], "off"}
      /\ actor'[w][t.agent][t.gen] = "off"
  BY <1>2, <1>3, ActorSet
<1>5. IdleTask.agent \notin Agents /\ IdleTask.todo = {}
  BY AgentAssumption DEF IdleTask
<1> SUFFICES ASSUME NEW a \in Agents, ~wanted[a] PROVE AtRest(a)'
  BY <1>2 DEF RestInv
<1>6. AtRest(a) /\ runRow'[a] # "running" BY <1>2 DEF RestInv, AtRest
<1>7. ASSUME NEW v \in Workers, NEW g \in Gens, IsRunning(v, a, g)'
      PROVE  /\ IsRunning(v, a, g) /\ actor'[v][a][g] = "stopping"
             /\ v = w /\ t.agent = a => t.gen # g
  BY <1>4, <1>6, <1>7 DEF IsRunning, AtRest
<1> QED BY <1>1, <1>2, <1>5, <1>6, <1>7, IdleGood, RestFrom

(* A stop that did not race leaves its agent at rest: nobody lists it or   *)
(* builds an actor of it, and the one that may run is registered here.     *)
LEMMA MarkedRests ==
  ASSUME ShapeInv, FlightInv, ~Raced', NEW w \in Workers, NEW s \in Slots,
         MarkStopped(w, s), NEW a, a = tasks[w][s].agent
  PROVE  AtRest(a)'
<1>1. PICK t, g : t = tasks[w][s] /\ g = registry[w][a]
  OBVIOUS
<1>2. /\ t.pc = "mark" /\ t.agent = a
      /\ runRow' = [runRow EXCEPT ![a] = IF @ = "running" THEN "stopped" ELSE @]
  BY <1>1 DEF MarkStopped, At
<1>3. t \in ActorTask /\ a \in Agents
  BY <1>1, <1>2, TaskAt DEF ShapeInv, Shape
<1>4. runRow'[a] # "running"
  BY <1>2, <1>3 DEF ShapeInv, CoreType
<1>5. ~Ensuring(w, a) /\ ~(\E v \in Workers \ {w} : Hosts(v, a)) /\ ~Listed(a)
  <2> DEFINE R == {r \in Races :
            \/ r = "overlap" /\ Ensuring(w, a)
            \/ r = "remote_stop" /\ \E v \in Workers \ {w} : Hosts(v, a)
            \/ r = "stale_sweep" /\ Listed(a)}
  <2>1. R \subseteq happened'
    BY <1>1, <1>2 DEF MarkStopped, Evict
  <2>2. R = {}
    BY <2>1 DEF Raced
  <2> QED BY <2>2 DEF Races
<1>6. /\ \A v \in Workers, r \in Slots :
            a \notin tasks[v][r].todo /\ (tasks[v][r].agent = a => tasks[v][r].kind = "stop")
      /\ \A v \in Workers \ {w}, h \in Gens : ~IsRunning(v, a, h)
  BY <1>5 DEF Ensuring, Hosts, Listed
<1>7. \A h \in Gens : IsRunning(w, a, h) => h = g
  BY <1>1, <1>3 DEF FlightInv, Registered
<1>8. StepOf(w, s) /\ t.kind = "stop"
  BY <1>1, <1>2, <1>6, MarkStoppedShape
<1>9. CASE g = NoGen
  <2>1. PICK u : u = IdleTask
    OBVIOUS
  <2>2. Become(w, s, u) /\ UNCHANGED actor
    BY <1>1, <1>2, <1>9, <2>1 DEF MarkStopped
  <2>3. u.agent # a /\ a \notin u.todo /\ Good(u)
    BY <1>3, <2>1, AgentAssumption, IdleGood DEF IdleTask
  <2>4. \A v \in Workers, h \in Gens : ~IsRunning(v, a, h)'
    BY <1>3, <1>6, <1>7, <1>9, <2>2, AgentAssumption DEF IsRunning
  <2>5. \A v \in Workers, r \in Slots :
            a \notin tasks'[v][r].todo /\ (tasks'[v][r].agent = a => tasks'[v][r].kind = "stop")
    BY <1>6, <2>2, <2>3, BecomeTasks DEF ShapeInv
  <2> QED BY <1>4, <2>4, <2>5 DEF AtRest
<1>10. CASE g # NoGen
  <2>1. PICK u : u = [t EXCEPT !.pc = "halt", !.gen = g]
    OBVIOUS
  <2>2. u.pc = "halt" /\ u.gen = g /\ u.agent = a /\ u.kind = "stop" /\ u.todo = t.todo
    BY <1>2, <1>3, <1>8, <2>1, ZenonT(60) DEF ActorTask
  <2>3. /\ Become(w, s, u)
        /\ IF IsRunning(w, a, g) THEN SetActor(w, a, g, "stopping") ELSE UNCHANGED actor
    BY <1>1, <1>2, <1>10, <2>1 DEF MarkStopped
  <2>4. Good(u) /\ g \in Gens
    <3>1. registry \in [Workers -> [Agents -> Gens \cup {NoGen}]]
      BY DEF ShapeInv, LocalType
    <3> QED BY <1>1, <1>3, <1>8, <1>10, <2>3, <3>1, BecomeGood
  <2>5. /\ tasks'[w][s] = u
        /\ \A v \in Workers, r \in Slots : v # w \/ r # s => tasks'[v][r] = tasks[v][r]
    BY <2>3, <2>4, BecomeTasks DEF ShapeInv
  <2>6. \A v \in Workers, r \in Slots :
            a \notin tasks'[v][r].todo /\ (tasks'[v][r].agent = a => tasks'[v][r].kind = "stop")
    BY <1>1, <1>6, <2>2, <2>5
  <2>7. Halts(w, a, g)'
    BY <2>2, <2>5 DEF Halts
  <2>8. /\ \A v \in Workers, b \in Agents : v # w \/ b # a => actor'[v][b] = actor[v][b]
        /\ \A h \in Gens : h # g => actor'[w][a][h] = actor[w][a][h]
        /\ SetActor(w, a, g, "stopping") => actor'[w][a][g] = "stopping"
    BY <1>3, <2>3, <2>4, ActorSet
  <2>9. ASSUME NEW v \in Workers, NEW h \in Gens, IsRunning(v, a, h)'
        PROVE  v = w /\ h = g /\ actor'[v][a][h] = "stopping"
    <3>1. v = w
      BY <1>3, <1>6, <2>8, <2>9 DEF IsRunning
    <3>2. h = g
      BY <1>3, <1>7, <2>8, <2>9, <3>1 DEF IsRunning
    <3> QED BY <2>3, <2>8, <2>9, <3>1, <3>2 DEF IsRunning
  <2> QED BY <1>4, <2>6, <2>7, <2>9 DEF AtRest
<1> QED BY <1>9, <1>10

LEMMA MarkStoppedRests ==
  ASSUME ShapeInv, FlightInv, RestInv, ~Raced', NEW w \in Workers, NEW s \in Slots,
         MarkStopped(w, s)
  PROVE  RestInv'
<1>1. PICK t, g : t = tasks[w][s] /\ g = registry[w][t.agent]
  OBVIOUS
<1>2. /\ t.pc = "mark"
      /\ runRow' = [runRow EXCEPT ![t.agent] = IF @ = "running" THEN "stopped" ELSE @]
      /\ wanted' = [wanted EXCEPT ![t.agent] = FALSE]
  BY <1>1 DEF MarkStopped, At
<1>3. t \in ActorTask /\ t.agent \in Agents
  BY <1>1, <1>2, TaskAt DEF ShapeInv, Shape
<1>4. AtRest(t.agent)'
  BY <1>1, MarkedRests
<1>5. PICK u : Become(w, s, u) /\ u.agent \in {t.agent, NoAgent} /\ u.todo \subseteq t.todo
  <2>1. CASE g = NoGen
    <3>1. Become(w, s, IdleTask)
      BY <1>1, <2>1 DEF MarkStopped
    <3>2. IdleTask.agent = NoAgent /\ IdleTask.todo = {}
      BY DEF IdleTask
    <3> QED BY <3>1, <3>2
  <2>2. CASE g # NoGen
    <3>1. PICK u : u = [t EXCEPT !.pc = "halt", !.gen = g]
      OBVIOUS
    <3>2. u.agent = t.agent /\ u.todo = t.todo
      BY <1>3, <3>1, ZenonT(60) DEF ActorTask
    <3>3. Become(w, s, u)
      BY <1>1, <2>2, <3>1 DEF MarkStopped
    <3> QED BY <3>2, <3>3
  <2> QED BY <2>1, <2>2
<1>6. Good(u)
  BY <1>5, MarkStoppedShape, BecomeGood
<1>7. \A v \in Workers, b \in Agents : b # t.agent => actor'[v][b] = actor[v][b]
  <2>1. UNCHANGED actor \/ (SetActor(w, t.agent, g, "stopping") /\ g # NoGen)
    BY <1>1 DEF MarkStopped
  <2>2. g \in Gens \cup {NoGen}
    BY <1>1, <1>3 DEF ShapeInv, LocalType
  <2>3. CASE g = NoGen
    BY <2>1, <2>3
  <2>4. CASE g # NoGen
    BY <1>3, <2>1, <2>2, <2>4, ActorSet
  <2> QED BY <2>3, <2>4
<1> SUFFICES ASSUME NEW b \in Agents, ~wanted'[b], b # t.agent PROVE AtRest(b)'
  BY <1>4 DEF RestInv
<1>8. AtRest(b) /\ runRow'[b] = runRow[b]
  BY <1>2, <1>3 DEF RestInv, ShapeInv, CoreType
<1>9. runRow'[b] # "running" /\ b \notin u.todo /\ u.agent # b
  BY <1>1, <1>5, <1>8, AgentAssumption DEF AtRest
<1>10. \A v \in Workers, h \in Gens :
          IsRunning(v, b, h)' => IsRunning(v, b, h) /\ actor'[v][b][h] = "stopping"
  BY <1>7, <1>8 DEF IsRunning, AtRest
<1>11. tasks[w][s].pc # "halt"
  BY <1>1, <1>2
<1> QED BY <1>5, <1>6, <1>8, <1>9, <1>10, <1>11, RestFrom

LEMMA VanishRests ==
  ASSUME ShapeInv, RestInv, NEW w \in Workers, Vanish(w), NoteOwners,
         happened' \in SUBSET (FaultKinds \cup Races)
  PROVE  RestInv'
<1>1. /\ \A s \in Slots : tasks'[w][s] = IdleTask
      /\ \A v \in Workers, s \in Slots : v # w => tasks'[v][s] = tasks[v][s]
  BY VanishType
<1>2. /\ \A v \in Workers : v # w => actor'[v] = actor[v]
      /\ actor'[w] = [a \in Agents |-> [g \in Gens |-> "off"]]
      /\ UNCHANGED <<runRow, wanted>>
  BY DEF Vanish, ShapeInv, LocalType
<1>3. IdleTask.agent \notin Agents /\ IdleTask.todo = {}
  BY AgentAssumption DEF IdleTask
<1> SUFFICES ASSUME NEW a \in Agents, ~wanted[a] PROVE AtRest(a)'
  BY <1>2 DEF RestInv
<1>4. AtRest(a)
  BY DEF RestInv
<1>5. ASSUME NEW v \in Workers, NEW s \in Slots
      PROVE  a \notin tasks'[v][s].todo /\ (tasks'[v][s].agent = a => tasks'[v][s].kind = "stop")
  BY <1>1, <1>3, <1>4 DEF AtRest
<1>6. ASSUME NEW v \in Workers, NEW g \in Gens, IsRunning(v, a, g)'
      PROVE  actor'[v][a][g] = "stopping" /\ Halts(v, a, g)'
  <2>1. v # w
    BY <1>2, <1>6 DEF IsRunning
  <2>2. actor[v][a][g] = "stopping" /\ Halts(v, a, g)
    BY <1>2, <1>4, <1>6, <2>1 DEF IsRunning, AtRest
  <2> QED BY <1>1, <1>2, <2>1, <2>2 DEF Halts
<1> QED BY <1>2, <1>4, <1>5, <1>6 DEF AtRest

LEMMA NoTaskRests ==
  ASSUME RestInv, UNCHANGED <<actor, tasks, runRow, wanted>>
  PROVE  RestInv'
  BY DEF RestInv, AtRest, IsRunning, Halts

LEMMA EnvironmentRests ==
  ASSUME RestInv, Environment
  PROVE  RestInv'
<1>1. UNCHANGED <<actor, tasks, runRow, wanted>>
  BY DEF Environment, ShutDown, RenewalStops, KeyRunsOut, LeaseStalls,
     ProfileChanges, localState
<1> QED BY <1>1, NoTaskRests

LEMMA NextRests ==
  ASSUME ShapeInv, FlightInv, RestInv, ~Raced', [Next]_agentVars
  PROVE  RestInv'
<1>1. ASSUME NEW w \in Workers, NEW s \in Slots, TaskOnly(w, s) PROVE RestInv'
  BY <1>1, EnsureRests, CallsRest, EndsRest, ListingRests, ScanNextRests, CrashedRests,
     MarkStoppedRests, HaltedRests, CrashRests DEF TaskOnly, LoopStep
<1>2. ASSUME NEW w \in Workers, Vanish(w), NoteOwners, happened' = happened \/ Fault("die")
      PROVE  RestInv'
  <2>1. happened' \in SUBSET (FaultKinds \cup Races)
    BY <1>2 DEF Fault, MayFail, ShapeInv, CoreType
  <2> QED BY <1>2, <2>1, VanishRests
<1>3. ASSUME \/ \E w \in Workers : Pop(w) \/ CheckEnvelope(w) \/ ExecuteForwarded(w)
             \/ \E d \in Decisions : ReplyTimesOut(d)
             \/ UNCHANGED agentVars
      PROVE  RestInv'
  BY <1>3, NoTaskRests DEF Pop, CheckEnvelope, ExecuteForwarded, ReplyTimesOut,
     localState, agentVars
<1>4. CASE Next
  <2>1. \A w \in Workers, s \in Slots : Publish(w, s) \/ ExecuteHere(w, s) => RestInv'
    BY EndsRest
  <2>2. \A w \in Workers, s \in Slots, d \in Decisions, a \in Agents :
            AskDecision(w, s, d, a) => RestInv'
    BY CallsRest
  <2> QED BY <1>1, <1>2, <1>3, <1>4, <2>1, <2>2, EnvironmentRests, Steps
<1> QED BY <1>3, <1>4

LEMMA InitRests == Init => RestInv
<1> SUFFICES ASSUME Init PROVE RestInv
  OBVIOUS
<1>1. IdleTask.agent \notin Agents /\ IdleTask.todo = {}
  BY AgentAssumption DEF IdleTask
<1>2. \A w \in Workers, a \in Agents, g \in Gens : ~IsRunning(w, a, g)
  BY DEF Init, IsRunning
<1>3. \A a \in Agents : ~wanted[a] => runRow[a] # "running"
  BY DEF Init
<1> QED BY <1>1, <1>2, <1>3 DEF Init, RestInv, AtRest

LEMMA Rested ==
  Spec => []((Crossed \/ FlightInv) /\ (Raced \/ RestInv) /\ ShapeInv)
<1>1. Init => (Crossed \/ FlightInv) /\ (Raced \/ RestInv) /\ ShapeInv
  BY InitFlight, InitRests, InitShape
<1>2. /\ (Crossed \/ FlightInv) /\ (Raced \/ RestInv) /\ ShapeInv
      /\ [Next]_agentVars
      => ((Crossed \/ FlightInv) /\ (Raced \/ RestInv) /\ ShapeInv)'
  <2> SUFFICES ASSUME Crossed \/ FlightInv, Raced \/ RestInv, ShapeInv,
                      [Next]_agentVars
               PROVE  (Crossed' \/ FlightInv') /\ (Raced' \/ RestInv') /\ ShapeInv'
    OBVIOUS
  <2>1. ShapeInv'
    BY NextShape
  <2>2. Crossed' \/ FlightInv'
    BY StillCrossed, NextFlight
  <2>3. Raced' \/ RestInv'
    <3>1. Raced => Raced'
      BY HappenedGrows DEF Raced
    <3>2. Crossed => Raced
      BY DEF Crossed, Raced, Races
    <3> QED BY <3>1, <3>2, NextRests
  <2> QED BY <2>1, <2>2, <2>3
<1> QED BY <1>1, <1>2, PTL DEF Spec

(* After a stop nothing revives the agent, and when all that was under way *)
(* for it has ended no actor of it runs: whatever fails, for any number of *)
(* processes, tools and sweeps, unless the stop was served elsewhere,      *)
(* crossed an ensure or came after a listing (Races).                      *)
THEOREM StopTakesHold == Spec => []StopHolds
<1>1. Raced \/ RestInv => StopHolds
  <2> SUFFICES ASSUME RestInv, NEW a \in Agents, ~wanted[a],
                      \A w \in Workers, s \in Slots :
                          tasks[w][s].kind = "stop" => tasks[w][s].agent # a,
                      NEW w \in Workers, NEW g \in Gens
               PROVE  ~IsRunning(w, a, g)
    BY DEF StopHolds, Excused, Raced
  <2>1. AtRest(a)
    BY DEF RestInv
  <2> QED BY <2>1 DEF AtRest, Halts
<1> QED BY <1>1, Rested, PTL
=============================================================================
