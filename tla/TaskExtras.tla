------------------------------ MODULE TaskExtras ------------------------------
(***************************************************************************)
(* The extras of a task, as the kernel's extras boundary keeps them in     *)
(* every command (core/src/task/kernel-surface.ts). First the task among   *)
(* other tasks (ondemand-topology.ts): its one parent, its children, what  *)
(* it requires and the modules that are active on demand; the same facts   *)
(* are in the canonical record, and what does not fit is refused. Then the *)
(* providers it relies on (adapter-middleware.ts): which are registered    *)
(* and required, what a probe said of each, which failed, and the events   *)
(* of the host's hooks that modules subscribed to.                         *)
(*                                                                         *)
(* A command is [record, extras], each the fields that were sent; None is  *)
(* null or absent.                                                         *)
(***************************************************************************)
EXTENDS Naturals, FiniteSets

CONSTANTS
  None,
  Self,              \* the task's id
  Requests,          \* commands: [record, extras], functions on some of the fields
  OnDemand,          \* the registered modules, "parent-child" among them
  Baseline,          \* the modules of the profile
  Slots,             \* the lifecycle slots
  MaxExtrasCommands

VARIABLES
  record,   \* [parent, children]
  extras,   \* the fields below
  stage,    \* "none", "define", "execute" or "close"
  begun,    \* history: the extras the last start or archive saw
  given     \* commands so far

External == "external-knowledge"
Intents  == {"exact", "semantic", "structural", "external"}

NoExtras ==
  [topology |-> None, graph |-> None, depends |-> {}, satisfied |-> {}, modules |-> None,
   baseline |-> None, missing |-> {}, proposal |-> None, candidate |-> FALSE,
   integration |-> None, slots |-> None, health |-> None,
   bridge |-> None, router |-> None, event |-> None, providers |-> None, probes |-> None,
   capabilities |-> {}, policy |-> None]

\* The fields that are sent, and for the others what there was.
Over(sent, old) ==
  [k \in DOMAIN sent \cup DOMAIN old |-> IF k \in DOMAIN sent THEN sent[k] ELSE old[k]]

-----------------------------------------------------------------------------
(* The task among others.                                                   *)
KindOf(children) == IF children = {} THEN "single" ELSE "parent-child"

DefaultTopology(r) ==
  [kind |-> KindOf(r.children), parent |-> r.parent, children |-> r.children]

Agree(p, q) == None \in {p, q} \/ p = q

TopologyAccepted(raw, r) ==
  raw # None => raw.kind \in {"single", "parent-child"} /\ Agree(raw.parent, r.parent)

NormalTopology(raw, r) ==
  IF raw = None THEN DefaultTopology(r)
  ELSE LET children == raw.children \cup r.children
       IN [kind |-> KindOf(children), parent |-> IF raw.parent = None THEN r.parent ELSE raw.parent,
           children |-> children]

Requires(to) == [from |-> Self, to |-> to, type |-> "requires"]

GraphAccepted(raw) == raw # None => \A e \in raw : e.type \in {"requires", "advisory"}

Expanded(raw, depends) == (IF raw = None THEN {} ELSE raw) \cup {Requires(d) : d \in depends}

NormalModules(raw) ==
  IF raw = None THEN [registered |-> OnDemand, active |-> {}, degraded |-> {}]
  ELSE LET registered == OnDemand \cup raw.registered
       IN [registered |-> registered, active |-> raw.active \cap registered,
           degraded |-> raw.degraded]

NormalBaseline(raw) == IF raw = None THEN Baseline ELSE raw \cap Baseline

\* A child of a proposal that is not confirmed is not created; the children
\* that are there are those of the merged extras.
Unconfirmed(x, r) ==
  /\ x.proposal # None /\ ~x.proposal.confirmed
  /\ \E child \in r.children \cap x.proposal.slices :
       child \notin (IF x.topology = None THEN {} ELSE x.topology.children)

\* normalizeStage5InExtras
NormalStage5(x, r) ==
  LET topology == NormalTopology(x.topology, r)
      modules  == NormalModules(x.modules)
  IN [x EXCEPT
        !.topology = topology,
        !.graph    = Expanded(@, x.depends),
        !.baseline = NormalBaseline(@),
        !.health   = IF x.missing # {} THEN "degraded" ELSE @,
        !.modules  = [modules EXCEPT
                        !.degraded = @ \cup x.missing,
                        !.active   = IF topology.kind = "parent-child"
                                     THEN @ \cup {"parent-child"} ELSE @]]

NormalAccepted(x, r) ==
  ~Unconfirmed(x, r) /\ TopologyAccepted(x.topology, r) /\ GraphAccepted(x.graph)

UnmetRequires(x) ==
  {e.to : e \in {f \in x.graph : f.type = "requires" /\ f.from = Self}} \ x.satisfied

\* assertStage5ForPhase, of normalized extras
Allowed(x, r, command) ==
  /\ ~x.candidate
  /\ Agree(x.topology.parent, r.parent)
  /\ x.integration \in {None, "parent"}
  /\ command \in {"start", "archive"} =>
       /\ x.slots # None => Slots \subseteq x.slots
       /\ UnmetRequires(x) = {}

-----------------------------------------------------------------------------
(* The providers.                                                           *)
NoProviders == [registered |-> {}, required |-> {}, active |-> {}, degraded |-> {},
                readiness |-> [id \in {} |-> None]]

NormalBridge(raw) == IF raw = None THEN [subscriptions |-> {}, last |-> None] ELSE raw

RouterAccepted(raw) == raw # None => DOMAIN raw \subseteq Intents

NormalRouter(raw) ==
  IF raw = None THEN Intents ELSE {i \in Intents : i \in DOMAIN raw => raw[i]}

\* recordHookEvent: modules subscribed to other events are skipped.
Recorded(bridge, event) ==
  [bridge EXCEPT !.last =
     [event     |-> event,
      delivered |-> {s.module : s \in {t \in bridge.subscriptions : t.event = event}},
      skipped   |-> {s.module : s \in {t \in bridge.subscriptions : t.event # event}}]]

NormalProviders(raw) ==
  IF raw = None THEN NoProviders
  ELSE [registered |-> raw.registered,
        required   |-> raw.required \cap raw.registered,
        active     |-> raw.active \cap raw.registered,
        degraded   |-> raw.degraded,
        readiness  |-> [id \in DOMAIN raw.readiness \cap raw.registered |-> raw.readiness[id]]]

\* classifyTransportProbe
StatusOf(probe) ==
  IF probe.status # None THEN probe.status
  ELSE IF probe.present = None THEN "unknown"
  ELSE IF ~probe.present THEN "missing"
  ELSE IF probe.reachable = FALSE THEN "failed" ELSE "ready"

Probed(providers, probes) ==
  [providers EXCEPT !.readiness =
     Over([id \in DOMAIN probes \cap providers.registered |->
             [status |-> StatusOf(probes[id]), capability |-> probes[id].capability]], @)]

Failing(providers) ==
  {id \in providers.required \cap DOMAIN providers.readiness :
     providers.readiness[id].status \notin {"ready", "unknown"}}

\* applyProviderHealth: who failed stays degraded.
Healthy(x, providers) ==
  [x EXCEPT !.providers = [providers EXCEPT !.degraded = @ \cup Failing(providers)],
            !.health = IF Failing(providers) # {} \/ External \in x.missing
                       THEN "degraded" ELSE @]

\* Mutant: the health is that of the providers before the probes.
NormalStage6BeforeProbes(x) ==
  LET bridge    == NormalBridge(x.bridge)
      providers == NormalProviders(x.providers)
      y == Healthy([x EXCEPT !.bridge = IF x.event = None THEN bridge ELSE Recorded(bridge, x.event),
                             !.router = [i \in NormalRouter(x.router) |-> TRUE],
                             !.event = None, !.probes = None], providers)
  IN IF x.probes = None THEN y ELSE [y EXCEPT !.providers = Probed(@, x.probes)]

\* normalizeStage6InExtras; a router that is kept names its intents only.
NormalStage6(x) ==
  LET bridge    == NormalBridge(x.bridge)
      providers == NormalProviders(x.providers)
  IN Healthy([x EXCEPT !.bridge = IF x.event = None THEN bridge ELSE Recorded(bridge, x.event),
                       !.router = [i \in NormalRouter(x.router) |-> TRUE],
                       !.event = None, !.probes = None],
             IF x.probes = None THEN providers ELSE Probed(providers, x.probes))

\* externalKnowledgeReady
ExternalReady(providers) ==
  \E id \in providers.registered \cap DOMAIN providers.readiness :
    providers.readiness[id] = [status |-> "ready", capability |-> External]

NeedsExternal(x) == External \in x.capabilities /\ ~ExternalReady(x.providers)

\* assertStage6ForPhase: without its knowledge a task begins degraded, by its policy.
Degraded(x) == [x EXCEPT !.health = IF NeedsExternal(x) THEN "degraded" ELSE @]

-----------------------------------------------------------------------------
(* The commands; a patch may send only a part, the others send the record.  *)
Begins(command) == command \in {"start", "archive"}

\* legacyKernelExtrasBoundary: the topology is normalized and judged, then the providers.
Given(request, command, next) ==
  LET r == Over(request.record, record)
      x == Over(request.extras, extras)
      five == NormalStage5(x, r)
      six == NormalStage6(five)
  IN /\ given < MaxExtrasCommands /\ given' = given + 1
     /\ NormalAccepted(x, r) /\ Allowed(five, r, command)
     /\ RouterAccepted(x.router)
     /\ Begins(command) /\ NeedsExternal(six) => six.policy = "degrade"
     /\ record' = r /\ stage' = next
     /\ extras' = IF Begins(command) THEN Degraded(six) ELSE six
     /\ begun' = IF Begins(command) THEN extras' ELSE begun

CreateTask(request)  == stage = "none" /\ Given(request, "create", "define")
PatchTask(request)   == stage # "none" /\ Given(request, "patch", stage)
StartTask(request)   == stage \in {"define", "execute"} /\ Given(request, "start", "execute")
ArchiveTask(request) == stage # "none" /\ Given(request, "archive", "close")

ExtrasInit ==
  /\ record = [parent |-> None, children |-> {}]
  /\ extras = NoExtras /\ stage = "none" /\ begun = None /\ given = 0

ExtrasNext == \E request \in Requests :
  CreateTask(request) \/ PatchTask(request) \/ StartTask(request) \/ ArchiveTask(request)

-----------------------------------------------------------------------------
(* The two places agree after every command: the extras name the parent and *)
(* all the children of the record, the kind of the topology is that of its  *)
(* children, and a task with children has the module that looks after them. *)
TopologyAgrees == stage # "none" =>
  LET t == extras.topology
  IN /\ record.parent # None => t.parent = record.parent
     /\ record.children \subseteq t.children
     /\ t.kind = "parent-child" <=> t.children # {}
     /\ t.children # {} => "parent-child" \in extras.modules.active

(* A task that starts or closes has everything it says it depends on,       *)
(* whatever graph it was sent before or with the command.                   *)
DependenciesMet == begun # None => begun.depends \subseteq begun.satisfied

(* Whatever was sent, in whatever order: a required provider that a probe   *)
(* found missing or failing is shown, in the list of the degraded and in    *)
(* the health of the profile, and nobody is known who is not registered.    *)
FailuresShow == stage # "none" =>
  LET p == extras.providers
  IN /\ Failing(p) \subseteq p.degraded
     /\ Failing(p) # {} => extras.health = "degraded"
     /\ p.required \cup p.active \cup DOMAIN p.readiness \subseteq p.registered

(* A task that needs external knowledge starts or closes with a registered  *)
(* provider of it that is ready, or by its policy in a degraded profile.    *)
BegunWithKnowledge == begun # None /\ External \in begun.capabilities =>
  \/ \E id \in begun.providers.registered :
       id \in DOMAIN begun.providers.readiness /\ begun.providers.readiness[id].status = "ready"
  \/ begun.policy = "degrade" /\ begun.health = "degraded"
=============================================================================
