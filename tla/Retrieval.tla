------------------------------ MODULE Retrieval ------------------------------
(***************************************************************************)
(* A retrieval: a request is parsed and planned, providers are resolved    *)
(* for the intents of the plan, and a claim is assessed against the plan,  *)
(* the resolution and the evidence collected (cli/src/pactile/retrieval    *)
(* planner.ts, evidence.ts).  Between these calls, each made by whoever    *)
(* drives the retrieval, time passes and providers are probed anew; what   *)
(* an earlier call returned is handed to a later one.                      *)
(***************************************************************************)
EXTENDS ProviderResolver

CONSTANTS
  Definitions,   \* the probes there are: provider, assurance, greatest age
  Answers,       \* what the runners of a probe can answer, one answer for each
  Catalogs,      \* the files of .pactile/providers at one time or another
  Snapshots,     \* what the hosts' snapshots can show, one sequence of sightings each
  Adoptions,     \* what is asked to be adopted: snapshot, asset, provider, grant, request
  AssetIds,
  Claimants,     \* who holds external assets
  Inputs,        \* what requests are built from; an absent field is None
  Contexts,      \* what a caller says of the providers when it plans
  Grants,        \* the project's authorized, active and standby providers
  Evidences,     \* the sets of evidence kinds a claim can come with
  MaxTime

VARIABLES
  now,
  facts,        \* the runtime facts of the latest probe
  bound,        \* the bindings adopted so far
  claims,       \* for each external asset, who claims it
  plan,         \* the plan in use, or None
  granted       \* the resolution last returned as supported, with what it was made from

rvars == <<now, facts, bound, claims, plan, granted>>

-----------------------------------------------------------------------------
(* Requests and plans.                                                      *)
IntentOrder == <<"exact", "semantic", "structural", "external">>
Corroboration == {"source-reference", "git-evidence", "repeatable-test"}
Statuses == {"ready", "degraded", "unavailable", "unsupported"}

DefaultPolicy == [filesystem |-> 1, process |-> 1, network |-> 0, credentials |-> 0,
                  privacy |-> 0, egress |-> {}, telemetry |-> 1, cost |-> 1]
DefaultSteps == 16

\* classifyRetrievalIntentsV3: the intents whose signals are in the query.
Classified(signals) == IF signals = {} THEN {"exact"} ELSE signals

Given(field, default) == IF field = None THEN default ELSE field

BuildRequest(i) ==
  [query    |-> i.query,
   intents  |-> Given(i.intents, Classified(i.signals)),
   minimum  |-> Given(i.minimum, "evidence-backed"),
   policy   |-> Given(i.policy, DefaultPolicy),
   kinds    |-> Given(i.kinds, {"source-reference"}),
   maxSteps |-> Given(i.maxSteps, DefaultSteps)]

IntentsAccepted(intents) == intents # {} /\ intents \subseteq ToSet(IntentOrder)
BudgetAccepted(steps) == steps \in 1..32

RequestPolicyAccepted(p) ==
  /\ p.network = 0 => p.privacy = 0 /\ p.egress = {} /\ p.telemetry # 2
  /\ p.network = 1 /\ p.privacy # 0 => p.egress # {}

RequestAccepted(r) ==
  /\ r.query # "" /\ IntentsAccepted(r.intents)
  /\ RequestPolicyAccepted(r.policy)
  /\ r.minimum # "best-effort" => r.kinds # {}
  /\ r.kinds \cap Unsafe = {} /\ BudgetAccepted(r.maxSteps)

Requests == {BuildRequest(i) : i \in Inputs}

\* Mutant: a context whose readiness repeats the status of each intent.
ContextStatusSame(entry) == entry.readiness = None \/ entry.readiness = entry.status

ContextStatus(entry) ==
  entry.readiness = None
    \/ entry.readiness = IF entry.status = "unsupported" THEN "unavailable" ELSE entry.status

\* The caller's word on the providers: one entry for an intent.
PlanningContextAccepted(context) ==
  /\ \A i \in DOMAIN context : ContextStatus(context[i]) /\ context[i].intent # "exact"
  /\ \A i, k \in DOMAIN context : context[i].intent = context[k].intent => i = k

StatusIn(context, intent) ==
  IF \E i \in DOMAIN context : context[i].intent = intent
    THEN (CHOOSE e \in ToSet(context) : e.intent = intent).status
    ELSE "resolution-required"

StepFor(r, context, intent) ==
  [intent |-> intent,
   requirement |-> IF intent = "exact" THEN None
                   ELSE [status |-> StatusIn(context, intent), minimum |-> r.minimum,
                         policy |-> r.policy, kinds |-> r.kinds]]

Truncated(seq, n) == SubSeq(seq, 1, IF n < Len(seq) THEN n ELSE Len(seq))

\* buildPlan: one step for each intent in the fixed order, up to the budget.
PlanOf(r, context) ==
  LET intents == SelectSeq(IntentOrder, LAMBDA intent : intent \in r.intents)
      all     == [i \in DOMAIN intents |-> StepFor(r, context, intents[i])]
      steps   == Truncated(all, r.maxSteps)
  IN [request |-> r, steps |-> steps,
      stops |-> {<<s.intent, s.requirement.status>> :
                   s \in {t \in ToSet(steps) : /\ t.requirement # None
                                               /\ t.requirement.status # "ready"}}
                \cup IF Len(steps) < Len(all) THEN {<<None, "budget-exhausted">>} ELSE {}]

Planned(r, context) ==
  IF RequestAccepted(r) /\ PlanningContextAccepted(context) THEN PlanOf(r, context) ELSE None

-----------------------------------------------------------------------------
(* The assessment of a claim.  The plan it comes with is planned again from *)
(* the request and the statuses it holds, and must come out the same.       *)
ContextIn(p) ==
  LET told == SelectSeq(p.steps, LAMBDA s : /\ s.requirement # None
                                            /\ s.requirement.status # "resolution-required")
  IN [i \in DOMAIN told |->
        [intent |-> told[i].intent, status |-> told[i].requirement.status,
         readiness |-> IF told[i].requirement.status = "unsupported" THEN "unavailable"
                       ELSE told[i].requirement.status]]

PlanValid(p, intent) ==
  intent \in p.request.intents /\ Planned(p.request, ContextIn(p)) = p

\* resolutionForPlan
ResolutionFits(p, intent, r) ==
  /\ ResolutionAccepted(r) /\ r.intent = intent /\ r.minimum = p.request.minimum
  /\ r.origin # "unsupported" /\ r.readiness = "ready"
  /\ r.requested = p.request.policy

\* providerStepBlocks: a step that is not in the plan does not block.
Blocks(p, intent) ==
  \E s \in ToSet(p.steps) :
    /\ s.intent = intent /\ s.requirement # None
    /\ s.requirement.status \in {"degraded", "unavailable", "unsupported"}

\* targetAssurance, with what it requires of the kinds of evidence.
Achieved(minimum, kinds) ==
  CASE minimum = "best-effort" -> TRUE
    [] minimum = "evidence-backed" -> kinds \cap Corroboration # {}
    [] minimum = "verified" ->
         kinds \cap Corroboration # {} /\ "repeatable-test" \in kinds

\* assessRetrievalClaimV3, for a claim with candidates.
ClaimAccepted(p, intent, kinds, resolution) ==
  /\ PlanValid(p, intent)
  /\ p.request.kinds \subseteq kinds
  /\ ~Blocks(p, intent)
  /\ Achieved(p.request.minimum, kinds)
  /\ intent # "exact" =>
       /\ kinds \cap Corroboration # {}
       /\ resolution # None /\ ResolutionFits(p, intent, resolution)
       /\ p.request.minimum = "verified" => resolution.assurance = "verified"

-----------------------------------------------------------------------------
(* The adoption of an asset (adoption/workflow.ts): discovered, bound, its   *)
(* provider resolved with the new binding, then claimed, and perhaps left.  *)
InputFor(r, intent, grant, files, bindings) ==
  [intent |-> intent, capability |-> None, minimum |-> r.minimum, policy |-> r.policy,
   authorized |-> grant.authorized, active |-> grant.active, standby |-> grant.standby,
   fallback |-> grant.fallback, manifests |-> Catalog(files),
   bindings |-> bindings, facts |-> facts, now |-> now]

ClaimsAfter(all, asset, claimant, detach) ==
  [all EXCEPT ![asset] = IF detach THEN @ \ {claimant} ELSE @ \cup {claimant}]

Adopt(a, claimant, detach) ==
  LET found    == {x \in Inventory(a.seen).assets : x.id = a.asset}
      asset    == CHOOSE x \in found : TRUE
      binding  == IF Cardinality(found) = 1
                    THEN Proposal(asset, a.asset, a.provider, {a.intent}, DefaultMode(asset))
                    ELSE None
      resolved == Resolve(InputFor(a.request, a.intent, a.grant, a.files, <<binding>>))
  IN /\ Inventory(a.seen).sound /\ binding # None /\ binding.control = "borrowed"
     /\ a.provider # None => resolved.status = "supported"
     /\ bound' = {b \in bound : b.id # binding.id} \cup {binding}
     /\ claims' = ClaimsAfter(claims, a.asset, claimant, detach)
     /\ UNCHANGED <<now, facts, plan, granted>>

-----------------------------------------------------------------------------
(* The other calls.  An assessment changes nothing: what it would accept    *)
(* is what AcceptedIsBacked is about.                                       *)
Rinit == /\ now = 0 /\ facts = <<>> /\ bound = {}
         /\ claims = [a \in AssetIds |-> {}]
         /\ plan = None /\ granted = None

Tick == now < MaxTime /\ now' = now + 1 /\ UNCHANGED <<facts, bound, claims, plan, granted>>

\* runProviderProbeMatrix: each runner answers with what it saw, now or before.
Probe ==
  /\ \E answer \in Answers, at \in {0, now} :
       facts' = [i \in DOMAIN Definitions |->
                   ProbeFact(Definitions[i],
                             [exit |-> answer[i].exit, available |-> answer[i].available,
                              at |-> at], now)]
  /\ UNCHANGED <<now, bound, claims, plan, granted>>

Plan ==
  /\ \E r \in Requests, context \in Contexts :
       /\ Planned(r, context) # None
       /\ plan' = Planned(r, context)
  /\ UNCHANGED <<now, facts, bound, claims, granted>>

\* A provider for one intent of some request, not always the one that is planned.
Grant ==
  /\ \E r \in Requests, grant \in Grants, files \in Catalogs :
       LET input    == InputFor(r, "semantic", grant, files, SetToSeq(bound))
           resolved == Resolve(input)
       IN /\ resolved.status = "supported"
          /\ granted' = [manifests |-> input.manifests, authorized |-> input.authorized,
                         bindings |-> input.bindings, now |-> now,
                         resolution |-> resolved.resolution]
  /\ UNCHANGED <<now, facts, bound, claims, plan>>

Rnext ==
  \/ Tick \/ Probe \/ Plan \/ Grant
  \/ \E a \in Adoptions, claimant \in Claimants, detach \in BOOLEAN : Adopt(a, claimant, detach)

-----------------------------------------------------------------------------
(* A claim that is accepted for an intent a provider serves rests on a      *)
(* provider the project authorized, in a catalog manifest whose ceiling and *)
(* assurance cover the very request the claim is made for, bound to an      *)
(* asset that was seen ready, and with a probe that had passed and was not  *)
(* too old when it was resolved - whichever order the calls were made in.   *)
AcceptedIsBacked == plan # None /\ granted # None =>
  \A intent \in plan.request.intents \ {"exact"}, kinds \in Evidences :
    ClaimAccepted(plan, intent, kinds, granted.resolution) =>
      LET r == granted.resolution IN
      \E m \in ToSet(granted.manifests) :
           /\ m.id = r.provider /\ m.id \in granted.authorized
           /\ WithinCeiling(plan.request.policy, m.ceiling)
           /\ Satisfies(m.assurance, plan.request.minimum)
           /\ m.probe.supported => r.result = "passed" /\ granted.now - r.at <= m.probe.maxAge
           /\ \E b \in ToSet(granted.bindings) :
                b.provider = m.id /\ b.asset.readiness = "ready"

(* Whatever the catalog loader, the probes and the adoption hand over, the  *)
(* resolver takes: it answers supported or unsupported, never invalid, and  *)
(* in no order of its inputs anything else.                                 *)
PartsFit == plan = None /\ granted = None => \A r \in Requests, grant \in Grants, files \in Catalogs :
  LET input == InputFor(r, "semantic", grant, files, SetToSeq(bound)) IN
  RequestAccepted(r) /\ PolicyNormal(r.policy) =>
    /\ Resolve(input).status # "invalid"
    /\ Resolve(input) = Resolve([input EXCEPT !.manifests = Reverse(@), !.facts = Reverse(@)])

(* A plan that was made is one the assessment recognizes, for each of its   *)
(* intents and whatever the budget cut off.                                 *)
PlansValidate == plan # None => \A intent \in plan.request.intents : PlanValid(plan, intent)

(* Snapshots merge the same in either order.  An asset seen ready in all of *)
(* them can be bound as its source asks (an mcp asset with its provider),   *)
(* and never as Pactile's own unless Pactile brought it.                    *)
InventoryHolds == now = 0 /\ facts = <<>> /\ bound = {} /\ plan = None => \A seen \in Snapshots :
  LET inventory == Inventory(seen) IN
  /\ inventory = Inventory(Reverse(seen))
  /\ \A a \in inventory.assets :
       /\ a.readiness = "ready" =>
            /\ \A i \in DOMAIN seen :
                 AssetIdentity(seen[i]) = AssetIdentity(a) => seen[i].readiness = "ready"
            /\ Proposal(a, a.id, "p1", {"exact"}, DefaultMode(a)) # None
       /\ \A mode \in {"native", "adopted", "composed"} :
            LET b == Proposal(a, a.id, "p1", {"exact"}, mode) IN
            b # None /\ b.control = "pactile-owned" =>
              a.owner.kind = "pactile" /\ mode = "composed"
=============================================================================
