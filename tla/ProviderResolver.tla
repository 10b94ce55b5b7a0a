--------------------------- MODULE ProviderResolver ---------------------------
(***************************************************************************)
(* Which provider serves a request: the contracts of a provider manifest,  *)
(* of a capability binding and of a resolution (core/src/pactile           *)
(* provider.ts, capability.ts), the catalog the manifests are read from,   *)
(* the probes that tell how a provider is, the adoption of an external     *)
(* asset, and the resolver that weighs them (middleware/resolver.ts).      *)
(*                                                                         *)
(* Names, evidence references and destinations are members of small sets,  *)
(* and a member of Unsafe is one its pattern refuses.  Every ceiling is a  *)
(* number, its place in the list the code ranks it by.  The resolver's 48  *)
(* reason codes come down to the stage that refused.                       *)
(***************************************************************************)
EXTENDS Naturals, Sequences, FiniteSets, SequencesExt

CONSTANTS
  None,
  Unsafe,     \* names and references that their patterns refuse
  NameOrder   \* the names of providers, versions and bindings, in ordinal order

Levels == <<"best-effort", "evidence-backed", "verified">>
Rank(level) == CHOOSE i \in DOMAIN Levels : Levels[i] = level
Satisfies(actual, minimum) == Rank(actual) >= Rank(minimum)

-----------------------------------------------------------------------------
(* Policies.                                                                *)
Ceilings == {"filesystem", "process", "network", "credentials", "privacy",
             "telemetry", "cost"}

\* No network: no egress, and no telemetry that leaves the machine.
PolicyAccepted(p) ==
  /\ p.network = 0 => p.privacy = 0 /\ p.egress = {} /\ p.telemetry # 2
  /\ p.network = 1 /\ p.privacy # 0 => p.egress # {}

WithinCeiling(requested, ceiling) ==
  /\ \A c \in Ceilings : requested[c] <= ceiling[c]
  /\ requested.egress \subseteq ceiling.egress

PolicyNormal(p) == p.egress \cap Unsafe = {}

-----------------------------------------------------------------------------
(* Manifests and the catalog.                                               *)
ProbeAccepted(probe) == probe.supported <=> probe.maxAge # None

ManifestAccepted(m) ==
  /\ {m.id, m.version} \cap Unsafe = {} /\ m.intents # {}
  /\ PolicyAccepted(m.ceiling) /\ ProbeAccepted(m.probe)
  /\ Satisfies(m.assurance, "evidence-backed") => m.evidence # {}
  /\ m.assurance = "verified" => m.probe.supported

ManifestSafe(m) == (m.evidence \cup m.ceiling.egress) \cap Unsafe = {}

NamedTwice(seq, Name(_)) ==
  \E i, k \in DOMAIN seq : i # k /\ Name(seq[i]) = Name(seq[k])

Identity(m) == <<m.id, m.version>>

\* One entry that is not right makes the whole catalog fail.
CatalogLoads(files) ==
  /\ \A i \in DOMAIN files :
       /\ files[i].plain /\ files[i].readable
       /\ ManifestAccepted(files[i].manifest) /\ ManifestSafe(files[i].manifest)
  /\ ~NamedTwice(files, LAMBDA f : f.fold)
  /\ ~NamedTwice(files, LAMBDA f : Identity(f.manifest))

Catalog(files) ==
  IF CatalogLoads(files) THEN [i \in DOMAIN files |-> files[i].manifest] ELSE <<>>

-----------------------------------------------------------------------------
(* External assets, their inventory, and the bindings proposed for them.    *)
HintAccepted(hint) == hint = None \/ hint.label \notin Unsafe

OwnerAccepted(owner) ==
  owner.kind \in {"pactile", "third-party"} => owner.id # None

AssetAccepted(a) ==
  /\ OwnerAccepted(a.owner) /\ HintAccepted(a.hint) /\ a.id \notin Unsafe
  /\ a.source = "pactile-bundled" => a.owner.kind = "pactile"
  /\ a.source = "host-native" => a.owner.kind = "host"
  /\ a.readiness = "missing" => a.hint # None
  /\ a.locator.scheme = a.source

BindingAccepted(b) ==
  /\ AssetAccepted(b.asset)
  /\ b.control = "borrowed" => b.boundary = "preserve"
  /\ b.mode \in {"native", "adopted"} => b.control = "borrowed"
  /\ b.mode = "native" => b.asset.source \in {"host-native", "user-installed"}
  /\ b.mode = "adopted" => b.asset.source # "pactile-bundled"
  /\ b.control = "pactile-owned" =>
       /\ b.asset.owner.kind = "pactile" /\ b.boundary = "remove-when-unclaimed"
       /\ b.mode = "composed"
       /\ b.asset.source \in {"pactile-bundled", "project-vendored"}
  /\ b.asset.kind = "mcp" => b.provider # None

ReadinessSeen(present, enabled) ==
  IF present = FALSE THEN "missing"
  ELSE IF enabled = FALSE THEN "degraded"
  ELSE IF present = TRUE /\ enabled = TRUE THEN "ready" ELSE "unknown"

\* missingHint: how to install, from the kind and the source.
Hint(kind, source) ==
  [label |-> "install",
   mechanism |-> IF source = "host-native" THEN "host-native"
                 ELSE IF kind \in {"executable", "plugin"} THEN "package-manager"
                 ELSE "manual"]

\* sanitizeCandidate; a flag is TRUE, FALSE or absent (None).
Sighting(context, seen) ==
  LET readiness == ReadinessSeen(seen.present, seen.enabled) IN
  [id |-> seen.id, kind |-> seen.kind, source |-> context.source,
   owner |-> context.owner,
   locator |-> [scheme |-> context.source, at |-> <<context.root, seen.at>>],
   content |-> <<seen.id, seen.kind, seen.content>>, readiness |-> readiness,
   hint |-> IF readiness = "missing" THEN Hint(seen.kind, context.source) ELSE None]

AssetIdentity(a) == <<a.id, a.kind, a.source, a.owner, a.locator>>

\* Sightings of one asset: a disagreement leaves it of unknown readiness.
Merged(group) ==
  IF \A i \in DOMAIN group : group[i] = group[1] THEN group[1]
  ELSE [group[1] EXCEPT !.readiness = "unknown", !.hint = None,
          !.content = IF \A i \in DOMAIN group : group[i].content = group[1].content
                        THEN @ ELSE None]

Inventory(sightings) ==
  LET accepted == SelectSeq(sightings, AssetAccepted)
      groups   == {SelectSeq(accepted, LAMBDA a : AssetIdentity(a) = AssetIdentity(accepted[i])) :
                     i \in DOMAIN accepted}
      assets   == {Merged(group) : group \in groups}
  IN [assets |-> assets,
      sound  |-> /\ accepted = sightings
                 /\ \A group \in groups : \A i, k \in DOMAIN group : group[i] = group[k]
                 /\ \A a, b \in assets : a.id = b.id /\ a.kind = b.kind => a = b]

DefaultMode(asset) ==
  CASE asset.source = "pactile-bundled" -> "composed"
    [] asset.source = "host-native"     -> "native"
    [] OTHER                            -> "adopted"

Owned(asset, mode) ==
  /\ mode = "composed" /\ asset.owner.kind = "pactile"
  /\ asset.source \in {"pactile-bundled", "project-vendored"}

BindingFor(asset, capability, provider, intents, mode) ==
  LET owned == Owned(asset, mode) IN
  [id |-> <<asset.id, capability, provider, mode>>, capability |-> capability, mode |-> mode,
   control  |-> IF owned THEN "pactile-owned" ELSE "borrowed",
   boundary |-> IF owned THEN "remove-when-unclaimed" ELSE "preserve",
   asset |-> asset, intents |-> intents, provider |-> provider]

\* planBinding: a binding for what is ready, a hint for what is missing.
Proposal(asset, capability, provider, intents, mode) ==
  LET b == BindingFor(asset, capability, provider, intents, mode) IN
  IF asset.readiness = "ready" /\ intents # {} /\ BindingAccepted(b) THEN b ELSE None

-----------------------------------------------------------------------------
(* Probes.  A runner's answer becomes the runtime fact of its provider.     *)

IsStale(at, now, maxAge) == now > at + maxAge

ProbeFact(definition, answer, now) ==
  LET passed == answer.exit = 0
      stale  == IsStale(answer.at, now, definition.maxAge)
  IN [provider |-> definition.id, version |-> "1.0.0",
      readiness |-> IF ~stale /\ passed /\ answer.available THEN "ready"
                    ELSE IF ~stale /\ ~passed THEN "unavailable" ELSE "degraded",
      assurance |-> IF passed THEN definition.assurance ELSE None,
      freshness |-> IF stale THEN "stale" ELSE "fresh",
      at |-> answer.at, result |-> IF passed THEN "passed" ELSE "failed",
      evidence |-> {<<"probe", definition.id>>}]

FactNormal(f) ==
  /\ f.provider \notin Unsafe /\ f.evidence \cap Unsafe = {}
  /\ (f.result = "not-run") <=> (f.at = None)

-----------------------------------------------------------------------------
(* Resolutions.                                                             *)
Unsupported(i) ==
  [intent |-> i.intent, minimum |-> i.minimum, origin |-> "unsupported",
   provider |-> None, version |-> None, assurance |-> None,
   readiness |-> "unavailable", requested |-> i.policy, effective |-> None,
   evidence |-> {}, freshness |-> "not-applicable", at |-> None,
   result |-> "not-run", fallbackFrom |-> None]

ResolutionAccepted(r) ==
  /\ PolicyAccepted(r.requested)
  /\ IF r.origin = "unsupported"
       THEN r = [Unsupported([intent |-> r.intent, minimum |-> r.minimum,
                              policy |-> r.requested]) EXCEPT !.fallbackFrom = r.fallbackFrom]
       ELSE /\ r.provider # None /\ r.version # None
            /\ r.effective # None /\ PolicyAccepted(r.effective)
            /\ WithinCeiling(r.effective, r.requested)
            /\ r.readiness # "unavailable"
            /\ r.assurance # None /\ Satisfies(r.assurance, r.minimum)
            /\ Satisfies(r.assurance, "evidence-backed") => r.evidence # {}
            /\ r.assurance = "verified" =>
                 r.freshness = "fresh" /\ r.result = "passed" /\ r.at # None
            /\ (r.result = "not-run") <=> (r.at = None)
            /\ r.provider # r.fallbackFrom

NameRank(name) == CHOOSE i \in DOMAIN NameOrder : NameOrder[i] = name

\* By id, then by version: the first of them that will do is taken.
InOrder(manifests) ==
  SortSeq(manifests, LAMBDA a, b :
    \/ NameRank(a.id) < NameRank(b.id)
    \/ a.id = b.id /\ NameRank(a.version) < NameRank(b.version))

InputNormal(i) ==
  /\ PolicyNormal(i.policy) /\ PolicyAccepted(i.policy)
  /\ (i.authorized \cup i.active \cup i.standby) \cap Unsafe = {}
  /\ i.active \cap i.standby = {}
  /\ \A k \in DOMAIN i.manifests :
       ManifestAccepted(i.manifests[k]) /\ PolicyNormal(i.manifests[k].ceiling)
  /\ ~NamedTwice(i.manifests, Identity)
  /\ \A k \in DOMAIN i.bindings : BindingAccepted(i.bindings[k])
  /\ ~NamedTwice(i.bindings, LAMBDA b : b.id)
  /\ \A k \in DOMAIN i.facts : FactNormal(i.facts[k])
  /\ ~NamedTwice(i.facts, LAMBDA f : <<f.provider, f.version>>)

Role(id, i) == IF id \in i.active THEN "active"
               ELSE IF id \in i.standby THEN "standby" ELSE "default"

Offered(m, i) ==
  /\ m.id \in i.authorized /\ i.intent \in m.intents
  /\ i.capability # None => i.capability \in m.capabilities
  /\ WithinCeiling(i.policy, m.ceiling)

ReadyBindings(m, i) ==
  {b \in ToSet(i.bindings) :
     /\ b.provider = m.id /\ i.intent \in b.intents
     /\ IF i.capability = None THEN b.capability \in m.capabilities
                               ELSE b.capability = i.capability
     /\ b.asset.readiness \in {"ready", "degraded"}}

FactsOf(m, i) == {f \in ToSet(i.facts) : f.provider = m.id /\ f.version = m.version}

\* The probe of a manifest that has one passed, and is not too old by now.
Probed(m, f, now) ==
  IF m.probe.supported
    THEN /\ f.result = "passed" /\ f.freshness = "fresh" /\ f.at # None
         /\ f.at <= now /\ now - f.at <= m.probe.maxAge
    ELSE /\ f.result = "not-run" /\ f.at = None
         /\ f.freshness \in {"unknown", "not-applicable"}

Assured(m, f, i) ==
  /\ f.assurance # None /\ Rank(f.assurance) <= Rank(m.assurance)
  /\ Satisfies(f.assurance, i.minimum)
  /\ Satisfies(f.assurance, "evidence-backed") => f.evidence # {}

\* Degraded by its own account, or bound by nothing that is not degraded.
DegradedBacked(m, f, i) ==
  (f.readiness = "degraded"
     \/ \A b \in ReadyBindings(m, i) : b.asset.readiness = "degraded") =>
  Satisfies(f.assurance, "evidence-backed") /\ f.evidence # {}

\* evaluateCandidate: the stage that refuses the candidate, or None.
Refusal(m, i) ==
  IF ~Offered(m, i) THEN "not-offered"
  ELSE IF ReadyBindings(m, i) = {} THEN "not-bound"
  ELSE IF FactsOf(m, i) = {} THEN "no-fact"
  ELSE LET f == CHOOSE f \in FactsOf(m, i) : TRUE IN
       IF f.readiness \notin {"ready", "degraded"} THEN "not-ready"
       ELSE IF ~Probed(m, f, i.now) THEN "not-probed"
       ELSE IF ~Assured(m, f, i) THEN "not-assured"
       ELSE IF ~DegradedBacked(m, f, i) THEN "degraded"
       ELSE None

\* An active one first; a standby only for want of it; any, if none is named.
Preferred(i) ==
  LET eligible  == SelectSeq(InOrder(i.manifests), LAMBDA m : Refusal(m, i) = None)
      ofRole(r) == SelectSeq(eligible, LAMBDA m : Role(m.id, i) = r)
  IN IF i.active # {}
       THEN IF ofRole("active") # <<>> \/ ~i.fallback THEN ofRole("active")
                                                      ELSE ofRole("standby")
       ELSE IF i.standby = {} THEN eligible ELSE <<>>

FirstName(names) == CHOOSE n \in names : \A o \in names : NameRank(n) <= NameRank(o)

ResolutionOf(m, i) ==
  LET f == CHOOSE f \in FactsOf(m, i) : TRUE IN
  [intent |-> i.intent, minimum |-> i.minimum, origin |-> m.origin,
   provider |-> m.id, version |-> m.version, assurance |-> f.assurance,
   readiness |-> f.readiness, requested |-> i.policy, effective |-> i.policy,
   evidence |-> f.evidence, freshness |-> f.freshness, at |-> f.at,
   result |-> f.result,
   fallbackFrom |-> IF Role(m.id, i) = "standby" THEN FirstName(i.active) ELSE None]

Resolve(i) ==
  IF ~InputNormal(i) THEN [status |-> "invalid", resolution |-> None]
  ELSE IF Preferred(i) = <<>> THEN [status |-> "unsupported", resolution |-> Unsupported(i)]
  ELSE LET r == ResolutionOf(Preferred(i)[1], i) IN
       IF ResolutionAccepted(r) THEN [status |-> "supported", resolution |-> r]
                                ELSE [status |-> "invalid", resolution |-> None]
=============================================================================
