-------------------------------- MODULE Tiles --------------------------------
(***************************************************************************)
(* Tiles: the contract of a manifest (core/src/pactile/tile.ts), the       *)
(* catalog with its dependencies and conflicts (cli/src/pactile/tiles      *)
(* catalog.ts), the compiler that turns a selection into a composition     *)
(* (compiler.ts), and the binding of a composition to the claims that are  *)
(* projected (registry.ts).                                                *)
(*                                                                         *)
(* A reference is an id and a version, or None where none is given.  An    *)
(* entry is its manifest with the body of its skill; a fallback that is    *)
(* not allowed is None.  An assurance, where it is counted, is its rank,   *)
(* and 0 where there is none.                                              *)
(***************************************************************************)
EXTENDS ProviderResolver, FiniteSetsExt

CONSTANTS
  TileCatalogs,   \* sequences of entries
  Selections,     \* requests to the compiler
  TileClaims,     \* sequences of claims a project can hold
  Capabilities    \* the ids of inputs and outputs

VARIABLE built    \* the composition made, with its catalog and its request, or None

-----------------------------------------------------------------------------
(* The contract of a manifest.                                              *)
EgressAccepted(p) ==
  /\ p.network = 0 => p.privacy = 0 /\ p.telemetry # 2 /\ p.egress = {}
  /\ p.network = 1 /\ p.privacy # 0 => p.egress # {}

TriggerAccepted(t) == t.intents # {}
StopAccepted(t) == t.stops # {} /\ t.attempts >= 1

\* A fallback never widens what its tile may do.
FallbackAccepted(t) == t.fallback # None =>
  /\ EgressAccepted(t.fallback.policy)
  /\ WithinCeiling(t.fallback.policy, t.policy)
  /\ Satisfies(t.fallback.minimum, t.minimum)

TileAccepted(t) ==
  /\ {t.id, t.version} \cap Unsafe = {}
  /\ t.id \notin t.dependencies \cup t.conflicts /\ t.dependencies \cap t.conflicts = {}
  /\ EgressAccepted(t.policy) /\ FallbackAccepted(t)
  /\ TriggerAccepted(t) /\ StopAccepted(t)
  /\ \A e, f \in t.evidence : e.kind = f.kind => e = f
  /\ Satisfies(t.minimum, "evidence-backed") => \E e \in t.evidence : e.required

-----------------------------------------------------------------------------
(* The catalog.                                                             *)
Ref(t) == [id |-> t.id, version |-> t.version]

Before(a, b) == \/ NameRank(a.id) < NameRank(b.id)
                \/ a.id = b.id /\ NameRank(a.version) < NameRank(b.version)

\* An id alone names a tile only if there is one version of it.
Named(tiles, r) == {t \in tiles : t.id = r.id /\ r.version \in {None, t.version}}
Resolves(tiles, r) == Cardinality(Named(tiles, r)) = 1
TheTile(tiles, r) == CHOOSE t \in Named(tiles, r) : TRUE

ById(id) == [id |-> id, version |-> None]

DirectDeps(tiles, t) ==
  {TheTile(tiles, ById(d)) : d \in {x \in t.dependencies : Resolves(tiles, ById(x))}}

\* The tiles a selection reaches through dependencies.
Reached(tiles, requested) ==
  LET grow[n \in 0..Cardinality(tiles)] ==
        IF n = 0 THEN {TheTile(tiles, r) : r \in {x \in requested : Resolves(tiles, x)}}
        ELSE grow[n - 1] \cup UNION {DirectDeps(tiles, t) : t \in grow[n - 1]}
  IN grow[Cardinality(tiles)]

Sorted(tiles) == SetToSortSeq(tiles, Before)

\* Dependencies before their consumers, layer after layer.
Layered(tiles, chosen) ==
  LET place[n \in 0..Cardinality(chosen)] ==
        IF n = 0 THEN <<>>
        ELSE place[n - 1] \o
             Sorted({t \in chosen \ ToSet(place[n - 1]) :
                       DirectDeps(tiles, t) \subseteq ToSet(place[n - 1])})
  IN place[Cardinality(chosen)]

\* expandTileSelection: the tiles in order, or None.
Expanded(tiles, requested) ==
  LET chosen == Reached(tiles, requested)
      order  == Layered(tiles, chosen)
  IN IF /\ \A r \in requested : Resolves(tiles, r)
        /\ \A t \in chosen : \A d \in t.dependencies : Resolves(tiles, ById(d))
        /\ \A s, t \in chosen : s.id = t.id => s = t
        /\ ToSet(order) = chosen
       THEN order ELSE None

ConflictFree(tiles) == \A s, t \in tiles : t.id \notin s.conflicts

BuildsCatalog(entries) ==
  /\ \A i \in DOMAIN entries : TileAccepted(entries[i])
  /\ ~NamedTwice(entries, Ref)
  /\ \A t \in ToSet(entries) :
       LET order == Expanded(ToSet(entries), {Ref(t)})
       IN order # None /\ ConflictFree(ToSet(order))

-----------------------------------------------------------------------------
(* The compiler.                                                            *)
Lower(a, b) == IF a < b THEN a ELSE b

\* Composing tiles can only narrow what they may do.
IntersectPolicies(p, q) ==
  LET egress == p.egress \cap q.egress
      shut   == egress = {} \/ Lower(p.privacy, q.privacy) = 0
      net    == IF shut THEN 0 ELSE Lower(p.network, q.network)
      least  == [c \in Ceilings |-> Lower(p[c], q[c])]
  IN [c \in Ceilings \cup {"egress"} |->
        CASE c = "egress"    -> IF net = 0 THEN {} ELSE egress
          [] c = "network"   -> net
          [] c = "privacy"   -> IF shut THEN 0 ELSE least.privacy
          [] c = "telemetry" -> IF net = 0 THEN Lower(least.telemetry, 1) ELSE least.telemetry
          [] OTHER           -> least[c]]

\* What a tile asks for: its fallback, if the caller chose it.
Falls(q, t) == Ref(t) \in q.fallback
CeilingOf(q, t) == IF Falls(q, t) /\ t.fallback # None THEN t.fallback.policy ELSE t.policy
MinimumOf(q, t) == IF Falls(q, t) /\ t.fallback # None THEN t.fallback.minimum ELSE t.minimum

PolicyOver(q, order) ==
  LET meet[n \in DOMAIN order] ==
        IF n = 1 THEN CeilingOf(q, order[1])
                 ELSE IntersectPolicies(meet[n - 1], CeilingOf(q, order[n]))
      met == meet[Len(order)]
  IN IF q.ceiling = None THEN met ELSE IntersectPolicies(met, q.ceiling)

AssuranceOver(q, order) == Max({1} \cup {Rank(MinimumOf(q, order[i])) : i \in DOMAIN order})

\* A provider's word on a capability counts only if all of this holds.
ConsumersOf(fact, order) == {t \in ToSet(order) : t.inputs \cap fact.capabilities # {}}

ProviderHolds(q, order, fact) ==
  LET r         == fact.resolution
      consumers == ConsumersOf(fact, order)
  IN /\ ResolutionAccepted(r)
     /\ \A t \in consumers : r.intent \in t.intents
     /\ fact.authorized /\ r.origin # "unsupported" /\ r.readiness = "ready"
     /\ r.freshness \in {"fresh", "not-applicable"}
     /\ r.fallbackFrom # None =>
          consumers # {} /\ \A t \in consumers : Falls(q, t)
     /\ WithinCeiling(r.effective, PolicyOver(q, order))
     /\ Rank(r.assurance) >= AssuranceOver(q, order)

\* Mutant: of facts that disagree the last one counts.
FactLevelLast(q, c) ==
  LET of == SelectSeq(q.capabilities, LAMBDA f : f.id = c) IN
  IF of = <<>> THEN 0 ELSE Rank(of[Len(of)].assurance)

\* Of facts that disagree the weakest counts.
FactLevel(q, c) ==
  LET told == {Rank(f.assurance) : f \in {x \in ToSet(q.capabilities) : x.id = c}}
              \cup {Rank(p.resolution.assurance) :
                      p \in {x \in ToSet(q.providers) : c \in x.capabilities}}
  IN IF told = {} THEN 0 ELSE Min(told)

\* For each tile in order, what it has: the caller's facts, and what the
\* tiles it depends on had and made.
Held(q, order) ==
  LET held[n \in DOMAIN order] ==
        LET t == order[n]
            from == {k \in 1..(n - 1) : order[k].id \in t.dependencies}
            has(c) == Max({FactLevel(q, c)} \cup {held[k].after[c] : k \in from})
        IN [before |-> [c \in Capabilities |-> has(c)],
            after  |-> [c \in Capabilities |->
                          IF c \in t.outputs THEN Rank(MinimumOf(q, t)) ELSE has(c)]]
  IN held

InputsHeld(q, order) ==
  LET held == Held(q, order) IN
  \A n \in DOMAIN order : \A c \in order[n].inputs :
    held[n].before[c] > 0 /\ held[n].before[c] >= Rank(MinimumOf(q, order[n]))

ReferencesFit(q, tiles, order) ==
  /\ q.requested # <<>> /\ IsInjective(q.requested)
  /\ \A i, k \in DOMAIN q.requested :
       TheTile(tiles, q.requested[i]) = TheTile(tiles, q.requested[k]) => i = k
  /\ \A r \in q.fallback : Resolves(ToSet(order), r)
  /\ \A t \in ToSet(order) : Falls(q, t) => t.fallback # None

EvidenceOver(order) ==
  {[kind |-> o[1], description |-> o[2],
    required |-> \E t \in ToSet(order) : \E e \in t.evidence :
                   <<e.kind, e.description>> = o /\ e.required,
    tiles |-> {Ref(t) : t \in {x \in ToSet(order) :
                 \E e \in x.evidence : <<e.kind, e.description>> = o}}] :
     o \in UNION {{<<e.kind, e.description>> : e \in t.evidence} : t \in ToSet(order)}}

StopsOver(order) ==
  {[condition |-> s, tiles |-> {Ref(t) : t \in {x \in ToSet(order) : s \in x.stops}}] :
     s \in UNION {t.stops : t \in ToSet(order)}}

\* compileTileComposition
Compiled(entries, q) ==
  LET tiles == ToSet(entries)
      order == IF BuildsCatalog(entries) /\ q.requested # <<>>
                 THEN Expanded(tiles, ToSet(q.requested)) ELSE None
  IN IF /\ order # None
        /\ ReferencesFit(q, tiles, order)
        /\ ConflictFree(ToSet(order))
        /\ q.ceiling # None => EgressAccepted(q.ceiling)
        /\ \A i \in DOMAIN q.providers : ProviderHolds(q, order, q.providers[i])
        /\ InputsHeld(q, order)
       THEN [tiles     |-> order, policy |-> PolicyOver(q, order),
             assurance |-> AssuranceOver(q, order),
             evidence  |-> EvidenceOver(order), stops |-> StopsOver(order),
             attempts  |-> Min({t.attempts : t \in ToSet(order)})]
       ELSE None

-----------------------------------------------------------------------------
(* The registry: a composition is projected with exactly its own claims.    *)
ClaimFits(c, t) ==
  /\ Ref(c.tile) = Ref(t) /\ [c.tile EXCEPT !.body = t.body] = t
  /\ BindingAccepted(c.binding) /\ c.binding.asset.kind = "skill"
  /\ c.binding.capability = t.id
  /\ IF c.binding.control = "pactile-owned"
       THEN c.binding.asset.id = t.id /\ c.body = t.body
       ELSE c.body = None

ClaimsMatch(composition, claims) ==
  /\ Len(claims) = Len(composition.tiles)
  /\ ~NamedTwice(claims, LAMBDA c : Ref(c.tile))
  /\ \A i \in DOMAIN claims : \E t \in ToSet(composition.tiles) : ClaimFits(claims[i], t)

ComposePlan(entries, q, claims) ==
  LET composition == Compiled(entries, q) IN
  IF composition # None /\ ClaimsMatch(composition, claims) THEN composition ELSE None

Compose ==
  /\ built = None
  /\ \E entries \in TileCatalogs, q \in Selections, claims \in TileClaims :
       /\ Compiled(entries, q) # None
       /\ built' = [entries |-> entries, request |-> q, composition |-> Compiled(entries, q),
                    projected |-> ComposePlan(entries, q, claims) # None, claims |-> claims]

-----------------------------------------------------------------------------
TileInit == built = None
TileNext == Compose

-----------------------------------------------------------------------------
(* A composition does not exceed any of its parts: each tile comes after    *)
(* what it depends on and beside nothing it conflicts with, the policy lies *)
(* within the ceiling of every tile (of its fallback, if that was chosen)   *)
(* and of the request, and is one the contract accepts; what each tile      *)
(* needs, some fact or an earlier tile gives, with the assurance it asks.   *)
CompositionHolds == built # None =>
  LET c == built.composition
      q == built.request
  IN /\ \A k, n \in DOMAIN c.tiles : c.tiles[k].id \in c.tiles[n].dependencies => k < n
     /\ \A s, t \in ToSet(c.tiles) : s.id \notin t.conflicts
     /\ PolicyAccepted(c.policy)
     /\ \A t \in ToSet(c.tiles) : /\ WithinCeiling(c.policy, CeilingOf(q, t))
                                  /\ WithinCeiling(c.policy, t.policy)
                                  /\ c.attempts <= t.attempts
     /\ q.ceiling # None => WithinCeiling(c.policy, q.ceiling)
     /\ \A n \in DOMAIN c.tiles : \A i \in c.tiles[n].inputs :
          \/ \E f \in ToSet(q.capabilities) \cup ToSet(q.providers) :
               i \in IF "id" \in DOMAIN f THEN {f.id} ELSE f.capabilities
          \/ \E k \in 1..(n - 1) : i \in c.tiles[k].outputs
     /\ built.projected =>
          \A t \in ToSet(c.tiles) : \E claim \in ToSet(built.claims) :
            claim.binding.capability = t.id
              /\ (claim.binding.control = "pactile-owned" => claim.body = t.body)

(* The order in which tiles are stored, and in which a request lists its    *)
(* selection and its facts, changes nothing in the composition.             *)
OrderIndependent == built # None =>
  LET q == built.request IN
  built.composition = Compiled(Reverse(built.entries),
                               [q EXCEPT !.requested = Reverse(@), !.capabilities = Reverse(@),
                                         !.providers = Reverse(@)])
=============================================================================
