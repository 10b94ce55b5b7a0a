---------------------------- MODULE MCProjection ----------------------------
(***************************************************************************)
(* What is laid over a project, side by side; part picks the one that      *)
(* moves while the others stay as they began:                              *)
(*   store      two adapters that share a managed block in AGENTS.md and a *)
(*              skill file                                                 *)
(*   retrieval  two providers, one asset that is adopted, two claimants    *)
(*   tiles      a tile, what it depends on and a tile in conflict          *)
(*   quality    a Full task of two criteria whose evidence is rebuilt      *)
(***************************************************************************)
EXTENDS Projection, TLC

\* Of the gates, see FullQuality.
CONSTANTS ControlRequests, RawControls, FileEdits, Mappings, Checks, HandLedgers, HandChecks,
          CheckRecords, QualityEdits, QualityCommands

\* No version of a text is the value of a missing one.
ASSUME QualityAssumption ==
    /\ None \notin Nat
    /\ \A l \in HandLedgers : l.hand
    /\ \A v \in HandChecks : v.hand

VARIABLES
    part,
    clock, facts, bound, held, planned, granted,
    built,
    surfaces, code, gates, phase, draft, closed, uses

OrderDef == <<"agents", "skill">>
Target(v, resources, assets) == [version |-> v, resources |-> resources, assets |-> assets]
TargetsDef == {Target("v1", {"agents", "skill"}, Assets), Target("v2", {"agents"}, {})}
BindingsDef == {Target("v1", {"agents"}, {}), Target("v1", {"agents"}, Assets)}
InitialDef == {[r \in Resources |-> Absent],
               [r \in Resources |-> [own |-> None, foreign |-> TRUE]]}
AdapterSymmetry == Permutations(Adapters)

-----------------------------------------------------------------------------
(* Providers and what is asked of them.                                     *)
UnsafeDef == {"bad"}
NameOrderDef == <<"1", "1.0.0", "2", "2.0.0", "base", "loop", "p1", "p2", "search">>
Resolver == INSTANCE ProviderResolver WITH Unsafe <- UnsafeDef, NameOrder <- NameOrderDef

Policy(fs, net, privacy, egress, telemetry) ==
    [filesystem |-> fs, process |-> 1, network |-> net, credentials |-> 0,
     privacy |-> privacy, egress |-> egress, telemetry |-> telemetry, cost |-> 1]
Local == Policy(1, 0, 0, {}, 1)
Wide == Policy(1, 1, 1, {"host"}, 1)

Manifest(id, version, assurance, ceiling) ==
    [id |-> id, version |-> version, origin |-> "provider", intents |-> {"semantic", "external"},
     capabilities |-> {"tool"}, assurance |-> assurance, ceiling |-> ceiling,
     evidence |-> {"kind"}, probe |-> [supported |-> TRUE, maxAge |-> 0]]
File(name, manifest) ==
    [name |-> name, fold |-> name, plain |-> TRUE, readable |-> TRUE, manifest |-> manifest]
Pair(m, n) == <<File("a", m), File("b", n)>>
CatalogsDef ==
    {Pair(Manifest("p2", "1.0.0", "evidence-backed", Local), Manifest("p1", "1.0.0", "best-effort", Local)),
     Pair(Manifest("p2", "1.0.0", "evidence-backed", Wide), Manifest("p2", "2.0.0", "verified", Local)),
     Pair(Manifest("p1", "1.0.0", "evidence-backed", Local), Manifest("p1", "1.0.0", "best-effort", Wide))}

\* What a snapshot of a host shows: whose the tool is, and what is said of it.
Context(source, kind, id) == [root |-> "r", source |-> source, owner |-> [kind |-> kind, id |-> id]]
User == Context("user-installed", "user", None)
Owners == {User, Context("host-native", "host", None), Context("project-vendored", "pactile", "pactile"),
             Context("pactile-bundled", "pactile", "pactile")}
Misfits == {Context("project-vendored", "third-party", None), Context("pactile-bundled", "user", None)}
Seen(context, kind, present, enabled, content) ==
    Resolver!Sighting(context, [id |-> "tool", kind |-> kind, at |-> "t", present |-> present,
                                enabled |-> enabled, content |-> content])
Flags == {TRUE, FALSE, None}
SeenByUser == <<Seen(User, "mcp", TRUE, TRUE, 1)>>
SnapshotsDef ==
    {SeenByUser}
    \cup {<<Seen(c, "skill", p, e, 1), Seen(User, "skill", TRUE, TRUE, x)>> :
             c \in Owners, p \in {TRUE, None}, e \in Flags, x \in {1, 2}}
    \cup {<<Seen(c, "skill", p, e, 1)>> : c \in Owners \cup Misfits, p \in BOOLEAN, e \in Flags}

InputFrom(signals, minimum, policy, kinds, steps) ==
    [query |-> "q", signals |-> signals, intents |-> None, minimum |-> minimum, policy |-> policy,
     kinds |-> kinds, maxSteps |-> steps]
Asked(intents, minimum, policy, kinds, steps) ==
    [query |-> "q", intents |-> intents, minimum |-> minimum, policy |-> policy,
     kinds |-> kinds, maxSteps |-> steps]
Says(status, readiness) == <<[intent |-> "semantic", status |-> status, readiness |-> readiness]>>
Grant(authorized, active, standby) ==
    [authorized |-> authorized, active |-> active, standby |-> standby, fallback |-> TRUE]
Adoption(request, catalog) ==
    [seen |-> SeenByUser, asset |-> "tool", intent |-> "semantic", provider |-> "p2",
     request |-> request, grant |-> Grant({"p1", "p2"}, {}, {}), files |-> catalog]

Runner(exit, available) == [exit |-> exit, available |-> available]

Retrieve == INSTANCE Retrieval WITH
    now <- clock, claims <- held, plan <- planned, Unsafe <- UnsafeDef, NameOrder <- NameOrderDef,
    Definitions <- <<[id |-> "p1", assurance |-> "best-effort", maxAge |-> 0],
                     [id |-> "p2", assurance |-> "evidence-backed", maxAge |-> 0]>>,
    Answers <- {<<Runner(0, TRUE), Runner(0, TRUE)>>, <<Runner(1, TRUE), Runner(0, FALSE)>>},
    Catalogs <- CatalogsDef, Snapshots <- SnapshotsDef,
    Adoptions <- {Adoption(r, f) : f \in CatalogsDef, r \in
                    {Asked({"exact", "semantic"}, "evidence-backed", Local, {"source-reference"}, 16),
                     Asked({"semantic"}, "evidence-backed", Wide, {"source-reference"}, 1)}},
    AssetIds <- {"tool"}, Claimants <- {"c1", "c2"},
    Inputs <- {InputFrom({"exact", "semantic"}, None, None, None, None),
               InputFrom({"semantic"}, "evidence-backed", Wide, {"source-reference"}, 1),
               InputFrom({"exact", "semantic"}, "best-effort", Local, {}, 1)},
    Contexts <- {<<>>, Says("ready", None), Says("unsupported", "unavailable"),
                 Says("unsupported", "unsupported")},
    Grants <- {Grant({"p1", "p2"}, {}, {}), Grant({"p2"}, {"p1"}, {"p2"})},
    Evidences <- {{}, {"source-reference"}, {"source-reference", "repeatable-test"}},
    MaxTime <- 1

-----------------------------------------------------------------------------
(* Tiles.                                                                   *)
Tile(id, version, deps, conflicts, in, out, policy, fallback, minimum) ==
    [id |-> id, version |-> version, dependencies |-> deps, conflicts |-> conflicts,
     inputs |-> in, outputs |-> out, intents |-> {"semantic"}, policy |-> policy,
     fallback |-> fallback, minimum |-> minimum,
     evidence |-> {[kind |-> "test", required |-> id = "base" \/ minimum # "best-effort", description |-> "d"]},
     stops |-> {"done"} \cup (IF id = "loop" THEN {"spent"} ELSE {}),
     attempts |-> IF id = "base" THEN 3 ELSE 2, body |-> id]
Far(egress) == Policy(2, 1, 1, egress, 1)
Base == Tile("base", "1", {}, {}, {}, {"text"}, Far({"a", "b"}), None, "best-effort")
Search(fallback, minimum) ==
    Tile("search", "1", {"base"}, {}, {"text"}, {"found"}, Far({"a"}), fallback, minimum)
Loop(deps, conflicts) == Tile("loop", "1", deps, conflicts, {"found"}, {}, Far({"b"}), None, "best-effort")
Falls(policy, minimum) == [policy |-> policy, minimum |-> minimum]
Offline == Policy(1, 0, 0, {}, 0)

Ref(id, version) == [id |-> id, version |-> version]
Told(assurance, from) ==
    <<[capabilities |-> {"text"}, authorized |-> TRUE,
       resolution |->
         [intent |-> "semantic", minimum |-> "best-effort", origin |-> "provider", provider |-> "p2",
          version |-> "1", assurance |-> assurance, readiness |-> "ready", requested |-> Offline,
          effective |-> Offline, evidence |-> {"e"}, freshness |-> "fresh", at |-> 0,
          result |-> "passed", fallbackFrom |-> from]]>>
Fact(id, assurance) == [id |-> id, assurance |-> assurance]

TileClaim(tile, control, body) ==
    [tile |-> tile, body |-> body,
     binding |->
       [id |-> "x", capability |-> tile.id, mode |-> IF control = "borrowed" THEN "adopted" ELSE "composed",
        control |-> control, boundary |-> IF control = "borrowed" THEN "preserve" ELSE "remove-when-unclaimed",
        intents |-> {"semantic"}, provider |-> None,
        asset |-> [id |-> tile.id, kind |-> "skill", source |-> "project-vendored",
                   owner |-> [kind |-> "pactile", id |-> "pactile"],
                   locator |-> [scheme |-> "project-vendored", at |-> "t"], content |-> 1,
                   readiness |-> "ready", hint |-> None]]]

Composer == INSTANCE Tiles WITH
    Unsafe <- UnsafeDef, NameOrder <- NameOrderDef, Capabilities <- {"text", "found"},
    TileCatalogs <-
        {<<Search(None, "best-effort"), Base>>,
         <<Base, Search(Falls(Offline, "evidence-backed"), "best-effort"), Loop({"search"}, {})>>,
         <<Search(None, "evidence-backed"), Base>>,
         <<Base, Search(None, "best-effort"), Loop({}, {"base"})>>,
         <<Base, [Base EXCEPT !.version = "2"], Loop({"base"}, {})>>,
         <<Search(Falls(Far({"a", "b"}), "best-effort"), "best-effort"), Base>>,
         <<Base, Base>>},
    Selections <-
        [requested : {<<Ref("search", None)>>, <<Ref("search", "1"), Ref("base", "1")>>, <<Ref("loop", None)>>,
                      <<Ref("loop", None), Ref("search", None)>>,
                      <<Ref("search", None), Ref("search", "1")>>, <<>>},
         fallback : {{}, {Ref("search", "1")}},
         capabilities : {<<>>, <<Fact("found", "verified"), Fact("found", "best-effort")>>,
                         <<Fact("text", "best-effort"), Fact("text", "evidence-backed")>>},
         providers : {<<>>, Told("evidence-backed", None), Told("best-effort", "p1")},
         ceiling : {None, Offline}],
    TileClaims <-
        {<<TileClaim(Base, "pactile-owned", body), TileClaim(Search(None, "best-effort"), "borrowed", None)>> :
            body \in {"base", "other"}}

-----------------------------------------------------------------------------
(* Gates.                                                                   *)
Edit(surface, items) == [surface |-> surface, items |-> items, real |-> TRUE]
Check(worker) == [mode |-> "true-independent", worker |-> worker]

ControlRequestsDef ==
    {[rigor |-> "full", profile |-> None, risks |-> {"schema"}, policy |-> FALSE,
      explicit |-> {"definition", "evidence"}]}
RawControlsDef ==
    {None, [rigor |-> "full", controls |-> {"definition", "evidence"}], [rigor |-> "none", controls |-> None]}
FileEditsDef == {Edit("prd", {"AC-1"}), Edit("prd", {"AC-1", "AC-2"}), Edit("verify", {})}
MappingsDef == {("AC-1" :> "real"), ("AC-1" :> "real") @@ ("AC-2" :> "real")}
ChecksDef == {Check(TRUE), Check(FALSE)}
HandLedger(refs, source, evidence, codeOf) ==
    [refs |-> refs, source |-> source, evidence |-> evidence, code |-> codeOf, hand |-> TRUE]
HandLedgersDef ==
    {HandLedger("AC-1" :> "real", None, None, 1), HandLedger("AC-1" :> "real", 1, None, None)}
HandCheck(mode, readonly, result, codeOf) ==
    [mode |-> mode, readonly |-> readonly, worker |-> FALSE, evidence |-> "real",
     result |-> result, code |-> codeOf, hand |-> TRUE]
HandChecksDef ==
    {HandCheck("self-review", TRUE, "PASS", None), HandCheck("self-review", FALSE, "PASS", 1),
     HandCheck("neither", TRUE, "PASS", None)}
CheckRecordsDef ==
    {[mode |-> "self-review", readonly |-> TRUE, worker |-> FALSE, evidence |-> "real",
      result |-> "PASS", approved |-> FALSE, code |-> None]}

Quality == INSTANCE FullQuality WITH
    files <- surfaces, extras <- gates, spent <- uses,
    MaxEdits <- QualityEdits, MaxCommands <- QualityCommands

\* What happens before the task exists or after it was archived shows nothing, nor does
\* a task that the commands that are left cannot close as a Full one.
Missing == Cardinality({x \in {"ledger", "check"} : gates[x] = None})
           + (IF gates.controls.rigor = "full" THEN 0 ELSE 1)
Followed == part = "quality" =>
    /\ (phase = "none" => uses.edits = 0) /\ closed = None
    /\ phase # "none" => uses.commands + Missing < QualityCommands

retrievalVars == <<clock, facts, bound, held, planned, granted>>
qualityVars == <<surfaces, code, gates, phase, draft, closed, uses>>
laidVars == <<part, vars, retrievalVars, built, qualityVars>>

\* Of those that rest, one initial state is enough.
LaidInit ==
    /\ part \in {"store", "retrieval", "tiles", "quality"}
    /\ Init /\ Retrieve!Rinit /\ Composer!TileInit /\ Quality!QualityInit
    /\ part # "store" => files = [r \in Resources |-> Absent]

LaidNext ==
    \/ part = "store" /\ Next /\ UNCHANGED <<part, retrievalVars, built, qualityVars>>
    \/ part = "retrieval" /\ Retrieve!Rnext /\ UNCHANGED <<part, vars, built, qualityVars>>
    \/ part = "tiles" /\ Composer!TileNext /\ UNCHANGED <<part, vars, retrievalVars, qualityVars>>
    \/ part = "quality" /\ Quality!QualityNext /\ UNCHANGED <<part, vars, retrievalVars, built>>

LaidSpec == LaidInit /\ [][LaidNext]_laidVars

(* Plans are recognized by the assessment, the claims accepted for them are *)
(* backed by what was authorized and probed, and the inventory, the         *)
(* resolver and the bindings take what they are given in any order.         *)
ClaimsBacked == part = "retrieval" =>
    Retrieve!PlansValidate /\ Retrieve!AcceptedIsBacked /\ Retrieve!PartsFit /\ Retrieve!InventoryHolds

(* A composition is the same for every order of its inputs and exceeds none *)
(* of its parts.                                                            *)
CompositionsHold == part = "tiles" => Composer!OrderIndependent /\ Composer!CompositionHolds

\* Property of the gates, while their part moves.
ClosedOnItsEvidence == part = "quality" => Quality!ClosedOnItsEvidence
=============================================================================
