---------------------------- MODULE MCLifecycle ----------------------------
(***************************************************************************)
(* The lifecycle and the contract of its requests, side by side; part      *)
(* picks the one that moves while the other stays as it began:              *)
(*   lifecycle  the two platforms of the product, one canonical content    *)
(*   contract   requests of every kind and what is wrong with them, and     *)
(*              seven that are retried with one thing changed               *)
(***************************************************************************)
EXTENDS Lifecycle, TLC

CONSTANTS codex, cursor, Malformed

MCOrder == <<codex, cursor>>

VARIABLES part, saved, runner, drivers

-----------------------------------------------------------------------------
(* Requests.                                                                *)

File(path, bytes, class, source, expected, ref) ==
    [path |-> path, bytes |-> bytes, class |-> class, source |-> source, expected |-> expected, ref |-> ref]

MCFiles ==
    {File(p, "x", "active", "x", "x", "r1") : p \in {"a", "A", Malformed}}
    \cup {File("b", b, c, "x", e, r) :
             b \in {"x", "y"}, c \in {"active", "closed", "generated"}, e \in {"x", Malformed}, r \in {"r1", "r2"}}
    \cup {File("b", "huge", "active", "x", "x", "r2"), File("b", "x", "active", "huge", "huge", "r2"),
          File("b", "x", "active", "x", "x", Malformed)}
Plain == {f \in MCFiles : f.path \in {"A", "a"}}
Lists(second) == {<<>>} \cup {<<f>> : f \in MCFiles} \cup {<<f, g>> : f \in MCFiles, g \in second}
TwoFiles == <<File("b", "x", "closed", "x", "x", "r2"), File("a", "x", "active", "x", "x", "r1")>>

FromFresh(list) == [kind |-> "fresh", files |-> list]
FromCanonical(list, v, g) ==
    [kind |-> "canonical", files |-> list, generation |-> g, version |-> v, schema |-> 1]
FromLegacy(list, v, s, root) ==
    [kind |-> "legacy", files |-> list, version |-> v, schema |-> s, root |-> root]

Adapter(a, projection, v) == [id |-> a, projection |-> projection, version |-> v]
Both == <<Adapter(codex, "p1", "strict"), Adapter(cursor, "p2", "strict")>>
AdapterLists ==
    {<<>>, <<Both[1]>>, Both, <<Both[1], Adapter(cursor, "p1", "strict")>>,
     <<Adapter(codex, "p1", "bad")>>, <<Both[1], Adapter(codex, "p2", "strict")>>}

Request(source, v, list, formed) ==
    [formed |-> formed, generation |-> "g1", version |-> v, adapters |-> list, source |-> source]

MCRequests ==
    {Request(FromLegacy(list, "strict", 1, ".cstl"), "strict", Both, TRUE) : list \in Lists(MCFiles)}
    \cup {Request(FromFresh(list), v, <<>>, TRUE) : list \in Lists(Plain), v \in {"strict", "loose"}}
    \cup {Request(FromCanonical(list, v, g), "strict", Both, TRUE) :
             list \in Lists(Plain), v \in {"strict", "loose", "bad"}, g \in {"g0", "g1", Malformed}}
    \cup {Request(FromLegacy(TwoFiles, v, s, root), "strict", list, ok) :
             v \in {None, "strict", "loose", "bad"}, s \in {None, 0}, root \in {".cstl", ".trellis"},
             list \in AdapterLists, ok \in BOOLEAN}

Asked == Request(FromLegacy(TwoFiles, "strict", 1, ".cstl"), "strict", Both, TRUE)
MCRetries ==
    {Asked, [Asked EXCEPT !.adapters = <<Both[1]>>], [Asked EXCEPT !.source.files[2].bytes = "y"],
     [Asked EXCEPT !.source.files[1].bytes = "y"], [Asked EXCEPT !.version = "loose"],
     Request(FromFresh(TwoFiles), "strict", Both, TRUE),
     Request(FromCanonical(TwoFiles, "strict", "g0"), "strict", Both, TRUE)}

Contract == INSTANCE LifecycleContract WITH Requests <- MCRequests, Submitted <- MCRetries, MaxRuns <- 3

-----------------------------------------------------------------------------
contractVars == <<saved, runner, drivers>>
bothVars == <<part, vars, contractVars>>

BothInit == part \in {"lifecycle", "contract"} /\ Init /\ Contract!Lcinit

BothNext ==
    \/ part = "lifecycle" /\ Next /\ UNCHANGED <<part, contractVars>>
    \/ part = "contract" /\ Contract!Lcnext /\ UNCHANGED <<part, vars>>

BothSpec == BothInit /\ [][BothNext]_bothVars

(* At most one fault a run of the lifecycle; and a third command overlaps     *)
(* another only where there was none.                                        *)
Bound ==
  spent.crashes + spent.failures
    + (IF spent.commands = MaxCommands /\ \A p \in Procs : Busy(p) THEN 1 ELSE 0) <= 1

Symmetry == Permutations(Procs) \cup Permutations(Contents)

(* Runs that share a journal do the same work, a request that is accepted   *)
(* is planned, and what MigrationJournal leaves out of a journal never       *)
(* decides whether it is accepted.                                           *)
RequestsHold == part = "contract" =>
    Contract!OneWork /\ Contract!AcceptedIsPlanned /\ Contract!OutlineDecides
=============================================================================
