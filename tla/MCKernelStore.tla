---------------------------- MODULE MCKernelStore ---------------------------
(***************************************************************************)
(* The records of one task, side by side; part picks the one that moves    *)
(* while the others stay as they began:                                    *)
(*   store     two interchangeable clients, one pool item, one gate, and a *)
(*             transition that moves a task on without its status          *)
(*   extras    what commands send of its parents, children, dependencies   *)
(*             and external providers, in any order                        *)
(***************************************************************************)
EXTENDS KernelStore, TLC

CONSTANTS Asked, MaxExtrasCommands

VARIABLES
    part,
    record, extras, stage, begun, given

ClientSymmetry == Permutations(Clients)

-----------------------------------------------------------------------------
(* What a task is sent: its parents, children and dependencies, and its     *)
(* external providers.                                                      *)
Nothing == <<>>
Ask(r, x) == [record |-> r, extras |-> x]
Kind(kind) == [topology |-> [kind |-> kind, parent |-> "P", children |-> {"d"}]]
Edge(type) == [graph |-> {[from |-> "self", to |-> "x", type |-> type]}]
Proposal(confirmed) == [proposal |-> [confirmed |-> confirmed, slices |-> {"c"}]]

TopologyRequests ==
    {Ask(r, Nothing) : r \in {Nothing, [children |-> {"c"}], [parent |-> "Q"],
                              [parent |-> "P", children |-> {}]}}
    \cup {Ask(Nothing, x) : x \in
            {Kind("single"), Kind("tree"), Proposal(FALSE), Edge("advisory"), Edge("other"),
             [depends |-> {"x", "y"}, satisfied |-> {"y"}], [satisfied |-> {"x", "y"}],
             [modules |-> [registered |-> {}, active |-> {"m", "u"}, degraded |-> {}],
              baseline |-> {"define-basic", "u"}],
             [missing |-> {"external-knowledge"}], [candidate |-> TRUE],
             [integration |-> "child"], [slots |-> {"define"}]}}
    \cup {Ask([parent |-> "Q"], [topology |-> None]), Ask([children |-> {"c"}], Proposal(TRUE))}

Probing(present, reachable, status, capability) ==
    [present |-> present, reachable |-> reachable, status |-> status, capability |-> capability]
Listed(registered, required, active, readiness) ==
    [providers |-> [registered |-> registered, required |-> required, active |-> active,
                    degraded |-> {}, readiness |-> readiness]]

External == "external-knowledge"

ProviderRequests == {Ask(Nothing, x) : x \in
    {Nothing, [providers |-> None, health |-> None], [health |-> None],
     Listed({"a", "b"}, {"a", "z"}, {"b", "z"}, "z" :> [status |-> "ready", capability |-> External]),
     Listed({"a"}, {}, {}, "a" :> [status |-> "failed", capability |-> "unknown"]),
     [probes |-> "a" :> Probing(TRUE, None, None, External)],
     [probes |-> ("a" :> Probing(TRUE, FALSE, None, External)) @@ ("z" :> Probing(TRUE, None, None, External))],
     [probes |-> ("a" :> Probing(FALSE, None, None, "unknown")) @@ ("b" :> Probing(None, None, "ready", External))],
     [capabilities |-> {External}], [missing |-> {External}], [policy |-> "degrade"],
     [bridge |-> [subscriptions |-> {[event |-> "stop", module |-> "m"],
                                     [event |-> "sessionStart", module |-> "n"]}, last |-> None]],
     [event |-> "stop"], [router |-> "exact" :> FALSE], [router |-> "fast" :> TRUE]}}

MCAsked == TopologyRequests \cup ProviderRequests

Extras == INSTANCE TaskExtras WITH
    Self <- "self", OnDemand <- {"parent-child", "m"}, Baseline <- {"define-basic"},
    Slots <- {"define", "verify"}, Requests <- Asked

-----------------------------------------------------------------------------
extrasVars == <<record, extras, stage, begun, given>>
taskVars == <<part, vars, extrasVars>>

\* Of those that rest, one initial state is enough.
TaskInit ==
    /\ part \in {"store", "extras"}
    /\ Init /\ Extras!ExtrasInit
    /\ part # "store" => task = Absent

TaskNext ==
    \/ part = "store" /\ Next /\ UNCHANGED <<part, extrasVars>>
    \/ part = "extras" /\ Extras!ExtrasNext /\ UNCHANGED <<part, vars>>

TaskSpec == TaskInit /\ [][TaskNext]_taskVars

(* What was sent is kept in full, whichever part of it arrived first: the   *)
(* record and the extras agree on the family, the started task's            *)
(* dependencies are met, a required provider that fails is shown, and a     *)
(* task that needs external knowledge begins with it or says it has none;   *)
(* and the status in task.json never runs ahead of the phase.               *)
RecordsHold ==
    /\ part = "store" => StatusFollowsPhase
    /\ Extras!TopologyAgrees /\ Extras!DependenciesMet
    /\ Extras!FailuresShow /\ Extras!BegunWithKnowledge
=============================================================================
