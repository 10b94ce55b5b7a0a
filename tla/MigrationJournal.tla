-------------------------- MODULE MigrationJournal --------------------------
(***************************************************************************)
(* The migration journal of core/src/pactile/lifecycle.ts: the record a    *)
(* lifecycle transaction keeps of its own progress, and the parser every   *)
(* read and every write of it goes through.  A journal is                  *)
(*   state      the phase the transaction last reached,                    *)
(*   committed  whether the canonical commit was recorded,                 *)
(*   status     the reconcile status of each adapter of the transaction,   *)
(*   events     the append-only history.                                   *)
(* `attempts' is the number of started events of an adapter: each write    *)
(* of the orchestrator changes both or neither, so it is left out.         *)
(***************************************************************************)
EXTENDS Integers, Sequences, FiniteSets

CONSTANTS Adapters, None

Statuses == {"pending", "in-progress", "succeeded", "failed"}

(* The states before the canonical commit, in the order they are reached.  *)
OpenStates == {"planned", "backed-up", "staged", "validated"}

CommittedStates == {"committed", "reconciling", "degraded", "completed"}

Happened(kind, adapter) == [kind |-> kind, adapter |-> adapter]

AdapterKinds == {"started", "succeeded", "failed"}

Rank(kind) == CASE kind = "planned"   -> 0
                [] kind = "backup"    -> 1
                [] kind = "stage"     -> 2
                [] kind = "validated" -> 3
                [] kind = "committed" -> 4
                [] kind = "doctor"    -> 6
                [] OTHER              -> 5

EventKinds == {"planned", "backup", "stage", "validated", "committed", "doctor"} \cup AdapterKinds

Journals ==
  [state     : OpenStates \cup CommittedStates,
   committed : BOOLEAN,
   status    : UNION {[platforms -> Statuses] : platforms \in SUBSET Adapters},
   events    : Seq([kind : EventKinds, adapter : Adapters \cup {None}])]

Kinds(j) == {j.events[i].kind : i \in DOMAIN j.events}

NewJournal(platforms) ==
  [state     |-> "planned",
   committed |-> FALSE,
   status    |-> [a \in platforms |-> "pending"],
   events    |-> <<Happened("planned", None)>>]

-----------------------------------------------------------------------------
(* The rules of the parser.  A phase never comes after a later one, and the *)
(* part after the commit may repeat adapter and doctor events.              *)
InOrder(j) ==
  /\ j.events # <<>> /\ j.events[1].kind = "planned"
  /\ \A i, k \in DOMAIN j.events :
       i < k => \/ Rank(j.events[i].kind) <= Rank(j.events[k].kind)
                \/ Rank(j.events[k].kind) >= 5

CommitRecorded(j) ==
  /\ \A i, k \in DOMAIN j.events :
       j.events[i].kind = "committed" /\ j.events[k].kind = "committed" => i = k
  /\ j.committed <=> "committed" \in Kinds(j)
  /\ j.committed => {"backup", "stage", "validated"} \subseteq Kinds(j)
  /\ ~j.committed => \A a \in DOMAIN j.status : j.status[a] = "pending"
  /\ \A i \in DOMAIN j.events : j.events[i].kind \in AdapterKinds =>
       \E k \in 1 .. i : j.events[k].kind = "committed"

(* The events of one adapter: each attempt is started, then ended once, and *)
(* the status is the one the last event left.                               *)
EventsOf(j, a) == SelectSeq(j.events, LAMBDA e : e.adapter = a)

Places(j, a) == {i \in DOMAIN j.events : j.events[i].adapter = a}

(* attemptOpen, when the loop comes to event i.                             *)
AttemptOpen(j, a, i) ==
  \E k \in Places(j, a) : /\ k < i /\ j.events[k].kind = "started"
                         /\ \A l \in Places(j, a) : l < i => l <= k

AttemptsAlternate(j) ==
  \A a \in DOMAIN j.status :
    /\ \A i \in Places(j, a) : (j.events[i].kind = "started") <=> ~AttemptOpen(j, a, i)
    /\ Places(j, a) = {} => j.status[a] = "pending"
    /\ \A i \in Places(j, a) : (\A k \in Places(j, a) : k <= i) =>
         j.status[a] = IF j.events[i].kind = "started" THEN "in-progress" ELSE j.events[i].kind

StateAgrees(j) == LET has == {j.status[a] : a \in DOMAIN j.status} IN
  /\ j.state = "completed" => has \subseteq {"succeeded"}
  /\ j.state = "degraded" => "failed" \in has
  /\ "failed" \in has => j.state \in {"degraded", "reconciling"}
  /\ (j.state = "reconciling") <=> ("in-progress" \in has)
  /\ j.state \in CommittedStates => j.committed

Parses(j) == InOrder(j) /\ CommitRecorded(j) /\ AttemptsAlternate(j)
               /\ StateAgrees(j)

-----------------------------------------------------------------------------
(* The updates a transaction makes.                                         *)
Appended(j, state, kind, adapter) ==
  [j EXCEPT !.state = state, !.events = Append(@, Happened(kind, adapter))]

Started(j, a) ==
  [Appended(j, "reconciling", "started", a) EXCEPT !.status[a] = "in-progress"]

Failed(j, a) ==
  [Appended(j, "degraded", "failed", a) EXCEPT !.status[a] = "failed"]

\* Mutant: a success commits whatever the other adapters did.
SucceededCommits(j, a) ==
  [Appended(j, "committed", "succeeded", a) EXCEPT !.status[a] = "succeeded"]

Succeeded(j, a) ==
  [Appended(j, IF \E b \in DOMAIN j.status \ {a} : j.status[b] = "failed"
                 THEN "degraded" ELSE "committed", "succeeded", a)
     EXCEPT !.status[a] = "succeeded"]

Committed(j) ==
  [Appended(j, "committed", "committed", None) EXCEPT !.committed = TRUE]

Completed(j) == Appended(j, "completed", "doctor", None)

AllSucceeded(j) == \A a \in DOMAIN j.status : j.status[a] = "succeeded"

EverSucceeded(j, a) == Happened("succeeded", a) \in
                         {j.events[i] : i \in DOMAIN j.events}
=============================================================================
