--------------------------- MODULE WorkerRegistry ---------------------------
(***************************************************************************)
(* reduceWorkerRegistry for one worker: what every reader of a channel     *)
(* (list, status, the spawn guard, reconcile) believes about the worker,   *)
(* as a fold of the durable events over its entry.                         *)
(***************************************************************************)

Lifecycles == {"unknown", "running", "done", "error", "killed", "crashed"}
Activities == {"idle", "mid-turn"}
WorkerStates == [lifecycle : Lifecycles, activity : Activities]

EventKinds == {"spawned", "turn_started", "turn_finished", "interrupted", "done",
               "error", "killed"}

\* by: the worker's own alias, supervisor:<worker>, or cli:kill, which names the
\* worker in a field of its own.
WorkerEvents == [kind : EventKinds, by : {"worker", "supervisor", "cli"},
                 synthesized : BOOLEAN, crash : BOOLEAN]

\* An event the worker or its supervisor appends in passing.
Plain(kind) == [kind |-> kind, by |-> "worker", synthesized |-> FALSE, crash |-> FALSE]

\* The same event signed by somebody else.
By(ev, author) == [ev EXCEPT !.by = author]

\* No entry yet.
Unknown == [lifecycle |-> "unknown", activity |-> "idle"]

\* identifyWorker: events that may introduce a worker the reader has not met.
CanCreate(ev) ==
    \/ ev.kind = "spawned"
    \/ ev.kind \in {"killed", "done", "error"} /\ ev.by # "worker"

LifecycleAfter(w, ev) ==
    CASE ev.kind = "spawned" -> "running"
      [] ev.kind = "killed" -> IF ev.crash THEN "crashed" ELSE "killed"
      [] ev.kind = "done" /\ ev.synthesized -> "done"
      [] ev.kind = "error" /\ (ev.synthesized \/ ev.by = "supervisor") -> "error"
      [] OTHER -> IF w = Unknown THEN "running" ELSE w.lifecycle

\* One event of the fold.
Apply(w, ev) ==
    IF w = Unknown /\ ~CanCreate(ev) THEN w
    ELSE [lifecycle |-> LifecycleAfter(w, ev),
          activity |-> IF ev.kind = "turn_started" THEN "mid-turn" ELSE "idle"]

Terminal(w) == w.lifecycle \in {"done", "error", "killed", "crashed"}
=============================================================================
