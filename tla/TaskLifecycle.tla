--------------------------- MODULE TaskLifecycle ---------------------------
(***************************************************************************)
(* What the task kernel promises: a task has one phase, which moves only   *)
(* along the legal edges, and a revision that counts every phase entered   *)
(* and every change made inside a phase. Nothing ever takes either back.   *)
(***************************************************************************)
EXTENDS Naturals

CONSTANTS Phases, PhaseEdges, NoPhase

VARIABLES phase, revision

\* The pairs of phases n edges apart. One command hops from open to close at most.
MaxHops == 5
Then(pairs) == {<<p[1][1], p[2][2]>> : p \in {x \in pairs \X PhaseEdges : x[1][2] = x[2][1]}}
Apart == [n \in 1..MaxHops |->
    CASE n = 1 -> PhaseEdges
      [] n = 2 -> Then(PhaseEdges)
      [] n = 3 -> Then(Then(PhaseEdges))
      [] n = 4 -> Then(Then(Then(PhaseEdges)))
      [] n = 5 -> Then(Then(Then(Then(PhaseEdges))))]

Init == phase = NoPhase /\ revision = 0

\* The first command a task's kernel records; a task older than its kernel
\* starts in the phase its status stands for.
Begin ==
    /\ phase = NoPhase
    /\ phase' \in Phases
    /\ revision' \in 1..MaxHops

\* A change inside the phase: a gate, a patch, a repeated start or archive.
Touch ==
    /\ phase # NoPhase
    /\ revision' = revision + 1
    /\ UNCHANGED phase

Advance ==
    \E n \in 1..MaxHops :
        /\ revision' = revision + n
        /\ <<phase, phase'>> \in Apart[n]

Next == Begin \/ Touch \/ Advance

Spec == Init /\ [][Next]_<<phase, revision>>
=============================================================================
