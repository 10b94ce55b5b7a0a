------------------------- MODULE KernelStore_proofs -------------------------
(***************************************************************************)
(* Proofs about KernelStore, for any clients, items, gates and bounds.     *)
(* What the audit of kernel.json says of its own history holds of every    *)
(* snapshot a client plans, whoever else writes: a plan is computed from   *)
(* one snapshot alone. What relates the two files, and the snapshots of    *)
(* different clients, needs the lock, and holds until a live one is        *)
(* stolen.                                                                 *)
(***************************************************************************)
EXTENDS MCKernelStore, TLAPS

Inside(c) == pc[c] \in {"locked", "planned", "persisted", "writing", "staged", "checked", "releasing"}

\* Between its read and its answer a client keeps its request, and the record
\* it found in task.json if its command sends one.
RequestInv == \A c \in Clients : pc[c] # "idle" =>
    /\ request[c] \in Requests
    /\ Op(c) \in SendsRecord => Sent(c) \in Projections

-----------------------------------------------------------------------------
(* What a snapshot says of its own history. *)

LegalStep(p, q) == p = q \/ <<p, q>> \in PhaseEdges

\* One entry for every revision, each a legal step from the one before it, the
\* last one where the snapshot is; no key twice; a hop's key carries its revision.
Kept(k) ==
    /\ {entry.rev : entry \in k.audit} = 1..k.rev
    /\ \A e, f \in k.audit :
          /\ e.key = f.key => e = f
          /\ e.rev = f.rev => e = f
          /\ f.rev = e.rev + 1 => LegalStep(e.phase, f.phase)
    /\ \A e \in k.audit : e.rev = k.rev => e.phase = k.phase
    /\ \A e \in k.audit : e.key.op = "hop" => e.key.n = e.rev

\* Every snapshot but the virtual one of a legacy task has an entry at least.
Recorded(k) == Kept(k) /\ k.rev >= 1

\* The clients that hold a snapshot they are about to write or have written.
HasPlan(c) ==
    \/ pc[c] \in {"planned", "persisted", "writing", "staged", "checked"}
    \/ pc[c] = "releasing" /\ reply[c] = "committed"

AuditInv ==
    /\ kernel # NoKernel => Recorded(kernel)
    /\ \A c \in Clients : HasPlan(c) => plan[c] \in Kernels /\ Recorded(plan[c])

\* Every snapshot that will be written to task.json has a record.
RecordInv == \A c \in Clients :
    \/ pc[c] = "planned" /\ Op(c) # "move"
    \/ pc[c] \in {"persisted", "writing", "staged", "checked"}
    => plan[c].proj \in Projections

-----------------------------------------------------------------------------
(* What holds until a live lock is stolen. *)

LockInv == \A c \in Clients : Inside(c) => lock = [by |-> c, holder |-> "alive"]

\* A plan follows the kernel it will replace: the same snapshot again, or
\* one command further on.
Follows(k) ==
    \/ k = kernel
    \/ kernel = NoKernel /\ k.rev \in 1..Lifecycle!MaxHops
    \/ /\ kernel # NoKernel /\ kernel.audit \subseteq k.audit
       /\ \/ k.phase = kernel.phase /\ k.rev = kernel.rev + 1
          \/ \E n \in 1..Lifecycle!MaxHops :
                <<kernel.phase, k.phase>> \in Lifecycle!Apart[n] /\ k.rev = kernel.rev + n

PlannedInv == \A c \in Clients : pc[c] = "planned" =>
    /\ Follows(plan[c])
    /\ Op(c) = "move" =>
          plan[c].proj = IF kernel = NoKernel THEN NoProjection ELSE kernel.proj

\* From its write of kernel.json, or its read of it for a repair, to its release,
\* the snapshot of a client is the kernel.
WrittenInv == \A c \in Clients : HasPlan(c) /\ pc[c] # "planned" => kernel = plan[c]

DamageInv == \A c \in Clients : pc[c] \in {"persisted", "writing"} => damaged

\* What a repair has compared still stands.
SeenInv == \A c \in Clients :
    /\ pc[c] \in {"staged", "checked"} => kernel.rev = request[c].rev
    /\ pc[c] = "checked" => task = request[c].seen

Guarded == LockInv /\ PlannedInv /\ WrittenInv /\ DamageInv /\ SeenInv

IInv ==
    /\ TypeOK /\ RequestInv /\ AuditInv /\ RecordInv
    /\ ~raced => Guarded
    /\ SyncedUnlessDamaged /\ AckedApplied

-----------------------------------------------------------------------------
(* The paths of the commands that enter several phases. *)

Chain(p, hops) ==
    /\ hops \in Seq(Phases) /\ Len(hops) \in 0..Lifecycle!MaxHops
    /\ hops # <<>> => <<p, hops[1]>> \in PhaseEdges
    /\ \A i \in 1..Len(hops) : i + 1 <= Len(hops) => <<hops[i], hops[i + 1]>> \in PhaseEdges

LEMMA ClosePaths == \A p \in Phases : Chain(p, HopsToClose[p])
<1> SUFFICES ASSUME NEW p \in Phases PROVE Chain(p, HopsToClose[p])
  OBVIOUS
<1> USE DEF Chain, HopsToClose, Phases, PhaseEdges, Lifecycle!MaxHops
<1>1. CASE p = "open" BY <1>1
<1>2. CASE p = "define" BY <1>2
<1>3. CASE p = "approve" BY <1>3
<1>4. CASE p = "execute" BY <1>4
<1>5. CASE p = "verify" BY <1>5
<1>6. CASE p = "integrate" BY <1>6
<1>7. CASE p = "close" BY <1>7
<1>8. QED BY <1>1, <1>2, <1>3, <1>4, <1>5, <1>6, <1>7

LEMMA ExecutePaths == \A p \in DOMAIN HopsToExecute : Chain(p, HopsToExecute[p])
<1> SUFFICES ASSUME NEW p \in DOMAIN HopsToExecute PROVE Chain(p, HopsToExecute[p])
  OBVIOUS
<1> USE DEF Chain, HopsToExecute, Phases, PhaseEdges, Lifecycle!MaxHops
<1>1. CASE p = "open" BY <1>1
<1>2. CASE p = "define" BY <1>2
<1>3. CASE p = "approve" BY <1>3
<1>4. CASE p = "execute" BY <1>4
<1>5. QED BY <1>1, <1>2, <1>3, <1>4

\* A path of n legal edges is one of the pairs n edges apart.
LEMMA ChainApart ==
  ASSUME NEW p \in Phases, NEW hops, Chain(p, hops), hops # <<>>
  PROVE  <<p, hops[Len(hops)]>> \in Lifecycle!Apart[Len(hops)]
<1> USE DEF Chain, Lifecycle!Apart, Lifecycle!MaxHops
<1>1. \A pairs : \A q, r, t : <<q, r>> \in pairs /\ <<r, t>> \in PhaseEdges
          => <<q, t>> \in Lifecycle!Then(pairs)
  <2> SUFFICES ASSUME NEW pairs, NEW q, NEW r, NEW t, <<q, r>> \in pairs, <<r, t>> \in PhaseEdges
               PROVE  <<q, t>> \in Lifecycle!Then(pairs)
    OBVIOUS
  <2> DEFINE pair == <<<<q, r>>, <<r, t>>>>
  <2>1. pair \in {x \in pairs \X PhaseEdges : x[1][2] = x[2][1]}
    OBVIOUS
  <2>2. QED BY <2>1 DEF Lifecycle!Then
<1>2. /\ Lifecycle!Apart[1] = PhaseEdges
      /\ Lifecycle!Apart[2] = Lifecycle!Then(Lifecycle!Apart[1])
      /\ Lifecycle!Apart[3] = Lifecycle!Then(Lifecycle!Apart[2])
      /\ Lifecycle!Apart[4] = Lifecycle!Then(Lifecycle!Apart[3])
      /\ Lifecycle!Apart[5] = Lifecycle!Then(Lifecycle!Apart[4])
  OBVIOUS
<1> HIDE DEF Lifecycle!Apart
<1>3. \A i \in 1..4 : i + 1 <= Len(hops) => <<hops[i], hops[i + 1]>> \in PhaseEdges
  OBVIOUS
<1>4. <<p, hops[1]>> \in Lifecycle!Apart[1]
  BY <1>2
<1> HIDE DEF Chain
<1>5. ASSUME Len(hops) >= 2 PROVE <<p, hops[2]>> \in Lifecycle!Apart[2]
  <2>1. <<hops[1], hops[2]>> \in PhaseEdges
    BY <1>3, <1>5
  <2>2. QED BY <1>1, <1>2, <1>4, <2>1
<1>6. ASSUME Len(hops) >= 3 PROVE <<p, hops[3]>> \in Lifecycle!Apart[3]
  <2>1. <<hops[2], hops[3]>> \in PhaseEdges
    BY <1>3, <1>6
  <2>2. QED BY <1>1, <1>2, <1>5, <1>6, <2>1
<1>7. ASSUME Len(hops) >= 4 PROVE <<p, hops[4]>> \in Lifecycle!Apart[4]
  <2>1. <<hops[3], hops[4]>> \in PhaseEdges
    BY <1>3, <1>7
  <2>2. QED BY <1>1, <1>2, <1>6, <1>7, <2>1
<1>8. ASSUME Len(hops) >= 5 PROVE <<p, hops[5]>> \in Lifecycle!Apart[5]
  <2>1. <<hops[4], hops[5]>> \in PhaseEdges
    BY <1>3, <1>8
  <2>2. QED BY <1>1, <1>2, <1>7, <1>8, <2>1
<1>9. Len(hops) \in 1..5
  BY DEF Chain
<1>10. CASE Len(hops) = 1 BY <1>4, <1>10
<1>11. CASE Len(hops) = 2 BY <1>5, <1>11
<1>12. CASE Len(hops) = 3 BY <1>6, <1>12
<1>13. CASE Len(hops) = 4 BY <1>7, <1>13
<1>14. CASE Len(hops) = 5 BY <1>8, <1>14
<1>15. QED BY <1>9, <1>10, <1>11, <1>12, <1>13, <1>14

-----------------------------------------------------------------------------
(* The snapshot of a new command keeps the history of the one it follows. *)

\* Entries for the revisions after k's, each with a key of its own.
LEMMA KeptExtends ==
  ASSUME NEW k \in Kernels, Kept(k), NEW n \in Nat \ {0}, NEW E, NEW h,
         E \in [1..n -> Audits],
         \A i \in 1..n : E[i].rev = k.rev + i,
         \A i \in 1..n : \A e \in k.audit : e.key # E[i].key,
         \A i, j \in 1..n : E[i].key = E[j].key => i = j,
         \A i \in 1..n : E[i].key.op = "hop" => E[i].key.n = k.rev + i,
         LegalStep(k.phase, E[1].phase),
         \A i \in 1..n : i + 1 \in 1..n => LegalStep(E[i].phase, E[i + 1].phase),
         h.rev = k.rev + n, h.phase = E[n].phase,
         h.audit = k.audit \cup {E[i] : i \in 1..n}
  PROVE  Kept(h)
<1> DEFINE New == {E[i] : i \in 1..n}
<1>1. k.rev \in Nat /\ \A e \in k.audit : e \in Audits /\ e.rev \in 1..k.rev
  BY DEF Kernels, Audits, Kept
<1>2. \A e \in New : \E i \in 1..n : e = E[i]
  OBVIOUS
<1>3. {e.rev : e \in h.audit} = 1..h.rev
  <2>1. ASSUME NEW e \in h.audit PROVE e.rev \in 1..h.rev
    BY <1>1
  <2>2. ASSUME NEW r \in 1..h.rev PROVE \E e \in h.audit : e.rev = r
    <3>1. CASE r <= k.rev
      <4>1. r \in 1..k.rev
        BY <1>1, <2>2, <3>1
      <4>2. r \in {entry.rev : entry \in k.audit}
        BY <4>1 DEF Kept
      <4>3. PICK e \in k.audit : e.rev = r
        BY <4>2
      <4>4. QED BY <4>3
    <3>2. CASE r > k.rev
      <4> DEFINE i == r - k.rev
      <4>1. i \in 1..n /\ k.rev + i = r
        BY <1>1, <2>2, <3>2
      <4>2. E[i] \in h.audit /\ E[i].rev = r
        BY <4>1
      <4>3. QED BY <4>2
    <3>3. QED BY <1>1, <2>2, <3>1, <3>2
  <2>3. {e.rev : e \in h.audit} \subseteq 1..h.rev
    BY <2>1
  <2>4. 1..h.rev \subseteq {e.rev : e \in h.audit}
    BY <2>2
  <2>5. QED BY <2>3, <2>4
<1>4. \A e, f \in h.audit : e.key = f.key => e = f
  <2> SUFFICES ASSUME NEW e \in h.audit, NEW f \in h.audit, e.key = f.key PROVE e = f
    OBVIOUS
  <2>1. CASE e \in k.audit /\ f \in k.audit BY <2>1 DEF Kept
  <2>2. CASE e \in New \/ f \in New BY <1>2, <2>2
  <2>3. QED BY <2>1, <2>2
<1>5. \A e, f \in h.audit : e.rev = f.rev => e = f
  <2> SUFFICES ASSUME NEW e \in h.audit, NEW f \in h.audit, e.rev = f.rev PROVE e = f
    OBVIOUS
  <2>1. CASE e \in k.audit /\ f \in k.audit BY <2>1 DEF Kept
  <2>2. CASE e \in New /\ f \in New
    <3>1. PICK i \in 1..n : e = E[i] BY <1>2, <2>2
    <3>2. PICK j \in 1..n : f = E[j] BY <1>2, <2>2
    <3>3. i = j BY <1>1, <3>1, <3>2
    <3>4. QED BY <3>1, <3>2, <3>3
  <2>3. CASE e \in k.audit /\ f \in New BY <1>1, <1>2, <2>3
  <2>4. CASE f \in k.audit /\ e \in New BY <1>1, <1>2, <2>4
  <2>5. QED BY <2>1, <2>2, <2>3, <2>4
<1>6. \A e, f \in h.audit : f.rev = e.rev + 1 => LegalStep(e.phase, f.phase)
  <2> SUFFICES ASSUME NEW e \in h.audit, NEW f \in h.audit, f.rev = e.rev + 1
               PROVE  LegalStep(e.phase, f.phase)
    OBVIOUS
  <2>1. CASE e \in k.audit /\ f \in k.audit BY <2>1 DEF Kept
  <2>2. CASE e \in New /\ f \in New
    <3>1. PICK i \in 1..n : e = E[i] BY <1>2, <2>2
    <3>2. PICK j \in 1..n : f = E[j] BY <1>2, <2>2
    <3>3. j = i + 1 BY <1>1, <3>1, <3>2
    <3>4. QED BY <3>1, <3>2, <3>3
  <2>3. CASE e \in k.audit /\ f \in New
    <3>1. PICK j \in 1..n : f = E[j] BY <1>2, <2>3
    <3>2. e.rev = k.rev /\ j = 1 BY <1>1, <2>3, <3>1
    <3>3. e.phase = k.phase BY <2>3, <3>2 DEF Kept
    <3>4. QED BY <3>1, <3>2, <3>3
  <2>4. CASE f \in k.audit /\ e \in New BY <1>1, <1>2, <2>4
  <2>5. QED BY <2>1, <2>2, <2>3, <2>4
<1>7. \A e \in h.audit : e.rev = h.rev => e.phase = h.phase
  <2> SUFFICES ASSUME NEW e \in h.audit, e.rev = h.rev PROVE e.phase = h.phase
    OBVIOUS
  <2>1. e \in New BY <1>1
  <2>2. PICK i \in 1..n : e = E[i] BY <1>2, <2>1
  <2>3. i = n BY <1>1, <2>2
  <2>4. QED BY <2>2, <2>3
<1>8. \A e \in h.audit : e.key.op = "hop" => e.key.n = e.rev
  BY <1>1, <1>2 DEF Kept
<1>9. QED BY <1>3, <1>4, <1>5, <1>6, <1>7, <1>8 DEF Kept

\* What a command makes of the snapshot k it read: one entry, or one for every
\* phase on its way.
Snapshot(k, key, hops, projection) == [Hopped(k, key, hops) EXCEPT !.proj = projection]

LEMMA HoppedKept ==
  ASSUME NEW k \in Kernels, Kept(k),
         NEW key \in AuditKeys, key.op # "hop", \A e \in k.audit : e.key # key,
         NEW hops, Chain(k.phase, hops),
         NEW projection \in Projections \cup {NoProjection},
         NEW h, h = Snapshot(k, key, hops, projection)
  PROVE  /\ h \in Kernels /\ Kept(h)
         /\ h.proj = projection
         /\ k.audit \subseteq h.audit
         /\ h.rev - k.rev \in 1..Lifecycle!MaxHops
         /\ \/ h.phase = k.phase /\ h.rev = k.rev + 1
            \/ <<k.phase, h.phase>> \in Lifecycle!Apart[h.rev - k.rev]
<1> USE DEF Snapshot
<1>1. k.rev \in Nat /\ k.phase \in Phases /\ k.audit \subseteq Audits
  BY DEF Kernels
<1>2. \A e \in k.audit : e \in Audits /\ e.rev \in 1..k.rev
  BY <1>1 DEF Kept
<1>3. DOMAIN h = {"rev", "phase", "audit", "proj"}
  BY DEF Hopped, Kernels
<1>4. CASE hops = <<>>
  <2> DEFINE E == [i \in 1..1 |-> [key |-> key, phase |-> k.phase, rev |-> k.rev + 1]]
  <2>1. /\ h.rev = k.rev + 1 /\ h.phase = k.phase /\ h.proj = projection
        /\ h.audit = k.audit \cup {[key |-> key, phase |-> k.phase, rev |-> k.rev + 1]}
    BY <1>4 DEF Hopped, Kernels
  <2>2. E \in [1..1 -> Audits] /\ h.audit = k.audit \cup {E[i] : i \in 1..1}
    BY <1>1, <2>1 DEF Audits
  <2>3. Kept(h)
    <3>1. /\ \A i \in 1..1 : E[i].rev = k.rev + i
          /\ \A i \in 1..1 : \A e \in k.audit : e.key # E[i].key
          /\ \A i, j \in 1..1 : E[i].key = E[j].key => i = j
          /\ \A i \in 1..1 : E[i].key.op = "hop" => E[i].key.n = k.rev + i
          /\ LegalStep(k.phase, E[1].phase)
          /\ \A i \in 1..1 : i + 1 \in 1..1 => LegalStep(E[i].phase, E[i + 1].phase)
          /\ h.rev = k.rev + 1 /\ h.phase = E[1].phase
      BY <1>1, <2>1 DEF LegalStep
    <3> DEFINE n == 1
    <3>2. n \in Nat \ {0} /\ n = 1
      OBVIOUS
    <3> HIDE DEF E, n
    <3>3. QED BY <2>2, <3>1, <3>2, KeptExtends
  <2>4. h \in Kernels
    <3>1. h.audit \subseteq Audits
      BY <1>1, <2>2
    <3>2. h.rev \in Nat /\ h.phase \in Phases
      BY <1>1, <2>1
    <3>3. QED BY <2>1, <3>1, <3>2 DEF Kernels, Hopped
  <2>5. QED BY <1>1, <2>1, <2>3, <2>4 DEF Lifecycle!MaxHops
<1>5. CASE hops # <<>>
  <2> DEFINE n == Len(hops)
             E == [i \in 1..n |-> [key |-> IF i = n THEN key
                                            ELSE [op |-> "hop", arg |-> hops[i], n |-> k.rev + i],
                                   phase |-> hops[i], rev |-> k.rev + i]]
  <2>1. n \in 1..Lifecycle!MaxHops /\ DOMAIN hops = 1..n /\ \A i \in 1..n : hops[i] \in Phases
    BY <1>5 DEF Chain, Lifecycle!MaxHops
  <2>2. /\ h.rev = k.rev + n /\ h.phase = hops[n] /\ h.proj = projection
        /\ h.audit = k.audit \cup {E[i] : i \in 1..n}
    <3>1. /\ h.rev = k.rev + n /\ h.phase = hops[n] /\ h.proj = projection
          /\ h.audit = k.audit \cup
                {[key |-> IF i = n THEN key
                           ELSE [op |-> "hop", arg |-> hops[i], n |-> k.rev + i],
                  phase |-> hops[i], rev |-> k.rev + i] : i \in DOMAIN hops}
      BY <1>5 DEF Hopped, Kernels
    <3>2. QED BY <2>1, <3>1
  <2>3. E \in [1..n -> Audits]
    <3> SUFFICES ASSUME NEW i \in 1..n PROVE E[i] \in Audits
      OBVIOUS
    <3>1. k.rev + i \in Nat
      BY <1>1, <2>1 DEF Lifecycle!MaxHops
    <3>2. [op |-> "hop", arg |-> hops[i], n |-> k.rev + i] \in AuditKeys
      BY <2>1, <3>1 DEF AuditKeys
    <3>3. QED BY <2>1, <3>1, <3>2 DEF Audits
  <2>4. /\ n \in Nat \ {0}
        /\ \A i \in 1..n : E[i].rev = k.rev + i
        /\ \A i \in 1..n : E[i].key.op = "hop" => E[i].key.n = k.rev + i
    BY <1>1, <2>1 DEF Lifecycle!MaxHops
  <2>5. \A i \in 1..n : \A e \in k.audit : e.key # E[i].key
    <3> SUFFICES ASSUME NEW i \in 1..n, NEW e \in k.audit, e.key = E[i].key PROVE FALSE
      OBVIOUS
    <3>1. i # n /\ e.key.op = "hop" /\ e.key.n = k.rev + i
      OBVIOUS
    <3>2. e.rev = k.rev + i
      BY <3>1 DEF Kept
    <3>3. QED BY <1>1, <1>2, <2>1, <3>2 DEF Lifecycle!MaxHops
  <2>6. \A i, j \in 1..n : E[i].key = E[j].key => i = j
    <3> SUFFICES ASSUME NEW i \in 1..n, NEW j \in 1..n, E[i].key = E[j].key PROVE i = j
      OBVIOUS
    <3>1. (i = n) <=> (j = n)
      OBVIOUS
    <3>2. CASE i # n /\ j # n
      <4>1. k.rev + i = k.rev + j
        BY <3>2
      <4>2. QED BY <1>1, <2>1, <4>1 DEF Lifecycle!MaxHops
    <3>3. QED BY <3>1, <3>2
  <2>7. /\ LegalStep(k.phase, E[1].phase) /\ h.phase = E[n].phase
        /\ \A i \in 1..n : i + 1 \in 1..n => LegalStep(E[i].phase, E[i + 1].phase)
    BY <1>5, <2>1, <2>2 DEF LegalStep, Chain, Lifecycle!MaxHops
  <2>8. Kept(h)
    <3> HIDE DEF E, n
    <3>1. QED BY <2>2, <2>3, <2>4, <2>5, <2>6, <2>7, KeptExtends
  <2>9. h \in Kernels
    <3>1. h.audit \subseteq Audits
      BY <1>1, <2>2, <2>3
    <3>2. h.rev \in Nat /\ h.phase \in Phases
      BY <1>1, <2>1, <2>2 DEF Lifecycle!MaxHops
    <3>3. QED BY <2>2, <3>1, <3>2 DEF Kernels, Hopped
  <2>10. <<k.phase, h.phase>> \in Lifecycle!Apart[n]
    BY <1>1, <1>5, <2>2, ChainApart
  <2>11. h.rev - k.rev = n
    BY <1>1, <2>1, <2>2 DEF Lifecycle!MaxHops
  <2>12. QED BY <2>1, <2>2, <2>8, <2>9, <2>10, <2>11
<1>6. QED BY <1>4, <1>5

-----------------------------------------------------------------------------
(* What the commands plan. *)

\* The record of a legacy task, or the snapshot that is there.
LEMMA CurrentKept ==
  ASSUME TypeOK, AuditInv, Readable
  PROVE  /\ Current \in Kernels /\ Kept(Current)
         /\ kernel # NoKernel => Current = kernel
         /\ kernel = NoKernel => task \in Projections /\ Current.rev = 0 /\ Current.proj = NoProjection
<1>1. CASE kernel # NoKernel
  BY <1>1 DEF TypeOK, AuditInv, Recorded, Current
<1>2. CASE kernel = NoKernel
  <2>1. task \in Projections
    BY <1>2 DEF Readable, Parses
  <2>2. LegacyPhase[task.status] \in Phases
    BY <2>1 DEF Projections, Statuses, LegacyPhase, Phases
  <2>3. Current = [rev |-> 0, phase |-> LegacyPhase[task.status], audit |-> {}, proj |-> NoProjection]
    BY <1>2 DEF Current
  <2>4. Current \in Kernels
    BY <2>2, <2>3 DEF Kernels
  <2>5. Kept(Current)
    BY <2>3 DEF Kept
  <2>6. QED BY <1>2, <2>1, <2>3, <2>4, <2>5
<1>3. QED BY <1>1, <1>2

LEMMA KeyOfTyped ==
  ASSUME TypeOK, RequestInv, NEW c \in Clients, pc[c] # "idle", Op(c) # "repair",
         Op(c) = "start" => Current \in Kernels
  PROVE  KeyOf(c) \in AuditKeys /\ KeyOf(c).op # "hop"
<1>1. /\ Op(c) \in {"create", "start", "archive", "edit", "link", "unlink", "gate", "move"}
      /\ Arg(c) \in {""} \cup Items \cup Gates \cup Phases
  BY MovesAssumption DEF RequestInv, Requests, Commands, Op, Arg
<1>2. request[c].rev \in Nat /\ (Op(c) = "start" => Current.rev \in Nat)
  BY DEF RequestInv, Requests, Kernels
<1>3. KeyOf(c).n \in Nat
  BY <1>2 DEF KeyOf
<1>4. QED BY <1>1, <1>3 DEF KeyOf, AuditKeys

LEMMA PlanNextKept ==
  ASSUME TypeOK, RequestInv, AuditInv,
         NEW c \in Clients, pc[c] = "locked", Op(c) # "repair",
         NEW hops, NEW projection \in Projections \cup {NoProjection},
         Chain(Current.phase, hops), PlanNext(c, hops, projection)
  PROVE  /\ plan'[c] \in Kernels /\ Recorded(plan'[c])
         /\ plan'[c].proj = projection
         /\ Follows(plan'[c])
<1>1. /\ Current \in Kernels /\ Kept(Current)
      /\ kernel # NoKernel => Current = kernel
      /\ kernel = NoKernel => Current.rev = 0
  BY CurrentKept DEF PlanNext
<1>2. KeyOf(c) \in AuditKeys /\ KeyOf(c).op # "hop"
  BY <1>1, KeyOfTyped
<1>3. \A e \in Current.audit : e.key # KeyOf(c)
  BY DEF PlanNext, Prior
<1>4. plan'[c] = Snapshot(Current, KeyOf(c), hops, projection)
  BY DEF PlanNext, TypeOK, Snapshot
<1>5. /\ plan'[c] \in Kernels /\ Kept(plan'[c])
      /\ plan'[c].proj = projection
      /\ Current.audit \subseteq plan'[c].audit
      /\ plan'[c].rev - Current.rev \in 1..Lifecycle!MaxHops
      /\ \/ plan'[c].phase = Current.phase /\ plan'[c].rev = Current.rev + 1
         \/ <<Current.phase, plan'[c].phase>> \in Lifecycle!Apart[plan'[c].rev - Current.rev]
  BY <1>1, <1>2, <1>3, <1>4, HoppedKept
<1>6. plan'[c].rev \in Nat /\ Current.rev \in Nat /\ Recorded(plan'[c])
  BY <1>1, <1>5 DEF Kernels, Recorded, Lifecycle!MaxHops
<1>7. CASE kernel = NoKernel
  <2>1. plan'[c].rev \in 1..Lifecycle!MaxHops
    BY <1>1, <1>5, <1>6, <1>7
  <2>2. QED BY <1>5, <1>6, <1>7, <2>1 DEF Follows
<1>8. CASE kernel # NoKernel
  <2> DEFINE n == plan'[c].rev - Current.rev
  <2>1. n \in 1..Lifecycle!MaxHops /\ plan'[c].rev = kernel.rev + n
    BY <1>1, <1>5, <1>6, <1>8 DEF Lifecycle!MaxHops
  <2>2. QED BY <1>1, <1>5, <1>6, <1>8, <2>1 DEF Follows
<1>9. QED BY <1>5, <1>6, <1>7, <1>8

\* A new command plans a snapshot that keeps its history and follows the kernel;
\* only a bare transition leaves the record as it is.
LEMMA CommandPlans ==
  ASSUME TypeOK, RequestInv, AuditInv, NEW c \in Clients,
         Create(c) \/ Transition(c) \/ Start(c) \/ RecordGate(c) \/ Archive(c) \/ Patch(c)
  PROVE  /\ pc[c] = "locked"
         /\ plan' = [plan EXCEPT ![c] = plan'[c]] /\ Go(c, "planned")
         /\ UNCHANGED <<files, lock, request, reply, spent, history>>
         /\ plan'[c] \in Kernels /\ Recorded(plan'[c])
         /\ Follows(plan'[c])
         /\ Op(c) = "move" =>
               plan'[c].proj = IF kernel = NoKernel THEN NoProjection ELSE kernel.proj
         /\ Op(c) # "move" => plan'[c].proj \in Projections
<1> DEFINE Planned(hops, projection) ==
        /\ pc[c] = "locked" /\ Op(c) # "repair"
        /\ projection \in Projections \cup {NoProjection}
        /\ Chain(Current.phase, hops) /\ PlanNext(c, hops, projection)
        /\ Op(c) = "move" => projection = IF kernel = NoKernel THEN NoProjection ELSE kernel.proj
        /\ Op(c) # "move" => projection \in Projections
<1>1. ASSUME NEW hops, NEW projection, Planned(hops, projection)
      PROVE  /\ pc[c] = "locked"
             /\ plan' = [plan EXCEPT ![c] = plan'[c]] /\ Go(c, "planned")
             /\ UNCHANGED <<files, lock, request, reply, spent, history>>
             /\ plan'[c] \in Kernels /\ Recorded(plan'[c])
             /\ Follows(plan'[c])
             /\ Op(c) = "move" =>
                   plan'[c].proj = IF kernel = NoKernel THEN NoProjection ELSE kernel.proj
             /\ Op(c) # "move" => plan'[c].proj \in Projections
  <2>1. /\ plan'[c] \in Kernels /\ Recorded(plan'[c])
        /\ plan'[c].proj = projection /\ Follows(plan'[c])
    BY <1>1, PlanNextKept
  <2>2. plan' = [plan EXCEPT ![c] = plan'[c]]
    BY <1>1 DEF PlanNext, TypeOK
  <2>3. QED BY <1>1, <2>1, <2>2 DEF PlanNext
<1>2. ASSUME Readable
      PROVE  /\ Current.phase \in Phases
             /\ Chain(Current.phase, <<>>)
             /\ Current.proj \in Projections \cup {NoProjection}
             /\ Current.proj = IF kernel = NoKernel THEN NoProjection ELSE kernel.proj
  <2>1. Current \in Kernels /\ Current.proj = IF kernel = NoKernel THEN NoProjection ELSE kernel.proj
    BY <1>2, CurrentKept
  <2>2. QED BY <2>1 DEF Chain, Kernels, Lifecycle!MaxHops
<1>3. pc[c] = "locked" => (Op(c) \in SendsRecord => Sent(c) \in Projections)
  <2> SUFFICES ASSUME pc[c] = "locked" PROVE Op(c) \in SendsRecord => Sent(c) \in Projections
    OBVIOUS
  <2>1. pc[c] # "idle"
    OBVIOUS
  <2>2. QED BY <2>1 DEF RequestInv
<1>4. CASE Create(c)
  <2> DEFINE k == [rev |-> 1, phase |-> "define",
                   audit |-> {[key |-> KeyOf(c), phase |-> "define", rev |-> 1]},
                   proj |-> [status |-> "planning", links |-> {}]]
  <2>1. plan'[c] = k /\ plan' = [plan EXCEPT ![c] = plan'[c]] /\ pc[c] = "locked"
        /\ Op(c) = "create" /\ kernel = NoKernel
    BY <1>4 DEF Create, Creates, TypeOK
  <2>2. KeyOf(c) = [op |-> "create", arg |-> Arg(c), n |-> 0]
    BY <2>1 DEF KeyOf
  <2>3. KeyOf(c) \in AuditKeys
    BY <2>1, KeyOfTyped
  <2>4. k \in Kernels
    BY <2>3 DEF Kernels, Audits, Phases, Projections, Statuses
  <2>5. Recorded(k)
    <3>1. {entry.rev : entry \in k.audit} = 1..k.rev
      OBVIOUS
    <3>2. QED BY <2>2, <3>1 DEF Kept, Recorded
  <2>6. Follows(k)
    BY <2>1 DEF Follows, Lifecycle!MaxHops
  <2>7. k.proj \in Projections
    BY DEF Projections, Statuses
  <2> HIDE DEF k
  <2>8. QED BY <1>4, <2>1, <2>4, <2>5, <2>6, <2>7 DEF Create
<1>5. CASE Transition(c)
  <2>1. Readable /\ <<Current.phase, Arg(c)>> \in PhaseEdges /\ pc[c] = "locked" /\ Op(c) = "move"
    BY <1>5 DEF Transition, Serves, PlanNext, Admitted
  <2>2. Arg(c) \in Phases
    BY <2>1 DEF PhaseEdges, Phases
  <2>3. Chain(Current.phase, <<Arg(c)>>)
    BY <2>1, <2>2 DEF Chain, Lifecycle!MaxHops
  <2>4. Planned(<<Arg(c)>>, Current.proj)
    BY <1>2, <1>5, <2>1, <2>3 DEF Transition
  <2>5. QED BY <1>1, <2>4
<1>6. CASE Start(c)
  <2> DEFINE hops == HopsToExecute[Current.phase]
             projection == [Sent(c) EXCEPT !.status = "in_progress"]
  <2>1. /\ pc[c] = "locked" /\ Op(c) = "start" /\ PlanNext(c, hops, projection)
        /\ Readable /\ Current.phase \in DOMAIN HopsToExecute
    BY <1>6 DEF Start, Serves, PlanNext, Admitted
  <2>2. Sent(c) \in Projections
    BY <1>3, <2>1 DEF SendsRecord
  <2>3. projection \in Projections
    BY <2>2 DEF Projections, Statuses
  <2>4. Chain(Current.phase, hops)
    BY <2>1, ExecutePaths
  <2>5. Planned(hops, projection)
    BY <2>1, <2>3, <2>4
  <2>6. QED BY <1>1, <2>5
<1>7. CASE RecordGate(c)
  <2>1. /\ pc[c] = "locked" /\ Op(c) = "gate" /\ PlanNext(c, <<>>, BaseRecord)
        /\ Readable /\ BaseRecord \in Projections
    BY <1>7 DEF RecordGate, Serves, PlanNext, Admitted
  <2>2. Planned(<<>>, BaseRecord)
    BY <1>2, <2>1
  <2>3. QED BY <1>1, <2>2
<1>8. CASE Archive(c)
  <2> DEFINE hops == HopsToClose[Current.phase]
             projection == [Sent(c) EXCEPT !.status = "completed"]
  <2>1. /\ pc[c] = "locked" /\ Op(c) = "archive" /\ PlanNext(c, hops, projection) /\ Readable
    BY <1>8 DEF Archive, Serves, PlanNext
  <2>2. Sent(c) \in Projections
    BY <1>3, <2>1 DEF SendsRecord
  <2>3. projection \in Projections
    BY <2>2 DEF Projections, Statuses
  <2>4. Chain(Current.phase, hops)
    BY <1>2, <2>1, ClosePaths
  <2>5. Planned(hops, projection)
    BY <2>1, <2>3, <2>4
  <2>6. QED BY <1>1, <2>5
<1>9. CASE Patch(c)
  <2>1. PICK links \in SUBSET Items :
           LET projection == [Sent(c) EXCEPT !.links = links]
           IN  /\ pc[c] = "locked" /\ Op(c) \in {"link", "unlink", "edit"}
               /\ PlanNext(c, <<>>, projection) /\ projection \in Projections
    <3>1. /\ pc[c] = "locked" /\ Op(c) \in {"link", "unlink", "edit"}
      BY <1>9 DEF Patch, Serves
    <3>2. Sent(c) \in Projections /\ request[c].cmd \in Commands
      BY <1>3, <3>1 DEF SendsRecord, RequestInv, Requests
    <3>3. CASE Serves(c, "link") /\ PlanNext(c, <<>>, [Sent(c) EXCEPT !.links = @ \cup {Arg(c)}])
      <4>1. Arg(c) \in Items
        BY <3>2, <3>3 DEF Commands, Op, Arg, Serves
      <4>2. Sent(c).links \cup {Arg(c)} \in SUBSET Items
        BY <3>2, <4>1 DEF Projections
      <4>3. [Sent(c) EXCEPT !.links = Sent(c).links \cup {Arg(c)}] \in Projections
        BY <3>2, <4>2 DEF Projections
      <4>4. QED BY <3>1, <3>3, <4>2, <4>3
    <3>4. CASE Serves(c, "unlink") /\ PlanNext(c, <<>>, [Sent(c) EXCEPT !.links = @ \ {Arg(c)}])
      <4>2. Sent(c).links \ {Arg(c)} \in SUBSET Items
        BY <3>2 DEF Projections
      <4>3. [Sent(c) EXCEPT !.links = Sent(c).links \ {Arg(c)}] \in Projections
        BY <3>2, <4>2 DEF Projections
      <4>4. QED BY <3>1, <3>4, <4>2, <4>3
    <3>5. CASE Serves(c, "edit") /\ PlanNext(c, <<>>, Sent(c))
      <4>1. [Sent(c) EXCEPT !.links = Sent(c).links] = Sent(c) /\ Sent(c).links \in SUBSET Items
        BY <3>2 DEF Projections
      <4>2. QED BY <3>1, <3>2, <3>5, <4>1
    <3>6. QED BY <1>9, <3>3, <3>4, <3>5 DEF Patch
  <2> DEFINE projection == [Sent(c) EXCEPT !.links = links]
  <2>2. Planned(<<>>, projection)
    BY <1>2, <2>1 DEF PlanNext
  <2>3. QED BY <1>1, <2>2
<1>10. QED BY <1>4, <1>5, <1>6, <1>7, <1>8, <1>9

-----------------------------------------------------------------------------
(* Every step keeps the invariant. *)

\* Counting one more keeps the counts within their bounds.
SpentTypes == [commands : [Clients -> 0..MaxCommands], crashes : 0..MaxCrashes, failures : 0..MaxFailures]

LEMMA Counts ==
  ASSUME spent \in SpentTypes
  PROVE  /\ \A c \in Clients : spent.commands[c] < MaxCommands =>
                [spent EXCEPT !.commands[c] = @ + 1] \in SpentTypes
         /\ spent.crashes < MaxCrashes => [spent EXCEPT !.crashes = @ + 1] \in SpentTypes
         /\ spent.failures < MaxFailures => [spent EXCEPT !.failures = @ + 1] \in SpentTypes
<1>1. ASSUME NEW c \in Clients, spent.commands[c] < MaxCommands
      PROVE  [spent EXCEPT !.commands[c] = @ + 1] \in SpentTypes
  <2>1. spent.commands[c] + 1 \in 0..MaxCommands
    BY <1>1, BoundsAssumption DEF SpentTypes
  <2>2. [spent.commands EXCEPT ![c] = @ + 1] \in [Clients -> 0..MaxCommands]
    BY <2>1 DEF SpentTypes
  <2>3. QED BY <2>2 DEF SpentTypes
<1>2. ASSUME spent.crashes < MaxCrashes PROVE spent.crashes + 1 \in 0..MaxCrashes
  BY <1>2, BoundsAssumption DEF SpentTypes
<1>3. ASSUME spent.failures < MaxFailures PROVE spent.failures + 1 \in 0..MaxFailures
  BY <1>3, BoundsAssumption DEF SpentTypes
<1>4. QED BY <1>1, <1>2, <1>3 DEF SpentTypes

\* Types; a plan is a snapshot as soon as there is one.
LEMMA TypeNext ==
  ASSUME TypeOK, RequestInv, AuditInv, RecordInv, [Next]_vars
  PROVE  TypeOK'
<1> USE DEF TypeOK, Steps, Replies, Go, Answer, files, history
<1>1. ASSUME NEW c \in Clients, Load(c) PROVE TypeOK'
  <2>1. PICK cmd \in Commands :
           /\ spent.commands[c] < MaxCommands
           /\ cmd.op \in SendsRecord => Parses
           /\ spent' = [spent EXCEPT !.commands[c] = @ + 1]
           /\ request' = [request EXCEPT ![c] =
                   [cmd |-> cmd, record |-> IF cmd.op \in SendsRecord THEN task ELSE None,
                    rev |-> 0, seen |-> None]]
           /\ Go(c, IF cmd.op = "create" THEN "ready" ELSE "loaded")
           /\ UNCHANGED <<files, lock, plan, reply, history>>
    BY <1>1 DEF Load
  <2>2. spent' \in SpentTypes
    BY <2>1, Counts DEF SpentTypes
  <2>3. [cmd |-> cmd, record |-> IF cmd.op \in SendsRecord THEN task ELSE None,
         rev |-> 0, seen |-> None] \in Requests
    BY <2>1 DEF Requests, Parses
  <2>4. QED BY <2>1, <2>2, <2>3 DEF SpentTypes
<1>2. ASSUME NEW c \in Clients, ReadRevision(c) PROVE TypeOK'
  <2>1. request[c] \in Requests
    BY <1>2 DEF ReadRevision, RequestInv
  <2>2. Current.rev \in Nat
    BY <1>2, CurrentKept DEF ReadRevision, Readable, Kernels
  <2>3. [request[c] EXCEPT !.rev = Current.rev] \in Requests
    BY <2>1, <2>2 DEF Requests
  <2>4. QED BY <1>2, <2>3 DEF ReadRevision
<1>3. ASSUME NEW c \in Clients, Inspect(c) PROVE TypeOK'
  <2>1. request[c] \in Requests
    BY <1>3 DEF Inspect, RequestInv
  <2>2. kernel.rev \in Nat
    BY <1>3 DEF Inspect, HasProjection, Kernels
  <2>3. [request[c] EXCEPT !.rev = kernel.rev, !.seen = task] \in Requests
    BY <2>1, <2>2 DEF Requests
  <2>4. request' = [request EXCEPT ![c] = [request[c] EXCEPT !.rev = kernel.rev, !.seen = task]]
    BY <1>3 DEF Inspect
  <2>5. QED BY <1>3, <2>3, <2>4 DEF Inspect
<1>4. ASSUME NEW c \in Clients, ReadFails(c) PROVE TypeOK'
  BY <1>4 DEF ReadFails
<1>5. ASSUME NEW c \in Clients, AcquireLock(c) PROVE TypeOK'
  BY <1>5 DEF AcquireLock
<1>6. ASSUME NEW c \in Clients, DieUnstamped(c) PROVE TypeOK'
  <2>1. spent' \in SpentTypes
    BY <1>6, Counts DEF DieUnstamped, SpentTypes
  <2>2. QED BY <1>6, <2>1 DEF DieUnstamped, SpentTypes
<1>7. ASSUME NEW c \in Clients, FindStale(c) PROVE TypeOK'
  BY <1>7 DEF FindStale
<1>8. ASSUME NEW c \in Clients, StealLock(c) PROVE TypeOK'
  BY <1>8 DEF StealLock
<1>9. ASSUME NEW c \in Clients, GiveUp(c) PROVE TypeOK'
  BY <1>9 DEF GiveUp
<1>10. ASSUME NEW c \in Clients, Replay(c) PROVE TypeOK'
  BY <1>10 DEF Replay
<1>11. ASSUME NEW c \in Clients, Reproject(c) PROVE TypeOK'
  <2>1. kernel \in Kernels
    BY <1>11, MarksAssumption DEF Reproject, Readable, Parses
  <2>2. QED BY <1>11, <2>1 DEF Reproject
<1>12. ASSUME NEW c \in Clients, Refuse(c) PROVE TypeOK'
  BY <1>12 DEF Refuse
<1>13. ASSUME NEW c \in Clients,
             Create(c) \/ Transition(c) \/ Start(c) \/ RecordGate(c) \/ Archive(c) \/ Patch(c)
      PROVE  TypeOK'
  BY <1>13, CommandPlans
<1>14. ASSUME NEW c \in Clients, Persist(c) PROVE TypeOK'
  <2>1. plan[c] \in Kernels
    BY <1>14 DEF Persist, AuditInv, HasPlan
  <2>2. QED BY <1>14, <2>1 DEF Persist
<1>15. ASSUME NEW c \in Clients, ProjectionFails(c) PROVE TypeOK'
  <2>1. spent' \in SpentTypes
    BY <1>15, Counts DEF ProjectionFails, SpentTypes
  <2>2. QED BY <1>15, <2>1 DEF ProjectionFails, SpentTypes
<1>16. ASSUME NEW c \in Clients, Truncate(c) PROVE TypeOK'
  BY <1>16 DEF Truncate
<1>17. ASSUME NEW c \in Clients, WriteTask(c) PROVE TypeOK'
  <2>1. plan[c].proj \in Projections
    BY <1>17 DEF WriteTask, RecordInv
  <2>2. QED BY <1>17, <2>1 DEF WriteTask
<1>18. ASSUME NEW c \in Clients, StageRepair(c) PROVE TypeOK'
  <2>1. kernel \in Kernels
    BY <1>18 DEF StageRepair, HasProjection
  <2>2. QED BY <1>18, <2>1 DEF StageRepair
<1>19. ASSUME NEW c \in Clients, RecheckRepair(c) PROVE TypeOK'
  BY <1>19 DEF RecheckRepair
<1>20. ASSUME NEW c \in Clients, InstallRepair(c) PROVE TypeOK'
  <2>1. plan[c].proj \in Projections
    BY <1>20 DEF InstallRepair, RecordInv
  <2>2. QED BY <1>20, <2>1 DEF InstallRepair
<1>21. ASSUME NEW c \in Clients, Release(c) PROVE TypeOK'
  <2>1. lock' \in [by : Clients, holder : {"alive", "dead", "unstamped"}] \cup {Free}
    BY <1>21 DEF Release
  <2>2. acked' \subseteq AuditKeys
    <3>1. CASE reply[c] = "committed"
      <4>1. plan[c] \in Kernels
        BY <1>21, <3>1 DEF Release, AuditInv, HasPlan
      <4>2. \A e \in plan[c].audit : e.key \in AuditKeys
        BY <4>1 DEF Kernels, Audits
      <4>3. QED BY <1>21, <4>2 DEF Release
    <3>2. CASE reply[c] # "committed" BY <1>21, <3>2 DEF Release
    <3>3. QED BY <3>1, <3>2
  <2>3. QED BY <1>21, <2>1, <2>2 DEF Release
<1>22. ASSUME NEW c \in Clients, Die(c) PROVE TypeOK'
  <2>1. lock' \in [by : Clients, holder : {"alive", "dead", "unstamped"}] \cup {Free}
    BY <1>22 DEF Die, Holds
  <2>2. spent' \in SpentTypes
    BY <1>22, Counts DEF Die, SpentTypes
  <2>3. QED BY <1>22, <2>1, <2>2 DEF Die, SpentTypes
<1>23. CASE UNCHANGED vars BY <1>23 DEF vars, clientVars
<1>24. QED
  BY <1>1, <1>2, <1>3, <1>4, <1>5, <1>6, <1>7, <1>8, <1>9, <1>10, <1>11, <1>12, <1>13,
     <1>14, <1>15, <1>16, <1>17, <1>18, <1>19, <1>20, <1>21, <1>22, <1>23 DEF Next

\* A request stays typed, and keeps the record it sends, until its client is idle again.
LEMMA RequestNext ==
  ASSUME TypeOK, RequestInv, AuditInv, [Next]_vars
  PROVE  RequestInv'
<1> USE DEF TypeOK, RequestInv, Requests, Op, Sent, Go, Answer, files, history
<1>1. ASSUME NEW c \in Clients, Load(c) PROVE RequestInv'
  BY <1>1 DEF Load , Parses
<1>2. ASSUME NEW c \in Clients, ReadRevision(c) PROVE RequestInv'
  <2>1. Current.rev \in Nat
    BY <1>2, CurrentKept DEF ReadRevision, Readable, Kernels
  <2>2. QED BY <1>2, <2>1 DEF ReadRevision
<1>3. ASSUME NEW c \in Clients, Inspect(c) PROVE RequestInv'
  <2>1. kernel.rev \in Nat
    BY <1>3 DEF Inspect, HasProjection, Kernels
  <2>2. QED BY <1>3, <2>1 DEF Inspect
<1>4. ASSUME NEW c \in Clients, ReadFails(c) PROVE RequestInv'
  BY <1>4 DEF ReadFails
<1>5. ASSUME NEW c \in Clients, AcquireLock(c) PROVE RequestInv'
  BY <1>5 DEF AcquireLock
<1>6. ASSUME NEW c \in Clients, DieUnstamped(c) PROVE RequestInv'
  BY <1>6 DEF DieUnstamped
<1>7. ASSUME NEW c \in Clients, FindStale(c) PROVE RequestInv'
  BY <1>7 DEF FindStale
<1>8. ASSUME NEW c \in Clients, StealLock(c) PROVE RequestInv'
  BY <1>8 DEF StealLock
<1>9. ASSUME NEW c \in Clients, GiveUp(c) PROVE RequestInv'
  BY <1>9 DEF GiveUp
<1>10. ASSUME NEW c \in Clients, Replay(c) PROVE RequestInv'
  BY <1>10 DEF Replay
<1>11. ASSUME NEW c \in Clients, Reproject(c) PROVE RequestInv'
  BY <1>11 DEF Reproject
<1>12. ASSUME NEW c \in Clients, Refuse(c) PROVE RequestInv'
  BY <1>12 DEF Refuse
<1>13. ASSUME NEW c \in Clients,
             Create(c) \/ Transition(c) \/ Start(c) \/ RecordGate(c) \/ Archive(c) \/ Patch(c)
      PROVE  RequestInv'
  BY <1>13, CommandPlans
<1>14. ASSUME NEW c \in Clients, Persist(c) PROVE RequestInv'
  BY <1>14 DEF Persist
<1>15. ASSUME NEW c \in Clients, ProjectionFails(c) PROVE RequestInv'
  BY <1>15 DEF ProjectionFails
<1>16. ASSUME NEW c \in Clients, Truncate(c) PROVE RequestInv'
  BY <1>16 DEF Truncate
<1>17. ASSUME NEW c \in Clients, WriteTask(c) PROVE RequestInv'
  BY <1>17 DEF WriteTask
<1>18. ASSUME NEW c \in Clients, StageRepair(c) PROVE RequestInv'
  BY <1>18 DEF StageRepair
<1>19. ASSUME NEW c \in Clients, RecheckRepair(c) PROVE RequestInv'
  BY <1>19 DEF RecheckRepair
<1>20. ASSUME NEW c \in Clients, InstallRepair(c) PROVE RequestInv'
  BY <1>20 DEF InstallRepair
<1>21. ASSUME NEW c \in Clients, Release(c) PROVE RequestInv'
  BY <1>21 DEF Release
<1>22. ASSUME NEW c \in Clients, Die(c) PROVE RequestInv'
  BY <1>22 DEF Die
<1>23. CASE UNCHANGED vars BY <1>23 DEF vars, clientVars
<1>24. QED
  BY <1>1, <1>2, <1>3, <1>4, <1>5, <1>6, <1>7, <1>8, <1>9, <1>10, <1>11, <1>12, <1>13,
     <1>14, <1>15, <1>16, <1>17, <1>18, <1>19, <1>20, <1>21, <1>22, <1>23 DEF Next

\* Every snapshot that is or will be the kernel keeps its history.
LEMMA AuditNext ==
  ASSUME TypeOK, RequestInv, AuditInv, [Next]_vars
  PROVE  AuditInv'
<1> USE DEF TypeOK, AuditInv, HasPlan, Go, Answer, files, history
<1>1. ASSUME NEW c \in Clients, Load(c) PROVE AuditInv'
  BY <1>1 DEF Load
<1>2. ASSUME NEW c \in Clients, ReadRevision(c) PROVE AuditInv'
  BY <1>2 DEF ReadRevision
<1>3. ASSUME NEW c \in Clients, Inspect(c) PROVE AuditInv'
  BY <1>3 DEF Inspect
<1>4. ASSUME NEW c \in Clients, ReadFails(c) PROVE AuditInv'
  BY <1>4 DEF ReadFails
<1>5. ASSUME NEW c \in Clients, AcquireLock(c) PROVE AuditInv'
  BY <1>5 DEF AcquireLock
<1>6. ASSUME NEW c \in Clients, DieUnstamped(c) PROVE AuditInv'
  BY <1>6 DEF DieUnstamped
<1>7. ASSUME NEW c \in Clients, FindStale(c) PROVE AuditInv'
  BY <1>7 DEF FindStale
<1>8. ASSUME NEW c \in Clients, StealLock(c) PROVE AuditInv'
  BY <1>8 DEF StealLock
<1>9. ASSUME NEW c \in Clients, GiveUp(c) PROVE AuditInv'
  BY <1>9 DEF GiveUp
<1>10. ASSUME NEW c \in Clients, Replay(c) PROVE AuditInv'
  BY <1>10 DEF Replay
<1>11. ASSUME NEW c \in Clients, Reproject(c) PROVE AuditInv'
  <2>1. kernel # NoKernel /\ kernel \in Kernels /\ Recorded(kernel)
    BY <1>11, MarksAssumption DEF Reproject, Readable, Parses
  <2>2. QED BY <1>11, <2>1 DEF Reproject
<1>12. ASSUME NEW c \in Clients, Refuse(c) PROVE AuditInv'
  BY <1>12 DEF Refuse
<1>13. ASSUME NEW c \in Clients,
             Create(c) \/ Transition(c) \/ Start(c) \/ RecordGate(c) \/ Archive(c) \/ Patch(c)
      PROVE  AuditInv'
  BY <1>13, CommandPlans
<1>14. ASSUME NEW c \in Clients, Persist(c) PROVE AuditInv'
  <2>1. plan[c] \in Kernels /\ Recorded(plan[c])
    BY <1>14 DEF Persist
  <2>2. QED BY <1>14, <2>1 DEF Persist
<1>15. ASSUME NEW c \in Clients, ProjectionFails(c) PROVE AuditInv'
  BY <1>15 DEF ProjectionFails
<1>16. ASSUME NEW c \in Clients, Truncate(c) PROVE AuditInv'
  BY <1>16 DEF Truncate
<1>17. ASSUME NEW c \in Clients, WriteTask(c) PROVE AuditInv'
  BY <1>17 DEF WriteTask
<1>18. ASSUME NEW c \in Clients, StageRepair(c) PROVE AuditInv'
  <2>1. kernel \in Kernels /\ Recorded(kernel)
    BY <1>18 DEF StageRepair, HasProjection
  <2>2. QED BY <1>18, <2>1 DEF StageRepair
<1>19. ASSUME NEW c \in Clients, RecheckRepair(c) PROVE AuditInv'
  BY <1>19 DEF RecheckRepair
<1>20. ASSUME NEW c \in Clients, InstallRepair(c) PROVE AuditInv'
  BY <1>20 DEF InstallRepair
<1>21. ASSUME NEW c \in Clients, Release(c) PROVE AuditInv'
  BY <1>21 DEF Release
<1>22. ASSUME NEW c \in Clients, Die(c) PROVE AuditInv'
  BY <1>22 DEF Die
<1>23. CASE UNCHANGED vars BY <1>23 DEF vars, clientVars
<1>24. QED
  BY <1>1, <1>2, <1>3, <1>4, <1>5, <1>6, <1>7, <1>8, <1>9, <1>10, <1>11, <1>12, <1>13,
     <1>14, <1>15, <1>16, <1>17, <1>18, <1>19, <1>20, <1>21, <1>22, <1>23 DEF Next

\* What will be written to task.json is a record.
LEMMA RecordNext ==
  ASSUME TypeOK, RequestInv, AuditInv, RecordInv, [Next]_vars
  PROVE  RecordInv'
<1> USE DEF TypeOK, RecordInv, Op, Go, Answer, files, history
<1>1. ASSUME NEW c \in Clients, Load(c) PROVE RecordInv'
  BY <1>1 DEF Load
<1>2. ASSUME NEW c \in Clients, ReadRevision(c) PROVE RecordInv'
  BY <1>2 DEF ReadRevision
<1>3. ASSUME NEW c \in Clients, Inspect(c) PROVE RecordInv'
  BY <1>3 DEF Inspect
<1>4. ASSUME NEW c \in Clients, ReadFails(c) PROVE RecordInv'
  BY <1>4 DEF ReadFails
<1>5. ASSUME NEW c \in Clients, AcquireLock(c) PROVE RecordInv'
  BY <1>5 DEF AcquireLock
<1>6. ASSUME NEW c \in Clients, DieUnstamped(c) PROVE RecordInv'
  BY <1>6 DEF DieUnstamped
<1>7. ASSUME NEW c \in Clients, FindStale(c) PROVE RecordInv'
  BY <1>7 DEF FindStale
<1>8. ASSUME NEW c \in Clients, StealLock(c) PROVE RecordInv'
  BY <1>8 DEF StealLock
<1>9. ASSUME NEW c \in Clients, GiveUp(c) PROVE RecordInv'
  BY <1>9 DEF GiveUp
<1>10. ASSUME NEW c \in Clients, Replay(c) PROVE RecordInv'
  BY <1>10 DEF Replay
<1>11. ASSUME NEW c \in Clients, Reproject(c) PROVE RecordInv'
  <2>1. kernel \in Kernels /\ kernel.proj \in Projections
    BY <1>11, MarksAssumption DEF Reproject, Readable, Parses, Kernels
  <2>2. QED BY <1>11, <2>1 DEF Reproject
<1>12. ASSUME NEW c \in Clients, Refuse(c) PROVE RecordInv'
  BY <1>12 DEF Refuse
<1>13. ASSUME NEW c \in Clients,
             Create(c) \/ Transition(c) \/ Start(c) \/ RecordGate(c) \/ Archive(c) \/ Patch(c)
      PROVE  RecordInv'
  BY <1>13, CommandPlans
<1>14. ASSUME NEW c \in Clients, Persist(c) PROVE RecordInv'
  <2>1. Op(c) # "move" => plan[c].proj \in Projections
    BY <1>14 DEF Persist
  <2>2. QED BY <1>14, <2>1 DEF Persist
<1>15. ASSUME NEW c \in Clients, ProjectionFails(c) PROVE RecordInv'
  BY <1>15 DEF ProjectionFails
<1>16. ASSUME NEW c \in Clients, Truncate(c) PROVE RecordInv'
  BY <1>16 DEF Truncate
<1>17. ASSUME NEW c \in Clients, WriteTask(c) PROVE RecordInv'
  BY <1>17 DEF WriteTask
<1>18. ASSUME NEW c \in Clients, StageRepair(c) PROVE RecordInv'
  <2>1. kernel.proj \in Projections
    BY <1>18 DEF StageRepair, HasProjection, Kernels
  <2>2. QED BY <1>18, <2>1 DEF StageRepair
<1>19. ASSUME NEW c \in Clients, RecheckRepair(c) PROVE RecordInv'
  BY <1>19 DEF RecheckRepair
<1>20. ASSUME NEW c \in Clients, InstallRepair(c) PROVE RecordInv'
  BY <1>20 DEF InstallRepair
<1>21. ASSUME NEW c \in Clients, Release(c) PROVE RecordInv'
  BY <1>21 DEF Release
<1>22. ASSUME NEW c \in Clients, Die(c) PROVE RecordInv'
  BY <1>22 DEF Die
<1>23. CASE UNCHANGED vars BY <1>23 DEF vars, clientVars
<1>24. QED
  BY <1>1, <1>2, <1>3, <1>4, <1>5, <1>6, <1>7, <1>8, <1>9, <1>10, <1>11, <1>12, <1>13,
     <1>14, <1>15, <1>16, <1>17, <1>18, <1>19, <1>20, <1>21, <1>22, <1>23 DEF Next

-----------------------------------------------------------------------------
(* The lock, and what it guards. *)

LEMMA Alone ==
  ASSUME LockInv, NEW c \in Clients, NEW d \in Clients, Inside(c), Inside(d)
  PROVE  c = d
<1>1. [by |-> c, holder |-> "alive"] = [by |-> d, holder |-> "alive"]
  BY DEF LockInv
<1>2. QED BY <1>1

\* Until a live lock is stolen, whoever is inside is alone.
LEMMA LockNext ==
  ASSUME TypeOK, RequestInv, AuditInv, LockInv, ~raced', [Next]_vars
  PROVE  LockInv'
<1> USE DEF TypeOK, LockInv, Inside, Go, Answer, files, history
<1>1. ASSUME NEW c \in Clients, Load(c) PROVE LockInv'
  BY <1>1 DEF Load
<1>2. ASSUME NEW c \in Clients, ReadRevision(c) PROVE LockInv'
  BY <1>2 DEF ReadRevision
<1>3. ASSUME NEW c \in Clients, Inspect(c) PROVE LockInv'
  BY <1>3 DEF Inspect
<1>4. ASSUME NEW c \in Clients, ReadFails(c) PROVE LockInv'
  BY <1>4 DEF ReadFails
<1>5. ASSUME NEW c \in Clients, AcquireLock(c) PROVE LockInv'
  <2>1. \A d \in Clients : ~Inside(d)
    BY <1>5, MarksAssumption DEF AcquireLock
  <2>2. QED BY <1>5, <2>1 DEF AcquireLock
<1>6. ASSUME NEW c \in Clients, DieUnstamped(c) PROVE LockInv'
  <2>1. \A d \in Clients : ~Inside(d)
    BY <1>6, MarksAssumption DEF DieUnstamped
  <2>2. QED BY <1>6, <2>1 DEF DieUnstamped
<1>7. ASSUME NEW c \in Clients, FindStale(c) PROVE LockInv'
  BY <1>7 DEF FindStale
<1>8. ASSUME NEW c \in Clients, StealLock(c) PROVE LockInv'
  <2>1. lock = Free \/ lock.holder # "alive"
    BY <1>8 DEF StealLock
  <2>2. \A d \in Clients : ~Inside(d)
    BY <2>1, MarksAssumption
  <2>3. QED BY <1>8, <2>2 DEF StealLock
<1>9. ASSUME NEW c \in Clients, GiveUp(c) PROVE LockInv'
  BY <1>9 DEF GiveUp
<1>10. ASSUME NEW c \in Clients, Replay(c) PROVE LockInv'
  BY <1>10 DEF Replay
<1>11. ASSUME NEW c \in Clients, Reproject(c) PROVE LockInv'
  BY <1>11 DEF Reproject
<1>12. ASSUME NEW c \in Clients, Refuse(c) PROVE LockInv'
  BY <1>12 DEF Refuse
<1>13. ASSUME NEW c \in Clients,
             Create(c) \/ Transition(c) \/ Start(c) \/ RecordGate(c) \/ Archive(c) \/ Patch(c)
      PROVE  LockInv'
  BY <1>13, CommandPlans
<1>14. ASSUME NEW c \in Clients, Persist(c) PROVE LockInv'
  BY <1>14 DEF Persist
<1>15. ASSUME NEW c \in Clients, ProjectionFails(c) PROVE LockInv'
  BY <1>15 DEF ProjectionFails
<1>16. ASSUME NEW c \in Clients, Truncate(c) PROVE LockInv'
  BY <1>16 DEF Truncate
<1>17. ASSUME NEW c \in Clients, WriteTask(c) PROVE LockInv'
  BY <1>17 DEF WriteTask
<1>18. ASSUME NEW c \in Clients, StageRepair(c) PROVE LockInv'
  BY <1>18 DEF StageRepair
<1>19. ASSUME NEW c \in Clients, RecheckRepair(c) PROVE LockInv'
  BY <1>19 DEF RecheckRepair
<1>20. ASSUME NEW c \in Clients, InstallRepair(c) PROVE LockInv'
  BY <1>20 DEF InstallRepair
<1>21. ASSUME NEW c \in Clients, Release(c) PROVE LockInv'
  <2>1. \A d \in Clients : d # c => ~Inside(d)
    BY <1>21, Alone DEF Release
  <2>2. QED BY <1>21, <2>1 DEF Release
<1>22. ASSUME NEW c \in Clients, Die(c) PROVE LockInv'
  <2>1. \A d \in Clients : Inside(d)' => d # c /\ Inside(d)
    BY <1>22 DEF Die
  <2>2. \A d \in Clients : d # c /\ Inside(d) => ~Holds(c)
    BY <1>22 DEF Die, Holds
  <2>3. QED BY <1>22, <2>1, <2>2 DEF Die
<1>23. CASE UNCHANGED vars BY <1>23 DEF vars, clientVars
<1>24. QED
  BY <1>1, <1>2, <1>3, <1>4, <1>5, <1>6, <1>7, <1>8, <1>9, <1>10, <1>11, <1>12, <1>13,
     <1>14, <1>15, <1>16, <1>17, <1>18, <1>19, <1>20, <1>21, <1>22, <1>23 DEF Next

\* What a client plans follows the kernel until it is written: nobody else writes.
LEMMA PlannedNext ==
  ASSUME TypeOK, RequestInv, AuditInv, RecordInv, Guarded, ~raced', [Next]_vars
  PROVE  PlannedInv'
<1> USE DEF TypeOK, Guarded, PlannedInv, Follows, Op, Go, Answer, files, history
<1>1. ASSUME NEW c \in Clients, Load(c) PROVE PlannedInv'
  BY <1>1 DEF Load
<1>2. ASSUME NEW c \in Clients, ReadRevision(c) PROVE PlannedInv'
  BY <1>2 DEF ReadRevision
<1>3. ASSUME NEW c \in Clients, Inspect(c) PROVE PlannedInv'
  BY <1>3 DEF Inspect
<1>4. ASSUME NEW c \in Clients, ReadFails(c) PROVE PlannedInv'
  BY <1>4 DEF ReadFails
<1>5. ASSUME NEW c \in Clients, AcquireLock(c) PROVE PlannedInv'
  BY <1>5 DEF AcquireLock
<1>6. ASSUME NEW c \in Clients, DieUnstamped(c) PROVE PlannedInv'
  BY <1>6 DEF DieUnstamped
<1>7. ASSUME NEW c \in Clients, FindStale(c) PROVE PlannedInv'
  BY <1>7 DEF FindStale
<1>8. ASSUME NEW c \in Clients, StealLock(c) PROVE PlannedInv'
  BY <1>8 DEF StealLock
<1>9. ASSUME NEW c \in Clients, GiveUp(c) PROVE PlannedInv'
  BY <1>9 DEF GiveUp
<1>10. ASSUME NEW c \in Clients, Replay(c) PROVE PlannedInv'
  BY <1>10 DEF Replay
<1>11. ASSUME NEW c \in Clients, Reproject(c) PROVE PlannedInv'
  <2>1. Op(c) # "move" /\ plan'[c] = kernel
    BY <1>11 DEF Reproject
  <2>2. QED BY <1>11, <2>1 DEF Reproject
<1>12. ASSUME NEW c \in Clients, Refuse(c) PROVE PlannedInv'
  BY <1>12 DEF Refuse
<1>13. ASSUME NEW c \in Clients,
             Create(c) \/ Transition(c) \/ Start(c) \/ RecordGate(c) \/ Archive(c) \/ Patch(c)
      PROVE  PlannedInv'
  <2>1. /\ plan' = [plan EXCEPT ![c] = plan'[c]] /\ Go(c, "planned")
        /\ UNCHANGED <<files, lock, request, reply, spent, history>>
        /\ Follows(plan'[c])
        /\ Op(c) = "move" =>
              plan'[c].proj = IF kernel = NoKernel THEN NoProjection ELSE kernel.proj
    BY <1>13, CommandPlans
  <2>2. \A d \in Clients : d # c => plan'[d] = plan[d] /\ pc'[d] = pc[d]
    BY <2>1
  <2>3. QED BY <2>1, <2>2
<1>14. ASSUME NEW c \in Clients, Persist(c) PROVE PlannedInv'
  <2>1. \A d \in Clients : d # c => ~Inside(d)
    BY <1>14, Alone DEF Persist, Inside, Guarded
  <2>2. QED BY <1>14, <2>1 DEF Persist, Inside
<1>15. ASSUME NEW c \in Clients, ProjectionFails(c) PROVE PlannedInv'
  BY <1>15 DEF ProjectionFails
<1>16. ASSUME NEW c \in Clients, Truncate(c) PROVE PlannedInv'
  BY <1>16 DEF Truncate
<1>17. ASSUME NEW c \in Clients, WriteTask(c) PROVE PlannedInv'
  BY <1>17 DEF WriteTask
<1>18. ASSUME NEW c \in Clients, StageRepair(c) PROVE PlannedInv'
  BY <1>18 DEF StageRepair
<1>19. ASSUME NEW c \in Clients, RecheckRepair(c) PROVE PlannedInv'
  BY <1>19 DEF RecheckRepair
<1>20. ASSUME NEW c \in Clients, InstallRepair(c) PROVE PlannedInv'
  BY <1>20 DEF InstallRepair
<1>21. ASSUME NEW c \in Clients, Release(c) PROVE PlannedInv'
  BY <1>21 DEF Release
<1>22. ASSUME NEW c \in Clients, Die(c) PROVE PlannedInv'
  BY <1>22 DEF Die
<1>23. CASE UNCHANGED vars BY <1>23 DEF vars, clientVars
<1>24. QED
  BY <1>1, <1>2, <1>3, <1>4, <1>5, <1>6, <1>7, <1>8, <1>9, <1>10, <1>11, <1>12, <1>13,
     <1>14, <1>15, <1>16, <1>17, <1>18, <1>19, <1>20, <1>21, <1>22, <1>23 DEF Next

\* What a client has written stays the kernel until it releases the lock.
LEMMA WrittenNext ==
  ASSUME TypeOK, RequestInv, AuditInv, RecordInv, Guarded, ~raced', [Next]_vars
  PROVE  WrittenInv'
<1> USE DEF TypeOK, Guarded, WrittenInv, HasPlan, Go, Answer, files, history
<1>1. ASSUME NEW c \in Clients, Load(c) PROVE WrittenInv'
  BY <1>1 DEF Load
<1>2. ASSUME NEW c \in Clients, ReadRevision(c) PROVE WrittenInv'
  BY <1>2 DEF ReadRevision
<1>3. ASSUME NEW c \in Clients, Inspect(c) PROVE WrittenInv'
  BY <1>3 DEF Inspect
<1>4. ASSUME NEW c \in Clients, ReadFails(c) PROVE WrittenInv'
  BY <1>4 DEF ReadFails
<1>5. ASSUME NEW c \in Clients, AcquireLock(c) PROVE WrittenInv'
  BY <1>5 DEF AcquireLock
<1>6. ASSUME NEW c \in Clients, DieUnstamped(c) PROVE WrittenInv'
  BY <1>6 DEF DieUnstamped
<1>7. ASSUME NEW c \in Clients, FindStale(c) PROVE WrittenInv'
  BY <1>7 DEF FindStale
<1>8. ASSUME NEW c \in Clients, StealLock(c) PROVE WrittenInv'
  BY <1>8 DEF StealLock
<1>9. ASSUME NEW c \in Clients, GiveUp(c) PROVE WrittenInv'
  BY <1>9 DEF GiveUp
<1>10. ASSUME NEW c \in Clients, Replay(c) PROVE WrittenInv'
  BY <1>10 DEF Replay
<1>11. ASSUME NEW c \in Clients, Reproject(c) PROVE WrittenInv'
  BY <1>11 DEF Reproject
<1>12. ASSUME NEW c \in Clients, Refuse(c) PROVE WrittenInv'
  BY <1>12 DEF Refuse
<1>13. ASSUME NEW c \in Clients,
             Create(c) \/ Transition(c) \/ Start(c) \/ RecordGate(c) \/ Archive(c) \/ Patch(c)
      PROVE  WrittenInv'
  BY <1>13, CommandPlans
<1>14. ASSUME NEW c \in Clients, Persist(c) PROVE WrittenInv'
  <2>1. \A d \in Clients : d # c => ~Inside(d)
    BY <1>14, Alone DEF Persist, Inside, Guarded
  <2>2. QED BY <1>14, <2>1 DEF Persist, Inside
<1>15. ASSUME NEW c \in Clients, ProjectionFails(c) PROVE WrittenInv'
  BY <1>15 DEF ProjectionFails
<1>16. ASSUME NEW c \in Clients, Truncate(c) PROVE WrittenInv'
  BY <1>16 DEF Truncate
<1>17. ASSUME NEW c \in Clients, WriteTask(c) PROVE WrittenInv'
  BY <1>17 DEF WriteTask
<1>18. ASSUME NEW c \in Clients, StageRepair(c) PROVE WrittenInv'
  BY <1>18 DEF StageRepair
<1>19. ASSUME NEW c \in Clients, RecheckRepair(c) PROVE WrittenInv'
  BY <1>19 DEF RecheckRepair
<1>20. ASSUME NEW c \in Clients, InstallRepair(c) PROVE WrittenInv'
  BY <1>20 DEF InstallRepair
<1>21. ASSUME NEW c \in Clients, Release(c) PROVE WrittenInv'
  BY <1>21 DEF Release
<1>22. ASSUME NEW c \in Clients, Die(c) PROVE WrittenInv'
  BY <1>22 DEF Die
<1>23. CASE UNCHANGED vars BY <1>23 DEF vars, clientVars
<1>24. QED
  BY <1>1, <1>2, <1>3, <1>4, <1>5, <1>6, <1>7, <1>8, <1>9, <1>10, <1>11, <1>12, <1>13,
     <1>14, <1>15, <1>16, <1>17, <1>18, <1>19, <1>20, <1>21, <1>22, <1>23 DEF Next

\* Between its two writes the files are known to differ: nobody else mends them.
LEMMA DamageNext ==
  ASSUME TypeOK, RequestInv, AuditInv, RecordInv, Guarded, ~raced', [Next]_vars
  PROVE  DamageInv'
<1> USE DEF TypeOK, Guarded, DamageInv, Go, Answer, files, history
<1>1. ASSUME NEW c \in Clients, Load(c) PROVE DamageInv'
  BY <1>1 DEF Load
<1>2. ASSUME NEW c \in Clients, ReadRevision(c) PROVE DamageInv'
  BY <1>2 DEF ReadRevision
<1>3. ASSUME NEW c \in Clients, Inspect(c) PROVE DamageInv'
  BY <1>3 DEF Inspect
<1>4. ASSUME NEW c \in Clients, ReadFails(c) PROVE DamageInv'
  BY <1>4 DEF ReadFails
<1>5. ASSUME NEW c \in Clients, AcquireLock(c) PROVE DamageInv'
  BY <1>5 DEF AcquireLock
<1>6. ASSUME NEW c \in Clients, DieUnstamped(c) PROVE DamageInv'
  BY <1>6 DEF DieUnstamped
<1>7. ASSUME NEW c \in Clients, FindStale(c) PROVE DamageInv'
  BY <1>7 DEF FindStale
<1>8. ASSUME NEW c \in Clients, StealLock(c) PROVE DamageInv'
  BY <1>8 DEF StealLock
<1>9. ASSUME NEW c \in Clients, GiveUp(c) PROVE DamageInv'
  BY <1>9 DEF GiveUp
<1>10. ASSUME NEW c \in Clients, Replay(c) PROVE DamageInv'
  BY <1>10 DEF Replay
<1>11. ASSUME NEW c \in Clients, Reproject(c) PROVE DamageInv'
  BY <1>11 DEF Reproject
<1>12. ASSUME NEW c \in Clients, Refuse(c) PROVE DamageInv'
  BY <1>12 DEF Refuse
<1>13. ASSUME NEW c \in Clients,
             Create(c) \/ Transition(c) \/ Start(c) \/ RecordGate(c) \/ Archive(c) \/ Patch(c)
      PROVE  DamageInv'
  BY <1>13, CommandPlans
<1>14. ASSUME NEW c \in Clients, Persist(c) PROVE DamageInv'
  BY <1>14 DEF Persist
<1>15. ASSUME NEW c \in Clients, ProjectionFails(c) PROVE DamageInv'
  BY <1>15 DEF ProjectionFails
<1>16. ASSUME NEW c \in Clients, Truncate(c) PROVE DamageInv'
  BY <1>16 DEF Truncate
<1>17. ASSUME NEW c \in Clients, WriteTask(c) PROVE DamageInv'
  <2>1. \A d \in Clients : d # c => ~Inside(d)
    BY <1>17, Alone DEF WriteTask, Inside, Guarded
  <2>2. QED BY <1>17, <2>1 DEF WriteTask, Inside
<1>18. ASSUME NEW c \in Clients, StageRepair(c) PROVE DamageInv'
  BY <1>18 DEF StageRepair
<1>19. ASSUME NEW c \in Clients, RecheckRepair(c) PROVE DamageInv'
  BY <1>19 DEF RecheckRepair
<1>20. ASSUME NEW c \in Clients, InstallRepair(c) PROVE DamageInv'
  <2>1. \A d \in Clients : d # c => ~Inside(d)
    BY <1>20, Alone DEF InstallRepair, Inside, Guarded
  <2>2. QED BY <1>20, <2>1 DEF InstallRepair, Inside
<1>21. ASSUME NEW c \in Clients, Release(c) PROVE DamageInv'
  BY <1>21 DEF Release
<1>22. ASSUME NEW c \in Clients, Die(c) PROVE DamageInv'
  BY <1>22 DEF Die
<1>23. CASE UNCHANGED vars BY <1>23 DEF vars, clientVars
<1>24. QED
  BY <1>1, <1>2, <1>3, <1>4, <1>5, <1>6, <1>7, <1>8, <1>9, <1>10, <1>11, <1>12, <1>13,
     <1>14, <1>15, <1>16, <1>17, <1>18, <1>19, <1>20, <1>21, <1>22, <1>23 DEF Next

\* What a repair has compared stands until it is installed.
LEMMA SeenNext ==
  ASSUME TypeOK, RequestInv, AuditInv, RecordInv, Guarded, ~raced', [Next]_vars
  PROVE  SeenInv'
<1> USE DEF TypeOK, Guarded, SeenInv, Go, Answer, files, history
<1>1. ASSUME NEW c \in Clients, Load(c) PROVE SeenInv'
  BY <1>1 DEF Load
<1>2. ASSUME NEW c \in Clients, ReadRevision(c) PROVE SeenInv'
  BY <1>2 DEF ReadRevision
<1>3. ASSUME NEW c \in Clients, Inspect(c) PROVE SeenInv'
  BY <1>3 DEF Inspect
<1>4. ASSUME NEW c \in Clients, ReadFails(c) PROVE SeenInv'
  BY <1>4 DEF ReadFails
<1>5. ASSUME NEW c \in Clients, AcquireLock(c) PROVE SeenInv'
  BY <1>5 DEF AcquireLock
<1>6. ASSUME NEW c \in Clients, DieUnstamped(c) PROVE SeenInv'
  BY <1>6 DEF DieUnstamped
<1>7. ASSUME NEW c \in Clients, FindStale(c) PROVE SeenInv'
  BY <1>7 DEF FindStale
<1>8. ASSUME NEW c \in Clients, StealLock(c) PROVE SeenInv'
  BY <1>8 DEF StealLock
<1>9. ASSUME NEW c \in Clients, GiveUp(c) PROVE SeenInv'
  BY <1>9 DEF GiveUp
<1>10. ASSUME NEW c \in Clients, Replay(c) PROVE SeenInv'
  BY <1>10 DEF Replay
<1>11. ASSUME NEW c \in Clients, Reproject(c) PROVE SeenInv'
  BY <1>11 DEF Reproject
<1>12. ASSUME NEW c \in Clients, Refuse(c) PROVE SeenInv'
  BY <1>12 DEF Refuse
<1>13. ASSUME NEW c \in Clients,
             Create(c) \/ Transition(c) \/ Start(c) \/ RecordGate(c) \/ Archive(c) \/ Patch(c)
      PROVE  SeenInv'
  BY <1>13, CommandPlans
<1>14. ASSUME NEW c \in Clients, Persist(c) PROVE SeenInv'
  <2>1. \A d \in Clients : d # c => ~Inside(d)
    BY <1>14, Alone DEF Persist, Inside, Guarded
  <2>2. QED BY <1>14, <2>1 DEF Persist, Inside
<1>15. ASSUME NEW c \in Clients, ProjectionFails(c) PROVE SeenInv'
  BY <1>15 DEF ProjectionFails
<1>16. ASSUME NEW c \in Clients, Truncate(c) PROVE SeenInv'
  <2>1. \A d \in Clients : d # c => ~Inside(d)
    BY <1>16, Alone DEF Truncate, Inside, Guarded
  <2>2. QED BY <1>16, <2>1 DEF Truncate, Inside
<1>17. ASSUME NEW c \in Clients, WriteTask(c) PROVE SeenInv'
  <2>1. \A d \in Clients : d # c => ~Inside(d)
    BY <1>17, Alone DEF WriteTask, Inside, Guarded
  <2>2. QED BY <1>17, <2>1 DEF WriteTask, Inside
<1>18. ASSUME NEW c \in Clients, StageRepair(c) PROVE SeenInv'
  BY <1>18 DEF StageRepair
<1>19. ASSUME NEW c \in Clients, RecheckRepair(c) PROVE SeenInv'
  <2>1. pc'[c] = "checked" => task = request[c].seen
    BY <1>19 DEF RecheckRepair
  <2>2. QED BY <1>19, <2>1 DEF RecheckRepair
<1>20. ASSUME NEW c \in Clients, InstallRepair(c) PROVE SeenInv'
  <2>1. \A d \in Clients : d # c => ~Inside(d)
    BY <1>20, Alone DEF InstallRepair, Inside, Guarded
  <2>2. QED BY <1>20, <2>1 DEF InstallRepair, Inside
<1>21. ASSUME NEW c \in Clients, Release(c) PROVE SeenInv'
  BY <1>21 DEF Release
<1>22. ASSUME NEW c \in Clients, Die(c) PROVE SeenInv'
  BY <1>22 DEF Die
<1>23. CASE UNCHANGED vars BY <1>23 DEF vars, clientVars
<1>24. QED
  BY <1>1, <1>2, <1>3, <1>4, <1>5, <1>6, <1>7, <1>8, <1>9, <1>10, <1>11, <1>12, <1>13,
     <1>14, <1>15, <1>16, <1>17, <1>18, <1>19, <1>20, <1>21, <1>22, <1>23 DEF Next

\* The two files agree until one of them is written and the other is not.
LEMMA SyncNext ==
  ASSUME TypeOK, RequestInv, AuditInv, RecordInv, Guarded, SyncedUnlessDamaged, ~raced, ~raced', [Next]_vars
  PROVE  SyncedUnlessDamaged'
<1> USE DEF SyncedUnlessDamaged, InSync, HasProjection, Go, Answer, files, history
<1>1. ASSUME NEW c \in Clients, Load(c) PROVE SyncedUnlessDamaged'
  BY <1>1 DEF Load
<1>2. ASSUME NEW c \in Clients, ReadRevision(c) PROVE SyncedUnlessDamaged'
  BY <1>2 DEF ReadRevision
<1>3. ASSUME NEW c \in Clients, Inspect(c) PROVE SyncedUnlessDamaged'
  BY <1>3 DEF Inspect
<1>4. ASSUME NEW c \in Clients, ReadFails(c) PROVE SyncedUnlessDamaged'
  BY <1>4 DEF ReadFails
<1>5. ASSUME NEW c \in Clients, AcquireLock(c) PROVE SyncedUnlessDamaged'
  BY <1>5 DEF AcquireLock
<1>6. ASSUME NEW c \in Clients, DieUnstamped(c) PROVE SyncedUnlessDamaged'
  BY <1>6 DEF DieUnstamped
<1>7. ASSUME NEW c \in Clients, FindStale(c) PROVE SyncedUnlessDamaged'
  BY <1>7 DEF FindStale
<1>8. ASSUME NEW c \in Clients, StealLock(c) PROVE SyncedUnlessDamaged'
  BY <1>8 DEF StealLock
<1>9. ASSUME NEW c \in Clients, GiveUp(c) PROVE SyncedUnlessDamaged'
  BY <1>9 DEF GiveUp
<1>10. ASSUME NEW c \in Clients, Replay(c) PROVE SyncedUnlessDamaged'
  BY <1>10 DEF Replay
<1>11. ASSUME NEW c \in Clients, Reproject(c) PROVE SyncedUnlessDamaged'
  BY <1>11 DEF Reproject
<1>12. ASSUME NEW c \in Clients, Refuse(c) PROVE SyncedUnlessDamaged'
  BY <1>12 DEF Refuse
<1>13. ASSUME NEW c \in Clients,
             Create(c) \/ Transition(c) \/ Start(c) \/ RecordGate(c) \/ Archive(c) \/ Patch(c)
      PROVE  SyncedUnlessDamaged'
  BY <1>13, CommandPlans
<1>14. ASSUME NEW c \in Clients, Persist(c) PROVE SyncedUnlessDamaged'
  <2> SUFFICES ASSUME Op(c) = "move" PROVE SyncedUnlessDamaged'
    BY <1>14 DEF Persist
  <2>1. plan[c].proj = IF kernel = NoKernel THEN NoProjection ELSE kernel.proj
    BY <1>14 DEF Persist, Guarded, PlannedInv
  <2>2. QED BY <1>14, <2>1 DEF Persist
<1>15. ASSUME NEW c \in Clients, ProjectionFails(c) PROVE SyncedUnlessDamaged'
  BY <1>15 DEF ProjectionFails
<1>16. ASSUME NEW c \in Clients, Truncate(c) PROVE SyncedUnlessDamaged'
  <2>1. damaged
    BY <1>16 DEF Truncate, Guarded, DamageInv
  <2>2. QED BY <1>16, <2>1 DEF Truncate
<1>17. ASSUME NEW c \in Clients, WriteTask(c) PROVE SyncedUnlessDamaged'
  <2>1. kernel = plan[c]
    BY <1>17 DEF WriteTask, Guarded, WrittenInv, HasPlan
  <2>2. QED BY <1>17, <2>1 DEF WriteTask
<1>18. ASSUME NEW c \in Clients, StageRepair(c) PROVE SyncedUnlessDamaged'
  BY <1>18 DEF StageRepair
<1>19. ASSUME NEW c \in Clients, RecheckRepair(c) PROVE SyncedUnlessDamaged'
  BY <1>19 DEF RecheckRepair
<1>20. ASSUME NEW c \in Clients, InstallRepair(c) PROVE SyncedUnlessDamaged'
  <2>1. kernel = plan[c]
    BY <1>20 DEF InstallRepair, Guarded, WrittenInv, HasPlan
  <2>2. QED BY <1>20, <2>1 DEF InstallRepair
<1>21. ASSUME NEW c \in Clients, Release(c) PROVE SyncedUnlessDamaged'
  BY <1>21 DEF Release
<1>22. ASSUME NEW c \in Clients, Die(c) PROVE SyncedUnlessDamaged'
  BY <1>22 DEF Die
<1>23. CASE UNCHANGED vars BY <1>23 DEF vars, clientVars
<1>24. QED
  BY <1>1, <1>2, <1>3, <1>4, <1>5, <1>6, <1>7, <1>8, <1>9, <1>10, <1>11, <1>12, <1>13,
     <1>14, <1>15, <1>16, <1>17, <1>18, <1>19, <1>20, <1>21, <1>22, <1>23 DEF Next

\* What was answered stays in the audit: whoever writes next has read it.
LEMMA AckedNext ==
  ASSUME TypeOK, RequestInv, AuditInv, RecordInv, Guarded, AckedApplied, ~raced, ~raced', [Next]_vars
  PROVE  AckedApplied'
<1> USE DEF AckedApplied, Go, Answer, files, history
<1>1. ASSUME NEW c \in Clients, Load(c) PROVE AckedApplied'
  BY <1>1 DEF Load
<1>2. ASSUME NEW c \in Clients, ReadRevision(c) PROVE AckedApplied'
  BY <1>2 DEF ReadRevision
<1>3. ASSUME NEW c \in Clients, Inspect(c) PROVE AckedApplied'
  BY <1>3 DEF Inspect
<1>4. ASSUME NEW c \in Clients, ReadFails(c) PROVE AckedApplied'
  BY <1>4 DEF ReadFails
<1>5. ASSUME NEW c \in Clients, AcquireLock(c) PROVE AckedApplied'
  BY <1>5 DEF AcquireLock
<1>6. ASSUME NEW c \in Clients, DieUnstamped(c) PROVE AckedApplied'
  BY <1>6 DEF DieUnstamped
<1>7. ASSUME NEW c \in Clients, FindStale(c) PROVE AckedApplied'
  BY <1>7 DEF FindStale
<1>8. ASSUME NEW c \in Clients, StealLock(c) PROVE AckedApplied'
  BY <1>8 DEF StealLock
<1>9. ASSUME NEW c \in Clients, GiveUp(c) PROVE AckedApplied'
  BY <1>9 DEF GiveUp
<1>10. ASSUME NEW c \in Clients, Replay(c) PROVE AckedApplied'
  BY <1>10 DEF Replay
<1>11. ASSUME NEW c \in Clients, Reproject(c) PROVE AckedApplied'
  BY <1>11 DEF Reproject
<1>12. ASSUME NEW c \in Clients, Refuse(c) PROVE AckedApplied'
  BY <1>12 DEF Refuse
<1>13. ASSUME NEW c \in Clients,
             Create(c) \/ Transition(c) \/ Start(c) \/ RecordGate(c) \/ Archive(c) \/ Patch(c)
      PROVE  AckedApplied'
  BY <1>13, CommandPlans
<1>14. ASSUME NEW c \in Clients, Persist(c) PROVE AckedApplied'
  <2>1. Follows(plan[c]) /\ plan[c] \in Kernels
    BY <1>14 DEF Persist, Guarded, PlannedInv, AuditInv, HasPlan
  <2>2. kernel # NoKernel => kernel.audit \subseteq plan[c].audit
    BY <2>1 DEF Follows
  <2>3. QED BY <1>14, <2>1, <2>2, MarksAssumption DEF Persist
<1>15. ASSUME NEW c \in Clients, ProjectionFails(c) PROVE AckedApplied'
  BY <1>15 DEF ProjectionFails
<1>16. ASSUME NEW c \in Clients, Truncate(c) PROVE AckedApplied'
  BY <1>16 DEF Truncate
<1>17. ASSUME NEW c \in Clients, WriteTask(c) PROVE AckedApplied'
  BY <1>17 DEF WriteTask
<1>18. ASSUME NEW c \in Clients, StageRepair(c) PROVE AckedApplied'
  BY <1>18 DEF StageRepair
<1>19. ASSUME NEW c \in Clients, RecheckRepair(c) PROVE AckedApplied'
  BY <1>19 DEF RecheckRepair
<1>20. ASSUME NEW c \in Clients, InstallRepair(c) PROVE AckedApplied'
  BY <1>20 DEF InstallRepair
<1>21. ASSUME NEW c \in Clients, Release(c) PROVE AckedApplied'
  <2>1. CASE reply[c] = "committed"
    <3>1. kernel = plan[c] /\ kernel # NoKernel
      BY <1>21, <2>1, MarksAssumption DEF Release, Guarded, WrittenInv, AuditInv, HasPlan
    <3>2. acked' \subseteq acked \cup {entry.key : entry \in kernel.audit}
      BY <1>21, <3>1 DEF Release
    <3>3. QED BY <1>21, <3>1, <3>2 DEF Release
  <2>2. CASE reply[c] # "committed" BY <1>21, <2>2 DEF Release
  <2>3. QED BY <2>1, <2>2
<1>22. ASSUME NEW c \in Clients, Die(c) PROVE AckedApplied'
  BY <1>22 DEF Die
<1>23. CASE UNCHANGED vars BY <1>23 DEF vars, clientVars
<1>24. QED
  BY <1>1, <1>2, <1>3, <1>4, <1>5, <1>6, <1>7, <1>8, <1>9, <1>10, <1>11, <1>12, <1>13,
     <1>14, <1>15, <1>16, <1>17, <1>18, <1>19, <1>20, <1>21, <1>22, <1>23 DEF Next

-----------------------------------------------------------------------------
(* The status of the record, and the phase. *)

\* The record of a snapshot: its own, or that of a task older than its kernel.
RecordOf(k) == IF k.proj # NoProjection THEN k.proj ELSE task

FitsOf(found, phase) == found \in Projections => Fits(found.status, phase)

\* A record fits the phase of its snapshot, planned or written.
StatusInv ==
    /\ kernel # NoKernel => FitsOf(RecordOf(kernel), kernel.phase)
    /\ \A c \in Clients : pc[c] = "planned" => FitsOf(RecordOf(plan[c]), plan[c].phase)

\* The record a command starts from fits the phase it starts from.
LEMMA BaseFits ==
  ASSUME TypeOK, AuditInv, StatusInv, Readable
  PROVE  FitsOf(BaseRecord, Current.phase)
<1>1. CASE kernel # NoKernel
  BY <1>1 DEF StatusInv, RecordOf, BaseRecord, Current
<1>2. CASE kernel = NoKernel
  <2>1. task \in Projections /\ BaseRecord = task /\ Current.phase = LegacyPhase[task.status]
    BY <1>2 DEF Readable, Parses, BaseRecord, Current
  <2>2. task.status \in Statuses
    BY <2>1 DEF Projections
  <2>3. Fits(task.status, LegacyPhase[task.status])
    BY <2>2 DEF Statuses, LegacyPhase, Fits
  <2>4. QED BY <2>1, <2>3 DEF FitsOf
<1>3. QED BY <1>1, <1>2

\* The phase a command plans is the last one it enters.
LEMMA PlannedPhase ==
  ASSUME TypeOK, AuditInv, NEW c \in Clients, NEW hops, NEW projection, PlanNext(c, hops, projection)
  PROVE  /\ plan'[c].phase = IF hops = <<>> THEN Current.phase ELSE hops[Len(hops)]
         /\ plan'[c].proj = projection
<1>1. Current \in Kernels
  BY CurrentKept DEF PlanNext
<1>2. plan'[c] = [Hopped(Current, KeyOf(c), hops) EXCEPT !.proj = projection]
  BY DEF PlanNext, TypeOK
<1>3. QED BY <1>1, <1>2 DEF Hopped, Kernels

\* What a command plans fits: the edges keep what fits, execution makes
\* in_progress fit, closing completed, and a patch keeps the status.
LEMMA CommandFits ==
  ASSUME TypeOK, RequestInv, AuditInv, StatusInv, NEW c \in Clients,
         Create(c) \/ Transition(c) \/ Start(c) \/ RecordGate(c) \/ Archive(c) \/ Patch(c)
  PROVE  FitsOf(RecordOf(plan'[c]), plan'[c].phase)
<1>1. NoProjection \notin Projections
  BY MarksAssumption
<1>2. CASE Create(c)
  <2>1. plan'[c].proj = [status |-> "planning", links |-> {}]
    BY <1>2 DEF Create, TypeOK
  <2>2. plan'[c].proj \in Projections /\ plan'[c].proj.status = "planning"
    BY <2>1 DEF Projections, Statuses
  <2>3. QED BY <1>1, <2>2 DEF FitsOf, RecordOf, Fits
<1>3. CASE Transition(c)
  <2>1. /\ PlanNext(c, <<Arg(c)>>, Current.proj) /\ Readable
        /\ <<Current.phase, Arg(c)>> \in PhaseEdges
    BY <1>3 DEF Transition, Serves, PlanNext, Admitted
  <2>2. plan'[c].phase = Arg(c) /\ plan'[c].proj = Current.proj
    BY <2>1, PlannedPhase
  <2>3. RecordOf(plan'[c]) = BaseRecord
    BY <2>2 DEF RecordOf, BaseRecord
  <2>4. \A s, p, q : <<p, q>> \in PhaseEdges /\ Fits(s, p) => Fits(s, q)
    BY DEF PhaseEdges, Fits
  <2>5. QED BY <2>1, <2>2, <2>3, <2>4, BaseFits DEF FitsOf
<1>4. CASE Start(c)
  <2> DEFINE projection == [Sent(c) EXCEPT !.status = "in_progress"]
             hops == HopsToExecute[Current.phase]
  <2>1. /\ PlanNext(c, hops, projection) /\ Current.phase \in DOMAIN HopsToExecute
        /\ Op(c) = "start" /\ pc[c] = "locked"
    BY <1>4 DEF Start, Serves, PlanNext, Admitted
  <2>2. Sent(c) \in Projections
    BY <2>1 DEF RequestInv, SendsRecord
  <2>3. projection \in Projections /\ projection.status = "in_progress"
    BY <2>2 DEF Projections, Statuses
  <2>4. (IF hops = <<>> THEN Current.phase ELSE hops[Len(hops)]) = "execute"
    <3> USE DEF HopsToExecute
    <3>1. CASE Current.phase = "open" BY <3>1
    <3>2. CASE Current.phase = "define" BY <3>2
    <3>3. CASE Current.phase = "approve" BY <3>3
    <3>4. CASE Current.phase = "execute" BY <3>4
    <3>5. QED BY <2>1, <3>1, <3>2, <3>3, <3>4
  <2>5. plan'[c].phase = "execute" /\ plan'[c].proj = projection
    BY <2>1, <2>4, PlannedPhase
  <2>6. QED BY <1>1, <2>3, <2>5 DEF RecordOf, FitsOf, Fits
<1>5. CASE RecordGate(c)
  <2>1. PlanNext(c, <<>>, BaseRecord) /\ Readable /\ Op(c) = "gate" /\ BaseRecord \in Projections
    BY <1>5 DEF RecordGate, Serves, PlanNext, Admitted
  <2>2. plan'[c].phase = Current.phase /\ plan'[c].proj = BaseRecord
    BY <2>1, PlannedPhase
  <2>3. QED BY <1>1, <2>1, <2>2, BaseFits DEF RecordOf, FitsOf
<1>6. CASE Archive(c)
  <2> DEFINE projection == [Sent(c) EXCEPT !.status = "completed"]
             hops == HopsToClose[Current.phase]
  <2>1. PlanNext(c, hops, projection) /\ Readable /\ Op(c) = "archive" /\ pc[c] = "locked"
    BY <1>6 DEF Archive, Serves, PlanNext
  <2>2. Sent(c) \in Projections
    BY <2>1 DEF RequestInv, SendsRecord
  <2>3. projection \in Projections /\ projection.status = "completed"
    BY <2>2 DEF Projections, Statuses
  <2>4. Current.phase \in Phases
    BY <2>1, CurrentKept DEF Kernels
  <2>5. (IF hops = <<>> THEN Current.phase ELSE hops[Len(hops)]) = "close"
    <3> USE DEF HopsToClose
    <3>1. CASE Current.phase = "open" BY <3>1
    <3>2. CASE Current.phase = "define" BY <3>2
    <3>3. CASE Current.phase = "approve" BY <3>3
    <3>4. CASE Current.phase = "execute" BY <3>4
    <3>5. CASE Current.phase = "verify" BY <3>5
    <3>6. CASE Current.phase = "integrate" BY <3>6
    <3>7. CASE Current.phase = "close" BY <3>7
    <3>8. QED BY <2>4, <3>1, <3>2, <3>3, <3>4, <3>5, <3>6, <3>7 DEF Phases
  <2>6. plan'[c].phase = "close" /\ plan'[c].proj = projection
    BY <2>1, <2>5, PlannedPhase
  <2>7. QED BY <1>1, <2>3, <2>6 DEF RecordOf, FitsOf, Fits
<1>7. CASE Patch(c)
  <2>1. PICK links \in {Sent(c).links, Sent(c).links \cup {Arg(c)}, Sent(c).links \ {Arg(c)}} :
           /\ Op(c) \in {"link", "unlink", "edit"} /\ pc[c] = "locked"
           /\ PlanNext(c, <<>>, [Sent(c) EXCEPT !.links = links])
    <3>1. Op(c) \in {"link", "unlink", "edit"} /\ pc[c] = "locked"
      BY <1>7 DEF Patch, Serves
    <3>2. Sent(c) = [Sent(c) EXCEPT !.links = Sent(c).links]
      BY <3>1 DEF RequestInv, SendsRecord, Projections
    <3>3. QED BY <1>7, <3>1, <3>2 DEF Patch
  <2> DEFINE projection == [Sent(c) EXCEPT !.links = links]
  <2>2. Readable /\ BaseRecord \in Projections /\ Sent(c).status = BaseRecord.status
    BY <2>1 DEF PlanNext, Admitted
  <2>3. Sent(c) \in Projections
    BY <2>1 DEF RequestInv, SendsRecord
  <2>4. projection.status = BaseRecord.status /\ Fits(BaseRecord.status, Current.phase)
    BY <2>2, <2>3, BaseFits DEF FitsOf, Projections
  <2>5. plan'[c].phase = Current.phase /\ plan'[c].proj = projection
    BY <2>1, PlannedPhase
  <2>6. /\ Op(c) # "move"
        /\ Op(c) # "move" => plan'[c].proj \in Projections
    BY <1>7, <2>1, CommandPlans
  <2>7. QED BY <1>1, <2>4, <2>5, <2>6 DEF RecordOf, FitsOf
<1>8. QED BY <1>2, <1>3, <1>4, <1>5, <1>6, <1>7

LEMMA StatusNext ==
  ASSUME IInv, ~raced, StatusInv, [Next]_vars
  PROVE  StatusInv'
<1> USE DEF Go, Answer, files, history, RecordOf
<1>0. TypeOK /\ RequestInv /\ AuditInv /\ RecordInv /\ Guarded
  BY DEF IInv
<1>1. ASSUME UNCHANGED files, UNCHANGED plan,
             \A d \in Clients : pc'[d] = "planned" => pc[d] = "planned"
      PROVE  StatusInv'
  BY <1>1 DEF StatusInv
<1>2. ASSUME NEW c \in Clients,
             \/ Load(c) \/ ReadRevision(c) \/ Inspect(c) \/ ReadFails(c)
             \/ AcquireLock(c) \/ DieUnstamped(c) \/ FindStale(c) \/ StealLock(c) \/ GiveUp(c)
             \/ Replay(c) \/ Refuse(c) \/ ProjectionFails(c) \/ RecheckRepair(c)
      PROVE  StatusInv'
  <2>1. UNCHANGED files /\ UNCHANGED plan
    BY <1>2 DEF Load, ReadRevision, Inspect, ReadFails, AcquireLock, DieUnstamped, FindStale,
      StealLock, GiveUp, Replay, Refuse, ProjectionFails, RecheckRepair
  <2>2. \A d \in Clients : pc'[d] = "planned" => pc[d] = "planned"
    BY <1>0, <1>2 DEF TypeOK, Load, ReadRevision, Inspect, ReadFails, AcquireLock, DieUnstamped,
      FindStale, StealLock, GiveUp, Replay, Refuse, ProjectionFails, RecheckRepair
  <2>3. QED BY <1>1, <2>1, <2>2
<1>3. ASSUME NEW c \in Clients, StageRepair(c) \/ Release(c) \/ Die(c) PROVE StatusInv'
  <2>1. UNCHANGED files /\ \A d \in Clients : pc'[d] = "planned" => d # c /\ pc[d] = "planned"
    BY <1>0, <1>3 DEF TypeOK, StageRepair, Release, Die
  <2>2. \A d \in Clients : d # c => plan'[d] = plan[d]
    BY <1>0, <1>3 DEF TypeOK, StageRepair, Release, Die
  <2>3. QED BY <2>1, <2>2 DEF StatusInv
<1>4. ASSUME NEW c \in Clients, Reproject(c) PROVE StatusInv'
  <2>1. plan'[c] = kernel /\ UNCHANGED files /\ kernel # NoKernel
    BY <1>0, <1>4, MarksAssumption DEF TypeOK, Reproject, Readable, Parses
  <2>2. \A d \in Clients : d # c => plan'[d] = plan[d] /\ pc'[d] = pc[d]
    BY <1>0, <1>4 DEF TypeOK, Reproject
  <2>3. QED BY <2>1, <2>2 DEF StatusInv
<1>5. ASSUME NEW c \in Clients,
             Create(c) \/ Transition(c) \/ Start(c) \/ RecordGate(c) \/ Archive(c) \/ Patch(c)
      PROVE  StatusInv'
  <2>1. /\ plan' = [plan EXCEPT ![c] = plan'[c]] /\ Go(c, "planned")
        /\ UNCHANGED files
    BY <1>0, <1>5, CommandPlans
  <2>2. \A d \in Clients : d # c => plan'[d] = plan[d] /\ pc'[d] = pc[d]
    BY <1>0, <2>1 DEF TypeOK
  <2>3. FitsOf(RecordOf(plan'[c]), plan'[c].phase)
    BY <1>0, <1>5, CommandFits
  <2>4. QED BY <2>1, <2>2, <2>3 DEF StatusInv
<1>6. ASSUME NEW c \in Clients, Persist(c) PROVE StatusInv'
  <2>1. kernel' = plan[c] /\ task' = task /\ plan' = plan /\ pc[c] = "planned"
    BY <1>6 DEF Persist
  <2>2. \A d \in Clients : pc'[d] = "planned" => pc[d] = "planned"
    BY <1>0, <1>6 DEF TypeOK, Persist
  <2>3. QED BY <2>1, <2>2 DEF StatusInv
<1>7. ASSUME NEW c \in Clients, Truncate(c) \/ WriteTask(c) \/ InstallRepair(c) PROVE StatusInv'
  <2>1. /\ pc[c] \in {"persisted", "writing", "checked"}
        /\ UNCHANGED <<kernel, plan>>
    BY <1>7 DEF Truncate, WriteTask, InstallRepair
  <2>2. kernel = plan[c] /\ plan[c].proj \in Projections /\ Inside(c)
    BY <1>0, <2>1 DEF Guarded, WrittenInv, HasPlan, RecordInv, Inside
  <2>3. \A d \in Clients : pc'[d] # "planned"
    <3>1. ASSUME NEW d \in Clients, d # c PROVE pc[d] # "planned"
      BY <1>0, <2>2, <3>1, Alone DEF Guarded, Inside
    <3>2. QED BY <1>0, <1>7, <3>1 DEF TypeOK, Truncate, WriteTask, InstallRepair
  <2>4. kernel.proj # NoProjection
    BY <2>2, MarksAssumption
  <2>5. QED BY <2>1, <2>3, <2>4 DEF StatusInv
<1>8. CASE UNCHANGED vars BY <1>1, <1>8 DEF vars, clientVars
<1>9. QED BY <1>2, <1>3, <1>4, <1>5, <1>6, <1>7, <1>8 DEF Next

-----------------------------------------------------------------------------
(* The theorems. *)

LEMMA InitInv == Init => IInv
<1> SUFFICES ASSUME Init PROVE IInv
  OBVIOUS
<1>1. task \in Projections \cup {Absent, Torn}
  BY LegacyAssumption DEF Init, Projections
<1>2. spent \in SpentTypes
  BY BoundsAssumption DEF Init, SpentTypes
<1>3. TypeOK
  BY <1>1, <1>2 DEF Init, TypeOK, Steps, Replies, SpentTypes
<1>4. RequestInv /\ AuditInv /\ RecordInv
  BY DEF Init, RequestInv, AuditInv, RecordInv, HasPlan
<1>5. Guarded
  BY DEF Init, Guarded, LockInv, PlannedInv, WrittenInv, DamageInv, SeenInv, HasPlan, Inside
<1>6. SyncedUnlessDamaged /\ AckedApplied
  BY DEF Init, SyncedUnlessDamaged, InSync, HasProjection, AckedApplied
<1>7. QED BY <1>3, <1>4, <1>5, <1>6 DEF IInv

\* A lock that was stolen once is never unstolen.
LEMMA RacedStays == ASSUME TypeOK, [Next]_vars PROVE raced => raced'
<1>1. CASE UNCHANGED vars BY <1>1 DEF vars, history
<1>2. ASSUME NEW c \in Clients, StealLock(c) PROVE raced => raced'
  BY <1>2 DEF StealLock
<1>3. ASSUME NEW c \in Clients,
             \/ Load(c) \/ ReadRevision(c) \/ Inspect(c) \/ ReadFails(c)
             \/ AcquireLock(c) \/ DieUnstamped(c) \/ FindStale(c) \/ GiveUp(c)
             \/ Replay(c) \/ Reproject(c) \/ Refuse(c)
      PROVE  raced' = raced
  BY <1>3 DEF Load, ReadRevision, Inspect, ReadFails, AcquireLock, DieUnstamped, FindStale,
    GiveUp, Replay, Reproject, Refuse, history
<1>4. ASSUME NEW c \in Clients,
             \/ Create(c) \/ Transition(c) \/ Start(c) \/ RecordGate(c) \/ Archive(c) \/ Patch(c)
      PROVE  raced' = raced
  BY <1>4 DEF Create, Transition, Start, RecordGate, Archive, Patch, PlanNext, history
<1>5. ASSUME NEW c \in Clients,
             \/ Persist(c) \/ ProjectionFails(c) \/ Truncate(c) \/ WriteTask(c)
             \/ StageRepair(c) \/ RecheckRepair(c) \/ InstallRepair(c)
             \/ Release(c) \/ Die(c)
      PROVE  raced' = raced
  BY <1>5 DEF Persist, ProjectionFails, Truncate, WriteTask, StageRepair, RecheckRepair,
    InstallRepair, Release, Die, history
<1>6. QED BY <1>1, <1>2, <1>3, <1>4, <1>5 DEF Next

LEMMA NextInv == IInv /\ [Next]_vars => IInv'
<1> SUFFICES ASSUME IInv, [Next]_vars PROVE IInv'
  OBVIOUS
<1>1. TypeOK /\ RequestInv /\ AuditInv /\ RecordInv
  BY DEF IInv
<1>2. TypeOK' /\ RequestInv' /\ AuditInv' /\ RecordInv'
  BY <1>1, TypeNext, RequestNext, AuditNext, RecordNext
<1>3. ASSUME ~raced' PROVE Guarded' /\ SyncedUnlessDamaged' /\ AckedApplied'
  <2>1. ~raced /\ Guarded /\ SyncedUnlessDamaged /\ AckedApplied
    BY <1>1, <1>3, RacedStays DEF IInv
  <2>2. LockInv'
    BY <1>1, <1>3, <2>1, LockNext DEF Guarded
  <2>3. PlannedInv' /\ WrittenInv' /\ DamageInv' /\ SeenInv'
    BY <1>1, <1>3, <2>1, PlannedNext, WrittenNext, DamageNext, SeenNext
  <2>4. SyncedUnlessDamaged' /\ AckedApplied'
    BY <1>1, <1>3, <2>1, SyncNext, AckedNext
  <2>5. QED BY <2>2, <2>3, <2>4 DEF Guarded
<1>4. raced' => SyncedUnlessDamaged' /\ AckedApplied'
  BY DEF SyncedUnlessDamaged, AckedApplied
<1>5. QED BY <1>2, <1>3, <1>4 DEF IInv

LEMMA Invariance == Spec => []IInv
BY InitInv, NextInv, PTL DEF Spec

\* Types of the two files, the lock, the clients' requests and plans.
THEOREM TypeCorrect == Spec => []TypeOK
BY Invariance, PTL DEF IInv

\* The audit never holds two entries of one key: neither a command sent again nor
\* one resumed after a crash is applied twice, even after a lock was stolen.
THEOREM AppliedOnceTheorem == Spec => []AppliedOnce
<1>1. IInv => AppliedOnce
  BY DEF IInv, AuditInv, Recorded, Kept, AppliedOnce
<1>2. QED BY <1>1, Invariance, PTL

\* The audit accounts for every revision, each a legal step from the one before.
THEOREM AuditTheorem == Spec => []AuditExplains
<1>1. IInv => AuditExplains
  <2> SUFFICES ASSUME IInv, kernel # NoKernel PROVE AuditExplains
    BY DEF AuditExplains
  <2>1. Kept(kernel) /\ kernel.rev \in 1..kernel.rev
    BY DEF IInv, AuditInv, Recorded, TypeOK, Kernels
  <2>2. PICK entry \in kernel.audit : entry.rev = kernel.rev
    BY <2>1 DEF Kept
  <2>3. QED BY <2>1, <2>2 DEF Kept, LegalStep, AuditExplains
<1>2. QED BY <1>1, Invariance, PTL

\* What a client was told is committed is never written over.
THEOREM AckedTheorem == Spec => []AckedApplied
BY Invariance, PTL DEF IInv

\* The two files agree unless a crash or a failed write came between them.
THEOREM SyncTheorem == Spec => []SyncedUnlessDamaged
BY Invariance, PTL DEF IInv

LEMMA StatusFits == IInv /\ (~raced => StatusInv) => StatusFollowsPhase
BY MarksAssumption DEF IInv, TypeOK, Kernels, StatusInv, RecordOf, FitsOf, HasProjection, StatusFollowsPhase

\* The status shown to other tools is one its phase allows, for every legacy
\* status and every patch, as long as no live lock was stolen.
THEOREM StatusTheorem == Spec => []StatusFollowsPhase
<1> DEFINE Good == ~raced => StatusInv
<1>1. Init => Good
  BY DEF Init, StatusInv
<1>2. ASSUME IInv, Good, [Next]_vars PROVE Good'
  <2>1. raced => raced'
    BY <1>2, RacedStays DEF IInv
  <2>2. QED BY <1>2, <2>1, StatusNext
<1>3. IInv /\ Good => StatusFollowsPhase
  BY StatusFits
<1>4. QED BY <1>1, <1>2, <1>3, Invariance, PTL DEF Spec

\* A repair replaces what its caller saw, at the revision it saw.
THEOREM RepairTheorem == Spec => RepairsWhatWasSeen
<1>1. ASSUME IInv, [Next]_vars
      PROVE  [\A c \in Clients : pc[c] = "checked" /\ pc'[c] = "releasing" /\ ~raced =>
                 task = request[c].seen /\ kernel.rev = request[c].rev]_vars
  BY <1>1 DEF IInv, Guarded, SeenInv
<1>2. QED BY <1>1, Invariance, PTL DEF Spec, RepairsWhatWasSeen

\* Every write of kernel.json is a step of the abstract lifecycle: the phase moves
\* along the edges and the revision counts every one of them.
THEOREM LifecycleTheorem == Spec => ImplementsLifecycle
<1>1. Init => Lifecycle!Init
  BY DEF Init, Lifecycle!Init
<1>2. ASSUME IInv, [Next]_vars PROVE [Lifecycle!Next \/ raced]_<<kernel>>
  <2> SUFFICES ASSUME ~raced, kernel' # kernel PROVE Lifecycle!Next
    OBVIOUS
  <2>1. PICK c \in Clients : Persist(c)
    BY <1>2 DEF Next, vars, files, Load, ReadRevision, Inspect, ReadFails, AcquireLock,
       DieUnstamped, FindStale, StealLock, GiveUp, Replay, Reproject, Refuse, Create, Transition,
       Start, RecordGate, Archive, Patch, PlanNext, ProjectionFails, Truncate, WriteTask,
       StageRepair, RecheckRepair, InstallRepair, Release, Die
  <2>2. kernel' = plan[c] /\ Follows(plan[c]) /\ plan[c] \in Kernels
    BY <1>2, <2>1 DEF Persist, IInv, Guarded, PlannedInv, AuditInv, HasPlan
  <2>3. kernel' # NoKernel /\ kernel'.phase \in Phases /\ kernel'.rev \in Nat
    BY <2>2, MarksAssumption DEF Kernels
  <2>4. CASE kernel = NoKernel
    <3>1. kernel'.rev \in 1..Lifecycle!MaxHops
      BY <2>2, <2>4 DEF Follows
    <3>2. Lifecycle!Begin
      BY <2>3, <2>4, <3>1 DEF Lifecycle!Begin
    <3>3. QED BY <3>2 DEF Lifecycle!Next
  <2>5. CASE kernel # NoKernel
    <3>1. \/ kernel'.phase = kernel.phase /\ kernel'.rev = kernel.rev + 1
          \/ \E n \in 1..Lifecycle!MaxHops :
                <<kernel.phase, kernel'.phase>> \in Lifecycle!Apart[n] /\ kernel'.rev = kernel.rev + n
      BY <2>2, <2>5 DEF Follows
    <3>2. kernel.phase # NoPhase
      BY <1>2, <2>5 DEF IInv, TypeOK, Kernels, Phases, NoPhase
    <3>3. Lifecycle!Touch \/ Lifecycle!Advance
      BY <2>3, <2>5, <3>1, <3>2 DEF Lifecycle!Touch, Lifecycle!Advance
    <3>4. QED BY <3>3 DEF Lifecycle!Next
  <2>6. QED BY <2>4, <2>5
<1>3. QED BY <1>1, <1>2, Invariance, PTL DEF Spec, ImplementsLifecycle

-----------------------------------------------------------------------------
(* The extras of a task. A field that is not sent keeps what it had, and    *)
(* every command normalizes all of them together with the record, so the    *)
(* properties of the extras need no more than that the fields are there.    *)

ExtraFields == {"topology", "graph", "depends", "satisfied", "modules", "baseline", "missing",
                "proposal", "candidate", "integration", "slots", "health", "bridge", "router",
                "event", "providers", "probes", "capabilities", "policy"}

ExtrasInv ==
    /\ ExtraFields \subseteq DOMAIN extras
    /\ Extras!TopologyAgrees /\ Extras!DependenciesMet
    /\ Extras!FailuresShow /\ Extras!BegunWithKnowledge

LEMMA ExtrasStart == Extras!ExtrasInit => ExtrasInv
<1>1. ASSUME Extras!ExtrasInit PROVE ExtraFields \subseteq DOMAIN extras
  BY <1>1 DEF Extras!ExtrasInit, Extras!NoExtras, ExtraFields
<1>2. QED
  BY <1>1 DEF Extras!ExtrasInit, ExtrasInv, Extras!TopologyAgrees, Extras!DependenciesMet,
     Extras!FailuresShow, Extras!BegunWithKnowledge

\* What the first half of the boundary makes of the extras.
LEMMA Stage5 ==
  ASSUME NEW x, NEW r, ExtraFields \subseteq DOMAIN x
  PROVE  LET y == Extras!NormalStage5(x, r)
         IN /\ DOMAIN y = DOMAIN x
            /\ y.topology = Extras!NormalTopology(x.topology, r)
            /\ y.graph = Extras!Expanded(x.graph, x.depends)
            /\ y.topology.kind = "parent-child" => "parent-child" \in y.modules.active
            /\ \A f \in {"depends", "satisfied", "missing", "capabilities", "policy", "providers",
                         "probes", "bridge", "router", "event"} : y[f] = x[f]
<1> DEFINE y == Extras!NormalStage5(x, r)
           topology == Extras!NormalTopology(x.topology, r)
           modules == Extras!NormalModules(x.modules)
           shown == [modules EXCEPT !.degraded = @ \cup x.missing,
                                    !.active = IF topology.kind = "parent-child"
                                               THEN @ \cup {"parent-child"} ELSE @]
<1>1. y = [x EXCEPT !.topology = topology, !.graph = Extras!Expanded(@, x.depends),
                    !.baseline = Extras!NormalBaseline(@),
                    !.health = IF x.missing # {} THEN "degraded" ELSE @,
                    !.modules = shown]
  BY DEF Extras!NormalStage5
<1>2. topology.kind = "parent-child" => "parent-child" \in shown.active
  BY DEF Extras!NormalModules
<1> HIDE DEF topology, shown, modules, y
<1>3. /\ DOMAIN y = DOMAIN x /\ y.topology = topology /\ y.modules = shown
      /\ y.graph = Extras!Expanded(x.graph, x.depends)
      /\ \A f \in {"depends", "satisfied", "missing", "capabilities", "policy", "providers",
                   "probes", "bridge", "router", "event"} : y[f] = x[f]
  BY <1>1 DEF ExtraFields
<1>4. QED BY <1>2, <1>3 DEF y, topology

\* What the second half makes of them: of the providers, who is registered.
LEMMA Stage6 ==
  ASSUME NEW x, ExtraFields \subseteq DOMAIN x
  PROVE  LET y == Extras!NormalStage6(x)
             p == y.providers
         IN /\ DOMAIN y = DOMAIN x
            /\ Extras!Failing(p) \subseteq p.degraded
            /\ Extras!Failing(p) # {} => y.health = "degraded"
            /\ p.required \cup p.active \cup DOMAIN p.readiness \subseteq p.registered
            /\ \A f \in {"topology", "graph", "modules", "depends", "satisfied", "missing",
                         "capabilities", "policy"} : y[f] = x[f]
<1> DEFINE named == Extras!NormalProviders(x.providers)
           q == IF x.probes = None THEN named ELSE Extras!Probed(named, x.probes)
           bridge == Extras!NormalBridge(x.bridge)
           event == IF x.event = None THEN bridge ELSE Extras!Recorded(bridge, x.event)
           router == [i \in Extras!NormalRouter(x.router) |-> TRUE]
           z == [x EXCEPT !.bridge = event, !.router = router, !.event = None, !.probes = None]
           y == Extras!NormalStage6(x)
<1>1. y = Extras!Healthy(z, q)
  BY DEF Extras!NormalStage6
<1>2. named \in [registered : {named.registered}, required : SUBSET named.registered,
                 active : SUBSET named.registered, degraded : {named.degraded},
                 readiness : {named.readiness}]
      /\ DOMAIN named.readiness \subseteq named.registered
  BY DEF Extras!NormalProviders, Extras!NoProviders
<1>3. /\ DOMAIN q = {"registered", "required", "active", "degraded", "readiness"}
      /\ q.required \cup q.active \cup DOMAIN q.readiness \subseteq q.registered
  <2> HIDE DEF named
  <2>1. CASE x.probes = None
    BY <1>2, <2>1
  <2>2. CASE x.probes # None
    <3> DEFINE ready == Extras!Over([id \in DOMAIN x.probes \cap named.registered |->
                          [status |-> Extras!StatusOf(x.probes[id]),
                           capability |-> x.probes[id].capability]], named.readiness)
    <3>1. q = [named EXCEPT !.readiness = ready]
      BY <2>2 DEF Extras!Probed
    <3>2. DOMAIN ready \subseteq named.registered
      BY <1>2 DEF Extras!Over
    <3> HIDE DEF ready, q
    <3>3. QED BY <1>2, <3>1, <3>2
  <2>3. QED BY <2>1, <2>2
<1> HIDE DEF q, event, router, z, y
<1> DEFINE p == [q EXCEPT !.degraded = @ \cup Extras!Failing(q)]
           health == IF Extras!Failing(q) # {} \/ Extras!External \in z.missing THEN "degraded" ELSE z.health
<1>4. y = [z EXCEPT !.providers = p, !.health = health]
  BY <1>1 DEF Extras!Healthy
<1>5. /\ Extras!Failing(p) = Extras!Failing(q) /\ Extras!Failing(p) \subseteq p.degraded
      /\ p.required \cup p.active \cup DOMAIN p.readiness \subseteq p.registered
  <2>1. /\ p.degraded = q.degraded \cup Extras!Failing(q) /\ p.required = q.required
        /\ p.readiness = q.readiness /\ p.active = q.active /\ p.registered = q.registered
    BY <1>3
  <2>2. Extras!Failing(p) = Extras!Failing(q)
    BY <2>1 DEF Extras!Failing
  <2>3. QED BY <1>3, <2>1, <2>2
<1>6. DOMAIN z = DOMAIN x
      /\ \A f \in {"topology", "graph", "modules", "depends", "satisfied", "missing",
                   "capabilities", "policy"} : z[f] = x[f]
  BY DEF z
<1> HIDE DEF p, health
<1>7. /\ DOMAIN y = DOMAIN x /\ y.providers = p /\ y.health = health
      /\ \A f \in {"topology", "graph", "modules", "depends", "satisfied", "missing",
                   "capabilities", "policy"} : y[f] = x[f]
  BY <1>4, <1>6 DEF ExtraFields
<1>8. Extras!Failing(p) # {} => health = "degraded"
  BY <1>5 DEF health
<1>9. QED BY <1>5, <1>7, <1>8 DEF y

\* A command that is accepted leaves the record and the extras in agreement,
\* and begins a task only with what it needs.
LEMMA GivenKeeps ==
  ASSUME ExtrasInv, NEW asked, NEW command, NEW next, Extras!Given(asked, command, next)
  PROVE  ExtrasInv'
<1> DEFINE r == Extras!Over(asked.record, record)
           x == Extras!Over(asked.extras, extras)
           five == Extras!NormalStage5(x, r)
           six == Extras!NormalStage6(five)
<1>1. ExtraFields \subseteq DOMAIN x
  BY DEF ExtrasInv, Extras!Over
<1>2. /\ Extras!NormalAccepted(x, r) /\ Extras!Allowed(five, r, command)
      /\ Extras!Begins(command) /\ Extras!NeedsExternal(six) => six.policy = "degrade"
      /\ record' = r /\ extras' = IF Extras!Begins(command) THEN Extras!Degraded(six) ELSE six
      /\ begun' = IF Extras!Begins(command) THEN extras' ELSE begun
  BY DEF Extras!Given
<1> HIDE DEF r, x, five, six
<1>3. /\ ExtraFields \subseteq DOMAIN five
      /\ five.topology = Extras!NormalTopology(x.topology, r)
      /\ five.graph = Extras!Expanded(x.graph, x.depends)
      /\ five.topology.kind = "parent-child" => "parent-child" \in five.modules.active
      /\ five.depends = x.depends /\ five.satisfied = x.satisfied
  BY <1>1, Stage5 DEF five
<1>4. /\ ExtraFields \subseteq DOMAIN six
      /\ Extras!Failing(six.providers) \subseteq six.providers.degraded
      /\ Extras!Failing(six.providers) # {} => six.health = "degraded"
      /\ six.providers.required \cup six.providers.active \cup DOMAIN six.providers.readiness
           \subseteq six.providers.registered
      /\ six.topology = five.topology /\ six.modules = five.modules
      /\ six.depends = five.depends /\ six.satisfied = five.satisfied
  BY <1>3, Stage6 DEF six
<1>5. /\ ExtraFields \subseteq DOMAIN extras'
      /\ extras'.topology = five.topology /\ extras'.modules = five.modules
      /\ extras'.depends = x.depends /\ extras'.satisfied = x.satisfied
      /\ extras'.providers = six.providers /\ extras'.capabilities = six.capabilities
      /\ extras'.policy = six.policy
      /\ six.health = "degraded" => extras'.health = "degraded"
      /\ Extras!Begins(command) /\ Extras!NeedsExternal(six) => extras'.health = "degraded"
  BY <1>2, <1>3, <1>4 DEF Extras!Degraded, ExtraFields
<1>6. Extras!TopologyAgrees'
  <2>1. /\ five.topology.kind = "parent-child" <=> five.topology.children # {}
        /\ r.children \subseteq five.topology.children
    BY <1>3 DEF Extras!NormalTopology, Extras!DefaultTopology, Extras!KindOf
  <2>2. r.parent # None => five.topology.parent = r.parent
    BY <1>2, <1>3 DEF Extras!Allowed, Extras!Agree, Extras!NormalTopology, Extras!DefaultTopology
  <2>3. QED BY <1>2, <1>3, <1>5, <2>1, <2>2 DEF Extras!TopologyAgrees
<1>7. Extras!DependenciesMet'
  <2>1. ASSUME Extras!Begins(command) PROVE x.depends \subseteq x.satisfied
    <3>1. Extras!UnmetRequires(five) = {}
      BY <1>2, <2>1 DEF Extras!Allowed, Extras!Begins
    <3>2. ASSUME NEW d \in x.depends PROVE d \in x.satisfied
      <4> DEFINE e == Extras!Requires(d)
      <4>1. e \in five.graph /\ e.type = "requires" /\ e.from = "self" /\ e.to = d
        BY <1>3, <3>2 DEF Extras!Expanded, Extras!Requires
      <4> HIDE DEF e
      <4>2. QED BY <1>3, <3>1, <4>1 DEF Extras!UnmetRequires
    <3>3. QED BY <3>2
  <2>2. QED BY <1>2, <1>5, <2>1 DEF ExtrasInv, Extras!DependenciesMet
<1>8. Extras!FailuresShow'
  BY <1>4, <1>5 DEF Extras!FailuresShow, Extras!Failing
<1>9. Extras!BegunWithKnowledge'
  <2>1. CASE ~Extras!Begins(command)
    BY <1>2, <2>1 DEF ExtrasInv, Extras!BegunWithKnowledge
  <2>2. CASE Extras!Begins(command) /\ Extras!NeedsExternal(six)
    BY <1>2, <1>5, <2>2 DEF Extras!BegunWithKnowledge
  <2>3. CASE Extras!Begins(command) /\ ~Extras!NeedsExternal(six)
    <3>1. Extras!External \in six.capabilities =>
            \E id \in six.providers.registered \cap DOMAIN six.providers.readiness :
               six.providers.readiness[id].status = "ready"
      BY <2>3 DEF Extras!NeedsExternal, Extras!ExternalReady
    <3>2. QED BY <1>2, <1>5, <2>3, <3>1 DEF Extras!BegunWithKnowledge
  <2>4. QED BY <2>1, <2>2, <2>3
<1>10. QED BY <1>5, <1>6, <1>7, <1>8, <1>9 DEF ExtrasInv

LEMMA ExtrasKeeps == ExtrasInv /\ [Extras!ExtrasNext]_extrasVars => ExtrasInv'
<1> SUFFICES ASSUME ExtrasInv, [Extras!ExtrasNext]_extrasVars PROVE ExtrasInv'
  OBVIOUS
<1>1. CASE UNCHANGED extrasVars
  BY <1>1 DEF extrasVars, ExtrasInv, Extras!TopologyAgrees, Extras!DependenciesMet,
     Extras!FailuresShow, Extras!BegunWithKnowledge
<1>2. CASE Extras!ExtrasNext
  BY <1>2, GivenKeeps DEF Extras!ExtrasNext, Extras!CreateTask, Extras!PatchTask,
     Extras!StartTask, Extras!ArchiveTask
<1>3. QED BY <1>1, <1>2

\* Whatever fields a task is sent in whatever order: its status, its family, its
\* dependencies, its providers and its knowledge agree as RecordsHold says.
THEOREM RecordsTheorem == TaskSpec => []RecordsHold
<1> DEFINE Store == part = "store" => IInv /\ (~raced => StatusInv)
<1>1. TaskInit => Store /\ ExtrasInv
  BY InitInv, ExtrasStart DEF TaskInit, Init, StatusInv
<1>2. ASSUME Store, ExtrasInv, [TaskNext]_taskVars PROVE Store' /\ ExtrasInv'
  <2>1. [Extras!ExtrasNext]_extrasVars
    BY <1>2 DEF TaskNext, taskVars
  <2>2. part' = "store" => part = "store" /\ [Next]_vars
    BY <1>2 DEF TaskNext, taskVars
  <2>3. ASSUME part' = "store" PROVE IInv' /\ (~raced' => StatusInv')
    <3>1. IInv /\ (~raced => StatusInv) /\ [Next]_vars
      BY <1>2, <2>2, <2>3
    <3>2. raced => raced'
      BY <3>1, RacedStays DEF IInv
    <3>3. QED BY <3>1, <3>2, NextInv, StatusNext
  <2>4. QED BY <1>2, <2>1, <2>3, ExtrasKeeps
<1>3. Store /\ ExtrasInv => RecordsHold
  BY StatusFits DEF ExtrasInv, RecordsHold
<1>4. QED BY <1>1, <1>2, <1>3, PTL DEF TaskSpec

=============================================================================
