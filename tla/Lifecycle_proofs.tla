--------------------------- MODULE Lifecycle_proofs ---------------------------
(***************************************************************************)
(* For every set of adapters, contents and processes, with any number of   *)
(* commands, crashes and failures: journals only grow, whoever writes      *)
(* them; what is installed is sealed and was staged and validated; an      *)
(* adapter is active only where its projection was recorded; a journal on  *)
(* disk is one that its parser accepts; and requests that share a journal  *)
(* would do the same work.                                                 *)
(***************************************************************************)
EXTENDS Lifecycle, SequenceTheorems, FiniteSetTheorems, WellFoundedInduction, TLAPS

\* Every set of numbers that is not empty has a least one.
LEMMA LeastNat ==
  ASSUME NEW S \in SUBSET Nat, S # {}
  PROVE  \E n \in S : \A m \in S : n <= m
<1> DEFINE R == OpToRel(<, Nat)
<1>1. \A m \in Nat, n \in Nat : m < n => <<m, n>> \in R
  BY DEF OpToRel
<1>2. IsWellFoundedOn(R, Nat)
  BY NatLessThanWellFounded
<1> HIDE DEF R
<1>3. PICK n \in S : \A m \in S : ~(<<m, n>> \in R)
  BY <1>2, WFMin
<1>4. \A m \in S : ~(m < n)
  BY <1>1, <1>3
<1>5. \A m \in S : n <= m
  BY <1>4
<1>6. QED
  BY <1>5

\* The first adapter of a set, in the order in which they are taken.
LEMMA FirstIsMember ==
  ASSUME NEW S \in SUBSET Adapters, S # {}
  PROVE  FirstOf(S) \in S
<1> DEFINE Is == {i \in DOMAIN Order : Order[i] \in S}
<1>1. Order \in Seq(Adapters) /\ DOMAIN Order = 1 .. Len(Order) /\ Len(Order) \in Nat
      /\ {Order[i] : i \in DOMAIN Order} = Adapters
  BY OrderAssumption
<1>2. Is \in SUBSET Nat /\ Is # {}
  BY <1>1
<1>3. PICK i \in Is : \A m \in Is : i <= m
  BY <1>2, LeastNat
<1>4. \A k \in 1 .. i - 1 : Order[k] \notin S
  BY <1>1, <1>3
<1>5. \E n \in DOMAIN Order : Order[n] \in S /\ \A k \in 1 .. n - 1 : Order[k] \notin S
  BY <1>3, <1>4
<1>6. QED
  BY <1>5 DEF FirstOf

\* The next adapter of a transaction is one it still needs.
LEMMA NextIsNeeded ==
  ASSUME NEW r, r.needed \in SUBSET Adapters, r.needed # {}
  PROVE  NextAdapter(r) \in r.needed
BY FirstIsMember DEF FirstOf, NextAdapter

\* A prefix of a sequence, element by element.
LEMMA PrefixFact ==
  ASSUME NEW S, NEW s \in Seq(S), NEW t \in Seq(S)
  PROVE  IsPrefix(s, t) <=> Len(s) <= Len(t) /\ \A i \in 1 .. Len(s) : s[i] = t[i]
<1>1. SubSeq(s, 1, Len(s)) = s
  OBVIOUS
<1>2. ASSUME Len(s) <= Len(t)
      PROVE  SubSeq(t, 1, Len(s)) = [i \in 1 .. Len(s) |-> t[i]]
  BY <1>2
<1>3. s = [i \in 1 .. Len(s) |-> s[i]]
  OBVIOUS
<1>4. ASSUME Len(s) <= Len(t), \A i \in 1 .. Len(s) : s[i] = t[i] PROVE IsPrefix(s, t)
  BY <1>1, <1>2, <1>3, <1>4 DEF IsPrefix
<1>5. ASSUME IsPrefix(s, t) PROVE Len(s) <= Len(t) /\ \A i \in 1 .. Len(s) : s[i] = t[i]
  <2>1. Len(s) <= Len(t) /\ s = SubSeq(t, 1, Len(s))
    BY <1>1, <1>5 DEF IsPrefix
  <2>2. QED
    BY <1>2, <2>1
<1>6. QED
  BY <1>4, <1>5

Events == Seq([kind : EventKinds, adapter : Adapters \cup {None}])

\* Prefixes compose, and keep what happened.
LEMMA PrefixKeeps ==
  ASSUME NEW j \in Journals, NEW k \in Journals, IsPrefix(j.events, k.events)
  PROVE  /\ Kinds(j) \subseteq Kinds(k)
         /\ \A a : EverSucceeded(j, a) => EverSucceeded(k, a)
         /\ \A l \in Journals : IsPrefix(k.events, l.events) => IsPrefix(j.events, l.events)
<1>1. j.events \in Events /\ k.events \in Events /\ \A l \in Journals : l.events \in Events
  BY DEF Journals, Events
<1>2. Len(j.events) <= Len(k.events) /\ \A i \in 1 .. Len(j.events) : j.events[i] = k.events[i]
  BY <1>1, PrefixFact DEF Events
<1>3. DOMAIN j.events \subseteq DOMAIN k.events /\ \A i \in DOMAIN j.events : j.events[i] = k.events[i]
  BY <1>1, <1>2 DEF Events
<1>4. ASSUME NEW l \in Journals, IsPrefix(k.events, l.events) PROVE IsPrefix(j.events, l.events)
  <2>1. Len(k.events) <= Len(l.events) /\ \A i \in 1 .. Len(k.events) : k.events[i] = l.events[i]
    BY <1>1, <1>4, PrefixFact DEF Events
  <2>2. Len(j.events) <= Len(l.events) /\ \A i \in 1 .. Len(j.events) : j.events[i] = l.events[i]
    BY <1>1, <1>2, <2>1 DEF Events
  <2>3. QED
    BY <1>1, <2>2, PrefixFact DEF Events
<1>5. QED
  BY <1>3, <1>4 DEF Kinds, EverSucceeded
-----------------------------------------------------------------------------
(* What the writes of a transaction do to its journal.                      *)

\* What a journal says of a transaction is borne out by its history.
Sound(j, id) ==
  /\ DOMAIN j.status = id.platforms
  /\ \A a \in id.platforms : j.status[a] = "succeeded" => EverSucceeded(j, a)
  /\ j.state = "staged" => "stage" \in Kinds(j)
  /\ j.state \in {"validated"} \cup CommittedStates => {"stage", "validated"} \subseteq Kinds(j)

\* A journal the parser accepts as committed was staged and validated.
LEMMA ParsedIsValidated ==
  ASSUME NEW j, Parses(j), j.state \in CommittedStates
  PROVE  {"stage", "validated"} \subseteq Kinds(j)
BY DEF Parses, CommitRecorded, StateAgrees

\* An event is added at the end.
LEMMA AppendedFact ==
  ASSUME NEW j \in Journals, NEW state \in OpenStates \cup CommittedStates,
         NEW kind \in EventKinds, NEW a \in Adapters \cup {None}
  PROVE  LET n == Appended(j, state, kind, a) IN
         /\ n \in Journals /\ n.status = j.status /\ n.state = state
         /\ IsPrefix(j.events, n.events)
         /\ kind \in Kinds(n)
         /\ kind = "succeeded" => EverSucceeded(n, a)
<1> DEFINE e == Happened(kind, a)
           n == Appended(j, state, kind, a)
<1>1. e \in [kind : EventKinds, adapter : Adapters \cup {None}] /\ e.kind = kind
  BY DEF Happened
<1>2. j.events \in Events
  BY DEF Journals, Events
<1>3. /\ Append(j.events, e) \in Events
      /\ Len(Append(j.events, e)) = Len(j.events) + 1
      /\ Append(j.events, e)[Len(j.events) + 1] = e
      /\ \A i \in 1 .. Len(j.events) : Append(j.events, e)[i] = j.events[i]
  BY <1>1, <1>2 DEF Events
<1>4. /\ n \in Journals /\ n.status = j.status /\ n.state = state
      /\ n.events = Append(j.events, e)
  BY <1>3 DEF Appended, Journals, Events
<1> HIDE DEF n, e
<1>5. IsPrefix(j.events, n.events)
  <2>1. n.events \in Events /\ Len(j.events) <= Len(n.events)
        /\ \A i \in 1 .. Len(j.events) : j.events[i] = n.events[i]
    BY <1>2, <1>3, <1>4 DEF Events
  <2>2. QED
    BY <1>2, <2>1, PrefixFact DEF Events
<1>6. Len(j.events) + 1 \in DOMAIN n.events /\ n.events[Len(j.events) + 1] = e
  BY <1>2, <1>3, <1>4 DEF Events
<1>7. kind \in Kinds(n) /\ (kind = "succeeded" => EverSucceeded(n, a))
  BY <1>1, <1>6 DEF Kinds, EverSucceeded, e
<1>8. QED
  BY <1>4, <1>5, <1>7 DEF n

\* An event of an adapter leaves its status.
LEMMA StatusFact ==
  ASSUME NEW j \in Journals, NEW a \in DOMAIN j.status, NEW s \in Statuses
  PROVE  LET n == [j EXCEPT !.status[a] = s] IN
         /\ n \in Journals /\ n.events = j.events /\ n.state = j.state
         /\ n.status = [j.status EXCEPT ![a] = s]
<1>1. PICK platforms \in SUBSET Adapters : j.status \in [platforms -> Statuses]
  BY DEF Journals
<1>2. [j.status EXCEPT ![a] = s] \in [platforms -> Statuses]
  BY <1>1
<1>3. QED
  BY <1>2 DEF Journals

\* What an attempt of an adapter leaves in the journal.
LEMMA AttemptFact ==
  ASSUME NEW j \in Journals, NEW a \in DOMAIN j.status, a \in Adapters,
         NEW n \in {Started(j, a), Failed(j, a), Succeeded(j, a)}
  PROVE  /\ n \in Journals /\ IsPrefix(j.events, n.events)
         /\ n.state \in CommittedStates
         /\ DOMAIN n.status = DOMAIN j.status
         /\ \A b \in DOMAIN j.status :
              n.status[b] = "succeeded" => j.status[b] = "succeeded" \/ EverSucceeded(n, b)
<1>1. ASSUME NEW state \in CommittedStates, NEW kind \in AdapterKinds, NEW s \in Statuses,
             s = "succeeded" => kind = "succeeded",
             n = [Appended(j, state, kind, a) EXCEPT !.status[a] = s]
      PROVE  /\ n \in Journals /\ IsPrefix(j.events, n.events)
             /\ n.state \in CommittedStates
             /\ DOMAIN n.status = DOMAIN j.status
             /\ \A b \in DOMAIN j.status :
                  n.status[b] = "succeeded" => j.status[b] = "succeeded" \/ EverSucceeded(n, b)
  <2> DEFINE m == Appended(j, state, kind, a)
  <2>1. kind \in EventKinds
    BY DEF EventKinds
  <2>2. /\ m \in Journals /\ m.status = j.status /\ m.state = state
        /\ IsPrefix(j.events, m.events)
        /\ kind = "succeeded" => EverSucceeded(m, a)
    BY <2>1, AppendedFact
  <2> HIDE DEF m
  <2>3. n = [m EXCEPT !.status[a] = s]
    BY <1>1 DEF m
  <2>4. /\ n \in Journals /\ n.events = m.events /\ n.state = m.state
        /\ n.status = [m.status EXCEPT ![a] = s]
    BY <2>2, <2>3, StatusFact
  <2>5. EverSucceeded(n, a) <=> EverSucceeded(m, a)
    BY <2>4 DEF EverSucceeded
  <2>6. DOMAIN n.status = DOMAIN j.status
        /\ \A b \in DOMAIN j.status : n.status[b] = IF b = a THEN s ELSE j.status[b]
    BY <2>2, <2>4
  <2>7. QED
    BY <1>1, <2>2, <2>4, <2>5, <2>6
<1>2. CASE n = Started(j, a)
  BY <1>1, <1>2 DEF Started, CommittedStates, AdapterKinds, Statuses
<1>3. CASE n = Failed(j, a)
  BY <1>1, <1>3 DEF Failed, CommittedStates, AdapterKinds, Statuses
<1>4. CASE n = Succeeded(j, a)
  <2>1. PICK state \in CommittedStates :
          n = [Appended(j, state, "succeeded", a) EXCEPT !.status[a] = "succeeded"]
    BY <1>4 DEF Succeeded, CommittedStates
  <2>2. QED
    BY <1>1, <2>1 DEF AdapterKinds, Statuses
<1>5. QED
  BY <1>2, <1>3, <1>4
-----------------------------------------------------------------------------
(* The inductive invariant.                                                 *)

Runs == Transactions \cup Follows \cup Leavings \cup {Idle}

\* What a process has seen of its journal is a prefix of what is there.
SnapOK(r) ==
  r \in Transactions =>
    /\ r.needed # None => r.needed \subseteq r.id.platforms
    /\ r.step # "open" =>
         /\ r.snap \in Journals /\ r.id \in DOMAIN journals
         /\ IsPrefix(r.snap.events, journals[r.id].events)
         /\ Sound(r.snap, r.id)
    /\ r.step = "revisit" => r.snap.state \in CommittedStates
    /\ r.step \in {"reconcile", "attempt", "record"} => r.needed \subseteq r.id.platforms
    /\ r.step \in {"attempt", "record"} => r.needed # {}

\* A detach under way has an adapter to detach, and the plan it made of it.
LeaveOK(r) == r \in Leavings /\ r.step # "plan" => r.left # {} /\ r.saw # None

\* A rollback leaves an install state, whose adapters are to follow.
FollowOK(r) == r \in Follows => install # None

JournalsSound == \A id \in DOMAIN journals : Sound(journals[id], id)

Earned ==
  \A a \in ActiveOf(install) :
    /\ \E id \in DOMAIN journals : /\ id.gen = install.adapters[a].fp
                                   /\ EverSucceeded(journals[id], a)
    /\ a \in install.id.platforms =>
         install.id \in DOMAIN journals /\ EverSucceeded(journals[install.id], a)

IInv ==
  /\ TypeOK
  /\ JournalsSound
  /\ \A p \in Procs : SnapOK(run[p]) /\ LeaveOK(run[p]) /\ FollowOK(run[p])
  /\ Earned
  /\ ActiveSealed

\* Nothing has been done at the start.
LEMMA InitIInv == Init => IInv
<1> SUFFICES ASSUME Init PROVE IInv
  OBVIOUS
<1>1. DOMAIN journals = {} /\ journals \in [DOMAIN journals -> Journals]
  BY DEF Init
<1>2. host \in Hosts /\ spent \in [commands : Nat, crashes : Nat, failures : Nat]
  BY DEF Init, Hosts
<1>3. TypeOK
  BY <1>1, <1>2 DEF Init, TypeOK
<1>4. \A p \in Procs : run[p] = Idle
  BY DEF Init
<1>5. Idle \notin Transactions /\ Idle \notin Leavings /\ Idle \notin Follows
  BY DEF Idle, Transactions, TransactionSteps, Leavings, Follows
<1>6. QED
  BY <1>1, <1>3, <1>4, <1>5
  DEF Init, IInv, JournalsSound, SnapOK, LeaveOK, FollowOK, Earned, ActiveOf, ActiveSealed

\* The step a process is at says what it is in the middle of.
LEMMA InTransaction ==
  ASSUME TypeOK, NEW p \in Procs, run[p].step \in TransactionSteps
  PROVE  run[p] \in Transactions
<1>1. run[p] \in Runs
  BY DEF TypeOK, Runs
<1>2. run[p] \notin Follows /\ run[p] \notin Leavings /\ run[p] # Idle
  BY DEF Follows, Leavings, Idle, TransactionSteps
<1>3. QED
  BY <1>1, <1>2 DEF Runs

LEMMA InLeaving ==
  ASSUME TypeOK, NEW p \in Procs, run[p].step \in {"plan", "remove", "removed"}
  PROVE  run[p] \in Leavings
<1>1. run[p] \in Runs
  BY DEF TypeOK, Runs
<1>2. run[p] \notin Follows /\ run[p] \notin Transactions /\ run[p] # Idle
  BY DEF Follows, Transactions, Idle, TransactionSteps
<1>3. QED
  BY <1>1, <1>2 DEF Runs

LEMMA InFollow ==
  ASSUME TypeOK, NEW p \in Procs, run[p].step = "follow"
  PROVE  run[p] \in Follows
<1>1. run[p] \in Runs
  BY DEF TypeOK, Runs
<1>2. run[p] \notin Leavings /\ run[p] \notin Transactions /\ run[p] # Idle
  BY DEF Leavings, Transactions, Idle, TransactionSteps
<1>3. QED
  BY <1>1, <1>2 DEF Runs

-----------------------------------------------------------------------------
(* What every step does to the journals and to the process that takes it.   *)

\* Journals are added and grow, and stay sound.
Grown ==
  /\ DOMAIN journals' \subseteq Ids /\ journals' \in [DOMAIN journals' -> Journals]
  /\ DOMAIN journals \subseteq DOMAIN journals'
  /\ \A id \in DOMAIN journals : IsPrefix(journals[id].events, journals'[id].events)
  /\ JournalsSound'

\* One process moves on, with a snapshot that is a prefix of its journal.
Moves(p) ==
  \E r \in Runs : run' = [run EXCEPT ![p] = r] /\ SnapOK(r)' /\ LeaveOK(r) /\ FollowOK(r)'

LEMMA PrefixOfItself ==
  ASSUME NEW j \in Journals
  PROVE  IsPrefix(j.events, j.events)
<1>1. j.events \in Events
  BY DEF Journals, Events
<1>2. QED
  BY <1>1, PrefixFact DEF Events

LEMMA SameJournals ==
  ASSUME IInv, UNCHANGED journals
  PROVE  Grown /\ \A r : SnapOK(r) => SnapOK(r)'
<1>1. \A id \in DOMAIN journals : journals[id] \in Journals
  BY DEF IInv, TypeOK
<1>2. Grown
  BY <1>1, PrefixOfItself DEF IInv, TypeOK, Grown, JournalsSound
<1>3. QED
  BY <1>2 DEF SnapOK

LEMMA IdleMoves ==
  ASSUME NEW p, End(p)
  PROVE  Moves(p)
<1>1. Idle \in Runs /\ Idle \notin Transactions /\ Idle \notin Leavings /\ Idle \notin Follows
  BY DEF Runs, Idle, Transactions, TransactionSteps, Leavings, Follows
<1>2. QED
  BY <1>1 DEF Moves, End, SnapOK, LeaveOK, FollowOK

\* One journal is added, or extended.
LEMMA SetJournalFact ==
  ASSUME IInv, NEW id \in Ids, NEW j \in Journals, Sound(j, id), SetJournal(id, j),
         id \in DOMAIN journals => IsPrefix(journals[id].events, j.events)
  PROVE  Grown /\ id \in DOMAIN journals' /\ journals'[id] = j
<1>1. /\ DOMAIN journals' = DOMAIN journals \cup {id}
      /\ \A i \in DOMAIN journals' : journals'[i] = IF i = id THEN j ELSE journals[i]
  BY DEF SetJournal
<1>2. journals' \in [DOMAIN journals' -> Journals]
  BY <1>1 DEF IInv, TypeOK, SetJournal
<1>3. \A i \in DOMAIN journals : IsPrefix(journals[i].events, journals'[i].events)
  BY <1>1, PrefixOfItself DEF IInv, TypeOK
<1>4. JournalsSound'
  BY <1>1 DEF IInv, JournalsSound
<1>5. QED
  BY <1>1, <1>2, <1>3, <1>4 DEF Grown, IInv, TypeOK

\* A compare-and-swap: the process goes on with what it wrote, or ends.
LEMMA WriteFact ==
  ASSUME IInv, NEW p \in Procs, run[p] \in Transactions, run[p].step # "open",
         NEW next \in Journals, IsPrefix(run[p].snap.events, next.events),
         Parses(next) => Sound(next, run[p].id),
         NEW step \in TransactionSteps \ {"open", "revisit"},
         step \in {"reconcile", "attempt", "record"} => run[p].needed \subseteq run[p].id.platforms,
         step \in {"attempt", "record"} => run[p].needed # {},
         Write(p, next, step)
  PROVE  Grown /\ Moves(p)
<1> SUFFICES ASSUME NEW r, r = run[p] PROVE Grown /\ Moves(p)
  OBVIOUS
<1> DEFINE n == [r EXCEPT !.snap = next, !.step = step]
<1>1. CASE ~Accepts(r, next)
  BY <1>1, SameJournals, IdleMoves DEF Write
<1>2. CASE Accepts(r, next)
  <2>1. r.id \in Ids /\ r.id \in DOMAIN journals /\ journals[r.id] = r.snap /\ Sound(next, r.id)
    BY <1>2 DEF IInv, SnapOK, Accepts, Journal, Transactions
  <2>2. SetJournal(r.id, next) /\ run' = [run EXCEPT ![p] = n]
    BY <1>2 DEF Write
  <2>3. Grown /\ r.id \in DOMAIN journals' /\ journals'[r.id] = next
    BY <2>1, <2>2, SetJournalFact
  <2>4. /\ n \in Transactions /\ n.snap = next /\ n.step = step /\ n.id = r.id
        /\ n.needed = r.needed
    BY DEF Transactions
  <2>5. n \in Runs /\ LeaveOK(n) /\ n \notin Follows
    BY <2>4 DEF Runs, LeaveOK, Leavings, TransactionSteps, Follows
  <2>6. SnapOK(n)'
    <3>1. r.needed # None => r.needed \subseteq r.id.platforms
      BY DEF IInv, SnapOK
    <3> HIDE DEF n
    <3>2. QED
      BY <2>1, <2>3, <2>4, <3>1, PrefixOfItself DEF SnapOK
  <2>7. QED
    BY <2>2, <2>3, <2>5, <2>6 DEF Moves, FollowOK
<1>3. QED
  BY <1>1, <1>2
\* The process goes on with a transaction whose snapshot still fits.
LEMMA GoesOn ==
  ASSUME IInv, NEW p, NEW n \in Transactions, SnapOK(n), UNCHANGED journals,
         run' = [run EXCEPT ![p] = n]
  PROVE  Grown /\ Moves(p)
<1>1. Grown /\ SnapOK(n)'
  BY SameJournals
<1>2. n \in Runs /\ LeaveOK(n) /\ n \notin Follows
  BY DEF Runs, LeaveOK, Transactions, Leavings, TransactionSteps, Follows
<1>3. QED
  BY <1>1, <1>2 DEF Moves, FollowOK

\* It goes on to another step with all it had.
LEMMA GoesTo ==
  ASSUME IInv, NEW p \in Procs, run[p] \in Transactions, run[p].step # "open",
         NEW step \in TransactionSteps \ {"open", "revisit", "reconcile", "attempt", "record"},
         To(p, step), UNCHANGED journals
  PROVE  Grown /\ Moves(p)
<1> SUFFICES ASSUME NEW r, r = run[p] PROVE Grown /\ Moves(p)
  OBVIOUS
<1> DEFINE n == [r EXCEPT !.step = step]
<1>1. n \in Transactions /\ n.step = step /\ n.id = r.id /\ n.needed = r.needed /\ n.snap = r.snap
  BY DEF Transactions
<1>2. run' = [run EXCEPT ![p] = n]
  BY DEF To, IInv, TypeOK
<1>3. SnapOK(r)
  BY DEF IInv
<1> HIDE DEF n
<1>4. SnapOK(n)
  BY <1>1, <1>3 DEF SnapOK
<1>5. QED
  BY <1>1, <1>2, <1>4, GoesOn

\* A command begins a transaction, which has seen no journal yet.
LEMMA BegunFact ==
  ASSUME TypeOK, NEW op \in {"init", "update", "reconcile"}, NEW gen \in Gens,
         NEW platforms \in SUBSET Adapters, NEW replaces \in BOOLEAN,
         op # "init" => install # None
  PROVE  LET n == Transaction(op, gen, platforms, replaces) IN
         n \in Transactions /\ n.step = "open" /\ n.needed = None
<1>1. (IF op = "init" THEN None ELSE install.gen) \in Gens \cup {None}
  BY DEF TypeOK, Installed
<1>2. install \in Installed \cup {None} /\ spent.commands + 1 \in Nat /\ op # "rollback"
  BY DEF TypeOK
<1> DEFINE id == [op |-> op, gen |-> gen, platforms |-> platforms,
                  source |-> IF op = "init" THEN None ELSE install.gen]
<1>3. id \in Ids
  BY <1>1 DEF Ids
<1> HIDE DEF id
<1> DEFINE n == [step |-> "open", id |-> id, expected |-> install, at |-> spent.commands + 1,
                 replaces |-> replaces, snap |-> None, needed |-> None, inst |-> None, ok |-> FALSE]
<1>4. n = Transaction(op, gen, platforms, replaces)
  BY DEF Transaction, id
<1>5. n \in Transactions /\ n.step = "open" /\ n.needed = None
  BY <1>2, <1>3 DEF Transactions, TransactionSteps
<1> HIDE DEF n
<1>6. QED
  BY <1>4, <1>5

LEMMA BeginFact ==
  ASSUME IInv, NEW p, NEW n \in Transactions, n.step = "open", n.needed = None,
         UNCHANGED journals, run' = [run EXCEPT ![p] = n]
  PROVE  Grown /\ Moves(p)
<1>1. SnapOK(n)
  BY DEF SnapOK
<1>2. QED
  BY <1>1, GoesOn

\* The first install state of a commit, and the last, are install states.
LEMMA PendingTyped ==
  ASSUME TypeOK, NEW r \in Transactions
  PROVE  PendingInstall(r) \in Installed
<1> DEFINE old == IF install = None THEN [a \in Adapters |-> NoAdapter] ELSE install.adapters
           S == [status : {"absent", "degraded", "active", "detached"}, fp : Gens \cup {None}]
<1>1. CASE AlreadyCommitted(install, r.id)
  BY <1>1 DEF PendingInstall, AlreadyCommitted, TypeOK
<1>2. CASE ~AlreadyCommitted(install, r.id)
  <2>1. old \in [Adapters -> S]
    BY DEF TypeOK, Installed, NoAdapter
  <2> HIDE DEF old
  <2>2. [a \in Adapters |-> IF a \in r.id.platforms THEN [old[a] EXCEPT !.status = "degraded"]
                            ELSE old[a]] \in [Adapters -> S]
    BY <2>1
  <2>3. r.id \in Ids /\ r.id.gen \in Gens /\ r.at \in Nat
    BY DEF Transactions, Ids
  <2>4. QED
    BY <1>2, <2>2, <2>3 DEF PendingInstall, Installed, old
<1>3. QED
  BY <1>1, <1>2

LEMMA FinalizedTyped ==
  ASSUME TypeOK, NEW r \in Transactions, install # None
  PROVE  Finalized(r) \in Installed
<1> DEFINE S == [status : {"absent", "degraded", "active", "detached"}, fp : Gens \cup {None}]
           f == [a \in Adapters |->
                   IF a \in r.id.platforms
                   THEN [status |-> IF r.snap.status[a] = "succeeded" THEN "active" ELSE "degraded",
                         fp |-> IF EverSucceeded(r.snap, a) THEN r.id.gen ELSE install.adapters[a].fp]
                   ELSE install.adapters[a]]
<1>1. install \in Installed /\ install.adapters \in [Adapters -> S]
  BY DEF TypeOK, Installed
<1>2. r.id.gen \in Gens /\ r.at \in Nat
  BY DEF Transactions, Ids
<1>3. f \in [Adapters -> S]
  BY <1>1, <1>2
<1> HIDE DEF f
<1>4. [install EXCEPT !.at = r.at, !.adapters = f] \in Installed
  BY <1>1, <1>2, <1>3 DEF Installed
<1>5. QED
  BY <1>4 DEF Finalized, f

LEMMA StatusTyped ==
  ASSUME TypeOK, install # None, NEW a \in Adapters, NEW at \in Nat,
         NEW status \in {"absent", "degraded", "active", "detached"}, NEW fp \in Gens \cup {None}
  PROVE  /\ SetStatus(a, status, fp, at) \in Installed
         /\ install.adapters[a].fp \in Gens \cup {None}
BY DEF TypeOK, Installed, SetStatus

\* A journal that a transaction finds, or the new one, is opened.
LEMMA OpenFact ==
  ASSUME IInv, NEW p \in Procs, Open(p)
  PROVE  Grown /\ Moves(p)
<1> SUFFICES ASSUME NEW r, r = run[p] PROVE Grown /\ Moves(p)
  OBVIOUS
<1>0. r \in Transactions /\ r.step = "open" /\ SnapOK(r)
  BY InTransaction DEF Open, At, TransactionSteps, IInv
<1>1. r.id \in Ids /\ r.id.platforms \in SUBSET Adapters
  BY <1>0 DEF Transactions, Ids
<1>2. ASSUME NEW j \in Journals, Sound(j, r.id), r.id \in DOMAIN journals', journals'[r.id] = j, Grown,
             run' = [run EXCEPT ![p] = [r EXCEPT !.snap = j, !.step = StepAfterOpen(j.state)]]
      PROVE  Moves(p)
  <2> DEFINE n == [r EXCEPT !.snap = j, !.step = StepAfterOpen(j.state)]
  <2>1. /\ StepAfterOpen(j.state) \in {"revisit", "advance", "resume"}
        /\ StepAfterOpen(j.state) = "revisit" => j.state \in CommittedStates
    BY DEF StepAfterOpen, CommittedStates
  <2>2. /\ n \in Transactions /\ n.snap = j /\ n.step = StepAfterOpen(j.state) /\ n.id = r.id
        /\ n.needed = r.needed
    BY <1>0, <2>1 DEF Transactions, TransactionSteps
  <2>3. n \in Runs /\ LeaveOK(n) /\ n \notin Follows
    BY <2>2 DEF Runs, LeaveOK, Leavings, Transactions, TransactionSteps, Follows
  <2> HIDE DEF n
  <2>4. SnapOK(n)'
    BY <1>0, <1>2, <2>1, <2>2, PrefixOfItself DEF SnapOK
  <2>5. QED
    BY <1>2, <2>3, <2>4 DEF Moves, FollowOK, n
<1>3. CASE r.id \in DOMAIN journals
  <2> DEFINE j == journals[r.id]
  <2>1. j \in Journals /\ Sound(j, r.id) /\ j # None
    BY <1>3, OrderAssumption DEF IInv, TypeOK, JournalsSound
  <2>2. UNCHANGED journals
        /\ run' = [run EXCEPT ![p] = [r EXCEPT !.snap = j, !.step = StepAfterOpen(j.state)]]
    BY <1>3, <2>1 DEF Open, Journal
  <2>3. Grown
    BY <2>2, SameJournals
  <2>4. QED
    BY <1>2, <1>3, <2>1, <2>2, <2>3
<1>4. CASE r.id \notin DOMAIN journals
  <2> DEFINE j == NewJournal(r.id.platforms)
  <2>1. [a \in r.id.platforms |-> "pending"] \in [r.id.platforms -> Statuses]
        /\ <<Happened("planned", None)>> \in Events
    BY DEF Statuses, Happened, Events, EventKinds
  <2>2. j \in Journals
    BY <1>1, <2>1 DEF NewJournal, Journals, OpenStates, Events
  <2>3. Sound(j, r.id)
    BY DEF NewJournal, Sound, CommittedStates
  <2> HIDE DEF j
  <2>4. SetJournal(r.id, j)
        /\ run' = [run EXCEPT ![p] = [r EXCEPT !.snap = j, !.step = StepAfterOpen(j.state)]]
    BY <1>4 DEF Open, Journal, j
  <2>5. Grown /\ r.id \in DOMAIN journals' /\ journals'[r.id] = j
    BY <1>1, <1>4, <2>2, <2>3, <2>4, SetJournalFact
  <2>6. QED
    BY <1>2, <2>2, <2>3, <2>4, <2>5
<1>5. QED
  BY <1>3, <1>4

-----------------------------------------------------------------------------
(* The steps of a transaction, one after the other.                         *)

\* The files besides the journals are what they should be.
Typed ==
  /\ install \in Installed \cup {None}
  /\ gens \in [Gens -> {"absent", "staging", "sealed"}]
  /\ live \in Contents \cup {Torn, None}
  /\ host \in Hosts
  /\ spent \in [commands : Nat, crashes : Nat, failures : Nat]

Preserved(p) ==
  /\ Grown /\ Moves(p) /\ Typed'
  /\ install # None => install' # None
  /\ Earned' /\ ActiveSealed'

\* Where the install state stays and no generation loses its seal, what is
\* active stays earned and sealed.
LEMMA SameInstall ==
  ASSUME IInv, Grown, UNCHANGED install, \A g \in Gens : gens[g] = "sealed" => gens'[g] = "sealed"
  PROVE  Earned' /\ ActiveSealed'
<1>1. \A id \in DOMAIN journals :
        /\ id \in DOMAIN journals'
        /\ Kinds(journals[id]) \subseteq Kinds(journals'[id])
        /\ \A a : EverSucceeded(journals[id], a) => EverSucceeded(journals'[id], a)
  BY PrefixKeeps DEF IInv, TypeOK, Grown
<1>2. Earned'
  BY <1>1 DEF IInv, Earned, ActiveOf
<1>3. install # None => install.gen \in Gens
  BY DEF IInv, TypeOK, Installed
<1>4. ActiveSealed'
  BY <1>1, <1>3 DEF IInv, ActiveSealed
<1>5. QED
  BY <1>2, <1>4

LEMMA OnlyJournals ==
  ASSUME IInv, NEW p, Grown /\ Moves(p), UNCHANGED <<install, gens, live, host, spent>>
  PROVE  Preserved(p)
<1>1. Typed'
  BY DEF IInv, TypeOK, Typed
<1>2. QED
  BY <1>1, SameInstall DEF Preserved

\* What a transaction that has opened its journal knows.
LEMMA Opened ==
  ASSUME IInv, NEW p \in Procs, run[p].step \in TransactionSteps \ {"open"}
  PROVE  /\ run[p] \in Transactions /\ run[p].id \in Ids /\ run[p].id.platforms \in SUBSET Adapters
         /\ run[p].snap \in Journals /\ run[p].id \in DOMAIN journals
         /\ IsPrefix(run[p].snap.events, journals[run[p].id].events)
         /\ Sound(run[p].snap, run[p].id)
<1>1. run[p] \in Transactions
  BY InTransaction DEF IInv
<1>2. QED
  BY <1>1 DEF IInv, SnapOK, Transactions, Ids

\* An event that is no adapter's is written with the state it leads to.
LEMMA MarkFact ==
  ASSUME IInv, NEW p \in Procs, run[p].step \in TransactionSteps \ {"open"},
         NEW kind \in EventKinds \ AdapterKinds, NEW state \in OpenStates \cup CommittedStates,
         NEW next, next = Appended(run[p].snap, state, kind, None),
         state = "staged" => kind = "stage",
         state = "validated" => kind = "validated" /\ run[p].snap.state = "staged",
         NEW step \in TransactionSteps \ {"open", "revisit", "reconcile", "attempt", "record"},
         Write(p, next, step), UNCHANGED <<install, gens, live, host, spent>>
  PROVE  Preserved(p)
<1> SUFFICES ASSUME NEW r, r = run[p] PROVE Preserved(p)
  OBVIOUS
<1>1. r \in Transactions /\ r.snap \in Journals /\ Sound(r.snap, r.id)
  BY Opened
<1>2. /\ next \in Journals /\ next.status = r.snap.status /\ next.state = state
      /\ IsPrefix(r.snap.events, next.events) /\ kind \in Kinds(next)
  BY <1>1, AppendedFact
<1>3. /\ Kinds(r.snap) \subseteq Kinds(next)
      /\ \A a : EverSucceeded(r.snap, a) => EverSucceeded(next, a)
  BY <1>1, <1>2, PrefixKeeps
<1>4. ASSUME Parses(next) PROVE Sound(next, r.id)
  <2>1. state \in CommittedStates => {"stage", "validated"} \subseteq Kinds(next)
    BY <1>2, <1>4, ParsedIsValidated
  <2>2. state = "validated" => {"stage", "validated"} \subseteq Kinds(next)
    BY <1>1, <1>2, <1>3 DEF Sound
  <2>3. QED
    BY <1>1, <1>2, <1>3, <2>1, <2>2 DEF Sound
<1>5. Grown /\ Moves(p)
  BY <1>1, <1>2, <1>4, WriteFact
<1>6. QED
  BY <1>5, OnlyJournals

LEMMA OpenStep ==
  ASSUME IInv, NEW p \in Procs, Open(p)
  PROVE  Preserved(p)
BY OpenFact, OnlyJournals DEF Open

LEMMA BackUpStep ==
  ASSUME IInv, NEW p \in Procs, BackUp(p)
  PROVE  Preserved(p)
BY MarkFact DEF BackUp, Advancing, At, TransactionSteps, EventKinds, AdapterKinds, OpenStates

LEMMA RecordStagedStep ==
  ASSUME IInv, NEW p \in Procs, RecordStaged(p)
  PROVE  Preserved(p)
BY MarkFact DEF RecordStaged, At, TransactionSteps, EventKinds, AdapterKinds, OpenStates

LEMMA EndStep ==
  ASSUME IInv, NEW p, End(p), UNCHANGED <<journals, install, gens, live, host, spent>>
  PROVE  Preserved(p)
BY IdleMoves, SameJournals, OnlyJournals

LEMMA ValidateStep ==
  ASSUME IInv, NEW p \in Procs, Validate(p)
  PROVE  Preserved(p)
<1>1. CASE gens[run[p].id.gen] = "sealed"
  BY <1>1, MarkFact DEF Validate, Advancing, At, TransactionSteps, EventKinds, AdapterKinds, OpenStates
<1>2. CASE gens[run[p].id.gen] # "sealed"
  BY <1>2, EndStep DEF Validate
<1>3. QED
  BY <1>1, <1>2

\* The snapshot that records the commit is also marked as committed.
LEMMA RecordCommitStep ==
  ASSUME IInv, NEW p \in Procs, RecordCommit(p)
  PROVE  Preserved(p)
<1> SUFFICES ASSUME NEW r, r = run[p] PROVE Preserved(p)
  OBVIOUS
<1> DEFINE m == Appended(r.snap, "committed", "committed", None)
           next == Committed(r.snap)
<1>1. /\ r.step = "activated" /\ Write(p, next, "advanced")
      /\ UNCHANGED <<install, gens, live, host, spent>>
  BY DEF RecordCommit, At
<1>2. r \in Transactions /\ r.snap \in Journals /\ Sound(r.snap, r.id)
  BY <1>1, Opened DEF TransactionSteps
<1>3. /\ m \in Journals /\ m.status = r.snap.status /\ m.state = "committed"
      /\ IsPrefix(r.snap.events, m.events)
  BY <1>2, AppendedFact DEF CommittedStates, EventKinds
<1> HIDE DEF m
<1>4. /\ next \in Journals /\ next.status = m.status /\ next.state = m.state
      /\ next.events = m.events
  BY <1>3 DEF Committed, Journals, m
<1> HIDE DEF next
<1>5. \A a : EverSucceeded(r.snap, a) => EverSucceeded(next, a)
  BY <1>2, <1>3, <1>4, PrefixKeeps
<1>6. ASSUME Parses(next) PROVE Sound(next, r.id)
  BY <1>2, <1>3, <1>4, <1>5, <1>6, ParsedIsValidated DEF Sound, CommittedStates
<1>7. Grown /\ Moves(p)
  BY <1>1, <1>2, <1>3, <1>4, <1>6, WriteFact DEF TransactionSteps
<1>8. QED
  BY <1>1, <1>7, OnlyJournals

\* A journal that was completed is taken up again as committed.
LEMMA ReopenStep ==
  ASSUME IInv, NEW p \in Procs, Reopen(p)
  PROVE  Preserved(p)
<1> SUFFICES ASSUME NEW r, r = run[p] PROVE Preserved(p)
  OBVIOUS
<1> DEFINE next == [r.snap EXCEPT !.state = "committed"]
<1>1. /\ r.step = "reopen" /\ Write(p, next, "resume")
      /\ UNCHANGED <<install, gens, live, host, spent>>
  BY DEF Reopen, At
<1>2. r \in Transactions /\ r.snap \in Journals /\ Sound(r.snap, r.id)
  BY <1>1, Opened DEF TransactionSteps
<1>3. /\ next \in Journals /\ next.status = r.snap.status /\ next.state = "committed"
      /\ next.events = r.snap.events
  BY <1>2 DEF Journals, CommittedStates
<1> HIDE DEF next
<1>4. ASSUME Parses(next) PROVE Sound(next, r.id)
  <2>1. \A a : EverSucceeded(next, a) <=> EverSucceeded(r.snap, a)
    BY <1>3 DEF EverSucceeded
  <2>2. QED
    BY <1>2, <1>3, <1>4, <2>1, ParsedIsValidated DEF Sound, CommittedStates
<1>5. IsPrefix(r.snap.events, next.events)
  BY <1>2, <1>3, PrefixOfItself
<1>6. Grown /\ Moves(p)
  BY <1>1, <1>2, <1>3, <1>4, <1>5, WriteFact DEF TransactionSteps
<1>7. QED
  BY <1>1, <1>6, OnlyJournals

\* A transaction goes on with the install state it has just read, or ends.
LEMMA ReadStep ==
  ASSUME IInv, NEW p \in Procs, Advanced(p) \/ Resume(p)
  PROVE  Preserved(p)
<1> SUFFICES ASSUME NEW r, r = run[p] PROVE Preserved(p)
  OBVIOUS
<1> DEFINE n == [r EXCEPT !.inst = install, !.step = "materialize"]
<1>1. /\ r.step \in {"advanced", "resume"}
      /\ UNCHANGED <<journals, install, gens, live, host, spent>>
      /\ run' = [run EXCEPT ![p] = n] \/ End(p)
  BY DEF Advanced, Resume, At
<1>2. r \in Transactions /\ SnapOK(r)
  BY <1>1, Opened DEF TransactionSteps, IInv
<1>3. /\ n \in Transactions /\ n.step = "materialize" /\ n.id = r.id /\ n.needed = r.needed
      /\ n.snap = r.snap
  BY <1>2 DEF Transactions, TransactionSteps, IInv, TypeOK
<1> HIDE DEF n
<1>4. SnapOK(n)
  BY <1>1, <1>2, <1>3 DEF SnapOK
<1>5. QED
  BY <1>1, <1>3, <1>4, GoesOn, OnlyJournals, EndStep

-----------------------------------------------------------------------------
(* The adapters of a transaction.                                           *)

\* The adapter that is next has a status in the journal.
LEMMA NextHasStatus ==
  ASSUME IInv, NEW p \in Procs, run[p].step \in {"reconcile", "attempt", "record"},
         run[p].needed # {}
  PROVE  /\ run[p].needed \subseteq run[p].id.platforms
         /\ NextAdapter(run[p]) \in run[p].needed
         /\ NextAdapter(run[p]) \in Adapters /\ NextAdapter(run[p]) \in DOMAIN run[p].snap.status
<1> SUFFICES ASSUME NEW r, r = run[p]
             PROVE  /\ r.needed \subseteq r.id.platforms
                    /\ NextAdapter(r) \in r.needed
                    /\ NextAdapter(r) \in Adapters /\ NextAdapter(r) \in DOMAIN r.snap.status
  OBVIOUS
<1>1. r \in Transactions /\ r.id.platforms \in SUBSET Adapters /\ Sound(r.snap, r.id)
  BY Opened DEF TransactionSteps
<1>2. r.needed \subseteq r.id.platforms
  BY <1>1 DEF IInv, SnapOK
<1>3. QED
  BY <1>1, <1>2, NextIsNeeded DEF Sound

\* An attempt is written as begun, succeeded or failed.
LEMMA AttemptSound ==
  ASSUME IInv, NEW p \in Procs, run[p].step \in {"reconcile", "record"}, run[p].needed # {},
         NEW a, a = NextAdapter(run[p]),
         NEW next \in {Started(run[p].snap, a), Failed(run[p].snap, a), Succeeded(run[p].snap, a)}
  PROVE  /\ next \in Journals /\ IsPrefix(run[p].snap.events, next.events)
         /\ Parses(next) => Sound(next, run[p].id)
<1> SUFFICES ASSUME NEW r, r = run[p]
             PROVE  /\ next \in Journals /\ IsPrefix(r.snap.events, next.events)
                    /\ Parses(next) => Sound(next, r.id)
  OBVIOUS
<1>1. r.snap \in Journals /\ Sound(r.snap, r.id)
  BY Opened DEF TransactionSteps
<1>2. a \in Adapters /\ a \in DOMAIN r.snap.status
  BY NextHasStatus
<1>3. /\ next \in Journals /\ IsPrefix(r.snap.events, next.events)
      /\ next.state \in CommittedStates
      /\ DOMAIN next.status = DOMAIN r.snap.status
      /\ \A b \in DOMAIN r.snap.status :
           next.status[b] = "succeeded" => r.snap.status[b] = "succeeded" \/ EverSucceeded(next, b)
  BY <1>1, <1>2, AttemptFact
<1>4. \A b : EverSucceeded(r.snap, b) => EverSucceeded(next, b)
  BY <1>1, <1>3, PrefixKeeps
<1>5. Parses(next) => {"stage", "validated"} \subseteq Kinds(next)
  BY <1>3, ParsedIsValidated
<1>6. next.state # "staged"
  BY <1>3 DEF CommittedStates
<1>7. QED
  BY <1>1, <1>3, <1>4, <1>5, <1>6 DEF Sound

LEMMA AttemptBegins ==
  ASSUME IInv, NEW p \in Procs, FailInterrupted(p) \/ StartAttempt(p)
  PROVE  Preserved(p)
<1> SUFFICES ASSUME NEW r, r = run[p] PROVE Preserved(p)
  OBVIOUS
<1> DEFINE a == NextAdapter(r)
<1>1. /\ r.step = "reconcile" /\ r.needed # {}
      /\ Write(p, Failed(r.snap, a), "reconcile") \/ Write(p, Started(r.snap, a), "attempt")
      /\ UNCHANGED <<install, gens, live, host, spent>>
  BY DEF FailInterrupted, StartAttempt, Reconciling, At
<1>2. r \in Transactions /\ r.needed \subseteq r.id.platforms
  BY <1>1, Opened, NextHasStatus DEF TransactionSteps
<1>3. ASSUME NEW next \in {Started(r.snap, a), Failed(r.snap, a)}, NEW step \in {"reconcile", "attempt"},
             Write(p, next, step)
      PROVE  Grown /\ Moves(p)
  <2>1. /\ next \in Journals /\ IsPrefix(r.snap.events, next.events)
        /\ Parses(next) => Sound(next, r.id)
    BY <1>1, <1>3, AttemptSound
  <2>2. QED
    BY <1>1, <1>2, <1>3, <2>1, WriteFact DEF TransactionSteps
<1>4. Grown /\ Moves(p)
  BY <1>1, <1>3
<1>5. QED
  BY <1>1, <1>4, OnlyJournals

\* The outcome is recorded, and the adapter is done with.
LEMMA RecordStep ==
  ASSUME IInv, NEW p \in Procs, Record(p)
  PROVE  Preserved(p)
<1> SUFFICES ASSUME NEW r, r = run[p] PROVE Preserved(p)
  OBVIOUS
<1> DEFINE a == NextAdapter(r)
           next == IF r.ok THEN Succeeded(r.snap, a) ELSE Failed(r.snap, a)
           n == [r EXCEPT !.snap = next, !.needed = @ \ {a}, !.step = "reconcile"]
<1>1. /\ r.step = "record" /\ UNCHANGED <<install, gens, live, host, spent>>
      /\ IF Accepts(r, next) THEN SetJournal(r.id, next) /\ run' = [run EXCEPT ![p] = n]
                             ELSE UNCHANGED journals /\ End(p)
  BY DEF Record, At
<1>2. /\ r \in Transactions /\ r.id \in Ids /\ r.id \in DOMAIN journals
      /\ r.needed # {} /\ SnapOK(r)
  BY <1>1, Opened DEF TransactionSteps, IInv, SnapOK
<1>3. r.needed \subseteq r.id.platforms /\ r.id.platforms \in SUBSET Adapters
  BY <1>1, <1>2, NextHasStatus DEF Ids
<1>4. next \in {Started(r.snap, a), Failed(r.snap, a), Succeeded(r.snap, a)}
  OBVIOUS
<1>5. /\ next \in Journals /\ IsPrefix(r.snap.events, next.events)
      /\ Parses(next) => Sound(next, r.id)
  BY <1>1, <1>2, <1>4, AttemptSound
<1> HIDE DEF next
<1>6. CASE ~Accepts(r, next)
  BY <1>1, <1>6, EndStep
<1>7. CASE Accepts(r, next)
  <2>1. journals[r.id] = r.snap /\ Sound(next, r.id)
    BY <1>2, <1>5, <1>7 DEF Accepts, Journal
  <2>2. Grown /\ r.id \in DOMAIN journals' /\ journals'[r.id] = next
    BY <1>1, <1>2, <1>5, <1>7, <2>1, SetJournalFact
  <2>3. /\ n \in Transactions /\ n.snap = next /\ n.step = "reconcile" /\ n.id = r.id
        /\ n.needed = r.needed \ {a}
    <3> DEFINE left == r.needed \ {a}
    <3>1. left \in SUBSET Adapters
      BY <1>3
    <3>2. n = [r EXCEPT !.snap = next, !.needed = left, !.step = "reconcile"]
      OBVIOUS
    <3> HIDE DEF left, n
    <3>3. n \in Transactions /\ n.snap = next /\ n.step = "reconcile" /\ n.id = r.id
          /\ n.needed = left
      BY <1>2, <1>5, <3>1, <3>2 DEF Transactions, TransactionSteps
    <3>4. QED
      BY <3>3 DEF left
  <2>4. n \in Runs /\ LeaveOK(n) /\ n \notin Follows
    BY <2>3 DEF Runs, LeaveOK, Leavings, TransactionSteps, Follows
  <2>5. run' = [run EXCEPT ![p] = n]
    BY <1>1, <1>7
  <2> HIDE DEF n
  <2>6. SnapOK(n)'
    BY <1>3, <1>5, <2>1, <2>2, <2>3, PrefixOfItself DEF SnapOK
  <2>7. Moves(p)
    BY <2>4, <2>5, <2>6 DEF Moves, FollowOK
  <2>8. QED
    BY <1>1, <2>2, <2>7, OnlyJournals
<1>8. QED
  BY <1>6, <1>7

LEMMA CompleteStep ==
  ASSUME IInv, NEW p \in Procs, Complete(p)
  PROVE  Preserved(p)
<1> SUFFICES ASSUME NEW r, r = run[p] PROVE Preserved(p)
  OBVIOUS
<1> DEFINE next == Completed(r.snap)
<1>1. /\ r.step = "complete" /\ UNCHANGED <<install, gens, live, host, spent>> /\ End(p)
      /\ IF Accepts(r, next) THEN SetJournal(r.id, next) ELSE UNCHANGED journals
  BY DEF Complete, At
<1>2. /\ r.snap \in Journals /\ Sound(r.snap, r.id) /\ r.id \in Ids /\ r.id \in DOMAIN journals
  BY <1>1, Opened DEF TransactionSteps
<1>3. /\ next \in Journals /\ next.status = r.snap.status /\ next.state = "completed"
      /\ IsPrefix(r.snap.events, next.events)
  BY <1>2, AppendedFact DEF Completed, CommittedStates, EventKinds
<1> HIDE DEF next
<1>4. \A a : EverSucceeded(r.snap, a) => EverSucceeded(next, a)
  BY <1>2, <1>3, PrefixKeeps
<1>5. CASE ~Accepts(r, next)
  BY <1>1, <1>5, EndStep
<1>6. CASE Accepts(r, next)
  <2>1. journals[r.id] = r.snap /\ Parses(next)
    BY <1>2, <1>6 DEF Accepts, Journal
  <2>2. Sound(next, r.id)
    BY <1>2, <1>3, <1>4, <2>1, ParsedIsValidated DEF Sound, CommittedStates
  <2>3. Grown
    BY <1>1, <1>2, <1>3, <1>6, <2>1, <2>2, SetJournalFact
  <2>4. QED
    BY <1>1, <2>3, IdleMoves, OnlyJournals
<1>7. QED
  BY <1>5, <1>6

-----------------------------------------------------------------------------
(* The generations, the live view and the host.                             *)

LEMMA SameInstallStep ==
  ASSUME IInv, NEW p, Grown /\ Moves(p), UNCHANGED install, Typed',
         \A g \in Gens : gens[g] = "sealed" => gens'[g] = "sealed"
  PROVE  Preserved(p)
BY SameInstall DEF Preserved

LEMMA StageStep ==
  ASSUME IInv, NEW p \in Procs, Stage(p)
  PROVE  Preserved(p)
<1> SUFFICES ASSUME NEW r, r = run[p] PROVE Preserved(p)
  OBVIOUS
<1>1. /\ r.step = "advance" /\ UNCHANGED <<install, journals, live, host, spent>>
      /\ To(p, "seal") \/ To(p, "staged") \/ End(p)
      /\ \/ UNCHANGED gens
         \/ gens[r.id.gen] = "absent" /\ gens' = [gens EXCEPT ![r.id.gen] = "staging"]
  BY DEF Stage, Advancing, At
<1>2. r \in Transactions /\ r.id.gen \in Gens
  BY <1>1, Opened DEF TransactionSteps, Ids
<1>3. Grown /\ Moves(p)
  BY <1>1, <1>2, GoesTo, IdleMoves, SameJournals DEF TransactionSteps
<1>4. Typed' /\ \A g \in Gens : gens[g] = "sealed" => gens'[g] = "sealed"
  BY <1>1, <1>2 DEF IInv, TypeOK, Typed
<1>5. QED
  BY <1>1, <1>3, <1>4, SameInstallStep

LEMMA SealStep ==
  ASSUME IInv, NEW p \in Procs, Seal(p)
  PROVE  Preserved(p)
<1> SUFFICES ASSUME NEW r, r = run[p] PROVE Preserved(p)
  OBVIOUS
<1>1. /\ r.step = "seal" /\ UNCHANGED <<install, journals, live, host, spent>>
      /\ To(p, "staged") /\ gens' = [gens EXCEPT ![r.id.gen] = "sealed"]
  BY DEF Seal, At
<1>2. r \in Transactions /\ r.id.gen \in Gens
  BY <1>1, Opened DEF TransactionSteps, Ids
<1>3. Grown /\ Moves(p)
  BY <1>1, <1>2, GoesTo DEF TransactionSteps
<1>4. Typed' /\ \A g \in Gens : gens[g] = "sealed" => gens'[g] = "sealed"
  BY <1>1, <1>2 DEF IInv, TypeOK, Typed
<1>5. QED
  BY <1>1, <1>3, <1>4, SameInstallStep

\* The content a generation replaces the live view with.
LEMMA ContentTyped ==
  ASSUME NEW g \in Gens
  PROVE  Content(g) \in Contents \cup {Torn}
BY DEF Gens, Content

LEMMA RefreshStep ==
  ASSUME IInv, NEW p \in Procs, Refresh(p)
  PROVE  Preserved(p)
<1>1. run[p].id.gen \in Gens
  BY Opened DEF Refresh, At, TransactionSteps, Ids
<1>2. Grown /\ Moves(p)
  BY IdleMoves, SameJournals DEF Refresh
<1>3. Typed'
  BY <1>1, ContentTyped DEF IInv, TypeOK, Typed, Refresh
<1>4. QED
  BY <1>2, <1>3, SameInstallStep DEF Refresh

LEMMA MaterializeStep ==
  ASSUME IInv, NEW p \in Procs, Materialize(p)
  PROVE  Preserved(p)
<1> SUFFICES ASSUME NEW r, r = run[p] PROVE Preserved(p)
  OBVIOUS
<1> DEFINE needed == IF r.needed = None THEN Needed(r, r.inst) ELSE r.needed
           n == [r EXCEPT !.step = "reconcile", !.needed = needed]
<1>1. /\ r.step = "materialize" /\ UNCHANGED <<install, journals, gens, host, spent>>
      /\ live' = IF r.replaces THEN Content(r.id.gen) ELSE live
      /\ run' = [run EXCEPT ![p] = n]
  BY DEF Materialize, At
<1>2. r \in Transactions /\ r.id.gen \in Gens /\ r.id.platforms \in SUBSET Adapters /\ SnapOK(r)
  BY <1>1, Opened DEF TransactionSteps, Ids, IInv
<1>3. needed \subseteq r.id.platforms
  BY <1>2 DEF SnapOK, Needed
<1> HIDE DEF needed
<1>4. /\ n \in Transactions /\ n.step = "reconcile" /\ n.id = r.id /\ n.snap = r.snap
      /\ n.needed = needed
  BY <1>2, <1>3 DEF Transactions, TransactionSteps
<1> HIDE DEF n
<1>5. SnapOK(n)
  BY <1>1, <1>2, <1>3, <1>4 DEF SnapOK
<1>6. Grown /\ Moves(p)
  BY <1>1, <1>4, <1>5, GoesOn
<1>7. Typed'
  BY <1>1, <1>2, ContentTyped DEF IInv, TypeOK, Typed
<1>8. QED
  BY <1>1, <1>6, <1>7, SameInstallStep

\* A projection that is pending rolls forward; one is applied, or left pending.
LEMMA HostTyped ==
  ASSUME TypeOK, NEW a \in Adapters, NEW gen \in Gens \cup {None}, NEW ledger \in Gens \cup {None}
  PROVE  /\ Recovered \in Hosts
         /\ \A h \in Hosts :
              /\ Apply(h, a, gen, ledger) \in Hosts
              /\ [h EXCEPT !.pending = [adapter |-> a, gen |-> gen, ledger |-> ledger]] \in Hosts
<1>1. host.pending = None => Recovered \in Hosts
  BY DEF TypeOK, Recovered
<1>2. host.pending # None => Recovered \in Hosts
  BY DEF TypeOK, Recovered, Hosts
<1>3. ASSUME NEW h \in Hosts PROVE Apply(h, a, gen, ledger) \in Hosts
  BY <1>3 DEF Apply, Hosts
<1>4. ASSUME NEW h \in Hosts
      PROVE  [h EXCEPT !.pending = [adapter |-> a, gen |-> gen, ledger |-> ledger]] \in Hosts
  BY <1>4 DEF Hosts
<1>5. QED
  BY <1>1, <1>2, <1>3, <1>4

LEMMA AttemptStep ==
  ASSUME IInv, NEW p \in Procs, Attempt(p) \/ AttemptFails(p)
  PROVE  Preserved(p)
<1> SUFFICES ASSUME NEW r, r = run[p] PROVE Preserved(p)
  OBVIOUS
<1> DEFINE a == NextAdapter(r)
           left == [adapter |-> a, gen |-> r.id.gen, ledger |-> r.id.gen]
<1>1. /\ r.step = "attempt" /\ UNCHANGED <<install, journals, gens, live>>
      /\ \E ok \in BOOLEAN : run' = [run EXCEPT ![p] = [r EXCEPT !.ok = ok, !.step = "record"]]
      /\ \/ spent' = spent
         \/ spent' = [spent EXCEPT !.failures = @ + 1]
      /\ \/ host' \in {host, Recovered, Apply(Recovered, a, r.id.gen, r.id.gen)}
         \/ host' = [Recovered EXCEPT !.pending = left]
  BY DEF Attempt, AttemptFails, At
<1>2. r \in Transactions /\ r.id.gen \in Gens /\ r.needed # {} /\ SnapOK(r)
  BY <1>1, Opened DEF TransactionSteps, Ids, IInv, SnapOK
<1>3. a \in Adapters
  BY <1>1, <1>2, NextHasStatus
<1> HIDE DEF a
<1>4. host' \in Hosts
  <2>1. /\ Recovered \in Hosts /\ Apply(Recovered, a, r.id.gen, r.id.gen) \in Hosts
        /\ [Recovered EXCEPT !.pending = left] \in Hosts
    BY <1>2, <1>3, HostTyped DEF IInv
  <2>2. QED
    BY <1>1, <2>1 DEF IInv, TypeOK
<1>5. PICK ok \in BOOLEAN : run' = [run EXCEPT ![p] = [r EXCEPT !.ok = ok, !.step = "record"]]
  BY <1>1
<1> DEFINE n == [r EXCEPT !.ok = ok, !.step = "record"]
<1>6. /\ n \in Transactions /\ n.step = "record" /\ n.id = r.id /\ n.snap = r.snap
      /\ n.needed = r.needed
  BY <1>2 DEF Transactions, TransactionSteps
<1>7. run' = [run EXCEPT ![p] = n]
  BY <1>5
<1> HIDE DEF n
<1>8. SnapOK(n)
  BY <1>1, <1>2, <1>6 DEF SnapOK
<1>9. Grown /\ Moves(p)
  BY <1>1, <1>6, <1>7, <1>8, GoesOn
<1>10. Typed'
  BY <1>1, <1>4 DEF IInv, TypeOK, Typed
<1>11. QED
  BY <1>1, <1>9, <1>10, SameInstallStep

-----------------------------------------------------------------------------
(* The install state.                                                       *)

\* Adapters that stop being active take nothing from the others.
LEMMA Narrowed ==
  ASSUME IInv, UNCHANGED <<journals, gens>>, install # None,
         NEW next, install' = next, next.id = install.id, next.gen = install.gen,
         \A a \in Adapters : next.adapters[a].status = "active" => next.adapters[a] = install.adapters[a]
  PROVE  Earned' /\ ActiveSealed'
<1>1. Earned'
  BY DEF IInv, Earned, ActiveOf
<1>2. ActiveSealed'
  BY DEF IInv, ActiveSealed
<1>3. QED
  BY <1>1, <1>2

\* A commit, of a transaction that was validated.
LEMMA PendingFact ==
  ASSUME IInv, NEW r \in Transactions, r.id \in DOMAIN journals,
         IsPrefix(r.snap.events, journals[r.id].events), r.snap \in Journals, Sound(r.snap, r.id),
         r.snap.state \in {"validated"} \cup CommittedStates,
         MayCommit(r), install' = PendingInstall(r), UNCHANGED <<journals, gens>>
  PROVE  install' \in Installed /\ Earned' /\ ActiveSealed'
<1>1. install' \in Installed
  BY PendingTyped DEF IInv
<1>2. CASE AlreadyCommitted(install, r.id)
  <2>1. install' = install
    BY <1>2 DEF PendingInstall
  <2>2. QED
    BY <1>1, <2>1, SameJournals, SameInstall
<1>3. CASE ~AlreadyCommitted(install, r.id)
  <2> DEFINE old == IF install = None THEN [a \in Adapters |-> NoAdapter] ELSE install.adapters
             now == [a \in Adapters |-> IF a \in r.id.platforms
                                        THEN [old[a] EXCEPT !.status = "degraded"] ELSE old[a]]
  <2>1. install' = [gen |-> r.id.gen, id |-> r.id, at |-> r.at, adapters |-> now]
    BY <1>3 DEF PendingInstall
  <2>2. \A a \in Adapters :
          /\ a \in r.id.platforms => now[a].status = "degraded"
          /\ a \notin r.id.platforms => now[a] = old[a]
    <3>1. old \in [Adapters -> [status : {"absent", "degraded", "active", "detached"},
                                fp : Gens \cup {None}]]
      BY DEF IInv, TypeOK, Installed, NoAdapter
    <3> HIDE DEF old
    <3>2. QED
      BY <3>1
  <2>3. install = None => \A a \in Adapters : old[a].status = "absent"
    BY DEF NoAdapter
  <2>4. install # None => old = install.adapters
    OBVIOUS
  <2> HIDE DEF old, now
  <2>5. ASSUME NEW a \in ActiveOf(install')
        PROVE  a \in ActiveOf(install) /\ a \notin r.id.platforms
               /\ install'.adapters[a].fp = install.adapters[a].fp
    <3>1. a \in Adapters /\ now[a].status = "active"
      BY <2>1, <2>5 DEF ActiveOf
    <3>2. a \notin r.id.platforms /\ now[a] = old[a]
      BY <2>2, <3>1
    <3>3. install # None
      BY <2>3, <3>1, <3>2
    <3>4. QED
      BY <2>1, <2>4, <3>1, <3>2, <3>3 DEF ActiveOf
  <2>6. install'.id = r.id /\ install'.gen = r.id.gen
    BY <2>1
  <2>7. Earned'
    <3> SUFFICES ASSUME NEW a \in ActiveOf(install')
                 PROVE  /\ \E id \in DOMAIN journals : /\ id.gen = install'.adapters[a].fp
                                                       /\ EverSucceeded(journals[id], a)
                        /\ a \notin install'.id.platforms
      BY DEF Earned
    <3>1. QED
      BY <2>5, <2>6 DEF IInv, Earned
  <2>8. gens[r.id.gen] = "sealed" /\ r.id.op # "rollback" => r.id \in DOMAIN journals
    BY <1>3 DEF MayCommit
  <2>9. journals[r.id] \in Journals
    BY DEF IInv, TypeOK
  <2>10. {"stage", "validated"} \subseteq Kinds(journals[r.id])
    BY <2>9, PrefixKeeps DEF Sound
  <2>11. ActiveSealed'
    BY <1>3, <2>6, <2>8, <2>10 DEF ActiveSealed, MayCommit
  <2>12. QED
    BY <1>1, <2>7, <2>11
<1>4. QED
  BY <1>2, <1>3

\* A process goes on with a transaction, or ends, once the install state is written.
LEMMA InstallStep ==
  ASSUME IInv, NEW p, Grown /\ Moves(p), install' \in Installed \cup {install},
         UNCHANGED <<gens, live, host>>, spent' \in [commands : Nat, crashes : Nat, failures : Nat],
         Earned' /\ ActiveSealed'
  PROVE  Preserved(p)
BY MarksAssumption DEF IInv, TypeOK, Typed, Preserved

LEMMA ActivateStep ==
  ASSUME IInv, NEW p \in Procs, Activate(p)
  PROVE  Preserved(p)
<1> SUFFICES ASSUME NEW r, r = run[p] PROVE Preserved(p)
  OBVIOUS
<1>1. /\ r.step = "advance" /\ r.snap.state = "validated"
      /\ UNCHANGED <<journals, gens, live, host, spent>>
      /\ IF MayCommit(r) THEN install' = PendingInstall(r) /\ To(p, "activated")
                         ELSE UNCHANGED install /\ End(p)
  BY DEF Activate, Advancing, At
<1>2. /\ r \in Transactions /\ r.snap \in Journals /\ Sound(r.snap, r.id)
      /\ r.id \in DOMAIN journals /\ IsPrefix(r.snap.events, journals[r.id].events)
  BY <1>1, Opened DEF TransactionSteps
<1>3. CASE ~MayCommit(r)
  BY <1>1, <1>3, EndStep
<1>4. CASE MayCommit(r)
  <2>1. install' \in Installed /\ Earned' /\ ActiveSealed'
    BY <1>1, <1>2, <1>4, PendingFact
  <2>2. Grown /\ Moves(p)
    BY <1>1, <1>2, <1>4, GoesTo DEF TransactionSteps
  <2>3. QED
    BY <1>1, <2>1, <2>2, InstallStep DEF IInv, TypeOK
<1>5. QED
  BY <1>3, <1>4

\* A journal that was completed either leaves nothing to do, or is committed again.
LEMMA RevisitStep ==
  ASSUME IInv, NEW p \in Procs, Revisit(p)
  PROVE  Preserved(p)
<1> SUFFICES ASSUME NEW r, r = run[p] PROVE Preserved(p)
  OBVIOUS
<1> DEFINE needed == Needed(r, install)
           done == AlreadyCommitted(install, r.id) /\ needed = {}
<1>1. /\ r.step = "revisit" /\ UNCHANGED <<journals, gens, live, host, spent>>
      /\ \/ End(p) /\ UNCHANGED install
         \/ /\ done \/ MayCommit(r)
            /\ install' = IF done THEN install ELSE PendingInstall(r)
            /\ run' = [run EXCEPT ![p] = [r EXCEPT !.needed = needed, !.inst = install',
                                            !.step = IF done THEN "refresh" ELSE "reopen"]]
  BY DEF Revisit, At
<1>2. /\ r \in Transactions /\ r.snap \in Journals /\ Sound(r.snap, r.id) /\ SnapOK(r)
      /\ r.id \in DOMAIN journals /\ IsPrefix(r.snap.events, journals[r.id].events)
      /\ r.id.platforms \in SUBSET Adapters
  BY <1>1, Opened DEF TransactionSteps, IInv
<1>3. r.snap.state \in CommittedStates
  BY <1>1, <1>2 DEF SnapOK
<1>4. needed \subseteq r.id.platforms /\ done \in BOOLEAN
  BY DEF Needed
<1> HIDE DEF needed, done
<1>5. CASE End(p) /\ UNCHANGED install
  BY <1>1, <1>5, EndStep
<1>6. ASSUME NEW next, install' = next, done \/ MayCommit(r),
             next = IF done THEN install ELSE PendingInstall(r),
             run' = [run EXCEPT ![p] = [r EXCEPT !.needed = needed, !.inst = next,
                                          !.step = IF done THEN "refresh" ELSE "reopen"]]
      PROVE  Preserved(p)
  <2> DEFINE n == [r EXCEPT !.needed = needed, !.inst = next,
                            !.step = IF done THEN "refresh" ELSE "reopen"]
  <2>1. install' \in Installed \cup {install} /\ Earned' /\ ActiveSealed'
    <3>1. CASE done
      <4>1. install' = install
        BY <1>6, <3>1
      <4>2. QED
        BY <1>1, <4>1, SameJournals, SameInstall DEF IInv, TypeOK
    <3>2. CASE ~done
      <4>1. install' = PendingInstall(r) /\ MayCommit(r)
        BY <1>6, <3>2
      <4>2. QED
        BY <1>1, <1>2, <1>3, <4>1, PendingFact
    <3>3. QED
      BY <3>1, <3>2
  <2>2. /\ n \in Transactions /\ n.step \in {"refresh", "reopen"} /\ n.id = r.id /\ n.snap = r.snap
        /\ n.needed = needed
    <3>1. next \in Installed \cup {None} /\ needed \in SUBSET Adapters
      BY <1>2, <1>4, <1>6, <2>1 DEF IInv, TypeOK
    <3>2. (IF done THEN "refresh" ELSE "reopen") \in TransactionSteps
      BY DEF TransactionSteps
    <3>3. n \in Transactions
      BY <1>2, <3>1, <3>2 DEF Transactions
    <3>4. QED
      BY <1>2, <3>3 DEF Transactions
  <2>3. run' = [run EXCEPT ![p] = n]
    BY <1>6
  <2> HIDE DEF n
  <2>4. SnapOK(n)
    BY <1>1, <1>2, <1>4, <2>2 DEF SnapOK
  <2>5. Grown /\ Moves(p)
    BY <1>1, <2>2, <2>3, <2>4, GoesOn
  <2>6. QED
    BY <1>1, <2>1, <2>5, InstallStep DEF IInv, TypeOK
<1>7. QED
  BY <1>1, <1>5, <1>6

\* The outcome of the adapters is written over the state the transaction committed.
LEMMA FinalizeStep ==
  ASSUME IInv, NEW p \in Procs, Finalize(p)
  PROVE  Preserved(p)
<1> SUFFICES ASSUME NEW r, r = run[p] PROVE Preserved(p)
  OBVIOUS
<1>1. /\ r.step = "reconcile" /\ UNCHANGED <<journals, gens, live, host, spent>>
      /\ IF AlreadyCommitted(install, r.id)
           THEN install' = Finalized(r) /\ (To(p, "complete") \/ End(p))
           ELSE UNCHANGED install /\ End(p)
  BY DEF Finalize, At
<1>2. /\ r \in Transactions /\ r.snap \in Journals /\ Sound(r.snap, r.id)
      /\ r.id \in DOMAIN journals /\ IsPrefix(r.snap.events, journals[r.id].events)
      /\ r.id.platforms \in SUBSET Adapters
  BY <1>1, Opened DEF TransactionSteps
<1>3. CASE ~AlreadyCommitted(install, r.id)
  BY <1>1, <1>3, EndStep
<1>4. CASE AlreadyCommitted(install, r.id)
  <2>1. install # None /\ install.id = r.id /\ install.gen = r.id.gen /\ install \in Installed
    BY <1>4 DEF AlreadyCommitted, IInv, TypeOK
  <2>2. install' \in Installed
    BY <1>1, <1>2, <1>4, <2>1, FinalizedTyped DEF IInv
  <2> DEFINE now == [a \in Adapters |->
               IF a \in r.id.platforms
               THEN [status |-> IF r.snap.status[a] = "succeeded" THEN "active" ELSE "degraded",
                     fp |-> IF EverSucceeded(r.snap, a) THEN r.id.gen ELSE install.adapters[a].fp]
               ELSE install.adapters[a]]
  <2>11. install' = [install EXCEPT !.at = r.at, !.adapters = now]
    BY <1>1, <1>4 DEF Finalized
  <2>12. \A a \in Adapters :
           /\ a \notin r.id.platforms => now[a] = install.adapters[a]
           /\ a \in r.id.platforms =>
                /\ now[a].status = "active" => r.snap.status[a] = "succeeded"
                /\ EverSucceeded(r.snap, a) => now[a].fp = r.id.gen
    OBVIOUS
  <2> HIDE DEF now
  <2>3. install'.id = r.id /\ install'.gen = r.id.gen /\ install'.adapters = now
    BY <2>1, <2>11 DEF Installed
  <2>4. journals[r.id] \in Journals
    BY <1>2 DEF IInv, TypeOK
  <2>5. \A a : EverSucceeded(r.snap, a) => EverSucceeded(journals[r.id], a)
    BY <1>2, <2>4, PrefixKeeps
  <2>6. ASSUME NEW a \in ActiveOf(install')
        PROVE  /\ \E id \in DOMAIN journals : /\ id.gen = install'.adapters[a].fp
                                              /\ EverSucceeded(journals[id], a)
               /\ a \in r.id.platforms => EverSucceeded(journals[r.id], a)
    <3>1. a \in Adapters /\ install'.adapters[a].status = "active"
      BY <2>2, <2>6, MarksAssumption DEF ActiveOf
    <3>2. CASE a \in r.id.platforms
      <4>1. r.snap.status[a] = "succeeded"
        BY <2>3, <2>12, <3>1, <3>2
      <4>2. EverSucceeded(r.snap, a)
        BY <1>2, <3>2, <4>1 DEF Sound
      <4>3. install'.adapters[a].fp = r.id.gen
        BY <2>3, <2>12, <3>1, <3>2, <4>2
      <4>4. QED
        BY <1>2, <2>5, <4>2, <4>3
    <3>3. CASE a \notin r.id.platforms
      <4>1. install'.adapters[a] = install.adapters[a]
        BY <2>3, <2>12, <3>1, <3>3
      <4>2. a \in ActiveOf(install)
        BY <2>1, <3>1, <4>1 DEF ActiveOf
      <4>3. QED
        BY <3>3, <4>1, <4>2 DEF IInv, Earned
    <3>4. QED
      BY <3>2, <3>3
  <2>7. Earned'
    BY <1>1, <1>2, <2>3, <2>6 DEF Earned
  <2>8. ActiveSealed'
    BY <1>1, <2>1, <2>3 DEF IInv, ActiveSealed
  <2>9. Grown /\ Moves(p)
    BY <1>1, <1>2, <1>4, GoesTo, IdleMoves, SameJournals DEF TransactionSteps
  <2>10. QED
    BY <1>1, <2>2, <2>7, <2>8, <2>9, InstallStep DEF IInv, TypeOK
<1>5. QED
  BY <1>3, <1>4

-----------------------------------------------------------------------------
(* Rollback and detach.                                                     *)

\* A process that is in no transaction goes on with a plan of its own.
LEMMA OtherMoves ==
  ASSUME IInv, NEW p, NEW n \in Follows \cup Leavings, LeaveOK(n),
         n \notin Leavings => install' # None, UNCHANGED journals,
         run' = [run EXCEPT ![p] = n]
  PROVE  Grown /\ Moves(p)
<1>1. n \in Runs /\ n \notin Transactions
  BY DEF Runs, Follows, Leavings, Transactions, TransactionSteps
<1>2. Grown
  BY SameJournals
<1>3. n \in Leavings => n \notin Follows
  BY DEF Leavings, Follows
<1>4. QED
  BY <1>1, <1>2, <1>3 DEF Moves, SnapOK, FollowOK

LEMMA RollbackStep ==
  ASSUME IInv, NEW p \in Procs, NEW gen \in Gens, Rollback(p, gen)
  PROVE  Preserved(p)
<1> DEFINE now == [a \in Adapters |->
                     IF a \in Attached(install) THEN [install.adapters[a] EXCEPT !.status = "degraded"]
                     ELSE install.adapters[a]]
           id == [op |-> "rollback", gen |-> gen, source |-> install.gen, platforms |-> {}]
           n == [step |-> "follow", gen |-> gen, platforms |-> Attached(install),
                 at |-> spent.commands + 1]
<1>1. /\ install # None /\ gens[gen] = "sealed" /\ UNCHANGED <<journals, gens, live, host>>
      /\ run' = [run EXCEPT ![p] = n] /\ spent' = [spent EXCEPT !.commands = @ + 1]
      /\ install' = [gen |-> gen, at |-> spent.commands + 1, id |-> id, adapters |-> now]
  BY DEF Rollback, Begin
<1>2. install \in Installed /\ spent.commands \in Nat
  BY <1>1 DEF IInv, TypeOK
<1>3. id \in Ids
  BY <1>2 DEF Ids, Installed
<1>4. now \in [Adapters -> [status : {"absent", "degraded", "active", "detached"},
                            fp     : Gens \cup {None}]]
  BY <1>2 DEF Installed
<1>5. \A a \in Adapters : now[a].status # "active"
  BY <1>1, <1>2 DEF Installed, Attached
<1>6. n \in Follows
  BY <1>2 DEF Follows, Attached
<1>7. LeaveOK(n)
  BY DEF LeaveOK, Leavings
<1> HIDE DEF now, n
<1>8. install' \in Installed
  BY <1>1, <1>2, <1>3, <1>4 DEF Installed
<1>9. Earned'
  BY <1>1, <1>5 DEF Earned, ActiveOf
<1>10. ActiveSealed'
  BY <1>1 DEF ActiveSealed
<1>11. Grown /\ Moves(p)
  BY <1>1, <1>6, <1>7, <1>8, OtherMoves, MarksAssumption
<1>12. spent' \in [commands : Nat, crashes : Nat, failures : Nat]
  BY <1>1 DEF IInv, TypeOK
<1>13. QED
  BY <1>1, <1>8, <1>9, <1>10, <1>11, <1>12, InstallStep

LEMMA LeaveStep ==
  ASSUME IInv, NEW p \in Procs, NEW adapters \in SUBSET Adapters, NEW all \in BOOLEAN,
         Leave(p, adapters, all)
  PROVE  Preserved(p)
<1> DEFINE n == [step |-> "plan", left |-> adapters, all |-> all, saw |-> None,
                 at |-> spent.commands + 1]
<1>1. /\ UNCHANGED <<install, journals, gens, live, host>> /\ run' = [run EXCEPT ![p] = n]
      /\ spent' = [spent EXCEPT !.commands = @ + 1]
  BY DEF Leave, Begin
<1>2. n \in Leavings /\ LeaveOK(n)
  BY DEF IInv, TypeOK, Leavings, LeaveOK
<1> HIDE DEF n
<1>3. Grown /\ Moves(p)
  BY <1>1, <1>2, OtherMoves
<1>4. Typed'
  BY <1>1 DEF IInv, TypeOK, Typed
<1>5. QED
  BY <1>1, <1>3, <1>4, SameInstallStep

\* The adapter of a detach that is next.
LEMMA FirstTyped ==
  ASSUME IInv, NEW p \in Procs, run[p].step \in {"plan", "remove", "removed"}
  PROVE  /\ run[p] \in Leavings /\ LeaveOK(run[p])
         /\ run[p].left # {} => FirstOf(run[p].left) \in Adapters
<1>1. run[p] \in Leavings /\ LeaveOK(run[p])
  BY InLeaving DEF IInv
<1>2. QED
  BY <1>1, FirstIsMember DEF Leavings

\* One adapter changes its status, and is not made active.
LEMMA SetStatusFact ==
  ASSUME IInv, install # None, NEW a \in Adapters, NEW at \in Nat,
         NEW status \in {"degraded", "detached"}, NEW fp \in Gens \cup {None},
         install' = SetStatus(a, status, fp, at), UNCHANGED <<journals, gens>>
  PROVE  install' \in Installed /\ Earned' /\ ActiveSealed'
<1> DEFINE next == SetStatus(a, status, fp, at)
<1>1. next \in Installed
  BY StatusTyped DEF IInv
<1>2. /\ next.id = install.id /\ next.gen = install.gen
      /\ \A b \in Adapters : next.adapters[b] =
           IF b = a THEN [status |-> status, fp |-> fp] ELSE install.adapters[b]
  BY DEF IInv, TypeOK, SetStatus, Installed
<1> HIDE DEF next
<1>3. \A b \in Adapters : next.adapters[b].status = "active" => next.adapters[b] = install.adapters[b]
  BY <1>2
<1>4. install' = next
  BY DEF next
<1>5. QED
  BY <1>1, <1>2, <1>3, <1>4, Narrowed

LEMMA PlanDetachStep ==
  ASSUME IInv, NEW p \in Procs, PlanDetach(p)
  PROVE  Preserved(p)
<1> SUFFICES ASSUME NEW r, r = run[p] PROVE Preserved(p)
  OBVIOUS
<1> DEFINE a == FirstOf(r.left)
           next == SetStatus(a, "degraded", install.adapters[a].fp, r.at)
           n == [r EXCEPT !.step = "remove", !.saw = [host |-> host, inst |-> next]]
<1>1. /\ r.step = "plan" /\ r.left # {} /\ UNCHANGED <<journals, gens, live, host, spent>>
      /\ \/ UNCHANGED install /\ End(p)
         \/ install # None /\ install' = next /\ run' = [run EXCEPT ![p] = n]
  BY DEF PlanDetach, At
<1>2. r \in Leavings /\ a \in Adapters /\ r.at \in Nat
  BY <1>1, FirstTyped DEF Leavings
<1> HIDE DEF a
<1>3. CASE UNCHANGED install /\ End(p)
  BY <1>1, <1>3, EndStep
<1>4. CASE install # None /\ install' = next /\ run' = [run EXCEPT ![p] = n]
  <2>1. install.adapters[a].fp \in Gens \cup {None}
    BY <1>2, <1>4 DEF IInv, TypeOK, Installed
  <2>2. next \in Installed /\ Earned' /\ ActiveSealed'
    BY <1>1, <1>2, <1>4, <2>1, SetStatusFact
  <2> HIDE DEF next
  <2>3. [host |-> host, inst |-> next] \in Detachments
    BY <2>2 DEF IInv, TypeOK, Detachments
  <2>4. n \in Leavings /\ n.step = "remove" /\ n.left = r.left
        /\ n.saw = [host |-> host, inst |-> next]
    BY <1>2, <2>3 DEF Leavings
  <2>5. LeaveOK(n)
    <3> HIDE DEF n
    <3>1. QED
      BY <1>1, <2>3, <2>4, MarksAssumption DEF LeaveOK
  <2> HIDE DEF n
  <2>6. Grown /\ Moves(p)
    BY <1>1, <1>4, <2>4, <2>5, OtherMoves
  <2>7. QED
    BY <1>1, <1>4, <2>2, <2>6, InstallStep DEF IInv, TypeOK
<1>5. QED
  BY <1>1, <1>3, <1>4

LEMMA RemoveProjectionStep ==
  ASSUME IInv, NEW p \in Procs, RemoveProjection(p)
  PROVE  Preserved(p)
<1> SUFFICES ASSUME NEW r, r = run[p] PROVE Preserved(p)
  OBVIOUS
<1> DEFINE a == FirstOf(r.left)
           n == [r EXCEPT !.step = "removed"]
<1>1. /\ r.step = "remove" /\ UNCHANGED <<install, journals, gens, live, spent>>
      /\ \/ UNCHANGED host /\ End(p)
         \/ host' = Apply(host, a, None, host.ledger) /\ run' = [run EXCEPT ![p] = n]
  BY DEF RemoveProjection, At, To
<1>2. r \in Leavings /\ LeaveOK(r) /\ a \in Adapters
  BY <1>1, FirstTyped DEF LeaveOK
<1> HIDE DEF a
<1>3. n \in Leavings /\ LeaveOK(n)
  BY <1>1, <1>2 DEF Leavings, LeaveOK
<1> HIDE DEF n
<1>4. host' \in Hosts
  <2>1. host \in Hosts /\ host.ledger \in Gens \cup {None}
    BY DEF IInv, TypeOK, Hosts
  <2>2. Apply(host, a, None, host.ledger) \in Hosts
    BY <1>2, <2>1, HostTyped DEF IInv
  <2>3. QED
    BY <1>1, <2>1, <2>2
<1>5. Grown /\ Moves(p)
  BY <1>1, <1>3, OtherMoves, IdleMoves, SameJournals
<1>6. Typed'
  BY <1>1, <1>4 DEF IInv, TypeOK, Typed
<1>7. QED
  BY <1>1, <1>5, <1>6, SameInstallStep

LEMMA RecordDetachStep ==
  ASSUME IInv, NEW p \in Procs, RecordDetach(p)
  PROVE  Preserved(p)
<1> SUFFICES ASSUME NEW r, r = run[p] PROVE Preserved(p)
  OBVIOUS
<1> DEFINE a == FirstOf(r.left)
           n == [r EXCEPT !.step = "plan", !.saw = None, !.left = @ \ {a}]
<1>1. /\ r.step = "removed" /\ UNCHANGED <<journals, gens, live, host, spent>>
      /\ \/ UNCHANGED install /\ End(p)
         \/ /\ install = r.saw.inst /\ install' = SetStatus(a, "detached", None, r.at)
            /\ run' = [run EXCEPT ![p] = n]
  BY DEF RecordDetach, At
<1>2. r \in Leavings /\ LeaveOK(r) /\ a \in Adapters /\ r.at \in Nat
  BY <1>1, FirstTyped DEF LeaveOK, Leavings
<1> HIDE DEF a
<1>3. n \in Leavings /\ LeaveOK(n)
  BY <1>2 DEF Leavings, LeaveOK
<1> HIDE DEF n
<1>4. r.saw.inst # None
  BY <1>1, <1>2, MarksAssumption DEF Leavings, LeaveOK, Detachments
<1>5. Grown /\ Moves(p)
  BY <1>1, <1>3, OtherMoves, IdleMoves, SameJournals
<1>6. CASE UNCHANGED install
  BY <1>1, <1>5, <1>6, OnlyJournals
<1>7. CASE install # None /\ install' = SetStatus(a, "detached", None, r.at)
  <2>1. install' \in Installed /\ Earned' /\ ActiveSealed'
    BY <1>1, <1>2, <1>7, SetStatusFact
  <2>2. QED
    BY <1>1, <1>5, <2>1, InstallStep DEF IInv, TypeOK
<1>8. QED
  BY <1>1, <1>4, <1>6, <1>7

\* What is left at the end of an uninstall is detached too.
LEMMA LeftStep ==
  ASSUME IInv, NEW p \in Procs, Left(p)
  PROVE  Preserved(p)
<1> SUFFICES ASSUME NEW r, r = run[p] PROVE Preserved(p)
  OBVIOUS
<1> DEFINE now == [a \in Adapters |-> IF install.adapters[a].status = "absent"
                     THEN install.adapters[a]
                     ELSE [install.adapters[a] EXCEPT !.status = "detached"]]
           next == [install EXCEPT !.at = r.at, !.adapters = now]
<1>1. /\ r.step = "plan" /\ End(p) /\ UNCHANGED <<journals, gens, live, host, spent>>
      /\ \/ UNCHANGED install
         \/ install # None /\ install' = next
  BY DEF Left, At
<1>2. r.at \in Nat
  BY <1>1, FirstTyped DEF Leavings
<1>3. CASE UNCHANGED install
  BY <1>1, <1>3, EndStep
<1>4. CASE install # None /\ install' = next
  <2>1. install \in Installed
    BY <1>4 DEF IInv, TypeOK
  <2>2. now \in [Adapters -> [status : {"absent", "degraded", "active", "detached"},
                              fp     : Gens \cup {None}]]
        /\ \A a \in Adapters : now[a].status # "active"
    BY <2>1 DEF Installed
  <2> HIDE DEF now
  <2>3. next \in Installed /\ next.id = install.id /\ next.gen = install.gen /\ next.adapters = now
    BY <1>2, <2>1, <2>2 DEF Installed
  <2> HIDE DEF next
  <2>4. Earned' /\ ActiveSealed'
    BY <1>1, <1>4, <2>2, <2>3, Narrowed
  <2>5. Grown /\ Moves(p)
    BY <1>1, IdleMoves, SameJournals
  <2>6. QED
    BY <1>1, <1>4, <2>3, <2>4, <2>5, InstallStep DEF IInv, TypeOK
<1>5. QED
  BY <1>1, <1>3, <1>4

-----------------------------------------------------------------------------
(* Commands, and crashes.                                                   *)

\* After a rollback the adapters follow in a transaction of their own.
LEMMA FollowStep ==
  ASSUME IInv, NEW p \in Procs, Follow(p)
  PROVE  Preserved(p)
<1> SUFFICES ASSUME NEW r, r = run[p] PROVE Preserved(p)
  OBVIOUS
<1> DEFINE t == Transaction("reconcile", r.gen, r.platforms, TRUE)
           n == [t EXCEPT !.at = r.at]
<1>1. /\ r.step = "follow" /\ UNCHANGED <<install, journals, gens, host, spent>>
      /\ \/ live' = Content(r.gen) /\ End(p)
         \/ UNCHANGED live /\ run' = [run EXCEPT ![p] = n]
  BY DEF Follow, At
<1>2. r.gen \in Gens /\ r.platforms \in SUBSET Adapters /\ r.at \in Nat /\ install # None
  BY <1>1, InFollow DEF IInv, Follows, FollowOK
<1>3. Typed'
  BY <1>1, <1>2, ContentTyped DEF IInv, TypeOK, Typed
<1>4. CASE End(p)
  BY <1>1, <1>3, <1>4, IdleMoves, SameJournals, SameInstallStep
<1>5. CASE UNCHANGED live /\ run' = [run EXCEPT ![p] = n]
  <2>1. t \in Transactions /\ t.step = "open" /\ t.needed = None
    BY <1>2, <1>5, BegunFact DEF IInv
  <2> HIDE DEF t
  <2>2. n \in Transactions /\ n.step = "open" /\ n.needed = None
    BY <1>2, <2>1 DEF Transactions
  <2> HIDE DEF n
  <2>3. QED
    BY <1>1, <1>3, <1>5, <2>2, BeginFact, SameInstallStep
<1>6. QED
  BY <1>1, <1>4, <1>5

\* Nobody moves while the live view is repaired.
LEMMA RepairStep ==
  ASSUME IInv, NEW p \in Procs, Repair(p)
  PROVE  Preserved(p)
<1>1. Grown
  BY SameJournals DEF Repair
<1>2. Moves(p)
  <2> SUFFICES ASSUME NEW r, r = run[p] PROVE Moves(p)
    OBVIOUS
  <2>1. run' = [run EXCEPT ![p] = r]
    BY DEF Repair, IInv, TypeOK
  <2>2. SnapOK(r) /\ LeaveOK(r) /\ FollowOK(r) /\ r \in Runs
    BY DEF IInv, TypeOK, Runs
  <2>3. SnapOK(r)' /\ FollowOK(r)'
    BY <2>2, SameJournals DEF Repair, FollowOK
  <2>4. QED
    BY <2>1, <2>2, <2>3 DEF Moves, FollowOK
<1>3. install.gen \in Gens
  BY DEF Repair, IInv, TypeOK, Installed
<1>4. Typed'
  BY <1>3, ContentTyped DEF Repair, IInv, TypeOK, Typed
<1>5. QED
  BY <1>1, <1>2, <1>4, SameInstallStep DEF Repair

\* init, update and another platform begin a transaction.
LEMMA BeginStep ==
  ASSUME IInv, NEW p \in Procs, NEW op \in {"init", "update", "reconcile"}, NEW gen \in Gens,
         NEW platforms \in SUBSET Adapters, NEW replaces \in BOOLEAN,
         op # "init" => install # None,
         Begin(p, Transaction(op, gen, platforms, replaces)),
         UNCHANGED <<install, journals, gens, live, host>>
  PROVE  Preserved(p)
<1> DEFINE n == Transaction(op, gen, platforms, replaces)
<1>1. n \in Transactions /\ n.step = "open" /\ n.needed = None
  BY BegunFact DEF IInv
<1>2. run' = [run EXCEPT ![p] = n] /\ spent' = [spent EXCEPT !.commands = @ + 1]
  BY DEF Begin
<1> HIDE DEF n
<1>3. Grown /\ Moves(p)
  BY <1>1, <1>2, BeginFact
<1>4. Typed'
  BY <1>2 DEF IInv, TypeOK, Typed
<1>5. QED
  BY <1>3, <1>4, SameInstallStep

LEMMA CommandStep ==
  ASSUME IInv, NEW p \in Procs, Command(p)
  PROVE  Preserved(p)
<1>1. \A content \in Contents \cup {Torn}, platforms \in SUBSET Adapters :
        <<content, platforms>> \in Gens
  BY DEF Gens
<1>2. ASSUME NEW c \in Contents, NEW s \in (SUBSET Adapters) \ {{}}, Initialize(p, c, s)
      PROVE  Preserved(p)
  <2>1. CASE install = None
    BY <1>1, <1>2, <2>1, BeginStep DEF Initialize
  <2>2. CASE install # None
    BY <1>1, <1>2, <2>2, BeginStep DEF Initialize
  <2>3. QED
    BY <2>1, <2>2
<1>3. ASSUME NEW c \in Contents, Update(p, c) PROVE Preserved(p)
  <2>1. ActiveOf(install) \in SUBSET Adapters
    BY DEF ActiveOf
  <2>2. QED
    BY <1>1, <1>3, <2>1, BeginStep DEF Update
<1>4. ASSUME NEW a \in Adapters, AddPlatform(p, a) PROVE Preserved(p)
  <2>1. ActiveOf(install) \cup {a} \in SUBSET Adapters /\ live \in Contents \cup {Torn}
    BY <1>4 DEF ActiveOf, AddPlatform, IInv, TypeOK
  <2>2. QED
    BY <1>1, <1>4, <2>1, BeginStep DEF AddPlatform
<1>5. QED
  BY <1>2, <1>3, <1>4 DEF Command

LEMMA ExitStep ==
  ASSUME IInv, NEW p \in Procs, Exit(p)
  PROVE  Preserved(p)
<1>1. Attached(install) \in SUBSET Adapters
  BY DEF Attached
<1>2. QED
  BY <1>1, RollbackStep, RepairStep, LeaveStep DEF Exit

\* A crash loses the process, and leaves the live view torn or a projection pending.
LEMMA CrashStep ==
  ASSUME IInv, NEW p \in Procs, Crash(p)
  PROVE  Preserved(p)
<1> SUFFICES ASSUME NEW r, r = run[p] PROVE Preserved(p)
  OBVIOUS
<1>1. /\ End(p) /\ UNCHANGED <<install, journals, gens>>
      /\ spent' = [spent EXCEPT !.crashes = @ + 1]
      /\ live' \in {live, Torn}
      /\ \/ UNCHANGED host
         \/ /\ r.step = "attempt"
            /\ host' = [Recovered EXCEPT !.pending =
                 [adapter |-> NextAdapter(r), gen |-> r.id.gen, ledger |-> r.id.gen]]
         \/ /\ r.step = "remove"
            /\ host' = [host EXCEPT !.pending =
                 [adapter |-> FirstOf(r.left), gen |-> None, ledger |-> host.ledger]]
  BY DEF Crash, At
<1>2. host \in Hosts /\ host.ledger \in Gens \cup {None}
  BY DEF IInv, TypeOK, Hosts
<1>3. host' \in Hosts
  <2>1. CASE UNCHANGED host
    BY <1>2, <2>1
  <2>2. CASE r.step = "attempt"
           /\ host' = [Recovered EXCEPT !.pending =
                [adapter |-> NextAdapter(r), gen |-> r.id.gen, ledger |-> r.id.gen]]
    <3>1. r.id.gen \in Gens /\ r.needed # {}
      BY <2>2, Opened DEF TransactionSteps, Ids, IInv, SnapOK
    <3>2. NextAdapter(r) \in Adapters
      BY <2>2, <3>1, NextHasStatus
    <3>3. QED
      BY <2>2, <3>1, <3>2, HostTyped DEF IInv
  <2>3. CASE r.step = "remove"
           /\ host' = [host EXCEPT !.pending =
                [adapter |-> FirstOf(r.left), gen |-> None, ledger |-> host.ledger]]
    <3>1. FirstOf(r.left) \in Adapters
      BY <2>3, FirstTyped DEF LeaveOK
    <3>2. QED
      BY <1>2, <2>3, <3>1, HostTyped DEF IInv
  <2>4. QED
    BY <1>1, <2>1, <2>2, <2>3
<1>4. Typed'
  BY <1>1, <1>3 DEF IInv, TypeOK, Typed
<1>5. Grown /\ Moves(p)
  BY <1>1, IdleMoves, SameJournals
<1>6. QED
  BY <1>1, <1>4, <1>5, SameInstallStep

-----------------------------------------------------------------------------
(* The theorems.                                                            *)

LEMMA StepPreserves ==
  ASSUME IInv, NEW p \in Procs, Command(p) \/ Exit(p) \/ Step(p) \/ Crash(p)
  PROVE  Preserved(p)
BY CommandStep, ExitStep, CrashStep, OpenStep, RevisitStep, RefreshStep, ReopenStep, BackUpStep,
  StageStep, SealStep, RecordStagedStep, ValidateStep, ActivateStep, RecordCommitStep, ReadStep,
  MaterializeStep, AttemptBegins, AttemptStep, RecordStep, FinalizeStep, CompleteStep, FollowStep,
  PlanDetachStep, RemoveProjectionStep, RecordDetachStep, LeftStep
DEF Step

\* The processes that stay where they are keep a snapshot that fits.
LEMMA OthersFit ==
  ASSUME IInv, Grown, NEW r, SnapOK(r)
  PROVE  SnapOK(r)'
<1>1. r \in Transactions /\ r.step # "open" =>
        /\ r.id \in DOMAIN journals'
        /\ IsPrefix(r.snap.events, journals'[r.id].events)
  BY PrefixKeeps DEF SnapOK, Grown, IInv, TypeOK
<1>2. QED
  BY <1>1 DEF SnapOK

LEMMA NextInv == IInv /\ [Next]_vars => IInv'
<1> SUFFICES ASSUME IInv, [Next]_vars PROVE IInv'
  OBVIOUS
<1>1. CASE UNCHANGED vars
  BY <1>1 DEF vars, IInv, TypeOK, JournalsSound, SnapOK, LeaveOK, FollowOK, Earned, ActiveOf, ActiveSealed
<1>2. ASSUME NEW p \in Procs, Preserved(p) PROVE IInv'
  <2>1. Grown /\ Typed' /\ Earned' /\ ActiveSealed'
    BY <1>2 DEF Preserved
  <2>2. PICK r \in Runs :
          run' = [run EXCEPT ![p] = r] /\ SnapOK(r)' /\ LeaveOK(r) /\ FollowOK(r)'
    BY <1>2 DEF Preserved, Moves
  <2>3. run \in [Procs -> Runs]
    BY DEF IInv, TypeOK, Runs
  <2>4. run' \in [Procs -> Runs]
    BY <2>2, <2>3
  <2>5. TypeOK'
    BY <2>1, <2>4 DEF TypeOK, Typed, Grown, Runs
  <2>6. ASSUME NEW q \in Procs PROVE (SnapOK(run[q]) /\ LeaveOK(run[q]) /\ FollowOK(run[q]))'
    <3>1. CASE q = p
      <4>1. run'[q] = r
        BY <2>2, <2>3, <3>1
      <4>2. QED
        BY <2>2, <4>1 DEF SnapOK, LeaveOK, FollowOK
    <3>2. CASE q # p
      <4> SUFFICES ASSUME NEW s, s = run[q] PROVE (SnapOK(run[q]) /\ LeaveOK(run[q]) /\ FollowOK(run[q]))'
        OBVIOUS
      <4>1. run'[q] = s
        BY <2>2, <2>3, <3>2
      <4>2. SnapOK(s) /\ LeaveOK(s) /\ FollowOK(s)
        BY DEF IInv
      <4>3. SnapOK(s)'
        BY <2>1, <4>2, OthersFit
      <4>4. QED
        BY <1>2, <4>1, <4>2, <4>3 DEF Preserved, SnapOK, LeaveOK, FollowOK
    <3>3. QED
      BY <3>1, <3>2
  <2>7. QED
    BY <2>1, <2>5, <2>6 DEF IInv, Grown
<1>3. QED
  BY <1>1, <1>2, StepPreserves DEF Next

LEMMA Invariance == Spec => []IInv
BY InitIInv, NextInv, PTL DEF Spec

\* Types of the files, of what each process is in the middle of, and of the journals.
THEOREM TypeCorrect == Spec => []TypeOK
BY Invariance, PTL DEF IInv

\* An adapter is active only if a transaction recorded that it projected the
\* generation on record for it, whatever ran, failed or crashed in between.
THEOREM EarnedTheorem == Spec => []ActiveEarned
<1>1. IInv => ActiveEarned
  BY DEF IInv, Earned, ActiveEarned
<1>2. QED
  BY <1>1, Invariance, PTL

\* What is installed is sealed, and its transaction had staged and validated it.
THEOREM SealedTheorem == Spec => []ActiveSealed
BY Invariance, PTL DEF IInv

\* No journal loses or changes an event.
THEOREM AppendOnlyTheorem == Spec => AppendOnly
<1>1. IInv /\ [Next]_vars =>
        [\A id \in DOMAIN journals :
           /\ id \in DOMAIN journals'
           /\ IsPrefix(journals[id].events, journals'[id].events)]_journals
  <2> SUFFICES ASSUME IInv, [Next]_vars
               PROVE  [\A id \in DOMAIN journals :
                         /\ id \in DOMAIN journals'
                         /\ IsPrefix(journals[id].events, journals'[id].events)]_journals
    OBVIOUS
  <2>1. CASE UNCHANGED vars
    BY <2>1 DEF vars
  <2>2. CASE Next
    BY <2>2, StepPreserves DEF Next, Preserved, Grown
  <2>3. QED
    BY <2>1, <2>2
<1>2. QED
  BY <1>1, Invariance, PTL DEF Spec, AppendOnly

-----------------------------------------------------------------------------
(* What the parser accepts.  A journal on disk has passed it, or is new;    *)
(* and what a reconcile appends passes it again, but for the one case of    *)
(* RefusedOnlyOpen.                                                         *)

\* A set of places of a sequence that is not empty has a last one.
LEMMA LastPlace ==
  ASSUME NEW L \in Nat, NEW S \in SUBSET (1 .. L), S # {}
  PROVE  \E n \in S : \A m \in S : m <= n
<1> DEFINE T == {L - i : i \in S}
<1>1. T \in SUBSET Nat /\ T # {}
  <2>1. \A i \in S : i \in 1 .. L /\ L - i \in Nat
    OBVIOUS
  <2>2. QED
    BY <2>1
<1>2. PICK t \in T : \A u \in T : t <= u
  BY <1>1, LeastNat
<1>3. PICK n \in S : t = L - n
  OBVIOUS
<1>4. ASSUME NEW m \in S PROVE m <= n
  <2>1. L - m \in T
    OBVIOUS
  <2>2. L - n <= L - m
    BY <1>2, <1>3, <2>1
  <2>3. m \in 1 .. L /\ n \in 1 .. L
    OBVIOUS
  <2>4. QED
    BY <2>2, <2>3
<1>5. QED
  BY <1>4

\* Whether an attempt of the adapter is open after the last event, its status says.
LEMMA OpenAtEnd ==
  ASSUME NEW j \in Journals, AttemptsAlternate(j), NEW a \in DOMAIN j.status,
         NEW n, n = Len(j.events) + 1
  PROVE  AttemptOpen(j, a, n) <=> j.status[a] = "in-progress"
<1>1. /\ j.events \in Events /\ Len(j.events) \in Nat /\ DOMAIN j.events = 1 .. Len(j.events)
      /\ \A i \in DOMAIN j.events : j.events[i].kind \in EventKinds
  <2>1. j.events \in Events
    BY DEF Journals, Events
  <2>2. Len(j.events) \in Nat /\ DOMAIN j.events = 1 .. Len(j.events)
    BY <2>1 DEF Events
  <2>3. ASSUME NEW S, NEW s \in Seq(S), NEW i \in DOMAIN s PROVE s[i] \in S
    OBVIOUS
  <2>4. ASSUME NEW i \in DOMAIN j.events PROVE j.events[i].kind \in EventKinds
    <3>1. j.events[i] \in [kind : EventKinds, adapter : Adapters \cup {None}]
      BY <2>1, <2>3 DEF Events
    <3>2. QED
      BY <3>1
  <2>5. QED
    BY <2>1, <2>2, <2>4
<1>2. Places(j, a) \in SUBSET (1 .. Len(j.events))
  BY <1>1 DEF Places
<1>3. CASE Places(j, a) = {}
  BY <1>3 DEF AttemptOpen, AttemptsAlternate
<1>4. CASE Places(j, a) # {}
  <2>1. PICK k \in Places(j, a) : \A l \in Places(j, a) : l <= k
    BY <1>1, <1>2, <1>4, LastPlace
  <2>2. j.status[a] = IF j.events[k].kind = "started" THEN "in-progress" ELSE j.events[k].kind
    BY <2>1 DEF AttemptsAlternate
  <2>3. j.events[k].kind # "in-progress"
    BY <1>1, <1>2 DEF EventKinds, AdapterKinds
  <2>4. \A l \in Places(j, a) : l < n /\ l \in Nat
    BY <1>1, <1>2
  <2>5. ASSUME AttemptOpen(j, a, n) PROVE j.events[k].kind = "started"
    <3>1. PICK l \in Places(j, a) : j.events[l].kind = "started" /\ \A m \in Places(j, a) : m <= l
      BY <2>4, <2>5 DEF AttemptOpen
    <3>2. l = k
      BY <2>1, <2>4, <3>1
    <3>3. QED
      BY <3>1, <3>2
  <2>6. ASSUME j.events[k].kind = "started" PROVE AttemptOpen(j, a, n)
    BY <2>1, <2>4, <2>6 DEF AttemptOpen
  <2>7. QED
    BY <2>2, <2>3, <2>5, <2>6
<1>5. QED
  BY <1>3, <1>4

\* An event of a reconcile, added after the commit, leaves the phases in order.
LEMMA LaterEvent ==
  ASSUME NEW j \in Journals, InOrder(j), CommitRecorded(j), j.committed,
         NEW kind \in AdapterKinds \cup {"doctor"}, NEW a \in Adapters \cup {None},
         NEW n \in Journals, n.events = Append(j.events, Happened(kind, a)), n.committed
  PROVE  InOrder(n) /\ CommitRecorded(n)
<1> DEFINE L == Len(j.events)
<1>1. /\ j.events \in Events /\ L \in Nat /\ DOMAIN j.events = 1 .. L
  BY DEF Journals, Events
<1>2. /\ DOMAIN n.events = 1 .. L + 1
      /\ n.events[L + 1].kind = kind
      /\ \A i \in 1 .. L : n.events[i] = j.events[i]
  <2>1. Happened(kind, a) \in [kind : EventKinds, adapter : Adapters \cup {None}]
        /\ Happened(kind, a).kind = kind
    BY DEF Happened, EventKinds
  <2>2. QED
    BY <1>1, <2>1 DEF Events
<1>3. kind # "committed" /\ kind # "planned" /\ Rank(kind) >= 5
  BY DEF AdapterKinds, Rank
<1>4. InOrder(n)
  <2>1. L >= 1 /\ n.events # <<>> /\ n.events[1].kind = "planned"
    BY <1>1, <1>2 DEF InOrder
  <2>2. ASSUME NEW i \in 1 .. L + 1, NEW k \in 1 .. L + 1, i < k
        PROVE  Rank(n.events[i].kind) <= Rank(n.events[k].kind) \/ Rank(n.events[k].kind) >= 5
    <3>1. CASE k = L + 1
      BY <1>2, <1>3, <3>1
    <3>2. CASE k # L + 1
      <4>1. i \in 1 .. L /\ k \in 1 .. L
        BY <1>1, <2>2, <3>2
      <4>2. QED
        BY <1>1, <1>2, <2>2, <4>1 DEF InOrder
    <3>3. QED
      BY <3>1, <3>2
  <2>3. QED
    BY <1>2, <2>1, <2>2 DEF InOrder
<1>5. CommitRecorded(n)
  <2>1. PICK c \in 1 .. L : j.events[c].kind = "committed"
    BY <1>1 DEF CommitRecorded, Kinds
  <2>2. n.events[c].kind = "committed" /\ c \in 1 .. L + 1
    BY <1>1, <1>2, <2>1
  <2>3. Kinds(j) \subseteq Kinds(n) /\ "committed" \in Kinds(n)
    BY <1>1, <1>2, <2>2 DEF Kinds
  <2>4. ASSUME NEW i \in 1 .. L + 1, NEW k \in 1 .. L + 1,
               n.events[i].kind = "committed", n.events[k].kind = "committed"
        PROVE  i = k
    <3>1. i \in 1 .. L /\ k \in 1 .. L
      BY <1>1, <1>2, <1>3, <2>4
    <3>2. QED
      BY <1>1, <1>2, <2>4, <3>1 DEF CommitRecorded
  <2>5. ASSUME NEW i \in 1 .. L + 1, n.events[i].kind \in AdapterKinds
        PROVE  \E k \in 1 .. i : n.events[k].kind = "committed"
    <3>1. CASE i = L + 1
      BY <1>1, <2>2, <3>1
    <3>2. CASE i # L + 1
      <4>1. i \in 1 .. L
        BY <1>1, <3>2
      <4>2. PICK k \in 1 .. i : j.events[k].kind = "committed"
        BY <1>1, <1>2, <2>5, <4>1 DEF CommitRecorded
      <4>3. k \in 1 .. L
        BY <1>1, <4>1
      <4>4. QED
        BY <1>2, <4>2, <4>3
    <3>3. QED
      BY <3>1, <3>2
  <2>6. QED
    BY <1>2, <2>3, <2>4, <2>5 DEF CommitRecorded
<1>6. QED
  BY <1>4, <1>5

\* An event of one adapter, in its turn, keeps the attempts of every adapter in turn.
LEMMA TurnKept ==
  ASSUME NEW j \in Journals, AttemptsAlternate(j),
         NEW kind \in AdapterKinds, NEW a \in DOMAIN j.status, a \in Adapters,
         kind = "started" <=> j.status[a] # "in-progress",
         NEW n \in Journals, n.events = Append(j.events, Happened(kind, a)),
         n.status = [j.status EXCEPT ![a] = IF kind = "started" THEN "in-progress" ELSE kind]
  PROVE  AttemptsAlternate(n)
<1> DEFINE L == Len(j.events)
<1>1. /\ j.events \in Events /\ L \in Nat /\ DOMAIN j.events = 1 .. L
  BY DEF Journals, Events
<1>2. /\ DOMAIN n.events = 1 .. L + 1
      /\ n.events[L + 1].kind = kind /\ n.events[L + 1].adapter = a
      /\ \A i \in 1 .. L : n.events[i] = j.events[i]
  <2>1. /\ Happened(kind, a) \in [kind : EventKinds, adapter : Adapters \cup {None}]
        /\ Happened(kind, a).kind = kind /\ Happened(kind, a).adapter = a
    BY DEF Happened, EventKinds
  <2>2. QED
    BY <1>1, <2>1 DEF Events
<1>3. \A b : Places(n, b) = IF b = a THEN Places(j, b) \cup {L + 1} ELSE Places(j, b)
  BY <1>1, <1>2 DEF Places
<1>4. \A b : Places(j, b) \subseteq 1 .. L
  BY <1>1 DEF Places
<1>5. ASSUME NEW b, NEW i \in 1 .. L + 1
      PROVE  AttemptOpen(n, b, i) <=> AttemptOpen(j, b, i)
  <2>1. \A k \in Places(n, b) : k < i => k \in Places(j, b)
    BY <1>1, <1>3, <1>4, <1>5
  <2>2. Places(j, b) \subseteq Places(n, b)
    BY <1>3
  <2>3. \A k \in Places(j, b) : n.events[k] = j.events[k]
    BY <1>2, <1>4
  <2>4. QED
    BY <2>1, <2>2, <2>3 DEF AttemptOpen
<1>6. DOMAIN n.status = DOMAIN j.status
      /\ \A b \in DOMAIN j.status : b # a => n.status[b] = j.status[b]
      /\ n.status[a] = IF kind = "started" THEN "in-progress" ELSE kind
  OBVIOUS
<1>7. ASSUME NEW b \in DOMAIN j.status, NEW i \in Places(n, b)
      PROVE  (n.events[i].kind = "started") <=> ~AttemptOpen(n, b, i)
  <2>1. CASE i \in Places(j, b)
    <3>1. i \in 1 .. L /\ i \in 1 .. L + 1
      BY <1>1, <1>4, <2>1
    <3>2. (j.events[i].kind = "started") <=> ~AttemptOpen(j, b, i)
      BY <2>1 DEF AttemptsAlternate
    <3>3. QED
      BY <1>2, <1>5, <3>1, <3>2
  <2>2. CASE i \notin Places(j, b)
    <3>1. b = a /\ i = L + 1 /\ i \in 1 .. L + 1
      BY <1>1, <1>3, <2>2
    <3>2. AttemptOpen(j, a, i) <=> j.status[a] = "in-progress"
      BY <3>1, OpenAtEnd
    <3>3. QED
      BY <1>2, <1>5, <3>1, <3>2
  <2>3. QED
    BY <2>1, <2>2
<1>8. ASSUME NEW b \in DOMAIN j.status, Places(n, b) = {}
      PROVE  n.status[b] = "pending"
  BY <1>3, <1>6, <1>8 DEF AttemptsAlternate
<1>9. ASSUME NEW b \in DOMAIN j.status, NEW i \in Places(n, b), \A k \in Places(n, b) : k <= i
      PROVE  n.status[b] = IF n.events[i].kind = "started" THEN "in-progress" ELSE n.events[i].kind
  <2>1. CASE b = a
    <3>1. i = L + 1
      <4>1. L + 1 \in Places(n, b) /\ i \in 1 .. L + 1
        BY <1>1, <1>3, <1>4, <2>1
      <4>2. L + 1 <= i
        BY <1>9, <4>1
      <4>3. QED
        BY <1>1, <4>1, <4>2
    <3>2. QED
      BY <1>2, <1>6, <2>1, <3>1
  <2>2. CASE b # a
    <3>1. i \in Places(j, b) /\ \A k \in Places(j, b) : k <= i
      BY <1>3, <1>9, <2>2
    <3>2. n.events[i] = j.events[i]
      BY <1>2, <1>4, <3>1
    <3>3. QED
      BY <1>6, <2>2, <3>1, <3>2 DEF AttemptsAlternate
  <2>3. QED
    BY <2>1, <2>2
<1>10. QED
  BY <1>6, <1>7, <1>8, <1>9 DEF AttemptsAlternate

\* What an attempt writes is accepted, but for the open attempt of another adapter.
LEMMA AttemptParses ==
  ASSUME NEW j \in Journals, Parses(j), j.committed, NEW a \in DOMAIN j.status, a \in Adapters,
         NEW n,
         \/ n = Started(j, a) /\ j.status[a] # "in-progress"
         \/ n \in {Failed(j, a), Succeeded(j, a)} /\ j.status[a] = "in-progress"
  PROVE  /\ n \in Journals /\ n.committed /\ DOMAIN n.status = DOMAIN j.status
         /\ n = Started(j, a) => n.status[a] = "in-progress"
         /\ Parses(n) \/ \E b \in DOMAIN n.status \ {a} : n.status[b] = "in-progress"
<1>1. n \in Journals
  BY AttemptFact
<1>2. PICK kind \in AdapterKinds, s \in Statuses, state \in CommittedStates :
        /\ n = [Appended(j, state, kind, a) EXCEPT !.status[a] = s]
        /\ s = IF kind = "started" THEN "in-progress" ELSE kind
        /\ kind = "started" <=> j.status[a] # "in-progress"
        /\ n = Started(j, a) => kind = "started"
        /\ kind = "started" <=> state = "reconciling"
        /\ state # "completed"
        /\ kind = "failed" => state = "degraded"
        /\ kind = "succeeded" =>
             state = IF \E b \in DOMAIN j.status \ {a} : j.status[b] = "failed"
                       THEN "degraded" ELSE "committed"
  <2>1. CASE n = Started(j, a) /\ j.status[a] # "in-progress"
    BY <2>1 DEF Started, AdapterKinds, Statuses, CommittedStates
  <2>2. CASE n = Failed(j, a) /\ j.status[a] = "in-progress"
    <3>1. n # Started(j, a)
      <4>1. Failed(j, a).state = "degraded" /\ Started(j, a).state = "reconciling"
        BY DEF Failed, Started, Appended, Journals
      <4>2. QED
        BY <2>2, <4>1
    <3>2. QED
      BY <2>2, <3>1 DEF Failed, AdapterKinds, Statuses, CommittedStates
  <2>3. CASE n = Succeeded(j, a) /\ j.status[a] = "in-progress"
    <3>1. n # Started(j, a)
      <4>1. Succeeded(j, a).state # "reconciling" /\ Started(j, a).state = "reconciling"
        BY DEF Succeeded, Started, Appended, Journals
      <4>2. QED
        BY <2>3, <4>1
    <3>2. QED
      BY <2>3, <3>1 DEF Succeeded, AdapterKinds, Statuses, CommittedStates
  <2>4. QED
    BY <2>1, <2>2, <2>3
<1>3. /\ n.events = Append(j.events, Happened(kind, a)) /\ n.committed = j.committed
      /\ n.state = state /\ n.status = [j.status EXCEPT ![a] = s]
  BY <1>2 DEF Appended, Journals
<1>4. InOrder(n) /\ CommitRecorded(n)
  BY <1>1, <1>3, LaterEvent DEF Parses
<1>5. AttemptsAlternate(n)
  BY <1>1, <1>2, <1>3, TurnKept DEF Parses
<1>6. DOMAIN n.status = DOMAIN j.status /\ n.status[a] = s
      /\ \A b \in DOMAIN j.status \ {a} : n.status[b] = j.status[b]
  BY <1>3
<1>7. ASSUME \A b \in DOMAIN n.status \ {a} : n.status[b] # "in-progress"
      PROVE  StateAgrees(n)
  <2> DEFINE has == {n.status[b] : b \in DOMAIN n.status}
  <2>1. s \in has /\ s # "pending"
    BY <1>2, <1>6 DEF AdapterKinds
  <2>2. "in-progress" \in has <=> kind = "started"
    BY <1>2, <1>6, <1>7 DEF AdapterKinds
  <2>3. ASSUME kind = "succeeded" PROVE "failed" \in has <=> state = "degraded"
    BY <1>2, <1>6, <2>3
  <2>4. kind = "failed" => "failed" \in has
    BY <1>2, <2>1
  <2>5. state \in CommittedStates => n.committed
    BY <1>3
  <2> HIDE DEF has
  <2>6. /\ state = "completed" => has \subseteq {"succeeded"}
        /\ state = "degraded" => "failed" \in has
        /\ "failed" \in has => state \in {"degraded", "reconciling"}
        /\ (state = "reconciling") <=> ("in-progress" \in has)
    BY <1>2, <2>2, <2>3, <2>4 DEF AdapterKinds
  <2>7. QED
    BY <1>3, <2>5, <2>6 DEF StateAgrees, has
<1>8. QED
  BY <1>1, <1>2, <1>3, <1>4, <1>5, <1>6, <1>7 DEF Parses

\* A transaction whose adapters all succeeded may be recorded as completed.
LEMMA CompletedParses ==
  ASSUME NEW j \in Journals, Parses(j), j.committed, AllSucceeded(j)
  PROVE  Parses(Completed(j))
<1> DEFINE n == Completed(j)
<1>1. n \in Journals
  BY AppendedFact DEF Completed, CommittedStates, EventKinds
<1>2. /\ n.events = Append(j.events, Happened("doctor", None)) /\ n.committed = j.committed
      /\ n.state = "completed" /\ n.status = j.status
  BY DEF Completed, Appended, Journals
<1> HIDE DEF n
<1>3. InOrder(n) /\ CommitRecorded(n)
  BY <1>1, <1>2, LaterEvent DEF Parses
<1>4. AttemptsAlternate(n)
  <2> DEFINE L == Len(j.events)
  <2>1. /\ j.events \in Events /\ L \in Nat /\ DOMAIN j.events = 1 .. L
    BY DEF Journals, Events
  <2>2. /\ DOMAIN n.events = 1 .. L + 1 /\ n.events[L + 1].adapter = None
        /\ \A i \in 1 .. L : n.events[i] = j.events[i]
    <3>1. /\ Happened("doctor", None) \in [kind : EventKinds, adapter : Adapters \cup {None}]
          /\ Happened("doctor", None).adapter = None
      BY DEF Happened, EventKinds
    <3>2. QED
      BY <1>2, <2>1, <3>1 DEF Events
  <2>3. DOMAIN j.status \subseteq Adapters /\ None \notin DOMAIN j.status
    BY OrderAssumption DEF Journals
  <2>4. \A a \in DOMAIN j.status : Places(n, a) = Places(j, a)
    BY <2>1, <2>2, <2>3 DEF Places
  <2>5. \A a \in DOMAIN j.status : \A i \in Places(j, a) : n.events[i] = j.events[i]
    BY <2>1, <2>2 DEF Places
  <2>6. \A a \in DOMAIN j.status : \A i : AttemptOpen(n, a, i) <=> AttemptOpen(j, a, i)
    BY <2>4, <2>5 DEF AttemptOpen
  <2>7. AttemptsAlternate(j)
    BY DEF Parses
  <2>8. ASSUME NEW a \in DOMAIN n.status
        PROVE  /\ \A i \in Places(n, a) : (n.events[i].kind = "started") <=> ~AttemptOpen(n, a, i)
               /\ Places(n, a) = {} => n.status[a] = "pending"
               /\ \A i \in Places(n, a) : (\A k \in Places(n, a) : k <= i) =>
                    n.status[a] = IF n.events[i].kind = "started" THEN "in-progress"
                                  ELSE n.events[i].kind
    <3>1. a \in DOMAIN j.status /\ n.status[a] = j.status[a] /\ Places(n, a) = Places(j, a)
      BY <1>2, <2>4
    <3>2. /\ \A i \in Places(j, a) : n.events[i] = j.events[i]
          /\ \A i : AttemptOpen(n, a, i) <=> AttemptOpen(j, a, i)
      BY <2>5, <2>6, <3>1
    <3>3. \A i \in Places(n, a) : (n.events[i].kind = "started") <=> ~AttemptOpen(n, a, i)
      BY <2>7, <3>1, <3>2 DEF AttemptsAlternate
    <3>4. Places(n, a) = {} => n.status[a] = "pending"
      BY <2>7, <3>1 DEF AttemptsAlternate
    <3>5. ASSUME NEW i \in Places(n, a), \A k \in Places(n, a) : k <= i
          PROVE  n.status[a] = IF n.events[i].kind = "started" THEN "in-progress"
                               ELSE n.events[i].kind
      BY <2>7, <3>1, <3>2, <3>5 DEF AttemptsAlternate
    <3>6. QED
      BY <3>3, <3>4, <3>5
  <2>9. QED
    BY <2>8 DEF AttemptsAlternate
<1>5. StateAgrees(n)
  BY <1>2 DEF StateAgrees, AllSucceeded
<1>6. QED
  BY <1>3, <1>4, <1>5 DEF Parses, n

\* A new journal is accepted.
LEMMA NewParses ==
  ASSUME NEW platforms \in SUBSET Adapters
  PROVE  Parses(NewJournal(platforms))
<1> DEFINE n == NewJournal(platforms)
<1>1. /\ n.state = "planned" /\ n.committed = FALSE /\ n.status = [a \in platforms |-> "pending"]
      /\ n.events = <<Happened("planned", None)>>
  BY DEF NewJournal
<1> HIDE DEF n
<1>2. /\ DOMAIN n.events = {1} /\ n.events # <<>>
      /\ n.events[1].kind = "planned" /\ n.events[1].adapter = None
  BY <1>1 DEF Happened
<1>3. InOrder(n)
  BY <1>2 DEF InOrder
<1>4. Kinds(n) = {"planned"}
  BY <1>2 DEF Kinds
<1>5. CommitRecorded(n)
  BY <1>1, <1>2, <1>4 DEF CommitRecorded, AdapterKinds
<1>6. None \notin platforms
  BY OrderAssumption
<1>7. \A a \in platforms : Places(n, a) = {}
  BY <1>2, <1>6 DEF Places
<1>8. AttemptsAlternate(n)
  BY <1>1, <1>7 DEF AttemptsAlternate
<1>9. StateAgrees(n)
  BY <1>1 DEF StateAgrees, CommittedStates
<1>10. QED
  BY <1>3, <1>5, <1>8, <1>9 DEF Parses, n

\* The steps a transaction is at only after its commit was recorded.
LaterSteps == {"revisit", "reopen", "resume", "advanced", "materialize", "reconcile",
               "attempt", "record", "complete"}

\* What a transaction knows of the journal it last saw.
Attempting(r) ==
  r \in Transactions /\ r.step # "open" =>
    /\ Parses(r.snap)
    /\ r.step \in LaterSteps => r.snap.committed
    /\ r.step \in {"attempt", "record"} => r.snap.status[NextAdapter(r)] = "in-progress"
    /\ r.step = "complete" => AllSucceeded(r.snap)

ParsedInv ==
  /\ \A id \in DOMAIN journals : Parses(journals[id])
  /\ \A p \in Procs : Attempting(run[p])

LEMMA InitParsed == Init => ParsedInv
<1> SUFFICES ASSUME Init PROVE ParsedInv
  OBVIOUS
<1>1. DOMAIN journals = {} /\ \A p \in Procs : run[p] = Idle
  BY DEF Init
<1>2. Idle \notin Transactions
  BY DEF Idle, Transactions, TransactionSteps
<1>3. QED
  BY <1>1, <1>2 DEF ParsedInv, Attempting

\* One process moves on, and at most one journal is written.
ParsedMove(p) ==
  \E n : /\ run' = [run EXCEPT ![p] = n] /\ Attempting(n)
         /\ \/ UNCHANGED journals
            \/ \E id, j : SetJournal(id, j) /\ Parses(j)

LEMMA MoveParsed ==
  ASSUME IInv, ParsedInv, NEW p \in Procs, ParsedMove(p)
  PROVE  ParsedInv'
<1>1. PICK n : /\ run' = [run EXCEPT ![p] = n] /\ Attempting(n)
               /\ \/ UNCHANGED journals
                  \/ \E id, j : SetJournal(id, j) /\ Parses(j)
  BY DEF ParsedMove
<1>2. \A id \in DOMAIN journals' : Parses(journals'[id])
  <2>1. CASE UNCHANGED journals
    BY <2>1 DEF ParsedInv
  <2>2. ASSUME NEW id, NEW j, SetJournal(id, j), Parses(j)
        PROVE  \A i \in DOMAIN journals' : Parses(journals'[i])
    BY <2>2 DEF ParsedInv, SetJournal
  <2>3. QED
    BY <1>1, <2>1, <2>2
<1>3. DOMAIN run = Procs
  BY DEF IInv, TypeOK
<1>4. ASSUME NEW q \in Procs PROVE Attempting(run[q])'
  <2>1. CASE q = p
    <3>1. run'[q] = n
      BY <1>1, <1>3, <2>1
    <3>2. QED
      BY <1>1, <3>1 DEF Attempting
  <2>2. CASE q # p
    <3>1. run'[q] = run[q]
      BY <1>1, <1>3, <2>2
    <3>2. Attempting(run[q])
      BY DEF ParsedInv
    <3>3. QED
      BY <3>1, <3>2 DEF Attempting
  <2>3. QED
    BY <2>1, <2>2
<1>5. QED
  BY <1>2, <1>4 DEF ParsedInv

\* A process that ends, or is in the middle of something else, sees no journal.
LEMMA EndMoves ==
  ASSUME NEW p, End(p), UNCHANGED journals \/ \E id, j : SetJournal(id, j) /\ Parses(j)
  PROVE  ParsedMove(p)
<1>1. Idle \notin Transactions
  BY DEF Idle, Transactions, TransactionSteps
<1>2. QED
  BY <1>1 DEF ParsedMove, Attempting, End

LEMMA OtherParsed ==
  ASSUME NEW p, NEW n, n.step \notin TransactionSteps,
         run' = [run EXCEPT ![p] = n], UNCHANGED journals
  PROVE  ParsedMove(p)
<1>1. n \notin Transactions
  BY DEF Transactions
<1>2. QED
  BY <1>1 DEF ParsedMove, Attempting

LEMMA BeginParsed ==
  ASSUME NEW p, NEW n, n.step = "open", run' = [run EXCEPT ![p] = n], UNCHANGED journals
  PROVE  ParsedMove(p)
BY DEF ParsedMove, Attempting

\* A transaction goes on with the journal it last saw.
LEMMA KeptParsed ==
  ASSUME NEW p, NEW r, r \in Transactions, Attempting(r), r.step # "open",
         NEW n, n.snap = r.snap, n.step \in LaterSteps => r.step \in LaterSteps,
         n.step \in {"attempt", "record"} =>
           r.step \in {"attempt", "record"} /\ n.needed = r.needed,
         n.step = "complete" => AllSucceeded(r.snap),
         run' = [run EXCEPT ![p] = n], UNCHANGED journals
  PROVE  ParsedMove(p)
<1>1. n.needed = r.needed => NextAdapter(n) = NextAdapter(r)
  BY DEF NextAdapter
<1>2. Attempting(n)
  BY <1>1 DEF Attempting
<1>3. QED
  BY <1>2 DEF ParsedMove

LEMMA ToParsed ==
  ASSUME IInv, ParsedInv, NEW p \in Procs, run[p].step \in TransactionSteps \ {"open"},
         NEW step \in TransactionSteps \ {"attempt", "record"},
         step \in LaterSteps => run[p].step \in LaterSteps,
         step = "complete" => AllSucceeded(run[p].snap),
         To(p, step), UNCHANGED journals
  PROVE  ParsedMove(p)
<1> SUFFICES ASSUME NEW r, r = run[p] PROVE ParsedMove(p)
  OBVIOUS
<1>1. r \in Transactions /\ Attempting(r)
  BY Opened DEF ParsedInv
<1> DEFINE n == [r EXCEPT !.step = step]
<1>2. n.snap = r.snap /\ n.step = step
  BY <1>1 DEF Transactions
<1>3. run' = [run EXCEPT ![p] = n]
  BY DEF To, IInv, TypeOK
<1> HIDE DEF n
<1>4. QED
  BY <1>1, <1>2, <1>3, KeptParsed

\* What a transaction writes was accepted, and it goes on with that, or ends.
LEMMA WriteParsed ==
  ASSUME NEW p, NEW r, r = run[p], r \in Transactions,
         NEW next, NEW step, step # "open", Write(p, next, step),
         step \in LaterSteps => next.committed,
         step \in {"attempt", "record"} => next.status[NextAdapter(r)] = "in-progress",
         step # "complete"
  PROVE  ParsedMove(p)
<1> DEFINE n == [r EXCEPT !.snap = next, !.step = step]
<1>1. CASE ~Accepts(r, next)
  BY <1>1, EndMoves DEF Write
<1>2. CASE Accepts(r, next)
  <2>1. SetJournal(r.id, next) /\ run' = [run EXCEPT ![p] = n] /\ Parses(next)
    BY <1>2 DEF Write, Accepts
  <2>2. n.snap = next /\ n.step = step /\ n.needed = r.needed
    BY DEF Transactions
  <2>3. NextAdapter(n) = NextAdapter(r)
    BY <2>2 DEF NextAdapter
  <2> HIDE DEF n
  <2>4. Attempting(n)
    BY <2>1, <2>2, <2>3 DEF Attempting
  <2>5. QED
    BY <2>1, <2>4 DEF ParsedMove
<1>3. QED
  BY <1>1, <1>2

\* A journal is opened: the one that is there, or a new one.
LEMMA OpenParsed ==
  ASSUME IInv, ParsedInv, NEW p \in Procs, Open(p)
  PROVE  ParsedMove(p)
<1> SUFFICES ASSUME NEW r, r = run[p] PROVE ParsedMove(p)
  OBVIOUS
<1>1. r \in Transactions /\ r.step = "open" /\ r.id.platforms \in SUBSET Adapters
  BY InTransaction DEF Open, At, TransactionSteps, IInv, Transactions, Ids
<1>2. ASSUME NEW j, Parses(j), j.state \in OpenStates \cup CommittedStates,
             NEW n, n.snap = j, n.step = StepAfterOpen(j.state),
             run' = [run EXCEPT ![p] = n], UNCHANGED journals \/ SetJournal(r.id, j)
      PROVE  ParsedMove(p)
  <2>1. /\ StepAfterOpen(j.state) \in {"revisit", "advance", "resume"}
        /\ StepAfterOpen(j.state) # "advance" => j.state \in CommittedStates
    BY <1>2 DEF StepAfterOpen, CommittedStates
  <2>2. Attempting(n)
    BY <1>2, <2>1 DEF Attempting, LaterSteps, Parses, StateAgrees
  <2>3. QED
    BY <1>2, <2>2 DEF ParsedMove
<1>3. CASE r.id \in DOMAIN journals
  <2> DEFINE j == journals[r.id]
             n == [r EXCEPT !.snap = j, !.step = StepAfterOpen(j.state)]
  <2>1. j \in Journals /\ j # None /\ Parses(j)
    BY <1>3, OrderAssumption DEF IInv, TypeOK, ParsedInv
  <2>2. j.state \in OpenStates \cup CommittedStates
    BY <2>1 DEF Journals
  <2>3. UNCHANGED journals /\ run' = [run EXCEPT ![p] = n]
    BY <1>3, <2>1 DEF Open, Journal
  <2> HIDE DEF j
  <2>4. n.snap = j /\ n.step = StepAfterOpen(j.state)
    BY <1>1 DEF Transactions
  <2> HIDE DEF n
  <2>5. QED
    BY <1>2, <2>1, <2>2, <2>3, <2>4
<1>4. CASE r.id \notin DOMAIN journals
  <2> DEFINE j == NewJournal(r.id.platforms)
             n == [r EXCEPT !.snap = j, !.step = StepAfterOpen(j.state)]
  <2>1. j.state \in OpenStates
    BY DEF NewJournal, OpenStates
  <2>2. Parses(j)
    BY <1>1, NewParses
  <2> HIDE DEF j
  <2>3. SetJournal(r.id, j) /\ run' = [run EXCEPT ![p] = n]
    BY <1>4 DEF Open, Journal, j
  <2>4. n.snap = j /\ n.step = StepAfterOpen(j.state)
    BY <1>1 DEF Transactions
  <2> HIDE DEF n
  <2>5. QED
    BY <1>2, <2>1, <2>2, <2>3, <2>4
<1>5. QED
  BY <1>3, <1>4

\* Up to the commit.
LEMMA AdvanceParsed ==
  ASSUME IInv, ParsedInv, NEW p \in Procs,
         BackUp(p) \/ Stage(p) \/ Seal(p) \/ RecordStaged(p) \/ Validate(p) \/ Activate(p) \/ RecordCommit(p)
  PROVE  ParsedMove(p)
<1> SUFFICES ASSUME NEW r, r = run[p] PROVE ParsedMove(p)
  OBVIOUS
<1>1. r.step \in {"advance", "seal", "staged", "activated"}
  BY DEF BackUp, Stage, Seal, RecordStaged, Validate, Activate, RecordCommit, Advancing, At
<1>2. r \in Transactions /\ r.snap \in Journals /\ Attempting(r)
  BY <1>1, Opened DEF TransactionSteps, ParsedInv
<1>3. ASSUME NEW next, Write(p, next, "advance") PROVE ParsedMove(p)
  BY <1>2, <1>3, WriteParsed DEF LaterSteps
<1>4. CASE BackUp(p) \/ RecordStaged(p)
  BY <1>3, <1>4 DEF BackUp, RecordStaged
<1>5. CASE Validate(p)
  BY <1>3, <1>5, EndMoves DEF Validate
<1>6. ASSUME NEW step \in {"seal", "staged", "activated"}, To(p, step), UNCHANGED journals
      PROVE  ParsedMove(p)
  BY <1>1, <1>6, ToParsed DEF TransactionSteps, LaterSteps
<1>7. CASE Stage(p)
  BY <1>6, <1>7, EndMoves DEF Stage
<1>8. CASE Seal(p)
  BY <1>6, <1>8 DEF Seal
<1>9. CASE Activate(p)
  BY <1>6, <1>9, EndMoves DEF Activate
<1>10. CASE RecordCommit(p)
  <2> DEFINE next == Committed(r.snap)
  <2>1. Write(p, next, "advanced")
    BY <1>10 DEF RecordCommit
  <2>2. next.committed
    BY <1>2 DEF Committed, Appended, Journals
  <2> HIDE DEF next
  <2>3. QED
    BY <1>2, <2>1, <2>2, WriteParsed
<1>11. QED
  BY <1>4, <1>5, <1>7, <1>8, <1>9, <1>10

\* From the commit to the adapters.
LEMMA CommittedParsed ==
  ASSUME IInv, ParsedInv, NEW p \in Procs,
         Revisit(p) \/ Refresh(p) \/ Reopen(p) \/ Advanced(p) \/ Resume(p) \/ Materialize(p)
  PROVE  ParsedMove(p)
<1> SUFFICES ASSUME NEW r, r = run[p] PROVE ParsedMove(p)
  OBVIOUS
<1>1. r.step \in {"revisit", "refresh", "reopen", "advanced", "resume", "materialize"}
  BY DEF Revisit, Refresh, Reopen, Advanced, Resume, Materialize, At
<1>2. r \in Transactions /\ r.snap \in Journals /\ Attempting(r)
  BY <1>1, Opened DEF TransactionSteps, ParsedInv
<1>3. ASSUME NEW n, n.snap = r.snap, n.step \in {"refresh", "reopen", "materialize", "reconcile"},
             run' = [run EXCEPT ![p] = n], UNCHANGED journals, r.step # "refresh"
      PROVE  ParsedMove(p)
  BY <1>1, <1>2, <1>3, KeptParsed DEF LaterSteps
<1>4. CASE Revisit(p)
  <2>1. CASE End(p)
    BY <1>4, <2>1, EndMoves DEF Revisit
  <2>2. CASE ~End(p)
    <3> DEFINE needed == Needed(r, install)
               done == AlreadyCommitted(install, r.id) /\ needed = {}
               n == [r EXCEPT !.needed = needed, !.inst = install',
                              !.step = IF done THEN "refresh" ELSE "reopen"]
    <3>1. /\ r.step = "revisit" /\ UNCHANGED journals /\ run' = [run EXCEPT ![p] = n]
      BY <1>4, <2>2 DEF Revisit, At
    <3>2. n.snap = r.snap /\ n.step \in {"refresh", "reopen"}
      <4> HIDE DEF needed, done
      <4>1. QED
        BY <1>2 DEF Transactions
    <3> HIDE DEF n
    <3>3. QED
      BY <1>3, <3>1, <3>2
  <2>3. QED
    BY <2>1, <2>2
<1>5. CASE Refresh(p)
  BY <1>5, EndMoves DEF Refresh
<1>6. CASE Reopen(p)
  <2> DEFINE next == [r.snap EXCEPT !.state = "committed"]
  <2>1. Write(p, next, "resume") /\ r.step = "reopen"
    BY <1>6 DEF Reopen, At
  <2>2. next.committed
    BY <1>2, <2>1 DEF Journals, Attempting, LaterSteps
  <2> HIDE DEF next
  <2>3. QED
    BY <1>2, <2>1, <2>2, WriteParsed
<1>7. CASE Advanced(p) \/ Resume(p)
  <2> DEFINE n == [r EXCEPT !.inst = install, !.step = "materialize"]
  <2>1. /\ r.step # "refresh" /\ UNCHANGED journals
        /\ run' = [run EXCEPT ![p] = n] \/ End(p)
    BY <1>7 DEF Advanced, Resume, At
  <2>2. n.snap = r.snap /\ n.step = "materialize"
    BY <1>2 DEF Transactions
  <2> HIDE DEF n
  <2>3. QED
    BY <1>3, <2>1, <2>2, EndMoves
<1>8. CASE Materialize(p)
  <2> DEFINE needed == IF r.needed = None THEN Needed(r, r.inst) ELSE r.needed
             n == [r EXCEPT !.step = "reconcile", !.needed = needed]
  <2>1. /\ r.step # "refresh" /\ UNCHANGED journals
        /\ run' = [run EXCEPT ![p] = n]
    BY <1>8 DEF Materialize, At
  <2> HIDE DEF needed
  <2>2. n.snap = r.snap /\ n.step = "reconcile"
    BY <1>2 DEF Transactions
  <2> HIDE DEF n
  <2>3. QED
    BY <1>3, <2>1, <2>2
<1>9. QED
  BY <1>4, <1>5, <1>6, <1>7, <1>8

\* The adapters.
LEMMA ReconcileParsed ==
  ASSUME IInv, ParsedInv, NEW p \in Procs,
         FailInterrupted(p) \/ StartAttempt(p) \/ Attempt(p) \/ AttemptFails(p) \/ Record(p)
  PROVE  ParsedMove(p)
<1> SUFFICES ASSUME NEW r, r = run[p] PROVE ParsedMove(p)
  OBVIOUS
<1> DEFINE a == NextAdapter(r)
<1>1. r.step \in {"reconcile", "attempt", "record"} /\ r.needed # {}
  <2>1. CASE FailInterrupted(p) \/ StartAttempt(p)
    BY <2>1 DEF FailInterrupted, StartAttempt, Reconciling, At
  <2>2. CASE Attempt(p) \/ AttemptFails(p) \/ Record(p)
    <3>1. r.step \in {"attempt", "record"}
      BY <2>2 DEF Attempt, AttemptFails, Record, At
    <3>2. r \in Transactions /\ SnapOK(r)
      BY <3>1, Opened DEF TransactionSteps, IInv
    <3>3. QED
      BY <3>1, <3>2 DEF SnapOK
  <2>3. QED
    BY <2>1, <2>2
<1>2. r \in Transactions /\ r.snap \in Journals /\ Attempting(r)
  BY <1>1, Opened DEF TransactionSteps, ParsedInv
<1>3. a \in Adapters /\ a \in DOMAIN r.snap.status
  BY <1>1, NextHasStatus
<1>4. Parses(r.snap) /\ r.snap.committed
  BY <1>1, <1>2 DEF Attempting, LaterSteps
<1>5. CASE FailInterrupted(p)
  <2>1. r.snap.status[a] = "in-progress" /\ Write(p, Failed(r.snap, a), "reconcile")
    BY <1>5 DEF FailInterrupted, LeftOpen
  <2>2. Failed(r.snap, a).committed
    BY <1>2, <1>3, <1>4, <2>1, AttemptParses
  <2>3. QED
    BY <1>2, <2>1, <2>2, WriteParsed
<1>6. CASE StartAttempt(p)
  <2>1. r.snap.status[a] # "in-progress" /\ Write(p, Started(r.snap, a), "attempt")
    BY <1>6 DEF StartAttempt, LeftOpen
  <2>2. Started(r.snap, a).committed /\ Started(r.snap, a).status[a] = "in-progress"
    BY <1>2, <1>3, <1>4, <2>1, AttemptParses
  <2>3. QED
    BY <1>2, <2>1, <2>2, WriteParsed
<1>7. CASE Attempt(p) \/ AttemptFails(p)
  <2>1. r.step = "attempt" /\ UNCHANGED journals
    BY <1>7 DEF Attempt, AttemptFails, At
  <2> DEFINE n(ok) == [r EXCEPT !.ok = ok, !.step = "record"]
  <2>2. \A ok : n(ok).snap = r.snap /\ n(ok).step = "record" /\ n(ok).needed = r.needed
    BY <1>2 DEF Transactions
  <2>3. run' = [run EXCEPT ![p] = n(TRUE)] \/ run' = [run EXCEPT ![p] = n(FALSE)]
    BY <1>7 DEF Attempt, AttemptFails
  <2> HIDE DEF n
  <2>4. ASSUME NEW ok, run' = [run EXCEPT ![p] = n(ok)] PROVE ParsedMove(p)
    BY <1>2, <2>1, <2>2, <2>4, KeptParsed DEF LaterSteps
  <2>5. QED
    BY <2>3, <2>4
<1>8. CASE Record(p)
  <2> DEFINE next == IF r.ok THEN Succeeded(r.snap, a) ELSE Failed(r.snap, a)
             n == [r EXCEPT !.snap = next, !.needed = @ \ {a}, !.step = "reconcile"]
  <2>1. /\ r.step = "record"
        /\ IF Accepts(r, next) THEN SetJournal(r.id, next) /\ run' = [run EXCEPT ![p] = n]
                               ELSE UNCHANGED journals /\ End(p)
    BY <1>8 DEF Record, At
  <2>2. next \in {Failed(r.snap, a), Succeeded(r.snap, a)} /\ r.snap.status[a] = "in-progress"
    BY <1>2, <2>1 DEF Attempting
  <2>3. next.committed
    <3> HIDE DEF next
    <3>1. QED
      BY <1>2, <1>3, <1>4, <2>2, AttemptParses
  <2> HIDE DEF next
  <2>4. n.snap = next /\ n.step = "reconcile"
    BY <1>2 DEF Transactions
  <2>5. CASE Accepts(r, next)
    <3>1. Parses(next) /\ SetJournal(r.id, next) /\ run' = [run EXCEPT ![p] = n]
      BY <2>1, <2>5 DEF Accepts
    <3> HIDE DEF n
    <3>2. Attempting(n)
      BY <2>3, <2>4, <3>1 DEF Attempting
    <3>3. QED
      BY <3>1, <3>2 DEF ParsedMove
  <2>6. CASE ~Accepts(r, next)
    BY <2>1, <2>6, EndMoves
  <2>7. QED
    BY <2>5, <2>6
<1>9. QED
  BY <1>5, <1>6, <1>7, <1>8

\* The end of a transaction, what runs besides, and what begins.
LEMMA RestParsed ==
  ASSUME IInv, ParsedInv, NEW p \in Procs,
         \/ Finalize(p) \/ Complete(p) \/ Follow(p) \/ PlanDetach(p) \/ RemoveProjection(p)
         \/ RecordDetach(p) \/ Left(p) \/ Crash(p)
  PROVE  ParsedMove(p)
<1> SUFFICES ASSUME NEW r, r = run[p] PROVE ParsedMove(p)
  OBVIOUS
<1>1. CASE Finalize(p)
  <2>1. r.step = "reconcile" /\ UNCHANGED journals
        /\ ((To(p, "complete") /\ AllSucceeded(r.snap)) \/ End(p))
    BY <1>1 DEF Finalize, At
  <2>2. QED
    BY <2>1, ToParsed, EndMoves DEF TransactionSteps, LaterSteps
<1>2. CASE Complete(p)
  BY <1>2, EndMoves DEF Complete, Accepts
<1>3. CASE Left(p)
  BY <1>3, EndMoves DEF Left
<1>4. CASE Crash(p)
  BY <1>4, EndMoves DEF Crash
<1>5. CASE Follow(p)
  <2>1. CASE r.platforms = {}
    BY <1>5, <2>1, EndMoves DEF Follow
  <2>2. CASE r.platforms # {}
    <3> DEFINE n == [Transaction("reconcile", r.gen, r.platforms, TRUE) EXCEPT !.at = r.at]
    <3>1. run' = [run EXCEPT ![p] = n] /\ UNCHANGED journals
      BY <1>5, <2>2 DEF Follow
    <3>2. n.step = "open"
      BY DEF Transaction
    <3> HIDE DEF n
    <3>3. QED
      BY <3>1, <3>2, BeginParsed
  <2>3. QED
    BY <2>1, <2>2
<1>6. r.step \in {"plan", "remove", "removed"} => r \in Leavings
  BY InLeaving DEF IInv
<1>7. CASE PlanDetach(p)
  <2>1. CASE End(p)
    BY <1>7, <2>1, EndMoves DEF PlanDetach
  <2>2. CASE ~End(p)
    <3>1. r.step = "plan" /\ UNCHANGED journals
      BY <1>7 DEF PlanDetach, At
    <3> DEFINE n == [r EXCEPT !.step = "remove", !.saw = [host |-> host, inst |-> install']]
    <3>2. run' = [run EXCEPT ![p] = n]
      BY <1>7, <2>2 DEF PlanDetach
    <3>3. n.step \notin TransactionSteps
      BY <1>6, <3>1 DEF Leavings, TransactionSteps
    <3> HIDE DEF n
    <3>4. QED
      BY <3>1, <3>2, <3>3, OtherParsed
  <2>3. QED
    BY <2>1, <2>2
<1>8. CASE RemoveProjection(p)
  <2>1. CASE End(p)
    BY <1>8, <2>1, EndMoves DEF RemoveProjection
  <2>2. CASE ~End(p)
    <3>1. r.step = "remove" /\ UNCHANGED journals /\ To(p, "removed")
      BY <1>8, <2>2 DEF RemoveProjection, At
    <3> DEFINE n == [r EXCEPT !.step = "removed"]
    <3>2. run' = [run EXCEPT ![p] = n]
      BY <3>1 DEF To, IInv, TypeOK
    <3>3. n.step \notin TransactionSteps
      BY <1>6, <3>1 DEF Leavings, TransactionSteps
    <3> HIDE DEF n
    <3>4. QED
      BY <3>1, <3>2, <3>3, OtherParsed
  <2>3. QED
    BY <2>1, <2>2
<1>9. CASE RecordDetach(p)
  <2>1. CASE End(p)
    BY <1>9, <2>1, EndMoves DEF RecordDetach
  <2>2. CASE ~End(p)
    <3>1. r.step = "removed" /\ UNCHANGED journals
      BY <1>9 DEF RecordDetach, At
    <3> DEFINE left == r.left \ {FirstOf(r.left)}
               n == [r EXCEPT !.step = "plan", !.saw = None, !.left = left]
    <3>2. run' = [run EXCEPT ![p] = n]
      BY <1>9, <2>2 DEF RecordDetach
    <3> HIDE DEF left
    <3>3. n.step \notin TransactionSteps
      BY <1>6, <3>1 DEF Leavings, TransactionSteps
    <3> HIDE DEF n
    <3>4. QED
      BY <3>1, <3>2, <3>3, OtherParsed
  <2>3. QED
    BY <2>1, <2>2
<1>10. QED
  BY <1>1, <1>2, <1>3, <1>4, <1>5, <1>7, <1>8, <1>9

LEMMA CommandParsed ==
  ASSUME IInv, ParsedInv, NEW p \in Procs, Command(p) \/ Exit(p)
  PROVE  ParsedMove(p)
<1>1. ASSUME NEW op, NEW gen, NEW platforms, NEW replaces,
             Begin(p, Transaction(op, gen, platforms, replaces)), UNCHANGED journals
      PROVE  ParsedMove(p)
  <2>1. Transaction(op, gen, platforms, replaces).step = "open"
    BY DEF Transaction
  <2>2. QED
    BY <1>1, <2>1, BeginParsed DEF Begin
<1>2. CASE Command(p)
  BY <1>1, <1>2 DEF Command, Initialize, Update, AddPlatform
<1>3. ASSUME NEW n, n.step \notin TransactionSteps, Begin(p, n), UNCHANGED journals
      PROVE  ParsedMove(p)
  BY <1>3, OtherParsed DEF Begin
<1>4. ASSUME NEW gen, Rollback(p, gen) PROVE ParsedMove(p)
  <2> DEFINE n == [step |-> "follow", gen |-> gen, platforms |-> Attached(install),
                   at |-> spent.commands + 1]
  <2>1. Begin(p, n) /\ UNCHANGED journals
    BY <1>4 DEF Rollback
  <2>2. n.step \notin TransactionSteps
    BY DEF TransactionSteps
  <2> HIDE DEF n
  <2>3. QED
    BY <1>3, <2>1, <2>2
<1>5. ASSUME NEW adapters, NEW all, Leave(p, adapters, all) PROVE ParsedMove(p)
  <2> DEFINE n == [step |-> "plan", left |-> adapters, all |-> all, saw |-> None,
                   at |-> spent.commands + 1]
  <2>1. Begin(p, n) /\ UNCHANGED journals
    BY <1>5 DEF Leave
  <2>2. n.step \notin TransactionSteps
    BY DEF TransactionSteps
  <2> HIDE DEF n
  <2>3. QED
    BY <1>3, <2>1, <2>2
<1>6. ASSUME Repair(p) PROVE ParsedMove(p)
  <2> SUFFICES ASSUME NEW r, r = run[p] PROVE ParsedMove(p)
    OBVIOUS
  <2>1. run' = [run EXCEPT ![p] = r] /\ UNCHANGED journals
    BY <1>6 DEF Repair, IInv, TypeOK
  <2>2. Attempting(r)
    BY DEF ParsedInv
  <2>3. QED
    BY <2>1, <2>2 DEF ParsedMove
<1>7. CASE Exit(p)
  BY <1>4, <1>5, <1>6, <1>7 DEF Exit
<1>8. QED
  BY <1>2, <1>7

LEMMA NextParsed == IInv /\ ParsedInv /\ [Next]_vars => ParsedInv'
<1> SUFFICES ASSUME IInv, ParsedInv, [Next]_vars PROVE ParsedInv'
  OBVIOUS
<1>1. CASE UNCHANGED vars
  BY <1>1 DEF vars, ParsedInv, Attempting
<1>2. ASSUME NEW p \in Procs, Command(p) \/ Exit(p) \/ Step(p) \/ Crash(p) PROVE ParsedInv'
  <2>1. ParsedMove(p)
    BY <1>2, CommandParsed, OpenParsed, AdvanceParsed, CommittedParsed, ReconcileParsed, RestParsed
    DEF Step
  <2>2. QED
    BY <2>1, MoveParsed
<1>3. QED
  BY <1>1, <1>2 DEF Next

\* Every journal on disk is one the parser accepts, and what a transaction
\* writes while it reconciles is accepted too, unless a crash left the attempt
\* of another adapter open.
THEOREM RefusedTheorem == Spec => []RefusedOnlyOpen
<1>1. IInv /\ ParsedInv => RefusedOnlyOpen
  <2> SUFFICES ASSUME IInv, ParsedInv, NEW p \in Procs, NEW n \in Upcoming(p)
               PROVE  \/ Parses(n)
                      \/ \E b \in DOMAIN n.status \ {NextAdapter(run[p])} : n.status[b] = "in-progress"
    BY DEF RefusedOnlyOpen
  <2> DEFINE r == run[p]
             a == NextAdapter(r)
  <2>1. CASE Reconciling(p) \/ At(p, "record")
    <3>1. r.step \in {"reconcile", "record"} /\ r.needed # {}
      <4>1. CASE Reconciling(p)
        BY <4>1 DEF Reconciling, At
      <4>2. CASE At(p, "record")
        <5>1. r.step = "record"
          BY <4>2 DEF At
        <5>2. r \in Transactions /\ SnapOK(r)
          BY <5>1, Opened DEF TransactionSteps, IInv
        <5>3. QED
          BY <5>1, <5>2 DEF SnapOK
      <4>3. QED
        BY <2>1, <4>1, <4>2
    <3>2. r \in Transactions /\ r.snap \in Journals /\ Attempting(r)
      BY <3>1, Opened DEF TransactionSteps, ParsedInv
    <3>3. a \in Adapters /\ a \in DOMAIN r.snap.status
      BY <3>1, NextHasStatus
    <3>4. Parses(r.snap) /\ r.snap.committed
      BY <3>1, <3>2 DEF Attempting, LaterSteps
    <3>5. \/ n = Started(r.snap, a) /\ r.snap.status[a] # "in-progress"
          \/ n \in {Failed(r.snap, a), Succeeded(r.snap, a)} /\ r.snap.status[a] = "in-progress"
      <4>1. CASE Reconciling(p)
        <5>1. Upcoming(p) = {IF LeftOpen(p) THEN Failed(r.snap, a) ELSE Started(r.snap, a)}
          BY <4>1 DEF Upcoming, Reconciling, At
        <5>2. n = IF LeftOpen(p) THEN Failed(r.snap, a) ELSE Started(r.snap, a)
          BY <5>1
        <5>3. QED
          BY <5>2 DEF LeftOpen
      <4>2. CASE ~Reconciling(p)
        <5>1. r.step = "record"
          BY <2>1, <4>2 DEF At
        <5>2. Upcoming(p) = {Succeeded(r.snap, a), Failed(r.snap, a)}
          BY <2>1, <4>2 DEF Upcoming, Reconciling, At
        <5>3. QED
          BY <3>2, <5>1, <5>2 DEF Attempting
      <4>3. QED
        BY <4>1, <4>2
    <3> HIDE DEF r
    <3>6. QED
      BY <3>2, <3>3, <3>4, <3>5, AttemptParses DEF r
  <2>2. CASE ~Reconciling(p) /\ ~At(p, "record")
    <3>1. At(p, "complete") /\ n = Completed(r.snap)
      BY <2>2 DEF Upcoming
    <3>2. r.step = "complete"
      BY <3>1 DEF At
    <3>3. r \in Transactions /\ r.snap \in Journals /\ Attempting(r)
      BY <3>2, Opened DEF TransactionSteps, ParsedInv
    <3>4. Parses(r.snap) /\ r.snap.committed /\ AllSucceeded(r.snap)
      BY <3>2, <3>3 DEF Attempting, LaterSteps
    <3>5. QED
      BY <3>1, <3>3, <3>4, CompletedParses
  <2>3. QED
    BY <2>1, <2>2
<1>2. Spec => []ParsedInv
  BY Invariance, InitParsed, NextParsed, PTL DEF Spec
<1>3. QED
  BY <1>1, <1>2, Invariance, PTL
-----------------------------------------------------------------------------
(* The contract: the plan that is kept as a fingerprint tells apart all     *)
(* that a transaction would do.                                             *)
CONSTANTS Malformed, Requests, Submitted, MaxRuns
VARIABLES saved, runner, drivers

Contract == INSTANCE LifecycleContract

ContractSpec == Contract!Lcinit /\ [][Contract!Lcnext]_Contract!lcvars

\* A request has the fields a caller gives it: the types of
\* LifecycleRequest.
Lists(s) == \E S : s \in Seq(S)
SourceKinds == {"fresh", "canonical", "legacy"}
Shaped(r) ==
  /\ r.source.kind \in SourceKinds /\ Lists(r.source.files) /\ Lists(r.adapters)
  /\ {"source", "adapters"} \subseteq DOMAIN r /\ {"kind", "files"} \subseteq DOMAIN r.source

\* Normalizing only puts the files in another order.
LEMMA NormalShape ==
  ASSUME NEW r, Shaped(r), NEW n, n = Contract!NormalizedRequest(r), n # None
  PROVE  Shaped(n)
<1>1. PICK files : files = Contract!Sorted(r.source.files)
  OBVIOUS
<1>2. n = [r EXCEPT !.source.files = files]
  BY <1>1 DEF Contract!NormalizedRequest
<1>3. PICK S : r.source.files \in Seq(S)
  BY DEF Shaped, Lists
<1>4. PICK pick : files = [place \in DOMAIN r.source.files |-> pick[place]]
  <2>1. PICK pick : pick = [place \in DOMAIN r.source.files |-> files[place]]
    OBVIOUS
  <2>2. files = [place \in DOMAIN r.source.files |-> pick[place]]
    BY <1>1, <2>1 DEF Contract!Sorted
  <2>3. QED
    BY <2>2
<1>5. Lists(files)
  <2>1. DOMAIN r.source.files = 1 .. Len(r.source.files) /\ Len(r.source.files) \in Nat
    BY <1>3
  <2>2. PICK T : T = {pick[place] : place \in DOMAIN r.source.files}
    OBVIOUS
  <2>3. PICK k \in Nat : k = Len(r.source.files)
    BY <2>1
  <2>4. files = [place \in 1 .. k |-> pick[place]] /\ \A place \in 1 .. k : pick[place] \in T
    BY <1>4, <2>1, <2>2, <2>3
  <2>5. files \in Seq(T)
    <3>1. files \in [1 .. k -> T]
      BY ONLY <2>4
    <3>2. QED
      BY ONLY <2>3, <3>1, SeqDef
  <2>6. QED
    BY <2>5 DEF Lists
<1>6. /\ n.source.kind = r.source.kind /\ n.source.files = files /\ n.adapters = r.adapters
      /\ {"source", "adapters"} \subseteq DOMAIN n /\ {"kind", "files"} \subseteq DOMAIN n.source
  BY <1>2 DEF Shaped
<1>7. QED
  BY <1>5, <1>6 DEF Shaped

\* The elements of a concatenation, each at its place.
LEMMA ConcatAt ==
  ASSUME NEW S, NEW s \in Seq(S), NEW t \in Seq(S), NEW st, st = s \o t
  PROVE  /\ st \in Seq(S) /\ Len(st) = Len(s) + Len(t)
         /\ \A i \in 1 .. Len(s) : st[i] = s[i]
         /\ \A i \in 1 .. Len(t) : st[Len(s) + i] = t[i]
<1>1. /\ st \in Seq(S) /\ Len(st) = Len(s) + Len(t) /\ Len(s) \in Nat /\ Len(t) \in Nat
      /\ \A i \in 1 .. Len(s) + Len(t) : st[i] = IF i <= Len(s) THEN s[i] ELSE t[i - Len(s)]
  BY ConcatProperties
<1>2. ASSUME NEW i \in 1 .. Len(s) PROVE st[i] = s[i]
  BY ONLY <1>1, i \in 1 .. Len(s)
<1>3. ASSUME NEW i \in 1 .. Len(t) PROVE st[Len(s) + i] = t[i]
  <2>1. /\ Len(s) + i \in 1 .. Len(s) + Len(t) /\ ~(Len(s) + i <= Len(s)) /\ (Len(s) + i) - Len(s) = i
    BY ONLY <1>1, i \in 1 .. Len(t)
  <2>2. QED
    BY ONLY <1>1, <2>1
<1>4. QED
  BY <1>1, <1>2, <1>3

\* The actions of a plan, each at its place, for f files and a adapters.
Placed(r, actions, f, a) ==
  /\ f \in Nat /\ a \in Nat /\ DOMAIN r.source.files = 1 .. f /\ DOMAIN r.adapters = 1 .. a
  /\ Len(actions) = 5 + f + a
  /\ \A i \in 1 .. f : actions[2 + i] = Contract!StageActions(r)[i]
  /\ actions[3 + f].phase = "validate"
  /\ \A i \in 1 .. a : actions[4 + f + i] = Contract!ReconcileActions(r)[i]

LEMMA PlanPlaces ==
  ASSUME NEW r, Shaped(r)
  PROVE  Placed(r, Contract!PlanActions(r), Len(r.source.files), Len(r.adapters))
<1>0. PICK f, a, actions : /\ f = Len(r.source.files) /\ a = Len(r.adapters)
                           /\ actions = Contract!PlanActions(r)
  OBVIOUS
<1>1. /\ f \in Nat /\ a \in Nat /\ DOMAIN r.source.files = 1 .. f /\ DOMAIN r.adapters = 1 .. a
  BY <1>0 DEF Shaped, Lists
<1>2. PICK x1, x2, v, c, d, stage, last :
        /\ stage = Contract!StageActions(r) /\ last = Contract!ReconcileActions(r)
        /\ v.phase = "validate"
        /\ actions = <<x1, x2>> \o stage \o <<v, c>> \o last \o <<d>>
  <2>1. PICK v : v = Contract!Action(<<"validate", 0>>, "validate", "validate-generation",
                                     Contract!Generation(r.generation), None)
    OBVIOUS
  <2>2. v.phase = "validate"
    BY <2>1 DEF Contract!Action
  <2>3. QED
    BY <1>0, <2>1, <2>2 DEF Contract!PlanActions
<1>3. stage = [i \in 1 .. f |-> stage[i]] /\ last = [i \in 1 .. a |-> last[i]]
  BY <1>1, <1>2 DEF Contract!StageActions, Contract!ReconcileActions
<1>4. PICK S : S = {x1, x2, v, c, d} \cup {stage[i] : i \in 1 .. f} \cup {last[i] : i \in 1 .. a}
  OBVIOUS
<1>5. stage \in Seq(S) /\ Len(stage) = f /\ last \in Seq(S) /\ Len(last) = a
  <2>1. (\A i \in 1 .. f : stage[i] \in S) /\ (\A i \in 1 .. a : last[i] \in S)
    BY ONLY <1>4
  <2>2. stage \in [1 .. f -> S] /\ last \in [1 .. a -> S]
    BY ONLY <1>3, <2>1
  <2>3. stage \in Seq(S) /\ last \in Seq(S)
    BY ONLY <1>1, <2>2, SeqDef
  <2>4. DOMAIN stage = 1 .. f /\ DOMAIN last = 1 .. a
    BY ONLY <2>2
  <2>5. QED
    BY ONLY <1>1, <2>3, <2>4, LenProperties
<1>6. /\ <<x1, x2>> \in Seq(S) /\ Len(<<x1, x2>>) = 2
      /\ <<v, c>> \in Seq(S) /\ Len(<<v, c>>) = 2 /\ <<v, c>>[1] = v
      /\ <<d>> \in Seq(S) /\ Len(<<d>>) = 1
  BY <1>4
<1>7. PICK p, q, t, two, pair, end :
        /\ two = <<x1, x2>> /\ pair = <<v, c>> /\ end = <<d>>
        /\ p = two \o stage /\ q = p \o pair /\ t = q \o last /\ actions = t \o end
  BY <1>2
<1>8. /\ two \in Seq(S) /\ Len(two) = 2 /\ pair \in Seq(S) /\ Len(pair) = 2 /\ pair[1] = v
      /\ end \in Seq(S) /\ Len(end) = 1
  BY <1>6, <1>7
<1>9. /\ p \in Seq(S) /\ Len(p) = 2 + f
       /\ \A i \in 1 .. f : p[2 + i] = stage[i]
  BY ONLY <1>1, <1>5, <1>7, <1>8, ConcatAt
<1>10. /\ q \in Seq(S) /\ Len(q) = 4 + f /\ q[3 + f] = v
       /\ \A i \in 1 .. 2 + f : q[i] = p[i]
  <2>1. /\ q \in Seq(S) /\ Len(q) = Len(p) + Len(pair)
        /\ \A i \in 1 .. Len(p) : q[i] = p[i]
        /\ \A i \in 1 .. Len(pair) : q[Len(p) + i] = pair[i]
    BY ONLY <1>7, <1>8, <1>9, ConcatAt
  <2>2. Len(p) = 2 + f /\ Len(pair) = 2 /\ 1 \in 1 .. Len(pair) /\ Len(p) + 1 = 3 + f
    BY ONLY <1>1, <1>8, <1>9
  <2>3. q[3 + f] = v
    BY ONLY <1>8, <2>1, <2>2
  <2>4. QED
    BY ONLY <1>1, <2>1, <2>2, <2>3
<1>11. /\ t \in Seq(S) /\ Len(t) = 4 + f + a
       /\ \A i \in 1 .. 4 + f : t[i] = q[i]
       /\ \A i \in 1 .. a : t[4 + f + i] = last[i]
  <2>1. q \in Seq(S) /\ last \in Seq(S) /\ t = q \o last
    BY ONLY <1>5, <1>7, <1>10
  <2>2. /\ t \in Seq(S) /\ Len(t) = Len(q) + Len(last)
        /\ \A i \in 1 .. Len(q) : t[i] = q[i]
        /\ \A i \in 1 .. Len(last) : t[Len(q) + i] = last[i]
    BY ONLY <2>1, ConcatAt
  <2>3. Len(t) = 4 + f + a
    BY ONLY <1>1, <1>5, <1>10, <2>2
  <2>4. \A i \in 1 .. 4 + f : t[i] = q[i]
    BY ONLY <1>10, <2>2
  <2>5. \A i \in 1 .. a : t[4 + f + i] = last[i]
    BY ONLY <1>5, <1>10, <2>2
  <2>6. QED
    BY ONLY <2>2, <2>3, <2>4, <2>5
<1>12. /\ Len(actions) = 5 + f + a
       /\ \A i \in 1 .. 4 + f + a : actions[i] = t[i]
  <2>1. /\ Len(actions) = Len(t) + Len(end)
        /\ \A i \in 1 .. Len(t) : actions[i] = t[i]
    BY ONLY <1>7, <1>8, <1>11, ConcatAt
  <2>2. QED
    BY ONLY <1>1, <1>8, <1>11, <2>1
<1>13. ASSUME NEW i \in 1 .. f PROVE actions[2 + i] = stage[i]
  <2>1. 2 + i \in 1 .. 2 + f /\ 2 + i \in 1 .. 4 + f /\ 2 + i \in 1 .. 4 + f + a
    BY ONLY <1>1, i \in 1 .. f
  <2>2. QED
    BY ONLY <1>9, <1>10, <1>11, <1>12, <2>1, i \in 1 .. f
<1>14. actions[3 + f] = v
  <2>1. 3 + f \in 1 .. 4 + f /\ 3 + f \in 1 .. 4 + f + a
    BY ONLY <1>1
  <2>2. QED
    BY ONLY <1>10, <1>11, <1>12, <2>1
<1>15. ASSUME NEW i \in 1 .. a PROVE actions[4 + f + i] = last[i]
  <2>1. 4 + f + i \in 1 .. 4 + f + a
    BY ONLY <1>1, i \in 1 .. a
  <2>2. QED
    BY ONLY <1>11, <1>12, <2>1, i \in 1 .. a
<1>16. Placed(r, actions, f, a)
  BY <1>1, <1>2, <1>12, <1>13, <1>14, <1>15 DEF Placed
<1>17. QED
  BY <1>0, <1>16

\* What a plan says of one file: its path and its bytes, whatever its source.
LEMMA StageSays ==
  ASSUME NEW r, NEW i \in DOMAIN r.source.files, NEW x, x = Contract!StageActions(r)[i],
         Shaped(r)
  PROVE  /\ x.phase = "stage" /\ x.targetRef[3] = r.source.files[i].path
         /\ r.source.kind = "fresh" => x.sourceRef[3] = r.source.files[i].bytes
         /\ r.source.kind # "fresh" => x.sourceRef[4] = r.source.files[i].bytes
<1>1. PICK file, from, kind : /\ file = r.source.files[i] /\ from = Contract!SourceReference(r.source, file)
                              /\ kind = Contract!StageKind(r.source, file)
  OBVIOUS
<1>2. x = Contract!Action(<<"stage", i>>, "stage", kind, from,
                          <<"generation", r.generation, file.path>>)
  BY <1>1 DEF Contract!StageActions
<1>3. x.phase = "stage" /\ x.sourceRef = from /\ x.targetRef = <<"generation", r.generation, file.path>>
  BY <1>2 DEF Contract!Action
<1>4. r.source.kind = "fresh" => from = <<"content", file.path, file.bytes>>
  BY <1>1 DEF Contract!SourceReference
<1>5. r.source.kind = "canonical" =>
        from = <<"generation", r.source.generation, file.path, file.bytes>>
  BY <1>1 DEF Contract!SourceReference
<1>6. r.source.kind = "legacy" => from = <<"legacy", file.ref, file.expected, file.bytes>>
  BY <1>1 DEF Contract!SourceReference
<1>7. r.source.kind \in {"fresh", "canonical", "legacy"}
  BY DEF Shaped, SourceKinds
<1>8. QED
  BY <1>1, <1>3, <1>4, <1>5, <1>6, <1>7

\* And of one adapter.
LEMMA ReconcileSays ==
  ASSUME NEW r, NEW i \in DOMAIN r.adapters, NEW x, x = Contract!ReconcileActions(r)[i]
  PROVE  /\ x.sourceRef[2] = r.adapters[i].projection /\ x.adapter = r.adapters[i].id
<1>1. PICK y : y = Contract!Action(<<"reconcile", i>>, "reconcile", "reconcile-projection",
                                   <<"projection", r.adapters[i].projection>>,
                                   <<"adapter", r.adapters[i].id>>)
  OBVIOUS
<1>2. x = [y EXCEPT !.domain = "projection", !.adapter = r.adapters[i].id]
  BY <1>1 DEF Contract!ReconcileActions
<1>3. /\ y.sourceRef = <<"projection", r.adapters[i].projection>>
      /\ "sourceRef" \in DOMAIN y /\ "adapter" \in DOMAIN y
  BY <1>1 DEF Contract!Action
<1>4. x.sourceRef = y.sourceRef /\ x.adapter = r.adapters[i].id
  BY <1>2, <1>3
<1>5. QED
  BY <1>3, <1>4

\* The kind of source is in the plan.
LEMMA PlanSourceKind ==
  ASSUME NEW r, Shaped(r)
  PROVE  Contract!PlanSource(r).kind = r.source.kind
BY DEF Shaped, SourceKinds, Contract!PlanSource

\* Of two requests with one plan, neither has more files than the other.
LEMMA NoMoreFiles ==
  ASSUME NEW m, Shaped(m), NEW n, Shaped(n), Contract!PlanActions(m) = Contract!PlanActions(n)
  PROVE  ~(Len(m.source.files) < Len(n.source.files))
<1>1. PICK f, g, a, b, actions :
        /\ f = Len(m.source.files) /\ g = Len(n.source.files)
        /\ a = Len(m.adapters) /\ b = Len(n.adapters)
        /\ actions = Contract!PlanActions(m) /\ actions = Contract!PlanActions(n)
  OBVIOUS
<1>2. SUFFICES ASSUME f < g PROVE FALSE
  BY <1>1
<1>3. f \in Nat /\ actions[3 + f].phase = "validate"
  BY <1>1, PlanPlaces DEF Placed
<1>4. /\ g \in Nat /\ DOMAIN n.source.files = 1 .. g
      /\ \A i \in 1 .. g : actions[2 + i] = Contract!StageActions(n)[i]
  BY <1>1, PlanPlaces DEF Placed
<1>5. f + 1 \in 1 .. g /\ 2 + (f + 1) = 3 + f
  BY ONLY <1>2, <1>3, <1>4
<1>6. actions[3 + f] = Contract!StageActions(n)[f + 1]
  BY <1>4, <1>5
<1>7. actions[3 + f].phase = "stage"
  BY <1>4, <1>5, <1>6, StageSays
<1>8. QED
  BY <1>3, <1>7

\* The plan names all that is written: two requests with one plan ask for one
\* generation, the same bytes at the same paths, and the same adapters.
LEMMA SamePlanSameWork ==
  ASSUME NEW m, Shaped(m), NEW n, Shaped(n),
         Contract!PlanCandidate(m) = Contract!PlanCandidate(n)
  PROVE  Contract!Work(m) = Contract!Work(n)
<1>1. /\ m.generation = n.generation /\ Contract!PlanSource(m) = Contract!PlanSource(n)
      /\ Contract!PlanActions(m) = Contract!PlanActions(n)
  <2>1. PICK p : p = Contract!PlanCandidate(m) /\ p = Contract!PlanCandidate(n)
    OBVIOUS
  <2>2. /\ p.generation = m.generation /\ p.source = Contract!PlanSource(m)
        /\ p.actions = Contract!PlanActions(m)
    BY <2>1 DEF Contract!PlanCandidate
  <2>3. /\ p.generation = n.generation /\ p.source = Contract!PlanSource(n)
        /\ p.actions = Contract!PlanActions(n)
    BY <2>1 DEF Contract!PlanCandidate
  <2>4. QED
    BY <2>2, <2>3
<1>2. m.source.kind = n.source.kind
  BY <1>1, PlanSourceKind
<1>3. PICK f, g, a, b, actions :
        /\ f = Len(m.source.files) /\ g = Len(n.source.files)
        /\ a = Len(m.adapters) /\ b = Len(n.adapters)
        /\ actions = Contract!PlanActions(m) /\ actions = Contract!PlanActions(n)
  BY <1>1
<1>4. /\ f \in Nat /\ a \in Nat /\ DOMAIN m.source.files = 1 .. f /\ DOMAIN m.adapters = 1 .. a
      /\ Len(actions) = 5 + f + a
      /\ \A i \in 1 .. f : actions[2 + i] = Contract!StageActions(m)[i]
      /\ \A i \in 1 .. a : actions[4 + f + i] = Contract!ReconcileActions(m)[i]
  BY <1>3, PlanPlaces DEF Placed
<1>5. /\ g \in Nat /\ b \in Nat /\ DOMAIN n.source.files = 1 .. g /\ DOMAIN n.adapters = 1 .. b
      /\ Len(actions) = 5 + g + b
      /\ \A i \in 1 .. g : actions[2 + i] = Contract!StageActions(n)[i]
      /\ \A i \in 1 .. b : actions[4 + g + i] = Contract!ReconcileActions(n)[i]
  BY <1>3, PlanPlaces DEF Placed
<1>6. f = g
  <2>1. ~(f < g)
    BY <1>1, <1>3, NoMoreFiles
  <2>2. ~(g < f)
    BY <1>1, <1>3, NoMoreFiles
  <2>3. QED
    BY ONLY <1>4, <1>5, <2>1, <2>2
<1>7. a = b
  BY ONLY <1>4, <1>5, <1>6
<1>8. ASSUME NEW i \in 1 .. f
      PROVE  /\ m.source.files[i].path = n.source.files[i].path
             /\ m.source.files[i].bytes = n.source.files[i].bytes
  <2>1. PICK x : x = Contract!StageActions(m)[i] /\ x = Contract!StageActions(n)[i]
    BY <1>4, <1>5, <1>6
  <2>2. i \in DOMAIN m.source.files /\ i \in DOMAIN n.source.files
    BY <1>4, <1>5, <1>6
  <2>3. /\ x.targetRef[3] = m.source.files[i].path
        /\ m.source.kind = "fresh" => x.sourceRef[3] = m.source.files[i].bytes
        /\ m.source.kind # "fresh" => x.sourceRef[4] = m.source.files[i].bytes
    BY <2>1, <2>2, StageSays
  <2>4. /\ x.targetRef[3] = n.source.files[i].path
        /\ n.source.kind = "fresh" => x.sourceRef[3] = n.source.files[i].bytes
        /\ n.source.kind # "fresh" => x.sourceRef[4] = n.source.files[i].bytes
    BY <2>1, <2>2, StageSays
  <2>5. QED
    BY <1>2, <2>3, <2>4
<1>9. ASSUME NEW i \in 1 .. a
      PROVE  /\ m.adapters[i].id = n.adapters[i].id
             /\ m.adapters[i].projection = n.adapters[i].projection
  <2>1. PICK x : x = Contract!ReconcileActions(m)[i] /\ x = Contract!ReconcileActions(n)[i]
    BY <1>4, <1>5, <1>6, <1>7
  <2>2. i \in DOMAIN m.adapters /\ i \in DOMAIN n.adapters
    BY <1>4, <1>5, <1>7
  <2>3. x.sourceRef[2] = m.adapters[i].projection /\ x.adapter = m.adapters[i].id
    BY <2>1, <2>2, ReconcileSays
  <2>4. x.sourceRef[2] = n.adapters[i].projection /\ x.adapter = n.adapters[i].id
    BY <2>1, <2>2, ReconcileSays
  <2>5. QED
    BY <2>3, <2>4
<1>10. {<<m.source.files[i].path, m.source.files[i].bytes>> : i \in DOMAIN m.source.files}
         = {<<n.source.files[i].path, n.source.files[i].bytes>> : i \in DOMAIN n.source.files}
  BY <1>4, <1>5, <1>6, <1>8
<1>11. {<<m.adapters[i].id, m.adapters[i].projection>> : i \in DOMAIN m.adapters}
         = {<<n.adapters[i].id, n.adapters[i].projection>> : i \in DOMAIN n.adapters}
  BY <1>4, <1>5, <1>7, <1>9
<1>12. QED
  BY <1>1, <1>10, <1>11 DEF Contract!Work

-----------------------------------------------------------------------------
\* The journal's plan is the plan of every request that wrote it, and of the
\* run in progress.
Planned(n) == Shaped(n) /\ saved.plan = Contract!PlanCandidate(n)

\* The mark for "no journal" is no journal.
Kept(plan, runs, journal) == [plan |-> plan, runs |-> runs, journal |-> journal]
NoneIsNoJournal == \A plan, runs, journal : Kept(plan, runs, journal) # None

DriverInv ==
  /\ saved # None => saved = Kept(saved.plan, saved.runs, saved.journal)
  /\ saved = None => runner = None /\ drivers = {}
  /\ \A n \in drivers : Planned(n)
  /\ runner # None => "request" \in DOMAIN runner /\ Planned(runner.request)

\* A step that keeps the plan and the requests that hold it keeps the invariant.
LEMMA SamePlanDriverInv ==
  ASSUME DriverInv, NoneIsNoJournal, saved # None,
         NEW runs, NEW journal, saved' = Kept(saved.plan, runs, journal),
         \A n \in drivers' : Planned(n),
         runner' # None => "request" \in DOMAIN runner' /\ Planned(runner'.request)
  PROVE  DriverInv'
<1>1. /\ saved' # None /\ saved'.plan = saved.plan
      /\ saved' = Kept(saved'.plan, saved'.runs, saved'.journal)
  BY DEF Kept, NoneIsNoJournal
<1>2. QED
  BY <1>1 DEF DriverInv, Planned

\* A step of the run in progress that writes nothing.
LEMMA UnsavedDriverInv ==
  ASSUME DriverInv, runner # None, UNCHANGED <<saved, drivers>>,
         runner' # None => "request" \in DOMAIN runner' /\ runner'.request = runner.request
  PROVE  DriverInv'
BY DEF DriverInv, Planned

\* Only the first request to write a journal gives it a plan, and no other plan
\* than the journal's is let on.
LEMMA DriverStep ==
  ASSUME \A r \in Submitted : Shaped(r), NoneIsNoJournal, DriverInv,
         [Contract!Lcnext]_Contract!lcvars
  PROVE  DriverInv'
<1>1. ASSUME NEW r \in Submitted, Contract!Submit(r) PROVE DriverInv'
  <2>1. PICK n, plan : n = Contract!NormalizedRequest(r) /\ plan = Contract!PlanFor(r)
    OBVIOUS
  <2>2. /\ runner = None /\ plan # None
        /\ saved # None => saved.plan = plan
        /\ saved' = IF saved = None
                      THEN [plan |-> plan, runs |-> 1, journal |-> Contract!InitialJournal(n, plan, 1)]
                      ELSE [saved EXCEPT !.runs = @ + 1]
        /\ runner' = [request |-> n, left |-> None, busy |-> None, next |-> None]
        /\ drivers' = drivers \cup (IF saved = None THEN {n} ELSE {})
    BY <1>1, <2>1 DEF Contract!Submit, Contract!SamePlan
  <2>3. n # None /\ plan = Contract!PlanCandidate(n)
    BY <2>1, <2>2 DEF Contract!PlanFor, Contract!BuildPlan
  <2>4. Shaped(n)
    BY <2>1, <2>3, NormalShape
  <2>5. /\ saved' # None /\ saved'.plan = plan
        /\ saved' = Kept(saved'.plan, saved'.runs, saved'.journal)
    <3>1. CASE saved = None
      BY <2>2, <3>1 DEF Kept, NoneIsNoJournal
    <3>2. CASE saved # None
      <4>1. PICK runs, journal : saved = Kept(plan, runs, journal)
        BY <2>2, <3>2 DEF DriverInv
      <4>2. saved' = Kept(plan, runs + 1, journal)
        BY <2>2, <3>2, <4>1 DEF Kept
      <4>3. QED
        BY <4>2 DEF Kept, NoneIsNoJournal
    <3>3. QED
      BY <3>1, <3>2
  <2>6. \A m \in drivers' : Shaped(m) /\ plan = Contract!PlanCandidate(m)
    BY <2>2, <2>3, <2>4 DEF DriverInv, Planned
  <2>7. "request" \in DOMAIN runner' /\ runner'.request = n
    BY <2>2
  <2>8. QED
    BY <2>3, <2>4, <2>5, <2>6, <2>7 DEF DriverInv, Planned
<1>2. ASSUME NEW next, Contract!Composes(next) PROVE DriverInv'
  <2>1. runner' = [runner EXCEPT !.next = next] /\ runner # None /\ UNCHANGED <<saved, drivers>>
    BY <1>2 DEF Contract!Composes
  <2>2. "request" \in DOMAIN runner' /\ runner'.request = runner.request
    BY <2>1 DEF DriverInv
  <2>3. QED
    BY <2>1, <2>2, UnsavedDriverInv
<1>3. CASE Contract!Advance
  BY <1>2, <1>3 DEF Contract!Advance
<1>4. CASE Contract!Settle
  BY <1>4, UnsavedDriverInv DEF Contract!Settle, DriverInv
<1>5. CASE Contract!Doctor
  BY <1>5, UnsavedDriverInv DEF Contract!Doctor, DriverInv
<1>6. CASE Contract!Save
  <2>1. CASE UNCHANGED <<saved, drivers>>
    <3>1. runner # None /\ (runner' = None \/ runner' = [runner EXCEPT !.next = None])
      BY <1>6 DEF Contract!Save
    <3>2. runner' # None => "request" \in DOMAIN runner' /\ runner'.request = runner.request
      BY <3>1 DEF DriverInv
    <3>3. QED
      BY <2>1, <3>1, <3>2, UnsavedDriverInv
  <2>2. CASE /\ saved' = [saved EXCEPT !.journal = runner.next]
             /\ drivers' = drivers \cup {runner.request}
             /\ runner' = [runner EXCEPT !.next = None]
    <3>1. saved # None /\ runner # None
      BY <1>6 DEF Contract!Save, DriverInv
    <3>2. saved' = Kept(saved.plan, saved.runs, runner.next)
      BY <2>2, <3>1 DEF DriverInv, Kept
    <3>3. \A n \in drivers' : Planned(n)
      BY <2>2, <3>1 DEF DriverInv
    <3>4. "request" \in DOMAIN runner' /\ runner'.request = runner.request
      BY <2>2, <3>1 DEF DriverInv
    <3>5. QED
      BY <3>1, <3>2, <3>3, <3>4, SamePlanDriverInv DEF DriverInv
  <2>3. QED
    BY <1>6, <2>1, <2>2 DEF Contract!Save
<1>7. CASE Contract!Cut \/ Contract!Done
  BY <1>7, UnsavedDriverInv DEF Contract!Cut, Contract!Done
<1>8. ASSUME NEW a \in Adapters, Contract!FailLeft(a) PROVE DriverInv'
  BY <1>2, <1>8 DEF Contract!FailLeft
<1>9. ASSUME NEW a \in Adapters, Contract!Start(a) \/ Contract!Finish(a) PROVE DriverInv'
  BY <1>9, UnsavedDriverInv DEF Contract!Start, Contract!Finish, Contract!Reconcile, DriverInv
<1>10. CASE UNCHANGED Contract!lcvars
  BY <1>10 DEF Contract!lcvars, DriverInv, Planned
<1>11. ASSUME NEW r \in Submitted, Contract!Refuse(r) PROVE DriverInv'
  BY <1>10, <1>11 DEF Contract!Refuse
<1>12. QED
  BY <1>1, <1>3, <1>4, <1>5, <1>6, <1>7, <1>8, <1>9, <1>10, <1>11 DEF Contract!Lcnext

\* One plan, one work.
LEMMA DriversOneWork ==
  ASSUME DriverInv
  PROVE  Contract!OneWork
<1>1. \A S : Contract!Cardinality(S) = Cardinality(S)
  BY DEF Contract!Cardinality, Cardinality
<1>2. \A m, n \in drivers : Contract!Work(m) = Contract!Work(n)
  BY SamePlanSameWork DEF DriverInv, Planned
<1>3. PICK works : works = {Contract!Work(n) : n \in drivers}
  OBVIOUS
<1>4. CASE drivers = {}
  <2>1. works = {}
    BY <1>3, <1>4
  <2>2. Cardinality(works) = 0
    BY <2>1, FS_EmptySet
  <2>3. QED
    BY <1>1, <1>3, <2>2 DEF Contract!OneWork
<1>5. CASE drivers # {}
  <2>1. PICK work : works = {work}
    BY <1>2, <1>3, <1>5
  <2>2. Cardinality(works) = 1
    BY <2>1, FS_Singleton
  <2>3. QED
    BY <1>1, <1>3, <2>2 DEF Contract!OneWork
<1>6. QED
  BY <1>4, <1>5

\* Runs that share a journal would write the same generation, from the same
\* bytes at the same paths, for the same adapters: what the orchestrator
\* compares, the plan's fingerprint, leaves nothing of a request out, for any
\* requests and any number of runs.
THEOREM OneWorkTheorem ==
  ASSUME \A r \in Submitted : Shaped(r), NoneIsNoJournal
  PROVE  ContractSpec => []Contract!OneWork
<1>1. Contract!Lcinit => DriverInv
  BY DEF Contract!Lcinit, DriverInv
<1>2. DriverInv /\ [Contract!Lcnext]_Contract!lcvars => DriverInv'
  BY DriverStep
<1>3. DriverInv => Contract!OneWork
  BY DriversOneWork
<1>4. QED
  BY <1>1, <1>2, <1>3, PTL DEF ContractSpec
=============================================================================
