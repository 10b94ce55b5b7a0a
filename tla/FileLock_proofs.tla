--------------------------- MODULE FileLock_proofs ---------------------------
(***************************************************************************)
(* For every number of tasks and processes: the lock excludes unless an    *)
(* unlink acted on outdated evidence, and a stamped holder is never robbed *)
(* on fresh evidence.  The inductive invariant ties every holder to the    *)
(* inode at the lock path and every reader to what it read there.          *)
(***************************************************************************)
EXTENDS MCFileLock, TLAPS, SequenceTheorems

\* A task inside withLock runs in a living process.
BusyIsAlive == \A t \in Tasks : pc[t] # "idle" => alive[PidOf[t]]

\* A lock file is empty or bears the pid of its creator's process.
StampIsCreators ==
    lockFile # NoFile => lockFile.pid \in {NoPid, PidOf[lockFile.by]}

\* Before the first race every holder's file is the one at the path.
HolderOwnsFile ==
    ~raced => \A t \in Tasks : Holding(t) => lockFile # NoFile /\ lockFile.by = t

\* A reader whose file is still in place still finds there the stamp it read.
FreshStampStands ==
    \A t \in Tasks : pc[t] \in {"judge", "unlink"} /\ fresh[t]
        => lockFile # NoFile /\ (seen[t] # NoPid => lockFile.pid = seen[t])

IInv ==
    /\ TypeOK
    /\ BusyIsAlive
    /\ StampIsCreators
    /\ HolderOwnsFile
    /\ FreshStampStands
    /\ StampedHolderSpared

-----------------------------------------------------------------------------

\* Nothing is held, read or raced at the start.
LEMMA InitIInv == Init => IInv
  BY PidOfAssumption, NoPidAssumption
  DEF Init, IInv, TypeOK, Locations, BusyIsAlive, StampIsCreators, HolderOwnsFile,
      FreshStampStands, StampedHolderSpared, Holding

\* Types are kept by every step.
LEMMA TypeStep == TypeOK /\ [Next]_vars => TypeOK'
<1> USE PidOfAssumption, NoPidAssumption DEF TypeOK, Locations, Goto, Replaced, Forget
<1> SUFFICES ASSUME TypeOK, [Next]_vars PROVE TypeOK'
  OBVIOUS
<1>1. CASE UNCHANGED vars
  BY <1>1 DEF vars
<1>2. ASSUME NEW t \in Tasks, Call(t) PROVE TypeOK'
  BY <1>2 DEF Call
<1>3. ASSUME NEW t \in Tasks, Open(t) PROVE TypeOK'
  <2>1. [by |-> t, pid |-> NoPid] \in LockFiles
    BY Zenon DEF LockFiles
  <2>2. QED
    BY <1>3, <2>1 DEF Open, WxSucceeds
<1>4. ASSUME NEW t \in Tasks, Stamp(t) PROVE TypeOK'
  BY <1>4 DEF Stamp, StampValue, LockFiles
<1>5. ASSUME NEW t \in Tasks, StampFails(t) PROVE TypeOK'
  BY <1>5 DEF StampFails
<1>6. ASSUME NEW t \in Tasks, ReadHolder(t) PROVE TypeOK'
  BY <1>6 DEF ReadHolder, LockFiles
<1>7. ASSUME NEW t \in Tasks, Judge(t) PROVE TypeOK'
  BY <1>7 DEF Judge
<1>8. ASSUME NEW t \in Tasks, Steal(t) PROVE TypeOK'
  BY <1>8 DEF Steal, Outdated
<1>9. ASSUME NEW t \in Tasks, Backoff(t) PROVE TypeOK'
  BY <1>9 DEF Backoff
<1>10. ASSUME NEW t \in Tasks, Release(t) PROVE TypeOK'
  BY <1>10 DEF Release
<1>11. ASSUME NEW t \in Tasks, Remove(t) PROVE TypeOK'
  BY <1>11 DEF Remove
<1>12. ASSUME NEW p \in Pids, Crash(p) PROVE TypeOK'
  BY <1>12 DEF Crash
<1>13. ASSUME NEW p \in Pids, Respawn(p) PROVE TypeOK'
  BY <1>13 DEF Respawn
<1>14. QED
  BY <1>1, <1>2, <1>3, <1>4, <1>5, <1>6, <1>7, <1>8, <1>9, <1>10, <1>11, <1>12, <1>13
  DEF Next, Acquire

\* The invariant is kept by every step.
LEMMA IInvStep == IInv /\ [Next]_vars => IInv'
<1> USE PidOfAssumption, NoPidAssumption, NoFileAssumption
<1> USE DEF IInv, TypeOK, Locations, BusyIsAlive, StampIsCreators, HolderOwnsFile,
            FreshStampStands, StampedHolderSpared, Holding, CanRun, Goto, Replaced, Forget
<1> SUFFICES ASSUME IInv, [Next]_vars PROVE IInv'
  OBVIOUS
<1>0. TypeOK'
  BY TypeStep
<1>1. CASE UNCHANGED vars
  BY <1>1 DEF vars
<1>2. ASSUME NEW t \in Tasks, Call(t) PROVE IInv'
  <2>1. BusyIsAlive'
    BY <1>2 DEF Call, LockFiles
  <2>2. StampIsCreators'
    BY <1>2 DEF Call, LockFiles
  <2>3. HolderOwnsFile'
    BY <1>2 DEF Call, LockFiles
  <2>4. FreshStampStands'
    BY <1>2 DEF Call, LockFiles
  <2>5. StampedHolderSpared'
    BY <1>2 DEF Call, LockFiles
  <2>6. QED
    BY <1>0, <2>1, <2>2, <2>3, <2>4, <2>5
<1>3. ASSUME NEW t \in Tasks, Open(t) PROVE IInv'
  <2>1. BusyIsAlive'
    BY <1>3 DEF Open, WxSucceeds, LockFiles
  <2>2. StampIsCreators'
    BY <1>3 DEF Open, WxSucceeds, LockFiles
  <2>3. HolderOwnsFile'
    BY <1>3 DEF Open, WxSucceeds, LockFiles
  <2>4. FreshStampStands'
    BY <1>3 DEF Open, WxSucceeds, LockFiles
  <2>5. StampedHolderSpared'
    BY <1>3 DEF Open, WxSucceeds, LockFiles
  <2>6. QED
    BY <1>0, <2>1, <2>2, <2>3, <2>4, <2>5
<1>4. ASSUME NEW t \in Tasks, Stamp(t) PROVE IInv'
  <2>1. BusyIsAlive'
    BY <1>4 DEF Stamp, StampValue, LockFiles
  <2>2. StampIsCreators'
    BY <1>4 DEF Stamp, StampValue, LockFiles
  <2>3. HolderOwnsFile'
    BY <1>4 DEF Stamp, StampValue, LockFiles
  <2>4. FreshStampStands'
    BY <1>4 DEF Stamp, StampValue, LockFiles
  <2>5. StampedHolderSpared'
    BY <1>4 DEF Stamp, StampValue, LockFiles
  <2>6. QED
    BY <1>0, <2>1, <2>2, <2>3, <2>4, <2>5
<1>5. ASSUME NEW t \in Tasks, StampFails(t) PROVE IInv'
  <2>1. BusyIsAlive'
    BY <1>5 DEF StampFails, LockFiles
  <2>2. StampIsCreators'
    BY <1>5 DEF StampFails, LockFiles
  <2>3. HolderOwnsFile'
    BY <1>5 DEF StampFails, LockFiles
  <2>4. FreshStampStands'
    BY <1>5 DEF StampFails, LockFiles
  <2>5. StampedHolderSpared'
    BY <1>5 DEF StampFails, LockFiles
  <2>6. QED
    BY <1>0, <2>1, <2>2, <2>3, <2>4, <2>5
<1>6. ASSUME NEW t \in Tasks, ReadHolder(t) PROVE IInv'
  <2>1. BusyIsAlive'
    BY <1>6 DEF ReadHolder, LockFiles
  <2>2. StampIsCreators'
    BY <1>6 DEF ReadHolder, LockFiles
  <2>3. HolderOwnsFile'
    BY <1>6 DEF ReadHolder, LockFiles
  <2>4. FreshStampStands'
    BY <1>6 DEF ReadHolder, LockFiles
  <2>5. StampedHolderSpared'
    BY <1>6 DEF ReadHolder, LockFiles
  <2>6. QED
    BY <1>0, <2>1, <2>2, <2>3, <2>4, <2>5
<1>7. ASSUME NEW t \in Tasks, Judge(t) PROVE IInv'
  <2>1. BusyIsAlive'
    BY <1>7 DEF Judge, LockFiles, LooksStale
  <2>2. StampIsCreators'
    BY <1>7 DEF Judge, LockFiles, LooksStale
  <2>3. HolderOwnsFile'
    BY <1>7 DEF Judge, LockFiles, LooksStale
  <2>4. FreshStampStands'
    <3>1. CASE LooksStale(t)
      BY <1>7, <3>1 DEF Judge
    <3>2. CASE ~LooksStale(t)
      <4>1. /\ UNCHANGED lockFile /\ pc'[t] = "backoff"
            /\ \A u \in Tasks \ {t} : pc'[u] = pc[u] /\ seen'[u] = seen[u] /\ fresh'[u] = fresh[u]
        <5>1. Forget({t}) /\ Goto(t, "backoff") /\ UNCHANGED lockFile
          BY <1>7, <3>2, Zenon DEF Judge
        <5>2. QED
          BY <5>1
      <4>2. QED
        BY <4>1
    <3>3. QED
      BY <3>1, <3>2
  <2>5. StampedHolderSpared'
    <3>1. CASE LooksStale(t)
      <4>1. ASSUME fresh[t], seen[t] # NoPid
            PROVE lockFile # NoFile /\ ~Holding(lockFile.by)
        <5>1. lockFile \in LockFiles /\ lockFile.pid = seen[t]
          BY <1>7, <4>1 DEF Judge
        <5>2. lockFile.by \in Tasks /\ seen[t] = PidOf[lockFile.by]
          BY <4>1, <5>1 DEF LockFiles
        <5>3. ~alive[PidOf[lockFile.by]]
          BY <3>1, <4>1, <5>2 DEF LooksStale
        <5>4. QED
          BY <5>1, <5>2, <5>3
      <4>2. UNCHANGED <<lockFile, seen, fresh>> /\ pc' = [pc EXCEPT ![t] = "unlink"]
        BY <1>7, <3>1 DEF Judge
      <4>3. lockFile # NoFile => lockFile.by \in Tasks
        BY DEF LockFiles
      <4>4. QED
        BY <1>7, <4>1, <4>2, <4>3 DEF Judge
    <3>2. CASE ~LooksStale(t)
      <4>1. /\ UNCHANGED lockFile /\ pc'[t] = "backoff"
            /\ \A u \in Tasks \ {t} : pc'[u] = pc[u] /\ seen'[u] = seen[u] /\ fresh'[u] = fresh[u]
        <5>1. Forget({t}) /\ Goto(t, "backoff") /\ UNCHANGED lockFile
          BY <1>7, <3>2, Zenon DEF Judge
        <5>2. QED
          BY <5>1
      <4>2. lockFile # NoFile => lockFile.by \in Tasks
        BY DEF LockFiles
      <4>3. pc[t] = "judge"
        BY <1>7 DEF Judge
      <4>4. QED
        BY <4>1, <4>2, <4>3
    <3>3. QED
      BY <3>1, <3>2
  <2>6. QED
    BY <1>0, <2>1, <2>2, <2>3, <2>4, <2>5
<1>8. ASSUME NEW t \in Tasks, Steal(t) PROVE IInv'
  <2>1. BusyIsAlive'
    BY <1>8 DEF Steal, LockFiles, Outdated
  <2>2. StampIsCreators'
    BY <1>8 DEF Steal, LockFiles, Outdated
  <2>3. HolderOwnsFile'
    BY <1>8 DEF Steal, LockFiles, Outdated
  <2>4. FreshStampStands'
    BY <1>8 DEF Steal, LockFiles, Outdated
  <2>5. StampedHolderSpared'
    BY <1>8 DEF Steal, LockFiles, Outdated
  <2>6. QED
    BY <1>0, <2>1, <2>2, <2>3, <2>4, <2>5
<1>9. ASSUME NEW t \in Tasks, Backoff(t) PROVE IInv'
  <2>1. BusyIsAlive'
    BY <1>9 DEF Backoff, LockFiles
  <2>2. StampIsCreators'
    BY <1>9 DEF Backoff, LockFiles
  <2>3. HolderOwnsFile'
    BY <1>9 DEF Backoff, LockFiles
  <2>4. FreshStampStands'
    BY <1>9 DEF Backoff, LockFiles
  <2>5. StampedHolderSpared'
    BY <1>9 DEF Backoff, LockFiles
  <2>6. QED
    BY <1>0, <2>1, <2>2, <2>3, <2>4, <2>5
<1>10. ASSUME NEW t \in Tasks, Release(t) PROVE IInv'
  <2>1. BusyIsAlive'
    BY <1>10 DEF Release, LockFiles
  <2>2. StampIsCreators'
    BY <1>10 DEF Release, LockFiles
  <2>3. HolderOwnsFile'
    BY <1>10 DEF Release, LockFiles
  <2>4. FreshStampStands'
    BY <1>10 DEF Release, LockFiles
  <2>5. StampedHolderSpared'
    BY <1>10 DEF Release, LockFiles
  <2>6. QED
    BY <1>0, <2>1, <2>2, <2>3, <2>4, <2>5
<1>11. ASSUME NEW t \in Tasks, Remove(t) PROVE IInv'
  <2>1. BusyIsAlive'
    BY <1>11 DEF Remove, LockFiles
  <2>2. StampIsCreators'
    BY <1>11 DEF Remove, LockFiles
  <2>3. HolderOwnsFile'
    BY <1>11 DEF Remove, LockFiles
  <2>4. FreshStampStands'
    BY <1>11 DEF Remove, LockFiles
  <2>5. StampedHolderSpared'
    BY <1>11 DEF Remove, LockFiles
  <2>6. QED
    BY <1>0, <2>1, <2>2, <2>3, <2>4, <2>5
<1>12. ASSUME NEW p \in Pids, Crash(p) PROVE IInv'
  <2>1. BusyIsAlive'
    BY <1>12 DEF Crash, LockFiles
  <2>2. StampIsCreators'
    BY <1>12 DEF Crash, LockFiles
  <2>3. HolderOwnsFile'
    BY <1>12 DEF Crash, LockFiles
  <2>4. FreshStampStands'
    BY <1>12 DEF Crash, LockFiles
  <2>5. StampedHolderSpared'
    BY <1>12 DEF Crash, LockFiles
  <2>6. QED
    BY <1>0, <2>1, <2>2, <2>3, <2>4, <2>5
<1>13. ASSUME NEW p \in Pids, Respawn(p) PROVE IInv'
  <2>1. BusyIsAlive'
    BY <1>13 DEF Respawn, LockFiles
  <2>2. StampIsCreators'
    BY <1>13 DEF Respawn, LockFiles
  <2>3. HolderOwnsFile'
    BY <1>13 DEF Respawn, LockFiles
  <2>4. FreshStampStands'
    BY <1>13 DEF Respawn, LockFiles
  <2>5. StampedHolderSpared'
    BY <1>13 DEF Respawn, LockFiles
  <2>6. QED
    BY <1>0, <2>1, <2>2, <2>3, <2>4, <2>5
<1>14. QED
  BY <1>1, <1>2, <1>3, <1>4, <1>5, <1>6, <1>7, <1>8, <1>9, <1>10, <1>11, <1>12, <1>13 DEF Next, Acquire

\* Types hold in every reachable state.
THEOREM TypeCorrect == Spec => []TypeOK
<1>1. Init => TypeOK
  BY InitIInv DEF IInv
<1>2. QED
  BY <1>1, TypeStep, PTL DEF Spec

\* The inductive invariant holds in every reachable state.
LEMMA Invariance == Spec => []IInv
  BY InitIInv, IInvStep, PTL DEF Spec

\* Two tasks run under the lock only after an unlink on outdated evidence.
THEOREM ExclusionTheorem == Spec => []ExclusiveUnlessRaced
<1>1. IInv => ExclusiveUnlessRaced
  BY DEF IInv, HolderOwnsFile, ExclusiveUnlessRaced, MutualExclusion, Holding
<1>2. QED
  BY <1>1, Invariance, PTL

\* Fresh evidence of a dead stamp never robs a task that holds the lock.
THEOREM SparedTheorem == Spec => []StampedHolderSpared
<1>1. IInv => StampedHolderSpared
  BY DEF IInv
<1>2. QED
  BY <1>1, Invariance, PTL

-----------------------------------------------------------------------------
(* The evaluation trace. Its log is at most one line longer than the head   *)
(* says, since nothing is appended to a log that is; and every line that is *)
(* covered knows its place and the bodies of all lines before it, so heads  *)
(* that were written, returned or read are all prefixes of one history.     *)

TraceHead == Trace!HeadRead(head)

WholeLine(i) ==
    /\ log[i] \in Trace!Lines /\ log[i].sequence = i /\ Len(log[i].previous) = i - 1
    /\ \A k \in 1..i - 1 : log[i].previous[k] = log[k].body

\* A head that was true once, and still is.
Covers(h) ==
    /\ h \in Trace!Heads /\ h.sequence <= TraceHead.sequence
    /\ Len(h.fingerprint) = h.sequence
    /\ \A k \in 1..h.sequence : h.fingerprint[k] = log[k].body

TraceLog ==
    /\ head = None => log = <<>>
    /\ log \in Seq(Trace!Lines \cup {None}) /\ Covers(TraceHead)
    /\ Len(log) \in {TraceHead.sequence, TraceHead.sequence + 1}
    /\ \A i \in 1..TraceHead.sequence : WholeLine(i)

InLock == {"check", "empty", "log", "head", "refused", "written"}

TraceWriter(w) ==
    /\ writer[w].at \in InLock => lock = w
    /\ writer[w].at # "idle" =>
         LET e == writer[w].event
             x == writer[w].expected
         IN  /\ e \in Trace!Lines /\ x \in Trace!Heads
             /\ e.sequence = x.sequence + 1 /\ e.previous = x.fingerprint
             /\ writer[w].at \in {"empty", "log", "head"} => x = TraceHead
             /\ writer[w].at \in {"empty", "log"} => Len(log) = x.sequence
             /\ writer[w].at = "empty" => head = None
             /\ writer[w].at \in {"log", "head"} => head # None
             /\ writer[w].at = "head" => Len(log) = x.sequence + 1 /\ log[x.sequence + 1] = e
             /\ writer[w].at = "written" => head = Trace!HeadAt(e)

TraceWriters ==
    /\ writer \in [Writers -> [at : InLock \cup {"idle", "lock"},
                               event : Trace!Lines \cup {None}, expected : Trace!Heads \cup {None}]]
    /\ \A w \in Writers : TraceWriter(w)

TraceReader(r) ==
    /\ reader[r].at = "log" => reader[r].head = None \/ Covers(reader[r].head)
    /\ reader[r].at \in {"again", "read"} =>
         /\ reader[r].lines \in Seq(Trace!Lines) /\ Len(reader[r].lines) <= TraceHead.sequence
         /\ \A k \in 1..Len(reader[r].lines) : reader[r].lines[k] = log[k]

TraceReaders ==
    /\ reader \in [Readers -> [at : {"idle", "head", "log", "again", "read"},
                               head : Trace!Heads \cup {None}, lines : Seq(Trace!Lines)]]
    /\ \A r \in Readers : TraceReader(r)

TraceReturned == \A h \in returned : Covers(h) /\ h.sequence # 0

TraceInv == TraceLog /\ TraceWriters /\ TraceReaders /\ TraceReturned

LEMMA EmptyIsHead == Trace!EmptyHead \in Trace!Heads
  BY DEF Trace!EmptyHead, Trace!Heads

LEMMA TraceInit == Trace!Tinit => TraceInv
  <1>. SUFFICES ASSUME Trace!Tinit PROVE TraceInv
    OBVIOUS
  <1>1. Covers(TraceHead) /\ TraceHead = Trace!EmptyHead /\ Trace!EmptyHead.sequence = 0
    BY DEF Trace!Tinit, Covers, TraceHead, Trace!HeadRead, Trace!EmptyHead, Trace!Heads
  <1>2. TraceLog
    BY <1>1 DEF Trace!Tinit, TraceLog
  <1>3. TraceWriters
    BY DEF Trace!Tinit, Trace!Idle, TraceWriters, TraceWriter, InLock
  <1>4. TraceReaders
    BY DEF Trace!Tinit, Trace!Outside, TraceReaders, TraceReader
  <1>. QED  BY <1>2, <1>3, <1>4 DEF TraceInv, TraceReturned, Trace!Tinit

\* Where a step leaves the log and the head alone, what they cover stays.
LEMMA TraceStill ==
    ASSUME TraceInv, UNCHANGED <<log, head>>
    PROVE  /\ TraceLog' /\ UNCHANGED TraceHead
           /\ \A h : Covers(h)' <=> Covers(h)
           /\ \A w \in Writers : writer'[w] = writer[w] /\ UNCHANGED lock => TraceWriter(w)'
           /\ \A r \in Readers : reader'[r] = reader[r] => TraceReader(r)'
           /\ UNCHANGED returned => TraceReturned'
  <1>1. UNCHANGED TraceHead
    BY DEF TraceHead, Trace!HeadRead
  <1>2. TraceLog' /\ \A h : Covers(h)' <=> Covers(h)
    BY <1>1 DEF TraceInv, TraceLog, Covers, WholeLine
  <1>. QED
    BY <1>1, <1>2 DEF TraceInv, TraceWriters, TraceWriter, TraceReaders, TraceReader, TraceReturned

\* A verified log holds what its head covers, and no more.
LEMMA VerifiedLength ==
    ASSUME TraceInv, NEW h, Covers(h), Trace!ChainHolds(log), Trace!HeadOf(log, Len(log)) = h
    PROVE  Len(log) = h.sequence
  <1>. DEFINE n == TraceHead.sequence
  <1>1. n \in Nat /\ Len(log) \in {n, n + 1} /\ h.sequence \in 0..n
    BY DEF TraceInv, TraceLog, Covers, Trace!Heads
  <1>2. CASE Len(log) = 0
    BY <1>1, <1>2 DEF Trace!HeadOf, Trace!EmptyHead
  <1>3. CASE Len(log) # 0
    <2>1. h.sequence = log[Len(log)].sequence
      BY <1>3 DEF Trace!HeadOf, Trace!HeadAt
    <2>2. CASE Len(log) = n
      BY <1>1, <1>3, <2>1, <2>2 DEF TraceInv, TraceLog, WholeLine
    <2>3. CASE Len(log) = n + 1
      <3>1. log[n + 1].sequence = Trace!HeadOf(log, n).sequence + 1
        BY <1>1, <2>3 DEF Trace!ChainHolds, TraceInv, TraceLog
      <3>2. Trace!HeadOf(log, n).sequence = n
        BY <1>1 DEF Trace!HeadOf, Trace!EmptyHead, Trace!HeadAt, TraceInv, TraceLog, WholeLine
      <3>. QED  BY <1>1, <2>1, <2>3, <3>1, <3>2
    <2>. QED  BY <1>1, <2>2, <2>3
  <1>. QED  BY <1>2, <1>3

LEMMA TraceBegin ==
    ASSUME TraceInv, NEW w \in Writers, NEW body \in Drafts,
           NEW expected \in returned \cup {Trace!EmptyHead}, Trace!Begin(w, body, expected)
    PROVE  TraceInv'
  <1>. DEFINE e == [body |-> body, sequence |-> expected.sequence + 1,
                    previous |-> expected.fingerprint]
  <1>1. /\ writer[w].at = "idle" /\ UNCHANGED <<log, head, lock, reader, returned>>
        /\ writer' = [writer EXCEPT ![w] = [at |-> "lock", event |-> e, expected |-> expected]]
    BY DEF Trace!Begin
  <1>2. expected \in Trace!Heads /\ e \in Trace!Lines
    <2>1. expected \in Trace!Heads
      BY EmptyIsHead DEF TraceInv, TraceReturned, Covers
    <2>2. expected.sequence \in Nat /\ expected.fingerprint \in Seq(Drafts)
      BY <2>1 DEF Trace!Heads
    <2>. QED  BY <2>1, <2>2 DEF Trace!Lines
  <1>3. TraceWriter(w)'
    <2>1. writer'[w] = [at |-> "lock", event |-> e, expected |-> expected]
      BY <1>1 DEF TraceInv, TraceWriters
    <2>. QED  BY <1>2, <2>1 DEF TraceWriter, InLock
  <1>4. \A v \in Writers : v # w => writer'[v] = writer[v]
    BY <1>1 DEF TraceInv, TraceWriters
  <1>5. TraceWriters'
    BY <1>1, <1>2, <1>3, <1>4, TraceStill DEF TraceInv, TraceWriters
  <1>. QED  BY <1>1, <1>5, TraceStill DEF TraceInv, TraceReaders

\* Steps of a writer that touch its place and perhaps the lock, and nothing it wrote.
LEMMA TraceMoves ==
    ASSUME TraceInv, NEW w \in Writers, NEW to, TraceWriter(w)',
           to \in InLock \cup {"idle", "lock"},
           writer' = [writer EXCEPT ![w].at = to] \/ writer' = [writer EXCEPT ![w] = Trace!Idle],
           UNCHANGED <<log, head, reader>>, TraceReturned',
           UNCHANGED lock \/ \A v \in Writers : v # w => writer[v].at \notin InLock
    PROVE  TraceInv'
  <1>1. writer' \in [Writers -> [at : InLock \cup {"idle", "lock"},
                     event : Trace!Lines \cup {None}, expected : Trace!Heads \cup {None}]]
    BY DEF TraceInv, TraceWriters, Trace!Idle
  <1>2. ASSUME NEW v \in Writers, v # w
        PROVE  TraceWriter(v)'
    <2>1. writer'[v] = writer[v]
      BY <1>2 DEF TraceInv, TraceWriters
    <2>2. CASE UNCHANGED lock
      BY <2>1, <2>2, TraceStill
    <2>3. CASE writer[v].at \notin InLock
      BY <2>1, <2>3 DEF TraceInv, TraceWriters, TraceWriter, InLock
    <2>. QED  BY <1>2, <2>2, <2>3
  <1>. QED  BY <1>1, <1>2, TraceStill DEF TraceInv, TraceWriters, TraceReaders

LEMMA TraceLock ==
    ASSUME TraceInv, NEW w \in Writers, Trace!Lock(w)
    PROVE  TraceInv'
  <1>1. writer[w].at = "lock" /\ UNCHANGED <<log, head, reader, returned>> /\ TraceReturned'
    BY TraceStill DEF Trace!Lock
  <1>2. CASE Trace!CanLock
    <2>1. lock = None /\ lock' = w /\ writer' = [writer EXCEPT ![w].at = "check"]
      BY <1>2 DEF Trace!Lock, Trace!CanLock
    <2>2. writer'[w] = [writer[w] EXCEPT !.at = "check"]
      BY <2>1 DEF TraceInv, TraceWriters
    <2>3. TraceWriter(w)'
      BY <1>1, <2>1, <2>2 DEF TraceInv, TraceWriters, TraceWriter, InLock
    <2>4. \A v \in Writers : writer[v].at \notin InLock
      BY <2>1, TraceAssumption DEF TraceInv, TraceWriters, TraceWriter
    <2>. QED  BY <1>1, <2>1, <2>3, <2>4, TraceMoves DEF InLock
  <1>3. CASE ~Trace!CanLock
    <2>1. UNCHANGED lock /\ writer' = [writer EXCEPT ![w] = Trace!Idle]
      BY <1>3 DEF Trace!Lock
    <2>2. TraceWriter(w)'
      BY <2>1 DEF TraceInv, TraceWriters, TraceWriter, Trace!Idle, InLock
    <2>. QED  BY <1>1, <2>1, <2>2, TraceMoves
  <1>. QED  BY <1>2, <1>3

LEMMA TraceCheck ==
    ASSUME TraceInv, NEW w \in Writers, Trace!Check(w)
    PROVE  TraceInv'
  <1>. DEFINE e == writer[w].event
              x == writer[w].expected
              to == IF Trace!MayAppend(e, x) THEN IF head = None THEN "empty" ELSE "log"
                                             ELSE "refused"
  <1>1. /\ writer[w].at = "check" /\ UNCHANGED <<log, head, lock, reader, returned>>
        /\ writer' = [writer EXCEPT ![w].at = to]
    BY DEF Trace!Check
  <1>2. writer'[w] = [writer[w] EXCEPT !.at = to] /\ to \in {"empty", "log", "refused"}
    BY <1>1 DEF TraceInv, TraceWriters
  <1>3. TraceWriter(w)'
    <2>1. ASSUME Trace!MayAppend(e, x)
          PROVE  x = TraceHead /\ Len(log) = x.sequence
      <3>1. x = TraceHead /\ Trace!Verified(log, head)
        BY <2>1 DEF Trace!MayAppend, TraceHead
      <3>2. CASE head = None
        BY <3>1, <3>2 DEF Trace!Verified, TraceHead, Trace!HeadRead, Trace!EmptyHead
      <3>3. CASE head # None
        BY <3>1, <3>3, VerifiedLength DEF Trace!Verified, TraceHead, Trace!HeadRead, TraceInv, TraceLog
      <3>. QED  BY <3>1, <3>2, <3>3
    <2>. HIDE DEF e, x
    <2>2. UNCHANGED TraceHead
      BY <1>1, TraceStill
    <2>. QED  BY <1>1, <1>2, <2>1, <2>2 DEF TraceInv, TraceWriters, TraceWriter, InLock, e, x
  <1>. QED  BY <1>1, <1>2, <1>3, TraceStill, TraceMoves DEF InLock

LEMMA TraceLeaves ==
    ASSUME TraceInv, NEW w \in Writers, Trace!Unlock(w)
    PROVE  TraceInv'
  <1>1. /\ writer[w].at \in {"refused", "written"} /\ lock' = None
        /\ writer' = [writer EXCEPT ![w] = Trace!Idle] /\ UNCHANGED <<log, head, reader>>
    BY DEF Trace!Unlock
  <1>2. TraceWriter(w)'
    BY <1>1 DEF TraceInv, TraceWriters, TraceWriter, Trace!Idle, InLock
  <1>3. \A v \in Writers : v # w => writer[v].at \notin InLock
    BY <1>1 DEF TraceInv, TraceWriters, TraceWriter, InLock
  <1>4. TraceReturned'
    <2>1. TraceReturned /\ \A h : Covers(h)' <=> Covers(h)
      BY <1>1, TraceStill DEF TraceInv
    <2>2. CASE writer[w].at = "written"
      <3>1. head = Trace!HeadAt(writer[w].event) /\ writer[w].event \in Trace!Lines
        BY <2>2 DEF TraceInv, TraceWriters, TraceWriter, InLock
      <3>2. head # None /\ head.sequence # 0
        <4>1. head.sequence \in Nat \ {0}
          BY <3>1 DEF Trace!HeadAt, Trace!Lines
        <4>2. head \in Trace!Heads
          BY <3>1, <4>1, AppendProperties DEF Trace!HeadAt, Trace!Fingerprint, Trace!Lines, Trace!Heads
        <4>. QED  BY <4>1, <4>2, TraceAssumption
      <3>3. Covers(head)
        BY <3>2 DEF TraceInv, TraceLog, TraceHead, Trace!HeadRead
      <3>. QED  BY <2>1, <2>2, <3>1, <3>2, <3>3 DEF Trace!Unlock, TraceReturned
    <2>3. CASE writer[w].at # "written"
      BY <2>1, <2>3 DEF Trace!Unlock, TraceReturned
    <2>. QED  BY <2>2, <2>3
  <1>. QED  BY <1>1, <1>2, <1>3, <1>4, TraceMoves

LEMMA TraceUser ==
    ASSUME TraceInv, Trace!RemoveStaleLock
    PROVE  TraceInv'
  <1>1. /\ lock # None /\ writer[lock].at \in {"idle", "lock"} /\ lock' = None
        /\ UNCHANGED <<log, head, writer, reader, returned>>
    BY DEF Trace!RemoveStaleLock
  <1>2. \A w \in Writers : writer[w].at \notin InLock
    BY <1>1 DEF TraceInv, TraceWriters, TraceWriter, InLock
  <1>3. TraceWriters'
    BY <1>1, <1>2 DEF TraceInv, TraceWriters, TraceWriter, InLock
  <1>. QED  BY <1>1, <1>3, TraceStill DEF TraceInv, TraceReaders

\* Whoever is in the lock is there alone.
LEMMA TraceOthers ==
    ASSUME TraceInv, NEW w \in Writers, writer[w].at \in InLock,
           NEW v \in Writers, v # w, writer'[v] = writer[v]
    PROVE  TraceWriter(v)'
  <1>1. writer[v].at \notin InLock
    BY DEF TraceInv, TraceWriters, TraceWriter
  <1>. QED  BY <1>1 DEF TraceInv, TraceWriters, TraceWriter, InLock

\* A log that is as long as its head says takes one more line.
LEMMA TraceGrows ==
    ASSUME TraceInv, NEW line \in Trace!Lines \cup {None}, Len(log) = TraceHead.sequence,
           head # None, log' = Append(log, line), UNCHANGED <<head, reader, returned>>
    PROVE  TraceLog' /\ UNCHANGED TraceHead /\ TraceReaders' /\ TraceReturned'
  <1>. DEFINE n == TraceHead.sequence
  <1>1. UNCHANGED TraceHead
    BY DEF TraceHead, Trace!HeadRead
  <1>2. /\ log \in Seq(Trace!Lines \cup {None}) /\ n \in Nat
        /\ log' \in Seq(Trace!Lines \cup {None}) /\ Len(log') = n + 1
        /\ \A k \in 1..n : log'[k] = log[k]
    BY AppendProperties DEF TraceInv, TraceLog, Covers, Trace!Heads
  <1>3. ASSUME NEW h, Covers(h)
        PROVE  Covers(h)'
    BY <1>1, <1>2, <1>3 DEF Covers, Trace!Heads
  <1>4. \A i \in 1..n : WholeLine(i)'
    BY <1>2 DEF TraceInv, TraceLog, WholeLine
  <1>5. TraceReaders'
    BY <1>1, <1>2, <1>3 DEF TraceInv, TraceReaders, TraceReader
  <1>. QED  BY <1>1, <1>2, <1>3, <1>4, <1>5 DEF TraceInv, TraceLog, TraceReturned

LEMMA TraceWriteEmpty ==
    ASSUME TraceInv, NEW w \in Writers, Trace!WriteEmpty(w)
    PROVE  TraceInv'
  <1>1. /\ writer[w].at = "empty" /\ head' = Trace!EmptyHead
        /\ writer' = [writer EXCEPT ![w].at = "log"] /\ UNCHANGED <<log, lock, reader, returned>>
    BY DEF Trace!WriteEmpty
  <1>2. head = None
    BY <1>1 DEF TraceInv, TraceWriters, TraceWriter
  <1>3. head' # None
    BY <1>1, TraceAssumption, EmptyIsHead
  <1>4. UNCHANGED TraceHead
    BY <1>1, <1>2 DEF TraceHead, Trace!HeadRead
  <1>5. TraceLog' /\ TraceReaders' /\ TraceReturned'
    BY <1>1, <1>3, <1>4 DEF TraceInv, TraceLog, TraceReaders, TraceReader, TraceReturned, Covers, WholeLine
  <1>6. writer'[w] = [writer[w] EXCEPT !.at = "log"] /\ \A v \in Writers : v # w => writer'[v] = writer[v]
    BY <1>1 DEF TraceInv, TraceWriters
  <1>7. TraceWriter(w)'
    BY <1>1, <1>3, <1>4, <1>6 DEF TraceInv, TraceWriters, TraceWriter, InLock
  <1>8. TraceWriters'
    BY <1>1, <1>6, <1>7, TraceOthers DEF TraceInv, TraceWriters, InLock
  <1>. QED  BY <1>5, <1>8 DEF TraceInv

LEMMA TraceWriteLog ==
    ASSUME TraceInv, NEW w \in Writers, Trace!WriteLog(w)
    PROVE  TraceInv'
  <1>. DEFINE e == writer[w].event
  <1>1. /\ writer[w].at = "log" /\ log' = Append(log, e)
        /\ writer' = [writer EXCEPT ![w].at = "head"] /\ UNCHANGED <<head, lock, reader, returned>>
    BY DEF Trace!WriteLog
  <1>2. /\ e \in Trace!Lines /\ writer[w].expected = TraceHead /\ head # None
        /\ Len(log) = TraceHead.sequence
    BY <1>1 DEF TraceInv, TraceWriters, TraceWriter
  <1>3. TraceLog' /\ UNCHANGED TraceHead /\ TraceReaders' /\ TraceReturned'
    BY <1>1, <1>2, TraceGrows
  <1>4. Len(log') = TraceHead.sequence + 1 /\ log'[TraceHead.sequence + 1] = e
    BY <1>1, <1>2, AppendProperties DEF TraceInv, TraceLog
  <1>5. writer'[w] = [writer[w] EXCEPT !.at = "head"] /\ \A v \in Writers : v # w => writer'[v] = writer[v]
    BY <1>1 DEF TraceInv, TraceWriters
  <1>6. TraceWriter(w)'
    BY <1>1, <1>2, <1>3, <1>4, <1>5 DEF TraceInv, TraceWriters, TraceWriter, InLock
  <1>7. TraceWriters'
    BY <1>1, <1>5, <1>6, TraceOthers DEF TraceInv, TraceWriters, InLock
  <1>. QED  BY <1>3, <1>7 DEF TraceInv

LEMMA TraceWriteHead ==
    ASSUME TraceInv, NEW w \in Writers, Trace!WriteHead(w)
    PROVE  TraceInv'
  <1>. DEFINE e == writer[w].event
              n == TraceHead.sequence
  <1>1. /\ writer[w].at = "head" /\ head' = Trace!HeadAt(e)
        /\ writer' = [writer EXCEPT ![w].at = "written"] /\ UNCHANGED <<log, lock, reader, returned>>
    BY DEF Trace!WriteHead
  <1>2. /\ e \in Trace!Lines /\ e.sequence = n + 1 /\ e.previous = TraceHead.fingerprint
        /\ Len(log) = n + 1 /\ log[n + 1] = e
    BY <1>1 DEF TraceInv, TraceWriters, TraceWriter
  <1>3. Covers(TraceHead) /\ n \in Nat /\ \A i \in 1..n : WholeLine(i)
    BY DEF TraceInv, TraceLog, Covers, Trace!Heads
  <1>4. /\ head' = [sequence |-> n + 1, fingerprint |-> Append(TraceHead.fingerprint, e.body)]
        /\ TraceHead.fingerprint \in Seq(Drafts) /\ Len(TraceHead.fingerprint) = n /\ e.body \in Drafts
    BY <1>1, <1>2, <1>3 DEF Trace!HeadAt, Trace!Fingerprint, Covers, Trace!Heads, Trace!Lines
  <1>5. head' \in Trace!Heads /\ Len(head'.fingerprint) = n + 1 /\ head'.sequence = n + 1
    BY <1>3, <1>4, AppendProperties DEF Trace!Heads
  <1>6. head' # None /\ TraceHead' = head'
    BY <1>5, TraceAssumption DEF TraceHead, Trace!HeadRead
  <1>7. \A k \in 1..n + 1 : head'.fingerprint[k] = log[k].body
    BY <1>2, <1>3, <1>4, AppendProperties DEF Covers
  <1>8. Covers(TraceHead)'
    BY <1>1, <1>3, <1>5, <1>6, <1>7 DEF Covers
  <1>9. ASSUME NEW h, Covers(h)
        PROVE  Covers(h)'
    BY <1>1, <1>3, <1>5, <1>6, <1>9 DEF Covers, Trace!Heads
  <1>10. \A i \in 1..n + 1 : WholeLine(i)'
    <2>0. /\ e.previous = TraceHead.fingerprint /\ (n + 1) - 1 = n
          /\ \A k \in 1..n : TraceHead.fingerprint[k] = log[k].body
      <3>1. (n + 1) - 1 = n
        BY <1>3
      <3>2. \A k \in 1..n : TraceHead.fingerprint[k] = log[k].body
        BY <1>3, Zenon DEF Covers
      <3>. QED  BY <1>2, <3>1, <3>2
    <2>1. (n + 1) - 1 = n /\ \A k \in 1..n : e.previous[k] = log[k].body
      BY <2>0
    <2>2. WholeLine(n + 1)
      BY <1>2, <1>4, <2>1 DEF WholeLine
    <2>3. \A i \in 1..n + 1 : WholeLine(i)
      BY <1>3, <2>2
    <2>. QED  BY <1>1, <2>3 DEF WholeLine
  <1>11. TraceLog'
    BY <1>1, <1>2, <1>3, <1>5, <1>6, <1>8, <1>10 DEF TraceInv, TraceLog
  <1>12. TraceReaders' /\ TraceReturned'
    BY <1>1, <1>3, <1>5, <1>6, <1>9 DEF TraceInv, TraceReaders, TraceReader, TraceReturned
  <1>13. writer'[w] = [writer[w] EXCEPT !.at = "written"] /\ \A v \in Writers : v # w => writer'[v] = writer[v]
    BY <1>1 DEF TraceInv, TraceWriters
  <1>14. TraceWriter(w)'
    BY <1>1, <1>13 DEF TraceInv, TraceWriters, TraceWriter, InLock
  <1>15. TraceWriters'
    BY <1>1, <1>13, <1>14, TraceOthers DEF TraceInv, TraceWriters, InLock
  <1>. QED  BY <1>11, <1>12, <1>15 DEF TraceInv

\* A write that fails, or a crash: the line is not there, there in part, or whole.
LEMMA TraceBreaks ==
    ASSUME TraceInv, NEW w \in Writers, Trace!WriteFails(w) \/ Trace!Crash(w)
    PROVE  TraceInv'
  <1>. DEFINE to == writer'[w]
  <1>1. /\ UNCHANGED <<head, lock, reader, returned>> /\ writer[w].at # "idle"
        /\ log' = log \/ (writer[w].at = "log" /\ log' = Append(log, None))
        /\ \/ writer' = [writer EXCEPT ![w].at = "refused"] /\ writer[w].at \in InLock
           \/ writer' = [writer EXCEPT ![w] = Trace!Idle]
    BY DEF Trace!WriteFails, Trace!Crash, InLock
  <1>2. TraceWriter(w)'
    BY <1>1 DEF TraceInv, TraceWriters, TraceWriter, Trace!Idle, InLock
  <1>3. CASE log' = log
    BY <1>1, <1>2, <1>3, TraceStill, TraceMoves DEF InLock
  <1>4. CASE writer[w].at = "log" /\ log' = Append(log, None)
    <2>1. head # None /\ Len(log) = TraceHead.sequence
      BY <1>4 DEF TraceInv, TraceWriters, TraceWriter
    <2>2. TraceLog' /\ TraceReaders' /\ TraceReturned'
      BY <1>1, <1>4, <2>1, TraceGrows
    <2>3. TraceWriters'
      BY <1>1, <1>2, <1>4, TraceOthers DEF TraceInv, TraceWriters, Trace!Idle, InLock
    <2>. QED  BY <2>2, <2>3 DEF TraceInv
  <1>. QED  BY <1>1, <1>3, <1>4

LEMMA TraceReaderStep ==
    ASSUME TraceInv, NEW r \in Readers, UNCHANGED <<log, head, lock, writer, returned>>,
           NEW next \in [at : {"idle", "head", "log", "again", "read"},
                          head : Trace!Heads \cup {None}, lines : Seq(Trace!Lines)],
           reader' = [reader EXCEPT ![r] = next],
           next.at = "log" => next.head = None \/ Covers(next.head),
           next.at \in {"again", "read"} =>
              /\ Len(next.lines) <= TraceHead.sequence
              /\ \A k \in 1..Len(next.lines) : next.lines[k] = log[k]
    PROVE  TraceInv'
  <1>1. /\ reader' \in [Readers -> [at : {"idle", "head", "log", "again", "read"},
                     head : Trace!Heads \cup {None}, lines : Seq(Trace!Lines)]]
        /\ reader'[r] = next /\ \A q \in Readers : q # r => reader'[q] = reader[q]
    BY DEF TraceInv, TraceReaders
  <1>2. TraceReader(r)'
    BY <1>1, TraceStill DEF TraceReader
  <1>3. TraceReaders'
    BY <1>1, <1>2, TraceStill DEF TraceReaders
  <1>. QED  BY <1>3, TraceStill DEF TraceInv, TraceWriters

LEMMA TraceReads ==
    ASSUME TraceInv, NEW r \in Readers,
           \/ Trace!Look(r) \/ Trace!ReadHead(r) \/ Trace!ReadLog(r)
           \/ Trace!LookAgain(r) \/ Trace!ReaderLeaves(r)
    PROVE  TraceInv'
  <1>1. /\ UNCHANGED <<log, head, lock, writer, returned>>
        /\ reader[r] \in [at : {"idle", "head", "log", "again", "read"},
                          head : Trace!Heads \cup {None}, lines : Seq(Trace!Lines)]
    BY DEF Trace!Look, Trace!ReadHead, Trace!ReadLog, Trace!LookAgain, Trace!ReaderLeaves,
           TraceInv, TraceReaders
  <1>2. CASE reader' = [reader EXCEPT ![r] = Trace!Outside]
    <2>1. Trace!Outside \in [at : {"idle", "head", "log", "again", "read"},
                             head : Trace!Heads \cup {None}, lines : Seq(Trace!Lines)]
      BY DEF Trace!Outside
    <2>. QED  BY <1>1, <1>2, <2>1, TraceReaderStep DEF Trace!Outside
  <1>3. CASE Trace!Look(r)
    <2>1. reader' = [reader EXCEPT ![r] = [reader[r] EXCEPT !.at = "head"]]
      BY <1>3 DEF Trace!Look
    <2>. QED  BY <1>1, <2>1, TraceReaderStep
  <1>4. CASE Trace!LookAgain(r) /\ lock = None
    <2>1. reader[r].at = "again" /\ reader' = [reader EXCEPT ![r] = [reader[r] EXCEPT !.at = "read"]]
      BY <1>4 DEF Trace!LookAgain
    <2>2. TraceReader(r)
      BY DEF TraceInv, TraceReaders
    <2>. QED  BY <1>1, <2>1, <2>2, TraceReaderStep DEF TraceReader
  <1>5. CASE Trace!ReadHead(r)
    <2>1. reader' = [reader EXCEPT ![r] = [reader[r] EXCEPT !.head = head, !.at = "log"]]
      BY <1>5 DEF Trace!ReadHead, TraceInv, TraceReaders
    <2>2. head = None \/ Covers(head)
      BY DEF TraceInv, TraceLog, TraceHead, Trace!HeadRead
    <2>. QED  BY <1>1, <2>1, <2>2, TraceReaderStep DEF Covers
  <1>6. CASE Trace!ReadLog(r) /\ Trace!Verified(log, reader[r].head)
    <2>1. /\ reader[r].at = "log"
          /\ reader' = [reader EXCEPT ![r] = [reader[r] EXCEPT !.lines = log, !.at = "again"]]
      BY <1>6 DEF Trace!ReadLog, TraceInv, TraceReaders
    <2>2. Len(log) <= TraceHead.sequence
      <3>1. CASE reader[r].head = None
        BY <1>6, <3>1 DEF Trace!Verified, TraceInv, TraceLog, Covers, Trace!Heads
      <3>2. CASE reader[r].head # None
        BY <1>6, <2>1, <3>2, VerifiedLength
           DEF Trace!Verified, TraceInv, TraceReaders, TraceReader, Covers
      <3>. QED  BY <3>1, <3>2
    <2>3. log \in Seq(Trace!Lines)
      <3>1. TraceHead.sequence \in Nat /\ log \in Seq(Trace!Lines \cup {None})
        BY DEF TraceInv, TraceLog, Covers, Trace!Heads
      <3>2. \A k \in 1..Len(log) : log[k] \in Trace!Lines
        BY <2>2, <3>1 DEF TraceInv, TraceLog, WholeLine
      <3>. QED  BY <3>1, <3>2
    <2>. QED  BY <1>1, <2>1, <2>2, <2>3, TraceReaderStep
  <1>. QED
    BY <1>2, <1>3, <1>4, <1>5, <1>6 DEF Trace!ReadLog, Trace!LookAgain, Trace!ReaderLeaves

LEMMA TraceNext ==
    ASSUME TraceInv, [Trace!Tnext]_traceVars
    PROVE  TraceInv'
  <1>1. CASE UNCHANGED traceVars
    BY <1>1, TraceStill DEF traceVars, TraceInv, TraceWriters, TraceReaders
  <1>. QED
    BY <1>1, TraceBegin, TraceLock, TraceCheck, TraceWriteEmpty, TraceWriteLog, TraceWriteHead,
       TraceLeaves, TraceBreaks, TraceUser, TraceReads DEF Trace!Tnext

\* Two sequences one of which goes on where the other ends.
LEMMA Prefix ==
    ASSUME NEW S, NEW s \in Seq(S), NEW t \in Seq(S), Len(s) <= Len(t),
           \A k \in 1..Len(s) : s[k] = t[k]
    PROVE  Trace!IsPrefix(s, t)
  BY DEF Trace!IsPrefix

LEMMA CoversAgree ==
    ASSUME TraceInv, NEW g, NEW h, Covers(g), Covers(h), g.sequence = h.sequence
    PROVE  g = h
  <1>1. g.fingerprint = h.fingerprint
    BY SeqEqual DEF Covers, Trace!Heads
  <1>. QED  BY <1>1 DEF Covers, Trace!Heads

LEMMA ReturnedPart == TraceInv => Trace!ReturnedStay
  <1>. SUFFICES ASSUME TraceInv, NEW h \in returned
                PROVE  /\ Trace!IsPrefix(h.fingerprint, TraceHead.fingerprint)
                       /\ \A g \in returned : g.sequence = h.sequence => g = h
    BY DEF Trace!ReturnedStay, TraceHead
  <1>1. Covers(h) /\ Covers(TraceHead)
    BY DEF TraceInv, TraceReturned, TraceLog
  <1>2. Trace!IsPrefix(h.fingerprint, TraceHead.fingerprint)
    <2>1. /\ h.fingerprint \in Seq(Drafts) /\ Len(h.fingerprint) = h.sequence
          /\ \A k \in 1..h.sequence : h.fingerprint[k] = log[k].body
      BY <1>1 DEF Covers, Trace!Heads
    <2>2. /\ TraceHead.fingerprint \in Seq(Drafts) /\ Len(TraceHead.fingerprint) = TraceHead.sequence
          /\ \A k \in 1..TraceHead.sequence : TraceHead.fingerprint[k] = log[k].body
      BY <1>1 DEF Covers, Trace!Heads
    <2>3. h.sequence \in Nat /\ TraceHead.sequence \in Nat /\ h.sequence <= TraceHead.sequence
      BY <1>1 DEF Covers, Trace!Heads
    <2>4. \A k \in 1..Len(h.fingerprint) : h.fingerprint[k] = TraceHead.fingerprint[k]
      BY <2>1, <2>2, <2>3
    <2>5. Len(h.fingerprint) <= Len(TraceHead.fingerprint)
      BY <2>1, <2>2, <2>3
    <2>. QED  BY <2>1, <2>2, <2>4, <2>5, Prefix
  <1>. QED  BY <1>1, <1>2, CoversAgree DEF TraceInv, TraceReturned

LEMMA ReadPart == TraceInv => Trace!ReadIsCommitted
  <1>. SUFFICES ASSUME TraceInv, NEW r \in Readers, reader[r].at = "read"
                PROVE  LET lines == reader[r].lines IN
                       /\ Trace!IsPrefix(Trace!HeadOf(lines, Len(lines)).fingerprint,
                                         TraceHead.fingerprint)
                       /\ \A h \in returned : h.sequence <= Len(lines) =>
                                Trace!HeadOf(lines, h.sequence) = h
    BY DEF Trace!ReadIsCommitted, TraceHead
  <1>. DEFINE lines == reader[r].lines
              n == TraceHead.sequence
  <1>1. /\ lines \in Seq(Trace!Lines) /\ Len(lines) \in 0..n /\ n \in Nat
        /\ \A k \in 1..Len(lines) : lines[k] = log[k] /\ WholeLine(k)
    BY DEF TraceInv, TraceReaders, TraceReader, TraceLog, Covers, Trace!Heads
  <1>2. ASSUME NEW m \in 0..Len(lines)
        PROVE  Covers(Trace!HeadOf(lines, m)) /\ Trace!HeadOf(lines, m).sequence = m
    <2>1. CASE m = 0
      BY <1>1, <2>1, EmptyIsHead DEF Trace!HeadOf, Trace!EmptyHead, Covers
    <2>2. CASE m # 0
      <3>. DEFINE e == lines[m]
      <3>1. /\ e \in Trace!Lines /\ e.sequence = m /\ Len(e.previous) = m - 1
            /\ \A k \in 1..m - 1 : e.previous[k] = log[k].body
            /\ e.body = log[m].body
        <4>1. lines[m] = log[m] /\ WholeLine(m)
          BY <1>1, <2>2
        <4>. QED  BY <4>1 DEF WholeLine
      <3>2. Trace!HeadOf(lines, m) = [sequence |-> m, fingerprint |-> Append(e.previous, e.body)]
        BY <2>2, <3>1 DEF Trace!HeadOf, Trace!HeadAt, Trace!Fingerprint
      <3>3. e.previous \in Seq(Drafts) /\ e.body \in Drafts
        BY <3>1 DEF Trace!Lines
      <3>. HIDE DEF e
      <3>4. /\ Append(e.previous, e.body) \in Seq(Drafts) /\ Len(Append(e.previous, e.body)) = m
            /\ \A k \in 1..m : Append(e.previous, e.body)[k] = log[k].body
        BY <3>1, <3>3, AppendProperties
      <3>. QED  BY <1>1, <3>2, <3>4 DEF Covers, Trace!Heads
    <2>. QED  BY <2>1, <2>2
  <1>3. Trace!IsPrefix(Trace!HeadOf(lines, Len(lines)).fingerprint, TraceHead.fingerprint)
    <2>1. Covers(TraceHead) /\ Covers(Trace!HeadOf(lines, Len(lines)))
      BY <1>1, <1>2 DEF TraceInv, TraceLog
    <2>. QED  BY <2>1, Prefix DEF Covers, Trace!Heads
  <1>4. \A h \in returned : h.sequence <= Len(lines) => Trace!HeadOf(lines, h.sequence) = h
    <2>. SUFFICES ASSUME NEW h \in returned, h.sequence <= Len(lines)
                  PROVE  Trace!HeadOf(lines, h.sequence) = h
      OBVIOUS
    <2>1. Covers(h) /\ h.sequence \in 0..Len(lines)
      BY <1>1 DEF TraceInv, TraceReturned, Covers, Trace!Heads
    <2>. QED  BY <1>2, <2>1, CoversAgree
  <1>. QED  BY <1>3, <1>4

(* For any writers, readers and events: every head that an append returned  *)
(* is a prefix of what is committed, none is returned twice, and a reader   *)
(* is given committed lines only, whoever crashes, fails or races.          *)
THEOREM CommittedTheorem == FilesSpec => []CommittedStays
  <1>. DEFINE Inv == part = "trace" => TraceInv
  <1>1. FilesInit => Inv
    BY TraceInit DEF FilesInit
  <1>2. Inv /\ [FilesNext]_allVars => Inv'
    <2>1. ASSUME Inv, [FilesNext]_allVars, part' = "trace"
          PROVE  part = "trace" /\ [Trace!Tnext]_traceVars
      BY <2>1 DEF FilesNext, Rest, allVars
    <2>. QED  BY <2>1, TraceNext
  <1>3. Inv => CommittedStays
    BY ReturnedPart, ReadPart DEF CommittedStays
  <1>. QED  BY <1>1, <1>2, <1>3, PTL DEF FilesSpec

-----------------------------------------------------------------------------
(* The tile loader. Nodes and stamps are never used twice, so a file with   *)
(* the stamp it had when it was opened holds what was read of it, and a     *)
(* directory that is seen again was there all the while.                    *)

TileFiles == Loader!ToSet(Loader!Names)
FileName == Loader!Names[load.file]
OnDisk(n) == [root |-> dir.node, name |-> n, text |-> dir.files[n].text]
AsOpened == [root |-> load.held.root, name |-> FileName, text |-> Loader!OpenNow.text]

TileDisk ==
    /\ edits \in Nat
    /\ dir \in [node : 0..edits,
               files : [TileFiles -> [node : 0..edits, stamp : 0..edits, text : Seq(Nat)]]]
    /\ \A n \in TileFiles : Len(dir.files[n].text) = 2 /\ OnDisk(n) \in past

TileLoad ==
    /\ load \in [at : {"idle", "stat", "open", "check", "read"}, file : {1, 2}, root : 0..dir.node,
                stat : Nat \cup {None}, stamp : 0..edits, held : Loader!Opens \cup {None},
                text : Seq(Nat), got : Seq([root : Nat, name : TileFiles, text : Seq(Nat)])]
    /\ load.held # None <=> load.at \in {"check", "read"}
    /\ load.at # "idle" =>
         /\ Len(load.got) = load.file - 1
         /\ load.file = 2 => load.got[1] \in past /\ load.got[1].root = load.root
    /\ load.held # None =>
         /\ load.held.root \in load.root..dir.node /\ load.held.node <= edits
         /\ Loader!OpenNow \in Loader!Opens /\ Len(Loader!OpenNow.text) = 2
         /\ AsOpened \in past
    /\ load.at = "read" =>
         /\ load.held.root = load.root /\ Len(load.text) <= 2
         /\ Loader!OpenNow.stamp = load.stamp =>
              \A k \in 1..Len(load.text) : load.text[k] = Loader!OpenNow.text[k]

TileInv == TileDisk /\ TileLoad /\ Loader!LoadedIsReal

LEMMA TileNames == TileFiles = {"tile.yaml", "SKILL.md"} /\ Loader!Names[1] = "tile.yaml" /\ Loader!Names[2] = "SKILL.md"
  BY DEF TileFiles, Loader!Names, Loader!ToSet

LEMMA TileLoadInit == Loader!LoadInit => TileInv
  <1>. SUFFICES ASSUME Loader!LoadInit PROVE TileInv
    OBVIOUS
  <1>1. TileDisk
    BY TileNames DEF Loader!LoadInit, TileDisk, OnDisk, TileFiles
  <1>2. TileLoad
    BY TileNames, LoaderAssumption DEF Loader!LoadInit, TileLoad, Loader!NotLoading
  <1>. QED  BY <1>1, <1>2 DEF TileInv, Loader!LoadInit, Loader!LoadedIsReal

\* A change gives whatever it changes a stamp that was never used.
NewStamps(d, names) ==
    /\ d \in [node : 0..edits + 1,
              files : [TileFiles -> [node : 0..edits + 1, stamp : 0..edits + 1, text : Seq(Nat)]]]
    /\ d.node \in {dir.node, edits + 1} /\ names \in SUBSET TileFiles
    /\ \A n \in TileFiles :
          /\ Len(d.files[n].text) = 2 /\ d.files[n].node \in {dir.files[n].node, edits + 1}
          /\ n \in names \/ (d.files[n] = dir.files[n] /\ d.node = dir.node)
          /\ n \in names => d.files[n].stamp = edits + 1

LEMMA PutKeeps ==
    ASSUME TileInv, NEW d, NEW names, Loader!Put(d, names), NewStamps(d, names)
    PROVE  TileInv'
  <1>0. /\ d \in [node : 0..edits + 1,
                  files : [TileFiles -> [node : 0..edits + 1, stamp : 0..edits + 1, text : Seq(Nat)]]]
        /\ d.node \in {dir.node, edits + 1} /\ names \in SUBSET TileFiles
        /\ \A n \in TileFiles :
              /\ Len(d.files[n].text) = 2 /\ d.files[n].node \in {dir.files[n].node, edits + 1}
              /\ n \in names \/ (d.files[n] = dir.files[n] /\ d.node = dir.node)
              /\ n \in names => d.files[n].stamp = edits + 1
    BY DEF NewStamps
  <1>1. /\ edits' = edits + 1 /\ dir' = d /\ load' = Loader!Kept /\ UNCHANGED loaded
        /\ past' = past \cup {[root |-> d.node, name |-> n, text |-> d.files[n].text] : n \in names}
        /\ edits \in Nat
    BY DEF Loader!Put, TileInv, TileDisk
  <1>2. TileDisk'
    BY <1>0, <1>1 DEF TileInv, TileDisk, OnDisk
  <1>3. Loader!LoadedIsReal'
    BY <1>0, <1>1 DEF TileInv, Loader!LoadedIsReal, Loader!ToSet
  <1>4. CASE load.held = None
    <2>1. load' = load
      BY <1>0, <1>1, <1>4 DEF Loader!Kept
    <2>2. dir.node \in 0..edits /\ d.node \in 0..edits + 1 /\ d.node >= dir.node
      BY <1>0, <1>1 DEF TileInv, TileDisk
    <2>3. 0..dir.node \subseteq 0..d.node /\ 0..edits \subseteq 0..edits + 1
      BY <1>0, <1>1, <2>2
    <2>4. load \in [at : {"idle", "stat", "open", "check", "read"}, file : {1, 2}, root : 0..d.node,
                    stat : Nat \cup {None}, stamp : 0..edits + 1, held : Loader!Opens \cup {None},
                    text : Seq(Nat), got : Seq([root : Nat, name : TileFiles, text : Seq(Nat)])]
      BY <2>3 DEF TileInv, TileLoad
    <2>5. load.at \notin {"check", "read"}
      BY <1>4 DEF TileInv, TileLoad
    <2>6. past \subseteq past'
      BY <1>1
    <2>7. TileLoad'
      BY <1>0, <1>1, <1>4, <2>1, <2>4, <2>5, <2>6 DEF TileInv, TileLoad
    <2>. QED  BY <1>2, <1>3, <2>7 DEF TileInv
  <1>5. CASE load.held # None
    <2>. DEFINE f == dir.files[FileName]
                g == d.files[FileName]
                o == Loader!OpenNow
    <2>1. /\ load' = [load EXCEPT !.held = o] /\ o \in Loader!Opens
          /\ load.at \in {"check", "read"} /\ load.held \in Loader!Opens
          /\ FileName \in TileFiles /\ load.stamp \in 0..edits /\ load.root \in 0..dir.node
          /\ load.held.root \in load.root..dir.node /\ load.held.node <= edits
      BY <1>0, <1>1, <1>5, TileNames DEF Loader!Kept, TileInv, TileLoad, FileName
    <2>2. load'.held = o /\ UNCHANGED FileName /\ load'.at = load.at /\ o # None
          /\ load'.stamp = load.stamp /\ load'.root = load.root /\ load'.file = load.file
          /\ load'.got = load.got /\ load'.text = load.text /\ load'.stat = load.stat
      BY <2>1, LoaderAssumption DEF FileName, TileInv, TileLoad
    <2>3. /\ f \in [node : 0..edits, stamp : 0..edits, text : Seq(Nat)] /\ dir.node \in 0..edits
          /\ g \in [node : 0..edits + 1, stamp : 0..edits + 1, text : Seq(Nat)]
      BY <1>0, <2>1 DEF TileInv, TileDisk
    <2>4. o = IF dir.node = load.held.root /\ f.node = load.held.node
              THEN [root |-> dir.node, node |-> f.node, stamp |-> f.stamp, text |-> f.text]
              ELSE load.held
      BY DEF Loader!OpenNow, FileName
    <2>5. o.root = load.held.root /\ o.node = load.held.node
      BY <2>4
    <2>6. Loader!OpenNow' = IF d.node = o.root /\ g.node = o.node
              THEN [root |-> d.node, node |-> g.node, stamp |-> g.stamp, text |-> g.text]
              ELSE o
      BY <1>0, <1>1, <2>2 DEF Loader!OpenNow, FileName
    <2>7. /\ Loader!OpenNow' \in Loader!Opens /\ Len(Loader!OpenNow.text)' = 2 /\ AsOpened' \in past'
          /\ Loader!OpenNow' = o \/ Loader!OpenNow'.stamp = edits + 1
      <3>. AsOpened' = [root |-> o.root, name |-> FileName, text |-> Loader!OpenNow'.text]
        BY <2>2 DEF AsOpened
      <3>1. CASE d.node = o.root /\ g.node = o.node
        <4>1. Loader!OpenNow' = [root |-> d.node, node |-> g.node, stamp |-> g.stamp, text |-> g.text]
          BY <2>6, <3>1
        <4>2. d.node = dir.node /\ g.node = f.node
          BY <1>0, <1>1, <2>1, <2>3, <2>5, <3>1
        <4>3. CASE FileName \in names
          BY <1>0, <1>1, <2>1, <2>3, <3>1, <4>1, <4>3 DEF Loader!Opens
        <4>4. CASE FileName \notin names
          <5>1. g = f /\ o = Loader!OpenNow'
            BY <1>0, <2>1, <2>4, <2>5, <3>1, <4>1, <4>2, <4>4
          <5>. QED  BY <1>0, <1>1, <1>5, <2>1, <2>5, <5>1 DEF TileInv, TileLoad, AsOpened
        <4>. QED  BY <4>3, <4>4
      <3>2. CASE ~(d.node = o.root /\ g.node = o.node)
        BY <1>0, <1>1, <1>5, <2>1, <2>5, <2>6, <3>2 DEF TileInv, TileLoad, AsOpened
      <3>. QED  BY <3>1, <3>2
    <2>8. d.node >= dir.node
      BY <1>0, <1>1, <2>3
    <2>9. load' \in [at : {"idle", "stat", "open", "check", "read"}, file : {1, 2}, root : 0..d.node,
                     stat : Nat \cup {None}, stamp : 0..edits + 1, held : Loader!Opens \cup {None},
                     text : Seq(Nat), got : Seq([root : Nat, name : TileFiles, text : Seq(Nat)])]
      <3>1. 0..dir.node \subseteq 0..d.node /\ 0..edits \subseteq 0..edits + 1
        BY <1>0, <1>1, <2>3, <2>8
      <3>2. load \in [at : {"idle", "stat", "open", "check", "read"}, file : {1, 2}, root : 0..d.node,
                      stat : Nat \cup {None}, stamp : 0..edits + 1, held : Loader!Opens \cup {None},
                      text : Seq(Nat), got : Seq([root : Nat, name : TileFiles, text : Seq(Nat)])]
        BY <3>1 DEF TileInv, TileLoad
      <3>. HIDE DEF o
      <3>. QED  BY <2>1, <3>2
    <2>10. load.at = "read" /\ Loader!OpenNow'.stamp = load.stamp => Loader!OpenNow' = o
      <3>1. load.stamp # edits + 1
        BY <1>0, <1>1, <2>1
      <3>. QED  BY <2>7, <3>1
    <2>11. /\ load'.held # None /\ load'.held.root \in load'.root..dir'.node
           /\ load'.held.node <= edits' /\ past \subseteq past'
      <3>1. /\ load.held.node \in Nat /\ load.held.root \in Nat /\ load.root \in Nat
            /\ d.node \in Nat /\ dir.node \in Nat /\ edits \in Nat
        BY <1>0, <1>1, <2>1, <2>3 DEF Loader!Opens
      <3>2. load.held.root \in load.root..d.node /\ load.held.node <= edits + 1
        <4>1. load.held.root >= load.root /\ load.held.root <= dir.node /\ load.held.node <= edits
          BY <2>1, <3>1
        <4>. QED  BY <2>8, <3>1, <4>1
      <3>3. load'.held.root = load.held.root /\ load'.held.node = load.held.node
        BY <2>2, <2>5
      <3>. QED  BY <1>0, <1>1, <2>2, <3>2, <3>3
    <2>12. load.at = "read" =>
             /\ load.held.root = load.root /\ Len(load.text) <= 2
             /\ o.stamp = load.stamp =>
                  \A k \in 1..Len(load.text) : load.text[k] = o.text[k]
      BY DEF TileInv, TileLoad
    <2>13. load'.at = "read" =>
             /\ load'.held.root = load'.root /\ Len(load'.text) <= 2
             /\ Loader!OpenNow'.stamp = load'.stamp =>
                  \A k \in 1..Len(load'.text) : load'.text[k] = Loader!OpenNow'.text[k]
      BY <2>2, <2>5, <2>10, <2>12
    <2>14. load'.at # "idle" =>
             /\ Len(load'.got) = load'.file - 1
             /\ load'.file = 2 => load'.got[1] \in past' /\ load'.got[1].root = load'.root
      BY <2>2, <2>11 DEF TileInv, TileLoad
    <2>15. TileLoad'
      BY <1>0, <1>1, <2>1, <2>2, <2>7, <2>9, <2>11, <2>13, <2>14 DEF TileLoad
    <2>. QED  BY <1>2, <1>3, <2>15 DEF TileInv
  <1>. QED  BY <1>4, <1>5

\* One file of a directory replaced.
LEMMA FileReplaced ==
    ASSUME NEW A, NEW D, NEW S, NEW r \in [node : A, files : [D -> S]], NEW n \in D, NEW x
    PROVE  [r EXCEPT !.files[n] = x] = [node |-> r.node, files |-> [r.files EXCEPT ![n] = x]]
  OBVIOUS

LEMMA TileChanges ==
    ASSUME TileInv,
           \/ Loader!ReplaceRoot
           \/ \E name \in TileFiles :
                 Loader!Replace(name) \/ \E half \in {1, 2} : Loader!EditHalf(name, half)
    PROVE  TileInv'
  <1>1. /\ edits \in Nat
        /\ dir \in [node : 0..edits,
                    files : [TileFiles -> [node : 0..edits, stamp : 0..edits, text : Seq(Nat)]]]
        /\ \A n \in TileFiles : Len(dir.files[n].text) = 2
        /\ Loader!New \in [node : {edits + 1}, stamp : {edits + 1}, text : Seq(Nat)]
        /\ Len(Loader!New.text) = 2
    BY DEF TileInv, TileDisk, Loader!New
  <1>2. CASE Loader!ReplaceRoot
    <2>. DEFINE d == [node |-> edits + 1, files |-> [n \in TileFiles |-> Loader!New]]
    <2>1. Loader!Put(d, TileFiles)
      BY <1>2 DEF Loader!ReplaceRoot, TileFiles
    <2>2. d \in [node : 0..edits + 1,
                  files : [TileFiles -> [node : 0..edits + 1, stamp : 0..edits + 1, text : Seq(Nat)]]]
      BY <1>1
    <2>3. \A n \in TileFiles :
            /\ Len(d.files[n].text) = 2 /\ d.files[n].node \in {dir.files[n].node, edits + 1}
            /\ n \in TileFiles \/ (d.files[n] = dir.files[n] /\ d.node = dir.node)
            /\ n \in TileFiles => d.files[n].stamp = edits + 1
      BY <1>1
    <2>4. d.node = edits + 1
      OBVIOUS
    <2>. HIDE DEF d
    <2>5. NewStamps(d, TileFiles)
      BY <2>2, <2>3, <2>4 DEF NewStamps
    <2>. QED  BY <2>1, <2>5, PutKeeps
  <1>3. ASSUME NEW name \in TileFiles, Loader!Replace(name)
        PROVE  TileInv'
    <2>. DEFINE d == [dir EXCEPT !.files[name] = Loader!New]
    <2>1. Loader!Put(d, {name})
      BY <1>3 DEF Loader!Replace
    <2>2. d = [node |-> dir.node, files |-> [dir.files EXCEPT ![name] = Loader!New]]
      <3>. DEFINE A == 0..edits
                  S == [node : 0..edits, stamp : 0..edits, text : Seq(Nat)]
      <3>1. dir \in [node : A, files : [TileFiles -> S]] /\ name \in TileFiles
        BY <1>1, <1>3
      <3>. HIDE DEF A, S
      <3>. QED  BY <3>1, FileReplaced
    <2>. HIDE DEF d
    <2>3. d \in [node : 0..edits + 1,
                  files : [TileFiles -> [node : 0..edits + 1, stamp : 0..edits + 1, text : Seq(Nat)]]]
      BY <1>1, <1>3, <2>2
    <2>4. \A n \in TileFiles :
            /\ Len(d.files[n].text) = 2 /\ d.files[n].node \in {dir.files[n].node, edits + 1}
            /\ n \in {name} \/ (d.files[n] = dir.files[n] /\ d.node = dir.node)
            /\ n \in {name} => d.files[n].stamp = edits + 1
      BY <1>1, <1>3, <2>2
    <2>5. d.node = dir.node /\ {name} \in SUBSET TileFiles
      BY <1>3, <2>2
    <2>6. NewStamps(d, {name})
      BY <2>3, <2>4, <2>5 DEF NewStamps
    <2>. QED  BY <2>1, <2>6, PutKeeps
  <1>4. ASSUME NEW name \in TileFiles, NEW half \in {1, 2}, Loader!EditHalf(name, half)
        PROVE  TileInv'
    <2>. DEFINE old == dir.files[name]
                text == [old.text EXCEPT ![half] = edits + 1]
                file == Loader!HalfEdited(name, half)
                d == [dir EXCEPT !.files[name] = file]
    <2>1. Loader!Put(d, {name})
      BY <1>4 DEF Loader!EditHalf
    <2>2. old \in [node : 0..edits, stamp : 0..edits, text : Seq(Nat)] /\ Len(old.text) = 2
      BY <1>1, <1>4
    <2>3. text \in Seq(Nat) /\ Len(text) = 2
      <3>. HIDE DEF old
      <3>1. half \in 1..Len(old.text) /\ edits + 1 \in Nat /\ old.text \in Seq(Nat)
        BY <1>1, <1>4, <2>2
      <3>2. Len(old.text) = 2
        BY <2>2
      <3>3. [old.text EXCEPT ![half] = edits + 1] \in Seq(Nat)
            /\ Len([old.text EXCEPT ![half] = edits + 1]) = Len(old.text)
        BY <3>1, ExceptSeq
      <3>. QED  BY <3>2, <3>3
    <2>11. file = [old EXCEPT !.stamp = edits + 1, !.text = text]
      BY DEF Loader!HalfEdited
    <2>. HIDE DEF file
    <2>4. file \in [node : 0..edits + 1, stamp : 0..edits + 1, text : Seq(Nat)]
      <3>1. edits + 1 \in 0..edits + 1 /\ 0..edits \subseteq 0..edits + 1
        BY <1>1
      <3>. HIDE DEF old, text
      <3>. QED  BY <2>2, <2>3, <2>11, <3>1
    <2>5. d = [node |-> dir.node, files |-> [dir.files EXCEPT ![name] = file]]
      <3>. DEFINE A == 0..edits
                  S == [node : 0..edits, stamp : 0..edits, text : Seq(Nat)]
      <3>1. dir \in [node : A, files : [TileFiles -> S]] /\ name \in TileFiles
        BY <1>1, <1>4
      <3>. HIDE DEF A, S
      <3>. QED  BY <3>1, FileReplaced
    <2>9. file.node = old.node /\ file.stamp = edits + 1 /\ file.text = text
      BY <2>2, <2>11
    <2>. HIDE DEF d, text, file
    <2>6. d \in [node : 0..edits + 1,
                  files : [TileFiles -> [node : 0..edits + 1, stamp : 0..edits + 1, text : Seq(Nat)]]]
      BY <1>1, <1>4, <2>3, <2>4, <2>5, <2>9
    <2>7. \A n \in TileFiles :
            /\ Len(d.files[n].text) = 2 /\ d.files[n].node \in {dir.files[n].node, edits + 1}
            /\ n \in {name} \/ (d.files[n] = dir.files[n] /\ d.node = dir.node)
            /\ n \in {name} => d.files[n].stamp = edits + 1
      BY <1>1, <1>4, <2>3, <2>4, <2>5, <2>9
    <2>8. d.node = dir.node /\ {name} \in SUBSET TileFiles
      BY <1>4, <2>5
    <2>. HIDE DEF old
    <2>10. NewStamps(d, {name})
      BY <2>6, <2>7, <2>8 DEF NewStamps
    <2>. QED  BY <2>1, <2>10, PutKeeps
  <1>. QED  BY <1>2, <1>3, <1>4

\* The file being read, while one is open: what is on disk, if it is the same.
LEMMA TileHeld ==
    ASSUME TileInv
    PROVE  /\ FileName \in TileFiles /\ edits \in Nat /\ dir.node \in 0..edits
           /\ dir.files[FileName] \in [node : 0..edits, stamp : 0..edits, text : Seq(Nat)]
           /\ Len(dir.files[FileName].text) = 2 /\ OnDisk(FileName) \in past
           /\ load.file \in {1, 2} /\ load.got \in Seq([root : Nat, name : TileFiles, text : Seq(Nat)])
           /\ load.text \in Seq(Nat) /\ load.root \in 0..dir.node /\ load.stamp \in 0..edits
  BY TileNames DEF TileInv, TileDisk, TileLoad, FileName

LEMMA StartLoadKeeps == TileInv /\ Loader!StartLoad => TileInv'
  <1>. SUFFICES ASSUME TileInv, Loader!StartLoad PROVE TileInv'
    OBVIOUS
  <1>1. UNCHANGED <<dir, past, edits, loaded>>
        /\ load' = [Loader!NotLoading EXCEPT !.at = "stat", !.root = dir.node]
    BY DEF Loader!StartLoad
  <1>2. TileDisk' /\ Loader!LoadedIsReal'
    BY <1>1 DEF TileInv, TileDisk, OnDisk, Loader!LoadedIsReal
  <1>3. load' = [at |-> "stat", file |-> 1, root |-> dir.node, stat |-> None, stamp |-> 0,
                 held |-> None, text |-> <<>>, got |-> <<>>]
    BY <1>1 DEF Loader!NotLoading
  <1>4. dir.node \in 0..dir.node /\ 0 \in 0..edits
    BY TileHeld
  <1>5. <<>> \in Seq(Nat) /\ <<>> \in Seq([root : Nat, name : TileFiles, text : Seq(Nat)])
    OBVIOUS
  <1>6. load' \in [at : {"idle", "stat", "open", "check", "read"}, file : {1, 2}, root : 0..dir.node,
                   stat : Nat \cup {None}, stamp : 0..edits, held : Loader!Opens \cup {None},
                   text : Seq(Nat), got : Seq([root : Nat, name : TileFiles, text : Seq(Nat)])]
    BY <1>3, <1>4, <1>5
  <1>7. load'.at = "stat" /\ load'.held = None /\ load'.file = 1 /\ Len(load'.got) = 0
    BY <1>3
  <1>8. TileLoad'
    BY <1>1, <1>6, <1>7 DEF TileLoad
  <1>. QED  BY <1>2, <1>8 DEF TileInv

LEMMA StatFileKeeps == TileInv /\ Loader!StatFile => TileInv'
  <1>. SUFFICES ASSUME TileInv, Loader!StatFile PROVE TileInv'
    OBVIOUS
  <1>1. UNCHANGED <<dir, past, edits, loaded>> /\ load.at = "stat"
        /\ load' = [load EXCEPT !.stat = dir.files[FileName].node, !.at = "open"]
    BY DEF Loader!StatFile, FileName
  <1>2. TileDisk' /\ Loader!LoadedIsReal'
    BY <1>1 DEF TileInv, TileDisk, OnDisk, Loader!LoadedIsReal
  <1>3. dir.files[FileName].node \in Nat
    BY TileHeld
  <1>4. TileLoad'
    BY <1>1, <1>3 DEF TileInv, TileLoad
  <1>. QED  BY <1>2, <1>4 DEF TileInv

LEMMA OpenFileKeeps == TileInv /\ Loader!OpenFile => TileInv'
  <1>. SUFFICES ASSUME TileInv, Loader!OpenFile PROVE TileInv'
    OBVIOUS
  <1>. DEFINE f == dir.files[FileName]
              h == [root |-> dir.node, node |-> f.node, stamp |-> f.stamp, text |-> f.text]
  <1>1. UNCHANGED <<dir, past, edits, loaded>> /\ load.at = "open"
        /\ load' = [load EXCEPT !.at = "check", !.stamp = f.stamp, !.held = h]
    BY DEF Loader!OpenFile, FileName
  <1>2. TileDisk' /\ Loader!LoadedIsReal'
    BY <1>1 DEF TileInv, TileDisk, OnDisk, Loader!LoadedIsReal
  <1>3. /\ h \in Loader!Opens /\ h # None /\ Len(h.text) = 2 /\ f.stamp \in 0..edits
        /\ h.root \in load.root..dir.node /\ h.node <= edits
        /\ [root |-> h.root, name |-> FileName, text |-> h.text] \in past
    <2>1. f \in [node : 0..edits, stamp : 0..edits, text : Seq(Nat)] /\ Len(f.text) = 2
          /\ edits \in Nat /\ dir.node \in 0..edits /\ load.root \in 0..dir.node
          /\ OnDisk(FileName) \in past
      BY TileHeld
    <2>2. h \in Loader!Opens
      <3>. HIDE DEF f
      <3>. QED  BY <2>1 DEF Loader!Opens
    <2>. QED  BY <2>1, <2>2, LoaderAssumption DEF OnDisk
  <1>. HIDE DEF h
  <1>4. /\ load'.at = "check" /\ load'.held = h /\ UNCHANGED FileName
        /\ load'.root = load.root /\ load'.file = load.file /\ load'.got = load.got
    BY <1>1 DEF TileInv, TileLoad, FileName
  <1>5. Loader!OpenNow' = h
    <2>1. Loader!OpenNow' = IF dir.node = h.root /\ f.node = h.node
             THEN [root |-> dir.node, node |-> f.node, stamp |-> f.stamp, text |-> f.text] ELSE h
      BY <1>1, <1>4 DEF Loader!OpenNow, FileName
    <2>. QED  BY <2>1 DEF h
  <1>6. AsOpened' \in past'
    BY <1>1, <1>3, <1>4, <1>5 DEF AsOpened
  <1>7. TileLoad'
    BY <1>1, <1>3, <1>4, <1>5, <1>6 DEF TileInv, TileLoad
  <1>. QED  BY <1>2, <1>7 DEF TileInv

LEMMA CheckFileKeeps == TileInv /\ Loader!CheckFile => TileInv'
  <1>. SUFFICES ASSUME TileInv, Loader!CheckFile PROVE TileInv'
    OBVIOUS
  <1>1. UNCHANGED <<dir, past, edits, loaded>> /\ load.at = "check"
    BY DEF Loader!CheckFile
  <1>2. TileDisk' /\ Loader!LoadedIsReal'
    BY <1>1 DEF TileInv, TileDisk, OnDisk, Loader!LoadedIsReal
  <1>3. CASE load' = Loader!NotLoading
    <2>1. 0 \in 0..dir.node /\ 0 \in 0..edits
      BY TileHeld
    <2>2. TileLoad'
      BY <1>1, <1>3, <2>1 DEF TileLoad, Loader!NotLoading
    <2>. QED  BY <1>2, <2>2 DEF TileInv
  <1>4. CASE dir.node = load.root /\ load' = [load EXCEPT !.at = "read", !.text = <<>>]
    <2>1. load.held.root = load.root /\ load.held # None
      BY <1>1, <1>4, TileHeld DEF TileInv, TileLoad
    <2>2. /\ load'.held = load.held /\ load'.root = load.root /\ load'.text = <<>>
          /\ UNCHANGED FileName /\ load'.at = "read" /\ load'.stamp = load.stamp
          /\ load'.file = load.file /\ load'.got = load.got
      BY <1>4 DEF TileInv, TileLoad, FileName
    <2>3. UNCHANGED <<Loader!OpenNow, AsOpened>>
      BY <1>1, <2>2 DEF Loader!OpenNow, AsOpened, FileName
    <2>4. load' \in [at : {"idle", "stat", "open", "check", "read"}, file : {1, 2}, root : 0..dir.node,
                     stat : Nat \cup {None}, stamp : 0..edits, held : Loader!Opens \cup {None},
                     text : Seq(Nat), got : Seq([root : Nat, name : TileFiles, text : Seq(Nat)])]
      <3>1. <<>> \in Seq(Nat)
        OBVIOUS
      <3>. QED  BY <1>4, <3>1 DEF TileInv, TileLoad
    <2>5. TileLoad'
      BY <1>1, <2>1, <2>2, <2>3, <2>4 DEF TileInv, TileLoad
    <2>. QED  BY <1>2, <2>5 DEF TileInv
  <1>. QED  BY <1>3, <1>4 DEF Loader!CheckFile

LEMMA ReadHalfKeeps == TileInv /\ Loader!ReadHalf => TileInv'
  <1>. SUFFICES ASSUME TileInv, Loader!ReadHalf PROVE TileInv'
    OBVIOUS
  <1>. DEFINE o == Loader!OpenNow
              text == Append(load.text, o.text[Len(load.text) + 1])
  <1>1. UNCHANGED <<dir, past, edits, loaded>> /\ load.at = "read" /\ Len(load.text) < 2
        /\ load' = [load EXCEPT !.text = text]
    BY DEF Loader!ReadHalf
  <1>2. TileDisk' /\ Loader!LoadedIsReal'
    BY <1>1 DEF TileInv, TileDisk, OnDisk, Loader!LoadedIsReal
  <1>3. /\ load.held # None /\ load.held.root = load.root /\ load.text \in Seq(Nat)
        /\ o \in Loader!Opens /\ Len(o.text) = 2
        /\ o.stamp = load.stamp => \A k \in 1..Len(load.text) : load.text[k] = o.text[k]
    BY <1>1 DEF TileInv, TileLoad
  <1>4. /\ text \in Seq(Nat) /\ Len(text) <= 2
        /\ o.stamp = load.stamp => \A k \in 1..Len(text) : text[k] = o.text[k]
    <2>. HIDE DEF o
    <2>1. o.text[Len(load.text) + 1] \in Nat
      BY <1>1, <1>3 DEF Loader!Opens
    <2>. QED  BY <1>1, <1>3, <2>1
  <1>. HIDE DEF text
  <1>5. /\ load'.held = load.held /\ load'.root = load.root /\ load'.text = text
        /\ UNCHANGED FileName /\ load'.at = "read" /\ load'.stamp = load.stamp
        /\ load'.file = load.file /\ load'.got = load.got
    BY <1>1 DEF TileInv, TileLoad, FileName
  <1>6. UNCHANGED <<Loader!OpenNow, AsOpened>>
    BY <1>1, <1>5 DEF Loader!OpenNow, AsOpened, FileName
  <1>7. load' \in [at : {"idle", "stat", "open", "check", "read"}, file : {1, 2}, root : 0..dir.node,
                   stat : Nat \cup {None}, stamp : 0..edits, held : Loader!Opens \cup {None},
                   text : Seq(Nat), got : Seq([root : Nat, name : TileFiles, text : Seq(Nat)])]
    BY <1>1, <1>4 DEF TileInv, TileLoad
  <1>8. TileLoad'
    BY <1>1, <1>3, <1>4, <1>5, <1>6, <1>7 DEF TileInv, TileLoad
  <1>. QED  BY <1>2, <1>8 DEF TileInv

LEMMA AppendPair ==
    ASSUME NEW S, NEW s \in Seq(S), Len(s) = 1, NEW e \in S
    PROVE  /\ Len(Append(s, e)) = 2 /\ DOMAIN Append(s, e) = 1..2
           /\ Append(s, e)[1] = s[1] /\ Append(s, e)[2] = e
  <1>1. Append(s, e) \in Seq(S) /\ Len(Append(s, e)) = 2
    OBVIOUS
  <1>2. DOMAIN Append(s, e) = 1..2
    BY <1>1, LenProperties
  <1>3. 1 \in 1..Len(s) /\ Len(s) + 1 = 2
    OBVIOUS
  <1>4. Append(s, e)[1] = s[1] /\ Append(s, e)[2] = e
    BY <1>3, AppendProperties
  <1>. QED  BY <1>1, <1>2, <1>4

LEMMA EndFileKeeps == TileInv /\ Loader!EndFile => TileInv'
  <1>. SUFFICES ASSUME TileInv, Loader!EndFile PROVE TileInv'
    OBVIOUS
  <1>. DEFINE x == [root |-> load.held.root, name |-> FileName, text |-> load.text]
              got == Append(load.got, x)
  <1>1. UNCHANGED <<dir, past, edits>> /\ load.at = "read" /\ Len(load.text) = 2
    BY DEF Loader!EndFile
  <1>2. TileDisk'
    BY <1>1 DEF TileInv, TileDisk, OnDisk
  <1>3. \/ load' = Loader!NotLoading /\ UNCHANGED loaded
        \/ /\ Loader!OpenNow.stamp = load.stamp
           /\ \/ load.file = 2 /\ loaded' = got /\ load' = Loader!NotLoading
              \/ /\ load.file = 1 /\ UNCHANGED loaded
                 /\ load' = [load EXCEPT !.file = 2, !.at = "stat", !.held = None, !.got = got]
    BY TileHeld DEF Loader!EndFile, Loader!UnchangedSince, FileName
  <1>4. ASSUME load' = Loader!NotLoading PROVE TileLoad'
    <2>1. 0 \in 0..dir.node /\ 0 \in 0..edits
      BY TileHeld
    <2>. QED  BY <1>1, <1>4, <2>1 DEF TileLoad, Loader!NotLoading
  <1>5. ASSUME Loader!OpenNow.stamp = load.stamp
        PROVE  /\ x \in past /\ x.root = load.root /\ x \in [root : Nat, name : TileFiles, text : Seq(Nat)]
    <2>. DEFINE o == Loader!OpenNow
    <2>1. /\ load.held # None /\ load.held.root = load.root /\ load.text \in Seq(Nat)
          /\ o \in Loader!Opens /\ Len(o.text) = 2 /\ AsOpened \in past
          /\ \A k \in 1..2 : load.text[k] = o.text[k]
      BY <1>1, <1>5 DEF TileInv, TileLoad
    <2>2. load.text = o.text
      <3>1. o.text \in Seq(Nat)
        BY <2>1 DEF Loader!Opens
      <3>. HIDE DEF o
      <3>. QED  BY <1>1, <2>1, <3>1, SeqEqual
    <2>3. x = AsOpened
      BY <2>1, <2>2 DEF AsOpened
    <2>4. load.root \in Nat
      BY TileHeld
    <2>. QED  BY <2>1, <2>3, <2>4, TileHeld
  <1>. HIDE DEF x
  <1>6. load.got \in Seq([root : Nat, name : TileFiles, text : Seq(Nat)]) /\ Len(load.got) = load.file - 1
        /\ (load.file = 2 => load.got[1] \in past /\ load.got[1].root = load.root)
    BY <1>1, TileHeld DEF TileInv, TileLoad
  <1>7. CASE load' = Loader!NotLoading /\ UNCHANGED loaded
    <2>1. Loader!LoadedIsReal'
      BY <1>1, <1>7 DEF TileInv, Loader!LoadedIsReal
    <2>. QED  BY <1>2, <1>4, <1>7, <2>1 DEF TileInv
  <1>8. CASE /\ Loader!OpenNow.stamp = load.stamp
             /\ load.file = 2 /\ loaded' = got /\ load' = Loader!NotLoading
    <2>1. Len(got) = 2 /\ got[1] = load.got[1] /\ got[2] = x /\ DOMAIN got = 1..2
      <3>. DEFINE S == [root : Nat, name : TileFiles, text : Seq(Nat)]
      <3>1. load.got \in Seq(S) /\ Len(load.got) = 1 /\ x \in S
        BY <1>5, <1>6, <1>8
      <3>. HIDE DEF S
      <3>. QED  BY <3>1, AppendPair
    <2>2. Loader!ToSet(got) \subseteq past /\ got[1].root = got[2].root
      BY <1>5, <1>6, <1>8, <2>1 DEF Loader!ToSet
    <2>3. Loader!LoadedIsReal'
      BY <1>1, <1>8, <2>2 DEF Loader!LoadedIsReal, Loader!ToSet
    <2>. QED  BY <1>2, <1>4, <1>8, <2>3 DEF TileInv
  <1>9. CASE /\ Loader!OpenNow.stamp = load.stamp /\ load.file = 1 /\ UNCHANGED loaded
             /\ load' = [load EXCEPT !.file = 2, !.at = "stat", !.held = None, !.got = got]
    <2>1. Loader!LoadedIsReal'
      BY <1>1, <1>9 DEF TileInv, Loader!LoadedIsReal
    <2>2. /\ got \in Seq([root : Nat, name : TileFiles, text : Seq(Nat)])
          /\ Len(got) = 1 /\ got[1] = x
      BY <1>5, <1>6, <1>9
    <2>. HIDE DEF got
    <2>3. load' \in [at : {"idle", "stat", "open", "check", "read"}, file : {1, 2}, root : 0..dir.node,
                     stat : Nat \cup {None}, stamp : 0..edits, held : Loader!Opens \cup {None},
                     text : Seq(Nat), got : Seq([root : Nat, name : TileFiles, text : Seq(Nat)])]
      BY <1>9, <2>2 DEF TileInv, TileLoad
    <2>4. load'.at = "stat" /\ load'.held = None /\ load'.got = got /\ load'.file = 2
          /\ load'.root = load.root
      BY <1>9 DEF TileInv, TileLoad
    <2>5. TileLoad'
      BY <1>1, <1>5, <1>9, <2>2, <2>3, <2>4 DEF TileLoad
    <2>. QED  BY <1>2, <2>1, <2>5 DEF TileInv
  <1>. QED  BY <1>3, <1>7, <1>8, <1>9

LEMMA TileNext == TileInv /\ [Loader!LoadNext]_loaderVars => TileInv'
  <1>. SUFFICES ASSUME TileInv, [Loader!LoadNext]_loaderVars PROVE TileInv'
    OBVIOUS
  <1>1. CASE UNCHANGED loaderVars
    BY <1>1 DEF loaderVars, TileInv, TileDisk, TileLoad, OnDisk, AsOpened, FileName,
       Loader!OpenNow, Loader!LoadedIsReal
  <1>2. CASE \/ Loader!ReplaceRoot
             \/ \E name \in TileFiles :
                   Loader!Replace(name) \/ \E half \in {1, 2} : Loader!EditHalf(name, half)
    BY <1>2, TileChanges
  <1>. QED
    BY <1>1, <1>2, StartLoadKeeps, StatFileKeeps, OpenFileKeeps, CheckFileKeeps, ReadHalfKeeps,
       EndFileKeeps DEF Loader!LoadNext, TileFiles

(* However the files of a tile are edited and replaced while they are read, *)
(* and however often: what is loaded is what its two files were, each at    *)
(* one moment, in one directory.                                            *)
THEOREM LoadedTheorem == FilesSpec => []LoadedIsReal
  <1>. DEFINE Inv == part = "loader" => TileInv
  <1>1. FilesInit => Inv
    BY TileLoadInit DEF FilesInit
  <1>2. Inv /\ [FilesNext]_allVars => Inv'
    <2>1. ASSUME Inv, [FilesNext]_allVars, part' = "loader"
          PROVE  part = "loader" /\ [Loader!LoadNext]_loaderVars
      BY <2>1 DEF FilesNext, Rest, allVars, loaderVars
    <2>. QED  BY <2>1, TileNext
  <1>3. Inv => LoadedIsReal
    BY DEF LoadedIsReal, TileInv
  <1>. QED  BY <1>1, <1>2, <1>3, PTL DEF FilesSpec

-----------------------------------------------------------------------------
(* The releases. Tags, commits, branches and the registry only grow, so     *)
(* what a preparation validated stays valid, and what a plan, a publication *)
(* or a promotion saw published stays published, whoever goes on with it.   *)

JobStates == {"idle", "prepared", "planning", "publishing", "verifying", "verified", "stopped"}
PromotionStates == {"idle", "aborted", "staged", "promoting", "confirming", "cleaning", "released"}

Plans == [Publishing!Packages -> BOOLEAN]

JobRecords == [at : JobStates, commit : Nat, next : 1..4, plan : Plans \cup {None},
               manifest : Publishing!Manifests \cup {None}, files : Publishing!Tarballs \cup {None}]
PromotionRecords == [at : PromotionStates, version : Publishing!ReleaseVersions \cup {None},
                     next : 1..4, seen : BOOLEAN]

ReleaseTypeOK ==
    /\ tree \in [Publishing!Packages -> Publishing!ReleaseVersions]
    /\ commits \in Seq([Publishing!Packages -> Publishing!ReleaseVersions])
    /\ branches \in [{"main", "beta", "release"} -> Nat]
    /\ tags \in [DOMAIN tags -> DOMAIN commits]
    /\ job \in [Jobs -> JobRecords]
    /\ packed \in Nat /\ late \in BOOLEAN
    /\ registry \in [Publishing!Packages -> SUBSET [version : Publishing!ReleaseVersions, commit : Nat, bytes : Nat]]
    /\ dist \in [Publishing!Packages -> [Publishing!NpmTagNames -> Publishing!ReleaseVersions \cup {None}]]
    /\ promotion \in PromotionRecords

\* The commit c may be published as v.
Valid(v, c) ==
    /\ Publishing!Provenance(v, c) /\ c \in DOMAIN commits
    /\ \A p \in Publishing!Packages : commits[c][p] = v

JobInv(j) ==
    LET f == job[j]
        m == f.manifest
    IN  /\ m # None => Valid(m.version, m.commit) /\ m.bytes # 0 /\ f.files # None
        /\ f.at \in {"planning", "publishing"} =>
              /\ m # None /\ f.plan \in Plans
              /\ late \/ \A p \in Publishing!Packages : f.files[p] = m.bytes
              /\ \A i \in 1..4 :
                    \/ f.at = "planning" /\ i < f.next /\ ~f.plan[Publishing!Order[i]]
                    \/ f.at = "publishing" /\ (i < f.next \/ ~f.plan[Publishing!Order[i]])
                    => Publishing!Published(Publishing!Order[i], m.version)

DistInv == \A p \in Publishing!Packages : \A t \in Publishing!NpmTagNames :
    dist[p][t] # None => Publishing!Published(p, dist[p][t])

\* What a promotion has seen of its version.
PromotionInv ==
    /\ promotion.at = "staged" =>
          /\ promotion.version # None
          /\ \A i \in 1..4 : i < promotion.next =>
                Publishing!Published(Publishing!Order[i], promotion.version)
    /\ Publishing!PromotedIsWhole

ReleaseInv ==
    /\ ReleaseTypeOK /\ \A j \in Jobs : JobInv(j)
    /\ DistInv /\ PromotionInv
    /\ Publishing!OneSource /\ Publishing!DependenciesFirst

LEMMA OrderFacts ==
    /\ \A i \in 1..4 : Publishing!Order[i] \in Publishing!Packages
    /\ \A p \in Publishing!Packages : \E i \in 1..4 : Publishing!Order[i] = p
    /\ \A i, k \in 1..4 : Publishing!Order[i] = Publishing!Order[k] => i = k
    /\ \A i \in 1..4 : \A d \in Publishing!DependsOn[Publishing!Order[i]] :
          \E k \in 1..4 : k < i /\ Publishing!Order[k] = d
  BY DEF Publishing!Order, Publishing!Packages, Publishing!DependsOn

LEMMA VersionsTyped ==
    ASSUME NEW v \in Publishing!ReleaseVersions
    PROVE  /\ Publishing!Base(v) \in Publishing!ReleaseVersions
           /\ Publishing!NextPatch(v) \in Publishing!ReleaseVersions
           /\ Publishing!NextMinor(v) \in Publishing!ReleaseVersions
           /\ Publishing!NextMajor(v) \in Publishing!ReleaseVersions
           /\ \A channel \in {"alpha", "beta", "rc"} : \A n \in Nat :
                 Publishing!Onto(v, channel, n) \in Publishing!ReleaseVersions
  BY DEF Publishing!ReleaseVersions, Publishing!NextPatch, Publishing!NextMinor,
     Publishing!NextMajor, Publishing!Base, Publishing!Version, Publishing!Onto

LEMMA BumpedTyped ==
    ASSUME NEW v \in Publishing!ReleaseVersions, NEW type \in ReleaseTypes
    PROVE  Publishing!Bumped(v, type) \in Publishing!ReleaseVersions \cup {None}
  <1>1. CASE type = "patch"
    BY <1>1, VersionsTyped DEF Publishing!Bumped
  <1>2. CASE type = "minor"
    BY <1>2, VersionsTyped DEF Publishing!Bumped
  <1>3. CASE type = "major"
    BY <1>3, VersionsTyped DEF Publishing!Bumped
  <1>4. CASE type = "promote"
    BY <1>4, VersionsTyped DEF Publishing!Bumped
  <1>5. CASE type \in {"alpha", "beta", "rc"}
    <2>1. Publishing!Bumped(v, type) = Publishing!BumpPrerelease(v, type)
      BY <1>5 DEF Publishing!Bumped
    <2>2. v.n \in Nat
      BY DEF Publishing!ReleaseVersions
    <2>. QED  BY <1>5, <2>1, <2>2, VersionsTyped DEF Publishing!BumpPrerelease
  <1>. QED  BY <1>1, <1>2, <1>3, <1>4, <1>5, ReleaseAssumption

\* The two computations of the next version agree, for every version.
LEMMA PlanAgrees ==
    ASSUME NEW v \in Publishing!ReleaseVersions,
           NEW type \in {"patch", "minor", "major", "beta", "rc", "promote"}
    PROVE  Publishing!Target(v, type) = Publishing!Bumped(v, type)
  <1>0. v.channel \notin {"patch", "minor", "major", "promote"}
    BY DEF Publishing!ReleaseVersions
  <1>1. CASE type = "patch"
    <2>1. Publishing!Bumped(v, type) =
          IF Publishing!Stable(v) THEN Publishing!NextPatch(v) ELSE Publishing!Base(v)
      BY <1>1 DEF Publishing!Bumped
    <2>2. Publishing!Target(v, type) =
          IF Publishing!Stable(v) THEN Publishing!NextPatch(v) ELSE Publishing!Base(v)
      BY <1>0, <1>1 DEF Publishing!Target
    <2>. QED  BY <2>1, <2>2
  <1>2. CASE type = "minor"
    <2>1. Publishing!Bumped(v, type) = Publishing!NextMinor(v)
      BY <1>2 DEF Publishing!Bumped
    <2>2. Publishing!Target(v, type) = Publishing!NextMinor(v)
      BY <1>0, <1>2 DEF Publishing!Target
    <2>. QED  BY <2>1, <2>2
  <1>3. CASE type = "major"
    <2>1. Publishing!Bumped(v, type) = Publishing!NextMajor(v)
      BY <1>3 DEF Publishing!Bumped
    <2>2. Publishing!Target(v, type) = Publishing!NextMajor(v)
      BY <1>0, <1>3 DEF Publishing!Target
    <2>. QED  BY <2>1, <2>2
  <1>4. CASE type = "promote"
    <2>1. Publishing!Bumped(v, type) =
          IF Publishing!Stable(v) THEN None ELSE Publishing!Base(v)
      BY <1>4 DEF Publishing!Bumped
    <2>2. Publishing!Target(v, type) =
          IF Publishing!Stable(v) THEN None ELSE Publishing!Base(v)
      BY <1>0, <1>4 DEF Publishing!Target
    <2>. QED  BY <2>1, <2>2
  <1>5. CASE type \in {"beta", "rc"} /\ v.channel = type
    <2>1. Publishing!Target(v, type) = Publishing!Onto(v, type, v.n + 1)
      BY <1>5 DEF Publishing!Target
    <2>2. Publishing!Bumped(v, type) = Publishing!Onto(v, type, v.n + 1)
      BY <1>5 DEF Publishing!Bumped, Publishing!BumpPrerelease, Publishing!Stable
    <2>. QED  BY <2>1, <2>2
  <1>6. CASE type \in {"beta", "rc"} /\ v.channel # type
    BY <1>6 DEF Publishing!Bumped, Publishing!Target, Publishing!BumpPrerelease
  <1>. QED  BY <1>1, <1>2, <1>3, <1>4, <1>5, <1>6

LEMMA PlanPart == ReleaseTypeOK => Publishing!PlanIsBump
  BY PlanAgrees DEF ReleaseTypeOK, Publishing!PlanIsBump, Publishing!Planned, Publishing!Packages

Grows ==
    /\ \A v, c : Valid(v, c) => Valid(v, c)'
    /\ \A p \in Publishing!Packages : \A v : Publishing!Published(p, v) => Publishing!Published(p, v)'
    /\ late => late'

\* What the maintainer does touches no job, no package and no promotion.
MaintainerStep ==
    \/ \E type \in ReleaseTypes, written \in 1..4 : Publishing!Bump(type, written)
    \/ Publishing!Commit \/ \E b \in DOMAIN branches : Publishing!Push(b)
    \/ \E v \in Publishing!Versions, c \in DOMAIN commits : Publishing!TagCommit(v, c)

LEMMA MaintainerGrows ==
    ASSUME ReleaseTypeOK, MaintainerStep
    PROVE  /\ Grows /\ UNCHANGED <<job, packed, registry, dist, promotion, late>>
           /\ ReleaseTypeOK' /\ DOMAIN commits \subseteq DOMAIN commits'
  <1>1. UNCHANGED <<job, packed, registry, dist, promotion, late>>
    BY DEF MaintainerStep, Publishing!Bump, Publishing!Commit, Publishing!Push, Publishing!TagCommit
  <1>2. \A p \in Publishing!Packages : \A v : Publishing!Published(p, v) => Publishing!Published(p, v)'
    BY <1>1 DEF Publishing!Published
  <1>3. ASSUME NEW type \in ReleaseTypes, NEW written \in 1..4, Publishing!Bump(type, written)
        PROVE  /\ UNCHANGED <<commits, branches, tags>>
               /\ tree' \in [Publishing!Packages -> Publishing!ReleaseVersions]
    <2>1. tree["cli"] \in Publishing!ReleaseVersions
      BY DEF ReleaseTypeOK, Publishing!Packages
    <2>2. Publishing!Bumped(tree["cli"], type) \in Publishing!ReleaseVersions
      BY <1>3, <2>1, BumpedTyped DEF Publishing!Bump
    <2>. QED  BY <1>3, <2>2 DEF Publishing!Bump, ReleaseTypeOK
  <1>4. ASSUME Publishing!Commit
        PROVE  /\ UNCHANGED <<tree, branches, tags>>
               /\ commits' \in Seq([Publishing!Packages -> Publishing!ReleaseVersions])
               /\ DOMAIN commits \subseteq DOMAIN commits'
               /\ \A c \in DOMAIN commits : commits'[c] = commits[c]
    <2>. DEFINE S == [Publishing!Packages -> Publishing!ReleaseVersions]
    <2>1. commits \in Seq(S) /\ tree \in S /\ commits' = Append(commits, tree)
      BY <1>4 DEF Publishing!Commit, ReleaseTypeOK
    <2>. HIDE DEF S
    <2>2. /\ commits' \in Seq(S) /\ Len(commits') = Len(commits) + 1
          /\ \A c \in 1..Len(commits) : commits'[c] = commits[c]
      BY <2>1, AppendProperties
    <2>3. DOMAIN commits = 1..Len(commits) /\ DOMAIN commits' = 1..Len(commits) + 1 /\ Len(commits) \in Nat
      BY <2>1, <2>2, LenProperties
    <2>. QED  BY <1>4, <2>2, <2>3 DEF S, Publishing!Commit
  <1>5. ASSUME NEW b \in DOMAIN branches, Publishing!Push(b)
        PROVE  /\ UNCHANGED <<tree, commits, tags>>
               /\ branches' \in [{"main", "beta", "release"} -> Nat]
               /\ \A a \in {"main", "beta", "release"} : branches[a] <= branches'[a]
    <2>1. Len(commits) \in Nat
      BY LenProperties DEF ReleaseTypeOK
    <2>. QED  BY <1>5, <2>1 DEF Publishing!Push, ReleaseTypeOK
  <1>6. ASSUME NEW v \in Publishing!Versions, NEW c \in DOMAIN commits, Publishing!TagCommit(v, c)
        PROVE  /\ UNCHANGED <<tree, commits, branches>> /\ tags' \in [DOMAIN tags' -> DOMAIN commits]
               /\ DOMAIN tags \subseteq DOMAIN tags' /\ \A w \in DOMAIN tags : tags'[w] = tags[w]
    <2>1. DOMAIN commits \subseteq Nat
      BY LenProperties DEF ReleaseTypeOK
    <2>2. v \notin DOMAIN tags
      BY <1>6, <2>1, ReleaseAssumption DEF Publishing!TagCommit, Publishing!Tagged, ReleaseTypeOK
    <2>. QED  BY <1>6, <2>2 DEF Publishing!TagCommit, ReleaseTypeOK
  <1>7. /\ DOMAIN commits \subseteq DOMAIN commits' /\ DOMAIN tags \subseteq DOMAIN tags'
        /\ \A c \in DOMAIN commits : commits'[c] = commits[c]
        /\ \A w \in DOMAIN tags : tags'[w] = tags[w]
        /\ \A a \in {"main", "beta", "release"} : branches[a] <= branches'[a]
    <2>1. \A a \in {"main", "beta", "release"} : branches[a] <= branches[a]
      BY DEF ReleaseTypeOK
    <2>. QED  BY <1>3, <1>4, <1>5, <1>6, <2>1 DEF MaintainerStep
  <1>8. ReleaseTypeOK'
    <2>1. /\ tree' \in [Publishing!Packages -> Publishing!ReleaseVersions]
          /\ commits' \in Seq([Publishing!Packages -> Publishing!ReleaseVersions])
          /\ branches' \in [{"main", "beta", "release"} -> Nat]
      BY <1>3, <1>4, <1>5, <1>6 DEF MaintainerStep, ReleaseTypeOK
    <2>2. tags' \in [DOMAIN tags' -> DOMAIN commits']
      BY <1>3, <1>4, <1>5, <1>6, <1>7 DEF MaintainerStep, ReleaseTypeOK
    <2>. QED  BY <1>1, <2>1, <2>2 DEF ReleaseTypeOK
  <1>9. ASSUME NEW v, NEW c, Valid(v, c) PROVE Valid(v, c)'
    <2>1. c \in DOMAIN commits /\ Publishing!Tagged(v) = c /\ Publishing!Integrated(v, c) /\ c \in Nat
      BY <1>9, LenProperties DEF Valid, Publishing!Provenance, ReleaseTypeOK
    <2>2. v \in DOMAIN tags
      BY <2>1, ReleaseAssumption DEF Publishing!Tagged
    <2>3. Publishing!Tagged(v)' = c
      BY <1>7, <2>1, <2>2 DEF Publishing!Tagged
    <2>4. Publishing!Integrated(v, c)'
      <3>1. \A a \in {"main", "beta", "release"} : c <= branches[a] => c <= branches'[a]
        BY <1>7, <1>8, <2>1 DEF ReleaseTypeOK
      <3>. QED  BY <2>1, <3>1 DEF Publishing!Integrated, Publishing!Stable
    <2>. QED  BY <1>7, <1>9, <2>1, <2>3, <2>4 DEF Valid, Publishing!Provenance
  <1>. QED  BY <1>1, <1>2, <1>7, <1>8, <1>9 DEF Grows

\* A job whose fields are not touched stays as it is.
LEMMA JobStays ==
    ASSUME ReleaseTypeOK, Grows, NEW j \in Jobs, JobInv(j), job'[j] = job[j]
    PROVE  JobInv(j)'
  BY OrderFacts DEF JobInv, Grows

LEMMA EntryValid ==
    ASSUME ReleaseInv, NEW p \in Publishing!Packages, NEW e \in registry[p]
    PROVE  Valid(e.version, e.commit)
  <1>1. /\ e.commit \in Nat /\ Publishing!Tagged(e.version) = e.commit
        /\ Publishing!Integrated(e.version, e.commit)
        /\ \A q \in Publishing!Packages : commits[e.commit][q] = e.version
    BY DEF ReleaseInv, ReleaseTypeOK, Publishing!OneSource
  <1>2. e.version \in DOMAIN tags
    BY <1>1, ReleaseAssumption DEF Publishing!Tagged
  <1>3. e.commit \in DOMAIN commits
    BY <1>1, <1>2 DEF Publishing!Tagged, ReleaseInv, ReleaseTypeOK
  <1>. QED  BY <1>1, <1>3 DEF Valid, Publishing!Provenance

\* When the registry only grows, with its packages after what they depend on.
LEMMA RestStays ==
    ASSUME ReleaseInv, Grows, UNCHANGED <<registry, dist, promotion>>
    PROVE  /\ DistInv' /\ PromotionInv' /\ Publishing!OneSource' /\ Publishing!DependenciesFirst'
  <1>1. DistInv'
    BY DEF ReleaseInv, DistInv, Publishing!Published
  <1>2. PromotionInv'
    BY DEF ReleaseInv, PromotionInv, Publishing!PromotedIsWhole, Publishing!Published
  <1>3. Publishing!DependenciesFirst'
    BY DEF ReleaseInv, Publishing!DependenciesFirst, Publishing!Published
  <1>4. Publishing!OneSource'
    <2>. SUFFICES ASSUME NEW p \in Publishing!Packages, NEW e \in registry[p]
                  PROVE  Valid(e.version, e.commit)' /\ (late' \/ e.bytes # 0)
      BY DEF Publishing!OneSource, Valid, Publishing!Provenance
    <2>1. Valid(e.version, e.commit)
      BY EntryValid
    <2>. QED  BY <2>1 DEF ReleaseInv, Publishing!OneSource, Grows
  <1>. QED  BY <1>1, <1>2, <1>3, <1>4

LEMMA QuietGrows ==
    ASSUME UNCHANGED <<commits, branches, tags, registry>>, late => late'
    PROVE  Grows
  BY DEF Grows, Valid, Publishing!Provenance, Publishing!Tagged, Publishing!Integrated,
     Publishing!Published

\* An action of a job that publishes nothing.
LEMMA JobTurn ==
    ASSUME ReleaseInv, NEW j \in Jobs, NEW f \in JobRecords, Publishing!Set(j, f),
           Publishing!OnlyJobs, packed' \in Nat, late' \in BOOLEAN, late => late', JobInv(j)'
    PROVE  ReleaseInv'
  <1>1. Grows
    BY QuietGrows DEF Publishing!OnlyJobs
  <1>2. ReleaseTypeOK /\ job \in [Jobs -> JobRecords]
    BY DEF ReleaseInv, ReleaseTypeOK
  <1>3. job' \in [Jobs -> JobRecords] /\ \A k \in Jobs \ {j} : job'[k] = job[k]
    BY <1>2 DEF Publishing!Set
  <1>4. ReleaseTypeOK'
    BY <1>2, <1>3 DEF ReleaseTypeOK, Publishing!OnlyJobs
  <1>5. ASSUME NEW k \in Jobs PROVE JobInv(k)'
    BY <1>1, <1>2, <1>3, JobStays DEF ReleaseInv
  <1>6. DistInv' /\ PromotionInv' /\ Publishing!OneSource' /\ Publishing!DependenciesFirst'
    BY <1>1, RestStays DEF Publishing!OnlyJobs
  <1>. QED  BY <1>4, <1>5, <1>6 DEF ReleaseInv

LEMMA JobFacts ==
    ASSUME ReleaseInv, NEW j \in Jobs
    PROVE  job[j] \in JobRecords /\ JobInv(j) /\ packed \in Nat /\ late \in BOOLEAN /\ Jobs = DOMAIN job
  BY DEF ReleaseInv, ReleaseTypeOK

LEMMA JobTurned ==
    ASSUME ReleaseInv, NEW j \in Jobs,
           NEW at \in JobStates, NEW plan \in Plans \cup {None}, NEW next \in 1..4,
           NEW f, f = Publishing!Turned(j, at, plan, next)
    PROVE  /\ f \in JobRecords /\ f.at = at /\ f.plan = plan /\ f.next = next
           /\ f.manifest = job[j].manifest /\ f.files = job[j].files
  <1>. DEFINE r1 == [job[j] EXCEPT !.at = at]
              r2 == [r1 EXCEPT !.plan = plan]
              r3 == [r2 EXCEPT !.next = next]
  <1>1. r1 \in JobRecords /\ r1.at = at /\ r1.manifest = job[j].manifest /\ r1.files = job[j].files
    BY JobFacts DEF JobRecords
  <1>. HIDE DEF r1
  <1>2. /\ r2 \in JobRecords /\ r2.at = at /\ r2.plan = plan
        /\ r2.manifest = job[j].manifest /\ r2.files = job[j].files
    BY <1>1 DEF JobRecords
  <1>. HIDE DEF r2
  <1>3. /\ r3 \in JobRecords /\ r3.at = at /\ r3.plan = plan /\ r3.next = next
        /\ r3.manifest = job[j].manifest /\ r3.files = job[j].files
    BY <1>2 DEF JobRecords
  <1>4. r3 = f
    BY DEF r1, r2, Publishing!Turned
  <1>. HIDE DEF r3
  <1>. QED  BY <1>3, <1>4

LEMMA PrepareStep ==
    ASSUME ReleaseInv, NEW j \in Jobs, NEW c \in DOMAIN commits, NEW v \in DOMAIN tags,
           NEW npmTag \in Publishing!NpmTagNames, Publishing!Prepare(j, c, v, npmTag)
    PROVE  ReleaseInv'
  <1>. DEFINE m == [version |-> v, npmTag |-> npmTag, commit |-> c, bytes |-> packed + 1]
              files == [p \in Publishing!Packages |-> packed + 1]
              f == [at |-> "prepared", commit |-> c, manifest |-> m, files |-> files,
                    plan |-> None, next |-> 1]
  <1>1. Publishing!Set(j, f) /\ Publishing!OnlyJobs /\ packed' = packed + 1 /\ late' = late
    BY DEF Publishing!Prepare
  <1>2. c \in Nat /\ commits[c] \in [Publishing!Packages -> Publishing!ReleaseVersions]
    BY LenProperties DEF ReleaseInv, ReleaseTypeOK
  <1>3. Valid(v, c) /\ v \in Publishing!ReleaseVersions
    BY <1>2 DEF Publishing!Prepare, Valid, Publishing!Matching, Publishing!Packages
  <1>4. m \in Publishing!Manifests /\ files \in Publishing!Tarballs /\ packed + 1 # 0
    BY <1>2, <1>3, JobFacts DEF Publishing!Manifests, Publishing!Tarballs
  <1>5. files # None
    BY <1>4, ReleaseAssumption
  <1>6. f \in JobRecords
    BY <1>2, <1>4 DEF JobRecords, JobStates
  <1>7. job'[j] = f
    BY <1>1, JobFacts DEF Publishing!Set
  <1>8. Valid(v, c)'
    BY <1>1, <1>3, QuietGrows DEF Publishing!OnlyJobs, Grows
  <1>9. JobInv(j)'
    BY <1>4, <1>5, <1>7, <1>8 DEF JobInv
  <1>. HIDE DEF f
  <1>. QED  BY <1>1, <1>6, <1>9, JobTurn, JobFacts

LEMMA LoadStep ==
    ASSUME ReleaseInv, NEW j \in Jobs, NEW c \in DOMAIN commits, Publishing!Load(j, c)
    PROVE  ReleaseInv'
  <1>. DEFINE plan == [p \in Publishing!Packages |-> FALSE]
              f == Publishing!Turned(j, "planning", plan, 1)
  <1>1. Publishing!Set(j, f) /\ Publishing!OnlyJobs /\ packed' = packed /\ late' = late
    BY DEF Publishing!Load
  <1>2. plan \in Plans /\ "planning" \in JobStates /\ 1 \in 1..4
    BY DEF Plans, JobStates
  <1>3. /\ f \in JobRecords /\ f.at = "planning" /\ f.plan = plan /\ f.next = 1
        /\ f.manifest = job[j].manifest /\ f.files = job[j].files
    BY <1>2, JobTurned
  <1>4. /\ job[j].manifest # None
        /\ \A p \in Publishing!Packages : job[j].files[p] = job[j].manifest.bytes
    BY DEF Publishing!Load, Publishing!Opened
  <1>. HIDE DEF f, plan
  <1>5. job'[j] = f
    BY <1>1, JobFacts DEF Publishing!Set
  <1>6. Grows
    BY <1>1, QuietGrows DEF Publishing!OnlyJobs
  <1>7. JobInv(j)'
    BY <1>2, <1>3, <1>4, <1>5, <1>6, JobFacts DEF JobInv, Grows
  <1>. QED  BY <1>1, <1>3, <1>7, JobTurn, JobFacts

LEMMA FollowingFacts ==
    ASSUME NEW n \in 1..4
    PROVE  /\ Publishing!Following(n) \in 1..4
           /\ n = 4 => Publishing!Following(n) = 1
           /\ n # 4 => Publishing!Following(n) = n + 1
  BY DEF Publishing!Following

LEMMA PlanStep ==
    ASSUME ReleaseInv, NEW j \in Jobs, Publishing!PlanNext(j)
    PROVE  ReleaseInv'
  <1>. DEFINE n == job[j].next
              p == Publishing!Order[n]
              v == job[j].manifest.version
              at == IF n = 4 THEN "publishing" ELSE "planning"
              plan == [job[j].plan EXCEPT ![p] = ~Publishing!Published(p, v)]
              f == Publishing!Turned(j, at, plan, Publishing!Following(n))
  <1>1. Publishing!Set(j, f) /\ Publishing!OnlyJobs /\ packed' = packed /\ late' = late
    BY DEF Publishing!PlanNext, Publishing!VersionOf
  <1>2. /\ job[j] \in JobRecords /\ job[j].at = "planning" /\ n \in 1..4 /\ p \in Publishing!Packages
        /\ job[j].plan \in Plans /\ JobInv(j)
    BY JobFacts, OrderFacts DEF Publishing!PlanNext, JobInv, JobRecords
  <1>3. /\ plan \in Plans /\ plan[p] = ~Publishing!Published(p, v)
        /\ \A q \in Publishing!Packages : q # p => plan[q] = job[j].plan[q]
    <2>1. Publishing!Published(p, v) \in BOOLEAN
      BY DEF Publishing!Published
    <2>. QED  BY <1>2, <2>1 DEF Plans
  <1>4. at \in JobStates /\ Publishing!Following(n) \in 1..4
    BY <1>2, FollowingFacts DEF JobStates
  <1>. HIDE DEF plan
  <1>5. /\ f \in JobRecords /\ f.at = at /\ f.plan = plan /\ f.next = Publishing!Following(n)
        /\ f.manifest = job[j].manifest /\ f.files = job[j].files
    BY <1>3, <1>4, JobTurned
  <1>. HIDE DEF f
  <1>6. job'[j] = f
    BY <1>1, JobFacts DEF Publishing!Set
  <1>7. Grows
    BY <1>1, QuietGrows DEF Publishing!OnlyJobs
  <1>8. \A i \in 1..4 : i <= n /\ ~plan[Publishing!Order[i]] => Publishing!Published(Publishing!Order[i], v)
    <2>. SUFFICES ASSUME NEW i \in 1..4, i <= n, ~plan[Publishing!Order[i]]
                  PROVE  Publishing!Published(Publishing!Order[i], v)
      OBVIOUS
    <2>1. CASE i = n
      BY <1>3, <2>1
    <2>2. CASE i < n
      <3>1. Publishing!Order[i] # p /\ Publishing!Order[i] \in Publishing!Packages
        BY <1>2, <2>2, OrderFacts
      <3>. QED  BY <1>2, <1>3, <2>2, <3>1 DEF JobInv
    <2>. QED  BY <1>2, <2>1, <2>2
  <1>9. JobInv(j)'
    <2>1. /\ job[j].manifest # None /\ Valid(v, job[j].manifest.commit)
          /\ job[j].manifest.bytes # 0 /\ job[j].files # None
          /\ late \/ \A q \in Publishing!Packages : job[j].files[q] = job[j].manifest.bytes
      BY <1>2 DEF JobInv
    <2>2. \A i \in 1..4 :
             \/ f.at = "planning" /\ i < f.next /\ ~f.plan[Publishing!Order[i]]
             \/ f.at = "publishing" /\ (i < f.next \/ ~f.plan[Publishing!Order[i]])
             => Publishing!Published(Publishing!Order[i], v)
      BY <1>2, <1>5, <1>8, FollowingFacts
    <2>0. /\ job'[j].at = f.at /\ job'[j].plan = f.plan /\ job'[j].next = f.next /\ f.plan \in Plans
          /\ job'[j].manifest = job[j].manifest /\ job'[j].files = job[j].files
      BY <1>3, <1>5, <1>6
    <2>3. \A i \in 1..4 : Publishing!Published(Publishing!Order[i], v)
                          => Publishing!Published(Publishing!Order[i], v)'
      BY <1>7, <2>0, OrderFacts DEF Grows
    <2>4. /\ Valid(v, job[j].manifest.commit)'
          /\ late' \/ \A q \in Publishing!Packages : job[j].files[q] = job[j].manifest.bytes
      BY <1>7, <2>0, <2>1 DEF Grows
    <2>5. \A i \in 1..4 :
             \/ f.at = "planning" /\ i < f.next /\ ~f.plan[Publishing!Order[i]]
             \/ f.at = "publishing" /\ (i < f.next \/ ~f.plan[Publishing!Order[i]])
             => Publishing!Published(Publishing!Order[i], v)'
      BY <2>2, <2>3
    <2>. QED  BY <2>0, <2>1, <2>4, <2>5 DEF JobInv
  <1>. QED  BY <1>1, <1>2, <1>5, <1>9, JobTurn, JobFacts

\* A job that ends, or goes on to read the registry back, keeps its manifest.
LEMMA EndStep ==
    ASSUME ReleaseInv, NEW j \in Jobs, NEW at \in {"verifying", "verified", "stopped"},
           NEW plan \in Plans \cup {None}, NEW next \in 1..4,
           Publishing!Set(j, Publishing!Turned(j, at, plan, next)), Grows
    PROVE  /\ JobInv(j)' /\ job' \in [Jobs -> JobRecords] /\ \A k \in Jobs \ {j} : job'[k] = job[k]
           /\ Publishing!Turned(j, at, plan, next) \in JobRecords
  <1>. DEFINE f == Publishing!Turned(j, at, plan, next)
  <1>1. at \in JobStates
    BY DEF JobStates
  <1>2. f \in JobRecords /\ f.at = at /\ f.manifest = job[j].manifest /\ f.files = job[j].files
    BY <1>1, JobTurned
  <1>. HIDE DEF f
  <1>3. job' = [job EXCEPT ![j] = f] /\ job \in [Jobs -> JobRecords]
    BY DEF f, Publishing!Set, ReleaseInv, ReleaseTypeOK
  <1>4. job'[j] = f
    BY <1>3
  <1>5. JobInv(j)'
    BY <1>2, <1>4, JobFacts DEF JobInv, Grows
  <1>. QED  BY <1>2, <1>3, <1>5 DEF f

LEMMA StopStep ==
    ASSUME ReleaseInv, NEW j \in Jobs, NEW at \in {"verifying", "verified", "stopped"},
           NEW plan \in Plans \cup {None}, NEW next \in 1..4,
           Publishing!Set(j, Publishing!Turned(j, at, plan, next)),
           Publishing!OnlyJobs, UNCHANGED <<packed, late>>
    PROVE  ReleaseInv'
  <1>1. Grows
    BY QuietGrows DEF Publishing!OnlyJobs
  <1>2. JobInv(j)' /\ Publishing!Turned(j, at, plan, next) \in JobRecords
    BY <1>1, EndStep
  <1>. QED  BY <1>2, JobTurn, JobFacts

LEMMA ReplaceStep ==
    ASSUME ReleaseInv, NEW j \in Jobs, NEW p \in Publishing!Packages, Publishing!Replace(j, p)
    PROVE  ReleaseInv'
  <1>. DEFINE files == [job[j].files EXCEPT ![p] = 0]
              f == [job[j] EXCEPT !.files = files]
  <1>1. /\ Publishing!Set(j, f) /\ Publishing!OnlyJobs /\ packed' = packed
        /\ late' = (late \/ job[j].at \in {"planning", "publishing"})
    BY DEF Publishing!Replace, Publishing!Set
  <1>2. job[j] \in JobRecords /\ job[j].files \in Publishing!Tarballs
    BY JobFacts DEF Publishing!Replace, JobRecords
  <1>3. files \in Publishing!Tarballs
    BY <1>2 DEF Publishing!Tarballs
  <1>4. files # None
    BY <1>3, ReleaseAssumption
  <1>. HIDE DEF files
  <1>5. /\ f \in JobRecords /\ f.at = job[j].at /\ f.plan = job[j].plan /\ f.next = job[j].next
        /\ f.manifest = job[j].manifest /\ f.files = files
    BY <1>2, <1>3 DEF JobRecords
  <1>. HIDE DEF f
  <1>6. job'[j] = f
    BY <1>1, JobFacts DEF Publishing!Set
  <1>7. Grows
    BY <1>1, QuietGrows DEF Publishing!OnlyJobs
  <1>8. JobInv(j)'
    <2>1. /\ job'[j].at = job[j].at /\ job'[j].plan = job[j].plan /\ job'[j].next = job[j].next
          /\ job'[j].manifest = job[j].manifest /\ job'[j].files # None
      BY <1>4, <1>5, <1>6
    <2>2. job[j].at \in {"planning", "publishing"} => late'
      BY <1>1
    <2>3. JobInv(j)
      BY JobFacts
    <2>. QED  BY <1>7, <2>1, <2>2, <2>3, OrderFacts DEF JobInv, Grows
  <1>. QED  BY <1>1, <1>5, <1>7, <1>8, JobTurn, JobFacts DEF Grows

\* The package whose turn it was is on the registry, and the job goes on.
LEMMA OnwardStep ==
    ASSUME ReleaseInv, NEW j \in Jobs, job[j].at = "publishing", Publishing!Set(j, Publishing!Onward(j)), Grows,
           NEW v, v = job[j].manifest.version,
           NEW n \in 1..4, n = job[j].next, Publishing!Published(Publishing!Order[n], v)'
    PROVE  /\ JobInv(j)' /\ job' \in [Jobs -> JobRecords] /\ \A k \in Jobs \ {j} : job'[k] = job[k]
           /\ Publishing!Onward(j) \in JobRecords
  <1>. DEFINE at == IF n = 4 THEN "verifying" ELSE "publishing"
              f == Publishing!Onward(j)
  <1>1. job[j] \in JobRecords /\ n \in 1..4 /\ job[j].plan \in Plans /\ JobInv(j)
    BY JobFacts DEF JobInv, JobRecords
  <1>2. at \in JobStates /\ Publishing!Following(n) \in 1..4
    BY <1>1, FollowingFacts DEF JobStates
  <1>3. /\ f \in JobRecords /\ f.at = at /\ f.plan = job[j].plan /\ f.next = Publishing!Following(n)
        /\ f.manifest = job[j].manifest /\ f.files = job[j].files
    BY <1>1, <1>2, JobTurned DEF Publishing!Onward
  <1>. HIDE DEF f
  <1>4. job' = [job EXCEPT ![j] = f] /\ job \in [Jobs -> JobRecords]
    BY DEF f, Publishing!Set, ReleaseInv, ReleaseTypeOK
  <1>5. job'[j] = f
    BY <1>4
  <1>6. ASSUME NEW i \in 1..4, i <= n \/ ~job[j].plan[Publishing!Order[i]]
        PROVE  Publishing!Published(Publishing!Order[i], v)'
    <2>1. CASE i = n
      BY <2>1
    <2>2. CASE i # n
      <3>1. Publishing!Published(Publishing!Order[i], v)
        BY <1>1, <1>6, <2>2 DEF JobInv
      <3>. QED  BY <3>1, OrderFacts DEF Grows
    <2>. QED  BY <2>1, <2>2
  <1>7. /\ job[j].manifest # None /\ Valid(v, job[j].manifest.commit)
        /\ job[j].manifest.bytes # 0 /\ job[j].files # None
        /\ late \/ \A q \in Publishing!Packages : job[j].files[q] = job[j].manifest.bytes
    BY <1>1 DEF JobInv
  <1>8. /\ job'[j].at = at /\ job'[j].plan = job[j].plan /\ job'[j].next = Publishing!Following(n)
        /\ job'[j].manifest = job[j].manifest /\ job'[j].files = job[j].files /\ job'[j].manifest.version = v
    BY <1>3, <1>5
  <1>9. /\ Valid(job[j].manifest.version, job[j].manifest.commit)'
        /\ late' \/ \A q \in Publishing!Packages : job[j].files[q] = job[j].manifest.bytes
    BY <1>7, <1>8 DEF Grows
  <1>10. JobInv(j)'
    <2>1. ASSUME NEW i \in 1..4, at = "publishing",
                 i < Publishing!Following(n) \/ ~job[j].plan[Publishing!Order[i]]
          PROVE  Publishing!Published(Publishing!Order[i], v)'
      BY <1>1, <1>6, <2>1, FollowingFacts
    <2>2. job'[j].at = "publishing" \/ job'[j].at = "verifying"
      BY <1>8
    <2>. QED  BY <1>1, <1>7, <1>8, <1>9, <2>1, <2>2 DEF JobInv
  <1>. QED  BY <1>3, <1>4, <1>10 DEF f

LEMMA SkipStep ==
    ASSUME ReleaseInv, NEW j \in Jobs, Publishing!SkipNext(j)
    PROVE  ReleaseInv'
  <1>. DEFINE v == job[j].manifest.version
  <1>1. /\ job[j].at = "publishing" /\ ~job[j].plan[Publishing!Order[job[j].next]]
        /\ Publishing!Set(j, Publishing!Onward(j)) /\ Publishing!OnlyJobs /\ packed' = packed /\ late' = late
    BY DEF Publishing!SkipNext
  <1>2. Publishing!Published(Publishing!Order[job[j].next], v) /\ job[j].next \in 1..4
    BY <1>1, JobFacts DEF JobInv, JobRecords
  <1>3. Grows
    BY <1>1, QuietGrows DEF Publishing!OnlyJobs
  <1>4. ASSUME NEW w, w = v, NEW n \in 1..4, n = job[j].next
        PROVE  Publishing!Published(Publishing!Order[n], w)'
    <2>1. Publishing!Published(Publishing!Order[n], w)
      BY <1>2, <1>4
    <2>. QED  BY <1>3, <2>1, OrderFacts DEF Grows
  <1>5. JobInv(j)' /\ Publishing!Onward(j) \in JobRecords
    BY <1>1, <1>2, <1>3, <1>4, OnwardStep
  <1>. QED  BY <1>1, <1>3, <1>5, JobTurn, JobFacts DEF Grows

LEMMA PublishStep ==
    ASSUME ReleaseInv, NEW j \in Jobs, Publishing!PublishNext(j)
    PROVE  ReleaseInv'
  <1>. USE DEF Publishing!NpmTagNames
  <1>1. PICK v, c, t, n : /\ v = job[j].manifest.version /\ c = job[j].manifest.commit
                          /\ t = job[j].manifest.npmTag /\ n = job[j].next
    OBVIOUS
  <1>2. PICK p, b : p = Publishing!Order[n] /\ b = job[j].files[p]
    OBVIOUS
  <1>3. /\ job[j].at = "publishing" /\ UNCHANGED <<tree, commits, branches, tags, promotion, packed, late>>
    BY DEF Publishing!PublishNext
  <1>4. /\ JobInv(j) /\ job[j] \in JobRecords /\ n \in 1..4 /\ p \in Publishing!Packages
        /\ job[j].manifest \in Publishing!Manifests /\ job[j].files \in Publishing!Tarballs \cup {None}
    BY <1>1, <1>2, <1>3, JobFacts, OrderFacts DEF JobInv, JobRecords
  <1>5. CASE Publishing!Published(p, v)
    <2>1. Publishing!Set(j, Publishing!Turned(j, "stopped", None, 1)) /\ UNCHANGED <<registry, dist>>
      BY <1>1, <1>2, <1>5 DEF Publishing!PublishNext, Publishing!Stopped
    <2>. QED  BY <1>3, <2>1, StopStep DEF Publishing!OnlyJobs
  <1>6. CASE ~Publishing!Published(p, v)
    <2>. DEFINE entry == [version |-> v, commit |-> c, bytes |-> b]
    <2>1. /\ Publishing!Set(j, Publishing!Onward(j))
          /\ registry' = [registry EXCEPT ![p] = registry[p] \cup {entry}]
          /\ dist' = [dist EXCEPT ![p][t] = v]
      BY <1>1, <1>2, <1>6 DEF Publishing!PublishNext
    <2>2. /\ v \in Publishing!ReleaseVersions /\ c \in Nat /\ t \in Publishing!NpmTagNames
          /\ Valid(v, c) /\ job[j].files \in Publishing!Tarballs /\ b \in Nat /\ (late \/ b # 0)
      BY <1>1, <1>2, <1>3, <1>4 DEF JobInv, Publishing!Manifests, Publishing!Tarballs
    <2>3. /\ entry \in [version : Publishing!ReleaseVersions, commit : Nat, bytes : Nat]
          /\ entry.version = v /\ entry.commit = c /\ entry.bytes = b
      BY <2>2
    <2>. HIDE DEF entry
    <2>4. ReleaseTypeOK
      BY DEF ReleaseInv
    <2>5. /\ registry' \in [Publishing!Packages -> SUBSET [version : Publishing!ReleaseVersions, commit : Nat, bytes : Nat]]
          /\ \A q \in Publishing!Packages : registry[q] \subseteq registry'[q]
          /\ \A q \in Publishing!Packages : \A e \in registry'[q] : e \in registry[q] \/ (q = p /\ e = entry)
          /\ entry \in registry'[p]
      BY <1>4, <2>1, <2>3, <2>4 DEF ReleaseTypeOK
    <2>6. /\ dist' \in [Publishing!Packages -> [Publishing!NpmTagNames -> Publishing!ReleaseVersions \cup {None}]]
          /\ \A q \in Publishing!Packages : \A u \in Publishing!NpmTagNames :
                dist'[q][u] = dist[q][u] \/ (q = p /\ dist'[q][u] = v)
      BY <1>4, <2>1, <2>2, <2>4 DEF ReleaseTypeOK
    <2>7. /\ Publishing!Published(p, v)'
          /\ \A q \in Publishing!Packages : \A w : Publishing!Published(q, w) => Publishing!Published(q, w)'
      BY <2>3, <2>5 DEF Publishing!Published
    <2>8. Grows
      BY <1>3, <2>7 DEF Grows, Valid, Publishing!Provenance, Publishing!Tagged, Publishing!Integrated
    <2>9. JobInv(j)' /\ job' \in [Jobs -> JobRecords] /\ \A k \in Jobs \ {j} : job'[k] = job[k]
      BY <1>1, <1>2, <1>3, <1>4, <2>1, <2>7, <2>8, OnwardStep
    <2>10. ASSUME NEW k \in Jobs PROVE JobInv(k)'
      BY <2>4, <2>8, <2>9, JobStays DEF ReleaseInv
    <2>11. ReleaseTypeOK'
      BY <1>3, <2>4, <2>5, <2>6, <2>9 DEF ReleaseTypeOK
    <2>12. DistInv'
      <3>. SUFFICES ASSUME NEW q \in Publishing!Packages, NEW u \in Publishing!NpmTagNames, dist'[q][u] # None
                    PROVE  Publishing!Published(q, dist[q][u])'
        BY DEF DistInv
      <3>1. PICK w : w = dist'[q][u]
        OBVIOUS
      <3>2. Publishing!Published(q, w)'
        BY <2>6, <2>7, <3>1 DEF ReleaseInv, DistInv
      <3>. QED  BY <3>1, <3>2
    <2>13. PromotionInv'
      <3>1. PICK w : w = promotion.version
        OBVIOUS
      <3>2. promotion'.version = w
        BY <1>3, <3>1
      <3>3. \A q \in Publishing!Packages : Publishing!Published(q, w) => Publishing!Published(q, w)'
        BY <2>7
      <3>. QED  BY <1>3, <3>1, <3>2, <3>3, OrderFacts DEF ReleaseInv, PromotionInv, Publishing!PromotedIsWhole
    <2>14. Publishing!OneSource'
      <3>. SUFFICES ASSUME NEW q \in Publishing!Packages, NEW e \in registry'[q]
                    PROVE  Valid(e.version, e.commit)' /\ (late' \/ e.bytes # 0)
        BY DEF Publishing!OneSource, Valid, Publishing!Provenance
      <3>1. CASE e \in registry[q]
        <4>1. Valid(e.version, e.commit)
          BY <3>1, EntryValid
        <4>. QED  BY <1>3, <2>8, <3>1, <4>1 DEF ReleaseInv, Publishing!OneSource, Grows
      <3>2. CASE e = entry
        BY <1>3, <2>2, <2>3, <2>8, <3>2 DEF Grows
      <3>. QED  BY <2>5, <3>1, <3>2
    <2>15. Publishing!DependenciesFirst'
      <3>. SUFFICES ASSUME NEW q \in Publishing!Packages, NEW e \in registry'[q], NEW d \in Publishing!DependsOn[q]
                    PROVE  Publishing!Published(d, e.version)'
        BY DEF Publishing!DependenciesFirst
      <3>1. d \in Publishing!Packages
        BY DEF Publishing!DependsOn, Publishing!Packages
      <3>2. CASE e \in registry[q]
        BY <2>7, <3>1, <3>2 DEF ReleaseInv, Publishing!DependenciesFirst
      <3>3. CASE q = p /\ e = entry
        <4>1. PICK k \in 1..4 : k < n /\ Publishing!Order[k] = d
          BY <1>2, <1>4, <3>3, OrderFacts
        <4>2. Publishing!Published(d, v)
          BY <1>1, <1>3, <1>4, <4>1 DEF JobInv
        <4>. QED  BY <2>3, <2>7, <3>1, <3>3, <4>2
      <3>. QED  BY <2>5, <3>2, <3>3
    <2>. QED  BY <2>10, <2>11, <2>12, <2>13, <2>14, <2>15 DEF ReleaseInv
  <1>. QED  BY <1>5, <1>6

\* An action of the promotion: it changes its record and the dist-tags.
LEMMA PromotionTurn ==
    ASSUME ReleaseInv, UNCHANGED <<tree, commits, branches, tags, job, packed, registry, late>>,
           dist' \in [Publishing!Packages -> [Publishing!NpmTagNames -> Publishing!ReleaseVersions \cup {None}]],
           promotion' \in PromotionRecords, DistInv', PromotionInv'
    PROVE  ReleaseInv'
  <1>1. Grows
    BY QuietGrows
  <1>2. ReleaseTypeOK'
    BY DEF ReleaseInv, ReleaseTypeOK
  <1>3. ASSUME NEW k \in Jobs PROVE JobInv(k)'
    BY <1>1, JobStays DEF ReleaseInv
  <1>4. Publishing!OneSource' /\ Publishing!DependenciesFirst'
    BY DEF ReleaseInv, Publishing!OneSource, Publishing!DependenciesFirst, Publishing!Published,
           Publishing!Tagged, Publishing!Integrated
  <1>. QED  BY <1>2, <1>3, <1>4 DEF ReleaseInv

PromotionStep ==
    \/ \E v \in DOMAIN tags : Publishing!StartPromotion(v)
    \/ Publishing!CheckStaged \/ Publishing!PromoteNext \/ Publishing!Confirm
    \/ Publishing!CleanRead \/ Publishing!CleanRemove \/ Publishing!StopPromotion

LEMMA PromotionSteps ==
    ASSUME ReleaseInv, PromotionStep
    PROVE  ReleaseInv'
  <1>. DEFINE Frame == UNCHANGED <<tree, commits, branches, tags, job, packed, registry, late>>
              Dists == [Publishing!Packages -> [Publishing!NpmTagNames -> Publishing!ReleaseVersions \cup {None}]]
  <1>1. /\ ReleaseTypeOK /\ promotion \in PromotionRecords /\ dist \in Dists
        /\ promotion.next \in 1..4 /\ Publishing!Turn \in Publishing!Packages
        /\ promotion.version \in Publishing!ReleaseVersions \cup {None}
    BY OrderFacts DEF ReleaseInv, ReleaseTypeOK, PromotionRecords, Publishing!Turn
  <1>2. /\ DistInv /\ PromotionInv
    BY DEF ReleaseInv
  <1>3. Frame
    BY DEF PromotionStep, Publishing!StartPromotion, Publishing!CheckStaged, Publishing!PromoteNext,
       Publishing!Confirm, Publishing!CleanRead, Publishing!CleanRemove, Publishing!StopPromotion,
       Publishing!Promoted
  <1>4. ASSUME UNCHANGED dist PROVE DistInv' /\ dist' \in Dists
    BY <1>1, <1>2, <1>3, <1>4 DEF DistInv, Publishing!Published
  <1>5. ASSUME promotion' = Publishing!Aborted PROVE PromotionInv' /\ promotion' \in PromotionRecords
    BY <1>5 DEF PromotionInv, Publishing!PromotedIsWhole, Publishing!Aborted, PromotionRecords, PromotionStates
  <1>6. ASSUME NEW at \in PromotionStates, promotion' = Publishing!Step(at)
        PROVE  /\ promotion' \in PromotionRecords /\ promotion'.version = promotion.version
               /\ promotion.next = 4 => promotion'.at = at /\ promotion'.next = 1
               /\ promotion.next # 4 => promotion'.at = promotion.at /\ promotion'.next = promotion.next + 1
    <2>1. Publishing!Following(promotion.next) \in 1..4
      BY <1>1, FollowingFacts
    <2>. QED  BY <1>1, <1>6, <2>1, FollowingFacts DEF Publishing!Step, PromotionRecords
  <1>7. ASSUME promotion'.at \in {"promoting", "confirming", "cleaning", "released"},
               promotion'.version = promotion.version,
               \A p \in Publishing!Packages : Publishing!Published(p, promotion.version)
        PROVE  PromotionInv'
    BY <1>3, <1>7 DEF PromotionInv, Publishing!PromotedIsWhole, Publishing!Published
  <1>8. ASSUME promotion.at \in {"promoting", "confirming", "cleaning", "released"}
        PROVE  \A p \in Publishing!Packages : Publishing!Published(p, promotion.version)
    BY <1>2, <1>8 DEF PromotionInv, Publishing!PromotedIsWhole
  <1>9. ASSUME NEW v \in DOMAIN tags, Publishing!StartPromotion(v) PROVE ReleaseInv'
    <2>1. promotion' = [at |-> "staged", version |-> v, next |-> 1, seen |-> FALSE] /\ UNCHANGED dist
      BY <1>9 DEF Publishing!StartPromotion, Publishing!Promoted
    <2>2. tags[v] \in DOMAIN commits /\ commits[tags[v]]["cli"] = v
      BY <1>1, <1>9 DEF Publishing!StartPromotion, Publishing!Tagged, ReleaseTypeOK
    <2>3. v \in Publishing!ReleaseVersions
      BY <1>1, <2>2, LenProperties DEF ReleaseTypeOK, Publishing!Packages
    <2>4. v # None
      BY <2>3, ReleaseAssumption
    <2>5. promotion' \in PromotionRecords
      BY <2>1, <2>3 DEF PromotionRecords, PromotionStates
    <2>6. PromotionInv'
      BY <2>1, <2>4 DEF PromotionInv, Publishing!PromotedIsWhole
    <2>. QED  BY <1>3, <1>4, <2>1, <2>5, <2>6, PromotionTurn
  <1>10. ASSUME Publishing!CheckStaged PROVE ReleaseInv'
    <2>1. promotion.at = "staged" /\ UNCHANGED dist
      BY <1>10 DEF Publishing!CheckStaged, Publishing!Promoted
    <2>2. CASE promotion' = Publishing!Aborted
      BY <1>3, <1>4, <1>5, <2>1, <2>2, PromotionTurn
    <2>3. CASE Publishing!Staged(Publishing!Turn, promotion.version) /\ promotion' = Publishing!Step("promoting")
      <3>1. promotion.version # None
        BY <1>2, <2>1 DEF PromotionInv
      <3>2. Publishing!Published(Publishing!Turn, promotion.version)
        BY <1>1, <1>2, <2>3, <3>1 DEF Publishing!Staged, DistInv, Publishing!NpmTagNames
      <3>3. \A i \in 1..4 : i <= promotion.next => Publishing!Published(Publishing!Order[i], promotion.version)
        BY <1>1, <1>2, <2>1, <3>2 DEF PromotionInv, Publishing!Turn
      <3>4. /\ promotion' \in PromotionRecords /\ promotion'.version = promotion.version
            /\ promotion.next = 4 => promotion'.at = "promoting" /\ promotion'.next = 1
            /\ promotion.next # 4 => promotion'.at = "staged" /\ promotion'.next = promotion.next + 1
        BY <1>6, <2>1, <2>3 DEF PromotionStates
      <3>5. PromotionInv'
        <4>1. CASE promotion.next = 4
          <5>1. \A p \in Publishing!Packages : Publishing!Published(p, promotion.version)
            BY <3>3, <4>1, OrderFacts
          <5>. QED  BY <1>7, <3>4, <4>1, <5>1
        <4>2. CASE promotion.next # 4
          <5>1. PICK w : w = promotion.version
            OBVIOUS
          <5>2. \A i \in 1..4 : i < promotion'.next => Publishing!Published(Publishing!Order[i], w)
            BY <1>1, <3>3, <3>4, <4>2, <5>1
          <5>3. \A p : Publishing!Published(p, w) <=> Publishing!Published(p, w)'
            BY <1>3 DEF Publishing!Published
          <5>. QED  BY <3>1, <3>4, <4>2, <5>1, <5>2, <5>3 DEF PromotionInv, Publishing!PromotedIsWhole
        <4>. QED  BY <4>1, <4>2
      <3>. QED  BY <1>3, <1>4, <2>1, <3>4, <3>5, PromotionTurn
    <2>. QED  BY <1>10, <2>2, <2>3 DEF Publishing!CheckStaged, Publishing!Promoted
  <1>11. ASSUME Publishing!PromoteNext PROVE ReleaseInv'
    <2>1. promotion.at = "promoting"
      BY <1>11 DEF Publishing!PromoteNext
    <2>2. CASE promotion' = Publishing!Aborted /\ UNCHANGED dist
      BY <1>3, <1>4, <1>5, <2>2, PromotionTurn
    <2>3. CASE /\ promotion' = Publishing!Step("confirming")
               /\ dist' = [dist EXCEPT ![Publishing!Turn]["latest"] = promotion.version]
      <3>1. PICK p, v : p = Publishing!Turn /\ v = promotion.version
        OBVIOUS
      <3>2. \A q \in Publishing!Packages : Publishing!Published(q, v)
        BY <1>8, <2>1, <3>1
      <3>3. /\ dist' \in Dists
            /\ \A q \in Publishing!Packages : \A t \in Publishing!NpmTagNames :
                  dist'[q][t] = dist[q][t] \/ dist'[q][t] = v
        BY <1>1, <2>3, <3>1 DEF Publishing!NpmTagNames
      <3>4. DistInv'
        BY <1>2, <1>3, <3>2, <3>3 DEF DistInv, Publishing!Published
      <3>5. /\ promotion' \in PromotionRecords /\ promotion'.version = promotion.version
            /\ promotion'.at \in {"promoting", "confirming"}
        BY <1>6, <2>1, <2>3 DEF PromotionStates
      <3>6. PromotionInv'
        BY <1>7, <1>8, <2>1, <3>5
      <3>. QED  BY <1>3, <3>3, <3>4, <3>5, <3>6, PromotionTurn
    <2>. QED  BY <1>11, <2>2, <2>3 DEF Publishing!PromoteNext, Publishing!Promoted
  <1>12. ASSUME Publishing!Confirm PROVE ReleaseInv'
    <2>1. promotion.at = "confirming" /\ UNCHANGED dist
      BY <1>12 DEF Publishing!Confirm, Publishing!Promoted
    <2>2. CASE promotion' = Publishing!Aborted
      BY <1>3, <1>4, <1>5, <2>1, <2>2, PromotionTurn
    <2>3. CASE promotion' = [promotion EXCEPT !.at = "cleaning"]
      <3>1. /\ promotion' \in PromotionRecords /\ promotion'.version = promotion.version
            /\ promotion'.at = "cleaning"
        BY <1>1, <2>3 DEF PromotionRecords, PromotionStates
      <3>. QED  BY <1>3, <1>4, <1>7, <1>8, <2>1, <3>1, PromotionTurn
    <2>. QED  BY <1>12, <2>2, <2>3 DEF Publishing!Confirm, Publishing!Promoted
  <1>13. ASSUME Publishing!CleanRead PROVE ReleaseInv'
    <2>1. promotion.at = "cleaning" /\ UNCHANGED dist
      BY <1>13 DEF Publishing!CleanRead, Publishing!Promoted
    <2>2. CASE promotion' = Publishing!Aborted
      BY <1>3, <1>4, <1>5, <2>1, <2>2, PromotionTurn
    <2>3. CASE promotion' = [promotion EXCEPT !.seen = TRUE]
      <3>1. /\ promotion' \in PromotionRecords /\ promotion'.version = promotion.version
            /\ promotion'.at = "cleaning"
        BY <1>1, <2>1, <2>3 DEF PromotionRecords
      <3>. QED  BY <1>3, <1>4, <1>7, <1>8, <2>1, <3>1, PromotionTurn
    <2>4. CASE promotion' = Publishing!Step("released")
      <3>1. /\ promotion' \in PromotionRecords /\ promotion'.version = promotion.version
            /\ promotion'.at \in {"cleaning", "released"}
        BY <1>6, <2>1, <2>4 DEF PromotionStates
      <3>. QED  BY <1>3, <1>4, <1>7, <1>8, <2>1, <3>1, PromotionTurn
    <2>. QED  BY <1>13, <2>2, <2>3, <2>4 DEF Publishing!CleanRead, Publishing!Promoted
  <1>14. ASSUME Publishing!CleanRemove PROVE ReleaseInv'
    <2>1. /\ promotion.at = "cleaning" /\ promotion' = Publishing!Step("released")
          /\ dist' = [dist EXCEPT ![Publishing!Turn]["candidate"] = None]
      BY <1>14 DEF Publishing!CleanRemove, Publishing!Promoted
    <2>2. /\ promotion' \in PromotionRecords /\ promotion'.version = promotion.version
          /\ promotion'.at \in {"cleaning", "released"}
      BY <1>6, <2>1 DEF PromotionStates
    <2>3. PICK p : p = Publishing!Turn
      OBVIOUS
    <2>4. /\ dist' \in Dists
          /\ \A q \in Publishing!Packages : \A t \in Publishing!NpmTagNames :
                dist'[q][t] = dist[q][t] \/ dist'[q][t] = None
      BY <1>1, <2>1, <2>3 DEF Publishing!NpmTagNames
    <2>5. DistInv'
      BY <1>2, <1>3, <2>4 DEF DistInv, Publishing!Published
    <2>. QED  BY <1>3, <1>7, <1>8, <2>1, <2>2, <2>4, <2>5, PromotionTurn
  <1>15. ASSUME Publishing!StopPromotion PROVE ReleaseInv'
    BY <1>3, <1>4, <1>5, <1>15, PromotionTurn DEF Publishing!StopPromotion, Publishing!Promoted
  <1>. QED  BY <1>9, <1>10, <1>11, <1>12, <1>13, <1>14, <1>15 DEF PromotionStep

LEMMA ReleaseInitLemma == Publishing!ReleaseInit => ReleaseInv
  <1>. SUFFICES ASSUME Publishing!ReleaseInit PROVE ReleaseInv
    OBVIOUS
  <1>. USE DEF Publishing!ReleaseInit
  <1>1. PICK v \in Starts : /\ tree = [p \in Publishing!Packages |-> v]
                            /\ commits = <<[p \in Publishing!Packages |-> v]>>
    OBVIOUS
  <1>2. tree \in [Publishing!Packages -> Publishing!ReleaseVersions]
    BY <1>1, ReleaseAssumption
  <1>3. commits \in Seq([Publishing!Packages -> Publishing!ReleaseVersions])
    <2>. DEFINE S == [Publishing!Packages -> Publishing!ReleaseVersions]
    <2>1. tree \in S /\ commits = <<tree>>
      BY <1>1, <1>2
    <2>. HIDE DEF S
    <2>2. commits \in Seq(S)
      BY <2>1
    <2>. QED  BY <2>2 DEF S
  <1>4. tags \in [DOMAIN tags -> DOMAIN commits]
    OBVIOUS
  <1>5. job \in [Jobs -> JobRecords]
    BY DEF Publishing!Fresh, JobRecords, JobStates
  <1>6. promotion \in PromotionRecords
    BY DEF PromotionRecords, PromotionStates
  <1>7. registry \in [Publishing!Packages -> SUBSET [version : Publishing!ReleaseVersions, commit : Nat, bytes : Nat]]
    OBVIOUS
  <1>8. dist \in [Publishing!Packages -> [Publishing!NpmTagNames -> Publishing!ReleaseVersions \cup {None}]]
    OBVIOUS
  <1>9. ReleaseTypeOK
    BY <1>2, <1>3, <1>4, <1>5, <1>6, <1>7, <1>8 DEF ReleaseTypeOK
  <1>10. ASSUME NEW j \in Jobs PROVE JobInv(j)
    BY DEF JobInv, Publishing!Fresh
  <1>11. DistInv /\ PromotionInv /\ Publishing!OneSource /\ Publishing!DependenciesFirst
    BY DEF DistInv, PromotionInv, Publishing!PromotedIsWhole, Publishing!OneSource, Publishing!DependenciesFirst
  <1>. QED  BY <1>9, <1>10, <1>11 DEF ReleaseInv

LEMMA MaintainerKeeps ==
    ASSUME ReleaseInv, MaintainerStep
    PROVE  ReleaseInv'
  <1>1. /\ Grows /\ UNCHANGED <<job, packed, registry, dist, promotion, late>> /\ ReleaseTypeOK'
    BY MaintainerGrows DEF ReleaseInv
  <1>2. ASSUME NEW k \in Jobs PROVE JobInv(k)'
    BY <1>1, JobStays DEF ReleaseInv
  <1>3. DistInv' /\ PromotionInv' /\ Publishing!OneSource' /\ Publishing!DependenciesFirst'
    BY <1>1, RestStays
  <1>. QED  BY <1>1, <1>2, <1>3 DEF ReleaseInv

LEMMA ReleaseStep == ReleaseInv /\ [Publishing!ReleaseNext]_releaseVars => ReleaseInv'
  <1>. SUFFICES ASSUME ReleaseInv, [Publishing!ReleaseNext]_releaseVars PROVE ReleaseInv'
    OBVIOUS
  <1>1. CASE UNCHANGED releaseVars
    <2>1. Grows /\ UNCHANGED <<registry, dist, promotion>>
      BY <1>1, QuietGrows DEF releaseVars
    <2>2. DistInv' /\ PromotionInv' /\ Publishing!OneSource' /\ Publishing!DependenciesFirst'
      BY <2>1, RestStays
    <2>3. ReleaseTypeOK'
      BY <1>1 DEF ReleaseInv, ReleaseTypeOK, releaseVars
    <2>4. ASSUME NEW k \in Jobs PROVE JobInv(k)'
      BY <1>1, <2>1, JobStays DEF ReleaseInv, releaseVars
    <2>. QED  BY <2>2, <2>3, <2>4 DEF ReleaseInv
  <1>2. CASE MaintainerStep
    BY <1>2, MaintainerKeeps
  <1>3. CASE PromotionStep
    BY <1>3, PromotionSteps
  <1>4. ASSUME NEW j \in Jobs, NEW c \in DOMAIN commits, NEW v \in DOMAIN tags,
               NEW npmTag \in Publishing!NpmTagNames, Publishing!Prepare(j, c, v, npmTag)
        PROVE  ReleaseInv'
    BY <1>4, PrepareStep
  <1>5. ASSUME NEW j \in Jobs, NEW p \in Publishing!Packages, Publishing!Replace(j, p) PROVE ReleaseInv'
    BY <1>5, ReplaceStep
  <1>6. ASSUME NEW j \in Jobs, NEW c \in DOMAIN commits, Publishing!Load(j, c) PROVE ReleaseInv'
    BY <1>6, LoadStep
  <1>7. ASSUME NEW j \in Jobs, Publishing!PlanNext(j) PROVE ReleaseInv'
    BY <1>7, PlanStep
  <1>8. ASSUME NEW j \in Jobs, Publishing!SkipNext(j) PROVE ReleaseInv'
    BY <1>8, SkipStep
  <1>9. ASSUME NEW j \in Jobs, Publishing!PublishNext(j) PROVE ReleaseInv'
    BY <1>9, PublishStep
  <1>10. ASSUME NEW j \in Jobs, Publishing!Verify(j) PROVE ReleaseInv'
    <2>1. /\ Publishing!OnlyJobs /\ UNCHANGED <<packed, late>>
          /\ \/ Publishing!Set(j, Publishing!Turned(j, "verified", None, 1))
             \/ Publishing!Set(j, Publishing!Turned(j, "stopped", None, 1))
      BY <1>10, Zenon DEF Publishing!Verify, Publishing!Stopped
    <2>. QED  BY <2>1, StopStep
  <1>11. ASSUME NEW j \in Jobs, Publishing!Stop(j) PROVE ReleaseInv'
    <2>1. /\ Publishing!OnlyJobs /\ UNCHANGED <<packed, late>>
          /\ Publishing!Set(j, Publishing!Turned(j, "stopped", None, 1))
      BY <1>11 DEF Publishing!Stop, Publishing!Stopped
    <2>. QED  BY <2>1, StopStep
  <1>. QED  BY <1>1, <1>2, <1>3, <1>4, <1>5, <1>6, <1>7, <1>8, <1>9, <1>10, <1>11
            DEF Publishing!ReleaseNext, MaintainerStep, PromotionStep

(* Wherever jobs and promotions stop and whoever goes on: what is on the    *)
(* registry comes from one validated commit, after what it depends on; what *)
(* is promoted is whole; and a bump writes what was planned.                *)
THEOREM ReleasedTheorem == FilesSpec => []ReleasedWhole
  <1>. DEFINE Inv == part = "releases" => ReleaseInv
  <1>1. FilesInit => Inv
    BY ReleaseInitLemma DEF FilesInit
  <1>2. Inv /\ [FilesNext]_allVars => Inv'
    <2>1. ASSUME Inv, [FilesNext]_allVars, part' = "releases"
          PROVE  part = "releases" /\ [Publishing!ReleaseNext]_releaseVars
      BY <2>1 DEF FilesNext, Rest, allVars, releaseVars
    <2>. QED  BY <2>1, ReleaseStep
  <1>3. Inv => ReleasedWhole
    BY PlanPart DEF ReleasedWhole, ReleaseInv, PromotionInv
  <1>. QED  BY <1>1, <1>2, <1>3, PTL DEF FilesSpec

-----------------------------------------------------------------------------
(* The deepened artifacts. An update writes each file once, to what a scan  *)
(* of it would ask for, and keeps what was there; while nobody else writes, *)
(* a file is what the scan saw, or is kept and what the scan asks for.      *)

Holds(f) == {None, Corrupt} \cup IF f \in Pool THEN Artifacts!Items ELSE Artifacts!Records
Stored == Artifacts!Records \cup Artifacts!Items \cup {None, Corrupt}
DocsOK(d) == d \in [Artifacts!Paths -> Stored] /\ \A f \in Artifacts!Paths : d[f] \in Holds(f)

\* What a scan asks of a content, and what the plan holds of it.
Wanted(f, content) == IF f \in Pool THEN Artifacts!Prioritized(content) ELSE Artifacts!Deepened(content)
Legible(content) == content \notin {None, Corrupt}
Asks(f, content) == f \notin Archived /\ Legible(content) /\ content # Wanted(f, content)
Targets == [text : Artifacts!Items \cup {None}, controls : {"full", "lite", None},
            topology : Artifacts!Shapes \cup {None}, graph : (SUBSET TaskNames) \cup {None}]

RunSteps == {"idle", "planned", "applying", "restoring", "failed", "done"}

RunOK ==
    /\ run \in [pc : RunSteps, left : SUBSET Artifacts!Paths, plan : {run.plan}, before : {run.before}]
    /\ run.pc # "idle" => DocsOK(run.before)
    /\ \A f \in run.left : run.plan[f] \in Targets /\ (f \in Pool => run.plan[f].text \in Artifacts!Items)

KeptOK ==
    /\ kept \in Seq(Artifacts!Paths \X Stored)
    /\ \A i \in 1..Len(kept) : kept[i][2] \in Holds(kept[i][1])
    /\ run.pc \notin {"applying", "restoring"} => kept = <<>>

\* What holds of a run whose files nobody else writes.
Undisturbed ==
    /\ run.pc \in {"planned", "applying"} =>
          /\ \A f \in run.left :
                /\ docs[f] = run.before[f] /\ f \notin Archived /\ Legible(docs[f])
                /\ Artifacts!Written(f, docs[f], run.plan[f]) = Wanted(f, docs[f])
    /\ run.pc \in {"planned", "applying", "done"} =>
          \A f \in Artifacts!Paths :
             /\ f \notin run.left => ~Asks(f, docs[f])
             /\ \/ docs[f] = run.before[f]
                \/ f \notin Archived /\ Legible(run.before[f]) /\ docs[f] = Wanted(f, run.before[f])
    /\ run.pc = "done" => run.left = {}
    /\ run.pc \in {"planned", "applying", "restoring", "failed"} =>
          /\ \A i \in 1..Len(kept) : kept[i][2] = run.before[kept[i][1]]
          /\ \A f \in Artifacts!Paths : docs[f] = run.before[f] \/ \E i \in 1..Len(kept) : kept[i][1] = f

ArtifactInv == DocsOK(docs) /\ RunOK /\ KeptOK /\ (~disturbed => Undisturbed)

LEMMA TakenFacts ==
    ASSUME NEW task \in Artifacts!Records, NEW controls \in {"full", "lite", None},
           NEW topology \in Artifacts!Shapes \cup {None}, NEW graph \in (SUBSET TaskNames) \cup {None},
           NEW d, d = Artifacts!Taking(task, controls, topology, graph)
    PROVE  /\ d \in Artifacts!Records
           /\ d.controls = controls /\ d.topology = topology /\ d.graph = graph
           /\ d.body = task.body /\ d.hint = task.hint /\ d.parent = task.parent
           /\ d.children = task.children /\ d.depends = task.depends
  <1>. DEFINE Graphs == (SUBSET TaskNames) \cup {None}
              Topologies == Artifacts!Shapes \cup {None}
              d1 == [task EXCEPT !.controls = controls]
              d2 == [d1 EXCEPT !.topology = topology]
              d3 == [d2 EXCEPT !.graph = graph]
              R == [body : Bodies, hint : {"full", None}, controls : {"full", "lite", None},
                    topology : Topologies, parent : TaskNames \cup {None}, children : SUBSET TaskNames,
                    depends : SUBSET TaskNames, graph : Graphs]
  <1>1. task \in R /\ graph \in Graphs /\ topology \in Topologies
    BY DEF Artifacts!Records
  <1>. HIDE DEF Graphs, Topologies
  <1>2. /\ d1 \in R /\ d1.controls = controls
        /\ d1.body = task.body /\ d1.hint = task.hint /\ d1.parent = task.parent
        /\ d1.children = task.children /\ d1.depends = task.depends
    BY <1>1
  <1>. HIDE DEF d1
  <1>3. /\ d2 \in R /\ d2.controls = controls /\ d2.topology = topology
        /\ d2.body = task.body /\ d2.hint = task.hint /\ d2.parent = task.parent
        /\ d2.children = task.children /\ d2.depends = task.depends
    BY <1>1, <1>2
  <1>. HIDE DEF d2
  <1>4. /\ d3 \in R /\ d3.controls = controls /\ d3.topology = topology /\ d3.graph = graph
        /\ d3.body = task.body /\ d3.hint = task.hint /\ d3.parent = task.parent
        /\ d3.children = task.children /\ d3.depends = task.depends
    BY <1>1, <1>3
  <1>5. d3 = d
    BY DEF d1, d2, Artifacts!Taking
  <1>6. R = Artifacts!Records
    BY DEF R, Graphs, Topologies, Artifacts!Records
  <1>. HIDE DEF d3, R
  <1>. QED  BY <1>4, <1>5, <1>6

LEMMA SameTask ==
    ASSUME NEW d \in Artifacts!Records, NEW e \in Artifacts!Records,
           d.controls = e.controls, d.topology = e.topology, d.graph = e.graph,
           d.body = e.body, d.hint = e.hint, d.parent = e.parent,
           d.children = e.children, d.depends = e.depends
    PROVE  d = e
  BY DEF Artifacts!Records

\* The topology of a record, and of one that has it already.
LEMMA TopologyFacts ==
    ASSUME NEW task \in Artifacts!Records, NEW t, t = Artifacts!TopologyOf(task)
    PROVE  /\ t \in Artifacts!Shapes /\ t # None
           /\ t.kind = Artifacts!KindOf(t.children \cup task.children)
           /\ task.topology = t \/ task.children \subseteq t.children
  <1>. DEFINE old == IF task.topology = None THEN [kind |-> None, parent |-> None, children |-> {}]
                     ELSE task.topology
              children == old.children \cup task.children
              new == [kind |-> Artifacts!KindOf(children), children |-> children,
                      parent |-> IF old.parent = None THEN task.parent ELSE old.parent]
  <1>1. t = IF old.kind = Artifacts!KindOf(children) THEN old ELSE new
    BY DEF Artifacts!TopologyOf
  <1>2. /\ Artifacts!KindOf(children) \in {"single", "parent-child"}
        /\ None \notin {"single", "parent-child"} \cup Artifacts!Shapes
    BY ArtifactAssumption DEF Artifacts!KindOf
  <1>3. /\ task.children \in SUBSET TaskNames /\ task.parent \in TaskNames \cup {None}
        /\ task.topology \in Artifacts!Shapes \cup {None}
    BY DEF Artifacts!Records
  <1>4. /\ old.children \in SUBSET TaskNames /\ old.parent \in TaskNames \cup {None}
        /\ task.topology # None => old \in Artifacts!Shapes /\ old = task.topology
        /\ task.topology = None => old.kind = None
    BY <1>3 DEF Artifacts!Shapes
  <1>5. CASE old.kind = Artifacts!KindOf(children)
    BY <1>1, <1>2, <1>4, <1>5
  <1>6. CASE old.kind # Artifacts!KindOf(children)
    <2>. HIDE DEF old
    <2>1. t = new /\ new \in Artifacts!Shapes /\ new.children = children
      BY <1>1, <1>2, <1>3, <1>4, <1>6 DEF Artifacts!Shapes
    <2>2. children \cup task.children = children /\ task.children \subseteq children
      OBVIOUS
    <2>. QED  BY <1>2, <2>1, <2>2
  <1>. QED  BY <1>5, <1>6

LEMMA DeepenedFacts ==
    ASSUME NEW task \in Artifacts!Records, NEW d, d = Artifacts!Deepened(task)
    PROVE  /\ d \in Artifacts!Records /\ Artifacts!Deepened(d) = d
           /\ d.body = task.body /\ d.parent = task.parent /\ d.children = task.children
           /\ d.topology # None /\ d.topology.kind = Artifacts!KindOf(d.topology.children \cup d.children)
           /\ d.controls = IF task.controls = None THEN Artifacts!RigorOf(task) ELSE task.controls
           /\ d.topology = Artifacts!TopologyOf(task) /\ d.graph = Artifacts!GraphOf(task)
  <1>. DEFINE controls(t) == IF t.controls = None THEN Artifacts!RigorOf(t) ELSE t.controls
  <1>1. ASSUME NEW t \in Artifacts!Records, NEW e, e = Artifacts!Deepened(t)
        PROVE  /\ e \in Artifacts!Records
               /\ e.controls = controls(t) /\ e.topology = Artifacts!TopologyOf(t)
               /\ e.graph = Artifacts!GraphOf(t)
               /\ e.body = t.body /\ e.hint = t.hint /\ e.parent = t.parent
               /\ e.children = t.children /\ e.depends = t.depends
    <2>1. controls(t) \in {"full", "lite", None} /\ Artifacts!GraphOf(t) \in (SUBSET TaskNames) \cup {None}
      BY DEF Artifacts!Records, Artifacts!RigorOf, Artifacts!GraphOf
    <2>2. Artifacts!TopologyOf(t) \in Artifacts!Shapes
      BY TopologyFacts
    <2>3. e = Artifacts!Taking(t, controls(t), Artifacts!TopologyOf(t), Artifacts!GraphOf(t))
      BY <1>1 DEF Artifacts!Deepened
    <2>. HIDE DEF controls
    <2>. QED  BY <2>1, <2>2, <2>3, TakenFacts
  <1>2. /\ d \in Artifacts!Records
        /\ d.controls = controls(task) /\ d.topology = Artifacts!TopologyOf(task)
        /\ d.graph = Artifacts!GraphOf(task)
        /\ d.body = task.body /\ d.hint = task.hint /\ d.parent = task.parent
        /\ d.children = task.children /\ d.depends = task.depends
    BY <1>1
  <1>3. /\ d.topology \in Artifacts!Shapes /\ d.topology # None
        /\ d.topology.kind = Artifacts!KindOf(d.topology.children \cup d.children)
    BY <1>2, TopologyFacts
  <1>4. controls(d) = d.controls
    BY <1>2 DEF Artifacts!RigorOf
  <1>5. Artifacts!GraphOf(d) = d.graph
    BY <1>2 DEF Artifacts!GraphOf
  <1>6. Artifacts!TopologyOf(d) = d.topology
    BY <1>3 DEF Artifacts!TopologyOf
  <1>7. Artifacts!Deepened(d) = d
    <2>1. PICK e : e = Artifacts!Deepened(d)
      OBVIOUS
    <2>2. /\ e \in Artifacts!Records
          /\ e.controls = controls(d) /\ e.topology = Artifacts!TopologyOf(d)
          /\ e.graph = Artifacts!GraphOf(d)
          /\ e.body = d.body /\ e.hint = d.hint /\ e.parent = d.parent
          /\ e.children = d.children /\ e.depends = d.depends
      BY <1>1, <1>2, <2>1
    <2>. QED  BY <1>2, <1>4, <1>5, <1>6, <2>1, <2>2, SameTask
  <1>. QED  BY <1>2, <1>3, <1>7

LEMMA WantedFacts ==
    ASSUME NEW f, NEW content \in Holds(f), Legible(content)
    PROVE  Wanted(f, content) \in Holds(f) /\ Wanted(f, Wanted(f, content)) = Wanted(f, content)
  <1>1. CASE f \in Pool
    <2>1. content \in Artifacts!Items
      BY <1>1 DEF Holds, Legible
    <2>2. /\ Artifacts!Prioritized(content) \in Artifacts!Items
          /\ Artifacts!Prioritized(Artifacts!Prioritized(content)) = Artifacts!Prioritized(content)
      BY <2>1 DEF Artifacts!Prioritized, Artifacts!Items
    <2>. QED  BY <1>1, <2>2 DEF Wanted, Holds
  <1>2. CASE f \notin Pool
    <2>1. content \in Artifacts!Records
      BY <1>2 DEF Holds, Legible
    <2>. QED  BY <1>2, <2>1, DeepenedFacts DEF Wanted, Holds
  <1>. QED  BY <1>1, <1>2

LEMMA WrittenHolds ==
    ASSUME NEW f, NEW content \in Holds(f), content # None, content = Corrupt => f \in Pool,
           NEW target \in Targets, f \in Pool => target.text \in Artifacts!Items
    PROVE  Artifacts!Written(f, content, target) \in Holds(f)
  <1>1. CASE f \in Pool
    BY <1>1 DEF Artifacts!Written, Holds
  <1>2. CASE f \notin Pool
    <2>. DEFINE Now(new, old) == IF new = None THEN old ELSE new
    <2>1. content \in Artifacts!Records
      BY <1>2 DEF Holds
    <2>2. /\ Now(target.controls, content.controls) \in {"full", "lite", None}
          /\ Now(target.topology, content.topology) \in Artifacts!Shapes \cup {None}
          /\ Now(target.graph, content.graph) \in (SUBSET TaskNames) \cup {None}
      BY <2>1 DEF Targets, Artifacts!Records
    <2>3. Artifacts!Written(f, content, target)
             = Artifacts!Taking(content, Now(target.controls, content.controls),
                                Now(target.topology, content.topology), Now(target.graph, content.graph))
      BY <1>2 DEF Artifacts!Written
    <2>. HIDE DEF Now
    <2>4. Artifacts!Written(f, content, target) \in Artifacts!Records
      BY <2>1, <2>2, <2>3, TakenFacts
    <2>. QED  BY <1>2, <2>4 DEF Holds
  <1>. QED  BY <1>1, <1>2

\* What is planned for a file is what turns it into what is asked of it.
LEMMA TargetFacts ==
    ASSUME DocsOK(docs), NEW f \in Artifacts!Paths, Asks(f, docs[f])
    PROVE  /\ Artifacts!Target(f) \in Targets
           /\ f \in Pool => Artifacts!Target(f).text \in Artifacts!Items
           /\ Artifacts!Written(f, docs[f], Artifacts!Target(f)) = Wanted(f, docs[f])
  <1>1. docs[f] \in Holds(f) /\ Legible(docs[f])
    BY DEF DocsOK, Asks
  <1>2. CASE f \in Pool
    <2>1. docs[f] \in Artifacts!Items
      BY <1>1, <1>2 DEF Holds, Legible
    <2>2. Artifacts!Prioritized(docs[f]) \in Artifacts!Items
      BY <2>1 DEF Artifacts!Prioritized, Artifacts!Items
    <2>3. Artifacts!Target(f) = [text |-> Artifacts!Prioritized(docs[f]), controls |-> None,
                                 topology |-> None, graph |-> None]
      BY <1>2 DEF Artifacts!Target
    <2>4. PICK p : p = Artifacts!Prioritized(docs[f])
      OBVIOUS
    <2>. QED  BY <1>2, <2>2, <2>3, <2>4 DEF Artifacts!Written, Wanted, Targets
  <1>3. CASE f \notin Pool
    <2>. DEFINE Changed(old, new) == IF old = new THEN None ELSE new
                Now(new, old) == IF new = None THEN old ELSE new
                task == docs[f]
    <2>0. \A old, new : (old # new => new # None) => Now(Changed(old, new), old) = new
      OBVIOUS
    <2>1. task \in Artifacts!Records
      BY <1>1, <1>3 DEF Holds, Legible
    <2>2. PICK d : d = Artifacts!Deepened(task)
      OBVIOUS
    <2>3. /\ d \in Artifacts!Records /\ d.topology # None
          /\ task.controls # d.controls => d.controls # None
          /\ task.graph # d.graph => d.graph # None
      BY <2>1, <2>2, DeepenedFacts DEF Artifacts!GraphOf
    <2>4. Artifacts!Target(f) = [text |-> None, controls |-> Changed(task.controls, d.controls),
                                 topology |-> Changed(task.topology, d.topology),
                                 graph |-> Changed(task.graph, d.graph)]
      BY <1>3, <2>2 DEF Artifacts!Target
    <2>5. Artifacts!Target(f) \in Targets
      <3>1. /\ Changed(task.controls, d.controls) \in {"full", "lite", None}
            /\ Changed(task.topology, d.topology) \in Artifacts!Shapes \cup {None}
            /\ Changed(task.graph, d.graph) \in (SUBSET TaskNames) \cup {None}
        BY <2>1, <2>3 DEF Artifacts!Records
      <3>. HIDE DEF Changed
      <3>. QED  BY <2>4, <3>1 DEF Targets
    <2>6. /\ Now(Changed(task.controls, d.controls), task.controls) = d.controls
          /\ Now(Changed(task.topology, d.topology), task.topology) = d.topology
          /\ Now(Changed(task.graph, d.graph), task.graph) = d.graph
      BY <2>3
    <2>7. Artifacts!Written(f, task, Artifacts!Target(f))
             = Artifacts!Taking(task, d.controls, d.topology, d.graph)
      <3>1. PICK t : t = Artifacts!Target(f)
        OBVIOUS
      <3>2. /\ t.controls = Changed(task.controls, d.controls)
            /\ t.topology = Changed(task.topology, d.topology)
            /\ t.graph = Changed(task.graph, d.graph)
        BY <2>4, <3>1
      <3>3. Artifacts!Written(f, task, t)
               = Artifacts!Taking(task, Now(t.controls, task.controls),
                                  Now(t.topology, task.topology), Now(t.graph, task.graph))
        BY <1>3 DEF Artifacts!Written
      <3>. HIDE DEF Changed, Now
      <3>. QED  BY <2>6, <3>1, <3>2, <3>3
    <2>8. Artifacts!Deepened(task) = Artifacts!Taking(task, d.controls, d.topology, d.graph)
      BY <2>1, <2>2, DeepenedFacts DEF Artifacts!Deepened
    <2>. QED  BY <1>3, <2>5, <2>7, <2>8 DEF Wanted
  <1>. QED  BY <1>2, <1>3

LEMMA HeldContents ==
    ASSUME NEW f \in Artifacts!Paths, NEW content \in Contents[f]
    PROVE  content \in Holds(f) /\ content \in Stored
  BY ArtifactAssumption DEF Holds, Stored

LEMMA ArtifactInitLemma == Artifacts!ArtifactInit => ArtifactInv
  <1>. SUFFICES ASSUME Artifacts!ArtifactInit PROVE ArtifactInv
    OBVIOUS
  <1>1. DocsOK(docs)
    <2>1. docs \in [Artifacts!Paths -> UNION {Contents[f] : f \in Artifacts!Paths}]
          /\ \A f \in Artifacts!Paths : docs[f] \in Contents[f]
      BY DEF Artifacts!ArtifactInit
    <2>. QED  BY <2>1, HeldContents DEF DocsOK
  <1>2. RunOK /\ KeptOK /\ Undisturbed
    <2>1. run = [pc |-> "idle", left |-> {}, plan |-> <<>>, before |-> None] /\ kept = <<>>
      BY DEF Artifacts!ArtifactInit, Artifacts!Idle
    <2>. QED  BY <2>1 DEF RunOK, KeptOK, Undisturbed, RunSteps
  <1>. QED  BY <1>1, <1>2 DEF ArtifactInv

\* One field of the run, and nothing else, is changed.
LEMMA RunTurned ==
    ASSUME RunOK, NEW next \in RunSteps, run.pc # "idle" \/ next = "idle", run' = [run EXCEPT !.pc = next]
    PROVE  /\ RunOK' /\ run'.pc = next
           /\ run'.left = run.left /\ run'.plan = run.plan /\ run'.before = run.before
  <1>1. /\ run'.pc = next /\ run'.left = run.left /\ run'.plan = run.plan /\ run'.before = run.before
        /\ run' \in [pc : RunSteps, left : SUBSET Artifacts!Paths, plan : {run.plan}, before : {run.before}]
    BY DEF RunOK
  <1>2. next # "idle" => DocsOK(run.before)'
    BY <1>1 DEF RunOK, DocsOK
  <1>. QED  BY <1>1, <1>2 DEF RunOK

\* What does not touch the files, where the snapshots are kept or none.
LEMMA StepTurns ==
    ASSUME ArtifactInv, NEW next \in RunSteps, run.pc # "idle" \/ next = "idle", run' = [run EXCEPT !.pc = next],
           UNCHANGED docs, kept' = kept, next \in {"applying", "restoring"} \/ kept = <<>>
    PROVE  /\ DocsOK(docs)' /\ RunOK' /\ KeptOK' /\ run'.pc = next
           /\ run'.left = run.left /\ run'.plan = run.plan /\ run'.before = run.before
  <1>1. /\ RunOK' /\ run'.pc = next
        /\ run'.left = run.left /\ run'.plan = run.plan /\ run'.before = run.before
    BY RunTurned DEF ArtifactInv
  <1>2. DocsOK(docs)'
    BY DEF ArtifactInv, DocsOK
  <1>3. KeptOK'
    BY <1>1 DEF ArtifactInv, KeptOK
  <1>. QED  BY <1>1, <1>2, <1>3

LEMMA ScanStep ==
    ASSUME ArtifactInv, Artifacts!Scan
    PROVE  ArtifactInv'
  <1>. DEFINE left == Artifacts!Lacking
              plan == Artifacts!Planned
  <1>1. /\ run.pc = "idle" /\ UNCHANGED <<docs, kept, writes>>
        /\ run' = [pc |-> "planned", left |-> left, plan |-> plan, before |-> docs]
    BY DEF Artifacts!Scan
  <1>2. DocsOK(docs) /\ DocsOK(docs)' /\ DOMAIN docs = Artifacts!Paths
    BY <1>1 DEF ArtifactInv, DocsOK
  <1>3. \A f \in Artifacts!Paths : f \in left <=> Asks(f, docs[f])
    BY <1>2 DEF Artifacts!Lacking, Artifacts!Lacks, Artifacts!Readable, Asks, Legible, Wanted
  <1>4. left \subseteq Artifacts!Paths /\ \A f \in left : plan[f] = Artifacts!Target(f)
    BY <1>2 DEF Artifacts!Lacking, Artifacts!Planned
  <1>5. kept = <<>>
    BY <1>1 DEF ArtifactInv, KeptOK
  <1>. HIDE DEF left, plan
  <1>6. ASSUME NEW f \in left
        PROVE  /\ plan[f] \in Targets /\ (f \in Pool => plan[f].text \in Artifacts!Items)
               /\ Artifacts!Written(f, docs[f], plan[f]) = Wanted(f, docs[f])
               /\ f \notin Archived /\ Legible(docs[f])
    BY <1>2, <1>3, <1>4, TargetFacts DEF Asks
  <1>7. /\ run'.pc = "planned" /\ run'.left = left /\ run'.plan = plan /\ run'.before = docs
        /\ docs' = docs
    BY <1>1
  <1>8. RunOK'
    <2>1. DocsOK(run.before)'
      BY <1>2, <1>7 DEF DocsOK
    <2>. QED  BY <1>1, <1>4, <1>6, <1>7, <2>1 DEF RunOK, RunSteps
  <1>9. KeptOK'
    BY <1>1, <1>5 DEF ArtifactInv, KeptOK
  <1>10. Undisturbed'
    <2>1. \A f \in run'.left :
             /\ docs'[f] = run'.before[f] /\ f \notin Archived /\ Legible(docs'[f])
             /\ Artifacts!Written(f, docs'[f], run'.plan[f]) = Wanted(f, docs'[f])
      BY <1>6, <1>7
    <2>2. \A f \in Artifacts!Paths :
             (f \notin run'.left => ~Asks(f, docs'[f])) /\ docs'[f] = run'.before[f]
      BY <1>3, <1>7
    <2>3. Len(kept') = 0
      BY <1>1, <1>5
    <2>. QED  BY <1>7, <2>1, <2>2, <2>3 DEF Undisturbed
  <1>. QED  BY <1>1, <1>2, <1>8, <1>9, <1>10 DEF ArtifactInv

LEMMA QuietSteps ==
    ASSUME ArtifactInv,
           \/ Artifacts!Confirm \/ Artifacts!Decline \/ Artifacts!Restored
           \/ Artifacts!Applied \/ Artifacts!Leave \/ Artifacts!Killed
    PROVE  ArtifactInv'
  <1>1. CASE Artifacts!Confirm
    <2>1. /\ run.pc = "planned" /\ run' = [run EXCEPT !.pc = "applying"]
          /\ UNCHANGED <<docs, kept, disturbed, writes>>
      BY <1>1 DEF Artifacts!Confirm
    <2>2. /\ DocsOK(docs)' /\ RunOK' /\ KeptOK' /\ run'.pc = "applying"
          /\ run'.left = run.left /\ run'.plan = run.plan /\ run'.before = run.before
      BY <2>1, StepTurns DEF RunSteps
    <2>3. ~disturbed => Undisturbed'
      BY <2>1, <2>2 DEF ArtifactInv, Undisturbed
    <2>. QED  BY <2>1, <2>2, <2>3 DEF ArtifactInv
  <1>2. CASE Artifacts!Restored
    <2>1. /\ run.pc = "restoring" /\ kept = <<>> /\ run' = [run EXCEPT !.pc = "failed"]
          /\ UNCHANGED <<docs, kept, disturbed, writes>>
      BY <1>2 DEF Artifacts!Restored
    <2>2. /\ DocsOK(docs)' /\ RunOK' /\ KeptOK' /\ run'.pc = "failed"
          /\ run'.left = run.left /\ run'.plan = run.plan /\ run'.before = run.before
      BY <2>1, StepTurns DEF RunSteps
    <2>3. ~disturbed => Undisturbed'
      BY <2>1, <2>2 DEF ArtifactInv, Undisturbed
    <2>. QED  BY <2>1, <2>2, <2>3 DEF ArtifactInv
  <1>3. CASE Artifacts!Applied
    <2>1. /\ run.pc = "applying" /\ run.left = {} /\ run' = [run EXCEPT !.pc = "done"] /\ kept' = <<>>
          /\ UNCHANGED <<docs, disturbed, writes>>
      BY <1>3 DEF Artifacts!Applied
    <2>2. /\ RunOK' /\ run'.pc = "done"
          /\ run'.left = run.left /\ run'.plan = run.plan /\ run'.before = run.before
      BY <2>1, RunTurned DEF ArtifactInv, RunSteps
    <2>3. DocsOK(docs)' /\ KeptOK'
      BY <2>1 DEF ArtifactInv, DocsOK, KeptOK
    <2>4. ~disturbed => Undisturbed'
      BY <2>1, <2>2 DEF ArtifactInv, Undisturbed
    <2>. QED  BY <2>1, <2>2, <2>3, <2>4 DEF ArtifactInv
  <1>4. CASE Artifacts!Decline \/ Artifacts!Leave \/ Artifacts!Killed
    <2>1. /\ run' = [pc |-> "idle", left |-> {}, plan |-> <<>>, before |-> None] /\ kept' = <<>>
          /\ UNCHANGED <<docs, disturbed, writes>>
      BY <1>4 DEF Artifacts!Decline, Artifacts!Leave, Artifacts!Killed, Artifacts!Idle, ArtifactInv, KeptOK
    <2>2. DocsOK(docs)' /\ KeptOK'
      BY <2>1 DEF ArtifactInv, DocsOK, KeptOK
    <2>3. RunOK' /\ Undisturbed'
      BY <2>1 DEF RunOK, RunSteps, Undisturbed
    <2>. QED  BY <2>2, <2>3 DEF ArtifactInv
  <1>. QED  BY <1>1, <1>2, <1>3, <1>4

\* A snapshot is taken.
LEMMA KeptGrows ==
    ASSUME KeptOK, NEW f \in Artifacts!Paths, NEW content \in Holds(f), kept' = Append(kept, <<f, content>>),
           run'.pc \in {"applying", "restoring"}
    PROVE  /\ KeptOK' /\ Len(kept') = Len(kept) + 1
           /\ \A i \in 1..Len(kept) : kept'[i] = kept[i]
           /\ kept'[Len(kept) + 1][1] = f /\ kept'[Len(kept) + 1][2] = content
  <1>. DEFINE S == Artifacts!Paths \X Stored
  <1>1. kept \in Seq(S) /\ \A i \in 1..Len(kept) : kept[i][2] \in Holds(kept[i][1])
    BY DEF KeptOK
  <1>2. PICK pair : pair = <<f, content>>
    OBVIOUS
  <1>3. pair \in S /\ pair[1] = f /\ pair[2] = content
    BY <1>2 DEF Holds, Stored
  <1>. HIDE DEF S
  <1>4. /\ kept' \in Seq(S) /\ Len(kept') = Len(kept) + 1 /\ Len(kept) \in Nat
        /\ \A i \in 1..Len(kept) : kept'[i] = kept[i]
        /\ kept'[Len(kept) + 1] = pair
    BY <1>1, <1>2, <1>3, AppendProperties, LenProperties
  <1>5. \A i \in 1..Len(kept') : i \in 1..Len(kept) \/ i = Len(kept) + 1
    BY <1>4
  <1>6. \A i \in 1..Len(kept') : kept'[i][2] \in Holds(kept'[i][1])
    BY <1>1, <1>3, <1>4, <1>5
  <1>7. KeptOK'
    <2>1. kept' \in Seq(Artifacts!Paths \X Stored)
      BY <1>4 DEF S
    <2>2. Holds(0)' = Holds(0) /\ Stored' = Stored
      BY DEF Holds, Stored
    <2>. QED  BY <1>6, <2>1 DEF KeptOK, Holds
  <1>. QED  BY <1>3, <1>4, <1>7

\* One file is written.
LEMMA DocsTurned ==
    ASSUME DocsOK(docs), NEW f \in Artifacts!Paths, NEW content \in Holds(f),
           docs' = [docs EXCEPT ![f] = content]
    PROVE  /\ DocsOK(docs)' /\ docs'[f] = content
           /\ \A g \in Artifacts!Paths \ {f} : docs'[g] = docs[g]
  <1>1. content \in Stored
    BY DEF Holds, Stored
  <1>2. docs \in [Artifacts!Paths -> Stored] /\ \A g \in Artifacts!Paths : docs[g] \in Holds(g)
    BY DEF DocsOK
  <1>3. /\ docs' \in [Artifacts!Paths -> Stored] /\ docs'[f] = content
        /\ \A g \in Artifacts!Paths \ {f} : docs'[g] = docs[g]
    BY <1>1, <1>2
  <1>4. \A g \in Artifacts!Paths : docs'[g] \in Holds(g)
    BY <1>2, <1>3
  <1>. QED  BY <1>3, <1>4 DEF DocsOK

LEMMA WriteStep ==
    ASSUME ArtifactInv, NEW f \in Artifacts!Paths, Artifacts!WriteNext(f)
    PROVE  ArtifactInv'
  <1>. DEFINE target == run.plan[f]
  <1>1. /\ run.pc = "applying" /\ f \in run.left /\ docs[f] # None /\ (docs[f] = Corrupt => f \in Pool)
        /\ kept' = Append(kept, <<f, docs[f]>>)
        /\ docs' = [docs EXCEPT ![f] = Artifacts!Written(f, docs[f], target)]
        /\ run' = [run EXCEPT !.left = run.left \ {f}] /\ UNCHANGED <<disturbed, writes>>
    BY DEF Artifacts!WriteNext, Artifacts!Due
  <1>2. DocsOK(docs) /\ RunOK /\ KeptOK /\ docs[f] \in Holds(f)
    BY DEF ArtifactInv, DocsOK
  <1>3. target \in Targets /\ (f \in Pool => target.text \in Artifacts!Items)
    BY <1>1, <1>2 DEF RunOK
  <1>4. PICK was : was = docs[f]
    OBVIOUS
  <1>5. PICK new : new = Artifacts!Written(f, was, target)
    OBVIOUS
  <1>6. new \in Holds(f)
    BY <1>1, <1>2, <1>3, <1>4, <1>5, WrittenHolds
  <1>7. /\ DocsOK(docs)' /\ docs'[f] = new
        /\ \A g \in Artifacts!Paths \ {f} : docs'[g] = docs[g]
    BY <1>1, <1>2, <1>4, <1>5, <1>6, DocsTurned
  <1>8. /\ run' \in [pc : RunSteps, left : SUBSET Artifacts!Paths, plan : {run.plan}, before : {run.before}]
        /\ run'.pc = "applying" /\ run'.left = run.left \ {f}
        /\ run'.plan = run.plan /\ run'.before = run.before
    BY <1>1, <1>2 DEF RunOK
  <1>9. RunOK'
    <2>1. DocsOK(run.before)'
      BY <1>1, <1>2, <1>8 DEF RunOK, DocsOK
    <2>2. \A g \in run'.left : run'.plan[g] \in Targets /\ (g \in Pool => run'.plan[g].text \in Artifacts!Items)
      BY <1>2, <1>8 DEF RunOK
    <2>. QED  BY <1>8, <2>1, <2>2 DEF RunOK
  <1>10. /\ KeptOK' /\ Len(kept') = Len(kept) + 1
         /\ \A i \in 1..Len(kept) : kept'[i] = kept[i]
         /\ kept'[Len(kept) + 1][1] = f /\ kept'[Len(kept) + 1][2] = was
         /\ Len(kept) \in Nat
    BY <1>1, <1>2, <1>4, <1>8, KeptGrows, LenProperties DEF KeptOK
  <1>11. ASSUME ~disturbed PROVE Undisturbed'
    <2>1. Undisturbed
      BY <1>11 DEF ArtifactInv
    <2>2. /\ was = run.before[f] /\ f \notin Archived /\ Legible(was) /\ new = Wanted(f, was)
      BY <1>1, <1>4, <1>5, <2>1 DEF Undisturbed
    <2>3. ~Asks(f, docs'[f])
      BY <1>2, <1>4, <1>7, <2>2, WantedFacts DEF Asks
    <2>4. \A g \in run'.left :
             /\ docs'[g] = run'.before[g] /\ g \notin Archived /\ Legible(docs'[g])
             /\ Artifacts!Written(g, docs'[g], run'.plan[g]) = Wanted(g, docs'[g])
      BY <1>1, <1>7, <1>8, <2>1 DEF Undisturbed
    <2>5. \A g \in Artifacts!Paths :
             /\ g \notin run'.left => ~Asks(g, docs'[g])
             /\ \/ docs'[g] = run'.before[g]
                \/ g \notin Archived /\ Legible(run'.before[g]) /\ docs'[g] = Wanted(g, run'.before[g])
      BY <1>1, <1>7, <1>8, <2>1, <2>2, <2>3 DEF Undisturbed
    <2>6. \A i \in 1..Len(kept') : i \in 1..Len(kept) \/ i = Len(kept) + 1
      BY <1>10
    <2>7. \A i \in 1..Len(kept') : kept'[i][2] = run'.before[kept'[i][1]]
      BY <1>1, <1>8, <1>10, <2>1, <2>2, <2>6 DEF Undisturbed
    <2>8. \A g \in Artifacts!Paths : docs'[g] = run'.before[g] \/ \E i \in 1..Len(kept') : kept'[i][1] = g
      <3>1. ASSUME NEW g \in Artifacts!Paths, docs'[g] # run'.before[g], g # f
            PROVE  \E i \in 1..Len(kept') : kept'[i][1] = g
        <4>1. PICK i \in 1..Len(kept) : kept[i][1] = g
          BY <1>1, <1>7, <1>8, <2>1, <3>1 DEF Undisturbed
        <4>2. i \in 1..Len(kept') /\ kept'[i][1] = g
          BY <1>10, <4>1
        <4>. QED  BY <4>2
      <3>2. Len(kept) + 1 \in 1..Len(kept') /\ kept'[Len(kept) + 1][1] = f
        BY <1>10
      <3>. QED  BY <3>1, <3>2
    <2>. QED  BY <1>8, <2>4, <2>5, <2>7, <2>8 DEF Undisturbed
  <1>. QED  BY <1>1, <1>7, <1>9, <1>10, <1>11 DEF ArtifactInv

LEMMA FailStep ==
    ASSUME ArtifactInv, NEW f \in Artifacts!Paths, Artifacts!WriteFails(f)
    PROVE  ArtifactInv'
  <1>1. /\ run.pc = "applying" /\ f \in run.left
        /\ run' = [run EXCEPT !.pc = "restoring"] /\ UNCHANGED <<disturbed, writes>>
    BY DEF Artifacts!WriteFails, Artifacts!Due
  <1>2. DocsOK(docs) /\ RunOK /\ KeptOK /\ docs[f] \in Holds(f) /\ Len(kept) \in Nat
    BY LenProperties DEF ArtifactInv, DocsOK, KeptOK
  <1>3. /\ RunOK' /\ run'.pc = "restoring"
        /\ run'.left = run.left /\ run'.plan = run.plan /\ run'.before = run.before
    BY <1>1, <1>2, RunTurned DEF RunSteps
  <1>4. CASE UNCHANGED <<docs, kept>>
    <2>1. DocsOK(docs)' /\ KeptOK'
      BY <1>2, <1>3, <1>4 DEF DocsOK, KeptOK
    <2>2. ~disturbed => Undisturbed'
      BY <1>1, <1>3, <1>4 DEF ArtifactInv, Undisturbed
    <2>. QED  BY <1>1, <1>3, <2>1, <2>2 DEF ArtifactInv
  <1>5. CASE kept' = Append(kept, <<f, docs[f]>>) /\ docs' \in {docs, [docs EXCEPT ![f] = Corrupt]}
    <2>1. DocsOK(docs)' /\ \A g \in Artifacts!Paths \ {f} : docs'[g] = docs[g]
      <3>1. CASE docs' = docs
        BY <1>2, <3>1 DEF DocsOK
      <3>2. CASE docs' = [docs EXCEPT ![f] = Corrupt]
        <4>1. Corrupt \in Holds(f)
          BY DEF Holds
        <4>. QED  BY <1>2, <3>2, <4>1, DocsTurned
      <3>. QED  BY <1>5, <3>1, <3>2
    <2>2. PICK was : was = docs[f]
      OBVIOUS
    <2>3. /\ KeptOK' /\ Len(kept') = Len(kept) + 1
          /\ \A i \in 1..Len(kept) : kept'[i] = kept[i]
          /\ kept'[Len(kept) + 1][1] = f /\ kept'[Len(kept) + 1][2] = was
      BY <1>2, <1>3, <1>5, <2>2, KeptGrows
    <2>4. ASSUME ~disturbed PROVE Undisturbed'
      <3>1. Undisturbed /\ was = run.before[f]
        BY <1>1, <2>2, <2>4 DEF ArtifactInv, Undisturbed
      <3>2. \A i \in 1..Len(kept') : i \in 1..Len(kept) \/ i = Len(kept) + 1
        BY <1>2, <2>3
      <3>3. \A i \in 1..Len(kept') : kept'[i][2] = run'.before[kept'[i][1]]
        BY <1>1, <1>3, <2>3, <3>1, <3>2 DEF Undisturbed
      <3>4. ASSUME NEW g \in Artifacts!Paths, docs'[g] # run'.before[g], g # f
            PROVE  \E i \in 1..Len(kept') : kept'[i][1] = g
        <4>1. PICK i \in 1..Len(kept) : kept[i][1] = g
          BY <1>1, <1>3, <2>1, <3>1, <3>4 DEF Undisturbed
        <4>2. i \in 1..Len(kept') /\ kept'[i][1] = g
          BY <1>2, <2>3, <4>1
        <4>. QED  BY <4>2
      <3>5. Len(kept) + 1 \in 1..Len(kept') /\ kept'[Len(kept) + 1][1] = f
        BY <1>2, <2>3
      <3>. QED  BY <1>3, <3>3, <3>4, <3>5 DEF Undisturbed
    <2>. QED  BY <1>1, <1>3, <2>1, <2>3, <2>4 DEF ArtifactInv
  <1>. QED  BY <1>4, <1>5 DEF Artifacts!WriteFails

LEMMA RestoreStep ==
    ASSUME ArtifactInv, Artifacts!RestoreNext
    PROVE  ArtifactInv'
  <1>. DEFINE n == Len(kept)
              S == Artifacts!Paths \X Stored
  <1>1. /\ run.pc = "restoring" /\ kept # <<>>
        /\ docs' = [docs EXCEPT ![kept[n][1]] = kept[n][2]]
        /\ kept' = SubSeq(kept, 1, n - 1)
        /\ UNCHANGED <<run, disturbed, writes>>
    BY DEF Artifacts!RestoreNext
  <1>2. DocsOK(docs) /\ RunOK /\ KeptOK
    BY DEF ArtifactInv
  <1>3. /\ kept \in Seq(S) /\ n \in Nat \ {0}
        /\ \A i \in 1..n : kept[i] \in S /\ kept[i][2] \in Holds(kept[i][1])
    BY <1>1, <1>2, LenProperties, EmptySeq, ElementOfSeq DEF KeptOK
  <1>. HIDE DEF S, n
  <1>4. PICK f, content : f = kept[n][1] /\ content = kept[n][2]
    OBVIOUS
  <1>5. f \in Artifacts!Paths /\ content \in Holds(f)
    <2>1. n \in 1..n
      BY <1>3
    <2>. QED  BY <1>3, <1>4, <2>1 DEF S
  <1>6. DocsOK(docs)' /\ docs'[f] = content /\ \A g \in Artifacts!Paths \ {f} : docs'[g] = docs[g]
    BY <1>1, <1>2, <1>4, <1>5, DocsTurned
  <1>7. /\ kept' \in Seq(S) /\ Len(kept') = n - 1
        /\ \A i \in 1..Len(kept') : kept'[i] = kept[i] /\ i \in 1..n
    <2>1. \A i \in 1..(n - 1) : kept[i] \in S /\ i \in 1..n
      BY <1>3
    <2>2. /\ SubSeq(kept, 1, n - 1) \in Seq(S)
          /\ Len(SubSeq(kept, 1, n - 1)) = IF 1 <= n - 1 THEN n - 1 - 1 + 1 ELSE 0
          /\ \A i \in 1..(n - 1 - 1 + 1) : SubSeq(kept, 1, n - 1)[i] = kept[1 + i - 1]
      BY <1>3, <2>1, SubSeqProperties
    <2>3. Len(kept') = n - 1
      BY <1>1, <1>3, <2>2
    <2>4. \A i \in 1..(n - 1) : i \in 1..(n - 1 - 1 + 1) /\ 1 + i - 1 = i
      BY <1>3
    <2>. QED  BY <1>1, <2>1, <2>2, <2>3, <2>4
  <1>8. KeptOK'
    BY <1>1, <1>3, <1>7 DEF KeptOK, S, Holds
  <1>9. RunOK'
    BY <1>1, <1>2 DEF RunOK, DocsOK
  <1>10. ASSUME ~disturbed PROVE Undisturbed'
    <2>1. Undisturbed /\ n = Len(kept)
      BY <1>10 DEF ArtifactInv, n
    <2>2. /\ \A i \in 1..n : kept[i][2] = run.before[kept[i][1]]
          /\ \A g \in Artifacts!Paths : docs[g] = run.before[g] \/ \E i \in 1..n : kept[i][1] = g
      BY <1>1, <2>1 DEF Undisturbed
    <2>3. content = run.before[f]
      <3>1. n \in 1..n
        BY <1>3
      <3>. QED  BY <1>4, <2>2, <3>1
    <2>4. ASSUME NEW g \in Artifacts!Paths, docs'[g] # run'.before[g]
          PROVE  \E i \in 1..Len(kept') : kept'[i][1] = g
      <3>1. g # f
        BY <1>1, <1>6, <2>3, <2>4
      <3>2. PICK i \in 1..n : kept[i][1] = g
        BY <1>1, <1>6, <2>2, <2>4, <3>1
      <3>3. i # n
        BY <1>4, <3>1, <3>2
      <3>4. i \in 1..Len(kept')
        BY <1>3, <1>7, <3>2, <3>3
      <3>. QED  BY <1>7, <3>2, <3>4
    <2>5. \A i \in 1..Len(kept') : kept'[i][2] = run'.before[kept'[i][1]]
      BY <1>1, <1>7, <2>2
    <2>. QED  BY <1>1, <2>4, <2>5 DEF Undisturbed
  <1>. QED  BY <1>1, <1>6, <1>8, <1>9, <1>10 DEF ArtifactInv

LEMMA OthersWrite ==
    ASSUME ArtifactInv, NEW f \in Artifacts!Paths, NEW content \in Contents[f],
           Artifacts!WriteByOther(f, content)
    PROVE  ArtifactInv'
  <1>1. /\ docs' = [docs EXCEPT ![f] = content] /\ disturbed' = TRUE /\ UNCHANGED <<run, kept>>
    BY DEF Artifacts!WriteByOther
  <1>2. content \in Holds(f)
    BY HeldContents
  <1>3. DocsOK(docs)'
    BY <1>1, <1>2, DocsTurned DEF ArtifactInv
  <1>4. RunOK' /\ KeptOK'
    BY <1>1 DEF ArtifactInv, RunOK, DocsOK, KeptOK
  <1>. QED  BY <1>1, <1>3, <1>4 DEF ArtifactInv

LEMMA ArtifactStep == ArtifactInv /\ [Artifacts!ArtifactNext]_artifactVars => ArtifactInv'
  <1>. SUFFICES ASSUME ArtifactInv, [Artifacts!ArtifactNext]_artifactVars PROVE ArtifactInv'
    OBVIOUS
  <1>1. DOMAIN docs = Artifacts!Paths
    BY DEF ArtifactInv, DocsOK
  <1>2. CASE UNCHANGED artifactVars
    BY <1>2 DEF artifactVars, ArtifactInv, DocsOK, RunOK, KeptOK, Undisturbed
  <1>3. CASE Artifacts!Scan
    BY <1>3, ScanStep
  <1>4. CASE \/ Artifacts!Confirm \/ Artifacts!Decline \/ Artifacts!Restored
             \/ Artifacts!Applied \/ Artifacts!Leave \/ Artifacts!Killed
    BY <1>4, QuietSteps
  <1>5. CASE Artifacts!RestoreNext
    BY <1>5, RestoreStep
  <1>6. CASE \E f \in DOMAIN docs : Artifacts!WriteNext(f) \/ Artifacts!WriteFails(f)
    BY <1>1, <1>6, WriteStep, FailStep
  <1>7. CASE \E f \in DOMAIN docs : \E content \in Contents[f] : Artifacts!WriteByOther(f, content)
    BY <1>1, <1>7, OthersWrite
  <1>. QED  BY <1>2, <1>3, <1>4, <1>5, <1>6, <1>7 DEF Artifacts!ArtifactNext

\* What the invariant says of an update that came to its end undisturbed.
LEMMA MigrationWhole == ArtifactInv => Artifacts!AllOrNothing /\ Artifacts!ChildrenAreNamed
  <1>. SUFFICES ASSUME ArtifactInv, ~disturbed
                PROVE  Artifacts!AllOrNothing /\ Artifacts!ChildrenAreNamed
    BY DEF Artifacts!AllOrNothing, Artifacts!ChildrenAreNamed
  <1>1. DocsOK(docs) /\ RunOK /\ KeptOK /\ Undisturbed /\ DOMAIN docs = Artifacts!Paths
    BY DEF ArtifactInv, DocsOK
  <1>2. ASSUME run.pc = "failed" PROVE docs = run.before
    <2>1. Len(kept) = 0
      BY <1>1, <1>2 DEF KeptOK
    <2>2. \A f \in Artifacts!Paths : docs[f] = run.before[f]
      BY <1>1, <1>2, <2>1 DEF Undisturbed
    <2>3. docs \in [Artifacts!Paths -> Stored] /\ run.before \in [Artifacts!Paths -> Stored]
      BY <1>1, <1>2 DEF RunOK, DocsOK
    <2>. QED  BY <2>2, <2>3
  <1>3. ASSUME run.pc = "done", NEW f \in Artifacts!Paths
        PROVE  /\ ~Asks(f, docs[f]) /\ docs[f] \in Holds(f) /\ run.before[f] \in Holds(f)
               /\ \/ docs[f] = run.before[f]
                  \/ f \notin Archived /\ Legible(run.before[f]) /\ docs[f] = Wanted(f, run.before[f])
    BY <1>1, <1>3 DEF Undisturbed, RunOK, DocsOK
  <1>4. ASSUME run.pc = "done" PROVE Artifacts!Lacking = {}
    BY <1>1, <1>3, <1>4 DEF Artifacts!Lacking, Artifacts!Lacks, Artifacts!Readable, Asks, Legible, Wanted
  <1>5. ASSUME run.pc = "done", NEW f \in Artifacts!Paths \ Pool, Artifacts!Readable(f)
        PROVE  /\ docs[f].body = run.before[f].body /\ docs[f].parent = run.before[f].parent
               /\ docs[f].children = run.before[f].children
    <2>1. CASE docs[f] = run.before[f]
      BY <2>1
    <2>2. CASE Legible(run.before[f]) /\ docs[f] = Wanted(f, run.before[f])
      <3>1. run.before[f] \in Artifacts!Records
        BY <1>3, <1>5, <2>2 DEF Holds, Legible
      <3>2. docs[f] = Artifacts!Deepened(run.before[f])
        BY <1>5, <2>2 DEF Wanted
      <3>. QED  BY <3>1, <3>2, DeepenedFacts
    <2>. QED  BY <1>3, <1>5, <2>1, <2>2
  <1>6. ASSUME run.pc = "done", NEW f \in Archived PROVE docs[f] = run.before[f]
    BY <1>3, <1>6, ArtifactAssumption
  <1>7. ASSUME run.pc = "done", NEW f \in Artifacts!Paths \ (Pool \cup Archived)
        PROVE  "children-inferred-parent" \notin Artifacts!Findings(f)
    <2>. DEFINE task == docs[f]
    <2>1. CASE task \in {None, Corrupt}
      BY <2>1 DEF Artifacts!Findings
    <2>2. CASE task \notin {None, Corrupt}
      <3>1. task \in Artifacts!Records /\ task = Artifacts!Deepened(task)
        BY <1>3, <1>7, <2>2 DEF Holds, Asks, Legible, Wanted
      <3>2. task.topology # None /\ task.topology.kind = Artifacts!KindOf(task.topology.children \cup task.children)
        BY <3>1, DeepenedFacts
      <3>3. task.children # {} => task.topology.kind = "parent-child"
        BY <3>2 DEF Artifacts!KindOf
      <3>. QED  BY <2>2, <3>2, <3>3 DEF Artifacts!Findings
    <2>. QED  BY <2>1, <2>2
  <1>8. Artifacts!AllOrNothing
    BY <1>1, <1>2, <1>4, <1>5, <1>6 DEF Artifacts!AllOrNothing
  <1>9. Artifacts!ChildrenAreNamed
    BY <1>1, <1>7 DEF Artifacts!ChildrenAreNamed
  <1>. QED  BY <1>8, <1>9

(* Whenever an update of the artifacts fails or is killed: one whose files  *)
(* nobody else wrote leaves all of them as they were, or has given every    *)
(* record what it lacked and taken nothing from it.                         *)
THEOREM MigratedTheorem == FilesSpec => []MigratedWhole
  <1>. DEFINE Inv == part = "artifacts" => ArtifactInv
  <1>1. FilesInit => Inv
    BY ArtifactInitLemma DEF FilesInit
  <1>2. Inv /\ [FilesNext]_allVars => Inv'
    <2>1. ASSUME Inv, [FilesNext]_allVars, part' = "artifacts"
          PROVE  part = "artifacts" /\ [Artifacts!ArtifactNext]_artifactVars
      BY <2>1 DEF FilesNext, Rest, allVars, artifactVars
    <2>. QED  BY <2>1, ArtifactStep
  <1>3. Inv => MigratedWhole
    BY MigrationWhole DEF MigratedWhole
  <1>. QED  BY <1>1, <1>2, <1>3, PTL DEF FilesSpec

=============================================================================
