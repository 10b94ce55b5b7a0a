-------------------------- MODULE SpawnGuard_proofs --------------------------
(* Theorems about the spawn guard, for any workers, clients and budget.      *)
EXTENDS SpawnGuard, TLAPS

-----------------------------------------------------------------------------
(* The inductive invariant                                                 *)

\* A command past its first lock has a worker.
TargetSet == \A c \in Clients : at[c] # "idle" => target[c] \in Workers

\* A supervisor that was launched has a worker.
SupsNamed == \A s \in Sups : supAt[s] # "unborn" => supOf[s] \in Workers

\* A spawner has forked the supervisor whose pid it is about to write, and a killer
\* waits for one.
VictimSet ==
    \A c \in Clients :
        /\ at[c] = "pid" => supOf[victim[c]] = target[c]
        /\ at[c] \in {"pid", "wait"} => victim[c] \in Sups /\ supAt[victim[c]] # "unborn"

Books == TargetSet /\ SupsNamed /\ VictimSet

\* At most one client is inside the spawnlock of a worker.
OneInside ==
    \A c, d \in Clients : Inside(c) /\ Inside(d) /\ target[c] = target[d] => c = d

\* A serving supervisor is named by the pid file, or by the spawner about to write it.
Named ==
    \A s \in Sups : Serving(s) =>
        \/ files[supOf[s]].pid = s
        \/ supAt[s] = "forked" /\ \E c \in Clients : at[c] = "pid" /\ victim[c] = s

\* Past its check, a client that holds the spawnlock has the worker to itself.
Quiet == {"prepare", "fork", "wait", "rm-pid", "rm-config", "rm-spawnlock"}

NoneServes ==
    \A c \in Clients, s \in Sups : at[c] \in Quiet /\ supOf[s] = target[c] => ~Serving(s)

\* And what it has forked is alone.
OnlyVictimServes ==
    \A c \in Clients, s \in Sups :
        at[c] = "pid" /\ supOf[s] = target[c] /\ Serving(s) => s = victim[c]

Order == OneInside /\ Named /\ NoneServes /\ OnlyVictimServes

IInv == TypeOK /\ Books /\ (undisturbed => Order)

-----------------------------------------------------------------------------
(* Operators                                                               *)

\* Whatever the event, the registry entry stays an entry.
LEMMA ApplyType ==
  ASSUME NEW w \in WorkerStates, NEW ev
  PROVE  Apply(w, ev) \in WorkerStates
<1>1. LifecycleAfter(w, ev) \in Lifecycles
  BY DEF LifecycleAfter, Lifecycles, WorkerStates
<1>2. QED
  BY <1>1 DEF Apply, WorkerStates, Activities

\* Landing an event leaves a registry.
LEMMA LandType ==
  ASSUME TypeOK, NEW w \in Workers, NEW ev, Land(w, ev)
  PROVE  registry' \in [Workers -> WorkerStates]
<1>1. Apply(registry[w], ev) \in WorkerStates
  BY ApplyType DEF TypeOK
<1>2. QED
  BY <1>1 DEF TypeOK, Land

\* So does whatever a supervisor leaves behind.
LEMMA LegaciesType ==
  ASSUME NEW w \in WorkerStates,
         NEW l \in {"recording", "up", "leaving", "stopping"}
  PROVE  Legacies(w, l) \subseteq WorkerStates
<1>1. \A ev : Apply(w, ev) \in WorkerStates
  BY ApplyType
<1>2. \A ev, ev2 : Apply(Apply(w, ev), ev2) \in WorkerStates
  BY <1>1, ApplyType
<1>3. QED
  BY <1>1, <1>2 DEF Legacies

\* Writing the pid file.
LEMMA WritePidFact ==
  ASSUME files \in [Workers -> RuntimeFiles], NEW w \in Workers, NEW x \in Sups \cup {None},
         Write(w, "pid", x)
  PROVE  /\ files' \in [Workers -> RuntimeFiles]
         /\ files'[w].pid = x
         /\ \A v \in Workers \ {w} : files'[v].pid = files[v].pid
BY DEF Write, RuntimeFiles

\* Removing one of the others.
LEMMA RemoveFact ==
  ASSUME files \in [Workers -> RuntimeFiles], NEW w \in Workers,
         NEW f \in {"config", "spawnlock", "reservation"}, Write(w, f, None)
  PROVE  /\ files' \in [Workers -> RuntimeFiles]
         /\ \A v \in Workers : files'[v].pid = files[v].pid
<1>1. CASE f = "config"
  BY <1>1 DEF Write, RuntimeFiles
<1>2. CASE f = "spawnlock"
  BY <1>2 DEF Write, RuntimeFiles
<1>3. CASE f = "reservation"
  BY <1>3 DEF Write, RuntimeFiles
<1>4. QED
  BY <1>1, <1>2, <1>3

\* Preparing a launch, and taking it back.
LEMMA LaunchFact ==
  ASSUME files \in [Workers -> RuntimeFiles], NEW w \in Workers, NEW x \in {"present", None},
         files' = [files EXCEPT ![w] = [@ EXCEPT !.config = x, !.reservation = x]]
  PROVE  /\ files' \in [Workers -> RuntimeFiles]
         /\ \A v \in Workers : files'[v].pid = files[v].pid
BY DEF RuntimeFiles

\* Taking the spawnlock leaves the pid files alone.
LEMMA LockFact ==
  ASSUME files \in [Workers -> RuntimeFiles], NEW w \in Workers, NEW c \in Clients,
         Write(w, "spawnlock", c)
  PROVE  /\ files' \in [Workers -> RuntimeFiles]
         /\ \A v \in Workers : files'[v].pid = files[v].pid
BY DEF Write, RuntimeFiles

\* A client's locks are removed.
LEMMA UnlockFact ==
  ASSUME files \in [Workers -> RuntimeFiles], NEW c \in Clients,
         files' = [w \in Workers |->
                     IF files[w].spawnlock = c THEN [files[w] EXCEPT !.spawnlock = None]
                     ELSE files[w]]
  PROVE  /\ files' \in [Workers -> RuntimeFiles]
         /\ \A v \in Workers : files'[v].pid = files[v].pid
BY DEF RuntimeFiles

\* A SIGTERM never starts anything.
LEMMA SigtermFact ==
  ASSUME NEW l \in SupLocations
  PROVE  /\ AfterSigterm(l) \in SupLocations
         /\ AfterSigterm(l) \notin {"forked", "recording", "up"}
         /\ AfterSigterm(l) = "unborn" <=> l = "unborn"
BY DEF AfterSigterm, SupLocations

-----------------------------------------------------------------------------
(* Types                                                                   *)

\* Nothing runs at the start.
LEMMA InitIInv == Init => IInv
<1> SUFFICES ASSUME Init PROVE IInv
  OBVIOUS
<1> USE DEF Init
<1>1. TypeOK
  BY DEF TypeOK, RuntimeFiles, SupLocations, Unknown, WorkerStates, Lifecycles, Activities
<1>2. Books
  BY DEF Books, TargetSet, SupsNamed, VictimSet
<1>3. Order
  BY DEF Order, OneInside, Named, NoneServes, OnlyVictimServes, Inside, Launching,
     KillLocations, Serving, Quiet
<1>4. QED
  BY <1>1, <1>2, <1>3 DEF IInv

\* What spawn does to the types.
LEMMA SpawnType ==
  ASSUME TypeOK, Books, NEW c \in Clients, Spawn(c)
  PROVE  TypeOK'
<1> USE DEF TypeOK, Goto, SupGoes, outside, locals, supVars, SpawnLocations, KillLocations,
            Launching
<1>1. CASE \E w \in Workers : TakeGuard(c, w)
  BY <1>1 DEF TakeGuard
<1>2. CASE Scan(c)
  <2>1. \A w \in Workers : Eligible(w) => files[w].pid \in Sups
    BY DEF Eligible, Alive, RuntimeFiles
  <2>2. expired' \in [Clients -> SUBSET Sups]
    BY <1>2, <2>1 DEF Scan
  <2>3. QED
    BY <1>2, <2>2 DEF Scan
<1>3. CASE Cull(c)
  <2>1. \A s \in Sups : Alive(s) => supOf[s] \in Workers
    BY DEF Books, SupsNamed, Alive
  <2>2. supAt' \in [Sups -> SupLocations]
    BY <1>3, SigtermFact DEF Cull
  <2>3. culled' \in [Clients -> SUBSET Workers]
    BY <1>3, <2>1 DEF Cull
  <2>4. /\ expired' \in [Clients -> SUBSET Sups]
        /\ at' \in [Clients -> {"idle", "return"} \cup SpawnLocations \cup KillLocations]
    BY <1>3 DEF Cull
  <2>5. QED
    BY <1>3, <2>2, <2>3, <2>4 DEF Cull
<1>4. CASE Count(c)
  BY <1>4 DEF Count
<1>5. CASE TakeWorkerLock(c)
  <2>1. target[c] \in Workers
    BY <1>5 DEF Books, TargetSet, TakeWorkerLock
  <2>2. files' \in [Workers -> RuntimeFiles]
    BY <1>5, <2>1, LockFact DEF TakeWorkerLock, TakeSpawnlock
  <2>3. QED
    BY <1>5, <2>1, <2>2 DEF TakeWorkerLock, TakeSpawnlock
<1>6. CASE GiveUp(c)
  BY <1>6 DEF GiveUp
<1>7. CASE Recheck(c)
  BY <1>7 DEF Recheck
<1>8. CASE Prepare(c)
  BY <1>8, LaunchFact DEF Prepare, Books, TargetSet
<1>9. CASE Fork(c)
  <2>1. target[c] \in Workers
    BY <1>9 DEF Books, TargetSet, Fork
  <2>2. QED
    BY <1>9, <2>1 DEF Fork, SupLocations
<1>10. CASE ForkFails(c)
  BY <1>10, LaunchFact DEF ForkFails, Books, TargetSet
<1>11. CASE WritePid(c)
  <2>1. files' \in [Workers -> RuntimeFiles]
    BY <1>11, WritePidFact DEF WritePid, Books, TargetSet
  <2>2. QED
    BY <1>11, <2>1 DEF WritePid
<1>12. QED
  BY <1>1, <1>2, <1>3, <1>4, <1>5, <1>6, <1>7, <1>8, <1>9, <1>10, <1>11 DEF Spawn

\* What kill does to the types.
LEMMA KillType ==
  ASSUME TypeOK, Books, NEW c \in Clients, Kill(c)
  PROVE  TypeOK'
<1> USE DEF TypeOK, Goto, SupGoes, outside, locals, supVars, SpawnLocations, KillLocations,
            Launching
<1>1. CASE \E w \in Workers : TakeTarget(c, w)
  <2>1. PICK w \in Workers : TakeTarget(c, w)
    BY <1>1
  <2>2. files' \in [Workers -> RuntimeFiles]
    BY <2>1, LockFact DEF TakeTarget, TakeSpawnlock
  <2>3. QED
    BY <2>1, <2>2 DEF TakeTarget, TakeSpawnlock
<1>2. CASE NothingToKill(c)
  <2>1. target[c] \in Workers
    BY <1>2 DEF Books, TargetSet, NothingToKill
  <2>2. registry' \in [Workers -> WorkerStates]
    BY <1>2, <2>1, LandType DEF NothingToKill
  <2>3. QED
    BY <1>2, <2>2 DEF NothingToKill
<1>3. CASE Terminate(c)
  <2>1. target[c] \in Workers
    BY <1>3 DEF Books, TargetSet, Terminate
  <2>2. files[target[c]].pid \in Sups
    BY <1>3, <2>1 DEF Terminate, Alive, RuntimeFiles
  <2>3. QED
    BY <1>3, <2>2, SigtermFact DEF Terminate
<1>4. ASSUME NEW s \in Sups, NEW l \in {"wait", "rm-pid"}, at[c] # "idle", Execute(c, s, l)
      PROVE  TypeOK'
  <2>1. target[c] \in Workers
    BY <1>4 DEF Books, TargetSet
  <2>2. registry' \in [Workers -> WorkerStates]
    BY <1>4, <2>1, LandType DEF Execute
  <2>3. QED
    BY <1>4, <2>2 DEF Execute, SupLocations
<1>5. CASE ForceKill(c)
  <2>1. files[target[c]].pid \in Sups
    BY <1>5 DEF ForceKill, Alive, RuntimeFiles, Books, TargetSet
  <2>2. QED
    BY <1>4, <1>5, <2>1 DEF ForceKill
<1>6. CASE WaitEnds(c)
  BY <1>6 DEF WaitEnds
<1>7. CASE GraceExpires(c)
  <2>1. victim[c] \in Sups
    BY <1>7 DEF GraceExpires, Gone, Alive
  <2>2. QED
    BY <1>4, <1>7, <2>1 DEF GraceExpires
<1>8. CASE Tidy(c)
  <2>1. target[c] \in Workers
    BY <1>8 DEF Books, TargetSet, Tidy
  <2>2. files' \in [Workers -> RuntimeFiles]
    BY <1>8, <2>1, WritePidFact, RemoveFact DEF Tidy, FileOf
  <2>3. NextRm(at[c]) \in {"rm-config", "rm-spawnlock", "return"}
    BY <1>8 DEF Tidy, NextRm
  <2>4. QED
    BY <1>8, <2>2, <2>3 DEF Tidy
<1>9. QED
  BY <1>1, <1>2, <1>3, <1>5, <1>6, <1>7, <1>8 DEF Kill

\* What a supervisor does to the types.
LEMMA SuperviseType ==
  ASSUME TypeOK, Books, NEW s \in Sups, Supervise(s)
  PROVE  TypeOK'
<1> USE DEF TypeOK, SupGoes, locals, clientVars
<1>1. CASE Boot(s)
  <2>1. supOf[s] \in Workers
    BY <1>1 DEF Boot, Books, SupsNamed
  <2>2. files' \in [Workers -> RuntimeFiles]
    BY <1>1, <2>1, WritePidFact DEF Boot
  <2>3. QED
    BY <1>1, <2>2 DEF Boot, SupLocations
<1>2. CASE SpawnedLands(s)
  <2>1. registry' \in [Workers -> WorkerStates]
    BY <1>2, LandType DEF SpawnedLands, Books, SupsNamed
  <2>2. QED
    BY <1>2, <2>1 DEF SpawnedLands, SupLocations
<1>3. CASE \E kind \in {"turn_started", "turn_finished"} : Turn(s, kind)
  <2>1. registry' \in [Workers -> WorkerStates]
    BY <1>3, LandType DEF Turn, Books, SupsNamed
  <2>2. QED
    BY <1>3, <2>1 DEF Turn, supVars
<1>4. CASE Stops(s)
  BY <1>4, SigtermFact DEF Stops
<1>5. CASE WorkerExits(s)
  <2>1. supOf[s] \in Workers
    BY <1>5 DEF WorkerExits, Books, SupsNamed
  <2>2. registry' \in [Workers -> WorkerStates]
    BY <1>5, <2>1, LegaciesType DEF WorkerExits
  <2>3. QED
    BY <1>5, <2>2 DEF WorkerExits, SupLocations
<1>6. CASE Leave(s)
  <2>1. supOf[s] \in Workers
    BY <1>6 DEF Leave, Books, SupsNamed
  <2>2. files' \in [Workers -> RuntimeFiles]
    BY <1>6, <2>1, WritePidFact, RemoveFact DEF Leave, FileOf
  <2>3. NextExit(supAt[s]) \in SupLocations
    BY <1>6 DEF Leave, NextExit, SupLocations
  <2>4. QED
    BY <1>6, <2>2, <2>3 DEF Leave
<1>7. QED
  BY <1>1, <1>2, <1>3, <1>4, <1>5, <1>6 DEF Supervise

\* Every step keeps the types.
LEMMA TypeStep == TypeOK /\ Books /\ [Next]_vars => TypeOK'
<1> SUFFICES ASSUME TypeOK, Books, [Next]_vars PROVE TypeOK'
  OBVIOUS
<1>1. CASE \E c \in Clients : Spawn(c)
  BY <1>1, SpawnType
<1>2. CASE \E c \in Clients : Kill(c)
  BY <1>2, KillType
<1>3. CASE \E c \in Clients : Return(c)
  BY <1>3, UnlockFact DEF Return, TypeOK, Goto, outside, supVars
<1>4. CASE \E c \in Clients : ClientCrashes(c)
  BY <1>4, UnlockFact DEF ClientCrashes, TypeOK, Goto, supVars
<1>5. CASE \E s \in Sups : Supervise(s)
  BY <1>5, SuperviseType
<1>6. CASE \E s \in Sups : SupCrashes(s)
  BY <1>6 DEF SupCrashes, TypeOK, SupGoes, clientVars, locals, SupLocations
<1>7. CASE UNCHANGED vars
  BY <1>7 DEF vars, TypeOK, clientVars, locals, supVars
<1>8. QED
  BY <1>1, <1>2, <1>3, <1>4, <1>5, <1>6, <1>7 DEF Next

\* A supervisor keeps its worker once it is born, and is never unborn again.
Ages ==
    \A s \in Sups : supAt[s] # "unborn" => supAt'[s] # "unborn" /\ supOf'[s] = supOf[s]

\* Every step lets supervisors age.
LEMMA AgesStep == TypeOK /\ Books /\ [Next]_vars => Ages
<1> SUFFICES ASSUME TypeOK, Books, [Next]_vars PROVE Ages
  OBVIOUS
<1> USE DEF TypeOK, Ages, SupGoes, outside, locals, supVars, clientVars
<1>1. ASSUME NEW c \in Clients, Spawn(c) PROVE Ages
  <2>1. CASE Cull(c)
    BY <2>1, SigtermFact DEF Cull
  <2>2. CASE Fork(c)
    BY <2>2 DEF Fork
  <2>3. CASE TakeWorkerLock(c)
    BY <2>3 DEF TakeWorkerLock, TakeSpawnlock
  <2>4. QED
    BY <1>1, <2>1, <2>2, <2>3 DEF Spawn, TakeGuard, Scan, Count, GiveUp, Recheck, Prepare,
       ForkFails, WritePid
<1>2. ASSUME NEW c \in Clients, Kill(c) PROVE Ages
  <2>1. CASE Terminate(c)
    BY <2>1, SigtermFact DEF Terminate
  <2>2. CASE ForceKill(c) \/ GraceExpires(c)
    BY <2>2 DEF ForceKill, GraceExpires, Execute
  <2>3. CASE \E w \in Workers : TakeTarget(c, w)
    BY <2>3 DEF TakeTarget, TakeSpawnlock
  <2>4. QED
    BY <1>2, <2>1, <2>2, <2>3 DEF Kill, NothingToKill, WaitEnds, Tidy
<1>3. ASSUME NEW s \in Sups, Supervise(s) PROVE Ages
  <2>1. CASE Stops(s)
    BY <2>1, SigtermFact DEF Stops
  <2>2. CASE Leave(s)
    BY <2>2 DEF Leave, NextExit
  <2>3. QED
    BY <1>3, <2>1, <2>2 DEF Supervise, Boot, SpawnedLands, Turn, WorkerExits
<1>4. CASE \E c \in Clients : Return(c) \/ ClientCrashes(c)
  BY <1>4 DEF Return, ClientCrashes
<1>5. CASE \E s \in Sups : SupCrashes(s)
  BY <1>5 DEF SupCrashes
<1>6. CASE UNCHANGED vars
  BY <1>6 DEF vars
<1>7. QED
  BY <1>1, <1>2, <1>3, <1>4, <1>5, <1>6 DEF Next

\* Every step keeps workers, supervisors and victims in their places.
LEMMA BooksStep == TypeOK /\ Books /\ [Next]_vars => Books'
<1> SUFFICES ASSUME TypeOK, Books, [Next]_vars PROVE Books'
  OBVIOUS
<1> USE AgesStep DEF TypeOK, Goto, outside, locals, supVars, clientVars
<1>1. ASSUME NEW c \in Clients, Spawn(c) PROVE Books'
  <2>1. CASE \E w \in Workers : TakeGuard(c, w)
    BY <2>1 DEF TakeGuard, Books, TargetSet, SupsNamed, VictimSet
  <2>2. CASE Cull(c)
    <3>1. \A s \in Sups : supAt'[s] # "unborn" => supAt[s] # "unborn"
      BY <2>2, SigtermFact DEF Cull, SupGoes
    <3>2. QED
      BY <2>2, <3>1 DEF Cull, Books, TargetSet, SupsNamed, VictimSet, Ages
  <2>3. CASE TakeWorkerLock(c)
    BY <2>3 DEF TakeWorkerLock, TakeSpawnlock, Books, TargetSet, SupsNamed, VictimSet
  <2>4. CASE Fork(c)
    <3>1. target[c] \in Workers
      BY <2>4 DEF Fork, Books, TargetSet
    <3>2. QED
      BY <2>4, <3>1 DEF Fork, SupGoes, Books, TargetSet, SupsNamed, VictimSet, Ages
  <2>5. CASE Scan(c) \/ Count(c) \/ GiveUp(c) \/ Recheck(c) \/ Prepare(c) \/ ForkFails(c)
             \/ WritePid(c)
    BY <2>5 DEF Scan, Count, GiveUp, Recheck, Prepare, ForkFails, WritePid, Books, TargetSet,
       SupsNamed, VictimSet
  <2>6. QED
    BY <1>1, <2>1, <2>2, <2>3, <2>4, <2>5 DEF Spawn
<1>2. ASSUME NEW c \in Clients, Kill(c) PROVE Books'
  <2>1. CASE \E w \in Workers : TakeTarget(c, w)
    BY <2>1 DEF TakeTarget, TakeSpawnlock, Books, TargetSet, SupsNamed, VictimSet
  <2>2. CASE Terminate(c)
    <3>1. /\ files[target[c]].pid \in Sups
          /\ supAt[files[target[c]].pid] # "unborn"
      BY <2>2 DEF Terminate, Alive, RuntimeFiles, Books, TargetSet
    <3>2. \A s \in Sups : supAt'[s] # "unborn" => supAt[s] # "unborn"
      BY <2>2, <3>1, SigtermFact DEF Terminate, SupGoes
    <3>3. QED
      BY <2>2, <3>1, <3>2 DEF Terminate, Books, TargetSet, SupsNamed, VictimSet, Ages
  <2>3. ASSUME NEW s \in Sups, NEW l \in {"wait", "rm-pid"}, supAt[s] # "unborn",
               at[c] \notin {"idle", "pid"}, Execute(c, s, l)
        PROVE  Books'
    BY <2>3 DEF Execute, SupGoes, Books, TargetSet, SupsNamed, VictimSet, Ages
  <2>4. CASE ForceKill(c)
    <3>1. /\ files[target[c]].pid \in Sups
          /\ supAt[files[target[c]].pid] # "unborn"
      BY <2>4 DEF ForceKill, Alive, RuntimeFiles, Books, TargetSet
    <3>2. QED
      BY <2>3, <2>4, <3>1 DEF ForceKill
  <2>5. CASE GraceExpires(c)
    BY <2>3, <2>5 DEF GraceExpires, Books, VictimSet
  <2>6. CASE Tidy(c)
    BY <2>6 DEF Tidy, NextRm, Books, TargetSet, SupsNamed, VictimSet
  <2>7. CASE NothingToKill(c) \/ WaitEnds(c)
    BY <2>7 DEF NothingToKill, WaitEnds, Books, TargetSet, SupsNamed, VictimSet
  <2>8. QED
    BY <1>2, <2>1, <2>2, <2>4, <2>5, <2>6, <2>7 DEF Kill
<1>3. ASSUME NEW s \in Sups, Supervise(s) PROVE Books'
  <2>1. supAt[s] # "unborn"
    BY <1>3 DEF Supervise, Boot, SpawnedLands, Turn, Stops, WorkerExits, Leave
  <2>2. /\ UNCHANGED <<at, target, victim, supOf>>
        /\ \A r \in Sups \ {s} : supAt'[r] = supAt[r]
    BY <1>3 DEF Supervise, Boot, SpawnedLands, Turn, Stops, WorkerExits, Leave, SupGoes
  <2>3. QED
    BY <2>1, <2>2 DEF Books, TargetSet, SupsNamed, VictimSet, Ages
<1>4. CASE \E c \in Clients : Return(c)
  BY <1>4 DEF Return, Books, TargetSet, SupsNamed, VictimSet
<1>5. CASE \E c \in Clients : ClientCrashes(c)
  BY <1>5 DEF ClientCrashes, Books, TargetSet, SupsNamed, VictimSet
<1>6. CASE \E s \in Sups : SupCrashes(s)
  BY <1>6 DEF SupCrashes, SupGoes, Alive, Books, TargetSet, SupsNamed, VictimSet
<1>7. CASE UNCHANGED vars
  BY <1>7 DEF vars, Books, TargetSet, SupsNamed, VictimSet
<1>8. QED
  BY <1>1, <1>2, <1>3, <1>4, <1>5, <1>6, <1>7 DEF Next

-----------------------------------------------------------------------------
(* The order among those who meet at a worker                              *)

\* What most steps do to it: a client stays where it is, leaves the spawnlock, or
\* goes on inside it, and then into Quiet only when it has the worker to itself.
Stays(c) == at'[c] = at[c] /\ target'[c] = target[c] /\ victim'[c] = victim[c]
Retires(c) == at[c] # "pid" /\ ~Inside(c)'
Proceeds(c) ==
    /\ Inside(c) /\ target'[c] = target[c]
    /\ at[c] # "pid" /\ at'[c] # "pid"
    /\ at'[c] \in Quiet => \A s \in Sups : supOf[s] = target[c] => ~Serving(s)'

\* Nobody begins to serve, and who serves does not lose its name.
NoneBegins ==
    \A s \in Sups : Serving(s)' =>
        /\ Serving(s)
        /\ supAt'[s] # supAt[s] => supAt[s] # "forked"
        /\ files'[supOf[s]].pid = files[supOf[s]].pid

\* A step in which nobody enters a spawnlock and nobody begins to serve keeps the order.
LEMMA Frame ==
  ASSUME Order, UNCHANGED supOf, NoneBegins,
         \A c \in Clients : Stays(c) \/ Retires(c) \/ Proceeds(c)
  PROVE  Order'
<1>1. \A c \in Clients : Inside(c)' => Inside(c) /\ target'[c] = target[c]
  BY DEF Stays, Retires, Proceeds, Inside
<1>2. OneInside'
  BY <1>1 DEF Order, OneInside
<1>3. \A c \in Clients : at[c] = "pid" <=> at'[c] = "pid"
  BY DEF Stays, Retires, Proceeds, Inside, Launching
<1>4. \A c \in Clients : at[c] = "pid" => Stays(c)
  BY DEF Retires, Proceeds
<1>5. Named'
  BY <1>3, <1>4 DEF Order, Named, NoneBegins, Stays, Serving
<1>6. NoneServes'
  BY DEF Order, NoneServes, NoneBegins, Stays, Retires, Proceeds, Inside, Quiet, Launching,
     KillLocations
<1>7. OnlyVictimServes'
  BY <1>3, <1>4 DEF Order, OnlyVictimServes, NoneBegins, Stays
<1>8. QED
  BY <1>2, <1>5, <1>6, <1>7 DEF Order

\* No worker runs twice.
LEMMA NamedOnce ==
  ASSUME TypeOK, Books, Order,
         NEW r \in Sups, NEW s \in Sups, Serving(r), Serving(s), supOf[r] = supOf[s]
  PROVE  r = s
<1>1. ASSUME NEW c \in Clients, NEW q \in Sups, NEW p \in Sups, Serving(p), Serving(q),
             supOf[p] = supOf[q], at[c] = "pid", victim[c] = q
      PROVE  p = q
  BY <1>1 DEF Books, VictimSet, Order, OnlyVictimServes
<1>2. QED
  BY <1>1 DEF Order, Named

\* A client inside the spawnlock that finds nobody behind the pid file has the worker
\* to itself.
LEMMA NameFreeFact ==
  ASSUME TypeOK, Books, Order, NEW c \in Clients, Inside(c), at[c] # "pid",
         NameFree(target[c])
  PROVE  \A s \in Sups : supOf[s] = target[c] => ~Serving(s)
<1> SUFFICES ASSUME NEW s \in Sups, supOf[s] = target[c], Serving(s) PROVE FALSE
  OBVIOUS
<1>1. Alive(s)
  BY NoneAssumption DEF Alive, Serving
<1>2. files[supOf[s]].pid # s
  BY <1>1 DEF NameFree
<1>3. PICK d \in Clients : at[d] = "pid" /\ victim[d] = s
  BY <1>2 DEF Order, Named
<1>4. Inside(d) /\ target[d] = target[c]
  BY <1>3 DEF Inside, Launching, Books, VictimSet
<1>5. QED
  BY <1>3, <1>4 DEF Order, OneInside

\* The supervisor it finds there is the only one that may serve the worker.
LEMMA FoundIsOnly ==
  ASSUME TypeOK, Books, Order, NEW c \in Clients, Inside(c), at[c] # "pid",
         NEW s \in Sups, supOf[s] = target[c], Serving(s)
  PROVE  files[target[c]].pid = s
<1> SUFFICES ASSUME files[target[c]].pid # s PROVE FALSE
  OBVIOUS
<1>1. PICK d \in Clients : at[d] = "pid" /\ victim[d] = s
  BY DEF Order, Named
<1>2. Inside(d) /\ target[d] = target[c]
  BY <1>1 DEF Inside, Launching, Books, VictimSet
<1>3. QED
  BY <1>1, <1>2 DEF Order, OneInside

\* Entering a spawnlock.
LEMMA EnterStep ==
  ASSUME TypeOK, Books, Order, undisturbed', NEW c \in Clients, NEW w \in Workers,
         NEW l \in {"recheck", "inspect"}, at[c] \in {"idle", "lock"}, TakeSpawnlock(c, w, l)
  PROVE  Order'
<1> USE DEF TypeOK, Order, Goto, supVars
<1>1. /\ at' = [at EXCEPT ![c] = l] /\ target' = [target EXCEPT ![c] = w]
      /\ UNCHANGED <<victim, supOf, supAt>>
  BY DEF TakeSpawnlock
<1>2. \A d \in Clients : target[d] = w => ~Inside(d)
  BY DEF TakeSpawnlock
<1>3. \A v \in Workers : files'[v].pid = files[v].pid
  BY LockFact DEF TakeSpawnlock
<1>4. OneInside'
  BY <1>1, <1>2 DEF OneInside, Inside
<1>5. Named'
  <2>1. \A s \in Sups : Serving(s) => supOf[s] \in Workers
    BY DEF Serving, Books, SupsNamed
  <2>2. QED
    BY <1>1, <1>3, <2>1 DEF Named, Serving
<1>6. NoneServes' /\ OnlyVictimServes'
  BY <1>1 DEF NoneServes, OnlyVictimServes, Quiet, Serving
<1>7. QED
  BY <1>4, <1>5, <1>6

\* The steps of spawn.
LEMMA SpawnOrder ==
  ASSUME TypeOK, Books, Order, undisturbed', NEW c \in Clients, Spawn(c)
  PROVE  Order'
<1> USE DEF TypeOK, Goto, SupGoes, outside, locals, supVars
<1>1. CASE \/ \E w \in Workers : TakeGuard(c, w)
           \/ Scan(c) \/ Count(c) \/ GiveUp(c)
  <2>1. UNCHANGED <<files, supOf, supAt>>
    BY <1>1 DEF TakeGuard, Scan, Count, GiveUp
  <2>2. \A d \in Clients : Stays(d) \/ Retires(d)
    BY <1>1 DEF TakeGuard, Scan, Count, GiveUp, Stays, Retires, Inside, Launching,
       KillLocations
  <2>3. QED
    BY <2>1, <2>2, Frame DEF NoneBegins, Serving
<1>2. CASE Cull(c)
  <2>1. UNCHANGED <<files, supOf>>
    BY <1>2 DEF Cull
  <2>2. \A d \in Clients : Stays(d) \/ Retires(d)
    BY <1>2 DEF Cull, Stays, Retires, Inside, Launching, KillLocations
  <2>3. NoneBegins
    BY <1>2, SigtermFact DEF Cull, NoneBegins, Serving
  <2>4. QED
    BY <2>1, <2>2, <2>3, Frame
<1>3. CASE TakeWorkerLock(c)
  BY <1>3, EnterStep DEF TakeWorkerLock, Books, TargetSet
<1>4. CASE Recheck(c)
  <2>1. UNCHANGED <<files, supOf, supAt>>
    BY <1>4 DEF Recheck
  <2>2. \A d \in Clients : Stays(d) \/ Retires(d) \/ Proceeds(d)
    BY <1>4, <2>1, NameFreeFact DEF Recheck, Stays, Retires, Proceeds, Inside, Launching,
       KillLocations, Quiet, Serving
  <2>3. QED
    BY <2>1, <2>2, Frame DEF NoneBegins, Serving
<1>5. CASE Prepare(c) \/ ForkFails(c)
  <2>1. UNCHANGED <<supOf, supAt>>
    BY <1>5 DEF Prepare, ForkFails
  <2>2. \A v \in Workers : files'[v].pid = files[v].pid
    BY <1>5, LaunchFact DEF Prepare, ForkFails, Books, TargetSet
  <2>3. NoneBegins
    BY <2>1, <2>2 DEF NoneBegins, Serving, Books, SupsNamed
  <2>4. \A d \in Clients : Stays(d) \/ Retires(d) \/ Proceeds(d)
    BY <1>5, <2>1 DEF Prepare, ForkFails, Stays, Retires, Proceeds, Inside, Launching,
       KillLocations, Quiet, Serving, Order, NoneServes
  <2>5. QED
    BY <2>1, <2>3, <2>4, Frame
<1>6. CASE Fork(c)
  <2>1. PICK s \in Sups :
          /\ supAt[s] = "unborn"
          /\ supAt' = [supAt EXCEPT ![s] = "forked"]
          /\ supOf' = [supOf EXCEPT ![s] = target[c]]
          /\ victim' = [victim EXCEPT ![c] = s]
    BY <1>6 DEF Fork
  <2>2. /\ at[c] = "fork" /\ at' = [at EXCEPT ![c] = "pid"]
        /\ UNCHANGED <<files, target>>
    BY <1>6 DEF Fork
  <2>3. Inside(c) /\ ~Serving(s)
    BY <2>1, <2>2 DEF Inside, Launching, Serving
  <2>4. OneInside'
    BY <2>2 DEF Order, OneInside, Inside, Launching
  <2>5. Named'
    BY <2>1, <2>2, <2>3 DEF Order, Named, Serving
  <2>6. \A d \in Clients \ {c} : Inside(d) => target[d] # target[c]
    BY <2>3 DEF Order, OneInside
  <2>7. \A d \in Clients \ {c} : at[d] \in Quiet \cup {"pid"} => Inside(d)
    BY DEF Inside, Quiet, Launching, KillLocations
  <2>8. NoneServes'
    BY <2>1, <2>2, <2>6, <2>7 DEF Order, NoneServes, Serving, Quiet
  <2>9. OnlyVictimServes'
    <3> SUFFICES ASSUME NEW d \in Clients, NEW r \in Sups, at'[d] = "pid",
                        supOf'[r] = target[d], Serving(r)'
                 PROVE  r = victim'[d]
      BY <2>2 DEF OnlyVictimServes
    <3>1. CASE d = c
      BY <3>1, <2>1, <2>2 DEF Order, NoneServes, Serving, Quiet
    <3>2. CASE d # c
      <4>1. r # s
        BY <3>2, <2>1, <2>2, <2>6, <2>7
      <4>2. QED
        BY <3>2, <4>1, <2>1, <2>2 DEF Order, OnlyVictimServes, Serving
    <3>3. QED
      BY <3>1, <3>2
  <2>10. QED
    BY <2>4, <2>5, <2>8, <2>9 DEF Order
<1>7. CASE WritePid(c)
  <2>1. /\ at[c] = "pid" /\ at' = [at EXCEPT ![c] = "return"]
        /\ UNCHANGED <<target, victim, supOf, supAt>>
    BY <1>7 DEF WritePid
  <2>2. /\ target[c] \in Workers /\ victim[c] \in Sups /\ supOf[victim[c]] = target[c]
    BY <2>1 DEF Books, TargetSet, VictimSet
  <2>3. /\ files'[target[c]].pid = victim[c]
        /\ \A v \in Workers \ {target[c]} : files'[v].pid = files[v].pid
    BY <1>7, <2>2, WritePidFact DEF WritePid
  <2>4. OneInside'
    BY <2>1 DEF Order, OneInside, Inside, Launching, KillLocations
  <2>5. Named'
    <3> SUFFICES ASSUME NEW s \in Sups, Serving(s)
                 PROVE  \/ files'[supOf[s]].pid = s
                        \/ /\ supAt[s] = "forked"
                           /\ \E d \in Clients : at'[d] = "pid" /\ victim[d] = s
      BY <2>1 DEF Named, Serving
    <3>1. supOf[s] \in Workers
      BY DEF Serving, Books, SupsNamed
    <3>2. CASE supOf[s] = target[c]
      BY <3>2, <2>1, <2>3 DEF Order, OnlyVictimServes
    <3>3. CASE supOf[s] # target[c]
      BY <3>1, <3>3, <2>1, <2>2, <2>3 DEF Order, Named
    <3>4. QED
      BY <3>2, <3>3
  <2>6. NoneServes' /\ OnlyVictimServes'
    BY <2>1 DEF Order, NoneServes, OnlyVictimServes, Quiet, Serving
  <2>7. QED
    BY <2>4, <2>5, <2>6 DEF Order
<1>8. QED
  BY <1>1, <1>2, <1>3, <1>4, <1>5, <1>6, <1>7 DEF Spawn

\* The steps of kill.
LEMMA KillOrder ==
  ASSUME TypeOK, Books, Order, undisturbed', NEW c \in Clients, Kill(c)
  PROVE  Order'
<1> USE DEF TypeOK, Goto, SupGoes, outside, locals, supVars
<1>1. CASE \E w \in Workers : TakeTarget(c, w)
  BY <1>1, EnterStep DEF TakeTarget
<1>2. CASE NothingToKill(c)
  <2>1. UNCHANGED <<files, supOf, supAt>>
    BY <1>2 DEF NothingToKill
  <2>2. \A d \in Clients : Stays(d) \/ Retires(d) \/ Proceeds(d)
    BY <1>2, <2>1, NameFreeFact DEF NothingToKill, NameFree, Stays, Retires, Proceeds, Inside,
       Launching, KillLocations, Quiet, Serving
  <2>3. QED
    BY <2>1, <2>2, Frame DEF NoneBegins, Serving
\* Whoever is found behind the pid file serves no more.
<1>3. ASSUME NEW s \in Sups, NEW l, NEW m \in {"wait", "rm-pid"},
             at[c] \in {"inspect", "wait"},
             at[c] = "inspect" => s = files[target[c]].pid,
             l \notin {"forked", "recording", "up"},
             supAt' = [supAt EXCEPT ![s] = l], at' = [at EXCEPT ![c] = m],
             UNCHANGED <<files, target, supOf>>, victim' = [victim EXCEPT ![c] = s]
      PROVE  Order'
  <2>1. Inside(c) /\ Inside(c)'
    BY <1>3 DEF Inside, KillLocations
  <2>2. \A r \in Sups : Serving(r)' => Serving(r) /\ supAt'[r] = supAt[r] /\ r # s
    BY <1>3 DEF Serving
  <2>3. \A r \in Sups : supOf[r] = target[c] => ~Serving(r)'
    BY <1>3, <2>1, <2>2, FoundIsOnly DEF Order, NoneServes, Quiet
  <2>4. \A d \in Clients : Stays(d) \/ Proceeds(d)
    BY <1>3, <2>1, <2>3 DEF Stays, Proceeds
  <2>5. NoneBegins
    BY <1>3, <2>2 DEF NoneBegins
  <2>6. QED
    BY <1>3, <2>4, <2>5, Frame
<1>4. CASE Terminate(c) \/ ForceKill(c)
  <2> DEFINE s == files[target[c]].pid
  <2>1. s \in Sups
    BY <1>4 DEF Terminate, ForceKill, Alive, RuntimeFiles, Books, TargetSet
  <2>2. CASE Terminate(c)
    <3> DEFINE l == AfterSigterm(supAt[s])
    <3>1. l \notin {"forked", "recording", "up"}
      BY <2>1, SigtermFact
    <3>2. /\ at[c] = "inspect"
          /\ supAt' = [supAt EXCEPT ![s] = l] /\ at' = [at EXCEPT ![c] = "wait"]
          /\ UNCHANGED <<files, target, supOf>> /\ victim' = [victim EXCEPT ![c] = s]
      BY <2>2 DEF Terminate
    <3> HIDE DEF s, l
    <3>3. QED
      BY <1>3, <2>1, <3>1, <3>2 DEF s
  <2>3. CASE ForceKill(c)
    <3> DEFINE l == "dead"
    <3>1. l \notin {"forked", "recording", "up"}
      OBVIOUS
    <3>2. /\ at[c] = "inspect"
          /\ supAt' = [supAt EXCEPT ![s] = l] /\ at' = [at EXCEPT ![c] = "wait"]
          /\ UNCHANGED <<files, target, supOf>> /\ victim' = [victim EXCEPT ![c] = s]
      BY <2>3 DEF ForceKill, Execute
    <3> HIDE DEF s, l
    <3>3. QED
      BY <1>3, <2>1, <3>1, <3>2 DEF s
  <2>4. QED
    BY <1>4, <2>2, <2>3
<1>5. CASE GraceExpires(c)
  <2>1. victim[c] \in Sups
    BY <1>5 DEF GraceExpires, Books, VictimSet
  <2>2. /\ at[c] = "wait"
        /\ supAt' = [supAt EXCEPT ![victim[c]] = "dead"] /\ at' = [at EXCEPT ![c] = "rm-pid"]
        /\ UNCHANGED <<files, target, supOf>>
        /\ victim' = [victim EXCEPT ![c] = victim[c]]
    BY <1>5 DEF GraceExpires, Execute
  <2>3. QED
    BY <1>3, <2>1, <2>2
<1>6. CASE WaitEnds(c)
  <2>1. UNCHANGED <<files, supOf, supAt>>
    BY <1>6 DEF WaitEnds
  <2>2. \A d \in Clients : Stays(d) \/ Proceeds(d)
    BY <1>6, <2>1 DEF WaitEnds, Stays, Proceeds, Inside, KillLocations, Quiet, Serving, Order,
       NoneServes
  <2>3. QED
    BY <2>1, <2>2, Frame DEF NoneBegins, Serving
<1>7. CASE Tidy(c)
  <2>1. UNCHANGED <<target, victim, supOf, supAt>>
    BY <1>7 DEF Tidy
  <2>2. target[c] \in Workers /\ at[c] \in Quiet
    BY <1>7 DEF Tidy, Books, TargetSet, Quiet
  <2>3. \A v \in Workers \ {target[c]} : files'[v].pid = files[v].pid
    BY <1>7, <2>2, WritePidFact, RemoveFact DEF Tidy, FileOf
  <2>4. \A s \in Sups : Serving(s) => supOf[s] \in Workers /\ supOf[s] # target[c]
    BY <2>2 DEF Order, NoneServes, Serving, Books, SupsNamed
  <2>5. NoneBegins
    BY <2>1, <2>3, <2>4 DEF NoneBegins, Serving
  <2>6. \A d \in Clients : Stays(d) \/ Retires(d) \/ Proceeds(d)
    BY <1>7, <2>1, <2>4 DEF Tidy, NextRm, Stays, Retires, Proceeds, Inside, Launching,
       KillLocations, Serving
  <2>7. QED
    BY <2>1, <2>5, <2>6, Frame
<1>8. QED
  BY <1>1, <1>2, <1>4, <1>5, <1>6, <1>7 DEF Kill

\* The steps of a supervisor.
LEMMA SuperviseOrder ==
  ASSUME TypeOK, Books, Order, undisturbed', NEW s \in Sups, Supervise(s)
  PROVE  Order'
<1> USE DEF TypeOK, SupGoes, clientVars, locals, supVars
<1>1. UNCHANGED <<at, target, victim, supOf>> /\ \A c \in Clients : Stays(c)
  BY DEF Supervise, Boot, SpawnedLands, Turn, Stops, WorkerExits, Leave, Stays
<1>2. CASE Boot(s)
  <2>1. supOf[s] \in Workers /\ Serving(s)
    BY <1>2 DEF Boot, Books, SupsNamed, Serving
  <2>2. CASE supAt' = [supAt EXCEPT ![s] = "dead"] /\ UNCHANGED files
    BY <1>1, <2>2, Frame DEF NoneBegins, Serving
  <2>3. CASE supAt' = [supAt EXCEPT ![s] = "recording"] /\ Write(supOf[s], "pid", s)
    <3>1. /\ files'[supOf[s]].pid = s
          /\ \A v \in Workers \ {supOf[s]} : files'[v].pid = files[v].pid
      BY <2>1, <2>3, WritePidFact
    <3>2. \A r \in Sups : Serving(r)' <=> Serving(r)
      BY <2>1, <2>3 DEF Serving
    <3>3. \A r \in Sups : Serving(r) /\ supOf[r] = supOf[s] => r = s
      BY <2>1, NamedOnce
    <3>4. \A r \in Sups : Serving(r) => supOf[r] \in Workers
      BY DEF Serving, Books, SupsNamed
    <3>5. Named'
      BY <1>1, <2>3, <3>1, <3>2, <3>3, <3>4 DEF Order, Named
    <3>6. OneInside' /\ NoneServes' /\ OnlyVictimServes'
      BY <1>1, <3>2 DEF Order, OneInside, NoneServes, OnlyVictimServes, Inside
    <3>7. QED
      BY <3>5, <3>6 DEF Order
  <2>4. QED
    BY <1>2, <2>2, <2>3 DEF Boot
<1>3. CASE SpawnedLands(s) \/ (\E kind \in {"turn_started", "turn_finished"} : Turn(s, kind))
           \/ Stops(s) \/ WorkerExits(s)
  <2>1. UNCHANGED files
    BY <1>3 DEF SpawnedLands, Turn, Stops, WorkerExits
  <2>2. NoneBegins
    BY <1>3, <2>1, SigtermFact DEF SpawnedLands, Turn, Stops, WorkerExits, NoneBegins, Serving
  <2>3. QED
    BY <1>1, <2>2, Frame
<1>4. CASE Leave(s)
  <2>1. supOf[s] \in Workers
    BY <1>4 DEF Leave, Books, SupsNamed
  <2>2. \A r \in Sups : Serving(r)' => Serving(r) /\ supAt'[r] = supAt[r] /\ r # s
    BY <1>4 DEF Leave, NextExit, Serving
  <2>3. CASE supAt[s] = "rm-pid"
    <3>1. \A v \in Workers \ {supOf[s]} : files'[v].pid = files[v].pid
      BY <1>4, <2>1, <2>3, WritePidFact DEF Leave, FileOf
    <3>2. ~Succeeded(s)
      BY <1>4, <2>3 DEF Leave
    <3>3. \A r \in Sups : Serving(r)' => supOf[r] \in Workers \ {supOf[s]}
      BY <2>2, <3>2 DEF Succeeded, Serving, Books, SupsNamed
    <3>4. NoneBegins
      BY <2>2, <3>1, <3>3 DEF NoneBegins
    <3>5. QED
      BY <1>1, <3>4, Frame
  <2>4. CASE supAt[s] # "rm-pid"
    <3>1. \A v \in Workers : files'[v].pid = files[v].pid
      BY <1>4, <2>1, <2>4, RemoveFact DEF Leave, FileOf
    <3>2. NoneBegins
      BY <2>2, <3>1 DEF NoneBegins, Serving, Books, SupsNamed
    <3>3. QED
      BY <1>1, <3>2, Frame
  <2>5. QED
    BY <2>3, <2>4
<1>5. QED
  BY <1>2, <1>3, <1>4 DEF Supervise

\* Every step keeps the order or is a mishap.
LEMMA OrderStep ==
  TypeOK /\ Books /\ (undisturbed => Order) /\ [Next]_vars => (undisturbed' => Order')
<1> SUFFICES ASSUME TypeOK, Books, undisturbed => Order, [Next]_vars, undisturbed'
             PROVE  Order'
  OBVIOUS
<1> USE DEF TypeOK, Goto, SupGoes, clientVars, locals, supVars
<1>1. ASSUME NEW c \in Clients, Spawn(c) PROVE Order'
  <2>1. undisturbed
    BY <1>1 DEF Spawn, TakeGuard, Scan, Cull, Count, TakeWorkerLock, TakeSpawnlock, GiveUp,
       Recheck, Prepare, Fork, ForkFails, WritePid, outside
  <2>2. QED
    BY <1>1, <2>1, SpawnOrder
<1>2. ASSUME NEW c \in Clients, Kill(c) PROVE Order'
  <2>1. undisturbed
    BY <1>2 DEF Kill, TakeTarget, TakeSpawnlock, NothingToKill, Terminate, ForceKill, Execute,
       WaitEnds, GraceExpires, Tidy, outside
  <2>2. QED
    BY <1>2, <2>1, KillOrder
<1>3. ASSUME NEW s \in Sups, Supervise(s) PROVE Order'
  <2>1. undisturbed
    BY <1>3 DEF Supervise, Boot, SpawnedLands, Turn, Stops, WorkerExits, Leave
  <2>2. QED
    BY <1>3, <2>1, SuperviseOrder
<1>4. ASSUME NEW c \in Clients, Return(c) \/ ClientCrashes(c) PROVE Order'
  <2>1. undisturbed /\ UNCHANGED <<supOf, supAt>>
    BY <1>4 DEF Return, ClientCrashes, outside
  <2>2. \A v \in Workers : files'[v].pid = files[v].pid
    BY <1>4, UnlockFact DEF Return, ClientCrashes
  <2>3. NoneBegins
    BY <2>1, <2>2 DEF NoneBegins, Serving, Books, SupsNamed
  <2>4. \A d \in Clients : Stays(d) \/ Retires(d)
    BY <1>4 DEF Return, ClientCrashes, Stays, Retires, Inside, Launching, KillLocations
  <2>5. QED
    BY <2>1, <2>3, <2>4, Frame
<1>5. ASSUME NEW s \in Sups, SupCrashes(s) PROVE Order'
  BY <1>5, Frame DEF SupCrashes, NoneBegins, Serving, Stays
<1>6. CASE UNCHANGED vars
  BY <1>6, Frame DEF vars, NoneBegins, Serving, Stays
<1>7. QED
  BY <1>1, <1>2, <1>3, <1>4, <1>5, <1>6 DEF Next

-----------------------------------------------------------------------------
(* Theorems                                                                *)

\* The invariant is inductive.
LEMMA Invariance == Spec => []IInv
<1>1. IInv /\ [Next]_vars => IInv'
  BY TypeStep, BooksStep, OrderStep DEF IInv
<1>2. QED
  BY InitIInv, <1>1, PTL DEF Spec

\* The state is always of its types.
THEOREM TypeCorrect == Spec => []TypeOK
<1>1. IInv => TypeOK
  BY DEF IInv
<1>2. QED
  BY <1>1, Invariance, PTL

\* However many clients spawn and kill, and whoever crashes, no worker runs twice
\* until a mishap has disturbed its files: what the lock of spawn and kill and the
\* check of the pid file under it are for.
THEOREM OnceTheorem == Spec => []OnceUndisturbed
<1>1. IInv => OnceUndisturbed
  BY NamedOnce DEF IInv, OnceUndisturbed
<1>2. QED
  BY <1>1, Invariance, PTL

\* And until then every running supervisor is found by its pid file, although
\* spawner, supervisor, killer and predecessor all write or remove it.
THEOREM FindableTheorem == Spec => []FindableUndisturbed
<1>1. IInv => FindableUndisturbed
  BY DEF IInv, Order, Named, FindableUndisturbed, UpIsFindable, Serving
<1>2. QED
  BY <1>1, Invariance, PTL
=============================================================================
