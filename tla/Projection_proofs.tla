-------------------------- MODULE Projection_proofs -------------------------
(***************************************************************************)
(* Proofs about the projection store: its types, that a pending            *)
(* transaction can be rolled forward, that siblings keep what an adapter   *)
(* applied, and that the store implements the atomic transaction.          *)
(*                                                                         *)
(* All of it rests on what a journal is: the steps of a preview whose plan *)
(* the planner accepted (Sound) and whose ledger was the ledger on disk.   *)
(* The lock keeps it that way from the staging on (Held); afterwards       *)
(* nothing but its own steps changes what it is about, except the user.    *)
(* The end is about the quality gates of a task, which the same run        *)
(* checks: QualityInv, for any edits, checks and records.                  *)
(***************************************************************************)
EXTENDS MCProjection, TLAPS

\* A process under the lock.
Inside(a) == pc[a] \in {"entered", "staged"} \cup Finishing

Held == \A a \in Adapters : Inside(a) => lock = [by |-> a, alive |-> TRUE]

\* A preview of a plan that was accepted as a whole.
Sound(preview) ==
    /\ IsPreview(preview)
    /\ \A r \in preview.plan.resources : Ready(preview.plan, r)
    /\ \A r \in Resources : preview.ledger.entries[r] = EntryAfter(preview.plan, r)

Previews == \A a \in Adapters : pc[a] \in Previewed => Sound(work[a]) /\ work[a].plan.adapter = a

\* What is staged belongs to the transaction that is about to be written.
Staging ==
    \A a \in Adapters : pc[a] = "staged" =>
        /\ journal = NoJournal
        /\ ledger = work[a].plan.ledger
        /\ staged = {t \in Moved(work[a]) \cup Marks : After(work[a], t) # Absent}

\* A journal holds the steps of a sound preview, planned on the ledger it replaces.
IsJournal(steps) ==
    \E preview, claimed :
        /\ Sound(preview)
        /\ steps = Steps(preview, claimed, preview.plan.ledger)

Journalled ==
    /\ journal # NoJournal => IsJournal(journal)
    /\ \A a \in Adapters : pc[a] \in {"journalled", "finishing", "cleaned"} => journal # NoJournal

\* What a run has been past is in place ...
Passed ==
    \A a \in Adapters : pc[a] = "finishing" =>
        \A t \in DOMAIN journal : t \in work[a].past /\ t \notin touched => Current(t) = journal[t].after

\* ... and so is everything a journal is about before it is removed.
Cleaned ==
    \A a \in Adapters : pc[a] = "cleaned" =>
        \A t \in DOMAIN journal : t \notin touched => Current(t) = journal[t].after

\* With the transaction counted as done, files and ledger agree, as far as the user
\* has left them alone ...
Accounted ==
    spent.edits = 0 =>
        /\ touched = {}
        /\ \A r \in Resources : EntryNow(r) # None => FileNow(r) = EntryNow(r).current

\* ... and so does the ledger with what an adapter was told, unless the adapter's own
\* transaction is the one that waits.
Claimed ==
    \A a \in Adapters :
        /\ installed[a] # None
        /\ journal # NoJournal => journal["receipt"].after.plan.adapter # a
        => \A r \in installed[a].plan.resources :
              EntryNow(r) # None /\ a \in EntryNow(r).claimants

IInv ==
    /\ TypeOK /\ Held /\ Previews /\ Staging /\ Journalled
    /\ RollsForward /\ Passed /\ Cleaned /\ Accounted /\ Claimed

-----------------------------------------------------------------------------
(* What the planner decides about one file. *)

\* An entry is read from a ledger, or there is none.
LEMMA EntryType ==
    ASSUME NEW led \in Ledgers \cup {NoLedger}, NEW r \in Resources
    PROVE  Entry(led, r) \in Entries \cup {None}
BY DEF Entry, Ledgers

\* A ledger's entry is what the ledger says.
LEMMA EntryOf ==
    ASSUME NEW led \in Ledgers, NEW r \in Resources
    PROVE  Entry(led, r) = led.entries[r]
BY MarkAssumption DEF Entry

\* What is written is a file, and a merge keeps the bytes of others.
LEMMA WrittenType ==
    ASSUME NEW r \in Resources, NEW now \in Hosts, NEW v \in Versions
    PROVE  /\ Written(r, now, v) \in Files
           /\ Written(r, now, v) # Absent
           /\ r \notin WholeFiles => (now # Absent /\ now.foreign => Written(r, now, v).foreign)
<1>1. Pure(v) \in Files
    BY DEF Pure, Files
<1>2. Merged(now, v) \in Files /\ (now # Absent /\ now.foreign => Merged(now, v).foreign)
    BY DEF Merged, Files, Hosts, Empty
<1>3. QED
    BY <1>1, <1>2, AbsentAssumption DEF Written

\* The entry of an attach is made from the one in the ledger, or from a fresh one.
LEMMA KnownType ==
    ASSUME NEW entry \in Entries \cup {None}, NEW now \in Hosts
    PROVE  /\ Known(entry, now) \in Entries
           /\ entry # None => Known(entry, now) = entry
<1>1. Fresh(now) \in Entries
    BY DEF Fresh, Entries, Hosts
<1>2. QED
    BY <1>1 DEF Known

\* What an attach makes of an entry.
LEMMA AttachedIs ==
    ASSUME NEW r \in Resources, NEW entry \in Entries, NEW a \in Adapters,
           NEW v \in Versions, NEW now \in Hosts
    PROVE  /\ Attached(r, entry, a, v, now) \in Entries
           /\ Attached(r, entry, a, v, now).current = Written(r, now, v)
           /\ Attached(r, entry, a, v, now).claimants = entry.claimants \cup {a}
<1>1. Written(r, now, v) \in Hosts
    BY WrittenType DEF Hosts
<1>2. QED
    BY <1>1 DEF Attached, Observed, Entries

\* What a detach makes of it: the file goes only when nobody claims it any more.
LEMMA DetachedIs ==
    ASSUME NEW entry \in Entries, NEW a \in Adapters, NEW now \in Hosts
    PROVE  /\ Detached(entry, a, now) \in Entries
           /\ Detached(entry, a, now).current = IF Removable(entry, a, now) THEN Absent ELSE now
           /\ Detached(entry, a, now).claimants = entry.claimants \ {a}
<1> DEFINE left == [Observed(entry, now) EXCEPT !.claimants = @ \ {a}]
<1>1. /\ left \in Entries /\ left.current = now /\ left.claimants = entry.claimants \ {a}
    BY DEF Observed, Entries
<1>2. Absent \in Hosts
    BY DEF Hosts
<1>3. ~(Modified(entry, now) /\ Removable(entry, a, now))
    BY DEF Modified, Removable
<1>4. CASE Modified(entry, now)
    <2>1. Detached(entry, a, now) =
              [left EXCEPT !.conflict = "modified", !.disposition = "preserve-modified"]
        BY <1>3, <1>4 DEF Detached
    <2>2. QED
        BY <2>1, <1>1, <1>3, <1>4 DEF Entries
<1>5. CASE ~Modified(entry, now) /\ Removable(entry, a, now)
    <2>1. Detached(entry, a, now) =
              [left EXCEPT !.current = Absent, !.generated = Absent, !.ref = None]
        BY <1>5 DEF Detached
    <2>2. QED
        BY <2>1, <1>1, <1>2, <1>5 DEF Entries
<1>6. CASE ~Modified(entry, now) /\ ~Removable(entry, a, now)
    BY <1>1, <1>6 DEF Detached
<1>7. QED
    BY <1>4, <1>5, <1>6

\* Somebody else's bytes are in the file.
Foreign(file) == file # Absent /\ file.foreign

\* What an accepted plan makes of a file and of its entry: the entry says what the
\* file becomes, siblings keep their claims, foreign bytes stay, and a file that goes
\* has no claimant.
Effect(plan, r) ==
    /\ FileAfter(plan, r) \in Hosts
    /\ EntryAfter(plan, r) \in Entries
    /\ EntryAfter(plan, r).current = FileAfter(plan, r)
    /\ plan.action = "attach" => plan.adapter \in EntryAfter(plan, r).claimants
    /\ \A b \in Adapters \ {plan.adapter} :
          Entry(plan.ledger, r) # None /\ b \in Entry(plan.ledger, r).claimants =>
              b \in EntryAfter(plan, r).claimants
    /\ Foreign(plan.seen[r]) => Foreign(FileAfter(plan, r))
    /\ FileAfter(plan, r) = Absent /\ plan.seen[r] # Absent => EntryAfter(plan, r).claimants = {}

\* A file that is to be written whole holds nothing that is not Pactile's.
LEMMA WholeIsPure ==
    ASSUME NEW r \in WholeFiles, NEW entry \in Entries, NEW a \in Adapters,
           NEW v \in Versions, NEW now \in Hosts, MayWrite(r, entry, a, v, now)
    PROVE  ~Foreign(now)
BY DEF MayWrite, OnlyGenerated, Pure, Foreign

LEMMA EffectHolds ==
    ASSUME NEW plan, IsPlan(plan), NEW r \in plan.resources, Ready(plan, r)
    PROVE  Effect(plan, r)
<1> DEFINE entry == Entry(plan.ledger, r)
           now == plan.seen[r]
           a == plan.adapter
           v == plan.version
<1>1. /\ r \in Resources /\ now \in Hosts /\ a \in Adapters /\ v \in Versions
      /\ plan.action \in {"attach", "detach"}
    BY DEF IsPlan
<1>2. entry \in Entries \cup {None}
    BY <1>1, EntryType DEF IsPlan
<1>3. CASE plan.action = "attach"
    <2> DEFINE known == Known(entry, now)
    <2>1. known \in Entries /\ (entry # None => known = entry)
        BY <1>1, <1>2, KnownType
    <2>2. MayWrite(r, known, a, v, now)
        BY <1>3 DEF Ready
    <2>3. EntryAfter(plan, r) = Attached(r, known, a, v, now) /\ FileAfter(plan, r) = Written(r, now, v)
        BY <1>3 DEF EntryAfter, FileAfter
    <2> HIDE DEF known, entry, now, a, v
    <2>4. /\ EntryAfter(plan, r) \in Entries
          /\ EntryAfter(plan, r).current = Written(r, now, v)
          /\ EntryAfter(plan, r).claimants = known.claimants \cup {a}
        BY <1>1, <2>1, <2>3, AttachedIs
    <2>5. /\ Written(r, now, v) \in Hosts /\ Written(r, now, v) # Absent
          /\ r \notin WholeFiles => (Foreign(now) => Foreign(Written(r, now, v)))
        BY <1>1, WrittenType DEF Hosts, Foreign
    <2>6. r \in WholeFiles => ~Foreign(now)
        BY <1>1, <2>1, <2>2, WholeIsPure
    <2>7. Foreign(now) => Foreign(Written(r, now, v))
        BY <2>5, <2>6
    <2>8. QED
        BY <2>1, <2>3, <2>4, <2>5, <2>7 DEF Effect, entry, now, a
<1>4. CASE plan.action = "detach"
    <2>1. entry \in Entries
        BY <1>2, <1>4 DEF Ready
    <2>2. /\ EntryAfter(plan, r) = Detached(entry, a, now)
          /\ FileAfter(plan, r) = IF Removable(entry, a, now) THEN Absent ELSE now
        BY <1>4 DEF EntryAfter, FileAfter
    <2> HIDE DEF entry, now, a
    <2>3. /\ EntryAfter(plan, r) \in Entries
          /\ EntryAfter(plan, r).current = FileAfter(plan, r)
          /\ EntryAfter(plan, r).claimants = entry.claimants \ {a}
        BY <1>1, <2>1, <2>2, DetachedIs
    <2>4. FileAfter(plan, r) \in Hosts
        BY <1>1, <2>2 DEF Hosts
    <2>5. Removable(entry, a, now) => ~Foreign(now) /\ entry.claimants \ {a} = {}
        BY <2>1 DEF Removable, OnlyGenerated, Foreign, Pure
    <2>6. Foreign(now) => Foreign(FileAfter(plan, r))
        BY <2>2, <2>5
    <2>7. FileAfter(plan, r) = Absent /\ now # Absent => EntryAfter(plan, r).claimants = {}
        BY <2>2, <2>3, <2>5
    <2>8. QED
        BY <1>4, <2>3, <2>4, <2>6, <2>7 DEF Effect, entry, now, a
<1>5. QED
    BY <1>1, <1>3, <1>4

\* The ledger an accepted plan leaves.
LEMMA LedgerAfterIs ==
    ASSUME NEW plan, IsPlan(plan), \A r \in plan.resources : Ready(plan, r), NEW stamp \in Nat
    PROVE  /\ LedgerAfter(plan, stamp) \in Ledgers
           /\ \A r \in Resources : LedgerAfter(plan, stamp).entries[r] = EntryAfter(plan, r)
<1> DEFINE entries == [r \in Resources |-> EntryAfter(plan, r)]
           next == [generation |-> plan.version, stamp |-> stamp, entries |-> entries]
<1>1. ASSUME NEW r \in Resources
      PROVE  EntryAfter(plan, r) \in Entries \cup {None}
    <2>1. CASE r \in plan.resources
        BY <2>1, EffectHolds DEF Effect
    <2>2. CASE r \notin plan.resources
        BY <2>2, EntryType DEF EntryAfter, IsPlan
    <2>3. QED
        BY <2>1, <2>2
<1>2. entries \in [Resources -> Entries \cup {None}]
    BY <1>1
<1> HIDE DEF entries
<1>3. next \in Ledgers /\ next.entries = entries
    BY <1>2 DEF IsPlan, Ledgers
<1>4. \/ LedgerAfter(plan, stamp) = next
      \/ /\ LedgerAfter(plan, stamp) = plan.ledger /\ plan.ledger \in Ledgers
         /\ plan.ledger = [next EXCEPT !.stamp = plan.ledger.stamp]
    BY DEF LedgerAfter, IsPlan, entries
<1>5. LedgerAfter(plan, stamp) \in Ledgers /\ LedgerAfter(plan, stamp).entries = entries
    BY <1>3, <1>4
<1>6. QED
    BY <1>5 DEF entries

-----------------------------------------------------------------------------
(* What a journal says. *)

LEMMA StepsIs ==
    ASSUME NEW preview, Sound(preview), NEW claimed, NEW led
    PROVE  /\ Moved(preview) \subseteq Resources
           /\ DOMAIN Steps(preview, claimed, led) = Moved(preview) \cup Marks
           /\ \A t \in Moved(preview) \cup Marks :
                 Steps(preview, claimed, led)[t].after = After(preview, t)
           /\ Steps(preview, claimed, led)["claims"].before = claimed
           /\ Steps(preview, claimed, led)["ledger"].before = led
           /\ Steps(preview, claimed, led)["receipt"].before = Absent
           /\ \A r \in Moved(preview) :
                 /\ Steps(preview, claimed, led)[r].before = preview.plan.seen[r]
                 /\ After(preview, r) = FileAfter(preview.plan, r)
<1> DEFINE steps == Steps(preview, claimed, led)
<1>1. Moved(preview) \subseteq Resources
    BY DEF Moved, Sound, IsPreview, IsPlan
<1>2. DOMAIN steps = Moved(preview) \cup Marks
    BY DEF Steps
<1>3. \A t \in Moved(preview) \cup Marks : steps[t].after = After(preview, t)
    BY DEF Steps
<1>4. \A r \in Moved(preview) : r \notin Marks
    BY <1>1, OrderAssumption
<1>5. \A r \in Moved(preview) : steps[r].before = preview.plan.seen[r]
    BY <1>4 DEF Steps, Marks
<1>6. \A r \in Moved(preview) : After(preview, r) = FileAfter(preview.plan, r)
    BY <1>4 DEF After, Marks
<1>7. steps["claims"].before = claimed /\ steps["ledger"].before = led
    BY DEF Steps, Marks
<1>8. steps["receipt"].before = Absent
    BY DEF Steps, Marks
<1>9. QED
    BY <1>1, <1>2, <1>3, <1>5, <1>6, <1>7, <1>8

\* The entry a journal leaves of a file.
EntryIn(steps, r) == Entry(steps["ledger"].after, r)

\* A journal changes each of its files into what its own ledger says of it, takes
\* nothing that is somebody else's, and its receipt is backed by its ledger.
LEMMA JournalIs ==
    ASSUME NEW steps, IsJournal(steps)
    PROVE  /\ Marks \subseteq DOMAIN steps /\ DOMAIN steps \subseteq Resources \cup Marks
           /\ steps["ledger"].after \in Ledgers
           /\ steps["claims"].after \in [Assets -> SUBSET Adapters]
           /\ IsPlan(steps["receipt"].after.plan)
           /\ \A r \in Resources \cap DOMAIN steps :
                 /\ steps[r].after \in Hosts /\ steps[r].before # steps[r].after
                 /\ EntryIn(steps, r) \in Entries /\ EntryIn(steps, r).current = steps[r].after
                 /\ Foreign(steps[r].before) => Foreign(steps[r].after)
                 /\ steps[r].after = Absent => EntryIn(steps, r).claimants = {}
           /\ steps["receipt"].after.plan.action = "attach" =>
                 \A r \in steps["receipt"].after.plan.resources :
                    /\ EntryIn(steps, r) \in Entries
                    /\ steps["receipt"].after.plan.adapter \in EntryIn(steps, r).claimants
<1>1. PICK preview, claimed : Sound(preview) /\ steps = Steps(preview, claimed, preview.plan.ledger)
    BY DEF IsJournal
<1>2. /\ Moved(preview) \subseteq Resources
      /\ DOMAIN steps = Moved(preview) \cup Marks
      /\ steps["claims"].after = preview.claims
      /\ steps["ledger"].after = preview.ledger
      /\ steps["receipt"].after = ReceiptOf(preview)
      /\ \A r \in Moved(preview) :
            steps[r].before = preview.plan.seen[r] /\ steps[r].after = FileAfter(preview.plan, r)
    <2>1. /\ Moved(preview) \subseteq Resources
          /\ DOMAIN steps = Moved(preview) \cup Marks
          /\ \A t \in Moved(preview) \cup Marks : steps[t].after = After(preview, t)
          /\ \A r \in Moved(preview) :
                steps[r].before = preview.plan.seen[r] /\ After(preview, r) = FileAfter(preview.plan, r)
        <3> DEFINE written == Steps(preview, claimed, preview.plan.ledger)
        <3>1. Moved(preview) \subseteq Resources
            BY <1>1 DEF Moved, Sound, IsPreview, IsPlan
        <3>2. DOMAIN written = Moved(preview) \cup Marks
            BY DEF Steps
        <3>3. \A t \in Moved(preview) \cup Marks : written[t].after = After(preview, t)
            BY DEF Steps
        <3>4. \A r \in Moved(preview) :
                  written[r].before = preview.plan.seen[r] /\ After(preview, r) = FileAfter(preview.plan, r)
            <4>1. \A r \in Moved(preview) : r \notin Marks
                BY <3>1, OrderAssumption
            <4>2. \A r \in Moved(preview) : written[r].before = preview.plan.seen[r]
                BY <4>1 DEF Steps, Marks
            <4>3. \A r \in Moved(preview) : After(preview, r) = FileAfter(preview.plan, r)
                BY <4>1 DEF After, Marks
            <4>4. QED
                BY <4>2, <4>3
        <3>5. steps = written
            BY <1>1
        <3>6. QED
            BY <3>1, <3>2, <3>3, <3>4, <3>5
    <2>2. /\ After(preview, "claims") = preview.claims
          /\ After(preview, "ledger") = preview.ledger
          /\ After(preview, "receipt") = ReceiptOf(preview)
        BY DEF After
    <2>3. {"claims", "ledger", "receipt"} \subseteq Moved(preview) \cup Marks
        BY DEF Marks
    <2>4. QED
        BY <2>1, <2>2, <2>3
<1> DEFINE plan == preview.plan
<1>3. /\ IsPlan(plan) /\ preview.ledger \in Ledgers /\ preview.claims \in [Assets -> SUBSET Adapters]
      /\ plan.resources \subseteq Resources
    BY <1>1 DEF Sound, IsPreview, IsPlan
<1>4. ReceiptOf(preview).plan = plan
    BY DEF ReceiptOf
<1>5. \A r \in plan.resources : Effect(plan, r)
    BY <1>1, <1>3, EffectHolds DEF Sound
<1>6. \A r \in Resources : EntryIn(steps, r) = EntryAfter(plan, r)
    BY <1>1, <1>2, <1>3, EntryOf DEF Sound, EntryIn
<1>7. Resources \cap DOMAIN steps = Moved(preview)
    BY <1>2, OrderAssumption
<1>8. \A r \in Moved(preview) : r \in plan.resources /\ FileAfter(plan, r) # plan.seen[r]
    BY DEF Moved
<1> HIDE DEF plan
<1>9. \A r \in Moved(preview) :
          /\ steps[r].after \in Hosts /\ steps[r].before # steps[r].after
          /\ EntryIn(steps, r) \in Entries /\ EntryIn(steps, r).current = steps[r].after
          /\ Foreign(steps[r].before) => Foreign(steps[r].after)
          /\ steps[r].after = Absent => EntryIn(steps, r).claimants = {}
    BY <1>2, <1>5, <1>6, <1>8 DEF Effect, plan
<1>10. plan.action = "attach" =>
          \A r \in plan.resources : EntryIn(steps, r) \in Entries /\ plan.adapter \in EntryIn(steps, r).claimants
    BY <1>3, <1>5, <1>6 DEF Effect
<1>11. QED
    BY <1>2, <1>3, <1>4, <1>7, <1>9, <1>10

-----------------------------------------------------------------------------
(* Type correctness. *)

LEMMA TypeInit == Init => TypeOK
BY InitialAssumption DEF Init, TypeOK, NoJournal, Previewed, Finishing

Places == {"idle", "planned"} \cup Previewed \cup Finishing

\* A process that moves without taking its plan anywhere.
LEMMA GoType ==
    ASSUME TypeOK, NEW a \in Adapters, NEW step \in Places, Go(a, step)
    PROVE  /\ pc' \in [Adapters -> Places]
           /\ pc'[a] = step /\ \A b \in Adapters \ {a} : pc'[b] = pc[b]
BY DEF TypeOK, Go, Places

LEMMA StopType ==
    ASSUME TypeOK, NEW a \in Adapters, Stop(a)
    PROVE  /\ pc' \in [Adapters -> Places]
           /\ pc'[a] = "idle"
           /\ \A b \in Adapters \ {a} : pc'[b] = pc[b] /\ work'[b] = work[b]
<1>1. "idle" \in Places /\ Go(a, "idle")
    BY DEF Places, Stop
<1>2. \A b \in Adapters \ {a} : work'[b] = work[b]
    BY DEF Stop
<1>3. QED
    BY <1>1, <1>2, GoType

LEMMA TypeNext ==
    ASSUME TypeOK, Previews, Staging, Journalled, [Next]_vars
    PROVE  TypeOK'
<1> USE DEF store, state, history
<1>1. ASSUME NEW a \in Adapters, BuildPlan(a) PROVE TypeOK'
    <2>1. PICK target \in Targets, action \in {"attach", "detach"} :
            /\ spent' = [spent EXCEPT !.plans = @ + 1]
            /\ work' = [work EXCEPT ![a] =
                  [adapter |-> a, action |-> action, version |-> target.version,
                   resources |-> target.resources, assets |-> target.assets, ledger |-> ledger,
                   seen |-> [r \in target.resources |-> files[r]]]]
            /\ Go(a, "planned")
            /\ UNCHANGED <<store, lock, history>>
        BY <1>1 DEF BuildPlan
    <2> DEFINE plan == [adapter |-> a, action |-> action, version |-> target.version,
                        resources |-> target.resources, assets |-> target.assets, ledger |-> ledger,
                        seen |-> [r \in target.resources |-> files[r]]]
    <2>a. /\ target.version \in Versions /\ target.resources \subseteq Resources
          /\ target.assets \subseteq Assets
        BY TargetAssumption
    <2>b. [r \in target.resources |-> files[r]] \in [target.resources -> Hosts]
        BY <2>a DEF TypeOK
    <2>c. IsPlan(plan) /\ plan.adapter = a
        BY <2>a, <2>b DEF TypeOK, IsPlan
    <2>d. work'[a] = plan
        BY <2>1 DEF TypeOK
    <2> HIDE DEF plan
    <2>2. IsPlan(work'[a]) /\ work'[a].adapter = a
        BY <2>c, <2>d
    <2>3. /\ pc' \in [Adapters -> Places] /\ pc'[a] = "planned"
          /\ \A b \in Adapters \ {a} : pc'[b] = pc[b] /\ work'[b] = work[b]
        BY <2>1, GoType DEF Places, TypeOK
    <2>e. spent' \in [plans : Nat, edits : Nat, crashes : Nat] /\ DOMAIN work' = Adapters
        BY <2>1 DEF TypeOK
    <2>f. UNCHANGED <<files, ledger, claims, lock, touched, installed, journal>>
        BY <2>1
    <2>4. QED
        BY <2>2, <2>3, <2>e, <2>f DEF TypeOK, Previewed, Places
<1>2. ASSUME NEW a \in Adapters, Inspect(a) PROVE TypeOK'
    <2>1. /\ IsPlan(work[a]) /\ \A r \in work[a].resources : Ready(work[a], r)
          /\ spent.plans \in Nat
        BY <1>2 DEF Inspect, TypeOK
    <2>2. LedgerAfter(work[a], spent.plans) \in Ledgers
        BY <2>1, LedgerAfterIs
    <2>3. ClaimsAfter(work[a], claims) \in [Assets -> SUBSET Adapters]
        BY <2>1 DEF ClaimsAfter, TypeOK, IsPlan
    <2>4. IsPreview(work'[a])
        BY <1>2, <2>1, <2>2, <2>3 DEF Inspect, IsPreview, TypeOK
    <2>5. /\ pc' \in [Adapters -> Places] /\ pc'[a] = "inspected"
          /\ \A b \in Adapters \ {a} : pc'[b] = pc[b] /\ work'[b] = work[b]
        BY <1>2, GoType DEF Inspect, Places, Previewed, TypeOK
    <2>6. QED
        BY <1>2, <2>4, <2>5 DEF Inspect, TypeOK, Previewed, Places
<1>3. ASSUME NEW a \in Adapters, InspectRefuses(a) \/ Busy(a) PROVE TypeOK'
    BY <1>3, StopType DEF InspectRefuses, Busy, Stop, TypeOK, Places, Previewed, Finishing
<1>4. ASSUME NEW a \in Adapters, NEW step \in {"entered", "journalled"}, Lock(a, step),
             step = "entered" => pc[a] = "inspected"
      PROVE  TypeOK'
    <2>1. /\ pc' \in [Adapters -> Places] /\ pc'[a] = step
          /\ \A b \in Adapters \ {a} : pc'[b] = pc[b]
        BY <1>4, GoType DEF Lock, Places, Previewed, Finishing
    <2>2. QED
        BY <1>4, <2>1 DEF Lock, TypeOK, Places, Previewed, Finishing
<1>5. ASSUME NEW a \in Adapters,
             Leave(a), UNCHANGED <<files, ledger, claims, receipts, journal, installed>>,
             touched' \in {touched, {}}, spent' \in [plans : Nat, edits : Nat, crashes : Nat]
      PROVE  TypeOK'
    BY <1>5, StopType DEF Leave, Stop, TypeOK, Places, Previewed, Finishing
<1>6. ASSUME NEW a \in Adapters, Stage(a) PROVE TypeOK'
    <2>1. /\ pc' \in [Adapters -> Places] /\ pc'[a] = "staged"
          /\ \A b \in Adapters \ {a} : pc'[b] = pc[b]
        BY <1>6, GoType DEF Stage, Places, Previewed
    <2>2. QED
        BY <1>6, <2>1 DEF Stage, TypeOK, Places, Previewed, Finishing
<1>7. ASSUME NEW a \in Adapters, WriteJournal(a) PROVE TypeOK'
    <2>1. /\ pc' \in [Adapters -> Places] /\ pc'[a] = "journalled"
          /\ \A b \in Adapters \ {a} : pc'[b] = pc[b]
        BY <1>7, GoType DEF WriteJournal, Places, Finishing
    <2>2. IsJournal(journal')
        BY <1>7 DEF WriteJournal, Previews, Previewed, Staging, IsJournal
    <2>3. /\ Marks \subseteq DOMAIN journal' /\ DOMAIN journal' \subseteq Resources \cup Marks
          /\ IsPlan(journal'["receipt"].after.plan)
        BY <2>2, JournalIs
    <2>4. QED
        BY <1>7, <2>1, <2>3 DEF WriteJournal, TypeOK, Places, Previewed, Finishing
<1>8. ASSUME NEW a \in Adapters, CleanUp(a) PROVE TypeOK'
    <2>1. /\ pc' \in [Adapters -> Places] /\ pc'[a] = "cleaned"
          /\ \A b \in Adapters \ {a} : pc'[b] = pc[b]
        BY <1>8, GoType DEF CleanUp, Places, Finishing
    <2>2. QED
        BY <1>8, <2>1 DEF CleanUp, TypeOK, Places, Previewed, Finishing
<1>19. ASSUME NEW a \in Adapters, Preflight(a) PROVE TypeOK'
    <2>1. /\ pc' \in [Adapters -> Places] /\ pc'[a] = "finishing"
          /\ \A b \in Adapters \ {a} : pc'[b] = pc[b]
        BY <1>19, GoType DEF Preflight, Places, Finishing
    <2>2. /\ work'[a] = [past |-> {}] /\ DOMAIN work' = Adapters
          /\ \A b \in Adapters \ {a} : work'[b] = work[b]
        BY <1>19 DEF Preflight, TypeOK
    <2>3. QED
        BY <1>19, <2>1, <2>2 DEF Preflight, TypeOK, Places, Previewed, Finishing
<1>9. ASSUME NEW a \in Adapters, Install(a) PROVE TypeOK'
    <2>1. PICK t \in Resources \cup Marks :
            /\ pc[a] = "finishing" /\ NextStep(a, t)
            /\ files' = IF t \in Resources THEN [files EXCEPT ![t] = journal[t].after] ELSE files
            /\ claims' = IF t = "claims" THEN journal[t].after ELSE claims
            /\ ledger' = IF t = "ledger" THEN journal[t].after ELSE ledger
            /\ work' = [work EXCEPT ![a].past = @ \cup {t}]
            /\ UNCHANGED <<journal, lock, pc, spent, history>>
        BY <1>9 DEF Install
    <2>2. t \in DOMAIN journal
        BY <2>1 DEF NextStep, Ahead
    <2>3. IsJournal(journal)
        BY <2>1 DEF Journalled
    <2>4. files' \in [Resources -> Hosts]
        BY <2>1, <2>2, <2>3, JournalIs DEF TypeOK
    <2>5. claims' \in [Assets -> SUBSET Adapters] /\ ledger' \in Ledgers \cup {NoLedger}
        BY <2>1, <2>3, JournalIs DEF TypeOK
    <2>6. /\ DOMAIN work' = Adapters /\ work'[a] \in [past : SUBSET (Resources \cup Marks)]
          /\ \A b \in Adapters \ {a} : work'[b] = work[b]
        BY <2>1 DEF TypeOK
    <2>7. QED
        BY <2>1, <2>4, <2>5, <2>6 DEF TypeOK, Previewed, Finishing
<1>10. ASSUME NEW a \in Adapters, RemoveJournal(a) PROVE TypeOK'
    <2>1. /\ pc' \in [Adapters -> Places] /\ pc'[a] = "leaving"
          /\ \A b \in Adapters \ {a} : pc'[b] = pc[b]
        BY <1>10, GoType DEF RemoveJournal, Places, Finishing
    <2>2. IsPlan(journal["receipt"].after.plan)
        BY <1>10 DEF RemoveJournal, Journalled, TypeOK
    <2>3. QED
        BY <1>10, <2>1, <2>2 DEF RemoveJournal, TypeOK, Places, Previewed, Finishing
<1>11. ASSUME NEW a \in Adapters, Crash(a) PROVE TypeOK'
    <2>1. lock' \in [by : Adapters, alive : BOOLEAN] \cup {Free}
        BY <1>11 DEF Crash, Holds, TypeOK
    <2>2. spent' \in [plans : Nat, edits : Nat, crashes : Nat]
        BY <1>11 DEF Crash, TypeOK
    <2>3. QED
        BY <1>11, <2>1, <2>2, StopType DEF Crash, Stop, TypeOK, Places, Previewed, Finishing
<1>12. CASE RemoveDeadLock
    BY <1>12 DEF RemoveDeadLock, TypeOK
<1>13. ASSUME NEW r \in Resources, UserEdits(r) PROVE TypeOK'
    <2>a. files[r] # Absent => [files[r] EXCEPT !.own = Edited] \in Files
        BY DEF TypeOK, Hosts, Files
    <2>b. [IF files[r] = Absent THEN Empty ELSE files[r] EXCEPT !.foreign = TRUE] \in Files
        <3>1. (IF files[r] = Absent THEN Empty ELSE files[r]) \in Files
            BY DEF TypeOK, Hosts, Files, Empty
        <3>2. ASSUME NEW file \in Files PROVE [file EXCEPT !.foreign = TRUE] \in Files
            BY DEF Files
        <3>3. QED
            BY <3>1, <3>2
    <2>1. files' \in [Resources -> Hosts]
        <3>1. CASE files' = [files EXCEPT ![r] = Absent]
            BY <3>1 DEF TypeOK, Hosts
        <3>2. CASE files' = [files EXCEPT ![r] = [IF @ = Absent THEN Empty ELSE @ EXCEPT !.foreign = TRUE]]
            BY <3>2, <2>b DEF TypeOK, Hosts
        <3>3. CASE files[r] # Absent /\ files' = [files EXCEPT ![r].own = Edited]
            BY <3>3, <2>a DEF TypeOK, Hosts
        <3>4. QED
            BY <1>13, <3>1, <3>2, <3>3 DEF UserEdits
    <2>2. spent' \in [plans : Nat, edits : Nat, crashes : Nat] /\ touched' \subseteq Resources
        BY <1>13 DEF UserEdits, TypeOK
    <2>3. QED
        BY <1>13, <2>1, <2>2 DEF UserEdits, TypeOK
<1>14. CASE UNCHANGED vars
    BY <1>14 DEF vars, TypeOK
<1>15. ASSUME NEW a \in Adapters, Enter(a) PROVE TypeOK'
    BY <1>4, <1>15 DEF Enter
<1>16. ASSUME NEW a \in Adapters, Recover(a) PROVE TypeOK'
    BY <1>4, <1>16 DEF Recover
<1>17. ASSUME NEW a \in Adapters,
              Replay(a) \/ ApplyRefuses(a) \/ TargetRace(a) \/ FinishRefuses(a) \/ Unlock(a)
       PROVE  TypeOK'
    <2>1. spent \in [plans : Nat, edits : Nat, crashes : Nat]
        BY DEF TypeOK
    <2>2. QED
        BY <1>5, <1>17, <2>1 DEF Replay, ApplyRefuses, TargetRace, FinishRefuses, Unlock
<1>18. ASSUME NEW a \in Adapters, Interrupt(a) PROVE TypeOK'
    <2>1. spent' \in [plans : Nat, edits : Nat, crashes : Nat]
        BY <1>18 DEF Interrupt, TypeOK
    <2>2. QED
        BY <1>5, <1>18, <2>1 DEF Interrupt
<1>20. QED
    BY <1>1, <1>2, <1>3, <1>6, <1>7, <1>8, <1>9, <1>10, <1>11, <1>12, <1>13, <1>14, <1>15, <1>16,
       <1>17, <1>18, <1>19 DEF Next

-----------------------------------------------------------------------------
(* The lock. *)

\* The steps of a process under the lock.
Under(a) ==
    \/ Replay(a) \/ ApplyRefuses(a) \/ Stage(a) \/ WriteJournal(a) \/ TargetRace(a)
    \/ Preflight(a) \/ Install(a) \/ FinishRefuses(a) \/ CleanUp(a) \/ RemoveJournal(a)
    \/ Unlock(a) \/ Crash(a) \/ Interrupt(a)

\* There is one such process at a time.
LEMMA OnlyOne ==
    ASSUME Held, NEW a \in Adapters, Inside(a), NEW b \in Adapters, Inside(b)
    PROVE  a = b /\ lock # Free
<1>1. lock = [by |-> a, alive |-> TRUE] /\ lock = [by |-> b, alive |-> TRUE]
    BY DEF Held
<1>2. [by |-> a, alive |-> TRUE].by = [by |-> b, alive |-> TRUE].by
    BY <1>1
<1>3. [by |-> a, alive |-> TRUE] \in [by : Adapters, alive : BOOLEAN]
    OBVIOUS
<1>4. QED
    BY <1>1, <1>2, <1>3, FreeAssumption

\* While it is there, nobody else but the user changes what it works on.
LEMMA Alone ==
    ASSUME TypeOK, Held, [Next]_vars, NEW b \in Adapters, Inside(b)
    PROVE  \/ Under(b)
           \/ /\ pc'[b] = pc[b] /\ work'[b] = work[b] /\ lock' = lock
              /\ \/ \E r \in Resources : UserEdits(r)
                 \/ UNCHANGED <<store, history>>
<1> DEFINE Else == /\ pc'[b] = pc[b] /\ work'[b] = work[b] /\ lock' = lock
                   /\ \/ \E r \in Resources : UserEdits(r)
                      \/ UNCHANGED <<store, history>>
<1>1. lock = [by |-> b, alive |-> TRUE] /\ lock # Free
    BY OnlyOne DEF Held
<1>2. ASSUME NEW a \in Adapters, BuildPlan(a) \/ Inspect(a) \/ InspectRefuses(a) \/ Busy(a)
      PROVE  Else
    <2>1. a # b
        BY <1>2 DEF Inside, Finishing, BuildPlan, Inspect, InspectRefuses, Busy
    <2>2. QED
        BY <1>2, <2>1 DEF BuildPlan, Inspect, InspectRefuses, Busy, Go, Stop, TypeOK
<1>3. ASSUME NEW a \in Adapters, Under(a), a # b
      PROVE  Else
    <2>1. ~Inside(a)
        BY <1>3, OnlyOne
    <2>2. Crash(a)
        BY <1>3, <2>1 DEF Under, Replay, ApplyRefuses, Stage, WriteJournal, TargetRace, Preflight,
            Install, FinishRefuses, CleanUp, RemoveJournal, Unlock, Interrupt, Inside, Finishing
    <2>3. ~Holds(a)
        BY <1>1, <1>3 DEF Holds
    <2>4. QED
        BY <1>3, <2>2, <2>3 DEF Crash, Stop, Go, TypeOK, store
<1>4. ASSUME NEW a \in Adapters PROVE ~Enter(a) /\ ~Recover(a)
    BY <1>1 DEF Enter, Recover, Lock
<1>5. ~RemoveDeadLock
    BY <1>1 DEF RemoveDeadLock
<1>6. ASSUME NEW r \in Resources, UserEdits(r) PROVE Else
    BY <1>6 DEF UserEdits
<1>7. CASE UNCHANGED vars
    BY <1>7 DEF vars
<1>8. ASSUME Next PROVE Under(b) \/ Else
    <2> HIDE DEF Else
    <2>1. CASE \E a \in Adapters : BuildPlan(a) \/ Inspect(a) \/ InspectRefuses(a) \/ Busy(a)
        BY <1>2, <2>1
    <2>2. CASE \E a \in Adapters : Under(a)
        BY <1>3, <2>2
    <2>3. QED
        BY <1>4, <1>5, <1>6, <1>8, <2>1, <2>2 DEF Next, Under
<1>9. QED
    BY <1>7, <1>8

\* Steps that install nothing and write no journal.
Quiet == UNCHANGED <<state, journal, history>> /\ spent'.edits = spent.edits

LEMMA StepCases ==
    ASSUME TypeOK, Staging, [Next]_vars
    PROVE  \/ \E a \in Adapters : WriteJournal(a) \/ Install(a) \/ RemoveJournal(a)
           \/ \E r \in Resources : UserEdits(r)
           \/ Quiet /\ (staged' = staged \/ journal = NoJournal \/ \E a \in Adapters : CleanUp(a))
<1> DEFINE Calm == Quiet /\ (staged' = staged \/ journal = NoJournal \/ \E a \in Adapters : CleanUp(a))
<1> USE DEF store, state, history
<1>1. ASSUME NEW a \in Adapters,
             InspectRefuses(a) \/ Busy(a) \/ Replay(a) \/ ApplyRefuses(a) \/ Preflight(a)
                \/ FinishRefuses(a) \/ Unlock(a) \/ Inspect(a) \/ Enter(a) \/ Recover(a)
      PROVE  Calm
    BY <1>1 DEF Quiet, InspectRefuses, Busy, Replay, ApplyRefuses, Preflight, FinishRefuses, Unlock,
        Inspect, Enter, Recover, Lock
<1>2. ASSUME NEW a \in Adapters, BuildPlan(a) PROVE Calm
    BY <1>2 DEF Quiet, BuildPlan, TypeOK
<1>3. ASSUME NEW a \in Adapters, Stage(a) \/ CleanUp(a) PROVE Calm
    BY <1>3 DEF Quiet, Stage, CleanUp
<1>4. ASSUME NEW a \in Adapters, TargetRace(a) PROVE Calm
    BY <1>4 DEF Quiet, TargetRace, Staging
<1>5. ASSUME NEW a \in Adapters, Crash(a) PROVE Calm
    BY <1>5 DEF Quiet, Crash, TypeOK
<1>6. ASSUME NEW a \in Adapters, Interrupt(a) PROVE Calm
    BY <1>6 DEF Quiet, Interrupt, Staging, TypeOK
<1>7. CASE RemoveDeadLock
    BY <1>7 DEF Quiet, RemoveDeadLock
<1>8. CASE UNCHANGED vars
    BY <1>8 DEF Quiet, vars
<1> HIDE DEF Calm
<1>9. QED
    BY <1>1, <1>2, <1>3, <1>4, <1>5, <1>6, <1>7, <1>8 DEF Next, Calm

LEMMA HeldNext ==
    ASSUME TypeOK, Held, [Next]_vars
    PROVE  Held'
<1> SUFFICES ASSUME NEW b \in Adapters, Inside(b)'
             PROVE  lock' = [by |-> b, alive |-> TRUE]
    BY DEF Held
<1>1. CASE Inside(b)
    <2>1. CASE Under(b)
        <3>1. lock' = lock \/ ~Inside(b)'
            BY <2>1 DEF Under, Replay, ApplyRefuses, Stage, WriteJournal, TargetRace, Preflight,
                Install, FinishRefuses, CleanUp, RemoveJournal, Unlock, Crash, Interrupt, Leave, Stop,
                Go, Inside, Finishing, TypeOK
        <3>2. QED
            BY <1>1, <3>1 DEF Held
    <2>2. CASE lock' = lock
        BY <1>1, <2>2 DEF Held
    <2>3. QED
        BY <1>1, <2>1, <2>2, Alone
<1>2. CASE ~Inside(b)
    <2>1. Enter(b) \/ Recover(b)
        BY <1>2 DEF Next, vars, BuildPlan, Inspect, InspectRefuses, Enter, Busy, Replay, ApplyRefuses,
            Stage, WriteJournal, TargetRace, Recover, Preflight, Install, FinishRefuses, CleanUp,
            RemoveJournal, Unlock, Crash, Interrupt, RemoveDeadLock, UserEdits, Lock, Leave, Stop, Go,
            Inside, Finishing, TypeOK
    <2>2. QED
        BY <2>1 DEF Enter, Recover, Lock
<1>3. QED
    BY <1>1, <1>2

-----------------------------------------------------------------------------
(* The plan, the stages and the journal. *)

LEMMA PreviewsNext ==
    ASSUME TypeOK, Previews, [Next]_vars
    PROVE  Previews'
<1> SUFFICES ASSUME NEW b \in Adapters, pc'[b] \in Previewed
             PROVE  Sound(work'[b]) /\ work'[b].plan.adapter = b
    BY DEF Previews
<1>1. CASE Inspect(b)
    <2> DEFINE plan == work[b]
               preview == [plan |-> plan, ledger |-> LedgerAfter(plan, spent.plans),
                           claims |-> ClaimsAfter(plan, claims)]
    <2>1. /\ IsPlan(plan) /\ \A r \in plan.resources : Ready(plan, r)
          /\ plan.adapter = b /\ spent.plans \in Nat
        BY <1>1 DEF Inspect, TypeOK
    <2>2. work'[b] = preview
        BY <1>1 DEF Inspect, TypeOK
    <2> HIDE DEF plan
    <2>3. /\ LedgerAfter(plan, spent.plans) \in Ledgers
          /\ \A r \in Resources : LedgerAfter(plan, spent.plans).entries[r] = EntryAfter(plan, r)
        BY <2>1, LedgerAfterIs
    <2>4. ClaimsAfter(plan, claims) \in [Assets -> SUBSET Adapters]
        BY <2>1 DEF ClaimsAfter, TypeOK, IsPlan
    <2>5. Sound(preview)
        BY <2>1, <2>3, <2>4 DEF Sound, IsPreview
    <2>6. QED
        BY <2>1, <2>2, <2>5
<1>2. CASE ~Inspect(b)
    <2>1. pc[b] \in Previewed /\ work'[b] = work[b]
        BY <1>2 DEF Next, vars, BuildPlan, Inspect, InspectRefuses, Enter, Busy, Replay, ApplyRefuses,
            Stage, WriteJournal, TargetRace, Recover, Preflight, Install, FinishRefuses, CleanUp,
            RemoveJournal, Unlock, Crash, Interrupt, RemoveDeadLock, UserEdits, Lock, Leave, Stop, Go,
            Previewed, TypeOK
    <2>2. QED
        BY <2>1 DEF Previews
<1>3. QED
    BY <1>1, <1>2

\* A process under the lock that has something staged has just staged it.
LEMMA StagingNext ==
    ASSUME TypeOK, Held, Staging, [Next]_vars
    PROVE  Staging'
<1> SUFFICES ASSUME NEW b \in Adapters, pc'[b] = "staged"
             PROVE  /\ journal' = NoJournal
                    /\ ledger' = work'[b].plan.ledger
                    /\ staged' = {t \in Moved(work'[b]) \cup Marks : After(work'[b], t) # Absent}
    BY DEF Staging
<1>1. Inside(b)
    BY DEF Next, vars, BuildPlan, Inspect, InspectRefuses, Enter, Busy, Replay, ApplyRefuses,
        Stage, WriteJournal, TargetRace, Recover, Preflight, Install, FinishRefuses, CleanUp,
        RemoveJournal, Unlock, Crash, Interrupt, RemoveDeadLock, UserEdits, Lock, Leave, Stop, Go,
        Inside, TypeOK
<1>2. CASE Under(b)
    <2>1. Stage(b)
        BY <1>2 DEF Under, Replay, ApplyRefuses, Stage, WriteJournal, TargetRace, Preflight,
            Install, FinishRefuses, CleanUp, RemoveJournal, Unlock, Crash, Interrupt, Leave, Stop,
            Go, TypeOK
    <2>2. /\ journal' = NoJournal /\ work' = work
          /\ ledger' = work[b].plan.ledger
          /\ staged' = StageNames(Steps(work[b], claims, ledger))
        BY <2>1 DEF Stage, Unmoved, state
    <2>3. StageNames(Steps(work[b], claims, ledger)) =
              {t \in Moved(work[b]) \cup Marks : After(work[b], t) # Absent}
        BY DEF StageNames, Steps
    <2>4. QED
        BY <2>2, <2>3
<1>3. CASE /\ pc'[b] = pc[b] /\ work'[b] = work[b]
           /\ \/ \E r \in Resources : UserEdits(r)
              \/ UNCHANGED <<store, history>>
    <2>1. UNCHANGED <<journal, ledger, staged>>
        BY <1>3 DEF UserEdits, store, state
    <2>2. QED
        BY <1>3, <2>1 DEF Staging
<1>4. QED
    BY <1>1, <1>2, <1>3, Alone

LEMMA JournalWritten ==
    ASSUME Previews, Staging, NEW a \in Adapters, WriteJournal(a)
    PROVE  /\ Sound(work[a]) /\ work[a].plan.adapter = a
           /\ ledger = work[a].plan.ledger
           /\ journal = NoJournal
           /\ staged = {t \in Moved(work[a]) \cup Marks : After(work[a], t) # Absent}
           /\ journal' = Steps(work[a], claims, work[a].plan.ledger)
           /\ journal' # NoJournal /\ IsJournal(journal')
           /\ UNCHANGED <<state, staged, spent, installed>> /\ touched' = {}
<1>a. /\ pc[a] = "staged" /\ journal' = Steps(work[a], claims, ledger)
      /\ UNCHANGED <<state, staged, spent, installed>> /\ touched' = {}
    BY DEF WriteJournal
<1>b. Sound(work[a]) /\ work[a].plan.adapter = a
    BY <1>a DEF Previews, Previewed
<1>c. /\ ledger = work[a].plan.ledger
      /\ journal = NoJournal
      /\ staged = {t \in Moved(work[a]) \cup Marks : After(work[a], t) # Absent}
    BY <1>a DEF Staging
<1>d. ledger = work[a].plan.ledger
    BY <1>c
<1>1. journal' = Steps(work[a], claims, work[a].plan.ledger)
    BY <1>a, <1>d
<1>3. IsJournal(journal')
    BY <1>1, <1>b DEF IsJournal
<1>2. journal' # NoJournal
    BY <1>3, JournalIs DEF Marks, NoJournal
<1>4. QED
    BY <1>a, <1>b, <1>c, <1>1, <1>2, <1>3

LEMMA JournalledNext ==
    ASSUME TypeOK, Held, Previews, Staging, Journalled, [Next]_vars
    PROVE  Journalled'
<1>1. journal' # NoJournal => IsJournal(journal')
    <2>1. ASSUME NEW a \in Adapters, WriteJournal(a) PROVE IsJournal(journal')
        BY <2>1, JournalWritten
    <2>2. ASSUME NEW a \in Adapters, RemoveJournal(a) PROVE journal' = NoJournal
        BY <2>2 DEF RemoveJournal
    <2>3. ASSUME \/ \E a \in Adapters : Install(a)
                 \/ \E r \in Resources : UserEdits(r)
                 \/ Quiet
          PROVE  journal' = journal
        BY <2>3 DEF Install, UserEdits, Quiet
    <2>4. QED
        BY <2>1, <2>2, <2>3, StepCases DEF Journalled
<1>2. ASSUME NEW b \in Adapters, pc'[b] \in {"journalled", "finishing", "cleaned"}
      PROVE  journal' # NoJournal
    <2>1. CASE ~Inside(b)
        <3>1. Recover(b)
            BY <1>2, <2>1 DEF Next, vars, BuildPlan, Inspect, InspectRefuses, Enter, Busy, Replay,
                ApplyRefuses, Stage, WriteJournal, TargetRace, Recover, Preflight, Install,
                FinishRefuses, CleanUp, RemoveJournal, Unlock, Crash, Interrupt, RemoveDeadLock,
                UserEdits, Lock, Leave, Stop, Go, Inside, Finishing, TypeOK
        <3>2. QED
            BY <3>1 DEF Recover, Lock, store
    <2>2. CASE Under(b)
        <3>1. WriteJournal(b) \/ Preflight(b) \/ Install(b) \/ CleanUp(b)
            BY <1>2, <2>2 DEF Under, Replay, ApplyRefuses, Stage, WriteJournal, TargetRace, Preflight,
                Install, FinishRefuses, CleanUp, RemoveJournal, Unlock, Crash, Interrupt, Leave, Stop,
                Go, TypeOK
        <3>2. ASSUME WriteJournal(b) PROVE journal' # NoJournal
            BY <3>2, JournalWritten
        <3>3. ASSUME Preflight(b) \/ Install(b) \/ CleanUp(b) PROVE journal' = journal /\ journal # NoJournal
            BY <3>3 DEF Preflight, Install, CleanUp, Journalled, store
        <3>4. QED
            BY <3>1, <3>2, <3>3
    <2>3. CASE /\ pc'[b] = pc[b]
               /\ \/ \E r \in Resources : UserEdits(r)
                  \/ UNCHANGED <<store, history>>
        <3>1. journal' = journal
            BY <2>3 DEF UserEdits, store
        <3>2. QED
            BY <1>2, <2>3, <3>1 DEF Journalled
    <2>4. QED
        BY <2>1, <2>2, <2>3, Alone
<1>3. QED
    BY <1>1, <1>2 DEF Journalled

-----------------------------------------------------------------------------
(* Rolling forward. *)

LEMMA CurrentSame ==
    ASSUME UNCHANGED <<state, journal>>
    PROVE  \A t : Current(t)' = Current(t)
BY DEF Current, state

LEMMA NothingInNone == DOMAIN NoJournal = {}
BY DEF NoJournal

\* An installation brings one target to after and leaves the rest alone.
LEMMA InstallIs ==
    ASSUME TypeOK, Journalled, NEW a \in Adapters, Install(a)
    PROVE  /\ journal # NoJournal /\ IsJournal(journal)
           /\ \E t \in DOMAIN journal :
                 /\ Current(t) \in {journal[t].before, journal[t].after}
                 /\ Current(t)' = journal[t].after
                 /\ \A u \in DOMAIN journal \ {t} : Current(u)' = Current(u)
                 /\ \A r \in Resources \ {t} : files'[r] = files[r]
                 /\ staged \ {t} \subseteq staged'
                 /\ work' = [work EXCEPT ![a].past = @ \cup {t}]
           /\ UNCHANGED <<journal, spent, installed, touched>>
<1>1. PICK t \in Resources \cup Marks :
        /\ pc[a] = "finishing" /\ NextStep(a, t)
        /\ Current(t) \in {journal[t].before, journal[t].after}
        /\ files' = IF t \in Resources THEN [files EXCEPT ![t] = journal[t].after] ELSE files
        /\ claims' = IF t = "claims" THEN journal[t].after ELSE claims
        /\ ledger' = IF t = "ledger" THEN journal[t].after ELSE ledger
        /\ receipts' = IF t = "receipt" THEN receipts \cup {journal[t].after} ELSE receipts
        /\ staged' = IF Current(t) = journal[t].after THEN staged ELSE staged \ {t}
        /\ work' = [work EXCEPT ![a].past = @ \cup {t}]
        /\ UNCHANGED <<journal, lock, pc, spent, history>>
    BY DEF Install, Installable
<1>2. t \in DOMAIN journal
    BY <1>1 DEF NextStep, Ahead
<1>3. journal # NoJournal /\ IsJournal(journal)
    BY <1>1 DEF Journalled
<1>4. DOMAIN journal \subseteq Resources \cup Marks
    BY <1>3, JournalIs
<1>5. Current(t)' = journal[t].after
    <2>1. CASE t \in Resources
        <3>1. t \notin Marks
            BY <2>1, OrderAssumption
        <3>2. files'[t] = journal[t].after
            BY <1>1, <2>1 DEF TypeOK
        <3>3. QED
            BY <3>1, <3>2 DEF Current, Marks
    <2>2. CASE t = "claims"
        BY <1>1, <2>2 DEF Current
    <2>3. CASE t = "ledger"
        BY <1>1, <2>3 DEF Current
    <2>4. CASE t = "receipt"
        BY <1>1, <2>4 DEF Current
    <2>5. QED
        BY <2>1, <2>2, <2>3, <2>4 DEF Marks
<1>6. \A r \in Resources \ {t} : files'[r] = files[r]
    BY <1>1 DEF TypeOK
<1>7. ASSUME NEW u \in DOMAIN journal \ {t} PROVE Current(u)' = Current(u)
    <2>1. CASE u \in Resources
        <3>1. u \notin Marks
            BY <2>1, OrderAssumption
        <3>2. files'[u] = files[u]
            BY <1>6, <2>1
        <3>3. QED
            BY <3>1, <3>2 DEF Current, Marks
    <2>2. CASE u = "claims"
        BY <1>1, <2>2 DEF Current
    <2>3. CASE u = "ledger"
        BY <1>1, <2>3 DEF Current
    <2>4. CASE u = "receipt"
        BY <1>1, <2>4 DEF Current
    <2>5. QED
        BY <1>4, <2>1, <2>2, <2>3, <2>4 DEF Marks
<1>8. QED
    BY <1>1, <1>2, <1>3, <1>5, <1>6, <1>7 DEF history

\* The user's hand is seen at one file.
LEMMA EditIs ==
    ASSUME TypeOK, NEW r \in Resources, UserEdits(r)
    PROVE  /\ \A q \in Resources \ {r} : files'[q] = files[q]
           /\ \A u \in DOMAIN journal \ {r} : Current(u)' = Current(u)
           /\ r \in DOMAIN journal => touched' = touched \cup {r}
           /\ r \notin DOMAIN journal => touched' = touched
           /\ UNCHANGED <<ledger, claims, receipts, journal, staged, installed>>
           /\ spent'.edits # spent.edits /\ spent'.edits # 0
<1>1. /\ touched' = IF r \in DOMAIN journal THEN touched \cup {r} ELSE touched
      /\ UNCHANGED <<ledger, claims, receipts, journal, staged, installed>>
      /\ spent' = [spent EXCEPT !.edits = @ + 1]
    BY DEF UserEdits
<1>2. ASSUME NEW q \in Resources \ {r} PROVE files'[q] = files[q]
    <2>1. CASE files' = [files EXCEPT ![r] = Absent]
        BY <2>1 DEF TypeOK
    <2>2. CASE files' = [files EXCEPT ![r] = [IF @ = Absent THEN Empty ELSE @ EXCEPT !.foreign = TRUE]]
        BY <2>2 DEF TypeOK
    <2>3. CASE files' = [files EXCEPT ![r].own = Edited]
        BY <2>3 DEF TypeOK
    <2>4. QED
        BY <2>1, <2>2, <2>3 DEF UserEdits
<1>3. ASSUME NEW u \in DOMAIN journal \ {r} PROVE Current(u)' = Current(u)
    <2>1. DOMAIN journal \subseteq Resources \cup Marks
        BY NothingInNone DEF TypeOK
    <2>2. CASE u \in Resources
        BY <1>2, <2>2, OrderAssumption DEF Current, Marks
    <2>3. CASE u \in Marks
        BY <1>1, <2>3 DEF Current, Marks
    <2>4. QED
        BY <2>1, <2>2, <2>3
<1>4. spent'.edits = spent.edits + 1 /\ spent.edits \in Nat
    BY <1>1 DEF TypeOK
<1>5. QED
    BY <1>1, <1>2, <1>3, <1>4

LEMMA RollsNext ==
    ASSUME TypeOK, Previews, Staging, Journalled, Passed, RollsForward, [Next]_vars
    PROVE  RollsForward'
<1> SUFFICES ASSUME NEW u \in DOMAIN journal', u \notin touched'
             PROVE  Installable(u)'
    BY DEF RollsForward
<1>1. ASSUME NEW a \in Adapters, WriteJournal(a) PROVE Installable(u)'
    <2> DEFINE preview == work[a]
    <2>1. /\ Sound(preview) /\ ledger = preview.plan.ledger
          /\ staged = {t \in Moved(preview) \cup Marks : After(preview, t) # Absent}
          /\ journal' = Steps(preview, claims, preview.plan.ledger)
          /\ UNCHANGED <<state, staged>>
        BY <1>1, JournalWritten
    <2>2. \A r \in preview.plan.resources : files[r] = preview.plan.seen[r]
        BY <1>1 DEF WriteJournal
    <2> HIDE DEF preview
    <2>3. /\ DOMAIN journal' = Moved(preview) \cup Marks
          /\ \A t \in Moved(preview) \cup Marks : journal'[t].after = After(preview, t)
          /\ journal'["claims"].before = claims
          /\ journal'["ledger"].before = preview.plan.ledger
          /\ journal'["receipt"].before = Absent
          /\ \A r \in Moved(preview) : journal'[r].before = preview.plan.seen[r]
          /\ Moved(preview) \subseteq Resources
        <3> DEFINE written == Steps(preview, claims, preview.plan.ledger)
        <3>1. Moved(preview) \subseteq Resources
            BY <2>1 DEF Moved, Sound, IsPreview, IsPlan
        <3>2. /\ DOMAIN written = Moved(preview) \cup Marks
              /\ \A t \in Moved(preview) \cup Marks : written[t].after = After(preview, t)
            BY DEF Steps
        <3>3. /\ written["claims"].before = claims
              /\ written["ledger"].before = preview.plan.ledger
              /\ written["receipt"].before = Absent
            BY DEF Steps, Marks
        <3>4. \A r \in Moved(preview) : written[r].before = preview.plan.seen[r]
            BY <3>1, OrderAssumption DEF Steps, Marks
        <3>5. journal' = written
            BY <2>1
        <3> HIDE DEF written
        <3>6. QED
            BY <3>1, <3>2, <3>3, <3>4, <3>5
    <2>4. journal'[u].after # Absent => u \in staged'
        BY <2>1, <2>3
    <2>5. Current(u)' \in {journal'[u].before, journal'[u].after}
        <3>1. CASE u \in Moved(preview)
            <4>1. u \in preview.plan.resources /\ u \notin Marks
                BY <2>3, <3>1, OrderAssumption DEF Moved
            <4>2. Current(u)' = files[u]
                BY <2>1, <4>1 DEF Current, Marks, state
            <4>3. QED
                BY <2>2, <2>3, <3>1, <4>1, <4>2
        <3>2. CASE u = "claims"
            BY <2>1, <2>3, <3>2 DEF Current, state
        <3>3. CASE u = "ledger"
            BY <2>1, <2>3, <3>3 DEF Current, state
        <3>4. CASE u = "receipt"
            BY <2>3, <3>4 DEF Current
        <3>5. QED
            BY <2>3, <3>1, <3>2, <3>3, <3>4 DEF Marks
    <2>6. QED
        BY <2>4, <2>5 DEF Installable
<1>2. ASSUME NEW a \in Adapters, Install(a) PROVE Installable(u)'
    <2>1. PICK t \in DOMAIN journal :
            /\ Current(t)' = journal[t].after
            /\ \A v \in DOMAIN journal \ {t} : Current(v)' = Current(v)
            /\ staged \ {t} \subseteq staged'
        BY <1>2, InstallIs
    <2>2. journal' = journal /\ touched' = touched
        BY <1>2, InstallIs
    <2>3. CASE u = t
        BY <2>1, <2>2, <2>3 DEF Installable
    <2>4. CASE u # t
        BY <2>1, <2>2, <2>4 DEF Installable, RollsForward
    <2>5. QED
        BY <2>3, <2>4
<1>3. ASSUME NEW a \in Adapters PROVE ~RemoveJournal(a)
    BY NothingInNone DEF RemoveJournal
<1>4. ASSUME NEW r \in Resources, UserEdits(r) PROVE Installable(u)'
    <2>1. journal' = journal /\ staged' = staged /\ u # r /\ u \notin touched
        BY <1>4, EditIs
    <2>2. Current(u)' = Current(u)
        BY <1>4, <2>1, EditIs
    <2>3. QED
        BY <2>1, <2>2 DEF Installable, RollsForward
<1>5. CASE Quiet /\ (staged' = staged \/ journal = NoJournal \/ \E a \in Adapters : CleanUp(a))
    <2>1. journal' = journal /\ touched' = touched /\ Current(u)' = Current(u)
        BY <1>5, CurrentSame DEF Quiet, history
    <2>2. CASE staged' = staged
        BY <2>1, <2>2 DEF Installable, RollsForward
    <2>3. CASE journal = NoJournal
        BY <2>1, <2>3, NothingInNone
    <2>4. ASSUME NEW a \in Adapters, CleanUp(a) PROVE Installable(u)'
        <3>1. Current(u) = journal[u].after
            BY <2>1, <2>4 DEF CleanUp, Ahead, Passed
        <3>2. QED
            BY <2>1, <3>1 DEF Installable
    <2>5. QED
        BY <1>5, <2>2, <2>3, <2>4
<1>6. QED
    BY <1>1, <1>2, <1>3, <1>4, <1>5, StepCases

LEMMA PassedNext ==
    ASSUME TypeOK, Held, Journalled, Passed, [Next]_vars
    PROVE  Passed'
<1> SUFFICES ASSUME NEW b \in Adapters, pc'[b] = "finishing",
                    NEW u \in DOMAIN journal', u \in work'[b].past, u \notin touched'
             PROVE  Current(u)' = journal'[u].after
    BY DEF Passed
<1>1. Inside(b)
    BY DEF Next, vars, BuildPlan, Inspect, InspectRefuses, Enter, Busy, Replay, ApplyRefuses,
        Stage, WriteJournal, TargetRace, Recover, Preflight, Install, FinishRefuses, CleanUp,
        RemoveJournal, Unlock, Crash, Interrupt, RemoveDeadLock, UserEdits, Lock, Leave, Stop, Go,
        Inside, Finishing, TypeOK
<1>2. CASE Under(b)
    <2>1. Preflight(b) \/ Install(b)
        BY <1>2 DEF Under, Replay, ApplyRefuses, Stage, WriteJournal, TargetRace, Preflight,
            Install, FinishRefuses, CleanUp, RemoveJournal, Unlock, Crash, Interrupt, Leave, Stop,
            Go, TypeOK
    <2>2. ~Preflight(b)
        BY DEF Preflight, TypeOK
    <2>3. PICK t \in DOMAIN journal :
            /\ Current(t)' = journal[t].after
            /\ \A v \in DOMAIN journal \ {t} : Current(v)' = Current(v)
            /\ work' = [work EXCEPT ![b].past = @ \cup {t}]
        BY <2>1, <2>2, InstallIs
    <2>4. journal' = journal /\ touched' = touched /\ pc[b] = "finishing"
        BY <2>1, <2>2 DEF Install, history
    <2>5. u # t => u \in work[b].past
        BY <2>3 DEF TypeOK
    <2>6. QED
        BY <2>3, <2>4, <2>5 DEF Passed
<1>3. ASSUME pc'[b] = pc[b], work'[b] = work[b], NEW r \in Resources, UserEdits(r)
      PROVE  Current(u)' = journal'[u].after
    <2>1. journal' = journal /\ u # r /\ u \notin touched
        BY <1>3, EditIs
    <2>2. QED
        BY <1>3, <2>1, EditIs DEF Passed
<1>4. ASSUME pc'[b] = pc[b], work'[b] = work[b], UNCHANGED <<store, history>>
      PROVE  Current(u)' = journal'[u].after
    <2>1. UNCHANGED <<state, journal>> /\ touched' = touched
        BY <1>4 DEF store, history
    <2>2. QED
        BY <1>4, <2>1, CurrentSame DEF Passed
<1>5. QED
    BY <1>1, <1>2, <1>3, <1>4, Alone

LEMMA CleanedNext ==
    ASSUME TypeOK, Held, Passed, Cleaned, [Next]_vars
    PROVE  Cleaned'
<1> SUFFICES ASSUME NEW b \in Adapters, pc'[b] = "cleaned",
                    NEW u \in DOMAIN journal', u \notin touched'
             PROVE  Current(u)' = journal'[u].after
    BY DEF Cleaned
<1>1. Inside(b)
    BY DEF Next, vars, BuildPlan, Inspect, InspectRefuses, Enter, Busy, Replay, ApplyRefuses,
        Stage, WriteJournal, TargetRace, Recover, Preflight, Install, FinishRefuses, CleanUp,
        RemoveJournal, Unlock, Crash, Interrupt, RemoveDeadLock, UserEdits, Lock, Leave, Stop, Go,
        Inside, Finishing, TypeOK
<1>2. CASE Under(b)
    <2>1. CleanUp(b)
        BY <1>2 DEF Under, Replay, ApplyRefuses, Stage, WriteJournal, TargetRace, Preflight,
            Install, FinishRefuses, CleanUp, RemoveJournal, Unlock, Crash, Interrupt, Leave, Stop,
            Go, TypeOK
    <2>2. UNCHANGED <<state, journal, history>> /\ pc[b] = "finishing" /\ Ahead(b) = {}
        BY <2>1 DEF CleanUp
    <2>3. Current(u)' = Current(u) /\ journal' = journal /\ u \in work[b].past /\ touched' = touched
        BY <2>2, CurrentSame DEF Ahead, history
    <2>4. QED
        BY <2>2, <2>3 DEF Passed
<1>3. ASSUME pc'[b] = pc[b], NEW r \in Resources, UserEdits(r)
      PROVE  Current(u)' = journal'[u].after
    <2>1. journal' = journal /\ u # r /\ u \notin touched
        BY <1>3, EditIs
    <2>2. QED
        BY <1>3, <2>1, EditIs DEF Cleaned
<1>4. ASSUME pc'[b] = pc[b], UNCHANGED <<store, history>>
      PROVE  Current(u)' = journal'[u].after
    <2>1. UNCHANGED <<state, journal>> /\ touched' = touched
        BY <1>4 DEF store, history
    <2>2. QED
        BY <1>4, <2>1, CurrentSame DEF Cleaned
<1>5. QED
    BY <1>1, <1>2, <1>3, <1>4, Alone

-----------------------------------------------------------------------------
(* Files and ledger, with the pending transaction counted as done. *)

\* From the commit point on, the files of the plan are what it makes of them, and
\* nothing else has changed.
LEMMA WriteEffect ==
    ASSUME TypeOK, Previews, Staging, NEW a \in Adapters, WriteJournal(a), NEW r \in Resources
    PROVE  LET plan == work[a].plan
           IN  /\ r \in plan.resources =>
                     /\ Effect(plan, r)
                     /\ FileNow(r) = plan.seen[r] /\ FileNow(r)' = FileAfter(plan, r)
                     /\ EntryNow(r) = Entry(plan.ledger, r) /\ EntryNow(r)' = EntryAfter(plan, r)
               /\ r \notin plan.resources => FileNow(r)' = FileNow(r) /\ EntryNow(r)' = EntryNow(r)
<1> DEFINE preview == work[a]
           plan == preview.plan
<1>1. /\ Sound(preview) /\ ledger = plan.ledger /\ journal = NoJournal /\ journal' # NoJournal
      /\ journal' = Steps(preview, claims, plan.ledger)
      /\ files' = files /\ touched' = {}
    BY JournalWritten DEF state
<1>2. \A q \in plan.resources : files[q] = plan.seen[q]
    BY DEF WriteJournal
<1>3. IsPlan(plan) /\ preview.ledger \in Ledgers /\ \A q \in plan.resources : Ready(plan, q)
    BY <1>1 DEF Sound, IsPreview
<1>4. FileNow(r) = files[r] /\ EntryNow(r) = Entry(plan.ledger, r)
    BY <1>1, NothingInNone DEF FileNow, Due, EntryNow
<1>5. EntryNow(r)' = EntryAfter(plan, r)
    <2>1. "ledger" \in Moved(preview) \cup Marks /\ After(preview, "ledger") = preview.ledger
        BY DEF Marks, After
    <2>2. Steps(preview, claims, plan.ledger)["ledger"].after = preview.ledger
        BY <2>1 DEF Steps
    <2>3. Entry(preview.ledger, r) = preview.ledger.entries[r]
        BY <1>3, EntryOf
    <2>4. QED
        BY <1>1, <2>2, <2>3 DEF EntryNow, Sound
<1>6. FileNow(r)' = IF r \in Moved(preview) THEN FileAfter(plan, r) ELSE files[r]
    <2>1. r \notin Marks
        BY OrderAssumption
    <2>2. /\ DOMAIN journal' = Moved(preview) \cup Marks
          /\ \A q \in Moved(preview) :
                journal'[q].before = plan.seen[q] /\ journal'[q].after = FileAfter(plan, q)
        BY <1>1, StepsIs
    <2>3. r \in Moved(preview) => r \in plan.resources
        BY DEF Moved
    <2>4. QED
        BY <1>1, <1>2, <2>1, <2>2, <2>3 DEF FileNow, Due
<1>7. CASE r \in plan.resources
    <2>1. r \in Moved(preview) <=> FileAfter(plan, r) # plan.seen[r]
        BY <1>7 DEF Moved
    <2>2. QED
        BY <1>2, <1>3, <1>4, <1>5, <1>6, <1>7, <2>1, EffectHolds
<1>8. CASE r \notin plan.resources
    <2>1. r \notin Moved(preview)
        BY <1>8 DEF Moved
    <2>2. EntryAfter(plan, r) = Entry(plan.ledger, r)
        BY <1>8 DEF EntryAfter
    <2>3. QED
        BY <1>4, <1>5, <1>6, <1>8, <2>1, <2>2
<1>9. QED
    BY <1>7, <1>8

\* An installation shows only where the user had touched the file.
LEMMA InstallEffect ==
    ASSUME TypeOK, Journalled, NEW a \in Adapters, Install(a), NEW r \in Resources
    PROVE  /\ EntryNow(r)' = EntryNow(r) /\ EntryNow(r) = EntryIn(journal, r)
           /\ FileNow(r)' # FileNow(r) =>
                 /\ r \in DOMAIN journal /\ r \in touched
                 /\ FileNow(r) = journal[r].before /\ FileNow(r)' = journal[r].after
<1>1. /\ journal # NoJournal /\ IsJournal(journal)
      /\ UNCHANGED <<journal, spent, installed, touched>>
    BY InstallIs
<1>2. PICK t \in DOMAIN journal :
        /\ Current(t) \in {journal[t].before, journal[t].after} /\ Current(t)' = journal[t].after
        /\ \A q \in Resources \ {t} : files'[q] = files[q]
    BY InstallIs
<1>3. EntryNow(r)' = EntryNow(r) /\ EntryNow(r) = EntryIn(journal, r)
    BY <1>1 DEF EntryNow, EntryIn
<1>4. CASE r # t
    BY <1>1, <1>2, <1>3, <1>4 DEF FileNow, Due
<1>5. CASE r = t
    <2>1. r \notin Marks
        BY OrderAssumption
    <2>2. files[r] \in {journal[r].before, journal[r].after} /\ files'[r] = journal[r].after
        BY <1>2, <1>5, <2>1 DEF Current, Marks
    <2>3. journal[r].before # journal[r].after
        BY <1>1, <1>2, <1>5, JournalIs
    <2>4. FileNow(r)' = journal[r].after
        BY <1>1, <2>2, <2>3 DEF FileNow, Due
    <2>5. r \notin touched => FileNow(r) = journal[r].after
        BY <1>2, <1>5, <2>2 DEF FileNow, Due
    <2>6. r \in touched => FileNow(r) = files[r]
        BY DEF FileNow, Due
    <2>7. QED
        BY <1>2, <1>3, <1>5, <2>2, <2>4, <2>5, <2>6
<1>6. QED
    BY <1>4, <1>5

\* Removing the journal shows nowhere: all of it is in place.
LEMMA RemoveEffect ==
    ASSUME TypeOK, Journalled, Cleaned, NEW a \in Adapters, RemoveJournal(a), NEW r \in Resources
    PROVE  /\ FileNow(r)' = FileNow(r) /\ EntryNow(r)' = EntryNow(r)
           /\ journal # NoJournal /\ IsJournal(journal) /\ EntryNow(r) = EntryIn(journal, r)
<1>1. /\ journal # NoJournal /\ IsJournal(journal) /\ journal' = NoJournal
      /\ UNCHANGED state
      /\ \A t \in DOMAIN journal : t \notin touched => Current(t) = journal[t].after
    BY DEF RemoveJournal, Journalled, Cleaned
<1>2. r \notin Marks
    BY OrderAssumption
<1>3. FileNow(r)' = files[r]
    BY <1>1, NothingInNone DEF FileNow, Due, state
<1>4. FileNow(r) = files[r]
    <2>1. ASSUME Due(r) PROVE files[r] = journal[r].after
        BY <1>1, <1>2, <2>1 DEF Due, Current, Marks
    <2>2. QED
        BY <2>1 DEF FileNow
<1>5. ledger = journal["ledger"].after
    <2>1. "ledger" \in DOMAIN journal /\ "ledger" \notin touched
        BY <1>1, JournalIs, OrderAssumption DEF Marks, TypeOK
    <2>2. QED
        BY <1>1, <2>1 DEF Current
<1>6. EntryNow(r) = EntryIn(journal, r)
    BY <1>1 DEF EntryNow, EntryIn
<1>7. EntryNow(r)' = EntryNow(r)
    BY <1>1, <1>5 DEF EntryNow, state
<1>8. QED
    BY <1>1, <1>3, <1>4, <1>6, <1>7

LEMMA EditEffect ==
    ASSUME TypeOK, NEW r \in Resources, UserEdits(r), NEW q \in Resources
    PROVE  EntryNow(q)' = EntryNow(q) /\ (q # r => FileNow(q)' = FileNow(q))
<1>1. /\ journal' = journal /\ ledger' = ledger
      /\ q # r => files'[q] = files[q] /\ (q \in touched' <=> q \in touched)
    BY EditIs
<1>2. QED
    BY <1>1 DEF EntryNow, FileNow, Due

LEMMA QuietEffect ==
    ASSUME Quiet, NEW r \in Resources
    PROVE  EntryNow(r)' = EntryNow(r) /\ FileNow(r)' = FileNow(r)
BY DEF Quiet, EntryNow, FileNow, Due, state, history

LEMMA AccountedNext ==
    ASSUME TypeOK, Previews, Staging, Journalled, Cleaned, Accounted, [Next]_vars
    PROVE  Accounted'
<1> SUFFICES ASSUME spent'.edits = 0
             PROVE  /\ touched' = {}
                    /\ \A r \in Resources : EntryNow(r)' # None => FileNow(r)' = EntryNow(r)'.current
    BY DEF Accounted
<1> DEFINE Goal == /\ touched' = {}
                   /\ \A r \in Resources : EntryNow(r)' # None => FileNow(r)' = EntryNow(r)'.current
<1>1. ASSUME NEW a \in Adapters, WriteJournal(a) PROVE Goal
    <2>1. touched' = {} /\ spent' = spent
        BY <1>1, JournalWritten
    <2>2. ASSUME NEW r \in Resources, EntryNow(r)' # None
          PROVE  FileNow(r)' = EntryNow(r)'.current
        <3>1. CASE r \in work[a].plan.resources
            BY <1>1, <3>1, WriteEffect DEF Effect
        <3>2. CASE r \notin work[a].plan.resources
            BY <1>1, <2>1, <2>2, <3>2, WriteEffect DEF Accounted
        <3>3. QED
            BY <3>1, <3>2
    <2>3. QED
        BY <2>1, <2>2
<1>2. ASSUME NEW a \in Adapters, Install(a) PROVE Goal
    <2>1. touched' = touched /\ spent' = spent
        BY <1>2, InstallIs
    <2>2. touched = {}
        BY <2>1 DEF Accounted
    <2>3. \A r \in Resources : EntryNow(r)' = EntryNow(r) /\ FileNow(r)' = FileNow(r)
        BY <1>2, <2>2, InstallEffect
    <2>4. QED
        BY <2>1, <2>3 DEF Accounted
<1>3. ASSUME NEW a \in Adapters, RemoveJournal(a) PROVE Goal
    <2>1. touched' = {} /\ spent' = spent
        BY <1>3 DEF RemoveJournal
    <2>2. \A r \in Resources : EntryNow(r)' = EntryNow(r) /\ FileNow(r)' = FileNow(r)
        BY <1>3, RemoveEffect
    <2>3. QED
        BY <2>1, <2>2 DEF Accounted
<1>4. ASSUME NEW r \in Resources PROVE ~UserEdits(r)
    BY EditIs
<1>5. CASE Quiet
    <2>1. touched' = touched /\ spent'.edits = spent.edits
        BY <1>5 DEF Quiet, history
    <2>2. QED
        BY <1>5, <2>1, QuietEffect DEF Accounted
<1>6. Goal
    BY <1>1, <1>2, <1>3, <1>4, <1>5, StepCases
<1>7. QED
    BY <1>6 DEF Goal

LEMMA ClaimedNext ==
    ASSUME TypeOK, Previews, Staging, Journalled, Cleaned, Claimed, [Next]_vars
    PROVE  Claimed'
<1> SUFFICES ASSUME NEW b \in Adapters, installed'[b] # None,
                    journal' # NoJournal => journal'["receipt"].after.plan.adapter # b,
                    NEW r \in installed'[b].plan.resources
             PROVE  EntryNow(r)' # None /\ b \in EntryNow(r)'.claimants
    BY DEF Claimed
<1>1. r \in Resources
    BY TypeNext DEF TypeOK, IsPlan
<1> DEFINE Goal == EntryNow(r)' # None /\ b \in EntryNow(r)'.claimants
<1>2. ASSUME installed' = installed, journal' = journal, EntryNow(r)' = EntryNow(r) PROVE Goal
    BY <1>2 DEF Claimed
<1>3. ASSUME NEW a \in Adapters, WriteJournal(a) PROVE Goal
    <2> DEFINE plan == work[a].plan
    <2>1. /\ journal = NoJournal /\ IsJournal(journal') /\ journal' # NoJournal /\ installed' = installed
          /\ Sound(work[a]) /\ plan.adapter = a
          /\ journal' = Steps(work[a], claims, plan.ledger)
        BY <1>3, JournalWritten
    <2>2. journal'["receipt"].after.plan = plan
        <3>1. "receipt" \in Moved(work[a]) \cup Marks /\ After(work[a], "receipt").plan = plan
            BY DEF Marks, After, ReceiptOf
        <3>2. Steps(work[a], claims, plan.ledger)["receipt"].after.plan = plan
            BY <3>1 DEF Steps
        <3>3. QED
            BY <2>1, <3>2
    <2>3. b # a
        BY <2>1, <2>2
    <2>4. EntryNow(r) # None /\ b \in EntryNow(r).claimants
        BY <2>1 DEF Claimed
    <2>5. CASE r \in plan.resources
        <3>1. Effect(plan, r) /\ EntryNow(r) = Entry(plan.ledger, r) /\ EntryNow(r)' = EntryAfter(plan, r)
            BY <1>1, <1>3, <2>5, WriteEffect
        <3>2. QED
            BY <2>1, <2>3, <2>4, <3>1, MarkAssumption DEF Effect
    <2>6. CASE r \notin plan.resources
        BY <1>1, <1>3, <2>4, <2>6, WriteEffect
    <2>7. QED
        BY <2>5, <2>6
<1>4. ASSUME NEW a \in Adapters, Install(a) PROVE Goal
    BY <1>1, <1>2, <1>4, InstallIs, InstallEffect
<1>5. ASSUME NEW a \in Adapters, RemoveJournal(a) PROVE Goal
    <2> DEFINE receipt == journal["receipt"].after
    <2>1. /\ installed' = [installed EXCEPT ![receipt.plan.adapter] =
                IF receipt.plan.action = "attach" THEN receipt ELSE None]
          /\ journal # NoJournal /\ IsJournal(journal)
        BY <1>1, <1>5, RemoveEffect DEF RemoveJournal
    <2>2. EntryNow(r)' = EntryNow(r) /\ EntryNow(r) = EntryIn(journal, r)
        BY <1>1, <1>5, RemoveEffect
    <2>3. CASE receipt.plan.adapter = b
        <3>1. receipt.plan.action = "attach" /\ installed'[b] = receipt
            BY <2>1, <2>3 DEF TypeOK
        <3>2. EntryIn(journal, r) \in Entries /\ b \in EntryIn(journal, r).claimants
            BY <2>1, <2>3, <3>1, JournalIs
        <3>3. QED
            BY <2>2, <3>2, MarkAssumption
    <2>4. CASE receipt.plan.adapter # b
        <3>1. installed'[b] = installed[b]
            BY <2>1, <2>4 DEF TypeOK
        <3>2. QED
            BY <2>2, <2>4, <3>1 DEF Claimed
    <2>5. QED
        BY <2>3, <2>4
<1>6. ASSUME NEW q \in Resources, UserEdits(q) PROVE Goal
    BY <1>1, <1>2, <1>6, EditIs, EditEffect
<1>7. CASE Quiet
    BY <1>1, <1>2, <1>7, QuietEffect DEF Quiet, history
<1>8. Goal
    BY <1>3, <1>4, <1>5, <1>6, <1>7, StepCases
<1>9. QED
    BY <1>8 DEF Goal

-----------------------------------------------------------------------------
(* The theorems. *)

LEMMA IInvInit == Init => IInv
<1> SUFFICES ASSUME Init PROVE IInv
    OBVIOUS
<1>1. TypeOK
    BY TypeInit
<1>2. Held /\ Previews /\ Staging /\ Passed /\ Cleaned /\ Claimed
    BY DEF Init, Held, Inside, Finishing, Previews, Previewed, Staging, Passed, Cleaned, Claimed
<1>3. Journalled /\ RollsForward
    BY NothingInNone DEF Init, Journalled, RollsForward
<1>4. Accounted
    BY DEF Init, Accounted, EntryNow, Entry
<1>5. QED
    BY <1>1, <1>2, <1>3, <1>4 DEF IInv

LEMMA IInvNext == IInv /\ [Next]_vars => IInv'
BY TypeNext, HeldNext, PreviewsNext, StagingNext, JournalledNext, RollsNext, PassedNext,
   CleanedNext, AccountedNext, ClaimedNext DEF IInv

THEOREM IInvTheorem == Spec => []IInv
BY IInvInit, IInvNext, PTL DEF Spec

\* The files of the store keep their shapes, and every process a plan or a preview of
\* its own where it needs one.
THEOREM TypeCorrect == Spec => []TypeOK
BY IInvTheorem, PTL DEF IInv

\* A transaction that was cut short anywhere can be rolled forward, as far as the user
\* has left its targets alone (store.ts, recover and finish).
THEOREM RollsTheorem == Spec => []RollsForward
BY IInvTheorem, PTL DEF IInv

\* What an adapter applied stays applied, whatever its siblings attach, update and
\* detach (store.ts, verifyAdapterState).
THEOREM SurfacesTheorem == Spec => []SiblingsKeepSurfaces
<1>1. IInv => SiblingsKeepSurfaces
    <2> SUFFICES ASSUME IInv, journal = NoJournal, spent.edits = 0,
                        NEW a \in Adapters, installed[a] # None
                 PROVE  SurfacesHold(a)
        BY DEF SiblingsKeepSurfaces, Settled
    <2>1. \A r \in Resources : EntryNow(r) = Entry(ledger, r) /\ FileNow(r) = files[r]
        BY NothingInNone DEF EntryNow, FileNow, Due
    <2>2. installed[a].plan.resources \subseteq Resources
        BY DEF IInv, TypeOK, IsPlan
    <2>3. \A r \in installed[a].plan.resources :
              Entry(ledger, r) # None /\ a \in Entry(ledger, r).claimants
        BY <2>1, <2>2 DEF IInv, Claimed
    <2>4. \A r \in Resources : Entry(ledger, r) # None => files[r] = Entry(ledger, r).current
        BY <2>1 DEF IInv, Accounted
    <2>5. QED
        BY <2>3, <2>4 DEF SurfacesHold
<1>2. QED
    BY <1>1, IInvTheorem, PTL

\* Nothing of it shows in the abstract store.
LEMMA Unseen ==
    ASSUME \A r \in Resources : FileNow(r)' = FileNow(r) /\ EntryNow(r)' = EntryNow(r)
    PROVE  Atomic!Commit
BY DEF Atomic!Commit, Atomic!Changed

LEMMA AtomicStep ==
    ASSUME IInv, [Next]_vars
    PROVE  IF spent'.edits # spent.edits THEN Atomic!Edit ELSE Atomic!Commit
<1> USE DEF IInv
<1>1. ASSUME NEW a \in Adapters, WriteJournal(a)
      PROVE  spent'.edits = spent.edits /\ Atomic!Commit
    <2> DEFINE plan == work[a].plan
    <2>1. spent' = spent
        BY <1>1, JournalWritten
    <2>2. ASSUME NEW r \in Resources
          PROVE  /\ FileNow(r)' # FileNow(r) \/ EntryNow(r)' # EntryNow(r) =>
                       EntryNow(r)' # None /\ EntryNow(r)'.current = FileNow(r)'
                 /\ FileNow(r)' # FileNow(r) =>
                       /\ Foreign(FileNow(r)) => Foreign(FileNow(r)')
                       /\ FileNow(r)' = Absent => EntryNow(r)'.claimants = {}
        <3>1. CASE r \in plan.resources
            <4>1. /\ Effect(plan, r)
                  /\ FileNow(r) = plan.seen[r] /\ FileNow(r)' = FileAfter(plan, r)
                  /\ EntryNow(r)' = EntryAfter(plan, r)
                BY <1>1, <3>1, WriteEffect
            <4>2. QED
                BY <4>1, MarkAssumption DEF Effect
        <3>2. CASE r \notin plan.resources
            BY <1>1, <3>2, WriteEffect
        <3>3. QED
            BY <3>1, <3>2
    <2>3. Atomic!Commit
        BY <2>2 DEF Atomic!Commit, Atomic!Changed, Atomic!Foreign, Foreign
    <2>4. QED
        BY <2>1, <2>3
<1>2. ASSUME NEW a \in Adapters, Install(a)
      PROVE  spent'.edits = spent.edits /\ Atomic!Commit
    <2>1. spent' = spent /\ IsJournal(journal)
        BY <1>2, InstallIs
    <2>2. ASSUME NEW r \in Resources
          PROVE  /\ EntryNow(r)' = EntryNow(r)
                 /\ FileNow(r)' # FileNow(r) =>
                       /\ EntryNow(r)' # None /\ EntryNow(r)'.current = FileNow(r)'
                       /\ Foreign(FileNow(r)) => Foreign(FileNow(r)')
                       /\ FileNow(r)' = Absent => EntryNow(r)'.claimants = {}
        <3>1. /\ EntryNow(r)' = EntryNow(r) /\ EntryNow(r) = EntryIn(journal, r)
              /\ FileNow(r)' # FileNow(r) =>
                    /\ r \in DOMAIN journal
                    /\ FileNow(r) = journal[r].before /\ FileNow(r)' = journal[r].after
            BY <1>2, InstallEffect
        <3>2. r \in DOMAIN journal =>
                  /\ EntryIn(journal, r) \in Entries /\ EntryIn(journal, r).current = journal[r].after
                  /\ Foreign(journal[r].before) => Foreign(journal[r].after)
                  /\ journal[r].after = Absent => EntryIn(journal, r).claimants = {}
            BY <2>1, JournalIs
        <3>3. QED
            BY <3>1, <3>2, MarkAssumption
    <2>3. Atomic!Commit
        BY <2>2 DEF Atomic!Commit, Atomic!Changed, Atomic!Foreign, Foreign
    <2>4. QED
        BY <2>1, <2>3
<1>3. ASSUME NEW a \in Adapters, RemoveJournal(a)
      PROVE  spent'.edits = spent.edits /\ Atomic!Commit
    <2>1. spent' = spent
        BY <1>3 DEF RemoveJournal
    <2>2. QED
        BY <1>3, <2>1, RemoveEffect, Unseen
<1>4. ASSUME NEW r \in Resources, UserEdits(r)
      PROVE  spent'.edits # spent.edits /\ Atomic!Edit
    <2>1. \A q \in Resources : EntryNow(q)' = EntryNow(q) /\ (q # r => FileNow(q)' = FileNow(q))
        BY <1>4, EditEffect
    <2>2. Atomic!Edit
        BY <2>1 DEF Atomic!Edit, Atomic!Changed
    <2>3. QED
        BY <1>4, <2>2, EditIs
<1>5. ASSUME Quiet
      PROVE  spent'.edits = spent.edits /\ Atomic!Commit
    <2>1. QED
        BY <1>5, QuietEffect, Unseen DEF Quiet
<1>6. QED
    BY <1>1, <1>2, <1>3, <1>4, <1>5, StepCases

\* Host files and the ledger change together, the bytes of others stay, and a file
\* goes only when nobody claims it, whatever a crash cuts short.
THEOREM AtomicTheorem == Spec => ImplementsAtomic
<1>1. IInv /\ [Next]_vars =>
        [IF spent'.edits # spent.edits THEN Atomic!Edit ELSE Atomic!Commit]_<<files, ledger, journal>>
    BY AtomicStep
<1>2. QED
    BY <1>1, IInvTheorem, PTL DEF Spec, ImplementsAtomic

-----------------------------------------------------------------------------
(* The gates of a Full task.                                                *)

\* A ledger that was built holds the versions of the two texts; a version is a
\* number, so none of them passes for one that names no version. And every check
\* that nobody wrote by hand names the code.
Stamped(l) == l = None \/ l.hand \/ (l.source \in Nat /\ l.evidence \in Nat)
Named(v) == v = None \/ v.hand \/ v.code # None

Versioned(f) == f = None \/ f.version \in Nat

QualityInv ==
    /\ uses \in [edits : Nat, commands : Nat] /\ code \in Nat
    /\ DOMAIN surfaces = Quality!Surfaces
    /\ \A s \in Quality!Surfaces : Versioned(surfaces[s])
    /\ DOMAIN gates = {"controls", "ledger", "check"}
    /\ Stamped(gates.ledger) /\ Stamped(draft) /\ Named(gates.check)
    /\ Quality!ClosedOnItsEvidence

\* The version of a text is a number, also where there is no file.
LEMMA TextVersion ==
    ASSUME QualityInv, NEW s \in Quality!Surfaces
    PROVE  Quality!TextOf(s).version \in Nat
BY DEF QualityInv, Versioned, Quality!TextOf, Quality!Blank

\* What is built from the texts that are there is stamped with their versions.
LEMMA LedgerStamped ==
    ASSUME QualityInv, NEW refs, NEW coded
    PROVE  Stamped(Quality!Ledger(refs, coded))
BY TextVersion DEF Stamped, Quality!Ledger, Quality!Surfaces

\* What a caller sends is stamped and named, or written by hand.
LEMMA SentIsStamped ==
    ASSUME QualityInv
    PROVE  /\ \A l \in Quality!LedgersSent : Stamped(l)
           /\ \A v \in Quality!ChecksSent : Named(v)
<1>1. \A l \in Quality!LedgersSent : Stamped(l)
    BY QualityAssumption DEF QualityInv, Stamped, Quality!LedgersSent
<1>2. ASSUME NEW mode, NEW worker
      PROVE  Named(Quality!Verdict(mode, worker))
    BY QualityAssumption DEF QualityInv, Named, Quality!Verdict
<1>3. \A v \in Quality!ChecksSent : Named(v)
    BY <1>2, QualityAssumption DEF Named, Quality!ChecksSent
<1>4. QED
    BY <1>1, <1>3

\* A record of the gate names the code, if only by the empty fingerprint.
LEMMA RecordIsNamed ==
    ASSUME NEW r
    PROVE  Named(Quality!CheckOfGate(r))
BY QualityAssumption DEF Named, Quality!CheckOfGate

\* What the archive command asks of a Full task is what it shows once it is
\* closed: what is stamped cannot be excused from the comparison.
LEMMA ArchiveShows ==
    ASSUME QualityInv, Quality!Archive
    PROVE  Quality!ClosedOnItsEvidence'
<1>1. closed' = [files |-> surfaces, code |-> code, extras |-> gates]
    BY DEF Quality!Archive
<1>2. SUFFICES ASSUME gates.controls.rigor = "full"
      PROVE  LET l == gates.ledger
                 v == gates.check
             IN /\ Quality!Acceptance # {}
                /\ \A ac \in Quality!Acceptance : ac \in DOMAIN l.refs /\ l.refs[ac] = "real"
                /\ l.source = Quality!TextOf("prd").version \/ (l.hand /\ l.source = None)
                /\ l.evidence = Quality!TextOf("verify").version \/ (l.hand /\ l.evidence = None)
                /\ v.result = "PASS" /\ v.readonly /\ (v.mode = "true-independent" => v.worker)
                /\ v.code = l.code \/ l.code = None \/ (v.hand /\ v.code = None)
    BY <1>1 DEF Quality!ClosedOnItsEvidence, Quality!Acceptance, Quality!TextOf, Quality!Blank
<1>3. Quality!LedgerFresh(gates.ledger) /\ Quality!CheckCloses(gates.check, gates.ledger)
    BY <1>2 DEF Quality!Archive, Quality!QualityHolds
<1>4. /\ gates.ledger.hand \/ (gates.ledger.source # None /\ gates.ledger.evidence # None)
      /\ gates.check.hand \/ gates.check.code # None
    BY <1>3, QualityAssumption DEF QualityInv, Stamped, Named, Quality!LedgerFresh, Quality!CheckCloses
<1>5. QED
    BY <1>3, <1>4 DEF Quality!LedgerFresh, Quality!LedgerBuilds, Quality!CheckCloses, Quality!CheckHonest

\* The authors: what they write gets the next version.
LEMMA AuthorsStep ==
    ASSUME QualityInv,
           \/ \E s \in Quality!Surfaces, left \in {None, Quality!Blank} : Quality!RemoveFile(s, left)
           \/ \E e \in FileEdits : Quality!EditFile(e.surface, e.items, e.real)
           \/ Quality!EditCode
    PROVE  QualityInv'
<1>1. uses' \in [edits : Nat, commands : Nat] /\ code' \in Nat /\ UNCHANGED <<gates, draft, closed>>
    <2>1. Quality!AnotherEdit /\ code' \in {code, code + 1} /\ UNCHANGED <<gates, draft, closed>>
        BY DEF Quality!RemoveFile, Quality!EditFile, Quality!EditCode
    <2>2. uses \in [edits : Nat, commands : Nat] /\ code \in Nat
        BY DEF QualityInv
    <2>3. QED
        BY <2>1, <2>2 DEF Quality!AnotherEdit
<1>2. CASE Quality!EditCode
    BY <1>1, <1>2 DEF QualityInv, Quality!EditCode, Quality!ClosedOnItsEvidence
<1>3. ASSUME NEW s, NEW text, Versioned(text), surfaces' = [surfaces EXCEPT ![s] = text]
      PROVE  QualityInv'
    BY <1>1, <1>3 DEF QualityInv, Quality!ClosedOnItsEvidence
<1>4. ASSUME NEW s \in Quality!Surfaces, NEW left \in {None, Quality!Blank}, Quality!RemoveFile(s, left)
      PROVE  QualityInv'
    <2>1. Versioned(left) /\ surfaces' = [surfaces EXCEPT ![s] = left]
        BY <1>4 DEF Versioned, Quality!Blank, Quality!RemoveFile
    <2>2. QED
        BY <2>1, <1>3
<1>5. ASSUME NEW e \in FileEdits, Quality!EditFile(e.surface, e.items, e.real)
      PROVE  QualityInv'
    <2> DEFINE text == [version |-> uses.edits + 1, items |-> e.items, real |-> e.real]
    <2>1. Versioned(text)
        BY DEF QualityInv, Versioned
    <2>2. surfaces' = [surfaces EXCEPT ![e.surface] = text]
        BY <1>5 DEF Quality!EditFile
    <2> HIDE DEF text
    <2>3. QED
        BY <2>1, <2>2, <1>3
<1>6. QED
    BY <1>2, <1>4, <1>5

\* The commands: a ledger enters the task as it was built or written, a check as it
\* was evaluated, recorded or written, and only the archive command writes what was
\* closed.
LEMMA CommandStep ==
    ASSUME QualityInv,
           \/ \E refs \in Mappings, coded \in BOOLEAN : Quality!Verify(refs, coded)
           \/ \E raw \in Quality!Bundles : Quality!Create(raw) \/ Quality!PatchControls(raw)
           \/ \E l \in Quality!LedgersSent : Quality!PatchLedger(l)
           \/ \E v \in Quality!ChecksSent : Quality!PatchCheck(v)
           \/ \E r \in CheckRecords : Quality!RecordCheckGate(r)
           \/ Quality!Start \/ Quality!Archive
    PROVE  QualityInv'
<1>1. uses' \in [edits : Nat, commands : Nat] /\ surfaces' = surfaces /\ code' = code
    BY DEF QualityInv, Quality!Verify, Quality!Create, Quality!PatchControls, Quality!PatchLedger,
           Quality!PatchCheck, Quality!RecordCheckGate, Quality!Start, Quality!Archive, Quality!Commanded
<1>2. DOMAIN gates' = {"controls", "ledger", "check"}
    BY DEF QualityInv, Quality!Verify, Quality!Create, Quality!PatchControls, Quality!PatchLedger,
           Quality!PatchCheck, Quality!RecordCheckGate, Quality!Start, Quality!Archive
<1>3. Stamped(gates.ledger)'
    BY SentIsStamped
    DEF QualityInv, Quality!Verify, Quality!Create, Quality!PatchControls, Quality!PatchLedger,
        Quality!PatchCheck, Quality!RecordCheckGate, Quality!Start, Quality!Archive, Stamped
<1>4. Stamped(draft)'
    BY LedgerStamped DEF QualityInv, Quality!Verify, Quality!Create, Quality!PatchControls, Quality!PatchLedger,
           Quality!PatchCheck, Quality!RecordCheckGate, Quality!Start, Quality!Archive, Stamped
<1>5. Named(gates.check)'
    <2>1. CASE \E v \in Quality!ChecksSent : Quality!PatchCheck(v)
        <3>1. PICK v \in Quality!ChecksSent : Quality!PatchCheck(v)
            BY <2>1
        <3>2. gates'.check = v
            BY <3>1 DEF QualityInv, Quality!PatchCheck
        <3>3. QED
            BY <3>1, <3>2, SentIsStamped
    <2>2. CASE \E r \in CheckRecords : Quality!RecordCheckGate(r)
        <3>1. PICK r \in CheckRecords : Quality!RecordCheckGate(r)
            BY <2>2
        <3>2. gates'.check = gates.check \/ gates'.check = Quality!CheckOfGate(r)
            BY <3>1 DEF QualityInv, Quality!RecordCheckGate
        <3>3. QED
            BY <3>2, RecordIsNamed DEF QualityInv, Named
    <2>3. CASE gates'.check = None \/ gates'.check = gates.check
        BY <2>3 DEF QualityInv, Named
    <2>4. QED
        BY <2>1, <2>2, <2>3 DEF QualityInv, Quality!Verify, Quality!Create, Quality!PatchControls,
           Quality!PatchLedger, Quality!Start, Quality!Archive
<1>6. Quality!ClosedOnItsEvidence'
    <2>1. CASE Quality!Archive
        BY <2>1, ArchiveShows
    <2>2. CASE closed' = closed
        BY <2>2 DEF QualityInv, Quality!ClosedOnItsEvidence
    <2>3. QED
        BY <2>1, <2>2 DEF Quality!Verify, Quality!Create, Quality!PatchControls, Quality!PatchLedger,
           Quality!PatchCheck, Quality!RecordCheckGate, Quality!Start
<1>7. QED
    BY <1>1, <1>2, <1>3, <1>4, <1>5, <1>6 DEF QualityInv

\* Whatever callers write by hand: a Full task is closed only on real evidence for
\* every criterion of the definition that is there at that moment, and ledger and
\* check were made for these texts and for the same code, however all of it changed
\* since. Only what was written by hand may have left out what it was made for.
THEOREM ClosedTheorem == LaidSpec => []ClosedOnItsEvidence
<1> DEFINE Inv == part = "quality" => QualityInv
<1>1. LaidInit => Inv
    BY DEF LaidInit, Quality!QualityInit, QualityInv, Stamped, Named, Versioned, Quality!ClosedOnItsEvidence
<1>2. Inv /\ [LaidNext]_laidVars => Inv'
    <2>1. SUFFICES ASSUME Inv, [LaidNext]_laidVars, part' = "quality"
          PROVE  QualityInv'
        OBVIOUS
    <2>2. QualityInv /\ (Quality!QualityNext \/ UNCHANGED qualityVars)
        BY <2>1 DEF LaidNext, laidVars
    <2>3. CASE UNCHANGED qualityVars
        BY <2>2, <2>3 DEF qualityVars, QualityInv, Quality!ClosedOnItsEvidence
    <2>4. CASE Quality!QualityNext
        BY <2>2, <2>4, AuthorsStep, CommandStep DEF Quality!QualityNext
    <2>5. QED
        BY <2>2, <2>3, <2>4
<1>3. Inv => ClosedOnItsEvidence
    BY DEF QualityInv, ClosedOnItsEvidence
<1>4. QED
    BY <1>1, <1>2, <1>3, PTL DEF LaidSpec
=============================================================================
