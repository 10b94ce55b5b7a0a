------------------------------ MODULE TraceStore ------------------------------
(***************************************************************************)
(* A composition trace (core/src/pactile/trace.ts, trace-runtime/index.ts):*)
(* an append-only file of events, each holding the fingerprint of the one  *)
(* before it, and beside it a head, replaced atomically, that says how far *)
(* the trace is committed.  A writer holds a lock file no one ever steals; *)
(* a reader takes no lock, and looks for it before and after it reads.     *)
(*                                                                         *)
(* A fingerprint is the sequence of the events it covers, so equal         *)
(* fingerprints are equal histories.  A line that was written in part is   *)
(* None, and can only be the last.                                         *)
(***************************************************************************)
EXTENDS Naturals, Sequences, FiniteSets, SequencesExt

CONSTANTS
  None,
  Writers,
  Readers,
  Drafts,      \* the events writers ask to append: an id and the facts about it
  MaxLog       \* lines of the file

VARIABLES
  log,         \* the lines: [body, sequence, previous], or None for a torn one
  head,        \* None, or [sequence, fingerprint]
  lock,        \* None or the writer whose file it is
  writer,      \* for each writer: where it is, its event and the head it expects
  reader,      \* for each reader: where it is, the head and the lines it read
  returned     \* the heads that appends returned

tvars == <<log, head, lock, writer, reader, returned>>

-----------------------------------------------------------------------------
(* The contract of an event.  A field that is absent is None.               *)
AllowedOutcomes ==
  [discovered |-> {"observed"},  eligible |-> {"observed", "accepted"},
   selected   |-> {"accepted"},  ordered  |-> {"accepted"},
   invoked    |-> {"started"},   completed |-> {"succeeded", "degraded"},
   failed     |-> {"failed"},    skipped  |-> {"skipped"},
   fallback   |-> {"accepted", "degraded"},
   resolved   |-> {"accepted", "degraded", "unsupported"},
   recorded   |-> {"observed", "succeeded"}]

IsTileEvent(event) == event \notin {"resolved", "recorded"}

ProviderAccepted(p) ==
  IF p.origin = "unsupported" THEN p.id = None /\ p.assurance = None
                              ELSE p.id # None /\ p.assurance # None

BodyAccepted(b) ==
  /\ IsTileEvent(b.event) => b.tile # None
  /\ b.outcome \in AllowedOutcomes[b.event]
  /\ IF b.event = "fallback" THEN b.related \notin {None, b.tile} ELSE b.related = None
  /\ IF b.event = "resolved"
       THEN /\ b.provider # None /\ ProviderAccepted(b.provider) /\ b.intent # None
            /\ (b.provider.origin = "unsupported") <=> (b.outcome = "unsupported")
       ELSE b.provider = None
  /\ (b.position # None) <=> (b.event = "ordered")
  /\ b.duration # None => b.event \in {"completed", "failed"}
  /\ (b.error # None) <=> (b.event = "failed")
  /\ b.event = "recorded" => b.evidence # {}

EventAccepted(e) ==
  /\ e.sequence >= 1 /\ (e.sequence = 1) <=> (e.previous = <<>>)
  /\ BodyAccepted(e.body)

-----------------------------------------------------------------------------
(* Verification.                                                            *)
Lines == [body : Drafts, sequence : Nat \ {0}, previous : Seq(Drafts)]
Heads == [sequence : Nat, fingerprint : Seq(Drafts)]

EmptyHead == [sequence |-> 0, fingerprint |-> <<>>]

Fingerprint(e) == Append(e.previous, e.body)
HeadAt(e) == [sequence |-> e.sequence, fingerprint |-> Fingerprint(e)]

\* The head the first n lines make.
HeadOf(lines, n) == IF n = 0 THEN EmptyHead ELSE HeadAt(lines[n])

ChainHolds(lines) ==
  /\ \A i \in DOMAIN lines :
       /\ lines[i] # None
       /\ EventAccepted(lines[i])
       /\ lines[i].sequence = HeadOf(lines, i - 1).sequence + 1
       /\ lines[i].previous = HeadOf(lines, i - 1).fingerprint
  /\ \A i, k \in DOMAIN lines : lines[i].body.id = lines[k].body.id => i = k

\* verifyTrace and readTraceUnlocked: the lines are what the head covers.
Verified(lines, at) ==
  IF at = None THEN lines = <<>>
               ELSE ChainHolds(lines) /\ HeadOf(lines, Len(lines)) = at

HeadRead(at) == IF at = None THEN EmptyHead ELSE at

-----------------------------------------------------------------------------
(* appendTrace.                                                             *)
Idle == [at |-> "idle", event |-> None, expected |-> None]

\* Event bytes that pass the contract, made from a head the writer was given.
Begin(w, body, expected) ==
  LET e == [body |-> body, sequence |-> expected.sequence + 1,
            previous |-> expected.fingerprint]
  IN /\ writer[w].at = "idle" /\ EventAccepted(e)
     /\ writer' = [writer EXCEPT ![w] = [at |-> "lock", event |-> e, expected |-> expected]]
     /\ UNCHANGED <<log, head, lock, reader, returned>>

\* Mutant: the lock file is opened, whoever made it.
CanLockOpened == TRUE

CanLock == lock = None

Lock(w) ==
  /\ writer[w].at = "lock"
  /\ IF CanLock THEN /\ lock' = w
                     /\ writer' = [writer EXCEPT ![w].at = "check"]
                ELSE /\ writer' = [writer EXCEPT ![w] = Idle]
                     /\ UNCHANGED lock
  /\ UNCHANGED <<log, head, reader, returned>>

MayAppend(e, expected) ==
  /\ Verified(log, head) /\ HeadRead(head) = expected
  /\ e.sequence = HeadRead(head).sequence + 1
  /\ e.previous = HeadRead(head).fingerprint
  /\ \A i \in DOMAIN log : log[i].body.id # e.body.id

Check(w) ==
  /\ writer[w].at = "check"
  /\ writer' = [writer EXCEPT ![w].at =
                  IF MayAppend(writer[w].event, writer[w].expected)
                    THEN IF head = None THEN "empty" ELSE "log" ELSE "refused"]
  /\ UNCHANGED <<log, head, lock, reader, returned>>

WriteEmpty(w) ==
  /\ writer[w].at = "empty"
  /\ head' = EmptyHead
  /\ writer' = [writer EXCEPT ![w].at = "log"]
  /\ UNCHANGED <<log, lock, reader, returned>>

WriteLog(w) ==
  /\ writer[w].at = "log" /\ Len(log) < MaxLog
  /\ log' = Append(log, writer[w].event)
  /\ writer' = [writer EXCEPT ![w].at = "head"]
  /\ UNCHANGED <<head, lock, reader, returned>>

WriteHead(w) ==
  /\ writer[w].at = "head"
  /\ head' = HeadAt(writer[w].event)
  /\ writer' = [writer EXCEPT ![w].at = "written"]
  /\ UNCHANGED <<log, lock, reader, returned>>

\* The finally block; what was written stays, and its head is returned.
Unlock(w) ==
  /\ writer[w].at \in {"refused", "written"}
  /\ lock' = None
  /\ returned' = IF writer[w].at = "written" THEN returned \cup {HeadAt(writer[w].event)}
                                             ELSE returned
  /\ writer' = [writer EXCEPT ![w] = Idle]
  /\ UNCHANGED <<log, head, reader>>

\* A write that fails, the line perhaps written in part, is thrown, and unlocked.
WriteFails(w) ==
  /\ writer[w].at \in {"empty", "log", "head"}
  /\ writer' = [writer EXCEPT ![w].at = "refused"]
  /\ log' \in {log} \cup IF writer[w].at = "log" /\ Len(log) < MaxLog
                           THEN {Append(log, None)} ELSE {}
  /\ UNCHANGED <<head, lock, reader, returned>>

\* A crash leaves the lock file; only a user removes it, when its writer is gone.
Crash(w) ==
  /\ writer[w].at # "idle"
  /\ writer' = [writer EXCEPT ![w] = Idle]
  /\ log' \in {log} \cup IF writer[w].at = "log" /\ Len(log) < MaxLog
                           THEN {Append(log, None)} ELSE {}
  /\ UNCHANGED <<head, lock, reader, returned>>

RemoveStaleLock ==
  /\ lock # None /\ writer[lock].at \in {"idle", "lock"}
  /\ lock' = None
  /\ UNCHANGED <<log, head, writer, reader, returned>>

-----------------------------------------------------------------------------
(* readTrace: the lock, the head, the log, and the lock again.              *)
Outside == [at |-> "idle", head |-> None, lines |-> <<>>]

Look(r) ==
  /\ reader[r].at = "idle" /\ lock = None
  /\ reader' = [reader EXCEPT ![r].at = "head"]
  /\ UNCHANGED <<log, head, lock, writer, returned>>

ReadHead(r) ==
  /\ reader[r].at = "head"
  /\ reader' = [reader EXCEPT ![r].head = head, ![r].at = "log"]
  /\ UNCHANGED <<log, head, lock, writer, returned>>

ReadLog(r) ==
  /\ reader[r].at = "log"
  /\ reader' = IF Verified(log, reader[r].head)
                 THEN [reader EXCEPT ![r].lines = log, ![r].at = "again"]
                 ELSE [reader EXCEPT ![r] = Outside]
  /\ UNCHANGED <<log, head, lock, writer, returned>>

LookAgain(r) ==
  /\ reader[r].at = "again"
  /\ reader' = IF lock = None THEN [reader EXCEPT ![r].at = "read"]
                              ELSE [reader EXCEPT ![r] = Outside]
  /\ UNCHANGED <<log, head, lock, writer, returned>>

ReaderLeaves(r) ==
  /\ reader[r].at = "read"
  /\ reader' = [reader EXCEPT ![r] = Outside]
  /\ UNCHANGED <<log, head, lock, writer, returned>>

-----------------------------------------------------------------------------
Tinit == /\ log = <<>> /\ head = None /\ lock = None
         /\ writer = [w \in Writers |-> Idle]
         /\ reader = [r \in Readers |-> Outside]
         /\ returned = {}

\* The heads a caller can hold: the empty one, or one an append returned.
Tnext ==
  \/ \E w \in Writers :
       \/ \E body \in Drafts, expected \in returned \cup {EmptyHead} : Begin(w, body, expected)
       \/ Lock(w) \/ Check(w) \/ WriteEmpty(w) \/ WriteLog(w) \/ WriteHead(w)
       \/ Unlock(w) \/ WriteFails(w) \/ Crash(w)
  \/ RemoveStaleLock
  \/ \E r \in Readers :
       Look(r) \/ ReadHead(r) \/ ReadLog(r) \/ LookAgain(r) \/ ReaderLeaves(r)

-----------------------------------------------------------------------------
(* Heads that appends returned are one history: none is returned twice from *)
(* one head, and every one of them is a part of what is committed now,      *)
(* whatever writers crashed, failed, or raced for the lock.                 *)
ReturnedStay == \A h \in returned :
  /\ IsPrefix(h.fingerprint, HeadRead(head).fingerprint)
  /\ \A g \in returned : g.sequence = h.sequence => g = h

(* What a reader is given was committed: each of its lines is covered by    *)
(* the head, and an event whose append failed, or is still going on, is not *)
(* among them.                                                              *)
ReadIsCommitted == \A r \in Readers : reader[r].at = "read" =>
  /\ IsPrefix(HeadOf(reader[r].lines, Len(reader[r].lines)).fingerprint,
              HeadRead(head).fingerprint)
  /\ \A h \in returned : h.sequence <= Len(reader[r].lines) =>
       HeadOf(reader[r].lines, h.sequence) = h
===============================================================================
