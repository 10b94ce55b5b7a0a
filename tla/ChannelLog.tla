----------------------------- MODULE ChannelLog -----------------------------
(***************************************************************************)
(* events.jsonl of one channel: the append of core (idempotency keys, seq  *)
(* reconciled with the .seq sidecar), the append of the CLI runtime, and   *)
(* readers that page through the file with an afterSeq cursor.             *)
(* The file is its sequence of lines; only the last may lack its newline.  *)
(* An append reaches the disk in pieces, and may fail or crash at each.    *)
(* The channel lock is taken here as exclusive; FileLock says when it is.  *)
(***************************************************************************)
EXTENDS Naturals, Sequences, FiniteSets

CONSTANTS
    Appenders,      \* the implementations in use, of "core" and "cli"
    Readers,        \* pollers of readChannelEvents({afterSeq, limit})
    Keys, NoKey,    \* idempotency keys, and their absence
    Kinds,          \* event kinds
    Garbage,        \* a line JSON.parse rejects
    NoSeq,          \* no sidecar
    NoAppend,       \* nobody holds the channel lock
    PageSize,       \* the limit of a page
    MaxLines        \* bound: lines ever started in the file

Requests == [key : Keys \cup {NoKey}, kind : Kinds]
Events == [seq : Nat, key : Keys \cup {NoKey}, kind : Kinds]

\* An appendEvent that holds the lock: where it is, what it appends, the seq it
\* assigned, and whether its piece of the file shares a line with an older one.
Appends == [by : Appenders, at : {"reconcile", "write", "body", "newline", "sidecar"},
            req : Requests, next : Nat, spoilt : BOOLEAN]

ASSUME AppendersAssumption == Appenders \subseteq {"core", "cli"}
ASSUME MarksAssumption ==
    NoKey \notin Keys /\ Garbage \notin Events /\ NoSeq \notin Nat /\ NoAppend \notin Appends
ASSUME BoundsAssumption == PageSize \in Nat \ {0} /\ MaxLines \in Nat

VARIABLES
    lines,          \* the file, a sequence of events and garbage
    unterminated,   \* the last line has no newline yet
    sidecar,        \* the .seq file
    append,         \* the append under way
    cursor,         \* the afterSeq of each reader
    \* History, read by no guard:
    got,            \* positions of the lines each reader has received
    acked,          \* [pos, seq] of every append that returned
    glued,          \* some append continued an unterminated line
    restarted       \* some CLI append restarted the numbering

file == <<lines, unterminated>>
readerVars == <<cursor, got>>
history == <<acked, glued, restarted>>
vars == <<file, sidecar, append, readerVars, history>>

TypeOK ==
    /\ lines \in Seq(Events \cup {Garbage})
    /\ unterminated \in BOOLEAN
    /\ sidecar \in Nat \cup {NoSeq}
    /\ append \in Appends \cup {NoAppend}
    /\ cursor \in [Readers -> Nat]
    /\ got \in [Readers -> SUBSET Nat]
    /\ acked \subseteq [pos : Nat, seq : Nat]
    /\ glued \in BOOLEAN
    /\ restarted \in BOOLEAN

Init ==
    /\ lines = <<>>
    /\ unterminated = FALSE
    /\ sidecar = NoSeq
    /\ append = NoAppend
    /\ cursor = [r \in Readers |-> 0]
    /\ got = [r \in Readers |-> {}]
    /\ acked = {}
    /\ glued = FALSE
    /\ restarted = FALSE

-----------------------------------------------------------------------------
(* Reading the file                                                        *)

\* The lines a reader can parse; it skips the others.
Readable == {i \in 1..Len(lines) : lines[i] # Garbage}

LastReadable == CHOOSE i \in Readable : \A j \in Readable : j <= i

\* readLastJsonlSeq: the seq of the last line that parses.
LastJsonlSeq == IF Readable = {} THEN 0 ELSE lines[LastReadable].seq

\* It throws when the file has content but no line that parses.
Unrecoverable == Readable = {} /\ lines # <<>>

\* The CLI's readLastSeq: the seq of the last line, 0 when it does not parse.
LastLineSeq ==
    IF lines = <<>> \/ lines[Len(lines)] = Garbage THEN 0 ELSE lines[Len(lines)].seq

-----------------------------------------------------------------------------
(* appendEvent, under the channel lock                                     *)

At(step) == append # NoAppend /\ append.at = step

\* Mutant: the scan for the key stops one line short.
SameKeyButLast(q) == {i \in Readable \ {Len(lines)} : q.key # NoKey /\ lines[i].key = q.key}

\* Lines whose event bears the key of a request.
SameKey(q) == {i \in Readable : q.key # NoKey /\ lines[i].key = q.key}

Ack(i, s) == acked' = acked \cup {[pos |-> i, seq |-> s]}

\* core: findIdempotentEvent returns the event an earlier append of this key left.
CoreReplay(q) ==
    /\ "core" \in Appenders /\ append = NoAppend
    /\ \E i \in SameKey(q) :
          /\ \A j \in SameKey(q) : i <= j
          /\ lines[i].kind = q.kind
          /\ Ack(i, lines[i].seq)
    /\ UNCHANGED <<file, sidecar, append, readerVars, glued, restarted>>

\* core: takes the lock with a key the file does not hold; a key held by an
\* event of another kind makes appendEvent throw, which changes nothing.
CoreBegin(q) ==
    /\ "core" \in Appenders /\ append = NoAppend
    /\ SameKey(q) = {}
    /\ append' = [by |-> "core", at |-> "reconcile", req |-> q, next |-> 0, spoilt |-> FALSE]
    /\ UNCHANGED <<file, sidecar, readerVars, history>>

\* Mutant: trusts the sidecar when there is one.
SidecarSeq == IF sidecar = NoSeq THEN LastJsonlSeq ELSE sidecar

\* The seq core goes on from: the file's own tail, never the sidecar.
ReconciledSeq == LastJsonlSeq

\* reconcileSeq repairs a sidecar that disagrees with the file.
Reconcile ==
    /\ At("reconcile")
    /\ ~Unrecoverable
    /\ sidecar' = ReconciledSeq
    /\ append' = [append EXCEPT !.at = "write", !.next = ReconciledSeq + 1]
    /\ UNCHANGED <<file, readerVars, history>>

\* CLI: no keys, no sidecar, and only the last line counts.
CliBegin(q) ==
    /\ "cli" \in Appenders /\ append = NoAppend
    /\ q.key = NoKey
    /\ append' = [by |-> "cli", at |-> "write", req |-> q, next |-> LastLineSeq + 1, spoilt |-> FALSE]
    /\ restarted' = (restarted \/ LastLineSeq # LastJsonlSeq)
    /\ UNCHANGED <<file, sidecar, readerVars, acked, glued>>

\* The first piece of the line reaches the file; after an unterminated line it
\* continues that line, and nothing on it will parse.
WritePart ==
    /\ At("write")
    /\ IF unterminated
       THEN /\ lines' = [lines EXCEPT ![Len(lines)] = Garbage]
            /\ glued' = TRUE
       ELSE /\ Len(lines) < MaxLines
            /\ lines' = Append(lines, Garbage)
            /\ UNCHANGED glued
    /\ unterminated' = TRUE
    /\ append' = [append EXCEPT !.at = "body", !.spoilt = unterminated]
    /\ UNCHANGED <<sidecar, readerVars, acked, restarted>>

\* Mutant: numbers an event by its line.
EventOfLine(a) == [seq |-> Len(lines), key |-> a.req.key, kind |-> a.req.kind]

\* The event an append writes.
EventOf(a) == [seq |-> a.next, key |-> a.req.key, kind |-> a.req.kind]

\* The rest of the JSON: from here the line parses, newline or not.
WriteBody ==
    /\ At("body")
    /\ lines' = IF append.spoilt THEN lines
                ELSE [lines EXCEPT ![Len(lines)] = EventOf(append)]
    /\ append' = [append EXCEPT !.at = "newline"]
    /\ UNCHANGED <<unterminated, sidecar, readerVars, history>>

\* The newline ends the write. The CLI append returns, core goes on.
WriteNewline ==
    /\ At("newline")
    /\ unterminated' = FALSE
    /\ IF append.by = "core"
       THEN append' = [append EXCEPT !.at = "sidecar"] /\ UNCHANGED acked
       ELSE append' = NoAppend /\ Ack(Len(lines), append.next)
    /\ UNCHANGED <<lines, sidecar, readerVars, glued, restarted>>

\* core: writeSidecar renames a new sidecar into place and appendEvent returns.
WriteSidecar ==
    /\ At("sidecar")
    /\ sidecar' = append.next
    /\ Ack(Len(lines), append.next)
    /\ append' = NoAppend
    /\ UNCHANGED <<file, readerVars, glued, restarted>>

\* The append fails half-way (no space, an I/O error) and withLock releases the
\* lock, or its process crashes and the lock becomes stale: the same to the file.
\* This is also where an unrecoverable file makes core throw.
Abort ==
    /\ append # NoAppend
    /\ append' = NoAppend
    /\ UNCHANGED <<file, sidecar, readerVars, history>>

-----------------------------------------------------------------------------
(* readChannelEvents with an afterSeq cursor                               *)

After(s) == {i \in Readable : lines[i].seq > s}

\* The first PageSize of them, in file order.
Page(s) == {i \in After(s) : Cardinality({j \in After(s) : j <= i}) <= PageSize}

\* A reader goes on from the seq of the last event of its page.
Poll(r) ==
    LET page == Page(cursor[r]) IN
    /\ page # {}
    /\ got' = [got EXCEPT ![r] = @ \cup page]
    /\ cursor' = [cursor EXCEPT ![r] =
                    lines[CHOOSE i \in page : \A j \in page : j <= i].seq]
    /\ UNCHANGED <<file, sidecar, append, history>>

Next ==
    \/ \E q \in Requests : CoreReplay(q) \/ CoreBegin(q) \/ CliBegin(q)
    \/ Reconcile
    \/ WritePart
    \/ WriteBody
    \/ WriteNewline
    \/ WriteSidecar
    \/ Abort
    \/ \E r \in Readers : Poll(r)

Spec == Init /\ [][Next]_vars

-----------------------------------------------------------------------------
(* Properties                                                              *)

\* Events are in the file in the order of their seqs (events.ts: "Events are
\* appended in monotonic seq order; keep that as the contract").
MonotonicSeqs ==
    \A i, j \in Readable : i < j => lines[i].seq < lines[j].seq

\* No seq below an event's is missing from the file.
Gapless ==
    \A i \in Readable : lines[i].seq = 1 \/ \E j \in Readable : lines[j].seq + 1 = lines[i].seq

\* Crashes, torn lines and a stale sidecar never disturb the numbering; only a
\* CLI append right after a torn line does.
SeqContract == ~restarted => MonotonicSeqs /\ Gapless

\* A retry under the same idempotency key, after whatever failure of the first
\* attempt, never puts a second event of that key in the file.
OneEventPerKey ==
    \A i, j \in Readable : lines[i].key = lines[j].key /\ lines[i].key # NoKey => i = j

\* An append that returned stays readable under the seq it returned, until an
\* append is glued to an unterminated line.
AckedReadable ==
    ~glued => \A a \in acked : a.pos \in Readable /\ lines[a.pos].seq = a.seq

\* A reader that pages by afterSeq never passes over an event it has not received.
CursorSkipsNothing ==
    ~(glued \/ restarted) =>
        \A r \in Readers : \A i \in Readable : lines[i].seq <= cursor[r] => i \in got[r]

\* The place of a readable line among the readable lines, and the n-th of them.
Rank(i) == Cardinality({j \in Readable : j <= i})
Placed(n) == {i \in Readable : Rank(i) = n}
Nth(n) == CHOOSE i \in Placed(n) : TRUE

\* What a reader of the whole file sees: the readable lines, in file order.
ReadableLog == [n \in 1..Cardinality(Readable) |-> lines[Nth(n)]]

Log == INSTANCE EventLog WITH log <- ReadableLog

\* The readable lines implement the log a channel promises: what is in it stays
\* as it is, in its place, except that a torn append can take the last event
\* back; once the CLI has restarted the numbering nothing is promised.
ImplementsLog == Log!Init /\ [][restarted' \/ Log!Next]_ReadableLog
=============================================================================
