---------------------------- MODULE ChannelTail ----------------------------
(***************************************************************************)
(* watchEvents on one channel: a tail that remembers a byte offset and the *)
(* unterminated text it has read (carry), polls events.jsonl and yields    *)
(* each line that parses.  The file grows in pieces, may keep the torn     *)
(* line of a crashed append, and is removed and created anew by channel rm *)
(* and create --force.  A line is two pieces; the second ends it.          *)
(***************************************************************************)
EXTENDS Naturals, Sequences, FiniteSets, SequencesExt

CONSTANTS
    Since,          \* the sinceSeq values watchers start with
    None,           \* no value
    MaxSeq,         \* bound: events of one incarnation of the file
    MaxFiles        \* bound: incarnations of the file

\* An event: its seq and the incarnation of the file it was appended to.
Ids == [file : 1..MaxFiles, seq : 1..MaxSeq]

\* What a byte range holds: half an event, or the zeros of a short read.
Half(id) == [id |-> id, ends |-> FALSE]
Rest(id) == [id |-> id, ends |-> TRUE]
Nul == [id |-> None, ends |-> FALSE]

VARIABLES
    disk,           \* the pieces in events.jsonl, or None while it is missing
    number,         \* incarnations so far
    lastSeq,        \* seq of the last append of this incarnation
    writing,        \* the event whose second piece is still to come, or None
    mode,           \* "off", "now" (from the end), "start" (from byte 0) or "since"
    since,          \* sinceSeq, or None
    offset,         \* byteOffset
    carry,
    size,           \* what stat said, between stat and read, or None
    \* History, read by no guard:
    began,          \* where the watch began: incarnation and offset
    yielded,        \* the events yielded, in order
    cursorFile,     \* the incarnation the offset was taken in
    muddled         \* incarnations of which the tail read at an offset of another

fileVars == <<disk, number, lastSeq, writing>>
watchVars == <<mode, since, offset, carry, size>>
history == <<began, yielded, cursorFile, muddled>>
vars == <<fileVars, watchVars, history>>

TypeOK ==
    /\ disk = None \/ \A i \in DOMAIN disk : disk[i] = Nul \/ disk[i].id \in Ids
    /\ number \in 1..MaxFiles /\ lastSeq \in 0..MaxSeq
    /\ writing \in Ids \cup {None}
    /\ mode \in {"off", "now", "start", "since"} /\ since \in Since \cup {None}
    /\ offset \in Nat /\ size \in Nat \cup {None}
    /\ \A i \in DOMAIN yielded : yielded[i] \in Ids

Init ==
    /\ disk = <<>> /\ number = 1 /\ lastSeq = 0 /\ writing = None
    /\ mode = "off" /\ since = None /\ offset = 0 /\ carry = <<>> /\ size = None
    /\ began = [file |-> 1, at |-> 0] /\ yielded = <<>> /\ cursorFile = 1 /\ muddled = {}

-----------------------------------------------------------------------------
(* The file.                                                                *)

\* An append reaches the disk up to the middle of its line ...
AppendFront ==
    /\ disk # None /\ writing = None /\ lastSeq < MaxSeq
    /\ LET id == [file |-> number, seq |-> lastSeq + 1]
       IN  disk' = Append(disk, Half(id)) /\ writing' = id
    /\ lastSeq' = lastSeq + 1
    /\ UNCHANGED <<number, watchVars, history>>

\* ... and to its newline, or its process dies and leaves a torn line.
AppendRest ==
    /\ writing # None
    /\ disk' \in {Append(disk, Rest(writing)), disk}
    /\ writing' = None
    /\ UNCHANGED <<number, lastSeq, watchVars, history>>

\* channel rm, or the wipe of create --force.
RemoveFile ==
    /\ disk # None /\ writing = None /\ number < MaxFiles
    /\ disk' = None
    /\ UNCHANGED <<number, lastSeq, writing, watchVars, history>>

\* The next create starts a new file at seq 1.
RecreateFile ==
    /\ disk = None
    /\ disk' = <<>> /\ number' = number + 1 /\ lastSeq' = 0
    /\ UNCHANGED <<writing, watchVars, history>>

-----------------------------------------------------------------------------
(* The tail.                                                                *)

Length == IF disk = None THEN 0 ELSE Len(disk)

Start(m, n) ==
    /\ mode = "off" /\ mode' = m /\ since' = n
    /\ offset' = IF m = "now" THEN Length ELSE 0
    /\ began' = [file |-> number, at |-> offset']
    /\ cursorFile' = number
    /\ UNCHANGED <<fileVars, carry, size, yielded, muddled>>

WatchFromNow == Start("now", None)
WatchFromStart == Start("start", None)
WatchSince == \E n \in Since : Start("since", n)

\* The text split at its newlines: the complete lines, and what is left over.
LinesOf(text) ==
    LET cuts == {0} \cup {i \in DOMAIN text : text[i].ends}
        sorted == SetToSortSeq(cuts, <)
    IN  [lines |-> [n \in 1..Cardinality(cuts) - 1 |-> SubSeq(text, sorted[n] + 1, sorted[n + 1])],
         rest |-> SubSeq(text, sorted[Cardinality(cuts)] + 1, Len(text))]

\* JSON.parse accepts one whole line and nothing else.
Parses(line) == Len(line) = 2 /\ ~line[1].ends /\ line[1].id # None /\ line[1].id = line[2].id

EventsOf(lines) ==
    LET good == SelectSeq(lines, Parses) IN [i \in DOMAIN good |-> good[i][1].id]

Wanted(id) == since = None \/ id.seq > since

\* A stat that does not look for a file that shrank.
StatGrowth ==
    /\ mode # "off" /\ size = None
    /\ IF disk = None
       THEN /\ offset' = 0 /\ carry' = <<>> /\ cursorFile' = number + 1
            /\ UNCHANGED <<size, muddled>>
       ELSE /\ UNCHANGED <<offset, carry>>
            /\ cursorFile' = number
            /\ muddled' = IF cursorFile # number /\ Len(disk) >= offset THEN muddled \cup {number} ELSE muddled
            /\ size' = IF Len(disk) > offset THEN Len(disk) ELSE None
    /\ UNCHANGED <<fileVars, mode, since, began, yielded>>

\* readNewEvents up to its read: a missing or shorter file starts over.
Stat ==
    /\ mode # "off" /\ size = None
    /\ IF disk = None
       THEN /\ offset' = 0 /\ carry' = <<>> /\ cursorFile' = number + 1
            /\ UNCHANGED <<size, muddled>>
       ELSE LET shrank == Len(disk) < offset
            IN  /\ offset' = IF shrank THEN 0 ELSE offset
                /\ carry' = IF shrank THEN <<>> ELSE carry
                /\ cursorFile' = number
                /\ muddled' = IF cursorFile # number /\ ~shrank /\ offset > 0
                              THEN muddled \cup {number} ELSE muddled
                /\ size' = IF Len(disk) > offset' THEN Len(disk) ELSE None
    /\ UNCHANGED <<fileVars, mode, since, began, yielded>>

\* The read fills the buffer from the file that is there by now.
Buffer == [i \in 1..size - offset |->
              IF offset + i <= Len(disk) THEN disk[offset + i] ELSE Nul]

\* The rest of readNewEvents, and the yields of watchEvents.
Read ==
    /\ size # None /\ disk # None
    /\ LET split == LinesOf(carry \o Buffer)
       IN  /\ carry' = split.rest
           /\ yielded' = yielded \o SelectSeq(EventsOf(split.lines), Wanted)
    /\ offset' = size /\ size' = None
    /\ muddled' = IF cursorFile # number THEN muddled \cup {number} ELSE muddled
    /\ UNCHANGED <<fileVars, mode, since, began, cursorFile>>

\* open fails on a file removed after the stat: the watch ends with its error.
ReadFails ==
    /\ size # None /\ disk = None
    /\ mode' = "off" /\ size' = None /\ carry' = <<>> /\ since' = None
    /\ yielded' = <<>> /\ muddled' = {}
    /\ UNCHANGED <<fileVars, offset, began, cursorFile>>

Next ==
    \/ AppendFront \/ AppendRest \/ RemoveFile \/ RecreateFile
    \/ WatchFromNow \/ WatchFromStart \/ WatchSince
    \/ Stat \/ Read \/ ReadFails

Spec == Init /\ [][Next]_vars

-----------------------------------------------------------------------------
(* The events a watch owes its consumer from the file as it is: the whole   *)
(* lines in the bytes after the place where the watch began.                 *)
Owed ==
    LET from == IF began.file = number THEN began.at ELSE 0
        whole == {i \in DOMAIN disk : i > from /\ i < Len(disk) /\ Parses(<<disk[i], disk[i + 1]>>)
                                         /\ (i = from + 1 \/ disk[i - 1].ends)}
    IN  SelectSeq([n \in 1..Cardinality(whole) |-> disk[SetToSortSeq(whole, <)[n]].id], Wanted)

OfThisFile(id) == id.file = number

Idle == mode # "off" /\ disk # None /\ size = None /\ offset = Len(disk)

(* A tail that has read to the end of the file has yielded every whole      *)
(* line of it exactly once and in order, through partial writes, torn lines *)
(* and replaced files, unless it read this file at an offset it had taken   *)
(* in another one.                                                          *)
CaughtUp ==
    Idle /\ cursorFile = number /\ number \notin muddled => SelectSeq(yielded, OfThisFile) = Owed

=============================================================================
