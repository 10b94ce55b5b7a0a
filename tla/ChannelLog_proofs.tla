-------------------------- MODULE ChannelLog_proofs --------------------------
(***************************************************************************)
(* For every set of keys, kinds and readers, every page size and any       *)
(* number of lines: torn lines, crashes and a stale sidecar leave the seqs *)
(* in file order and without gaps, until the CLI restarts the numbering;   *)
(* a follower of several channels keeps no checkpoint that covers an event *)
(* it has yet to deliver (FanInv); a removal stops every launch it listed  *)
(* (RemovalInv); and an answer is one message, an end one done             *)
(* (AdapterInv).                                                           *)
(***************************************************************************)
EXTENDS MCChannelLog, FiniteSetTheorems, SequenceTheorems, TLAPS

\* Every set of readable lines has a last one. (It holds by finiteness; stated
\* as an invariant, the steps of the log carry it.)
LastExists ==
    \A S \in SUBSET Readable : S # {} => \E i \in S : \A j \in S : j <= i

\* Every place of the log is taken. (Again a matter of counting that the steps carry.)
PlacesFilled == \A n \in 1..Cardinality(Readable) : Placed(n) # {}

\* The line under construction is the last one, and is still garbage.
LineInProgress ==
    /\ unterminated => lines # <<>>
    /\ At("body") => unterminated /\ lines[Len(lines)] = Garbage
    /\ At("newline") => unterminated

\* The pending append will put its event on a line of its own.
Landing == (At("write") /\ ~unterminated) \/ (At("body") /\ ~append.spoilt)

\* A pending seq is the successor of the last one in the file.
NextIsFresh ==
    ~restarted /\ Landing =>
        /\ \A i \in Readable : lines[i].seq < append.next
        /\ append.next = 1 \/ \E j \in Readable : lines[j].seq + 1 = append.next

\* The seq of an event is its place in the log.
Numbered == ~restarted => \A i \in Readable : lines[i].seq = Rank(i)

\* The file does not hold the key an append is about to write.
KeyIsFree ==
    append # NoAppend /\ append.at \in {"reconcile", "write", "body"} => SameKey(append.req) = {}

\* What an append wrote on a line of its own is there when it returns.
Landed ==
    ~glued =>
        /\ At("body") => ~append.spoilt
        /\ At("newline") \/ At("sidecar") =>
              Len(lines) \in Readable /\ lines[Len(lines)].seq = append.next

\* A cursor never runs ahead of the log.
CursorBehind ==
    ~(glued \/ restarted) => \A r \in Readers : cursor[r] <= Cardinality(Readable)

IInv ==
    /\ TypeOK
    /\ LastExists
    /\ PlacesFilled
    /\ LineInProgress
    /\ NextIsFresh
    /\ SeqContract
    /\ Numbered
    /\ KeyIsFree
    /\ OneEventPerKey
    /\ Landed
    /\ AckedReadable
    /\ CursorBehind
    /\ CursorSkipsNothing

-----------------------------------------------------------------------------

\* Replacing the last element of a sequence.
LEMMA ReplaceLast ==
  ASSUME NEW S, NEW s \in Seq(S), NEW e \in S
  PROVE  LET t == [s EXCEPT ![Len(s)] = e] IN
         /\ t \in Seq(S)
         /\ Len(t) = Len(s)
         /\ \A i \in 1..Len(s) : t[i] = IF i = Len(s) THEN e ELSE s[i]
<1> DEFINE t == [s EXCEPT ![Len(s)] = e]
<1>1. Len(s) \in Nat /\ s \in [1..Len(s) -> S]
  OBVIOUS
<1>2. t \in [1..Len(s) -> S] /\ \A i \in 1..Len(s) : t[i] = IF i = Len(s) THEN e ELSE s[i]
  BY <1>1
<1>3. t \in Seq(S) /\ Len(t) = Len(s)
  BY <1>1, <1>2
<1>4. QED
  BY <1>2, <1>3

\* The file is empty and nobody appends at the start.
LEMMA InitIInv == Init => IInv
<1> SUFFICES ASSUME Init PROVE IInv
  OBVIOUS
<1>1. TypeOK
  <2>1. lines \in Seq(Events \cup {Garbage}) /\ acked \subseteq [pos : Nat, seq : Nat]
    BY DEF Init
  <2>2. got \in [Readers -> SUBSET Nat] /\ cursor \in [Readers -> Nat]
    BY DEF Init
  <2>3. QED
    BY <2>1, <2>2 DEF Init, TypeOK
<1>2. Readable = {}
  BY DEF Init, Readable
<1>3. Cardinality(Readable) = 0
  BY <1>2, FS_EmptySet
<1>4. QED
  BY <1>1, <1>2, <1>3, MarksAssumption
  DEF Init, IInv, LastExists, LineInProgress, NextIsFresh, Landing, At,
      SeqContract, MonotonicSeqs, Gapless, Numbered, KeyIsFree, OneEventPerKey, Landed,
      AckedReadable, CursorBehind, CursorSkipsNothing, PlacesFilled

\* The last readable line, when there is one.
LEMMA LastReadableFact ==
  ASSUME TypeOK, LastExists, Readable # {}
  PROVE  /\ LastReadable \in Readable
         /\ \A j \in Readable : j <= LastReadable
<1>1. \E i \in Readable : \A j \in Readable : j <= i
  BY DEF LastExists
<1>2. QED
  BY <1>1 DEF LastReadable

\* A readable line is an event with a natural seq.
LEMMA ReadableFact ==
  ASSUME TypeOK
  PROVE  \A i \in Readable : i \in 1..Len(lines) /\ lines[i] \in Events /\ lines[i].seq \in Nat
BY DEF TypeOK, Readable, Events

\* The seq an append goes on from is that of the last readable line.
LEMMA TailSeqFact ==
  ASSUME TypeOK, LastExists
  PROVE  LastJsonlSeq \in Nat /\ LastLineSeq \in Nat
<1>1. LastJsonlSeq \in Nat
  BY LastReadableFact, ReadableFact DEF LastJsonlSeq
<1>2. ASSUME lines # <<>>, lines[Len(lines)] # Garbage PROVE lines[Len(lines)].seq \in Nat
  <2>1. Len(lines) \in Readable
    BY <1>2 DEF TypeOK, Readable
  <2>2. QED
    BY <2>1, ReadableFact
<1>3. QED
  BY <1>1, <1>2 DEF LastLineSeq

\* Types are kept by every step.
LEMMA TypeStep == TypeOK /\ LastExists /\ LineInProgress /\ [Next]_vars => TypeOK'
<1> USE DEF TypeOK
<1> SUFFICES ASSUME TypeOK, LastExists, LineInProgress, [Next]_vars PROVE TypeOK'
  OBVIOUS
<1>0. LastJsonlSeq \in Nat /\ LastLineSeq \in Nat
  BY TailSeqFact
<1>1. CASE UNCHANGED vars
  BY <1>1 DEF vars, file, readerVars, history
<1>2. ASSUME NEW q \in Requests, CoreReplay(q) PROVE TypeOK'
  <2>1. PICK i \in SameKey(q) : Ack(i, lines[i].seq)
    BY <1>2 DEF CoreReplay
  <2>2. i \in Nat /\ lines[i].seq \in Nat
    BY <2>1, ReadableFact DEF SameKey
  <2>3. acked' \subseteq [pos : Nat, seq : Nat]
    BY <2>1, <2>2 DEF Ack
  <2>4. QED
    BY <1>2, <2>3 DEF CoreReplay, file, readerVars
<1>3. ASSUME NEW q \in Requests, CoreBegin(q) PROVE TypeOK'
  BY <1>3 DEF CoreBegin, Appends, file, readerVars, history
<1>4. ASSUME NEW q \in Requests, CliBegin(q) PROVE TypeOK'
  BY <1>0, <1>4 DEF CliBegin, Appends, file, readerVars
<1>5. CASE Reconcile
  <2>1. append \in Appends /\ ReconciledSeq \in Nat
    BY <1>0, <1>5 DEF Reconcile, ReconciledSeq, At
  <2>2. append' \in Appends
    <3>1. ASSUME NEW a \in Appends, NEW n \in Nat
          PROVE  [a EXCEPT !.at = "write", !.next = n] \in Appends
      BY DEF Appends
    <3>2. ReconciledSeq + 1 \in Nat
      BY <2>1
    <3>3. QED
      BY <1>5, <2>1, <3>1, <3>2 DEF Reconcile
  <2>3. QED
    BY <1>5, <2>1, <2>2 DEF Reconcile, file, readerVars, history
<1>6. CASE WritePart
  <2>1. lines' \in Seq(Events \cup {Garbage})
    <3>1. lines' = Append(lines, Garbage) \/ lines' = [lines EXCEPT ![Len(lines)] = Garbage]
      BY <1>6 DEF WritePart
    <3>2. lines \in Seq(Events \cup {Garbage})
      BY DEF TypeOK
    <3>3. QED
      BY ONLY <3>1, <3>2
  <2>2. append' \in Appends
    BY <1>6 DEF WritePart, At, Appends
  <2>3. QED
    BY <1>6, <2>1, <2>2 DEF WritePart, readerVars
<1>7. CASE WriteBody
  <2>1. append \in Appends /\ append' \in Appends
    BY <1>7 DEF WriteBody, At, Appends
  <2>2. EventOf(append) \in Events
    BY <2>1 DEF EventOf, Appends, Requests, Events
  <2>3. lines' \in Seq(Events \cup {Garbage})
    <3>1. CASE append.spoilt
      BY <1>7, <3>1 DEF WriteBody
    <3>2. CASE ~append.spoilt
      <4>1. lines' = [lines EXCEPT ![Len(lines)] = EventOf(append)]
        BY <1>7, <3>2 DEF WriteBody
      <4>2. QED
        BY <2>2, <4>1, ReplaceLast
    <3>3. QED
      BY <3>1, <3>2
  <2>4. QED
    BY <1>7, <2>1, <2>3 DEF WriteBody, readerVars, history
<1>8. CASE WriteNewline
  <2>1. append \in Appends /\ append.next \in Nat
    BY <1>8 DEF WriteNewline, At, Appends
  <2>2. acked' \subseteq [pos : Nat, seq : Nat]
    BY <1>8, <2>1 DEF WriteNewline, Ack
  <2>3. append' \in Appends \cup {NoAppend}
    BY <1>8, <2>1 DEF WriteNewline, Appends
  <2>4. QED
    BY <1>8, <2>2, <2>3 DEF WriteNewline, readerVars
<1>9. CASE WriteSidecar
  <2>1. append \in Appends /\ append.next \in Nat
    BY <1>9 DEF WriteSidecar, At, Appends
  <2>2. acked' \subseteq [pos : Nat, seq : Nat]
    BY <1>9, <2>1 DEF WriteSidecar, Ack
  <2>3. QED
    BY <1>9, <2>1, <2>2 DEF WriteSidecar, file, readerVars
<1>10. CASE Abort
  BY <1>10 DEF Abort, file, readerVars, history
<1>11. ASSUME NEW r \in Readers, Poll(r) PROVE TypeOK'
  <2> DEFINE page == Page(cursor[r])
             last == CHOOSE i \in page : \A j \in page : j <= i
  <2>1. page \subseteq Readable /\ page # {}
    BY <1>11 DEF Poll, Page, After
  <2>2. got' = [got EXCEPT ![r] = @ \cup page] /\ cursor' = [cursor EXCEPT ![r] = lines[last].seq]
    BY <1>11 DEF Poll
  <2>3. last \in page
    <3>1. \E i \in page : \A j \in page : j <= i
      BY <2>1 DEF LastExists
    <3>2. QED
      BY <3>1
  <2>4. lines[last].seq \in Nat /\ page \subseteq Nat
    BY <2>1, <2>3, ReadableFact
  <2>5. got' \in [Readers -> SUBSET Nat]
    BY <2>2, <2>4
  <2>6. cursor' \in [Readers -> Nat]
    BY <2>2, <2>4
  <2>7. QED
    BY <1>11, <2>5, <2>6 DEF Poll, file, history
<1>12. QED
  BY <1>1, <1>2, <1>3, <1>4, <1>5, <1>6, <1>7, <1>8, <1>9, <1>10, <1>11 DEF Next

-----------------------------------------------------------------------------

\* What a step does to the readable lines: nothing, or it spoils the last line
\* of the file, or it completes the last line with the pending event.
SameLines == Readable' = Readable /\ \A i \in Readable : lines'[i] = lines[i]

SpoilsLast ==
    /\ Readable' = Readable \ {Len(lines)}
    /\ \A i \in Readable' : lines'[i] = lines[i]

CompletesLast ==
    /\ Landing /\ append \in Appends
    /\ Len(lines) \notin Readable
    /\ Readable' = Readable \cup {Len(lines)}
    /\ \A i \in Readable : lines'[i] = lines[i]
    /\ Len(lines') = Len(lines)
    /\ lines'[Len(lines)].seq = append.next
    /\ lines'[Len(lines)].key = append.req.key

\* A step that leaves the file alone.
LEMMA SameFile == ASSUME UNCHANGED lines PROVE SameLines
  BY DEF SameLines, Readable

\* The first piece of an append leaves the readable lines alone or spoils the last.
LEMMA WritePartLines ==
  ASSUME TypeOK, LineInProgress, WritePart
  PROVE  (unterminated => SpoilsLast) /\ (~unterminated => SameLines)
<1>1. ASSUME unterminated PROVE SpoilsLast
  <2>1. lines' = [lines EXCEPT ![Len(lines)] = Garbage]
    BY <1>1 DEF WritePart
  <2>2. Len(lines') = Len(lines) /\ \A i \in 1..Len(lines) :
            lines'[i] = IF i = Len(lines) THEN Garbage ELSE lines[i]
    BY <2>1, ReplaceLast DEF TypeOK
  <2>3. QED
    BY <2>2 DEF SpoilsLast, Readable
<1>2. ASSUME ~unterminated PROVE SameLines
  <2>1. lines' = Append(lines, Garbage)
    BY <1>2 DEF WritePart
  <2>2. Len(lines') = Len(lines) + 1 /\ lines'[Len(lines) + 1] = Garbage
    BY <2>1 DEF TypeOK
  <2>3. \A i \in 1..Len(lines) : lines'[i] = lines[i]
    BY <2>1 DEF TypeOK
  <2>4. QED
    BY <2>2, <2>3 DEF SameLines, Readable, TypeOK
<1>3. QED
  BY <1>1, <1>2

\* The body of an append completes its line unless the line was spoilt.
LEMMA WriteBodyLines ==
  ASSUME TypeOK, LineInProgress, WriteBody
  PROVE  SameLines \/ CompletesLast
<1>1. CASE append.spoilt
  BY <1>1, SameFile DEF WriteBody
<1>2. CASE ~append.spoilt
  <2> DEFINE e == EventOf(append)
  <2>1. append \in Appends /\ Landing
    BY <1>2 DEF WriteBody, At, TypeOK, Landing
  <2>2. e \in Events /\ e.seq = append.next /\ e.key = append.req.key
    BY <2>1 DEF EventOf, Appends, Requests, Events
  <2>3. lines' = [lines EXCEPT ![Len(lines)] = e]
    BY <1>2 DEF WriteBody
  <2>4. lines # <<>> /\ lines[Len(lines)] = Garbage
    BY DEF WriteBody, LineInProgress
  <2> HIDE DEF e
  <2>5. Len(lines') = Len(lines) /\ \A i \in 1..Len(lines) :
            lines'[i] = IF i = Len(lines) THEN e ELSE lines[i]
    BY <2>2, <2>3, ReplaceLast DEF TypeOK
  <2>6. e # Garbage /\ Len(lines) \in 1..Len(lines)
    BY <2>2, <2>4, MarksAssumption DEF TypeOK
  <2>7. QED
    BY <2>1, <2>2, <2>4, <2>5, <2>6 DEF CompletesLast, Readable
<1>3. QED
  BY <1>1, <1>2

\* Last readable lines keep existing.
LEMMA LastExistsStep ==
  ASSUME TypeOK, LastExists, SameLines \/ SpoilsLast \/ CompletesLast
  PROVE  LastExists'
<1>1. CASE SameLines \/ SpoilsLast
  BY <1>1 DEF LastExists, SameLines, SpoilsLast
<1>2. CASE CompletesLast
  <2> SUFFICES ASSUME NEW S \in SUBSET Readable', S # {}
               PROVE  \E i \in S : \A j \in S : j <= i
    BY DEF LastExists
  <2>1. Readable' = Readable \cup {Len(lines)} /\ Readable \subseteq 1..Len(lines) /\ Len(lines) \in Nat
    BY <1>2 DEF CompletesLast, Readable, TypeOK
  <2>2. CASE Len(lines) \in S
    BY <2>1, <2>2
  <2>3. CASE Len(lines) \notin S
    BY <2>1, <2>3 DEF LastExists
  <2>4. QED
    BY <2>2, <2>3
<1>3. QED
  BY <1>1, <1>2

\* The numbering stays in order and without gaps.
LEMMA SeqContractStep ==
  ASSUME TypeOK, TypeOK', SeqContract, NextIsFresh, ~restarted' => ~restarted,
         SameLines \/ SpoilsLast \/ CompletesLast
  PROVE  SeqContract'
<1> SUFFICES ASSUME ~restarted, ~restarted' PROVE MonotonicSeqs' /\ Gapless'
  BY DEF SeqContract
<1>0. MonotonicSeqs /\ Gapless
  BY DEF SeqContract
<1>r. \A i \in Readable : i \in 1..Len(lines) /\ lines[i].seq \in Nat
  BY ReadableFact
<1>n. Len(lines) \in Nat
  BY DEF TypeOK
<1>1. CASE SameLines
  BY <1>0, <1>1 DEF SameLines, MonotonicSeqs, Gapless
<1>2. CASE SpoilsLast
  <2>1. MonotonicSeqs'
    BY <1>0, <1>2 DEF SpoilsLast, MonotonicSeqs
  <2>2. ASSUME NEW i \in Readable'
        PROVE  lines'[i].seq = 1 \/ \E j \in Readable' : lines'[j].seq + 1 = lines'[i].seq
    <3>1. i \in Readable /\ i < Len(lines) /\ lines'[i] = lines[i]
      BY <1>2, <1>r, <1>n DEF SpoilsLast
    <3>2. CASE lines[i].seq = 1
      BY <3>1, <3>2
    <3>3. ASSUME NEW j \in Readable, lines[j].seq + 1 = lines[i].seq
          PROVE  j \in Readable' /\ lines'[j] = lines[j]
      <4>1. j # Len(lines)
        BY <1>0, <1>r, <3>1, <3>3 DEF MonotonicSeqs
      <4>2. QED
        BY <1>2, <4>1 DEF SpoilsLast
    <3>4. QED
      BY <1>0, <3>1, <3>2, <3>3 DEF Gapless
  <2>3. QED
    BY <2>1, <2>2 DEF Gapless
<1>3. CASE CompletesLast
  <2>1. append.next \in Nat /\ lines'[Len(lines)].seq = append.next
    BY <1>3 DEF CompletesLast, Appends
  <2>2. /\ \A i \in Readable : lines[i].seq < append.next
        /\ append.next = 1 \/ \E j \in Readable : lines[j].seq + 1 = append.next
    BY <1>3 DEF CompletesLast, NextIsFresh
  <2>3. \A i \in Readable' : i = Len(lines) \/ (i \in Readable /\ i < Len(lines) /\ lines'[i] = lines[i])
    BY <1>3, <1>r, <1>n DEF CompletesLast
  <2>4. MonotonicSeqs'
    BY <1>0, <1>n, <1>r, <2>1, <2>2, <2>3 DEF MonotonicSeqs
  <2>5. Readable \subseteq Readable' /\ \A i \in Readable : lines'[i] = lines[i]
    BY <1>3 DEF CompletesLast
  <2>6. Gapless'
    BY <1>0, <2>1, <2>2, <2>3, <2>5 DEF Gapless
  <2>7. QED
    BY <2>4, <2>6
<1>4. QED
  BY <1>1, <1>2, <1>3

\* What every step does to the readable lines.
LEMMA LinesStep ==
  ASSUME TypeOK, LineInProgress, [Next]_vars
  PROVE  SameLines \/ SpoilsLast \/ CompletesLast
<1>1. CASE WritePart
  BY <1>1, WritePartLines
<1>2. CASE WriteBody
  BY <1>2, WriteBodyLines
<1>3. CASE UNCHANGED lines
  BY <1>3, SameFile
<1>4. QED
  BY <1>1, <1>2, <1>3
  DEF Next, vars, file, CoreReplay, CoreBegin, CliBegin, Reconcile, WriteNewline,
      WriteSidecar, Abort, Poll

\* The line under construction stays the last one of the file.
LEMMA LineInProgressStep ==
  ASSUME TypeOK, LineInProgress, [Next]_vars
  PROVE  LineInProgress'
<1> USE DEF LineInProgress, At
<1>1. CASE WritePart
  <2>1. unterminated' /\ append'.at = "body"
    BY <1>1 DEF WritePart, TypeOK, Appends
  <2>2. lines' # <<>> /\ lines'[Len(lines')] = Garbage
    <3>1. CASE unterminated
      <4>1. lines' = [lines EXCEPT ![Len(lines)] = Garbage] /\ lines # <<>>
        BY <1>1, <3>1 DEF WritePart
      <4>2. Len(lines) \in 1..Len(lines)
        BY <4>1 DEF TypeOK
      <4>3. QED
        BY <4>1, <4>2, ReplaceLast DEF TypeOK
    <3>2. CASE ~unterminated
      <4>1. lines' = Append(lines, Garbage)
        BY <1>1, <3>2 DEF WritePart
      <4>2. QED
        BY <4>1 DEF TypeOK
    <3>3. QED
      BY <3>1, <3>2
  <2>3. QED
    BY <2>1, <2>2
<1>2. CASE WriteBody
  <2>1. unterminated' /\ append'.at = "newline"
    BY <1>2 DEF WriteBody, TypeOK, Appends
  <2>2. lines' # <<>>
    <3>1. lines # <<>>
      BY <1>2 DEF WriteBody
    <3>2. Len(lines) > 0 /\ DOMAIN lines = 1..Len(lines)
      BY <3>1 DEF TypeOK
    <3>3. DOMAIN lines' = DOMAIN lines
      BY <1>2 DEF WriteBody
    <3>4. QED
      BY <3>2, <3>3
  <2>3. QED
    BY <2>1, <2>2
<1>3. CASE WriteNewline
  BY <1>3 DEF WriteNewline, TypeOK, Appends
<1>4. ASSUME UNCHANGED file,
             append' = append \/ append' = NoAppend \/ append'.at \in {"reconcile", "write"}
      PROVE  LineInProgress'
  BY <1>4 DEF file
<1>5. ASSUME Reconcile PROVE UNCHANGED file /\ append'.at = "write"
  BY <1>5 DEF Reconcile, TypeOK, Appends
<1>6. QED
  BY <1>1, <1>2, <1>3, <1>4, <1>5
  DEF Next, vars, CoreReplay, CoreBegin, CliBegin, WriteSidecar, Abort, Poll

\* The seq that core goes on from, and the CLI's unless it restarts, is fresh.
LEMMA TailIsFresh ==
  ASSUME TypeOK, LastExists, SeqContract, ~restarted
  PROVE  /\ \A i \in Readable : lines[i].seq < LastJsonlSeq + 1
         /\ LastJsonlSeq + 1 = 1 \/ \E j \in Readable : lines[j].seq + 1 = LastJsonlSeq + 1
<1>1. CASE Readable = {}
  BY <1>1 DEF LastJsonlSeq
<1>2. CASE Readable # {}
  <2>1. LastReadable \in Readable /\ \A j \in Readable : j <= LastReadable
    BY <1>2, LastReadableFact
  <2>2. LastJsonlSeq = lines[LastReadable].seq
    BY <1>2 DEF LastJsonlSeq
  <2>3. ASSUME NEW i \in Readable PROVE lines[i].seq <= LastJsonlSeq
    <3>1. i = LastReadable \/ i < LastReadable
      BY <2>1, ReadableFact
    <3>2. QED
      BY <2>1, <2>2, <3>1, ReadableFact DEF SeqContract, MonotonicSeqs
  <2>4. QED
    BY <2>1, <2>2, <2>3, ReadableFact
<1>3. QED
  BY <1>1, <1>2

\* A pending seq stays fresh until its line lands.
LEMMA NextIsFreshStep ==
  ASSUME IInv, [Next]_vars
  PROVE  NextIsFresh'
<1> USE DEF IInv
<1> SUFFICES ASSUME ~restarted', Landing'
             PROVE  /\ \A i \in Readable' : lines'[i].seq < append'.next
                    /\ append'.next = 1 \/ \E j \in Readable' : lines'[j].seq + 1 = append'.next
  BY DEF NextIsFresh
<1>1. CASE Reconcile
  <2>1. append'.next = LastJsonlSeq + 1 /\ UNCHANGED lines /\ ~restarted
    BY <1>1 DEF Reconcile, ReconciledSeq, At, TypeOK, Appends, file, history
  <2>2. SameLines
    BY <2>1, SameFile
  <2>3. QED
    BY <2>1, <2>2, TailIsFresh DEF SameLines
<1>2. ASSUME NEW q \in Requests, CliBegin(q)
      PROVE  /\ \A i \in Readable' : lines'[i].seq < append'.next
             /\ append'.next = 1 \/ \E j \in Readable' : lines'[j].seq + 1 = append'.next
  <2>1. append'.next = LastJsonlSeq + 1 /\ UNCHANGED lines /\ ~restarted
    BY <1>2 DEF CliBegin, file, TypeOK
  <2>2. SameLines
    BY <2>1, SameFile
  <2>3. QED
    BY <2>1, <2>2, TailIsFresh DEF SameLines
<1>3. CASE WritePart
  <2>1. append \in Appends /\ append'.next = append.next /\ append'.spoilt = unterminated
    BY <1>3 DEF WritePart, At, TypeOK, Appends
  <2>2. append' # NoAppend /\ append'.at = "body"
    BY <1>3, MarksAssumption, TypeStep DEF WritePart, At, TypeOK, Appends
  <2>3. ~unterminated /\ ~restarted
    BY <1>3, <2>1, <2>2 DEF WritePart, Landing, At
  <2>4. SameLines /\ Landing
    BY <1>3, <2>3, WritePartLines DEF WritePart, Landing
  <2>5. QED
    BY <2>1, <2>3, <2>4 DEF SameLines, NextIsFresh
<1>4. CASE WriteBody
  BY <1>4 DEF WriteBody, Landing, At, TypeOK, Appends
<1>5. CASE UNCHANGED <<lines, unterminated, append, restarted>>
  <2>1. SameLines
    BY <1>5, SameFile
  <2>2. QED
    BY <1>5, <2>1 DEF SameLines, NextIsFresh, Landing, At
<1>6. CASE WriteNewline
  BY <1>6 DEF WriteNewline, Landing, At, TypeOK, Appends
<1>7. CASE WriteSidecar \/ Abort \/ \E q \in Requests : CoreBegin(q)
  BY <1>7 DEF WriteSidecar, Abort, CoreBegin, Landing, At
<1>8. QED
  BY <1>1, <1>2, <1>3, <1>4, <1>5, <1>6, <1>7
  DEF Next, vars, file, history, CoreReplay, Poll

-----------------------------------------------------------------------------
(* The places of the readable lines.                                       *)

\* Readable lines are counted, and so are those up to a place.
LEMMA ReadableFinite ==
  ASSUME TypeOK
  PROVE  /\ IsFiniteSet(Readable) /\ Cardinality(Readable) \in Nat
         /\ \A S \in SUBSET Readable : IsFiniteSet(S) /\ Cardinality(S) \in Nat
<1>1. Len(lines) \in Nat
  BY DEF TypeOK
<1>2. IsFiniteSet(1..Len(lines)) /\ Readable \subseteq 1..Len(lines)
  BY <1>1, FS_Interval DEF Readable
<1>3. IsFiniteSet(Readable)
  BY <1>2, FS_Subset
<1>4. QED
  BY <1>3, FS_Subset, FS_CardinalityType

\* The place of a line is between 1 and the number of readable lines.
LEMMA RankBounds ==
  ASSUME TypeOK, NEW i \in Readable
  PROVE  Rank(i) \in 1..Cardinality(Readable)
<1> DEFINE S == {j \in Readable : j <= i}
<1>1. S \in SUBSET Readable /\ i \in S
  BY ReadableFact
<1>2. IsFiniteSet(S) /\ Cardinality(S) \in Nat /\ Cardinality(S) <= Cardinality(Readable)
  BY <1>1, ReadableFinite, FS_Subset
<1>3. Cardinality(S) # 0
  BY <1>1, <1>2, FS_EmptySet
<1>4. QED
  BY <1>2, <1>3, ReadableFinite DEF Rank

\* The last readable line has the place that is the number of readable lines.
LEMMA RankOfLast ==
  ASSUME NEW i \in Readable, \A j \in Readable : j <= i
  PROVE  Rank(i) = Cardinality(Readable)
<1>1. {j \in Readable : j <= i} = Readable
  OBVIOUS
<1>2. QED
  BY <1>1 DEF Rank

\* When nothing changes, places stay.
LEMMA SameRanks ==
  ASSUME SameLines
  PROVE  /\ Cardinality(Readable') = Cardinality(Readable)
         /\ \A i \in Readable : Rank(i)' = Rank(i)
BY DEF SameLines, Rank

\* Spoiling the last line leaves the places of the others.
LEMMA SpoiltRanks ==
  ASSUME TypeOK, SpoilsLast
  PROVE  /\ Cardinality(Readable') = IF Len(lines) \in Readable THEN Cardinality(Readable) - 1
                                      ELSE Cardinality(Readable)
         /\ \A i \in Readable' : Rank(i)' = Rank(i)
         /\ Len(lines) \in Readable => Rank(Len(lines)) = Cardinality(Readable)
<1>1. Readable' = Readable \ {Len(lines)}
  BY DEF SpoilsLast
<1>2. Cardinality(Readable') = IF Len(lines) \in Readable THEN Cardinality(Readable) - 1
                               ELSE Cardinality(Readable)
  BY <1>1, ReadableFinite, FS_RemoveElement
<1>3. ASSUME NEW i \in Readable' PROVE Rank(i)' = Rank(i)
  <2>1. i \in Readable /\ i < Len(lines)
    BY <1>1, ReadableFact DEF TypeOK
  <2>2. {j \in Readable' : j <= i} = {j \in Readable : j <= i}
    BY <1>1, <2>1, ReadableFact DEF TypeOK
  <2>3. QED
    BY <2>2 DEF Rank
<1>4. ASSUME Len(lines) \in Readable PROVE Rank(Len(lines)) = Cardinality(Readable)
  BY <1>4, ReadableFact, RankOfLast DEF TypeOK
<1>5. QED
  BY <1>2, <1>3, <1>4

\* A completed line takes the next place.
LEMMA CompletedRanks ==
  ASSUME TypeOK, CompletesLast
  PROVE  /\ Cardinality(Readable') = Cardinality(Readable) + 1
         /\ \A i \in Readable : Rank(i)' = Rank(i)
         /\ Rank(Len(lines))' = Cardinality(Readable) + 1
<1>1. Readable' = Readable \cup {Len(lines)} /\ Len(lines) \notin Readable
  BY DEF CompletesLast
<1>2. Cardinality(Readable') = Cardinality(Readable) + 1
  BY <1>1, ReadableFinite, FS_AddElement
<1>3. ASSUME NEW i \in Readable PROVE Rank(i)' = Rank(i)
  <2>1. i \in Nat /\ Len(lines) \in Nat /\ i < Len(lines)
    BY <1>1, ReadableFact DEF TypeOK
  <2>2. {j \in Readable' : j <= i} = {j \in Readable : j <= i}
    BY <1>1, <2>1, ReadableFact
  <2>3. QED
    BY <2>2 DEF Rank
<1>4. Rank(Len(lines))' = Cardinality(Readable')
  <2>1. {j \in Readable' : j <= Len(lines)} = Readable'
    BY <1>1, ReadableFact DEF TypeOK
  <2>2. Len(lines') = Len(lines)
    BY DEF CompletesLast
  <2>3. QED
    BY <2>1, <2>2 DEF Rank
<1>5. QED
  BY <1>2, <1>3, <1>4

\* The lines at a place that is there before and after a step are the same.
LEMMA SamePlaces ==
  ASSUME TypeOK, SameLines \/ SpoilsLast \/ CompletesLast,
         NEW n \in 1..Cardinality(Readable), n \in 1..Cardinality(Readable')
  PROVE  Placed(n)' = Placed(n) /\ \A i \in Placed(n) : lines'[i] = lines[i]
<1>1. CASE SameLines
  BY <1>1, SameRanks DEF SameLines, Placed
<1>2. CASE SpoilsLast
  <2>1. \A i \in Readable : Rank(i) = n => i # Len(lines)
    BY <1>2, SpoiltRanks, ReadableFinite
  <2>2. QED
    BY <1>2, <2>1, SpoiltRanks DEF SpoilsLast, Placed
<1>3. CASE CompletesLast
  <2>1. Rank(Len(lines))' # n
    BY <1>3, CompletedRanks, ReadableFinite
  <2>2. QED
    BY <1>3, <2>1, CompletedRanks DEF CompletesLast, Placed
<1>4. QED
  BY <1>1, <1>2, <1>3

\* Every place stays taken.
LEMMA PlacesFilledStep ==
  ASSUME TypeOK, PlacesFilled, SameLines \/ SpoilsLast \/ CompletesLast
  PROVE  PlacesFilled'
<1> SUFFICES ASSUME NEW n \in 1..Cardinality(Readable') PROVE Placed(n)' # {}
  BY DEF PlacesFilled
<1>1. CASE n \in 1..Cardinality(Readable)
  BY <1>1, SamePlaces DEF PlacesFilled
<1>2. CASE n \notin 1..Cardinality(Readable)
  <2>1. CompletesLast /\ n = Cardinality(Readable) + 1
    BY <1>2, SameRanks, SpoiltRanks, CompletedRanks, ReadableFinite
  <2>2. Len(lines) \in Placed(n)'
    BY <2>1, CompletedRanks DEF CompletesLast, Placed
  <2>3. QED
    BY <2>2
<1>3. QED
  BY <1>1, <1>2

\* The seq of the last readable line is the number of readable lines.
LEMMA TailCounts ==
  ASSUME TypeOK, LastExists, Numbered, ~restarted
  PROVE  LastJsonlSeq = Cardinality(Readable)
<1>1. CASE Readable = {}
  BY <1>1, FS_EmptySet DEF LastJsonlSeq
<1>2. CASE Readable # {}
  BY <1>2, LastReadableFact, RankOfLast DEF LastJsonlSeq, Numbered
<1>3. QED
  BY <1>1, <1>2

\* A fresh seq is the next place.
LEMMA FreshCounts ==
  ASSUME TypeOK, LastExists, NextIsFresh, Numbered, ~restarted, Landing, append \in Appends
  PROVE  append.next = Cardinality(Readable) + 1
<1>1. append.next \in Nat /\ Cardinality(Readable) \in Nat
  BY ReadableFinite DEF Appends
<1>2. /\ \A i \in Readable : Rank(i) < append.next
      /\ append.next = 1 \/ \E j \in Readable : Rank(j) + 1 = append.next
  BY DEF NextIsFresh, Numbered
<1>3. CASE Readable = {}
  BY <1>2, <1>3, FS_EmptySet
<1>4. CASE Readable # {}
  BY <1>1, <1>2, <1>4, LastReadableFact, RankOfLast, RankBounds
<1>5. QED
  BY <1>3, <1>4

\* The seq of an event stays its place.
LEMMA NumberedStep ==
  ASSUME IInv, TypeOK', ~restarted' => ~restarted, SameLines \/ SpoilsLast \/ CompletesLast
  PROVE  Numbered'
<1> USE DEF IInv
<1> SUFFICES ASSUME ~restarted, ~restarted', NEW i \in Readable'
             PROVE  lines'[i].seq = Rank(i)'
  BY DEF Numbered
<1>1. CASE SameLines
  BY <1>1, SameRanks DEF SameLines, Numbered
<1>2. CASE SpoilsLast
  BY <1>2, SpoiltRanks DEF SpoilsLast, Numbered
<1>3. CASE CompletesLast
  <2>1. append.next = Cardinality(Readable) + 1
    BY <1>3, FreshCounts DEF CompletesLast
  <2>2. CASE i \in Readable
    BY <1>3, <2>2, CompletedRanks DEF CompletesLast, Numbered
  <2>3. CASE i = Len(lines)
    BY <1>3, <2>1, <2>3, CompletedRanks DEF CompletesLast
  <2>4. QED
    BY <1>3, <2>2, <2>3 DEF CompletesLast
<1>4. QED
  BY <1>1, <1>2, <1>3

-----------------------------------------------------------------------------
(* One event per key.                                                      *)

\* The readable lines with a key never become more, except by the line that lands.
LEMMA KeysStep ==
  ASSUME TypeOK, NEW q, SameLines \/ SpoilsLast, SameKey(q) = {}
  PROVE  SameKey(q)' = {}
BY DEF SameKey, SameLines, SpoilsLast

\* The key an append is about to write stays absent.
LEMMA KeyIsFreeStep ==
  ASSUME IInv, [Next]_vars
  PROVE  KeyIsFree'
<1> USE DEF IInv
<1>1. ASSUME NEW q \in Requests, CoreBegin(q) PROVE KeyIsFree'
  <2>1. append'.req = q /\ SameKey(q)' = {}
    BY <1>1, SameFile, KeysStep DEF CoreBegin, file
  <2>2. QED
    BY <2>1 DEF KeyIsFree
<1>2. ASSUME NEW q \in Requests, CliBegin(q) PROVE KeyIsFree'
  BY <1>2 DEF CliBegin, KeyIsFree, SameKey
<1>3. CASE Reconcile
  <2>1. append'.req = append.req /\ SameKey(append.req) = {} /\ SameLines
    BY <1>3, SameFile DEF Reconcile, At, TypeOK, Appends, KeyIsFree, file
  <2>2. SameKey(append.req)' = {}
    BY <2>1, KeysStep
  <2>3. QED
    BY <2>1, <2>2 DEF KeyIsFree, SameKey
<1>4. CASE WritePart
  <2>1. append'.req = append.req /\ SameKey(append.req) = {}
    BY <1>4 DEF WritePart, At, TypeOK, Appends, KeyIsFree
  <2>2. SameLines \/ SpoilsLast
    BY <1>4, WritePartLines
  <2>3. {i \in Readable' : append.req.key # NoKey /\ lines'[i].key = append.req.key} = {}
    BY <2>1, <2>2 DEF SameLines, SpoilsLast, SameKey
  <2>4. QED
    BY <2>1, <2>3 DEF KeyIsFree, SameKey
<1>5. CASE WriteBody
  BY <1>5 DEF WriteBody, At, TypeOK, Appends, KeyIsFree
<1>6. CASE WriteNewline
  BY <1>6 DEF WriteNewline, At, TypeOK, Appends, KeyIsFree
<1>7. CASE WriteSidecar \/ Abort
  BY <1>7 DEF WriteSidecar, Abort, KeyIsFree
<1>8. CASE UNCHANGED <<file, append>>
  BY <1>8 DEF KeyIsFree, SameKey, Readable, file
<1>9. QED
  BY <1>1, <1>2, <1>3, <1>4, <1>5, <1>6, <1>7, <1>8 DEF Next, vars, CoreReplay, Poll

\* A key stays the key of one event.
LEMMA OneEventPerKeyStep ==
  ASSUME IInv, SameLines \/ SpoilsLast \/ CompletesLast
  PROVE  OneEventPerKey'
<1> USE DEF IInv
<1>1. CASE SameLines \/ SpoilsLast
  BY <1>1 DEF SameLines, SpoilsLast, OneEventPerKey
<1>2. CASE CompletesLast
  <2>1. SameKey(append.req) = {}
    BY <1>2 DEF CompletesLast, Landing, At, KeyIsFree
  <2>2. \A i \in Readable : append.req.key # NoKey => lines[i].key # append.req.key
    BY <2>1 DEF SameKey
  <2>3. QED
    BY <1>2, <2>2 DEF CompletesLast, OneEventPerKey
<1>3. QED
  BY <1>1, <1>2

-----------------------------------------------------------------------------
(* What was acknowledged, and what was read.                               *)

\* The body of an append that is not glued lands on the last line.
LEMMA BodyLands ==
  ASSUME IInv, WriteBody, ~append.spoilt
  PROVE  Len(lines') \in Readable' /\ lines'[Len(lines')].seq = append.next
<1> USE DEF IInv
<1>1. append \in Appends /\ lines # <<>> /\ Len(lines) \in 1..Len(lines)
  BY DEF WriteBody, At, TypeOK, LineInProgress
<1>2. EventOf(append) \in Events /\ EventOf(append).seq = append.next
  BY <1>1 DEF EventOf, Appends, Requests, Events
<1>3. Len(lines') = Len(lines) /\ lines'[Len(lines)] = EventOf(append)
  BY <1>1, <1>2, ReplaceLast DEF WriteBody, TypeOK
<1>4. QED
  BY <1>1, <1>2, <1>3, MarksAssumption DEF Readable

\* An append that returns has its event in the file.
LEMMA LandedStep ==
  ASSUME IInv, [Next]_vars
  PROVE  Landed'
<1> USE DEF IInv
<1>1. CASE WritePart
  <2>1. append \in Appends /\ append'.at = "body" /\ append'.spoilt = unterminated
    BY <1>1 DEF WritePart, At, TypeOK, Appends
  <2>2. ~glued' => ~unterminated
    BY <1>1 DEF WritePart
  <2>3. QED
    BY <2>1, <2>2 DEF Landed, At
<1>2. CASE WriteBody
  <2>1. append \in Appends /\ append'.at = "newline" /\ append'.next = append.next /\ glued' = glued
    BY <1>2 DEF WriteBody, At, TypeOK, Appends, history
  <2>2. ~glued => ~append.spoilt
    BY <1>2 DEF WriteBody, Landed
  <2>3. QED
    BY <1>2, <2>1, <2>2, BodyLands DEF Landed, At
<1>3. CASE WriteNewline
  <2>1. /\ UNCHANGED <<lines, glued>> /\ SameLines
        /\ append' = NoAppend \/ (append'.at = "sidecar" /\ append'.next = append.next)
    BY <1>3, SameFile DEF WriteNewline, At, TypeOK, Appends
  <2>2. QED
    BY <1>3, <2>1 DEF WriteNewline, Landed, At, SameLines
<1>4. ASSUME UNCHANGED <<file, glued>>,
             append' = append \/ append' = NoAppend \/ append'.at \in {"reconcile", "write"}
      PROVE  Landed'
  BY <1>4, SameFile DEF Landed, At, file, SameLines
<1>5. ASSUME Reconcile PROVE append'.at = "write"
  BY <1>5 DEF Reconcile, TypeOK, Appends
<1>6. QED
  BY <1>1, <1>2, <1>3, <1>4, <1>5
  DEF Next, vars, history, CoreReplay, CoreBegin, CliBegin, Reconcile, WriteSidecar, Abort, Poll

\* What was acknowledged stays readable.
LEMMA AckedReadableStep ==
  ASSUME IInv, [Next]_vars
  PROVE  AckedReadable'
<1> USE DEF IInv
<1> SUFFICES ASSUME ~glued', NEW a \in acked'
             PROVE  a.pos \in Readable' /\ lines'[a.pos].seq = a.seq
  BY DEF AckedReadable
<1>0. ~glued
  BY DEF Next, vars, file, history, CoreReplay, CoreBegin, CliBegin, Reconcile, WritePart,
         WriteBody, WriteNewline, WriteSidecar, Abort, Poll
<1>1. SameLines \/ CompletesLast
  <2>1. CASE WritePart
    BY <2>1, WritePartLines DEF WritePart
  <2>2. CASE WriteBody
    BY <2>2, WriteBodyLines
  <2>3. CASE UNCHANGED lines
    BY <2>3, SameFile
  <2>4. QED
    BY <2>1, <2>2, <2>3
    DEF Next, vars, file, CoreReplay, CoreBegin, CliBegin, Reconcile, WriteNewline,
        WriteSidecar, Abort, Poll
<1>2. CASE a \in acked
  BY <1>0, <1>1, <1>2 DEF AckedReadable, SameLines, CompletesLast
<1>3. ASSUME NEW i \in Readable, UNCHANGED lines, Ack(i, lines[i].seq), a \notin acked
      PROVE  a.pos \in Readable' /\ lines'[a.pos].seq = a.seq
  BY <1>3, SameFile DEF Ack, SameLines
<1>4. CASE acked' = acked
  BY <1>2, <1>4
<1>5. ASSUME NEW q \in Requests, CoreReplay(q), a \notin acked
      PROVE  a.pos \in Readable' /\ lines'[a.pos].seq = a.seq
  <2>1. PICK i \in SameKey(q) : Ack(i, lines[i].seq)
    BY <1>5 DEF CoreReplay
  <2>2. i \in Readable /\ UNCHANGED lines
    BY <1>5 DEF CoreReplay, SameKey, file
  <2>3. QED
    BY <1>3, <1>5, <2>1, <2>2
<1>6. ASSUME WriteNewline \/ WriteSidecar, a \notin acked
      PROVE  a.pos \in Readable' /\ lines'[a.pos].seq = a.seq
  <2>1. Len(lines) \in Readable /\ lines[Len(lines)].seq = append.next /\ UNCHANGED lines
    BY <1>0, <1>6 DEF WriteNewline, WriteSidecar, Landed, file
  <2>2. acked' = acked \/ Ack(Len(lines), lines[Len(lines)].seq)
    BY <1>6, <2>1 DEF WriteNewline, WriteSidecar
  <2>3. QED
    BY <1>3, <1>4, <1>6, <2>1, <2>2
<1>7. QED
  BY <1>2, <1>4, <1>5, <1>6
  DEF Next, vars, history, CoreBegin, CliBegin, Reconcile, WritePart, WriteBody, Abort, Poll

\* A page holds every event up to its last that is after the cursor.
LEMMA PageIsFull ==
  ASSUME IInv, ~restarted, NEW c \in Nat, NEW m \in Page(c), \A j \in Page(c) : j <= m,
         NEW i \in Readable, lines[i].seq > c, lines[i].seq <= lines[m].seq
  PROVE  i \in Page(c)
<1> USE DEF IInv
<1> DEFINE UpTo(k) == {j \in After(c) : j <= k}
<1>1. m \in Readable /\ i \in After(c) /\ Cardinality(UpTo(m)) <= PageSize
  BY DEF Page, After
<1>2. i <= m
  BY <1>1, ReadableFact DEF SeqContract, MonotonicSeqs
<1>3. UpTo(m) \in SUBSET Readable /\ UpTo(i) \in SUBSET UpTo(m)
  BY <1>1, <1>2, ReadableFact DEF After
<1>4. Cardinality(UpTo(i)) <= Cardinality(UpTo(m)) /\ Cardinality(UpTo(m)) \in Nat
      /\ Cardinality(UpTo(i)) \in Nat
  BY <1>3, ReadableFinite, FS_Subset
<1>5. QED
  BY <1>1, <1>4, BoundsAssumption DEF Page

\* A poll moves the cursor to the last line of its page.
LEMMA PollFact ==
  ASSUME TypeOK, LastExists, NEW r \in Readers, Poll(r)
  PROVE  \E m \in Page(cursor[r]) :
            /\ \A j \in Page(cursor[r]) : j <= m
            /\ cursor' = [cursor EXCEPT ![r] = lines[m].seq]
<1> DEFINE page == Page(cursor[r])
           last == CHOOSE i \in page : \A j \in page : j <= i
<1>1. page \subseteq Readable /\ page # {}
  BY DEF Poll, Page, After
<1>2. \E i \in page : \A j \in page : j <= i
  BY <1>1 DEF LastExists
<1>3. last \in page /\ \A j \in page : j <= last
  BY <1>2
<1>4. cursor' = [cursor EXCEPT ![r] = lines[last].seq]
  BY DEF Poll
<1>5. QED
  BY <1>3, <1>4

\* The readers' cursors: not ahead of the log, and nothing behind them unread.
LEMMA CursorStep ==
  ASSUME IInv, TypeOK', [Next]_vars
  PROVE  CursorBehind' /\ CursorSkipsNothing'
<1> USE DEF IInv
<1> SUFFICES ASSUME ~glued', ~restarted', NEW s \in Readers
             PROVE  /\ cursor'[s] <= Cardinality(Readable')
                    /\ \A i \in Readable' : lines'[i].seq <= cursor'[s] => i \in got'[s]
  BY DEF CursorBehind, CursorSkipsNothing
<1>g. ~glued
  BY DEF Next, vars, file, history, CoreReplay, CoreBegin, CliBegin, Reconcile, WritePart,
         WriteBody, WriteNewline, WriteSidecar, Abort, Poll
<1>r. ~restarted
  BY DEF Next, vars, file, history, CoreReplay, CoreBegin, CliBegin, Reconcile, WritePart,
         WriteBody, WriteNewline, WriteSidecar, Abort, Poll
<1>0. ~glued /\ ~restarted
  BY <1>g, <1>r
<1>c. cursor[s] \in Nat /\ Cardinality(Readable) \in Nat
  BY ReadableFinite DEF TypeOK
<1>1. /\ cursor[s] <= Cardinality(Readable)
      /\ \A i \in Readable : lines[i].seq <= cursor[s] => i \in got[s]
  BY <1>0 DEF CursorBehind, CursorSkipsNothing
<1>2. ASSUME UNCHANGED readerVars, SameLines \/ CompletesLast
      PROVE  /\ cursor'[s] <= Cardinality(Readable')
             /\ \A i \in Readable' : lines'[i].seq <= cursor'[s] => i \in got'[s]
  <2>1. CASE SameLines
    BY <1>1, <1>2, <2>1, SameRanks DEF SameLines, readerVars
  <2>2. CASE CompletesLast
    <3>1. lines'[Len(lines)].seq = Cardinality(Readable) + 1
      BY <1>0, <2>2, FreshCounts DEF CompletesLast
    <3>2. Cardinality(Readable') = Cardinality(Readable) + 1
      BY <2>2, CompletedRanks
    <3>3. \A i \in Readable' : i = Len(lines) \/ (i \in Readable /\ lines'[i] = lines[i])
      BY <2>2 DEF CompletesLast
    <3>4. QED
      BY <1>1, <1>2, <1>c, <3>1, <3>2, <3>3 DEF readerVars
  <2>3. QED
    BY <1>2, <2>1, <2>2
<1>3. ASSUME NEW r \in Readers, Poll(r)
      PROVE  /\ cursor'[s] <= Cardinality(Readable')
             /\ \A i \in Readable' : lines'[i].seq <= cursor'[s] => i \in got'[s]
  <2>1. SameLines /\ got' = [got EXCEPT ![r] = @ \cup Page(cursor[r])]
    BY <1>3, SameFile DEF Poll, file
  <2>2. CASE s # r
    <3>1. cursor'[s] = cursor[s] /\ got'[s] = got[s]
      BY <1>3, <2>1, <2>2, PollFact DEF TypeOK
    <3>2. QED
      BY <1>1, <2>1, <3>1, SameRanks DEF SameLines
  <2>3. CASE s = r
    <3>1. PICK m \in Page(cursor[s]) :
            (\A j \in Page(cursor[s]) : j <= m) /\ cursor'[s] = lines[m].seq
      BY <1>3, <2>3, PollFact DEF TypeOK
    <3>2. m \in Readable /\ lines[m].seq \in Nat /\ lines[m].seq <= Cardinality(Readable)
      BY <1>0, <1>c, <3>1, ReadableFact, RankBounds DEF Page, After, Numbered
    <3>3. got'[s] = got[s] \cup Page(cursor[s])
      BY <2>1, <2>3 DEF TypeOK
    <3>4. ASSUME NEW i \in Readable, lines[i].seq <= lines[m].seq PROVE i \in got'[s]
      <4>1. CASE lines[i].seq <= cursor[s]
        BY <1>1, <3>3, <4>1
      <4>2. CASE lines[i].seq > cursor[s]
        BY <1>0, <1>c, <3>1, <3>3, <3>4, <4>2, PageIsFull
      <4>3. QED
        BY <1>c, <4>1, <4>2, ReadableFact
    <3>5. QED
      BY <2>1, <3>1, <3>2, <3>4, SameRanks DEF SameLines
  <2>4. QED
    BY <2>2, <2>3
<1>4. SameLines \/ CompletesLast
  <2>1. CASE WritePart
    BY <2>1, WritePartLines DEF WritePart
  <2>2. CASE WriteBody
    BY <2>2, WriteBodyLines
  <2>3. CASE UNCHANGED lines
    BY <2>3, SameFile
  <2>4. QED
    BY <2>1, <2>2, <2>3
    DEF Next, vars, file, CoreReplay, CoreBegin, CliBegin, Reconcile, WriteNewline,
        WriteSidecar, Abort, Poll
<1>5. UNCHANGED readerVars \/ \E r \in Readers : Poll(r)
  BY DEF Next, vars, CoreReplay, CoreBegin, CliBegin, Reconcile, WritePart, WriteBody,
         WriteNewline, WriteSidecar, Abort
<1>6. QED
  BY <1>2, <1>3, <1>4, <1>5

\* The inductive invariant is kept by every step.
LEMMA IInvStep == IInv /\ [Next]_vars => IInv'
<1> SUFFICES ASSUME IInv, [Next]_vars PROVE IInv'
  OBVIOUS
<1> USE DEF IInv
<1>1. TypeOK'
  BY TypeStep
<1>2. SameLines \/ SpoilsLast \/ CompletesLast
  BY LinesStep
<1>3. LastExists' /\ PlacesFilled'
  BY <1>2, LastExistsStep, PlacesFilledStep
<1>4. LineInProgress'
  BY LineInProgressStep
<1>5. NextIsFresh'
  BY NextIsFreshStep
<1>6. ~restarted' => ~restarted
  BY DEF Next, vars, file, history, CoreReplay, CoreBegin, CliBegin, Reconcile, WritePart,
         WriteBody, WriteNewline, WriteSidecar, Abort, Poll
<1>7. SeqContract' /\ Numbered'
  BY <1>1, <1>2, <1>6, SeqContractStep, NumberedStep
<1>8. KeyIsFree' /\ OneEventPerKey'
  BY <1>2, KeyIsFreeStep, OneEventPerKeyStep
<1>9. Landed' /\ AckedReadable'
  BY LandedStep, AckedReadableStep
<1>10. CursorBehind' /\ CursorSkipsNothing'
  BY <1>1, CursorStep
<1>11. QED
  BY <1>1, <1>3, <1>4, <1>5, <1>7, <1>8, <1>9, <1>10

\* The inductive invariant holds in every reachable state.
LEMMA Invariance == Spec => []IInv
  BY InitIInv, IInvStep, PTL DEF Spec

\* Types hold in every reachable state.
THEOREM TypeCorrect == Spec => []TypeOK
<1>1. IInv => TypeOK
  BY DEF IInv
<1>2. QED
  BY <1>1, Invariance, PTL

\* The seqs are in file order and gapless until the CLI restarts the numbering.
THEOREM SeqTheorem == Spec => []SeqContract
<1>1. IInv => SeqContract
  BY DEF IInv
<1>2. QED
  BY <1>1, Invariance, PTL

\* A retry under the same key never puts a second event of that key in the file.
THEOREM KeyTheorem == Spec => []OneEventPerKey
<1>1. IInv => OneEventPerKey
  BY DEF IInv
<1>2. QED
  BY <1>1, Invariance, PTL

\* What an append returned stays readable until an append is glued to a torn line.
THEOREM AckedTheorem == Spec => []AckedReadable
<1>1. IInv => AckedReadable
  BY DEF IInv
<1>2. QED
  BY <1>1, Invariance, PTL

\* A reader that pages by afterSeq receives every event, whatever the page size,
\* until a line is glued or the numbering restarts.
THEOREM CursorTheorem == Spec => []CursorSkipsNothing
<1>1. IInv => CursorSkipsNothing
  BY DEF IInv
<1>2. QED
  BY <1>1, Invariance, PTL

-----------------------------------------------------------------------------
(* The readable lines implement EventLog.                                  *)

\* A function on 1..k is a sequence of length k.
LEMMA LengthOf ==
  ASSUME NEW k \in Nat, NEW e(_)
  PROVE  Len([n \in 1..k |-> e(n)]) = k
<1> DEFINE f == [n \in 1..k |-> e(n)]
           S == {e(n) : n \in 1..k}
<1>1. f \in [1..k -> S]
  OBVIOUS
<1> HIDE DEF f, S
<1>2. f \in Seq(S) /\ Len(f) = k
  BY <1>1
<1>3. QED
  BY <1>2 DEF f

\* A place that is there before and after a step holds the same event.
LEMMA SameEntry ==
  ASSUME IInv, SameLines \/ SpoilsLast \/ CompletesLast,
         NEW n \in 1..Cardinality(Readable), n \in 1..Cardinality(Readable')
  PROVE  ReadableLog'[n] = ReadableLog[n]
<1>1. Placed(n)' = Placed(n) /\ \A i \in Placed(n) : lines'[i] = lines[i]
  BY SamePlaces DEF IInv
<1>2. Placed(n) # {}
  BY DEF IInv, PlacesFilled
<1>3. Nth(n)' = Nth(n)
  BY <1>1 DEF Nth
<1>4. Nth(n) \in Placed(n)
  BY <1>2 DEF Nth
<1>5. lines'[Nth(n)'] = lines[Nth(n)]
  BY <1>1, <1>3, <1>4
<1>6. QED
  BY <1>5 DEF ReadableLog

\* An event that lands is published.
LEMMA CompletedPublishes ==
  ASSUME IInv, TypeOK', CompletesLast, ~restarted
  PROVE  Log!Publish
<1> SUFFICES ASSUME NEW k, k = Cardinality(Readable) PROVE Log!Publish
  OBVIOUS
<1>1. k \in Nat /\ Cardinality(Readable') = k + 1
  BY CompletedRanks, ReadableFinite DEF IInv
<1>2. Len(ReadableLog) = k /\ Len(ReadableLog') = k + 1
  BY <1>1, LengthOf DEF ReadableLog
<1>3. \A n \in 1..k : ReadableLog'[n] = ReadableLog[n]
  BY <1>1, SameEntry
<1>4. SubSeq(ReadableLog', 1, k) = ReadableLog
  <2>1. ReadableLog = [n \in 1..k |-> ReadableLog[n]]
    BY DEF ReadableLog
  <2>2. SubSeq(ReadableLog', 1, k) = [n \in 1..k |-> ReadableLog'[n]]
    BY <1>1
  <2>3. QED
    BY <1>3, <2>1, <2>2
<1>5. ReadableLog'[k + 1].seq = k + 1
  <2>1. Placed(k + 1)' = {Len(lines)}
    <3>1. \A i \in Readable : Rank(i)' # k + 1
      BY <1>1, RankBounds, CompletedRanks DEF IInv
    <3>2. Readable' = Readable \cup {Len(lines)} /\ Rank(Len(lines))' = k + 1
          /\ Len(lines') = Len(lines)
      BY CompletedRanks DEF CompletesLast, IInv
    <3>3. QED
      BY <3>1, <3>2 DEF Placed
  <2>2. Nth(k + 1)' = Len(lines)
    BY <2>1 DEF Nth
  <2>3. lines'[Len(lines)].seq = k + 1
    BY FreshCounts DEF IInv, CompletesLast
  <2>4. QED
    BY <1>1, <2>2, <2>3 DEF ReadableLog
<1>6. QED
  BY <1>2, <1>4, <1>5 DEF Log!Publish

\* A last event that is spoilt is withdrawn.
LEMMA SpoiltWithdraws ==
  ASSUME IInv, TypeOK', SpoilsLast, Len(lines) \in Readable
  PROVE  Log!Withdraw
<1> SUFFICES ASSUME NEW k, k = Cardinality(Readable) PROVE Log!Withdraw
  OBVIOUS
<1>1. k \in Nat \ {0} /\ Cardinality(Readable') = k - 1
  BY SpoiltRanks, ReadableFinite, FS_EmptySet DEF IInv
<1>2. Len(ReadableLog) = k /\ Len(ReadableLog') = k - 1 /\ ReadableLog # <<>>
  BY <1>1, LengthOf DEF ReadableLog
<1>3. \A n \in 1..(k - 1) : ReadableLog'[n] = ReadableLog[n]
  BY <1>1, SameEntry
<1>4. ReadableLog' = SubSeq(ReadableLog, 1, k - 1)
  <2>1. ReadableLog' = [n \in 1..(k - 1) |-> ReadableLog'[n]]
    BY <1>1 DEF ReadableLog
  <2>2. SubSeq(ReadableLog, 1, k - 1) = [n \in 1..(k - 1) |-> ReadableLog[n]]
    BY <1>1
  <2>3. QED
    BY <1>3, <2>1, <2>2
<1>5. QED
  BY <1>2, <1>4 DEF Log!Withdraw

\* When no place is gained or lost, the log stays as it is.
LEMMA SamePlacesSameLog ==
  ASSUME IInv, SameLines \/ (SpoilsLast /\ Len(lines) \notin Readable)
  PROVE  ReadableLog' = ReadableLog
<1>1. Cardinality(Readable') = Cardinality(Readable)
  BY SameRanks, SpoiltRanks DEF IInv
<1>2. \A n \in 1..Cardinality(Readable) : ReadableLog'[n] = ReadableLog[n]
  BY <1>1, SameEntry
<1>3. ReadableLog' = [n \in 1..Cardinality(Readable) |-> ReadableLog'[n]]
      /\ ReadableLog = [n \in 1..Cardinality(Readable) |-> ReadableLog[n]]
  BY <1>1 DEF ReadableLog
<1>4. QED
  BY <1>2, <1>3

\* Every step publishes one event, withdraws the last, leaves the log as it is,
\* or comes after the CLI restarted the numbering.
LEMMA LogStep ==
  ASSUME IInv, IInv', [Next]_vars
  PROVE  [restarted' \/ Log!Next]_ReadableLog
<1>1. SameLines \/ SpoilsLast \/ CompletesLast
  BY LinesStep DEF IInv
<1>2. restarted => restarted'
  BY DEF Next, vars, file, history, CoreReplay, CoreBegin, CliBegin, Reconcile, WritePart,
         WriteBody, WriteNewline, WriteSidecar, Abort, Poll
<1>3. CASE SameLines \/ (SpoilsLast /\ Len(lines) \notin Readable)
  BY <1>3, SamePlacesSameLog
<1>4. CASE SpoilsLast /\ Len(lines) \in Readable
  BY <1>4, SpoiltWithdraws DEF IInv, Log!Next
<1>5. CASE CompletesLast
  BY <1>2, <1>5, CompletedPublishes DEF IInv, Log!Next
<1>6. QED
  BY <1>1, <1>3, <1>4, <1>5

\* The readable lines of the file implement the log a channel promises, torn
\* lines, crashes and retries included, until the CLI restarts the numbering.
THEOREM LogTheorem == Spec => ImplementsLog
<1>1. Init => Log!Init
  <2> SUFFICES ASSUME Init PROVE ReadableLog = <<>>
    BY DEF Log!Init
  <2>1. Cardinality(Readable) = 0
    BY FS_EmptySet DEF Init, Readable
  <2>2. QED
    BY <2>1 DEF ReadableLog
<1>2. IInv /\ IInv' /\ [Next]_vars => [restarted' \/ Log!Next]_ReadableLog
  BY LogStep
<1>3. QED
  BY <1>1, <1>2, Invariance, PTL DEF Spec, ImplementsLog

-----------------------------------------------------------------------------
(* The consumer of a project's channels.                                    *)

\* An event the consumer has handled, that a tail that began at the end skipped,
\* or that is among the first k of the queue.
Accounted(c, n, k) ==
    \/ n \in handled[c] \/ n \in excused[c]
    \/ \E j \in 1..k : queue[j].channel = c /\ queue[j].seq = n

Covers(cursors, k) ==
    \A c \in Channels : cursors[c] # None => \A n \in 1..cursors[c] : Accounted(c, n, k)

\* A tail is where the cursor of its channel is; one without a cursor has skipped
\* all that was there.
TailAtCursor(c) ==
    IF position[c] # None THEN tailed[c] = position[c]
    ELSE \A n \in 1..tailed[c] : n \in excused[c]

\* The copy of the cursors that is queued with an event covers nothing that is
\* queued behind it, so that it may be saved once the event was handled.
FanInv ==
    /\ Fan!TypeOK
    /\ \A k \in 1..Len(queue) : Covers(queue[k].cursor, k)
    /\ Covers(position, Len(queue))
    /\ Covers(saved, 0)
    /\ \A c \in active : TailAtCursor(c)

\* The step of a tail, with the new cursor, the new map and the new item named.
LEMMA FanIs ==
    ASSUME FanInv, NEW c \in Channels, Fan!Fan(c)
    PROVE  /\ c \in active /\ tailed[c] + 1 \in 1..MaxEvents
           /\ tailed' = [tailed EXCEPT ![c] = tailed[c] + 1]
           /\ position' = [position EXCEPT ![c] = tailed[c] + 1] /\ position' \in Fan!Cursors
           /\ queue' = Append(queue, [channel |-> c, seq |-> tailed[c] + 1, cursor |-> position'])
           /\ UNCHANGED <<length, running, active, scanned, saved, handled, excused>>
<1>1. /\ c \in active /\ tailed[c] < length[c]
      /\ tailed[c] \in 0..MaxEvents /\ length[c] \in 0..MaxEvents /\ MaxEvents \in Nat
    BY FanAssumption DEF FanInv, Fan!TypeOK, Fan!Fan
<1>2. tailed' = [tailed EXCEPT ![c] = tailed[c] + 1] /\ tailed'[c] = tailed[c] + 1
    BY DEF FanInv, Fan!TypeOK, Fan!Fan
<1>3. position' = [position EXCEPT ![c] = tailed[c] + 1]
    BY <1>2 DEF Fan!Fan
<1>4. tailed[c] + 1 \in 1..MaxEvents
    BY <1>1
<1>5. position' \in Fan!Cursors
    BY <1>3, <1>4 DEF FanInv, Fan!TypeOK, Fan!Cursors
<1>6. queue' = Append(queue, [channel |-> c, seq |-> tailed[c] + 1, cursor |-> position'])
    BY <1>2 DEF Fan!Fan
<1>7. QED
    BY <1>1, <1>2, <1>3, <1>4, <1>5, <1>6 DEF Fan!Fan

\* A tail moves on: the new event is queued with the cursor that names it.
LEMMA FanMoves ==
    ASSUME FanInv, NEW c \in Channels, Fan!Fan(c)
    PROVE  FanInv'
<1>0. PICK map, m, last : map = position' /\ m = tailed[c] + 1 /\ last = Len(queue) + 1
    OBVIOUS
<1> DEFINE item == [channel |-> c, seq |-> m, cursor |-> map]
<1>1. /\ c \in active /\ m \in 1..MaxEvents
      /\ tailed' = [tailed EXCEPT ![c] = m]
      /\ position' = [position EXCEPT ![c] = m]
      /\ map = [position EXCEPT ![c] = m] /\ map \in Fan!Cursors
      /\ queue' = Append(queue, item)
      /\ UNCHANGED <<length, running, active, scanned, saved, handled, excused>>
    BY <1>0, FanIs
<1>2. item \in Fan!Items /\ item.channel = c /\ item.seq = m /\ item.cursor = map
    BY <1>1 DEF Fan!Items
<1> HIDE DEF item
<1>3. /\ queue \in Seq(Fan!Items) /\ Len(queue) \in Nat
      /\ queue' \in Seq(Fan!Items) /\ last \in Nat \ {0} /\ Len(queue) = last - 1 /\ Len(queue') = last
      /\ queue'[last] = item
      /\ \A j \in 1..last - 1 : queue'[j] = queue[j]
    BY <1>0, <1>1, <1>2 DEF FanInv, Fan!TypeOK
<1>4. Fan!TypeOK'
    BY <1>1, <1>3 DEF FanInv, Fan!TypeOK
<1>5. ASSUME NEW k \in 0..last - 1, NEW d \in Channels, NEW n, Accounted(d, n, k)
      PROVE  Accounted(d, n, k)'
    BY <1>1, <1>3, <1>5 DEF Accounted
<1>6. ASSUME NEW d \in Channels, NEW n, Accounted(d, n, last - 1)
      PROVE  Accounted(d, n, last)'
    <2>1. Accounted(d, n, last - 1)'
        BY <1>3, <1>5, <1>6
    <2>2. QED
        BY <1>3, <2>1 DEF Accounted
<1>7. Accounted(c, m, last)'
    BY <1>2, <1>3 DEF Accounted
<1>8. ASSUME NEW n \in 1..tailed[c]
      PROVE  Accounted(c, n, last - 1)
    <2>1. TailAtCursor(c) /\ Covers(position, last - 1)
        BY <1>1, <1>3 DEF FanInv
    <2>2. QED
        BY <1>1, <1>8, <2>1 DEF TailAtCursor, Covers, Accounted
<1>9. Covers(map, last)'
    <2>1. SUFFICES ASSUME NEW d \in Channels, map[d] # None, NEW n \in 1..map[d]
          PROVE  Accounted(d, n, last)'
        BY DEF Covers
    <2>2. CASE d = c /\ n = m
        BY <1>7, <2>2
    <2>3. CASE d = c /\ n # m
        <3>1. map[c] = m /\ tailed[c] \in Nat
            BY <1>1 DEF FanInv, Fan!TypeOK, Fan!Cursors
        <3>2. n \in 1..tailed[c]
            BY <1>0, <2>1, <2>3, <3>1
        <3>3. QED
            BY <1>6, <1>8, <2>3, <3>2
    <2>4. CASE d # c
        <3>1. map[d] = position[d]
            BY <1>1, <2>4 DEF FanInv, Fan!TypeOK, Fan!Cursors
        <3>2. Accounted(d, n, last - 1)
            BY <1>3, <2>1, <3>1 DEF FanInv, Covers
        <3>3. QED
            BY <1>6, <3>2
    <2>5. QED
        BY <2>2, <2>3, <2>4
<1>10. ASSUME NEW k \in 1..last
       PROVE  Covers(queue[k].cursor, k)'
    <2>1. CASE k = last
        BY <1>2, <1>3, <1>9, <2>1
    <2>2. CASE k # last
        <3>1. k \in 1..last - 1 /\ queue'[k] = queue[k]
            BY <1>3, <2>2
        <3>2. Covers(queue[k].cursor, k)
            BY <1>3, <3>1 DEF FanInv
        <3>3. QED
            BY <1>5, <3>1, <3>2 DEF Covers
    <2>3. QED
        BY <2>1, <2>2
<1>11. Covers(position, Len(queue))'
    BY <1>0, <1>3, <1>9
<1>12. Covers(saved, 0)'
    BY <1>1, <1>3, <1>5 DEF FanInv, Covers
<1>13. ASSUME NEW d \in active'
       PROVE  TailAtCursor(d)'
    <2>1. d \in active /\ d \in Channels
        BY <1>1, <1>13 DEF FanInv, Fan!TypeOK
    <2>2. CASE d = c
        <3>1. position'[c] = m /\ tailed'[c] = m
            BY <1>1 DEF FanInv, Fan!TypeOK, Fan!Cursors
        <3>2. m # None
            BY <1>1, FanAssumption
        <3>3. QED
            BY <2>2, <3>1, <3>2 DEF TailAtCursor
    <2>3. CASE d # c
        BY <1>1, <2>1, <2>3 DEF FanInv, Fan!TypeOK, Fan!Cursors, TailAtCursor
    <2>4. QED
        BY <2>2, <2>3
<1>14. QED
    BY <1>3, <1>4, <1>10, <1>11, <1>12, <1>13 DEF FanInv

\* The consumer handles the first event: every other one moves up, and its copy
\* of the cursors covers no more than what was handled.
LEMMA YieldMoves ==
    ASSUME FanInv, Fan!Yield
    PROVE  FanInv'
<1>1. /\ queue \in Seq(Fan!Items) /\ queue # <<>> /\ queue' = Tail(queue)
      /\ UNCHANGED <<length, running, active, tailed, position, scanned, excused>>
      /\ saved' \in {saved, queue[1].cursor}
    BY DEF FanInv, Fan!TypeOK, Fan!Yield
<1>2. PICK item : item = queue[1]
    OBVIOUS
<1>3. /\ item \in Fan!Items /\ Len(queue) \in Nat \ {0}
      /\ queue' \in Seq(Fan!Items) /\ Len(queue') = Len(queue) - 1
      /\ \A j \in 1..Len(queue') : queue'[j] = queue[j + 1]
    BY <1>1, <1>2
<1>4. /\ item.channel \in Channels /\ item.seq \in 1..MaxEvents /\ item.cursor \in Fan!Cursors
      /\ handled' = [handled EXCEPT ![item.channel] = @ \cup {item.seq}]
    BY <1>2, <1>3 DEF Fan!Yield, Fan!Items
<1>5. Fan!TypeOK'
    BY <1>1, <1>2, <1>3, <1>4 DEF FanInv, Fan!TypeOK
<1>6. ASSUME NEW k \in 1..Len(queue), NEW c \in Channels, NEW n, Accounted(c, n, k)
      PROVE  Accounted(c, n, k - 1)'
    <2>1. CASE n \in handled[c] \/ n \in excused[c]
        BY <1>1, <1>4, <2>1 DEF Accounted, FanInv, Fan!TypeOK
    <2>2. CASE queue[1].channel = c /\ queue[1].seq = n
        BY <1>2, <1>4, <2>2 DEF Accounted, FanInv, Fan!TypeOK
    <2>3. ASSUME NEW j \in 2..k, queue[j].channel = c, queue[j].seq = n
          PROVE  Accounted(c, n, k - 1)'
        <3>1. j - 1 \in 1..k - 1 /\ j - 1 \in 1..Len(queue') /\ queue'[j - 1] = queue[j]
            BY <1>3, <2>3
        <3>2. QED
            BY <2>3, <3>1 DEF Accounted
    <2>4. \A j \in 1..k : j = 1 \/ j \in 2..k
        OBVIOUS
    <2>5. QED
        BY <1>6, <2>1, <2>2, <2>3, <2>4 DEF Accounted
<1>7. ASSUME NEW c \in Channels, NEW n, Accounted(c, n, 0)
      PROVE  Accounted(c, n, 0)'
    BY <1>1, <1>4, <1>7 DEF Accounted, FanInv, Fan!TypeOK
<1>8. ASSUME NEW k \in 1..Len(queue')
      PROVE  Covers(queue[k].cursor, k)'
    <2>1. k + 1 \in 1..Len(queue) /\ queue'[k] = queue[k + 1] /\ (k + 1) - 1 = k
        BY <1>3
    <2>2. Covers(queue[k + 1].cursor, k + 1)
        BY <2>1 DEF FanInv
    <2>3. QED
        BY <2>1, <2>2, <1>6 DEF Covers
<1>9. Covers(position, Len(queue))'
    <2>1. Len(queue) \in 1..Len(queue) /\ Len(queue) - 1 = Len(queue')
        BY <1>3
    <2>2. QED
        BY <1>1, <1>6, <2>1 DEF FanInv, Covers
<1>10. Covers(saved, 0)'
    <2>1. CASE saved' = saved
        BY <1>7, <2>1 DEF FanInv, Covers
    <2>2. CASE saved' = queue[1].cursor
        <3>1. 1 \in 1..Len(queue) /\ 1 - 1 = 0
            BY <1>3
        <3>2. QED
            BY <1>6, <2>2, <3>1 DEF FanInv, Covers
    <2>3. QED
        BY <1>1, <2>1, <2>2
<1>11. \A c \in active' : TailAtCursor(c)'
    BY <1>1 DEF FanInv, TailAtCursor
<1>12. QED
    BY <1>5, <1>8, <1>9, <1>10, <1>11 DEF FanInv

\* A tail begins at the cursor of its channel, or skips what it does not read.
LEMMA DiscoverMoves ==
    ASSUME FanInv, Fan!Discover
    PROVE  FanInv'
<1> DEFINE new == {c \in Channels \ active : length[c] > 0}
<1>1. /\ active' = active \cup new
      /\ tailed' = [c \in Channels |-> IF c \in new THEN Fan!Begin(c) ELSE tailed[c]]
      /\ excused' = [c \in Channels |->
            IF c \in new /\ position[c] = None THEN excused[c] \cup 1..Fan!Begin(c) ELSE excused[c]]
      /\ scanned' = TRUE
      /\ UNCHANGED <<length, running, position, queue, saved, handled>>
    BY DEF Fan!Discover
<1>2. new \subseteq Channels
    OBVIOUS
<1> HIDE DEF new
<1>3. \A c \in Channels : Fan!Begin(c) \in 0..MaxEvents /\ (position[c] # None => Fan!Begin(c) = position[c])
    BY FanAssumption DEF FanInv, Fan!TypeOK, Fan!Cursors, Fan!Begin
<1>4. Fan!TypeOK'
    BY <1>1, <1>2, <1>3, FanAssumption DEF FanInv, Fan!TypeOK
<1>5. \A c \in Channels : excused[c] \subseteq excused'[c]
    BY <1>1 DEF FanInv, Fan!TypeOK
<1>6. ASSUME NEW c \in Channels, NEW n, NEW k, Accounted(c, n, k)
      PROVE  Accounted(c, n, k)'
    BY <1>1, <1>5, <1>6 DEF Accounted
<1>7. \A k \in 1..Len(queue') : Covers(queue[k].cursor, k)'
    BY <1>1, <1>6 DEF FanInv, Covers
<1>8. Covers(position, Len(queue))' /\ Covers(saved, 0)'
    BY <1>1, <1>6 DEF FanInv, Covers
<1>9. ASSUME NEW c \in active'
      PROVE  TailAtCursor(c)'
    <2>1. c \in Channels
        BY <1>1, <1>2 DEF FanInv, Fan!TypeOK
    <2>2. CASE c \in new
        BY <1>1, <1>3, <2>1, <2>2 DEF TailAtCursor
    <2>3. CASE c \notin new
        BY <1>1, <2>1, <2>3 DEF FanInv, TailAtCursor
    <2>4. QED
        BY <2>2, <2>3
<1>10. QED
    BY <1>4, <1>7, <1>8, <1>9 DEF FanInv

\* A run starts from what was saved, with nothing queued.
LEMMA StartMoves ==
    ASSUME FanInv, Fan!StartRun
    PROVE  FanInv'
<1>1. /\ position' = saved /\ saved' = saved /\ active' = {} /\ queue' = <<>>
      /\ tailed' = [c \in Channels |-> 0]
      /\ running' = TRUE /\ scanned' = FALSE
      /\ UNCHANGED <<length, handled, excused>>
    BY DEF Fan!StartRun
<1>2. Fan!TypeOK'
    <2>1. queue' \in Seq(Fan!Items)
        BY <1>1
    <2>2. tailed' \in [Channels -> 0..MaxEvents]
        BY <1>1, FanAssumption
    <2>3. QED
        BY <1>1, <2>1, <2>2 DEF FanInv, Fan!TypeOK
<1>3. Len(queue') = 0
    BY <1>1
<1>4. Covers(saved, 0)'
    BY <1>1 DEF FanInv, Covers, Accounted
<1>5. QED
    BY <1>1, <1>2, <1>3, <1>4 DEF FanInv, Covers

\* What leaves cursors, queue and history alone.
LEMMA OtherMoves ==
    ASSUME FanInv, Fan!StopRun \/ \E c \in Channels : Fan!AppendEvent(c) \/ Fan!TailDies(c)
    PROVE  FanInv'
<1>1. UNCHANGED <<tailed, position, queue, saved, handled, excused, scanned>> /\ active' \subseteq active
    BY DEF Fan!StopRun, Fan!AppendEvent, Fan!TailDies
<1>2. running' \in BOOLEAN /\ length' \in [Channels -> 0..MaxEvents]
    <2>1. running \in BOOLEAN /\ length \in [Channels -> 0..MaxEvents]
        BY DEF FanInv, Fan!TypeOK
    <2>2. CASE Fan!StopRun
        BY <2>1, <2>2 DEF Fan!StopRun
    <2>3. ASSUME NEW c \in Channels, Fan!AppendEvent(c)
          PROVE  running' = running /\ length' \in [Channels -> 0..MaxEvents]
        <3>1. length[c] + 1 \in 0..MaxEvents
            BY <2>1, <2>3, FanAssumption DEF Fan!AppendEvent
        <3>2. QED
            BY <2>1, <2>3, <3>1 DEF Fan!AppendEvent
    <2>4. ASSUME NEW c \in Channels, Fan!TailDies(c)
          PROVE  running' = running /\ length' = length
        BY <2>4 DEF Fan!TailDies
    <2>5. QED
        BY <2>1, <2>2, <2>3, <2>4
<1>3. Fan!TypeOK'
    BY <1>1, <1>2 DEF FanInv, Fan!TypeOK
<1>4. QED
    BY <1>1, <1>3 DEF FanInv, Covers, Accounted, TailAtCursor

\* For every number of channels, events, runs and tails that die: what a checkpoint
\* covers was handled in some run, unless a tail that began at the end skipped it.
THEOREM CheckpointTheorem == FollowSpec => []CheckpointsCovered
<1> DEFINE Inv == part = "fan" => FanInv
<1>1. ASSUME FollowInit
      PROVE  FanInv
    <2>1. queue \in Seq(Fan!Items) /\ Len(queue) = 0
        BY <1>1 DEF FollowInit, Fan!Init
    <2>2. 0 \in 0..MaxEvents
        BY FanAssumption
    <2>3. position \in Fan!Cursors /\ saved \in Fan!Cursors
        BY <1>1 DEF FollowInit, Fan!Init, Fan!Cursors, Fan!NoCursor
    <2>4. Fan!TypeOK
        BY <1>1, <2>1, <2>2, <2>3 DEF FollowInit, Fan!Init, Fan!TypeOK
    <2>5. QED
        BY <1>1, <2>1, <2>4 DEF FollowInit, Fan!Init, Fan!NoCursor, FanInv, Covers
<1>2. Inv /\ [FollowNext]_followVars => Inv'
    <2>1. SUFFICES ASSUME Inv, [FollowNext]_followVars, part' = "fan"
          PROVE  FanInv'
        OBVIOUS
    <2>2. FanInv /\ (Fan!Next \/ UNCHANGED fanVars)
        BY <2>1 DEF FollowNext, followVars, FanStep, Rest
    <2>3. CASE UNCHANGED fanVars
        BY <2>2, <2>3 DEF fanVars, FanInv, Fan!TypeOK, Covers, Accounted, TailAtCursor
    <2>4. CASE Fan!Next
        BY <2>2, <2>4, FanMoves, YieldMoves, DiscoverMoves, StartMoves, OtherMoves DEF Fan!Next
    <2>5. QED
        BY <2>2, <2>3, <2>4
<1>3. Inv => CheckpointsCovered
    BY DEF FanInv, Fan!TypeOK, Fan!Cursors, Covers, Accounted, CheckpointsCovered, Fan!AtLeastOnce
<1>4. QED
    BY <1>1, <1>2, <1>3, PTL DEF FollowSpec

-----------------------------------------------------------------------------
(* The removal of a channel. A worker whose listed launch still lives has   *)
(* not been passed over: it is still to be signalled, or being waited for.  *)

RemovalInv ==
    /\ remover \in Removal!Removers \cup {None}
    /\ DOMAIN supervisor = Workers
    /\ launches \in [Workers -> Nat] /\ listed \in [Workers -> Nat]
    /\ \A w \in Workers :
          /\ listed[w] <= launches[w]
          /\ listed[w] # 0 /\ listed[w] = launches[w] /\ Removal!Alive(w) =>
                remover # None /\ (w \in remover.todo \/ w = remover.at)

\* A new launch is not the one that was listed.
LEMMA ForkKeepsListed ==
    ASSUME RemovalInv, NEW w \in Workers, Removal!Fork(w)
    PROVE  RemovalInv'
<1>1. /\ supervisor' = [supervisor EXCEPT ![w] = "launched"]
      /\ launches' = [launches EXCEPT ![w] = @ + 1]
      /\ remover' = remover /\ listed' = listed
    BY DEF Removal!Fork
<1>2. QED
    BY <1>1 DEF RemovalInv, Removal!Alive

\* What signals nobody and launches nobody: supervisors start, close or end.
LEMMA OtherKeepsListed ==
    ASSUME RemovalInv, UNCHANGED <<remover, launches, listed>>, DOMAIN supervisor' = Workers,
           \A w \in Workers : Removal!Alive(w)' => Removal!Alive(w)
    PROVE  RemovalInv'
BY DEF RemovalInv

\* The list of a removal holds every worker that is listed as live.
LEMMA BeginKeepsListed ==
    ASSUME RemovalInv, NEW why \in {"rm", "prune", "force", "run"}, Removal!Begin(why)
    PROVE  RemovalInv'
<1>1. /\ remover = None
      /\ remover' = [why |-> why, todo |-> {w \in Workers : pid[w]}, at |-> None]
      /\ listed' = [w \in Workers |-> IF w \in Removal!Live THEN launches[w] ELSE listed[w]]
      /\ supervisor' = supervisor /\ launches' = launches
    BY DEF Removal!Begin, Removal!procVars
<1>2. remover' \in Removal!Removers /\ remover' # None
    BY <1>1, RemovalAssumption DEF Removal!Removers
<1>3. ASSUME NEW w \in Workers
      PROVE  /\ listed'[w] <= launches'[w]
             /\ listed'[w] # 0 /\ listed'[w] = launches'[w] /\ Removal!Alive(w)' => w \in remover'.todo
    BY <1>1 DEF RemovalInv, Removal!Live, Removal!Alive
<1>4. listed' \in [Workers -> Nat]
    BY <1>1 DEF RemovalInv
<1>5. QED
    BY <1>1, <1>2, <1>3, <1>4 DEF RemovalInv

\* A worker that is signalled is waited for, unless it has ended.
LEMMA SignalKeepsListed ==
    ASSUME RemovalInv, Removal!Signal
    PROVE  RemovalInv'
<1>1. PICK w \in remover.todo :
          /\ remover' = [remover EXCEPT !.todo = @ \ {w}, !.at = IF Removal!Alive(w) THEN w ELSE None]
          /\ supervisor' = [supervisor EXCEPT
                ![w] = CASE @ = "launched" -> "gone" [] @ = "ready" -> "closing" [] OTHER -> @]
    BY DEF Removal!Signal
<1>2. /\ remover \in Removal!Removers /\ remover # None /\ remover.at = None
      /\ launches' = launches /\ listed' = listed
    BY DEF RemovalInv, Removal!Signal, Removal!history
<1>3. /\ remover' \in Removal!Removers /\ remover' # None /\ w \in Workers
      /\ remover'.todo = remover.todo \ {w}
      /\ remover'.at = IF Removal!Alive(w) THEN w ELSE None
    <2>1. PICK left, next : left = remover.todo \ {w} /\ next = IF Removal!Alive(w) THEN w ELSE None
        OBVIOUS
    <2>2. remover' = [remover EXCEPT !.todo = left, !.at = next]
        BY <1>1, <2>1
    <2>3. w \in Workers /\ left \in SUBSET Workers /\ next \in Workers \cup {None}
        BY <1>1, <1>2, <2>1 DEF Removal!Removers
    <2>4. remover' \in Removal!Removers /\ remover'.todo = left /\ remover'.at = next
        BY <1>2, <2>2, <2>3 DEF Removal!Removers
    <2>5. QED
        BY <2>1, <2>3, <2>4, RemovalAssumption
<1>4. DOMAIN supervisor' = Workers
    BY <1>1 DEF RemovalInv
<1>5. \A v \in Workers : v # w => supervisor'[v] = supervisor[v]
    BY <1>1 DEF RemovalInv
<1>6. supervisor'[w] = CASE supervisor[w] = "launched" -> "gone"
                         [] supervisor[w] = "ready" -> "closing" [] OTHER -> supervisor[w]
    BY <1>1, <1>3 DEF RemovalInv
<1>7. \A v \in Workers : Removal!Alive(v)' => Removal!Alive(v)
    BY <1>5, <1>6 DEF Removal!Alive
<1>8. ASSUME NEW v \in Workers, v \in remover.todo \/ v = remover.at, Removal!Alive(v)
      PROVE  v \in remover'.todo \/ v = remover'.at
    BY <1>2, <1>3, <1>8, RemovalAssumption
<1>9. QED
    BY <1>2, <1>3, <1>4, <1>7, <1>8 DEF RemovalInv

LEMMA AwaitKeepsListed ==
    ASSUME RemovalInv, Removal!Await
    PROVE  RemovalInv'
<1>1. /\ remover \in Removal!Removers /\ remover # None /\ remover.at # None
      /\ supervisor' = [supervisor EXCEPT ![remover.at] = "gone"]
      /\ remover' = [remover EXCEPT !.at = None]
      /\ launches' = launches /\ listed' = listed
    BY DEF RemovalInv, Removal!Await, Removal!history
<1>2. /\ remover' \in Removal!Removers /\ remover' # None /\ remover'.todo = remover.todo
      /\ remover.at \in Workers
    BY <1>1, RemovalAssumption DEF Removal!Removers
<1>3. DOMAIN supervisor' = Workers
    BY <1>1 DEF RemovalInv
<1>4. \A w \in Workers : Removal!Alive(w)' => Removal!Alive(w) /\ w # remover.at
    BY <1>1, <1>2 DEF RemovalInv, Removal!Alive
<1>5. QED
    <2>1. ASSUME NEW w \in Workers
          PROVE  /\ listed'[w] <= launches'[w]
                 /\ listed'[w] # 0 /\ listed'[w] = launches'[w] /\ Removal!Alive(w)' =>
                       w \in remover'.todo
        BY <1>1, <1>2, <1>4 DEF RemovalInv
    <2>2. QED
        BY <1>1, <1>2, <1>3, <2>1 DEF RemovalInv

LEMMA RemovalKeepsListed ==
    ASSUME RemovalInv, Removal!Next
    PROVE  RemovalInv'
<1>1. ASSUME NEW w \in Workers, Removal!Launch(w) \/ Removal!Fork(w)
      PROVE  RemovalInv'
    BY <1>1, ForkKeepsListed DEF Removal!Launch
<1>2. CASE \/ Removal!Create \/ Removal!LateAppend \/ Removal!RunCreate \/ Removal!WorkerDone
           \/ Removal!RunFails \/ \E w \in Workers : Removal!WritePid(w)
    <2>1. UNCHANGED <<remover, supervisor, launches, listed>>
        BY <1>2 DEF Removal!Create, Removal!LateAppend, Removal!RunCreate, Removal!WorkerDone,
           Removal!RunFails, Removal!WritePid, Removal!procVars, Removal!history
    <2>2. QED
        BY <2>1 DEF RemovalInv, Removal!Alive
<1>3. ASSUME NEW w \in Workers, Removal!Start(w) \/ Removal!ChildEnds(w)
      PROVE  RemovalInv'
    <2>1. PICK s : supervisor' = [supervisor EXCEPT ![w] = s]
        BY <1>3 DEF Removal!Start, Removal!ChildEnds
    <2>2. Removal!Alive(w) /\ UNCHANGED <<remover, launches, listed>>
        BY <1>3 DEF Removal!Start, Removal!ChildEnds, Removal!Alive, Removal!history
    <2>3. DOMAIN supervisor' = Workers /\ \A v \in Workers : v # w => supervisor'[v] = supervisor[v]
        BY <2>1 DEF RemovalInv
    <2>4. QED
        BY <2>2, <2>3, OtherKeepsListed DEF Removal!Alive
<1>4. CASE Removal!BeginRm \/ Removal!BeginForce \/ Removal!BeginPrune \/ Removal!RunSucceeds
    BY <1>4, BeginKeepsListed DEF Removal!BeginRm, Removal!BeginForce, Removal!BeginPrune,
       Removal!RunSucceeds
<1>5. CASE Removal!Wipe
    <2>1. /\ remover # None /\ remover.at = None /\ remover.todo = {} /\ remover' = None
          /\ UNCHANGED <<supervisor, launches, listed>>
        BY <1>5 DEF Removal!Wipe, Removal!procVars, Removal!history
    <2>2. QED
        BY <2>1, RemovalAssumption DEF RemovalInv, Removal!Alive
<1>6. CASE Removal!RunSpawn
    BY <1>1, <1>6 DEF Removal!RunSpawn
<1>7. QED
    BY <1>1, <1>2, <1>3, <1>4, <1>5, <1>6, SignalKeepsListed, AwaitKeepsListed DEF Removal!Next

\* For every number of workers, launches and removals: when a directory has been
\* wiped, no launch that its removal listed as live is left running.
THEOREM ListedTheorem == FollowSpec => []ListedStopped
<1> DEFINE Inv == part = "removal" => RemovalInv
<1>1. FollowInit => Inv
    BY DEF FollowInit, Removal!Init, RemovalInv
<1>2. Inv /\ [FollowNext]_followVars => Inv'
    <2>1. CASE UNCHANGED <<part, removalVars>>
        BY <2>1 DEF removalVars, RemovalInv, Removal!Alive
    <2>2. CASE part = "removal" /\ Removal!Next /\ part' = part
        BY <2>2, RemovalKeepsListed
    <2>3. QED
        BY <2>1, <2>2 DEF FollowNext, FanStep, Rest, followVars
<1>3. Inv => ListedStopped
    BY DEF ListedStopped, Removal!ListedStopped, RemovalInv
<1>4. QED
    BY <1>1, <1>2, <1>3, PTL DEF FollowSpec

-----------------------------------------------------------------------------
(* The adapter. Each answer is one message and an end one done, wherever    *)
(* the event is: waiting in a task, or appended.                            *)

LineEvents == [kind : {"message", "done", "progress", "error"}, turn : Nat, of : Nat \X Nat]
Ends == IF provider = "codex" THEN {"end", "aborted"} ELSE {"result", "failed"}
TurnRecords == [lines : Nat, answers : SUBSET (Nat \X Nat), over : {"end", "aborted", "result", "failed", None}]

AdapterTypes ==
    /\ provider \in {"claude", "codex"}
    /\ DOMAIN ctx = {"pending", "final", "owed", "thread", "next"}
    /\ DOMAIN program = {"asked", "turns", "items"} /\ program.turns \in Seq(TurnRecords)
    /\ said \in Seq(LineEvents) /\ tasks \in Seq(Seq(LineEvents))
    /\ \A t \in DOMAIN program.turns : program.turns[t].answers \subseteq (1..program.turns[t].lines) \X Nat
    /\ \A i \in DOMAIN tasks : Len(tasks[i]) > 0
    /\ overlapped \in BOOLEAN

Written(e, n) == n \in 1..Len(said) /\ said[n] = e
Waiting(e, i, j) == i \in 1..Len(tasks) /\ j \in 1..Len(tasks[i]) /\ tasks[i][j] = e

AtMostOne(e) ==
    /\ \A m, n \in Nat : Written(e, m) /\ Written(e, n) => m = n
    /\ \A i, j, k, l \in Nat : Waiting(e, i, j) /\ Waiting(e, k, l) => i = k /\ j = l
    /\ \A n, i, j \in Nat : ~(Written(e, n) /\ Waiting(e, i, j))

Somewhere(e) ==
    \/ \E n \in Nat : Written(e, n)
    \/ \E i, j \in Nat : Waiting(e, i, j)

\* What the program has said of a turn.
IsAnswer(t, a) == t \in DOMAIN program.turns /\ a \in program.turns[t].answers
IsAnswered(t) == t \in DOMAIN program.turns /\ program.turns[t].answers # {}
IsComplete(t) == IsAnswered(t) /\ program.turns[t].over \in {"end", "result"}

\* Only the last turn is under way, and what Codex's adapter remembers is of that one.
OnlyLast ==
    /\ \A t \in DOMAIN program.turns :
          /\ program.turns[t].over \in Ends \cup {None}
          /\ t # Len(program.turns) => IsAnswered(t) /\ program.turns[t].over # None
    /\ provider = "codex" =>
          /\ ctx.final = IsAnswered(Len(program.turns))
          /\ ctx.owed = (/\ program.turns # <<>> /\ ~IsAnswered(Len(program.turns))
                         /\ program.turns[Len(program.turns)].over = "end")

Message(t, a) == [kind |-> "message", turn |-> t, of |-> a]
Done(t) == [kind |-> "done", turn |-> t, of |-> <<0, 0>>]

\* Of the messages, whatever the turns do.
MessagesOnce ==
    \A t \in Nat : \A a \in Nat \X Nat :
        AtMostOne(Message(t, a)) /\ (Somewhere(Message(t, a)) <=> IsAnswer(t, a))

DonesOnce ==
    \A t \in Nat : AtMostOne(Done(t)) /\ (Somewhere(Done(t)) <=> IsComplete(t))

AdapterInv == AdapterTypes /\ MessagesOnce /\ (~overlapped => OnlyLast /\ DonesOnce)

\* What is left of a sequence without one of its elements.
Lacks(r, s, i) == r = SubSeq(s, 1, i - 1) \o SubSeq(s, i + 1, Len(s))

LEMMA WithoutOne ==
    ASSUME NEW S, NEW s \in Seq(S), NEW i \in 1..Len(s), NEW r, Lacks(r, s, i)
    PROVE  /\ r \in Seq(S) /\ Len(r) = Len(s) - 1
           /\ \A x \in 1..i - 1 : r[x] = s[x]
           /\ \A x \in i..Len(s) - 1 : r[x] = s[x + 1]
<1>1. PICK left, right : left = SubSeq(s, 1, i - 1) /\ right = SubSeq(s, i + 1, Len(s))
    OBVIOUS
<1>2. Len(s) \in Nat /\ \A x \in 1..Len(s) : s[x] \in S
    OBVIOUS
<1>3. /\ left \in Seq(S) /\ Len(left) = i - 1
      /\ \A x \in 1..i - 1 : left[x] = s[x]
    BY <1>1, <1>2, SubSeqProperties
<1>4. /\ right \in Seq(S) /\ Len(right) = Len(s) - i
      /\ \A x \in 1..Len(s) - i : right[x] = s[(i + 1) + x - 1]
    BY <1>1, <1>2, SubSeqProperties
<1>5. r = left \o right
    BY <1>1 DEF Lacks
<1>6. /\ r \in Seq(S) /\ Len(r) = Len(left) + Len(right)
      /\ \A x \in 1..Len(left) + Len(right) : r[x] = IF x <= Len(left) THEN left[x] ELSE right[x - Len(left)]
    BY ONLY <1>3, <1>4, <1>5, ConcatProperties
<1>7. Len(left) + Len(right) = Len(s) - 1
    BY ONLY <1>2, <1>3, <1>4, i \in 1..Len(s)
<1>8. ASSUME NEW x \in 1..i - 1
      PROVE  r[x] = s[x]
    <2>1. x \in 1..Len(left) + Len(right) /\ x <= Len(left)
        BY ONLY <1>2, <1>3, <1>7, i \in 1..Len(s), x \in 1..i - 1
    <2>2. r[x] = left[x]
        BY ONLY <1>6, <2>1
    <2>3. QED
        BY ONLY <1>3, <2>2, x \in 1..i - 1
<1>9. ASSUME NEW x \in i..Len(s) - 1
      PROVE  r[x] = s[x + 1]
    <2>1. x - (i - 1) \in 1..Len(s) - i /\ (i + 1) + (x - (i - 1)) - 1 = x + 1
        BY ONLY <1>2, i \in 1..Len(s), x \in i..Len(s) - 1
    <2>2. r[x] = right[x - (i - 1)]
        BY ONLY <1>2, <1>3, <1>6, <1>7, i \in 1..Len(s), x \in i..Len(s) - 1
    <2>3. QED
        BY ONLY <1>4, <2>1, <2>2
<1>10. QED
    BY ONLY <1>6, <1>7, <1>8, <1>9

\* What a task has left when its first event is appended.
LEMMA TailOfTask ==
    ASSUME NEW S, NEW s \in Seq(S), Len(s) > 0
    PROVE  /\ Tail(s) \in Seq(S) /\ Len(Tail(s)) = Len(s) - 1
           /\ \A x \in 1..Len(s) - 1 : Tail(s)[x] = s[x + 1]
           /\ Len(s) = 1 <=> Tail(s) = <<>>
<1>1. s # <<>>
    OBVIOUS
<1>2. /\ Tail(s) \in Seq(S) /\ Len(Tail(s)) = Len(s) - 1
      /\ \A x \in 1..Len(Tail(s)) : Tail(s)[x] = s[x + 1]
    BY <1>1, HeadTailProperties
<1>3. Len(Tail(s)) = 0 <=> Tail(s) = <<>>
    BY <1>2, EmptySeq
<1>4. QED
    BY <1>2, <1>3

\* An event that is appended leaves its task for the log.
LEMMA AppendMoves ==
    ASSUME AdapterTypes, NEW i \in DOMAIN tasks, Adapter!AppendEvent(i)
    PROVE  /\ AdapterTypes'
           /\ \A e \in LineEvents :
                 /\ AtMostOne(e) => AtMostOne(e)'
                 /\ Somewhere(e)' <=> Somewhere(e)
<1>0. PICK rest, n, first : rest = Tail(tasks[i]) /\ n = Len(tasks) /\ first = tasks[i][1]
    OBVIOUS
<1>1. /\ said' = Append(said, first)
      /\ tasks' = IF rest = <<>> THEN SubSeq(tasks, 1, i - 1) \o SubSeq(tasks, i + 1, n)
                  ELSE [tasks EXCEPT ![i] = rest]
      /\ UNCHANGED <<provider, ctx, program, overlapped>>
    BY <1>0 DEF Adapter!AppendEvent
<1>2. /\ tasks \in Seq(Seq(LineEvents)) /\ said \in Seq(LineEvents)
      /\ i \in 1..n /\ n \in Nat /\ n = Len(tasks)
    BY <1>0 DEF AdapterTypes
<1>3. tasks[i] \in Seq(LineEvents) /\ Len(tasks[i]) > 0 /\ first = tasks[i][1] /\ first \in LineEvents
    BY <1>0, <1>2 DEF AdapterTypes
<1>4. i \in 1..n /\ n \in Nat /\ n = Len(tasks)
    BY ONLY <1>2
<1>a. \A x \in 1..n : Len(tasks[x]) > 0
    <2>1. DOMAIN tasks = 1..n
        BY ONLY <1>2, LenProperties
    <2>2. \A x \in DOMAIN tasks : Len(tasks[x]) > 0
        BY DEF AdapterTypes
    <2>3. QED
        BY ONLY <2>1, <2>2
<1>b. said \in Seq(LineEvents) /\ first \in LineEvents /\ said' = Append(said, first)
    BY <1>1, <1>2, <1>3
<1>c. /\ said' \in Seq(LineEvents) /\ Len(said) \in Nat /\ Len(said') = Len(said) + 1
      /\ said'[Len(said) + 1] = first
      /\ \A m \in 1..Len(said) : said'[m] = said[m]
    BY ONLY <1>b
<1>d. ASSUME NEW e \in LineEvents
      PROVE  /\ \A m \in Nat : Written(e, m)' <=>
                   Written(e, m) \/ (m = Len(said) + 1 /\ Waiting(e, i, 1))
             /\ ~Written(e, Len(said) + 1)
    <2>1. Waiting(e, i, 1) <=> first = e
        BY ONLY <1>3, <1>4 DEF Waiting
    <2>2. QED
        BY ONLY <1>c, <2>1 DEF Written
<1>5. CASE rest = <<>>
    <2>1. Len(tasks[i]) = 1
        BY <1>0, <1>3, <1>5, TailOfTask
    <2>2. /\ tasks' \in Seq(Seq(LineEvents)) /\ Len(tasks') = n - 1
          /\ \A x \in 1..i - 1 : tasks'[x] = tasks[x]
          /\ \A x \in i..n - 1 : tasks'[x] = tasks[x + 1]
        <3>1. tasks' = SubSeq(tasks, 1, i - 1) \o SubSeq(tasks, i + 1, Len(tasks))
            BY <1>0, <1>1, <1>5
        <3>2. tasks \in Seq(Seq(LineEvents)) /\ i \in 1..Len(tasks)
            BY <1>2
        <3>3. /\ tasks' \in Seq(Seq(LineEvents)) /\ Len(tasks') = Len(tasks) - 1
              /\ \A x \in 1..i - 1 : tasks'[x] = tasks[x]
              /\ \A x \in i..Len(tasks) - 1 : tasks'[x] = tasks[x + 1]
            <4>1. PICK S, s, r : S = Seq(LineEvents) /\ s = tasks /\ r = tasks'
                OBVIOUS
            <4>2. s \in Seq(S) /\ i \in 1..Len(s) /\ Lacks(r, s, i)
                BY ONLY <3>1, <3>2, <4>1 DEF Lacks
            <4>3. /\ r \in Seq(S) /\ Len(r) = Len(s) - 1
                  /\ \A x \in 1..i - 1 : r[x] = s[x]
                  /\ \A x \in i..Len(s) - 1 : r[x] = s[x + 1]
                BY ONLY <4>2, WithoutOne
            <4>4. QED
                BY ONLY <4>1, <4>3
        <3>4. QED
            BY ONLY <1>4, <3>3
    <2>3. AdapterTypes'
        <3>1. DOMAIN tasks' = 1..n - 1
            BY ONLY <2>2, LenProperties
        <3>2. ASSUME NEW x \in 1..n - 1
              PROVE  Len(tasks'[x]) > 0
            <4>1. CASE x < i
                <5>1. x \in 1..i - 1 /\ x \in 1..n
                    BY ONLY <1>4, <4>1, x \in 1..n - 1
                <5>2. QED
                    BY ONLY <1>a, <2>2, <5>1
            <4>2. CASE x >= i
                <5>1. x \in i..n - 1 /\ x + 1 \in 1..n
                    BY ONLY <1>4, <4>2, x \in 1..n - 1
                <5>2. QED
                    BY ONLY <1>a, <2>2, <5>1
            <4>3. QED
                BY <1>4, <4>1, <4>2
        <3>3. QED
            BY <1>1, <1>2, <1>c, <2>2, <3>1, <3>2 DEF AdapterTypes
    <2>4. ASSUME NEW e \in LineEvents, NEW x \in Nat, NEW y \in Nat
          PROVE  /\ Waiting(e, x, y)' => (x < i /\ Waiting(e, x, y)) \/ (x >= i /\ Waiting(e, x + 1, y))
                 /\ Waiting(e, x, y) =>
                       \/ x = i /\ y = 1
                       \/ x < i /\ Waiting(e, x, y)'
                       \/ x > i /\ Waiting(e, x - 1, y)'
        <3>1. /\ Len(tasks') = n - 1 /\ Len(tasks[i]) = 1
              /\ \A z \in 1..i - 1 : tasks'[z] = tasks[z]
              /\ \A z \in i..n - 1 : tasks'[z] = tasks[z + 1]
            BY <2>1, <2>2
        <3>2. x < i \/ x = i \/ x > i
            BY <1>4
        <3>3. CASE x < i
            <4>1. x \in 1..i - 1 => tasks'[x] = tasks[x]
                BY <3>1
            <4>2. Len(tasks') = n - 1
                BY <3>1
            <4>3. QED
                BY ONLY <1>4, <3>3, <4>1, <4>2, x \in Nat, y \in Nat DEF Waiting
        <3>4. CASE x = i
            <4>1. i \in i..n - 1 => tasks'[i] = tasks[i + 1]
                BY <3>1
            <4>2. Len(tasks') = n - 1 /\ Len(tasks[i]) = 1
                BY <3>1
            <4>3. QED
                BY ONLY <1>4, <3>4, <4>1, <4>2, y \in Nat DEF Waiting
        <3>5. CASE x > i
            <4>1. x \in i..n - 1 => tasks'[x] = tasks[x + 1]
                BY <3>1
            <4>2. x - 1 \in i..n - 1 => tasks'[x - 1] = tasks[x]
                <5>1. (x - 1) + 1 = x
                    BY x \in Nat
                <5>2. QED
                    BY ONLY <3>1, <5>1
            <4>3. QED
                BY ONLY <1>4, <3>1, <3>5, <4>1, <4>2, x \in Nat, y \in Nat DEF Waiting
        <3>6. QED
            BY ONLY <3>2, <3>3, <3>4, <3>5
    <2>5. ASSUME NEW e \in LineEvents
          PROVE  /\ AtMostOne(e) => AtMostOne(e)'
                 /\ Somewhere(e)' <=> Somewhere(e)
        <3>1. ASSUME AtMostOne(e)
              PROVE  AtMostOne(e)'
            <4>1. ASSUME NEW m \in Nat, NEW k \in Nat, Written(e, m)', Written(e, k)'
                  PROVE  m = k
                BY ONLY e \in LineEvents, <1>4, <1>c, <1>d, <3>1, <4>1 DEF AtMostOne
            <4>2. ASSUME NEW x \in Nat, NEW y \in Nat, NEW k \in Nat, NEW l \in Nat,
                         Waiting(e, x, y)', Waiting(e, k, l)'
                  PROVE  x = k /\ y = l
                <5>1. PICK u \in Nat : (IF x < i THEN u = x ELSE u = x + 1) /\ Waiting(e, u, y)
                    BY ONLY e \in LineEvents, <1>4, <2>4, <4>2
                <5>2. PICK v \in Nat : (IF k < i THEN v = k ELSE v = k + 1) /\ Waiting(e, v, l)
                    BY ONLY e \in LineEvents, <1>4, <2>4, <4>2
                <5>3. u = v /\ y = l
                    BY ONLY <3>1, <4>2, <5>1, <5>2 DEF AtMostOne
                <5>4. QED
                    BY ONLY <1>4, <5>1, <5>2, <5>3
            <4>3. ASSUME NEW m \in Nat, NEW x \in Nat, NEW y \in Nat, Written(e, m)', Waiting(e, x, y)'
                  PROVE  FALSE
                <5>1. PICK u \in Nat : (IF x < i THEN u = x ELSE u = x + 1) /\ Waiting(e, u, y)
                    BY ONLY e \in LineEvents, <1>4, <2>4, <4>3
                <5>2. u # i /\ i \in Nat
                    BY ONLY <1>4, <5>1
                <5>3. Written(e, m) \/ Waiting(e, i, 1)
                    BY ONLY e \in LineEvents, <1>d, <4>3
                <5>4. QED
                    BY ONLY <3>1, <4>3, <5>1, <5>2, <5>3 DEF AtMostOne
            <4>4. QED
                BY ONLY <4>1, <4>2, <4>3 DEF AtMostOne
        <3>2. ASSUME Somewhere(e)
              PROVE  Somewhere(e)'
            BY ONLY e \in LineEvents, <1>4, <1>c, <1>d, <2>4, <3>2 DEF Somewhere
        <3>3. ASSUME Somewhere(e)'
              PROVE  Somewhere(e)
            BY ONLY e \in LineEvents, <1>4, <1>c, <1>d, <2>4, <3>3 DEF Somewhere
        <3>4. QED
            BY <3>1, <3>2, <3>3
    <2>6. QED
        BY <2>3, <2>5
<1>6. CASE rest # <<>>
    <2>0. PICK k : k = Len(tasks[i])
        OBVIOUS
    <2>1. /\ k \in Nat /\ k > 1 /\ k = Len(tasks[i])
          /\ rest \in Seq(LineEvents) /\ Len(rest) = k - 1
          /\ \A y \in 1..k - 1 : rest[y] = tasks[i][y + 1]
        BY <1>0, <1>3, <1>6, <2>0, TailOfTask
    <2>2. /\ tasks' \in Seq(Seq(LineEvents)) /\ Len(tasks') = n /\ tasks'[i] = rest
          /\ \A x \in 1..n : x # i => tasks'[x] = tasks[x]
        <3>1. tasks' = [tasks EXCEPT ![i] = rest] /\ i \in 1..Len(tasks)
            BY <1>1, <1>2, <1>6
        <3>2. QED
            BY ONLY <1>2, <2>1, <3>1, ExceptSeq
    <2>3. AdapterTypes'
        <3>1. DOMAIN tasks' = 1..n
            BY ONLY <2>2, LenProperties
        <3>2. ASSUME NEW x \in 1..n
              PROVE  Len(tasks'[x]) > 0
            <4>1. CASE x = i
                BY <2>1, <2>2, <4>1
            <4>2. CASE x # i
                <5>1. tasks'[x] = tasks[x]
                    BY <2>2, <4>2
                <5>2. QED
                    BY <1>a, <5>1
            <4>3. QED
                BY <4>1, <4>2
        <3>3. QED
            BY <1>1, <1>2, <1>c, <2>2, <3>1, <3>2 DEF AdapterTypes
    <2>4. ASSUME NEW e \in LineEvents, NEW x \in Nat, NEW y \in Nat
          PROVE  Waiting(e, x, y)' <=> IF x = i THEN y > 0 /\ Waiting(e, i, y + 1) ELSE Waiting(e, x, y)
        <3>1. /\ Len(tasks') = n /\ tasks'[i] = rest /\ Len(rest) = k - 1
              /\ \A z \in 1..k - 1 : rest[z] = tasks[i][z + 1]
              /\ \A z \in 1..n : z # i => tasks'[z] = tasks[z]
              /\ Len(tasks[i]) = k /\ k \in Nat
            BY <2>1, <2>2
        <3>2. CASE x = i
            BY ONLY <1>4, <3>1, <3>2, y \in Nat DEF Waiting
        <3>3. CASE x # i
            <4>1. x \in 1..n => tasks'[x] = tasks[x]
                BY ONLY <3>1, <3>3
            <4>2. Len(tasks') = Len(tasks)
                BY ONLY <1>4, <3>1
            <4>3. Waiting(e, x, y)' <=> Waiting(e, x, y)
                BY ONLY <1>4, <4>1, <4>2 DEF Waiting
            <4>4. QED
                BY ONLY <3>3, <4>3
        <3>4. QED
            BY ONLY <3>2, <3>3
    <2>5. ASSUME NEW e \in LineEvents, NEW y \in Nat, Waiting(e, i, y)
          PROVE  y = 1 \/ (y - 1 \in Nat /\ y - 1 > 0 /\ (y - 1) + 1 = y)
        BY ONLY <1>4, <2>1, <2>5 DEF Waiting
    <2>6. ASSUME NEW e \in LineEvents
          PROVE  /\ AtMostOne(e) => AtMostOne(e)'
                 /\ Somewhere(e)' <=> Somewhere(e)
        <3>1. ASSUME AtMostOne(e)
              PROVE  AtMostOne(e)'
            <4>1. ASSUME NEW m \in Nat, NEW j \in Nat, Written(e, m)', Written(e, j)'
                  PROVE  m = j
                BY ONLY e \in LineEvents, <1>4, <1>c, <1>d, <3>1, <4>1 DEF AtMostOne
            <4>2. ASSUME NEW x \in Nat, NEW y \in Nat, NEW j \in Nat, NEW l \in Nat,
                         Waiting(e, x, y)', Waiting(e, j, l)'
                  PROVE  x = j /\ y = l
                BY ONLY e \in LineEvents, <1>4, <2>4, <2>5, <3>1, <4>2 DEF AtMostOne
            <4>3. ASSUME NEW m \in Nat, NEW x \in Nat, NEW y \in Nat, Written(e, m)', Waiting(e, x, y)'
                  PROVE  FALSE
                BY ONLY e \in LineEvents, <1>4, <1>c, <1>d, <2>4, <2>5, <3>1, <4>3 DEF AtMostOne
            <4>4. QED
                BY ONLY <4>1, <4>2, <4>3 DEF AtMostOne
        <3>2. ASSUME Somewhere(e)
              PROVE  Somewhere(e)'
            <4>1. CASE \E m \in Nat : Written(e, m)
                BY ONLY e \in LineEvents, <1>d, <4>1 DEF Somewhere
            <4>2. CASE \E x, y \in Nat : Waiting(e, x, y)
                <5>1. PICK x \in Nat, y \in Nat : Waiting(e, x, y)
                    BY <4>2
                <5>2. CASE x # i
                    BY ONLY e \in LineEvents, <2>4, <5>1, <5>2 DEF Somewhere
                <5>3. CASE x = i /\ y = 1
                    <6>1. Len(said) + 1 \in Nat
                        BY <1>c
                    <6>2. QED
                        BY ONLY e \in LineEvents, <1>d, <5>1, <5>3, <6>1 DEF Somewhere
                <5>4. CASE x = i /\ y # 1
                    <6>1. y - 1 \in Nat /\ y - 1 > 0 /\ (y - 1) + 1 = y
                        BY ONLY e \in LineEvents, <2>5, <5>1, <5>4
                    <6>2. Waiting(e, i, y - 1)' /\ i \in Nat
                        BY ONLY e \in LineEvents, <1>4, <2>4, <5>1, <5>4, <6>1
                    <6>3. QED
                        BY ONLY <6>1, <6>2 DEF Somewhere
                <5>5. QED
                    BY <5>2, <5>3, <5>4
            <4>3. QED
                BY <3>2, <4>1, <4>2 DEF Somewhere
        <3>3. ASSUME Somewhere(e)'
              PROVE  Somewhere(e)
            BY ONLY e \in LineEvents, <1>4, <1>c, <1>d, <2>4, <2>5, <3>3 DEF Somewhere
        <3>4. QED
            BY <3>1, <3>2, <3>3
    <2>7. QED
        BY <2>3, <2>6
<1>7. QED
    BY <1>5, <1>6

\* A line that becomes events adds a task that holds them.
LEMMA LineAdds ==
    ASSUME AdapterTypes, NEW events \in Seq(LineEvents), Len(events) > 0,
           tasks' = Append(tasks, events), said' = said
    PROVE  /\ tasks' \in Seq(Seq(LineEvents)) /\ \A i \in DOMAIN tasks' : Len(tasks'[i]) > 0
           /\ \A e \in LineEvents :
                 /\ \A n \in Nat : Written(e, n)' <=> Written(e, n)
                 /\ \A i, j \in Nat :
                       /\ Waiting(e, i, j)' <=>
                             \/ Waiting(e, i, j)
                             \/ i = Len(tasks) + 1 /\ j \in 1..Len(events) /\ events[j] = e
                       /\ ~Waiting(e, Len(tasks) + 1, j)
<1>1. /\ tasks' \in Seq(Seq(LineEvents)) /\ Len(tasks') = Len(tasks) + 1
      /\ tasks'[Len(tasks) + 1] = events /\ \A i \in 1..Len(tasks) : tasks'[i] = tasks[i]
    BY DEF AdapterTypes
<1>2. QED
    BY <1>1 DEF AdapterTypes, Written, Waiting

\* What a step leaves of the events it does not name.
Keeps(e) == (AtMostOne(e) => AtMostOne(e)') /\ (Somewhere(e)' <=> Somewhere(e))

\* Of the events a line adds, one that is not there changes nothing, and one that is
\* there once and nowhere else is the only one.
LEMMA LineCounts ==
    ASSUME AdapterTypes, NEW events \in Seq(LineEvents), Len(events) > 0,
           tasks' = Append(tasks, events), said' = said,
           NEW e \in LineEvents
    PROVE  LET new == \E j \in 1..Len(events) : events[j] = e
               single == \A j, l \in 1..Len(events) : events[j] = e /\ events[l] = e => j = l
           IN  /\ ~new => Keeps(e)
               /\ new => Somewhere(e)'
               /\ ~Somewhere(e) /\ single => AtMostOne(e)'
<1> DEFINE new == \E j \in 1..Len(events) : events[j] = e
<1> DEFINE single == \A j, l \in 1..Len(events) : events[j] = e /\ events[l] = e => j = l
<1>1. /\ \A n \in Nat : Written(e, n)' <=> Written(e, n)
      /\ \A i, j \in Nat :
            /\ Waiting(e, i, j)' <=>
                  \/ Waiting(e, i, j)
                  \/ i = Len(tasks) + 1 /\ j \in 1..Len(events) /\ events[j] = e
            /\ ~Waiting(e, Len(tasks) + 1, j)
    BY LineAdds
<1>2. Len(tasks) + 1 \in Nat /\ Len(events) \in Nat
    BY DEF AdapterTypes
<1>4. ASSUME ~new
      PROVE  Keeps(e)
    <2>1. \A i, j \in Nat : Waiting(e, i, j)' <=> Waiting(e, i, j)
        BY <1>1, <1>4
    <2>2. QED
        BY <1>1, <2>1 DEF AtMostOne, Somewhere, Keeps
<1>5. ASSUME new
      PROVE  Somewhere(e)'
    <2>1. PICK j \in 1..Len(events) : events[j] = e
        BY <1>5
    <2>2. j \in Nat
        BY ONLY <1>2, <2>1
    <2>3. PICK i \in Nat : i = Len(tasks) + 1
        BY ONLY <1>2
    <2>4. Waiting(e, i, j)'
        BY ONLY <1>1, <2>1, <2>2, <2>3
    <2>5. QED
        BY ONLY <2>2, <2>3, <2>4 DEF Somewhere
<1>6. ASSUME ~Somewhere(e), single
      PROVE  AtMostOne(e)'
    <2>1. /\ \A n \in Nat : ~Written(e, n)'
          /\ \A i, j \in Nat : Waiting(e, i, j)' =>
                i = Len(tasks) + 1 /\ j \in 1..Len(events) /\ events[j] = e
        BY <1>1, <1>6 DEF Somewhere
    <2>2. QED
        BY <1>6, <2>1 DEF AtMostOne
<1>7. QED
    BY <1>4, <1>5, <1>6

\* No message and no done comes or goes.
KeepsOutcomes ==
    /\ \A t \in Nat : \A a \in Nat \X Nat : Keeps(Message(t, a))
    /\ \A t \in Nat : Keeps(Done(t))

LEMMA OneAdded ==
    ASSUME AdapterTypes, NEW a \in LineEvents, tasks' = Append(tasks, <<a>>), said' = said
    PROVE  /\ tasks' \in Seq(Seq(LineEvents)) /\ \A i \in DOMAIN tasks' : Len(tasks'[i]) > 0
           /\ \A f \in LineEvents : f # a => Keeps(f)
           /\ Somewhere(a)' /\ (~Somewhere(a) => AtMostOne(a)')
<1>1. PICK events : events = <<a>>
    OBVIOUS
<1>2. /\ tasks' = Append(tasks, events) /\ events \in Seq(LineEvents)
      /\ Len(events) = 1 /\ Len(events) > 0 /\ events[1] = a
    <2>1. <<a>> \in Seq(LineEvents) /\ Len(<<a>>) = 1 /\ <<a>>[1] = a
        BY ONLY a \in LineEvents
    <2>2. QED
        BY <1>1, <2>1
<1>3. tasks' \in Seq(Seq(LineEvents)) /\ \A i \in DOMAIN tasks' : Len(tasks'[i]) > 0
    BY <1>2, LineAdds
<1>4. ASSUME NEW f \in LineEvents, f # a
      PROVE  Keeps(f)
    <2>1. \A j \in 1..Len(events) : events[j] # f
        BY ONLY <1>2, <1>4
    <2>2. QED
        BY <1>2, <2>1, LineCounts
<1>5. Somewhere(a)' /\ (~Somewhere(a) => AtMostOne(a)')
    <2>1. /\ \E j \in 1..Len(events) : events[j] = a
          /\ \A j, l \in 1..Len(events) : events[j] = a /\ events[l] = a => j = l
        BY ONLY <1>2
    <2>2. QED
        BY <1>2, <2>1, LineCounts
<1>6. QED
    BY <1>3, <1>4, <1>5

\* The lines that neither answer nor end a turn become at most one event, which is
\* of neither kind, and leave what the adapter remembers of the turn.
Quiet(parsed, line, c) ==
    /\ \/ parsed.events = <<>>
       \/ \E kind \in {"progress", "error"} : parsed.events = <<[kind |-> kind, turn |-> line.turn, of |-> <<0, 0>>]>>
    /\ DOMAIN parsed.ctx = DOMAIN c /\ parsed.ctx.final = c.final /\ parsed.ctx.owed = c.owed

Contexts(c) == DOMAIN c = {"pending", "final", "owed", "thread", "next"}

LEMMA ClaudeQuiet ==
    ASSUME NEW line, NEW c, line.what \notin {"assistant", "result"}
    PROVE  Quiet(Adapter!ClaudeParsed(line, c), line, c)
<1>1. CASE line.what \in {"failed", "garbled"}
    BY <1>1 DEF Quiet, Adapter!ClaudeParsed, Adapter!Said, Adapter!One, Adapter!Event
<1>2. CASE line.what \notin {"failed", "garbled"}
    BY <1>2 DEF Quiet, Adapter!ClaudeParsed, Adapter!Said, Adapter!NoEvents
<1>3. QED
    BY <1>1, <1>2

LEMMA ResponseQuiet ==
    ASSUME NEW line, NEW c, Contexts(c)
    PROVE  Quiet(Adapter!ResponseParsed(line, c), line, c)
<1>1. PICK label : label = IF line.id \in DOMAIN c.pending THEN c.pending[line.id] ELSE None
    OBVIOUS
<1>2. PICK left : left = [i \in DOMAIN c.pending \ {line.id} |-> c.pending[i]]
    OBVIOUS
<1>3. PICK d : d = [c EXCEPT !.pending = left]
    OBVIOUS
<1>4. DOMAIN d = DOMAIN c /\ d.final = c.final /\ d.owed = c.owed
    BY <1>3 DEF Contexts
<1>5. Adapter!ResponseParsed(line, c) =
          IF line.item = "error" THEN Adapter!Said(Adapter!One("error", line), d)
          ELSE Adapter!Said(Adapter!NoEvents,
                            IF label = "thread/start" THEN [d EXCEPT !.thread = line.item] ELSE d)
    BY <1>1, <1>2, <1>3 DEF Adapter!ResponseParsed
<1>6. CASE line.item = "error"
    BY <1>4, <1>5, <1>6 DEF Quiet, Adapter!Said, Adapter!One, Adapter!Event
<1>7. CASE line.item # "error"
    <2>1. PICK k : k = IF label = "thread/start" THEN [d EXCEPT !.thread = line.item] ELSE d
        OBVIOUS
    <2>2. DOMAIN k = DOMAIN c /\ k.final = c.final /\ k.owed = c.owed
        BY <1>4, <2>1 DEF Contexts
    <2>3. Adapter!ResponseParsed(line, c) = Adapter!Said(Adapter!NoEvents, k)
        BY <1>5, <1>7, <2>1
    <2>4. QED
        BY <2>2, <2>3 DEF Quiet, Adapter!Said, Adapter!NoEvents
<1>8. QED
    BY <1>6, <1>7

LEMMA CodexQuiet ==
    ASSUME NEW line, NEW c, Contexts(c), line.what # "end", line.what = "item" => line.item # "answer"
    PROVE  Quiet(Adapter!CodexParsed(line, c), line, c)
<1>1. CASE line.what = "request"
    BY <1>1 DEF Quiet, Adapter!CodexParsed, Adapter!RequestParsed, Adapter!One, Adapter!Event
<1>2. CASE line.what = "response"
    BY <1>2, ResponseQuiet DEF Adapter!CodexParsed
<1>3. CASE line.what = "started"
    <2>1. Adapter!CodexParsed(line, c) = Adapter!StartedParsed(line, c)
        BY <1>3 DEF Adapter!CodexParsed
    <2>2. CASE line.item \in Adapter!Tools
        BY <2>1, <2>2 DEF Quiet, Adapter!StartedParsed, Adapter!Tools, Adapter!Said, Adapter!One, Adapter!Event
    <2>3. CASE line.item = "collabAgentToolCall"
        BY <2>1, <2>3 DEF Quiet, Adapter!StartedParsed, Adapter!Tools, Adapter!Said, Adapter!One, Adapter!Event
    <2>4. CASE line.item \notin Adapter!Tools \cup {"collabAgentToolCall"}
        BY <2>1, <2>4 DEF Quiet, Adapter!StartedParsed, Adapter!Said, Adapter!NoEvents
    <2>5. QED
        BY <2>2, <2>3, <2>4
<1>4. CASE line.what = "item"
    <2>1. Adapter!CodexParsed(line, c) = Adapter!CompletedParsed(line, c)
        BY <1>4 DEF Adapter!CodexParsed
    <2>2. CASE line.item \in {"commentary", "failedTool"}
        BY <2>1, <2>2 DEF Quiet, Adapter!CompletedParsed, Adapter!Said, Adapter!One, Adapter!Event
    <2>3. CASE line.item \notin {"commentary", "failedTool"}
        BY <1>4, <2>1, <2>3 DEF Quiet, Adapter!CompletedParsed, Adapter!Said, Adapter!NoEvents
    <2>4. QED
        BY <2>2, <2>3
<1>5. CASE line.what \in {"aborted", "garbled"}
    BY <1>5 DEF Quiet, Adapter!CodexParsed, Adapter!Said, Adapter!One, Adapter!Event
<1>6. CASE line.what \in {"delta", "warning"}
    BY <1>6 DEF Quiet, Adapter!CodexParsed, Adapter!Said, Adapter!One, Adapter!Event
<1>7. CASE line.what \notin {"request", "response", "started", "item", "aborted", "garbled", "delta", "warning"}
    BY <1>7 DEF Quiet, Adapter!CodexParsed, Adapter!Said, Adapter!NoEvents
<1>8. QED
    BY <1>1, <1>2, <1>3, <1>4, <1>5, <1>6, <1>7

LEMMA QuietLineKeeps ==
    ASSUME AdapterTypes, NEW line, line.turn \in Nat, Adapter!Line(line), said' = said,
           provider = "claude" => line.what \notin {"assistant", "result"},
           provider = "codex" => line.what # "end" /\ (line.what = "item" => line.item # "answer")
    PROVE  /\ tasks' \in Seq(Seq(LineEvents)) /\ \A i \in DOMAIN tasks' : Len(tasks'[i]) > 0
           /\ DOMAIN ctx' = DOMAIN ctx /\ ctx'.final = ctx.final /\ ctx'.owed = ctx.owed
           /\ KeepsOutcomes
<1>1. PICK parsed : parsed = IF provider = "codex" THEN Adapter!CodexParsed(line, ctx)
                             ELSE Adapter!ClaudeParsed(line, ctx)
    OBVIOUS
<1>2. Quiet(parsed, line, ctx)
    BY <1>1, ClaudeQuiet, CodexQuiet DEF AdapterTypes, Contexts
<1>3. /\ ctx' = parsed.ctx
      /\ tasks' = IF parsed.events = <<>> THEN tasks ELSE Append(tasks, parsed.events)
    BY <1>1 DEF Adapter!Line, Adapter!NoEvents
<1>4. DOMAIN ctx' = DOMAIN ctx /\ ctx'.final = ctx.final /\ ctx'.owed = ctx.owed
    BY <1>2, <1>3 DEF Quiet
<1>5. CASE tasks' = tasks
    <2>1. \A e : Keeps(e)
        BY <1>5 DEF Keeps, AtMostOne, Somewhere, Written, Waiting
    <2>2. QED
        BY <1>4, <1>5, <2>1 DEF AdapterTypes, KeepsOutcomes
<1>6. CASE tasks' # tasks
    <2>1. PICK kind \in {"progress", "error"} :
              parsed.events = <<[kind |-> kind, turn |-> line.turn, of |-> <<0, 0>>]>>
        BY <1>2, <1>3, <1>6 DEF Quiet
    <2>2. PICK e : e = [kind |-> kind, turn |-> line.turn, of |-> <<0, 0>>]
        OBVIOUS
    <2>3. e \in LineEvents /\ e.kind # "message" /\ e.kind # "done"
        BY <2>1, <2>2 DEF LineEvents
    <2>4. tasks' = Append(tasks, <<e>>)
        BY <1>3, <1>6, <2>1, <2>2
    <2>5. /\ \A t \in Nat : \A a \in Nat \X Nat : Message(t, a) \in LineEvents /\ Message(t, a) # e
          /\ \A t \in Nat : Done(t) \in LineEvents /\ Done(t) # e
        BY ONLY <2>3 DEF Message, Done, LineEvents
    <2>6. /\ tasks' \in Seq(Seq(LineEvents)) /\ \A i \in DOMAIN tasks' : Len(tasks'[i]) > 0
          /\ \A f \in LineEvents : f # e => Keeps(f)
        BY <2>3, <2>4, OneAdded
    <2>7. KeepsOutcomes
        BY ONLY <2>5, <2>6 DEF KeepsOutcomes
    <2>8. QED
        BY <1>4, <2>6, <2>7
<1>7. QED
    BY <1>5, <1>6

\* Steps that leave the turns, and of the context what is remembered of them.
LEMMA TurnsStay ==
    ASSUME AdapterInv, UNCHANGED <<provider, overlapped>>,
           program'.turns = program.turns, DOMAIN program' = DOMAIN program,
           said' \in Seq(LineEvents),
           tasks' \in Seq(Seq(LineEvents)), \A i \in DOMAIN tasks' : Len(tasks'[i]) > 0,
           DOMAIN ctx' = DOMAIN ctx, ctx'.final = ctx.final, ctx'.owed = ctx.owed,
           KeepsOutcomes
    PROVE  AdapterInv'
<1>1. AdapterTypes'
    BY DEF AdapterInv, AdapterTypes
<1>2. \A t \in Nat : /\ (IsAnswered(t)' <=> IsAnswered(t)) /\ (IsComplete(t)' <=> IsComplete(t))
                      /\ \A a \in Nat \X Nat : IsAnswer(t, a)' <=> IsAnswer(t, a)
    BY DEF IsAnswer, IsAnswered, IsComplete
<1>3. ASSUME OnlyLast
      PROVE  OnlyLast'
    BY <1>3 DEF OnlyLast, IsAnswered, Ends
<1>4. ASSUME DonesOnce
      PROVE  DonesOnce'
    BY <1>2, <1>4 DEF DonesOnce, KeepsOutcomes, Keeps, Done
<1>5. MessagesOnce'
    BY <1>2 DEF AdapterInv, MessagesOnce, KeepsOutcomes, Keeps, Message
<1>6. QED
    BY <1>1, <1>3, <1>4, <1>5 DEF AdapterInv

\* A step that rewrites one turn.
LEMMA OneTurn ==
    ASSUME AdapterTypes, NEW t \in DOMAIN program.turns,
           NEW r \in TurnRecords, r.answers \subseteq (1..r.lines) \X Nat,
           program' = [program EXCEPT !.turns = [program.turns EXCEPT ![t] = r]]
    PROVE  /\ DOMAIN program' = DOMAIN program /\ program'.turns \in Seq(TurnRecords)
           /\ Len(program'.turns) = Len(program.turns) /\ program'.turns # <<>>
           /\ DOMAIN program'.turns = DOMAIN program.turns
           /\ \A u \in DOMAIN program'.turns :
                 program'.turns[u].answers \subseteq (1..program'.turns[u].lines) \X Nat
           /\ program'.turns[t] = r
           /\ \A u \in DOMAIN program.turns : u # t => program'.turns[u] = program.turns[u]
           /\ \A u \in Nat : u # t => /\ (IsAnswered(u)' <=> IsAnswered(u)) /\ (IsComplete(u)' <=> IsComplete(u))
                                      /\ \A a \in Nat \X Nat : IsAnswer(u, a)' <=> IsAnswer(u, a)
           /\ IsAnswered(t)' <=> r.answers # {}
           /\ IsComplete(t)' <=> r.answers # {} /\ r.over \in {"end", "result"}
           /\ \A a \in Nat \X Nat : IsAnswer(t, a)' <=> a \in r.answers
<1>1. PICK turns : turns = program.turns
    OBVIOUS
<1>2. turns \in Seq(TurnRecords) /\ t \in 1..Len(turns) /\ DOMAIN turns = 1..Len(turns) /\ Len(turns) \in Nat
    BY <1>1 DEF AdapterTypes
<1>3. DOMAIN program' = DOMAIN program /\ program'.turns = [turns EXCEPT ![t] = r]
    BY <1>1 DEF AdapterTypes
<1>4. /\ program'.turns \in Seq(TurnRecords) /\ Len(program'.turns) = Len(turns)
      /\ program'.turns[t] = r
      /\ \A u \in 1..Len(turns) : u # t => program'.turns[u] = turns[u]
    BY ONLY <1>2, <1>3, ExceptSeq, r \in TurnRecords
<1>5. DOMAIN program'.turns = DOMAIN turns
    BY ONLY <1>2, <1>4, LenProperties
<1>6. program'.turns # <<>>
    BY ONLY <1>2, <1>5
<1>7. ASSUME NEW u \in DOMAIN program'.turns
      PROVE  program'.turns[u].answers \subseteq (1..program'.turns[u].lines) \X Nat
    <2>1. CASE u = t
        BY <1>4, <2>1
    <2>2. CASE u # t
        BY <1>1, <1>2, <1>4, <1>5, <2>2 DEF AdapterTypes
    <2>3. QED
        BY <2>1, <2>2
<1>8. QED
    BY <1>1, <1>2, <1>3, <1>4, <1>5, <1>6, <1>7 DEF IsAnswer, IsAnswered, IsComplete

\* The events of a line that answers: its answers are messages, each named by the line
\* and its block, and it has no other message.
Answering(events, t, n, texts) ==
    /\ events \in Seq(LineEvents) /\ Len(events) > 0 /\ texts \subseteq 1..Len(events)
    /\ \A b \in 1..Len(events) :
          IF b \in texts THEN events[b] = Message(t, <<n, b>>) ELSE events[b].kind # "message"

\* What a line of a turn that answers adds to it.
Extends(t, what, item, texts, n, r) ==
    /\ n = program.turns[t].lines + 1 /\ r.lines = n /\ r.over = program.turns[t].over
    /\ r.answers = program.turns[t].answers \cup ({n} \X texts)
    /\ r.answers \subseteq (1..r.lines) \X Nat
    /\ program' = [program EXCEPT !.turns = [program.turns EXCEPT ![t] = r]]
    /\ Adapter!Line(Adapter!L(what, t, item, n))
    /\ said' = said /\ provider' = provider
    /\ overlapped' = (overlapped \/ t # Len(program.turns))

LEMMA SaidTurn ==
    ASSUME AdapterInv, NEW t \in DOMAIN program.turns, NEW what, NEW item, NEW texts, texts \subseteq Nat,
           Adapter!Says(t, what, item, texts)
    PROVE  \E n \in Nat, r \in TurnRecords : Extends(t, what, item, texts, n, r)
<1>1. PICK old : old = program.turns[t]
    OBVIOUS
<1>2. old \in TurnRecords /\ old.answers \subseteq (1..old.lines) \X Nat
    BY <1>1 DEF AdapterInv, AdapterTypes
<1>3. PICK n : n = old.lines + 1
    OBVIOUS
<1>4. n \in Nat /\ {n} \X texts \subseteq (1..n) \X Nat /\ (1..old.lines) \X Nat \subseteq (1..n) \X Nat
    <2>1. old.lines \in Nat
        BY <1>2 DEF TurnRecords
    <2>2. n \in Nat /\ {n} \subseteq 1..n /\ 1..old.lines \subseteq 1..n
        BY ONLY <1>3, <2>1
    <2>3. QED
        BY <2>2
<1>5. PICK answers : answers = old.answers \cup ({n} \X texts)
    OBVIOUS
<1>6. PICK r : r = [old EXCEPT !.lines = n, !.answers = answers]
    OBVIOUS
<1>7. answers \in SUBSET (Nat \X Nat) /\ answers \subseteq (1..n) \X Nat
    <2>1. (1..n) \X Nat \subseteq Nat \X Nat
        BY <1>4
    <2>2. QED
        BY ONLY <1>2, <1>4, <1>5, <2>1
<1>8. r.lines = n /\ r.over = old.over /\ r.answers = answers /\ r \in TurnRecords
    BY ONLY <1>2, <1>4, <1>6, <1>7 DEF TurnRecords
<1>9. /\ program' = [program EXCEPT !.turns = [program.turns EXCEPT ![t] = r]]
      /\ Adapter!Line(Adapter!L(what, t, item, n))
      /\ said' = said /\ provider' = provider
      /\ overlapped' = (overlapped \/ t # Len(program.turns))
    <2>1. /\ program' = [program EXCEPT !.turns[t] = [program.turns[t] EXCEPT
                            !.lines = program.turns[t].lines + 1,
                            !.answers = program.turns[t].answers \cup ({program.turns[t].lines + 1} \X texts)]]
          /\ Adapter!Line(Adapter!L(what, t, item, program.turns[t].lines + 1))
          /\ said' = said /\ provider' = provider
          /\ overlapped' = (overlapped \/ t # Len(program.turns))
        BY DEF Adapter!Says
    <2>2. r = [program.turns[t] EXCEPT
                  !.lines = program.turns[t].lines + 1,
                  !.answers = program.turns[t].answers \cup ({program.turns[t].lines + 1} \X texts)]
        BY ONLY <1>1, <1>3, <1>5, <1>6
    <2>3. program' = [program EXCEPT !.turns[t] = r]
        BY ONLY <2>1, <2>2
    <2>4. Adapter!Line(Adapter!L(what, t, item, n))
        BY ONLY <1>1, <1>3, <2>1
    <2>5. QED
        BY ONLY <2>1, <2>3, <2>4
<1>10. Extends(t, what, item, texts, n, r)
    BY ONLY <1>1, <1>3, <1>5, <1>7, <1>8, <1>9 DEF Extends
<1>11. QED
    BY ONLY <1>4, <1>8, <1>10

\* The new answers become messages, once; whatever else is on the line.
LEMMA AnswersCount ==
    ASSUME AdapterTypes, MessagesOnce, NEW t \in DOMAIN program.turns, NEW n \in Nat, NEW texts, NEW events,
           NEW r \in TurnRecords, NEW what, NEW item, Extends(t, what, item, texts, n, r),
           Answering(events, t, n, texts), tasks' = Append(tasks, events)
    PROVE  MessagesOnce'
<1>1. /\ \A u \in Nat : u # t => \A a \in Nat \X Nat : IsAnswer(u, a)' <=> IsAnswer(u, a)
      /\ \A a \in Nat \X Nat : IsAnswer(t, a)' <=> a \in r.answers
      /\ t \in Nat /\ said' = said
    <2>1. /\ r.answers \subseteq (1..r.lines) \X Nat
          /\ program' = [program EXCEPT !.turns = [program.turns EXCEPT ![t] = r]] /\ said' = said
        BY DEF Extends
    <2>2. t \in Nat
        BY DEF AdapterTypes
    <2>3. /\ \A u \in Nat : u # t => /\ (IsAnswered(u)' <=> IsAnswered(u)) /\ (IsComplete(u)' <=> IsComplete(u))
                                     /\ \A a \in Nat \X Nat : IsAnswer(u, a)' <=> IsAnswer(u, a)
          /\ \A a \in Nat \X Nat : IsAnswer(t, a)' <=> a \in r.answers
        BY <2>1, OneTurn
    <2>4. QED
        BY ONLY <2>1, <2>2, <2>3
<1>2. events \in Seq(LineEvents) /\ Len(events) > 0 /\ Len(events) \in Nat /\ texts \subseteq 1..Len(events)
    BY DEF Answering
<1>a. r.answers = program.turns[t].answers \cup ({n} \X texts)
    BY DEF Extends
<1>3. \A b \in texts : ~IsAnswer(t, <<n, b>>)
    <2>1. /\ program.turns[t].answers \subseteq (1..program.turns[t].lines) \X Nat
          /\ program.turns[t].lines \in Nat /\ n = program.turns[t].lines + 1
        <3>1. program.turns[t] \in TurnRecords
            BY DEF AdapterTypes
        <3>2. program.turns[t].lines \in Nat
            BY ONLY <3>1 DEF TurnRecords
        <3>3. program.turns[t].answers \subseteq (1..program.turns[t].lines) \X Nat
            BY DEF AdapterTypes
        <3>4. n = program.turns[t].lines + 1
            BY DEF Extends
        <3>5. QED
            BY ONLY <3>2, <3>3, <3>4
    <2>2. n \notin 1..program.turns[t].lines
        BY ONLY <2>1
    <2>3. QED
        BY <2>1, <2>2 DEF IsAnswer
<1>4. ASSUME NEW u \in Nat, NEW a \in Nat \X Nat
      PROVE  AtMostOne(Message(u, a))' /\ (Somewhere(Message(u, a))' <=> IsAnswer(u, a)')
    <2>1. PICK e \in LineEvents : e = Message(u, a)
        BY DEF Message, LineEvents
    <2>2. AtMostOne(e) /\ (Somewhere(e) <=> IsAnswer(u, a))
        BY <2>1 DEF MessagesOnce
    <2>3. \A b \in 1..Len(events) : events[b] = e <=> b \in texts /\ u = t /\ a = <<n, b>>
        <3>1. ASSUME NEW b \in 1..Len(events)
              PROVE  events[b] = e <=> b \in texts /\ u = t /\ a = <<n, b>>
            <4>1. CASE b \in texts
                <5>1. events[b] = Message(t, <<n, b>>)
                    BY <4>1 DEF Answering
                <5>2. QED
                    BY ONLY <2>1, <4>1, <5>1 DEF Message
            <4>2. CASE b \notin texts
                <5>1. events[b].kind # "message"
                    BY <4>2 DEF Answering
                <5>2. e.kind = "message"
                    BY ONLY <2>1 DEF Message
                <5>3. QED
                    BY <4>2, <5>1, <5>2
            <4>3. QED
                BY <4>1, <4>2
        <3>2. QED
            BY <3>1
    <2>4. CASE \E b \in 1..Len(events) : events[b] = e
        <3>1. PICK b \in texts : u = t /\ a = <<n, b>>
            BY <2>3, <2>4
        <3>2. ~IsAnswer(u, a)
            BY <1>3, <3>1
        <3>3. IsAnswer(u, a)'
            BY <1>1, <1>a, <3>1
        <3>4. \A j, l \in 1..Len(events) : events[j] = e /\ events[l] = e => j = l
            BY <2>3
        <3>5. Somewhere(e)' /\ AtMostOne(e)'
            BY <1>1, <1>2, <2>2, <2>4, <3>2, <3>4, LineCounts
        <3>6. QED
            BY <2>1, <3>3, <3>5
    <2>5. CASE ~ \E b \in 1..Len(events) : events[b] = e
        <3>1. Keeps(e)
            BY <1>1, <1>2, <2>5, LineCounts
        <3>2. IsAnswer(u, a)' <=> IsAnswer(u, a)
            <4>1. CASE u # t
                BY <1>1, <4>1
            <4>2. CASE u = t
                <5>1. a \notin {n} \X texts
                    BY <1>2, <2>3, <2>5, <4>2
                <5>2. QED
                    BY <1>1, <1>a, <4>2, <5>1 DEF IsAnswer
            <4>3. QED
                BY <4>1, <4>2
        <3>3. QED
            BY <2>1, <2>2, <3>1, <3>2 DEF Keeps
    <2>6. QED
        BY <2>4, <2>5
<1>5. QED
    BY <1>4 DEF MessagesOnce, Message

\* A message of Claude's assistant: its texts are messages, and the turn is not over.
LEMMA AssistantKeeps ==
    ASSUME AdapterInv, NEW t \in DOMAIN program.turns, NEW blocks \in Blocks, Adapter!Assistant(t, blocks)
    PROVE  AdapterInv'
<1>1. PICK texts : texts = {b \in DOMAIN blocks : blocks[b] = "text"}
    OBVIOUS
<1>2. /\ provider = "claude" /\ program.turns[t].over = None
      /\ Adapter!Says(t, "assistant", blocks, texts)
    BY <1>1 DEF Adapter!Assistant, Adapter!Open
<1>3. /\ blocks \in Seq({"text", "tool"}) /\ Len(blocks) > 0 /\ DOMAIN blocks = 1..Len(blocks) /\ Len(blocks) \in Nat
      /\ texts \subseteq 1..Len(blocks) /\ texts \subseteq Nat
    <2>1. blocks \in Seq({"text", "tool"}) /\ blocks # <<>>
        BY AdapterAssumption
    <2>2. QED
        BY <1>1, <2>1
<1>4. AdapterTypes /\ MessagesOnce /\ t \in Nat
    BY DEF AdapterInv, AdapterTypes
<1>a. PICK n \in Nat, r \in TurnRecords : Extends(t, "assistant", blocks, texts, n, r)
    BY <1>2, <1>3, SaidTurn
<1>5. /\ r.over = program.turns[t].over /\ r.answers \subseteq (1..r.lines) \X Nat
      /\ program' = [program EXCEPT !.turns = [program.turns EXCEPT ![t] = r]]
      /\ Adapter!Line(Adapter!L("assistant", t, blocks, n))
      /\ said' = said /\ provider' = provider
      /\ overlapped' = (overlapped \/ t # Len(program.turns))
    BY <1>a DEF Extends
<1>6. PICK events : events = [b \in DOMAIN blocks |-> IF blocks[b] = "text" THEN Message(t, <<n, b>>)
                              ELSE [kind |-> "progress", turn |-> t, of |-> <<0, 0>>]]
    OBVIOUS
<1>7. Answering(events, t, n, texts)
    <2>a. ASSUME NEW b \in 1..Len(blocks)
          PROVE  events[b] \in LineEvents
        <3>1. <<n, b>> \in Nat \X Nat /\ <<0, 0>> \in Nat \X Nat
            BY <1>3
        <3>2. /\ Message(t, <<n, b>>) \in LineEvents
              /\ [kind |-> "progress", turn |-> t, of |-> <<0, 0>>] \in LineEvents
            BY ONLY <1>4, <3>1 DEF LineEvents, Message
        <3>3. QED
            BY <1>3, <1>6, <3>2
    <2>1. \A b \in 1..Len(blocks) : events[b] \in LineEvents
        BY <2>a
    <2>2. events \in Seq(LineEvents) /\ Len(events) = Len(blocks) /\ DOMAIN events = 1..Len(blocks)
        <3>1. events = [b \in 1..Len(blocks) |-> IF blocks[b] = "text" THEN Message(t, <<n, b>>)
                              ELSE [kind |-> "progress", turn |-> t, of |-> <<0, 0>>]]
            BY ONLY <1>3, <1>6
        <3>2. DOMAIN events = 1..Len(blocks)
            BY ONLY <3>1
        <3>3. events \in [1..Len(blocks) -> LineEvents]
            BY ONLY <3>1, <3>2, <2>1
        <3>4. PICK k \in Nat : k = Len(blocks)
            BY ONLY <1>3
        <3>5. QED
            BY ONLY <3>2, <3>3, <3>4, SeqDef, LenProperties
    <2>3. \A b \in 1..Len(blocks) :
              IF b \in texts THEN events[b] = Message(t, <<n, b>>) ELSE events[b].kind # "message"
        BY <1>1, <1>3, <1>6
    <2>4. QED
        BY ONLY <1>3, <2>2, <2>3 DEF Answering
<1>8. ctx' = ctx /\ tasks' = Append(tasks, events)
    <2>1. PICK line : line = Adapter!L("assistant", t, blocks, n)
        OBVIOUS
    <2>2. line.what = "assistant" /\ line.turn = t /\ line.item = blocks /\ line.id = n
        BY <2>1 DEF Adapter!L
    <2>3. Adapter!BlockEvents(line) = events
        BY <1>6, <2>2 DEF Adapter!BlockEvents, Adapter!AnswerEvent, Adapter!Event, Message
    <2>4. Adapter!ClaudeParsed(line, ctx) = Adapter!Said(events, ctx)
        BY <2>2, <2>3 DEF Adapter!ClaudeParsed
    <2>5. events # <<>>
        BY <1>7 DEF Answering
    <2>6. Adapter!Line(line) /\ provider # "codex"
        BY <1>2, <1>5, <2>1
    <2>7. QED
        BY <2>4, <2>5, <2>6 DEF Adapter!Line, Adapter!Said, Adapter!NoEvents
<1>9. MessagesOnce'
    BY <1>4, <1>a, <1>7, <1>8, AnswersCount
<1>10. /\ DOMAIN program' = DOMAIN program /\ program'.turns \in Seq(TurnRecords)
       /\ Len(program'.turns) = Len(program.turns)
       /\ DOMAIN program'.turns = DOMAIN program.turns
       /\ \A u \in DOMAIN program'.turns :
             program'.turns[u].answers \subseteq (1..program'.turns[u].lines) \X Nat
       /\ program'.turns[t] = r
       /\ \A u \in DOMAIN program.turns : u # t => program'.turns[u] = program.turns[u]
       /\ \A u \in Nat : u # t => (IsAnswered(u)' <=> IsAnswered(u)) /\ (IsComplete(u)' <=> IsComplete(u))
       /\ ~IsComplete(t)' /\ ~IsComplete(t)
    <2>1. None \notin {"end", "result"}
        BY AdapterAssumption
    <2>2. QED
        BY <1>2, <1>4, <1>5, <2>1, OneTurn DEF IsComplete
<1>11. /\ tasks' \in Seq(Seq(LineEvents)) /\ \A i \in DOMAIN tasks' : Len(tasks'[i]) > 0
       /\ \A u \in Nat : Keeps(Done(u))
    <2>1. events \in Seq(LineEvents) /\ Len(events) > 0
        BY <1>7 DEF Answering
    <2>2. ASSUME NEW u \in Nat
          PROVE  Keeps(Done(u))
        <3>a. Done(u) \in LineEvents /\ Done(u).kind = "done"
            BY ONLY u \in Nat DEF Done, LineEvents
        <3>1. PICK e \in LineEvents : e = Done(u) /\ e.kind = "done"
            BY ONLY <3>a
        <3>2. \A b \in 1..Len(events) : events[b].kind # "done"
            BY <1>3, <1>6, <2>1 DEF Message
        <3>3. Keeps(e)
            BY <1>4, <1>5, <1>8, <2>1, <3>1, <3>2, LineCounts
        <3>4. QED
            BY <3>1, <3>3
    <2>3. QED
        BY <1>4, <1>5, <1>8, <2>1, <2>2, LineAdds
<1>12. AdapterTypes'
    BY <1>4, <1>5, <1>8, <1>10, <1>11 DEF AdapterTypes
<1>13. ASSUME ~overlapped'
       PROVE  OnlyLast' /\ DonesOnce'
    <2>1. OnlyLast /\ DonesOnce /\ t = Len(program.turns)
        BY <1>5, <1>13 DEF AdapterInv
    <2>2. OnlyLast'
        BY <1>2, <1>4, <1>5, <1>10, <2>1 DEF OnlyLast, Ends, IsAnswered, AdapterTypes
    <2>3. DonesOnce'
        BY <1>10, <1>11, <2>1 DEF DonesOnce, Keeps, Done
    <2>4. QED
        BY <2>2, <2>3
<1>14. QED
    BY <1>9, <1>12, <1>13 DEF AdapterInv

\* An answer of Codex: a message, and the done of a turn whose end came first.
LEMMA AnswerKeeps ==
    ASSUME AdapterInv, NEW t \in DOMAIN program.turns, Adapter!Answer(t)
    PROVE  AdapterInv'
<1>1. provider = "codex" /\ Adapter!Says(t, "item", "answer", {1}) /\ {1} \subseteq Nat
    BY DEF Adapter!Answer
<1>2. AdapterTypes /\ MessagesOnce /\ t \in Nat
    BY DEF AdapterInv, AdapterTypes
<1>a. PICK n \in Nat, r \in TurnRecords : Extends(t, "item", "answer", {1}, n, r)
    BY <1>1, SaidTurn
<1>3. /\ r.over = program.turns[t].over /\ r.answers \subseteq (1..r.lines) \X Nat
      /\ program' = [program EXCEPT !.turns = [program.turns EXCEPT ![t] = r]]
      /\ Adapter!Line(Adapter!L("item", t, "answer", n))
      /\ said' = said /\ provider' = provider
      /\ overlapped' = (overlapped \/ t # Len(program.turns))
    BY <1>a DEF Extends
<1>4. r.answers # {}
    <2>1. r.answers = program.turns[t].answers \cup ({n} \X {1})
        BY <1>a DEF Extends
    <2>2. <<n, 1>> \in {n} \X {1}
        OBVIOUS
    <2>3. QED
        BY ONLY <2>1, <2>2
<1>5. /\ DOMAIN program' = DOMAIN program /\ program'.turns \in Seq(TurnRecords)
      /\ Len(program'.turns) = Len(program.turns)
      /\ DOMAIN program'.turns = DOMAIN program.turns
      /\ \A u \in DOMAIN program'.turns :
            program'.turns[u].answers \subseteq (1..program'.turns[u].lines) \X Nat
      /\ program'.turns[t] = r
      /\ \A u \in DOMAIN program.turns : u # t => program'.turns[u] = program.turns[u]
      /\ \A u \in Nat : u # t => (IsAnswered(u)' <=> IsAnswered(u)) /\ (IsComplete(u)' <=> IsComplete(u))
      /\ IsAnswered(t)' /\ (IsComplete(t)' <=> program.turns[t].over \in {"end", "result"})
    BY <1>2, <1>3, <1>4, OneTurn
<1>6. PICK message, closing : message = Message(t, <<n, 1>>) /\ closing = Done(t)
    OBVIOUS
<1>7. /\ message \in LineEvents /\ closing \in LineEvents /\ message.kind = "message" /\ closing.kind = "done"
      /\ \A u \in Nat : Done(u) \in LineEvents /\ Done(u).kind = "done" /\ (Done(u) = closing <=> u = t)
    BY <1>2, <1>6 DEF Message, Done, LineEvents
<1>8. PICK events : events = IF ctx.owed THEN <<message, closing>> ELSE <<message>>
    OBVIOUS
<1>9. /\ Answering(events, t, n, {1}) /\ events \in Seq(LineEvents) /\ Len(events) > 0 /\ events # <<>>
      /\ Len(events) = IF ctx.owed THEN 2 ELSE 1
      /\ events[1] = message /\ (ctx.owed => events[2] = closing)
    BY <1>6, <1>7, <1>8 DEF Answering
<1>10. /\ tasks' = Append(tasks, events)
       /\ DOMAIN ctx' = DOMAIN ctx /\ ctx'.final = TRUE
       /\ ctx'.owed = (IF ctx.owed THEN FALSE ELSE ctx.owed)
    <2>1. PICK line : line = Adapter!L("item", t, "answer", n)
        OBVIOUS
    <2>2. line.what = "item" /\ line.turn = t /\ line.item = "answer" /\ line.id = n
        BY <2>1 DEF Adapter!L
    <2>3. Adapter!AnswerEvent(line, 1) = message /\ Adapter!Event("done", line) = closing
        BY <1>6, <2>2 DEF Adapter!AnswerEvent, Adapter!Event, Message, Done
    <2>4. Adapter!CodexParsed(line, ctx) = Adapter!AnswerParsed(line, ctx)
        BY <2>2 DEF Adapter!CodexParsed, Adapter!CompletedParsed
    <2>5. PICK c : c = IF ctx.owed THEN [ctx EXCEPT !.final = TRUE, !.owed = FALSE] ELSE [ctx EXCEPT !.final = TRUE]
        OBVIOUS
    <2>6. Adapter!AnswerParsed(line, ctx) = Adapter!Said(events, c)
        BY <1>8, <2>3, <2>5 DEF Adapter!AnswerParsed
    <2>7. ctx' = c /\ tasks' = Append(tasks, events)
        BY <1>1, <1>3, <1>9, <2>1, <2>4, <2>6 DEF Adapter!Line, Adapter!Said, Adapter!NoEvents
    <2>8. QED
        BY <1>2, <2>5, <2>7 DEF AdapterTypes
<1>11. MessagesOnce'
    BY <1>2, <1>a, <1>9, <1>10, AnswersCount
<1>12. /\ tasks' \in Seq(Seq(LineEvents)) /\ \A i \in DOMAIN tasks' : Len(tasks'[i]) > 0
       /\ \A u \in Nat : u # t => Keeps(Done(u))
       /\ ~ctx.owed => Keeps(Done(t))
       /\ ctx.owed => Somewhere(Done(t))' /\ (~Somewhere(Done(t)) => AtMostOne(Done(t))')
    <2>1. tasks' \in Seq(Seq(LineEvents)) /\ \A i \in DOMAIN tasks' : Len(tasks'[i]) > 0
        BY <1>2, <1>3, <1>9, <1>10, LineAdds
    <2>2. ASSUME NEW u \in Nat, u # t \/ ~ctx.owed
          PROVE  Keeps(Done(u))
        <3>1. \A b \in 1..Len(events) : events[b] # Done(u)
            BY <1>7, <1>9, <2>2
        <3>2. QED
            BY <1>2, <1>3, <1>7, <1>9, <1>10, <3>1, LineCounts
    <2>3. ASSUME ctx.owed
          PROVE  Somewhere(Done(t))' /\ (~Somewhere(Done(t)) => AtMostOne(Done(t))')
        <3>1. /\ \E b \in 1..Len(events) : events[b] = closing
              /\ \A j, l \in 1..Len(events) : events[j] = closing /\ events[l] = closing => j = l
            BY <1>7, <1>9, <2>3
        <3>2. Somewhere(closing)' /\ (~Somewhere(closing) => AtMostOne(closing)')
            BY <1>2, <1>3, <1>7, <1>9, <1>10, <3>1, LineCounts
        <3>3. QED
            BY <1>6, <3>2
    <2>4. QED
        BY <1>2, <2>1, <2>2, <2>3
<1>13. AdapterTypes'
    BY <1>2, <1>3, <1>5, <1>10, <1>12 DEF AdapterTypes
<1>14. ASSUME ~overlapped'
       PROVE  OnlyLast' /\ DonesOnce'
    <2>1. OnlyLast /\ DonesOnce /\ t = Len(program.turns) /\ program.turns # <<>>
        <3>1. ~overlapped /\ t = Len(program.turns)
            BY <1>3, <1>14
        <3>2. QED
            BY <3>1 DEF AdapterInv
    <2>2. ctx.owed = (~IsAnswered(t) /\ program.turns[t].over = "end")
        BY <1>1, <2>1 DEF OnlyLast
    <2>3. IsAnswered(Len(program.turns))'
        <3>1. Len(program'.turns) = t
            BY <1>5, <2>1
        <3>2. IsAnswered(t)'
            BY <1>5
        <3>3. QED
            BY ONLY <3>1, <3>2 DEF IsAnswered
    <2>4. OnlyLast'
        <3>1. ASSUME NEW u \in DOMAIN program'.turns
              PROVE  /\ program'.turns[u].over \in Ends' \cup {None}
                     /\ u # Len(program'.turns) => IsAnswered(u)' /\ program'.turns[u].over # None
            <4>1. CASE u = t
                BY <1>3, <1>5, <2>1, <4>1 DEF OnlyLast, Ends
            <4>2. CASE u # t
                BY <1>2, <1>3, <1>5, <2>1, <4>2 DEF OnlyLast, Ends, AdapterTypes
            <4>3. QED
                BY <4>1, <4>2
        <3>2. ctx'.final = TRUE /\ ctx'.owed = FALSE
            BY <1>10, <2>2
        <3>3. QED
            BY <2>3, <3>1, <3>2 DEF OnlyLast, IsAnswered
    <2>5. ASSUME NEW u \in Nat
          PROVE  AtMostOne(Done(u))' /\ (Somewhere(Done(u))' <=> IsComplete(u)')
        <3>1. AtMostOne(Done(u)) /\ (Somewhere(Done(u)) <=> IsComplete(u))
            BY <2>1 DEF DonesOnce
        <3>2. CASE u # t
            BY <1>5, <1>12, <3>1, <3>2 DEF Keeps
        <3>3. CASE u = t /\ ctx.owed
            BY <1>5, <1>12, <2>2, <3>1, <3>3 DEF IsComplete
        <3>4. CASE u = t /\ ~ctx.owed
            <4>1. IsComplete(t)' <=> IsComplete(t)
                <5>1. program.turns[t].over # "result"
                    BY <1>1, <2>1, AdapterAssumption DEF OnlyLast, Ends
                <5>2. IsComplete(t)' <=> program.turns[t].over = "end"
                    BY <1>5, <5>1
                <5>3. IsComplete(t) <=> IsAnswered(t) /\ program.turns[t].over = "end"
                    BY <5>1 DEF IsComplete
                <5>4. QED
                    BY <2>2, <3>4, <5>2, <5>3
            <4>2. QED
                BY <1>12, <3>1, <3>4, <4>1 DEF Keeps
        <3>5. QED
            BY <3>2, <3>3, <3>4
    <2>6. DonesOnce'
        BY <2>5 DEF DonesOnce, Done
    <2>7. QED
        BY <2>4, <2>6
<1>15. QED
    BY <1>11, <1>13, <1>14 DEF AdapterInv

\* The end of a turn: its done, or what a failed turn or one that still owes its
\* answer becomes.
LEMMA EndKeeps ==
    ASSUME AdapterInv, NEW t \in DOMAIN program.turns, NEW how \in Ends, Adapter!EndTurn(t, how)
    PROVE  AdapterInv'
<1>1. PICK r : r = [program.turns[t] EXCEPT !.over = how]
    OBVIOUS
<1>2. /\ said' = said /\ provider' = provider /\ overlapped' = overlapped
      /\ program.turns[t].over = None
      /\ program' = [program EXCEPT !.turns = [program.turns EXCEPT ![t] = r]]
      /\ provider = "claude" /\ how = "result" => program.turns[t].answers # {}
    BY <1>1 DEF Adapter!EndTurn, Adapter!Unchanged, Adapter!Open, Adapter!Answered
<1>3. /\ AdapterTypes /\ t \in Nat /\ program.turns[t] \in TurnRecords
      /\ program.turns[t].answers \subseteq (1..program.turns[t].lines) \X Nat
    BY DEF AdapterInv, AdapterTypes
<1>4. /\ r \in TurnRecords /\ r.over = how /\ r.answers = program.turns[t].answers
      /\ r.answers \subseteq (1..r.lines) \X Nat
    BY <1>1, <1>3 DEF TurnRecords, Ends
<1>5. /\ DOMAIN program' = DOMAIN program /\ program'.turns \in Seq(TurnRecords)
      /\ Len(program'.turns) = Len(program.turns) /\ program'.turns # <<>>
      /\ DOMAIN program'.turns = DOMAIN program.turns
      /\ program'.turns[t] = r
      /\ \A u \in DOMAIN program'.turns :
            program'.turns[u].answers \subseteq (1..program'.turns[u].lines) \X Nat
      /\ \A u \in DOMAIN program.turns : u # t => program'.turns[u] = program.turns[u]
      /\ \A u \in Nat : (IsAnswered(u)' <=> IsAnswered(u)) /\ (u # t => (IsComplete(u)' <=> IsComplete(u)))
      /\ \A u \in Nat : \A a \in Nat \X Nat : IsAnswer(u, a)' <=> IsAnswer(u, a)
      /\ IsComplete(t)' <=> IsAnswered(t) /\ how \in {"end", "result"}
    <2>1. /\ IsAnswered(t) <=> program.turns[t].answers # {}
          /\ \A a \in Nat \X Nat : IsAnswer(t, a) <=> a \in program.turns[t].answers
        BY DEF IsAnswered, IsAnswer
    <2>2. /\ DOMAIN program' = DOMAIN program /\ program'.turns \in Seq(TurnRecords)
          /\ Len(program'.turns) = Len(program.turns) /\ program'.turns # <<>>
          /\ DOMAIN program'.turns = DOMAIN program.turns
          /\ program'.turns[t] = r
          /\ \A u \in DOMAIN program'.turns :
                program'.turns[u].answers \subseteq (1..program'.turns[u].lines) \X Nat
          /\ \A u \in DOMAIN program.turns : u # t => program'.turns[u] = program.turns[u]
          /\ \A u \in Nat : u # t => /\ (IsAnswered(u)' <=> IsAnswered(u)) /\ (IsComplete(u)' <=> IsComplete(u))
                                     /\ \A a \in Nat \X Nat : IsAnswer(u, a)' <=> IsAnswer(u, a)
          /\ IsAnswered(t)' <=> r.answers # {}
          /\ IsComplete(t)' <=> r.answers # {} /\ r.over \in {"end", "result"}
          /\ \A a \in Nat \X Nat : IsAnswer(t, a)' <=> a \in r.answers
        BY <1>2, <1>3, <1>4, OneTurn
    <2>3. \A u \in Nat : IsAnswered(u)' <=> IsAnswered(u)
        BY ONLY <1>4, <2>1, <2>2
    <2>4. ASSUME NEW u \in Nat, NEW a \in Nat \X Nat
          PROVE  IsAnswer(u, a)' <=> IsAnswer(u, a)
        <3>1. CASE u = t
            BY ONLY <1>4, <2>1, <2>2, <3>1, a \in Nat \X Nat
        <3>2. CASE u # t
            BY ONLY <2>2, <3>2, u \in Nat, a \in Nat \X Nat
        <3>3. QED
            BY ONLY <3>1, <3>2
    <2>5. IsComplete(t)' <=> IsAnswered(t) /\ how \in {"end", "result"}
        BY ONLY <1>4, <2>1, <2>2
    <2>6. QED
        BY ONLY <2>2, <2>3, <2>4, <2>5
<1>6. /\ \A u \in Nat : \A a \in Nat \X Nat : Message(u, a) \in LineEvents /\ Message(u, a) # Done(t)
      /\ \A u \in Nat : Done(u) \in LineEvents /\ (u # t => Done(u) # Done(t))
    BY <1>3 DEF Message, Done, LineEvents
<1>a. KeepsOutcomes => MessagesOnce'
    BY <1>5 DEF AdapterInv, MessagesOnce, KeepsOutcomes, Keeps, Message
<1>7. ASSUME ~overlapped
      PROVE  /\ OnlyLast /\ DonesOnce /\ t = Len(program.turns)
             /\ ~IsComplete(t) /\ ~Somewhere(Done(t))
             /\ provider = "codex" => (ctx.final <=> IsAnswered(t)) /\ ~ctx.owed
    <2>1. OnlyLast /\ DonesOnce
        BY <1>7 DEF AdapterInv
    <2>2. t = Len(program.turns)
        BY <1>2, <2>1 DEF OnlyLast
    <2>3. ~IsComplete(t)
        BY <1>2, AdapterAssumption DEF IsComplete
    <2>4. provider = "codex" => (ctx.final <=> IsAnswered(t)) /\ ~ctx.owed
        <3>1. None # "end"
            BY AdapterAssumption
        <3>2. QED
            BY <1>2, <2>1, <2>2, <3>1 DEF OnlyLast
    <2>5. QED
        BY <1>3, <2>1, <2>2, <2>3, <2>4 DEF DonesOnce
<1>8. CASE (provider = "codex" /\ how = "end" /\ ctx.final) \/ (provider = "claude" /\ how = "result")
    <2>1. /\ tasks' = Append(tasks, <<Done(t)>>)
          /\ ctx' = IF provider = "codex" THEN [ctx EXCEPT !.owed = FALSE] ELSE ctx
        <3>1. CASE provider = "codex" /\ how = "end" /\ ctx.final
            BY <3>1 DEF Adapter!EndTurn, Adapter!Line, Adapter!L, Adapter!CodexParsed, Adapter!EndParsed,
               Adapter!Said, Adapter!NoEvents, Adapter!One, Adapter!Event, Done
        <3>2. CASE provider = "claude" /\ how = "result"
            BY <3>2 DEF Adapter!EndTurn, Adapter!Line, Adapter!L, Adapter!ClaudeParsed,
               Adapter!Said, Adapter!NoEvents, Adapter!One, Adapter!Event, Done
        <3>3. QED
            BY <1>8, <3>1, <3>2
    <2>2. /\ DOMAIN ctx' = DOMAIN ctx /\ ctx'.final = ctx.final
          /\ provider = "codex" => ctx'.owed = FALSE
        BY <1>3, <2>1 DEF AdapterTypes
    <2>3. /\ tasks' \in Seq(Seq(LineEvents)) /\ \A i \in DOMAIN tasks' : Len(tasks'[i]) > 0
          /\ \A f \in LineEvents : f # Done(t) => Keeps(f)
          /\ Somewhere(Done(t))' /\ (~Somewhere(Done(t)) => AtMostOne(Done(t))')
        BY <1>2, <1>3, <1>6, <2>1, OneAdded
    <2>4. AdapterTypes' /\ MessagesOnce'
        <3>1. AdapterTypes'
            BY <1>2, <1>3, <1>5, <2>2, <2>3 DEF AdapterTypes
        <3>2. \A u \in Nat : \A a \in Nat \X Nat : Keeps(Message(u, a))
            BY <1>6, <2>3
        <3>3. MessagesOnce'
            BY <1>5, <3>2 DEF AdapterInv, MessagesOnce, Keeps, Message
        <3>4. QED
            BY <3>1, <3>3
    <2>5. ASSUME ~overlapped
          PROVE  OnlyLast' /\ DonesOnce'
        <3>1. /\ IsAnswered(t) /\ how \in {"end", "result"}
              /\ provider = "codex" => ctx.final = TRUE
            BY <1>2, <1>7, <1>8, <2>5 DEF IsAnswered
        <3>2. OnlyLast'
            <4>1. \A u \in DOMAIN program'.turns :
                     /\ program'.turns[u].over \in Ends' \cup {None}
                     /\ u # Len(program'.turns) => IsAnswered(u)' /\ program'.turns[u].over # None
                <5>1. Ends' = Ends /\ how \in Ends /\ t = Len(program'.turns)
                    BY <1>2, <1>5, <1>7, <2>5 DEF Ends
                <5>2. ASSUME NEW u \in DOMAIN program'.turns, u # t
                      PROVE  /\ program'.turns[u].over \in Ends \cup {None}
                             /\ IsAnswered(u)' /\ program'.turns[u].over # None
                    <6>1. u \in DOMAIN program.turns /\ u \in Nat /\ program'.turns[u] = program.turns[u]
                        BY <1>3, <1>5, <5>2 DEF AdapterTypes
                    <6>2. /\ program.turns[u].over \in Ends \cup {None}
                          /\ IsAnswered(u) /\ program.turns[u].over # None
                        BY <1>7, <2>5, <5>2, <6>1 DEF OnlyLast
                    <6>3. QED
                        BY <1>5, <5>2, <6>1, <6>2
                <5>3. program'.turns[t].over \in Ends
                    BY <1>4, <1>5, <5>1
                <5>4. QED
                    BY <5>1, <5>2, <5>3
            <4>2. provider' = "codex" =>
                     /\ ctx'.final = IsAnswered(Len(program.turns))'
                     /\ ctx'.owed = FALSE /\ IsAnswered(Len(program.turns))'
                <5>1. IsAnswered(t)' /\ Len(program'.turns) = t
                    BY <1>3, <1>5, <1>7, <2>5, <3>1
                <5>2. IsAnswered(Len(program.turns))'
                    BY ONLY <5>1 DEF IsAnswered
                <5>3. QED
                    BY <1>2, <2>2, <3>1, <5>2 DEF IsAnswered
            <4>3. QED
                BY <1>5, <4>1, <4>2 DEF OnlyLast, IsAnswered
        <3>3. DonesOnce'
            <4>1. ASSUME NEW u \in Nat
                  PROVE  AtMostOne(Done(u))' /\ (Somewhere(Done(u))' <=> IsComplete(u)')
                <5>1. CASE u = t
                    BY <1>5, <1>7, <2>3, <2>5, <3>1, <5>1
                <5>2. CASE u # t
                    BY <1>5, <1>6, <1>7, <2>3, <2>5, <5>2 DEF DonesOnce, Keeps
                <5>3. QED
                    BY <5>1, <5>2
            <4>2. QED
                BY <4>1 DEF DonesOnce, Done
        <3>4. QED
            BY <3>2, <3>3
    <2>6. QED
        BY <1>2, <2>4, <2>5 DEF AdapterInv
<1>9. CASE (provider = "codex" /\ how = "end" /\ ~ctx.final) \/ how \in {"aborted", "failed"}
    <2>1. /\ tasks' \in Seq(Seq(LineEvents)) /\ \A i \in DOMAIN tasks' : Len(tasks'[i]) > 0
          /\ DOMAIN ctx' = DOMAIN ctx /\ ctx'.final = ctx.final
          /\ IF provider = "codex" /\ how = "end" THEN ctx'.owed = TRUE ELSE ctx'.owed = ctx.owed
          /\ KeepsOutcomes
        <3>1. CASE provider = "codex" /\ how = "end" /\ ~ctx.final
            <4>1. tasks' = tasks /\ ctx' = [ctx EXCEPT !.owed = TRUE]
                BY <3>1 DEF Adapter!EndTurn, Adapter!Line, Adapter!L, Adapter!CodexParsed, Adapter!EndParsed,
                   Adapter!Said, Adapter!NoEvents
            <4>2. \A e : Keeps(e)
                BY <1>2, <4>1 DEF Keeps, AtMostOne, Somewhere, Written, Waiting
            <4>3. QED
                BY <1>3, <3>1, <4>1, <4>2 DEF AdapterTypes, KeepsOutcomes
        <3>2. CASE how \in {"aborted", "failed"}
            <4>1. PICK line : line = Adapter!L(how, t, None, 0)
                OBVIOUS
            <4>2. line.turn = t /\ line.what = how /\ Adapter!Line(line)
                BY <4>1 DEF Adapter!EndTurn, Adapter!L
            <4>3. QED
                BY <1>2, <1>3, <3>2, <4>2, QuietLineKeeps
        <3>3. QED
            BY <1>9, <3>1, <3>2
    <2>2. AdapterTypes'
        BY <1>2, <1>3, <1>5, <2>1 DEF AdapterTypes
    <2>3. ASSUME ~overlapped
          PROVE  OnlyLast' /\ DonesOnce'
        <3>1. provider = "codex" /\ how = "end" => ~IsAnswered(t)
            BY <1>7, <1>9, <2>3
        <3>2. ~IsComplete(t)'
            <4>1. how = "result" => FALSE
                BY <1>9
            <4>2. how = "end" => provider = "codex"
                BY <1>9
            <4>3. QED
                BY <1>5, <3>1, <4>1, <4>2
        <3>3. OnlyLast'
            <4>1. \A u \in DOMAIN program'.turns :
                     /\ program'.turns[u].over \in Ends' \cup {None}
                     /\ u # Len(program'.turns) => IsAnswered(u)' /\ program'.turns[u].over # None
                <5>1. Ends' = Ends /\ how \in Ends /\ t = Len(program'.turns)
                    BY <1>2, <1>5, <1>7, <2>3 DEF Ends
                <5>2. ASSUME NEW u \in DOMAIN program'.turns, u # t
                      PROVE  /\ program'.turns[u].over \in Ends \cup {None}
                             /\ IsAnswered(u)' /\ program'.turns[u].over # None
                    <6>1. u \in DOMAIN program.turns /\ u \in Nat /\ program'.turns[u] = program.turns[u]
                        BY <1>3, <1>5, <5>2 DEF AdapterTypes
                    <6>2. /\ program.turns[u].over \in Ends \cup {None}
                          /\ IsAnswered(u) /\ program.turns[u].over # None
                        BY <1>7, <2>3, <5>2, <6>1 DEF OnlyLast
                    <6>3. QED
                        BY <1>5, <5>2, <6>1, <6>2
                <5>3. program'.turns[t].over \in Ends
                    BY <1>4, <1>5, <5>1
                <5>4. QED
                    BY <5>1, <5>2, <5>3
            <4>2. ASSUME provider = "codex"
                  PROVE  /\ ctx'.final = IsAnswered(Len(program.turns))'
                         /\ ctx'.owed = (/\ program'.turns # <<>> /\ ~IsAnswered(Len(program.turns))'
                                         /\ program'.turns[Len(program'.turns)].over = "end")
                <5>0. IsAnswered(Len(program.turns))' <=> IsAnswered(t)
                    <6>1. Len(program'.turns) = t /\ (IsAnswered(t)' <=> IsAnswered(t))
                        BY <1>3, <1>5, <1>7, <2>3
                    <6>2. QED
                        BY ONLY <6>1 DEF IsAnswered
                <5>1. ctx'.final = IsAnswered(Len(program.turns))'
                    <6>1. ctx.final = IsAnswered(t)
                        BY <1>7, <2>3, <4>2 DEF OnlyLast
                    <6>2. ctx'.final = IsAnswered(t)
                        BY <2>1, <6>1
                    <6>3. QED
                        BY <5>0, <6>2 DEF IsAnswered
                <5>2. CASE how = "end"
                    <6>1. ~IsAnswered(Len(program.turns))' /\ program'.turns[t].over = "end"
                        BY <1>4, <1>5, <3>1, <4>2, <5>0, <5>2
                    <6>2. ctx'.owed = TRUE
                        BY <2>1, <4>2, <5>2
                    <6>3. QED
                        BY <1>5, <1>7, <2>3, <5>1, <6>1, <6>2
                <5>3. CASE how # "end"
                    <6>1. program'.turns[t].over # "end"
                        BY <1>4, <1>5, <5>3
                    <6>2. ctx'.owed = FALSE
                        <7>1. ctx.owed = FALSE
                            BY <1>7, <2>3, <4>2 DEF OnlyLast
                        <7>2. QED
                            BY <2>1, <5>3, <7>1
                    <6>3. QED
                        BY <1>5, <1>7, <2>3, <5>1, <6>1, <6>2
                <5>4. QED
                    BY <5>2, <5>3
            <4>3. QED
                BY <1>2, <1>5, <4>1, <4>2 DEF OnlyLast, IsAnswered
        <3>4. DonesOnce'
            <4>1. ASSUME NEW u \in Nat
                  PROVE  IsComplete(u)' <=> IsComplete(u)
                BY <1>5, <1>7, <2>3, <3>2
            <4>2. QED
                BY <1>7, <2>1, <2>3, <4>1 DEF DonesOnce, KeepsOutcomes, Keeps, Done
        <3>5. QED
            BY <3>3, <3>4
    <2>4. QED
        BY <1>2, <1>a, <2>1, <2>2, <2>3 DEF AdapterInv
<1>10. QED
    BY <1>3, <1>8, <1>9 DEF Ends, AdapterTypes

\* A request leaves what the adapter remembers of a turn.
LEMMA AskedKeeps ==
    ASSUME NEW c, Contexts(c), NEW label
    PROVE  LET asked == Adapter!Asked(c, label)
           IN  DOMAIN asked = DOMAIN c /\ asked.final = c.final /\ asked.owed = c.owed
<1>1. PICK p, k : Adapter!Asked(c, label) = [c EXCEPT !.pending = p, !.next = k]
    BY DEF Adapter!Asked
<1>2. QED
    BY <1>1 DEF Contexts

\* A turn is written: while none overlaps, every earlier one is answered and over.
LEMMA TurnKeeps ==
    ASSUME AdapterInv, Adapter!WriteTurn
    PROVE  AdapterInv'
<1>1. PICK turns, n, new : turns = program.turns /\ n = Len(turns) /\ new = Adapter!NewTurn
    OBVIOUS
<1>2. AdapterTypes /\ turns \in Seq(TurnRecords) /\ n \in Nat /\ DOMAIN turns = 1..n
    BY <1>1 DEF AdapterInv, AdapterTypes
<1>3. new \in TurnRecords /\ new.answers = {} /\ new.lines = 0 /\ new.over = None
    BY <1>1 DEF TurnRecords, Adapter!NewTurn
<1>4. /\ provider' = provider /\ tasks' = tasks /\ said' = said
      /\ ctx' = IF provider = "codex" THEN Adapter!TurnAsked(ctx) ELSE ctx
      /\ overlapped' = (overlapped \/ \E t \in Adapter!Turns : ~Adapter!Answered(t) \/ program.turns[t].over = None)
    BY DEF Adapter!WriteTurn
<1>5. DOMAIN program' = DOMAIN program /\ program'.turns = Append(turns, new)
    <2>1. PICK asked : program' = [program EXCEPT !.turns = Append(turns, new), !.asked = asked]
        BY <1>1 DEF Adapter!WriteTurn
    <2>2. QED
        BY <1>2, <2>1 DEF AdapterTypes
<1>6. /\ program'.turns \in Seq(TurnRecords) /\ Len(program'.turns) = n + 1
      /\ program'.turns[n + 1] = new /\ \A t \in 1..n : program'.turns[t] = turns[t]
    BY <1>1, <1>2, <1>3, <1>5
<1>7. DOMAIN program'.turns = 1..n + 1
    BY ONLY <1>6, LenProperties
<1>8. \A t \in Nat : /\ (IsAnswered(t)' <=> IsAnswered(t)) /\ (IsComplete(t)' <=> IsComplete(t))
                      /\ \A a \in Nat \X Nat : IsAnswer(t, a)' <=> IsAnswer(t, a)
    <2>1. ASSUME NEW t \in Nat
          PROVE  /\ (IsAnswered(t)' <=> IsAnswered(t)) /\ (IsComplete(t)' <=> IsComplete(t))
                 /\ \A a \in Nat \X Nat : IsAnswer(t, a)' <=> IsAnswer(t, a)
        <3>1. CASE t \in 1..n
            BY <1>1, <1>2, <1>6, <1>7, <3>1 DEF IsAnswer, IsAnswered, IsComplete
        <3>2. CASE t = n + 1
            BY <1>1, <1>2, <1>3, <1>6, <1>7, <3>2 DEF IsAnswer, IsAnswered, IsComplete
        <3>3. CASE t \notin 1..n + 1
            BY <1>1, <1>2, <1>7, <3>3 DEF IsAnswer, IsAnswered, IsComplete
        <3>4. QED
            BY <1>2, <3>1, <3>2, <3>3
    <2>2. QED
        BY <2>1
<1>9. /\ DOMAIN ctx' = DOMAIN ctx
      /\ provider = "codex" => ctx'.final = FALSE /\ ctx'.owed = FALSE
    <2>1. CASE provider = "codex"
        <3>1. PICK c : c = [ctx EXCEPT !.final = FALSE, !.owed = FALSE]
            OBVIOUS
        <3>2. DOMAIN c = DOMAIN ctx /\ c.final = FALSE /\ c.owed = FALSE
            BY <1>2, <3>1 DEF AdapterTypes
        <3>3. ctx' = Adapter!Asked(c, "turn/start")
            BY <1>4, <2>1, <3>1 DEF Adapter!TurnAsked
        <3>4. QED
            BY <1>2, <3>2, <3>3, AskedKeeps DEF AdapterTypes, Contexts
    <2>2. CASE provider # "codex"
        BY <1>4, <2>2
    <2>3. QED
        BY <2>1, <2>2
<1>10. AdapterTypes'
    <2>1. ASSUME NEW t \in 1..n + 1
          PROVE  program'.turns[t].answers \subseteq (1..program'.turns[t].lines) \X Nat
        <3>1. CASE t = n + 1
            BY <1>3, <1>6, <3>1
        <3>2. CASE t \in 1..n
            BY <1>1, <1>2, <1>6, <3>2 DEF AdapterTypes
        <3>3. QED
            BY <1>2, <3>1, <3>2
    <2>2. QED
        BY <1>2, <1>4, <1>5, <1>6, <1>7, <1>9, <2>1 DEF AdapterTypes
<1>a. \A e : Keeps(e)
    BY <1>4 DEF Keeps, AtMostOne, Somewhere, Written, Waiting
<1>b. MessagesOnce'
    BY <1>8, <1>a DEF AdapterInv, MessagesOnce, Keeps, Message
<1>11. ASSUME ~overlapped'
       PROVE  OnlyLast' /\ DonesOnce'
    <2>1. /\ OnlyLast /\ DonesOnce
          /\ \A t \in 1..n : IsAnswered(t) /\ turns[t].over # None
        BY <1>1, <1>2, <1>4, <1>11 DEF AdapterInv, Adapter!Turns, Adapter!Answered, IsAnswered
    <2>2. \A t \in 1..n + 1 :
             /\ program'.turns[t].over \in Ends' \cup {None}
             /\ t # n + 1 => IsAnswered(t)' /\ program'.turns[t].over # None
        <3>1. ASSUME NEW t \in 1..n + 1
              PROVE  /\ program'.turns[t].over \in Ends' \cup {None}
                     /\ t # n + 1 => IsAnswered(t)' /\ program'.turns[t].over # None
            <4>1. CASE t = n + 1
                BY <1>3, <1>6, <4>1
            <4>2. CASE t \in 1..n
                BY <1>1, <1>2, <1>4, <1>6, <1>8, <2>1, <4>2 DEF OnlyLast, Ends
            <4>3. QED
                BY <1>2, <4>1, <4>2
        <3>2. QED
            BY <3>1
    <2>3. provider' = "codex" => /\ ctx'.final = IsAnswered(Len(program.turns))' /\ ctx'.owed = FALSE
                                /\ program'.turns[n + 1].over # "end"
        <3>1. ~IsAnswered(Len(program.turns))'
            BY <1>3, <1>6 DEF IsAnswered
        <3>2. program'.turns[n + 1].over # "end"
            BY <1>3, <1>6, AdapterAssumption
        <3>3. QED
            BY <1>4, <1>9, <3>1, <3>2 DEF IsAnswered
    <2>4. OnlyLast'
        BY <1>6, <1>7, <2>2, <2>3 DEF OnlyLast
    <2>6. DonesOnce'
        BY <1>8, <1>a, <2>1 DEF DonesOnce, Keeps, Done
    <2>7. QED
        BY <2>4, <2>6
<1>12. QED
    BY <1>10, <1>11, <1>b DEF AdapterInv

\* An event on its way to the log.
LEMMA MovingKeeps ==
    ASSUME AdapterInv, NEW i \in DOMAIN tasks, Adapter!AppendEvent(i)
    PROVE  AdapterInv'
<1>1. /\ AdapterTypes'
      /\ \A e \in LineEvents : Keeps(e)
    BY AppendMoves DEF AdapterInv, Keeps
<1>2. UNCHANGED <<provider, ctx, program, overlapped>>
    BY DEF Adapter!AppendEvent
<1>3. said' \in Seq(LineEvents) /\ tasks' \in Seq(Seq(LineEvents)) /\ \A j \in DOMAIN tasks' : Len(tasks'[j]) > 0
    BY <1>1 DEF AdapterTypes
<1>4. KeepsOutcomes
    BY <1>1 DEF Message, Done, LineEvents, KeepsOutcomes
<1>5. QED
    BY <1>2, <1>3, <1>4, TurnsStay

LEMMA AdapterKeeps ==
    ASSUME AdapterInv, Adapter!AdapterNext
    PROVE  AdapterInv'
<1>1. AdapterTypes /\ \A t \in DOMAIN program.turns : t \in Nat
    BY DEF AdapterInv, AdapterTypes
<1>2. \A e : UNCHANGED <<tasks, said>> => Keeps(e)
    BY DEF Keeps, AtMostOne, Somewhere, Written, Waiting
<1>3. CASE Adapter!Initialize \/ Adapter!StartThread
    <2>1. PICK label : ctx' = Adapter!Asked(ctx, label)
        BY <1>3 DEF Adapter!Initialize, Adapter!StartThread, Adapter!Ask
    <2>2. DOMAIN ctx' = DOMAIN ctx /\ ctx'.final = ctx.final /\ ctx'.owed = ctx.owed
        BY <1>1, <2>1, AskedKeeps DEF AdapterTypes, Contexts
    <2>3. PICK asked : program' = [program EXCEPT !.asked = asked]
        BY <1>3 DEF Adapter!Initialize, Adapter!StartThread, Adapter!Ask
    <2>4. UNCHANGED <<provider, tasks, said, overlapped>>
        BY <1>3 DEF Adapter!Initialize, Adapter!StartThread
    <2>5. QED
        BY <1>1, <1>2, <2>2, <2>3, <2>4, TurnsStay DEF AdapterTypes, KeepsOutcomes
<1>4. CASE Adapter!ThreadThere \/ Adapter!ThreadTimeout
    <2>1. UNCHANGED <<provider, ctx, program, tasks, said, overlapped>>
        BY <1>4 DEF Adapter!ThreadThere, Adapter!ThreadTimeout
    <2>2. QED
        BY <1>1, <1>2, <2>1, TurnsStay DEF AdapterTypes, KeepsOutcomes
<1>5. ASSUME NEW line, line.turn \in Nat, Adapter!Line(line), Adapter!Unchanged,
             NEW field \in {"asked", "items"}, NEW value, program' = [program EXCEPT ![field] = value],
             provider = "claude" => line.what \notin {"assistant", "result"},
             provider = "codex" => line.what # "end" /\ (line.what = "item" => line.item # "answer")
      PROVE  AdapterInv'
    <2>1. said' = said /\ provider' = provider /\ overlapped' = overlapped
        BY <1>5 DEF Adapter!Unchanged
    <2>2. /\ tasks' \in Seq(Seq(LineEvents)) /\ \A i \in DOMAIN tasks' : Len(tasks'[i]) > 0
          /\ DOMAIN ctx' = DOMAIN ctx /\ ctx'.final = ctx.final /\ ctx'.owed = ctx.owed
          /\ KeepsOutcomes
        BY <1>1, <1>5, <2>1, QuietLineKeeps
    <2>3. program'.turns = program.turns /\ DOMAIN program' = DOMAIN program
        BY <1>1, <1>5 DEF AdapterTypes
    <2>4. QED
        BY <1>1, <2>1, <2>2, <2>3, TurnsStay DEF AdapterTypes
<1>6. ASSUME NEW r \in program.asked, NEW item, Adapter!Respond(r, item)
      PROVE  AdapterInv'
    <2>1. PICK line, value : /\ line = Adapter!L("response", 0, item, r.id)
                            /\ value = program.asked \ {r}
        OBVIOUS
    <2>2. line.turn \in Nat /\ line.what = "response"
        BY <2>1 DEF Adapter!L
    <2>3. Adapter!Line(line) /\ Adapter!Unchanged /\ program' = [program EXCEPT !["asked"] = value]
        BY <1>6, <2>1 DEF Adapter!Respond
    <2>4. QED
        BY <1>5, <2>2, <2>3
<1>7. ASSUME NEW t \in DOMAIN program.turns, NEW what, NEW item, Adapter!Other(t, what, item),
             provider = "claude" => what \notin {"assistant", "result"},
             provider = "codex" => what # "end" /\ (what = "item" => item # "answer")
      PROVE  AdapterInv'
    <2>1. PICK line, value : /\ line = Adapter!L(what, t, item, 0)
                            /\ value = program.items + 1
        OBVIOUS
    <2>2. line.turn = t /\ line.what = what /\ line.item = item /\ line.turn \in Nat
        BY <1>1, <2>1 DEF Adapter!L
    <2>3. Adapter!Line(line) /\ Adapter!Unchanged /\ program' = [program EXCEPT !["items"] = value]
        BY <1>7, <2>1 DEF Adapter!Other
    <2>4. QED
        BY <1>5, <1>7, <2>2, <2>3
<1>8. ASSUME NEW t \in DOMAIN program.turns,
             \/ provider = "codex" /\ \E item \in {"commandExecution", "collabAgentToolCall", "reasoning"} : Adapter!Other(t, "started", item)
             \/ provider = "codex" /\ \E item \in {"elicitation", "approval"} : Adapter!Other(t, "request", item)
             \/ provider = "codex" /\ Adapter!Other(t, "item", "failedTool")
             \/ provider = "codex" /\ \E what \in {"item", "delta", "garbled"} : Adapter!Other(t, what, "commentary")
             \/ provider = "claude" /\ \E what \in {"init", "garbled"} : Adapter!Other(t, what, None)
      PROVE  AdapterInv'
    <2>1. CASE provider = "codex" /\ \E item \in {"commandExecution", "collabAgentToolCall", "reasoning"} : Adapter!Other(t, "started", item)
        BY <1>7, <2>1
    <2>2. CASE provider = "codex" /\ \E item \in {"elicitation", "approval"} : Adapter!Other(t, "request", item)
        BY <1>7, <2>2
    <2>3. CASE provider = "codex" /\ Adapter!Other(t, "item", "failedTool")
        BY <1>7, <2>3
    <2>4. CASE provider = "codex" /\ \E what \in {"item", "delta", "garbled"} : Adapter!Other(t, what, "commentary")
        BY <1>7, <2>4
    <2>5. CASE provider = "claude" /\ \E what \in {"init", "garbled"} : Adapter!Other(t, what, None)
        BY <1>7, <2>5
    <2>6. QED
        BY <1>8, <2>1, <2>2, <2>3, <2>4, <2>5
<1>9. QED
    BY <1>3, <1>4, <1>6, <1>8, TurnKeeps, MovingKeeps, AnswerKeeps, AssistantKeeps, EndKeeps
    DEF Adapter!AdapterNext, Adapter!Turns, Ends

\* An event that is at most once anywhere is counted once, or not at all.
LEMMA Counted ==
    ASSUME AdapterTypes, NEW e, AtMostOne(e)
    PROVE  Adapter!Emitted(e) = IF Somewhere(e) THEN 1 ELSE 0
<1>1. PICK logged, appending : logged = Adapter!Logged(e) /\ appending = Adapter!Appending(e)
    OBVIOUS
<1>2. \A n : n \in logged <=> n \in Nat /\ Written(e, n)
    <2>1. logged = {n \in DOMAIN said : said[n] = e}
        BY <1>1 DEF Adapter!Logged
    <2>2. DOMAIN said = 1..Len(said) /\ Len(said) \in Nat
        BY DEF AdapterTypes
    <2>3. \A n \in logged : n \in Nat /\ Written(e, n)
        BY ONLY <2>1, <2>2 DEF Written
    <2>4. \A n \in Nat : Written(e, n) => n \in logged
        BY ONLY <2>1, <2>2 DEF Written
    <2>5. QED
        BY ONLY <2>3, <2>4
<1>3. /\ \A p \in appending : \E i, j \in Nat : p = <<i, j>> /\ Waiting(e, i, j)
      /\ \A i, j \in Nat : Waiting(e, i, j) => <<i, j>> \in appending
    <2>1. \A i \in DOMAIN tasks : i \in Nat /\ i \in 1..Len(tasks) /\ DOMAIN tasks[i] = 1..Len(tasks[i]) /\ Len(tasks[i]) \in Nat
        BY DEF AdapterTypes
    <2>2. \A i \in 1..Len(tasks) : i \in DOMAIN tasks
        BY DEF AdapterTypes
    <2>3. ASSUME NEW p \in appending
          PROVE  \E i, j \in Nat : p = <<i, j>> /\ Waiting(e, i, j)
        <3>1. PICK i \in DOMAIN tasks : p \in {i} \X DOMAIN tasks[i] /\ tasks[p[1]][p[2]] = e
            BY <1>1, <2>3 DEF Adapter!Appending
        <3>2. PICK j \in DOMAIN tasks[i] : p = <<i, j>> /\ tasks[i][j] = e
            BY <3>1
        <3>3. i \in Nat /\ j \in Nat /\ Waiting(e, i, j)
            BY <2>1, <3>2 DEF Waiting
        <3>4. QED
            BY <3>2, <3>3
    <2>4. ASSUME NEW i \in Nat, NEW j \in Nat, Waiting(e, i, j)
          PROVE  <<i, j>> \in appending
        <3>1. i \in DOMAIN tasks /\ j \in DOMAIN tasks[i] /\ tasks[i][j] = e
            BY <2>1, <2>2, <2>4 DEF Waiting
        <3>2. <<i, j>> \in UNION {{k} \X DOMAIN tasks[k] : k \in DOMAIN tasks}
            BY <3>1
        <3>3. QED
            BY <1>1, <3>1, <3>2 DEF Adapter!Appending
    <2>5. QED
        BY <2>3, <2>4
<1>4. AtMostOne(e)
    OBVIOUS
<1>5. Adapter!Emitted(e) = Cardinality(logged) + Cardinality(appending)
    <2>1. \A S : Adapter!Cardinality(S) = Cardinality(S)
        BY DEF Adapter!Cardinality, Cardinality
    <2>2. QED
        BY <1>1, <2>1 DEF Adapter!Emitted
<1>6. CASE \E n \in Nat : Written(e, n)
    <2>1. PICK n \in Nat : Written(e, n)
        BY <1>6
    <2>2. logged = {n} /\ appending = {}
        BY <1>2, <1>3, <1>4, <2>1 DEF AtMostOne
    <2>3. Cardinality(logged) = 1 /\ Cardinality(appending) = 0
        BY <2>2, FS_EmptySet, FS_Singleton
    <2>4. Somewhere(e)
        BY <1>6 DEF Somewhere
    <2>5. QED
        BY <1>1, <1>5, <2>3, <2>4
<1>7. CASE \E i, j \in Nat : Waiting(e, i, j)
    <2>1. PICK i \in Nat, j \in Nat : Waiting(e, i, j)
        BY <1>7
    <2>2. logged = {} /\ appending = {<<i, j>>}
        BY <1>2, <1>3, <1>4, <2>1 DEF AtMostOne
    <2>3. Cardinality(logged) = 0 /\ Cardinality(appending) = 1
        BY <2>2, FS_EmptySet, FS_Singleton
    <2>4. Somewhere(e)
        BY <1>7 DEF Somewhere
    <2>5. QED
        BY <1>1, <1>5, <2>3, <2>4
<1>8. CASE ~Somewhere(e)
    <2>1. logged = {} /\ appending = {}
        BY <1>2, <1>3, <1>8 DEF Somewhere
    <2>2. Cardinality(logged) = 0 /\ Cardinality(appending) = 0
        BY <2>1, FS_EmptySet
    <2>3. QED
        BY <1>1, <1>5, <1>8, <2>2
<1>9. QED
    BY <1>6, <1>7, <1>8 DEF Somewhere

LEMMA AnswersHold ==
    ASSUME AdapterInv
    PROVE  Adapter!AnswersOnceThenDone
<1>1. AdapterTypes /\ MessagesOnce
    BY DEF AdapterInv
<1>2. ASSUME NEW t \in DOMAIN program.turns, NEW a \in program.turns[t].answers
      PROVE  Adapter!Emitted(Adapter!Message(t, a)) = 1
    <2>1. t \in Nat /\ a \in Nat \X Nat
        BY <1>1, <1>2 DEF AdapterTypes, TurnRecords
    <2>2. AtMostOne(Message(t, a)) /\ Somewhere(Message(t, a))
        BY <1>1, <1>2, <2>1 DEF MessagesOnce, IsAnswer
    <2>3. Adapter!Emitted(Message(t, a)) = 1
        BY <1>1, <2>2, Counted
    <2>4. QED
        BY <2>3 DEF Adapter!Message, Message
<1>3. ASSUME NEW e \in Adapter!Events, e.kind = "message"
      PROVE  e.turn \in DOMAIN program.turns /\ e.of \in program.turns[e.turn].answers
    <2>1. e \in LineEvents /\ Somewhere(e)
        <3>1. CASE \E n \in DOMAIN said : e = said[n]
            <4>1. PICK n \in DOMAIN said : e = said[n]
                BY <3>1
            <4>2. n \in Nat /\ Written(e, n) /\ e \in LineEvents
                BY <1>1, <4>1 DEF AdapterTypes, Written
            <4>3. QED
                BY <4>2 DEF Somewhere
        <3>2. CASE \E i \in DOMAIN tasks : \E j \in DOMAIN tasks[i] : e = tasks[i][j]
            <4>1. PICK i \in DOMAIN tasks : \E j \in DOMAIN tasks[i] : e = tasks[i][j]
                BY <3>2
            <4>2. PICK j \in DOMAIN tasks[i] : e = tasks[i][j]
                BY <4>1
            <4>3. i \in Nat /\ i \in 1..Len(tasks) /\ tasks[i] \in Seq(LineEvents)
                BY <1>1 DEF AdapterTypes
            <4>4. j \in Nat /\ j \in 1..Len(tasks[i]) /\ e \in LineEvents
                BY <4>2, <4>3
            <4>5. Waiting(e, i, j)
                BY <4>2, <4>3, <4>4 DEF Waiting
            <4>6. QED
                BY <4>3, <4>4, <4>5 DEF Somewhere
        <3>3. QED
            BY <1>3, <3>1, <3>2 DEF Adapter!Events
    <2>2. e.turn \in Nat /\ e.of \in Nat \X Nat /\ e = Message(e.turn, e.of)
        BY <1>3, <2>1 DEF LineEvents, Message
    <2>3. QED
        BY <1>1, <2>1, <2>2 DEF MessagesOnce, IsAnswer
<1>4. ASSUME ~overlapped, NEW t \in DOMAIN program.turns
      PROVE  Adapter!Emitted(Adapter!Done(t)) =
                 IF Adapter!Answered(t) /\ program.turns[t].over \in {"end", "result"} THEN 1 ELSE 0
    <2>1. t \in Nat
        BY <1>1 DEF AdapterTypes
    <2>2. AtMostOne(Done(t)) /\ (Somewhere(Done(t)) <=> IsComplete(t))
        BY <1>4, <2>1 DEF AdapterInv, DonesOnce
    <2>3. Adapter!Emitted(Done(t)) = IF IsComplete(t) THEN 1 ELSE 0
        BY <1>1, <2>2, Counted
    <2>4. QED
        BY <2>3 DEF Adapter!Done, Done, IsComplete, IsAnswered, Adapter!Answered
<1>5. QED
    BY <1>2, <1>3, <1>4 DEF Adapter!AnswersOnceThenDone, Adapter!Turns

LEMMA AdapterStarts ==
    ASSUME Adapter!AdapterInit
    PROVE  AdapterInv
<1>1. /\ provider \in {"claude", "codex"} /\ tasks = <<>> /\ said = <<>> /\ overlapped = FALSE
      /\ program = [asked |-> {}, turns |-> <<>>, items |-> 0]
      /\ ctx.final = FALSE /\ ctx.owed = FALSE
      /\ DOMAIN ctx = {"pending", "final", "owed", "thread", "next"}
    <2>1. PICK p : ctx = [pending |-> p, final |-> FALSE, owed |-> FALSE, thread |-> None, next |-> 1]
        BY DEF Adapter!AdapterInit
    <2>2. QED
        BY <2>1, AdapterAssumption DEF Adapter!AdapterInit
<1>2. AdapterTypes
    <2>1. \A S : <<>> \in Seq(S)
        OBVIOUS
    <2>2. program.turns = <<>> /\ DOMAIN program = {"asked", "turns", "items"} /\ DOMAIN <<>> = {}
        BY <1>1
    <2>3. QED
        BY <1>1, <2>1, <2>2 DEF AdapterTypes
<1>3. OnlyLast
    <2>1. program.turns = <<>> /\ DOMAIN program.turns = {}
        BY <1>1
    <2>2. QED
        BY <1>1, <2>1 DEF OnlyLast, IsAnswered
<1>4. MessagesOnce /\ DonesOnce
    <2>1. \A e : AtMostOne(e) /\ ~Somewhere(e)
        BY <1>1 DEF AtMostOne, Somewhere, Written, Waiting
    <2>2. \A t \in Nat : ~IsAnswered(t) /\ ~IsComplete(t) /\ \A a : ~IsAnswer(t, a)
        BY <1>1 DEF IsAnswer, IsAnswered, IsComplete
    <2>3. QED
        BY <2>1, <2>2 DEF MessagesOnce, DonesOnce
<1>5. QED
    BY <1>2, <1>3, <1>4 DEF AdapterInv

\* For every number of turns, lines, blocks and requests, and however the events of the
\* lines overtake each other: the messages are the answers of the program, each once, and
\* while no turn runs into another a turn that is answered and completed is one done.
THEOREM AnswerTheorem == FollowSpec => []AnswersOnceThenDone
<1> DEFINE Inv == part = "adapter" => AdapterInv
<1>1. FollowInit => Inv
    BY AdapterStarts DEF FollowInit
<1>2. Inv /\ [FollowNext]_followVars => Inv'
    <2>1. CASE UNCHANGED <<part, adapterVars>>
        <3>1. UNCHANGED <<part, provider, ctx, program, tasks, said, overlapped>>
            BY <2>1 DEF adapterVars
        <3>2. \A e : Keeps(e)
            <4>1. tasks' = tasks /\ said' = said
                BY <3>1
            <4>2. TAKE e
            <4>3. \A n : Written(e, n)' <=> Written(e, n)
                BY ONLY <4>1 DEF Written
            <4>4. \A i, j : Waiting(e, i, j)' <=> Waiting(e, i, j)
                BY ONLY <4>1 DEF Waiting
            <4>5. AtMostOne(e)' <=> AtMostOne(e)
                BY ONLY <4>3, <4>4 DEF AtMostOne
            <4>6. Somewhere(e)' <=> Somewhere(e)
                BY ONLY <4>3, <4>4 DEF Somewhere
            <4>7. QED
                BY ONLY <4>5, <4>6 DEF Keeps
        <3>3. ASSUME AdapterInv
              PROVE  AdapterInv'
            <4>1. /\ tasks' \in Seq(Seq(LineEvents)) /\ \A i \in DOMAIN tasks' : Len(tasks'[i]) > 0
                  /\ program'.turns = program.turns /\ DOMAIN program' = DOMAIN program
                  /\ DOMAIN ctx' = DOMAIN ctx /\ ctx'.final = ctx.final /\ ctx'.owed = ctx.owed
                BY <3>1, <3>3 DEF AdapterInv, AdapterTypes
            <4>2. QED
                BY <3>1, <3>2, <3>3, <4>1, TurnsStay DEF KeepsOutcomes, AdapterInv, AdapterTypes
        <3>4. QED
            BY <3>1, <3>3
    <2>2. CASE part = "adapter" /\ Adapter!AdapterNext /\ part' = part
        BY <2>2, AdapterKeeps
    <2>3. QED
        BY <2>1, <2>2 DEF FollowNext, FanStep, Rest, followVars
<1>3. Inv => AnswersOnceThenDone
    BY AnswersHold DEF AnswersOnceThenDone
<1>4. QED
    BY <1>1, <1>2, <1>3, PTL DEF FollowSpec
=============================================================================
