----------------------------- MODULE ChannelFan -----------------------------
(***************************************************************************)
(* watchChannels: one tail per channel of a bucket, fanned into a queue.   *)
(* Each queued event carries a copy of the cursors as they stood when it   *)
(* was queued; the consumer saves the copy of the last event it handled    *)
(* and passes it to its next run.  A tail may die and be started again by  *)
(* the discovery timer.  Channels are never removed here; ChannelTail has  *)
(* a tail on a file that is.                                               *)
(***************************************************************************)
EXTENDS Naturals, Sequences, FiniteSets

CONSTANTS
    Channels,
    None,               \* no value
    FromStartNew,       \* fromStartNewChannels
    MaxEvents,          \* bound: events of one channel
    MaxRuns,            \* bound: runs of the consumer
    MaxDeaths           \* bound: tails that die

Cursors == [Channels -> (0..MaxEvents) \cup {None}]
Items == [channel : Channels, seq : 1..MaxEvents, cursor : Cursors]

VARIABLES
    length,             \* events in a channel, 0 before it is created
    running,            \* a consumer is running
    active,             \* channels with a live tail
    since,              \* the seq a live tail has read up to
    cursor,             \* the cursor map of this run
    queue,              \* events waiting to be yielded
    scanned,            \* the first scan of this run is over
    saved,              \* the checkpoint the consumer has stored
    \* History, read by no guard:
    runs, deaths,       \* how often each has happened
    handled,            \* channel -> the seqs the consumer has handled, in any run
    excused             \* channel -> the seqs a tail that began at the end never read

vars == <<length, running, active, since, cursor, queue, scanned, saved,
          runs, deaths, handled, excused>>

NoCursor == [c \in Channels |-> None]

TypeOK ==
    /\ length \in [Channels -> 0..MaxEvents]
    /\ running \in BOOLEAN /\ scanned \in BOOLEAN
    /\ active \subseteq Channels
    /\ since \in [Channels -> 0..MaxEvents]
    /\ cursor \in Cursors /\ saved \in Cursors
    /\ queue \in Seq(Items)
    /\ handled \in [Channels -> SUBSET (1..MaxEvents)]
    /\ excused \in [Channels -> SUBSET (1..MaxEvents)]

Init ==
    /\ length = [c \in Channels |-> 0]
    /\ running = FALSE /\ scanned = FALSE /\ active = {} /\ queue = <<>>
    /\ since = [c \in Channels |-> 0]
    /\ cursor = NoCursor /\ saved = NoCursor
    /\ runs = 0 /\ deaths = 0
    /\ handled = [c \in Channels |-> {}] /\ excused = [c \in Channels |-> {}]

\* An event is appended; the first one creates the channel.
AppendEvent(c) ==
    /\ length[c] < MaxEvents
    /\ length' = [length EXCEPT ![c] = @ + 1]
    /\ UNCHANGED <<running, active, since, cursor, queue, scanned, saved, runs, deaths,
                   handled, excused>>

\* A consumer starts from the checkpoint it saved.
StartRun ==
    /\ ~running /\ runs < MaxRuns
    /\ running' = TRUE /\ runs' = runs + 1
    /\ cursor' = saved
    /\ scanned' = FALSE /\ active' = {} /\ queue' = <<>>
    /\ since' = [c \in Channels |-> 0]
    /\ UNCHANGED <<length, saved, deaths, handled, excused>>

\* startWatcher: where the tail of a channel begins.
Begin(c) ==
    IF cursor[c] # None THEN cursor[c]
    ELSE IF ~scanned \/ FromStartNew THEN 0
    ELSE length[c]

\* A discovery that forgets no channel it has ever watched.
DiscoverOnce ==
    /\ running
    /\ LET new == {c \in Channels \ active : length[c] > 0 /\ since[c] = 0}
       IN  /\ active' = active \cup new
           /\ since' = [c \in Channels |-> IF c \in new THEN Begin(c) ELSE since[c]]
           /\ excused' = [c \in Channels |->
                 IF c \in new /\ cursor[c] = None THEN excused[c] \cup 1..Begin(c) ELSE excused[c]]
           /\ scanned => new # {}
    /\ scanned' = TRUE
    /\ UNCHANGED <<length, running, cursor, queue, saved, runs, deaths, handled>>

\* listChannelNamesInProject, and a tail for every channel without one: the
\* first scan of a run, then every tick of the discovery timer.
Discover ==
    /\ running
    /\ LET new == {c \in Channels \ active : length[c] > 0}
       IN  /\ active' = active \cup new
           /\ since' = [c \in Channels |-> IF c \in new THEN Begin(c) ELSE since[c]]
           /\ excused' = [c \in Channels |->
                 IF c \in new /\ cursor[c] = None THEN excused[c] \cup 1..Begin(c) ELSE excused[c]]
           /\ scanned => new # {}
    /\ scanned' = TRUE
    /\ UNCHANGED <<length, running, cursor, queue, saved, runs, deaths, handled>>

\* A tail yields its next event: the cursor moves, and a copy is queued.
Fan(c) ==
    /\ running /\ c \in active /\ since[c] < length[c]
    /\ since' = [since EXCEPT ![c] = @ + 1]
    /\ cursor' = [cursor EXCEPT ![c] = since'[c]]
    /\ queue' = Append(queue, [channel |-> c, seq |-> since'[c], cursor |-> cursor'])
    /\ UNCHANGED <<length, running, active, scanned, saved, runs, deaths, handled, excused>>

\* A tail ends with an error of the file system.
TailDies(c) ==
    /\ running /\ c \in active /\ deaths < MaxDeaths
    /\ active' = active \ {c} /\ deaths' = deaths + 1
    /\ UNCHANGED <<length, running, since, cursor, queue, scanned, saved, runs, handled, excused>>

\* The consumer takes the first event, handles it, and may save its checkpoint.
Yield ==
    /\ running /\ queue # <<>>
    /\ LET item == queue[1]
       IN  /\ handled' = [handled EXCEPT ![item.channel] = @ \cup {item.seq}]
           /\ saved' \in {saved, item.cursor}
    /\ queue' = Tail(queue)
    /\ UNCHANGED <<length, running, active, since, cursor, scanned, runs, deaths, excused>>

\* The consumer crashes or aborts with events still queued.
StopRun ==
    /\ running /\ running' = FALSE
    /\ UNCHANGED <<length, active, since, cursor, queue, scanned, saved, runs, deaths,
                   handled, excused>>

Next ==
    \/ StartRun \/ Discover \/ Yield \/ StopRun
    \/ \E c \in Channels : AppendEvent(c) \/ Fan(c) \/ TailDies(c)

Spec == Init /\ [][Next]_vars

-----------------------------------------------------------------------------
(* Delivery is at-least-once: whatever a checkpoint covers has been handled *)
(* in some run, however many events were queued when the consumer died,     *)
(* unless a tail that began at the end of its channel never read it.        *)
AtLeastOnce ==
    \A c \in Channels :
        saved[c] # None => 1..saved[c] \subseteq handled[c] \cup excused[c]

(* A consumer that keeps running is handed every event some tail of its     *)
(* channel did not skip, though tails die and are found again.              *)
EventuallyHandled ==
    \A c \in Channels : \A n \in 1..MaxEvents :
        <>[]running => (length[c] >= n ~> n \in handled[c] \cup excused[c])
=============================================================================
