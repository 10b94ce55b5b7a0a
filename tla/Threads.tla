------------------------------ MODULE Threads ------------------------------
(***************************************************************************)
(* The threads of a forum channel: postThread, renameThread and the        *)
(* context commands append events after checking what they read without    *)
(* the channel lock; resolvers, the board and the timelines are folds of   *)
(* the whole log.  An event's seq is its place in the log.                 *)
(***************************************************************************)
EXTENDS Naturals, Sequences, FiniteSets, FiniteSetsExt, SequencesExt

CONSTANTS
    Keys,           \* thread keys
    Entries,        \* context entries, by their identity
    Clients,        \* processes that rename threads and edit their context
    None,           \* no value
    MaxEvents       \* bound: length of the log

PostActs == {"opened", "comment", "status", "processed"}
ContextActs == {"add", "delete"}

\* A thread or context event; to: the new key of a rename.
Events == [act : PostActs \cup ContextActs \cup {"rename"}, key : Keys,
           to : Keys \cup {None}, status : {"open", "processed", "closed", None},
           entry : Entries \cup {None}]

VARIABLES
    log,            \* the events of the forum after its create
    pending         \* client -> the checked event it is about to append, or None

vars == <<log, pending>>

Pendings == [event : Events, read : 0..MaxEvents]

TypeOK ==
    /\ log \in Seq(Events) /\ Len(log) \in 0..MaxEvents
    /\ pending \in [Clients -> Pendings \cup {None}]

Event(act, key) == [act |-> act, key |-> key, to |-> None, status |-> None, entry |-> None]
Rename(old, new) == [Event("rename", old) EXCEPT !.to = new]
Context(act, key, entry) == [Event(act, key) EXCEPT !.entry = entry]

-----------------------------------------------------------------------------
(* The alias resolver.  alias: a renamed key's newer key, or itself;        *)
(* group: the older keys of a current one.                                  *)

NoAliases == [alias |-> [k \in Keys |-> k], group |-> [k \in Keys |-> {}]]

CurrentFor(r, key) ==
    LET hop[n \in 0..Cardinality(Keys)] == IF n = 0 THEN key ELSE r.alias[hop[n - 1]]
    IN  hop[Cardinality(Keys)]

\* A migration that leaves the aliases of the renamed key behind.
MigrateAlone(r, ev) ==
    LET old == CurrentFor(r, ev.key)
        target == CurrentFor(r, ev.to)
    IN  IF old = target THEN r
        ELSE [alias |-> [r.alias EXCEPT ![old] = target],
              group |-> [r.group EXCEPT ![old] = {}, ![target] = @ \cup {old}]]

\* One rename: the group of the old key moves under the target's.
Migrate(r, ev) ==
    LET old == CurrentFor(r, ev.key)
        target == CurrentFor(r, ev.to)
        moving == r.group[old] \cup {old}
    IN  IF old = target THEN r
        ELSE [alias |-> [k \in Keys |-> IF k \in moving THEN target ELSE r.alias[k]],
              group |-> [r.group EXCEPT ![old] = {}, ![target] = @ \cup moving]]

Resolver(events) ==
    FoldLeft(LAMBDA r, ev : IF ev.act = "rename" /\ ev.to # ev.key THEN Migrate(r, ev) ELSE r,
             NoAliases, events)

Resolve(events, key) == CurrentFor(Resolver(events), key)

\* collectThreadTimeline: the places of a thread's events.
Timeline(events, key) ==
    LET r == Resolver(events)
        names == {CurrentFor(r, key)} \cup r.group[CurrentFor(r, key)]
    IN  {i \in DOMAIN events : events[i].key \in names}

-----------------------------------------------------------------------------
(* reduceThreads.                                                           *)

Fresh == [status |-> "open", comments |-> 0, context |-> {}, lastSeq |-> 0]

AppliedPost(state, ev) ==
    CASE ev.act = "opened" ->
            [state EXCEPT !.status = IF ev.status # None THEN ev.status ELSE "open",
                          !.context = IF ev.entry # None THEN {ev.entry} ELSE @]
      [] ev.act = "comment" -> [state EXCEPT !.comments = @ + 1]
      [] ev.act = "status" -> [state EXCEPT !.status = IF ev.status # None THEN ev.status ELSE @]
      [] ev.act = "processed" ->
            [state EXCEPT !.status = IF ev.status # None THEN ev.status ELSE "processed"]
      [] OTHER -> state

\* A thread event introduces its thread; a context event of a thread the
\* board has not met is dropped.
BoardAfter(board, ev, seq, current) ==
    LET met == board[current]
        state == IF met = None THEN Fresh ELSE met
    IN  IF ev.act \in ContextActs
        THEN IF met = None THEN board
             ELSE [board EXCEPT ![current] =
                      [state EXCEPT !.context = IF ev.act = "add" THEN @ \cup {ev.entry}
                                                ELSE @ \ {ev.entry},
                                    !.lastSeq = seq]]
        ELSE [board EXCEPT ![current] = [AppliedPost(state, ev) EXCEPT !.lastSeq = seq]]

\* The board of the events at the given places of a log.
BoardOf(events, places) ==
    LET chosen == SetToSortSeq(places, <)
        r == Resolver([i \in DOMAIN chosen |-> events[chosen[i]]])
    IN  FoldLeft(LAMBDA board, i : BoardAfter(board, events[i], i, CurrentFor(r, events[i].key)),
                 [k \in Keys |-> None], chosen)

Board(events) == BoardOf(events, DOMAIN events)

\* assertKnownThread
Known(events, key) == Board(events)[Resolve(events, key)] # None

\* The keys renameThread knows: those of thread events, resolved.
KnownKeys(events) ==
    LET r == Resolver(events)
    IN  {CurrentFor(r, events[i].key) : i \in {j \in DOMAIN events : events[j].act \notin ContextActs}}

-----------------------------------------------------------------------------
Init == log = <<>> /\ pending = [c \in Clients |-> None]

Room == Len(log) < MaxEvents

\* postThread checks the type of the channel only, and appends.
PostThread ==
    /\ Room
    /\ \E key \in Keys, act \in PostActs, status \in {None, "closed"}, entry \in Entries \cup {None} :
          /\ status # None => act = "status"
          /\ act = "status" => status # None
          /\ entry # None => act = "opened"
          /\ log' = Append(log, [Event(act, key) EXCEPT !.status = status, !.entry = entry])
    /\ UNCHANGED pending

Checked(c, ev) == pending' = [pending EXCEPT ![c] = [event |-> ev, read |-> Len(log)]]

\* renameThread up to its append: refuses to merge two known threads.
CheckRename(c) ==
    /\ pending[c] = None /\ Room
    /\ \E old, new \in Keys :
          /\ old # new
          /\ LET known == KnownKeys(log)
                 from == Resolve(log, old)
                 to == Resolve(log, new)
             IN  from \in known /\ (to \in known => to = from)
          /\ Checked(c, Rename(old, new))
    /\ UNCHANGED log

\* addThreadContext and deleteThreadContext up to their append.
CheckContext(c) ==
    /\ pending[c] = None /\ Room
    /\ \E key \in Keys, act \in ContextActs, entry \in Entries :
          /\ Known(log, key)
          /\ Checked(c, Context(act, key, entry))
    /\ UNCHANGED log

AppendChecked(c) ==
    /\ pending[c] # None /\ Room
    /\ log' = Append(log, pending[c].event)
    /\ pending' = [pending EXCEPT ![c] = None]

Next ==
    \/ PostThread
    \/ \E c \in Clients : CheckRename(c) \/ CheckContext(c) \/ AppendChecked(c)

Spec == Init /\ [][Next]_vars

-----------------------------------------------------------------------------
(* Two keys name one thread when a chain of renames, read in either         *)
(* direction, joins them.                                                   *)
Joined ==
    LET edge == {<<log[i].key, log[i].to>> : i \in {j \in DOMAIN log : log[j].act = "rename"}}
        step(S) == S \cup {k \in Keys : \E s \in S : <<s, k>> \in edge \/ <<k, s>> \in edge}
    IN  [k \in Keys |-> LET reach[n \in 0..Cardinality(Keys)] ==
                              IF n = 0 THEN {k} ELSE step(reach[n - 1])
                        IN  reach[Cardinality(Keys)]]

(* A timeline is the events of every key joined to the one asked for,       *)
(* whatever renames of renames, renames back and late posts to an old key   *)
(* the log holds, and joined keys agree on the current one.                 *)
TimelineComplete ==
    LET joined == Joined
        current == [k \in Keys |-> Resolve(log, k)]
    IN  \A k \in Keys :
            /\ Timeline(log, k) = {i \in DOMAIN log : log[i].key \in joined[k]}
            /\ \A j \in Keys : (current[j] = current[k]) = (j \in joined[k])

(* thread show reduces the timeline alone, and the board the whole log:     *)
(* they show the same thread, last touched by the timeline's last event, so *)
(* no accepted context command is dropped by the board.                     *)
ShowAgreesWithBoard ==
    LET board == Board(log)
    IN  \A k \in Keys : LET places == Timeline(log, k)
                            current == Resolve(log, k)
                        IN  places # {} =>
                                /\ board[current] # None
                                /\ BoardOf(log, places)[current] = board[current]
                                /\ board[current].lastSeq = Max(places)

=============================================================================
