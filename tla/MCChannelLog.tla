---------------------------- MODULE MCChannelLog ----------------------------
(***************************************************************************)
(* The event log of a channel, those who follow it, those who remove it    *)
(* and the adapter that fills it, side by side; part picks the one that    *)
(* moves while the others stay as they began:                              *)
(*   log      both appenders and one reader, one idempotency key, two kinds *)
(*   tail     a watcher of one channel's file                               *)
(*   fan      the tails of a project's channels, multiplexed to a consumer  *)
(*   removal  the commands that remove a channel and its workers            *)
(*   adapter  a worker's program and what its lines become in the log       *)
(***************************************************************************)
EXTENDS ChannelLog

CONSTANTS None, Since, Channels, MaxSeq, MaxFiles, MaxEvents, MaxRuns, MaxDeaths,
          Workers, MaxLaunches, MaxRemovals,
          Providers, Blocks, MaxTurns, MaxAnswers, MaxItems

ASSUME FanAssumption == MaxEvents \in Nat /\ None \notin 0..MaxEvents

VARIABLES
    part,
    disk, number, lastSeq, writing, mode, since, offset, carry, size,
    began, yielded, cursorFile, muddled,
    length, running, active, tailed, position, queue, scanned, saved, runs, deaths, handled, excused,
    dir, ephemeral, pid, config, supervisor, child, remover, run, done, launches, removals, listed,
    provider, ctx, shake, program, tasks, said, overlapped

Watch == INSTANCE ChannelTail
Fan == INSTANCE ChannelFan WITH since <- tailed, cursor <- position, FromStartNew <- FALSE
Removal == INSTANCE ChannelRemoval
Adapter == INSTANCE WorkerAdapters WITH log <- said

ASSUME RemovalAssumption == MaxLaunches \in Nat /\ None \notin Workers /\ None \notin Removal!Removers

ASSUME AdapterAssumption ==
    /\ Providers \subseteq {"claude", "codex"} /\ None \notin {"end", "aborted", "result", "failed"}
    /\ \A blocks \in Blocks : blocks \in Seq({"text", "tool"}) /\ blocks # <<>>

tailVars == <<disk, number, lastSeq, writing, mode, since, offset, carry, size, began, yielded,
              cursorFile, muddled>>
fanVars == <<length, running, active, tailed, position, queue, scanned, saved, runs, deaths, handled,
             excused>>
removalVars == <<dir, ephemeral, pid, config, supervisor, child, remover, run, done, launches,
                 removals, listed>>
adapterVars == <<provider, ctx, shake, program, tasks, said, overlapped>>
followVars == <<part, vars, tailVars, fanVars, removalVars, adapterVars>>

\* One action of the fan, with everything else at rest.
FanStep(action) == part = "fan" /\ action /\ UNCHANGED <<part, vars, tailVars, removalVars, adapterVars>>

\* A tail waits for the next event, a consumer for the next run, a removed channel
\* and a program with nothing to say for ever.
Rest == part # "log" /\ UNCHANGED followVars

\* Of the providers that rest, one is enough.
FollowInit ==
    /\ part \in {"log", "tail", "fan", "removal", "adapter"}
    /\ Init /\ Watch!Init /\ Fan!Init /\ Removal!Init /\ Adapter!AdapterInit
    /\ part # "adapter" => provider = "claude"

FollowNext ==
    \/ part = "log" /\ Next /\ UNCHANGED <<part, tailVars, fanVars, removalVars, adapterVars>>
    \/ part = "tail" /\ Watch!Next /\ UNCHANGED <<part, vars, fanVars, removalVars, adapterVars>>
    \/ part = "removal" /\ Removal!Next /\ UNCHANGED <<part, vars, tailVars, fanVars, adapterVars>>
    \/ part = "adapter" /\ Adapter!AdapterNext /\ UNCHANGED <<part, vars, tailVars, fanVars, removalVars>>
    \/ FanStep(Fan!Next)
    \/ Rest

\* The consumer's process is started again and gets the processor; so does every tail.
FollowSpec ==
    /\ FollowInit /\ [][FollowNext]_followVars
    /\ WF_followVars(FanStep(Fan!Discover)) /\ WF_followVars(FanStep(Fan!Yield))
    /\ WF_followVars(FanStep(Fan!StartRun))
    /\ \A c \in Channels : WF_followVars(FanStep(Fan!Fan(c)))

\* A text, two in one line, a text with the call of a tool, a call alone.
BlocksDef == {<<"text", "text">>, <<"text", "tool">>, <<"tool">>}

\* The pump has at most two lines in work, the program one request unanswered; output
\* other than answers is seen in the first turn, and turns that run into each other with
\* one answer each.
FewAtOnce ==
    /\ Len(tasks) <= 2 /\ Cardinality(program.asked) <= 1
    /\ program.items > 0 => Len(program.turns) <= 1
    /\ overlapped => program.items = 0 /\ \A t \in DOMAIN program.turns : program.turns[t].lines <= 1

\* Properties of the modules that are instantiated, each while its part moves.

(* Whatever a checkpoint of the consumer covers has been handled in some    *)
(* run (see ChannelFan).                                                    *)
CheckpointsCovered == part = "fan" => Fan!AtLeastOnce

(* Nobody who follows a channel misses an event: a tail that has caught up  *)
(* with its file has yielded all of it, and what a checkpoint covers was    *)
(* handled in some run of the consumer.                                     *)
FollowersMissNothing ==
    /\ part = "tail" => Watch!CaughtUp
    /\ CheckpointsCovered

(* A removal leaves no supervisor it listed (see ChannelRemoval).           *)
ListedStopped == part = "removal" => Removal!ListedStopped

(* The messages of a worker are the answers of its program, and a turn that *)
(* is answered and completed is one done (see WorkerAdapters).              *)
AnswersOnceThenDone == part = "adapter" => Adapter!AnswersOnceThenDone

(* A consumer that keeps running is handed every event (see ChannelFan).    *)
EventuallyHandled == part = "fan" => Fan!EventuallyHandled
=============================================================================
