---------------------------- MODULE WorkerAdapters ----------------------------
(***************************************************************************)
(* The adapters between the supervisor and the program of a worker         *)
(* (cli/src/commands/channel/adapters): what is written to the program,    *)
(* and what each line of its output becomes in the channel.  Claude needs  *)
(* no handshake and ends a turn with a result.  Codex is asked for a       *)
(* thread first; it may complete a turn before it hands out the answer, so *)
(* the adapter remembers which of the two it has seen.  Every line is      *)
(* handled by a task of its own (supervisor/stdout.ts): lines are parsed   *)
(* in order, the events of two lines are appended in any order.            *)
(*                                                                         *)
(* A line is [what, turn, item, id].  turn, and the id of a line that       *)
(* answers, say what the line is of; the adapter reads neither.  They name *)
(* the answer an event carries: of is the line and the block in it, and    *)
(* <<0, 0>> for an event that carries none.                                *)
(***************************************************************************)
EXTENDS Naturals, Sequences, FiniteSets, TLC

CONSTANTS
  None, Providers,
  Blocks,            \* what an assistant's line of Claude may hold: sequences of "text" and
                     \* "tool" (thinking and empty texts become no event and are left out)
  MaxTurns,          \* turns that are started
  MaxAnswers,        \* lines that answer, of one turn
  MaxItems           \* items of output beyond them

VARIABLES
  provider,
  ctx,        \* the adapter's [pending, final, owed, thread, next]; what it remembers of
              \* items only labels the deltas
  shake,      \* the handshake: "start", "initialized", "waiting", "ready" or "failed"
  program,    \* the worker's program: [asked, turns, items, requests]
  tasks,      \* the events that are parsed and not yet appended, a sequence per line
  log,        \* the worker's events in the channel: [kind, turn, of]
  overlapped  \* history: a turn was started before the last one was answered and over, or
              \* one was answered again when the next had been started

Tools    == {"commandExecution", "mcpToolCall", "dynamicToolCall", "webSearch", "fileChange", "imageView"}
NoEvents == <<>>
Event(kind, line) == [kind |-> kind, turn |-> line.turn, of |-> <<0, 0>>]
One(kind, line)   == <<Event(kind, line)>>
AnswerEvent(line, block) == [kind |-> "message", turn |-> line.turn, of |-> <<line.id, block>>]

-----------------------------------------------------------------------------
(* Parsing; the result is [events, ctx, reply].                             *)
Said(events, c) == [events |-> events, ctx |-> c, reply |-> None]

\* handleAssistant: an event for each block.
BlockEvents(line) ==
  [b \in DOMAIN line.item |-> IF line.item[b] = "text" THEN AnswerEvent(line, b) ELSE Event("progress", line)]

\* parseClaudeLine
ClaudeParsed(line, c) ==
  Said(CASE line.what = "assistant" -> BlockEvents(line)
         [] line.what = "result" -> One("done", line)
         [] line.what \in {"failed", "garbled"} -> One("error", line)
         [] OTHER -> NoEvents, c)

\* handleServerRequest: everything but an elicitation is declined.
RequestParsed(line, c) ==
  [events |-> One(IF line.item = "elicitation" THEN "progress" ELSE "error", line),
   ctx |-> c, reply |-> IF line.item = "elicitation" THEN "accept" ELSE "decline"]

\* handleResponse
ResponseParsed(line, c) ==
  LET label == IF line.id \in DOMAIN c.pending THEN c.pending[line.id] ELSE None
      d     == [c EXCEPT !.pending = [i \in DOMAIN @ \ {line.id} |-> @[i]]]
  IN IF line.item = "error" THEN Said(One("error", line), d)
     ELSE Said(NoEvents, IF label = "thread/start" THEN [d EXCEPT !.thread = line.item] ELSE d)

\* handleItemStarted
StartedParsed(line, c) ==
  Said(CASE line.item \in Tools -> One("progress", line)
         [] line.item = "collabAgentToolCall" -> One("error", line)
         [] OTHER -> NoEvents, c)

\* handleItemCompleted, of an answer: the end of the turn may have been waiting
\* for it.
AnswerParsed(line, c) ==
  IF c.owed THEN Said(<<AnswerEvent(line, 1), Event("done", line)>>, [c EXCEPT !.final = TRUE, !.owed = FALSE])
            ELSE Said(<<AnswerEvent(line, 1)>>, [c EXCEPT !.final = TRUE])

CompletedParsed(line, c) ==
  CASE line.item = "answer" -> AnswerParsed(line, c)
    [] line.item \in {"commentary", "failedTool"} -> Said(One("progress", line), c)
    [] OTHER -> Said(NoEvents, c)

\* turn/completed
EndParsed(line, c) ==
  IF c.final THEN Said(One("done", line), [c EXCEPT !.owed = FALSE])
             ELSE Said(NoEvents, [c EXCEPT !.owed = TRUE])

\* parseCodexLine
CodexParsed(line, c) ==
  CASE line.what = "request"  -> RequestParsed(line, c)
    [] line.what = "response" -> ResponseParsed(line, c)
    [] line.what = "started"  -> StartedParsed(line, c)
    [] line.what = "item"     -> CompletedParsed(line, c)
    [] line.what = "end"      -> EndParsed(line, c)
    [] line.what \in {"aborted", "garbled"} -> Said(One("error", line), c)
    [] line.what \in {"delta", "warning"}   -> Said(One("progress", line), c)
    [] OTHER -> Said(NoEvents, c)

\* One line: parsed now, appended later.
Line(line) ==
  LET parsed == IF provider = "codex" THEN CodexParsed(line, ctx) ELSE ClaudeParsed(line, ctx)
  IN /\ ctx' = parsed.ctx
     /\ tasks' = IF parsed.events = NoEvents THEN tasks ELSE Append(tasks, parsed.events)

L(what, turn, item, id) == [what |-> what, turn |-> turn, item |-> item, id |-> id]

\* applyParseResult: the next event of any task.
AppendEvent(i) ==
  /\ log' = Append(log, tasks[i][1])
  /\ tasks' = LET rest == Tail(tasks[i])
              IN IF rest = <<>> THEN SubSeq(tasks, 1, i - 1) \o SubSeq(tasks, i + 1, Len(tasks))
                 ELSE [tasks EXCEPT ![i] = rest]
  /\ UNCHANGED <<provider, ctx, shake, program, overlapped>>

-----------------------------------------------------------------------------
(* Writing.                                                                 *)
\* encodeCodexRequest
Asked(c, label) ==
  [c EXCEPT !.pending = (c.next :> label) @@ @, !.next = @ + 1]

Ask(label) == /\ ctx' = Asked(ctx, label)
              /\ program' = [program EXCEPT !.asked = @ \cup {[id |-> ctx.next, label |-> label]}]

Initialize == /\ provider = "codex" /\ shake = "start" /\ Ask("initialize") /\ shake' = "initialized"
              /\ UNCHANGED <<provider, tasks, log, overlapped>>

StartThread == /\ shake = "initialized" /\ Ask("thread/start") /\ shake' = "waiting"
               /\ UNCHANGED <<provider, tasks, log, overlapped>>

ThreadThere == /\ shake = "waiting" /\ ctx.thread # None /\ shake' = "ready"
               /\ UNCHANGED <<provider, ctx, program, tasks, log, overlapped>>

\* Thirty seconds without one; the supervisor shuts down.
ThreadTimeout == /\ shake = "waiting" /\ ctx.thread = None /\ shake' = "failed"
                 /\ UNCHANGED <<provider, ctx, program, tasks, log, overlapped>>

IsReady == provider = "claude" \/ ctx.thread # None

Turns == DOMAIN program.turns
NewTurn == [lines |-> 0, answers |-> {}, over |-> None]
Answered(t) == program.turns[t].answers # {}

\* Mutant: what was seen of the last turn is kept.
TurnAskedAgain(c) == Asked(c, "turn/start")

\* encodeCodexUserMessage, for a message and for an interrupt
TurnAsked(c) == Asked([c EXCEPT !.final = FALSE, !.owed = FALSE], "turn/start")

\* The supervisor writes whether or not the last turn is over.
WriteTurn ==
  /\ IsReady /\ shake # "failed" /\ Len(program.turns) < MaxTurns
  /\ ctx' = IF provider = "codex" THEN TurnAsked(ctx) ELSE ctx
  /\ program' = [program EXCEPT !.turns = Append(@, NewTurn),
                   !.asked = IF provider = "codex" THEN @ \cup {[id |-> ctx.next, label |-> "turn/start"]}
                             ELSE @]
  /\ overlapped' = (overlapped \/ \E t \in Turns : ~Answered(t) \/ program.turns[t].over = None)
  /\ UNCHANGED <<provider, shake, tasks, log>>

-----------------------------------------------------------------------------
(* The program; what it writes, in any order Codex was seen to use.         *)
Open(t) == program.turns[t].over = None
Unchanged == UNCHANGED <<provider, shake, log, overlapped>>

\* One more line of a turn, with the answers in its blocks.
Says(t, what, item, texts) ==
  LET turn == program.turns[t]
      n    == turn.lines + 1
  IN /\ n <= MaxAnswers
     /\ program' = [program EXCEPT !.turns[t] =
                       [turn EXCEPT !.lines = n, !.answers = turn.answers \cup ({n} \X texts)]]
     /\ overlapped' = (overlapped \/ t # Len(program.turns))
     /\ Line(L(what, t, item, n)) /\ UNCHANGED <<provider, shake, log>>

Respond(r, item) ==
  /\ r \in program.asked /\ program' = [program EXCEPT !.asked = @ \ {r}]
  /\ Line(L("response", 0, item, r.id)) /\ Unchanged

\* A message of Claude's assistant: before the result, as often as it likes.
Assistant(t, blocks) ==
  /\ provider = "claude" /\ Open(t)
  /\ Says(t, "assistant", blocks, {b \in DOMAIN blocks : blocks[b] = "text"})

\* A final answer of Codex, one of several even, before or after the end of its turn.
Answer(t) == provider = "codex" /\ Says(t, "item", "answer", {1})

\* Claude has sent its text when it sends the result.
EndTurn(t, how) ==
  /\ Open(t) /\ program' = [program EXCEPT !.turns[t].over = how]
  /\ (provider = "claude" /\ how = "result" => Answered(t))
  /\ Line(L(how, t, None, 0)) /\ Unchanged

Other(t, what, item) ==
  /\ Open(t) /\ program.items < MaxItems
  /\ program' = [program EXCEPT !.items = @ + 1]
  /\ Line(L(what, t, item, 0)) /\ Unchanged

AdapterInit ==
  /\ provider \in Providers
  /\ ctx = [pending |-> [i \in {} |-> None], final |-> FALSE, owed |-> FALSE, thread |-> None, next |-> 1]
  /\ shake = "start" /\ tasks = <<>> /\ log = <<>> /\ overlapped = FALSE
  /\ program = [asked |-> {}, turns |-> <<>>, items |-> 0]

AdapterNext ==
  \/ Initialize \/ StartThread \/ ThreadThere \/ ThreadTimeout \/ WriteTurn
  \/ \E i \in DOMAIN tasks : AppendEvent(i)
  \/ \E r \in program.asked :
       Respond(r, "error") \/ Respond(r, IF r.label = "thread/start" THEN "thread" ELSE "ok")
  \/ \E t \in Turns :
       \/ Answer(t) \/ \E blocks \in Blocks : Assistant(t, blocks)
       \/ \E how \in IF provider = "codex" THEN {"end", "aborted"} ELSE {"result", "failed"} : EndTurn(t, how)
       \/ provider = "codex" /\ \E item \in {"commandExecution", "collabAgentToolCall", "reasoning"} : Other(t, "started", item)
       \/ provider = "codex" /\ \E item \in {"elicitation", "approval"} : Other(t, "request", item)
       \/ provider = "codex" /\ Other(t, "item", "failedTool")
       \/ provider = "codex" /\ \E what \in {"item", "delta", "garbled"} : Other(t, what, "commentary")
       \/ provider = "claude" /\ \E what \in {"init", "garbled"} : Other(t, what, None)

-----------------------------------------------------------------------------
Message(t, answer) == [kind |-> "message", turn |-> t, of |-> answer]
Done(t)            == [kind |-> "done", turn |-> t, of |-> <<0, 0>>]

Logged(e)    == {n \in DOMAIN log : log[n] = e}
Appending(e) == {p \in UNION {{i} \X DOMAIN tasks[i] : i \in DOMAIN tasks} : tasks[p[1]][p[2]] = e}
Emitted(e)   == Cardinality(Logged(e)) + Cardinality(Appending(e))
Events       == {log[n] : n \in DOMAIN log} \cup UNION {{tasks[i][j] : j \in DOMAIN tasks[i]} : i \in DOMAIN tasks}

(* However many lines and blocks a turn is answered in, whatever order the  *)
(* program sends its end in, and even where turns run into each other, the  *)
(* messages are the program's answers: each is one message, of its turn,    *)
(* and there is no other.  As long as no turn is started into another one,  *)
(* and none is answered again once the next has started, a turn that is     *)
(* answered and completed is one done: none is missing, none is doubled,    *)
(* and no turn is done before an answer of it has been parsed.  Where they  *)
(* do run into each other the code takes a late answer for the new turn's,  *)
(* and its done comes early: that half is not judged.                       *)
AnswersOnceThenDone ==
  /\ \A t \in Turns : \A answer \in program.turns[t].answers : Emitted(Message(t, answer)) = 1
  /\ \A e \in Events : e.kind = "message" => e.turn \in Turns /\ e.of \in program.turns[e.turn].answers
  /\ ~overlapped => \A t \in Turns :
       Emitted(Done(t)) = IF Answered(t) /\ program.turns[t].over \in {"end", "result"} THEN 1 ELSE 0
=============================================================================
