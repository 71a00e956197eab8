----------------------------- MODULE AgentLoop -----------------------------
(***************************************************************************)
(* The agent loop (internal/agentloop) with the event sink and the failure *)
(* report of internal/harness, over several runs on one session branch.    *)
(*                                                                         *)
(* Beside the loop there are the callers that cancel the run's context or  *)
(* queue a message, the tools of a parallel batch, one goroutine each, and *)
(* crashes.  Extension hooks observe and change nothing here.              *)
(*                                                                         *)
(* A message is stored by the sink right after its event; the context is   *)
(* looked at in between (Session.AppendMessage), so a cancellation can     *)
(* separate what is published from what is stored.                         *)
(***************************************************************************)
EXTENDS Naturals, Sequences, SequencesExt, FiniteSets

CONSTANTS
    MaxCalls,     \* bound: tool calls of one answer
    MaxTurns,     \* bound: answers the provider gives
    MaxUsers,     \* bound: prompts and queued messages
    MaxFaults,    \* bound: session writes that return an error
    MaxCrashes,   \* bound: deaths of the process
    Modes         \* execution modes: "sequential", "parallel"

ASSUME ModesAssumption == Modes \subseteq {"sequential", "parallel"} /\ Modes # {}
ASSUME LoopBounds == {MaxCalls, MaxTurns, MaxUsers, MaxFaults, MaxCrashes} \subseteq Nat

VARIABLES
    pc,           \* where the loop stands
    cancelled,    \* ctx.Err() # nil
    context,      \* currentContext.Messages
    stored,       \* the session branch: the messages on the path of its leaf
    onDisk,       \* the first answer has flushed the session to its file
    events,       \* what the subscribers of the current run have been sent
    base,         \* Len(stored) when the current run began
    pending,      \* messages to inject; the prompts of a run that begins
    answer,       \* the answer whose tools are executed
    batch,        \* the execution of its tool calls
    more,         \* hasMoreToolCalls
    users,        \* prompts and queued messages so far
    turns,        \* answers so far
    faults,       \* session writes that returned an error
    crashes       \* deaths so far

vars == <<pc, cancelled, context, stored, onDisk, events, base, pending, answer, batch,
          more, users, turns, faults, crashes>>

User(n) == [role |-> "user", id |-> n]
Assistant(n, calls, failed) == [role |-> "assistant", id |-> n, calls |-> calls, failed |-> failed]
ToolResult(n, c) == [role |-> "result", of |-> n, call |-> c, synthetic |-> FALSE]
Synthetic(n, c) == [ToolResult(n, c) EXCEPT !.synthetic = TRUE]

\* A failure report is an assistant message of its own: stop reason error or
\* aborted, no calls.
Failure == Assistant(0, 0, TRUE)

IsFailed(m) == m.role = "assistant" /\ m.failed

\* message_start and message_end are one event here: nothing of the model
\* comes between them.
Event(type) == [type |-> type]
MessageEvent(m) == [type |-> "message", message |-> m]
ToolEvent(type, c) == [type |-> type, call |-> c]

NoAnswer == Assistant(0, 0, FALSE)

\* status[c] for the calls started so far: "blocked" ended without running;
\* else "prepared", "running", "returned" and "ended".  completed is the
\* channel of the goroutines, results counts the result messages stored.
NewBatch(mode) == [mode |-> mode, status |-> <<>>, completed |-> <<>>, results |-> 0]
Started == DOMAIN batch.status
HasEnded(c) == batch.status[c] \in {"blocked", "ended"}
-----------------------------------------------------------------------------
(* What a request carries.                                                 *)

\* Assistant and user messages close the calls before them.
Closes(m) == m.role \in {"assistant", "user"}

\* The results that are missing just before position i of s.
Missing(s, i) ==
    LET before == {j \in 1..(i - 1) : Closes(s[j])}
        j == CHOOSE k \in before : \A l \in before : l <= k
        answered == {s[k].call : k \in (j + 1)..(i - 1)}
    IN  IF before = {} \/ s[j].role # "assistant" THEN <<>>
        ELSE IF s[j].failed THEN <<>>
        ELSE FlattenSeq([c \in 1..s[j].calls |->
                 IF c \in answered THEN <<>> ELSE <<Synthetic(s[j].id, c)>>])

\* Mutant of Sent: the calls that are still open at the end stay so.
SentOpenAtEnd(s) ==
    FlattenSeq([i \in 1..Len(s) |->
        (IF Closes(s[i]) THEN Missing(s, i) ELSE <<>>)
        \o (IF IsFailed(s[i]) THEN <<>> ELSE <<s[i]>>)])

\* TransformMessages, as every provider applies it: failed answers are left
\* out, and a call without a result gets a synthetic one.
Sent(s) ==
    FlattenSeq([i \in 1..(Len(s) + 1) |->
        IF i > Len(s) THEN Missing(s, i)
        ELSE (IF Closes(s[i]) THEN Missing(s, i) ELSE <<>>)
             \o (IF IsFailed(s[i]) THEN <<>> ELSE <<s[i]>>)])
-----------------------------------------------------------------------------
Init ==
    /\ pc = "idle"
    /\ cancelled = FALSE
    /\ context = <<>>
    /\ stored = <<>>
    /\ onDisk = FALSE
    /\ events = <<>>
    /\ base = 0
    /\ pending = <<>>
    /\ answer = NoAnswer
    /\ batch = NewBatch("none")
    /\ more = FALSE
    /\ users = 0
    /\ turns = 0
    /\ faults = 0
    /\ crashes = 0

Publish(es) == events' = events \o es

\* What an action on the tool batch, and one that stores a message, leave alone.
notByTools == <<cancelled, context, stored, onDisk, base, pending, answer, more, users, turns,
                faults, crashes>>
notBySay == <<cancelled, base, answer, more, crashes>>

\* Mutant of Say: the message is stored first, and published once it is.
SayStoredFirst(m, next, onError, after) ==
    \/ /\ cancelled
       /\ pc' = onError
       /\ UNCHANGED <<stored, onDisk, events, faults>>
    \/ /\ ~cancelled /\ faults < MaxFaults
       /\ pc' = onError
       /\ stored' = Append(stored, m)
       /\ faults' = faults + 1
       /\ UNCHANGED <<onDisk, events>>
    \/ /\ ~cancelled
       /\ pc' = next
       /\ stored' = Append(stored, m)
       /\ onDisk' = (onDisk \/ m.role = "assistant")
       /\ Publish(<<MessageEvent(m)>> \o after)
       /\ UNCHANGED faults

\* message_start, message_end, then Session.AppendMessage: refused under a
\* cancelled context; a write that fails has changed the memory already.  On
\* an error the loop goes to onError, else what is published next follows.
Say(m, next, onError, after) ==
    \/ /\ cancelled
       /\ pc' = onError
       /\ Publish(<<MessageEvent(m)>>)
       /\ UNCHANGED <<stored, onDisk, faults>>
    \/ /\ ~cancelled /\ faults < MaxFaults
       /\ pc' = onError
       /\ stored' = Append(stored, m)
       /\ faults' = faults + 1
       /\ Publish(<<MessageEvent(m)>>)
       /\ UNCHANGED onDisk
    \/ /\ ~cancelled
       /\ pc' = next
       /\ stored' = Append(stored, m)
       /\ onDisk' = (onDisk \/ m.role = "assistant")
       /\ Publish(<<MessageEvent(m)>> \o after)
       /\ UNCHANGED faults

RunStart == <<Event("agent_start"), Event("turn_start")>>
RunEnd == <<Event("turn_end"), Event("agent_end")>>

\* Harness.run with a prompt: BuildContext, then agent_start and turn_start.
Prompt ==
    /\ pc = "idle" /\ users < MaxUsers
    /\ pc' = "prompts"
    /\ cancelled' = FALSE
    /\ context' = stored
    /\ base' = Len(stored)
    /\ pending' = <<User(users + 1)>>
    /\ users' = users + 1
    /\ events' = RunStart
    /\ UNCHANGED <<stored, onDisk, answer, batch, more, turns, faults, crashes>>

\* Mutant of Continue: the last message is taken back whatever it is.
ContinueUnchecked ==
    /\ pc = "idle" /\ ~cancelled /\ events # <<>> /\ stored # <<>>
    /\ stored' = Front(stored)
    /\ context' = Front(stored)
    /\ base' = Len(stored) - 1
    /\ pc' = "poll"
    /\ events' = RunStart
    /\ UNCHANGED <<cancelled, onDisk, pending, answer, batch, more, users, turns, faults, crashes>>

\* The orchestrator retries: the branch goes back to before the failed
\* answer, and continueRun takes it up unless it is empty or ends in an answer.
Continue ==
    /\ pc = "idle" /\ ~cancelled /\ events # <<>>
    /\ stored # <<>> /\ IsFailed(Last(stored))
    /\ LET rest == Front(stored)
           refused == IF rest = <<>> THEN TRUE ELSE Last(rest).role = "assistant"
       IN  /\ stored' = rest
           /\ context' = rest
           /\ base' = Len(rest)
           /\ pc' = IF refused THEN "failing" ELSE "poll"
           /\ events' = IF refused THEN <<>> ELSE RunStart
    /\ UNCHANGED <<cancelled, onDisk, pending, answer, batch, more, users, turns, faults, crashes>>

\* The prompts of run are taken into the context, published and stored.
EmitPrompt ==
    /\ pc = "prompts"
    /\ context' = context \o pending
    /\ pending' = <<>>
    /\ Say(pending[1], "poll", "failing", <<>>)
    /\ UNCHANGED <<notBySay, batch, users, turns>>

\* A poll of a queue answers nothing or one message.
Polled(arrives) ==
    IF arrives
    THEN /\ users < MaxUsers
         /\ pending' = <<User(users + 1)>>
         /\ users' = users + 1
    ELSE UNCHANGED <<pending, users>>

\* ... and an error when the context is cancelled.
PollRefused == cancelled /\ pc' = "failing" /\ UNCHANGED <<pending, users, events>>

\* GetSteeringMessages, before the first turn and after each.  The inner loop
\* goes on while tools were called or messages are waiting.
GetSteeringMessages ==
    /\ pc \in {"poll", "poll_more"}
    /\ \/ PollRefused
       \/ /\ ~cancelled
          /\ \E arrives \in BOOLEAN :
                /\ Polled(arrives)
                /\ pc' = IF pc = "poll" \/ more \/ arrives THEN "inject" ELSE "follow_up"
                /\ Publish(IF pc = "poll_more" /\ (more \/ arrives)
                           THEN <<Event("turn_start")>> ELSE <<>>)
    /\ UNCHANGED <<cancelled, context, stored, onDisk, base, answer, batch, more, turns,
                   faults, crashes>>

\* GetFollowUpMessages: a message starts another turn, without one the run ends.
GetFollowUpMessages ==
    /\ pc = "follow_up"
    /\ \/ PollRefused
       \/ /\ ~cancelled
          /\ \E arrives \in BOOLEAN :
                /\ Polled(arrives)
                /\ pc' = IF arrives THEN "inject" ELSE "idle"
                /\ Publish(<<Event(IF arrives THEN "turn_start" ELSE "agent_end")>>)
    /\ UNCHANGED <<cancelled, context, stored, onDisk, base, answer, batch, more, turns,
                   faults, crashes>>

\* Mutant of Inject: the context does not get the message.
InjectUnseen ==
    /\ pc = "inject" /\ pending # <<>>
    /\ pending' = <<>>
    /\ Say(pending[1], "inject", "failing", <<>>)
    /\ UNCHANGED <<notBySay, context, batch, users, turns>>

\* A queued message is published, stored and taken into the context.
Inject ==
    /\ pc = "inject" /\ pending # <<>>
    /\ context' = context \o pending
    /\ pending' = <<>>
    /\ Say(pending[1], "inject", "failing", <<>>)
    /\ UNCHANGED <<notBySay, batch, users, turns>>

\* streamAssistantResponse converts the context and opens the stream, which
\* may fail before its first event: no message comes of it then.
Request ==
    /\ pc = "inject" /\ pending = <<>>
    /\ pc' = "streaming"
    /\ UNCHANGED <<events, batch, notByTools>>

StreamRefused ==
    /\ pc = "streaming"
    /\ pc' = "failing"
    /\ UNCHANGED <<events, batch, notByTools>>

\* The stream ends in an answer, whose calls are executed in one of the modes.
Answer ==
    /\ pc = "streaming" /\ turns < MaxTurns
    /\ turns' = turns + 1
    /\ more' = FALSE
    /\ \E n \in 0..MaxCalls, mode \in Modes :
        /\ answer' = Assistant(turns + 1, n, FALSE)
        /\ batch' = NewBatch(mode)
        /\ context' = Append(context, Assistant(turns + 1, n, FALSE))
        /\ Say(Assistant(turns + 1, n, FALSE), IF n = 0 THEN "turn_end" ELSE "tools", "failing", <<>>)
    /\ UNCHANGED <<cancelled, base, pending, users, crashes>>

\* ... or in an error: the calls that have arrived are not executed, and the
\* run ends.
AnswerFailed ==
    /\ pc = "streaming" /\ turns < MaxTurns
    /\ turns' = turns + 1
    /\ \E n \in 0..MaxCalls :
        /\ context' = Append(context, Assistant(turns + 1, n, TRUE))
        /\ Say(Assistant(turns + 1, n, TRUE), "idle", "failing", RunEnd)
    /\ UNCHANGED <<notBySay, batch, pending, users>>
-----------------------------------------------------------------------------
(* Tool batches.                                                           *)

\* Mutant of MoreToStart: one call too many.
MoreToStartPastEnd == Len(batch.status) <= answer.calls /\ (Started # {} => ~cancelled)

\* Both loops over the calls stop after the one that sees the context cancelled.
MoreToStart == Len(batch.status) < answer.calls /\ (Started # {} => ~cancelled)

\* In a sequential batch each call is finished before the next one starts.
MayStart ==
    /\ pc = "tools" /\ MoreToStart
    /\ batch.mode = "sequential" => batch.results = Len(batch.status)

\* tool_execution_start, and prepareToolCall: the tool is unknown, its
\* arguments are invalid, a hook blocks it, or the context is cancelled; it
\* gets an error result without running.
StartBlocked ==
    /\ MayStart
    /\ batch' = [batch EXCEPT !.status = Append(@, "blocked")]
    /\ LET c == Len(batch.status) + 1
       IN  Publish(<<ToolEvent("tool_start", c), ToolEvent("tool_end", c)>>)
    /\ UNCHANGED <<pc, notByTools>>

\* Prepared: a sequential batch executes it at once, a parallel one later.
StartPrepared ==
    /\ MayStart /\ ~cancelled
    /\ batch' = [batch EXCEPT !.status =
           Append(@, IF batch.mode = "sequential" THEN "running" ELSE "prepared")]
    /\ Publish(<<ToolEvent("tool_start", Len(batch.status) + 1)>>)
    /\ UNCHANGED <<pc, notByTools>>

\* Mutant of Launch: the loop waits for every call of the answer, those it
\* has not started too.
LaunchAll ==
    /\ pc = "tools" /\ batch.mode = "parallel" /\ ~MoreToStart
    /\ Len(batch.status) = answer.calls
    /\ pc' = "collecting"
    /\ batch' = [batch EXCEPT !.status =
           [c \in Started |-> IF @[c] = "prepared" THEN "running" ELSE @[c]]]
    /\ UNCHANGED <<events, notByTools>>

\* A goroutine for each prepared call of a parallel batch.
Launch ==
    /\ pc = "tools" /\ batch.mode = "parallel" /\ ~MoreToStart
    /\ pc' = "collecting"
    /\ batch' = [batch EXCEPT !.status =
           [c \in Started |-> IF @[c] = "prepared" THEN "running" ELSE @[c]]]
    /\ UNCHANGED <<events, notByTools>>

\* Execute returns, with a result or an error: a goroutine hands it to the
\* channel, a sequential batch publishes tool_execution_end.
ToolReturns(c) ==
    /\ c \in Started /\ batch.status[c] = "running"
    /\ \/ /\ batch.mode = "parallel"
          /\ batch' = [batch EXCEPT !.status[c] = "returned", !.completed = Append(@, c)]
          /\ UNCHANGED events
       \/ /\ batch.mode = "sequential"
          /\ batch' = [batch EXCEPT !.status[c] = "ended"]
          /\ Publish(<<ToolEvent("tool_end", c)>>)
    /\ UNCHANGED <<pc, notByTools>>

\* Mutant of Collect: a cancelled batch takes the completion without a word.
CollectSilently ==
    /\ pc = "collecting" /\ batch.completed # <<>>
    /\ LET c == Head(batch.completed)
       IN  /\ batch' = [batch EXCEPT !.status[c] = "ended", !.completed = Tail(@)]
           /\ Publish(IF cancelled THEN <<>> ELSE <<ToolEvent("tool_end", c)>>)
    /\ UNCHANGED <<pc, notByTools>>

\* The loop takes the next completion: tool_execution_end in the order in
\* which the tools return.
Collect ==
    /\ pc = "collecting" /\ batch.completed # <<>>
    /\ LET c == Head(batch.completed)
       IN  /\ batch' = [batch EXCEPT !.status[c] = "ended", !.completed = Tail(@)]
           /\ Publish(<<ToolEvent("tool_end", c)>>)
    /\ UNCHANGED <<pc, notByTools>>

\* Result messages are due: in a parallel batch once the channel is closed,
\* which is when the last goroutine is done.
ResultsDue ==
    /\ batch.results < Len(batch.status)
    /\ IF batch.mode = "parallel"
       THEN pc = "collecting" /\ \A c \in Started : HasEnded(c)
       ELSE pc = "tools" /\ HasEnded(Len(batch.status))

\* Mutant of NextResult: the last call's first.
LastResult == Len(batch.status) - batch.results

\* The call whose result message is next: the calls' order, whatever the order
\* in which the tools returned.
NextResult == batch.results + 1

StoreResult ==
    /\ ResultsDue
    /\ batch' = [batch EXCEPT !.results = @ + 1]
    /\ Say(ToolResult(answer.id, NextResult), pc, "failing", <<>>)
    /\ UNCHANGED <<notBySay, context, pending, users, turns>>

\* The batch is over: its results join the context, and the loop goes on
\* unless every result asks to terminate, which one that did not run cannot.
BatchReturns ==
    /\ pc = (IF batch.mode = "parallel" THEN "collecting" ELSE "tools")
    /\ batch.mode = "sequential" => ~MoreToStart
    /\ Started # {} /\ batch.results = Len(batch.status)
    /\ pc' = "turn_end"
    /\ context' = context \o [c \in Started |-> ToolResult(answer.id, c)]
    /\ \/ more' = TRUE
       \/ more' = FALSE /\ \A c \in Started : batch.status[c] = "ended"
    /\ UNCHANGED <<cancelled, stored, onDisk, events, base, pending, answer, batch, users,
                   turns, faults, crashes>>
-----------------------------------------------------------------------------
\* turn_end, then PrepareNextTurn: BuildContext from the session, an error
\* when the context is cancelled.
TurnEnd ==
    /\ pc = "turn_end"
    /\ Publish(<<Event("turn_end")>>)
    /\ \/ cancelled /\ pc' = "failing" /\ UNCHANGED context
       \/ ~cancelled /\ pc' = "poll_more" /\ context' = stored
    /\ UNCHANGED <<cancelled, stored, onDisk, base, pending, answer, batch, more, users, turns,
                   faults, crashes>>

\* Mutant of EmitRunFailure: the turn is not ended.
EmitRunFailureUnclosed ==
    /\ pc = "failing"
    /\ Say(Failure, "idle", "idle", <<Event("agent_end")>>)
    /\ UNCHANGED <<notBySay, context, batch, pending, users, turns>>

\* emitRunFailure drives a failure message through the sink.  When the sink
\* refuses it the report stops there, before turn_end and agent_end.
EmitRunFailure ==
    /\ pc = "failing"
    /\ Say(Failure, "idle", "idle", RunEnd)
    /\ UNCHANGED <<notBySay, context, batch, pending, users, turns>>

\* Abort cancels the context of the run.
Cancel ==
    /\ pc # "idle" /\ ~cancelled
    /\ cancelled' = TRUE
    /\ UNCHANGED <<pc, context, stored, onDisk, events, base, pending, answer, batch, more,
                   users, turns, faults, crashes>>

\* The process dies and reopens the session: what it wrote is there, which is
\* nothing before the first answer.  (Torn writes are SessionStore's.)
Crash ==
    /\ crashes < MaxCrashes /\ faults = 0
    /\ crashes' = crashes + 1
    /\ stored' = IF onDisk THEN stored ELSE <<>>
    /\ base' = Len(stored')
    /\ pc' = "idle"
    /\ cancelled' = FALSE
    /\ context' = <<>>
    /\ events' = <<>>
    /\ pending' = <<>>
    /\ answer' = NoAnswer
    /\ batch' = NewBatch("none")
    /\ more' = FALSE
    /\ UNCHANGED <<onDisk, users, turns, faults>>
-----------------------------------------------------------------------------
LoopStep ==
    \/ EmitPrompt \/ GetSteeringMessages \/ GetFollowUpMessages \/ Inject \/ Request
    \/ StreamRefused \/ Answer \/ AnswerFailed
    \/ StartBlocked \/ StartPrepared \/ Launch \/ Collect \/ StoreResult \/ BatchReturns
    \/ TurnEnd \/ EmitRunFailure

Next ==
    \/ Prompt \/ Continue \/ Cancel \/ Crash
    \/ LoopStep
    \/ \E c \in Started : ToolReturns(c)

Spec == Init /\ [][Next]_vars

\* The loop's goroutine is scheduled, a stream ends and a tool returns: both
\* watch the context, and have no other bound here.
FairSpec ==
    /\ Spec
    /\ WF_vars(LoopStep)
    /\ \A c \in 1..MaxCalls : WF_vars(ToolReturns(c))
-----------------------------------------------------------------------------
(* Properties.                                                             *)

Messages ==
    [role : {"user"}, id : 1..MaxUsers]
    \cup [role : {"assistant"}, id : 0..MaxTurns, calls : 0..MaxCalls, failed : BOOLEAN]
    \cup [role : {"result"}, of : 1..MaxTurns, call : 1..MaxCalls, synthetic : {FALSE}]

\* The variables keep their types: what the loop works on, what it stores and
\* what it publishes.
TypeOK ==
    /\ pc \in {"idle", "prompts", "poll", "poll_more", "inject", "follow_up", "streaming",
               "tools", "collecting", "turn_end", "failing"}
    /\ {cancelled, onDisk, more} \subseteq BOOLEAN
    /\ \A s \in {context, stored, pending} : Range(s) \subseteq Messages
    /\ \A e \in Range(events) :
        \/ e.type \in {"agent_start", "turn_start", "turn_end", "agent_end"}
        \/ e.type = "message" /\ e.message \in Messages
        \/ e.type \in {"tool_start", "tool_end"} /\ e.call \in 1..MaxCalls
    /\ base \in 0..Len(stored)
    /\ batch.mode \in Modes \cup {"none"}
    /\ Len(batch.status) <= answer.calls
    /\ Range(batch.status) \subseteq {"blocked", "prepared", "running", "returned", "ended"}
    /\ Range(batch.completed) \subseteq Started
    /\ batch.results <= Len(batch.status)

\* s answers every call of a kept answer right behind it, once, and nothing else.
Paired(s) ==
    \A i \in DOMAIN s :
        /\ s[i].role = "assistant" =>
            \E k \in i..Len(s) :
                /\ k - i = s[i].calls
                /\ {s[j].role : j \in (i + 1)..k} \subseteq {"result"}
                /\ {s[j].of : j \in (i + 1)..k} \subseteq {s[i].id}
                /\ {s[j].call : j \in (i + 1)..k} = 1..s[i].calls
        /\ s[i].role = "result" =>
            \E j \in 1..(i - 1) :
                s[j].role = "assistant" /\ s[j].id = s[i].of /\ i - j <= s[j].calls

\* Providers refuse a request in which a tool call has no result or a result
\* no call.  None is ever sent, whatever was cancelled, failed, retried or lost
\* half-way through a batch before it.
RequestPaired == pc = "streaming" => Paired(Sent(context))

\* Each answer is given on exactly the branch the session would rebuild: the
\* loop's own list of messages and the session never drift apart, through
\* injected messages, batches and the rebuild after each turn.
ModelSeesSession == pc = "streaming" => context = stored

Count(type, c) == Cardinality({i \in DOMAIN events : events[i] = ToolEvent(type, c)})

\* No spinner is left turning: once the loop has left a batch, cancelled or
\* not, every call it announced has ended exactly as often as it has started;
\* and at no time has one ended that had not started.
ToolsAlwaysEnd ==
    \A c \in 1..MaxCalls :
        /\ Count("tool_end", c) <= Count("tool_start", c)
        /\ pc \notin {"tools", "collecting"} => Count("tool_end", c) = Count("tool_start", c)

\* On the branch the results of an answer stand directly behind it in the order
\* of its calls, though parallel tools return in any order and a batch may be
\* cut short anywhere.
ResultsFollowCalls ==
    \A i \in DOMAIN stored :
        stored[i].role = "result" =>
            /\ i > 1
            /\ IF stored[i].call = 1
               THEN /\ stored[i - 1].role = "assistant"
                    /\ stored[i - 1].id = stored[i].of
                    /\ ~stored[i - 1].failed
               ELSE stored[i - 1] = ToolResult(stored[i].of, stored[i].call - 1)

\* The events of these types, in their order.
Only(types, es) ==
    FlattenSeq([i \in DOMAIN es |-> IF es[i].type \in types THEN <<es[i]>> ELSE <<>>])

Published == Only({"message"}, events)

\* What the run has added to the branch is what its subscribers have been
\* shown, in that order; only the messages after a cancellation may be missing.
StoredIsPublished ==
    LET added == SubSeq(stored, base + 1, Len(stored))
    IN  /\ Len(added) <= Len(Published)
        /\ \A i \in DOMAIN added : Published[i].message = added[i]
        /\ ~cancelled => Len(added) = Len(Published)

\* The batch of an answer is whole, on the screen and on the branch.
BatchesComplete == ToolsAlwaysEnd /\ ResultsFollowCalls

Marks == Only({"agent_start", "agent_end", "turn_start", "turn_end"}, events)

\* agent_start, then turns, each started and ended, then agent_end.
WellFormed(marks) ==
    /\ Len(marks) >= 4 /\ Len(marks) % 2 = 0
    /\ \A i \in DOMAIN marks :
        marks[i].type = (IF i = 1 THEN "agent_start"
                         ELSE IF i = Len(marks) THEN "agent_end"
                         ELSE IF i % 2 = 0 THEN "turn_start" ELSE "turn_end")

\* A run that nobody cancels and whose writes succeed publishes a complete
\* stream, even when the stream of an answer or a whole run fails.
StreamComplete ==
    pc = "idle" /\ events # <<>> /\ ~cancelled /\ faults = 0 => WellFormed(Marks)

\* The loop, the session and the subscribers agree on what has been said.
LoopInStep == ModelSeesSession /\ StoredIsPublished /\ StreamComplete

\* "This ensures the session records the error and the UI receives a complete
\* event stream." (harness/prompt.go:957-958, of emitRunFailure.)  Said without
\* exceptions: a run that is over has published a complete stream.  A cancelled
\* context makes the sink refuse the report, so this does not hold.
FailureReported == pc = "idle" /\ events # <<>> => WellFormed(Marks)

\* A cancelled run ends: no batch waits for a tool that was never started, and
\* no poll or turn goes on for ever.
CancelEndsRun == cancelled /\ pc # "idle" ~> pc = "idle"

\* Whatever becomes of a run, the branch it found is kept: a message leaves the
\* branch only by a retry, which takes away one failed answer, or by a crash
\* before anything was on disk.
BranchOnlyGrows ==
    [][\/ IsPrefix(stored, stored')
       \/ IsFailed(stored[Len(stored)]) /\ stored' = Front(stored)
       \/ crashes' # crashes /\ ~onDisk /\ stored' = <<>>]_vars
=============================================================================
