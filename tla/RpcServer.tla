------------------------------- MODULE RpcServer -------------------------------
(* The JSON-line server of an orchestrator (mode/rpc/server.go, rpc.go): a       *)
(* goroutine for every line of stdin, one guarded writer on stdout for their     *)
(* responses and for the events of the one run there may be. The run is as       *)
(* RunControl and PromptRun have it, cut down to what its client can see and to   *)
(* one answer for each prompt.                                                   *)
EXTENDS Integers, Sequences, FiniteSets

CONSTANTS
    MaxPieces,      \* message_update events (bound)
    PipeRoom        \* lines the pipe of stdout holds

VARIABLES
    stdin,      \* lines the client has written: commands
    hungUp,     \* the client has closed stdin
    serving,    \* "serving", "closing" or "gone"
    jobs,       \* the goroutines of s.wg: one per line, a second for a prompt
    run,        \* the orchestrator's run
    stdout      \* lines the client has not read

serverVars == <<stdin, hungUp, serving, jobs, run, stdout>>

Command(id, op) == [id |-> id, op |-> op]
\* Whether it succeeded matters to the reader of a prompt's response alone.
Response(id, op, success) == [type |-> "response", id |-> id, op |-> op, success |-> success]
\* An event names no request: of is the prompt it belongs to, which the line lacks.
Event(type, of) == [type |-> type, id |-> of, op |-> "none", success |-> TRUE]

\* The prompt the run answers, the pieces so far of this and earlier ones.
RunOf(id) == [run EXCEPT !.of = id, !.cancelled = FALSE]
NoRun == RunOf(0)
Idle == run.of = 0

Job(command, step) == [id |-> command.id, op |-> command.op, step |-> step]
Moves(j, step) == jobs' = (jobs \ {j}) \cup {[j EXCEPT !.step = step]}
Ends(j) == jobs' = jobs \ {j}
\* WriteJSON: a whole line at a time, once the pipe has room
Writes(line) == Len(stdout) < PipeRoom /\ stdout' = Append(stdout, line)

ServerInit ==
    /\ stdin = <<>> /\ hungUp = FALSE /\ serving = "serving"
    /\ jobs = {} /\ run = [of |-> 0, pieces |-> 0, cancelled |-> FALSE] /\ stdout = <<>>

-------------------------------------------------------------------------------
(* readCommands and the end of serve                                            *)

\* The next line gets a goroutine, and nobody waits for it.
ReadCommand ==
    /\ serving = "serving" /\ stdin # <<>>
    /\ stdin' = Tail(stdin)
    /\ jobs' = jobs \cup {Job(Head(stdin), "start")}
    /\ UNCHANGED <<hungUp, serving, run, stdout>>

ReadEnd ==
    /\ serving = "serving" /\ stdin = <<>> /\ hungUp
    /\ serving' = "closing"
    /\ UNCHANGED <<stdin, hungUp, jobs, run, stdout>>

\* Mutant of MayLeave: the goroutines of prompts are not waited for.
MayLeaveEarly == \A j \in jobs : j.op = "prompt"
\* s.wg.Wait
MayLeave == jobs = {}

Leave ==
    /\ serving = "closing" /\ MayLeave
    /\ serving' = "gone" /\ jobs' = {} /\ run' = NoRun
    /\ UNCHANGED <<stdin, hungUp, stdout>>

-------------------------------------------------------------------------------
(* dispatch and the handlers                                                    *)

\* Commands that read or set something and answer at once: get_*, set_*, cycle_*,
\* steer, follow_up, abort_retry, reload, the session's, dispatch_command.
Answer(j) ==
    /\ j.op = "quick" /\ j.step = "start"
    /\ Writes(Response(j.id, j.op, TRUE))
    /\ Ends(j)
    /\ UNCHANGED <<stdin, hungUp, serving, run>>

\* handlePrompt up to beginRun: a busy orchestrator refuses the prompt.
PromptBegins(j) ==
    /\ j.op = "prompt" /\ j.step = "start"
    /\ IF Idle
       THEN run' = RunOf(j.id) /\ Moves(j, "begun") /\ UNCHANGED stdout
       ELSE Writes(Response(j.id, j.op, FALSE)) /\ Ends(j) /\ UNCHANGED run
    /\ UNCHANGED <<stdin, hungUp, serving>>

\* The preflight callback
PromptAccepted(j) ==
    /\ j.op = "prompt" /\ j.step = "begun"
    /\ Writes(Response(j.id, j.op, TRUE))
    /\ Moves(j, "running")
    /\ UNCHANGED <<stdin, hungUp, serving, run>>

\* The recovery before the prompt fails: the run is over before the response.
PromptRefused(j) ==
    /\ j.op = "prompt" /\ j.step = "begun"
    /\ run' = NoRun
    /\ Moves(j, "refused")
    /\ UNCHANGED <<stdin, hungUp, serving, stdout>>

RefusedSettles(j) ==
    /\ j.op = "prompt" /\ j.step = "refused"
    /\ Writes(Event("settled", j.id))
    /\ Moves(j, "failed")
    /\ UNCHANGED <<stdin, hungUp, serving, run>>

PromptFails(j) ==
    /\ j.op = "prompt" /\ j.step = "failed"
    /\ Writes(Response(j.id, j.op, FALSE))
    /\ Ends(j)
    /\ UNCHANGED <<stdin, hungUp, serving, run>>

\* The events of the run that a client tells apart; a cancelled one has no agent_end.
RunUpdates(j) ==
    /\ j.op = "prompt" /\ j.step = "running"
    /\ ~run.cancelled /\ run.pieces < MaxPieces
    /\ run' = [run EXCEPT !.pieces = @ + 1]
    /\ Writes(Event("message_update", j.id))
    /\ UNCHANGED <<stdin, hungUp, serving, jobs>>

AgentEnds(j) ==
    /\ j.op = "prompt" /\ j.step = "running" /\ ~run.cancelled
    /\ Writes(Event("agent_end", j.id))
    /\ Moves(j, "answered")
    /\ UNCHANGED <<stdin, hungUp, serving, run>>

\* finishRun comes before settled: another prompt may begin in between.
RunFinishes(j) ==
    /\ j.op = "prompt"
    /\ j.step = "answered" \/ (j.step = "running" /\ run.cancelled)
    /\ run' = NoRun
    /\ Moves(j, "finished")
    /\ UNCHANGED <<stdin, hungUp, serving, stdout>>

Settles(j) ==
    /\ j.op = "prompt" /\ j.step = "finished"
    /\ Writes(Event("settled", j.id))
    /\ Ends(j)
    /\ UNCHANGED <<stdin, hungUp, serving, run>>

\* Orchestrator.Abort on a run, if there is one
Cancelled == IF Idle THEN run ELSE [run EXCEPT !.cancelled = TRUE]

\* handleAbort and handleCompact: Abort, and WaitForIdle in the next step
AbortBegins(j) ==
    /\ j.op \in {"abort", "compact"} /\ j.step = "start"
    /\ run' = Cancelled
    /\ Moves(j, "waiting")
    /\ UNCHANGED <<stdin, hungUp, serving, stdout>>

AbortReturns(j) ==
    /\ j.op = "abort" /\ j.step = "waiting" /\ Idle
    /\ Writes(Response(j.id, j.op, TRUE))
    /\ Ends(j)
    /\ UNCHANGED <<stdin, hungUp, serving, run>>

IdleSeen(j) ==
    /\ j.op = "compact" /\ j.step = "waiting" /\ Idle
    /\ Moves(j, "idle")
    /\ UNCHANGED <<stdin, hungUp, serving, run, stdout>>

CompactBegins(j) ==
    /\ j.op = "compact" /\ j.step = "idle"
    /\ IF Idle
       THEN run' = RunOf(j.id) /\ Moves(j, "compacting") /\ UNCHANGED stdout
       ELSE Writes(Response(j.id, j.op, FALSE)) /\ Ends(j) /\ UNCHANGED run
    /\ UNCHANGED <<stdin, hungUp, serving>>

CompactReturns(j) ==
    /\ j.op = "compact" /\ j.step = "compacting"
    /\ run' = NoRun
    /\ Writes(Response(j.id, j.op, TRUE))
    /\ Ends(j)
    /\ UNCHANGED <<stdin, hungUp, serving>>

JobStep(j) ==
    \/ Answer(j)
    \/ PromptBegins(j) \/ PromptAccepted(j) \/ PromptRefused(j) \/ RefusedSettles(j)
    \/ PromptFails(j) \/ RunUpdates(j) \/ AgentEnds(j) \/ RunFinishes(j) \/ Settles(j)
    \/ AbortBegins(j) \/ AbortReturns(j)
    \/ IdleSeen(j) \/ CompactBegins(j) \/ CompactReturns(j)

ServerStep == ReadCommand \/ ReadEnd \/ Leave \/ \E j \in jobs : JobStep(j)

===============================================================================
