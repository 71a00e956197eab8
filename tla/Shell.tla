--------------------------------- MODULE Shell ---------------------------------
(* One command of the bash tool: Env.Exec starts a shell in a process group of   *)
(* its own, two goroutines drain its pipes, a deadline, an abort or a failing    *)
(* callback kills the group (execenv/local/env.go, process_unix.go), and         *)
(* executeBash shows what was captured at most once per interval, from the       *)
(* readers and from a timer (tool/builtin/bash.go).  Output is counted in chunks.*)
EXTENDS Naturals, FiniteSets, Folds

CONSTANTS
    Pipes,          \* stdout and stderr
    Children,       \* processes that the shell may leave in the background
    Timers,         \* time.AfterFunc objects
    MaxChunks,      \* bound: chunks written
    MaxShellFaults, \* bound: reads and callbacks that fail
    NoTimer

\* readOutput runs for the standard output and the standard error.
ASSUME ShellAssumption ==
    /\ NoTimer \notin Timers /\ "shell" \notin Children
    /\ \E out, err \in Pipes : out # err /\ Pipes = {out, err}
    /\ MaxChunks \in Nat

VARIABLES
    shPc,        \* where Exec and executeBash are
    shWatched,   \* has the call an onUpdate, or a timeout
    shAlive,     \* processes
    shEscaped,   \* those that left the process group
    shHolding,   \* those that hold the pipes open
    shExit,      \* how the shell ended
    shUnread,    \* chunks in each pipe
    shWritten,   \* chunks ever written
    shReader,    \* the two goroutines of readOutput
    shCaptured,  \* chunks in the sink
    shAborted, shTimedOut, shCancelled,  \* the three contexts, outermost first
    shKilled,    \* has cmd.Cancel run
    shCallbackErr, shReadErr,
    shDirty,     \* updateDirty
    shTimer,     \* updateTimer
    shTimers,    \* what each timer object is doing
    shOver,      \* updatesDone
    shRecent,    \* was an update sent within the interval
    shShown,     \* chunks in the latest update
    shUpdates,   \* updates sent after which the tool has returned its result
    shOutcome,
    shFaults

processVars == <<shAlive, shEscaped, shHolding, shExit, shWritten>>
contextVars == <<shAborted, shTimedOut, shCancelled, shKilled>>
errorVars == <<shCallbackErr, shReadErr, shFaults>>
updateVars == <<shDirty, shTimer, shTimers, shOver, shRecent, shShown, shUpdates>>
shellVars == <<shPc, shWatched, processVars, shUnread, shReader, shCaptured, contextVars,
               errorVars, updateVars, shOutcome>>

ShellProcesses == Children \cup {"shell"}
ShellOutcomes == {"none", "ok", "exit code", "aborted", "timeout", "callback", "unknown",
                  "spawn"}

ShellInit ==
    /\ shPc = "start"
    /\ shWatched \in [update : BOOLEAN, timeout : BOOLEAN]
    /\ shAlive = {} /\ shEscaped = {} /\ shHolding = {} /\ shExit = "none"
    /\ shUnread = [p \in Pipes |-> 0] /\ shWritten = 0
    /\ shReader = [p \in Pipes |-> "reading"]
    /\ shCaptured = 0
    /\ shAborted = FALSE /\ shTimedOut = FALSE /\ shCancelled = FALSE /\ shKilled = FALSE
    /\ shCallbackErr = FALSE /\ shReadErr = FALSE /\ shFaults = 0
    /\ shDirty = FALSE /\ shTimer = NoTimer /\ shOver = FALSE /\ shRecent = FALSE
    /\ shTimers = [t \in Timers |-> "free"]
    /\ shShown = 0 /\ shUpdates = 0
    /\ shOutcome = "none"

-------------------------------------------------------------------------------
\* The processes of the command: the environment.

\* A process writes to a pipe.
WriteOutput(p) ==
    /\ shHolding # {} /\ shWritten < MaxChunks
    /\ shWritten' = shWritten + 1
    /\ shUnread' = [shUnread EXCEPT ![p] = @ + 1]
    /\ UNCHANGED <<shPc, shWatched, shAlive, shEscaped, shHolding, shExit, shReader,
                   shCaptured, contextVars, errorVars, updateVars, shOutcome>>

\* The shell leaves a process in the background, in its group or in a session of
\* its own, with its output redirected or not.
Spawn(c) ==
    /\ "shell" \in shAlive /\ c \notin shAlive \cup shEscaped
    /\ shAlive' = shAlive \cup {c}
    /\ \E gone \in SUBSET {c}, holding \in SUBSET {c} :
          /\ shEscaped' = shEscaped \cup gone
          /\ shHolding' = shHolding \cup holding
    /\ UNCHANGED <<shPc, shWatched, shExit, shWritten, shUnread, shReader, shCaptured,
                   contextVars, errorVars, updateVars, shOutcome>>

\* A process ends by itself.
ProcessEnds(c) ==
    /\ c \in shAlive
    /\ shAlive' = shAlive \ {c}
    /\ shHolding' = shHolding \ {c}
    /\ IF c = "shell" THEN shExit' \in {"zero", "not zero"} ELSE UNCHANGED shExit
    /\ UNCHANGED <<shPc, shWatched, shEscaped, shWritten, shUnread, shReader, shCaptured,
                   contextVars, errorVars, updateVars, shOutcome>>

\* The run is aborted, or the timeout of the command passes.
AbortCommand ==
    /\ ~shAborted /\ shPc # "returned"
    /\ shAborted' = TRUE
    /\ UNCHANGED <<shPc, shWatched, processVars, shUnread, shReader, shCaptured, shTimedOut,
                   shCancelled, shKilled, errorVars, updateVars, shOutcome>>

CommandTimesOut ==
    /\ shWatched.timeout /\ shPc \in {"draining", "waiting"} /\ ~shTimedOut
    \* the deadline of a context that is cancelled already changes nothing
    /\ ~shAborted
    /\ shTimedOut' = TRUE
    /\ UNCHANGED <<shPc, shWatched, processVars, shUnread, shReader, shCaptured, shAborted,
                   shCancelled, shKilled, errorVars, updateVars, shOutcome>>

ContextDone == shAborted \/ shTimedOut \/ shCancelled

\* cmd.Cancel, called by exec.Cmd's own goroutine: the whole group is killed.
\* Mutant of GroupOf: only the shell is.
GroupOfShell(alive) == alive \cap {"shell"}
GroupOf(alive) == alive \ shEscaped

KillGroup ==
    /\ shPc \in {"draining", "waiting"} /\ ContextDone /\ ~shKilled
    /\ shKilled' = TRUE
    /\ shAlive' = shAlive \ GroupOf(shAlive)
    /\ shHolding' = shHolding \ GroupOf(shAlive)
    /\ shExit' = IF "shell" \in shAlive THEN "killed" ELSE shExit
    /\ UNCHANGED <<shPc, shWatched, shEscaped, shWritten, shUnread, shReader, shCaptured,
                   shAborted, shTimedOut, shCancelled, errorVars, updateVars, shOutcome>>

-------------------------------------------------------------------------------
\* Exec.

\* The checks before the start, and cmd.Start.
StartCommand ==
    /\ shPc = "start"
    /\ \/ /\ shAborted
          /\ shOutcome' = "aborted" /\ shPc' = "executed"
          /\ UNCHANGED <<shAlive, shHolding, shFaults>>
       \/ /\ ~shAborted /\ shFaults < MaxShellFaults
          /\ shFaults' = shFaults + 1
          /\ shOutcome' = "spawn" /\ shPc' = "executed"
          /\ UNCHANGED <<shAlive, shHolding>>
       \/ /\ ~shAborted
          /\ shAlive' = {"shell"} /\ shHolding' = {"shell"}
          /\ shPc' = "draining"
          /\ UNCHANGED <<shOutcome, shFaults>>
    /\ UNCHANGED <<shWatched, shEscaped, shExit, shWritten, shUnread, shReader, shCaptured,
                   contextVars, shCallbackErr, shReadErr, updateVars>>

\* readOutput reads what there is and gives it to the sink (emitOutputText).
ReadChunk(p) ==
    /\ shPc = "draining" /\ shReader[p] = "reading" /\ shUnread[p] > 0
    /\ shCaptured' = shCaptured + shUnread[p]
    /\ shUnread' = [shUnread EXCEPT ![p] = 0]
    /\ shReader' = [shReader EXCEPT ![p] = "calling"]
    /\ UNCHANGED <<shPc, shWatched, processVars, contextVars, errorVars, updateVars,
                   shOutcome>>

\* emitUpdateLocked, for a caller who holds updateMu.
SendUpdate ==
    /\ shDirty' = FALSE /\ shRecent' = TRUE
    /\ shShown' = shCaptured
    /\ shUpdates' = IF shPc = "returned" THEN shUpdates + 1 ELSE shUpdates

\* timer.Stop() for a timer that updateTimer refers to; one that has fired stays.
Stopped(t) == IF t # NoTimer /\ shTimers[t] = "armed" THEN [shTimers EXCEPT ![t] = "free"]
              ELSE shTimers

\* The callback is scheduleUpdate: an update at once, or a timer for one.
ScheduleUpdate ==
    IF ~shWatched.update \/ shOver THEN UNCHANGED updateVars
    ELSE IF ~shRecent
      THEN /\ SendUpdate
           /\ shTimers' = Stopped(shTimer) /\ shTimer' = NoTimer
           /\ UNCHANGED shOver
    ELSE /\ shDirty' = TRUE
         /\ IF shTimer # NoTimer THEN UNCHANGED <<shTimer, shTimers>>
            ELSE \E t \in Timers :
                    /\ shTimers[t] = "free"
                    /\ shTimer' = t
                    /\ shTimers' = [shTimers EXCEPT ![t] = "armed"]
         /\ UNCHANGED <<shOver, shRecent, shShown, shUpdates>>

CallBack(p) ==
    /\ shReader[p] = "calling"
    /\ \/ /\ ScheduleUpdate
          /\ shReader' = [shReader EXCEPT ![p] = "reading"]
          /\ UNCHANGED <<shCancelled, shCallbackErr, shFaults>>
       \* a panic is caught: the run is cancelled, the pipe read no further
       \/ /\ shFaults < MaxShellFaults /\ shWatched.update
          /\ shFaults' = shFaults + 1
          /\ shCallbackErr' = TRUE /\ shCancelled' = TRUE
          /\ shReader' = [shReader EXCEPT ![p] = "done"]
          /\ UNCHANGED updateVars
    /\ UNCHANGED <<shPc, shWatched, processVars, shUnread, shCaptured, shAborted,
                   shTimedOut, shKilled, shReadErr, shOutcome>>

\* The end of the pipe: nobody holds it open and it is empty.
\* Mutant of PipeEnded: the shell's end is taken for the pipe's.
PipeEndedWithShell(p) == "shell" \notin shAlive
PipeEnded(p) == shHolding = {} /\ shUnread[p] = 0

PipeReaderEnds(p) ==
    /\ shPc = "draining" /\ shReader[p] = "reading"
    /\ \/ PipeEnded(p) /\ UNCHANGED <<shReadErr, shFaults>>
       \/ /\ shFaults < MaxShellFaults
          /\ shFaults' = shFaults + 1
          /\ shReadErr' = TRUE
    /\ shReader' = [shReader EXCEPT ![p] = "done"]
    /\ UNCHANGED <<shPc, shWatched, processVars, shUnread, shCaptured, contextVars,
                   shCallbackErr, updateVars, shOutcome>>

\* wg.Wait.
DrainPipes ==
    /\ shPc = "draining"
    /\ \A p \in Pipes : shReader[p] = "done"
    /\ shPc' = "waiting"
    /\ UNCHANGED <<shWatched, processVars, shUnread, shReader, shCaptured, contextVars,
                   errorVars, updateVars, shOutcome>>

\* cmd.Wait, whose error is the exit or, for a shell that exited with zero, that
\* of the context if cmd.Cancel has run or runs now; then the order of errors.
Wait ==
    /\ shPc = "waiting" /\ "shell" \notin shAlive
    /\ \E waitErr \in BOOLEAN :
          /\ shExit # "zero" \/ shKilled => waitErr
          /\ ~ContextDone /\ shExit = "zero" => ~waitErr
          /\ shOutcome' =
                IF shCallbackErr THEN "callback"
                ELSE IF waitErr
                  THEN IF shAborted THEN "aborted"
                       ELSE IF shTimedOut THEN "timeout"
                       ELSE "exit code"
                ELSE IF shReadErr THEN "unknown" ELSE "ok"
    /\ shPc' = "executed"
    /\ UNCHANGED <<shWatched, processVars, shUnread, shReader, shCaptured, contextVars,
                   errorVars, updateVars>>

-------------------------------------------------------------------------------
\* The updates of executeBash.

\* The interval since the last update passes.
IntervalPasses ==
    /\ shRecent
    /\ shRecent' = FALSE
    /\ UNCHANGED <<shPc, shWatched, processVars, shUnread, shReader, shCaptured,
                   contextVars, errorVars, shDirty, shTimer, shTimers, shOver, shShown,
                   shUpdates, shOutcome>>

\* A timer fires: its function waits for the lock from now on.
TimerFires(t) ==
    /\ shTimers[t] = "armed"
    /\ shTimers' = [shTimers EXCEPT ![t] = "fired"]
    /\ UNCHANGED <<shPc, shWatched, processVars, shUnread, shReader, shCaptured,
                   contextVars, errorVars, shDirty, shTimer, shOver, shRecent, shShown,
                   shUpdates, shOutcome>>

TimerRuns(t) ==
    /\ shTimers[t] = "fired"
    /\ shTimers' = [shTimers EXCEPT ![t] = "free"]
    /\ shTimer' = NoTimer
    /\ IF shOver \/ ~shDirty THEN UNCHANGED <<shDirty, shRecent, shShown, shUpdates>>
       ELSE SendUpdate
    /\ UNCHANGED <<shPc, shWatched, processVars, shUnread, shReader, shCaptured,
                   contextVars, errorVars, shOver, shOutcome>>

\* stopUpdateTimer: no more updates, and (updateTimerWG) no timer left running.
StopUpdates ==
    /\ shPc = "executed"
    /\ shOver' = TRUE
    /\ shTimers' = Stopped(shTimer) /\ shTimer' = NoTimer
    /\ shPc' = "stopping"
    /\ UNCHANGED <<shWatched, processVars, shUnread, shReader, shCaptured, contextVars,
                   errorVars, shDirty, shRecent, shShown, shUpdates, shOutcome>>

\* Mutant of TimersIdle: only the timer that updateTimer refers to is waited for.
TimersUnreferenced == shTimer = NoTimer
TimersIdle == \A t \in Timers : shTimers[t] = "free"

ReturnResult ==
    /\ shPc = "stopping" /\ TimersIdle
    /\ shPc' = "returned"
    /\ UNCHANGED <<shWatched, processVars, shUnread, shReader, shCaptured, contextVars,
                   errorVars, updateVars, shOutcome>>

ShellNext ==
    \/ \E p \in Pipes : WriteOutput(p) \/ ReadChunk(p) \/ CallBack(p) \/ PipeReaderEnds(p)
    \/ \E c \in Children : Spawn(c)
    \/ \E c \in ShellProcesses : ProcessEnds(c)
    \/ AbortCommand \/ CommandTimesOut \/ KillGroup
    \/ StartCommand \/ DrainPipes \/ Wait
    \/ IntervalPasses
    \/ \E t \in Timers : TimerFires(t) \/ TimerRuns(t)
    \/ StopUpdates \/ ReturnResult

\* The goroutines of the call are scheduled, and time passes.
PipeStep(p) == ReadChunk(p) \/ CallBack(p) \/ PipeReaderEnds(p)
ExecuteStep == StartCommand \/ DrainPipes \/ Wait \/ StopUpdates \/ ReturnResult
TimerStep(t) == TimerFires(t) \/ TimerRuns(t)

ShellFairness ==
    /\ \A p \in Pipes : WF_shellVars(PipeStep(p))
    /\ WF_shellVars(KillGroup)
    /\ WF_shellVars(ExecuteStep)
    /\ \A t \in Timers : WF_shellVars(TimerStep(t))

-------------------------------------------------------------------------------
\* Properties.

\* Types of the state of a command.
ShellTypeOK ==
    /\ shPc \in {"start", "draining", "waiting", "executed", "stopping", "returned"}
    /\ shAlive \subseteq ShellProcesses /\ shHolding \subseteq shAlive
    /\ shEscaped \subseteq Children
    /\ shExit \in {"none", "zero", "not zero", "killed"}
    /\ shUnread \in [Pipes -> 0..MaxChunks] /\ shWritten \in 0..MaxChunks
    /\ shReader \in [Pipes -> {"reading", "calling", "done"}]
    /\ shTimers \in [Timers -> {"free", "armed", "fired"}] /\ shTimer \in Timers \cup {NoTimer}
    /\ shShown <= shCaptured
    /\ shOutcome \in ShellOutcomes

\* Once executeBash has returned its result no update of the call is sent any
\* more, whichever timer was armed, replaced or about to run; and until a reader
\* or a callback failed, the result has everything that was written, also when
\* the command was killed.
ResultIsFinal ==
    /\ shUpdates = 0
    /\ shPc = "returned" =>
          /\ \A t \in Timers : shTimers[t] = "free"
          /\ ~shCallbackErr /\ ~shReadErr => shCaptured = shWritten

\* A command that is aborted or times out ends, with its background processes,
\* unless one of them left the process group and holds the output open: then
\* Exec waits for it.
CommandEnds ==
    shAborted \/ shTimedOut ~> shPc = "returned" \/ shHolding \cap shEscaped # {}
===============================================================================
