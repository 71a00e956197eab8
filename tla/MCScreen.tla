------------------------------- MODULE MCScreen -------------------------------
(* Instances for TLC of what the user waits for and looks at: a command, what is  *)
(* kept of its output, the loop that shows a run, the detector that stops one, and *)
(* the orchestrator's runs with their aborts. They share no state, so a behaviour *)
(* of this module is one of a single part.                                        *)
EXTENDS ShellCapture, Shell, Viewer, StuckDetector, RunControl

CONSTANTS
    t1, t2,             \* update timers
    a, b, d, m1, off    \* callers, a model and a level

TwoPipes == {"stdout", "stderr"}
OneChild == {"child"}
TwoTimers == {t1, t2}
ThreeClients == {a, b, d}
NoSetter == {}
OneModel == {m1}
OneLevel == {off}
NoneAll == {}

EventsSoFar == MapThenSumSet(LAMBDA r : loops[r].events, Runs)

VARIABLE part

screenVars == <<captureVars, shellVars, viewerVars, detectorVars, vars, part>>

ScreenInit ==
    /\ part \in {"capture", "shell", "viewer", "detector", "abort"}
    /\ CaptureInit /\ ShellInit /\ ViewerInit /\ DetectorInit /\ Init
    \* where a component does not move, one of its beginnings is enough
    /\ part # "detector" => watching = "calls"
    /\ part # "shell" => shWatched = [update |-> FALSE, timeout |-> FALSE]

ScreenNext ==
    /\ UNCHANGED part
    /\ \/ /\ part = "capture" /\ CaptureNext
          /\ UNCHANGED <<shellVars, viewerVars, detectorVars, vars>>
       \/ /\ part = "shell" /\ ShellNext
          /\ shWritten' + shFaults' <= 2     \* bound: of chunks and faults
          /\ UNCHANGED <<captureVars, viewerVars, detectorVars, vars>>
       \/ /\ part = "viewer" /\ ViewerNext
          /\ EventsSoFar' + resizes' <= 2    \* bound: of all runs' events and listeners
          /\ UNCHANGED <<captureVars, shellVars, detectorVars, vars>>
       \/ /\ part = "detector" /\ DetectorNext
          /\ UNCHANGED <<captureVars, shellVars, viewerVars, vars>>
       \/ /\ part = "abort" /\ Next
          /\ UNCHANGED <<captureVars, shellVars, viewerVars, detectorVars>>

\* ShellFairness and the Fairness of RunControl, each where its part moves; the
\* viewer does nothing unless a run is begun, so its own asks nothing of the others.
ScreenFairness ==
    /\ ViewerFairness
    /\ \A p \in Pipes : WF_shellVars(part = "shell" /\ PipeStep(p))
    /\ WF_shellVars(part = "shell" /\ KillGroup)
    /\ WF_shellVars(part = "shell" /\ ExecuteStep)
    /\ \A t \in Timers : WF_shellVars(part = "shell" /\ TimerStep(t))
    /\ \A c \in Clients :
        /\ WF_vars(part = "abort" /\ RunStep(c))
        /\ WF_vars(part = "abort" /\ Cancelled(c) /\ (TurnReturns(c) \/ CompactReturns(c)))
        /\ WF_vars(part = "abort" /\ (Cancel(c) \/ Check(c) \/ Wake(c)))

ScreenSpec == ScreenInit /\ [][ScreenNext]_screenVars /\ ScreenFairness

\* Every variable of every part has its type.
ScreenTypeOK ==
    /\ part = "shell" => ShellTypeOK
    /\ part = "viewer" => ViewerTypeOK /\ ViewerListens

\* What the shell tool returns is final, and true to what the command has written.
ShellTellsTruth == CaptureTrue /\ ResultIsFinal

\* What the user waits for ends: a command that is aborted or out of time, a run that
\* is shown, a run that is aborted and whoever waits for that.
WaitingEnds == CommandEnds /\ RunningEnds /\ AbortHeard
===============================================================================
