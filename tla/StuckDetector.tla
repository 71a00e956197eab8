----------------------------- MODULE StuckDetector -----------------------------
(* The detector that stops a run which goes round in circles                     *)
(* (cmd/tui/agent_loop.go, stuckDetector): tool calls by their fingerprints, the  *)
(* outcomes of tools by their names. The two keep separate state.                 *)
EXTENDS Integers, Sequences, FiniteSets

CONSTANTS
    Prints,         \* fingerprints of calls
    Tools,          \* names of tools
    MaxRepeat,      \* maxRepeatToolCalls, and maxToolErrorStreak
    Window,         \* recentWindowSize
    MaxCalls,       \* calls observed (bound)
    MaxOutcomes     \* outcomes observed (bound)

\* The window holds three rounds of a cycle of three calls, the longest that is looked
\* for, and no fingerprint or name is the empty one the detector begins with.
ASSUME DetectorAssumption ==
    /\ MaxRepeat \in Nat /\ MaxRepeat >= 2
    /\ Window \in Nat /\ Window >= 9
    /\ "none" \notin Prints \cup Tools

VARIABLES
    detector,   \* the stuckDetector
    seen,       \* ghost: what it has observed
    stuck,      \* what stopped the run: "no", "calls" or "failures"
    watching    \* which of the two histories this behaviour is about

detectorVars == <<detector, seen, stuck, watching>>

NoPrint == "none"
Outcome(tool, failed) == [tool |-> tool, failed |-> failed]

DetectorInit ==
    /\ detector = [recent |-> <<>>, lastPrint |-> NoPrint, streak |-> 0,
                   lastErrTool |-> NoPrint, errStreak |-> 0]
    /\ seen = <<>> /\ stuck = "no"
    /\ watching \in {"calls", "results"}

LastOf(seq, n) == SubSeq(seq, Len(seq) - n + 1, Len(seq))

\* detectCycle for a cycle of n: three rounds at the end, no two neighbours equal
CycleOf(recent, n) ==
    /\ Len(recent) >= 3 * n
    /\ LET tail == LastOf(recent, 3 * n) IN
       /\ \A i \in 2..n : tail[i] # tail[i - 1]
       /\ \A i \in n + 1 .. 3 * n : tail[i] = tail[i - n]

Cycles(recent) == Len(recent) >= 6 /\ \E n \in 2..3 : CycleOf(recent, n)

Recent(fp) == LET all == Append(detector.recent, fp)
              IN  IF Len(all) > Window THEN Tail(all) ELSE all

\* Mutant of Streak: an identical call counts whatever came between.
StreakForgiving(fp) == IF fp = detector.lastPrint \/ detector.streak > 1 THEN detector.streak + 1 ELSE 1
Streak(fp) == IF fp = detector.lastPrint THEN detector.streak + 1 ELSE 1

Observe(fp) ==
    /\ stuck = "no" /\ Len(seen) < MaxCalls
    /\ detector' = [detector EXCEPT !.recent = Recent(fp), !.streak = Streak(fp), !.lastPrint = fp]
    /\ seen' = Append(seen, fp)
    /\ stuck' = IF Streak(fp) >= MaxRepeat \/ Cycles(Recent(fp)) THEN "calls" ELSE "no"

\* Mutant of ErrStreak: the failure of another tool goes on with the count.
ErrStreakShared(outcome) == IF outcome.failed THEN detector.errStreak + 1 ELSE 1
\* A success starts at one too, and remembers its tool.
ErrStreak(outcome) ==
    IF outcome.failed /\ outcome.tool = detector.lastErrTool THEN detector.errStreak + 1 ELSE 1

ObserveError(outcome) ==
    /\ stuck = "no" /\ Len(seen) < MaxOutcomes
    /\ detector' = [detector EXCEPT !.errStreak = ErrStreak(outcome), !.lastErrTool = outcome.tool]
    /\ seen' = Append(seen, outcome)
    /\ stuck' = IF ErrStreak(outcome) >= MaxRepeat THEN "failures" ELSE "no"

\* observe and observeError read and write different fields, so that each history
\* can be followed without the other.
DetectorNext ==
    /\ \/ watching = "calls" /\ \E fp \in Prints : Observe(fp)
       \/ watching = "results" /\ \E tool \in Tools, failed \in BOOLEAN : ObserveError(Outcome(tool, failed))
    /\ UNCHANGED watching

-------------------------------------------------------------------------------
(* Properties                                                                   *)

Uniform(seq, n) == Len(seq) >= n /\ \A i, j \in DOMAIN LastOf(seq, n) : LastOf(seq, n)[i] = LastOf(seq, n)[j]
Round(seq, n) == /\ Len(seq) >= 3 * n
                 /\ LET l == Len(seq) IN
                    /\ \A k \in 0 .. 2 * n - 1 : seq[l - k] = seq[l - k - n]
                    /\ \A k \in 1 .. n - 1 : seq[l - k] # seq[l - k + 1]
FailedInARow(n) == Uniform(seen, n) /\ seen[Len(seen)].failed

\* agent_loop.go:102-151: a run is stopped over its calls exactly when the last ones
\* are the same call MaxRepeat times or a round of two or three calls thrice, which
\* a wrong window, streak or index would miss or see too early.
StopsOnRepeats ==
    stuck # "failures" =>
        ((stuck = "calls") <=> \/ Uniform(seen, MaxRepeat)
                               \/ \E n \in 2..3 : Round(seen, n))

\* agent_loop.go:132-147: MaxRepeat failures of one tool in a row stop the run, and
\* nothing does that is not at least MaxRepeat - 1 of them (after a success of the
\* tool, which counts as one, that many are enough).
StopsOnFailures ==
    /\ stuck = "failures" => FailedInARow(MaxRepeat - 1)
    /\ FailedInARow(MaxRepeat) => stuck = "failures"

\* agent_loop.go:84-192: a run is stopped when it is stuck, and only then.
StopsWhenStuck ==
    /\ watching = "calls" => StopsOnRepeats
    /\ watching = "results" => StopsOnFailures
===============================================================================
