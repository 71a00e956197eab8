------------------------------ MODULE RunControl ------------------------------
(***************************************************************************)
(* The run lifecycle of internal/orchestrator: who may run, what callers   *)
(* queue meanwhile, and how a run is aborted and waited for.               *)
(*                                                                         *)
(* Every caller is a goroutine (the RPC server starts one per line).  The  *)
(* orchestrator's fields are guarded by o.mu, but an operation takes the   *)
(* lock several times: each action below is one critical section, or the   *)
(* work between two.  What the model answers is left to the environment.   *)
(*                                                                         *)
(* A run's context and its idle channel are named by the run's number: the *)
(* channel is closed once the run is over.  (The close follows the unlock  *)
(* of finishRun; a waiter takes a step of its own to see it.)              *)
(***************************************************************************)
EXTENDS Naturals, Sequences

CONSTANTS
    Clients,      \* calling goroutines
    Setters,      \* the clients that call SetModel and SetThinkingLevel
    Models,       \* models to choose from
    Levels,       \* thinking levels to choose from
    Model0,       \* the model and the level at the start
    Level0,
    AllAtOnce,    \* queues in mode "all"; the others are "one-at-a-time"
    MaxRuns,      \* bound: runs begun
    MaxMsgs,      \* bound: messages queued
    MaxSets,      \* bound: settings changed
    MaxFaults     \* bound: session writes that return an error

Queues == {"steer", "followUp"}

Settings == {"model", "level"}
Values(k) == IF k = "model" THEN Models ELSE Levels

\* modelChange and thinkingLevelChange.
Write == [kind : {"model"}, value : Models] \cup [kind : {"level"}, value : Levels]

ASSUME SettersAssumption == Setters \subseteq Clients
ASSUME ValuesAssumption == Model0 \in Models /\ Level0 \in Levels
ASSUME AllAtOnceAssumption == AllAtOnce \subseteq Queues
ASSUME BoundsAssumption ==
    MaxRuns \in Nat /\ MaxMsgs \in Nat /\ MaxSets \in Nat /\ MaxFaults \in Nat

VARIABLES
    phase,        \* o.phase
    runs,         \* runs begun; while one is on, its context and idle channel
    cancelled,    \* the runs whose context is cancelled
    pc,           \* pc[c]: where the call of c stands
    run,          \* run[c]: the run c owns, aborts or waits for
    hands,        \* hands[c]: messages drained by the run of c, not yet appended
    change,       \* change[c]: the write of an idle setting c has still to append
    queue,        \* steerQueue and followUpQueue; messages are numbered
    sent,         \* messages queued so far
    delivered,    \* per queue, the messages the session has
    cleared,      \* the messages that Abort took out of the queues
    current,      \* o.model and o.thinkingLevel
    pending,      \* o.pendingWrites
    logged,       \* the model and level entries of the session
    sets,         \* settings changed so far
    late,         \* history: a setting was queued after the last flush of its run
    faults        \* history: session writes that returned an error

vars == <<phase, runs, cancelled, pc, run, hands, change, queue, sent, delivered, cleared,
          current, pending, logged, sets, late, faults>>

callVars  == <<pc, run, hands, change>>
msgVars   == <<queue, sent, delivered, cleared>>
setVars   == <<current, pending, logged, sets, late>>

NoRun == 0
NoWrite == [kind |-> "none"]
Empty == [q \in Queues |-> <<>>]

\* The steps of the owner of a run, in order, then those of the other calls.
RunPcs == {"begun", "poll_more", "poll_done", "follow_up", "turn", "turn_end",
           "turn_failed", "ended", "compacting", "settling", "flushed"}
CallPcs == {"route_steer", "route_followUp", "append", "cancelling", "check", "waiting"}
-----------------------------------------------------------------------------
Init ==
    /\ phase = "idle"
    /\ runs = 0
    /\ cancelled = {}
    /\ pc = [c \in Clients |-> "ready"]
    /\ run = [c \in Clients |-> NoRun]
    /\ hands = [c \in Clients |-> Empty]
    /\ change = [c \in Clients |-> NoWrite]
    /\ queue = Empty
    /\ sent = 0
    /\ delivered = Empty
    /\ cleared = {}
    /\ current = [k \in Settings |-> IF k = "model" THEN Model0 ELSE Level0]
    /\ pending = <<>>
    /\ logged = <<>>
    /\ sets = 0
    /\ late = FALSE
    /\ faults = 0

Goto(c, l) == pc' = [pc EXCEPT ![c] = l]

\* A session write returns an error.
Fault == faults < MaxFaults /\ faults' = faults + 1
NoFault == UNCHANGED faults
-----------------------------------------------------------------------------
(* Beginning and ending a run.                                             *)

\* Mutant of BeginRun: the phase is not looked at.
BeginRunUnchecked(c, p, clearPending) ==
    /\ pc[c] = "ready"
    /\ runs < MaxRuns
    /\ phase' = p
    /\ runs' = runs + 1
    /\ run' = [run EXCEPT ![c] = runs + 1]
    /\ pending' = IF clearPending THEN <<>> ELSE pending
    /\ UNCHANGED <<cancelled, hands, change, msgVars, current, logged, sets, late, faults>>

\* beginRun: refused (BusyError) unless idle.  Prompt clears the pending
\* writes, Compact and NavigateTree keep them.
BeginRun(c, p, clearPending) ==
    /\ pc[c] = "ready"
    /\ phase = "idle"
    /\ runs < MaxRuns
    /\ phase' = p
    /\ runs' = runs + 1
    /\ run' = [run EXCEPT ![c] = runs + 1]
    /\ pending' = IF clearPending THEN <<>> ELSE pending
    /\ UNCHANGED <<cancelled, hands, change, msgVars, current, logged, sets, late, faults>>

Prompt(c) == BeginRun(c, "turn", TRUE) /\ Goto(c, "begun")
Compact(c) == BeginRun(c, "compaction", FALSE) /\ Goto(c, "compacting")
NavigateTree(c) == BeginRun(c, "branch_summary", FALSE) /\ Goto(c, "compacting")

\* The input hook consumes the prompt, or the overflow recovery before it
\* fails: no turn.  Otherwise harness.Prompt, whose loop polls for steering.
Accept(c) ==
    /\ pc[c] = "begun"
    /\ Goto(c, "poll_more") \/ Goto(c, "settling")
    /\ UNCHANGED <<phase, runs, cancelled, run, hands, change, msgVars, setVars, faults>>

\* Mutant of CompactReturns: the run ends without the last flush.
CompactReturnsUnflushed(c) ==
    /\ pc[c] = "compacting"
    /\ Goto(c, "flushed")
    /\ UNCHANGED <<phase, runs, cancelled, run, hands, change, msgVars, setVars, faults>>

\* harness.Compact or harness.NavigateTree returns, with or without an error.
CompactReturns(c) ==
    /\ pc[c] = "compacting"
    /\ Goto(c, "settling")
    /\ UNCHANGED <<phase, runs, cancelled, run, hands, change, msgVars, setVars, faults>>

\* Mutant of Flush: the first write is appended, the whole list dropped.
FlushFirstOnly ==
    /\ logged' = IF pending = <<>> THEN logged ELSE Append(logged, Head(pending))
    /\ pending' = <<>>
    /\ NoFault

\* flushPendingWrites, under o.mu: the writes in order; the first error leaves
\* the whole list, although what was written before it is in the session (and
\* so may be the failing one, see SessionStore).
Flush ==
    \/ /\ logged' = logged \o pending
       /\ pending' = <<>>
       /\ NoFault
    \/ /\ Fault
       /\ \E n \in 0..Len(pending) : logged' = logged \o SubSeq(pending, 1, n)
       /\ pending # <<>>
       /\ UNCHANGED pending

\* The flush at the end of every run, whatever became of its context.
ResidualFlush(c) ==
    /\ pc[c] = "settling"
    /\ Flush
    /\ Goto(c, "flushed")
    /\ UNCHANGED <<phase, runs, cancelled, run, hands, change, msgVars, current, sets, late>>

FinishRun(c) ==
    /\ pc[c] = "flushed"
    /\ phase' = "idle"
    /\ Goto(c, "ready")
    /\ run' = [run EXCEPT ![c] = NoRun]
    /\ UNCHANGED <<runs, cancelled, hands, change, msgVars, setVars, faults>>
-----------------------------------------------------------------------------
(* The agent loop of a run, as far as it meets the orchestrator.           *)

Cancelled(c) == run[c] \in cancelled

\* Mutants of Drained and Remaining: the newest message is taken; draining one
\* empties the queue.
DrainedNewest(q) == IF queue[q] = <<>> THEN <<>> ELSE <<queue[q][Len(queue[q])]>>
RemainingNone(q) == <<>>

\* drainAll or drainOne.
Drained(q) == IF q \in AllAtOnce \/ queue[q] = <<>> THEN queue[q] ELSE <<Head(queue[q])>>
Remaining(q) == SubSeq(queue[q], Len(Drained(q)) + 1, Len(queue[q]))

Held(c, q, ms) == [hands EXCEPT ![c] = [hands[c] EXCEPT ![q] = ms]]

Drain(c, q) ==
    /\ hands' = Held(c, q, Drained(q))
    /\ queue' = [queue EXCEPT ![q] = Remaining(q)]

\* A cancelled context makes the drain return an error, which ends the run.
DrainRefused(c) ==
    /\ Cancelled(c)
    /\ Goto(c, "settling")
    /\ UNCHANGED <<hands, queue>>

\* Mutant of PollSteering: the drain does not look at the context.
PollSteeringUncancelled(c) ==
    /\ pc[c] \in {"poll_more", "poll_done"}
    /\ Drain(c, "steer")
    /\ Goto(c, IF pc[c] = "poll_more" \/ queue["steer"] # <<>> THEN "turn" ELSE "follow_up")
    /\ UNCHANGED <<phase, runs, cancelled, run, change, sent, delivered, cleared, setVars, faults>>

\* drainSteeringMessages: another turn if there are tool calls to answer
\* ("poll_more") or messages to deliver; otherwise the follow-ups.
PollSteering(c) ==
    /\ pc[c] \in {"poll_more", "poll_done"}
    /\ \/ DrainRefused(c)
       \/ /\ ~Cancelled(c)
          /\ Drain(c, "steer")
          /\ Goto(c, IF pc[c] = "poll_more" \/ queue["steer"] # <<>> THEN "turn" ELSE "follow_up")
    /\ UNCHANGED <<phase, runs, cancelled, run, change, sent, delivered, cleared, setVars, faults>>

PollFollowUp(c) ==
    /\ pc[c] = "follow_up"
    /\ \/ DrainRefused(c)
       \/ /\ ~Cancelled(c)
          /\ Drain(c, "followUp")
          /\ Goto(c, IF queue["followUp"] # <<>> THEN "turn" ELSE "ended")
    /\ UNCHANGED <<phase, runs, cancelled, run, change, sent, delivered, cleared, setVars, faults>>

\* The next drained message goes to Session.AppendMessage.  A cancelled
\* context refuses it; a failed write keeps it in memory.  Either error ends
\* the run and drops the messages still in hand.
Deliver(c, q) ==
    /\ pc[c] = "turn"
    /\ hands[c][q] # <<>>
    /\ LET appended == [delivered EXCEPT ![q] = Append(@, Head(hands[c][q]))]
       IN  \/ /\ Cancelled(c)
              /\ hands' = [hands EXCEPT ![c] = Empty]
              /\ Goto(c, "settling")
              /\ UNCHANGED delivered /\ NoFault
           \/ /\ ~Cancelled(c)
              /\ Fault
              /\ delivered' = appended
              /\ hands' = [hands EXCEPT ![c] = Empty]
              /\ Goto(c, "turn_failed") \/ Goto(c, "settling")
           \/ /\ ~Cancelled(c)
              /\ delivered' = appended
              /\ hands' = Held(c, q, Tail(hands[c][q]))
              /\ UNCHANGED pc /\ NoFault
    /\ UNCHANGED <<phase, runs, cancelled, run, change, queue, sent, cleared, setVars>>

\* The model has answered and its tools have run; or its answer is an error, or
\* the run failed and reports it (emitRunFailure).  A cancelled context or a
\* failed write makes the append of the report fail too: no turn_end then.
TurnReturns(c) ==
    /\ pc[c] = "turn"
    /\ \A q \in Queues : hands[c][q] = <<>>
    /\ \/ (Goto(c, "turn_end") \/ Goto(c, "turn_failed")) /\ NoFault
       \/ Goto(c, "settling") /\ IF Cancelled(c) THEN NoFault ELSE Fault
    /\ UNCHANGED <<phase, runs, cancelled, run, hands, change, msgVars, setVars>>

\* The turn_end handler of events.go flushes.  After a failed turn the loop is
\* over; otherwise it goes on, with or without tool results to send.
TurnEnd(c) ==
    /\ pc[c] \in {"turn_end", "turn_failed"}
    /\ Flush
    /\ \E l \in IF pc[c] = "turn_failed" THEN {"ended"} ELSE {"poll_more", "poll_done"} :
           Goto(c, l)
    /\ UNCHANGED <<phase, runs, cancelled, run, hands, change, msgVars, current, sets, late>>

\* The loop is over: overflow recovery or a retry continues it (neither under
\* a cancelled context), or the run settles.
Ended(c) ==
    /\ pc[c] = "ended"
    /\ Goto(c, "settling") \/ (~Cancelled(c) /\ Goto(c, "poll_more"))
    /\ UNCHANGED <<phase, runs, cancelled, run, hands, change, msgVars, setVars, faults>>

Loop(c) ==
    \/ PollSteering(c) \/ PollFollowUp(c) \/ TurnReturns(c) \/ TurnEnd(c) \/ Ended(c)
    \/ \E q \in Queues : Deliver(c, q)

\* The steps of a run that do not wait for the model or a tool.
RunStep(c) ==
    \/ Accept(c) \/ ResidualFlush(c) \/ FinishRun(c)
    \/ PollSteering(c) \/ PollFollowUp(c) \/ TurnEnd(c) \/ Ended(c)
    \/ \E q \in Queues : Deliver(c, q)
-----------------------------------------------------------------------------
(* Calls that meet a run from outside.                                     *)

Enqueue(q) ==
    /\ sent < MaxMsgs
    /\ sent' = sent + 1
    /\ queue' = [queue EXCEPT ![q] = Append(@, sent + 1)]
    /\ UNCHANGED <<delivered, cleared>>

\* Steer and FollowUp, busy or not.
SteerOrFollowUp(c, q) ==
    /\ pc[c] = "ready"
    /\ Enqueue(q)
    /\ UNCHANGED <<phase, runs, cancelled, callVars, setVars, faults>>

\* Prompt with a StreamingBehavior: beginRun finds the orchestrator busy and
\* the message is queued under the lock taken next.
Route(c, q) ==
    /\ pc[c] = "ready"
    /\ phase # "idle"
    /\ sent < MaxMsgs
    /\ Goto(c, IF q = "steer" THEN "route_steer" ELSE "route_followUp")
    /\ UNCHANGED <<phase, runs, cancelled, run, hands, change, msgVars, setVars, faults>>

Routed(c, q) ==
    /\ pc[c] = IF q = "steer" THEN "route_steer" ELSE "route_followUp"
    /\ Enqueue(q)
    /\ Goto(c, "ready")
    /\ UNCHANGED <<phase, runs, cancelled, run, hands, change, setVars, faults>>

\* Abort, as the RPC server calls it: the queues are emptied and the cancel
\* function of the active run, if any, is taken; then it is called; then
\* WaitForIdle.
Abort(c) ==
    /\ pc[c] = "ready"
    /\ phase # "idle" \/ queue # Empty
    /\ cleared' = cleared \cup {n \in 1..sent : \E q \in Queues : \E i \in 1..Len(queue[q]) :
                                    queue[q][i] = n}
    /\ queue' = Empty
    /\ run' = [run EXCEPT ![c] = IF phase = "idle" THEN NoRun ELSE runs]
    /\ Goto(c, "cancelling")
    /\ UNCHANGED <<phase, runs, cancelled, hands, change, sent, delivered, setVars, faults>>

\* Mutant of Cancel: a missing cancel function is not noticed.
CancelUnchecked(c) ==
    /\ pc[c] = "cancelling"
    /\ cancelled' = cancelled \cup {run[c]}
    /\ run' = [run EXCEPT ![c] = NoRun]
    /\ Goto(c, "check")
    /\ UNCHANGED <<phase, runs, hands, change, msgVars, setVars, faults>>

Cancel(c) ==
    /\ pc[c] = "cancelling"
    /\ cancelled' = IF run[c] = NoRun THEN cancelled ELSE cancelled \cup {run[c]}
    /\ run' = [run EXCEPT ![c] = NoRun]
    /\ Goto(c, "check")
    /\ UNCHANGED <<phase, runs, hands, change, msgVars, setVars, faults>>

\* WaitForIdle: returns when idle, otherwise waits on the channel of the run.
Check(c) ==
    /\ pc[c] = "check"
    /\ IF phase = "idle"
       THEN Goto(c, "ready") /\ UNCHANGED run
       ELSE Goto(c, "waiting") /\ run' = [run EXCEPT ![c] = runs]
    /\ UNCHANGED <<phase, runs, cancelled, hands, change, msgVars, setVars, faults>>

\* Mutant of Wake: the waiter watches the phase, not the channel of its run.
WakeOnIdle(c) ==
    /\ pc[c] = "waiting"
    /\ phase = "idle"
    /\ Goto(c, "check")
    /\ run' = [run EXCEPT ![c] = NoRun]
    /\ UNCHANGED <<phase, runs, cancelled, hands, change, msgVars, setVars, faults>>

\* The channel is closed; the loop looks again.
Wake(c) ==
    /\ pc[c] = "waiting"
    /\ phase = "idle" \/ run[c] # runs
    /\ Goto(c, "check")
    /\ run' = [run EXCEPT ![c] = NoRun]
    /\ UNCHANGED <<phase, runs, cancelled, hands, change, msgVars, setVars, faults>>

\* setModel and SetThinkingLevel: the field changes at once.  During a run
\* the write joins the pending ones; otherwise it is appended to the session
\* after o.mu is released.  A level that does not change is no write.
Set(c, w) ==
    /\ c \in Setters
    /\ pc[c] = "ready"
    /\ sets < MaxSets
    /\ w.kind = "level" => w.value # current["level"]
    /\ current' = [current EXCEPT ![w.kind] = w.value]
    /\ sets' = sets + 1
    /\ IF phase # "idle"
       THEN /\ pending' = Append(pending, w)
            /\ late' = (late \/ \E o \in Clients : pc[o] = "flushed")
            /\ UNCHANGED callVars
       ELSE /\ Goto(c, "append")
            /\ change' = [change EXCEPT ![c] = w]
            /\ UNCHANGED <<pending, late, run, hands>>
    /\ UNCHANGED <<phase, runs, cancelled, msgVars, logged, faults>>

AppendSetting(c) ==
    /\ pc[c] = "append"
    /\ \/ logged' = Append(logged, change[c]) /\ NoFault
       \/ Fault /\ logged' \in {logged, Append(logged, change[c])}
    /\ Goto(c, "ready")
    /\ change' = [change EXCEPT ![c] = NoWrite]
    /\ UNCHANGED <<phase, runs, cancelled, run, hands, msgVars, current, pending, sets, late>>

Call(c) ==
    \/ \E q \in Queues : SteerOrFollowUp(c, q) \/ Route(c, q) \/ Routed(c, q)
    \/ Abort(c) \/ Cancel(c) \/ Check(c) \/ Wake(c)
    \/ \E w \in Write : Set(c, w)
    \/ AppendSetting(c)

Next ==
    \E c \in Clients :
        \/ Prompt(c) \/ Compact(c) \/ NavigateTree(c)
        \/ Accept(c) \/ CompactReturns(c) \/ ResidualFlush(c) \/ FinishRun(c)
        \/ Loop(c)
        \/ Call(c)

Spec == Init /\ [][Next]_vars

\* The orchestrator's own steps are taken (no lock is held for ever); a model
\* or a tool need not answer unless the context of the run is cancelled.
Fairness ==
    \A c \in Clients :
        /\ WF_vars(RunStep(c))
        /\ WF_vars(Cancelled(c) /\ (TurnReturns(c) \/ CompactReturns(c)))
        /\ WF_vars(Cancel(c) \/ Check(c) \/ Wake(c))

FairSpec == Spec /\ Fairness
-----------------------------------------------------------------------------
(* Properties.                                                             *)

RunTypeOK ==
    /\ phase \in {"idle", "turn", "compaction", "branch_summary"}
    /\ runs \in 0..MaxRuns
    /\ cancelled \subseteq 1..MaxRuns
    /\ faults \in 0..MaxFaults

CallTypeOK ==
    /\ pc \in [Clients -> {"ready"} \cup RunPcs \cup CallPcs]
    /\ run \in [Clients -> 0..MaxRuns]
    /\ hands \in [Clients -> [Queues -> Seq(Nat)]]
    /\ change \in [Clients -> Write \cup {NoWrite}]
    /\ \A c \in Clients : pc[c] = "append" => change[c] \in Write

MsgTypeOK ==
    /\ queue \in [Queues -> Seq(Nat)]
    /\ sent \in 0..MaxMsgs
    /\ delivered \in [Queues -> Seq(Nat)]
    /\ cleared \subseteq 1..MaxMsgs

SetTypeOK ==
    /\ current \in [Settings -> Models \cup Levels]
    /\ pending \in Seq(Write)
    /\ logged \in Seq(Write)
    /\ sets \in 0..MaxSets
    /\ late \in BOOLEAN

\* The type of every variable.
TypeOK == RunTypeOK /\ CallTypeOK /\ MsgTypeOK /\ SetTypeOK

Owns(c) == pc[c] \in RunPcs

\* At most one call of Prompt, Compact and NavigateTree is past beginRun,
\* through every turn, retry and flush; the phase says whether there is one,
\* and the context and the channel in the fields are those of that call.
OneRun ==
    /\ \A c, d \in Clients : Owns(c) /\ Owns(d) => c = d
    /\ (phase # "idle") = (\E c \in Clients : Owns(c))
    /\ \A c \in Clients : Owns(c) => run[c] = runs

Increasing(s) == \A i, j \in 1..Len(s) : i < j => s[i] < s[j]
Before(s, t) == \A i \in 1..Len(s), j \in 1..Len(t) : s[i] < t[j]

\* The messages of a queue reach the session once each and in the order they
\* were queued, whatever drains, retries, aborts and further runs intervene.
InOrder ==
    \A q \in Queues :
        /\ Increasing(delivered[q]) /\ Increasing(queue[q])
        /\ Before(delivered[q], queue[q])
        /\ \A c \in Clients :
               /\ Increasing(hands[c][q])
               /\ Before(delivered[q], hands[c][q])
               /\ Before(hands[c][q], queue[q])

In(n, s) == \E i \in 1..Len(s) : s[i] = n

\* A queued message is in the session, on its way there, still queued or
\* handed back by Abort: none is dropped, unless an abort cancelled a run or
\* a session write failed while messages were in hand.
NothingVanishes ==
    (cancelled = {} /\ faults = 0) =>
        \A n \in 1..sent :
            \/ n \in cleared
            \/ \E q \in Queues :
                   \/ In(n, queue[q]) \/ In(n, delivered[q])
                   \/ \E c \in Clients : In(n, hands[c][q])

\* The queues keep what they are given: in order, once, and to the end.
NothingLost == InOrder /\ NothingVanishes

\* v is what the entries s, read in order, leave for the setting k.
LastSet(s, k, v) ==
    \/ \E i \in 1..Len(s) :
           s[i] = [kind |-> k, value |-> v] /\ \A j \in (i + 1)..Len(s) : s[j].kind # k
    \/ /\ \A i \in 1..Len(s) : s[i].kind # k
       /\ v = IF k = "model" THEN Model0 ELSE Level0

\* With one caller changing settings, what reopening the session would recover
\* once the pending writes are flushed is what the orchestrator uses, whatever
\* runs begin, flush and end between the change and its write; unless a
\* write failed or a change came after the last flush of a run.
SettingsRecoverable ==
    (faults = 0 /\ ~late) =>
        \A k \in Settings :
            (\A c \in Clients : change[c] # NoWrite => change[c].kind # k)
                => LastSet(logged \o pending, k, current[k])

\* Between runs no write is pending, unless a write failed or a change came
\* after the last flush of a run.
NothingPendingWhenIdle ==
    (phase = "idle" /\ faults = 0 /\ ~late) => pending = <<>>

\* orchestrator.go:984-989: the flush at the end of a run is "a safety net for
\* anything queued AFTER the last turn_end".
SafetyNet == (phase = "idle" /\ faults = 0) => pending = <<>>

\* An abort is heard: the run whose context it cancelled ends, wherever it stands,
\* and whoever waits for that run stops waiting for it, even if another run has
\* begun by the time he looks.
AbortHeard ==
    \A r \in 1..MaxRuns :
        r \in cancelled ~>
            /\ runs # r \/ phase = "idle"
            /\ \A c \in Clients : ~(pc[c] = "waiting" /\ run[c] = r)
=============================================================================
