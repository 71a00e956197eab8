-------------------------------- MODULE Viewer --------------------------------
(* The terminal's event loop and the goroutine of each run (cmd/tui/agent_loop.go *)
(* and the parts of tui.go that start, cancel and listen). A run's messages pass  *)
(* through the channel that the field m.agentCh names when they are sent; a Cmd   *)
(* of its own fetches each of them for Update. The backend's iterator is any      *)
(* finite series of events that ends, or fails once it sees its context done.     *)
EXTENDS Integers, Sequences, FiniteSets

CONSTANTS
    Room,           \* the channel's buffer
    MaxShown,       \* prompts submitted (bound)
    MaxEvents,      \* events of one run (bound)
    MaxResizes      \* messages that arm one more listener (bound)

ASSUME ViewerAssumption == Room \in Nat /\ MaxShown \in Nat /\ MaxEvents \in Nat

VARIABLES
    running,    \* m.running
    agentCh,    \* m.agentCh: the run whose channel it is, 0 for nil
    chans,      \* each run's channel: messages and whether it is closed
    loops,      \* each run's goroutine in runAgentLoop
    drains,     \* channels with a goroutine that throws their messages away
    waiters,    \* how many Cmds wait on each channel
    updates,    \* messages that Cmds have fetched and Update has not seen
    crashed,    \* a send on a closed channel, twice: the viewer panics
    resizes     \* bound on Listens

viewerVars == <<running, agentCh, chans, loops, drains, waiters, updates, crashed, resizes>>

Runs == 1..MaxShown
ShowLoop(step) == [step |-> step, events |-> 0, cancelled |-> FALSE, to |-> 0, kind |-> "none"]
Latest == Cardinality({r \in Runs : loops[r].step # "none"})
\* w tells apart what several Cmds get from one closed channel.
Message(kind, from, w) == [kind |-> kind, from |-> from, w |-> w]

ViewerInit ==
    /\ running = FALSE /\ agentCh = 0
    /\ chans = [r \in Runs |-> [queue |-> <<>>, closed |-> FALSE]]
    /\ loops = [r \in Runs |-> ShowLoop("none")]
    /\ drains = {} /\ waiters = [r \in Runs |-> 0] /\ updates = {}
    /\ crashed = FALSE /\ resizes = 0

\* waitForAgent(m.agentCh), which is no Cmd for a nil channel
Armed(ch) == IF ch = 0 THEN waiters ELSE [waiters EXCEPT ![ch] = @ + 1]

-------------------------------------------------------------------------------
(* Update                                                                       *)

\* submitPrompt and startAgentLoop; keys submit nothing while a run is shown.
SubmitPrompt ==
    /\ ~running /\ Latest < MaxShown
    /\ LET r == Latest + 1 IN
       /\ running' = TRUE /\ agentCh' = r
       /\ loops' = [loops EXCEPT ![r] = ShowLoop("pull")]
       /\ waiters' = Armed(r)
    /\ UNCHANGED <<chans, drains, updates, crashed, resizes>>

\* Esc: cancelAgent
CancelAgent ==
    /\ running
    /\ running' = FALSE
    /\ loops' = [loops EXCEPT ![Latest].cancelled = TRUE]
    /\ drains' = drains \cup ({agentCh} \ {0})
    /\ agentCh' = 0
    /\ UNCHANGED <<chans, waiters, updates, crashed, resizes>>

\* A window's size, a paste or anything unhandled: one more listener
Listens ==
    /\ running /\ resizes < MaxResizes
    /\ resizes' = resizes + 1
    /\ waiters' = Armed(agentCh)
    /\ UNCHANGED <<running, agentCh, chans, loops, drains, updates, crashed>>

\* Mutant of Rearmed: the handler of a tool's result returns no Cmd.
RearmedNotAfterResult(msg) == IF msg.kind = "result" THEN waiters ELSE Armed(agentCh)
\* handleAgentText, Thinking, ToolCall and ToolResult listen on, to the channel of now.
Rearmed(msg) == Armed(agentCh)

Handle(msg) ==
    /\ msg \in updates /\ msg.kind # "done"
    /\ updates' = updates \ {msg}
    /\ waiters' = Rearmed(msg)
    /\ UNCHANGED <<running, agentCh, chans, loops, drains, crashed, resizes>>

\* handleAgentDone, whichever run it was
HandleDone(msg) ==
    /\ msg \in updates /\ msg.kind = "done"
    /\ updates' = updates \ {msg}
    /\ running' = FALSE /\ agentCh' = 0
    /\ UNCHANGED <<chans, loops, drains, waiters, crashed, resizes>>

-------------------------------------------------------------------------------
(* The Cmds and the goroutines that drain                                       *)

Fetch(ch) ==
    /\ waiters[ch] > 0
    /\ waiters' = [waiters EXCEPT ![ch] = @ - 1]
    /\ IF chans[ch].queue # <<>>
       THEN /\ updates' = updates \cup {Head(chans[ch].queue)}
            /\ chans' = [chans EXCEPT ![ch].queue = Tail(@)]
       ELSE /\ chans[ch].closed
            /\ updates' = updates \cup {Message("done", ch, waiters[ch])}
            /\ UNCHANGED chans
    /\ UNCHANGED <<running, agentCh, loops, drains, crashed, resizes>>

DrainEvents(ch) ==
    /\ ch \in drains
    /\ \/ chans[ch].queue # <<>> /\ chans' = [chans EXCEPT ![ch].queue = Tail(@)] /\ UNCHANGED drains
       \/ chans[ch].queue = <<>> /\ chans[ch].closed /\ drains' = drains \ {ch} /\ UNCHANGED chans
    /\ UNCHANGED <<running, agentCh, loops, waiters, updates, crashed, resizes>>

-------------------------------------------------------------------------------
(* runAgentLoop of run r                                                        *)

\* An event of the iterator, and the channel its message goes to: the field is read
\* anew each time. A failed iterator or a detector that trips sends done and returns.
Pull(r) ==
    /\ loops[r].step = "pull"
    /\ \E kind \in {"text", "result", "done"} :
          /\ kind # "done" => loops[r].events < MaxEvents
          /\ loops' = [loops EXCEPT ![r].step = "send", ![r].kind = kind,
                                    ![r].events = @ + 1, ![r].to = agentCh]
    /\ UNCHANGED <<running, agentCh, chans, drains, waiters, updates, crashed, resizes>>

\* A nil channel takes nothing; a closed one panics, and so does the handler of the
\* panic, which sends to it too.
Send(r) ==
    /\ loops[r].step = "send" /\ loops[r].to # 0
    /\ LET ch == loops[r].to IN
       IF chans[ch].closed
       THEN crashed' = TRUE /\ UNCHANGED <<chans, loops>>
       ELSE /\ Len(chans[ch].queue) < Room
            /\ chans' = [chans EXCEPT ![ch].queue =
                             Append(@, Message(loops[r].kind, r, loops[r].events))]
            /\ loops' = [loops EXCEPT ![r].step = IF loops[r].kind = "done" THEN "return" ELSE "pull",
                                      ![r].to = 0, ![r].kind = "none"]
            /\ UNCHANGED crashed
    /\ UNCHANGED <<running, agentCh, drains, waiters, updates, resizes>>

IteratorEnds(r) ==
    /\ loops[r].step = "pull"
    /\ loops' = [loops EXCEPT ![r].step = "return"]
    /\ UNCHANGED <<running, agentCh, chans, drains, waiters, updates, crashed, resizes>>

\* The deferred close of the channel the run was started with
Return(r) ==
    /\ loops[r].step = "return"
    /\ loops' = [loops EXCEPT ![r].step = "over"]
    /\ chans' = [chans EXCEPT ![r].closed = TRUE]
    /\ UNCHANGED <<running, agentCh, drains, waiters, updates, crashed, resizes>>

-------------------------------------------------------------------------------

LoopStep(r) == Pull(r) \/ Send(r) \/ IteratorEnds(r) \/ Return(r)
UpdateStep == \E msg \in updates : Handle(msg) \/ HandleDone(msg)

ViewerNext ==
    /\ ~crashed
    /\ \/ SubmitPrompt \/ CancelAgent \/ Listens \/ UpdateStep
       \/ \E r \in Runs : Fetch(r) \/ DrainEvents(r) \/ LoopStep(r)

\* Goroutines run, Cmds return and Update is called; the user need do nothing.
ViewerFairness ==
    /\ WF_viewerVars(~crashed /\ UpdateStep)
    /\ \A r \in Runs : /\ WF_viewerVars(~crashed /\ Fetch(r))
                       /\ WF_viewerVars(~crashed /\ DrainEvents(r))
                       /\ WF_viewerVars(~crashed /\ LoopStep(r))

ViewerSpec == ViewerInit /\ [][ViewerNext]_viewerVars /\ ViewerFairness

-------------------------------------------------------------------------------
(* Properties                                                                   *)

ViewerTypeOK ==
    /\ running \in BOOLEAN /\ agentCh \in Runs \cup {0} /\ drains \subseteq Runs
    /\ \A r \in Runs :
         /\ loops[r].step \in {"none", "pull", "send", "return", "over"}
         /\ loops[r].events \in 0..MaxEvents + 1
         /\ Len(chans[r].queue) <= Room /\ waiters[r] \in Nat

\* tui.go:484: while a run is shown somebody listens to its channel, or a message of
\* which the handler will listen again is under way. A viewer that went deaf would
\* show a run for ever.
ViewerListens ==
    running => agentCh # 0 /\ (waiters[agentCh] > 0 \/ updates # {})

\* A run that is shown ends, or is cancelled, or the viewer panics.
RunningEnds == running ~> (~running \/ crashed)

\* agent_loop.go:241 and rpcagent.go:402: a cancelled run's goroutine ends, which is
\* what tells the kernel to stop.
CancelStops == \A r \in Runs : loops[r].cancelled ~> (loops[r].step = "over" \/ crashed)
===============================================================================
