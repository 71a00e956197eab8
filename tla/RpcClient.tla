------------------------------- MODULE RpcClient -------------------------------
(* The viewer's side of the JSON lines (cmd/tui/rpcagent.go): one reader         *)
(* goroutine that deals the lines of stdout to the requests that wait and to the *)
(* active turn, a goroutine for every prompt that drains its turn, and the UI    *)
(* goroutine with one request or one turn at a time. RpcServer is the other end. *)
EXTENDS RpcServer

CONSTANTS
    TurnBuffer,     \* the room of turn.events
    MaxRunners,     \* goroutines in RunStreaming at one time (bound)
    MaxIds          \* ids of commands (bound)

\* The channel of a turn has room for some events; the bounds are numbers.
ASSUME LinkAssumption ==
    /\ MaxPieces \in Nat /\ PipeRoom \in Nat /\ TurnBuffer \in Nat
    /\ MaxRunners \in Nat /\ MaxIds \in Nat

VARIABLES
    nextId,     \* a.nextID
    pending,    \* a.pending: requests the reader knows a waiter of
    call,       \* the UI goroutine's request: its id, op and step
    inbox,      \* ids of the responses in the waiters' channels
    turn,       \* a.turn: the id of the active turn, 0 for none
    turns,      \* the turns there were: their events and whether done is closed
    runners,    \* the goroutines in RunStreaming: the id of the turn and the step
    watched,    \* the turn the UI shows as running, 0 for none
    reader,     \* what the reader goroutine does: free, or sends an item to a turn
    closed,     \* a.closed
    heard       \* ghost: ids of the responses read from stdout

clientVars == <<nextId, pending, call, inbox, turn, turns, runners, watched, reader, closed, heard>>
rpcVars == <<serverVars, clientVars>>

Ids == 1..MaxIds
NoCall == [id |-> 0, op |-> "none", step |-> "idle"]
Free == [turn |-> 0, item |-> "none", closes |-> FALSE]
NewTurn == [events |-> <<>>, done |-> FALSE]
\* Mutant of Fresh: the counter stays.
FreshNever == nextId' = nextId
Fresh == nextId' = nextId + 1
Runner(id, step) == [id |-> id, step |-> step]
Advances(r, step) == runners' = (runners \ {r}) \cup {Runner(r.id, step)}
CanSend == ~hungUp /\ serving = "serving"
Sends(id, op) == stdin' = Append(stdin, Command(id, op))

ClientInit ==
    /\ nextId = 1 /\ pending = {} /\ call = NoCall /\ inbox = {}
    /\ turn = 0 /\ turns = [i \in Ids |-> NewTurn] /\ runners = {} /\ watched = 0
    /\ reader = Free /\ closed = FALSE /\ heard = {}

-------------------------------------------------------------------------------
(* The reader                                                                   *)

TakeLine == reader = Free /\ ~closed /\ stdout # <<>> /\ stdout' = Tail(stdout)

\* deliverResponse
DeliverResponse ==
    /\ TakeLine
    /\ LET line == Head(stdout) IN
       /\ line.type = "response"
       /\ heard' = heard \cup {line.id}
       /\ IF line.id \in pending
          THEN /\ pending' = pending \ {line.id}
               /\ inbox' = inbox \cup {line.id}
               /\ UNCHANGED reader
          ELSE /\ UNCHANGED <<pending, inbox>>
               /\ reader' = IF ~line.success /\ line.op = "prompt" /\ turn = line.id
                            THEN [turn |-> turn, item |-> "error", closes |-> TRUE]
                            ELSE Free
    /\ UNCHANGED <<stdin, hungUp, serving, jobs, run>>
    /\ UNCHANGED <<nextId, call, turn, turns, runners, watched, closed>>

\* handleEvent, with the active turn as it is now
HandleEvent ==
    /\ TakeLine
    /\ LET line == Head(stdout) IN
       /\ line.type # "response"
       /\ \/ turn = 0 /\ UNCHANGED <<reader, turns>>
          \/ /\ turn # 0 /\ line.type = "message_update"
             /\ reader' = [turn |-> turn, item |-> "text", closes |-> FALSE]
             /\ UNCHANGED turns
          \/ /\ turn # 0 /\ line.type # "message_update"
             /\ turns' = [turns EXCEPT ![turn].done = TRUE]
             /\ UNCHANGED reader
    /\ UNCHANGED <<stdin, hungUp, serving, jobs, run>>
    /\ UNCHANGED <<nextId, pending, call, inbox, turn, runners, watched, closed, heard>>

\* turnState.send and fail, which then closes: both cases of the select may be ready.
ReaderSends ==
    /\ reader # Free
    /\ LET t == turns[reader.turn] IN
       \/ /\ Len(t.events) < TurnBuffer
          /\ turns' = [turns EXCEPT ![reader.turn] =
                          [events |-> Append(t.events, reader.item),
                           done |-> IF reader.closes THEN TRUE ELSE t.done]]
       \/ t.done /\ UNCHANGED turns
    /\ reader' = Free
    /\ UNCHANGED serverVars
    /\ UNCHANGED <<nextId, pending, call, inbox, turn, runners, watched, closed, heard>>

\* The kernel is gone and its last line read: shutdown.
ReaderEnds ==
    /\ reader = Free /\ ~closed /\ stdout = <<>> /\ serving \in {"gone", "killed"}
    /\ closed' = TRUE
    /\ inbox' = inbox \cup pending
    /\ pending' = {}
    /\ reader' = IF turn = 0 THEN Free ELSE [turn |-> turn, item |-> "error", closes |-> TRUE]
    /\ UNCHANGED serverVars
    /\ UNCHANGED <<nextId, call, turn, turns, runners, watched, heard>>

-------------------------------------------------------------------------------
(* request and requestTimeout, from the UI goroutine                            *)

\* Mutant of Registered: the waiter is only known when the line has been sent.
RegisteredLate(id) == pending
\* The waiter is in the table before the line is out.
Registered(id) == pending \cup {id}

Request(op) ==
    /\ call = NoCall /\ watched = 0 /\ nextId \in Ids /\ ~hungUp
    /\ Fresh
    /\ call' = [id |-> nextId, op |-> op, step |-> "sending"]
    /\ pending' = Registered(nextId)
    /\ UNCHANGED serverVars
    /\ UNCHANGED <<inbox, turn, turns, runners, watched, reader, closed, heard>>

\* A dead kernel's pipe refuses the line.
RequestSent ==
    /\ call.step = "sending"
    /\ IF ~CanSend
       THEN /\ pending' = pending \ {call.id} /\ call' = NoCall
            /\ UNCHANGED stdin
       ELSE /\ Sends(call.id, call.op)
            /\ call' = [call EXCEPT !.step = "waiting"]
            /\ UNCHANGED pending
    /\ UNCHANGED <<hungUp, serving, jobs, run, stdout>>
    /\ UNCHANGED <<nextId, inbox, turn, turns, runners, watched, reader, closed, heard>>

RequestAnswered ==
    /\ call.step = "waiting"
    /\ call.id \in inbox
    /\ call' = NoCall /\ inbox' = inbox \ {call.id}
    /\ UNCHANGED serverVars
    /\ UNCHANGED <<nextId, pending, turn, turns, runners, watched, reader, closed, heard>>

RequestFails ==
    /\ call.step = "waiting"
    /\ \/ closed /\ UNCHANGED pending
       \/ pending' = pending \ {call.id}        \* the timer
    /\ call' = NoCall /\ inbox' = inbox \ {call.id}
    /\ UNCHANGED serverVars
    /\ UNCHANGED <<nextId, turn, turns, runners, watched, reader, closed, heard>>

-------------------------------------------------------------------------------
(* RunStreaming, in a goroutine of each prompt, and the UI that starts and      *)
(* leaves it                                                                    *)

\* submitPrompt: the goroutine allocates the id; keys do nothing else meanwhile.
Submit ==
    /\ call = NoCall /\ watched = 0 /\ nextId \in Ids /\ ~hungUp /\ ~closed
    /\ Cardinality(runners) < MaxRunners
    /\ Fresh
    /\ watched' = nextId
    /\ turn' = nextId
    /\ runners' = runners \cup {Runner(nextId, "submit")}
    /\ UNCHANGED serverVars
    /\ UNCHANGED <<pending, call, inbox, turns, reader, closed, heard>>

TurnSubmits(r) ==
    /\ r.step = "submit"
    /\ IF ~CanSend
       THEN Advances(r, "leave") /\ UNCHANGED stdin
       ELSE Advances(r, "drain") /\ Sends(r.id, "prompt")
    /\ UNCHANGED <<hungUp, serving, jobs, run, stdout>>
    /\ UNCHANGED <<nextId, pending, call, inbox, turn, turns, watched, reader, closed, heard>>

\* The next item, which an error or a consumer that has had enough makes the last.
TurnYields(r) ==
    /\ r.step = "drain"
    /\ turns[r.id].events # <<>>
    /\ turns' = [turns EXCEPT ![r.id].events = Tail(@)]
    /\ IF Head(turns[r.id].events) = "error"
       THEN Advances(r, "leave")
       ELSE UNCHANGED runners \/ Advances(r, "abort")
    /\ UNCHANGED serverVars
    /\ UNCHANGED <<nextId, pending, call, inbox, turn, watched, reader, closed, heard>>

\* The done channel is closed and the buffer drained, or the kernel has gone.
TurnOver(r) ==
    /\ r.step = "drain"
    /\ (turns[r.id].done /\ turns[r.id].events = <<>>) \/ closed
    /\ Advances(r, "leave")
    /\ UNCHANGED serverVars
    /\ UNCHANGED <<nextId, pending, call, inbox, turn, turns, watched, reader, closed, heard>>

\* cancelAgent: the UI no longer shows the turn, its goroutine will see ctx.Done.
Cancel ==
    /\ watched # 0
    /\ watched' = 0
    /\ UNCHANGED serverVars
    /\ UNCHANGED <<nextId, pending, call, inbox, turn, turns, runners, reader, closed, heard>>

TurnCancelled(r) ==
    /\ r.step = "drain" /\ r.id # watched
    /\ Advances(r, "abort")
    /\ UNCHANGED serverVars
    /\ UNCHANGED <<nextId, pending, call, inbox, turn, turns, watched, reader, closed, heard>>

\* sendAbort, which nobody waits for
SendAbort(r) ==
    /\ r.step = "abort"
    /\ Advances(r, "leave")
    /\ IF CanSend THEN nextId \in Ids /\ Fresh /\ Sends(nextId, "abort")
                  ELSE UNCHANGED <<nextId, stdin>>
    /\ UNCHANGED <<hungUp, serving, jobs, run, stdout>>
    /\ UNCHANGED <<pending, call, inbox, turn, turns, watched, reader, closed, heard>>

\* Mutant of OwnTurn: a leaving goroutine forgets whichever turn is active.
OwnTurnOrAny(r) == TRUE
OwnTurn(r) == turn = r.id

\* The deferred function, and the end of the iteration in the UI
TurnLeaves(r) ==
    /\ r.step = "leave"
    /\ runners' = runners \ {r}
    /\ turn' = IF OwnTurn(r) THEN 0 ELSE turn
    /\ watched' = IF watched = r.id THEN 0 ELSE watched
    \* What only a garbage collector sees is forgotten.
    /\ turns' = IF reader.turn = r.id THEN turns ELSE [turns EXCEPT ![r.id] = NewTurn]
    /\ UNCHANGED serverVars
    /\ UNCHANGED <<nextId, pending, call, inbox, reader, closed, heard>>

-------------------------------------------------------------------------------
(* Ends                                                                         *)

\* Close, or a crash of the kernel: what it has not written is lost.
KernelDies ==
    /\ serving # "gone" /\ serving # "killed"
    /\ serving' = "killed" /\ jobs' = {} /\ run' = NoRun /\ stdin' = <<>>
    /\ UNCHANGED <<hungUp, stdout>> /\ UNCHANGED clientVars

\* A client that waits for nothing more ends stdin and reads on.
InputEnds ==
    /\ ~hungUp /\ nextId > MaxIds /\ call = NoCall /\ runners = {}
    /\ hungUp' = TRUE
    /\ UNCHANGED <<stdin, serving, jobs, run, stdout>> /\ UNCHANGED clientVars

ReaderStep == DeliverResponse \/ HandleEvent \/ ReaderSends \/ ReaderEnds
RunnerStep(r) ==
    TurnSubmits(r) \/ TurnYields(r) \/ TurnOver(r) \/ TurnCancelled(r) \/ SendAbort(r) \/ TurnLeaves(r)
CallStep == RequestSent \/ RequestAnswered \/ RequestFails
ClientStep ==
    \/ ReaderStep \/ CallStep \/ \E r \in runners : RunnerStep(r)
    \/ \E op \in {"quick", "compact"} : Request(op)
    \/ Submit \/ Cancel

RpcInit == ServerInit /\ ClientInit
RpcNext == (ServerStep /\ UNCHANGED clientVars) \/ ClientStep \/ KernelDies \/ InputEnds
RpcSpec == RpcInit /\ [][RpcNext]_rpcVars

-------------------------------------------------------------------------------
(* Properties                                                                   *)

Sent == 1..nextId - 1
Occurs(seq, Test(_)) == Cardinality({i \in DOMAIN seq : Test(seq[i])})
Owing == {j \in jobs : j.op # "prompt" \/ j.step \in {"start", "begun", "refused", "failed"}}

\* Everything is of its kind and nobody waits for an id that was never given out.
RpcTypeOK ==
    /\ nextId \in 1..MaxIds + 1
    /\ serving \in {"serving", "closing", "gone", "killed"}
    /\ \A j \in jobs : j.id \in Sent
    /\ pending \subseteq Sent /\ turn \in Sent \cup {0} /\ watched \in Sent \cup {0}
    /\ run.of \in Sent \cup {0} /\ run.pieces \in 0..MaxPieces
    /\ \A t \in Ids : Len(turns[t].events) <= TurnBuffer

\* server.go:87-91: a line the server has taken is answered, and once, whatever ran
\* beside it, and a server that leaves by itself has answered every line before.
OneAnswerPerLine ==
    \A id \in Sent :
        LET answers == Cardinality(heard \cap {id})
                         + Occurs(stdout, LAMBDA l : l.type = "response" /\ l.id = id)
            owed == Occurs(stdin, LAMBDA c : c.id = id) + Cardinality({j \in Owing : j.id = id})
            unsent == \/ call.id = id /\ call.step = "sending"
                      \/ Runner(id, "submit") \in runners
        IN  /\ answers + owed <= 1
            /\ serving # "killed" /\ ~unsent => answers + owed = 1

\* rpcagent.go:798-826: a request that still waits has its answer coming: the line,
\* the server's goroutine, the response and the inbox are the places it can be.
RequestNotLost ==
    call.step = "waiting" /\ ~closed /\ serving \in {"serving", "closing"} =>
        \/ \E i \in DOMAIN stdin : stdin[i].id = call.id
        \/ \E j \in jobs : j.id = call.id
        \/ call.id \in pending /\ \E i \in DOMAIN stdout : stdout[i].id = call.id
        \/ call.id \in inbox

\* rpcagent.go:378-385: the turn on the screen is the one that events go to, until its
\* goroutine leaves, whichever earlier ones are still leaving.
WatchedIsActive == watched # 0 => turn = watched

\* rpcagent.go:29-34 says a turn is scoped to its own prompt, from its submission to
\* the event that closes it: no event of another prompt feeds or closes it.
OwnEvents ==
    [][ HandleEvent /\ turn # 0 => Head(stdout).id = turn ]_rpcVars

\* server.go and rpcagent.go: what the two ends of the pipes promise each other.
LinkSafe == OneAnswerPerLine /\ RequestNotLost /\ WatchedIsActive
===============================================================================
