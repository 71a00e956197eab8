------------------------------ MODULE Connections ------------------------------
(* Requests to the Codex service (ai/codex.go, ai/codex_ws.go).  A request goes *)
(* over a websocket, which a session keeps open between requests and on which   *)
(* only what is new is sent, or, if that fails before the first event, over SSE *)
(* with retries.  The conversation is a sequence of items; the service knows,   *)
(* per connection, the conversation that led to each of its responses.          *)
EXTENDS Naturals, Sequences, FiniteSets, SequencesExt

CONSTANTS
    Requests,      \* calls of Stream that may run at the same time
    Conns,         \* connections that may be open at the same time
    RequestKinds,         \* the transport of a request, and whether it has a SessionID
    Bodies,        \* what a request says besides its input
    SseAttempts,   \* codexMaxAttempts
    MaxRequests,   \* bound: requests made
    NoConn

ASSUME ConnectionAssumption ==
    /\ NoConn \notin Conns
    /\ SseAttempts \in Nat \ {0}
    /\ RequestKinds \subseteq [mode : {"auto", "websocket", "sse"}, named : BOOLEAN]

VARIABLES
    request,       \* the state of each call
    sources,       \* the transports whose events its consumer got
    conn,          \* the connections, and what the service knows of each
    entry,         \* the cache entry of each connection
    wsCache,       \* codexWSCache of the session
    wsFallback,    \* codexSSEFallbackSessions
    conversation,  \* the session's history as input items
    requestCount

connectionVars == <<request, sources, conn, entry, wsCache, wsFallback, conversation,
                    requestCount>>

\* An item of a conversation: the prompt of the n-th request, or its answer.
TurnItem(who, n) == <<who, n>>
NoContinuation == [id |-> 0, body |-> "none", input |-> <<>>, items |-> <<>>]
NoRequest == [pc |-> "idle", mode |-> "auto", named |-> TRUE, body |-> "none",
              input |-> <<>>, attempt |-> 0, cancelled |-> FALSE,
              conn |-> NoConn, cached |-> FALSE]
NoConnection == [state |-> "closed", served |-> <<>>]
NoEntry == [busy |-> FALSE, timer |-> FALSE, fired |-> 0, continuation |-> NoContinuation]

ConnectionInit ==
    /\ request = [r \in Requests |-> NoRequest]
    /\ sources = [r \in Requests |-> {}]
    /\ conn = [c \in Conns |-> NoConnection]
    /\ entry = [c \in Conns |-> NoEntry]
    /\ wsCache = NoConn
    /\ wsFallback = FALSE
    /\ conversation = <<>>
    /\ requestCount = 0

At(r, pcs) == request[r].pc \in pcs
HeldBy(r) == request[r].conn
InUse == {HeldBy(r) : r \in Requests} \ {NoConn}

\* Did the consumer get an event of the websocket (emitted in streamCodexAuto)?
Emitted(r) == "websocket" \in sources[r]
Yield(r, transport) == sources' = [sources EXCEPT ![r] = @ \cup {transport}]

Goes(r, pc) == request' = [request EXCEPT ![r].pc = pc]
RequestEnds(r) == request' = [request EXCEPT ![r] = NoRequest]

-------------------------------------------------------------------------------
\* The caller.

\* A request: the conversation so far and one more item.  codexSSEFallbackActive
\* decides where it starts.
AskModel(r) ==
    /\ At(r, {"idle"}) /\ requestCount < MaxRequests
    /\ requestCount' = requestCount + 1
    /\ \E kind \in RequestKinds, body \in Bodies :
          request' = [request EXCEPT ![r] =
              [NoRequest EXCEPT
                  !.pc = IF kind.mode = "sse" \/ (kind.named /\ wsFallback) THEN "sse"
                         ELSE "acquire",
                  !.mode = kind.mode, !.named = kind.named, !.body = body,
                  !.input = Append(conversation, TurnItem("prompt", requestCount + 1))]]
    /\ sources' = [sources EXCEPT ![r] = {}]
    /\ UNCHANGED <<conn, entry, wsCache, wsFallback, conversation>>

\* The context is done.  FinishSSE covers what that does to an answer over SSE.
CancelRequest(r) ==
    /\ ~At(r, {"idle", "sse events"}) /\ ~request[r].cancelled
    /\ request' = [request EXCEPT ![r].cancelled = TRUE]
    /\ UNCHANGED <<sources, conn, entry, wsCache, wsFallback, conversation, requestCount>>

\* The branch is rewound or compacted (bound: while a request may follow).
RewindConversation ==
    /\ conversation # <<>> /\ requestCount < MaxRequests
    /\ conversation' = Front(conversation)
    /\ UNCHANGED <<request, sources, conn, entry, wsCache, wsFallback, requestCount>>

\* The caller appends the answer to the conversation it asked about, unless that
\* has changed or the request was for something else, a summary for example.
Appended(r) ==
    LET prompt == Last(request[r].input) IN
    \/ UNCHANGED conversation
    \/ /\ request[r].input = Append(conversation, prompt)
       /\ conversation' = Append(request[r].input, TurnItem("answer", prompt[2]))

-------------------------------------------------------------------------------
\* acquireCodexWebSocket and dialCodexWebSocket.

\* What the consumer gets when the websocket fails: the error if it had events
\* already, else the request is made again over SSE, as are all that follow.
\* Mutant of AfterFailure: it is always made again.
AfterFailureAlways(r) == [request[r] EXCEPT !.pc = "sse", !.conn = NoConn, !.cached = FALSE]
AfterFailure(r) ==
    IF Emitted(r) THEN NoRequest
    ELSE [request[r] EXCEPT !.pc = "sse", !.conn = NoConn, !.cached = FALSE]

FallBack(r) ==
    /\ request' = [request EXCEPT ![r] = AfterFailure(r)]
    /\ wsFallback' = (wsFallback \/ (~Emitted(r) /\ request[r].named))

\* A hook refuses the payload, before a connection is asked for.
PayloadRefused(r) ==
    /\ At(r, {"acquire"})
    /\ FallBack(r)
    /\ UNCHANGED <<sources, conn, entry, wsCache, conversation, requestCount>>

\* The first critical section: an idle connection of the session is taken;
\* while it is busy another is dialled, which is not cached.
\* Mutant of MayReuse: busy connections are taken as well.
MayReuseBusy(c) == c # NoConn
MayReuse(c) == c # NoConn /\ ~entry[c].busy

Acquire(r) ==
    /\ At(r, {"acquire"})
    /\ IF request[r].named /\ MayReuse(wsCache)
         THEN /\ entry' = [entry EXCEPT ![wsCache].timer = FALSE, ![wsCache].busy = TRUE]
              /\ request' = [request EXCEPT ![r].pc = "send", ![r].conn = wsCache,
                                            ![r].cached = TRUE]
         ELSE /\ Goes(r, IF request[r].named /\ wsCache = NoConn THEN "dial to cache"
                         ELSE "dial")
              /\ UNCHANGED entry
    /\ UNCHANGED <<sources, conn, wsCache, wsFallback, conversation, requestCount>>

\* Which of the connections that are not open is dialled makes no difference.
Unopened == {c \in Conns \ InUse : conn[c] = NoConnection /\ entry[c] = NoEntry}
NewConnection == CHOOSE c \in Unopened : TRUE

\* A dial, which streamCodexAuto does not retry.  Of two that are cached the
\* later one takes the place of the other.
Dial(r) ==
    /\ Unopened # {}
    /\ \E toCache \in BOOLEAN :
          LET c == NewConnection IN
          /\ At(r, {IF toCache THEN "dial to cache" ELSE "dial"})
          /\ conn' = [conn EXCEPT ![c].state = "open"]
          /\ IF toCache
               THEN wsCache' = c /\ entry' = [entry EXCEPT ![c].busy = TRUE]
               ELSE UNCHANGED <<wsCache, entry>>
          /\ request' = [request EXCEPT ![r].pc = "send", ![r].conn = c,
                                        ![r].cached = toCache]
    /\ UNCHANGED <<sources, wsFallback, conversation, requestCount>>

\* The dial fails or is rejected; a request that is cancelled ends with an event.
DialFails(r) ==
    /\ At(r, {"dial", "dial to cache"})
    /\ IF request[r].cancelled
         THEN RequestEnds(r) /\ Yield(r, "websocket") /\ UNCHANGED wsFallback
         ELSE FallBack(r) /\ UNCHANGED sources
    /\ UNCHANGED <<conn, entry, wsCache, conversation, requestCount>>

-------------------------------------------------------------------------------
\* A request on a connection.

\* buildCachedCodexWSRequest: may only the new items be sent?
\* Mutant of Extends: the answer that is remembered is not looked for.
ExtendsInput(r, was) ==
    /\ was.id # 0
    /\ was.body = request[r].body
    /\ IsPrefix(was.input, request[r].input)
Extends(r, was) ==
    /\ was.id # 0
    /\ was.body = request[r].body
    /\ IsPrefix(was.input \o was.items, request[r].input)

UsesContinuation(r) == request[r].mode = "auto" /\ request[r].cached

\* conn.Write.  What the service takes as the conversation: all that is sent,
\* after the conversation of the response that previous_response_id names.
Send(r) ==
    LET c == HeldBy(r)
        was == entry[c].continuation
        input == request[r].input
        delta == SubSeq(input, Len(was.input \o was.items) + 1, Len(input))
    IN  /\ At(r, {"send"}) /\ conn[c].state = "open"
        /\ IF UsesContinuation(r) /\ Extends(r, was)
             THEN /\ conn' = [conn EXCEPT ![c].served =
                                  Append(@, conn[c].served[was.id] \o delta)]
                  /\ UNCHANGED entry
             ELSE /\ conn' = [conn EXCEPT ![c].served = Append(@, input)]
                  /\ entry' = IF UsesContinuation(r)
                                THEN [entry EXCEPT ![c].continuation = NoContinuation]
                                ELSE entry
        /\ Goes(r, "receive")
        /\ UNCHANGED <<sources, wsCache, wsFallback, conversation, requestCount>>

\* An event reaches the consumer.
Receive(r) ==
    /\ At(r, {"receive"}) /\ ~Emitted(r) /\ conn[HeldBy(r)].state = "open"
    /\ Yield(r, "websocket")
    /\ UNCHANGED <<request, conn, entry, wsCache, wsFallback, conversation, requestCount>>

\* The connection is closed and is in the cache no more.  A closed connection is
\* garbage once no timer refers to it.
Close(c) ==
    /\ conn' = [conn EXCEPT ![c] = NoConnection]
    /\ wsCache' = IF wsCache = c THEN NoConn ELSE wsCache

\* The write or a read fails, the response is a failure, or the consumer stops:
\* the connection is not kept.  When the context is done the consumer gets an
\* event, otherwise an error.
RequestBreaks(r) ==
    /\ At(r, {"send", "receive"})
    /\ Close(HeldBy(r))
    /\ entry' = [entry EXCEPT ![HeldBy(r)] =
                    [NoEntry EXCEPT !.fired = entry[HeldBy(r)].fired]]
    /\ \/ ~request[r].cancelled /\ FallBack(r) /\ UNCHANGED sources
       \/ /\ request[r].cancelled \/ (At(r, {"receive"}) /\ conn[HeldBy(r)].state = "open")
          /\ RequestEnds(r) /\ Yield(r, "websocket")
          /\ UNCHANGED wsFallback
    /\ UNCHANGED <<conversation, requestCount>>

\* What is kept of a response for the requests that follow: what its message
\* will be in them (codexContinuationItems).
\* Mutant of Remembered: the items of the response are left out.
RememberedWithoutItems(r, id) ==
    [id |-> id, body |-> request[r].body, input |-> request[r].input, items |-> <<>>]
Remembered(r, id) ==
    [id |-> id, body |-> request[r].body, input |-> request[r].input,
     items |-> <<TurnItem("answer", Last(request[r].input)[2])>>]

\* The response is complete, with or without an id, and the connection goes back
\* to the cache if it came from there and the context is not done by now.
Complete(r) ==
    LET c == HeldBy(r)
        id == Len(conn[c].served)
        kept == request[r].cached /\ ~request[r].cancelled
    IN  /\ At(r, {"receive"}) /\ Emitted(r) /\ conn[c].state = "open"
        /\ IF kept
             THEN /\ \E continuation \in
                         {NoContinuation,
                          IF UsesContinuation(r) THEN Remembered(r, id)
                          ELSE entry[c].continuation} :
                        entry' = [entry EXCEPT ![c] = [@ EXCEPT
                            !.busy = FALSE, !.timer = TRUE, !.continuation = continuation]]
                  /\ conn' = [conn EXCEPT ![c].served[id] =
                                  Append(@, TurnItem("answer", Last(request[r].input)[2]))]
                  /\ UNCHANGED wsCache
             ELSE /\ Close(c)
                  /\ entry' = [entry EXCEPT ![c] = [NoEntry EXCEPT !.fired = entry[c].fired]]
        /\ Appended(r)
        /\ RequestEnds(r)
        /\ UNCHANGED <<sources, wsFallback, requestCount>>

-------------------------------------------------------------------------------
\* Idle connections.

\* The idle timer fires, and its function waits for the lock.
IdleTimerFires(c) ==
    /\ entry[c].timer
    /\ entry' = [entry EXCEPT ![c].timer = FALSE, ![c].fired = @ + 1]
    /\ UNCHANGED <<request, sources, conn, wsCache, wsFallback, conversation, requestCount>>

\* A connection that is in use again is left alone.
\* Mutant of Expires: it is not looked at.
ExpiresAnyway(c) == TRUE
Expires(c) == ~entry[c].busy

IdleTimerRuns(c) ==
    /\ entry[c].fired > 0
    /\ IF Expires(c)
         THEN /\ Close(c)
              /\ entry' = [entry EXCEPT ![c] = [NoEntry EXCEPT
                              !.timer = entry[c].timer, !.fired = entry[c].fired - 1]]
         ELSE /\ entry' = [entry EXCEPT ![c].fired = @ - 1]
              /\ UNCHANGED <<conn, wsCache>>
    /\ UNCHANGED <<request, sources, wsFallback, conversation, requestCount>>

\* The service closes a connection.
ServiceLeaves(c) ==
    /\ conn[c].state = "open"
    /\ conn' = [conn EXCEPT ![c].state = "dead"]
    /\ UNCHANGED <<request, sources, entry, wsCache, wsFallback, conversation, requestCount>>

-------------------------------------------------------------------------------
\* streamCodexSSE.

\* An attempt is answered, or fails for now, or ends the request: with an event
\* (a refusal of the service, or the context is done) or with an error.
AttemptSSE(r) ==
    /\ At(r, {"sse"})
    /\ \/ Goes(r, "sse events") /\ UNCHANGED sources
       \/ /\ ~request[r].cancelled /\ request[r].attempt + 1 < SseAttempts
          /\ request' = [request EXCEPT ![r].attempt = @ + 1]
          /\ UNCHANGED sources
       \/ RequestEnds(r) /\ Yield(r, "sse")
       \/ ~request[r].cancelled /\ RequestEnds(r) /\ UNCHANGED sources
    /\ UNCHANGED <<conn, entry, wsCache, wsFallback, conversation, requestCount>>

FinishSSE(r) ==
    /\ At(r, {"sse events"})
    /\ Yield(r, "sse")
    /\ Appended(r)
    /\ RequestEnds(r)
    /\ UNCHANGED <<conn, entry, wsCache, wsFallback, requestCount>>

ConnectionNext ==
    \/ \E r \in Requests :
          \/ AskModel(r) \/ CancelRequest(r) \/ PayloadRefused(r)
          \/ Acquire(r) \/ Dial(r) \/ DialFails(r)
          \/ Send(r) \/ Receive(r) \/ RequestBreaks(r) \/ Complete(r)
          \/ AttemptSSE(r) \/ FinishSSE(r)
    \/ \E c \in Conns : IdleTimerFires(c) \/ IdleTimerRuns(c) \/ ServiceLeaves(c)
    \/ RewindConversation

ConnectionSpec == ConnectionInit /\ [][ConnectionNext]_connectionVars

-------------------------------------------------------------------------------
\* Properties.

\* Types of the state of requests, connections and cache.
ConnectionTypeOK ==
    /\ \A r \in Requests :
          /\ At(r, {"idle", "acquire", "dial", "dial to cache", "send", "receive", "sse",
                    "sse events"})
          /\ HeldBy(r) \in Conns \cup {NoConn}
    /\ \A c \in Conns : conn[c].state \in {"open", "dead", "closed"} /\ entry[c].fired \in Nat
    /\ wsCache \in Conns \cup {NoConn}
    /\ wsFallback \in BOOLEAN

\* A connection serves one request at a time and is not closed under it, neither
\* by another request of the session nor by an idle timer that was stopped too
\* late; one that nobody uses has a timer that will close it, also when two
\* first requests dialled at once and one entry took the other's place.
ConnectionsOwned ==
    /\ \A r, q \in Requests : r # q /\ HeldBy(r) # NoConn => HeldBy(r) # HeldBy(q)
    /\ \A c \in InUse : conn[c].state # "closed"
    /\ \A c \in Conns \ InUse : conn[c].state # "closed" => entry[c].timer \/ entry[c].fired > 0

\* Whatever earlier requests on the connection did, and however the branch was
\* changed, what the service takes as the conversation is the whole input of the
\* request, although only its new items may have been sent; and the events a
\* consumer gets come from one transport.
AnswersWholeInput ==
    \A r \in Requests :
        /\ At(r, {"receive"}) => Last(conn[HeldBy(r)].served) = request[r].input
        /\ Cardinality(sources[r]) <= 1

\* codex_ws.go: what keeping a connection for the next request must not break.
ConnectionsSafe == ConnectionsOwned /\ AnswersWholeInput
===============================================================================
