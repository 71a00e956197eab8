------------------------------ MODULE WiresProofs ------------------------------
(* Theorems about what is kept open: the websocket that requests share           *)
(* (Connections), and the pipes between an RPC client and its server (RpcServer,  *)
(* RpcClient). For any number of requests, connections, commands and goroutines.  *)
EXTENDS MCWires, SequenceTheorems, FiniteSetTheorems, TLAPS

(* The socket                                                                   *)

\* The values of the socket's variables.
Item == {"prompt", "answer"} \X Nat
RequestSteps == {"idle", "acquire", "dial", "dial to cache", "send", "receive", "sse", "sse events"}
RequestStates ==
    [pc : RequestSteps, mode : {"auto", "websocket", "sse"}, named : BOOLEAN,
     body : Bodies \cup {"none"}, input : Seq(Item), attempt : Nat, cancelled : BOOLEAN,
     conn : Conns \cup {NoConn}, cached : BOOLEAN]
ConnStates == [state : {"open", "dead", "closed"}, served : Seq(Seq(Item))]
Continuations == [id : Nat, body : Bodies \cup {"none"}, input : Seq(Item), items : Seq(Item)]
EntryStates == [busy : BOOLEAN, timer : BOOLEAN, fired : Nat, continuation : Continuations]

\* What every step needs to know of its variables, and a request has an input.
RequestTypes ==
    /\ request \in [Requests -> RequestStates]
    /\ \A r \in Requests : request[r].pc # "idle" => request[r].input # <<>>
CacheTypes ==
    /\ conn \in [Conns -> ConnStates]
    /\ entry \in [Conns -> EntryStates]
    /\ wsCache \in Conns \cup {NoConn}
    /\ wsFallback \in BOOLEAN
TalkTypes == conversation \in Seq(Item) /\ requestCount \in Nat

\* A held connection is one; that a sending or receiving request holds one is HoldingOK.
HeldIsOne == \A r \in Requests : request[r].pc \in {"send", "receive"} => request[r].conn \in Conns

SocketTypes == RequestTypes /\ CacheTypes /\ TalkTypes /\ HeldIsOne
                 /\ sources \in [Requests -> SUBSET {"websocket", "sse"}]

\* Who holds a connection, and as what.
HoldingOK ==
    /\ \A r \in Requests : HeldBy(r) # NoConn <=> At(r, {"send", "receive"})
    /\ \A r, q \in Requests : r # q /\ HeldBy(r) # NoConn => HeldBy(r) # HeldBy(q)
    /\ \A r \in Requests : HeldBy(r) # NoConn =>
          IF request[r].cached THEN entry[HeldBy(r)].busy
          ELSE entry[HeldBy(r)] = NoEntry /\ wsCache # HeldBy(r)

\* Connections that are held or cached are there; those that nobody holds are not
\* busy, and a timer will close them.
KeepingOK ==
    /\ \A r \in Requests : HeldBy(r) # NoConn => conn[HeldBy(r)].state # "closed"
    /\ wsCache # NoConn => conn[wsCache].state # "closed"
    /\ \A c \in Conns : c \notin InUse =>
          /\ ~entry[c].busy
          /\ conn[c].state # "closed" => entry[c].timer \/ entry[c].fired > 0

\* What is remembered of a response is what the service knows of it.
ContinuationOK ==
    /\ \A c \in Conns : LET was == entry[c].continuation IN
          was.id # 0 => /\ was.id \in 1..Len(conn[c].served)
                        /\ conn[c].served[was.id] = was.input \o was.items
    /\ \A r \in Requests : At(r, {"receive"}) =>
          LET served == conn[HeldBy(r)].served IN
          /\ entry[HeldBy(r)].continuation.id < Len(served)
          /\ served[Len(served)] = request[r].input

\* A transport is asked once the other has given nothing.
SourcesOK ==
    \A r \in Requests :
        /\ At(r, {"acquire", "dial", "dial to cache", "send", "sse", "sse events"}) => sources[r] = {}
        /\ At(r, {"receive"}) => sources[r] \in {{}, {"websocket"}}
        /\ At(r, {"idle"}) => sources[r] \in {{}, {"websocket"}, {"sse"}}

\* The initial values have their types.
LEMMA NoneTyped ==
  /\ NoContinuation \in Continuations
  /\ NoEntry \in EntryStates
  /\ NoConnection \in ConnStates
  /\ NoRequest \in RequestStates
  /\ NoRequest.pc = "idle" /\ NoRequest.conn = NoConn
<1>1. <<>> \in Seq(Item) /\ <<>> \in Seq(Seq(Item))
  BY EmptySeq
<1>. QED
  BY <1>1 DEF NoContinuation, Continuations, NoEntry, EntryStates, NoConnection, ConnStates,
          NoRequest, RequestStates, RequestSteps

\* One request takes another state, the others stay.
LEMMA OneRequestMoves ==
  ASSUME RequestTypes, HeldIsOne, NEW r \in Requests, NEW q \in RequestStates,
         q.pc # "idle" => q.input # <<>>,
         q.pc \in {"send", "receive"} => q.conn \in Conns,
         request' = [request EXCEPT ![r] = q]
  PROVE  RequestTypes' /\ HeldIsOne'
  BY DEF RequestTypes, HeldIsOne

\* A request that is over leaves the types.
LEMMA RequestEndsTypes ==
  ASSUME RequestTypes, HeldIsOne, NEW r \in Requests, RequestEnds(r)
  PROVE  RequestTypes' /\ HeldIsOne'
  BY NoneTyped, OneRequestMoves DEF RequestEnds

\* So does one that goes over to SSE, or gives up.
LEMMA FallBackTypes ==
  ASSUME RequestTypes, HeldIsOne, wsFallback \in BOOLEAN, NEW r \in Requests, FallBack(r), request[r].pc # "idle"
  PROVE  RequestTypes' /\ HeldIsOne' /\ wsFallback' \in BOOLEAN
<1>1. AfterFailure(r) \in RequestStates
  BY NoneTyped DEF AfterFailure, RequestTypes, RequestStates, RequestSteps
<1>2. AfterFailure(r).pc # "idle" => AfterFailure(r).input # <<>>
  BY NoneTyped DEF AfterFailure, RequestTypes, RequestStates
<1>3. AfterFailure(r).pc \notin {"send", "receive"}
  BY NoneTyped DEF AfterFailure, RequestTypes, RequestStates
<1>. QED
  BY <1>1, <1>2, <1>3, OneRequestMoves DEF FallBack, RequestTypes, RequestStates

\* Closing keeps a connection one, and forgets it at most.
LEMMA CloseTypes ==
  ASSUME CacheTypes, NEW c \in Conns, Close(c)
  PROVE  conn' \in [Conns -> ConnStates] /\ wsCache' \in Conns \cup {NoConn}
  BY NoneTyped DEF CacheTypes, Close

\* The step to a place that holds no connection, or keeps the one it has.
LEMMA GoesTypes ==
  ASSUME RequestTypes, HeldIsOne, NEW r \in Requests, NEW pc \in RequestSteps, Goes(r, pc),
         request[r].pc # "idle", pc \in {"send", "receive"} => request[r].conn \in Conns
  PROVE  RequestTypes' /\ HeldIsOne'
<1>1. [request[r] EXCEPT !.pc = pc] \in RequestStates
  BY DEF RequestTypes, RequestStates
<1>2. request' = [request EXCEPT ![r] = [request[r] EXCEPT !.pc = pc]]
  BY DEF Goes, RequestTypes
<1>. QED
  BY <1>1, <1>2, OneRequestMoves DEF RequestTypes, RequestStates

\* What a transport has yielded is a transport.
LEMMA YieldTypes ==
  ASSUME SocketTypes, NEW r \in Requests, NEW transport \in {"websocket", "sse"}, Yield(r, transport)
  PROVE  sources' \in [Requests -> SUBSET {"websocket", "sse"}]
  BY DEF Yield, SocketTypes

\* One entry of the cache takes another value.
LEMMA OneEntryChanges ==
  ASSUME CacheTypes, NEW c \in Conns, NEW e \in EntryStates, entry' = [entry EXCEPT ![c] = e]
  PROVE  entry' \in [Conns -> EntryStates]
  BY DEF CacheTypes

\* An entry that is closed is empty but for its timer.
LEMMA ForgottenTyped ==
  ASSUME NEW n \in Nat, NEW timer \in BOOLEAN
  PROVE  /\ [NoEntry EXCEPT !.fired = n] \in EntryStates
         /\ [NoEntry EXCEPT !.timer = timer, !.fired = n] \in EntryStates
  BY NoneTyped DEF NoEntry, EntryStates

\* The conversation grows by the last input and the answer.
LEMMA AppendedTypes ==
  ASSUME SocketTypes, NEW r \in Requests, Appended(r), request[r].pc # "idle"
  PROVE  conversation' \in Seq(Item)
<1>1. request[r].input \in Seq(Item) /\ request[r].input # <<>>
  BY DEF SocketTypes, RequestTypes, RequestStates
<1>2. Last(request[r].input) \in Item
  BY <1>1, EmptySeq, ElementOfSeq DEF Last
<1>3. TurnItem("answer", Last(request[r].input)[2]) \in Item
  BY <1>2 DEF Item, TurnItem
<1>4. CASE UNCHANGED conversation
  BY <1>4 DEF SocketTypes, TalkTypes
<1>5. CASE conversation' = Append(request[r].input, TurnItem("answer", Last(request[r].input)[2]))
  BY <1>5, <1>1, <1>3, AppendProperties
<1>. QED
  BY <1>4, <1>5 DEF Appended

\* A request that has got a connection.
Holding(q, c, cached) == [[[q EXCEPT !.pc = "send"] EXCEPT !.conn = c] EXCEPT !.cached = cached]

LEMMA HoldingTyped ==
  ASSUME NEW q \in RequestStates, NEW c \in Conns, NEW cached \in BOOLEAN
  PROVE  /\ Holding(q, c, cached) \in RequestStates
         /\ Holding(q, c, cached).pc = "send" /\ Holding(q, c, cached).conn = c
         /\ Holding(q, c, cached).input = q.input
<1>1. [q EXCEPT !.pc = "send"] \in RequestStates
  BY DEF RequestStates, RequestSteps
<1>2. PICK q1 \in RequestStates : q1 = [q EXCEPT !.pc = "send"]
  BY <1>1
<1>3. [q1 EXCEPT !.conn = c] \in RequestStates
  BY DEF RequestStates
<1>4. PICK q2 \in RequestStates : q2 = [q1 EXCEPT !.conn = c]
  BY <1>3
<1>5. [q2 EXCEPT !.cached = cached] \in RequestStates
  BY DEF RequestStates
<1>6. PICK q3 \in RequestStates : q3 = [q2 EXCEPT !.cached = cached]
  BY <1>5
<1>7. q3.pc = "send" /\ q3.conn = c /\ q3.input = q.input
  BY <1>2, <1>4, <1>6 DEF RequestStates
<1>8. q3 = Holding(q, c, cached)
  BY <1>2, <1>4, <1>6 DEF Holding
<1>. QED
  BY <1>7, <1>8

\* From here on one lemma for each step: it keeps the types.
LEMMA AskModelTypes ==
  ASSUME SocketTypes, ConnectionAssumption, NEW r \in Requests, AskModel(r) PROVE SocketTypes'
<1>1. PICK kind \in RequestKinds, body \in Bodies :
          request' = [request EXCEPT ![r] =
              [NoRequest EXCEPT
                  !.pc = IF kind.mode = "sse" \/ (kind.named /\ wsFallback) THEN "sse"
                         ELSE "acquire",
                  !.mode = kind.mode, !.named = kind.named, !.body = body,
                  !.input = Append(conversation, TurnItem("prompt", requestCount + 1))]]
  BY DEF AskModel
<1>2. TurnItem("prompt", requestCount + 1) \in Item
  BY DEF SocketTypes, TalkTypes, TurnItem, Item
<1>3. PICK input : input = Append(conversation, TurnItem("prompt", requestCount + 1))
  OBVIOUS
<1>4. input \in Seq(Item) /\ input # <<>>
  BY <1>2, <1>3, AppendProperties, EmptySeq DEF SocketTypes, TalkTypes
<1>5. kind.mode \in {"auto", "websocket", "sse"} /\ kind.named \in BOOLEAN
  BY DEF ConnectionAssumption
<1>6. PICK pc \in {"sse", "acquire"} : pc = IF kind.mode = "sse" \/ (kind.named /\ wsFallback) THEN "sse" ELSE "acquire"
  OBVIOUS
<1>7. PICK q : q = [NoRequest EXCEPT !.pc = pc, !.mode = kind.mode, !.named = kind.named, !.body = body,
                  !.input = input]
  OBVIOUS
<1>8. q \in RequestStates /\ q.pc = pc /\ q.input = input
  BY <1>4, <1>5, <1>7, NoneTyped DEF NoRequest, RequestStates, RequestSteps
<1>9. request' = [request EXCEPT ![r] = q]
  BY <1>1, <1>3, <1>6, <1>7
<1>10. RequestTypes' /\ HeldIsOne'
  BY <1>4, <1>8, <1>9, OneRequestMoves DEF SocketTypes
<1>. QED
  BY <1>10 DEF AskModel, SocketTypes, CacheTypes, TalkTypes

LEMMA CancelRequestTypes ==
  ASSUME SocketTypes, NEW r \in Requests, CancelRequest(r) PROVE SocketTypes'
<1>1. [request[r] EXCEPT !.cancelled = TRUE] \in RequestStates
  BY DEF SocketTypes, RequestTypes, RequestStates
<1>2. request' = [request EXCEPT ![r] = [request[r] EXCEPT !.cancelled = TRUE]]
  BY DEF CancelRequest
<1>3. RequestTypes' /\ HeldIsOne'
  BY <1>1, <1>2, OneRequestMoves DEF SocketTypes, RequestTypes, RequestStates, HeldIsOne
<1>. QED
  BY <1>3 DEF CancelRequest, SocketTypes, CacheTypes, TalkTypes

LEMMA RewindTypes == ASSUME SocketTypes, RewindConversation PROVE SocketTypes'
<1>1. conversation \in Seq(Item) /\ Len(conversation) \in Nat
  BY LenProperties DEF SocketTypes, TalkTypes
<1>2. \A i \in 1..Len(conversation) - 1 : conversation[i] \in Item
  BY <1>1, ElementOfSeq
<1>3. Front(conversation) \in Seq(Item)
  BY <1>1, <1>2, SubSeqProperties DEF Front
<1>. QED
  BY <1>3 DEF RewindConversation, SocketTypes, CacheTypes, TalkTypes, RequestTypes, HeldIsOne

LEMMA PayloadRefusedTypes ==
  ASSUME SocketTypes, NEW r \in Requests, PayloadRefused(r) PROVE SocketTypes'
<1>1. RequestTypes' /\ HeldIsOne' /\ wsFallback' \in BOOLEAN
  BY FallBackTypes DEF PayloadRefused, SocketTypes, CacheTypes, At
<1>. QED
  BY <1>1 DEF PayloadRefused, SocketTypes, CacheTypes, TalkTypes

LEMMA AcquireTypes ==
  ASSUME SocketTypes, NEW r \in Requests, Acquire(r) PROVE SocketTypes'
<1>1. request[r].pc = "acquire"
  BY DEF Acquire, At
<1>2. CASE request[r].named /\ MayReuse(wsCache)
  <2>1. wsCache \in Conns
    BY <1>2 DEF MayReuse, SocketTypes, CacheTypes
  <2>2. PICK q : q = Holding(request[r], wsCache, TRUE)
    OBVIOUS
  <2>2a. request[r] \in RequestStates
    BY DEF SocketTypes, RequestTypes
  <2>2b. \A k \in BOOLEAN : LET h == Holding(request[r], wsCache, k) IN
            h \in RequestStates /\ h.conn = wsCache /\ h.input = request[r].input
    BY <2>1, <2>2a, HoldingTyped
  <2>3. q \in RequestStates /\ q.conn = wsCache /\ q.input = request[r].input
    BY <2>2, <2>2b
  <2>4. request' = [request EXCEPT ![r] = q]
    BY <1>2, <2>2 DEF Acquire, SocketTypes, RequestTypes, Holding
  <2>5. RequestTypes' /\ HeldIsOne'
    BY <1>1, <2>1, <2>3, <2>4, OneRequestMoves DEF SocketTypes, RequestTypes
  <2>6. entry' \in [Conns -> EntryStates]
    <3>1. PICK e : e = [[entry[wsCache] EXCEPT !.timer = FALSE] EXCEPT !.busy = TRUE]
      OBVIOUS
    <3>2. e \in EntryStates
      BY <2>1, <3>1 DEF SocketTypes, CacheTypes, EntryStates
    <3>3. entry' = [entry EXCEPT ![wsCache] = e]
      BY <1>2, <2>1, <3>1 DEF Acquire, SocketTypes, CacheTypes
    <3>. QED
      BY <3>2, <3>3 DEF SocketTypes, CacheTypes
  <2>. QED
    BY <2>5, <2>6 DEF Acquire, SocketTypes, CacheTypes, TalkTypes
<1>3. CASE ~(request[r].named /\ MayReuse(wsCache))
  <2>1. RequestTypes' /\ HeldIsOne'
    BY <1>1, <1>3, GoesTypes DEF Acquire, SocketTypes, RequestSteps
  <2>. QED
    BY <1>3, <2>1 DEF Acquire, SocketTypes, CacheTypes, TalkTypes
<1>. QED
  BY <1>2, <1>3

LEMMA DialTypes ==
  ASSUME SocketTypes, NEW r \in Requests, Dial(r) PROVE SocketTypes'
<1>1. PICK c \in Unopened : c = NewConnection
  BY DEF Dial, NewConnection
<1>2. c \in Conns
  BY <1>1 DEF Unopened
<1>3. PICK toCache \in BOOLEAN :
          /\ At(r, {IF toCache THEN "dial to cache" ELSE "dial"})
          /\ conn' = [conn EXCEPT ![c].state = "open"]
          /\ IF toCache THEN wsCache' = c /\ entry' = [entry EXCEPT ![c].busy = TRUE]
                        ELSE UNCHANGED <<wsCache, entry>>
          /\ request' = [request EXCEPT ![r].pc = "send", ![r].conn = c, ![r].cached = toCache]
  BY <1>1 DEF Dial
<1>4. PICK q : q = Holding(request[r], c, toCache)
  OBVIOUS
<1>5. q \in RequestStates /\ q.pc = "send" /\ q.conn = c /\ q.input = request[r].input
  BY <1>2, <1>4, HoldingTyped DEF SocketTypes, RequestTypes
<1>6. request' = [request EXCEPT ![r] = q]
  BY <1>3, <1>4 DEF SocketTypes, RequestTypes, Holding
<1>6a. request[r].pc # "idle"
  BY <1>3 DEF At
<1>7. RequestTypes' /\ HeldIsOne'
  BY <1>2, <1>5, <1>6, <1>6a, OneRequestMoves DEF SocketTypes, RequestTypes
<1>8. conn' \in [Conns -> ConnStates]
  BY <1>2, <1>3 DEF SocketTypes, CacheTypes, ConnStates
<1>9. wsCache' \in Conns \cup {NoConn} /\ entry' \in [Conns -> EntryStates]
  <2>1. CASE toCache
    BY <1>2, <1>3, <2>1 DEF SocketTypes, CacheTypes, EntryStates
  <2>2. CASE ~toCache
    BY <1>3, <2>2 DEF SocketTypes, CacheTypes
  <2>. QED
    BY <2>1, <2>2
<1>. QED
  BY <1>7, <1>8, <1>9 DEF Dial, SocketTypes, CacheTypes, TalkTypes

LEMMA DialFailsTypes ==
  ASSUME SocketTypes, NEW r \in Requests, DialFails(r) PROVE SocketTypes'
<1>1. request[r].pc # "idle"
  BY DEF DialFails, At
<1>2. CASE RequestEnds(r) /\ Yield(r, "websocket") /\ UNCHANGED wsFallback
  BY <1>2, RequestEndsTypes, YieldTypes DEF DialFails, SocketTypes, CacheTypes, TalkTypes
<1>3. CASE FallBack(r) /\ UNCHANGED sources
  BY <1>1, <1>3, FallBackTypes DEF DialFails, SocketTypes, CacheTypes, TalkTypes
<1>. QED
  BY <1>2, <1>3 DEF DialFails

\* What is left of a sequence behind another one's length.
LEMMA RestTyped ==
  ASSUME NEW S, NEW s \in Seq(S), NEW t \in Seq(S)
  PROVE  SubSeq(t, Len(s) + 1, Len(t)) \in Seq(S)
<1>1. Len(s) \in Nat /\ Len(t) \in Nat /\ \A i \in 1..Len(t) : t[i] \in S
  BY LenProperties, ElementOfSeq
<1>2. PICK m \in Nat, n \in Nat : m = Len(s) + 1 /\ n = Len(t)
  BY <1>1
<1>3. \A i \in m..n : t[i] \in S
  BY <1>1, <1>2
<1>4. SubSeq(t, m, n) \in Seq(S)
  BY <1>3, SubSeqProperties
<1>. QED
  BY <1>2, <1>4

\* A prefix and the rest are the whole.
LEMMA PrefixAndRest ==
  ASSUME NEW S, NEW s \in Seq(S), NEW t \in Seq(S), IsPrefix(s, t)
  PROVE  s \o SubSeq(t, Len(s) + 1, Len(t)) = t
<1>1. Len(s) \in Nat /\ Len(t) \in Nat /\ Len(s) <= Len(t)
  BY LenProperties DEF IsPrefix
<1>2. s = SubSeq(t, 1, Len(s))
  BY SubSeqFull DEF IsPrefix
<1>3. SubSeq(t, 1, Len(s)) \o SubSeq(t, Len(s) + 1, Len(t)) = SubSeq(t, 1, Len(t))
  <2>1. 1 \in 1..Len(t) + 1 /\ Len(s) \in 1 - 1..Len(t) /\ Len(t) \in Len(s)..Len(t)
    BY <1>1
  <2>. QED
    BY <2>1, ConcatAdjacentSubSeq
<1>4. SubSeq(t, 1, Len(t)) = t
  BY SubSeqFull
<1>. QED
  BY <1>2, <1>3, <1>4

LEMMA SendTypes ==
  ASSUME SocketTypes, ContinuationOK, NEW r \in Requests, Send(r) PROVE SocketTypes'
<1> DEFINE c == HeldBy(r)
           was == entry[c].continuation
           input == request[r].input
           delta == SubSeq(input, Len(was.input \o was.items) + 1, Len(input))
<1>1. request[r].pc = "send" /\ c \in Conns /\ input \in Seq(Item)
  BY DEF Send, At, SocketTypes, HeldIsOne, RequestTypes, RequestStates, HeldBy
<1>2. was.input \in Seq(Item) /\ was.items \in Seq(Item) /\ conn[c].served \in Seq(Seq(Item)) /\ was.id \in Nat
  BY <1>1 DEF SocketTypes, CacheTypes, EntryStates, ConnStates, Continuations
<1>3. RequestTypes' /\ HeldIsOne'
  BY <1>1, GoesTypes DEF Send, SocketTypes, RequestSteps, HeldBy
<1>4. ASSUME NEW s \in Seq(Item), conn' = [conn EXCEPT ![c].served = Append(@, s)]
      PROVE  conn' \in [Conns -> ConnStates]
  <2>1. Append(conn[c].served, s) \in Seq(Seq(Item))
    BY <1>2, AppendProperties
  <2>. QED
    BY <1>1, <1>4, <2>1 DEF SocketTypes, CacheTypes, ConnStates
<1>5. CASE UsesContinuation(r) /\ Extends(r, was)
  <2>1. was.id # 0
    BY <1>5 DEF Extends
  <2>2. was.id \in 1..Len(conn[c].served)
    BY <1>1, <2>1 DEF ContinuationOK
  <2>3. conn[c].served[was.id] \in Seq(Item)
    BY <1>2, <2>2, ElementOfSeq
  <2>4. was.input \o was.items \in Seq(Item) /\ Len(was.input \o was.items) \in Nat
    BY <1>2, ConcatProperties, LenProperties
  <2>5. delta \in Seq(Item)
    BY <1>1, <2>4, RestTyped
  <2>6. conn[c].served[was.id] \o delta \in Seq(Item)
    BY <2>3, <2>5, ConcatProperties
  <2>7. conn' = [conn EXCEPT ![c].served = Append(@, conn[c].served[was.id] \o delta)] /\ UNCHANGED entry
    BY <1>5 DEF Send
  <2>. HIDE DEF c, was, input, delta
  <2>8. conn' \in [Conns -> ConnStates]
    BY <1>4, <2>6, <2>7
  <2>. QED
    BY <1>3, <2>7, <2>8 DEF Send, SocketTypes, CacheTypes, TalkTypes
<1>6. CASE ~(UsesContinuation(r) /\ Extends(r, was))
  <2>1. conn' = [conn EXCEPT ![c].served = Append(@, input)]
    BY <1>6 DEF Send
  <2>2. conn' \in [Conns -> ConnStates]
    BY <1>1, <1>4, <2>1
  <2>3. entry' \in [Conns -> EntryStates]
    <3>1. [entry[c] EXCEPT !.continuation = NoContinuation] \in EntryStates
      BY <1>1, NoneTyped DEF SocketTypes, CacheTypes, EntryStates
    <3>2. \/ entry' = [entry EXCEPT ![c] = [entry[c] EXCEPT !.continuation = NoContinuation]]
          \/ UNCHANGED entry
      BY <1>1, <1>6 DEF Send, SocketTypes, CacheTypes
    <3>. HIDE DEF c
    <3>. QED
      BY <1>1, <3>1, <3>2, OneEntryChanges DEF SocketTypes, CacheTypes
  <2>. QED
    BY <1>3, <2>2, <2>3 DEF Send, SocketTypes, CacheTypes, TalkTypes
<1>. QED
  BY <1>5, <1>6

LEMMA ReceiveTypes ==
  ASSUME SocketTypes, NEW r \in Requests, Receive(r) PROVE SocketTypes'
  BY YieldTypes DEF Receive, SocketTypes, CacheTypes, TalkTypes, RequestTypes, HeldIsOne

LEMMA RequestBreaksTypes ==
  ASSUME SocketTypes, NEW r \in Requests, RequestBreaks(r) PROVE SocketTypes'
<1>1. request[r].pc \in {"send", "receive"} /\ HeldBy(r) \in Conns
  BY DEF RequestBreaks, At, SocketTypes, HeldIsOne, HeldBy
<1>2. conn' \in [Conns -> ConnStates] /\ wsCache' \in Conns \cup {NoConn}
  BY <1>1, CloseTypes DEF RequestBreaks, SocketTypes
<1>3. entry' \in [Conns -> EntryStates]
  BY <1>1, NoneTyped DEF RequestBreaks, SocketTypes, CacheTypes, EntryStates
<1>4. CASE FallBack(r) /\ UNCHANGED sources
  BY <1>1, <1>2, <1>3, <1>4, FallBackTypes DEF RequestBreaks, SocketTypes, CacheTypes, TalkTypes
<1>5. CASE RequestEnds(r) /\ Yield(r, "websocket") /\ UNCHANGED wsFallback
  BY <1>2, <1>3, <1>5, RequestEndsTypes, YieldTypes DEF RequestBreaks, SocketTypes, CacheTypes, TalkTypes
<1>. QED
  BY <1>4, <1>5 DEF RequestBreaks

\* A connection that a request receives on has served it.
LEMMA LastServed ==
  ASSUME SocketTypes, ContinuationOK, NEW r \in Requests, request[r].pc = "receive"
  PROVE  LET served == conn[HeldBy(r)].served
         IN  Len(served) \in 1..Len(served)
<1>1. HeldBy(r) \in Conns
  BY DEF SocketTypes, HeldIsOne, HeldBy
<1>2. entry[HeldBy(r)].continuation.id \in Nat
  BY <1>1 DEF SocketTypes, CacheTypes, EntryStates, Continuations
<1>3. Len(conn[HeldBy(r)].served) \in Nat
  BY <1>1, LenProperties DEF SocketTypes, CacheTypes, ConnStates
<1>4. entry[HeldBy(r)].continuation.id < Len(conn[HeldBy(r)].served)
  BY DEF ContinuationOK, At
<1>. QED
  BY <1>2, <1>3, <1>4

LEMMA CompleteTypes ==
  ASSUME SocketTypes, ContinuationOK, NEW r \in Requests, Complete(r) PROVE SocketTypes'
<1> DEFINE c == HeldBy(r)
           id == Len(conn[c].served)
           answer == TurnItem("answer", Last(request[r].input)[2])
<1>1. request[r].pc = "receive" /\ c \in Conns /\ request[r] \in RequestStates
  BY DEF Complete, At, SocketTypes, HeldIsOne, HeldBy, RequestTypes
<1>2. request[r].input \in Seq(Item) /\ request[r].input # <<>> /\ request[r].body \in Bodies \cup {"none"}
  BY <1>1 DEF SocketTypes, RequestTypes, RequestStates
<1>3. answer \in Item
  <2>1. Last(request[r].input) \in Item
    BY <1>2, EmptySeq, ElementOfSeq DEF Last
  <2>. QED
    BY <2>1 DEF Item, TurnItem
<1>4. conn[c].served \in Seq(Seq(Item)) /\ id \in Nat
  BY <1>1, LenProperties DEF SocketTypes, CacheTypes, ConnStates
<1>5. RequestTypes' /\ HeldIsOne' /\ TalkTypes'
  BY <1>1, RequestEndsTypes, AppendedTypes DEF Complete, SocketTypes, TalkTypes
<1>6. CASE request[r].cached /\ ~request[r].cancelled
  <2>1. <<answer>> \in Seq(Item)
    BY <1>3
  <2>2. Remembered(r, id) \in Continuations
    BY <1>2, <1>4, <2>1 DEF Remembered, Continuations
  <2>3. entry[c].continuation \in Continuations
    BY <1>1 DEF SocketTypes, CacheTypes, EntryStates
  <2>4. PICK k \in Continuations : entry' = [entry EXCEPT ![c] = [@ EXCEPT
                            !.busy = FALSE, !.timer = TRUE, !.continuation = k]]
    BY <1>6, <2>2, <2>3, NoneTyped DEF Complete
  <2>5. entry' \in [Conns -> EntryStates]
    BY <1>1, <2>4 DEF SocketTypes, CacheTypes, EntryStates
  <2>6. conn' = [conn EXCEPT ![c].served[id] = Append(@, answer)]
    BY <1>6 DEF Complete
  <2>7. conn' \in [Conns -> ConnStates]
    <3>1. id \in 1..Len(conn[c].served)
      BY <1>1, <1>4, LastServed DEF Complete
    <3>2. Append(conn[c].served[id], answer) \in Seq(Item)
      BY <1>3, <1>4, <3>1, ElementOfSeq, AppendProperties
    <3>3. [conn[c].served EXCEPT ![id] = Append(@, answer)] \in Seq(Seq(Item))
      <4>1. PICK s \in Seq(Item) : s = Append(conn[c].served[id], answer)
        BY <3>2
      <4>2. PICK served \in Seq(Seq(Item)) : served = conn[c].served
        BY <1>4
      <4>3. [served EXCEPT ![id] = s] \in Seq(Seq(Item))
        BY <3>1, <4>2, ExceptSeq
      <4>. QED
        BY <4>1, <4>2, <4>3
    <3>4. conn' = [conn EXCEPT ![c] = [conn[c] EXCEPT !.served = [conn[c].served EXCEPT ![id] = Append(@, answer)]]]
      BY <1>1, <2>6 DEF SocketTypes, CacheTypes
    <3>. HIDE DEF c, id, answer
    <3>5. [conn[c] EXCEPT !.served = [conn[c].served EXCEPT ![id] = Append(@, answer)]] \in ConnStates
      BY <1>1, <3>3 DEF SocketTypes, CacheTypes, ConnStates
    <3>. QED
      BY <1>1, <3>4, <3>5 DEF SocketTypes, CacheTypes
  <2>. QED
    BY <1>5, <1>6, <2>5, <2>7 DEF Complete, SocketTypes, CacheTypes
<1>7. CASE ~(request[r].cached /\ ~request[r].cancelled)
  <2>1. conn' \in [Conns -> ConnStates] /\ wsCache' \in Conns \cup {NoConn}
    BY <1>1, <1>7, CloseTypes DEF Complete, SocketTypes
  <2>2. entry' \in [Conns -> EntryStates]
    <3>1. entry[c].fired \in Nat
      BY <1>1 DEF SocketTypes, CacheTypes, EntryStates
    <3>2. entry' = [entry EXCEPT ![c] = [NoEntry EXCEPT !.fired = entry[c].fired]]
      BY <1>7 DEF Complete
    <3>. HIDE DEF c
    <3>. QED
      BY <1>1, <3>1, <3>2, ForgottenTyped, OneEntryChanges DEF SocketTypes
  <2>. QED
    BY <1>5, <2>1, <2>2 DEF Complete, SocketTypes, CacheTypes
<1>. QED
  BY <1>6, <1>7

LEMMA IdleTimerFiresTypes == ASSUME SocketTypes, NEW c \in Conns, IdleTimerFires(c) PROVE SocketTypes'
<1>0. entry[c] \in EntryStates /\ entry[c].fired + 1 \in Nat
  BY DEF SocketTypes, CacheTypes, EntryStates
<1>0a. PICK n \in Nat : n = entry[c].fired + 1
  BY <1>0
<1>1. PICK e : e = [[entry[c] EXCEPT !.timer = FALSE] EXCEPT !.fired = n]
  OBVIOUS
<1>2. e \in EntryStates
  BY <1>0, <1>1 DEF EntryStates
<1>3. entry' = [entry EXCEPT ![c] = e]
  BY <1>0a, <1>1 DEF IdleTimerFires, SocketTypes, CacheTypes, EntryStates
<1>. QED
  BY <1>2, <1>3 DEF IdleTimerFires, SocketTypes, CacheTypes, TalkTypes, RequestTypes, HeldIsOne

LEMMA IdleTimerRunsTypes == ASSUME SocketTypes, NEW c \in Conns, IdleTimerRuns(c) PROVE SocketTypes'
<1>0. entry[c] \in EntryStates /\ entry[c].fired - 1 \in Nat /\ entry[c].timer \in BOOLEAN
  BY DEF IdleTimerRuns, SocketTypes, CacheTypes, EntryStates
<1>1. entry' \in [Conns -> EntryStates]
  <2>1. CASE Expires(c)
    BY <1>0, <2>1, ForgottenTyped, OneEntryChanges DEF IdleTimerRuns, SocketTypes
  <2>2. CASE ~Expires(c)
    BY <1>0, <2>2 DEF IdleTimerRuns, SocketTypes, CacheTypes, EntryStates
  <2>. QED
    BY <2>1, <2>2
<1>2. conn' \in [Conns -> ConnStates] /\ wsCache' \in Conns \cup {NoConn}
  BY CloseTypes DEF IdleTimerRuns, SocketTypes, CacheTypes
<1>. QED
  BY <1>1, <1>2 DEF IdleTimerRuns, SocketTypes, CacheTypes, TalkTypes, RequestTypes, HeldIsOne

LEMMA ServiceLeavesTypes == ASSUME SocketTypes, NEW c \in Conns, ServiceLeaves(c) PROVE SocketTypes'
  BY DEF ServiceLeaves, SocketTypes, CacheTypes, TalkTypes, RequestTypes, HeldIsOne, ConnStates

LEMMA AttemptSSETypes == ASSUME SocketTypes, NEW r \in Requests, AttemptSSE(r) PROVE SocketTypes'
<1>1. request[r].pc = "sse" /\ request[r] \in RequestStates
  BY DEF AttemptSSE, At, SocketTypes, RequestTypes
<1>2. CASE Goes(r, "sse events") /\ UNCHANGED sources
  BY <1>1, <1>2, GoesTypes DEF AttemptSSE, SocketTypes, CacheTypes, TalkTypes, RequestSteps
<1>3. CASE request' = [request EXCEPT ![r].attempt = @ + 1] /\ UNCHANGED sources
  <2>1. PICK q : q = [request[r] EXCEPT !.attempt = @ + 1]
    OBVIOUS
  <2>2. q \in RequestStates /\ q.pc = "sse" /\ q.input = request[r].input
    BY <1>1, <2>1 DEF RequestStates
  <2>3. request' = [request EXCEPT ![r] = q]
    BY <1>3, <2>1 DEF SocketTypes, RequestTypes
  <2>4. RequestTypes' /\ HeldIsOne'
    BY <1>1, <2>2, <2>3, OneRequestMoves DEF SocketTypes, RequestTypes
  <2>. QED
    BY <1>3, <2>4 DEF AttemptSSE, SocketTypes, CacheTypes, TalkTypes
<1>4. CASE RequestEnds(r) /\ Yield(r, "sse")
  BY <1>4, RequestEndsTypes, YieldTypes DEF AttemptSSE, SocketTypes, CacheTypes, TalkTypes
<1>5. CASE RequestEnds(r) /\ UNCHANGED sources
  BY <1>5, RequestEndsTypes DEF AttemptSSE, SocketTypes, CacheTypes, TalkTypes
<1>. QED
  BY <1>2, <1>3, <1>4, <1>5 DEF AttemptSSE

LEMMA FinishSSETypes == ASSUME SocketTypes, NEW r \in Requests, FinishSSE(r) PROVE SocketTypes'
  BY RequestEndsTypes, YieldTypes, AppendedTypes DEF FinishSSE, SocketTypes, CacheTypes, TalkTypes, At

\* The inductive invariant of the socket.
SocketInv == SocketTypes /\ HoldingOK /\ KeepingOK /\ ContinuationOK /\ SourcesOK

\* What a step of one request leaves of the others.
OthersStay(r) ==
    /\ request' \in [Requests -> RequestStates]
    /\ \A q \in Requests \ {r} : request'[q] = request[q]

\* A step of a request that neither has a connection nor gets one.
LEMMA NoConnectionHolding ==
  ASSUME HoldingOK, NEW r \in Requests, OthersStay(r),
         request'[r].conn = NoConn, request'[r].pc \notin {"send", "receive"},
         request[r].conn = NoConn, UNCHANGED <<entry, wsCache>>
  PROVE  HoldingOK'
  BY DEF HoldingOK, OthersStay, HeldBy, At

\* ... leaves the connections as they are kept,
LEMMA NoConnectionKeeping ==
  ASSUME KeepingOK, NEW r \in Requests, OthersStay(r),
         request'[r].conn = NoConn, request[r].conn = NoConn, UNCHANGED <<conn, entry, wsCache>>
  PROVE  KeepingOK'
<1>1. \A q \in Requests : request'[q].conn = request[q].conn
  BY DEF OthersStay
<1>2. InUse' = InUse
  BY <1>1 DEF InUse, HeldBy
<1>. QED
  BY <1>1, <1>2 DEF KeepingOK, HeldBy

\* ... and what is remembered of the responses.
LEMMA NoConnectionContinuation ==
  ASSUME ContinuationOK, NEW r \in Requests, OthersStay(r),
         request'[r].pc # "receive", UNCHANGED <<conn, entry>>
  PROVE  ContinuationOK'
<1>1. \A q \in Requests : request'[q].pc = "receive" => q # r /\ request'[q] = request[q]
  BY DEF OthersStay
<1>. QED
  BY <1>1 DEF ContinuationOK, HeldBy, At

\* What the parts of a step do to the requests: one ends,
LEMMA EndingOthers ==
  ASSUME SocketInv, NEW r \in Requests, RequestEnds(r)
  PROVE  OthersStay(r) /\ request'[r] = NoRequest
  BY NoneTyped DEF SocketInv, SocketTypes, RequestTypes, RequestEnds, OthersStay

\* ... falls back to SSE,
LEMMA FallingOthers ==
  ASSUME SocketInv, NEW r \in Requests, FallBack(r), request[r].pc # "idle"
  PROVE  /\ OthersStay(r)
         /\ request'[r].conn = NoConn
         /\ request'[r].pc = (IF Emitted(r) THEN "idle" ELSE "sse")
<1>1. request' \in [Requests -> RequestStates]
  BY FallBackTypes DEF SocketInv, SocketTypes, CacheTypes, RequestTypes
<1>2. request'[r] = AfterFailure(r)
  BY DEF SocketInv, SocketTypes, RequestTypes, FallBack
<1>. QED
  BY <1>1, <1>2, NoneTyped DEF SocketInv, SocketTypes, RequestTypes, RequestStates, FallBack, OthersStay, AfterFailure

\* ... or goes on with the connection it has.
LEMMA GoingOthers ==
  ASSUME SocketInv, NEW r \in Requests, NEW pc \in RequestSteps, Goes(r, pc)
  PROVE  /\ OthersStay(r)
         /\ request'[r] = [request[r] EXCEPT !.pc = pc]
         /\ request'[r].conn = request[r].conn
         /\ request'[r].pc = pc /\ request'[r].cached = request[r].cached
         /\ request'[r].input = request[r].input
<1>1. request[r] \in RequestStates
  BY DEF SocketInv, SocketTypes, RequestTypes
<1>2. [request[r] EXCEPT !.pc = pc] \in RequestStates
  BY <1>1 DEF RequestStates
<1>3. request'[r] = [request[r] EXCEPT !.pc = pc]
  BY DEF Goes, SocketInv, SocketTypes, RequestTypes
<1>4. OthersStay(r)
  BY <1>2, <1>3 DEF Goes, OthersStay, SocketInv, SocketTypes, RequestTypes
<1>. QED
  BY <1>1, <1>3, <1>4 DEF RequestStates

\* The step of a request that gets a connection.
LEMMA TakingOthers ==
  ASSUME SocketInv, NEW r \in Requests, NEW c \in Conns, NEW cached \in BOOLEAN,
         request' = [request EXCEPT ![r].pc = "send", ![r].conn = c, ![r].cached = cached]
  PROVE  /\ OthersStay(r)
         /\ request'[r].conn = c /\ request'[r].pc = "send"
         /\ request'[r].cached = cached
<1>1. request[r] \in RequestStates
  BY DEF SocketInv, SocketTypes, RequestTypes
<1>2. request' = [request EXCEPT ![r] = Holding(request[r], c, cached)]
  BY DEF SocketInv, SocketTypes, RequestTypes, Holding
<1>3. Holding(request[r], c, cached) \in RequestStates
  BY <1>1, HoldingTyped
<1>4. request'[r] = Holding(request[r], c, cached)
  BY <1>2 DEF SocketInv, SocketTypes, RequestTypes
<1>5. Holding(request[r], c, cached).cached = cached
  BY <1>1 DEF Holding, RequestStates
<1>. QED
  BY <1>1, <1>2, <1>3, <1>4, <1>5, HoldingTyped DEF OthersStay, SocketInv, SocketTypes, RequestTypes

\* From here on one lemma for each step: it keeps the invariant.
LEMMA AskModelInv ==
  ASSUME SocketInv, NEW r \in Requests, AskModel(r), SocketTypes'
  PROVE  SocketInv'
<1>1. /\ OthersStay(r)
      /\ request'[r].conn = NoConn
      /\ request'[r].pc \in {"sse", "acquire"}
  BY DEF SocketInv, SocketTypes, RequestTypes, OthersStay, NoRequest, AskModel
<1>2. request[r].pc = "idle" /\ request[r].conn = NoConn
  BY DEF AskModel, At, HeldBy, SocketInv, HoldingOK
<1>3. HoldingOK'
  BY <1>1, <1>2, NoConnectionHolding DEF AskModel, SocketInv
<1>4. KeepingOK'
  BY <1>1, <1>2, NoConnectionKeeping DEF AskModel, SocketInv
<1>5. ContinuationOK'
  BY <1>1, <1>2, NoConnectionContinuation DEF AskModel, SocketInv
<1>6. SourcesOK'
  BY <1>1, <1>2 DEF AskModel, SocketInv, SourcesOK, OthersStay, At, SocketTypes
<1>. QED
  BY <1>3, <1>4, <1>5, <1>6 DEF SocketInv

LEMMA CancelRequestInv ==
  ASSUME SocketInv, NEW r \in Requests, CancelRequest(r), SocketTypes'
  PROVE  SocketInv'
<1>1. \A q \in Requests : /\ request'[q].pc = request[q].pc /\ request'[q].conn = request[q].conn
                          /\ request'[q].cached = request[q].cached
                          /\ request'[q].input = request[q].input
  <2>1. ASSUME NEW q \in Requests PROVE request[q] \in RequestStates
    BY DEF SocketInv, SocketTypes, RequestTypes
  <2>2. request' = [request EXCEPT ![r] = [request[r] EXCEPT !.cancelled = TRUE]]
    BY DEF CancelRequest
  <2>3. ASSUME NEW q \in Requests PROVE request'[q] = IF q = r THEN [request[r] EXCEPT !.cancelled = TRUE] ELSE request[q]
    BY <2>2 DEF SocketInv, SocketTypes, RequestTypes
  <2>. QED
    BY <2>1, <2>3 DEF RequestStates
<1>2. InUse' = InUse
  BY <1>1 DEF InUse, HeldBy
<1>3. UNCHANGED <<sources, conn, entry, wsCache>>
  BY DEF CancelRequest
<1>4. HoldingOK'
  BY <1>1, <1>3 DEF SocketInv, HoldingOK, HeldBy, At
<1>5. KeepingOK'
  BY <1>1, <1>2, <1>3 DEF SocketInv, KeepingOK, HeldBy
<1>6. ContinuationOK'
  BY <1>1, <1>3 DEF SocketInv, ContinuationOK, HeldBy, At
<1>7. SourcesOK'
  BY <1>1, <1>3 DEF SocketInv, SourcesOK, At
<1>. QED
  BY <1>4, <1>5, <1>6, <1>7 DEF SocketInv

LEMMA RewindInv ==
  ASSUME SocketInv, RewindConversation, SocketTypes'
  PROVE  SocketInv'
  BY DEF RewindConversation, SocketInv, HoldingOK, KeepingOK, ContinuationOK, SourcesOK, HeldBy, At, InUse

\* What a failed request that has no connection any more leaves.
LEMMA FallBackSources ==
  ASSUME SocketInv, NEW r \in Requests, FallBack(r), UNCHANGED sources,
         At(r, {"acquire", "dial", "dial to cache", "send", "receive"})
  PROVE  SourcesOK'
<1>1. request[r].pc # "idle"
  BY DEF At
<1>2. /\ OthersStay(r)
      /\ request'[r].pc = (IF Emitted(r) THEN "idle" ELSE "sse")
  BY <1>1, FallingOthers
<1>3. sources[r] \in {{}, {"websocket"}}
  BY DEF SocketInv, SourcesOK, At
<1>4. CASE Emitted(r)
  BY <1>2, <1>3, <1>4 DEF SocketInv, SourcesOK, OthersStay, At
<1>5. CASE ~Emitted(r)
  BY <1>2, <1>3, <1>5 DEF SocketInv, SourcesOK, OthersStay, At, Emitted
<1>. QED
  BY <1>4, <1>5

LEMMA PayloadRefusedInv ==
  ASSUME SocketInv, NEW r \in Requests, PayloadRefused(r), SocketTypes'
  PROVE  SocketInv'
<1>1. request[r].pc = "acquire" /\ request[r].conn = NoConn
  BY DEF PayloadRefused, At, HeldBy, SocketInv, HoldingOK
<1>2. OthersStay(r) /\ request'[r].conn = NoConn /\ request'[r].pc \in {"idle", "sse"}
  BY <1>1, FallingOthers DEF PayloadRefused
<1>3. HoldingOK'
  BY <1>1, <1>2, NoConnectionHolding DEF PayloadRefused, SocketInv
<1>4. KeepingOK'
  BY <1>1, <1>2, NoConnectionKeeping DEF PayloadRefused, SocketInv
<1>5. ContinuationOK'
  BY <1>1, <1>2, NoConnectionContinuation DEF PayloadRefused, SocketInv
<1>6. SourcesOK'
  BY FallBackSources DEF PayloadRefused, At
<1>. QED
  BY <1>3, <1>4, <1>5, <1>6 DEF SocketInv

LEMMA DialFailsInv ==
  ASSUME SocketInv, NEW r \in Requests, DialFails(r), SocketTypes'
  PROVE  SocketInv'
<1>1. request[r].pc \in {"dial", "dial to cache"} /\ request[r].conn = NoConn
  BY DEF DialFails, At, HeldBy, SocketInv, HoldingOK
<1>2. /\ OthersStay(r) /\ request'[r].conn = NoConn /\ request'[r].pc \in {"idle", "sse"}
  BY <1>1, FallingOthers, EndingOthers, NoneTyped DEF DialFails
<1>3. HoldingOK'
  BY <1>1, <1>2, NoConnectionHolding DEF DialFails, SocketInv
<1>4. KeepingOK'
  BY <1>1, <1>2, NoConnectionKeeping DEF DialFails, SocketInv
<1>5. ContinuationOK'
  BY <1>1, <1>2, NoConnectionContinuation DEF DialFails, SocketInv
<1>6. SourcesOK'
  <2>1. CASE FallBack(r) /\ UNCHANGED sources
    BY <2>1, FallBackSources DEF DialFails, At
  <2>2. CASE RequestEnds(r) /\ Yield(r, "websocket")
    <3>1. request'[r].pc = "idle"
      BY <2>2, EndingOthers, NoneTyped
    <3>2. sources[r] = {}
      BY <1>1 DEF SocketInv, SourcesOK, At
    <3>. QED
      BY <1>2, <2>2, <3>1, <3>2 DEF Yield, SocketInv, SourcesOK, SocketTypes, OthersStay, At
  <2>. QED
    BY <2>1, <2>2 DEF DialFails
<1>. QED
  BY <1>3, <1>4, <1>5, <1>6 DEF SocketInv

LEMMA AcquireInv ==
  ASSUME SocketInv, NEW r \in Requests, Acquire(r), SocketTypes', ConnectionAssumption
  PROVE  SocketInv'
<1>1. request[r].pc = "acquire" /\ request[r].conn = NoConn
  BY DEF Acquire, At, HeldBy, SocketInv, HoldingOK
<1>6. ASSUME NEW pc \in {"dial", "dial to cache", "send"}, request'[r].pc = pc, OthersStay(r), UNCHANGED sources
      PROVE  SourcesOK'
  BY <1>1, <1>6 DEF SocketInv, SourcesOK, OthersStay, At
<1>7. CASE request[r].named /\ MayReuse(wsCache)
  <2>1. wsCache \in Conns /\ ~entry[wsCache].busy
    BY <1>7 DEF MayReuse, SocketInv, SocketTypes, CacheTypes
  <2>2. request' = [request EXCEPT ![r].pc = "send", ![r].conn = wsCache, ![r].cached = TRUE]
    BY <1>7 DEF Acquire
  <2>3. OthersStay(r) /\ request'[r].conn = wsCache /\ request'[r].pc = "send" /\ request'[r].cached
    <3>1. \A k \in BOOLEAN :
            request' = [request EXCEPT ![r].pc = "send", ![r].conn = wsCache, ![r].cached = k]
              => /\ OthersStay(r) /\ request'[r].conn = wsCache /\ request'[r].pc = "send"
                 /\ request'[r].cached = k
      BY <2>1, TakingOthers
    <3>. QED
      BY <2>2, <3>1
  <2>4. /\ \A c \in Conns \ {wsCache} : entry'[c] = entry[c]
        /\ entry'[wsCache].busy
        /\ \A c \in Conns : entry'[c].continuation = entry[c].continuation
    BY <1>7, <2>1 DEF Acquire, SocketInv, SocketTypes, CacheTypes, EntryStates
  <2>5. \A q \in Requests : request[q].conn # wsCache
    <3>1. ASSUME NEW q \in Requests, request[q].conn = wsCache PROVE FALSE
      BY <2>1, <3>1 DEF SocketInv, HoldingOK, HeldBy, ConnectionAssumption
    <3>. QED
      BY <3>1
  <2>6. HoldingOK'
    BY <2>1, <2>3, <2>4, <2>5, <1>7 DEF Acquire, SocketInv, HoldingOK, OthersStay, HeldBy, At, ConnectionAssumption, SocketTypes, RequestTypes, RequestStates
  <2>7. KeepingOK'
    <3>1. wsCache \in InUse'
      BY <2>1, <2>3 DEF InUse, HeldBy, ConnectionAssumption
    <3>2. \A c \in Conns : c \notin InUse' => c \notin InUse
      BY <2>3, <1>1 DEF InUse, HeldBy, OthersStay
    <3>. QED
      BY <1>7, <2>1, <2>3, <2>4, <3>1, <3>2 DEF Acquire, SocketInv, KeepingOK, OthersStay, HeldBy, ConnectionAssumption
  <2>8. ContinuationOK'
    <3>1. \A q \in Requests : request'[q].pc = "receive" =>
              request'[q] = request[q] /\ request[q].conn \in Conns
      BY <2>3 DEF OthersStay, SocketInv, SocketTypes, HeldIsOne
    <3>2. UNCHANGED conn
      BY <1>7 DEF Acquire
    <3>3. \A c \in Conns : LET was == entry'[c].continuation IN
              was.id # 0 => /\ was.id \in 1..Len(conn'[c].served)
                            /\ conn'[c].served[was.id] = was.input \o was.items
      BY <2>4, <3>2 DEF SocketInv, ContinuationOK
    <3>4. ASSUME NEW q \in Requests, request'[q].pc = "receive"
          PROVE  LET served == conn'[request'[q].conn].served IN
                 /\ entry'[request'[q].conn].continuation.id < Len(served)
                 /\ served[Len(served)] = request'[q].input
      BY <2>4, <3>1, <3>2, <3>4 DEF SocketInv, ContinuationOK, HeldBy, At
    <3>. QED
      BY <3>3, <3>4 DEF ContinuationOK, HeldBy, At
  <2>. QED
    BY <1>6, <2>3, <2>6, <2>7, <2>8 DEF Acquire, SocketInv
<1>8. CASE ~(request[r].named /\ MayReuse(wsCache))
  <2>1. PICK pc \in {"dial", "dial to cache"} : Goes(r, pc) /\ UNCHANGED entry
    BY <1>8 DEF Acquire
  <2>2. OthersStay(r) /\ request'[r].conn = NoConn /\ request'[r].pc = pc
    BY <1>1, <2>1, GoingOthers DEF RequestSteps
  <2>3. HoldingOK'
    BY <1>1, <2>1, <2>2, NoConnectionHolding DEF Acquire, SocketInv
  <2>4. KeepingOK'
    BY <1>1, <2>1, <2>2, NoConnectionKeeping DEF Acquire, SocketInv
  <2>5. ContinuationOK'
    BY <1>1, <2>1, <2>2, NoConnectionContinuation DEF Acquire, SocketInv
  <2>. QED
    BY <1>6, <2>2, <2>3, <2>4, <2>5 DEF Acquire, SocketInv
<1>. QED
  BY <1>7, <1>8

\* The connection of a request is closed, and the request goes on without one.
LEMMA ClosedInv ==
  ASSUME SocketInv, ConnectionAssumption, NEW r \in Requests, NEW c \in Conns, c = HeldBy(r),
         Close(c), entry' = [entry EXCEPT ![c] = [NoEntry EXCEPT !.fired = entry[c].fired]],
         OthersStay(r), request'[r].conn = NoConn, request'[r].pc \notin {"send", "receive"}
  PROVE  HoldingOK' /\ KeepingOK' /\ ContinuationOK'
<1>1. /\ conn'[c] = NoConnection /\ \A d \in Conns \ {c} : conn'[d] = conn[d]
      /\ wsCache' # NoConn => wsCache' = wsCache /\ wsCache # c
  BY DEF Close, SocketInv, SocketTypes, CacheTypes
<1>2. /\ ~entry'[c].busy /\ entry'[c].continuation = NoContinuation
      /\ \A d \in Conns \ {c} : entry'[d] = entry[d]
  BY DEF SocketInv, SocketTypes, CacheTypes, NoEntry
<1>3. \A q \in Requests \ {r} : request[q].conn # c
  BY DEF SocketInv, HoldingOK, HeldBy, ConnectionAssumption
<1>4. \A q \in Requests : request'[q].conn # NoConn =>
          /\ q # r /\ request'[q] = request[q]
          /\ request[q].conn \in Conns \ {c}
  BY <1>3 DEF OthersStay, SocketInv, SocketTypes, HeldIsOne, HoldingOK, HeldBy, At
<1>5. HoldingOK'
  <2>1. \A q \in Requests : HeldBy(q)' # NoConn <=> At(q, {"send", "receive"})'
    BY DEF OthersStay, SocketInv, HoldingOK, HeldBy, At
  <2>2. \A p, q \in Requests : p # q /\ HeldBy(p)' # NoConn => HeldBy(p)' # HeldBy(q)'
    BY <1>4 DEF OthersStay, SocketInv, HoldingOK, HeldBy
  <2>3. ASSUME NEW q \in Requests, request'[q].conn # NoConn
        PROVE  IF request'[q].cached THEN entry'[request'[q].conn].busy
               ELSE entry'[request'[q].conn] = NoEntry /\ wsCache' # request'[q].conn
    BY <1>1, <1>2, <1>4, <2>3 DEF SocketInv, HoldingOK, HeldBy
  <2>. QED
    BY <2>1, <2>2, <2>3 DEF HoldingOK, HeldBy
<1>6. KeepingOK'
  <2>1. \A q \in Requests : request'[q].conn # NoConn => conn'[request'[q].conn].state # "closed"
    BY <1>1, <1>4 DEF SocketInv, KeepingOK, HeldBy
  <2>2. wsCache' # NoConn => conn'[wsCache'].state # "closed"
    BY <1>1 DEF SocketInv, KeepingOK, SocketTypes, CacheTypes
  <2>3. ASSUME NEW d \in Conns, d \notin InUse'
        PROVE  /\ ~entry'[d].busy
               /\ conn'[d].state # "closed" => entry'[d].timer \/ entry'[d].fired > 0
    <3>1. CASE d = c
      BY <1>1, <1>2, <3>1 DEF NoConnection
    <3>2. CASE d # c
      <4>1. d \notin InUse
        BY <2>3, <3>2, <1>4 DEF InUse, HeldBy, OthersStay
      <4>. QED
        BY <1>1, <1>2, <3>2, <4>1 DEF SocketInv, KeepingOK
    <3>. QED
      BY <3>1, <3>2
  <2>. QED
    BY <2>1, <2>2, <2>3 DEF KeepingOK, HeldBy
<1>7. ContinuationOK'
  <2>1. ASSUME NEW d \in Conns, entry'[d].continuation.id # 0
        PROVE  LET was == entry'[d].continuation IN
               /\ was.id \in 1..Len(conn'[d].served)
               /\ conn'[d].served[was.id] = was.input \o was.items
    <3>1. d # c
      BY <1>2, <2>1 DEF NoContinuation
    <3>. QED
      BY <1>1, <1>2, <2>1, <3>1 DEF SocketInv, ContinuationOK
  <2>2. ASSUME NEW q \in Requests, request'[q].pc = "receive"
        PROVE  LET served == conn'[request'[q].conn].served IN
               /\ entry'[request'[q].conn].continuation.id < Len(served)
               /\ served[Len(served)] = request'[q].input
    <3>1. q # r /\ request'[q] = request[q] /\ request[q].conn \in Conns \ {c}
      BY <1>3, <2>2 DEF OthersStay, SocketInv, SocketTypes, HeldIsOne
    <3>. QED
      BY <1>1, <1>2, <2>2, <3>1 DEF SocketInv, ContinuationOK, HeldBy, At
  <2>. QED
    BY <2>1, <2>2 DEF ContinuationOK, HeldBy, At
<1>. QED
  BY <1>5, <1>6, <1>7

LEMMA RequestBreaksInv ==
  ASSUME SocketInv, NEW r \in Requests, RequestBreaks(r), SocketTypes', ConnectionAssumption
  PROVE  SocketInv'
<1>1. request[r].pc \in {"send", "receive"} /\ HeldBy(r) \in Conns
  BY DEF RequestBreaks, At, SocketInv, SocketTypes, HeldIsOne, HeldBy
<1>2. /\ OthersStay(r) /\ request'[r].conn = NoConn /\ request'[r].pc \in {"idle", "sse"}
  BY <1>1, FallingOthers, EndingOthers, NoneTyped DEF RequestBreaks
<1>3. HoldingOK' /\ KeepingOK' /\ ContinuationOK'
  BY <1>1, <1>2, ClosedInv DEF RequestBreaks
<1>4. SourcesOK'
  <2>1. CASE FallBack(r) /\ UNCHANGED sources
    BY <1>1, <2>1, FallBackSources DEF At
  <2>2. CASE RequestEnds(r) /\ Yield(r, "websocket")
    <3>1. request'[r].pc = "idle"
      BY <2>2, EndingOthers, NoneTyped
    <3>2. sources[r] \in {{}, {"websocket"}}
      BY <1>1 DEF SocketInv, SourcesOK, At
    <3>. QED
      BY <1>2, <2>2, <3>1, <3>2 DEF Yield, SocketInv, SourcesOK, SocketTypes, OthersStay, At
  <2>. QED
    BY <2>1, <2>2 DEF RequestBreaks
<1>. QED
  BY <1>3, <1>4 DEF SocketInv

LEMMA ReceiveInv ==
  ASSUME SocketInv, NEW r \in Requests, Receive(r), SocketTypes'
  PROVE  SocketInv'
<1>1. HoldingOK' /\ KeepingOK' /\ ContinuationOK'
  BY DEF Receive, SocketInv, HoldingOK, KeepingOK, ContinuationOK, HeldBy, At, InUse
<1>2. SourcesOK'
  BY DEF Receive, Yield, SocketInv, SourcesOK, SocketTypes, At
<1>. QED
  BY <1>1, <1>2 DEF SocketInv

LEMMA AttemptSSEInv ==
  ASSUME SocketInv, NEW r \in Requests, AttemptSSE(r), SocketTypes'
  PROVE  SocketInv'
<1>1. request[r].pc = "sse" /\ request[r].conn = NoConn
  BY DEF AttemptSSE, At, HeldBy, SocketInv, HoldingOK
<1>2. /\ OthersStay(r) /\ request'[r].conn = NoConn /\ request'[r].pc \in {"sse", "sse events", "idle"}
  <2>1. CASE Goes(r, "sse events")
    BY <1>1, <2>1, GoingOthers DEF RequestSteps
  <2>2. CASE request' = [request EXCEPT ![r].attempt = @ + 1]
    <3>1. request[r] \in RequestStates /\ request'[r] = [request[r] EXCEPT !.attempt = @ + 1]
      BY <2>2 DEF SocketInv, SocketTypes, RequestTypes
    <3>2. request'[r].conn = NoConn /\ request'[r].pc = "sse"
      BY <1>1, <3>1 DEF RequestStates
    <3>. QED
      BY <2>2, <3>2 DEF OthersStay, SocketInv, SocketTypes, RequestTypes
  <2>3. CASE RequestEnds(r)
    BY <2>3, EndingOthers, NoneTyped
  <2>. QED
    BY <2>1, <2>2, <2>3 DEF AttemptSSE
<1>3. HoldingOK' /\ KeepingOK' /\ ContinuationOK'
  BY <1>1, <1>2, NoConnectionHolding, NoConnectionKeeping, NoConnectionContinuation DEF AttemptSSE, SocketInv
<1>4. SourcesOK'
  <2>1. sources[r] = {}
    BY <1>1 DEF SocketInv, SourcesOK, At
  <2>2. CASE UNCHANGED sources
    BY <1>2, <2>1, <2>2 DEF SocketInv, SourcesOK, OthersStay, At
  <2>3. CASE RequestEnds(r) /\ Yield(r, "sse")
    <3>1. request'[r].pc = "idle"
      BY <2>3, EndingOthers, NoneTyped
    <3>. QED
      BY <1>2, <2>1, <2>3, <3>1 DEF Yield, SocketInv, SourcesOK, SocketTypes, OthersStay, At
  <2>. QED
    BY <2>2, <2>3 DEF AttemptSSE
<1>. QED
  BY <1>3, <1>4 DEF SocketInv

LEMMA FinishSSEInv ==
  ASSUME SocketInv, NEW r \in Requests, FinishSSE(r), SocketTypes'
  PROVE  SocketInv'
<1>1. request[r].pc = "sse events" /\ request[r].conn = NoConn
  BY DEF FinishSSE, At, HeldBy, SocketInv, HoldingOK
<1>2. /\ OthersStay(r) /\ request'[r].conn = NoConn /\ request'[r].pc = "idle"
  BY EndingOthers, NoneTyped DEF FinishSSE
<1>3. HoldingOK' /\ KeepingOK' /\ ContinuationOK'
  BY <1>1, <1>2, NoConnectionHolding, NoConnectionKeeping, NoConnectionContinuation DEF FinishSSE, SocketInv
<1>4. sources[r] = {}
  BY <1>1 DEF SocketInv, SourcesOK, At
<1>5. SourcesOK'
  BY <1>2, <1>4 DEF FinishSSE, Yield, SocketInv, SourcesOK, SocketTypes, OthersStay, At
<1>. QED
  BY <1>3, <1>5 DEF SocketInv

LEMMA ServiceLeavesInv ==
  ASSUME SocketInv, NEW c \in Conns, ServiceLeaves(c), SocketTypes'
  PROVE  SocketInv'
<1>1. \A d \in Conns : /\ conn'[d].served = conn[d].served
                       /\ conn'[d].state = "closed" <=> conn[d].state = "closed"
  BY DEF ServiceLeaves, SocketInv, SocketTypes, CacheTypes, ConnStates
<1>2. UNCHANGED <<request, sources, entry, wsCache>>
  BY DEF ServiceLeaves
<1>3. \A r \in Requests : request[r].conn # NoConn \/ request[r].pc = "receive" => request[r].conn \in Conns
  BY DEF SocketInv, SocketTypes, HeldIsOne, HoldingOK, HeldBy, At
<1>4. HoldingOK' /\ SourcesOK'
  BY <1>2 DEF SocketInv, HoldingOK, SourcesOK, HeldBy, At
<1>5. KeepingOK'
  BY <1>1, <1>2, <1>3 DEF SocketInv, KeepingOK, HeldBy, InUse, SocketTypes, CacheTypes
<1>6. ContinuationOK'
  BY <1>1, <1>2, <1>3 DEF SocketInv, ContinuationOK, HeldBy, At
<1>. QED
  BY <1>4, <1>5, <1>6 DEF SocketInv

LEMMA IdleTimerFiresInv ==
  ASSUME SocketInv, NEW c \in Conns, IdleTimerFires(c), SocketTypes'
  PROVE  SocketInv'
<1>1. /\ \A d \in Conns : entry'[d].busy = entry[d].busy /\ entry'[d].continuation = entry[d].continuation
      /\ \A d \in Conns \ {c} : entry'[d] = entry[d]
      /\ entry'[c].fired > 0
      /\ entry[c] # NoEntry
  <2>1. entry[c] \in EntryStates /\ entry[c].fired \in Nat /\ entry[c].timer
    BY DEF IdleTimerFires, SocketInv, SocketTypes, CacheTypes, EntryStates
  <2>2. entry' = [entry EXCEPT ![c] = [[entry[c] EXCEPT !.timer = FALSE] EXCEPT !.fired = entry[c].fired + 1]]
    BY DEF IdleTimerFires, SocketInv, SocketTypes, CacheTypes, EntryStates
  <2>3. PICK n \in Nat : n = entry[c].fired + 1 /\ n > 0
    BY <2>1
  <2>4. entry'[c] = [[entry[c] EXCEPT !.timer = FALSE] EXCEPT !.fired = n]
    BY <2>2, <2>3 DEF SocketInv, SocketTypes, CacheTypes
  <2>5. entry'[c].fired = n /\ entry'[c].busy = entry[c].busy /\ entry'[c].continuation = entry[c].continuation
    BY <2>1, <2>4 DEF EntryStates
  <2>6. \A d \in Conns \ {c} : entry'[d] = entry[d]
    BY <2>2 DEF SocketInv, SocketTypes, CacheTypes
  <2>7. ~NoEntry.timer
    BY DEF NoEntry
  <2>. QED
    BY <2>1, <2>3, <2>5, <2>6, <2>7
<1>2. UNCHANGED <<request, sources, conn, wsCache>>
  BY DEF IdleTimerFires
<1>3. \A r \in Requests : request[r].conn # NoConn \/ request[r].pc = "receive" => request[r].conn \in Conns
  BY DEF SocketInv, SocketTypes, HeldIsOne, HoldingOK, HeldBy, At
<1>4. HoldingOK'
  BY <1>1, <1>2, <1>3 DEF SocketInv, HoldingOK, HeldBy, At
<1>5. KeepingOK'
  BY <1>1, <1>2 DEF SocketInv, KeepingOK, HeldBy, InUse
<1>6. ContinuationOK'
  BY <1>1, <1>2, <1>3 DEF SocketInv, ContinuationOK, HeldBy, At
<1>7. SourcesOK'
  BY <1>2 DEF SocketInv, SourcesOK, At
<1>. QED
  BY <1>4, <1>5, <1>6, <1>7 DEF SocketInv

LEMMA IdleTimerRunsInv ==
  ASSUME SocketInv, NEW c \in Conns, IdleTimerRuns(c), SocketTypes', ConnectionAssumption
  PROVE  SocketInv'
<1>1. entry[c] \in EntryStates /\ entry[c].fired \in Nat \ {0} /\ entry[c] # NoEntry
  BY DEF IdleTimerRuns, SocketInv, SocketTypes, CacheTypes, EntryStates, NoEntry
<1>2. UNCHANGED <<request, sources>>
  BY DEF IdleTimerRuns
<1>3. \A r \in Requests : request[r].conn # NoConn \/ request[r].pc = "receive" => request[r].conn \in Conns
  BY DEF SocketInv, SocketTypes, HeldIsOne, HoldingOK, HeldBy, At
<1>4. SourcesOK' /\ InUse' = InUse
  BY <1>2 DEF SocketInv, SourcesOK, At, InUse, HeldBy
<1>5. CASE Expires(c)
  <2>1. ~entry[c].busy
    BY <1>5 DEF Expires
  <2>2. \A r \in Requests : request[r].conn # c
    BY <1>1, <2>1 DEF SocketInv, HoldingOK, HeldBy, ConnectionAssumption
  <2>3. /\ conn'[c] = NoConnection /\ \A d \in Conns \ {c} : conn'[d] = conn[d]
        /\ wsCache' # NoConn => wsCache' = wsCache /\ wsCache # c
    BY <1>5 DEF IdleTimerRuns, Close, SocketInv, SocketTypes, CacheTypes
  <2>4. /\ ~entry'[c].busy /\ entry'[c].continuation = NoContinuation
        /\ \A d \in Conns \ {c} : entry'[d] = entry[d]
    <3>1. PICK t, n : entry' = [entry EXCEPT ![c] = [NoEntry EXCEPT !.timer = t, !.fired = n]]
      BY <1>5 DEF IdleTimerRuns
    <3>2. PICK e : e = [NoEntry EXCEPT !.timer = t, !.fired = n]
      OBVIOUS
    <3>3. ~e.busy /\ e.continuation = NoContinuation
      BY <3>2 DEF NoEntry
    <3>4. entry'[c] = e /\ \A d \in Conns \ {c} : entry'[d] = entry[d]
      BY <3>1, <3>2 DEF SocketInv, SocketTypes, CacheTypes
    <3>. QED
      BY <3>3, <3>4
  <2>5. HoldingOK'
    BY <1>2, <1>3, <2>2, <2>3, <2>4 DEF SocketInv, HoldingOK, HeldBy, At
  <2>6. KeepingOK'
    <3>1. \A r \in Requests : request'[r].conn # NoConn => conn'[request'[r].conn].state # "closed"
      BY <1>2, <1>3, <2>2, <2>3 DEF SocketInv, KeepingOK, HeldBy
    <3>2. wsCache' # NoConn => conn'[wsCache'].state # "closed"
      BY <2>3 DEF SocketInv, KeepingOK, SocketTypes, CacheTypes
    <3>3. \A d \in Conns : d \notin InUse' =>
            /\ ~entry'[d].busy
            /\ conn'[d].state # "closed" => entry'[d].timer \/ entry'[d].fired > 0
      BY <1>4, <2>3, <2>4 DEF SocketInv, KeepingOK, NoConnection
    <3>. QED
      BY <3>1, <3>2, <3>3 DEF KeepingOK, HeldBy
  <2>7. ContinuationOK'
    <3>1. \A d \in Conns : LET was == entry'[d].continuation IN
              was.id # 0 => /\ was.id \in 1..Len(conn'[d].served)
                            /\ conn'[d].served[was.id] = was.input \o was.items
      <4>1. NoContinuation.id = 0
        BY DEF NoContinuation
      <4>. QED
        BY <2>3, <2>4, <4>1 DEF SocketInv, ContinuationOK
    <3>2. ASSUME NEW q \in Requests, request'[q].pc = "receive"
          PROVE  LET served == conn'[request'[q].conn].served IN
                 /\ entry'[request'[q].conn].continuation.id < Len(served)
                 /\ served[Len(served)] = request'[q].input
      BY <1>2, <1>3, <2>2, <2>3, <2>4, <3>2 DEF SocketInv, ContinuationOK, HeldBy, At
    <3>. QED
      BY <3>1, <3>2 DEF ContinuationOK, HeldBy, At
  <2>. QED
    BY <1>4, <2>5, <2>6, <2>7 DEF SocketInv
<1>6. CASE ~Expires(c)
  <2>1. entry[c].busy
    BY <1>6 DEF Expires
  <2>2. UNCHANGED <<conn, wsCache>>
    BY <1>6 DEF IdleTimerRuns
  <2>3. /\ \A d \in Conns : entry'[d].busy = entry[d].busy /\ entry'[d].continuation = entry[d].continuation
        /\ \A d \in Conns \ {c} : entry'[d] = entry[d]
    BY <1>1, <1>6 DEF IdleTimerRuns, SocketInv, SocketTypes, CacheTypes, EntryStates
  <2>4. c \in InUse
    BY <2>1 DEF SocketInv, KeepingOK
  <2>5. HoldingOK'
    BY <1>1, <1>2, <1>3, <2>2, <2>3 DEF SocketInv, HoldingOK, HeldBy, At
  <2>6. KeepingOK'
    BY <1>2, <1>4, <2>2, <2>3, <2>4 DEF SocketInv, KeepingOK, HeldBy
  <2>7. ContinuationOK'
    BY <1>2, <1>3, <2>2, <2>3 DEF SocketInv, ContinuationOK, HeldBy, At
  <2>. QED
    BY <1>4, <2>5, <2>6, <2>7 DEF SocketInv
<1>. QED
  BY <1>5, <1>6

LEMMA DialInv ==
  ASSUME SocketInv, NEW r \in Requests, Dial(r), SocketTypes', ConnectionAssumption
  PROVE  SocketInv'
<1>1. PICK c \in Unopened : c = NewConnection
  BY DEF Dial, NewConnection
<1>2. c \in Conns /\ c \notin InUse /\ conn[c] = NoConnection /\ entry[c] = NoEntry /\ c # NoConn
  BY <1>1 DEF Unopened, ConnectionAssumption
<1>3. PICK toCache \in BOOLEAN :
          /\ At(r, {IF toCache THEN "dial to cache" ELSE "dial"})
          /\ conn' = [conn EXCEPT ![c].state = "open"]
          /\ IF toCache THEN wsCache' = c /\ entry' = [entry EXCEPT ![c].busy = TRUE]
                        ELSE UNCHANGED <<wsCache, entry>>
          /\ request' = [request EXCEPT ![r].pc = "send", ![r].conn = c, ![r].cached = toCache]
  BY <1>1 DEF Dial
<1>4. request[r].pc \in {"dial", "dial to cache"} /\ request[r].conn = NoConn /\ UNCHANGED sources
  BY <1>3 DEF Dial, At, HeldBy, SocketInv, HoldingOK
<1>5. OthersStay(r) /\ request'[r].conn = c /\ request'[r].pc = "send" /\ request'[r].cached = toCache
  BY <1>2, <1>3, TakingOthers
<1>6. /\ \A d \in Conns : conn'[d].served = conn[d].served
      /\ \A d \in Conns \ {c} : conn'[d] = conn[d]
      /\ conn'[c].state = "open"
  BY <1>2, <1>3 DEF SocketInv, SocketTypes, CacheTypes, ConnStates
<1>7. /\ \A d \in Conns : entry'[d].continuation = entry[d].continuation
      /\ \A d \in Conns \ {c} : entry'[d] = entry[d]
      /\ wsCache' = IF toCache THEN c ELSE wsCache
      /\ IF toCache THEN entry'[c].busy ELSE entry'[c] = NoEntry
  <2>1. CASE toCache
    <3>1. entry' = [entry EXCEPT ![c] = [entry[c] EXCEPT !.busy = TRUE]] /\ wsCache' = c
      BY <1>3, <2>1
    <3>2. PICK e : e = [entry[c] EXCEPT !.busy = TRUE]
      OBVIOUS
    <3>3. entry[c] \in EntryStates
      BY <1>2 DEF SocketInv, SocketTypes, CacheTypes
    <3>4. e.busy /\ e.continuation = entry[c].continuation
      BY <3>2, <3>3 DEF EntryStates
    <3>5. entry'[c] = e /\ \A d \in Conns \ {c} : entry'[d] = entry[d]
      BY <1>2, <3>1, <3>2 DEF SocketInv, SocketTypes, CacheTypes
    <3>. QED
      BY <2>1, <3>1, <3>4, <3>5
  <2>2. CASE ~toCache
    BY <1>2, <1>3, <2>2
  <2>. QED
    BY <2>1, <2>2
<1>8. wsCache # c
  BY <1>2 DEF SocketInv, KeepingOK, NoConnection
<1>9. \A q \in Requests : request[q].conn # c
  BY <1>2 DEF InUse, HeldBy
<1>10. \A q \in Requests \ {r} : request'[q] = request[q] /\ (request[q].conn # NoConn \/ request[q].pc = "receive" => request[q].conn \in Conns \ {c})
  BY <1>5, <1>9 DEF OthersStay, SocketInv, SocketTypes, HeldIsOne, HoldingOK, HeldBy, At
<1>11. HoldingOK'
  <2>1. \A q \in Requests : request'[q].conn # NoConn <=> request'[q].pc \in {"send", "receive"}
    BY <1>2, <1>5, <1>10 DEF SocketInv, HoldingOK, HeldBy, At
  <2>2. \A p, q \in Requests : p # q /\ request'[p].conn # NoConn => request'[p].conn # request'[q].conn
    BY <1>5, <1>9, <1>10 DEF SocketInv, HoldingOK, HeldBy
  <2>3. ASSUME NEW q \in Requests, request'[q].conn # NoConn
        PROVE  IF request'[q].cached THEN entry'[request'[q].conn].busy
               ELSE entry'[request'[q].conn] = NoEntry /\ wsCache' # request'[q].conn
    <3>1. CASE q = r
      BY <1>5, <1>7, <1>8, <3>1
    <3>2. CASE q # r
      BY <1>7, <1>10, <2>3, <3>2 DEF SocketInv, HoldingOK, HeldBy
    <3>. QED
      BY <3>1, <3>2
  <2>. QED
    BY <2>1, <2>2, <2>3 DEF HoldingOK, HeldBy, At
<1>12. KeepingOK'
  <2>1. \A q \in Requests : request'[q].conn # NoConn => conn'[request'[q].conn].state # "closed"
    BY <1>5, <1>6, <1>10 DEF SocketInv, KeepingOK, HeldBy
  <2>2. wsCache' # NoConn => conn'[wsCache'].state # "closed"
    BY <1>6, <1>7 DEF SocketInv, KeepingOK, SocketTypes, CacheTypes
  <2>3. ASSUME NEW d \in Conns, d \notin InUse'
        PROVE  /\ ~entry'[d].busy
               /\ conn'[d].state # "closed" => entry'[d].timer \/ entry'[d].fired > 0
    <3>1. d # c
      BY <1>2, <1>5, <2>3 DEF InUse, HeldBy
    <3>2. d \notin InUse
      BY <1>4, <1>10, <2>3 DEF InUse, HeldBy
    <3>. QED
      BY <1>6, <1>7, <3>1, <3>2 DEF SocketInv, KeepingOK
  <2>. QED
    BY <2>1, <2>2, <2>3 DEF KeepingOK, HeldBy
<1>13. ContinuationOK'
  <2>1. \A d \in Conns : LET was == entry'[d].continuation IN
              was.id # 0 => /\ was.id \in 1..Len(conn'[d].served)
                            /\ conn'[d].served[was.id] = was.input \o was.items
    BY <1>6, <1>7 DEF SocketInv, ContinuationOK
  <2>2. ASSUME NEW q \in Requests, request'[q].pc = "receive"
          PROVE  LET served == conn'[request'[q].conn].served IN
                 /\ entry'[request'[q].conn].continuation.id < Len(served)
                 /\ served[Len(served)] = request'[q].input
    BY <1>5, <1>6, <1>7, <1>10, <2>2 DEF SocketInv, ContinuationOK, HeldBy, At
  <2>. QED
    BY <2>1, <2>2 DEF ContinuationOK, HeldBy, At
<1>14. SourcesOK'
  BY <1>4, <1>5 DEF SocketInv, SourcesOK, OthersStay, At
<1>. QED
  BY <1>11, <1>12, <1>13, <1>14 DEF SocketInv

\* What a request on its connection leaves of the others: who holds what is the same.
LEMMA SendInv ==
  ASSUME SocketInv, NEW r \in Requests, Send(r), SocketTypes', ConnectionAssumption
  PROVE  SocketInv'
<1> DEFINE c == HeldBy(r)
           was == entry[c].continuation
           input == request[r].input
           served == conn[c].served
           delta == SubSeq(input, Len(was.input \o was.items) + 1, Len(input))
<1>1. request[r].pc = "send" /\ c \in Conns /\ input \in Seq(Item)
  BY DEF Send, At, SocketInv, SocketTypes, HeldIsOne, RequestTypes, RequestStates, HeldBy
<1>2. /\ was.input \in Seq(Item) /\ was.items \in Seq(Item) /\ was.id \in Nat
      /\ served \in Seq(Seq(Item)) /\ Len(served) \in Nat
  BY <1>1, LenProperties DEF SocketInv, SocketTypes, CacheTypes, EntryStates, ConnStates, Continuations
<1>3. was.id # 0 => was.id \in 1..Len(served) /\ served[was.id] = was.input \o was.items
  BY <1>1 DEF SocketInv, ContinuationOK
<1>4. /\ OthersStay(r) /\ request'[r].conn = c /\ request'[r].pc = "receive"
      /\ request'[r].cached = request[r].cached /\ request'[r].input = input
  BY GoingOthers DEF Send, HeldBy, RequestSteps
\* What is sent leads to the whole input, and what was remembered is still the case.
<1>5. /\ conn' = [conn EXCEPT ![c].served = Append(@, input)]
      /\ \/ UNCHANGED entry
         \/ entry' = [entry EXCEPT ![c].continuation = NoContinuation] /\ UsesContinuation(r)
  <2>1. CASE UsesContinuation(r) /\ Extends(r, was)
    <3>1. was.id # 0 /\ IsPrefix(was.input \o was.items, input)
      BY <2>1 DEF Extends
    <3>2. was.input \o was.items \in Seq(Item)
      BY <1>2, ConcatProperties
    <3>3. served[was.id] \o delta = input
      BY <1>1, <1>3, <3>1, <3>2, PrefixAndRest
    <3>4. conn' = [conn EXCEPT ![c].served = Append(@, served[was.id] \o delta)] /\ UNCHANGED entry
      BY <2>1 DEF Send
    <3>. HIDE DEF c, was, input, served, delta
    <3>. QED
      BY <3>3, <3>4
  <2>2. CASE ~(UsesContinuation(r) /\ Extends(r, was))
    BY <2>2 DEF Send
  <2>. QED
    BY <2>1, <2>2
<1>. HIDE DEF c, input, was, served, delta
<1>6. /\ \A d \in Conns \ {c} : conn'[d] = conn[d]
      /\ conn'[c].state = conn[c].state /\ conn'[c].served = Append(conn[c].served, input)
  BY <1>1, <1>5 DEF SocketInv, SocketTypes, CacheTypes, ConnStates
<1>7. /\ \A d \in Conns \ {c} : entry'[d] = entry[d]
      /\ entry'[c] = entry[c] \/ (entry'[c] = [entry[c] EXCEPT !.continuation = NoContinuation] /\ request[r].cached)
  BY <1>1, <1>5 DEF SocketInv, SocketTypes, CacheTypes, UsesContinuation
<1>8. /\ entry'[c].busy = entry[c].busy /\ entry'[c].timer = entry[c].timer /\ entry'[c].fired = entry[c].fired
      /\ entry'[c].continuation \in {entry[c].continuation, NoContinuation}
  <2>1. entry[c] \in EntryStates
    BY <1>1 DEF SocketInv, SocketTypes, CacheTypes
  <2>. QED
    BY <1>7, <2>1 DEF EntryStates
<1>9. \A q \in Requests \ {r} : request'[q] = request[q] /\ (request[q].conn # NoConn \/ request[q].pc = "receive" => request[q].conn \in Conns \ {c})
  <2>1. \A q \in Requests \ {r} : request[q].conn # c
    BY <1>1 DEF SocketInv, HoldingOK, HeldBy, ConnectionAssumption, c
  <2>. QED
    BY <1>4, <2>1 DEF OthersStay, SocketInv, SocketTypes, HeldIsOne, HoldingOK, HeldBy, At
<1>10. \A q \in Requests : request'[q].conn = request[q].conn /\ request'[q].cached = request[q].cached
  BY <1>4, <1>9 DEF HeldBy, c
<1>11. UNCHANGED <<sources, wsCache>> /\ InUse' = InUse
  <2>1. UNCHANGED <<sources, wsCache>>
    BY DEF Send
  <2>2. InUse' = InUse
    BY <1>10 DEF InUse, HeldBy
  <2>. QED
    BY <2>1, <2>2
<1>12. HoldingOK'
  <2>1. \A q \in Requests : request'[q].conn # NoConn <=> request'[q].pc \in {"send", "receive"}
    BY <1>1, <1>4, <1>9 DEF SocketInv, HoldingOK, HeldBy, At
  <2>2. \A p, q \in Requests : p # q /\ request'[p].conn # NoConn => request'[p].conn # request'[q].conn
    BY <1>10 DEF SocketInv, HoldingOK, HeldBy
  <2>3. ASSUME NEW q \in Requests, request'[q].conn # NoConn
        PROVE  IF request'[q].cached THEN entry'[request'[q].conn].busy
               ELSE entry'[request'[q].conn] = NoEntry /\ wsCache' # request'[q].conn
    <3>1. CASE q = r
      BY <1>4, <1>7, <1>8, <1>10, <1>11, <2>3, <3>1 DEF SocketInv, HoldingOK, HeldBy
    <3>2. CASE q # r
      BY <1>7, <1>9, <1>11, <2>3, <3>2 DEF SocketInv, HoldingOK, HeldBy
    <3>. QED
      BY <3>1, <3>2
  <2>. QED
    BY <2>1, <2>2, <2>3 DEF HoldingOK, HeldBy, At
<1>13. KeepingOK'
  <2>1. \A d \in Conns : /\ conn'[d].state = conn[d].state /\ entry'[d].busy = entry[d].busy
                          /\ entry'[d].timer = entry[d].timer /\ entry'[d].fired = entry[d].fired
    BY <1>6, <1>7, <1>8
  <2>2. \A q \in Requests : request[q].conn # NoConn => request[q].conn \in Conns
    BY DEF SocketInv, SocketTypes, HeldIsOne, HoldingOK, HeldBy, At
  <2>. QED
    BY <1>10, <1>11, <2>1, <2>2 DEF SocketInv, KeepingOK, HeldBy, SocketTypes, CacheTypes
<1>14. ContinuationOK'
  <2>1. PICK more : more = Append(served, input)
    OBVIOUS
  <2>2. /\ Len(more) = Len(served) + 1 /\ more[Len(more)] = input
        /\ \A i \in 1..Len(served) : more[i] = served[i]
    BY <1>2, <2>1, AppendProperties DEF input
  <2>3. conn'[c].served = more
    BY <1>6, <2>1 DEF served
  <2>4. ASSUME NEW d \in Conns, entry'[d].continuation.id # 0
        PROVE  LET k == entry'[d].continuation IN
               /\ k.id \in 1..Len(conn'[d].served)
               /\ conn'[d].served[k.id] = k.input \o k.items
    <3>1. CASE d = c
      <4>1. entry'[c].continuation = was
        BY <1>8, <2>4, <3>1 DEF NoContinuation, was
      <4>2. was.id # 0
        BY <2>4, <3>1, <4>1
      <4>3. was.id \in 1..Len(served) /\ served[was.id] = was.input \o was.items
        BY <1>3, <4>2
      <4>4. was.id \in 1..Len(more) /\ more[was.id] = was.input \o was.items
        <5>1. PICK i \in Nat, n \in Nat : i = was.id /\ n = Len(served)
          BY <1>2
        <5>2. i \in 1..n /\ Len(more) = n + 1
          BY <2>2, <4>3, <5>1
        <5>3. i \in 1..Len(more)
          BY <5>1, <5>2
        <5>. QED
          BY <2>2, <4>3, <5>1, <5>3
      <4>. QED
        BY <2>3, <3>1, <4>1, <4>4
    <3>2. CASE d # c
      <4>1. entry'[d] = entry[d] /\ conn'[d] = conn[d]
        BY <1>6, <1>7, <3>2
      <4>. QED
        BY <2>4, <4>1 DEF SocketInv, ContinuationOK
    <3>. QED
      BY <3>1, <3>2
  <2>5. ASSUME NEW q \in Requests, request'[q].pc = "receive"
        PROVE  LET all == conn'[request'[q].conn].served IN
               /\ entry'[request'[q].conn].continuation.id < Len(all)
               /\ all[Len(all)] = request'[q].input
    <3>1. CASE q = r
      <4>1. entry'[c].continuation.id \in {0, was.id} /\ was.id <= Len(served)
        <5>1. entry'[c].continuation.id \in {0, was.id}
          BY <1>8 DEF NoContinuation, was
        <5>2. was.id <= Len(served)
          <6>1. PICK i \in Nat, n \in Nat : i = was.id /\ n = Len(served)
            BY <1>2
          <6>2. i # 0 => i \in 1..n
            BY <1>3, <6>1
          <6>. QED
            BY <6>1, <6>2
        <5>. QED
          BY <5>1, <5>2
      <4>. QED
        BY <1>2, <1>4, <2>2, <2>3, <3>1, <4>1
    <3>2. CASE q # r
      BY <1>6, <1>7, <1>9, <2>5, <3>2 DEF SocketInv, ContinuationOK, HeldBy, At
    <3>. QED
      BY <3>1, <3>2
  <2>. QED
    BY <2>4, <2>5 DEF ContinuationOK, HeldBy, At
<1>15. SourcesOK'
  BY <1>1, <1>4, <1>11 DEF SocketInv, SourcesOK, OthersStay, At
<1>. QED
  BY <1>12, <1>13, <1>14, <1>15 DEF SocketInv

LEMMA CompleteInv ==
  ASSUME SocketInv, NEW r \in Requests, Complete(r), SocketTypes', ConnectionAssumption
  PROVE  SocketInv'
<1> DEFINE c == HeldBy(r)
           was == entry[c].continuation
           input == request[r].input
           served == conn[c].served
           id == Len(conn[c].served)
           answer == TurnItem("answer", Last(request[r].input)[2])
<1>1. request[r].pc = "receive" /\ c \in Conns /\ input \in Seq(Item) /\ input # <<>>
  BY DEF Complete, At, SocketInv, SocketTypes, HeldIsOne, RequestTypes, RequestStates, HeldBy
<1>2. OthersStay(r) /\ request'[r].conn = NoConn /\ request'[r].pc = "idle"
  BY EndingOthers, NoneTyped DEF Complete
<1>3. SourcesOK'
  BY <1>1, <1>2 DEF Complete, SocketInv, SourcesOK, OthersStay, At
<1>4. CASE request[r].cached /\ ~request[r].cancelled
  <2>1. PICK k : /\ k \in {NoContinuation, IF UsesContinuation(r) THEN Remembered(r, id) ELSE was}
                 /\ entry' = [entry EXCEPT ![c] = [@ EXCEPT !.busy = FALSE, !.timer = TRUE, !.continuation = k]]
    BY <1>4 DEF Complete
  <2>2. conn' = [conn EXCEPT ![c].served[id] = Append(@, answer)] /\ UNCHANGED wsCache
    BY <1>4 DEF Complete
  <2>3. /\ served \in Seq(Seq(Item)) /\ id \in Nat /\ id \in 1..id
        /\ was.id \in Nat /\ was.id < id /\ served[id] = input
    BY <1>1, LastServed, LenProperties DEF SocketInv, SocketTypes, CacheTypes, EntryStates, ConnStates, Continuations, ContinuationOK, At
  <2>4. answer \in Item
    <3>1. Last(input) \in Item
      BY <1>1, EmptySeq, ElementOfSeq DEF Last
    <3>. QED
      BY <3>1 DEF Item, TurnItem
  <2>5. Remembered(r, id).id = id /\ Remembered(r, id).input = input /\ Remembered(r, id).items = <<answer>>
    BY DEF Remembered
  <2>. HIDE DEF c, was, input, served, id, answer
  <2>6. PICK whole \in Seq(Item) : whole = Append(input, answer) /\ whole = input \o <<answer>>
    BY <1>1, <2>4, AppendProperties, AppendIsConcat
  <2>7. PICK more \in Seq(Seq(Item)) :
          /\ more = [served EXCEPT ![id] = whole] /\ Len(more) = id /\ more[id] = whole
          /\ \A i \in 1..id : i # id => more[i] = served[i]
    <3>1. Len(served) = id
      BY DEF served, id
    <3>2. id \in 1..Len(served)
      BY <2>3, <3>1
    <3>3. /\ [served EXCEPT ![id] = whole] \in Seq(Seq(Item))
          /\ Len([served EXCEPT ![id] = whole]) = Len(served)
          /\ \A i \in 1..Len(served) : [served EXCEPT ![id] = whole][i] = IF i = id THEN whole ELSE served[i]
      BY <2>3, <3>2, ExceptSeq
    <3>. QED
      BY <3>1, <3>2, <3>3
  <2>8. conn'[c].served = more /\ conn'[c].state = conn[c].state /\ \A d \in Conns \ {c} : conn'[d] = conn[d]
    <3>1. conn' = [conn EXCEPT ![c] = [conn[c] EXCEPT !.served = [served EXCEPT ![id] = Append(@, answer)]]]
      BY <1>1, <2>2 DEF SocketInv, SocketTypes, CacheTypes, served
    <3>2. [served EXCEPT ![id] = Append(@, answer)] = more
      BY <2>3, <2>6, <2>7
    <3>3. conn' = [conn EXCEPT ![c] = [conn[c] EXCEPT !.served = more]]
      BY <3>1, <3>2
    <3>. QED
      BY <1>1, <3>3 DEF SocketInv, SocketTypes, CacheTypes, ConnStates
  <2>9. /\ \A d \in Conns \ {c} : entry'[d] = entry[d]
        /\ ~entry'[c].busy /\ entry'[c].timer /\ entry'[c].continuation = k
    <3>1. PICK e : e = [[[entry[c] EXCEPT !.busy = FALSE] EXCEPT !.timer = TRUE] EXCEPT !.continuation = k]
      OBVIOUS
    <3>2. entry[c] \in EntryStates
      BY <1>1 DEF SocketInv, SocketTypes, CacheTypes
    <3>3. ~e.busy /\ e.timer /\ e.continuation = k
      BY <3>1, <3>2 DEF EntryStates
    <3>4. entry'[c] = e /\ \A d \in Conns \ {c} : entry'[d] = entry[d]
      BY <1>1, <2>1, <3>1 DEF SocketInv, SocketTypes, CacheTypes
    <3>. QED
      BY <3>3, <3>4
  <2>10. \A q \in Requests : request'[q].conn # NoConn \/ request'[q].pc = "receive" =>
            q # r /\ request'[q] = request[q] /\ request[q].conn \in Conns \ {c}
    <3>1. \A q \in Requests \ {r} : request[q].conn # c
      BY <1>1 DEF SocketInv, HoldingOK, HeldBy, ConnectionAssumption, c
    <3>. QED
      BY <1>2, <3>1 DEF OthersStay, SocketInv, SocketTypes, HeldIsOne, HoldingOK, HeldBy, At
  <2>11. HoldingOK'
    <3>1. \A q \in Requests : request'[q].conn # NoConn <=> request'[q].pc \in {"send", "receive"}
      BY <1>2 DEF OthersStay, SocketInv, HoldingOK, HeldBy, At
    <3>2. \A p, q \in Requests : p # q /\ request'[p].conn # NoConn => request'[p].conn # request'[q].conn
      BY <2>10 DEF SocketInv, HoldingOK, HeldBy
    <3>3. ASSUME NEW q \in Requests, request'[q].conn # NoConn
          PROVE  IF request'[q].cached THEN entry'[request'[q].conn].busy
                 ELSE entry'[request'[q].conn] = NoEntry /\ wsCache' # request'[q].conn
      BY <2>2, <2>9, <2>10, <3>3 DEF SocketInv, HoldingOK, HeldBy
    <3>. QED
      BY <3>1, <3>2, <3>3 DEF HoldingOK, HeldBy, At
  <2>12. KeepingOK'
    <3>1. \A d \in Conns : conn'[d].state = conn[d].state
      BY <2>8
    <3>2. \A q \in Requests : request'[q].conn # NoConn => conn'[request'[q].conn].state # "closed"
      BY <2>8, <2>10 DEF SocketInv, KeepingOK, HeldBy
    <3>3. wsCache' # NoConn => conn'[wsCache'].state # "closed"
      BY <2>2, <3>1 DEF SocketInv, KeepingOK, SocketTypes, CacheTypes
    <3>4. ASSUME NEW d \in Conns, d \notin InUse'
          PROVE  /\ ~entry'[d].busy
                 /\ conn'[d].state # "closed" => entry'[d].timer \/ entry'[d].fired > 0
      <4>1. CASE d = c
        BY <2>9, <4>1
      <4>2. CASE d # c
        <5>1. d \notin InUse
          BY <1>2, <3>4, <4>2 DEF InUse, HeldBy, OthersStay, c
        <5>. QED
          BY <2>8, <2>9, <4>2, <5>1 DEF SocketInv, KeepingOK
      <4>. QED
        BY <4>1, <4>2
    <3>. QED
      BY <3>2, <3>3, <3>4 DEF KeepingOK, HeldBy
  <2>13. ContinuationOK'
    <3>1. ASSUME NEW d \in Conns, entry'[d].continuation.id # 0
          PROVE  LET k1 == entry'[d].continuation IN
                 /\ k1.id \in 1..Len(conn'[d].served)
                 /\ conn'[d].served[k1.id] = k1.input \o k1.items
      <4>1. CASE d # c
        <5>1. entry'[d] = entry[d] /\ conn'[d] = conn[d]
          BY <2>8, <2>9, <4>1
        <5>. QED
          BY <3>1, <5>1 DEF SocketInv, ContinuationOK
      <4>2. CASE d = c /\ k = Remembered(r, id)
        <5>1. k.id = id /\ k.input \o k.items = whole
          BY <2>5, <2>6, <4>2
        <5>. QED
          BY <2>3, <2>7, <2>8, <2>9, <4>2, <5>1
      <4>3. CASE d = c /\ k = was
        <5>1. was.id # 0 /\ was.id \in 1..Len(served) /\ served[was.id] = was.input \o was.items
          BY <1>1, <2>9, <3>1, <4>3 DEF SocketInv, ContinuationOK, was, served
        <5>2. PICK i \in 1..id : i = was.id /\ i # id
          <6>1. PICK i \in Nat, n \in Nat : i = was.id /\ n = id
            BY <2>3
          <6>2. i < n /\ i # 0
            BY <2>3, <5>1, <6>1
          <6>. QED
            BY <6>1, <6>2
        <5>3. more[i] = served[i]
          BY <2>7, <5>2
        <5>. QED
          BY <2>7, <2>8, <2>9, <4>3, <5>1, <5>2, <5>3
      <4>4. CASE d = c /\ k = NoContinuation
        BY <2>9, <3>1, <4>4 DEF NoContinuation
      <4>. QED
        BY <2>1, <4>1, <4>2, <4>3, <4>4
    <3>2. ASSUME NEW q \in Requests, request'[q].pc = "receive"
          PROVE  LET all == conn'[request'[q].conn].served IN
                 /\ entry'[request'[q].conn].continuation.id < Len(all)
                 /\ all[Len(all)] = request'[q].input
      <4>1. request'[q] = request[q] /\ request[q].conn \in Conns \ {c}
        BY <2>10, <3>2
      <4>2. entry'[request'[q].conn] = entry[request[q].conn] /\ conn'[request'[q].conn] = conn[request[q].conn]
        BY <2>8, <2>9, <4>1
      <4>. QED
        BY <3>2, <4>1, <4>2 DEF SocketInv, ContinuationOK, HeldBy, At
    <3>. QED
      BY <3>1, <3>2 DEF ContinuationOK, HeldBy, At
  <2>. QED
    BY <1>3, <2>11, <2>12, <2>13 DEF SocketInv
<1>5. CASE ~(request[r].cached /\ ~request[r].cancelled)
  <2>1. Close(c) /\ entry' = [entry EXCEPT ![c] = [NoEntry EXCEPT !.fired = entry[c].fired]]
    BY <1>5 DEF Complete
  <2>2. HoldingOK' /\ KeepingOK' /\ ContinuationOK'
    <3>1. c = HeldBy(r)
      OBVIOUS
    <3>. HIDE DEF c
    <3>. QED
      BY <1>1, <1>2, <2>1, <3>1, ClosedInv
  <2>. QED
    BY <1>3, <2>2 DEF SocketInv
<1>. QED
  BY <1>4, <1>5

-------------------------------------------------------------------------------

\* The invariant holds at first,
LEMMA SocketInvInit == ConnectionInit => SocketInv
<1>. SUFFICES ASSUME ConnectionInit PROVE SocketInv
  OBVIOUS
<1>. USE DEF ConnectionInit
<1>1. <<>> \in Seq(Item)
  BY EmptySeq
<1>2. SocketTypes
  BY <1>1, NoneTyped DEF SocketTypes, RequestTypes, CacheTypes, TalkTypes, HeldIsOne
<1>3. HoldingOK
  BY NoneTyped DEF HoldingOK, HeldBy, At
<1>4. KeepingOK
  BY NoneTyped DEF KeepingOK, HeldBy, InUse, NoConnection, NoEntry
<1>5. ContinuationOK
  BY NoneTyped DEF ContinuationOK, At, NoEntry, NoContinuation
<1>6. SourcesOK
  BY NoneTyped DEF SourcesOK, At
<1>. QED
  BY <1>2, <1>3, <1>4, <1>5, <1>6 DEF SocketInv

\* ... every step keeps it,
LEMMA SocketInvNext == SocketInv /\ [ConnectionNext]_connectionVars => SocketInv'
<1>. SUFFICES ASSUME SocketInv, [ConnectionNext]_connectionVars PROVE SocketInv'
  OBVIOUS
<1>0. SocketTypes /\ ContinuationOK
  BY DEF SocketInv
<1>1. ASSUME NEW r \in Requests, AskModel(r) PROVE SocketInv'
  BY <1>0, <1>1, ConnectionAssumption, AskModelTypes, AskModelInv
<1>2. ASSUME NEW r \in Requests, CancelRequest(r) PROVE SocketInv'
  BY <1>0, <1>2, CancelRequestTypes, CancelRequestInv
<1>3. ASSUME NEW r \in Requests, PayloadRefused(r) PROVE SocketInv'
  BY <1>0, <1>3, PayloadRefusedTypes, PayloadRefusedInv
<1>4. ASSUME NEW r \in Requests, Acquire(r) PROVE SocketInv'
  BY <1>0, <1>4, ConnectionAssumption, AcquireTypes, AcquireInv
<1>5. ASSUME NEW r \in Requests, Dial(r) PROVE SocketInv'
  BY <1>0, <1>5, ConnectionAssumption, DialTypes, DialInv
<1>6. ASSUME NEW r \in Requests, DialFails(r) PROVE SocketInv'
  BY <1>0, <1>6, DialFailsTypes, DialFailsInv
<1>7. ASSUME NEW r \in Requests, Send(r) PROVE SocketInv'
  BY <1>0, <1>7, ConnectionAssumption, SendTypes, SendInv
<1>8. ASSUME NEW r \in Requests, Receive(r) PROVE SocketInv'
  BY <1>0, <1>8, ReceiveTypes, ReceiveInv
<1>9. ASSUME NEW r \in Requests, RequestBreaks(r) PROVE SocketInv'
  BY <1>0, <1>9, ConnectionAssumption, RequestBreaksTypes, RequestBreaksInv
<1>10. ASSUME NEW r \in Requests, Complete(r) PROVE SocketInv'
  BY <1>0, <1>10, ConnectionAssumption, CompleteTypes, CompleteInv
<1>11. ASSUME NEW r \in Requests, AttemptSSE(r) PROVE SocketInv'
  BY <1>0, <1>11, AttemptSSETypes, AttemptSSEInv
<1>12. ASSUME NEW r \in Requests, FinishSSE(r) PROVE SocketInv'
  BY <1>0, <1>12, FinishSSETypes, FinishSSEInv
<1>13. ASSUME NEW c \in Conns, IdleTimerFires(c) PROVE SocketInv'
  BY <1>0, <1>13, IdleTimerFiresTypes, IdleTimerFiresInv
<1>14. ASSUME NEW c \in Conns, IdleTimerRuns(c) PROVE SocketInv'
  BY <1>0, <1>14, ConnectionAssumption, IdleTimerRunsTypes, IdleTimerRunsInv
<1>15. ASSUME NEW c \in Conns, ServiceLeaves(c) PROVE SocketInv'
  BY <1>0, <1>15, ServiceLeavesTypes, ServiceLeavesInv
<1>16. CASE RewindConversation
  BY <1>0, <1>16, RewindTypes, RewindInv
<1>17. CASE UNCHANGED connectionVars
  BY <1>17 DEF connectionVars, SocketInv, SocketTypes, RequestTypes, CacheTypes, TalkTypes, HeldIsOne,
       HoldingOK, KeepingOK, ContinuationOK, SourcesOK, HeldBy, At, InUse
<1>. QED
  BY <1>1, <1>2, <1>3, <1>4, <1>5, <1>6, <1>7, <1>8, <1>9, <1>10, <1>11, <1>12, <1>13, <1>14,
     <1>15, <1>16, <1>17 DEF ConnectionNext

\* ... and it gives the properties.
LEMMA SocketInvSafe == SocketInv => ConnectionsSafe
<1>. SUFFICES ASSUME SocketInv PROVE ConnectionsSafe
  OBVIOUS
<1>1. \A r \in Requests : HeldBy(r) \in Conns \cup {NoConn}
  BY DEF SocketInv, SocketTypes, RequestTypes, RequestStates, HeldBy
<1>2. ConnectionsOwned
  <2>1. \A c \in InUse : conn[c].state # "closed"
    BY DEF InUse, SocketInv, KeepingOK
  <2>. QED
    BY <2>1 DEF ConnectionsOwned, SocketInv, HoldingOK, KeepingOK
<1>3. AnswersWholeInput
  <2>1. ASSUME NEW r \in Requests, At(r, {"receive"})
        PROVE  Last(conn[HeldBy(r)].served) = request[r].input
    BY <2>1 DEF SocketInv, ContinuationOK, Last
  <2>2. ASSUME NEW r \in Requests PROVE Cardinality(sources[r]) <= 1
    <3>1. request[r].pc \in RequestSteps
      BY DEF SocketInv, SocketTypes, RequestTypes, RequestStates
    <3>2. sources[r] \in {{}, {"websocket"}, {"sse"}}
      BY <3>1 DEF SocketInv, SourcesOK, At, RequestSteps
    <3>3. Cardinality({}) = 0 /\ Cardinality({"websocket"}) = 1 /\ Cardinality({"sse"}) = 1
      BY FS_EmptySet, FS_Singleton
    <3>. QED
      BY <3>2, <3>3
  <2>. QED
    BY <2>1, <2>2 DEF AnswersWholeInput
<1>. QED
  BY <1>2, <1>3 DEF ConnectionsSafe

\* For any number of requests and connections, with any number of timers that were
\* stopped too late: a connection has one owner and is not closed under it, what
\* nobody uses will be closed, and a response answers the whole input
\* (codex_ws.go: acquireCodexWebSocket and what it hands out).
THEOREM ConnectionsKept == ConnectionSpec => []ConnectionsSafe
<1>1. ConnectionInit => SocketInv
  BY SocketInvInit
<1>2. SocketInv /\ [ConnectionNext]_connectionVars => SocketInv'
  BY SocketInvNext
<1>3. SocketInv => ConnectionsSafe
  BY SocketInvSafe
<1>. QED
  BY <1>1, <1>2, <1>3, PTL DEF ConnectionSpec

-------------------------------------------------------------------------------
(* The link                                                                     *)

\* The commands, lines, goroutines and turns there can be.
Ops == {"quick", "prompt", "abort", "compact"}
\* The commands, lines, goroutines and turns there can be.
Commands == [id : Ids, op : Ops]
EventTypes == {"message_update", "agent_end", "settled"}
Lines == [type : {"response"} \cup EventTypes, id : Ids, op : Ops \cup {"none"}, success : BOOLEAN]
JobSteps == {"start", "begun", "refused", "failed", "running", "answered", "finished",
             "waiting", "idle", "compacting"}
Jobs == [id : Ids, op : Ops, step : JobSteps]
Turns == [events : Seq({"text", "error"}), done : BOOLEAN]

\* The types of the two ends.
ServerTypes ==
    /\ stdin \in Seq(Commands) /\ stdout \in Seq(Lines)
    /\ hungUp \in BOOLEAN /\ serving \in {"serving", "closing", "gone", "killed"}
    /\ jobs \subseteq Jobs
    /\ run \in [of : Ids \cup {0}, pieces : 0..MaxPieces, cancelled : BOOLEAN]
CallTypes ==
    /\ nextId \in 1..MaxIds + 1 /\ pending \subseteq Ids /\ inbox \subseteq Ids
    /\ call \in [id : Ids \cup {0}, op : Ops \cup {"none"}, step : {"idle", "sending", "waiting"}]
    /\ closed \in BOOLEAN /\ heard \subseteq Ids
TurnTypes ==
    /\ turn \in Ids \cup {0} /\ watched \in Ids \cup {0}
    /\ turns \in [Ids -> Turns] /\ \A t \in Ids : Len(turns[t].events) <= TurnBuffer
    /\ runners \subseteq [id : Ids, step : {"submit", "drain", "abort", "leave"}]
    /\ reader \in [turn : Ids \cup {0}, item : {"none", "text", "error"}, closes : BOOLEAN]
    /\ reader # Free => reader.turn \in Ids /\ reader.item # "none"
LinkTypes == ServerTypes /\ CallTypes /\ TurnTypes

\* What a goroutine still owes a response for.
Owes(j) == j.op # "prompt" \/ j.step \in {"start", "begun", "refused", "failed"}

\* A sequence has a member of T, or one at most.
Among(s, T) == \E i \in DOMAIN s : s[i] \in T
OnceAmong(s, T) == \A i, k \in DOMAIN s : s[i] \in T /\ s[k] \in T => i = k
\* The lines that ask for a command, and those that answer it.
AsksOf(id) == {c \in Commands : c.id = id}
AnswersTo(id) == {l \in Lines : l.type = "response" /\ l.id = id}

\* The places a command and its answer can be.
Asked(id) == Among(stdin, AsksOf(id))
Told(id) == Among(stdout, AnswersTo(id))
Served(id) == \E j \in jobs : j.id = id
Owed(id) == \E j \in jobs : j.id = id /\ Owes(j)
Unsent(id) == (call.id = id /\ call.step = "sending") \/ Runner(id, "submit") \in runners

\* A command is in one place, and an answer in another only when the command is in none.
PlaceOK(id) ==
    /\ OnceAmong(stdin, AsksOf(id)) /\ OnceAmong(stdout, AnswersTo(id))
    /\ Asked(id) => ~Told(id) /\ id \notin heard /\ ~Served(id)
    /\ Owed(id) => ~Told(id) /\ id \notin heard
    /\ Told(id) => id \notin heard
    /\ Unsent(id) => ~Asked(id) /\ ~Told(id) /\ id \notin heard /\ ~Served(id)
    /\ serving # "killed" => Unsent(id) \/ Asked(id) \/ Owed(id) \/ Told(id) \/ id \in heard
PlacesOK == (\A id \in Sent : PlaceOK(id)) /\ (\A j, k \in jobs : j.id = k.id => j = k)

\* Nothing bears an id that was not given out.
ServerSent ==
    /\ \A i \in DOMAIN stdin : stdin[i].id \in Sent
    /\ \A i \in DOMAIN stdout : stdout[i].id \in Sent
    /\ \A j \in jobs : j.id \in Sent
    /\ run.of \in Sent \cup {0}
\* ... on the side of the client.
ClientSent ==
    /\ \A r \in runners : r.id \in Sent
    /\ call.id \in Sent \cup {0} /\ turn \in Sent \cup {0} /\ watched \in Sent \cup {0}
    /\ pending \subseteq Sent /\ heard \subseteq Sent

\* A server that leaves by itself saw the end of stdin, which a waiting client keeps open.
EndsOK ==
    /\ serving \in {"closing", "gone"} => hungUp
    /\ hungUp => call = NoCall /\ runners = {}

\* A request is known to the reader until its response is in the inbox.
CallOK ==
    /\ call.step = "idle" => call = NoCall
    /\ call.step # "idle" => call.id \in Sent /\ call.op # "none" /\ \A r \in runners : r.id # call.id
    /\ call.step = "sending" => closed \/ call.id \in pending
    /\ call.step = "waiting" =>
          closed \/ call.id \in inbox \/ (call.id \in pending /\ call.id \notin heard)

\* The inductive invariant of the link.
LinkInv == LinkTypes /\ PlacesOK /\ ServerSent /\ ClientSent /\ EndsOK /\ CallOK /\ WatchedIsActive

-------------------------------------------------------------------------------
\* What a sequence has of T once a member is added at its end,
LEMMA AppendAmong ==
  ASSUME NEW S, NEW s \in Seq(S), NEW e \in S, NEW T
  PROVE  /\ Among(Append(s, e), T) <=> Among(s, T) \/ e \in T
         /\ OnceAmong(s, T) /\ (e \in T => ~Among(s, T)) => OnceAmong(Append(s, e), T)
<1>1. /\ DOMAIN Append(s, e) = 1..Len(s) + 1 /\ DOMAIN s = 1..Len(s) /\ Len(s) \in Nat
      /\ \A i \in 1..Len(s) : Append(s, e)[i] = s[i]
      /\ Append(s, e)[Len(s) + 1] = e
  BY AppendProperties, LenProperties
<1>2. \A i \in DOMAIN Append(s, e) : i \in DOMAIN s \/ i = Len(s) + 1
  BY <1>1
<1>3. \A i \in DOMAIN s : i \in DOMAIN Append(s, e) /\ Append(s, e)[i] = s[i]
  BY <1>1
<1>4. Len(s) + 1 \in DOMAIN Append(s, e)
  BY <1>1
<1>. QED
  BY <1>1, <1>2, <1>3, <1>4 DEF Among, OnceAmong

\* ... or taken from its head.
LEMMA TailAmong ==
  ASSUME NEW S, NEW s \in Seq(S), s # <<>>, NEW T
  PROVE  /\ Among(s, T) <=> Among(Tail(s), T) \/ Head(s) \in T
         /\ OnceAmong(s, T) => /\ OnceAmong(Tail(s), T)
                               /\ Head(s) \in T => ~Among(Tail(s), T)
<1>1. /\ Tail(s) \in Seq(S) /\ Len(Tail(s)) = Len(s) - 1 /\ Len(s) \in Nat /\ Len(s) # 0
      /\ \A i \in 1..Len(Tail(s)) : Tail(s)[i] = s[i + 1]
      /\ Head(s) = s[1]
      /\ DOMAIN s = 1..Len(s) /\ DOMAIN Tail(s) = 1..Len(Tail(s))
  BY HeadTailProperties, LenProperties, EmptySeq
<1>2. \A i \in DOMAIN Tail(s) : i \in Int /\ i + 1 \in DOMAIN s /\ Tail(s)[i] = s[i + 1] /\ i + 1 # 1
  BY <1>1
<1>3. \A i \in DOMAIN s : i \in Int /\ (i # 1 => i - 1 \in DOMAIN Tail(s) /\ Tail(s)[i - 1] = s[i])
  <2>. SUFFICES ASSUME NEW i \in DOMAIN s, i # 1
                PROVE  i - 1 \in DOMAIN Tail(s) /\ Tail(s)[i - 1] = s[i]
    BY <1>1
  <2>1. i - 1 \in 1..Len(Tail(s)) /\ (i - 1) + 1 = i
    BY <1>1
  <2>. QED
    BY <2>1, <1>1
<1>4. 1 \in DOMAIN s
  BY <1>1
<1>5. Among(s, T) <=> Among(Tail(s), T) \/ Head(s) \in T
  BY <1>1, <1>2, <1>3, <1>4 DEF Among
<1>6. OnceAmong(s, T) => OnceAmong(Tail(s), T)
  BY <1>2 DEF OnceAmong
<1>7. OnceAmong(s, T) /\ Head(s) \in T => ~Among(Tail(s), T)
  BY <1>1, <1>2, <1>4 DEF OnceAmong, Among
<1>. QED
  BY <1>5, <1>6, <1>7

\* A sequence with at most one member in T has none or one at all.
LEMMA CountAmong ==
  ASSUME NEW s, NEW T, OnceAmong(s, T)
  PROVE  LET C == {i \in DOMAIN s : s[i] \in T}
         IN  Cardinality(C) = IF Among(s, T) THEN 1 ELSE 0
<1>. DEFINE C == {i \in DOMAIN s : s[i] \in T}
<1>1. CASE Among(s, T)
  <2>1. PICK i \in DOMAIN s : s[i] \in T
    BY <1>1 DEF Among
  <2>2. C = {i}
    BY <2>1 DEF OnceAmong
  <2>. QED
    BY <1>1, <2>2, FS_Singleton
<1>2. CASE ~Among(s, T)
  <2>1. C = {}
    BY <1>2 DEF Among
  <2>. QED
    BY <1>2, <2>1, FS_EmptySet
<1>. QED
  BY <1>1, <1>2

\* The invariant gives the properties of the link.
LEMMA LinkInvSafe == ASSUME LinkInv PROVE LinkSafe
<1>1. WatchedIsActive
  BY DEF LinkInv
<1>2. RequestNotLost
  <2>. SUFFICES ASSUME call.step = "waiting", ~closed, serving \in {"serving", "closing"},
                       call.id \notin inbox, ~\E j \in jobs : j.id = call.id,
                       ~\E i \in DOMAIN stdin : stdin[i].id = call.id
                PROVE  call.id \in pending /\ \E i \in DOMAIN stdout : stdout[i].id = call.id
    BY DEF RequestNotLost
  <2>1. call.id \in Sent /\ call.id \in pending /\ call.id \notin heard /\ \A r \in runners : r.id # call.id
    BY DEF LinkInv, CallOK
  <2>2. PlaceOK(call.id)
    BY <2>1 DEF LinkInv, PlacesOK
  <2>3. ~Unsent(call.id)
    BY <2>1 DEF Unsent, Runner
  <2>4. ~Asked(call.id)
    BY DEF Asked, Among, AsksOf
  <2>5. ~Owed(call.id)
    BY DEF Owed
  <2>6. Told(call.id)
    BY <2>1, <2>2, <2>3, <2>4, <2>5 DEF PlaceOK
  <2>. QED
    BY <2>1, <2>6 DEF Told, Among, AnswersTo
<1>3. OneAnswerPerLine
  <2>. SUFFICES ASSUME NEW id \in Sent
                PROVE  LET answers == Cardinality(heard \cap {id})
                             + Occurs(stdout, LAMBDA l : l.type = "response" /\ l.id = id)
                           owed == Occurs(stdin, LAMBDA c : c.id = id) + Cardinality({j \in Owing : j.id = id})
                           unsent == \/ call.id = id /\ call.step = "sending"
                                     \/ Runner(id, "submit") \in runners
                       IN  /\ answers + owed <= 1
                           /\ serving # "killed" /\ ~unsent => answers + owed = 1
    BY DEF OneAnswerPerLine
  <2>. DEFINE heardOf == Cardinality(heard \cap {id})
              toldOf == Cardinality({i \in DOMAIN stdout : stdout[i].type = "response" /\ stdout[i].id = id})
              askedOf == Cardinality({i \in DOMAIN stdin : stdin[i].id = id})
              owedOf == Cardinality({j \in Owing : j.id = id})
  <2>1. PlaceOK(id)
    BY DEF LinkInv, PlacesOK
  <2>2. heardOf = IF id \in heard THEN 1 ELSE 0
    <3>1. heard \cap {id} = IF id \in heard THEN {id} ELSE {}
      OBVIOUS
    <3>. QED
      BY <3>1, FS_Singleton, FS_EmptySet
  <2>3. toldOf = IF Told(id) THEN 1 ELSE 0
    <3>1. \A i \in DOMAIN stdout : stdout[i] \in Lines
      BY ElementOfSeq, LenProperties DEF LinkInv, LinkTypes, ServerTypes
    <3>2. {i \in DOMAIN stdout : stdout[i].type = "response" /\ stdout[i].id = id}
            = {i \in DOMAIN stdout : stdout[i] \in AnswersTo(id)}
      BY <3>1 DEF AnswersTo
    <3>3. OnceAmong(stdout, AnswersTo(id))
      BY <2>1 DEF PlaceOK
    <3>. QED
      BY <3>2, <3>3, CountAmong DEF Told
  <2>4. askedOf = IF Asked(id) THEN 1 ELSE 0
    <3>1. \A i \in DOMAIN stdin : stdin[i] \in Commands
      BY ElementOfSeq, LenProperties DEF LinkInv, LinkTypes, ServerTypes
    <3>2. {i \in DOMAIN stdin : stdin[i].id = id} = {i \in DOMAIN stdin : stdin[i] \in AsksOf(id)}
      BY <3>1 DEF AsksOf
    <3>3. OnceAmong(stdin, AsksOf(id))
      BY <2>1 DEF PlaceOK
    <3>. QED
      BY <3>2, <3>3, CountAmong DEF Asked
  <2>5. owedOf = IF Owed(id) THEN 1 ELSE 0
    <3>1. CASE Owed(id)
      <4>1. PICK j \in jobs : j.id = id /\ Owes(j)
        BY <3>1 DEF Owed
      <4>2. {k \in Owing : k.id = id} = {j}
        BY <4>1 DEF Owing, Owes, LinkInv, PlacesOK
      <4>. QED
        BY <3>1, <4>2, FS_Singleton
    <3>2. CASE ~Owed(id)
      <4>1. {k \in Owing : k.id = id} = {}
        BY <3>2 DEF Owing, Owes, Owed
      <4>. QED
        BY <3>2, <4>1, FS_EmptySet
    <3>. QED
      BY <3>1, <3>2
  <2>6. Asked(id) => ~Told(id) /\ id \notin heard /\ ~Owed(id)
    BY <2>1 DEF PlaceOK, Served, Owed
  <2>7. Owed(id) => ~Told(id) /\ id \notin heard
    BY <2>1 DEF PlaceOK
  <2>8. Told(id) => id \notin heard
    BY <2>1 DEF PlaceOK
  <2>9. serving # "killed" /\ ~Unsent(id) => Asked(id) \/ Owed(id) \/ Told(id) \/ id \in heard
    BY <2>1 DEF PlaceOK
  <2>. HIDE DEF heardOf, toldOf, askedOf, owedOf
  <2>10. (heardOf + toldOf) + (askedOf + owedOf) <= 1
    BY <2>2, <2>3, <2>4, <2>5, <2>6, <2>7, <2>8
  <2>11. serving # "killed" /\ ~Unsent(id) => (heardOf + toldOf) + (askedOf + owedOf) = 1
    BY <2>2, <2>3, <2>4, <2>5, <2>6, <2>7, <2>8, <2>9
  <2>. QED
    BY <2>10, <2>11 DEF heardOf, toldOf, askedOf, owedOf, Occurs, Unsent
<1>. QED
  BY <1>1, <1>2, <1>3 DEF LinkSafe

-------------------------------------------------------------------------------
(* Types                                                                        *)

\* The initial values have their types.
LEMMA FreshTyped ==
  /\ NoCall \in [id : Ids \cup {0}, op : Ops \cup {"none"}, step : {"idle", "sending", "waiting"}]
  /\ Free \in [turn : Ids \cup {0}, item : {"none", "text", "error"}, closes : BOOLEAN]
  /\ NewTurn \in Turns /\ Len(NewTurn.events) = 0
  /\ \A step \in {"submit", "drain", "abort", "leave"}, id \in Ids :
        Runner(id, step) \in [id : Ids, step : {"submit", "drain", "abort", "leave"}]
<1>1. <<>> \in Seq({"text", "error"}) /\ Len(<<>>) = 0
  BY EmptySeq
<1>. QED
  BY <1>1 DEF NoCall, Free, NewTurn, Turns, Runner

\* The types hold at first.
LEMMA InitTypes == RpcInit => LinkTypes
<1>1. <<>> \in Seq(Commands) /\ <<>> \in Seq(Lines)
  BY EmptySeq
<1>0. 0 \in 0..MaxPieces /\ 1 \in 1..MaxIds + 1
  BY LinkAssumption
<1>2. RpcInit => ServerTypes
  <2>1. [of |-> 0, pieces |-> 0, cancelled |-> FALSE]
          \in [of : Ids \cup {0}, pieces : 0..MaxPieces, cancelled : BOOLEAN]
    BY <1>0
  <2>. QED
    BY <1>1, <2>1 DEF RpcInit, ServerInit, ServerTypes
<1>3. RpcInit => CallTypes
  BY FreshTyped, <1>0 DEF RpcInit, ClientInit, CallTypes
<1>4. RpcInit => TurnTypes
  BY FreshTyped, LinkAssumption DEF RpcInit, ClientInit, TurnTypes
<1>. QED
  BY <1>2, <1>3, <1>4 DEF LinkTypes

\* Ids that were given out are ids.
LEMMA SentIds == ASSUME LinkTypes PROVE Sent \subseteq Ids /\ 0 \notin Ids
  BY LinkAssumption DEF LinkTypes, CallTypes, Sent, Ids

\* Lines, goroutines and runs stay what they are when a step changes them.
LEMMA WritesTyped ==
  ASSUME ServerTypes, NEW line \in Lines, Writes(line)
  PROVE  stdout' \in Seq(Lines)
  BY AppendProperties DEF Writes, ServerTypes

LEMMA MovesTyped ==
  ASSUME ServerTypes, NEW j \in jobs, NEW step \in JobSteps
  PROVE  /\ [j EXCEPT !.step = step] \in Jobs
         /\ Moves(j, step) => jobs' \subseteq Jobs
         /\ Ends(j) => jobs' \subseteq Jobs
  BY DEF ServerTypes, Jobs, Moves, Ends

LEMMA RunTyped ==
  ASSUME ServerTypes, NEW id \in Ids \cup {0}
  PROVE  /\ RunOf(id) \in [of : Ids \cup {0}, pieces : 0..MaxPieces, cancelled : BOOLEAN]
         /\ NoRun \in [of : Ids \cup {0}, pieces : 0..MaxPieces, cancelled : BOOLEAN]
         /\ Cancelled \in [of : Ids \cup {0}, pieces : 0..MaxPieces, cancelled : BOOLEAN]
         /\ RunOf(id).of = id /\ NoRun.of = 0 /\ Cancelled.of = run.of
  BY DEF ServerTypes, RunOf, NoRun, Cancelled

LEMMA LineTyped ==
  ASSUME ServerTypes, NEW j \in jobs, NEW type \in EventTypes
  PROVE  /\ Event(type, j.id) \in Lines /\ Event(type, j.id).type # "response"
         /\ Event(type, j.id).id = j.id
         /\ \A success \in BOOLEAN : /\ Response(j.id, j.op, success) \in Lines
                                     /\ Response(j.id, j.op, success).type = "response"
                                     /\ Response(j.id, j.op, success).id = j.id
  BY DEF ServerTypes, Event, Response, Lines, EventTypes, Jobs

\* The steps of the server keep its types.
LEMMA JobTypes ==
  ASSUME ServerTypes, NEW j \in jobs, JobStep(j)
  PROVE  ServerTypes'
<1>. USE DEF JobSteps, EventTypes
<1>1. CASE Answer(j)
  BY <1>1, WritesTyped, MovesTyped, LineTyped DEF Answer, ServerTypes
<1>2. CASE PromptBegins(j)
  <2>1. j.id \in Ids
    BY DEF ServerTypes, Jobs
  <2>2. CASE Idle
    <3>1. run' = RunOf(j.id) /\ Moves(j, "begun") /\ UNCHANGED <<stdin, hungUp, serving, stdout>>
      BY <1>2, <2>2 DEF PromptBegins
    <3>2. jobs' \subseteq Jobs
      BY <3>1, MovesTyped
    <3>3. run' \in [of : Ids \cup {0}, pieces : 0..MaxPieces, cancelled : BOOLEAN]
      BY <2>1, <3>1, RunTyped
    <3>. QED
      BY <3>1, <3>2, <3>3 DEF ServerTypes
  <2>3. CASE ~Idle
    <3>1. Response(j.id, j.op, FALSE) \in Lines
      BY LineTyped
    <3>. QED
      BY <1>2, <2>3, <3>1, WritesTyped, MovesTyped DEF PromptBegins, ServerTypes
  <2>. QED
    BY <2>2, <2>3
<1>3. CASE PromptAccepted(j)
  BY <1>3, WritesTyped, MovesTyped, LineTyped DEF PromptAccepted, ServerTypes
<1>4. CASE PromptRefused(j)
  BY <1>4, MovesTyped, RunTyped DEF PromptRefused, ServerTypes
<1>5. CASE RefusedSettles(j)
  BY <1>5, WritesTyped, MovesTyped, LineTyped DEF RefusedSettles, ServerTypes
<1>6. CASE PromptFails(j)
  BY <1>6, WritesTyped, MovesTyped, LineTyped DEF PromptFails, ServerTypes
<1>7. CASE RunUpdates(j)
  <2>1. run' \in [of : Ids \cup {0}, pieces : 0..MaxPieces, cancelled : BOOLEAN]
    BY <1>7, LinkAssumption DEF RunUpdates, ServerTypes
  <2>2. stdout' \in Seq(Lines)
    BY <1>7, WritesTyped, LineTyped DEF RunUpdates
  <2>. QED
    BY <1>7, <2>1, <2>2 DEF RunUpdates, ServerTypes
<1>8. CASE AgentEnds(j)
  BY <1>8, WritesTyped, MovesTyped, LineTyped DEF AgentEnds, ServerTypes
<1>9. CASE RunFinishes(j)
  BY <1>9, MovesTyped, RunTyped DEF RunFinishes, ServerTypes
<1>10. CASE Settles(j)
  BY <1>10, WritesTyped, MovesTyped, LineTyped DEF Settles, ServerTypes
<1>11. CASE AbortBegins(j)
  BY <1>11, MovesTyped, RunTyped DEF AbortBegins, ServerTypes
<1>12. CASE AbortReturns(j)
  BY <1>12, WritesTyped, MovesTyped, LineTyped DEF AbortReturns, ServerTypes
<1>13. CASE IdleSeen(j)
  BY <1>13, MovesTyped DEF IdleSeen, ServerTypes
<1>14. CASE CompactBegins(j)
  <2>1. j.id \in Ids
    BY DEF ServerTypes, Jobs
  <2>2. CASE Idle
    <3>1. run' = RunOf(j.id) /\ Moves(j, "compacting") /\ UNCHANGED <<stdin, hungUp, serving, stdout>>
      BY <1>14, <2>2 DEF CompactBegins
    <3>2. jobs' \subseteq Jobs
      BY <3>1, MovesTyped
    <3>3. run' \in [of : Ids \cup {0}, pieces : 0..MaxPieces, cancelled : BOOLEAN]
      BY <2>1, <3>1, RunTyped
    <3>. QED
      BY <3>1, <3>2, <3>3 DEF ServerTypes
  <2>3. CASE ~Idle
    <3>1. Response(j.id, j.op, FALSE) \in Lines
      BY LineTyped
    <3>. QED
      BY <1>14, <2>3, <3>1, WritesTyped, MovesTyped DEF CompactBegins, ServerTypes
  <2>. QED
    BY <2>2, <2>3
<1>15. CASE CompactReturns(j)
  BY <1>15, WritesTyped, MovesTyped, LineTyped, RunTyped DEF CompactReturns, ServerTypes
<1>. QED
  BY <1>1, <1>2, <1>3, <1>4, <1>5, <1>6, <1>7, <1>8, <1>9, <1>10, <1>11, <1>12, <1>13, <1>14, <1>15 DEF JobStep

LEMMA ServerStepTypes ==
  ASSUME ServerTypes, ServerStep
  PROVE  ServerTypes'
<1>1. CASE ReadCommand
  <2>1. Head(stdin) \in Commands /\ Tail(stdin) \in Seq(Commands)
    BY <1>1, HeadTailProperties DEF ReadCommand, ServerTypes
  <2>2. Job(Head(stdin), "start") \in Jobs
    BY <2>1 DEF Job, Jobs, JobSteps, Commands
  <2>. QED
    BY <1>1, <2>1, <2>2 DEF ReadCommand, ServerTypes
<1>2. CASE ReadEnd
  BY <1>2 DEF ReadEnd, ServerTypes
<1>3. CASE Leave
  BY <1>3, RunTyped DEF Leave, ServerTypes
<1>4. CASE \E j \in jobs : JobStep(j)
  BY <1>4, JobTypes
<1>. QED
  BY <1>1, <1>2, <1>3, <1>4 DEF ServerStep

\* A turn changes, the others stay.
LEMMA OneTurnChanges ==
  ASSUME TurnTypes, NEW t \in Ids, NEW v \in Turns, Len(v.events) <= TurnBuffer,
         turns' = [turns EXCEPT ![t] = v]
  PROVE  turns' \in [Ids -> Turns] /\ \A i \in Ids : Len(turns'[i].events) <= TurnBuffer
  BY DEF TurnTypes

\* The fields of a turn.
LEMMA TurnFields ==
  ASSUME TurnTypes, NEW t \in Ids
  PROVE  turns[t].events \in Seq({"text", "error"}) /\ turns[t].done \in BOOLEAN
  BY DEF TurnTypes, Turns

\* The steps of the reader keep the types.
LEMMA ReaderTypes ==
  ASSUME LinkTypes, ReaderStep
  PROVE  LinkTypes'
<1>. USE DEF LinkTypes
<1>1. ASSUME TakeLine
      PROVE  Head(stdout) \in Lines /\ Head(stdout).id \in Ids /\ stdout' \in Seq(Lines)
  <2>1. stdout \in Seq(Lines) /\ stdout # <<>> /\ stdout' = Tail(stdout)
    BY <1>1 DEF TakeLine, ServerTypes
  <2>2. Head(stdout) \in Lines /\ Tail(stdout) \in Seq(Lines)
    BY <2>1, HeadTailProperties
  <2>. QED
    BY <2>1, <2>2 DEF Lines
<1>2. CASE DeliverResponse
  <2>1. ServerTypes'
    BY <1>1, <1>2 DEF DeliverResponse, ServerTypes
  <2>2. CallTypes'
    BY <1>1, <1>2 DEF DeliverResponse, CallTypes
  <2>3. reader' = reader \/ reader' = Free
          \/ (turn = Head(stdout).id /\ reader' = [turn |-> turn, item |-> "error", closes |-> TRUE])
    BY <1>2 DEF DeliverResponse
  <2>5. reader' \in [turn : Ids \cup {0}, item : {"none", "text", "error"}, closes : BOOLEAN]
          /\ (reader' # Free => reader'.turn \in Ids /\ reader'.item # "none")
    <3>1. TakeLine /\ reader = Free
      BY <1>2 DEF DeliverResponse, TakeLine
    <3>2. Head(stdout).id \in Ids
      BY <1>1, <3>1
    <3>3. CASE reader' = Free
      BY <3>3, FreshTyped
    <3>4. CASE turn = Head(stdout).id /\ reader' = [turn |-> turn, item |-> "error", closes |-> TRUE]
      BY <3>2, <3>4
    <3>. QED
      BY <2>3, <3>1, <3>3, <3>4
  <2>4. TurnTypes'
    BY <1>2, <2>5 DEF DeliverResponse, TurnTypes
  <2>. QED
    BY <2>1, <2>2, <2>4
<1>3. CASE HandleEvent
  <2>1. ServerTypes'
    BY <1>1, <1>3 DEF HandleEvent, ServerTypes
  <2>2. CallTypes'
    BY <1>3 DEF HandleEvent, CallTypes
  <2>3. CASE turn = 0 /\ UNCHANGED <<reader, turns>>
    BY <1>3, <2>1, <2>2, <2>3 DEF HandleEvent, TurnTypes
  <2>4. CASE turn # 0 /\ reader' = [turn |-> turn, item |-> "text", closes |-> FALSE] /\ UNCHANGED turns
    BY <1>3, <2>1, <2>2, <2>4 DEF HandleEvent, TurnTypes
  <2>5. CASE turn # 0 /\ turns' = [turns EXCEPT ![turn].done = TRUE] /\ UNCHANGED reader
    <3>1. turn \in Ids
      BY <2>5 DEF TurnTypes
    <3>2. PICK v : v = [turns[turn] EXCEPT !.done = TRUE]
      OBVIOUS
    <3>3. v \in Turns /\ v.events = turns[turn].events
      BY <3>1, <3>2 DEF TurnTypes, Turns
    <3>4. turns' = [turns EXCEPT ![turn] = v]
      BY <2>5, <3>2
    <3>5. Len(v.events) <= TurnBuffer
      BY <3>1, <3>3 DEF TurnTypes
    <3>. QED
      BY <1>3, <2>1, <2>2, <2>5, <3>1, <3>3, <3>4, <3>5, OneTurnChanges DEF HandleEvent, TurnTypes
  <2>. QED
    BY <1>3, <2>3, <2>4, <2>5 DEF HandleEvent
<1>4. CASE ReaderSends
  <2>1. ServerTypes' /\ CallTypes'
    BY <1>4 DEF ReaderSends, ServerTypes, CallTypes, serverVars
  <2>2. reader.turn \in Ids /\ reader.item \in {"text", "error"}
    BY <1>4 DEF ReaderSends, TurnTypes
  <2>3. turns' \in [Ids -> Turns] /\ \A i \in Ids : Len(turns'[i].events) <= TurnBuffer
    <3>1. CASE UNCHANGED turns
      BY <3>1 DEF TurnTypes
    <3>2. CASE /\ Len(turns[reader.turn].events) < TurnBuffer
               /\ turns' = [turns EXCEPT ![reader.turn] =
                               [events |-> Append(turns[reader.turn].events, reader.item),
                                done |-> IF reader.closes THEN TRUE ELSE turns[reader.turn].done]]
      <4>1. PICK v : v = [events |-> Append(turns[reader.turn].events, reader.item),
                          done |-> IF reader.closes THEN TRUE ELSE turns[reader.turn].done]
        OBVIOUS
      <4>2. (IF reader.closes THEN TRUE ELSE turns[reader.turn].done) \in BOOLEAN
        BY <2>2, TurnFields
      <4>3. /\ Append(turns[reader.turn].events, reader.item) \in Seq({"text", "error"})
            /\ Len(Append(turns[reader.turn].events, reader.item)) = Len(turns[reader.turn].events) + 1
            /\ Len(turns[reader.turn].events) \in Nat
        BY <2>2, TurnFields, AppendProperties, LenProperties
      <4>4. v \in Turns /\ v.events = Append(turns[reader.turn].events, reader.item)
        BY <4>1, <4>2, <4>3 DEF Turns
      <4>5. turns' = [turns EXCEPT ![reader.turn] = v]
        BY <3>2, <4>1
      <4>6. Len(v.events) <= TurnBuffer
        BY <3>2, <4>3, <4>4, LinkAssumption
      <4>. QED
        BY <2>2, <4>4, <4>5, <4>6, OneTurnChanges
    <3>. QED
      BY <1>4, <3>1, <3>2 DEF ReaderSends
  <2>4. TurnTypes'
    BY <1>4, <2>3, FreshTyped DEF ReaderSends, TurnTypes
  <2>. QED
    BY <2>1, <2>4
<1>5. CASE ReaderEnds
  <2>1. ServerTypes'
    BY <1>5 DEF ReaderEnds, ServerTypes, serverVars
  <2>2. CallTypes'
    BY <1>5 DEF ReaderEnds, CallTypes
  <2>3. TurnTypes'
    BY <1>5, FreshTyped DEF ReaderEnds, TurnTypes
  <2>. QED
    BY <2>1, <2>2, <2>3
<1>. QED
  BY <1>2, <1>3, <1>4, <1>5 DEF ReaderStep

\* A command that is sent is one; an id that is given out is new.
LEMMA SendsTyped ==
  ASSUME LinkTypes, NEW id \in Ids, NEW op \in Ops, Sends(id, op)
  PROVE  stdin' \in Seq(Commands) /\ Command(id, op) \in Commands
  BY AppendProperties DEF Sends, Command, Commands, LinkTypes, ServerTypes

LEMMA FreshTypes ==
  ASSUME LinkTypes, nextId \in Ids, Fresh
  PROVE  nextId' \in 1..MaxIds + 1 /\ Sent' = Sent \cup {nextId} /\ nextId \notin Sent
  BY LinkAssumption DEF Fresh, LinkTypes, CallTypes, Ids, Sent

\* The other steps of the client keep the types: requests,
LEMMA CallStepTypes ==
  ASSUME LinkTypes, ClientSent, CallOK, CallStep
  PROVE  LinkTypes'
<1>. USE DEF LinkTypes
<1>1. CASE RequestSent
  <2>1. call.id \in Ids
    BY <1>1, SentIds DEF RequestSent, CallOK
  <2>2. call.op # "none" => call.op \in Ops
    BY DEF CallTypes
  <2>3. CASE ~CanSend
    BY <1>1, <2>3, FreshTyped DEF RequestSent, ServerTypes, CallTypes, TurnTypes
  <2>4. CASE CanSend
    <3>1. call.op \in Ops
      BY <1>1 DEF RequestSent, CallOK, CallTypes
    <3>. QED
      BY <1>1, <2>1, <2>4, <3>1, SendsTyped DEF RequestSent, ServerTypes, CallTypes, TurnTypes
  <2>. QED
    BY <2>3, <2>4
<1>2. CASE RequestAnswered
  BY <1>2, FreshTyped DEF RequestAnswered, ServerTypes, CallTypes, TurnTypes, serverVars
<1>3. CASE RequestFails
  BY <1>3, FreshTyped DEF RequestFails, ServerTypes, CallTypes, TurnTypes, serverVars
<1>. QED
  BY <1>1, <1>2, <1>3 DEF CallStep

\* ... goroutines of prompts,
LEMMA RunnerTypes ==
  ASSUME LinkTypes, NEW r \in runners, RunnerStep(r)
  PROVE  LinkTypes'
<1>. USE DEF LinkTypes
<1>1. r.id \in Ids /\ \A step \in {"submit", "drain", "abort", "leave"} :
         Advances(r, step) => runners' \subseteq [id : Ids, step : {"submit", "drain", "abort", "leave"}]
  BY FreshTyped DEF TurnTypes, Advances
<1>2. CASE TurnSubmits(r)
  BY <1>1, <1>2, SendsTyped DEF TurnSubmits, ServerTypes, CallTypes, TurnTypes, Ops
<1>3. CASE TurnYields(r)
  <2>1. ServerTypes' /\ CallTypes'
    BY <1>3 DEF TurnYields, ServerTypes, CallTypes, serverVars
  <2>2. PICK v : v = [turns[r.id] EXCEPT !.events = Tail(turns[r.id].events)]
    OBVIOUS
  <2>3. /\ Tail(turns[r.id].events) \in Seq({"text", "error"})
        /\ Len(Tail(turns[r.id].events)) = Len(turns[r.id].events) - 1
        /\ Len(turns[r.id].events) \in Nat
    BY <1>1, <1>3, TurnFields, HeadTailProperties, LenProperties DEF TurnYields
  <2>4. v \in Turns /\ v.events = Tail(turns[r.id].events)
    BY <1>1, <2>2, <2>3 DEF Turns, TurnTypes
  <2>5. turns' = [turns EXCEPT ![r.id] = v]
    BY <1>1, <1>3, <2>2 DEF TurnYields, TurnTypes
  <2>6. Len(v.events) <= TurnBuffer
    <3>1. Len(turns[r.id].events) <= TurnBuffer
      BY <1>1 DEF TurnTypes
    <3>. QED
      BY <2>3, <2>4, <3>1, LinkAssumption
  <2>7. turns' \in [Ids -> Turns] /\ \A i \in Ids : Len(turns'[i].events) <= TurnBuffer
    BY <1>1, <2>4, <2>5, <2>6, OneTurnChanges
  <2>8. runners' \subseteq [id : Ids, step : {"submit", "drain", "abort", "leave"}]
    BY <1>1, <1>3 DEF TurnYields, TurnTypes
  <2>. QED
    BY <1>3, <2>1, <2>7, <2>8 DEF TurnYields, TurnTypes
<1>4. CASE TurnOver(r)
  BY <1>1, <1>4 DEF TurnOver, ServerTypes, CallTypes, TurnTypes, serverVars
<1>5. CASE TurnCancelled(r)
  BY <1>1, <1>5 DEF TurnCancelled, ServerTypes, CallTypes, TurnTypes, serverVars
<1>6. CASE SendAbort(r)
  <2>1. TurnTypes'
    BY <1>1, <1>6 DEF SendAbort, TurnTypes
  <2>2. CASE CanSend
    BY <1>6, <2>1, <2>2, SendsTyped, FreshTypes DEF SendAbort, ServerTypes, CallTypes, Ops
  <2>3. CASE ~CanSend
    BY <1>6, <2>1, <2>3 DEF SendAbort, ServerTypes, CallTypes
  <2>. QED
    BY <2>2, <2>3
<1>7. CASE TurnLeaves(r)
  <2>1. ServerTypes' /\ CallTypes'
    BY <1>7 DEF TurnLeaves, ServerTypes, CallTypes, serverVars
  <2>2. turns' \in [Ids -> Turns] /\ \A i \in Ids : Len(turns'[i].events) <= TurnBuffer
    BY <1>1, <1>7, OneTurnChanges, FreshTyped, LinkAssumption DEF TurnLeaves, TurnTypes
  <2>. QED
    BY <1>7, <2>1, <2>2 DEF TurnLeaves, TurnTypes
<1>. QED
  BY <1>2, <1>3, <1>4, <1>5, <1>6, <1>7 DEF RunnerStep

\* ... and the steps that start them.
LEMMA RequestTypesKept ==
  ASSUME LinkTypes, NEW op \in {"quick", "compact"}, Request(op)
  PROVE  LinkTypes'
<1>1. call' = [id |-> nextId, op |-> op, step |-> "sending"] /\ nextId \in Ids
  BY DEF Request
<1>2. call' \in [id : Ids \cup {0}, op : Ops \cup {"none"}, step : {"idle", "sending", "waiting"}]
  BY <1>1 DEF Ops
<1>3. CallTypes'
  BY <1>1, <1>2, FreshTypes DEF Request, Registered, LinkTypes, CallTypes
<1>. QED
  BY <1>3 DEF Request, LinkTypes, ServerTypes, TurnTypes, serverVars

LEMMA SubmitTypes ==
  ASSUME LinkTypes, Submit
  PROVE  LinkTypes'
<1>1. nextId \in Ids
  BY DEF Submit
<1>2. CallTypes'
  BY <1>1, FreshTypes DEF Submit, LinkTypes, CallTypes
<1>3. TurnTypes'
  BY <1>1, FreshTyped DEF Submit, LinkTypes, TurnTypes
<1>. QED
  BY <1>2, <1>3 DEF Submit, LinkTypes, ServerTypes, serverVars

-------------------------------------------------------------------------------
(* Where a command and its answer are                                           *)

\* No response is written, though an event may be.
Quiet(j) ==
    stdout' = stdout \/ \E e \in Lines : e.type # "response" /\ e.id = j.id /\ stdout' = Append(stdout, e)

\* An event tells no answer,
LEMMA QuietTold ==
  ASSUME ServerTypes, ServerSent, NEW j \in jobs, Quiet(j), Sent' = Sent
  PROVE  /\ \A id : /\ Told(id)' <=> Told(id)
                    /\ OnceAmong(stdout, AnswersTo(id)) => OnceAmong(stdout', AnswersTo(id))
         /\ \A i \in DOMAIN stdout' : stdout'[i].id \in Sent
<1>1. CASE stdout' = stdout
  BY <1>1 DEF Told, Among, OnceAmong, ServerSent
<1>2. ASSUME NEW e \in Lines, e.type # "response", e.id = j.id, stdout' = Append(stdout, e)
      PROVE  /\ \A id : /\ Told(id)' <=> Told(id)
                        /\ OnceAmong(stdout, AnswersTo(id)) => OnceAmong(stdout', AnswersTo(id))
             /\ \A i \in DOMAIN stdout' : stdout'[i].id \in Sent
  <2>1. stdout \in Seq(Lines)
    BY DEF ServerTypes
  <2>2. \A id : e \notin AnswersTo(id)
    BY <1>2 DEF AnswersTo
  <2>3. \A id : /\ Among(stdout', AnswersTo(id)) <=> Among(stdout, AnswersTo(id))
                /\ OnceAmong(stdout, AnswersTo(id)) => OnceAmong(stdout', AnswersTo(id))
    BY <1>2, <2>1, <2>2, AppendAmong
  <2>4. \A i \in DOMAIN stdout' : stdout'[i].id \in Sent
    <3>1. /\ DOMAIN stdout' = 1..Len(stdout) + 1 /\ DOMAIN stdout = 1..Len(stdout) /\ Len(stdout) \in Nat
          /\ \A i \in 1..Len(stdout) : stdout'[i] = stdout[i]
          /\ stdout'[Len(stdout) + 1] = e
      BY <1>2, <2>1, AppendProperties, LenProperties
    <3>2. e.id \in Sent
      BY <1>2 DEF ServerSent
    <3>. QED
      BY <3>1, <3>2 DEF ServerSent
  <2>. QED
    BY <2>3, <2>4 DEF Told
<1>. QED
  BY <1>1, <1>2 DEF Quiet

\* ... and a response tells one.
LEMMA AnswerTold ==
  ASSUME ServerTypes, ServerSent, NEW j \in jobs, Sent' = Sent,
         NEW e \in Lines, e.type = "response", e.id = j.id, stdout' = Append(stdout, e)
  PROVE  /\ \A id : /\ Told(id)' <=> Told(id) \/ id = j.id
                    /\ OnceAmong(stdout, AnswersTo(id)) /\ (id = j.id => ~Told(id))
                          => OnceAmong(stdout', AnswersTo(id))
         /\ \A i \in DOMAIN stdout' : stdout'[i].id \in Sent
<1>1. stdout \in Seq(Lines)
  BY DEF ServerTypes
<1>2. \A id : e \in AnswersTo(id) <=> id = j.id
  BY DEF AnswersTo
<1>3. \A id : /\ Among(stdout', AnswersTo(id)) <=> Among(stdout, AnswersTo(id)) \/ id = j.id
              /\ OnceAmong(stdout, AnswersTo(id)) /\ (id = j.id => ~Among(stdout, AnswersTo(id)))
                    => OnceAmong(stdout', AnswersTo(id))
  BY <1>1, <1>2, AppendAmong
<1>4. \A i \in DOMAIN stdout' : stdout'[i].id \in Sent
  <2>1. /\ DOMAIN stdout' = 1..Len(stdout) + 1 /\ DOMAIN stdout = 1..Len(stdout) /\ Len(stdout) \in Nat
        /\ \A i \in 1..Len(stdout) : stdout'[i] = stdout[i]
        /\ stdout'[Len(stdout) + 1] = e
    BY <1>1, AppendProperties, LenProperties
  <2>2. e.id \in Sent
    BY DEF ServerSent
  <2>. QED
    BY <2>1, <2>2 DEF ServerSent
<1>. QED
  BY <1>3, <1>4 DEF Told

\* The goroutine goes on, owing what it owed.
LEMMA JobKeeps ==
  ASSUME ServerTypes, PlacesOK, ServerSent, UNCHANGED <<stdin, serving, call, runners, heard, nextId>>,
         NEW j \in jobs, NEW k, k.id = j.id, Owes(k) <=> Owes(j),
         jobs' = (jobs \ {j}) \cup {k}, Quiet(j), run'.of \in Sent \cup {0}
  PROVE  PlacesOK' /\ ServerSent'
<1>1. Sent' = Sent /\ \A id : (Asked(id)' <=> Asked(id)) /\ (Unsent(id)' <=> Unsent(id))
  BY DEF Sent, Asked, Unsent
<1>2. \A id : (Served(id)' <=> Served(id)) /\ (Owed(id)' <=> Owed(id))
  BY DEF Served, Owed, PlacesOK
<1>3. /\ \A id : /\ Told(id)' <=> Told(id)
                 /\ OnceAmong(stdout, AnswersTo(id)) => OnceAmong(stdout', AnswersTo(id))
      /\ \A i \in DOMAIN stdout' : stdout'[i].id \in Sent
  BY <1>1, QuietTold
<1>4. \A i, l \in jobs' : i.id = l.id => i = l
  BY DEF PlacesOK
<1>5. \A id \in Sent : PlaceOK(id) => PlaceOK(id)'
  BY <1>1, <1>2, <1>3 DEF PlaceOK
<1>6. ServerSent'
  BY <1>1, <1>3 DEF ServerSent
<1>. QED
  BY <1>1, <1>4, <1>5, <1>6 DEF PlacesOK

\* The goroutine writes its response, and has none to write any more.
LEMMA JobAnswers ==
  ASSUME ServerTypes, PlacesOK, ServerSent, UNCHANGED <<stdin, serving, call, runners, heard, nextId>>,
         NEW j \in jobs, Owes(j),
         \/ jobs' = jobs \ {j}
         \/ \E k : k.id = j.id /\ ~Owes(k) /\ jobs' = (jobs \ {j}) \cup {k},
         NEW e \in Lines, e.type = "response", e.id = j.id, stdout' = Append(stdout, e),
         run'.of \in Sent \cup {0}
  PROVE  PlacesOK' /\ ServerSent'
<1>1. Sent' = Sent /\ \A id : (Asked(id)' <=> Asked(id)) /\ (Unsent(id)' <=> Unsent(id))
  BY DEF Sent, Asked, Unsent
<1>2. \A id : (Served(id)' => Served(id)) /\ (Owed(id)' <=> Owed(id) /\ id # j.id)
  BY DEF Served, Owed, PlacesOK
<1>3. /\ \A id : /\ Told(id)' <=> Told(id) \/ id = j.id
                 /\ OnceAmong(stdout, AnswersTo(id)) /\ (id = j.id => ~Told(id))
                          => OnceAmong(stdout', AnswersTo(id))
      /\ \A i \in DOMAIN stdout' : stdout'[i].id \in Sent
  BY <1>1, AnswerTold
<1>4. \A i, l \in jobs' : i.id = l.id => i = l
  BY DEF PlacesOK
<1>5. Owed(j.id) /\ Served(j.id)
  BY DEF Owed, Served
<1>6. \A id \in Sent : PlaceOK(id) => PlaceOK(id)'
  BY <1>1, <1>2, <1>3, <1>5 DEF PlaceOK
<1>7. ServerSent'
  BY <1>1, <1>3 DEF ServerSent
<1>. QED
  BY <1>1, <1>4, <1>6, <1>7 DEF PlacesOK

\* The goroutine of a prompt that was answered ends.
LEMMA JobEnds ==
  ASSUME ServerTypes, PlacesOK, ServerSent, UNCHANGED <<stdin, serving, call, runners, heard, nextId>>,
         NEW j \in jobs, ~Owes(j), Ends(j), Quiet(j), run'.of \in Sent \cup {0}
  PROVE  PlacesOK' /\ ServerSent'
<1>1. Sent' = Sent /\ \A id : (Asked(id)' <=> Asked(id)) /\ (Unsent(id)' <=> Unsent(id))
  BY DEF Sent, Asked, Unsent
<1>2. \A id : (Served(id)' => Served(id)) /\ (Owed(id)' <=> Owed(id))
  BY DEF Served, Owed, PlacesOK, Ends
<1>3. /\ \A id : /\ Told(id)' <=> Told(id)
                 /\ OnceAmong(stdout, AnswersTo(id)) => OnceAmong(stdout', AnswersTo(id))
      /\ \A i \in DOMAIN stdout' : stdout'[i].id \in Sent
  BY <1>1, QuietTold
<1>4. \A i, l \in jobs' : i.id = l.id => i = l
  BY DEF PlacesOK, Ends
<1>5. \A id \in Sent : PlaceOK(id) => PlaceOK(id)'
  BY <1>1, <1>2, <1>3 DEF PlaceOK
<1>6. ServerSent'
  BY <1>1, <1>3 DEF ServerSent, Ends
<1>. QED
  BY <1>1, <1>4, <1>5, <1>6 DEF PlacesOK

\* An event is no response.
LEMMA WritesEvent ==
  ASSUME ServerTypes, NEW j \in jobs, NEW type \in EventTypes, Writes(Event(type, j.id))
  PROVE  Quiet(j)
  BY LineTyped DEF Writes, Quiet

\* What a goroutine that goes on keeps.
LEMMA MovesOn ==
  ASSUME ServerTypes, NEW j \in jobs, NEW step \in JobSteps
  PROVE  LET k == [j EXCEPT !.step = step]
         IN  k.id = j.id /\ k.op = j.op /\ k.step = step
  BY DEF ServerTypes, Jobs

\* Each step of a goroutine is one of the three.
LEMMA JobPlaces ==
  ASSUME ServerTypes, PlacesOK, ServerSent, UNCHANGED clientVars, NEW j \in jobs, JobStep(j)
  PROVE  PlacesOK' /\ ServerSent'
<1>. USE DEF JobSteps, EventTypes
<1>1. UNCHANGED <<call, runners, heard, nextId>> /\ run.of \in Sent \cup {0} /\ j.id \in Sent /\ j.id \in Ids
  BY DEF clientVars, ServerSent, ServerTypes, Jobs
<1>2. RunOf(j.id).of = j.id /\ NoRun.of = 0 /\ Cancelled.of = run.of
  BY <1>1, RunTyped
<1>3. CASE Answer(j)
  BY <1>1, <1>3, LineTyped, JobAnswers DEF Answer, Writes, Ends, Owes
<1>4. CASE PromptBegins(j)
  <2>1. CASE Idle
    <3>1. run' = RunOf(j.id) /\ Moves(j, "begun") /\ UNCHANGED <<stdin, serving, stdout>> /\ j.step = "start"
      BY <1>4, <2>1 DEF PromptBegins
    <3>. QED
      BY <1>1, <1>2, <3>1, MovesOn, JobKeeps DEF Moves, Quiet, Owes
  <2>2. CASE ~Idle
    <3>1. /\ Writes(Response(j.id, j.op, FALSE)) /\ Ends(j) /\ UNCHANGED run
          /\ UNCHANGED <<stdin, serving>> /\ j.step = "start"
      BY <1>4, <2>2 DEF PromptBegins
    <3>. QED
      BY <1>1, <3>1, LineTyped, JobAnswers DEF Writes, Ends, Owes
  <2>. QED
    BY <2>1, <2>2
<1>5. CASE PromptAccepted(j)
  <2>1. PICK k : k = [j EXCEPT !.step = "running"]
    OBVIOUS
  <2>2. k.id = j.id /\ ~Owes(k) /\ jobs' = (jobs \ {j}) \cup {k} /\ Owes(j)
    BY <1>5, <2>1, MovesOn DEF PromptAccepted, Moves, Owes
  <2>3. stdout' = Append(stdout, Response(j.id, j.op, TRUE)) /\ UNCHANGED <<stdin, serving, run>>
    BY <1>5 DEF PromptAccepted, Writes
  <2>. QED
    BY <1>1, <2>2, <2>3, LineTyped, JobAnswers
<1>6. CASE PromptRefused(j)
  BY <1>1, <1>2, <1>6, MovesOn, JobKeeps DEF PromptRefused, Moves, Quiet, Owes
<1>7. CASE RefusedSettles(j)
  BY <1>1, <1>7, MovesOn, WritesEvent, JobKeeps DEF RefusedSettles, Moves, Owes
<1>8. CASE PromptFails(j)
  BY <1>1, <1>8, LineTyped, JobAnswers DEF PromptFails, Writes, Ends, Owes
<1>9. CASE RunUpdates(j)
  <2>1. run'.of = run.of
    BY <1>9 DEF RunUpdates, ServerTypes
  <2>2. jobs' = (jobs \ {j}) \cup {j} /\ UNCHANGED <<stdin, serving>>
    BY <1>9 DEF RunUpdates
  <2>3. Quiet(j)
    BY <1>9, WritesEvent DEF RunUpdates
  <2>. QED
    BY <1>1, <2>1, <2>2, <2>3, JobKeeps
<1>10. CASE AgentEnds(j)
  <2>1. PICK k : k = [j EXCEPT !.step = "answered"]
    OBVIOUS
  <2>2. k.id = j.id /\ ~Owes(k) /\ ~Owes(j) /\ jobs' = (jobs \ {j}) \cup {k}
    BY <1>10, <2>1, MovesOn DEF AgentEnds, Moves, Owes
  <2>3. Quiet(j) /\ UNCHANGED <<stdin, serving, run>>
    BY <1>10, WritesEvent DEF AgentEnds
  <2>. QED
    BY <1>1, <2>2, <2>3, JobKeeps
<1>11. CASE RunFinishes(j)
  <2>1. PICK k : k = [j EXCEPT !.step = "finished"]
    OBVIOUS
  <2>2. k.id = j.id /\ ~Owes(k) /\ ~Owes(j) /\ jobs' = (jobs \ {j}) \cup {k}
    BY <1>11, <2>1, MovesOn DEF RunFinishes, Moves, Owes
  <2>3. Quiet(j) /\ UNCHANGED <<stdin, serving>> /\ run' = NoRun
    BY <1>11 DEF RunFinishes, Quiet
  <2>. QED
    BY <1>1, <1>2, <2>2, <2>3, JobKeeps
<1>12. CASE Settles(j)
  BY <1>1, <1>12, WritesEvent, JobEnds DEF Settles, Owes
<1>13. CASE AbortBegins(j)
  BY <1>1, <1>2, <1>13, MovesOn, JobKeeps DEF AbortBegins, Moves, Quiet, Owes
<1>14. CASE AbortReturns(j)
  BY <1>1, <1>14, LineTyped, JobAnswers DEF AbortReturns, Writes, Ends, Owes
<1>15. CASE IdleSeen(j)
  BY <1>1, <1>15, MovesOn, JobKeeps DEF IdleSeen, Moves, Quiet, Owes
<1>16. CASE CompactBegins(j)
  <2>1. CASE Idle
    <3>1. /\ run' = RunOf(j.id) /\ Moves(j, "compacting") /\ UNCHANGED <<stdin, serving, stdout>>
          /\ j.op = "compact"
      BY <1>16, <2>1 DEF CompactBegins
    <3>. QED
      BY <1>1, <1>2, <3>1, MovesOn, JobKeeps DEF Moves, Quiet, Owes
  <2>2. CASE ~Idle
    <3>1. /\ Writes(Response(j.id, j.op, FALSE)) /\ Ends(j) /\ UNCHANGED run
          /\ UNCHANGED <<stdin, serving>> /\ j.op = "compact"
      BY <1>16, <2>2 DEF CompactBegins
    <3>. QED
      BY <1>1, <3>1, LineTyped, JobAnswers DEF Writes, Ends, Owes
  <2>. QED
    BY <2>1, <2>2
<1>17. CASE CompactReturns(j)
  BY <1>1, <1>2, <1>17, LineTyped, JobAnswers DEF CompactReturns, Writes, Ends, Owes
<1>. QED
  BY <1>3, <1>4, <1>5, <1>6, <1>7, <1>8, <1>9, <1>10, <1>11, <1>12, <1>13, <1>14, <1>15, <1>16, <1>17
     DEF JobStep

\* A line becomes a goroutine, which owes its response.
LEMMA ReadCommandPlaces ==
  ASSUME ServerTypes, PlacesOK, ServerSent, UNCHANGED clientVars, ReadCommand
  PROVE  PlacesOK' /\ ServerSent'
<1>. DEFINE c == Head(stdin)
            k == Job(c, "start")
<1>1. /\ stdin \in Seq(Commands) /\ stdin # <<>> /\ stdin' = Tail(stdin) /\ jobs' = jobs \cup {k}
      /\ UNCHANGED <<serving, run, stdout>> /\ UNCHANGED <<call, runners, heard, nextId>>
  BY DEF ReadCommand, ServerTypes, clientVars
<1>2. c \in Commands /\ c = stdin[1] /\ 1 \in DOMAIN stdin
  BY <1>1, HeadTailProperties, LenProperties, EmptySeq
<1>3. k.id = c.id /\ Owes(k)
  BY DEF Job, Owes
<1>4. \A id : c \in AsksOf(id) <=> id = c.id
  BY <1>2 DEF AsksOf
<1>5. \A id : /\ Asked(id) <=> Asked(id)' \/ id = c.id
              /\ OnceAmong(stdin, AsksOf(id)) => /\ OnceAmong(stdin', AsksOf(id))
                                                 /\ id = c.id => ~Asked(id)'
  BY <1>1, <1>4, TailAmong DEF Asked
<1>6. \A i \in DOMAIN stdin' : stdin'[i].id \in Sent
  <2>1. /\ DOMAIN stdin = 1..Len(stdin) /\ DOMAIN stdin' = 1..Len(stdin') /\ Len(stdin) \in Nat
        /\ Len(stdin') = Len(stdin) - 1 /\ \A i \in 1..Len(stdin') : stdin'[i] = stdin[i + 1]
    BY <1>1, HeadTailProperties, LenProperties
  <2>2. \A i \in DOMAIN stdin' : i + 1 \in DOMAIN stdin
    BY <2>1
  <2>. QED
    BY <2>1, <2>2 DEF ServerSent
<1>7. Sent' = Sent /\ (\A id : Unsent(id)' <=> Unsent(id)) /\ (\A id : Told(id)' <=> Told(id)) /\ c.id \in Sent
  BY <1>1, <1>2 DEF Sent, Unsent, Told, ServerSent
<1>. HIDE DEF c, k
<1>8. \A id : /\ Served(id)' <=> Served(id) \/ id = c.id
              /\ Owed(id)' <=> Owed(id) \/ id = c.id
  BY <1>1, <1>3 DEF Served, Owed
<1>9. PlaceOK(c.id) /\ Asked(c.id)
  BY <1>5, <1>7 DEF PlacesOK
<1>10. \A id \in Sent : PlaceOK(id) => PlaceOK(id)'
  BY <1>1, <1>5, <1>7, <1>8, <1>9 DEF PlaceOK
<1>11. \A i, l \in jobs' : i.id = l.id => i = l
  BY <1>1, <1>3, <1>9 DEF PlacesOK, PlaceOK, Served
<1>12. ServerSent'
  BY <1>1, <1>3, <1>6, <1>7 DEF ServerSent
<1>. QED
  BY <1>7, <1>10, <1>11, <1>12 DEF PlacesOK

\* Commands and their answers stay where they are, but for the lines a leaving server drops.
LEMMA NothingMoves ==
  ASSUME PlacesOK, ServerSent, UNCHANGED <<stdin, jobs, run, stdout, call, runners, heard, nextId>>,
         serving' # "killed" => serving # "killed"
  PROVE  PlacesOK' /\ ServerSent'
<1>1. Sent' = Sent /\ \A id : /\ Asked(id)' <=> Asked(id)
                              /\ Unsent(id)' <=> Unsent(id)
                              /\ Told(id)' <=> Told(id)
                              /\ Served(id)' <=> Served(id)
                              /\ Owed(id)' <=> Owed(id)
  BY DEF Sent, Asked, Unsent, Told, Served, Owed
<1>2. \A id \in Sent : PlaceOK(id) => PlaceOK(id)'
  BY <1>1 DEF PlaceOK
<1>. QED
  BY <1>1, <1>2 DEF PlacesOK, ServerSent

\* A server that leaves drops nothing, its goroutines are done.
LEMMA LeavePlaces ==
  ASSUME ServerTypes, PlacesOK, ServerSent, UNCHANGED clientVars, Leave
  PROVE  PlacesOK' /\ ServerSent'
<1>1. /\ UNCHANGED <<stdin, stdout, call, runners, heard, nextId>> /\ jobs = {} /\ jobs' = {}
      /\ serving # "killed" /\ run'.of = 0
  BY RunTyped DEF Leave, MayLeave, clientVars
<1>2. Sent' = Sent /\ \A id : /\ Asked(id)' <=> Asked(id)
                              /\ Unsent(id)' <=> Unsent(id)
                              /\ Told(id)' <=> Told(id)
                              /\ Served(id)' <=> Served(id)
                              /\ Owed(id)' <=> Owed(id)
  BY <1>1 DEF Sent, Asked, Unsent, Told, Served, Owed
<1>3. \A id \in Sent : PlaceOK(id) => PlaceOK(id)'
  BY <1>1, <1>2 DEF PlaceOK
<1>. QED
  BY <1>1, <1>2, <1>3 DEF PlacesOK, ServerSent

\* A kernel that dies drops commands, and no answer doubles.
LEMMA DiesPlaces ==
  ASSUME ServerTypes, PlacesOK, ServerSent, KernelDies
  PROVE  PlacesOK' /\ ServerSent'
<1>1. /\ UNCHANGED <<stdout, call, runners, heard, nextId>> /\ stdin' = <<>> /\ jobs' = {}
      /\ serving' = "killed" /\ run'.of = 0
  BY RunTyped DEF KernelDies, clientVars
<1>2. DOMAIN stdin' = {}
  BY <1>1, EmptySeq
<1>3. Sent' = Sent /\ \A id : /\ ~Asked(id)' /\ OnceAmong(stdin', AsksOf(id))
                              /\ Unsent(id)' <=> Unsent(id)
                              /\ Told(id)' <=> Told(id)
                              /\ ~Served(id)' /\ ~Owed(id)'
  BY <1>1, <1>2 DEF Sent, Asked, Among, OnceAmong, Unsent, Told, Served, Owed
<1>4. \A id \in Sent : PlaceOK(id) => PlaceOK(id)'
  BY <1>1, <1>3 DEF PlaceOK
<1>. QED
  BY <1>1, <1>2, <1>3, <1>4 DEF PlacesOK, ServerSent

-------------------------------------------------------------------------------
(* The client's steps                                                           *)

\* What the places of a command are in the state before, for an id not given out.
LEMMA NewIsNowhere ==
  ASSUME LinkTypes, ServerSent, ClientSent, NEW id, id \notin Sent, id # 0
  PROVE  ~Asked(id) /\ ~Told(id) /\ ~Served(id) /\ ~Owed(id) /\ ~Unsent(id) /\ id \notin heard
<1>1. ~Asked(id)
  BY DEF Asked, Among, AsksOf, ServerSent
<1>2. ~Told(id)
  BY DEF Told, Among, AnswersTo, ServerSent
<1>3. ~Served(id) /\ ~Owed(id)
  BY DEF Served, Owed, ServerSent
<1>4. ~Unsent(id)
  BY DEF Unsent, Runner, ClientSent
<1>. QED
  BY <1>1, <1>2, <1>3, <1>4 DEF ClientSent

\* None is at most one.
LEMMA NothingAmong ==
  ASSUME NEW s, NEW T, ~Among(s, T)
  PROVE  OnceAmong(s, T)
  BY DEF Among, OnceAmong

\* Nothing of the client's that says where a command is changes.
LEMMA PlacesSame ==
  ASSUME PlacesOK, ServerSent, UNCHANGED <<stdin, jobs, run, stdout, serving, heard, nextId>>,
         \A id \in Sent : /\ Unsent(id)' => Unsent(id)
                          /\ serving # "killed" => (Unsent(id)' <=> Unsent(id))
  PROVE  PlacesOK' /\ ServerSent'
<1>1. Sent' = Sent /\ \A id : /\ Asked(id)' <=> Asked(id)
                              /\ Told(id)' <=> Told(id)
                              /\ Served(id)' <=> Served(id)
                              /\ Owed(id)' <=> Owed(id)
  BY DEF Sent, Asked, Told, Served, Owed
<1>2. \A id \in Sent : PlaceOK(id) => PlaceOK(id)'
  BY <1>1 DEF PlaceOK
<1>. QED
  BY <1>1, <1>2 DEF PlacesOK, ServerSent

\* A new id is given out, for a command that is not out yet.
LEMMA PlacesGrow ==
  ASSUME LinkTypes, PlacesOK, ServerSent, ClientSent, UNCHANGED <<stdin, jobs, run, stdout, serving, heard>>,
         NEW n \in Ids, n = nextId, Fresh, Unsent(n)',
         \A id \in Sent : Unsent(id)' <=> Unsent(id)
  PROVE  PlacesOK' /\ ServerSent'
<1>1. Sent' = Sent \cup {n} /\ n \notin Sent /\ n # 0
  BY FreshTypes, SentIds
<1>2. \A id : /\ Asked(id)' <=> Asked(id)
              /\ Told(id)' <=> Told(id)
              /\ Served(id)' <=> Served(id)
              /\ Owed(id)' <=> Owed(id)
  BY DEF Asked, Told, Served, Owed
<1>3. \A id \in Sent : PlaceOK(id) => PlaceOK(id)'
  BY <1>2 DEF PlaceOK
<1>4. PlaceOK(n)'
  <2>1. /\ ~Asked(n) /\ ~Told(n) /\ ~Served(n) /\ ~Owed(n) /\ n \notin heard
    BY <1>1, NewIsNowhere
  <2>2. OnceAmong(stdin', AsksOf(n)) /\ OnceAmong(stdout', AnswersTo(n))
    BY <2>1, NothingAmong DEF Asked, Told
  <2>. QED
    BY <1>2, <2>1, <2>2 DEF PlaceOK
<1>5. ServerSent'
  BY <1>1 DEF ServerSent
<1>. QED
  BY <1>1, <1>3, <1>4, <1>5 DEF PlacesOK

\* A command's line goes out.
LEMMA PlacesSend ==
  ASSUME LinkTypes, PlacesOK, ServerSent, UNCHANGED <<jobs, run, stdout, serving, heard, nextId>>,
         NEW id \in Sent, NEW op \in Ops, Sends(id, op), Unsent(id), ~Unsent(id)',
         \A d \in Sent : d # id => (Unsent(d)' <=> Unsent(d))
  PROVE  PlacesOK' /\ ServerSent'
<1>1. Sent' = Sent /\ \A d : /\ Told(d)' <=> Told(d)
                             /\ Served(d)' <=> Served(d)
                             /\ Owed(d)' <=> Owed(d)
  BY DEF Sent, Told, Served, Owed
<1>2. stdin \in Seq(Commands) /\ Command(id, op) \in Commands /\ stdin' = Append(stdin, Command(id, op))
  BY SentIds, SendsTyped DEF Sends, LinkTypes, ServerTypes
<1>3. \A d : Command(id, op) \in AsksOf(d) <=> d = id
  BY <1>2 DEF AsksOf, Command
<1>4. \A d : /\ Asked(d)' <=> Asked(d) \/ d = id
             /\ OnceAmong(stdin, AsksOf(d)) /\ (d = id => ~Asked(d)) => OnceAmong(stdin', AsksOf(d))
  BY <1>2, <1>3, AppendAmong DEF Asked
<1>5. \A d \in Sent : PlaceOK(d) => PlaceOK(d)'
  <2>1. ~Owed(id)
    BY DEF PlacesOK, PlaceOK, Owed, Served
  <2>. QED
    BY <1>1, <1>4, <2>1 DEF PlaceOK
<1>6. \A i \in DOMAIN stdin' : stdin'[i].id \in Sent
  <2>1. /\ DOMAIN stdin' = 1..Len(stdin) + 1 /\ DOMAIN stdin = 1..Len(stdin) /\ Len(stdin) \in Nat
        /\ \A i \in 1..Len(stdin) : stdin'[i] = stdin[i]
        /\ stdin'[Len(stdin) + 1].id = id
    BY <1>2, AppendProperties, LenProperties DEF Command
  <2>. QED
    BY <2>1 DEF ServerSent
<1>. QED
  BY <1>1, <1>5, <1>6 DEF PlacesOK, ServerSent

\* An id is given out and its line goes out in one step.
LEMMA PlacesAbort ==
  ASSUME LinkTypes, PlacesOK, ServerSent, ClientSent, UNCHANGED <<jobs, run, stdout, serving, heard>>,
         NEW n \in Ids, n = nextId, Fresh, NEW op \in Ops, Sends(n, op), ~Unsent(n)',
         \A id \in Sent : Unsent(id)' <=> Unsent(id)
  PROVE  PlacesOK' /\ ServerSent'
<1>1. Sent' = Sent \cup {n} /\ n \notin Sent /\ n # 0
  BY FreshTypes, SentIds
<1>2. stdin \in Seq(Commands) /\ Command(n, op) \in Commands /\ stdin' = Append(stdin, Command(n, op))
  BY SendsTyped DEF Sends, LinkTypes, ServerTypes
<1>3. \A d : Command(n, op) \in AsksOf(d) <=> d = n
  BY <1>2 DEF AsksOf, Command
<1>4. \A d : /\ Asked(d)' <=> Asked(d) \/ d = n
             /\ OnceAmong(stdin, AsksOf(d)) /\ (d = n => ~Asked(d)) => OnceAmong(stdin', AsksOf(d))
  BY <1>2, <1>3, AppendAmong DEF Asked
<1>5. \A d : /\ Told(d)' <=> Told(d)
             /\ Served(d)' <=> Served(d)
             /\ Owed(d)' <=> Owed(d)
  BY DEF Told, Served, Owed
<1>6. \A d \in Sent : PlaceOK(d) => PlaceOK(d)'
  BY <1>1, <1>4, <1>5 DEF PlaceOK
<1>7. PlaceOK(n)'
  <2>1. /\ ~Asked(n) /\ ~Told(n) /\ ~Served(n) /\ ~Owed(n) /\ n \notin heard
    BY <1>1, NewIsNowhere
  <2>2. OnceAmong(stdin, AsksOf(n)) /\ OnceAmong(stdout', AnswersTo(n))
    BY <2>1, NothingAmong DEF Asked, Told
  <2>. QED
    BY <1>4, <1>5, <2>1, <2>2 DEF PlaceOK
<1>8. \A i \in DOMAIN stdin' : stdin'[i].id \in Sent'
  <2>1. /\ DOMAIN stdin' = 1..Len(stdin) + 1 /\ DOMAIN stdin = 1..Len(stdin) /\ Len(stdin) \in Nat
        /\ \A i \in 1..Len(stdin) : stdin'[i] = stdin[i]
        /\ stdin'[Len(stdin) + 1].id = n
    BY <1>2, AppendProperties, LenProperties DEF Command
  <2>. QED
    BY <1>1, <2>1 DEF ServerSent
<1>. QED
  BY <1>1, <1>6, <1>7, <1>8 DEF PlacesOK, ServerSent

\* The reader takes a line, and remembers its id if it is a response.
LEMMA TakePlaces ==
  ASSUME LinkTypes, PlacesOK, ServerSent, TakeLine,
         UNCHANGED <<stdin, jobs, run, serving, call, runners, nextId>>,
         heard' = IF Head(stdout).type = "response" THEN heard \cup {Head(stdout).id} ELSE heard
  PROVE  PlacesOK' /\ ServerSent' /\ Head(stdout).id \in Sent
         /\ (Head(stdout).type = "response" => Told(Head(stdout).id))
<1>. DEFINE l == Head(stdout)
<1>1. stdout \in Seq(Lines) /\ stdout # <<>> /\ stdout' = Tail(stdout)
  BY DEF TakeLine, LinkTypes, ServerTypes
<1>2. l \in Lines /\ l = stdout[1] /\ 1 \in DOMAIN stdout
  BY <1>1, HeadTailProperties, LenProperties, EmptySeq
<1>3. \A id : l \in AnswersTo(id) <=> l.type = "response" /\ id = l.id
  BY <1>2 DEF AnswersTo
<1>4. l.id \in Sent
  BY <1>2 DEF ServerSent
<1>. HIDE DEF l
<1>5. \A id : /\ Told(id) <=> Told(id)' \/ (l.type = "response" /\ id = l.id)
              /\ OnceAmong(stdout, AnswersTo(id)) =>
                    /\ OnceAmong(stdout', AnswersTo(id))
                    /\ l.type = "response" /\ id = l.id => ~Told(id)'
  BY <1>1, <1>3, TailAmong DEF Told, l
<1>6. \A id : id \in heard' <=> id \in heard \/ (l.type = "response" /\ id = l.id)
  BY DEF l
<1>7. Sent' = Sent /\ \A id : /\ Asked(id)' <=> Asked(id)
                              /\ Unsent(id)' <=> Unsent(id)
                              /\ Served(id)' <=> Served(id)
                              /\ Owed(id)' <=> Owed(id)
  BY DEF Sent, Asked, Unsent, Served, Owed
<1>8. \A id \in Sent : PlaceOK(id) => PlaceOK(id)'
  BY <1>5, <1>6, <1>7 DEF PlaceOK
<1>9. \A i \in DOMAIN stdout' : stdout'[i].id \in Sent
  <2>1. /\ DOMAIN stdout = 1..Len(stdout) /\ DOMAIN stdout' = 1..Len(stdout') /\ Len(stdout) \in Nat
        /\ Len(stdout') = Len(stdout) - 1 /\ \A i \in 1..Len(stdout') : stdout'[i] = stdout[i + 1]
    BY <1>1, HeadTailProperties, LenProperties
  <2>2. \A i \in DOMAIN stdout' : i + 1 \in DOMAIN stdout
    BY <2>1
  <2>. QED
    BY <2>1, <2>2 DEF ServerSent
<1>10. PlacesOK' /\ ServerSent'
  BY <1>7, <1>8, <1>9 DEF PlacesOK, ServerSent
<1>. QED
  BY <1>4, <1>5, <1>10 DEF l

\* A goroutine that goes on has sent its command, if it had not before.
LEMMA AdvanceUnsent ==
  ASSUME TurnTypes, NEW r \in runners, NEW step, step # "submit", Advances(r, step), UNCHANGED call
  PROVE  /\ \A id : id # r.id \/ r.step # "submit" => (Unsent(id)' <=> Unsent(id))
         /\ \A q \in runners' : \E p \in runners : p.id = q.id
         /\ r.step = "submit" => Runner(r.id, "submit") \notin runners'
<1>1. r = Runner(r.id, r.step)
  BY DEF TurnTypes, Runner
<1>2. runners' = (runners \ {r}) \cup {Runner(r.id, step)} /\ Runner(r.id, step).id = r.id
  BY DEF Advances, Runner
<1>3. \A id : Runner(id, "submit") # Runner(r.id, step)
  BY DEF Runner
<1>4. \A id : Runner(id, "submit") = r <=> id = r.id /\ r.step = "submit"
  BY <1>1 DEF Runner
<1>5. \A id : id # r.id \/ r.step # "submit" =>
             (Runner(id, "submit") \in runners' <=> Runner(id, "submit") \in runners)
  BY <1>2, <1>3, <1>4
<1>6. r.step = "submit" => Runner(r.id, "submit") \notin runners'
  BY <1>1, <1>2, <1>3
<1>. QED
  BY <1>2, <1>5, <1>6 DEF Unsent

\* From here on: each kind of step keeps the invariant.
LEMMA ReaderInv == ASSUME LinkInv, ReaderStep PROVE LinkInv'
<1>1. LinkTypes'
  BY ReaderTypes DEF LinkInv
<1>. USE DEF LinkInv
<1>2. CASE DeliverResponse
  <2>. DEFINE id == Head(stdout).id
  <2>1. /\ TakeLine /\ Head(stdout).type = "response" /\ heard' = heard \cup {id}
        /\ UNCHANGED <<stdin, hungUp, jobs, run, serving, call, runners, nextId, turn, watched, closed>>
    BY <1>2 DEF DeliverResponse
  <2>2. PlacesOK' /\ ServerSent' /\ id \in Sent /\ Told(id)
    BY <2>1, TakePlaces
  <2>3. \/ pending' = pending \ {id} /\ inbox' = inbox \cup {id}
        \/ id \notin pending /\ UNCHANGED <<pending, inbox>>
    BY <1>2 DEF DeliverResponse
  <2>. HIDE DEF id
  <2>4. Sent' = Sent /\ pending' \subseteq pending /\ inbox \subseteq inbox'
    BY <2>1, <2>3 DEF Sent
  <2>5. ClientSent'
    BY <2>1, <2>2, <2>4 DEF ClientSent
  <2>6. EndsOK' /\ WatchedIsActive'
    BY <2>1 DEF EndsOK, WatchedIsActive
  <2>7. call.step = "sending" => call.id # id
    BY <2>2 DEF PlacesOK, PlaceOK, Unsent
  <2>8. CallOK'
    BY <2>1, <2>3, <2>4, <2>7 DEF CallOK
  <2>. QED
    BY <1>1, <2>2, <2>5, <2>6, <2>8
<1>3. CASE HandleEvent
  <2>1. /\ TakeLine /\ Head(stdout).type # "response"
        /\ UNCHANGED <<stdin, hungUp, jobs, run, serving>>
        /\ UNCHANGED <<nextId, pending, call, inbox, turn, runners, watched, closed, heard>>
    BY <1>3 DEF HandleEvent
  <2>2. PlacesOK' /\ ServerSent'
    BY <2>1, TakePlaces
  <2>3. ClientSent' /\ EndsOK' /\ CallOK' /\ WatchedIsActive'
    BY <2>1 DEF ClientSent, EndsOK, CallOK, WatchedIsActive, Sent
  <2>. QED
    BY <1>1, <2>2, <2>3
<1>4. CASE ReaderSends
  <2>1. /\ UNCHANGED <<stdin, hungUp, jobs, run, stdout, serving>>
        /\ UNCHANGED <<nextId, pending, call, inbox, turn, runners, watched, closed, heard>>
    BY <1>4 DEF ReaderSends, serverVars
  <2>2. PlacesOK' /\ ServerSent'
    BY <2>1, PlacesSame DEF Unsent
  <2>3. ClientSent' /\ EndsOK' /\ CallOK' /\ WatchedIsActive'
    BY <2>1 DEF ClientSent, EndsOK, CallOK, WatchedIsActive, Sent
  <2>. QED
    BY <1>1, <2>2, <2>3
<1>5. CASE ReaderEnds
  <2>1. /\ UNCHANGED <<stdin, hungUp, jobs, run, stdout, serving>> /\ closed' = TRUE /\ pending' = {}
        /\ UNCHANGED <<nextId, call, turn, runners, watched, heard>>
    BY <1>5 DEF ReaderEnds, serverVars
  <2>2. PlacesOK' /\ ServerSent'
    BY <2>1, PlacesSame DEF Unsent
  <2>3. ClientSent' /\ EndsOK' /\ CallOK' /\ WatchedIsActive'
    BY <2>1 DEF ClientSent, EndsOK, CallOK, WatchedIsActive, Sent
  <2>. QED
    BY <1>1, <2>2, <2>3
<1>. QED
  BY <1>2, <1>3, <1>4, <1>5 DEF ReaderStep

LEMMA CallInv == ASSUME LinkInv, CallStep PROVE LinkInv'
<1>. USE DEF LinkInv
<1>1. LinkTypes'
  BY CallStepTypes
<1>2. CASE RequestSent
  <2>1. /\ UNCHANGED <<hungUp, serving, jobs, run, stdout>> /\ call.step = "sending"
        /\ UNCHANGED <<nextId, inbox, turn, turns, runners, watched, reader, closed, heard>>
    BY <1>2 DEF RequestSent
  <2>2. call # NoCall /\ ~hungUp
    BY <2>1 DEF NoCall, EndsOK
  <2>3. call.id \in Sent /\ call.op \in Ops /\ Sent' = Sent /\ call.id \in Ids /\ Unsent(call.id)
    BY <2>1, SentIds DEF CallOK, LinkTypes, CallTypes, Sent, Unsent
  <2>4. CASE ~CanSend
    <3>1. pending' = pending \ {call.id} /\ call' = NoCall /\ UNCHANGED stdin
      BY <1>2, <2>4 DEF RequestSent
    <3>2. serving = "killed"
      BY <2>2, <2>4 DEF CanSend, EndsOK, LinkTypes, ServerTypes
    <3>3. \A id : Unsent(id)' => Unsent(id)
      BY <2>1, <3>1 DEF Unsent, NoCall
    <3>4. PlacesOK' /\ ServerSent'
      BY <2>1, <3>1, <3>2, <3>3, PlacesSame
    <3>5. ClientSent' /\ EndsOK' /\ CallOK' /\ WatchedIsActive'
      BY <2>1, <2>3, <3>1 DEF ClientSent, EndsOK, CallOK, WatchedIsActive, NoCall
    <3>. QED
      BY <1>1, <3>4, <3>5
  <2>5. CASE CanSend
    <3>1. Sends(call.id, call.op) /\ call' = [call EXCEPT !.step = "waiting"] /\ UNCHANGED pending
      BY <1>2, <2>5 DEF RequestSent
    <3>2. call'.id = call.id /\ call'.step = "waiting" /\ call'.op = call.op
      BY <3>1 DEF LinkTypes, CallTypes
    <3>3. Runner(call.id, "submit") \notin runners
      BY <2>1 DEF CallOK, Runner
    <3>4. \A d : /\ d = call.id => ~Unsent(d)'
                 /\ d # call.id => (Unsent(d)' <=> Unsent(d))
      BY <2>1, <3>2, <3>3 DEF Unsent
    <3>5. PICK d : d = call.id
      OBVIOUS
    <3>6. PlacesOK' /\ ServerSent'
      <4>1. d \in Sent /\ Sends(d, call.op) /\ Unsent(d)
        BY <2>3, <3>1, <3>5
      <4>. QED
        BY <2>1, <2>3, <3>4, <3>5, <4>1, PlacesSend
    <3>7. call.id \notin heard
      BY <2>3 DEF PlacesOK, PlaceOK
    <3>8. ClientSent' /\ EndsOK' /\ WatchedIsActive'
      BY <2>1, <2>2, <2>3, <3>1, <3>2 DEF ClientSent, EndsOK, WatchedIsActive
    <3>9. CallOK'
      BY <2>1, <2>3, <3>1, <3>2, <3>7 DEF CallOK
    <3>. QED
      BY <1>1, <3>6, <3>8, <3>9
  <2>. QED
    BY <2>4, <2>5
<1>3. CASE RequestAnswered \/ RequestFails
  <2>1. /\ UNCHANGED <<stdin, hungUp, serving, jobs, run, stdout>> /\ call.step = "waiting"
        /\ UNCHANGED <<nextId, turn, turns, runners, watched, reader, closed, heard>>
        /\ call' = NoCall /\ pending' \subseteq pending
    BY <1>3 DEF RequestAnswered, RequestFails, serverVars
  <2>2. \A id : Unsent(id)' <=> Unsent(id)
    BY <2>1 DEF Unsent, NoCall
  <2>3. PlacesOK' /\ ServerSent'
    BY <2>1, <2>2, PlacesSame
  <2>4. ClientSent' /\ EndsOK' /\ CallOK' /\ WatchedIsActive'
    BY <2>1 DEF ClientSent, EndsOK, CallOK, WatchedIsActive, NoCall, Sent
  <2>. QED
    BY <1>1, <2>3, <2>4
<1>. QED
  BY <1>2, <1>3 DEF CallStep

LEMMA RunnerInv == ASSUME LinkInv, NEW r \in runners, RunnerStep(r) PROVE LinkInv'
<1>. USE DEF LinkInv
<1>1. LinkTypes'
  BY RunnerTypes
<1>3. ~hungUp /\ r.id \in Sent /\ r.id \in Ids
  BY SentIds DEF EndsOK, ClientSent
<1>4. ASSUME NEW step \in {"drain", "abort", "leave"}, Advances(r, step), UNCHANGED call
      PROVE  /\ \A id : id # r.id \/ r.step # "submit" => (Unsent(id)' <=> Unsent(id))
             /\ \A q \in runners' : \E p \in runners : p.id = q.id
             /\ r.step = "submit" => Runner(r.id, "submit") \notin runners'
  BY <1>4, AdvanceUnsent DEF LinkTypes
\* What a step that moves the goroutine alone leaves as it was.
<1>5. ASSUME UNCHANGED <<hungUp, serving, nextId, pending, call, inbox, turn, watched, closed, heard>>,
             \A q \in runners' : \E p \in runners : p.id = q.id
      PROVE  ClientSent' /\ EndsOK' /\ CallOK' /\ WatchedIsActive'
  BY <1>3, <1>5 DEF ClientSent, EndsOK, CallOK, WatchedIsActive, Sent
<1>6. CASE TurnSubmits(r)
  <2>1. /\ UNCHANGED <<hungUp, serving, jobs, run, stdout>> /\ r.step = "submit"
        /\ UNCHANGED <<nextId, pending, call, inbox, turn, turns, watched, reader, closed, heard>>
    BY <1>6 DEF TurnSubmits
  <2>2. call.step = "sending" => call.id # r.id
    BY DEF CallOK
  <2>3. Unsent(r.id)
    BY <2>1 DEF Unsent, Runner, LinkTypes, TurnTypes
  <2>4. CASE ~CanSend
    <3>1. Advances(r, "leave") /\ UNCHANGED stdin
      BY <1>6, <2>4 DEF TurnSubmits
    <3>2. serving = "killed"
      BY <1>3, <2>4 DEF CanSend, EndsOK, LinkTypes, ServerTypes
    <3>3. \A id : Unsent(id)' => Unsent(id)
      BY <1>4, <2>1, <2>3, <3>1
    <3>4. PlacesOK' /\ ServerSent'
      BY <2>1, <3>1, <3>2, <3>3, PlacesSame
    <3>. QED
      BY <1>1, <1>4, <1>5, <2>1, <3>1, <3>4
  <2>5. CASE CanSend
    <3>1. Advances(r, "drain") /\ Sends(r.id, "prompt")
      BY <1>6, <2>5 DEF TurnSubmits
    <3>2. Runner(r.id, "submit") \notin runners'
      BY <1>4, <2>1, <3>1
    <3>3. ~Unsent(r.id)'
      BY <2>1, <2>2, <3>2 DEF Unsent
    <3>4. PlacesOK' /\ ServerSent'
      BY <1>3, <1>4, <2>1, <2>3, <3>1, <3>3, PlacesSend DEF Ops
    <3>. QED
      BY <1>1, <1>4, <1>5, <2>1, <3>1, <3>4
  <2>. QED
    BY <2>4, <2>5
<1>7. CASE TurnYields(r) \/ TurnOver(r) \/ TurnCancelled(r)
  <2>1. /\ UNCHANGED <<stdin, hungUp, serving, jobs, run, stdout>> /\ r.step # "submit"
        /\ UNCHANGED <<nextId, pending, call, inbox, turn, watched, reader, closed, heard>>
        /\ UNCHANGED runners \/ \E step \in {"abort", "leave"} : Advances(r, step)
    BY <1>7 DEF TurnYields, TurnOver, TurnCancelled, serverVars
  <2>2. \A id : Unsent(id)' <=> Unsent(id)
    BY <1>4, <2>1 DEF Unsent
  <2>3. PlacesOK' /\ ServerSent'
    BY <2>1, <2>2, PlacesSame
  <2>4. \A q \in runners' : \E p \in runners : p.id = q.id
    BY <1>4, <2>1
  <2>. QED
    BY <1>1, <1>5, <2>1, <2>3, <2>4
<1>8. CASE SendAbort(r)
  <2>1. /\ UNCHANGED <<hungUp, serving, jobs, run, stdout>> /\ r.step # "submit" /\ Advances(r, "leave")
        /\ UNCHANGED <<pending, call, inbox, turn, turns, watched, reader, closed, heard>>
    BY <1>8 DEF SendAbort
  <2>2. (\A id : Unsent(id)' <=> Unsent(id)) /\ \A q \in runners' : \E p \in runners : p.id = q.id
    BY <1>4, <2>1
  <2>3. CASE ~CanSend
    <3>1. UNCHANGED <<nextId, stdin>>
      BY <1>8, <2>3 DEF SendAbort
    <3>2. PlacesOK' /\ ServerSent'
      BY <2>1, <2>2, <3>1, PlacesSame
    <3>. QED
      BY <1>1, <1>5, <2>1, <2>2, <3>1, <3>2
  <2>4. CASE CanSend
    <3>1. nextId \in Ids /\ Fresh /\ Sends(nextId, "abort")
      BY <1>8, <2>4 DEF SendAbort
    <3>2. PICK n \in Ids : n = nextId
      BY <3>1
    <3>3. Sent' = Sent \cup {n} /\ n \notin Sent /\ n # 0
      BY <3>1, <3>2, FreshTypes, SentIds
    <3>4. ~Unsent(n)'
      BY <2>2, <3>3, <3>2, NewIsNowhere
    <3>5. PlacesOK' /\ ServerSent'
      BY <2>1, <2>2, <3>1, <3>2, <3>4, PlacesAbort DEF Ops
    <3>6. ClientSent' /\ EndsOK' /\ CallOK' /\ WatchedIsActive'
      BY <1>3, <2>1, <2>2, <3>3 DEF ClientSent, EndsOK, CallOK, WatchedIsActive
    <3>. QED
      BY <1>1, <3>5, <3>6
  <2>. QED
    BY <2>3, <2>4
<1>9. CASE TurnLeaves(r)
  <2>1. /\ UNCHANGED <<stdin, hungUp, serving, jobs, run, stdout>> /\ r.step # "submit"
        /\ UNCHANGED <<nextId, pending, call, inbox, reader, closed, heard>>
        /\ runners' = runners \ {r}
        /\ turn' = (IF turn = r.id THEN 0 ELSE turn)
        /\ watched' = (IF watched = r.id THEN 0 ELSE watched)
    BY <1>9 DEF TurnLeaves, OwnTurn, serverVars
  <2>2. \A id : Unsent(id)' <=> Unsent(id)
    BY <2>1 DEF Unsent, Runner
  <2>3. PlacesOK' /\ ServerSent'
    BY <2>1, <2>2, PlacesSame
  <2>4. ClientSent' /\ EndsOK' /\ CallOK' /\ WatchedIsActive'
    BY <1>3, <2>1 DEF ClientSent, EndsOK, CallOK, WatchedIsActive, Sent
  <2>. QED
    BY <1>1, <2>3, <2>4
<1>. QED
  BY <1>6, <1>7, <1>8, <1>9 DEF RunnerStep

LEMMA GivesId == ASSUME LinkInv, (\E op \in {"quick", "compact"} : Request(op)) \/ Submit PROVE LinkInv'
<1>. USE DEF LinkInv
<1>1. LinkTypes'
  BY RequestTypesKept, SubmitTypes
<1>2. /\ UNCHANGED <<stdin, hungUp, serving, jobs, run, stdout, inbox, turns, reader, closed, heard>>
      /\ call = NoCall /\ watched = 0 /\ nextId \in Ids /\ Fresh /\ ~hungUp
  BY DEF Request, Submit, serverVars
<1>3. PICK n \in Ids : n = nextId
  BY <1>2
<1>4. Sent' = Sent \cup {n} /\ n \notin Sent /\ n # 0
  BY <1>2, <1>3, FreshTypes, SentIds
<1>5. CASE \E op \in {"quick", "compact"} : Request(op)
  <2>1. PICK op \in {"quick", "compact"} : Request(op)
    BY <1>5
  <2>2. /\ call' = [id |-> n, op |-> op, step |-> "sending"] /\ pending' = pending \cup {n}
        /\ UNCHANGED <<turn, runners, watched>>
    BY <1>3, <2>1 DEF Request, Registered
  <2>3. call.step = "idle"
    BY <1>2 DEF NoCall
  <2>4. Unsent(n)' /\ \A id \in Sent : Unsent(id)' <=> Unsent(id)
    BY <1>4, <2>2, <2>3 DEF Unsent
  <2>5. PlacesOK' /\ ServerSent'
    BY <1>2, <1>3, <2>4, PlacesGrow
  <2>6. ClientSent' /\ EndsOK' /\ WatchedIsActive'
    BY <1>2, <1>4, <2>2 DEF ClientSent, EndsOK, WatchedIsActive
  <2>7. CallOK'
    BY <1>2, <1>4, <2>2 DEF CallOK, ClientSent
  <2>. QED
    BY <1>1, <2>5, <2>6, <2>7
<1>6. CASE Submit
  <2>1. /\ watched' = n /\ turn' = n /\ runners' = runners \cup {Runner(n, "submit")}
        /\ UNCHANGED <<pending, call>>
    BY <1>3, <1>6 DEF Submit
  <2>2. Runner(n, "submit").id = n /\ \A id : Runner(id, "submit") = Runner(n, "submit") => id = n
    BY DEF Runner
  <2>3. Unsent(n)' /\ \A id \in Sent : Unsent(id)' <=> Unsent(id)
    BY <1>4, <2>1, <2>2 DEF Unsent
  <2>4. PlacesOK' /\ ServerSent'
    BY <1>2, <1>3, <2>3, PlacesGrow
  <2>5. ClientSent' /\ EndsOK' /\ WatchedIsActive'
    BY <1>2, <1>4, <2>1, <2>2 DEF ClientSent, EndsOK, WatchedIsActive
  <2>6. CallOK'
    BY <1>2, <2>1 DEF CallOK, NoCall
  <2>. QED
    BY <1>1, <2>4, <2>5, <2>6
<1>. QED
  BY <1>5, <1>6

\* The invariant holds at first,
LEMMA LinkInvInit == RpcInit => LinkInv
<1>. SUFFICES ASSUME RpcInit PROVE LinkInv
  OBVIOUS
<1>1. Sent = {}
  BY DEF RpcInit, ClientInit, Sent
<1>2. DOMAIN stdin = {} /\ DOMAIN stdout = {}
  BY EmptySeq DEF RpcInit, ServerInit
<1>. QED
  BY <1>1, <1>2, InitTypes DEF RpcInit, ServerInit, ClientInit, LinkInv, PlacesOK, ServerSent, ClientSent,
     EndsOK, CallOK, WatchedIsActive, NoCall

\* ... and every step keeps it.
LEMMA LinkInvNext == LinkInv /\ [RpcNext]_rpcVars => LinkInv'
<1>. SUFFICES ASSUME LinkInv, [RpcNext]_rpcVars PROVE LinkInv'
  OBVIOUS
<1>. USE DEF LinkInv
<1>1. CASE UNCHANGED rpcVars
  <2>1. /\ UNCHANGED <<stdin, hungUp, serving, jobs, run, stdout>>
        /\ UNCHANGED <<nextId, pending, call, inbox, turn, turns, runners, watched, reader, closed, heard>>
    BY <1>1 DEF rpcVars, serverVars, clientVars
  <2>2. PlacesOK' /\ ServerSent'
    BY <2>1, NothingMoves
  <2>3. LinkTypes'
    BY <2>1 DEF LinkTypes, ServerTypes, CallTypes, TurnTypes
  <2>. QED
    BY <2>1, <2>2, <2>3 DEF ClientSent, EndsOK, CallOK, WatchedIsActive, Sent
<1>2. ASSUME UNCHANGED clientVars, ServerTypes', PlacesOK' /\ ServerSent',
             serving' \in {"closing", "gone"} => hungUp', hungUp' => hungUp \/ (call = NoCall /\ runners = {})
      PROVE  LinkInv'
  <2>1. UNCHANGED <<nextId, pending, call, inbox, turn, turns, runners, watched, reader, closed, heard>>
    BY <1>2 DEF clientVars
  <2>2. LinkTypes'
    BY <1>2, <2>1 DEF LinkTypes, CallTypes, TurnTypes
  <2>3. ClientSent' /\ CallOK' /\ WatchedIsActive'
    BY <2>1 DEF ClientSent, CallOK, WatchedIsActive, Sent
  <2>4. EndsOK'
    BY <1>2, <2>1 DEF EndsOK
  <2>. QED
    BY <1>2, <2>2, <2>3, <2>4
<1>3. CASE ServerStep /\ UNCHANGED clientVars
  <2>1. ServerTypes'
    BY <1>3, ServerStepTypes DEF LinkTypes
  <2>2. UNCHANGED <<call, runners, heard, nextId>>
    BY <1>3 DEF clientVars
  <2>3. CASE ReadCommand
    <3>1. PlacesOK' /\ ServerSent' /\ UNCHANGED <<hungUp, serving>>
      BY <1>3, <2>3, ReadCommandPlaces DEF LinkTypes, ReadCommand
    <3>. QED
      BY <1>2, <1>3, <2>1, <3>1 DEF EndsOK
  <2>4. CASE ReadEnd
    <3>1. UNCHANGED <<stdin, hungUp, jobs, run, stdout>> /\ serving = "serving" /\ hungUp
      BY <2>4 DEF ReadEnd
    <3>2. PlacesOK' /\ ServerSent'
      BY <2>2, <3>1, NothingMoves
    <3>. QED
      BY <1>2, <1>3, <2>1, <3>1, <3>2
  <2>5. CASE Leave
    <3>1. PlacesOK' /\ ServerSent' /\ UNCHANGED hungUp /\ serving = "closing"
      BY <1>3, <2>5, LeavePlaces DEF LinkTypes, Leave
    <3>. QED
      BY <1>2, <1>3, <2>1, <3>1 DEF EndsOK
  <2>6. CASE \E j \in jobs : JobStep(j)
    <3>1. PlacesOK' /\ ServerSent'
      BY <1>3, <2>6, JobPlaces DEF LinkTypes
    <3>2. UNCHANGED <<hungUp, serving>>
      BY <2>6 DEF JobStep, Answer, PromptBegins, PromptAccepted, PromptRefused, RefusedSettles, PromptFails,
         RunUpdates, AgentEnds, RunFinishes, Settles, AbortBegins, AbortReturns, IdleSeen, CompactBegins,
         CompactReturns
    <3>. QED
      BY <1>2, <1>3, <2>1, <3>1, <3>2 DEF EndsOK
  <2>. QED
    BY <1>3, <2>3, <2>4, <2>5, <2>6 DEF ServerStep
<1>4. CASE KernelDies
  <2>1. PlacesOK' /\ ServerSent'
    BY <1>4, DiesPlaces DEF LinkTypes
  <2>2. ServerTypes'
    BY <1>4, RunTyped, EmptySeq DEF KernelDies, LinkTypes, ServerTypes
  <2>. QED
    BY <1>2, <1>4, <2>1, <2>2 DEF KernelDies
<1>5. CASE InputEnds
  <2>1. /\ UNCHANGED <<stdin, serving, jobs, run, stdout>> /\ UNCHANGED clientVars /\ hungUp' = TRUE
        /\ call = NoCall /\ runners = {}
    BY <1>5 DEF InputEnds
  <2>2. PlacesOK' /\ ServerSent'
    BY <2>1, NothingMoves DEF clientVars
  <2>3. ServerTypes'
    BY <2>1 DEF LinkTypes, ServerTypes
  <2>. QED
    BY <1>2, <2>1, <2>2, <2>3
<1>6. CASE Cancel
  <2>1. /\ UNCHANGED <<stdin, hungUp, serving, jobs, run, stdout>> /\ watched' = 0
        /\ UNCHANGED <<nextId, pending, call, inbox, turn, turns, runners, reader, closed, heard>>
    BY <1>6 DEF Cancel, serverVars
  <2>2. PlacesOK' /\ ServerSent'
    BY <2>1, NothingMoves
  <2>3. LinkTypes'
    BY <2>1 DEF LinkTypes, ServerTypes, CallTypes, TurnTypes
  <2>. QED
    BY <2>1, <2>2, <2>3 DEF ClientSent, EndsOK, CallOK, WatchedIsActive, Sent
<1>. QED
  BY <1>1, <1>3, <1>4, <1>5, <1>6, ReaderInv, CallInv, RunnerInv, GivesId DEF RpcNext, ClientStep

\* It has the types that the runs check.
LEMMA LinkInvTypeOK == LinkInv => RpcTypeOK
  BY DEF LinkInv, LinkTypes, ServerTypes, CallTypes, TurnTypes, ServerSent, ClientSent, RpcTypeOK

\* For any number of ids, goroutines, pieces and lines in the pipes: a line that the
\* server took is answered once, a request that waits has its answer coming, and the
\* turn on the screen is the active one (server.go:87-91, rpcagent.go:378-385, 798-826).
THEOREM LinkKept == RpcSpec => []LinkSafe
<1>1. LinkInv => LinkSafe
  BY LinkInvSafe
<1>. QED
  BY <1>1, LinkInvInit, LinkInvNext, PTL DEF RpcSpec

-------------------------------------------------------------------------------
(* Both                                                                         *)

\* A behaviour is one of a single part.
WiresInv ==
    /\ part = "socket" => SocketInv
    /\ part = "pipes" => LinkInv

\* The invariant of the socket has the types that the runs check.
LEMMA SocketInvTypeOK == SocketInv => ConnectionTypeOK
<1>. SUFFICES ASSUME SocketInv PROVE ConnectionTypeOK
  OBVIOUS
<1>1. \A r \in Requests : request[r].pc \in RequestSteps /\ request[r].conn \in Conns \cup {NoConn}
  BY DEF SocketInv, SocketTypes, RequestTypes, RequestStates
<1>2. \A c \in Conns : conn[c].state \in {"open", "dead", "closed"} /\ entry[c].fired \in Nat
  BY DEF SocketInv, SocketTypes, CacheTypes, ConnStates, EntryStates
<1>3. wsCache \in Conns \cup {NoConn} /\ wsFallback \in BOOLEAN
  BY DEF SocketInv, SocketTypes, CacheTypes
<1>. QED
  BY <1>1, <1>2, <1>3 DEF ConnectionTypeOK, At, HeldBy, RequestSteps

\* Every variable of the socket and of the two ends of the pipes keeps its type, and
\* the client waits for no id that it has not given out.
THEOREM WiresTypes == WiresSpec => []WiresTypeOK
<1>1. WiresInit => WiresInv
  BY SocketInvInit, LinkInvInit DEF WiresInit, WiresInv
<1>2. WiresInv /\ [WiresNext]_wiresVars => WiresInv'
  <2>. SUFFICES ASSUME WiresInv, [WiresNext]_wiresVars PROVE WiresInv'
    OBVIOUS
  <2>1. part' = part
    BY DEF WiresNext, wiresVars
  <2>2. part = "socket" => [ConnectionNext]_connectionVars
    BY DEF WiresNext, wiresVars
  <2>3. part = "pipes" => [RpcNext]_rpcVars
    BY DEF WiresNext, wiresVars
  <2>4. (part = "socket" => SocketInv)'
    BY <2>1, <2>2, SocketInvNext DEF WiresInv
  <2>5. (part = "pipes" => LinkInv)'
    BY <2>1, <2>3, LinkInvNext DEF WiresInv
  <2>. QED
    BY <2>4, <2>5 DEF WiresInv
<1>3. WiresInv => WiresTypeOK
  BY SocketInvTypeOK, LinkInvTypeOK DEF WiresInv, WiresTypeOK
<1>. QED
  BY <1>1, <1>2, <1>3, PTL DEF WiresSpec
===============================================================================
