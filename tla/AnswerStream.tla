----------------------------- MODULE AnswerStream -----------------------------
(* How the answer of a model service becomes stream events and a message: the   *)
(* decoders of the four service protocols (ai/anthropic.go,                     *)
(* ai/openai_responses.go, ai/codex.go, ai/openai_completions.go) and the       *)
(* single-consumer stream around them (ai/stream.go).                           *)
(*                                                                              *)
(* A service says items (text, thinking, tool calls) in pieces. A piece carries *)
(* its number and, in the arguments of a call, whether it closes the JSON       *)
(* object: decodeJSONMap gives an empty map for anything less than the whole.   *)
EXTENDS Naturals, Sequences, FiniteSets, SequencesExt

CONSTANTS
    MaxDeltas,    \* pieces a service says in one answer (bound)
    MaxItems      \* items of one answer (bound)

ASSUME AnswerBounds == MaxDeltas \in Nat /\ MaxItems \in Nat

Apis == {"anthropic", "responses", "codex", "completions"}
Kinds == {"text", "thinking", "toolCall"}

\* How a chat-completions service names the calls its pieces belong to: by index
\* with the id in the first piece, by index with the id late, or by id alone.
Namings == {"index", "late", "id"}

VARIABLES
    api,        \* the protocol of the service
    naming,     \* how it names calls (completions)
    said,       \* what the service has said: a sequence of items
    pieces,     \* how many pieces it has said
    decoder,    \* the state of the decoder, with the message and the events
    ctxDone,    \* is the context of the request cancelled?
    over,       \* "no", or the word with which the service ended the answer
    fresh,      \* did the last step hand events to the consumer?
    stage       \* "asked", "open", "finished", "failed" or "abandoned"

answerVars == <<api, naming, said, pieces, decoder, ctxDone, over, fresh, stage>>

Item(kind, first) == [kind |-> kind, pieces |-> first, open |-> TRUE]

\* A block of the message. data is its text, or the arguments of a call.
Block(kind) == [kind |-> kind, data |-> <<>>]

NoDecoder ==
    [content |-> <<>>, stop |-> "none", partial |-> <<>>, key |-> <<>>,
     ids |-> <<>>, open |-> FALSE, finish |-> FALSE, events |-> <<>>]

AnswerInit ==
    /\ api \in Apis
    /\ naming \in IF api = "completions" THEN Namings ELSE {"index"}
    /\ said = <<>>
    /\ pieces = 0
    /\ decoder = NoDecoder
    /\ ctxDone = FALSE
    /\ over = "no"
    /\ fresh = FALSE
    /\ stage = "asked"

-------------------------------------------------------------------------------
(* What the decoders share.                                                     *)

\* Mutant of Parsed: what has arrived so far passes for the arguments.
ParsedPrefix(partial) == partial
\* decodeJSONMap: the arguments, or an empty map for anything but a whole object.
Parsed(partial) ==
    IF partial # <<>> /\ Last(partial).closes THEN partial ELSE <<>>

StreamEvent(type, index, kind) == [type |-> type, index |-> index, kind |-> kind]
Emit(d, type) == [d EXCEPT !.events = Append(@, StreamEvent(type, 0, "none"))]
EmitBlock(d, type, i) ==
    [d EXCEPT !.events = Append(@, StreamEvent(type, i, d.content[i].kind))]

\* A block begins; key and id are what the decoder will find it by.
StartBlock(d, kind, key, id) ==
    EmitBlock([d EXCEPT !.content = Append(@, Block(kind)),
                        !.partial = Append(@, <<>>),
                        !.key = Append(@, key),
                        !.ids = Append(@, id)],
              "start", Len(d.content) + 1)

\* Text and thinking grow in the message; arguments are parsed anew each time.
Grow(d, i, piece) ==
    LET partial == Append(d.partial[i], piece) IN
    [d EXCEPT !.partial[i] = partial,
              !.content[i].data =
                  IF d.content[i].kind = "toolCall" THEN Parsed(partial) ELSE partial]

HasCall(d) == \E i \in DOMAIN d.content : d.content[i].kind = "toolCall"
Failed(stop) == stop \in {"error", "aborted"}

\* The end every decoder shares: message_done or message_error, then complete.
Closed(d, stop) ==
    Emit(Emit([d EXCEPT !.stop = stop], IF Failed(stop) THEN "error" ELSE "done"),
         "complete")

\* The context was found cancelled: Anthropic's decoder leaves out message_error.
Aborted(d) ==
    IF api = "anthropic" THEN Emit([d EXCEPT !.stop = "aborted"], "complete")
    ELSE Closed(d, "aborted")

-------------------------------------------------------------------------------
(* anthropic.go: blocks are found by the index the service gives them.          *)

\* Mutant of FindBlock: the last block that was begun.
FindLastBlock(d, index) == Len(d.content)
\* findAnthropicBlock
FindBlock(d, index) == SelectInSeq(d.key, LAMBDA k : k = index)

AnthropicStart(d, index, kind) == StartBlock(d, kind, index, 0)

\* applyAnthropicDelta and its event; a signature joins the message silently.
AnthropicDelta(d, index, kind, piece) ==
    LET i == FindBlock(d, index) IN
    IF i = 0 \/ d.content[i].kind # kind THEN d
    ELSE EmitBlock(Grow(d, i, piece), "delta", i)

\* finalizeAnthropicBlock
AnthropicStop(d, index) ==
    LET i == FindBlock(d, index) IN
    IF i = 0 THEN d
    ELSE EmitBlock(IF d.content[i].kind = "toolCall"
                   THEN [d EXCEPT !.content[i].data = Parsed(d.partial[i])] ELSE d,
                   "end", i)

-------------------------------------------------------------------------------
(* openai_responses.go and codex.go: one block is current, the last of the      *)
(* message.                                                                     *)

\* openAIStartBlock knows reasoning, messages and function calls only.
ResponsesAdded(d, kind) ==
    IF kind \notin Kinds THEN d
    ELSE [StartBlock(d, kind, 0, 0) EXCEPT !.open = TRUE]

IsCurrent(d, kind) == d.open /\ Last(d.content).kind = kind

ResponsesDelta(d, kind, piece) ==
    IF ~IsCurrent(d, kind) THEN d
    ELSE EmitBlock(Grow(d, Len(d.content), piece), "delta", Len(d.content))

\* applyFunctionCallArgumentsDone: an event only for what adds to the deltas.
ResponsesArgumentsDone(d, whole) ==
    LET i == Len(d.content)
        taken == [d EXCEPT !.partial[i] = whole, !.content[i].data = Parsed(whole)] IN
    IF ~IsCurrent(d, "toolCall") THEN d
    ELSE IF IsStrictPrefix(d.partial[i], whole) THEN EmitBlock(taken, "delta", i)
    ELSE taken

\* Mutant of Finalized: what the deltas brought stays, whatever the item says.
FinalizedByDeltas(block, partial, whole) == block.data
\* finalizeOpenAIResponsesBlock: the finished item has the last word, if it says any.
Finalized(block, partial, whole) ==
    IF block.kind = "toolCall" THEN Parsed(IF whole # <<>> THEN whole ELSE partial)
    ELSE IF whole # <<>> THEN whole ELSE block.data

ResponsesDone(d, whole) ==
    LET i == Len(d.content) IN
    IF ~d.open THEN d
    ELSE EmitBlock([d EXCEPT !.content[i].data = Finalized(d.content[i], d.partial[i], whole),
                             !.open = FALSE],
                   "end", i)

\* mapOpenAIResponsesStopReason, and the calls the answer holds
ResponsesStop(d, status) ==
    CASE status = "incomplete" -> "length"
      [] status \in {"failed", "cancelled"} -> "error"
      [] OTHER -> IF HasCall(d) THEN "toolUse" ELSE "stop"

-------------------------------------------------------------------------------
(* openai_completions.go: one block of text, one of thinking, and the calls,    *)
(* found by index or else by id (0: the delta gives none).                      *)

\* Mutant of CallBlock: the id alone tells the calls apart.
CallBlockById(d, index, id) == SelectInSeq(d.ids, LAMBDA k : id # 0 /\ k = id)
\* ensureToolCallBlock's look-up
CallBlock(d, index, id) ==
    LET byIndex == SelectInSeq(d.key, LAMBDA k : index # 0 /\ k = index) IN
    IF byIndex # 0 THEN byIndex
    ELSE SelectInSeq(d.ids, LAMBDA k : id # 0 /\ k = id)

\* applyTextDelta and applyReasoningDelta
CompletionsText(d, kind, piece) ==
    LET i == SelectInSeq(d.content, LAMBDA b : b.kind = kind)
        begun == IF i = 0 THEN StartBlock(d, kind, 0, 0) ELSE d
        at == IF i = 0 THEN Len(begun.content) ELSE i IN
    EmitBlock(Grow(begun, at, piece), "delta", at)

\* applyToolCallDelta with applyToolCallIdentity
CompletionsCall(d, index, id, piece) ==
    LET i == CallBlock(d, index, id)
        begun == IF i = 0 THEN StartBlock(d, "toolCall", index, id) ELSE d
        at == IF i = 0 THEN Len(begun.content) ELSE i
        named == IF begun.ids[at] = 0 THEN [begun EXCEPT !.ids[at] = id] ELSE begun IN
    EmitBlock(Grow(named, at, piece), "delta", at)

\* finish: every block ends now, and an answer without finish reason has failed.
CompletionsFinish(d) ==
    LET ended == [d EXCEPT !.events = @ \o
                     [i \in DOMAIN d.content |-> StreamEvent("end", i, d.content[i].kind)]] IN
    Closed(ended, IF ~d.finish THEN "error"
                  ELSE IF d.stop \notin {"none", "stop"} THEN d.stop
                  ELSE IF HasCall(d) THEN "toolUse" ELSE "stop")

\* Mutant of EndOfStream: chat completions without finish reason count as done.
EndOfStreamTrusting(d) == Closed(d, IF d.stop = "none" THEN "stop" ELSE d.stop)
\* The service's stream has ended: each decoder says how the answer ended.
EndOfStream(d) ==
    IF api = "completions" THEN CompletionsFinish(d)
    ELSE Closed(d, IF d.stop = "none" THEN "stop" ELSE d.stop)

-------------------------------------------------------------------------------
(* What the service and the consumer do.                                        *)

\* The decoder takes what the service said, unless the context is cancelled.
Hear(d) ==
    /\ stage = "open"
    /\ decoder' = IF ctxDone THEN Aborted(decoder) ELSE d
    /\ stage' = IF ctxDone THEN "finished" ELSE "open"
    /\ fresh' = (decoder'.events # decoder.events)
    /\ UNCHANGED <<api, naming, ctxDone>>

\* The request is accepted: the message starts, empty.
Accept ==
    /\ stage = "asked"
    /\ stage' = "open"
    /\ decoder' = Emit(decoder, "message")
    /\ fresh' = TRUE
    /\ UNCHANGED <<api, naming, said, pieces, ctxDone, over>>

\* It is refused: an answer that is nothing but an error, or an error of the stream.
Refuse ==
    /\ stage = "asked"
    /\ \/ /\ stage' = "finished"
          /\ decoder' = Emit([decoder EXCEPT !.stop = "error"], "complete")
       \/ /\ ctxDone /\ api \in {"completions", "codex"}
          /\ stage' = "finished"
          /\ decoder' = Emit([decoder EXCEPT !.stop = "aborted"], "complete")
       \/ /\ stage' = "failed"
          /\ UNCHANGED decoder
    /\ fresh' = FALSE
    /\ UNCHANGED <<api, naming, said, pieces, ctxDone, over>>

Speaks == stage = "open" /\ over = "no"
Sequential == api \in {"responses", "codex"}
NextPiece(closes) == [n |-> pieces + 1, closes |-> closes]

\* A new item; chat completions begin one with its first piece.
BeginItem(kind) ==
    /\ Speaks
    /\ api # "completions"
    /\ Sequential => \A i \in DOMAIN said : ~said[i].open
    /\ Len(said) < MaxItems
    /\ said' = Append(said, Item(kind, <<>>))
    /\ Hear(IF api = "anthropic" THEN AnthropicStart(decoder, Len(said) + 1, kind)
            ELSE ResponsesAdded(decoder, kind))
    /\ UNCHANGED <<pieces, over>>

\* Items and events the decoder does not know: Anthropic's fails, the others skip.
SayUnknown ==
    /\ Speaks
    /\ IF api = "anthropic" /\ ~ctxDone
       THEN /\ stage' = "failed"
            /\ decoder' = [decoder EXCEPT !.stop = IF @ = "none" THEN "error" ELSE @]
            /\ fresh' = FALSE
            /\ UNCHANGED <<api, naming, ctxDone>>
       ELSE Hear(IF Sequential THEN ResponsesAdded(decoder, "unsupported") ELSE decoder)
    /\ UNCHANGED <<said, pieces, over>>

\* The number of item i among the calls, and the names its pieces carry.
CallNumber(i) == Cardinality({j \in 1..i : said'[j].kind = "toolCall"})
GivenIndex(i) == IF naming = "id" THEN 0 ELSE CallNumber(i)
GivenId(i) ==
    CASE naming = "id" -> CallNumber(i)
      [] naming = "index" -> IF Len(said'[i].pieces) = 1 THEN CallNumber(i) ELSE 0
      [] naming = "late" -> IF Len(said'[i].pieces) = 1 THEN 0 ELSE CallNumber(i)

Completed(i) == said[i].pieces # <<>> /\ Last(said[i].pieces).closes

\* The next piece of an item. The object of a call's arguments closes once.
SayPiece(i, closes) ==
    LET kind == said'[i].kind
        piece == NextPiece(closes) IN
    /\ Speaks
    /\ pieces < MaxDeltas
    /\ pieces' = pieces + 1
    /\ \/ i \in DOMAIN said /\ said[i].open /\ ~Completed(i)
          /\ said' = [said EXCEPT ![i].pieces = Append(@, piece)]
       \/ api = "completions" /\ i = Len(said) + 1 /\ i <= MaxItems
          /\ \E k \in Kinds :
                /\ k # "toolCall" => \A j \in DOMAIN said : said[j].kind # k
                /\ said' = Append(said, Item(k, <<piece>>))
    /\ closes => kind = "toolCall"
    /\ Hear(IF api = "anthropic" THEN AnthropicDelta(decoder, i, kind, piece)
            ELSE IF Sequential THEN ResponsesDelta(decoder, kind, piece)
            ELSE IF kind = "toolCall"
                 THEN CompletionsCall(decoder, GivenIndex(i), GivenId(i), piece)
                 ELSE CompletionsText(decoder, kind, piece))
    /\ UNCHANGED over

\* response.function_call_arguments.done: the arguments in whole, perhaps with a
\* last piece that no delta brought.
SayArguments(i, more) ==
    /\ Speaks
    /\ Sequential
    /\ i \in DOMAIN said /\ said[i].open /\ said[i].kind = "toolCall"
    /\ more => pieces < MaxDeltas /\ ~Completed(i)
    /\ pieces' = IF more THEN pieces + 1 ELSE pieces
    /\ said' = IF more THEN [said EXCEPT ![i].pieces = Append(@, NextPiece(TRUE))] ELSE said
    /\ Hear(ResponsesArgumentsDone(decoder, said'[i].pieces))
    /\ UNCHANGED over

\* An item ends; a finished item of the responses protocol repeats itself in whole
\* or says nothing.
EndItem(i, repeats) ==
    /\ Speaks
    /\ api # "completions"
    /\ i \in DOMAIN said /\ said[i].open
    /\ said' = [said EXCEPT ![i].open = FALSE]
    /\ Hear(IF api = "anthropic" THEN AnthropicStop(decoder, i)
            ELSE ResponsesDone(decoder, IF repeats THEN said[i].pieces ELSE <<>>))
    /\ UNCHANGED <<pieces, over>>

\* mapAnthropicStopReason and mapOpenAICompletionsStopReason for the reasons a
\* service has; "tools" it may also give as "natural".
StopFor(reason) ==
    CASE reason = "natural" -> "stop"
      [] reason = "tools" -> "toolUse"
      [] reason = "length" -> "length"
      [] reason = "refused" -> "error"

\* The service says why it stops. Codex's decoder takes no event after that one.
SayFinish(reason) ==
    LET stop == IF Sequential
                THEN ResponsesStop(decoder, CASE reason = "length" -> "incomplete"
                                              [] reason = "refused" -> "cancelled"
                                              [] OTHER -> "completed")
                ELSE StopFor(reason)
        told == [decoder EXCEPT !.stop = stop, !.finish = TRUE] IN
    /\ Speaks
    /\ reason = "tools" => \E i \in DOMAIN said : said[i].kind = "toolCall"
    /\ over' = reason
    /\ IF api = "codex" /\ ~ctxDone
       THEN /\ decoder' = Closed(told, stop)
            /\ stage' = "finished"
            /\ fresh' = TRUE
            /\ UNCHANGED <<api, naming, ctxDone>>
       ELSE Hear(told)
    /\ UNCHANGED <<said, pieces>>

\* The service reports an error in the stream.
SayError ==
    /\ Speaks
    /\ decoder' = IF ctxDone THEN Aborted(decoder) ELSE Closed(decoder, "error")
    /\ stage' = "finished"
    /\ over' = "refused"
    /\ fresh' = TRUE
    /\ UNCHANGED <<api, naming, said, pieces, ctxDone>>

\* The stream ends, after the service has finished or, cut cleanly, before.
EndStream ==
    /\ stage = "open"
    /\ decoder' = EndOfStream(decoder)
    /\ stage' = "finished"
    /\ fresh' = TRUE
    /\ UNCHANGED <<api, naming, said, pieces, ctxDone, over>>

\* Reading fails. After response.completed that is the end; a cancelled Codex
\* request is aborted; else the stream fails and the message keeps what it has.
ReadFails ==
    /\ stage = "open"
    /\ IF api = "responses" /\ over \in {"natural", "tools"}
       THEN decoder' = EndOfStream(decoder) /\ stage' = "finished"
       ELSE IF api = "codex" /\ ctxDone
       THEN decoder' = Closed(decoder, "aborted") /\ stage' = "finished"
       ELSE /\ decoder' = [decoder EXCEPT !.stop = IF @ = "none" THEN "error" ELSE @]
            /\ stage' = "failed"
    /\ fresh' = (decoder'.events # decoder.events)
    /\ UNCHANGED <<api, naming, said, pieces, ctxDone, over>>

CancelAnswer ==
    /\ stage \in {"asked", "open"}
    /\ ~ctxDone
    /\ ctxDone' = TRUE
    /\ fresh' = FALSE
    /\ UNCHANGED <<api, naming, said, pieces, decoder, over, stage>>

\* The consumer takes no more events: what it has is an aborted answer (newStream).
AbandonAnswer ==
    /\ stage = "open"
    /\ fresh
    /\ stage' = "abandoned"
    /\ decoder' = [decoder EXCEPT !.stop = "aborted"]
    /\ fresh' = FALSE
    /\ UNCHANGED <<api, naming, said, pieces, ctxDone, over>>

AnswerNext ==
    \/ Accept \/ Refuse
    \/ \E kind \in Kinds : BeginItem(kind)
    \/ SayUnknown
    \/ \E i \in 1..MaxItems, flag \in BOOLEAN :
          SayPiece(i, flag) \/ SayArguments(i, flag) \/ EndItem(i, flag)
    \/ \E reason \in {"natural", "tools", "length", "refused"} : SayFinish(reason)
    \/ SayError \/ EndStream \/ ReadFails \/ CancelAnswer \/ AbandonAnswer

AnswerSpec == AnswerInit /\ [][AnswerNext]_answerVars

-------------------------------------------------------------------------------
(* Properties.                                                                  *)

\* The state is of the declared shape.
AnswerTypeOK ==
    /\ api \in Apis /\ naming \in Namings
    /\ stage \in {"asked", "open", "finished", "failed", "abandoned"}
    /\ decoder.stop \in {"none", "stop", "length", "toolUse", "error", "aborted"}
    /\ Len(decoder.content) \in 0..MaxItems
    /\ Len(decoder.partial) = Len(decoder.content)

\* What the events tell a consumer is a well-formed answer: blocks start in order,
\* their deltas and at most one end follow their start, the kinds are those of
\* the message, and nothing follows the last event, which comes when and only
\* when the decoder is done.
EventsWellFormed ==
    LET e == decoder.events
        Is(i, type, index) == e[i].type = type /\ e[i].index = index IN
    /\ \A i \in DOMAIN e :
          /\ e[i].index # 0 => e[i].kind = decoder.content[e[i].index].kind
          /\ e[i].type = "start" =>
                e[i].index = Cardinality({j \in 1..i : e[j].type = "start"})
          /\ e[i].type \in {"delta", "end"} =>
                /\ \E j \in 1..(i - 1) : Is(j, "start", e[i].index)
                /\ \A j \in 1..(i - 1) : ~Is(j, "end", e[i].index)
          /\ e[i].type = "complete" => i = Len(e)
          /\ e[i].type \in {"done", "error"} => i = Len(e) - 1
    /\ stage = "finished" <=> e # <<>> /\ Last(e).type = "complete"

\* The message is what the service said, block by block and piece by piece, and a
\* call's arguments are all it said of them or none: the tables in which the
\* decoders find their blocks never mix items, however their pieces alternate.
MessageIsWhatWasSaid ==
    ~ctxDone /\ stage # "asked" =>
        /\ Len(decoder.content) = Len(said)
        /\ \A i \in DOMAIN said :
              /\ decoder.content[i].kind = said[i].kind
              /\ decoder.content[i].data =
                    IF said[i].kind = "toolCall" THEN Parsed(said[i].pieces)
                    ELSE said[i].pieces

\* An answer that its caller will take for complete did not fail, was not aborted,
\* and, in chat completions, was ended by the service; what an abandoned or
\* failed stream leaves behind has a reason.
NoHalfAnswerPasses ==
    /\ stage \in {"finished", "failed", "abandoned"} /\ decoder.events # <<>> =>
          decoder.stop # "none"
    /\ stage = "finished" /\ api = "completions" /\ ~Failed(decoder.stop) => over # "no"
    /\ stage \in {"finished", "failed"} /\ over = "refused" => Failed(decoder.stop)
    /\ stage = "failed" /\ over = "no" /\ decoder.events # <<>> => Failed(decoder.stop)

\* What a stream decoder makes of an answer, said once for the four of them.
AnswerFaithful ==
    decoder # NoDecoder => EventsWellFormed /\ MessageIsWhatWasSaid /\ NoHalfAnswerPasses
===============================================================================
