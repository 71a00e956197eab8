----------------------------- MODULE WireMessages -----------------------------
(* How a conversation becomes the request of a model service: the clean-up for  *)
(* the model in use (ai/transform.go) and the four request formats              *)
(* (ai/anthropic.go, ai/openai_responses.go, ai/codex.go,                       *)
(* ai/openai_completions.go).                                                   *)
(*                                                                              *)
(* Texts are "blank" or "words". A signature is "none", "item" (the JSON of a   *)
(* reasoning item) or "opaque". The id of a tool call is a pair of sequences of *)
(* tokens, call and item: the item is empty unless the service of OpenAI's      *)
(* responses gave the id; "?" is a character that not every service accepts.    *)
(* CallIds are shorter than the limits at which they are cut.                       *)
EXTENDS Integers, Sequences, FiniteSets, SequencesExt

CONSTANTS
    Catalogue,      \* the models: a function from names to records
    MaxMessages     \* messages of a conversation (bound)

ASSUME WireBounds == MaxMessages \in Nat

VARIABLE history    \* the conversation as the agent loop has stored it

wireVars == <<history>>

TextBlock(text) ==
    [type |-> "text", text |-> text, signature |-> "none", redacted |-> FALSE, id |-> <<>>]
ThinkingBlock(text, signature, redacted) ==
    [type |-> "thinking", text |-> text, signature |-> signature,
     redacted |-> redacted, id |-> <<>>]
ToolCallBlock(id) ==
    [type |-> "toolCall", text |-> "none", signature |-> "none", redacted |-> FALSE, id |-> id]
ImageBlock ==
    [type |-> "image", text |-> "none", signature |-> "none", redacted |-> FALSE, id |-> <<>>]
Placeholder == TextBlock("placeholder")

\* A message: model is that of an assistant's answer, id the call of a result.
UserMessage(content) ==
    [role |-> "user", content |-> content, model |-> "none", stop |-> "none", id |-> <<>>]
AssistantMessage(model, content, stop) ==
    [role |-> "assistant", content |-> content, model |-> model, stop |-> stop, id |-> <<>>]
ResultMessage(id, content) ==
    [role |-> "toolResult", content |-> content, model |-> "none", stop |-> "none", id |-> id]

OfType(content, type) == SelectSeq(content, LAMBDA b : b.type = type)

-------------------------------------------------------------------------------
(* transform.go. Models are records: name, provider, api, images (may it see    *)
(* them), reasoning, and the compatibility flags of chat completions.           *)

\* replaceImagesWithPlaceholder: one placeholder for a row of images.
WithoutImages(content) ==
    LET step(out, b) ==
            IF b.type # "image" THEN Append(out, b)
            ELSE IF out # <<>> /\ Last(out) = Placeholder THEN out
            ELSE Append(out, Placeholder) IN
    FoldLeft(step, <<>>, content)

Seen(content, model) == IF model.images THEN content ELSE WithoutImages(content)

Legal(tokens) == [i \in DOMAIN tokens |-> IF tokens[i] = "?" THEN "_" ELSE tokens[i]]

\* normalizeAnthropicToolCallID: the whole id as one part of legal characters
AnthropicId(id) ==
    [call |-> Legal(id.call \o (IF id.item = <<>> THEN <<>> ELSE <<"_">> \o id.item)),
     item |-> <<>>]

\* normalizeOpenAICompletionsToolCallID: the call's part alone
CompletionsId(id) ==
    IF id.item = <<>> THEN id ELSE [call |-> Legal(id.call), item |-> <<>>]

FromOpenAI == {"openai", "openai-codex", "opencode"}   \* openAIToolCallProviders

\* normalizeOpenAIToolCallID: the item of a foreign answer is hashed, one of
\* OpenAI's own keeps its name, and both begin with fc_.
ResponsesId(id, model, foreign) ==
    IF model.provider \notin FromOpenAI \/ id.item = <<>> THEN AnthropicId(id)
    ELSE [call |-> Legal(id.call),
          item |-> IF foreign THEN <<"fc", "hash">> \o id.item
                   ELSE IF Head(id.item) = "fc" THEN Legal(id.item)
                   ELSE <<"fc">> \o Legal(id.item)]

\* Mutant of Normalized: Anthropic takes the ids of other services as they are.
NormalizedNot(id, model, source) == id
\* The id a request to model uses for a call of an answer of the model source.
Normalized(id, model, source) ==
    CASE model.api = "anthropic" -> AnthropicId(id)
      [] model.api = "completions" -> CompletionsId(id)
      [] OTHER -> ResponsesId(id, model,
                              source.provider # model.provider \/ source.api # model.api)

SameModel(model, source) ==
    /\ source.name = model.name
    /\ source.provider = model.provider
    /\ source.api = model.api

\* Mutant of TransformedBlock: the thinking of another model passes as it is.
TransformedBlockKeeping(b, model, source) ==
    IF b.type = "toolCall" /\ ~SameModel(model, source)
    THEN <<ToolCallBlock(Normalized(b.id, model, source))>> ELSE <<b>>
\* transformAssistantContent: thinking stays with the model that thought it; for
\* another it is text, or nothing if it is redacted or blank.
TransformedBlock(b, model, source) ==
    LET same == SameModel(model, source) IN
    CASE b.type = "thinking" /\ b.redacted -> IF same THEN <<b>> ELSE <<>>
      [] b.type = "thinking" /\ ~b.redacted ->
            IF same /\ b.signature # "none" THEN <<b>>
            ELSE IF b.text = "blank" THEN <<>>
            ELSE IF same THEN <<b>> ELSE <<TextBlock(b.text)>>
      [] b.type = "text" -> IF same THEN <<b>> ELSE <<TextBlock(b.text)>>
      [] b.type = "toolCall" ->
            <<IF same THEN b ELSE ToolCallBlock(Normalized(b.id, model, source))>>
      [] OTHER -> <<b>>

\* TransformMessages before insertSyntheticToolResults. renamed is toolCallIDMap:
\* the calls that changed their ids, which their results follow.
Cleaned(messages, model, catalogue) ==
    LET step(acc, m) ==
            CASE m.role = "user" ->
                    [acc EXCEPT !.out = Append(@, [m EXCEPT !.content = Seen(@, model)])]
              [] m.role = "toolResult" ->
                    LET known == {p \in acc.renamed : p[1] = m.id} IN
                    [acc EXCEPT !.out = Append(@,
                        [m EXCEPT !.content = Seen(@, model),
                                  !.id = IF known = {} THEN @ ELSE (CHOOSE p \in known : TRUE)[2]])]
              [] m.role = "assistant" ->
                    LET source == catalogue[m.model]
                        calls == {b.id : b \in ToSet(OfType(m.content, "toolCall"))}
                        now == IF SameModel(model, source) THEN {}
                               ELSE {<<id, Normalized(id, model, source)>> : id \in calls} IN
                    [out |-> Append(acc.out,
                        [m EXCEPT !.content = FlattenSeq([i \in DOMAIN m.content |->
                            TransformedBlock(m.content[i], model, source)])]),
                     renamed |-> {p \in acc.renamed : \A q \in now : q[1] # p[1] \/ q[2] = q[1]}
                                     \cup {p \in now : p[1] # p[2]}] IN
    FoldLeft(step, [out |-> <<>>, renamed |-> {}], messages).out

\* insertSyntheticToolResults: answers that failed are left out, and each call
\* without a result gets one before the next user message or answer.
Orphans(acc) ==
    [i \in DOMAIN SelectSeq(acc.pending, LAMBDA id : id \notin acc.existing) |->
        ResultMessage(SelectSeq(acc.pending, LAMBDA id : id \notin acc.existing)[i],
                      <<TextBlock("words")>>)]

\* Mutant of Settled: results are made up only at the end.
SettledNever(acc) == acc
\* insertSynthetic
Settled(acc) ==
    [out |-> acc.out \o Orphans(acc), pending |-> <<>>, existing |-> {}]

WithResults(messages) ==
    LET step(acc, m) ==
            CASE m.role = "assistant" ->
                    IF m.stop \in {"error", "aborted"} THEN Settled(acc)
                    ELSE [Settled(acc) EXCEPT
                            !.out = Append(@, m),
                            !.pending = [i \in DOMAIN OfType(m.content, "toolCall") |->
                                            OfType(m.content, "toolCall")[i].id]]
              [] m.role = "toolResult" ->
                    [acc EXCEPT !.out = Append(@, m), !.existing = @ \cup {m.id}]
              [] m.role = "user" -> [Settled(acc) EXCEPT !.out = Append(@, m)]
        all == FoldLeft(step, [out |-> <<>>, pending |-> <<>>, existing |-> {}], messages) IN
    all.out \o Orphans(all)

TransformMessages(messages, model, catalogue) ==
    WithResults(Cleaned(messages, model, catalogue))

-------------------------------------------------------------------------------
(* anthropic.go                                                                 *)

Wire(type, id) == [type |-> type, id |-> id]
NotBlank(content) == SelectSeq(content, LAMBDA b : b.type # "text" \/ b.text # "blank")
Shown(content, model) ==
    SelectSeq(content, LAMBDA b : b.type \in {"text"} \cup (IF model.images THEN {"image"} ELSE {}))

\* convertAnthropicUserContent
AnthropicUserContent(content, model) ==
    LET shown == Shown(NotBlank(content), model) IN
    [i \in DOMAIN shown |-> Wire(shown[i].type, <<>>)]

\* convertAnthropicAssistantContent with convertAnthropicThinkingBlock
AnthropicAssistantContent(content) ==
    LET wire(b) ==
            CASE b.type = "toolCall" -> <<Wire("tool_use", b.id)>>
              [] b.type = "thinking" /\ b.redacted -> <<Wire("redacted", <<>>)>>
              [] b.type \in {"text", "thinking"} /\ ~b.redacted ->
                    IF b.text = "blank" THEN <<>>
                    ELSE IF b.type = "thinking" /\ b.signature # "none"
                         THEN <<Wire("thinking", <<>>)>> ELSE <<Wire("text", <<>>)>>
              [] OTHER -> <<>> IN
    FlattenSeq([i \in DOMAIN content |-> wire(content[i])])

\* Mutant of GroupsResult: each result is a message of its own.
GroupsResultNever(out, previous) == FALSE
\* A result joins the message of the result before it.
GroupsResult(out, previous) == previous = "toolResult"

\* convertAnthropicMessages: a row of results is one user message, and nothing
\* that has no content is sent.
AnthropicMessages(messages, model) ==
    LET add(out, role, blocks) ==
            IF blocks = <<>> THEN out ELSE Append(out, [role |-> role, blocks |-> blocks])
        step(out, i) ==
            LET m == messages[i]
                result == Wire("tool_result", m.id) IN
            CASE m.role = "user" -> add(out, "user", AnthropicUserContent(m.content, model))
              [] m.role = "assistant" ->
                    add(out, "assistant", AnthropicAssistantContent(m.content))
              [] m.role = "toolResult" ->
                    IF i > 1 /\ GroupsResult(out, messages[i - 1].role)
                    THEN [out EXCEPT ![Len(out)].blocks = Append(@, result)]
                    ELSE add(out, "user", <<result>>) IN
    FoldLeft(step, <<>>, [i \in DOMAIN messages |-> i])

\* addAnthropicCacheControl: the message whose last block carries the mark, or 0.
AnthropicCacheMark(wire, retention) ==
    IF retention # "none" /\ wire # <<>> /\ Last(wire).role = "user" THEN Len(wire) ELSE 0

AnthropicRequest(messages, model, catalogue) ==
    AnthropicMessages(TransformMessages(messages, model, catalogue), model)

\* anthropicThinkingBudget: what the level asks for, if nothing else is configured.
DefaultBudget ==
    [minimal |-> 1024, low |-> 2048, medium |-> 8192, high |-> 16384, xhigh |-> 16384]

\* Mutant of AdjustMaxTokens: the answer's room is not made longer.
AdjustMaxTokensTight(base, limit, budget) ==
    [max |-> IF base > 0 THEN base ELSE limit, budget |-> budget]
\* adjustMaxTokensForThinking: the limits of the answer and of its thinking.
AdjustMaxTokens(base, limit, budget) ==
    LET top == IF limit <= 0 THEN base ELSE limit
        wanted == IF base > 0 /\ limit > 0 /\ base + budget < limit THEN base + budget ELSE top
        max == IF wanted <= 0 THEN budget + 1024 ELSE wanted IN
    [max |-> max,
     budget |-> IF max > budget THEN budget
                ELSE IF max > 1024 THEN max - 1024 ELSE 0]

-------------------------------------------------------------------------------
(* openai_responses.go and codex.go: a flat list of items. Codex sends a user   *)
(* message even when nothing is left of it.                                     *)

\* The item of an id, unless another model of the same service gave it.
ItemOf(id, model, source) ==
    IF source.name # model.name /\ source.provider = model.provider
       /\ source.api = model.api /\ id.item # <<>> /\ Head(id.item) = "fc"
    THEN <<>> ELSE id.item

\* convertOpenAIResponsesAssistantContent: reasoning is replayed if it is an item.
ResponsesAssistant(m, model, source) ==
    LET wire(b) ==
            CASE b.type = "thinking" ->
                    IF b.signature = "item" THEN <<Wire("reasoning", <<>>)>> ELSE <<>>
              [] b.type = "text" -> <<Wire("message", <<>>)>>
              [] b.type = "toolCall" ->
                    <<Wire("function_call",
                           [call |-> b.id.call, item |-> ItemOf(b.id, model, source)])>>
              [] OTHER -> <<>> IN
    FlattenSeq([i \in DOMAIN m.content |-> wire(m.content[i])])

\* convertOpenAIResponsesMessages and convertCodexMessages
ResponsesInput(messages, model, catalogue) ==
    LET wire(m) ==
            CASE m.role = "user" ->
                    IF Shown(m.content, model) = <<>> /\ model.api = "responses" THEN <<>>
                    ELSE <<Wire("user", <<>>)>>
              [] m.role = "assistant" -> ResponsesAssistant(m, model, catalogue[m.model])
              [] m.role = "toolResult" ->
                    <<Wire("function_call_output", [call |-> m.id.call, item |-> <<>>])>> IN
    FlattenSeq([i \in DOMAIN messages |-> wire(messages[i])])

ResponsesRequest(messages, model, catalogue) ==
    ResponsesInput(TransformMessages(messages, model, catalogue), model, catalogue)

-------------------------------------------------------------------------------
(* openai_completions.go                                                        *)

ChatMessage(role, calls, id) == [role |-> role, calls |-> calls, id |-> id]

\* convertOpenAICompletionsAssistantMessage: an answer with neither text nor calls
\* is left out, and thinking counts as text only where the service wants it so.
ChatAssistant(m, model) ==
    LET calls == OfType(m.content, "toolCall")
        texts == OfType(NotBlank(m.content), "text")
        thoughts == SelectSeq(m.content, LAMBDA b : b.type = "thinking" /\ b.text # "blank") IN
    IF calls = <<>> /\ texts = <<>> /\ (thoughts = <<>> \/ ~model.thinkingAsText)
    THEN <<>>
    ELSE <<ChatMessage("assistant", [i \in DOMAIN calls |-> calls[i].id], <<>>)>>

\* convertOpenAICompletionsMessages with appendOpenAICompletionsToolResults: the
\* images of a row of results follow it in a user message, and where the service
\* wants an answer after results one is made up before any user message.
ChatMessages(messages, model) ==
    LET filler == IF model.answerAfterResults
                  THEN <<ChatMessage("assistant", <<>>, <<>>)>> ELSE <<>>
        visible(content) == model.images /\ OfType(content, "image") # <<>>
        user == ChatMessage("user", <<>>, <<>>)
        rowImages(i) ==
            LET first == CHOOSE f \in 1..i :
                            /\ \A j \in f..i : messages[j].role = "toolResult"
                            /\ f = 1 \/ messages[f - 1].role # "toolResult" IN
            \E j \in first..i : visible(messages[j].content)
        step(acc, i) ==
            LET m == messages[i]
                rowEnds == i = Len(messages) \/ messages[i + 1].role # "toolResult" IN
            CASE m.role = "user" ->
                    [last |-> "user",
                     out |-> acc.out
                        \o (IF acc.last = "toolResult" THEN filler ELSE <<>>)
                        \o (IF OfType(m.content, "text") = <<>> /\ ~visible(m.content)
                            THEN <<>> ELSE <<user>>)]
              [] m.role = "assistant" ->
                    [last |-> "assistant", out |-> acc.out \o ChatAssistant(m, model)]
              [] m.role = "toolResult" ->
                    LET images == rowEnds /\ rowImages(i) IN
                    [last |-> IF images THEN "user" ELSE "toolResult",
                     out |-> Append(acc.out, ChatMessage("tool", <<>>, m.id))
                        \o (IF images THEN Append(filler, user) ELSE <<>>)] IN
    FoldLeft(step, [last |-> "none", out |-> <<>>], [i \in DOMAIN messages |-> i]).out

ChatRequest(messages, model, catalogue) ==
    ChatMessages(TransformMessages(messages, model, catalogue), model)

\* openAICompletionsToolsFor: a conversation with calls needs a list of tools, if
\* only an empty one.
ChatTools(tools, messages) ==
    IF tools # {} THEN "list"
    ELSE IF \E i \in DOMAIN messages :
               messages[i].role = "toolResult" \/ OfType(messages[i].content, "toolCall") # <<>>
    THEN "empty" ELSE "none"

-------------------------------------------------------------------------------
(* The level of thinking (ai/model.go).                                         *)

Levels == <<"off", "minimal", "low", "medium", "high", "xhigh">>

\* supportedThinkingLevels: mapped says what a model makes of a level; "absent"
\* and "refused" are an entry that is missing and one that is nil.
SupportedLevels(reasoning, mapped) ==
    IF ~reasoning THEN {"off"}
    ELSE {l \in ToSet(Levels) : mapped[l] # "refused" /\ (l = "xhigh" => mapped[l] # "absent")}

\* clampThinkingLevel: the level itself, the next higher that is supported, or the
\* next lower.
ClampLevel(reasoning, mapped, level) ==
    LET supported == SupportedLevels(reasoning, mapped)
        at == SelectInSeq(Levels, LAMBDA l : l = level)
        higher == {i \in DOMAIN Levels : i >= at /\ Levels[i] \in supported}
        lower == {i \in DOMAIN Levels : i < at /\ Levels[i] \in supported} IN
    IF higher # {} THEN Levels[CHOOSE i \in higher : \A j \in higher : i <= j]
    ELSE IF lower # {} THEN Levels[CHOOSE i \in lower : \A j \in lower : j <= i]
    ELSE "off"

-------------------------------------------------------------------------------
(* The conversations requests are made of: the agent loop (agentloop/loop.go)   *)
(* stores prompts, answers of the model in use at the time, and the results of  *)
(* their calls in order, and may be cut short after any message.                *)

WireInit == history = <<>>

HasRoom == Len(history) < MaxMessages
Store(m) == history' = Append(history, m)

\* The calls of the last answer that have no result yet.
Unanswered ==
    LET answers == {i \in DOMAIN history : history[i].role = "assistant"}
        last == CHOOSE i \in answers : \A j \in answers : j <= i
        calls == OfType(history[last].content, "toolCall") IN
    IF answers = {} \/ history[last].stop \in {"error", "aborted"}
       \/ \E j \in last..Len(history) : history[j].role = "user"
    THEN <<>>
    ELSE SubSeq(calls, Len(history) - last + 1, Len(calls))

UserPrompts ==
    /\ HasRoom
    /\ \E content \in {<<TextBlock("words")>>, <<TextBlock("blank")>>,
                       <<ImageBlock, ImageBlock, TextBlock("words")>>, <<ImageBlock>>} :
          Store(UserMessage(content))

\* The id a model's service gives its call number n of a conversation.
GivenCall(model, n) ==
    [call |-> IF model.api = "completions" THEN <<"c", "?", ToString(n)>>
              ELSE <<"c", ToString(n)>>,
     item |-> IF model.api \in {"responses", "codex"} THEN <<"fc", ToString(n)>> ELSE <<>>]

\* What a model may answer; the signature is what its service signs thinking with.
Answers(model, n) ==
    LET signature == CASE model.api = "anthropic" -> "opaque"
                       [] model.api = "completions" -> "opaque"
                       [] OTHER -> "item"
        call(k) == ToolCallBlock(GivenCall(model, 10 * n + k)) IN
    {<<>>, <<TextBlock("words")>>, <<TextBlock("blank"), call(1)>>,
     <<ThinkingBlock("words", signature, FALSE), TextBlock("words"), call(1), call(2)>>,
     <<ThinkingBlock("words", "none", FALSE)>>}
    \cup IF model.api # "anthropic" THEN {}
         ELSE {<<ThinkingBlock("words", signature, TRUE), call(1)>>}

ModelAnswers ==
    /\ HasRoom
    /\ history # <<>>
    /\ Last(history).role # "assistant"
    /\ Unanswered = <<>>
    /\ \E name \in DOMAIN Catalogue, stop \in {"stop", "error"} :
         \E content \in Answers(Catalogue[name], Len(history)) :
            Store(AssistantMessage(name, content,
                      IF stop = "stop" /\ OfType(content, "toolCall") # <<>>
                      THEN "toolUse" ELSE stop))

ToolAnswers ==
    /\ HasRoom
    /\ Unanswered # <<>>
    /\ \E content \in {<<TextBlock("words")>>, <<ImageBlock>>} :
          Store(ResultMessage(Unanswered[1].id, content))

WireNext == UserPrompts \/ ModelAnswers \/ ToolAnswers

WireSpec == WireInit /\ [][WireNext]_wireVars

-------------------------------------------------------------------------------
(* Properties, of the request to any model for the conversation so far.         *)

\* The history is a sequence of messages, no longer than its bound.
WireTypeOK ==
    /\ Len(history) <= MaxMessages
    /\ \A i \in DOMAIN history :
          history[i].role \in {"user", "assistant", "toolResult"}

CallIds(wire, type) == {wire[i].id : i \in {j \in DOMAIN wire : wire[j].type = type}}

\* Every service refuses a call without its result, a result without its call, and
\* results elsewhere than right after the calls. Whatever model answered, whatever
\* ids it gave, and wherever the run was cut, the request pairs them.
AnthropicPaired ==
    \A name \in DOMAIN Catalogue : LET model == Catalogue[name] IN
      model.api = "anthropic" =>
        LET wire == AnthropicRequest(history, model, Catalogue)
            results(i) == CallIds(wire[i].blocks, "tool_result")
            calls(i) == CallIds(wire[i].blocks, "tool_use") IN
        \A i \in DOMAIN wire :
          /\ wire[i].blocks # <<>>
          /\ calls(i) # {} => i < Len(wire) /\ results(i + 1) = calls(i)
          /\ results(i) # {} => i > 1 /\ calls(i - 1) = results(i)
          /\ \A j \in DOMAIN wire[i].blocks : wire[i].blocks[j].type = "tool_result" =>
                \A k \in 1..(j - 1) : wire[i].blocks[k].type = "tool_result"
          /\ \A id \in calls(i) : "?" \notin ToSet(id.call) /\ id.item = <<>>

ResponsesPaired ==
    \A name \in DOMAIN Catalogue : LET model == Catalogue[name] IN
      model.api \in {"responses", "codex"} =>
        LET wire == ResponsesRequest(history, model, Catalogue)
            Calls == {i \in DOMAIN wire : wire[i].type = "function_call"}
            Outputs == {i \in DOMAIN wire : wire[i].type = "function_call_output"} IN
        /\ \A i \in Calls : \E o \in Outputs :
              /\ o > i /\ wire[o].id.call = wire[i].id.call
              /\ \A j \in i..o : wire[j].type \in {"function_call", "function_call_output"}
        /\ \A o \in Outputs : \E i \in Calls : i < o /\ wire[o].id.call = wire[i].id.call
        /\ \A o, p \in Outputs : wire[o].id = wire[p].id => o = p

ChatPaired ==
    \A name \in DOMAIN Catalogue : LET model == Catalogue[name] IN
      model.api = "completions" =>
        LET wire == ChatRequest(history, model, Catalogue) IN
        \A i \in DOMAIN wire :
          /\ \A c \in DOMAIN wire[i].calls :
                i + c <= Len(wire) /\ wire[i + c].role = "tool"
                /\ wire[i + c].id = wire[i].calls[c]
          /\ wire[i].role = "tool" =>
                \E a \in 1..(i - 1) : i - a \in DOMAIN wire[a].calls
          /\ wire[i].role = "user" /\ i > 1 /\ model.answerAfterResults =>
                wire[i - 1].role # "tool"

\* A model is never sent the thinking of another one, nor an item id that another
\* model of the same service made: the services verify both and refuse.
OwnThinkingOnly ==
    \A name \in DOMAIN Catalogue : LET model == Catalogue[name] IN
      LET clean == TransformMessages(history, model, Catalogue) IN
      \A i \in DOMAIN clean : clean[i].role = "assistant" =>
        \A b \in ToSet(clean[i].content) :
          ~SameModel(model, Catalogue[clean[i].model]) =>
            /\ b.type # "thinking"
            /\ b.type = "toolCall" /\ model.api \in {"responses", "codex"} =>
                  ItemOf(b.id, model, Catalogue[clean[i].model]) = <<>>
                  \/ Catalogue[clean[i].model].provider # model.provider

\* Thinking is part of an answer: its budget leaves room for one, also where the model
\* or the caller allow less than both need, and the model's limit is kept.
ThinkingFits ==
    \A base, limit \in {0, 500, 4096, 20000, 64000}, level \in DOMAIN DefaultBudget :
        LET adjusted == AdjustMaxTokens(base, limit, DefaultBudget[level]) IN
        /\ 0 <= adjusted.budget /\ adjusted.budget < adjusted.max
        /\ limit > 0 => adjusted.max <= limit

\* transform.go and the message builders of the services: what they would refuse is
\* never sent, whichever models the conversation was held with.
RequestAcceptable ==
    history # <<>> =>
        AnthropicPaired /\ ResponsesPaired /\ ChatPaired /\ OwnThinkingOnly /\ ThinkingFits
===============================================================================
