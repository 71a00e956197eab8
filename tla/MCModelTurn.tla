------------------------------ MODULE MCModelTurn ------------------------------
(* Instances for TLC of a turn of a model: the agent loop, the hooks that are     *)
(* asked on the way, the request that is made of the messages it sends, and the   *)
(* decoder of the answer it gets. The loop has its own abstraction of the others, *)
(* so a behaviour of this module is one of a single part.                         *)
EXTENDS MCAgentLoop, AnswerStream, WireMessages, HookChains

\* "turn_end" is an event of which nothing is asked; the chains of extensions' other
\* events are like one of these.
FollowedEvents ==
    {"tool_call", "tool_result", "before_agent_start", "context", "input",
     "before_provider_request", "before_provider_payload", "message_end",
     "session_before", "user_bash", "turn_end"}

\* Services that sign thinking, a model that sees no images, and one that signs
\* nothing and has the compatibility switches of chat completions
Model(name, provider, apiName, images, flag) ==
    [name |-> name, provider |-> provider, api |-> apiName, images |-> images, reasoning |-> TRUE,
     thinkingAsText |-> flag, answerAfterResults |-> flag]
FiveModels ==
    [m \in {"claude", "gpt", "mini", "codex", "other"} |->
        CASE m = "claude" -> Model(m, "anthropic", "anthropic", TRUE, FALSE)
          [] m = "gpt" -> Model(m, "openai", "responses", TRUE, FALSE)
          [] m = "mini" -> Model(m, "openai", "responses", FALSE, FALSE)
          [] m = "codex" -> Model(m, "openai-codex", "codex", TRUE, FALSE)
          [] m = "other" -> Model(m, "zai", "completions", TRUE, TRUE)]

\* Bound: the longest conversations begin with words.
LongOnesPlain == Len(history') = MaxMessages => history'[1].content = <<TextBlock("words")>>

VARIABLE part

turnVars == <<vars, answerVars, wireVars, hookVars, part>>

TurnInit ==
    /\ part \in {"loop", "decoder", "request", "hooks"}
    /\ Init /\ AnswerInit /\ WireInit /\ HookInit
    \* where a component does not move, one of its beginnings is enough
    /\ part # "decoder" => api = "anthropic" /\ naming = "index"
    /\ part # "hooks" => chain = "context" /\ handlers = <<>>

TurnNext ==
    /\ UNCHANGED part
    /\ \/ part = "loop" /\ Next /\ UNCHANGED <<answerVars, wireVars, hookVars>>
       \/ part = "decoder" /\ AnswerNext /\ UNCHANGED <<vars, wireVars, hookVars>>
       \/ part = "request" /\ WireNext /\ LongOnesPlain /\ UNCHANGED <<vars, answerVars, hookVars>>
       \/ part = "hooks" /\ HookNext /\ UNCHANGED <<vars, answerVars, wireVars>>

\* The fairness of FairSpec, which asks nothing of the other parts: there the loop
\* is idle and no tool is running.
TurnSpec ==
    /\ TurnInit /\ [][TurnNext]_turnVars
    /\ WF_vars(LoopStep)
    /\ \A c \in 1..MaxCalls : WF_vars(ToolReturns(c))

\* Every variable of every part has its type.
TurnTypeOK ==
    /\ part = "loop" => TypeOK
    /\ part = "decoder" => AnswerTypeOK
    /\ part = "request" => WireTypeOK
    /\ part = "hooks" => HookTypeOK

\* The loop keeps the session and the events in step; what its hooks decide on the
\* way is not lost, and the extensions are told of a run what the session keeps of it.
TurnInStep == IF part = "hooks" THEN HooksHonest ELSE LoopInStep
===============================================================================
