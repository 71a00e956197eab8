------------------------------ MODULE HookChains ------------------------------
(* Extensions and shell hooks are asked in turn about an event and each may       *)
(* change what the next one sees: the registry's Emit and EmitFirst               *)
(* (internal/hook/hook.go), the chains the harness runs by hand                   *)
(* (internal/harness/prompt.go) and the orchestrator's input chain, with the      *)
(* shell hooks a hooks.json declares (internal/hook/shellhooks.go). A value is    *)
(* named by who wrote it. The chain of message_end also feeds agent_end, which    *)
(* tells the extensions the messages of the run again.                            *)
EXTENDS Integers, Sequences, FiniteSets, Functions, SequencesExt

CONSTANTS
    Chains,         \* the events followed here
    MaxHandlers,    \* handlers registered for the event (bound)
    MaxPublished    \* messages one run ends (bound)

\* There is room for an extension and the rules of a file.
ASSUME HookBounds == MaxHandlers \in Nat /\ MaxHandlers >= 3 /\ MaxPublished \in Nat

VARIABLES
    chain,      \* the event of this behaviour
    handlers,   \* Registry.handlers[chain]: how each of them was registered
    emission,   \* the emission under way, or the last one
    sink        \* eventSinkState, the session's messages and the loop's own

hookVars == <<chain, handlers, emission, sink>>

\* What of an event's result a handler can set
Fields(e) ==
    CASE e = "tool_call" -> {"input"}
      [] e = "tool_result" -> {"content", "isError", "terminate"} \* "details" goes like "content"
      [] e = "before_agent_start" -> {"systemPrompt", "messages"}
      [] e = "context" -> {"messages"}
      [] e = "input" -> {"text", "images"}
      [] e = "before_provider_request" -> {"options", "header"}
      [] e = "before_provider_payload" -> {"payload"}
      [] e = "message_end" -> {"message"}
      [] e = "session_before" -> {"override"}
      [] e = "user_bash" -> {"result"}
      [] OTHER -> {}

Collects(e, f) == e = "before_agent_start" /\ f = "messages"

\* A handler that may end the chain: a block, "handled", a cancel
MayStop(e) == e \in {"tool_call", "input", "session_before"}

\* Values: untouched, written by the i-th handler, and no value at all (a header
\* that was dropped, a payload of null). The messages of before_agent_start add up.
Original == 0
Nothing == -1
Blank(e) == [f \in Fields(e) |-> IF Collects(e, f) THEN {} ELSE Original]

(* What a handler answers: an error, no opinion, or a result, whose patch has the *)
(* fields it set.                                                                 *)
Fault == [kind |-> "error", stop |-> FALSE, fits |-> TRUE, patch |-> <<>>]
Silent == [kind |-> "nil", stop |-> FALSE, fits |-> TRUE, patch |-> <<>>]
Result(stop, fits, patch) == [kind |-> "result", stop |-> stop, fits |-> fits, patch |-> patch]
By(author, fields) == [f \in fields |-> author]

(* A shell hook: what its command printed. "set" are the fields it names, "other" *)
(* is one that another event would read; "word" is the decision, action or cancel *)
(* it gave, in the native envelope or the one of plugins.                         *)
CommandFailed == [says |-> FALSE, set |-> {}, word |-> "failed"]   \* an exit status, a timeout
Unsaid == [says |-> FALSE, set |-> {}, word |-> ""]         \* empty, "null", no envelope
Printed(set, word) == [says |-> TRUE, set |-> set, word |-> word]
Words(e) == CASE e = "input" -> {"", "handled", "transform"}
              [] e = "session_before" -> {"", "cancel"}
              [] OTHER -> {"", "allow", "block"}

IsZeroDecision(out) == out.set = {} /\ out.word = ""

\* The …ResultFrom converters
ShellPatch(e, author, out) ==
    CASE e = "tool_result" /\ out.word = "block" ->
             By(author, (out.set \cap Fields(e)) \cup {"terminate", "isError"})
      [] e = "input" ->
             IF out.word = "transform"
             THEN [f \in {"text"} \cup (out.set \cap Fields(e)) |->
                      IF f \in out.set THEN author ELSE Nothing]
             ELSE <<>>
      [] e = "before_provider_payload" ->
             [f \in {"payload"} |-> IF "payload" \in out.set THEN author ELSE Nothing]
      [] OTHER -> By(author, out.set \cap Fields(e))

\* handle, runCommand
ShellAnswer(e, author, rule, out) ==
    IF ~rule.matches \/ ~out.says \/ IsZeroDecision(out) THEN Silent
    ELSE Result(out.word \in {"block", "handled", "cancel"} /\ MayStop(e), TRUE, ShellPatch(e, author, out))

\* An extension's handler answers what it likes.
Patches(e, author) ==
    LET Sets(f) == IF f = "header" THEN {author, Nothing} ELSE {author}
    IN  {p \in UNION {[fields -> {author, Nothing}] : fields \in SUBSET Fields(e)} :
            /\ \A f \in DOMAIN p : p[f] \in Sets(f)
            /\ e = "input" /\ p # <<>> => "text" \in DOMAIN p}
ExtensionAnswers(e, author) ==
    {Fault, Silent}
    \cup {Result(stop, fits, p) :
              stop \in {s \in BOOLEAN : s => MayStop(e)}, fits \in {b \in BOOLEAN : b \/ e = "message_end"},
              p \in Patches(e, author)}
Outputs(e) == {CommandFailed, Unsaid}
              \cup {Printed(set, word) : set \in SUBSET (Fields(e) \cup {"other"}), word \in Words(e)}

-------------------------------------------------------------------------------
(* Registration                                                                 *)

Extension == [kind |-> "extension", matches |-> TRUE]
ShellRule(matches) == [kind |-> "shell", matches |-> matches]

(* LoadShellHooksData: an entry that is wrong refuses the file. The grouped form  *)
(* is a map of event names, two of which may mean this event: Go visits them in   *)
(* any order.                                                                     *)
RulesOf(file) ==
    IF file.broken THEN {<<>>}
    ELSE {file.native \o file.alias, file.alias \o file.native}
Files == [broken : BOOLEAN,
          native : {<<>>} \cup {<<ShellRule(m)>> : m \in BOOLEAN}, alias : {<<>>, <<ShellRule(TRUE)>>}]

IdleEmission == [todo |-> <<>>, of |-> 0, value |-> <<>>, changed |-> FALSE, end |-> "none",
         log |-> <<>>, seen |-> <<>>]

EmptySink == [original |-> <<>>, stored |-> <<>>, replacements |-> <<>>, told |-> <<>>, over |-> FALSE]

HookInit ==
    /\ chain \in Chains
    /\ \E file \in Files, first \in {<<>>, <<Extension>>} : \E rules \in RulesOf(file) :
           handlers = first \o rules
    /\ emission = IdleEmission
    /\ sink = EmptySink

Busy == emission.end = "asking"

\* Registry.On, also while an event is being emitted
On ==
    /\ Len(handlers) < MaxHandlers
    /\ handlers' = Append(handlers, Extension)
    /\ UNCHANGED <<chain, emission, sink>>

-------------------------------------------------------------------------------
(* One event                                                                    *)

\* Handlers: the snapshot
EmitEvent ==
    /\ IF chain = "message_end" THEN emission.end = "none" /\ ~sink.over /\ Len(sink.stored) < MaxPublished
       ELSE emission.end = "none"
    /\ emission' = [IdleEmission EXCEPT !.todo = [i \in 1..Len(handlers) |-> i], !.of = Len(handlers),
                                !.value = Blank(chain),
                                !.end = IF handlers = <<>> THEN "done" ELSE "asking"]
    /\ UNCHANGED <<chain, handlers, sink>>

\* A handler's error ends the operation (a tool call is not run, a request not
\* sent), is remembered in the message, or is only reported.
FaultEnds(e) == e \in {"tool_call", "before_provider_request", "before_provider_payload"}

\* Emit and EmitFirst hand on one handler's whole result.
KeepsOne(e) == e \in {"session_before", "user_bash"}

\* Mutant of Compose: an extension's patch starts again from the original.
ComposeAfresh(e, value, patch) ==
    [f \in Fields(e) |-> IF f \notin DOMAIN patch THEN Blank(e)[f]
                         ELSE IF Collects(e, f) THEN {patch[f]} ELSE patch[f]]

\* The value the next handler sees
Compose(e, value, patch) ==
    LET before == IF KeepsOne(e) THEN Blank(e) ELSE value
    IN  [f \in Fields(e) |-> IF f \notin DOMAIN patch THEN before[f]
                             ELSE IF Collects(e, f) THEN before[f] \cup {patch[f]} ELSE patch[f]]

EndsChain(e, answer, rest) ==
    \/ answer.stop
    \/ answer.kind = "error" /\ FaultEnds(e)
    \/ answer.kind = "result" /\ e = "user_bash"
    \/ rest = <<>>

EndOf(e, answer) == IF answer.stop THEN "stopped"
                    ELSE IF answer.kind = "error" /\ FaultEnds(e) THEN "aborted" ELSE "done"

\* A result that is used; one of message_end with another role is refused, which
\* the message remembers like an error.
Used(e, answer) == answer.kind = "result" /\ (KeepsOne(e) \/ (answer.patch # <<>> /\ answer.fits))
Remembered(e, answer) == e = "message_end" /\ (answer.kind = "error" \/ (answer.patch # <<>> /\ ~answer.fits))

\* The next handler of the snapshot answers; "said" is what it meant to set.
HandlerAnswers(answer, said) ==
    LET ends == EndsChain(chain, answer, Tail(emission.todo))
        used == Used(chain, answer)
    IN  /\ emission' = [emission EXCEPT
               !.todo = IF ends THEN <<>> ELSE Tail(@),
               !.value = IF used THEN Compose(chain, @, answer.patch) ELSE @,
               !.changed = @ \/ used \/ Remembered(chain, answer),
               !.end = IF ends THEN EndOf(chain, answer) ELSE "asking",
               !.log = Append(@, [by |-> Head(emission.todo), kind |-> answer.kind, stop |-> answer.stop,
                                  used |-> used, refused |-> Remembered(chain, answer), said |-> said]),
               !.seen = Append(@, emission.value)]
        /\ UNCHANGED <<chain, handlers, sink>>

AskExtension ==
    /\ Busy /\ handlers[Head(emission.todo)].kind = "extension"
    /\ \E answer \in ExtensionAnswers(chain, Head(emission.todo)) : HandlerAnswers(answer, answer.patch)

\* What a shell hook meant to set; a block marks the result of the tool.
Means(author, rule, out) ==
    IF ~out.says \/ ~rule.matches THEN <<>>
    ELSE By(author, {f \in Fields(chain) :
                        \/ f \in out.set /\ (chain = "input" => out.word = "transform")
                        \/ chain = "tool_result" /\ out.word = "block" /\ f \in {"isError", "terminate"}})

AskShell ==
    LET author == Head(emission.todo)
        rule == handlers[author]
    IN  /\ Busy /\ rule.kind = "shell"
        /\ \E out \in Outputs(chain) :
               HandlerAnswers(ShellAnswer(chain, author, rule, out), Means(author, rule, out))

-------------------------------------------------------------------------------
(* The messages of a run (createTrackingEventSink)                               *)

Diagnosed == \E i \in DOMAIN emission.log : emission.log[i].refused

Recorded(no, msg, final) == [index |-> no, identity |-> msg.identity, replacement |-> final]

(* recordMessageEnd and AppendMessage: a message with an identity (a response or  *)
(* call id, a pointer), which no other message of the run has, or without.        *)
MessageEnd(named) ==
    LET no == Len(sink.stored) + 1
        msg == [no |-> no, identity |-> IF named THEN no ELSE 0]
        final == [no |-> no, by |-> emission.value["message"], diagnosed |-> Diagnosed]
    IN  /\ chain = "message_end" /\ emission.end = "done"
        /\ sink' = [sink EXCEPT
               !.original = Append(@, msg),
               !.stored = Append(@, final),
               !.replacements = IF emission.changed THEN Append(@, Recorded(no, msg, final)) ELSE @]
        /\ emission' = IdleEmission
        /\ UNCHANGED <<chain, handlers>>

\* replacementForMessage: by identity, else by place
Replacing(replacements, i, msg, used) ==
    LET same == {r \in DOMAIN replacements \ used :
                    msg.identity # 0 /\ replacements[r].identity = msg.identity}
        placed == {r \in DOMAIN replacements \ used : replacements[r].index = i}
    IN  IF same # {} THEN {CHOOSE r \in same : \A q \in same : r <= q}
        ELSE IF placed # {} THEN {CHOOSE r \in placed : \A q \in placed : r <= q} ELSE {}

\* mapAgentEndMessages
Mapped(replacements, messages) ==
    LET Step(acc, i) ==
            LET hit == Replacing(replacements, i, messages[i], acc.used)
            IN  [used |-> acc.used \cup hit,
                 out |-> Append(acc.out,
                     IF hit = {} THEN [no |-> messages[i].no, by |-> Original, diagnosed |-> FALSE]
                     ELSE replacements[CHOOSE r \in hit : TRUE].replacement)]
    IN  FoldLeft(Step, [used |-> {}, out |-> <<>>], [i \in DOMAIN messages |-> i]).out

AgentEnd ==
    /\ chain = "message_end" /\ emission.end = "none" /\ ~sink.over
    /\ sink' = [sink EXCEPT !.told = Mapped(sink.replacements, sink.original), !.over = TRUE]
    /\ UNCHANGED <<chain, handlers, emission>>

HookNext ==
    \/ On \/ EmitEvent \/ AskExtension \/ AskShell
    \/ \E named \in BOOLEAN : MessageEnd(named)
    \/ AgentEnd

HookTypeOK ==
    /\ chain \in Chains /\ Len(handlers) <= MaxHandlers
    /\ emission.end \in {"none", "asking", "done", "stopped", "aborted"}
    /\ (emission.end = "asking") <=> (emission.todo # <<>>)
    /\ sink.over \in BOOLEAN /\ Len(sink.stored) <= MaxPublished

-------------------------------------------------------------------------------
(* Properties                                                                   *)

(* What the first n answers come to: of every field the last handler that meant   *)
(* to set it and was let.                                                         *)
WordOn(f, n) ==
    LET who == {i \in 1..n : emission.log[i].used /\ f \in DOMAIN emission.log[i].said}
    IN  IF Collects(chain, f) THEN {emission.log[i].by : i \in who}
        ELSE IF who = {} THEN Original
        ELSE LET last == CHOOSE i \in who : \A k \in who : k <= i IN emission.log[last].said[f]

LastUsed(n) == {i \in 1..n : emission.log[i].used /\ \A k \in i + 1 .. n : ~emission.log[k].used}

ValueAfter(value, n) ==
    \A f \in Fields(chain) :
        CASE KeepsOne(chain) ->
                 value[f] = IF \E i \in LastUsed(n) : f \in DOMAIN emission.log[i].said
                            THEN WordOn(f, n) ELSE Original
          \* a shell hook that gives any decision on a payload sets it, to null if need be
          [] chain = "before_provider_payload" ->
                 value[f] = IF \E i \in LastUsed(n) : f \notin DOMAIN emission.log[i].said
                            THEN Nothing ELSE WordOn(f, n)
          \* a transform without a text clears it
          [] chain = "input" /\ f = "text" ->
                 value[f] = IF \E i \in LastUsed(n) : f \notin DOMAIN emission.log[i].said
                            THEN Nothing ELSE WordOn(f, n)
          [] OTHER -> value[f] = WordOn(f, n)

\* hook.go:69-105, prompt.go:131-166, 382-428, 556-669, 788-844, orchestrator.go:1540-1567:
\* every handler sees what the ones before it made of the event, and the operation
\* gets what all of them made of it: none is lost, none is undone by a handler
\* without an opinion on that field, a command that failed or a rule for another tool.
WordsKept ==
    /\ \A i \in DOMAIN emission.seen : ValueAfter(emission.seen[i], i - 1)
    /\ emission.end = "done" =>
           ValueAfter(IF emission.changed THEN emission.value ELSE Blank(chain), Len(emission.log))

\* hook.go:95-98, prompt.go:591-607, orchestrator.go:1557-1559: a block, a cancel or
\* "handled" is the last word, whoever is registered behind; short of one, every
\* handler that was registered when the event came is asked, in that order, and a
\* shell hook that fails never ends the operation.
StopIsFinal ==
    LET log == emission.log IN
    /\ \A i \in DOMAIN log : log[i].by = i
    /\ \A i \in DOMAIN log : log[i].stop => i = Len(log) /\ emission.end = "stopped"
    /\ emission.end = "stopped" => log[Len(log)].stop
    /\ emission.end = "done" /\ chain # "user_bash" => Len(log) = emission.of
    /\ emission.end = "aborted" => handlers[log[Len(log)].by].kind = "extension"

\* prompt.go:300-375: what agent_end tells the extensions of a run is what the
\* session stored of it, message by message, replaced ones and diagnosed ones too.
ToldIsStored == sink.over => sink.told = sink.stored

\* The hooks' part in a run: nothing an extension decides is lost on the way.
HooksHonest == WordsKept /\ StopIsFinal /\ ToldIsStored
===============================================================================
