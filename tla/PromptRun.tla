------------------------------ MODULE PromptRun ------------------------------
(***************************************************************************)
(* One run of Orchestrator.Prompt as the RPC server calls it: the answer   *)
(* to the client, the recovery from a full context window before and after *)
(* the prompt, and the retry of transient errors.                          *)
(*                                                                         *)
(* The harness (AgentLoop) is one step that appends an answer of some kind *)
(* to the session branch, or fails.  RunControl has the exclusion between  *)
(* runs, so prompts come one after another here; meanwhile other callers   *)
(* cancel the run, abort the back-off and change the settings.             *)
(***************************************************************************)
EXTENDS Naturals, Sequences, FiniteSets

CONSTANTS
    Models,       \* models to choose from
    Model0,       \* the model at the start
    MaxRetries,   \* retry.maxRetries
    MaxPrompts,   \* bound: prompts
    MaxFlips,     \* bound: settings changed
    MaxFaults     \* bound: session writes and summaries that return an error

ASSUME ModelAssumption == Model0 \in Models
ASSUME PromptBounds == {MaxRetries, MaxPrompts, MaxFlips, MaxFaults} \subseteq Nat

\* What harness.Prompt and harness.Continue answer.  A "full" answer stopped
\* normally but used more than the context window.
Kinds == {"stop", "full", "overflow", "retryable", "fatal"}
IsError(k) == k \in {"overflow", "retryable", "fatal"}
IsContextOverflow(k) == k \in {"overflow", "full"}
IsRetryable(k) == k = "retryable"

VARIABLES
    pc,
    branch,       \* the session branch: prompts, answers and compactions
    msg,          \* the message the run has so far, "none" at first
    err,          \* promptErr # nil
    stateModel,   \* the model of the turn state
    before,       \* the recovery under way is the one before the prompt
    attempt,      \* o.retryAttempt
    attempted,    \* o.overflowRecoveryAttempted
    loopOn,       \* the retry setting as the retry loop read it
    retryAbort,   \* the channel of the retry loop
    cancelled,    \* the context of the run is cancelled
    asked,        \* prompts requested so far
    handed,       \* history: the prompts given to harness.Prompt
    handled,      \* the input hook consumed the prompt
    responses,    \* the answers to the request
    events,       \* what the run has published
    retryOn,      \* the retry setting
    compactionOn, \* o.autoCompactionEnabled
    model,        \* o.model
    flips,        \* settings changed
    faults        \* writes and summaries that failed

vars == <<pc, branch, msg, err, stateModel, before, attempt, attempted, loopOn, retryAbort,
          cancelled, asked, handed, handled, responses, events, retryOn, compactionOn, model,
          flips, faults>>

settings == <<retryOn, compactionOn, model, flips>>
request == <<asked, handed, handled, responses>>
recovery == <<before, attempted>>
retry == <<attempt, loopOn, retryAbort>>

PromptItem(n) == [item |-> "prompt", n |-> n]
AnswerItem(k, m) == [item |-> "answer", kind |-> k, model |-> m]
CompactionItem == [item |-> "compaction"]

Event(type) == [type |-> type]
AgentEnd(w) == [type |-> "agent_end", willRetry |-> w]
RetryStart(n) == [type |-> "auto_retry_start", attempt |-> n]
RetryEnd(n, ok) == [type |-> "auto_retry_end", attempt |-> n, success |-> ok]

Init ==
    /\ pc = "idle"
    /\ branch = <<>>
    /\ msg = "none"
    /\ err = FALSE
    /\ stateModel = Model0
    /\ before = FALSE
    /\ attempt = 0
    /\ attempted = FALSE
    /\ loopOn = FALSE
    /\ retryAbort = "none"
    /\ cancelled = FALSE
    /\ asked = 0
    /\ handed = {}
    /\ handled = FALSE
    /\ responses = <<>>
    /\ events = <<>>
    /\ retryOn \in BOOLEAN
    /\ compactionOn \in BOOLEAN
    /\ model = Model0
    /\ flips = 0
    /\ faults = 0

Goto(l) == pc' = l
Publish(es) == events' = events \o es

\* A call that fails by itself, and one that fails under a cancelled context.
Fault == faults < MaxFaults /\ faults' = faults + 1
Fails == IF cancelled THEN UNCHANGED faults ELSE Fault
Succeeds == ~cancelled /\ UNCHANGED faults
-----------------------------------------------------------------------------
(* The prompt.                                                             *)

\* Mutant of Prompt: the count of the previous prompt's retries stays.
PromptKeepsAttempt ==
    /\ pc = "idle" /\ asked < MaxPrompts
    /\ Goto("input")
    /\ asked' = asked + 1
    /\ stateModel' = model
    /\ attempted' = FALSE
    /\ cancelled' = FALSE
    /\ msg' = "none"
    /\ err' = FALSE
    /\ handled' = FALSE
    /\ responses' = <<>>
    /\ events' = <<>>
    /\ UNCHANGED <<branch, before, retry, handed, settings, faults>>

\* beginRun, and the reset of what the previous prompt left.
Prompt ==
    /\ pc = "idle" /\ asked < MaxPrompts
    /\ Goto("input")
    /\ asked' = asked + 1
    /\ stateModel' = model
    /\ attempted' = FALSE
    /\ attempt' = 0
    /\ cancelled' = FALSE
    /\ msg' = "none"
    /\ err' = FALSE
    /\ handled' = FALSE
    /\ responses' = <<>>
    /\ events' = <<>>
    /\ UNCHANGED <<branch, before, loopOn, retryAbort, handed, settings, faults>>

\* The input hook may consume the prompt, which accepts it.
EmitInput ==
    /\ pc = "input"
    /\ \/ /\ Goto("recover")
          /\ before' = TRUE
          /\ UNCHANGED <<handled, responses>>
       \/ /\ Goto("retry_check")
          /\ handled' = TRUE
          /\ responses' = Append(responses, "success")
          /\ UNCHANGED before
    /\ UNCHANGED <<branch, msg, err, stateModel, attempted, retry, cancelled, asked, handed,
                   events, settings, faults>>

\* Mutant of Accept: the client is not told.
AcceptSilently ==
    /\ pc = "accept"
    /\ Goto("prompting")
    /\ handed' = handed \cup {asked}
    /\ UNCHANGED <<branch, msg, err, stateModel, recovery, retry, cancelled, asked, handled,
                   responses, events, settings, faults>>

\* firePreflight: the client is told that its prompt is accepted.
Accept ==
    /\ pc = "accept"
    /\ Goto("prompting")
    /\ responses' = Append(responses, "success")
    /\ handed' = handed \cup {asked}
    /\ UNCHANGED <<branch, msg, err, stateModel, recovery, retry, cancelled, asked, handled,
                   events, settings, faults>>

\* The answer of a run of the harness, whose agent_end says whether a retry
\* follows.  It is given by the model of the turn state or, after a turn of
\* tool calls, by the one chosen meanwhile.
Answered(added, k) ==
    /\ \E m \in {stateModel, model} : branch' = branch \o added \o <<AnswerItem(k, m)>>
    /\ Publish(<<AgentEnd(retryOn /\ attempt < MaxRetries /\ IsRetryable(k))>>)
    /\ msg' = k

\* harness.Prompt returns an answer.
PromptReturns ==
    /\ pc = "prompting" /\ Succeeds
    /\ \E k \in Kinds : Answered(<<PromptItem(asked)>>, k)
    /\ Goto("recover")
    /\ before' = FALSE
    /\ UNCHANGED <<err, stateModel, attempted, retry, cancelled, request, settings>>

\* What a run that returns an error has left on the branch: nothing, or the
\* answer of a turn of tool calls, or the report of its failure.
LeftOver == {<<>>} \cup {<<AnswerItem(k, stateModel)>> : k \in {"stop", "retryable", "fatal"}}

\* ... or an error, with the prompt stored or not, and no message.
PromptFails ==
    /\ pc = "prompting" /\ Fails
    /\ \/ UNCHANGED branch
       \/ \E left \in LeftOver : branch' = branch \o <<PromptItem(asked)>> \o left
    /\ msg' = "none"
    /\ err' = TRUE
    /\ Goto("retry_check")
    /\ UNCHANGED <<stateModel, recovery, retry, cancelled, request, events, settings>>
-----------------------------------------------------------------------------
(* Recovery from an overflow, before the prompt and after its answer.      *)

Answers == {i \in DOMAIN branch : branch[i].item = "answer"}
LastAnswer == CHOOSE i \in Answers : \A j \in Answers : j <= i

\* What recoverContextOverflow asks before it recovers.  An answer older than
\* the last compaction stands before it on the branch.
MayRecover ==
    /\ Answers # {}
    /\ IsContextOverflow(branch[LastAnswer].kind)
    /\ compactionOn
    /\ branch[LastAnswer].model = stateModel
    /\ model = stateModel
    /\ \A i \in DOMAIN branch : branch[i].item = "compaction" => i < LastAnswer

\* Where the run goes on: to the prompt, or on with its answer.
AfterRecovery == IF before THEN "accept" ELSE "retry_check"

\* Nothing to recover.
NoRecovery ==
    /\ pc = "recover" /\ ~MayRecover
    /\ Goto(AfterRecovery)
    /\ attempted' = (attempted /\ (Answers = {} \/ IsError(branch[LastAnswer].kind)
                                   \/ IsContextOverflow(branch[LastAnswer].kind)))
    /\ UNCHANGED <<branch, msg, err, stateModel, before, retry, cancelled, request, events,
                   settings, faults>>

\* (A second recovery would be refused: RecoveryNotRefused.)
\* The overflowing answer is taken off the branch; it stays the message of the
\* run while the compaction may fail.  A failed write has moved the leaf.
RecoveryMoves ==
    /\ pc = "recover" /\ MayRecover /\ ~attempted
    /\ attempted' = TRUE
    /\ msg' = branch[LastAnswer].kind
    /\ \/ /\ Succeeds
          /\ branch' = SubSeq(branch, 1, LastAnswer - 1)
          /\ Publish(<<Event("compaction_start")>>)
          /\ Goto("compacting")
          /\ UNCHANGED err
       \/ /\ Fails
          /\ branch' = IF cancelled THEN branch ELSE SubSeq(branch, 1, LastAnswer - 1)
          /\ Publish(<<Event("compaction_start"), Event("compaction_end")>>)
          /\ err' = TRUE
          /\ Goto("retry_check")
    /\ UNCHANGED <<stateModel, before, retry, cancelled, request, settings>>

\* harness.Compact.
RecoveryCompacts ==
    /\ pc = "compacting"
    /\ Publish(<<Event("compaction_end")>>)
    /\ \/ /\ Succeeds
          /\ branch' = Append(branch, CompactionItem)
          /\ Goto("recovering")
          /\ UNCHANGED err
       \/ /\ Fails
          /\ err' = TRUE
          /\ Goto("retry_check")
          /\ UNCHANGED branch
    /\ UNCHANGED <<msg, stateModel, recovery, retry, cancelled, request, settings>>

\* Mutant of RecoveryContinues: the flag is not reset by a success.
RecoveryContinuesOnce ==
    /\ pc = "recovering" /\ Succeeds
    /\ \E k \in Kinds :
        /\ Answered(<<>>, k)
        /\ err' = (k # "stop")
        /\ Goto(IF k = "stop" THEN AfterRecovery ELSE "retry_check")
    /\ UNCHANGED <<stateModel, before, attempted, retry, cancelled, request, settings>>

\* harness.Continue, whose answer must neither overflow nor fail.
RecoveryContinues ==
    /\ pc = "recovering" /\ Succeeds
    /\ \E k \in Kinds :
        /\ Answered(<<>>, k)
        /\ attempted' = (k # "stop")
        /\ err' = (k # "stop")
        /\ Goto(IF k = "stop" THEN AfterRecovery ELSE "retry_check")
    /\ UNCHANGED <<stateModel, before, retry, cancelled, request, settings>>

RecoveryFails ==
    /\ pc = "recovering" /\ Fails
    /\ \E left \in LeftOver : branch' = branch \o left
    /\ msg' = "none"
    /\ err' = TRUE
    /\ Goto("retry_check")
    /\ UNCHANGED <<stateModel, recovery, retry, cancelled, request, events, settings>>
-----------------------------------------------------------------------------
(* Retry of a transient error.                                             *)

\* Mutant of IsRetryableHere: an overflow is taken for a transient error.
IsErrorHere == msg \in {"retryable", "overflow"}

\* The message of the run is retryable.
IsRetryableHere == IsRetryable(msg)

\* retryTransientError opens the channel for AbortRetry and reads the settings.
\* Without a retryable error the run is over.
RetryCheck ==
    /\ pc = "retry_check"
    /\ IF IsRetryableHere
       THEN /\ Goto("retry_loop")
            /\ retryAbort' = "open"
            /\ loopOn' = retryOn
            /\ UNCHANGED attempt
       ELSE /\ Goto("settling")
            /\ attempt' = IF err \/ IsError(msg) THEN attempt ELSE 0
            /\ UNCHANGED <<loopOn, retryAbort>>
    /\ UNCHANGED <<branch, msg, err, stateModel, recovery, cancelled, request, events,
                   settings, faults>>

\* Mutant of LeaveRetry: the channel is not cleared.
LeaveRetryOpen(e) ==
    /\ Goto("settling")
    /\ err' = e
    /\ UNCHANGED <<retryAbort, loopOn>>

\* The way out of the retry loop: its error takes the place of the prompt's.
LeaveRetry(e) ==
    /\ Goto("settling")
    /\ err' = e
    /\ retryAbort' = "none"
    /\ UNCHANGED loopOn

\* auto_retry_start, then the back-off.
RetryAgain ==
    /\ pc = "retry_loop"
    /\ loopOn /\ IsRetryableHere /\ attempt < MaxRetries
    /\ attempt' = attempt + 1
    /\ Publish(<<RetryStart(attempt + 1)>>)
    /\ Goto("waiting")
    /\ UNCHANGED <<branch, msg, err, stateModel, recovery, loopOn, retryAbort, cancelled,
                   request, settings, faults>>

\* Mutant of RetryGivesUp: an error of another kind does not end the loop.
RetryGivesUpLate ==
    /\ pc = "retry_loop"
    /\ ~loopOn \/ attempt >= MaxRetries
    /\ Publish(IF IsError(msg) /\ attempt > 0 THEN <<RetryEnd(attempt, FALSE)>> ELSE <<>>)
    /\ attempt' = IF IsError(msg) THEN 0 ELSE attempt
    /\ LeaveRetry(FALSE)
    /\ UNCHANGED <<branch, msg, stateModel, recovery, cancelled, request, settings, faults>>

\* No attempt is left, or the error is of another kind now.
RetryGivesUp ==
    /\ pc = "retry_loop"
    /\ ~(loopOn /\ IsRetryableHere /\ attempt < MaxRetries)
    /\ Publish(IF IsError(msg) /\ attempt > 0 THEN <<RetryEnd(attempt, FALSE)>> ELSE <<>>)
    /\ attempt' = IF IsError(msg) THEN 0 ELSE attempt
    /\ LeaveRetry(FALSE)
    /\ UNCHANGED <<branch, msg, stateModel, recovery, cancelled, request, settings, faults>>

\* waitRetryBackoff looks at both channels before it sleeps, and then for the
\* first of them or the timer.
BackoffCancelled ==
    /\ pc \in {"waiting", "sleeping"} /\ cancelled
    /\ attempt' = 0
    /\ LeaveRetry(TRUE)
    /\ UNCHANGED <<branch, msg, stateModel, recovery, cancelled, request, events, settings,
                   faults>>

BackoffAborted ==
    /\ pc \in {"waiting", "sleeping"} /\ ~cancelled /\ retryAbort = "closed"
    /\ Publish(<<RetryEnd(attempt, FALSE)>>)
    /\ attempt' = 0
    /\ LeaveRetry(FALSE)
    /\ UNCHANGED <<branch, msg, stateModel, recovery, cancelled, request, settings, faults>>

Sleep ==
    /\ pc = "waiting" /\ ~cancelled /\ retryAbort = "open"
    /\ Goto("sleeping")
    /\ UNCHANGED <<branch, msg, err, stateModel, recovery, retry, cancelled, request, events,
                   settings, faults>>

BackoffElapses ==
    /\ pc = "sleeping"
    /\ Goto("rewinding")
    /\ UNCHANGED <<branch, msg, err, stateModel, recovery, retry, cancelled, request, events,
                   settings, faults>>

\* Mutant of RewindTo: the parent of the parent.
RewindToGrandparent == IF LastAnswer < 2 THEN 0 ELSE LastAnswer - 2

\* Mutant of RewindTo: the answer itself.
RewindNowhere == LastAnswer

\* The failed answer's parent becomes the leaf.
RewindTo == LastAnswer - 1

\* prepareRetryAssistant.  A failed write has moved the leaf; the error leaves
\* the loop without auto_retry_end.
Rewind ==
    /\ pc = "rewinding"
    /\ \/ /\ Succeeds
          /\ branch' = SubSeq(branch, 1, RewindTo)
          /\ Goto("retrying")
          /\ UNCHANGED <<err, retryAbort, loopOn>>
       \/ /\ Fails
          /\ branch' = IF cancelled THEN branch ELSE SubSeq(branch, 1, RewindTo)
          /\ LeaveRetry(TRUE)
    /\ UNCHANGED <<msg, stateModel, recovery, attempt, cancelled, request, events, settings>>

\* harness.Continue answers an error: round again.  Its other answers end the
\* loop.
RetryReturns ==
    /\ pc = "retrying" /\ Succeeds
    /\ \E k \in Kinds :
        /\ \E m \in {stateModel, model} : branch' = Append(branch, AnswerItem(k, m))
        /\ msg' = k
        /\ LET w == AgentEnd(retryOn /\ attempt < MaxRetries /\ IsRetryable(k))
           IN  \/ /\ IsError(k)
                  /\ Publish(<<w>>)
                  /\ Goto("retry_loop")
                  /\ UNCHANGED <<attempt, err, retryAbort, loopOn>>
               \/ /\ ~IsError(k)
                  /\ Publish(<<w, RetryEnd(attempt, TRUE)>>)
                  /\ attempt' = 0
                  /\ LeaveRetry(FALSE)
    /\ UNCHANGED <<stateModel, recovery, cancelled, request, settings>>

RetryFails ==
    /\ pc = "retrying" /\ Fails
    /\ \E left \in LeftOver : branch' = branch \o left
    /\ msg' = "none"
    /\ LeaveRetry(TRUE)
    /\ UNCHANGED <<stateModel, recovery, attempt, cancelled, request, events, settings>>
-----------------------------------------------------------------------------
\* Prompt returns, with an error of the last flush too; handlePrompt answers
\* with a failure unless it has answered.
Return ==
    /\ pc = "settling"
    /\ Goto("idle")
    /\ \/ err' = err /\ UNCHANGED faults
       \/ err' = TRUE /\ Fault
    /\ responses' = IF err' /\ responses = <<>> THEN Append(responses, "failure") ELSE responses
    /\ UNCHANGED <<branch, msg, stateModel, recovery, retry, cancelled, asked, handed, handled,
                   events, settings>>

Running == pc # "idle"

Cancel ==
    /\ Running /\ ~cancelled
    /\ cancelled' = TRUE
    /\ UNCHANGED <<pc, branch, msg, err, stateModel, recovery, retry, request, events, settings,
                   faults>>

\* AbortRetry closes the channel of the retry loop, if one is there.
AbortRetry ==
    /\ retryAbort = "open"
    /\ retryAbort' = "closed"
    /\ UNCHANGED <<pc, branch, msg, err, stateModel, recovery, attempt, loopOn, cancelled,
                   request, events, settings, faults>>

Flip == flips < MaxFlips /\ flips' = flips + 1
unset == <<pc, branch, msg, err, stateModel, recovery, retry, cancelled, request, events, faults>>

SetAutoRetry == Flip /\ retryOn' = ~retryOn /\ UNCHANGED <<compactionOn, model, unset>>
SetAutoCompaction == Flip /\ compactionOn' = ~compactionOn /\ UNCHANGED <<retryOn, model, unset>>
SetModel == Flip /\ model' \in Models \ {model} /\ UNCHANGED <<retryOn, compactionOn, unset>>

RunStep ==
    \/ EmitInput \/ Accept \/ PromptReturns \/ PromptFails
    \/ NoRecovery \/ RecoveryMoves \/ RecoveryCompacts
    \/ RecoveryContinues \/ RecoveryFails
    \/ RetryCheck \/ RetryAgain \/ RetryGivesUp
    \/ BackoffCancelled \/ BackoffAborted \/ Sleep \/ BackoffElapses
    \/ Rewind \/ RetryReturns \/ RetryFails
    \/ Return

Next ==
    \/ Prompt \/ Cancel \/ AbortRetry \/ SetAutoRetry \/ SetAutoCompaction \/ SetModel
    \/ RunStep

Spec == Init /\ [][Next]_vars

\* The goroutine of the run is scheduled; streams, summaries and the timer of
\* the back-off end.
FairSpec == Spec /\ WF_vars(RunStep)
-----------------------------------------------------------------------------
(* Properties.                                                             *)

Items ==
    [item : {"prompt"}, n : 1..MaxPrompts]
    \cup [item : {"answer"}, kind : Kinds, model : Models]
    \cup {CompactionItem}

\* The variables keep their types; the retry count keeps to its limit and the
\* channel is there exactly while the retry loop runs.
TypeOK ==
    /\ {branch[i] : i \in DOMAIN branch} \subseteq Items
    /\ msg \in Kinds \cup {"none"}
    /\ {err, before, attempted, loopOn, cancelled, handled, retryOn, compactionOn} \subseteq BOOLEAN
    /\ {model, stateModel} \subseteq Models
    /\ attempt \in 0..MaxRetries
    /\ retryAbort \in {"none", "open", "closed"}
    /\ retryAbort # "none" <=>
           pc \in {"retry_loop", "waiting", "sleeping", "rewinding", "retrying"}
    /\ handed \subseteq 1..asked
    /\ {responses[i] : i \in DOMAIN responses} \subseteq {"success", "failure"}

\* A request gets one answer at most, and what it says is true: after a success
\* the prompt has been run or consumed, after a failure it never reaches the
\* harness, so a client may send it again.
AnswerTellsTruth ==
    /\ Len(responses) <= 1
    /\ asked \in handed => responses = <<"success">>
    /\ responses = <<"failure">> => asked \notin handed /\ ~handled
    /\ pc = "idle" /\ responses = <<"success">> => asked \in handed \/ handled

\* "If preflight fails the prompt returns an error and we emit it"
\* (mode/rpc/server.go:336-338): a request is answered by the time its prompt
\* has returned.  A retry that follows a failed recovery before the prompt
\* clears the error, so this does not hold.
RequestAnswered == pc = "idle" /\ asked > 0 => responses # <<>>

Stored(n) == \E i \in DOMAIN branch : branch[i] = PromptItem(n)

\* An answer, its own or a later one, stands after the prompt.
HasAnswer(n) == \E i, j \in DOMAIN branch :
    i < j /\ branch[i] = PromptItem(n) /\ branch[j].item = "answer"

\* Rewinding, for a retry or a recovery, takes neither the prompt that is run
\* nor one with an answer off the branch.  (It may take one that was cancelled
\* before its answer: the recovery before a prompt goes back to the last
\* answer, whatever has been stored since.)
PromptKept ==
    [][\A n \in 1..asked :
        Stored(n) /\ (HasAnswer(n) \/ n = asked) => Stored(n)']_vars

\* Retries and recoveries replace the answer they repeat: between two prompts
\* the branch has one answer at most, so the model never reads a failed or
\* overflowing answer along with the one that replaced it.
OneAnswerEach ==
    \A i, j \in Answers :
        i < j => \E p \in (i + 1)..(j - 1) : branch[p].item = "prompt"

\* The retries announced among the first i events of s.
Starts(s, i) == {j \in 1..i : s[j].type = "auto_retry_start"}
IsRetryEvent(e) == e.type \in {"auto_retry_start", "auto_retry_end"}

\* A client can follow the retries of a prompt: they are numbered from one to
\* the limit at most, an end bears the number of the last start and nothing
\* comes after it, and without a cancellation or a fault there is an end.
RetriesNumbered ==
    /\ \A i \in DOMAIN events : IsRetryEvent(events[i]) =>
        /\ events[i].attempt = Cardinality(Starts(events, i))
        /\ events[i].attempt \in 1..MaxRetries
        /\ events[i].type = "auto_retry_end" =>
            \A j \in (i + 1)..Len(events) : ~IsRetryEvent(events[j])
    /\ pc = "idle" /\ ~cancelled /\ faults = 0 /\ Starts(events, Len(events)) # {} =>
        \E i \in DOMAIN events : events[i].type = "auto_retry_end"

\* agent_end foretells the retry: while nobody changes the settings, cancels or
\* disturbs a write, it says willRetry exactly when auto_retry_start follows.
\* (The one is computed inside the harness run, the other after it.)
WillRetryComesTrue ==
    pc = "idle" /\ flips = 0 /\ faults = 0 /\ ~cancelled =>
        \A i \in DOMAIN events :
            events[i].type = "agent_end" =>
                (events[i].willRetry <=>
                    i < Len(events) /\ events[i + 1].type = "auto_retry_start")

\* A client can believe what it is told of the retries of a prompt.
RetriesAnnounced == RetriesNumbered /\ WillRetryComesTrue

\* The flag against a second recovery never stops a first one: neither the
\* recovery after the answer because of the one before the prompt, nor a
\* later prompt because of a recovery that failed.
RecoveryNotRefused == pc = "recover" => ~attempted

\* Every prompt returns: retries are bounded whatever the provider answers, and
\* neither loop waits for a channel nobody closes.
PromptsReturn == Running ~> ~Running
=============================================================================
