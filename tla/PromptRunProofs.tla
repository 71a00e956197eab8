--------------------------- MODULE PromptRunProofs ---------------------------
(***************************************************************************)
(* Theorems of PromptRun for any models, any limit of retries and any      *)
(* bounds: what the client is told, the recovery flag, the types, what a   *)
(* rewind leaves on the branch, and what is announced of the retries.      *)
(***************************************************************************)
EXTENDS PromptRun, NaturalsInduction, WellFoundedInduction, SequenceTheorems, FiniteSetTheorems, TLAPS

(***************************************************************************)
(* What the client is told does not depend on the branch or on the events, *)
(* so its invariant speaks of the request alone and of where the run       *)
(* stands: until "accept" nothing has been answered, from there on the     *)
(* prompt is the harness's and the answer is given.                        *)
(***************************************************************************)

\* The run has not come to "accept": it is at its input, or in the recovery
\* before the prompt.
Undecided ==
    \/ pc \in {"input", "accept"}
    \/ pc \in {"recover", "compacting", "recovering"} /\ before

\* The inductive invariant behind AnswerTellsTruth.
Answering ==
    /\ asked \in Nat
    /\ handed \subseteq 1..asked
    /\ handled \in BOOLEAN
    /\ responses \in {<<>>, <<"success">>, <<"failure">>}
    /\ responses = <<"success">> <=> (asked \in handed \/ handled)
    /\ Undecided => responses = <<>>
    /\ pc # "idle" => asked # 0 /\ responses # <<"failure">>

\* The three answers differ and are short.
LEMMA ResponsesDiffer ==
  /\ <<>> # <<"success">> /\ <<>> # <<"failure">> /\ <<"success">> # <<"failure">>
  /\ Len(<<>>) <= 1 /\ Len(<<"success">>) <= 1 /\ Len(<<"failure">>) <= 1
  /\ Append(<<>>, "failure") = <<"failure">>
  OBVIOUS

\* Nothing has been asked or answered at the start.
LEMMA AnsweringInit == Init => Answering
<1> SUFFICES ASSUME Init PROVE Answering
  OBVIOUS
<1>1. asked = 0 /\ handed = {} /\ handled = FALSE /\ responses = <<>> /\ pc = "idle"
  BY DEF Init
<1>2. ~Undecided
  BY <1>1 DEF Undecided
<1>. QED  BY <1>1, <1>2, ResponsesDiffer DEF Answering

\* An action that leaves the request alone keeps the invariant when it does
\* not lead back to where nothing is decided.
LEMMA AnsweringFrame ==
  ASSUME Answering, UNCHANGED request, Undecided' => Undecided,
         pc' # "idle" => pc # "idle"
  PROVE  Answering'
<1>1. asked' = asked /\ handed' = handed /\ handled' = handled /\ responses' = responses
  BY DEF request
<1>. QED  BY <1>1 DEF Answering

\* A new prompt has not been handed over: only smaller numbers have.
LEMMA AnsweringPrompt == Answering /\ Prompt => Answering'
<1> SUFFICES ASSUME Answering, Prompt PROVE Answering'
  OBVIOUS
<1>1. asked' = asked + 1 /\ handed' = handed /\ handled' = FALSE /\ responses' = <<>>
  BY DEF Prompt
<1>2. asked' \in Nat /\ asked' # 0 /\ handed' \subseteq 1..asked' /\ asked' \notin handed'
  BY <1>1 DEF Answering
<1>. QED  BY <1>1, <1>2 DEF Answering

\* The hook's consumption is the answer.
LEMMA AnsweringInput == Answering /\ EmitInput => Answering'
<1> SUFFICES ASSUME Answering, EmitInput PROVE Answering'
  OBVIOUS
<1>1. responses = <<>> /\ asked \notin handed /\ ~handled /\ asked # 0
  BY DEF EmitInput, Answering, Undecided
<1>2. asked' = asked /\ handed' = handed
  BY DEF EmitInput
<1>3. CASE pc' = "recover" /\ UNCHANGED <<handled, responses>>
  BY <1>1, <1>2, <1>3 DEF Answering
<1>4. CASE pc' = "retry_check" /\ handled' = TRUE /\ responses' = Append(responses, "success")
  <2>1. responses' = <<"success">>
    BY <1>1, <1>4
  <2>. QED  BY <1>1, <1>2, <1>4, <2>1 DEF Answering, Undecided
<1>. QED  BY <1>3, <1>4 DEF EmitInput, Goto

\* The prompt goes to the harness and the client is told, in one step.
LEMMA AnsweringAccept == Answering /\ Accept => Answering'
<1> SUFFICES ASSUME Answering, Accept PROVE Answering'
  OBVIOUS
<1>1. responses = <<>> /\ asked \notin handed /\ ~handled /\ asked # 0 /\ asked \in Nat
  BY DEF Accept, Answering, Undecided
<1>2. asked' = asked /\ handled' = handled /\ handed' = handed \cup {asked} /\ pc' = "prompting"
  BY DEF Accept, Goto
<1>3. responses' = <<"success">>
  BY <1>1 DEF Accept
<1>4. handed' \subseteq 1..asked'
  BY <1>1, <1>2 DEF Answering
<1>. QED  BY <1>1, <1>2, <1>3, <1>4 DEF Answering, Undecided

\* A failure is the answer only where none has been given.
LEMMA AnsweringReturn == Answering /\ Return => Answering'
<1> SUFFICES ASSUME Answering, Return PROVE Answering'
  OBVIOUS
<1>1. pc = "settling" /\ pc' = "idle" /\ asked' = asked /\ handed' = handed /\ handled' = handled
  BY DEF Return, Goto
<1>2. responses' = responses \/ (responses = <<>> /\ responses' = Append(responses, "failure"))
  BY DEF Return
<1>3. responses' = responses \/ (responses = <<>> /\ responses' = <<"failure">>)
  BY <1>2, ResponsesDiffer
<1>4. ~Undecided'
  BY <1>1 DEF Undecided
<1>5. CASE responses' = responses
  BY <1>1, <1>4, <1>5 DEF Answering
<1>6. CASE responses = <<>> /\ responses' = <<"failure">>
  <2>1. asked \notin handed /\ ~handled
    BY <1>6, ResponsesDiffer DEF Answering
  <2>2. responses' # <<"success">>
    BY <1>6, ResponsesDiffer
  <2>. QED  BY <1>1, <1>4, <1>6, <2>1, <2>2 DEF Answering
<1>. QED  BY <1>3, <1>5, <1>6

\* Nothing but a prompt leads to where nothing is decided, or away from idle:
\* the recoveries move on among themselves with before as it is, or to "accept"
\* when it holds; the retries never go back.
LEMMA NeverBack ==
  ASSUME [Next]_vars, ~Prompt
  PROVE  asked' = asked /\ (Undecided' => Undecided) /\ (pc' # "idle" => pc # "idle")
<1> DEFINE Onward == asked' = asked /\ (Undecided' => Undecided) /\ (pc' # "idle" => pc # "idle")
<1>1. ASSUME EmitInput \/ Accept PROVE Onward
  BY <1>1 DEF EmitInput, Accept, Goto, Undecided
<1>2. ASSUME PromptReturns \/ PromptFails PROVE Onward
  BY <1>2 DEF PromptReturns, PromptFails, Goto, Undecided, request
<1>3. ASSUME NoRecovery PROVE Onward
  BY <1>3 DEF NoRecovery, AfterRecovery, Goto, Undecided, request
<1>4. ASSUME RecoveryMoves \/ RecoveryFails PROVE Onward
  BY <1>4 DEF RecoveryMoves, RecoveryFails, Goto, Undecided, request
<1>5. ASSUME RecoveryCompacts PROVE Onward
  BY <1>5 DEF RecoveryCompacts, Goto, Undecided, request, recovery
<1>6. ASSUME RecoveryContinues PROVE Onward
  <2>1. pc = "recovering" /\ before' = before /\ pc' \in {AfterRecovery, "retry_check"}
    BY <1>6 DEF RecoveryContinues, Goto
  <2>. QED  BY <1>6, <2>1 DEF RecoveryContinues, AfterRecovery, Undecided, request
<1>7. ASSUME RetryCheck \/ RetryAgain \/ RetryGivesUp PROVE Onward
  BY <1>7 DEF RetryCheck, RetryAgain, RetryGivesUp, LeaveRetry, Goto, Undecided, request
<1>8. ASSUME BackoffCancelled \/ BackoffAborted \/ Sleep \/ BackoffElapses PROVE Onward
  BY <1>8 DEF BackoffCancelled, BackoffAborted, Sleep, BackoffElapses, LeaveRetry, Goto, Undecided,
     request
<1>9. ASSUME Rewind \/ RetryFails PROVE Onward
  BY <1>9 DEF Rewind, RetryFails, LeaveRetry, Goto, Undecided, request
<1>10. ASSUME RetryReturns PROVE Onward
  <2>1. pc = "retrying" /\ pc' \in {"retry_loop", "settling"}
    BY <1>10 DEF RetryReturns, LeaveRetry, Goto
  <2>. QED  BY <1>10, <2>1 DEF RetryReturns, Undecided, request
<1>11. ASSUME Return PROVE Onward
  BY <1>11 DEF Return, Goto, Undecided
<1>12. ASSUME Cancel \/ AbortRetry PROVE Onward
  BY <1>12 DEF Cancel, AbortRetry, Undecided, recovery, request
<1>13. ASSUME SetAutoRetry \/ SetAutoCompaction \/ SetModel PROVE Onward
  BY <1>13 DEF SetAutoRetry, SetAutoCompaction, SetModel, unset, Undecided, recovery, request
<1>14. ASSUME UNCHANGED vars PROVE Onward
  BY <1>14 DEF vars, Undecided
<1>. QED
  BY <1>1, <1>2, <1>3, <1>4, <1>5, <1>6, <1>7, <1>8, <1>9, <1>10, <1>11, <1>12, <1>13, <1>14
     DEF Next, RunStep

\* Only four actions touch the request; the others are framed.
LEMMA AnsweringStep == Answering /\ [Next]_vars => Answering'
<1> SUFFICES ASSUME Answering, [Next]_vars PROVE Answering'
  OBVIOUS
<1>1. CASE Prompt \/ EmitInput \/ Accept \/ Return
  BY <1>1, AnsweringPrompt, AnsweringInput, AnsweringAccept, AnsweringReturn
<1>2. CASE ~(Prompt \/ EmitInput \/ Accept \/ Return)
  <2>1. ASSUME PromptReturns \/ PromptFails \/ NoRecovery \/ RecoveryMoves \/ RecoveryCompacts
               \/ RecoveryContinues \/ RecoveryFails \/ RetryCheck \/ RetryAgain \/ RetryGivesUp
        PROVE  UNCHANGED request
    BY <2>1 DEF PromptReturns, PromptFails, NoRecovery, RecoveryMoves, RecoveryCompacts,
       RecoveryContinues, RecoveryFails, RetryCheck, RetryAgain, RetryGivesUp
  <2>2. ASSUME BackoffCancelled \/ BackoffAborted \/ Sleep \/ BackoffElapses \/ Rewind \/ RetryReturns
               \/ RetryFails \/ Cancel \/ AbortRetry \/ SetAutoRetry \/ SetAutoCompaction \/ SetModel
               \/ UNCHANGED vars
        PROVE  UNCHANGED request
    BY <2>2 DEF BackoffCancelled, BackoffAborted, Sleep, BackoffElapses, Rewind, RetryReturns,
       RetryFails, Cancel, AbortRetry, SetAutoRetry, SetAutoCompaction, SetModel, unset, vars, request
  <2>3. UNCHANGED request
    BY <1>2, <2>1, <2>2 DEF Next, RunStep
  <2>. QED  BY <1>2, <2>3, NeverBack, AnsweringFrame
<1>. QED  BY <1>1, <1>2

\* A request gets one answer at most, and it is true: a success means that the
\* prompt ran or was consumed, a failure that the harness never had it.
THEOREM AnswersTrue == Spec => []AnswerTellsTruth
<1>1. Answering => AnswerTellsTruth
  <2> SUFFICES ASSUME Answering PROVE AnswerTellsTruth
    OBVIOUS
  <2>1. Len(responses) <= 1
    BY ResponsesDiffer DEF Answering
  <2>. QED  BY <2>1, ResponsesDiffer DEF Answering, AnswerTellsTruth
<1>. QED  BY <1>1, AnsweringInit, AnsweringStep, PTL DEF Spec

(***************************************************************************)
(* The flag against a second recovery: it is down wherever a recovery may  *)
(* still come.                                                             *)
(***************************************************************************)

\* The inductive invariant behind RecoveryNotRefused.
NotYetAttempted == pc \in {"input", "recover", "accept", "prompting"} => ~attempted

\* A recovery that leads on to the prompt has taken the flag down again.
LEMMA AttemptedStep == NotYetAttempted /\ [Next]_vars => NotYetAttempted'
<1> SUFFICES ASSUME NotYetAttempted, [Next]_vars PROVE NotYetAttempted'
  OBVIOUS
<1>1. ASSUME Prompt \/ EmitInput \/ Accept PROVE NotYetAttempted'
  BY <1>1 DEF Prompt, EmitInput, Accept, Goto, NotYetAttempted, recovery
<1>2. ASSUME PromptReturns \/ PromptFails PROVE NotYetAttempted'
  BY <1>2 DEF PromptReturns, PromptFails, Goto, NotYetAttempted, recovery
<1>3. ASSUME NoRecovery PROVE NotYetAttempted'
  BY <1>3 DEF NoRecovery, NotYetAttempted
<1>4. ASSUME RecoveryMoves \/ RecoveryCompacts \/ RecoveryFails PROVE NotYetAttempted'
  BY <1>4 DEF RecoveryMoves, RecoveryCompacts, RecoveryFails, Goto, NotYetAttempted
<1>5. ASSUME RecoveryContinues PROVE NotYetAttempted'
  <2>1. PICK k \in Kinds : attempted' = (k # "stop") /\ Goto(IF k = "stop" THEN AfterRecovery ELSE "retry_check")
    BY <1>5 DEF RecoveryContinues
  <2>2. CASE k = "stop"
    BY <2>1, <2>2 DEF NotYetAttempted
  <2>3. CASE k # "stop"
    BY <2>1, <2>3 DEF NotYetAttempted, Goto
  <2>. QED  BY <2>2, <2>3
<1>6. ASSUME RetryCheck \/ RetryAgain \/ RetryGivesUp PROVE NotYetAttempted'
  BY <1>6 DEF RetryCheck, RetryAgain, RetryGivesUp, LeaveRetry, Goto, NotYetAttempted
<1>7. ASSUME BackoffCancelled \/ BackoffAborted \/ Sleep \/ BackoffElapses PROVE NotYetAttempted'
  BY <1>7 DEF BackoffCancelled, BackoffAborted, Sleep, BackoffElapses, LeaveRetry, Goto, NotYetAttempted
<1>8. ASSUME Rewind \/ RetryFails \/ Return PROVE NotYetAttempted'
  BY <1>8 DEF Rewind, RetryFails, LeaveRetry, Return, Goto, NotYetAttempted
<1>9. ASSUME RetryReturns PROVE NotYetAttempted'
  <2>1. pc' \in {"retry_loop", "settling"}
    BY <1>9 DEF RetryReturns, LeaveRetry, Goto
  <2>. QED  BY <2>1 DEF NotYetAttempted
<1>10. ASSUME Cancel \/ AbortRetry PROVE NotYetAttempted'
  BY <1>10 DEF Cancel, AbortRetry, NotYetAttempted, recovery
<1>11. ASSUME SetAutoRetry \/ SetAutoCompaction \/ SetModel PROVE NotYetAttempted'
  BY <1>11 DEF SetAutoRetry, SetAutoCompaction, SetModel, unset, NotYetAttempted, recovery
<1>12. ASSUME UNCHANGED vars PROVE NotYetAttempted'
  BY <1>12 DEF vars, NotYetAttempted
<1>. QED
  BY <1>1, <1>2, <1>3, <1>4, <1>5, <1>6, <1>7, <1>8, <1>9, <1>10, <1>11, <1>12 DEF Next, RunStep

\* No recovery is ever refused for an earlier one, whatever the model answers
\* and the settings become: the flag does not survive to the next attempt.
THEOREM RecoveriesNotRefused == Spec => []RecoveryNotRefused
<1>1. Init => NotYetAttempted
  BY DEF Init, NotYetAttempted
<1>2. NotYetAttempted => RecoveryNotRefused
  BY DEF NotYetAttempted, RecoveryNotRefused
<1>. QED  BY <1>1, <1>2, AttemptedStep, PTL DEF Spec

(***************************************************************************)
(* The branch.  A set of numbers below a bound has a greatest element:     *)
(* least elements exist by the library's theorem that < is well founded.   *)
(***************************************************************************)

\* The order of the naturals as a relation.
Below == OpToRel(<, Nat)

\* It has no infinite descent.
LEMMA BelowWellFounded == IsWellFoundedOn(Below, Nat)
  BY NatLessThanWellFounded DEF Below

\* Its pairs are the ordered ones.
LEMMA BelowOrders == \A x, y \in Nat : <<x, y>> \in Below <=> x < y
  BY DEF Below, OpToRel

\* Every set of naturals that is not empty has a least element.
LEMMA LeastExists ==
  ASSUME NEW T, T \subseteq Nat, T # {}
  PROVE  \E x \in T : \A y \in T : x <= y
<1>1. PICK x \in T : \A y \in T : ~(<<y, x>> \in Below)
  BY BelowWellFounded, WFMin
<1>2. ASSUME NEW y \in T PROVE x <= y
  <2>1. x \in Nat /\ y \in Nat
    OBVIOUS
  <2>2. ~(y < x)
    BY <2>1, <1>1, BelowOrders
  <2>. QED  BY <2>1, <2>2
<1>. QED  BY <1>2

\* ... and below a bound a greatest one.
LEMMA GreatestExists ==
  ASSUME NEW n \in Nat, NEW T, T \subseteq 1..n, T # {}
  PROVE  \E x \in T : \A y \in T : y <= x
<1> DEFINE U == {n - t : t \in T}
<1>1. U \subseteq Nat
  <2>1. ASSUME NEW t \in T PROVE n - t \in Nat
    <3>1. t \in 1..n
      OBVIOUS
    <3>. QED  BY <3>1
  <2>. QED  BY <2>1
<1>2. U # {}
  OBVIOUS
<1>3. PICK u \in U : \A y \in U : u <= y
  <2>. HIDE DEF U
  <2>. QED  BY <1>1, <1>2, LeastExists
<1>4. PICK x \in T : u = n - x
  OBVIOUS
<1>5. ASSUME NEW y \in T PROVE y <= x
  <2>1. n - x <= n - y
    BY <1>3, <1>4
  <2>2. y \in 1..n /\ x \in 1..n
    OBVIOUS
  <2>. QED  BY <2>1, <2>2
<1>. QED  BY <1>5

\* The last answer of a branch that has one.
LEMMA LastAnswerIsLast ==
  ASSUME branch \in Seq(Items), Answers # {}
  PROVE  LastAnswer \in Answers /\ \A j \in Answers : j <= LastAnswer
<1>1. Answers \subseteq 1..Len(branch) /\ Len(branch) \in Nat
  BY DEF Answers
<1>2. \E i \in Answers : \A j \in Answers : j <= i
  <2>. HIDE DEF Answers
  <2>. QED  BY <1>1, GreatestExists
<1>. QED  BY <1>2 DEF LastAnswer

\* The branch up to the last answer: a prefix, of the same items.
Cut ==
    /\ Answers # {}
    /\ branch' = SubSeq(branch, 1, LastAnswer - 1)

LEMMA CutIsPrefix ==
  ASSUME branch \in Seq(Items), Cut
  PROVE  /\ branch' \in Seq(Items)
         /\ LastAnswer \in 1..Len(branch) /\ Len(branch') = LastAnswer - 1
         /\ \A i \in 1..Len(branch') : branch'[i] = branch[i]
<1>1. LastAnswer \in 1..Len(branch)
  BY LastAnswerIsLast DEF Cut, Answers
<1>2. DEFINE m == LastAnswer - 1
<1>3. m \in 0..Len(branch) /\ branch' = SubSeq(branch, 1, m)
  BY <1>1 DEF Cut
<1>. HIDE DEF m
<1>4. /\ SubSeq(branch, 1, m) \in Seq(Items)
      /\ Len(SubSeq(branch, 1, m)) = m
      /\ \A i \in 1..m : SubSeq(branch, 1, m)[i] = branch[i]
  <2>1. \A i \in 1..m : branch[i] \in Items
    <3>. HIDE DEF Items
    <3>. QED  BY <1>3
  <2>. HIDE DEF Items
  <2>2. /\ SubSeq(branch, 1, m) \in Seq(Items)
        /\ Len(SubSeq(branch, 1, m)) = IF 1 <= m THEN m - 1 + 1 ELSE 0
        /\ \A i \in 1..(m - 1 + 1) : SubSeq(branch, 1, m)[i] = branch[1 + i - 1]
    BY <1>3, <2>1, SubSeqProperties
  <2>. QED  BY <1>3, <2>2
<1>. QED  BY <1>1, <1>3, <1>4 DEF m

(***************************************************************************)
(* How a step changes the branch: not at all, at its end, or back to       *)
(* before the last answer.                                                 *)
(***************************************************************************)

\* The sequence t continues s.
Continues(s, t) ==
    /\ t \in Seq(Items)
    /\ Len(s) <= Len(t)
    /\ \A i \in 1..Len(s) : t[i] = s[i]

\* The types of the variables.
Typed ==
    /\ branch \in Seq(Items)
    /\ asked \in 0..MaxPrompts
    /\ msg \in Kinds \cup {"none"}
    /\ err \in BOOLEAN /\ before \in BOOLEAN /\ attempted \in BOOLEAN /\ loopOn \in BOOLEAN
    /\ cancelled \in BOOLEAN /\ retryOn \in BOOLEAN /\ compactionOn \in BOOLEAN
    /\ model \in Models /\ stateModel \in Models
    /\ attempt \in 0..MaxRetries
    /\ retryAbort \in {"none", "open", "closed"}
    /\ retryAbort # "none" <=>
           pc \in {"retry_loop", "waiting", "sleeping", "rewinding", "retrying"}

\* The items that the actions build.
LEMMA ItemsBuilt ==
  /\ asked \in 1..MaxPrompts => PromptItem(asked) \in Items
  /\ \A k \in Kinds, m \in Models : AnswerItem(k, m) \in Items
  /\ CompactionItem \in Items
  BY DEF Items, PromptItem, AnswerItem, CompactionItem

\* One more item.
LEMMA AddItem ==
  ASSUME NEW s \in Seq(Items), NEW x \in Items
  PROVE  /\ Append(s, x) = s \o <<x>>
         /\ Continues(s, s \o <<x>>)
         /\ Len(s \o <<x>>) = Len(s) + 1
         /\ (s \o <<x>>)[Len(s) + 1] = x
<1>. HIDE DEF Items
<1>1. Append(s, x) = s \o <<x>>
  BY AppendIsConcat
<1>2. /\ Append(s, x) \in Seq(Items) /\ Len(Append(s, x)) = Len(s) + 1
      /\ \A i \in 1..Len(s) : Append(s, x)[i] = s[i]
      /\ Append(s, x)[Len(s) + 1] = x
  BY AppendProperties
<1>3. Len(s) \in Nat
  OBVIOUS
<1>. QED  BY <1>1, <1>2, <1>3 DEF Continues

\* What a failed run leaves: answers only.
LEMMA AddLeftOver ==
  ASSUME NEW s \in Seq(Items), NEW left \in LeftOver, stateModel \in Models
  PROVE  /\ Continues(s, s \o left)
         /\ \A i \in (Len(s) + 1)..Len(s \o left) : (s \o left)[i].item = "answer"
<1>1. CASE left = <<>>
  <2>1. s \o left = s /\ Len(s) \in Nat
    BY <1>1, ConcatEmptySeq
  <2>. QED  BY <2>1 DEF Continues
<1>2. ASSUME NEW k \in {"stop", "retryable", "fatal"}, left = <<AnswerItem(k, stateModel)>>
      PROVE  /\ Continues(s, s \o left)
             /\ \A i \in (Len(s) + 1)..Len(s \o left) : (s \o left)[i].item = "answer"
  <2>1. AnswerItem(k, stateModel) \in Items
    BY ItemsBuilt DEF Kinds
  <2>2. /\ Continues(s, s \o left)
        /\ Len(s \o left) = Len(s) + 1
        /\ (s \o left)[Len(s) + 1] = AnswerItem(k, stateModel)
    BY <1>2, <2>1, AddItem
  <2>3. Len(s) \in Nat /\ AnswerItem(k, stateModel).item = "answer"
    BY DEF AnswerItem
  <2>. QED  BY <2>2, <2>3
<1>. QED  BY <1>1, <1>2 DEF LeftOver

\* The branch has grown, by the prompt only if it is being run.
Grown ==
    /\ Continues(branch, branch')
    /\ \A i \in (Len(branch) + 1)..Len(branch') :
        branch'[i].item = "prompt" => pc = "prompting" /\ branch'[i].n = asked

\* The branch ends in an answer.
EndsInAnswer == Len(branch) > 0 /\ branch[Len(branch)].item = "answer"

\* The branch has grown and ends in an answer of the kind that the run has.
LEMMA AnsweredGrows ==
  ASSUME NEW k \in Kinds, NEW m \in {stateModel, model},
         branch \in Seq(Items), stateModel \in Models, model \in Models
  PROVE  /\ branch' = branch \o <<AnswerItem(k, m)>> => Grown /\ EndsInAnswer'
         /\ branch' = branch \o <<PromptItem(asked)>> \o <<AnswerItem(k, m)>>
                /\ pc = "prompting" /\ asked \in 1..MaxPrompts => Grown /\ EndsInAnswer'
<1>1. AnswerItem(k, m) \in Items /\ AnswerItem(k, m).item = "answer"
  BY ItemsBuilt DEF AnswerItem
<1>2. Len(branch) \in Nat
  OBVIOUS
<1>3. ASSUME branch' = branch \o <<AnswerItem(k, m)>>
      PROVE  Grown /\ EndsInAnswer'
  <2>1. /\ Continues(branch, branch')
        /\ Len(branch') = Len(branch) + 1
        /\ branch'[Len(branch) + 1] = AnswerItem(k, m)
    BY <1>1, <1>3, AddItem
  <2>. QED  BY <1>1, <1>2, <2>1 DEF Grown, EndsInAnswer
<1>4. ASSUME branch' = branch \o <<PromptItem(asked)>> \o <<AnswerItem(k, m)>>,
             pc = "prompting", asked \in 1..MaxPrompts
      PROVE  Grown /\ EndsInAnswer'
  <2> DEFINE s == branch \o <<PromptItem(asked)>>
  <2>1. /\ Continues(branch, s)
        /\ Len(s) = Len(branch) + 1
        /\ s[Len(branch) + 1] = PromptItem(asked)
    BY <1>4, ItemsBuilt, AddItem
  <2>2. s \in Seq(Items)
    BY <2>1 DEF Continues
  <2>3. branch' = s \o <<AnswerItem(k, m)>>
    BY <1>4
  <2>. HIDE DEF s
  <2>4. /\ Continues(s, branch')
        /\ Len(branch') = Len(s) + 1
        /\ branch'[Len(s) + 1] = AnswerItem(k, m)
    BY <1>1, <2>2, <2>3, AddItem
  <2>5. Continues(branch, branch') /\ branch'[Len(branch) + 1] = PromptItem(asked)
    BY <1>2, <2>1, <2>4 DEF Continues
  <2>6. PromptItem(asked).n = asked
    BY DEF PromptItem
  <2>. QED  BY <1>1, <1>2, <1>4, <2>1, <2>4, <2>5, <2>6 DEF Grown, EndsInAnswer
<1>. QED  BY <1>3, <1>4

\* Where the branch ends in the answer that may be taken back.
Rewindable ==
    /\ pc = "input" => msg = "none"
    /\ pc = "compacting" => ~IsRetryable(msg)
    /\ \/ pc = "recover" /\ ~before
       \/ pc \in {"retry_check", "retry_loop"} /\ IsRetryable(msg)
       \/ pc \in {"waiting", "sleeping", "rewinding"}
       => EndsInAnswer

\* An answer stands at the end, so there is one.
LEMMA EndIsAnswer == ASSUME branch \in Seq(Items), EndsInAnswer PROVE Len(branch) \in Answers
<1>1. Len(branch) \in DOMAIN branch
  BY DEF EndsInAnswer
<1>. QED  BY <1>1 DEF EndsInAnswer, Answers

\* The step of the harness when it fails, here or in a recovery or a retry.
LEMMA LeftOverGrows ==
  ASSUME NEW left \in LeftOver, branch \in Seq(Items), stateModel \in Models
  PROVE  /\ branch' = branch \o left => Grown
         /\ branch' = branch \o <<PromptItem(asked)>> \o left
                /\ pc = "prompting" /\ asked \in 1..MaxPrompts => Grown
<1>1. ASSUME branch' = branch \o left PROVE Grown
  BY <1>1, AddLeftOver DEF Grown
<1>2. ASSUME branch' = branch \o <<PromptItem(asked)>> \o left,
             pc = "prompting", asked \in 1..MaxPrompts
      PROVE  Grown
  <2> DEFINE s == branch \o <<PromptItem(asked)>>
  <2>1. /\ Continues(branch, s)
        /\ Len(s) = Len(branch) + 1
        /\ s[Len(branch) + 1] = PromptItem(asked)
    BY <1>2, ItemsBuilt, AddItem
  <2>2. s \in Seq(Items) /\ branch' = s \o left
    BY <1>2, <2>1 DEF Continues
  <2>. HIDE DEF s
  <2>3. /\ Continues(s, branch')
        /\ \A i \in (Len(s) + 1)..Len(branch') : branch'[i].item = "answer"
    BY <2>2, AddLeftOver
  <2>4. Len(branch) \in Nat /\ PromptItem(asked).n = asked
    BY DEF PromptItem
  <2>5. Continues(branch, branch') /\ branch'[Len(branch) + 1] = PromptItem(asked)
    BY <2>1, <2>3, <2>4 DEF Continues
  <2>6. ASSUME NEW i \in (Len(branch) + 1)..Len(branch'), branch'[i].item = "prompt"
        PROVE  branch'[i].n = asked
    <3>1. CASE i = Len(branch) + 1
      BY <2>4, <2>5, <3>1
    <3>2. CASE i # Len(branch) + 1
      BY <2>1, <2>3, <2>4, <2>6, <3>2
    <3>. QED  BY <3>1, <3>2
  <2>. QED  BY <1>2, <2>5, <2>6 DEF Grown
<1>. QED  BY <1>1, <1>2

\* The three actions that answer.
LEMMA AnswersGrow ==
  ASSUME Typed, Answering, PromptReturns \/ RecoveryContinues \/ RetryReturns
  PROVE  Grown /\ EndsInAnswer'
<1>. HIDE DEF Items
<1>1. /\ branch \in Seq(Items) /\ stateModel \in Models /\ model \in Models
      /\ pc # "idle" => asked \in 1..MaxPrompts
  BY DEF Typed, Answering
<1>2. ASSUME PromptReturns PROVE Grown /\ EndsInAnswer'
  <2>1. PICK k \in Kinds, m \in {stateModel, model} :
          branch' = branch \o <<PromptItem(asked)>> \o <<AnswerItem(k, m)>>
    BY <1>2 DEF PromptReturns, Answered
  <2>. QED  BY <1>1, <1>2, <2>1, AnsweredGrows DEF PromptReturns
<1>3. ASSUME RecoveryContinues PROVE Grown /\ EndsInAnswer'
  <2>1. PICK k \in Kinds, m \in {stateModel, model} : branch' = branch \o <<>> \o <<AnswerItem(k, m)>>
    BY <1>3 DEF RecoveryContinues, Answered
  <2>2. branch' = branch \o <<AnswerItem(k, m)>>
    BY <1>1, <2>1, ConcatEmptySeq
  <2>. QED  BY <1>1, <2>2, AnsweredGrows
<1>4. ASSUME RetryReturns PROVE Grown /\ EndsInAnswer'
  <2>1. PICK k \in Kinds, m \in {stateModel, model} : branch' = Append(branch, AnswerItem(k, m))
    BY <1>4 DEF RetryReturns
  <2>2. AnswerItem(k, m) \in Items
    BY <1>1, ItemsBuilt
  <2>3. branch' = branch \o <<AnswerItem(k, m)>>
    BY <1>1, <2>1, <2>2, AddItem
  <2>. QED  BY <1>1, <2>3, AnsweredGrows
<1>. QED  BY <1>2, <1>3, <1>4

\* The three ways.  Only a rewind and the move of a recovery cut the branch.
LEMMA BranchMoves ==
  ASSUME Typed, Answering, Rewindable, [Next]_vars
  PROVE  \/ UNCHANGED branch
         \/ Grown
         \/ Cut /\ (RecoveryMoves \/ Rewind)
<1>. HIDE DEF Items
<1>1. /\ branch \in Seq(Items) /\ stateModel \in Models /\ model \in Models
      /\ pc # "idle" => asked \in 1..MaxPrompts
  BY DEF Typed, Answering
<1>2. ASSUME PromptReturns \/ RecoveryContinues \/ RetryReturns PROVE Grown
  BY <1>2, AnswersGrow
<1>3. ASSUME PromptFails PROVE UNCHANGED branch \/ Grown
  BY <1>1, <1>3, LeftOverGrows DEF PromptFails
<1>4. ASSUME RecoveryMoves PROVE UNCHANGED branch \/ (Cut /\ RecoveryMoves)
  BY <1>4 DEF RecoveryMoves, MayRecover, Cut
<1>5. ASSUME RecoveryCompacts PROVE UNCHANGED branch \/ Grown
  <2>1. CASE branch' = Append(branch, CompactionItem)
    <3>1. CompactionItem \in Items /\ CompactionItem.item = "compaction"
      BY ItemsBuilt DEF CompactionItem
    <3>2. /\ Continues(branch, branch') /\ Len(branch') = Len(branch) + 1
          /\ branch'[Len(branch) + 1] = CompactionItem
      BY <1>1, <2>1, <3>1, AddItem
    <3>3. Len(branch) \in Nat
      BY <1>1
    <3>. QED  BY <3>1, <3>2, <3>3 DEF Grown
  <2>. QED  BY <1>5, <2>1 DEF RecoveryCompacts
<1>6. ASSUME RecoveryFails PROVE Grown
  BY <1>1, <1>6, LeftOverGrows DEF RecoveryFails
<1>7. ASSUME Rewind PROVE UNCHANGED branch \/ (Cut /\ Rewind)
  <2>1. Answers # {}
    BY <1>1, <1>7, EndIsAnswer DEF Rewind, Rewindable
  <2>. QED  BY <1>7, <2>1 DEF Rewind, RewindTo, Cut
<1>8. ASSUME RetryFails PROVE Grown
  BY <1>1, <1>8, LeftOverGrows DEF RetryFails
<1>9. ASSUME Prompt \/ EmitInput \/ Accept \/ NoRecovery \/ RetryCheck \/ RetryAgain \/ RetryGivesUp
       PROVE  UNCHANGED branch
  BY <1>9 DEF Prompt, EmitInput, Accept, NoRecovery, RetryCheck, RetryAgain, RetryGivesUp
<1>10. ASSUME BackoffCancelled \/ BackoffAborted \/ Sleep \/ BackoffElapses \/ Return
              \/ Cancel \/ AbortRetry \/ SetAutoRetry \/ SetAutoCompaction \/ SetModel
              \/ UNCHANGED vars
       PROVE  UNCHANGED branch
  BY <1>10 DEF BackoffCancelled, BackoffAborted, Sleep, BackoffElapses, Return, Cancel, AbortRetry,
     SetAutoRetry, SetAutoCompaction, SetModel, unset, vars
<1>. QED
  BY <1>2, <1>3, <1>4, <1>5, <1>6, <1>7, <1>8, <1>9, <1>10 DEF Next, RunStep
\* Every step keeps it: the answer is the last item when it comes, and a
\* failure that may be retried is never left behind by another item.
LEMMA RewindableStep ==
  ASSUME Typed, Answering, Rewindable, [Next]_vars
  PROVE  Rewindable'
<1>1. ASSUME PromptReturns PROVE Rewindable'
  <2>1. EndsInAnswer' /\ pc' = "recover"
    BY <1>1, AnswersGrow DEF PromptReturns, Goto
  <2>. QED  BY <2>1 DEF Rewindable
<1>2. ASSUME RecoveryContinues \/ RetryReturns PROVE Rewindable'
  <2>1. EndsInAnswer'
    BY <1>2, AnswersGrow
  <2>2. pc' \in {"accept", "retry_check", "retry_loop", "settling"}
    BY <1>2 DEF RecoveryContinues, RetryReturns, AfterRecovery, LeaveRetry, Goto
  <2>. QED  BY <2>1, <2>2 DEF Rewindable
<1>3. ASSUME PromptFails \/ RecoveryFails \/ RetryFails PROVE Rewindable'
  BY <1>3 DEF PromptFails, RecoveryFails, RetryFails, LeaveRetry, Goto, Rewindable, IsRetryable
<1>4. ASSUME RecoveryMoves PROVE Rewindable'
  <2>1. ~IsRetryable(msg') /\ pc' \in {"compacting", "retry_check"}
    BY <1>4 DEF RecoveryMoves, MayRecover, IsContextOverflow, IsRetryable, Goto
  <2>. QED  BY <2>1 DEF Rewindable
<1>5. ASSUME RecoveryCompacts PROVE Rewindable'
  <2>1. ~IsRetryable(msg') /\ pc' \in {"recovering", "retry_check"}
    BY <1>5 DEF RecoveryCompacts, Rewindable, Goto
  <2>. QED  BY <2>1 DEF Rewindable
<1>6. ASSUME NoRecovery PROVE Rewindable'
  BY <1>6 DEF NoRecovery, AfterRecovery, Goto, Rewindable, EndsInAnswer
<1>7. ASSUME Prompt \/ EmitInput \/ Accept PROVE Rewindable'
  BY <1>7 DEF Prompt, EmitInput, Accept, Goto, Rewindable, IsRetryable
<1>8. ASSUME RetryCheck \/ RetryAgain \/ RetryGivesUp PROVE Rewindable'
  BY <1>8 DEF RetryCheck, RetryAgain, RetryGivesUp, IsRetryableHere, LeaveRetry, Goto, Rewindable,
     EndsInAnswer
<1>9. ASSUME BackoffCancelled \/ BackoffAborted \/ Sleep \/ BackoffElapses PROVE Rewindable'
  BY <1>9 DEF BackoffCancelled, BackoffAborted, Sleep, BackoffElapses, LeaveRetry, Goto, Rewindable,
     EndsInAnswer
<1>10. ASSUME Rewind \/ Return PROVE Rewindable'
  BY <1>10 DEF Rewind, Return, LeaveRetry, Goto, Rewindable
<1>11. ASSUME Cancel \/ AbortRetry PROVE Rewindable'
  BY <1>11 DEF Cancel, AbortRetry, recovery, Rewindable, EndsInAnswer
<1>12. ASSUME SetAutoRetry \/ SetAutoCompaction \/ SetModel PROVE Rewindable'
  BY <1>12 DEF SetAutoRetry, SetAutoCompaction, SetModel, unset, recovery, Rewindable, EndsInAnswer
<1>13. ASSUME UNCHANGED vars PROVE Rewindable'
  BY <1>13 DEF vars, recovery, Rewindable, EndsInAnswer
<1>. QED
  BY <1>1, <1>2, <1>3, <1>4, <1>5, <1>6, <1>7, <1>8, <1>9, <1>10, <1>11, <1>12, <1>13
     DEF Next, RunStep

(***************************************************************************)
(* The types.                                                              *)
(***************************************************************************)

\* The settings' variables, which only their setters change.
LEMMA TypedSettings ==
  ASSUME Typed, [Next]_vars
  PROVE  model' \in Models /\ retryOn' \in BOOLEAN /\ compactionOn' \in BOOLEAN
<1>1. ASSUME UNCHANGED settings
      PROVE  model' \in Models /\ retryOn' \in BOOLEAN /\ compactionOn' \in BOOLEAN
  BY <1>1 DEF settings, Typed
<1>2. ASSUME SetAutoRetry \/ SetAutoCompaction \/ SetModel
      PROVE  model' \in Models /\ retryOn' \in BOOLEAN /\ compactionOn' \in BOOLEAN
  BY <1>2 DEF SetAutoRetry, SetAutoCompaction, SetModel, Typed
<1>3. ASSUME Prompt \/ Cancel \/ AbortRetry \/ EmitInput \/ Accept \/ PromptReturns \/ PromptFails
             \/ NoRecovery \/ RecoveryMoves \/ RecoveryCompacts \/ RecoveryContinues
      PROVE  UNCHANGED settings
  BY <1>3 DEF Prompt, Cancel, AbortRetry, EmitInput, Accept, PromptReturns, PromptFails, NoRecovery,
     RecoveryMoves, RecoveryCompacts, RecoveryContinues
<1>4. ASSUME RecoveryFails \/ RetryCheck \/ RetryAgain \/ RetryGivesUp \/ BackoffCancelled
             \/ BackoffAborted \/ Sleep \/ BackoffElapses \/ Rewind \/ RetryReturns \/ RetryFails
             \/ Return \/ UNCHANGED vars
      PROVE  UNCHANGED settings
  BY <1>4 DEF RecoveryFails, RetryCheck, RetryAgain, RetryGivesUp, BackoffCancelled, BackoffAborted,
     Sleep, BackoffElapses, Rewind, RetryReturns, RetryFails, Return, vars, settings
<1>. QED  BY <1>1, <1>2, <1>3, <1>4 DEF Next, RunStep

\* What a run keeps for itself.
RunTyped ==
    /\ asked \in 0..MaxPrompts
    /\ msg \in Kinds \cup {"none"}
    /\ err \in BOOLEAN /\ before \in BOOLEAN /\ attempted \in BOOLEAN
    /\ cancelled \in BOOLEAN
    /\ stateModel \in Models

\* What the retries keep.
RetryTyped ==
    /\ loopOn \in BOOLEAN
    /\ attempt \in 0..MaxRetries
    /\ retryAbort \in {"none", "open", "closed"}
    /\ retryAbort # "none" <=>
           pc \in {"retry_loop", "waiting", "sleeping", "rewinding", "retrying"}

LEMMA RunTypedStep == ASSUME Typed, [Next]_vars PROVE RunTyped'
<1>. USE DEF Typed, RunTyped
<1>1. MaxPrompts \in Nat
  BY PromptBounds
<1>2. ASSUME Prompt PROVE RunTyped'
  <2>1. asked' \in 0..MaxPrompts
    BY <1>1, <1>2 DEF Prompt
  <2>. QED  BY <1>2, <2>1 DEF Prompt
<1>3. ASSUME EmitInput \/ Accept PROVE RunTyped'
  BY <1>3 DEF EmitInput, Accept, recovery
<1>4. ASSUME PromptReturns \/ PromptFails PROVE RunTyped'
  BY <1>4 DEF PromptReturns, PromptFails, Answered, request, recovery
<1>5. ASSUME NoRecovery PROVE RunTyped'
  BY <1>5 DEF NoRecovery, request
<1>6. ASSUME RecoveryMoves PROVE RunTyped'
  <2>1. msg' \in Kinds
    BY <1>6 DEF RecoveryMoves, MayRecover, IsContextOverflow, Kinds
  <2>. QED  BY <1>6, <2>1 DEF RecoveryMoves, request
<1>7. ASSUME RecoveryCompacts \/ RecoveryFails PROVE RunTyped'
  BY <1>7 DEF RecoveryCompacts, RecoveryFails, request, recovery
<1>8. ASSUME RecoveryContinues PROVE RunTyped'
  <2>1. msg' \in Kinds /\ err' \in BOOLEAN /\ attempted' \in BOOLEAN
    BY <1>8 DEF RecoveryContinues, Answered
  <2>. QED  BY <1>8, <2>1 DEF RecoveryContinues, request
<1>9. ASSUME RetryCheck \/ RetryAgain \/ RetryGivesUp PROVE RunTyped'
  BY <1>9 DEF RetryCheck, RetryAgain, RetryGivesUp, LeaveRetry, request, recovery
<1>10. ASSUME BackoffCancelled \/ BackoffAborted \/ Sleep \/ BackoffElapses PROVE RunTyped'
  BY <1>10 DEF BackoffCancelled, BackoffAborted, Sleep, BackoffElapses, LeaveRetry, request, recovery
<1>11. ASSUME Rewind \/ RetryFails PROVE RunTyped'
  BY <1>11 DEF Rewind, RetryFails, LeaveRetry, request, recovery
<1>12. ASSUME RetryReturns PROVE RunTyped'
  <2>1. msg' \in Kinds /\ err' \in BOOLEAN
    BY <1>12 DEF RetryReturns, LeaveRetry
  <2>. QED  BY <1>12, <2>1 DEF RetryReturns, request, recovery
<1>13. ASSUME Return \/ Cancel \/ AbortRetry PROVE RunTyped'
  BY <1>13 DEF Return, Cancel, AbortRetry, request, recovery
<1>14. ASSUME SetAutoRetry \/ SetAutoCompaction \/ SetModel PROVE RunTyped'
  BY <1>14 DEF SetAutoRetry, SetAutoCompaction, SetModel, unset, request, recovery
<1>15. ASSUME UNCHANGED vars PROVE RunTyped'
  BY <1>15 DEF vars, request, recovery
<1>. QED
  BY <1>2, <1>3, <1>4, <1>5, <1>6, <1>7, <1>8, <1>9, <1>10, <1>11, <1>12, <1>13, <1>14, <1>15
     DEF Next, RunStep

\* Actions outside the retry loop leave it alone and do not enter it.
LEMMA RetryFrame ==
  ASSUME Typed, UNCHANGED retry,
         pc' \in {"retry_loop", "waiting", "sleeping", "rewinding", "retrying"} <=>
             pc \in {"retry_loop", "waiting", "sleeping", "rewinding", "retrying"}
  PROVE  RetryTyped'
  BY DEF retry, Typed, RetryTyped

LEMMA RetryTypedStep == ASSUME Typed, [Next]_vars PROVE RetryTyped'
<1>1. MaxRetries \in Nat
  BY PromptBounds
<1>2. ASSUME Prompt PROVE RetryTyped'
  BY <1>1, <1>2 DEF Prompt, Goto, Typed, RetryTyped
<1>3. ASSUME EmitInput \/ Accept \/ PromptReturns \/ PromptFails PROVE RetryTyped'
  BY <1>3, RetryFrame DEF EmitInput, Accept, PromptReturns, PromptFails, Goto
<1>4. ASSUME NoRecovery \/ RecoveryMoves \/ RecoveryCompacts \/ RecoveryFails PROVE RetryTyped'
  BY <1>4, RetryFrame DEF NoRecovery, RecoveryMoves, RecoveryCompacts, RecoveryFails, AfterRecovery,
     Goto
<1>5. ASSUME RecoveryContinues PROVE RetryTyped'
  <2>1. pc = "recovering" /\ pc' \in {"accept", "retry_check"} /\ UNCHANGED retry
    BY <1>5 DEF RecoveryContinues, AfterRecovery, Goto
  <2>. QED  BY <2>1, RetryFrame
<1>6. ASSUME RetryCheck PROVE RetryTyped'
  BY <1>1, <1>6 DEF RetryCheck, Goto, Typed, RetryTyped
<1>7. ASSUME RetryAgain PROVE RetryTyped'
  BY <1>1, <1>7 DEF RetryAgain, Goto, Typed, RetryTyped
<1>8. ASSUME RetryGivesUp \/ BackoffCancelled \/ BackoffAborted PROVE RetryTyped'
  BY <1>1, <1>8 DEF RetryGivesUp, BackoffCancelled, BackoffAborted, LeaveRetry, Goto, Typed, RetryTyped
<1>9. ASSUME Sleep \/ BackoffElapses PROVE RetryTyped'
  BY <1>9, RetryFrame DEF Sleep, BackoffElapses, Goto
<1>10. ASSUME Rewind \/ RetryFails PROVE RetryTyped'
  BY <1>10 DEF Rewind, RetryFails, LeaveRetry, Goto, Typed, RetryTyped
<1>11. ASSUME RetryReturns PROVE RetryTyped'
  <2>1. CASE pc' = "retry_loop" /\ UNCHANGED retry
    BY <1>11, <2>1, RetryFrame DEF RetryReturns
  <2>2. CASE attempt' = 0 /\ pc' = "settling" /\ retryAbort' = "none" /\ UNCHANGED loopOn
    BY <1>1, <2>2 DEF Typed, RetryTyped
  <2>. QED  BY <1>11, <2>1, <2>2 DEF RetryReturns, LeaveRetry, Goto, retry
<1>12. ASSUME Return \/ Cancel PROVE RetryTyped'
  BY <1>12, RetryFrame DEF Return, Cancel, Goto
<1>13. ASSUME AbortRetry PROVE RetryTyped'
  BY <1>13 DEF AbortRetry, Typed, RetryTyped
<1>14. ASSUME SetAutoRetry \/ SetAutoCompaction \/ SetModel PROVE RetryTyped'
  BY <1>14, RetryFrame DEF SetAutoRetry, SetAutoCompaction, SetModel, unset
<1>15. ASSUME UNCHANGED vars PROVE RetryTyped'
  BY <1>15, RetryFrame DEF vars, retry
<1>. QED
  BY <1>2, <1>3, <1>4, <1>5, <1>6, <1>7, <1>8, <1>9, <1>10, <1>11, <1>12, <1>13, <1>14, <1>15
     DEF Next, RunStep

\* Typed is made of the branch, the settings, the run and the retries.
LEMMA TypedStep ==
  ASSUME Typed, Answering, Rewindable, [Next]_vars
  PROVE  Typed'
<1>1. branch' \in Seq(Items)
  <2>. HIDE DEF Items
  <2>1. branch \in Seq(Items)
    BY DEF Typed
  <2>. QED  BY <2>1, BranchMoves, CutIsPrefix DEF Grown, Continues
<1>. QED
  BY <1>1, TypedSettings, RunTypedStep, RetryTypedStep DEF Typed, RunTyped, RetryTyped

LEMMA TypedInit == Init => Typed /\ Rewindable
<1> SUFFICES ASSUME Init PROVE Typed /\ Rewindable
  OBVIOUS
<1>1. attempt \in 0..MaxRetries /\ asked \in 0..MaxPrompts
  BY PromptBounds DEF Init
<1>2. branch \in Seq(Items)
  BY DEF Init
<1>3. model \in Models /\ stateModel \in Models
  BY ModelAssumption DEF Init
<1>. QED  BY <1>1, <1>2, <1>3 DEF Init, Typed, Rewindable

\* The inductive invariant of the theorems below.
Inv == Typed /\ Answering /\ Rewindable

LEMMA InvHolds == Spec => []Inv
<1>1. Init => Inv
  BY TypedInit, AnsweringInit DEF Inv
<1>2. Inv /\ [Next]_vars => Inv'
  BY TypedStep, AnsweringStep, RewindableStep DEF Inv
<1>. QED  BY <1>1, <1>2, PTL DEF Spec

\* Every variable keeps its type; the retries keep to their limit, and their
\* channel is there exactly while the retry loop runs, so that AbortRetry
\* never closes one that nobody reads.
THEOREM TypeCorrect == Spec => []TypeOK
<1>1. Inv => TypeOK
  <2> SUFFICES ASSUME Inv PROVE TypeOK
    OBVIOUS
  <2>1. {branch[i] : i \in DOMAIN branch} \subseteq Items
    <3>. HIDE DEF Items
    <3>. QED  BY DEF Inv, Typed
  <2>2. {responses[i] : i \in DOMAIN responses} \subseteq {"success", "failure"}
    <3>1. responses \in {<<>>, <<"success">>, <<"failure">>}
      BY DEF Inv, Answering
    <3>2. CASE responses = <<>>
      BY <3>2
    <3>3. CASE responses = <<"success">>
      BY <3>3
    <3>4. CASE responses = <<"failure">>
      BY <3>4
    <3>. QED  BY <3>1, <3>2, <3>3, <3>4
  <2>3. handled \in BOOLEAN /\ handed \subseteq 1..asked
    BY DEF Inv, Answering
  <2>. QED  BY <2>1, <2>2, <2>3 DEF Inv, Typed, TypeOK
<1>. QED  BY <1>1, InvHolds, PTL

(***************************************************************************)
(* What a rewind leaves.                                                   *)
(***************************************************************************)

\* The prompts on the branch have been asked; the one that is asked now is
\* not there yet while nothing is decided.
PromptsBelow ==
    \A i \in DOMAIN branch :
        branch[i].item = "prompt" =>
            branch[i].n <= asked /\ (Undecided => branch[i].n # asked)

LEMMA PromptsBelowStep ==
  ASSUME Inv, PromptsBelow, [Next]_vars
  PROVE  PromptsBelow'
<1>. HIDE DEF Items
<1>1. /\ branch \in Seq(Items) /\ asked \in Nat
      /\ \A i \in DOMAIN branch : branch[i].item = "prompt" => branch[i].n \in Nat
  <2>1. \A x \in Items : x.item = "prompt" => x.n \in Nat
    BY PromptBounds DEF Items, CompactionItem
  <2>. QED  BY <2>1 DEF Inv, Typed, Answering
<1>2. CASE Prompt
  <2>1. asked' = asked + 1 /\ branch' = branch
    BY <1>2 DEF Prompt
  <2>. QED  BY <1>1, <2>1 DEF PromptsBelow
<1>3. CASE ~Prompt
  <2>1. asked' = asked /\ (Undecided' => Undecided)
    BY <1>3, NeverBack
  <2>2. CASE UNCHANGED branch
    BY <2>1, <2>2 DEF PromptsBelow
  <2>3. CASE Grown
    <3>1. ASSUME NEW i \in DOMAIN branch', branch'[i].item = "prompt"
          PROVE  branch'[i].n <= asked /\ (Undecided => branch'[i].n # asked)
      <4>1. branch' \in Seq(Items) /\ Len(branch) \in Nat /\ Len(branch') \in Nat
        BY <1>1, <2>3 DEF Grown, Continues
      <4>2. CASE i \in 1..Len(branch)
        BY <1>1, <2>3, <3>1, <4>1, <4>2 DEF Grown, Continues, PromptsBelow
      <4>3. CASE i \in (Len(branch) + 1)..Len(branch')
        BY <1>1, <2>3, <3>1, <4>3 DEF Grown, Undecided
      <4>. QED  BY <4>1, <4>2, <4>3
    <3>. QED  BY <2>1, <3>1 DEF PromptsBelow
  <2>4. CASE Cut
    <3>1. \A i \in DOMAIN branch' : i \in DOMAIN branch /\ branch'[i] = branch[i]
      BY <1>1, <2>4, CutIsPrefix
    <3>. QED  BY <2>1, <3>1 DEF PromptsBelow
  <2>. QED  BY <2>2, <2>3, <2>4, BranchMoves DEF Inv
<1>. QED  BY <1>2, <1>3

\* What is taken back starts at the last answer.  A prompt with an answer is
\* before it; the prompt being run is too once it is stored, for then the
\* branch ends in its answer.
LEMMA CutKeepsPrompts ==
  ASSUME Inv, PromptsBelow, Cut, RecoveryMoves \/ Rewind,
         NEW n, Stored(n), HasAnswer(n) \/ n = asked
  PROVE  Stored(n)'
<1>. HIDE DEF Items
<1>1. branch \in Seq(Items)
  BY DEF Inv, Typed
<1>2. \A j \in Answers : j <= LastAnswer
  BY <1>1, LastAnswerIsLast DEF Cut
<1>3. PICK i, j \in DOMAIN branch : i < j /\ branch[i] = PromptItem(n) /\ j \in Answers
  <2>1. CASE HasAnswer(n)
    BY <2>1 DEF HasAnswer, Answers
  <2>2. CASE n = asked
    <3>1. PICK i \in DOMAIN branch : branch[i] = PromptItem(n)
      BY DEF Stored
    <3>2. branch[i].item = "prompt" /\ branch[i].n = asked
      BY <2>2, <3>1 DEF PromptItem
    <3>3. ~Undecided
      BY <3>2 DEF PromptsBelow
    <3>4. pc \in {"recover", "rewinding"} /\ before \in BOOLEAN
      BY DEF RecoveryMoves, Rewind, Inv, Typed
    <3>5. EndsInAnswer
      BY <3>3, <3>4 DEF Undecided, Inv, Rewindable
    <3>6. Len(branch) \in Answers /\ i # Len(branch)
      BY <1>1, <3>2, <3>5, EndIsAnswer DEF EndsInAnswer
    <3>7. Len(branch) \in DOMAIN branch /\ i < Len(branch)
      BY <1>1, <3>6
    <3>. QED  BY <3>1, <3>6, <3>7
  <2>. QED  BY <2>1, <2>2
<1>4. i \in 1..Len(branch') /\ branch'[i] = PromptItem(n)
  <2>1. /\ LastAnswer \in 1..Len(branch) /\ Len(branch') = LastAnswer - 1
        /\ \A k \in 1..Len(branch') : branch'[k] = branch[k]
    BY <1>1, CutIsPrefix
  <2>. QED  BY <1>1, <1>2, <1>3, <2>1
<1>5. branch' \in Seq(Items)
  BY <1>1, CutIsPrefix
<1>. QED  BY <1>4, <1>5 DEF Stored

\* Rewinding takes neither the prompt that is run nor one with an answer off
\* the branch, for retries and recoveries in any number.
THEOREM PromptsKept == Spec => PromptKept
<1>1. Init => PromptsBelow
  BY DEF Init, PromptsBelow
<1>2. Inv /\ PromptsBelow /\ [Next]_vars => PromptsBelow'
  BY PromptsBelowStep
<1>3. Inv /\ PromptsBelow /\ [Next]_vars =>
        [\A n \in 1..asked : Stored(n) /\ (HasAnswer(n) \/ n = asked) => Stored(n)']_vars
  <2> SUFFICES ASSUME Inv, PromptsBelow, [Next]_vars,
                      NEW n, Stored(n), HasAnswer(n) \/ n = asked
               PROVE  Stored(n)'
    OBVIOUS
  <2>1. CASE UNCHANGED branch
    BY <2>1 DEF Stored
  <2>2. CASE Grown
    <3>. HIDE DEF Items
    <3>1. PICK i \in DOMAIN branch : branch[i] = PromptItem(n)
      BY DEF Stored
    <3>2. branch \in Seq(Items) /\ branch' \in Seq(Items)
      BY <2>2 DEF Inv, Typed, Grown, Continues
    <3>3. i \in DOMAIN branch' /\ branch'[i] = PromptItem(n)
      BY <2>2, <3>1, <3>2 DEF Grown, Continues
    <3>. QED  BY <3>3 DEF Stored
  <2>. QED  BY <2>1, <2>2, BranchMoves, CutKeepsPrompts DEF Inv
<1>. QED  BY <1>1, <1>2, <1>3, InvHolds, PTL DEF Spec, PromptKept

(***************************************************************************)
(* One answer for each prompt.                                             *)
(***************************************************************************)

\* Between two answers there is a prompt; after the last answer there is one.
Spaced(s) ==
    \A i, j \in DOMAIN s :
        i < j /\ s[i].item = "answer" /\ s[j].item = "answer" =>
            \E p \in (i + 1)..(j - 1) : s[p].item = "prompt"

Closed(s) ==
    \A i \in DOMAIN s :
        s[i].item = "answer" => \E p \in (i + 1)..Len(s) : s[p].item = "prompt"

\* Where the run goes on with an answer and without a prompt, none is left to repeat.
AnswersSpaced ==
    /\ Spaced(branch)
    /\ pc \in {"compacting", "recovering", "retrying"} => Closed(branch)

\* An answer may come only after a prompt, anything else at any time.
LEMMA AddSpaced ==
  ASSUME NEW s \in Seq(Items), NEW x \in Items, Spaced(s)
  PROVE  /\ Closed(s) \/ x.item # "answer" => Spaced(s \o <<x>>)
         /\ x.item = "prompt" => Closed(s \o <<x>>)
         /\ Closed(s) /\ x.item # "answer" => Closed(s \o <<x>>)
<1> DEFINE t == s \o <<x>>
<1>1. /\ t \in Seq(Items) /\ Len(t) = Len(s) + 1 /\ Len(s) \in Nat
      /\ t[Len(s) + 1] = x /\ \A i \in 1..Len(s) : t[i] = s[i]
      /\ DOMAIN s = 1..Len(s) /\ DOMAIN t = 1..Len(t)
  <2>. HIDE DEF Items
  <2>1. Continues(s, t) /\ Len(t) = Len(s) + 1 /\ t[Len(s) + 1] = x
    BY AddItem
  <2>. QED  BY <2>1 DEF Continues
<1>. HIDE DEF t, Items
<1>2. ASSUME Closed(s) \/ x.item # "answer" PROVE Spaced(t)
  <2> SUFFICES ASSUME NEW i \in 1..Len(t), NEW j \in 1..Len(t), i < j,
                      t[i].item = "answer", t[j].item = "answer"
               PROVE  \E p \in (i + 1)..(j - 1) : t[p].item = "prompt"
    BY <1>1 DEF Spaced
  <2>1. i \in 1..Len(s) /\ s[i].item = "answer"
    BY <1>1
  <2>2. CASE j \in 1..Len(s)
    <3>1. PICK p \in (i + 1)..(j - 1) : s[p].item = "prompt"
      BY <1>1, <2>1, <2>2 DEF Spaced
    <3>2. p \in 1..Len(s)
      BY <1>1, <2>2
    <3>. QED  BY <1>1, <3>1, <3>2
  <2>3. CASE j = Len(s) + 1
    <3>1. Closed(s)
      BY <1>1, <1>2, <2>3
    <3>2. PICK p \in (i + 1)..Len(s) : s[p].item = "prompt"
      BY <1>1, <2>1, <3>1 DEF Closed
    <3>3. p \in 1..Len(s) /\ p \in (i + 1)..(j - 1)
      BY <1>1, <2>3
    <3>. QED  BY <1>1, <3>2, <3>3
  <2>. QED  BY <1>1, <2>2, <2>3
<1>3. ASSUME x.item = "prompt" PROVE Closed(t)
  <2> SUFFICES ASSUME NEW i \in 1..Len(t), t[i].item = "answer"
               PROVE  \E p \in (i + 1)..Len(t) : t[p].item = "prompt"
    BY <1>1 DEF Closed
  <2>1. Len(t) \in (i + 1)..Len(t)
    BY <1>1, <1>3
  <2>. QED  BY <1>1, <1>3, <2>1
<1>4. ASSUME Closed(s), x.item # "answer" PROVE Closed(t)
  <2> SUFFICES ASSUME NEW i \in 1..Len(t), t[i].item = "answer"
               PROVE  \E p \in (i + 1)..Len(t) : t[p].item = "prompt"
    BY <1>1 DEF Closed
  <2>1. i \in 1..Len(s) /\ s[i].item = "answer"
    BY <1>1, <1>4
  <2>2. PICK p \in (i + 1)..Len(s) : s[p].item = "prompt"
    BY <1>1, <1>4, <2>1 DEF Closed
  <2>3. p \in 1..Len(s) /\ p \in (i + 1)..Len(t)
    BY <1>1
  <2>. QED  BY <1>1, <2>2, <2>3
<1>. QED  BY <1>2, <1>3, <1>4 DEF t

\* A prompt, then an answer or what a failed run leaves.
LEMMA AddPromptSpaced ==
  ASSUME branch \in Seq(Items), asked \in 1..MaxPrompts, Spaced(branch)
  PROVE  /\ branch \o <<PromptItem(asked)>> \in Seq(Items)
         /\ Spaced(branch \o <<PromptItem(asked)>>) /\ Closed(branch \o <<PromptItem(asked)>>)
<1>. HIDE DEF Items
<1>1. PromptItem(asked) \in Items /\ PromptItem(asked).item = "prompt"
  BY ItemsBuilt DEF PromptItem
<1>. QED  BY <1>1, AddItem, AddSpaced DEF Continues

LEMMA AddAnswerSpaced ==
  ASSUME NEW s \in Seq(Items), Spaced(s), Closed(s), NEW k \in Kinds, NEW m \in Models
  PROVE  Spaced(s \o <<AnswerItem(k, m)>>)
BY ItemsBuilt, AddSpaced

LEMMA AddLeftOverSpaced ==
  ASSUME NEW s \in Seq(Items), Spaced(s), Closed(s), NEW left \in LeftOver, stateModel \in Models
  PROVE  Spaced(s \o left)
<1>. HIDE DEF Items
<1>1. CASE left = <<>>
  BY <1>1, ConcatEmptySeq
<1>2. ASSUME NEW k \in {"stop", "retryable", "fatal"}, left = <<AnswerItem(k, stateModel)>>
      PROVE  Spaced(s \o left)
  BY <1>2, AddAnswerSpaced DEF Kinds
<1>. QED  BY <1>1, <1>2 DEF LeftOver

\* Taking the last answer back leaves none after the last prompt.
LEMMA CutSpaced ==
  ASSUME branch \in Seq(Items), Cut, Spaced(branch)
  PROVE  Spaced(branch') /\ Closed(branch')
<1>. HIDE DEF Items
<1> DEFINE n == LastAnswer
<1>1. /\ n \in 1..Len(branch) /\ Len(branch') = n - 1 /\ branch' \in Seq(Items)
      /\ \A i \in 1..Len(branch') : branch'[i] = branch[i]
      /\ Len(branch) \in Nat /\ branch[n].item = "answer"
  BY CutIsPrefix, LastAnswerIsLast DEF Cut, Answers
<1>. HIDE DEF n
<1>2. DOMAIN branch' = 1..(n - 1) /\ DOMAIN branch = 1..Len(branch)
  BY <1>1
<1>3. ASSUME NEW i \in 1..(n - 1), NEW j \in (i + 1)..n,
             branch[i].item = "answer", branch[j].item = "answer"
      PROVE  \E p \in (i + 1)..(j - 1) : branch'[p].item = "prompt"
  <2>0. i \in 1..Len(branch) /\ j \in 1..Len(branch) /\ i < j
    BY <1>1
  <2>1. PICK p \in (i + 1)..(j - 1) : branch[p].item = "prompt"
    BY <1>2, <1>3, <2>0 DEF Spaced
  <2>2. p \in 1..Len(branch')
    BY <1>1, <1>3
  <2>. QED  BY <1>1, <2>1, <2>2
<1>4. Spaced(branch')
  <2> SUFFICES ASSUME NEW i \in 1..(n - 1), NEW j \in 1..(n - 1), i < j,
                      branch'[i].item = "answer", branch'[j].item = "answer"
               PROVE  \E p \in (i + 1)..(j - 1) : branch'[p].item = "prompt"
    BY <1>2 DEF Spaced
  <2>1. j \in (i + 1)..n /\ branch[i].item = "answer" /\ branch[j].item = "answer"
    BY <1>1
  <2>. QED  BY <1>3, <2>1
<1>5. ASSUME NEW i \in 1..(n - 1), branch'[i].item = "answer"
      PROVE  \E p \in (i + 1)..Len(branch') : branch'[p].item = "prompt"
  <2>1. n \in (i + 1)..n /\ branch[i].item = "answer"
    BY <1>1, <1>5
  <2>. QED  BY <1>1, <1>3, <2>1
<1>. QED  BY <1>2, <1>4, <1>5 DEF Closed

LEMMA AnswersSpacedStep ==
  ASSUME Inv, AnswersSpaced, [Next]_vars
  PROVE  AnswersSpaced'
<1>. HIDE DEF Items
<1>1. /\ branch \in Seq(Items) /\ stateModel \in Models /\ model \in Models
      /\ pc # "idle" => asked \in 1..MaxPrompts
  BY DEF Inv, Typed, Answering
<1>2. Spaced(branch)
  BY DEF AnswersSpaced
<1>3. ASSUME Spaced(branch'), pc' \notin {"compacting", "recovering", "retrying"} \/ Closed(branch')
      PROVE  AnswersSpaced'
  BY <1>3 DEF AnswersSpaced
<1>4. ASSUME PromptReturns PROVE AnswersSpaced'
  <2>1. PICK k \in Kinds, m \in {stateModel, model} :
          branch' = branch \o <<PromptItem(asked)>> \o <<AnswerItem(k, m)>>
    BY <1>4 DEF PromptReturns, Answered
  <2>2. Spaced(branch')
    BY <1>1, <1>2, <1>4, <2>1, AddPromptSpaced, AddAnswerSpaced DEF PromptReturns
  <2>. QED  BY <1>3, <1>4, <2>2 DEF PromptReturns, Goto
<1>5. ASSUME PromptFails PROVE AnswersSpaced'
  <2>1. ASSUME NEW left \in LeftOver, branch' = branch \o <<PromptItem(asked)>> \o left
        PROVE  Spaced(branch')
    BY <1>1, <1>2, <1>5, <2>1, AddPromptSpaced, AddLeftOverSpaced DEF PromptFails
  <2>2. Spaced(branch')
    BY <1>2, <1>5, <2>1 DEF PromptFails
  <2>. QED  BY <1>3, <1>5, <2>2 DEF PromptFails, Goto
<1>6. ASSUME RecoveryMoves PROVE AnswersSpaced'
  <2>1. UNCHANGED branch \/ Cut
    BY <1>6 DEF RecoveryMoves, MayRecover, Cut
  <2>2. Spaced(branch') /\ (Cut => Closed(branch'))
    BY <1>1, <1>2, <2>1, CutSpaced
  <2>3. pc' = "retry_check" \/ Cut
    BY <1>6 DEF RecoveryMoves, MayRecover, Cut, Goto
  <2>4. pc' \in {"compacting", "retry_check"}
    BY <1>6 DEF RecoveryMoves, Goto
  <2>. QED  BY <1>3, <2>2, <2>3, <2>4
<1>7. ASSUME RecoveryCompacts PROVE AnswersSpaced'
  <2>1. Closed(branch)
    BY <1>7 DEF RecoveryCompacts, AnswersSpaced
  <2>2. CASE branch' = Append(branch, CompactionItem)
    <3>1. CompactionItem \in Items /\ CompactionItem.item = "compaction"
      BY ItemsBuilt DEF CompactionItem
    <3>2. branch' = branch \o <<CompactionItem>>
      BY <1>1, <2>2, <3>1, AddItem
    <3>. QED  BY <1>1, <1>2, <1>3, <2>1, <3>1, <3>2, AddSpaced
  <2>3. CASE UNCHANGED branch
    BY <1>2, <1>3, <2>1, <2>3
  <2>. QED  BY <1>7, <2>2, <2>3 DEF RecoveryCompacts
<1>8. ASSUME RecoveryContinues PROVE AnswersSpaced'
  <2>1. PICK k \in Kinds, m \in {stateModel, model} : branch' = branch \o <<>> \o <<AnswerItem(k, m)>>
    BY <1>8 DEF RecoveryContinues, Answered
  <2>2. branch' = branch \o <<AnswerItem(k, m)>> /\ Closed(branch)
    BY <1>1, <1>8, <2>1, ConcatEmptySeq DEF RecoveryContinues, AnswersSpaced
  <2>3. Spaced(branch')
    BY <1>1, <1>2, <2>2, AddAnswerSpaced
  <2>. QED  BY <1>3, <1>8, <2>3 DEF RecoveryContinues, AfterRecovery, Goto
<1>9. ASSUME RecoveryFails \/ RetryFails PROVE AnswersSpaced'
  <2>1. PICK left \in LeftOver : branch' = branch \o left
    BY <1>9 DEF RecoveryFails, RetryFails
  <2>2. Spaced(branch')
    BY <1>1, <1>2, <1>9, <2>1, AddLeftOverSpaced DEF RecoveryFails, RetryFails, AnswersSpaced
  <2>. QED  BY <1>3, <1>9, <2>2 DEF RecoveryFails, RetryFails, LeaveRetry, Goto
<1>10. ASSUME Rewind PROVE AnswersSpaced'
  <2>1. Answers # {}
    BY <1>1, <1>10, EndIsAnswer DEF Rewind, Inv, Rewindable
  <2>2. UNCHANGED branch \/ Cut
    BY <1>10, <2>1 DEF Rewind, RewindTo, Cut
  <2>3. pc' = "settling" \/ (pc' = "retrying" /\ Cut)
    BY <1>10, <2>1 DEF Rewind, RewindTo, Cut, LeaveRetry, Goto
  <2>. QED  BY <1>1, <1>2, <1>3, <2>2, <2>3, CutSpaced
<1>11. ASSUME RetryReturns PROVE AnswersSpaced'
  <2>1. PICK k \in Kinds, m \in {stateModel, model} : branch' = Append(branch, AnswerItem(k, m))
    BY <1>11 DEF RetryReturns
  <2>2. AnswerItem(k, m) \in Items
    BY <1>1, ItemsBuilt
  <2>3. branch' = branch \o <<AnswerItem(k, m)>> /\ Closed(branch)
    BY <1>1, <1>11, <2>1, <2>2, AddItem DEF RetryReturns, AnswersSpaced
  <2>4. Spaced(branch')
    BY <1>1, <1>2, <2>3, AddAnswerSpaced
  <2>5. pc' \in {"retry_loop", "settling"}
    BY <1>11 DEF RetryReturns, LeaveRetry, Goto
  <2>. QED  BY <1>3, <2>4, <2>5
<1>12. ASSUME UNCHANGED branch,
              pc' \notin {"compacting", "recovering", "retrying"} \/ UNCHANGED pc
       PROVE  AnswersSpaced'
  BY <1>12 DEF AnswersSpaced
<1>13. ASSUME Prompt \/ EmitInput \/ Accept \/ NoRecovery \/ RetryCheck \/ RetryAgain \/ RetryGivesUp
       PROVE  AnswersSpaced'
  BY <1>12, <1>13 DEF Prompt, EmitInput, Accept, NoRecovery, RetryCheck, RetryAgain, RetryGivesUp,
     AfterRecovery, LeaveRetry, Goto
<1>14. ASSUME BackoffCancelled \/ BackoffAborted \/ Sleep \/ BackoffElapses \/ Return
       PROVE  AnswersSpaced'
  BY <1>12, <1>14 DEF BackoffCancelled, BackoffAborted, Sleep, BackoffElapses, Return, LeaveRetry, Goto
<1>15. ASSUME Cancel \/ AbortRetry \/ SetAutoRetry \/ SetAutoCompaction \/ SetModel \/ UNCHANGED vars
       PROVE  AnswersSpaced'
  BY <1>12, <1>15 DEF Cancel, AbortRetry, SetAutoRetry, SetAutoCompaction, SetModel, unset, vars
<1>. QED
  BY <1>4, <1>5, <1>6, <1>7, <1>8, <1>9, <1>10, <1>11, <1>13, <1>14, <1>15 DEF Next, RunStep

\* Retries and recoveries, in any number and however they fail, replace the
\* answer they repeat: between two prompts the branch has one answer at most
\* (prepareRetryAssistant, recoverContextOverflow).
THEOREM AnswersReplaced == Spec => []OneAnswerEach
<1>1. Init => AnswersSpaced
  BY DEF Init, AnswersSpaced, Spaced, Closed
<1>2. Inv /\ AnswersSpaced /\ [Next]_vars => AnswersSpaced'
  BY AnswersSpacedStep
<1>3. AnswersSpaced => OneAnswerEach
  BY DEF AnswersSpaced, Spaced, OneAnswerEach, Answers
<1>. QED  BY <1>1, <1>2, <1>3, InvHolds, PTL DEF Spec

(***************************************************************************)
(* What a client is told of the retries.                                   *)
(***************************************************************************)

Events ==
    [type : {"compaction_start", "compaction_end"}]
    \cup [type : {"agent_end"}, willRetry : BOOLEAN]
    \cup [type : {"auto_retry_start"}, attempt : Nat]
    \cup [type : {"auto_retry_end"}, attempt : Nat, success : BOOLEAN]

HasEnd(s) == \E i \in 1..Len(s) : s[i].type = "auto_retry_end"

\* The retries of s are n, numbered, and an end is the last that is said of them.
Numbered(s, n) ==
    /\ n = Cardinality(Starts(s, Len(s)))
    /\ \A i \in 1..Len(s) : IsRetryEvent(s[i]) =>
        /\ s[i].attempt = Cardinality(Starts(s, i))
        /\ s[i].attempt \in 1..MaxRetries
        /\ s[i].type = "auto_retry_end" => \A j \in (i + 1)..Len(s) : ~IsRetryEvent(s[j])

\* Every agent_end of s is right, if a retry is due at the end of s or not.
Foretold(s, due) ==
    \A i \in 1..Len(s) : s[i].type = "agent_end" =>
        (s[i].willRetry <=> IF i < Len(s) THEN s[i + 1].type = "auto_retry_start" ELSE due)

LEMMA EventsBuilt ==
  /\ \A y \in {"compaction_start", "compaction_end"} :
        Event(y) \in Events /\ Event(y).type = y
  /\ \A w \in BOOLEAN :
        AgentEnd(w) \in Events /\ AgentEnd(w).type = "agent_end" /\ AgentEnd(w).willRetry = w
  /\ \A n \in Nat :
        RetryStart(n) \in Events /\ RetryStart(n).type = "auto_retry_start" /\ RetryStart(n).attempt = n
  /\ \A n \in Nat, ok \in BOOLEAN :
        /\ RetryEnd(n, ok) \in Events
        /\ RetryEnd(n, ok).type = "auto_retry_end" /\ RetryEnd(n, ok).attempt = n
  BY DEF Events, Event, AgentEnd, RetryStart, RetryEnd

LEMMA NothingTold ==
  Numbered(<<>>, 0) /\ ~HasEnd(<<>>) /\ \A due : Foretold(<<>>, due)
<1>1. Starts(<<>>, Len(<<>>)) = {}
  BY DEF Starts
<1>. QED  BY <1>1, FS_EmptySet DEF Numbered, HasEnd, Foretold

\* Two at once are one after the other.
LEMMA OneByOne ==
  ASSUME NEW S, NEW s \in Seq(S), NEW x \in S, NEW y \in S
  PROVE  s \o <<x, y>> = (s \o <<x>>) \o <<y>>
<1> DEFINE u == <<x>> \o <<y>>
<1>2. <<x>> \in Seq(S) /\ <<y>> \in Seq(S) /\ <<x, y>> \in Seq(S)
  OBVIOUS
<1>3. u = <<x, y>>
  <2>1. u \in Seq(S) /\ Len(u) = 2 /\ u[1] = x /\ u[2] = y
    BY <1>2, ConcatProperties
  <2>2. Len(<<x, y>>) = 2 /\ <<x, y>>[1] = x /\ <<x, y>>[2] = y
    OBVIOUS
  <2>3. \A i \in 1..Len(u) : i = 1 \/ i = 2
    BY <2>1
  <2>. HIDE DEF u
  <2>. QED  BY <1>2, <2>1, <2>2, <2>3, SeqEqual
<1>4. (s \o <<x>>) \o <<y>> = s \o (<<x>> \o <<y>>)
  BY <1>2, ConcatAssociative
<1>. QED  BY <1>3, <1>4

\* One more event.
LEMMA OneMore ==
  ASSUME NEW s \in Seq(Events), NEW e \in Events
  PROVE  /\ s \o <<e>> \in Seq(Events) /\ Len(s \o <<e>>) = Len(s) + 1
         /\ (s \o <<e>>)[Len(s) + 1] = e
         /\ \A i \in 1..Len(s) : (s \o <<e>>)[i] = s[i] /\ Starts(s \o <<e>>, i) = Starts(s, i)
         /\ Starts(s \o <<e>>, Len(s) + 1) =
               IF e.type = "auto_retry_start" THEN Starts(s, Len(s)) \cup {Len(s) + 1}
                                              ELSE Starts(s, Len(s))
         /\ IsFiniteSet(Starts(s, Len(s))) /\ Len(s) + 1 \notin Starts(s, Len(s))
<1> DEFINE t == s \o <<e>>
<1>. HIDE DEF Events
<1>1. /\ t \in Seq(Events) /\ Len(t) = Len(s) + 1 /\ Len(s) \in Nat
      /\ t[Len(s) + 1] = e /\ \A i \in 1..Len(s) : t[i] = s[i]
  <2>1. t = Append(s, e)
    BY AppendIsConcat
  <2>. HIDE DEF t
  <2>. QED  BY <2>1, AppendProperties
<1>. HIDE DEF t
<1>2. \A i \in 1..Len(s) : Starts(t, i) = Starts(s, i)
  BY <1>1 DEF Starts
<1>3. Starts(t, Len(s) + 1) =
          IF e.type = "auto_retry_start" THEN Starts(s, Len(s)) \cup {Len(s) + 1} ELSE Starts(s, Len(s))
  BY <1>1 DEF Starts
<1>4. IsFiniteSet(Starts(s, Len(s))) /\ Len(s) + 1 \notin Starts(s, Len(s))
  <2>1. IsFiniteSet(1..Len(s)) /\ Starts(s, Len(s)) \subseteq 1..Len(s)
    BY <1>1, FS_Interval DEF Starts
  <2>. QED  BY <1>1, <2>1, FS_Subset DEF Starts
<1>. QED  BY <1>1, <1>2, <1>3, <1>4 DEF t

LEMMA TellNumbered ==
  ASSUME NEW s \in Seq(Events), NEW e \in Events, NEW n \in 0..MaxRetries, Numbered(s, n)
  PROVE  /\ ~IsRetryEvent(e) =>
               Numbered(s \o <<e>>, n) /\ (HasEnd(s \o <<e>>) <=> HasEnd(s))
         /\ ~HasEnd(s) /\ n < MaxRetries /\ e = RetryStart(n + 1) =>
               Numbered(s \o <<e>>, n + 1) /\ ~HasEnd(s \o <<e>>)
         /\ \A ok \in BOOLEAN : ~HasEnd(s) /\ n > 0 /\ e = RetryEnd(n, ok) =>
               Numbered(s \o <<e>>, n) /\ HasEnd(s \o <<e>>)
<1> DEFINE t == s \o <<e>>
           l == Len(s)
<1>. HIDE DEF Events
<1>0. MaxRetries \in Nat
  BY PromptBounds
<1>1. /\ l \in Nat /\ Len(t) = l + 1 /\ t[l + 1] = e
      /\ \A i \in 1..l : t[i] = s[i] /\ Starts(t, i) = Starts(s, i)
      /\ Starts(t, l + 1) = IF e.type = "auto_retry_start" THEN Starts(s, l) \cup {l + 1}
                                                            ELSE Starts(s, l)
      /\ IsFiniteSet(Starts(s, l)) /\ l + 1 \notin Starts(s, l)
      /\ Cardinality(Starts(s, l)) = n
  <2>1. Cardinality(Starts(s, l)) = n /\ l \in Nat
    BY DEF Numbered
  <2>. QED  BY <2>1, OneMore
<1>2. Cardinality(Starts(t, l + 1)) = IF e.type = "auto_retry_start" THEN n + 1 ELSE n
  BY <1>1, FS_AddElement
<1>. HIDE DEF t, l
<1>3. \A i \in 1..Len(t) : i \in 1..l \/ i = l + 1
  BY <1>1
<1>4. ASSUME NEW i \in 1..l, IsRetryEvent(t[i]), IsRetryEvent(e) => ~HasEnd(s)
      PROVE  /\ t[i].attempt = Cardinality(Starts(t, i))
             /\ t[i].attempt \in 1..MaxRetries
             /\ t[i].type = "auto_retry_end" => \A j \in (i + 1)..Len(t) : ~IsRetryEvent(t[j])
  <2>1. /\ s[i] = t[i] /\ s[i].attempt = Cardinality(Starts(s, i)) /\ s[i].attempt \in 1..MaxRetries
        /\ s[i].type = "auto_retry_end" => \A j \in (i + 1)..l : ~IsRetryEvent(s[j])
    BY <1>1, <1>4 DEF Numbered, l
  <2>2. ASSUME t[i].type = "auto_retry_end", NEW j \in (i + 1)..Len(t)
        PROVE  ~IsRetryEvent(t[j])
    <3>1. HasEnd(s)
      BY <2>1, <2>2 DEF HasEnd, l
    <3>2. j \in (i + 1)..l \/ j = l + 1
      BY <1>1
    <3>3. j \in (i + 1)..l => j \in 1..l
      BY <1>1
    <3>. QED  BY <1>1, <1>4, <2>1, <2>2, <3>1, <3>2, <3>3
  <2>. QED  BY <1>1, <2>1, <2>2
<1>5. \A i \in (l + 2)..Len(t) : FALSE
  BY <1>1
<1>6. HasEnd(t) <=> HasEnd(s) \/ e.type = "auto_retry_end"
  <2>1. HasEnd(s) <=> \E i \in 1..l : s[i].type = "auto_retry_end"
    BY DEF HasEnd, l
  <2>2. \A i \in 1..l : i \in 1..Len(t)
    BY <1>1
  <2>3. l + 1 \in 1..Len(t)
    BY <1>1
  <2>. QED  BY <1>1, <1>3, <2>1, <2>2, <2>3 DEF HasEnd
<1>7. CASE ~IsRetryEvent(e)
  <2>1. e.type # "auto_retry_start" /\ e.type # "auto_retry_end"
    BY <1>7 DEF IsRetryEvent
  <2>2. Numbered(t, n)
    BY <1>1, <1>2, <1>3, <1>4, <1>7, <2>1 DEF Numbered
  <2>3. e # RetryStart(n + 1) /\ \A ok \in BOOLEAN : e # RetryEnd(n, ok)
    BY <2>1 DEF RetryStart, RetryEnd
  <2>. QED  BY <1>6, <2>1, <2>2, <2>3 DEF t
<1>8. ASSUME ~HasEnd(s), n < MaxRetries, e = RetryStart(n + 1)
      PROVE  Numbered(t, n + 1) /\ ~HasEnd(t) /\ IsRetryEvent(e)
  <2>1. e.type = "auto_retry_start" /\ e.attempt = n + 1 /\ n + 1 \in 1..MaxRetries
    BY <1>0, <1>8 DEF RetryStart
  <2>2. Numbered(t, n + 1)
    BY <1>1, <1>2, <1>3, <1>4, <1>8, <2>1 DEF Numbered
  <2>. QED  BY <1>6, <1>8, <2>1, <2>2 DEF IsRetryEvent
<1>9. ASSUME NEW ok \in BOOLEAN, ~HasEnd(s), n > 0, e = RetryEnd(n, ok)
      PROVE  Numbered(t, n) /\ HasEnd(t) /\ IsRetryEvent(e)
  <2>1. e.type = "auto_retry_end" /\ e.attempt = n /\ n \in 1..MaxRetries
    BY <1>0, <1>9 DEF RetryEnd
  <2>2. \A j \in (l + 1 + 1)..Len(t) : ~IsRetryEvent(t[j])
    BY <1>1
  <2>3. Numbered(t, n)
    BY <1>1, <1>2, <1>3, <1>4, <1>9, <2>1, <2>2 DEF Numbered
  <2>. QED  BY <1>6, <2>1, <2>3 DEF IsRetryEvent
<1>. QED  BY <1>7, <1>8, <1>9 DEF t

LEMMA TellForetold ==
  ASSUME NEW s \in Seq(Events), NEW e \in Events, NEW due, Foretold(s, due),
         due <=> e.type = "auto_retry_start",
         NEW next, e.type = "agent_end" => (e.willRetry <=> next)
  PROVE  Foretold(s \o <<e>>, next)
<1> DEFINE t == s \o <<e>>
           l == Len(s)
<1>. HIDE DEF Events
<1>1. l \in Nat /\ Len(t) = l + 1 /\ t[l + 1] = e /\ \A i \in 1..l : t[i] = s[i]
  BY OneMore
<1>. HIDE DEF t
<1> SUFFICES ASSUME NEW i \in 1..Len(t), t[i].type = "agent_end"
             PROVE  t[i].willRetry <=> IF i < Len(t) THEN t[i + 1].type = "auto_retry_start" ELSE next
  BY DEF Foretold, t
<1>2. CASE i = l + 1
  BY <1>1, <1>2
<1>3. CASE i \in 1..l
  <2>1. s[i].type = "agent_end" /\ t[i] = s[i]
    BY <1>1, <1>3
  <2>2. s[i].willRetry <=> IF i < l THEN s[i + 1].type = "auto_retry_start" ELSE due
    BY <1>3, <2>1 DEF Foretold
  <2>3. CASE i = l
    <3>1. t[i + 1] = e /\ i < Len(t)
      BY <1>1, <2>3
    <3>. QED  BY <2>1, <2>2, <2>3, <3>1
  <2>4. CASE i # l
    <3>1. i < l /\ i < Len(t) /\ i + 1 \in 1..l
      BY <1>1, <1>3, <2>4
    <3>2. t[i + 1] = s[i + 1]
      BY <1>1, <3>1
    <3>. QED  BY <2>1, <2>2, <3>1, <3>2
  <2>. QED  BY <2>3, <2>4
<1>. QED  BY <1>1, <1>2, <1>3

\* A retry is due: the loop is about to begin or to go round.
Due ==
    /\ pc \in {"recover", "retry_check", "retry_loop"}
    /\ retryOn /\ attempt < MaxRetries /\ IsRetryable(msg)

Backing == pc \in {"waiting", "sleeping", "rewinding", "retrying"}
Looping == pc = "retry_loop" \/ Backing
Over == pc \in {"settling", "idle"}

\* Nobody has disturbed the run.
Calm == flips = 0 /\ faults = 0 /\ ~cancelled

\* Before the loop nothing has been announced; in it the retries are numbered and not
\* ended; after it they are, but for a cancellation or a fault.
Following ==
    /\ events \in Seq(Events)
    /\ ~Over => Numbered(events, attempt) /\ ~HasEnd(events)
    /\ ~Over /\ ~Looping => attempt = 0
    /\ Backing => attempt > 0
    /\ pc = "retry_loop" => IsError(msg)
    /\ Over => \E n \in 0..MaxRetries :
            /\ Numbered(events, n)
            /\ ~cancelled /\ faults = 0 /\ n > 0 => HasEnd(events)

\* What foretells a retry is right so far, and right of the next step.
Foretelling ==
    /\ faults \in Nat /\ flips \in Nat
    /\ pc = "recover" => msg = IF before THEN "none" ELSE branch[Len(branch)].kind
    /\ flips = 0 /\ Looping => loopOn = retryOn
    /\ Calm => Foretold(events, Due)

\* A step that tells nothing and stays where it was.
LEMMA SilentFollows ==
  ASSUME Following, UNCHANGED <<events, attempt>>,
         Over <=> Over', Looping <=> Looping', Backing' => Backing,
         pc' = "retry_loop" => IsError(msg'),
         Over => (~cancelled' => ~cancelled) /\ (faults' = 0 => faults = 0)
  PROVE  Following'
<1>1. CASE Over
  <2>1. PICK n \in 0..MaxRetries :
            Numbered(events, n) /\ (~cancelled /\ faults = 0 /\ n > 0 => HasEnd(events))
    BY <1>1 DEF Following
  <2>2. Numbered(events', n) /\ (~cancelled' /\ faults' = 0 /\ n > 0 => HasEnd(events'))
    BY <1>1, <2>1
  <2>3. ~Backing' /\ pc' # "retry_loop"
    BY <1>1 DEF Over, Backing
  <2>. QED  BY <1>1, <2>2, <2>3 DEF Following
<1>2. CASE ~Over
  BY <1>2 DEF Following
<1>. QED  BY <1>1, <1>2

\* A step of the run that tells something else than a retry.
LEMMA TellFollows ==
  ASSUME Typed, Following, ~Over, ~Over', UNCHANGED attempt,
         NEW e \in Events, ~IsRetryEvent(e), events' = events \o <<e>>,
         Looping => Looping' /\ attempt > 0, Looping' => Looping, pc' = "retry_loop" => IsError(msg')
  PROVE  Following'
<1>1. Numbered(events, attempt) /\ ~HasEnd(events) /\ events \in Seq(Events)
  BY DEF Following
<1>2. Numbered(events', attempt) /\ ~HasEnd(events')
  BY <1>1, TellNumbered DEF Typed
<1>3. events' \in Seq(Events)
  BY <1>1, OneMore
<1>4. Backing' => Looping
  BY DEF Looping
<1>. QED  BY <1>2, <1>3, <1>4 DEF Following

\* The way out, with an end or without.
LEMMA LeaveFollows ==
  ASSUME Typed, Following, ~Over, Over',
         \/ /\ UNCHANGED events
            /\ ~cancelled' /\ faults' = 0 => attempt = 0
         \/ /\ attempt > 0
            /\ \E ok \in BOOLEAN : events' = events \o <<RetryEnd(attempt, ok)>>
  PROVE  Following'
<1>1. /\ Numbered(events, attempt) /\ ~HasEnd(events) /\ events \in Seq(Events)
      /\ attempt \in 0..MaxRetries /\ MaxRetries \in Nat
  BY PromptBounds DEF Following, Typed
<1>2. ~Backing' /\ pc' # "retry_loop"
  BY DEF Over, Backing
<1>3. CASE UNCHANGED events /\ (~cancelled' /\ faults' = 0 => attempt = 0)
  <2>1. Numbered(events', attempt) /\ (~cancelled' /\ faults' = 0 /\ attempt > 0 => HasEnd(events'))
    BY <1>1, <1>3
  <2>. QED  BY <1>1, <1>2, <1>3, <2>1 DEF Following
<1>4. ASSUME attempt > 0, NEW ok \in BOOLEAN, events' = events \o <<RetryEnd(attempt, ok)>>
      PROVE  Following'
  <2>1. RetryEnd(attempt, ok) \in Events
    BY <1>1, EventsBuilt
  <2>2. Numbered(events', attempt) /\ HasEnd(events')
    BY <1>1, <1>4, <2>1, TellNumbered
  <2>3. events' \in Seq(Events)
    BY <1>1, <1>4, <2>1, OneMore
  <2>. QED  BY <1>1, <1>2, <2>2, <2>3 DEF Following
<1>. QED  BY <1>3, <1>4

LEMMA FollowingStep ==
  ASSUME Typed, Following, Foretelling, [Next]_vars
  PROVE  Following'
<1>1. /\ attempt \in 0..MaxRetries /\ MaxRetries \in Nat /\ events \in Seq(Events) /\ faults \in Nat
      /\ cancelled \in BOOLEAN
      /\ \A k \in Kinds : (retryOn /\ attempt < MaxRetries /\ IsRetryable(k)) \in BOOLEAN
  BY PromptBounds DEF Typed, Following, Foretelling
<1>. USE DEF Goto, Publish
<1>2. ASSUME Prompt PROVE Following'
  <2>1. events' = <<>> /\ attempt' = 0 /\ pc' = "input"
    BY <1>2 DEF Prompt
  <2>2. events' \in Seq(Events)
    BY <2>1
  <2>. QED  BY <2>1, <2>2, NothingTold DEF Following, Over, Looping, Backing
\* Before the loop.
<1>3. ASSUME EmitInput \/ Accept \/ NoRecovery \/ PromptFails \/ RecoveryFails PROVE Following'
  <2>1. UNCHANGED <<events, attempt>>
    BY <1>3 DEF EmitInput, Accept, NoRecovery, PromptFails, RecoveryFails, retry
  <2>2. /\ pc \in {"input", "accept", "recover", "prompting", "recovering"}
        /\ pc' \in {"recover", "retry_check", "prompting", "accept"}
    BY <1>3 DEF EmitInput, Accept, NoRecovery, PromptFails, RecoveryFails, AfterRecovery
  <2>. QED  BY <2>1, <2>2, SilentFollows DEF Over, Looping, Backing
<1>4. ASSUME NEW e \in Events, ~IsRetryEvent(e), events' = events \o <<e>>, UNCHANGED attempt,
             pc \in {"prompting", "recover", "compacting", "recovering"},
             pc' \in {"recover", "compacting", "recovering", "accept", "retry_check"}
      PROVE  Following'
  BY <1>4, TellFollows DEF Over, Looping, Backing
<1>5. ASSUME PromptReturns PROVE Following'
  <2>1. PICK w \in BOOLEAN : events' = events \o <<AgentEnd(w)>>
    BY <1>1, <1>5 DEF PromptReturns, Answered
  <2>2. pc = "prompting" /\ pc' = "recover" /\ UNCHANGED attempt
    BY <1>5 DEF PromptReturns, retry
  <2>. QED  BY <1>4, <2>1, <2>2, EventsBuilt DEF IsRetryEvent
<1>6. ASSUME RecoveryContinues PROVE Following'
  <2>1. PICK w \in BOOLEAN : events' = events \o <<AgentEnd(w)>>
    BY <1>1, <1>6 DEF RecoveryContinues, Answered
  <2>2. pc = "recovering" /\ pc' \in {"accept", "retry_check"} /\ UNCHANGED attempt
    BY <1>6 DEF RecoveryContinues, AfterRecovery, retry
  <2>. QED  BY <1>4, <2>1, <2>2, EventsBuilt DEF IsRetryEvent
<1>7. ASSUME RecoveryCompacts PROVE Following'
  <2>1. events' = events \o <<Event("compaction_end")>> /\ UNCHANGED attempt
    BY <1>7 DEF RecoveryCompacts, retry
  <2>2. pc = "compacting" /\ pc' \in {"recovering", "retry_check"}
    BY <1>7 DEF RecoveryCompacts
  <2>. QED  BY <1>4, <2>1, <2>2, EventsBuilt DEF IsRetryEvent
<1>8. ASSUME RecoveryMoves PROVE Following'
  <2> DEFINE s == Event("compaction_start")
             e == Event("compaction_end")
  <2>1. pc = "recover" /\ pc' \in {"compacting", "retry_check"} /\ UNCHANGED attempt
    BY <1>8 DEF RecoveryMoves, retry
  <2>2. s \in Events /\ e \in Events /\ ~IsRetryEvent(s) /\ ~IsRetryEvent(e)
    BY EventsBuilt DEF IsRetryEvent
  <2>. HIDE DEF s, e
  <2>3. CASE events' = events \o <<s>>
    BY <1>4, <2>1, <2>2, <2>3
  <2>4. CASE events' = events \o <<s, e>>
    <3>1. events' = (events \o <<s>>) \o <<e>>
      BY <1>1, <2>2, <2>4, OneByOne
    <3>2. Numbered(events, attempt) /\ ~HasEnd(events) /\ attempt = 0
      BY <2>1 DEF Following, Over, Looping, Backing
    <3>3. /\ events \o <<s>> \in Seq(Events)
          /\ Numbered(events \o <<s>>, attempt) /\ ~HasEnd(events \o <<s>>)
      BY <1>1, <2>2, <3>2, OneMore, TellNumbered
    <3>4. events' \in Seq(Events) /\ Numbered(events', attempt) /\ ~HasEnd(events')
      BY <1>1, <2>2, <3>1, <3>3, OneMore, TellNumbered
    <3>. QED  BY <2>1, <3>2, <3>4 DEF Following, Over, Looping, Backing
  <2>. QED  BY <1>8, <2>3, <2>4 DEF RecoveryMoves, s, e
\* The loop.
<1>9. ASSUME RetryCheck PROVE Following'
  <2>1. pc = "retry_check" /\ UNCHANGED events /\ attempt = 0
    BY <1>9 DEF RetryCheck, Following, Over, Looping, Backing
  <2>2. CASE IsRetryableHere
    <3>1. pc' = "retry_loop" /\ UNCHANGED <<attempt, msg>> /\ IsError(msg)
      BY <1>9, <2>2 DEF RetryCheck, IsRetryableHere, IsRetryable, IsError
    <3>. QED  BY <2>1, <3>1 DEF Following, Over, Looping, Backing
  <2>3. CASE ~IsRetryableHere
    <3>1. pc' = "settling"
      BY <1>9, <2>3 DEF RetryCheck
    <3>. QED  BY <2>1, <3>1, LeaveFollows DEF Over
  <2>. QED  BY <2>2, <2>3
<1>10. ASSUME RetryAgain PROVE Following'
  <2>1. /\ pc = "retry_loop" /\ pc' = "waiting" /\ attempt < MaxRetries /\ attempt' = attempt + 1
        /\ events' = events \o <<RetryStart(attempt + 1)>>
    BY <1>10 DEF RetryAgain
  <2>2. Numbered(events, attempt) /\ ~HasEnd(events) /\ RetryStart(attempt + 1) \in Events
    BY <1>1, <2>1, EventsBuilt DEF Following, Over
  <2>3. events' \in Seq(Events) /\ Numbered(events', attempt') /\ ~HasEnd(events')
    BY <1>1, <2>1, <2>2, OneMore, TellNumbered
  <2>4. attempt' > 0
    BY <1>1, <2>1
  <2>. QED  BY <2>1, <2>3, <2>4 DEF Following, Over, Looping, Backing
<1>11. ASSUME RetryGivesUp PROVE Following'
  <2>1. pc = "retry_loop" /\ pc' = "settling" /\ IsError(msg)
    BY <1>11 DEF RetryGivesUp, LeaveRetry, Following
  <2>2. CASE attempt > 0
    <3>1. events' = events \o <<RetryEnd(attempt, FALSE)>>
      BY <1>11, <2>1, <2>2 DEF RetryGivesUp
    <3>. QED  BY <2>1, <2>2, <3>1, LeaveFollows DEF Over
  <2>3. CASE attempt = 0
    <3>1. events' = events \o <<>>
      BY <1>11, <2>3 DEF RetryGivesUp
    <3>2. events' = events
      BY <1>1, <3>1, ConcatEmptySeq
    <3>. QED  BY <2>1, <2>3, <3>2, LeaveFollows DEF Over
  <2>. QED  BY <1>1, <2>2, <2>3
<1>12. ASSUME BackoffCancelled PROVE Following'
  <2>1. pc \in {"waiting", "sleeping"} /\ pc' = "settling" /\ UNCHANGED events /\ cancelled' = TRUE
    BY <1>1, <1>12 DEF BackoffCancelled, LeaveRetry
  <2>. QED  BY <2>1, LeaveFollows DEF Over
<1>13. ASSUME BackoffAborted PROVE Following'
  <2>1. /\ pc \in {"waiting", "sleeping"} /\ pc' = "settling"
        /\ events' = events \o <<RetryEnd(attempt, FALSE)>>
    BY <1>13 DEF BackoffAborted, LeaveRetry
  <2>2. attempt > 0
    BY <2>1 DEF Following, Backing
  <2>. QED  BY <2>1, <2>2, LeaveFollows DEF Over
<1>14. ASSUME Sleep \/ BackoffElapses PROVE Following'
  <2>1. /\ pc \in {"waiting", "sleeping"} /\ pc' \in {"sleeping", "rewinding"}
        /\ UNCHANGED <<events, attempt>>
    BY <1>14 DEF Sleep, BackoffElapses, retry
  <2>. QED  BY <2>1, SilentFollows DEF Over, Looping, Backing
<1>15. ASSUME Fails PROVE cancelled \/ faults' # 0
  BY <1>1, <1>15 DEF Fails, Fault
<1>16. ASSUME Rewind \/ RetryFails PROVE Following'
  <2>1. pc \in {"rewinding", "retrying"} /\ UNCHANGED <<events, attempt, cancelled>>
    BY <1>16 DEF Rewind, RetryFails
  <2>2. pc' = "retrying" \/ (pc' = "settling" /\ Fails)
    BY <1>16 DEF Rewind, RetryFails, LeaveRetry
  <2>3. CASE pc' = "retrying"
    BY <2>1, <2>3, SilentFollows DEF Over, Looping, Backing
  <2>4. CASE pc' = "settling" /\ Fails
    BY <1>1, <1>15, <2>1, <2>4, LeaveFollows DEF Over
  <2>. QED  BY <2>2, <2>3, <2>4
<1>17. ASSUME RetryReturns PROVE Following'
  <2>1. pc = "retrying" /\ attempt > 0 /\ Numbered(events, attempt) /\ ~HasEnd(events)
    BY <1>17 DEF RetryReturns, Following, Over, Backing
  <2>2. PICK w \in BOOLEAN, ok \in BOOLEAN :
          \/ /\ events' = events \o <<AgentEnd(w)>>
             /\ pc' = "retry_loop" /\ IsError(msg') /\ UNCHANGED attempt
          \/ events' = events \o <<AgentEnd(w), RetryEnd(attempt, ok)>> /\ pc' = "settling"
    BY <1>1, <1>17 DEF RetryReturns, LeaveRetry
  <2>3. AgentEnd(w) \in Events /\ ~IsRetryEvent(AgentEnd(w)) /\ RetryEnd(attempt, ok) \in Events
    <3>1. AgentEnd(w) \in Events /\ AgentEnd(w).type = "agent_end"
      BY EventsBuilt
    <3>2. RetryEnd(attempt, ok) \in Events
      BY <1>1, EventsBuilt
    <3>. QED  BY <3>1, <3>2 DEF IsRetryEvent
  <2>4. CASE events' = events \o <<AgentEnd(w)>> /\ pc' = "retry_loop" /\ IsError(msg') /\ UNCHANGED attempt
    BY <2>1, <2>3, <2>4, TellFollows DEF Over, Looping, Backing
  <2>5. CASE events' = events \o <<AgentEnd(w), RetryEnd(attempt, ok)>> /\ pc' = "settling"
    <3> DEFINE x == AgentEnd(w)
               y == RetryEnd(attempt, ok)
               s == events \o <<x>>
    <3>1. s \in Seq(Events) /\ Numbered(s, attempt) /\ ~HasEnd(s)
      BY <1>1, <2>1, <2>3, OneMore, TellNumbered
    <3>2. events' = s \o <<y>>
      BY <1>1, <2>3, <2>5, OneByOne
    <3>3. Numbered(s \o <<y>>, attempt) /\ HasEnd(s \o <<y>>) /\ s \o <<y>> \in Seq(Events)
      <4>. HIDE DEF s
      <4>. QED  BY <1>1, <2>1, <2>3, <3>1, OneMore, TellNumbered
    <3>. QED  BY <1>1, <2>5, <3>2, <3>3 DEF Following, Over, Looping, Backing
  <2>. QED  BY <2>2, <2>4, <2>5
<1>18. ASSUME Return PROVE Following'
  <2>1. pc = "settling" /\ pc' = "idle" /\ UNCHANGED <<events, attempt, cancelled>>
    BY <1>18 DEF Return, retry
  <2>2. faults' = 0 => faults = 0
    BY <1>1, <1>18 DEF Return, Fault
  <2>. QED  BY <2>1, <2>2, SilentFollows DEF Over, Looping, Backing
<1>19. ASSUME Cancel \/ AbortRetry \/ SetAutoRetry \/ SetAutoCompaction \/ SetModel \/ UNCHANGED vars
       PROVE  Following'
  <2>1. UNCHANGED <<pc, msg, events, attempt, faults>> /\ (~cancelled' => ~cancelled)
    BY <1>19 DEF Cancel, AbortRetry, SetAutoRetry, SetAutoCompaction, SetModel, unset, vars, retry
  <2>2. pc' = "retry_loop" => IsError(msg')
    BY <2>1 DEF Following
  <2>. QED  BY <2>1, <2>2, SilentFollows DEF Over, Looping, Backing
<1>. QED
  BY <1>2, <1>3, <1>5, <1>6, <1>7, <1>8, <1>9, <1>10, <1>11, <1>12, <1>13, <1>14, <1>16, <1>17,
     <1>18, <1>19 DEF Next, RunStep

\* The counts of what disturbed a run grow, until a new prompt forgets the cancellation.
LEMMA CalmBefore ==
  ASSUME Typed, Foretelling, [Next]_vars, Calm', ~Prompt
  PROVE  /\ Calm /\ UNCHANGED <<retryOn, flips, faults>>
         /\ ~Fails /\ ~BackoffCancelled /\ ~Cancel
<1>1. faults \in Nat /\ flips \in Nat /\ cancelled \in BOOLEAN
  BY DEF Foretelling, Typed
<1>. USE DEF Calm
<1>2. ~Flip /\ ~Fault /\ ~(Fails /\ UNCHANGED cancelled)
  BY <1>1 DEF Flip, Fault, Fails
<1>3. ~SetAutoRetry /\ ~SetAutoCompaction /\ ~SetModel /\ ~Cancel
  BY <1>2 DEF SetAutoRetry, SetAutoCompaction, SetModel, Cancel
<1>4. ASSUME EmitInput \/ Accept \/ NoRecovery \/ RetryCheck \/ RetryAgain \/ RetryGivesUp
             \/ BackoffCancelled \/ BackoffAborted \/ Sleep \/ BackoffElapses \/ AbortRetry
             \/ UNCHANGED vars
      PROVE  UNCHANGED <<cancelled, faults, settings>>
  BY <1>4 DEF EmitInput, Accept, NoRecovery, RetryCheck, RetryAgain, RetryGivesUp, BackoffCancelled,
     BackoffAborted, Sleep, BackoffElapses, AbortRetry, vars, settings
<1>5. ASSUME PromptReturns \/ PromptFails \/ RecoveryMoves \/ RecoveryCompacts \/ RecoveryContinues
             \/ RecoveryFails \/ Rewind \/ RetryReturns \/ RetryFails
      PROVE  (Succeeds \/ Fails) /\ UNCHANGED <<cancelled, settings>>
  BY <1>5 DEF PromptReturns, PromptFails, RecoveryMoves, RecoveryCompacts, RecoveryContinues,
     RecoveryFails, Rewind, RetryReturns, RetryFails
<1>6. Succeeds => UNCHANGED faults
  BY DEF Succeeds
<1>7. ASSUME Return PROVE UNCHANGED <<cancelled, faults, settings>>
  BY <1>2, <1>7 DEF Return
<1>8. UNCHANGED <<cancelled, faults, settings>>
  BY <1>2, <1>3, <1>4, <1>5, <1>6, <1>7 DEF Next, RunStep
<1>9. ~BackoffCancelled
  BY <1>8 DEF BackoffCancelled
<1>. QED  BY <1>2, <1>3, <1>8, <1>9 DEF settings

\* The message of the run and the setting of the loop, where they are read.
LEMMA ReadStep ==
  ASSUME Inv, Foretelling, [Next]_vars
  PROVE  /\ faults' \in Nat /\ flips' \in Nat
         /\ pc' = "recover" => msg' = IF before' THEN "none" ELSE branch'[Len(branch')].kind
         /\ flips' = 0 /\ Looping' => loopOn' = retryOn'
<1>. USE DEF Goto
<1>1. faults \in Nat /\ flips \in Nat
  BY DEF Foretelling
<1>2. faults' \in Nat /\ flips' \in Nat
  <2>1. UNCHANGED faults \/ Fault \/ Fails
    BY DEF Next, RunStep, Prompt, Cancel, AbortRetry, SetAutoRetry, SetAutoCompaction, SetModel, unset,
       EmitInput, Accept, PromptReturns, PromptFails, NoRecovery, RecoveryMoves, RecoveryCompacts,
       RecoveryContinues, RecoveryFails, RetryCheck, RetryAgain, RetryGivesUp, BackoffCancelled,
       BackoffAborted, Sleep, BackoffElapses, Rewind, RetryReturns, RetryFails, Return, Succeeds, vars
  <2>2. UNCHANGED flips \/ Flip
    BY DEF Next, RunStep, Prompt, Cancel, AbortRetry, SetAutoRetry, SetAutoCompaction, SetModel,
       EmitInput, Accept, PromptReturns, PromptFails, NoRecovery, RecoveryMoves, RecoveryCompacts,
       RecoveryContinues, RecoveryFails, RetryCheck, RetryAgain, RetryGivesUp, BackoffCancelled,
       BackoffAborted, Sleep, BackoffElapses, Rewind, RetryReturns, RetryFails, Return, vars, settings
  <2>. QED  BY <1>1, <2>1, <2>2 DEF Fault, Fails, Flip
<1>3. ASSUME EmitInput PROVE pc' = "recover" => msg' = "none" /\ before'
  BY <1>3 DEF EmitInput, Inv, Rewindable
<1>4. ASSUME PromptReturns PROVE msg' = branch'[Len(branch')].kind /\ ~before'
  <2>. HIDE DEF Items
  <2>1. PICK k \in Kinds, m \in {stateModel, model} :
          msg' = k /\ branch' = branch \o <<PromptItem(asked)>> \o <<AnswerItem(k, m)>>
    BY <1>4 DEF PromptReturns, Answered
  <2>2. pc = "prompting" /\ ~before'
    BY <1>4 DEF PromptReturns
  <2>3. branch \in Seq(Items) /\ stateModel \in Models /\ model \in Models /\ asked \in 1..MaxPrompts
    BY <2>2 DEF Inv, Typed, Answering
  <2> DEFINE s == branch \o <<PromptItem(asked)>>
             x == AnswerItem(k, m)
  <2>4. s \in Seq(Items) /\ x \in Items
    BY <2>3, ItemsBuilt, AddItem DEF Continues
  <2>5. branch' = s \o <<x>> /\ Len(s \o <<x>>) = Len(s) + 1 /\ (s \o <<x>>)[Len(s) + 1] = x
    <3>1. branch' = s \o <<x>>
      BY <2>1
    <3>. HIDE DEF s, x
    <3>. QED  BY <2>4, <3>1, AddItem
  <2>6. branch'[Len(branch')] = x
    <3>. HIDE DEF s, x
    <3>. QED  BY <2>5
  <2>. QED  BY <2>1, <2>2, <2>6 DEF AnswerItem
<1>5. pc' = "recover" => EmitInput \/ PromptReturns \/ UNCHANGED <<pc, msg, before, branch>>
  BY DEF Next, RunStep, Prompt, Cancel, AbortRetry, SetAutoRetry, SetAutoCompaction, SetModel, unset,
     Accept, PromptFails, NoRecovery, RecoveryMoves, RecoveryCompacts, RecoveryContinues,
     RecoveryFails, RetryCheck, RetryAgain, RetryGivesUp, BackoffCancelled, BackoffAborted, Sleep,
     BackoffElapses, Rewind, RetryReturns, RetryFails, Return, LeaveRetry, AfterRecovery, vars,
     recovery
<1>6. pc' = "recover" => msg' = IF before' THEN "none" ELSE branch'[Len(branch')].kind
  BY <1>3, <1>4, <1>5 DEF Foretelling
<1>7. ASSUME flips' = 0, Looping'
      PROVE  loopOn' = retryOn'
  <2>1. ~Flip
    BY <1>1, <1>7 DEF Flip
  <2>2. UNCHANGED <<retryOn, flips>>
    BY <2>1 DEF Next, RunStep, Prompt, Cancel, AbortRetry, SetAutoRetry, SetAutoCompaction, SetModel,
       EmitInput, Accept, PromptReturns, PromptFails, NoRecovery, RecoveryMoves, RecoveryCompacts,
       RecoveryContinues, RecoveryFails, RetryCheck, RetryAgain, RetryGivesUp, BackoffCancelled,
       BackoffAborted, Sleep, BackoffElapses, Rewind, RetryReturns, RetryFails, Return, vars, settings
  <2>3. RetryCheck \/ (Looping /\ UNCHANGED loopOn)
    <3>1. UNCHANGED loopOn \/ RetryCheck
      BY <2>1 DEF Next, RunStep, Prompt, Cancel, AbortRetry, SetAutoRetry, SetAutoCompaction, SetModel,
         EmitInput, Accept, PromptReturns, PromptFails, NoRecovery, RecoveryMoves, RecoveryCompacts,
         RecoveryContinues, RecoveryFails, RetryCheck, RetryAgain, RetryGivesUp, BackoffCancelled,
         BackoffAborted, Sleep, BackoffElapses, Rewind, RetryReturns, RetryFails, Return, LeaveRetry,
         vars, retry
    <3>2. Looping \/ RetryCheck
      BY <1>7, <2>1 DEF Looping, Backing, Next, RunStep, Prompt, Cancel, AbortRetry, SetAutoRetry,
         SetAutoCompaction, SetModel, EmitInput, Accept, PromptReturns, PromptFails, NoRecovery,
         RecoveryMoves, RecoveryCompacts, RecoveryContinues, RecoveryFails, RetryAgain,
         RetryGivesUp, BackoffCancelled, BackoffAborted, Sleep, BackoffElapses, Rewind, RetryReturns,
         RetryFails, Return, LeaveRetry, AfterRecovery, vars
    <3>. QED  BY <3>1, <3>2
  <2>4. CASE RetryCheck
    <3>1. loopOn' = retryOn
      BY <1>7, <2>4 DEF RetryCheck, Looping, Backing
    <3>. QED  BY <2>2, <3>1
  <2>. QED  BY <1>7, <2>2, <2>3, <2>4 DEF Foretelling
<1>. QED  BY <1>2, <1>6, <1>7

LEMMA ForetoldStep ==
  ASSUME Inv, Following, Foretelling, [Next]_vars, Calm'
  PROVE  Foretold(events', Due')
<1>. USE DEF Goto, Publish
<1>1. /\ events \in Seq(Events) /\ attempt \in 0..MaxRetries /\ MaxRetries \in Nat
      /\ branch \in Seq(Items) /\ before \in BOOLEAN /\ retryOn \in BOOLEAN
  BY PromptBounds DEF Inv, Typed, Following
<1>2. CASE Prompt
  BY <1>2, NothingTold DEF Prompt
<1> SUFFICES ASSUME ~Prompt
             PROVE  Foretold(events', Due')
  BY <1>2
<1>3. /\ Calm /\ UNCHANGED <<retryOn, flips, faults>>
      /\ ~Fails /\ ~BackoffCancelled /\ ~Cancel /\ Foretold(events, Due)
  BY CalmBefore DEF Inv, Foretelling
\* Nothing is told, and what is due stays so.
<1>4. ASSUME UNCHANGED events, Due' <=> Due
      PROVE  Foretold(events', Due')
  BY <1>3, <1>4 DEF Foretold
\* One event, which is the start of a retry if one is due.
<1>5. ASSUME NEW e \in Events, events' = events \o <<e>>, Due <=> e.type = "auto_retry_start",
             e.type = "agent_end" => (e.willRetry <=> Due')
      PROVE  Foretold(events', Due')
  BY <1>1, <1>3, <1>5, TellForetold
<1>6. ASSUME EmitInput \/ Accept PROVE Foretold(events', Due')
  <2>1. UNCHANGED events /\ pc \in {"input", "accept"}
    BY <1>6 DEF EmitInput, Accept
  <2>2. Accept => pc' = "prompting"
    BY DEF Accept
  <2>3. EmitInput => msg' = "none"
    BY DEF EmitInput, Inv, Rewindable
  <2>4. ~Due /\ ~Due'
    BY <1>6, <2>1, <2>2, <2>3 DEF Due, IsRetryable
  <2>. QED  BY <1>4, <2>1, <2>4
<1>7. ASSUME NEW k \in Kinds, NEW w, events' = events \o <<AgentEnd(w)>>,
             w = (retryOn /\ attempt < MaxRetries /\ IsRetryable(k)), msg' = k, UNCHANGED attempt, ~Due,
             pc' \in {"recover", "retry_check", "retry_loop"} \/ k = "stop"
      PROVE  Foretold(events', Due')
  <2>1. w \in BOOLEAN
    BY <1>1, <1>7
  <2>2. AgentEnd(w) \in Events /\ AgentEnd(w).type = "agent_end" /\ AgentEnd(w).willRetry = w
    BY <2>1, EventsBuilt
  <2>3. Due' <=> w
    BY <1>3, <1>7 DEF Due, IsRetryable
  <2>. QED  BY <1>5, <1>7, <2>2, <2>3
<1>8. ASSUME PromptReturns PROVE Foretold(events', Due')
  <2>1. PICK k \in Kinds :
          /\ events' = events \o <<AgentEnd(retryOn /\ attempt < MaxRetries /\ IsRetryable(k))>>
          /\ msg' = k
    BY <1>8 DEF PromptReturns, Answered
  <2>2. ~Due /\ UNCHANGED attempt /\ pc' = "recover"
    BY <1>8 DEF PromptReturns, Due, retry
  <2>. QED  BY <1>7, <2>1, <2>2
<1>9. ASSUME RecoveryContinues PROVE Foretold(events', Due')
  <2>1. PICK k \in Kinds :
          /\ events' = events \o <<AgentEnd(retryOn /\ attempt < MaxRetries /\ IsRetryable(k))>>
          /\ msg' = k /\ pc' = IF k = "stop" THEN AfterRecovery ELSE "retry_check"
    BY <1>9 DEF RecoveryContinues, Answered
  <2>2. ~Due /\ UNCHANGED attempt
    BY <1>9 DEF RecoveryContinues, Due, retry
  <2>. QED  BY <1>7, <2>1, <2>2
<1>10. ASSUME NoRecovery PROVE Foretold(events', Due')
  <2>1. pc = "recover" /\ UNCHANGED <<events, attempt, msg>> /\ pc' = AfterRecovery
    BY <1>10 DEF NoRecovery, retry
  <2>2. before => ~Due
    BY <2>1 DEF Foretelling, Due, IsRetryable
  <2>3. Due' <=> Due
    BY <1>1, <1>3, <2>1, <2>2 DEF Due, AfterRecovery
  <2>. QED  BY <1>4, <2>1, <2>3
<1>11. ASSUME RecoveryMoves PROVE Foretold(events', Due')
  <2>1. /\ pc = "recover" /\ pc' = "compacting" /\ MayRecover
        /\ events' = events \o <<Event("compaction_start")>>
    BY <1>3, <1>11 DEF RecoveryMoves
  <2>2. ~Due
    <3>1. CASE before
      BY <2>1, <3>1 DEF Foretelling, Due, IsRetryable
    <3>2. CASE ~before
      <4>1. EndsInAnswer /\ msg = branch[Len(branch)].kind
        BY <2>1, <3>2 DEF Foretelling, Inv, Rewindable
      <4>2. Len(branch) \in Answers /\ LastAnswer \in Answers /\ \A j \in Answers : j <= LastAnswer
        BY <1>1, <4>1, EndIsAnswer, LastAnswerIsLast
      <4>3. LastAnswer = Len(branch)
        BY <1>1, <4>2 DEF Answers
      <4>4. IsContextOverflow(msg)
        BY <2>1, <4>1, <4>3 DEF MayRecover
      <4>. QED  BY <4>4 DEF IsContextOverflow, Due, IsRetryable
    <3>. QED  BY <1>1, <3>1, <3>2
  <2>3. /\ Event("compaction_start") \in Events
        /\ Event("compaction_start").type = "compaction_start"
    BY EventsBuilt
  <2>. QED  BY <1>5, <2>1, <2>2, <2>3
<1>12. ASSUME RecoveryCompacts PROVE Foretold(events', Due')
  <2>1. pc = "compacting" /\ events' = events \o <<Event("compaction_end")>>
    BY <1>12 DEF RecoveryCompacts
  <2>2. Event("compaction_end") \in Events /\ Event("compaction_end").type = "compaction_end" /\ ~Due
    BY <2>1, EventsBuilt DEF Due
  <2>. QED  BY <1>5, <2>1, <2>2
<1>13. ASSUME PromptFails \/ RecoveryFails \/ RetryFails PROVE FALSE
  BY <1>3, <1>13 DEF PromptFails, RecoveryFails, RetryFails
<1>14. ASSUME RetryCheck PROVE Foretold(events', Due')
  <2>1. /\ pc = "retry_check" /\ UNCHANGED <<events, msg>>
        /\ pc' = IF IsRetryable(msg) THEN "retry_loop" ELSE "settling"
        /\ IsRetryable(msg) => UNCHANGED attempt
    BY <1>14 DEF RetryCheck, IsRetryableHere
  <2>2. Due' <=> Due
    BY <1>3, <2>1 DEF Due
  <2>. QED  BY <1>4, <2>1, <2>2
<1>15. pc = "retry_loop" => (Due <=> loopOn /\ IsRetryableHere /\ attempt < MaxRetries)
  BY <1>3 DEF Due, Calm, Foretelling, Looping, IsRetryableHere
<1>16. ASSUME RetryAgain PROVE Foretold(events', Due')
  <2>1. Due /\ attempt + 1 \in Nat /\ events' = events \o <<RetryStart(attempt + 1)>>
    BY <1>1, <1>15, <1>16 DEF RetryAgain
  <2>2. RetryStart(attempt + 1) \in Events /\ RetryStart(attempt + 1).type = "auto_retry_start"
    BY <2>1, EventsBuilt
  <2>. QED  BY <1>5, <2>1, <2>2
<1>17. ASSUME NEW s \in Seq(Events), Foretold(s, FALSE), NEW n \in Nat, NEW ok \in BOOLEAN, ~Due'
       PROVE  Foretold(s \o <<RetryEnd(n, ok)>>, Due')
  <2>1. RetryEnd(n, ok) \in Events /\ RetryEnd(n, ok).type = "auto_retry_end"
    BY EventsBuilt
  <2>. HIDE DEF Events
  <2>2. FALSE <=> RetryEnd(n, ok).type = "auto_retry_start"
    BY <2>1
  <2>3. RetryEnd(n, ok).type = "agent_end" => (RetryEnd(n, ok).willRetry <=> Due')
    BY <2>1
  <2>. QED  BY <1>17, <2>1, <2>2, <2>3, TellForetold
<1>18. ASSUME RetryGivesUp \/ BackoffAborted PROVE Foretold(events', Due')
  <2>1. ~Due /\ ~Due'
    BY <1>15, <1>18 DEF RetryGivesUp, BackoffAborted, LeaveRetry, Due
  <2>2. Foretold(events, FALSE)
    BY <1>3, <2>1 DEF Foretold
  <2>3. CASE events' = events \o <<RetryEnd(attempt, FALSE)>>
    <3>1. PICK ok \in BOOLEAN : ok = FALSE
      OBVIOUS
    <3>2. attempt \in Nat /\ events' = events \o <<RetryEnd(attempt, ok)>>
      <4>1. attempt \in Nat
        BY <1>1
      <4>2. events' = events \o <<RetryEnd(attempt, ok)>>
        BY <2>3, <3>1
      <4>. QED  BY <4>1, <4>2
    <3>3. Foretold(events \o <<RetryEnd(attempt, ok)>>, Due')
      BY <1>1, <1>17, <2>1, <2>2, <3>2
    <3>. QED  BY <3>2, <3>3
  <2>4. CASE events' = events \o <<>>
    <3>1. events' = events
      BY <1>1, <2>4, ConcatEmptySeq
    <3>. QED  BY <1>4, <2>1, <3>1
  <2>. QED  BY <1>18, <2>3, <2>4 DEF RetryGivesUp, BackoffAborted
<1>19. ASSUME Sleep \/ BackoffElapses \/ Rewind \/ Return PROVE Foretold(events', Due')
  <2>1. /\ pc \in {"waiting", "sleeping", "rewinding", "settling"} /\ UNCHANGED events
        /\ pc' \in {"sleeping", "rewinding", "retrying", "settling", "idle"}
    BY <1>19 DEF Sleep, BackoffElapses, Rewind, Return, LeaveRetry
  <2>. QED  BY <1>4, <2>1 DEF Due
<1>20. ASSUME RetryReturns PROVE Foretold(events', Due')
  <2> DEFINE W(k) == retryOn /\ attempt < MaxRetries /\ IsRetryable(k)
  <2>1. PICK k \in Kinds :
          /\ msg' = k
          /\ \/ /\ events' = events \o <<AgentEnd(W(k))>>
                /\ pc' = "retry_loop" /\ UNCHANGED attempt
             \/ /\ ~IsError(k) /\ pc' = "settling"
                /\ events' = events \o <<AgentEnd(W(k)), RetryEnd(attempt, TRUE)>>
    BY <1>20 DEF RetryReturns, LeaveRetry
  <2>2. ~Due
    BY <1>20 DEF RetryReturns, Due
  <2>3. CASE events' = events \o <<AgentEnd(W(k))>> /\ pc' = "retry_loop" /\ UNCHANGED attempt
    BY <1>7, <2>1, <2>2, <2>3
  <2>4. CASE ~IsError(k) /\ pc' = "settling"
             /\ events' = events \o <<AgentEnd(W(k)), RetryEnd(attempt, TRUE)>>
    <3> DEFINE x == AgentEnd(W(k))
               s == events \o <<x>>
    <3>1. W(k) \in BOOLEAN /\ ~W(k)
      BY <1>1, <2>4 DEF IsError, IsRetryable
    <3>2. PICK w \in BOOLEAN : w = W(k) /\ ~w
      BY <3>1
    <3>3. x \in Events /\ x.type = "agent_end" /\ x.willRetry = w
      BY <3>2, EventsBuilt
    <3>4. PICK ok \in BOOLEAN : ok = TRUE
      OBVIOUS
    <3>5. RetryEnd(attempt, ok) \in Events
      BY <1>1, EventsBuilt
    <3>6. s \in Seq(Events) /\ events' = s \o <<RetryEnd(attempt, ok)>>
      <4>1. events' = events \o <<x, RetryEnd(attempt, ok)>>
        BY <2>4, <3>4
      <4>. HIDE DEF x
      <4>. QED  BY <1>1, <3>3, <3>5, <4>1, OneByOne, OneMore
    <3>7. Foretold(s, FALSE)
      <4>. HIDE DEF x
      <4>1. Due <=> x.type = "auto_retry_start"
        BY <2>2, <3>3
      <4>2. x.type = "agent_end" => (x.willRetry <=> FALSE)
        BY <3>2, <3>3
      <4>. QED  BY <1>1, <1>3, <3>3, <4>1, <4>2, TellForetold
    <3>8. ~Due'
      BY <2>4 DEF Due
    <3>9. attempt \in Nat
      BY <1>1
    <3>. HIDE DEF s
    <3>10. Foretold(s \o <<RetryEnd(attempt, ok)>>, Due')
      BY <1>17, <3>6, <3>7, <3>8, <3>9
    <3>. QED  BY <3>6, <3>10
  <2>. QED  BY <2>1, <2>3, <2>4
<1>21. ASSUME AbortRetry \/ SetAutoRetry \/ SetAutoCompaction \/ SetModel \/ UNCHANGED vars
       PROVE  Foretold(events', Due')
  <2>1. UNCHANGED <<pc, msg, attempt, events>>
    BY <1>21 DEF AbortRetry, SetAutoRetry, SetAutoCompaction, SetModel, unset, vars, retry
  <2>. QED  BY <1>3, <1>4, <2>1 DEF Due
<1>. QED
  BY <1>3, <1>6, <1>8, <1>9, <1>10, <1>11, <1>12, <1>13, <1>14, <1>16, <1>18, <1>19, <1>20, <1>21
     DEF Next, RunStep

\* The retries of a prompt are numbered up to the limit, the last word on them bears the last
\* number and is said unless a cancellation or a fault ends the run, and agent_end foretells
\* them, for any limit and any answers (retryTransientError, willRetry of agent_end).
THEOREM RetriesFollowed == Spec => []RetriesAnnounced
<1>1. Init => Following /\ Foretelling
  <2> SUFFICES ASSUME Init PROVE Following /\ Foretelling
    OBVIOUS
  <2>1. events = <<>> /\ events \in Seq(Events) /\ pc = "idle" /\ faults = 0 /\ flips = 0
    BY DEF Init
  <2>2. 0 \in 0..MaxRetries
    BY PromptBounds
  <2>3. Following
    BY <2>1, <2>2, NothingTold DEF Following, Over, Looping, Backing
  <2>. QED  BY <2>1, <2>3, NothingTold DEF Foretelling, Looping, Backing
<1>2. Inv /\ Following /\ Foretelling /\ [Next]_vars => (Following /\ Foretelling)'
  <2> SUFFICES ASSUME Inv, Following, Foretelling, [Next]_vars
               PROVE  Following' /\ Foretelling'
    OBVIOUS
  <2>1. Following'
    BY FollowingStep DEF Inv
  <2>. QED  BY <2>1, ReadStep, ForetoldStep DEF Foretelling
<1>3. Following /\ Foretelling => RetriesAnnounced
  <2> SUFFICES ASSUME Following, Foretelling PROVE RetriesNumbered /\ WillRetryComesTrue
    BY DEF RetriesAnnounced
  <2>1. DOMAIN events = 1..Len(events) /\ Len(events) \in Nat /\ MaxRetries \in Nat
    BY PromptBounds DEF Following
  <2>2. PICK n : Numbered(events, n) /\ (Over /\ ~cancelled /\ faults = 0 => n \in Nat /\ (n > 0 => HasEnd(events)))
    BY <2>1 DEF Following
  <2>3. ASSUME Over, Starts(events, Len(events)) # {}, n \in Nat
        PROVE  n > 0
    <3>1. n # 0
      <4>1. IsFiniteSet(Starts(events, Len(events)))
        <5>1. Starts(events, Len(events)) \subseteq 1..Len(events) /\ IsFiniteSet(1..Len(events))
          BY <2>1, FS_Interval DEF Starts
        <5>. QED  BY <5>1, FS_Subset
      <4>. QED  BY <2>2, <2>3, <4>1, FS_EmptySet DEF Numbered
    <3>. QED  BY <2>3, <3>1
  <2>4. RetriesNumbered
    BY <2>1, <2>2, <2>3 DEF RetriesNumbered, Numbered, HasEnd, Over
  <2>5. WillRetryComesTrue
    <3> SUFFICES ASSUME pc = "idle", Calm, NEW i \in 1..Len(events), events[i].type = "agent_end"
                 PROVE  events[i].willRetry <=>
                            i < Len(events) /\ events[i + 1].type = "auto_retry_start"
      BY <2>1 DEF WillRetryComesTrue, Calm
    <3>. QED  BY DEF Foretelling, Foretold, Due
  <2>. QED  BY <2>4, <2>5
<1>. QED  BY <1>1, <1>2, <1>3, InvHolds, PTL DEF Spec
=============================================================================
