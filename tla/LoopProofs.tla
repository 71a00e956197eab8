-------------------------- MODULE LoopProofs --------------------------
(***************************************************************************)
(* What the agent loop keeps for any bounds: the batches it runs are whole *)
(* on the screen and on the branch, the model is asked on the branch, the  *)
(* branch only grows, no request has a call without its result, what is on *)
(* the branch has been published in its order, and a run publishes its     *)
(* turns complete, whatever fails in it.                                   *)
(*                                                                         *)
(* The invariant is LoopInv.  Its parts say how far the calls of a batch   *)
(* are, that what the subscribers were told of each call is exactly where  *)
(* the call stands, that the last message of the branch is the one the     *)
(* next result belongs behind, and where the loop's own list of messages   *)
(* is the branch.  GroupInv says that each result on the branch is in the  *)
(* group of its answer.  What is sent of such a branch is whole groups: an *)
(* induction over the prefixes of FlattenSeq, with the group that is still *)
(* open at the end of each.                                                *)
(*                                                                         *)
(* Told compares the messages the subscribers were told of with the        *)
(* branch; StreamInv says, of each place of the loop, which events are     *)
(* still owed and how the branch ends there, which is why the request a    *)
(* retry makes is accepted. Both rest on what a step publishes: the events *)
(* it appends, and those of a kind among them.                             *)
(***************************************************************************)
EXTENDS AgentLoop, SequenceTheorems, FiniteSetTheorems, NaturalsInduction, WellFoundedInduction, TLAPS

UserMessages == [role : {"user"}, id : 1..MaxUsers]
Places == {"idle", "prompts", "poll", "poll_more", "inject", "follow_up", "streaming",
           "tools", "collecting", "turn_end", "failing"}
Working == {"tools", "collecting"}
Statuses == {"blocked", "prepared", "running", "returned", "ended"}
AnswerMessages == [role : {"assistant"}, id : 0..MaxTurns, calls : 0..MaxCalls, failed : BOOLEAN]
LoopEvents ==
    [type : {"agent_start", "turn_start", "turn_end", "agent_end"}]
    \cup [type : {"message"}, message : Messages]
    \cup [type : {"tool_start", "tool_end"}, call : 1..MaxCalls]
Batches ==
    [mode : Modes \cup {"none"}, status : Seq(Statuses), completed : Seq(Nat), results : Nat]

\* The types of what is said, and of the execution of an answer's calls.
TalkTypes ==
    /\ pc \in Places /\ cancelled \in BOOLEAN /\ onDisk \in BOOLEAN /\ more \in BOOLEAN
    /\ context \in Seq(Messages) /\ stored \in Seq(Messages)
    /\ pending \in Seq(UserMessages)
    /\ Len(pending) <= 1
    /\ pc = "prompts" => pending # <<>>
    /\ events \in Seq(LoopEvents)
    /\ base \in 0..Len(stored)
    /\ users \in 0..MaxUsers /\ turns \in 0..MaxTurns /\ faults \in Nat /\ crashes \in Nat
BatchTypes ==
    /\ answer \in AnswerMessages /\ batch \in Batches
    /\ Len(batch.status) <= answer.calls /\ batch.results <= Len(batch.status)
    /\ pc \in Working => answer.id # 0 /\ batch.mode # "none"
LoopTypes == TalkTypes /\ BatchTypes

\* How far the calls of a batch are: those with a result message have ended, a sequential
\* batch has at most one that has not, and the channel holds those that returned, once.
BatchOK ==
    /\ \A c \in 1..batch.results : HasEnded(c)
    /\ pc \notin Working => \A c \in Started : HasEnded(c)
    /\ pc = "collecting" => batch.mode = "parallel"
    /\ pc = "tools" /\ batch.mode = "parallel" => batch.results = 0
    /\ pc \in Working /\ batch.mode = "sequential" => Len(batch.status) <= batch.results + 1
    /\ \A i \in DOMAIN batch.completed :
          /\ batch.completed[i] \in Started
          /\ batch.status[batch.completed[i]] = "returned"
          /\ \A k \in DOMAIN batch.completed : batch.completed[k] = batch.completed[i] => k = i

\* A call that was announced and has not ended is on the screen as running.
Open(c) == IF c \in Started /\ ~HasEnded(c) THEN 1 ELSE 0
EventsOK ==
    \A c \in 1..MaxCalls :
        /\ Count("tool_end", c) \in Nat
        /\ Count("tool_start", c) = Count("tool_end", c) + Open(c)

\* While a batch is worked on, its answer and its results so far end the branch.
LastSaid ==
    /\ stored # <<>>
    /\ batch.results = 0 => LET m == stored[Len(stored)]
                            IN  m.role = "assistant" /\ m.id = answer.id /\ ~m.failed
    /\ batch.results # 0 => stored[Len(stored)] = ToolResult(answer.id, batch.results)
StoredOK == ResultsFollowCalls /\ (pc \in Working => LastSaid)

\* The loop's list of messages is the branch, where the loop does not just execute tools.
ContextOK ==
    pc \in {"prompts", "poll", "poll_more", "inject", "follow_up", "streaming"} => context = stored

LoopInv == LoopTypes /\ BatchOK /\ EventsOK /\ StoredOK /\ ContextOK

-----------------------------------------------------------------------
(* Counting events                                                              *)

\* How often x is in s.
Occ(s, x) == Cardinality({i \in DOMAIN s : s[i] = x})

LEMMA OccNat ==
  ASSUME NEW S, NEW s \in Seq(S), NEW x
  PROVE  IsFiniteSet({i \in DOMAIN s : s[i] = x}) /\ Occ(s, x) \in Nat
<1>1. IsFiniteSet(1..Len(s)) /\ DOMAIN s = 1..Len(s)
  BY FS_Interval, LenProperties
<1>2. {i \in DOMAIN s : s[i] = x} \subseteq 1..Len(s)
  BY <1>1
<1>3. IsFiniteSet({i \in DOMAIN s : s[i] = x})
  BY <1>1, <1>2, FS_Subset
<1>. QED
  BY <1>3, FS_CardinalityType DEF Occ

LEMMA OccAppend ==
  ASSUME NEW S, NEW s \in Seq(S), NEW e \in S, NEW x
  PROVE  Occ(Append(s, e), x) = Occ(s, x) + (IF e = x THEN 1 ELSE 0)
<1>. DEFINE old == {i \in DOMAIN s : s[i] = x}
            new == {i \in DOMAIN Append(s, e) : Append(s, e)[i] = x}
<1>1. /\ DOMAIN Append(s, e) = 1..Len(s) + 1 /\ DOMAIN s = 1..Len(s) /\ Len(s) \in Nat
      /\ \A i \in 1..Len(s) : Append(s, e)[i] = s[i]
      /\ Append(s, e)[Len(s) + 1] = e
  BY AppendProperties, LenProperties
<1>2. IsFiniteSet(old) /\ Cardinality(old) \in Nat
  BY OccNat DEF Occ
<1>3. CASE e = x
  <2>1. new = old \cup {Len(s) + 1} /\ Len(s) + 1 \notin old
    BY <1>1, <1>3
  <2>2. Cardinality(new) = Cardinality(old) + 1
    BY <1>2, <2>1, FS_AddElement
  <2>. QED
    BY <1>3, <2>2 DEF Occ
<1>4. CASE e # x
  <2>1. new = old
    BY <1>1, <1>4
  <2>2. Occ(Append(s, e), x) = Occ(s, x) /\ Occ(s, x) \in Nat
    BY <2>1, OccNat DEF Occ
  <2>. QED
    BY <1>4, <2>2
<1>. QED
  BY <1>3, <1>4

LEMMA OccConcat ==
  ASSUME NEW S, NEW s \in Seq(S), NEW t \in Seq(S), NEW x, \A i \in DOMAIN t : t[i] # x
  PROVE  Occ(s \o t, x) = Occ(s, x)
<1>1. /\ DOMAIN (s \o t) = 1..Len(s) + Len(t) /\ DOMAIN s = 1..Len(s) /\ Len(s) \in Nat
      /\ Len(t) \in Nat /\ DOMAIN t = 1..Len(t)
      /\ \A i \in 1..Len(s) + Len(t) : (s \o t)[i] = IF i <= Len(s) THEN s[i] ELSE t[i - Len(s)]
  BY ConcatProperties, LenProperties
<1>2. \A i \in DOMAIN (s \o t) : (s \o t)[i] = x <=> i \in DOMAIN s /\ s[i] = x
  <2>. SUFFICES ASSUME NEW i \in DOMAIN (s \o t)
                PROVE  (s \o t)[i] = x <=> i \in DOMAIN s /\ s[i] = x
    OBVIOUS
  <2>1. i \in Int /\ 1 <= i /\ i <= Len(s) + Len(t)
    BY <1>1
  <2>2. CASE i <= Len(s)
    BY <1>1, <2>1, <2>2
  <2>3. CASE ~(i <= Len(s))
    <3>1. i - Len(s) \in DOMAIN t /\ i \notin DOMAIN s
      BY <1>1, <2>1, <2>3
    <3>. QED
      BY <1>1, <2>1, <2>3, <3>1
  <2>. QED
    BY <2>2, <2>3
<1>3. DOMAIN s \subseteq DOMAIN (s \o t)
  BY <1>1
<1>4. {i \in DOMAIN (s \o t) : (s \o t)[i] = x} = {i \in DOMAIN s : s[i] = x}
  BY <1>2, <1>3
<1>. QED
  BY <1>4 DEF Occ

LEMMA OccEmpty == ASSUME NEW x PROVE Occ(<<>>, x) = 0
<1>1. {i \in DOMAIN <<>> : <<>>[i] = x} = {}
  BY EmptySeq
<1>. QED
  BY <1>1, FS_EmptySet DEF Occ

LEMMA CountIsOcc == \A type, c : Count(type, c) = Occ(events, ToolEvent(type, c))
  BY DEF Count, Occ

\* Events of no tool.
Plain(es) == es \in Seq(LoopEvents) /\ \A i \in DOMAIN es : es[i].type \notin {"tool_start", "tool_end"}

LEMMA PlainOnes ==
  /\ Plain(<<>>) /\ Plain(RunStart) /\ Plain(RunEnd)
  /\ \A type \in {"agent_start", "turn_start", "turn_end", "agent_end"} : Plain(<<Event(type)>>)
  /\ \A m \in Messages : Plain(<<MessageEvent(m)>>)
  /\ \A m \in Messages : \A es : Plain(es) => Plain(<<MessageEvent(m)>> \o es)
<1>1. \A type \in {"agent_start", "turn_start", "turn_end", "agent_end"} :
         Event(type) \in LoopEvents /\ Event(type).type = type
  BY DEF Event, LoopEvents
<1>2. \A m \in Messages : MessageEvent(m) \in LoopEvents /\ MessageEvent(m).type = "message"
  BY DEF MessageEvent, LoopEvents
<1>3. Plain(<<>>)
  BY EmptySeq DEF Plain
<1>4. Plain(RunStart) /\ Plain(RunEnd)
  BY <1>1 DEF Plain, RunStart, RunEnd
<1>5. \A type \in {"agent_start", "turn_start", "turn_end", "agent_end"} : Plain(<<Event(type)>>)
  BY <1>1 DEF Plain
<1>6. \A m \in Messages : Plain(<<MessageEvent(m)>>)
  BY <1>2 DEF Plain
<1>7. ASSUME NEW m \in Messages, NEW es, Plain(es) PROVE Plain(<<MessageEvent(m)>> \o es)
  <2>1. <<MessageEvent(m)>> \in Seq(LoopEvents) /\ es \in Seq(LoopEvents)
    BY <1>2, <1>7 DEF Plain
  <2>2. /\ <<MessageEvent(m)>> \o es \in Seq(LoopEvents)
        /\ Len(<<MessageEvent(m)>> \o es) = 1 + Len(es) /\ Len(es) \in Nat
        /\ \A i \in 1..1 + Len(es) : (<<MessageEvent(m)>> \o es)[i] = IF i <= 1 THEN MessageEvent(m) ELSE es[i - 1]
    BY <2>1, ConcatProperties, LenProperties
  <2>3. DOMAIN (<<MessageEvent(m)>> \o es) = 1..1 + Len(es) /\ DOMAIN es = 1..Len(es)
    BY <2>1, <2>2, LenProperties
  <2>4. ASSUME NEW i \in 1..1 + Len(es)
        PROVE  (<<MessageEvent(m)>> \o es)[i].type \notin {"tool_start", "tool_end"}
    <3>1. CASE i = 1
      BY <1>2, <2>2, <2>4, <3>1
    <3>2. CASE i # 1
      <4>1. i - 1 \in DOMAIN es /\ ~(i <= 1)
        BY <2>2, <2>3, <2>4, <3>2
      <4>. QED
        BY <1>7, <2>2, <2>4, <4>1 DEF Plain
    <3>. QED
      BY <3>1, <3>2
  <2>. QED
    BY <2>2, <2>3, <2>4 DEF Plain
<1>. QED
  BY <1>3, <1>4, <1>5, <1>6, <1>7

\* They leave the tool events as often as they are; a run's first are all it has.
LEMMA PlainCounts ==
  ASSUME events \in Seq(LoopEvents), NEW es, Plain(es), NEW type \in {"tool_start", "tool_end"}, NEW c
  PROVE  /\ events' = events \o es => Count(type, c)' = Count(type, c) /\ events' \in Seq(LoopEvents)
         /\ events' = es => Count(type, c)' = 0 /\ events' \in Seq(LoopEvents)
<1>1. ToolEvent(type, c).type = type
  BY DEF ToolEvent
<1>2. \A i \in DOMAIN es : es[i] # ToolEvent(type, c)
  BY <1>1 DEF Plain
<1>3. es \in Seq(LoopEvents)
  BY DEF Plain
<1>4. Occ(events \o es, ToolEvent(type, c)) = Occ(events, ToolEvent(type, c))
  BY <1>2, <1>3, OccConcat
<1>5. Occ(es, ToolEvent(type, c)) = 0
  <2>1. {i \in DOMAIN es : es[i] = ToolEvent(type, c)} = {}
    BY <1>2
  <2>. QED
    BY <2>1, FS_EmptySet DEF Occ
<1>6. events \o es \in Seq(LoopEvents)
  BY <1>3, ConcatProperties
<1>. QED
  BY <1>3, <1>4, <1>5, <1>6 DEF Count, Occ

-----------------------------------------------------------------------
(* What a step does that says something                                         *)

LEMMA SayDoes ==
  ASSUME TalkTypes, NEW m \in Messages, NEW next \in Places, NEW onError \in Places,
         NEW after, Plain(after), Say(m, next, onError, after)
  PROVE  /\ pc' \in {next, onError} /\ onDisk' \in BOOLEAN /\ faults' \in Nat
         /\ stored' \in Seq(Messages) /\ Len(stored) \in Nat /\ Len(stored') >= Len(stored)
         /\ stored' = stored \/ stored' = Append(stored, m)
         /\ pc' # onError => stored' = Append(stored, m)
         /\ \E es : Plain(es) /\ events' = events \o es
<1>1. stored \in Seq(Messages) /\ Append(stored, m) \in Seq(Messages) /\ Len(stored) \in Nat
      /\ Len(Append(stored, m)) = Len(stored) + 1
  BY AppendProperties, LenProperties DEF TalkTypes
<1>2. Plain(<<MessageEvent(m)>>) /\ Plain(<<MessageEvent(m)>> \o after)
  BY PlainOnes
<1>3. ASSUME NEW es, Plain(es), events' = events \o es
      PROVE  \E fs : Plain(fs) /\ events' = events \o fs
  BY <1>3
<1>4. CASE /\ cancelled /\ pc' = onError /\ Publish(<<MessageEvent(m)>>) /\ UNCHANGED <<stored, onDisk, faults>>
  <2>1. \E es : Plain(es) /\ events' = events \o es
    BY <1>2, <1>4 DEF Publish
  <2>2. onDisk' \in BOOLEAN /\ faults' \in Nat
    BY <1>4 DEF TalkTypes
  <2>. QED
    BY <1>1, <1>4, <2>1, <2>2
<1>5. CASE /\ ~cancelled /\ faults < MaxFaults /\ pc' = onError /\ stored' = Append(stored, m)
           /\ faults' = faults + 1 /\ Publish(<<MessageEvent(m)>>) /\ UNCHANGED onDisk
  <2>1. \E es : Plain(es) /\ events' = events \o es
    BY <1>2, <1>5 DEF Publish
  <2>2. onDisk' \in BOOLEAN /\ faults' \in Nat
    BY <1>5 DEF TalkTypes
  <2>3. /\ stored' \in Seq(Messages) /\ Len(stored) \in Nat /\ Len(stored') >= Len(stored)
        /\ pc' \in {next, onError} /\ stored' = Append(stored, m)
    BY <1>1, <1>5
  <2>. QED
    BY <2>1, <2>2, <2>3
<1>6. CASE /\ ~cancelled /\ pc' = next /\ stored' = Append(stored, m)
           /\ onDisk' = (onDisk \/ m.role = "assistant")
           /\ Publish(<<MessageEvent(m)>> \o after) /\ UNCHANGED faults
  <2>1. \E es : Plain(es) /\ events' = events \o es
    BY <1>2, <1>6 DEF Publish
  <2>2. onDisk' \in BOOLEAN
    BY <1>6
  <2>3. faults' \in Nat
    BY <1>6 DEF TalkTypes
  <2>4. /\ stored' \in Seq(Messages) /\ Len(stored) \in Nat /\ Len(stored') >= Len(stored)
        /\ pc' \in {next, onError} /\ stored' = Append(stored, m)
    BY <1>1, <1>6
  <2>. QED
    BY <2>1, <2>2, <2>3, <2>4
<1>. QED
  BY <1>4, <1>5, <1>6 DEF Say

\* What is behind the messages of a branch stays there when one more is said.
LEMMA FollowsAppend ==
  ASSUME stored \in Seq(Messages), ResultsFollowCalls, NEW m \in Messages, stored' = Append(stored, m),
         m.role = "result" =>
            /\ stored # <<>>
            /\ IF m.call = 1
               THEN /\ stored[Len(stored)].role = "assistant"
                    /\ stored[Len(stored)].id = m.of
                    /\ ~stored[Len(stored)].failed
               ELSE stored[Len(stored)] = ToolResult(m.of, m.call - 1)
  PROVE  ResultsFollowCalls'
<1>1. /\ DOMAIN stored' = 1..Len(stored) + 1 /\ DOMAIN stored = 1..Len(stored) /\ Len(stored) \in Nat
      /\ \A i \in 1..Len(stored) : stored'[i] = stored[i]
      /\ stored'[Len(stored) + 1] = m
      /\ stored # <<>> => Len(stored) # 0
  BY AppendProperties, LenProperties, EmptySeq
<1>. SUFFICES ASSUME NEW i \in DOMAIN stored', stored'[i].role = "result"
              PROVE  /\ i > 1
                     /\ IF stored'[i].call = 1
                        THEN /\ stored'[i - 1].role = "assistant"
                             /\ stored'[i - 1].id = stored'[i].of
                             /\ ~stored'[i - 1].failed
                        ELSE stored'[i - 1] = ToolResult(stored'[i].of, stored'[i].call - 1)
  BY DEF ResultsFollowCalls
<1>2. CASE i \in DOMAIN stored
  <2>1. stored'[i] = stored[i] /\ i > 1
    BY <1>1, <1>2 DEF ResultsFollowCalls
  <2>2. i - 1 \in 1..Len(stored)
    BY <1>1, <1>2, <2>1
  <2>3. stored'[i - 1] = stored[i - 1]
    BY <1>1, <2>2
  <2>. QED
    BY <1>2, <2>1, <2>3 DEF ResultsFollowCalls
<1>3. CASE i \notin DOMAIN stored
  <2>1. i = Len(stored) + 1 /\ stored'[i] = m
    BY <1>1, <1>3
  <2>2. Len(stored) # 0 /\ i > 1 /\ i - 1 = Len(stored) /\ Len(stored) \in 1..Len(stored)
    BY <1>1, <2>1
  <2>3. stored'[i - 1] = stored[Len(stored)]
    BY <1>1, <2>2
  <2>. QED
    BY <2>1, <2>2, <2>3
<1>. QED
  BY <1>2, <1>3

\* ... and when the last one is taken back.
LEMMA FollowsFront ==
  ASSUME stored \in Seq(Messages), stored # <<>>, ResultsFollowCalls, stored' = Front(stored)
  PROVE  ResultsFollowCalls' /\ stored' \in Seq(Messages) /\ Len(stored') = Len(stored) - 1
         /\ Len(stored') \in Nat
<1>1. Len(stored) \in Nat /\ Len(stored) # 0 /\ DOMAIN stored = 1..Len(stored)
  BY LenProperties, EmptySeq
<1>2. 1 \in 1..Len(stored) + 1 /\ Len(stored) - 1 \in 0..Len(stored)
  BY <1>1
<1>3. /\ stored' \in Seq(Messages) /\ Len(stored') = Len(stored) - 1
      /\ \A i \in 1..Len(stored) - 1 : stored'[i] = stored[i]
  BY <1>1, <1>2, SubSeqProperties DEF Front
<1>4. DOMAIN stored' = 1..Len(stored) - 1
  BY <1>1, <1>3, LenProperties
<1>5. ASSUME NEW i \in DOMAIN stored', stored'[i].role = "result"
      PROVE  i \in DOMAIN stored /\ i > 1 /\ stored'[i] = stored[i] /\ stored'[i - 1] = stored[i - 1]
  <2>1. i \in DOMAIN stored /\ stored'[i] = stored[i] /\ i > 1
    BY <1>1, <1>3, <1>4, <1>5 DEF ResultsFollowCalls
  <2>2. i - 1 \in 1..Len(stored) - 1
    BY <1>1, <1>4, <1>5, <2>1
  <2>. QED
    BY <1>3, <2>1, <2>2
<1>6. ResultsFollowCalls'
  BY <1>5 DEF ResultsFollowCalls
<1>. QED
  BY <1>1, <1>3, <1>6

\* A step that leaves the batch as it is and publishes events of no tool, or the first
\* ones of a run when the batch before is over.
LEMMA EventsKeep ==
  ASSUME LoopTypes, BatchOK, EventsOK, batch' = batch, NEW es, Plain(es),
         events' = events \o es \/ (pc \notin Working /\ events' = es)
  PROVE  EventsOK' /\ events' \in Seq(LoopEvents)
<1>1. events \in Seq(LoopEvents)
  BY DEF LoopTypes, TalkTypes
<1>2. \A c : Open(c)' = Open(c)
  BY DEF Open, Started, HasEnded
<1>3. CASE events' = events \o es
  <2>1. ASSUME NEW c
        PROVE  Count("tool_end", c)' = Count("tool_end", c) /\ Count("tool_start", c)' = Count("tool_start", c)
    BY <1>1, <1>3, PlainCounts
  <2>2. events' \in Seq(LoopEvents)
    BY <1>1, <1>3, PlainCounts
  <2>. QED
    BY <1>2, <2>1, <2>2 DEF EventsOK
<1>4. CASE pc \notin Working /\ events' = es
  <2>1. \A c : Open(c) = 0
    BY <1>4 DEF BatchOK, Open
  <2>2. ASSUME NEW c PROVE Count("tool_end", c)' = 0 /\ Count("tool_start", c)' = 0
    BY <1>1, <1>4, PlainCounts
  <2>3. events' \in Seq(LoopEvents)
    BY <1>4 DEF Plain
  <2>4. \A c : Open(c)' = 0
    BY <1>2, <2>1
  <2>. HIDE DEF Open
  <2>. QED
    BY <2>2, <2>3, <2>4 DEF EventsOK
<1>. QED
  BY <1>3, <1>4

\* A batch that is not worked on, or goes on at the same place, stays in order.
LEMMA BatchKeeps ==
  ASSUME BatchTypes, BatchOK, UNCHANGED <<batch, answer>>, pc' \notin Working,
         pc \notin Working \/ \A c \in Started : HasEnded(c)
  PROVE  BatchTypes' /\ BatchOK'
<1>1. Started' = Started /\ \A c : HasEnded(c)' <=> HasEnded(c)
  BY DEF Started, HasEnded
<1>2. pc' # "tools" /\ pc' # "collecting"
  BY DEF Working
<1>3. \A c \in Started : HasEnded(c)
  BY DEF BatchOK
<1>. QED
  BY <1>1, <1>2, <1>3 DEF BatchTypes, BatchOK

-----------------------------------------------------------------------
(* What the steps have in common                                                *)

LEMMA Bounds == MaxCalls \in Nat /\ MaxTurns \in Nat /\ MaxUsers \in Nat /\ MaxFaults \in Nat
  BY LoopBounds

LEMMA KindsApart ==
  /\ \A n \in 1..MaxUsers : User(n) \in UserMessages
  /\ UserMessages \subseteq Messages
  /\ \A n \in 0..MaxTurns, c \in 0..MaxCalls, f \in BOOLEAN :
        Assistant(n, c, f) \in Messages /\ Assistant(n, c, f).role = "assistant"
  /\ Failure \in Messages /\ Failure.role = "assistant"
  /\ \A n \in 1..MaxTurns, c \in 1..MaxCalls : ToolResult(n, c) \in Messages
<1>1. Failure \in Messages /\ Failure.role = "assistant"
  BY Bounds DEF Failure, Assistant, Messages
<1>. QED
  BY <1>1 DEF User, UserMessages, Messages, Assistant, ToolResult

\* A step outside a batch, or one that leaves it.
LEMMA Quiet ==
  ASSUME LoopInv, UNCHANGED <<batch, answer>>, pc' \notin Working,
         pc \notin Working \/ \A c \in Started : HasEnded(c),
         NEW es, Plain(es), events' = events \o es \/ (pc \notin Working /\ events' = es),
         \/ stored' = stored
         \/ stored # <<>> /\ stored' = Front(stored)
         \/ \E m \in Messages : m.role # "result" /\ stored' = Append(stored, m)
  PROVE  BatchTypes' /\ BatchOK' /\ EventsOK' /\ StoredOK' /\ events' \in Seq(LoopEvents)
<1>1. BatchTypes' /\ BatchOK'
  BY BatchKeeps DEF LoopInv, LoopTypes
<1>2. EventsOK' /\ events' \in Seq(LoopEvents)
  BY EventsKeep DEF LoopInv
<1>3. stored \in Seq(Messages) /\ ResultsFollowCalls
  BY DEF LoopInv, LoopTypes, TalkTypes, StoredOK
<1>4. ResultsFollowCalls'
  <2>1. CASE stored' = stored
    BY <1>3, <2>1 DEF ResultsFollowCalls
  <2>2. CASE stored # <<>> /\ stored' = Front(stored)
    BY <1>3, <2>2, FollowsFront
  <2>3. CASE \E m \in Messages : m.role # "result" /\ stored' = Append(stored, m)
    BY <1>3, <2>3, FollowsAppend
  <2>. QED
    BY <2>1, <2>2, <2>3
<1>. QED
  BY <1>1, <1>2, <1>4 DEF StoredOK

\* One that says a message there.
LEMMA QuietSay ==
  ASSUME LoopInv, UNCHANGED <<batch, answer, base>>, pc \notin Working,
         NEW m \in Messages, m.role # "result",
         NEW next \in Places \ Working, NEW onError \in Places \ Working,
         NEW after, Plain(after), Say(m, next, onError, after)
  PROVE  /\ BatchTypes' /\ BatchOK' /\ EventsOK' /\ StoredOK' /\ events' \in Seq(LoopEvents)
         /\ pc' \in {next, onError} /\ onDisk' \in BOOLEAN /\ faults' \in Nat
         /\ stored' \in Seq(Messages) /\ base' \in 0..Len(stored')
         /\ pc' # onError => stored' = Append(stored, m)
<1>1. TalkTypes
  BY DEF LoopInv, LoopTypes
<1>2. /\ pc' \in {next, onError} /\ onDisk' \in BOOLEAN /\ faults' \in Nat
      /\ stored' \in Seq(Messages) /\ Len(stored) \in Nat /\ Len(stored') >= Len(stored)
      /\ stored' = stored \/ stored' = Append(stored, m)
      /\ pc' # onError => stored' = Append(stored, m)
      /\ \E es : Plain(es) /\ events' = events \o es
  BY <1>1, SayDoes
<1>3. PICK es : Plain(es) /\ events' = events \o es
  BY <1>2
<1>4. pc' \notin Working
  BY <1>2
<1>5. \/ stored' = stored
      \/ \E k \in Messages : k.role # "result" /\ stored' = Append(stored, k)
  BY <1>2
<1>6. BatchTypes' /\ BatchOK' /\ EventsOK' /\ StoredOK' /\ events' \in Seq(LoopEvents)
  BY <1>3, <1>4, <1>5, Quiet
<1>7. base' \in 0..Len(stored')
  <2>1. base \in Nat /\ base <= Len(stored)
    BY <1>1, <1>2 DEF TalkTypes
  <2>2. Len(stored') \in Nat
    BY <1>2, LenProperties
  <2>. QED
    BY <1>2, <2>1, <2>2
<1>. QED
  BY <1>2, <1>6, <1>7

\* One that works on a batch and stores nothing.
LEMMA ToolsKeep ==
  ASSUME LoopInv, UNCHANGED notByTools, pc \in Working, pc' \in Working,
         batch'.results = batch.results, events' \in Seq(LoopEvents)
  PROVE  TalkTypes' /\ StoredOK' /\ ContextOK'
<1>1. UNCHANGED <<cancelled, context, stored, onDisk, base, pending, answer, more, users, turns, faults, crashes>>
  BY DEF notByTools
<1>2. pc' \in Places /\ pc' \in {"tools", "collecting"}
  BY DEF Working, Places
<1>3. TalkTypes'
  BY <1>1, <1>2 DEF LoopInv, LoopTypes, TalkTypes
<1>4. StoredOK'
  <2>1. ResultsFollowCalls' /\ LastSaid
    BY <1>1 DEF LoopInv, StoredOK, ResultsFollowCalls
  <2>2. LastSaid'
    BY <1>1, <2>1 DEF LastSaid, ToolResult
  <2>. QED
    BY <2>1, <2>2 DEF StoredOK
<1>5. ContextOK'
  BY <1>2 DEF ContextOK
<1>. QED
  BY <1>3, <1>4, <1>5

LEMMA ConcatNothing == ASSUME events \in Seq(LoopEvents) PROVE events \o <<>> = events /\ Plain(<<>>)
  BY ConcatEmptySeq, PlainOnes

LEMMA PromptKeeps == ASSUME LoopInv, Prompt PROVE LoopInv'
<1>. USE DEF Prompt
<1>1. pc \notin Working /\ pc' \notin Working
  BY DEF Working
<1>2. Plain(RunStart)
  BY PlainOnes
<1>3. BatchTypes' /\ BatchOK' /\ EventsOK' /\ StoredOK' /\ events' \in Seq(LoopEvents)
  BY <1>1, <1>2, Quiet
<1>4. stored' = stored /\ Len(stored) \in Nat /\ TalkTypes
  BY LenProperties DEF LoopInv, LoopTypes, TalkTypes
<1>5. pending' \in Seq(UserMessages) /\ Len(pending') <= 1 /\ pending' # <<>> /\ users' \in 0..MaxUsers
  <2>1. users \in 0..MaxUsers /\ MaxUsers \in Nat
    BY <1>4, Bounds DEF TalkTypes
  <2>2. users + 1 \in 1..MaxUsers
    BY <2>1
  <2>3. User(users + 1) \in UserMessages
    BY <2>2, KindsApart
  <2>. QED
    BY <2>2, <2>3
<1>6. TalkTypes'
  <2>1. base' \in 0..Len(stored')
    <3>1. Len(stored) \in 0..Len(stored)
      BY <1>4
    <3>. QED
      BY <1>4, <3>1
  <2>3. pc' \in Places /\ context' \in Seq(Messages) /\ cancelled' \in BOOLEAN
    BY <1>4 DEF TalkTypes, Places
  <2>2. UNCHANGED <<stored, onDisk, more, turns, faults, crashes>>
    OBVIOUS
  <2>. QED
    BY <1>3, <1>4, <1>5, <2>1, <2>2, <2>3 DEF TalkTypes
<1>7. ContextOK'
  BY DEF ContextOK
<1>. QED
  BY <1>3, <1>6, <1>7 DEF LoopInv, LoopTypes

LEMMA ContinueKeeps == ASSUME LoopInv, Continue PROVE LoopInv'
<1>1. /\ pc = "idle" /\ stored # <<>> /\ stored' = Front(stored) /\ context' = stored'
      /\ base' = Len(stored') /\ pc' \in {"failing", "poll"} /\ events' \in {<<>>, RunStart}
      /\ UNCHANGED <<cancelled, onDisk, pending, answer, batch, more, users, turns, faults, crashes>>
  BY DEF Continue
<1>2. pc \notin Working /\ pc' \notin Working
  BY <1>1 DEF Working
<1>3. Plain(events')
  BY <1>1, PlainOnes
<1>4. BatchTypes' /\ BatchOK' /\ EventsOK' /\ StoredOK' /\ events' \in Seq(LoopEvents)
  BY <1>1, <1>2, <1>3, Quiet
<1>5. TalkTypes /\ stored \in Seq(Messages) /\ ResultsFollowCalls
  BY DEF LoopInv, LoopTypes, TalkTypes, StoredOK
<1>6. stored' \in Seq(Messages) /\ Len(stored') \in Nat
  BY <1>1, <1>5, FollowsFront
<1>7. TalkTypes'
  <2>1. base' \in 0..Len(stored') /\ context' \in Seq(Messages) /\ pc' \in Places /\ pc' # "prompts"
    BY <1>1, <1>6 DEF Places
  <2>. QED
    BY <1>1, <1>4, <1>5, <1>6, <2>1 DEF TalkTypes
<1>8. ContextOK'
  BY <1>1 DEF ContextOK
<1>. QED
  BY <1>4, <1>7, <1>8 DEF LoopInv, LoopTypes

\* A waiting message, said and taken into the context.
LEMMA PendingKeeps ==
  ASSUME LoopInv, NEW next \in {"poll", "inject"}, pc \in {"prompts", "inject"}, pending # <<>>,
         context' = context \o pending, pending' = <<>>,
         Say(pending[1], next, "failing", <<>>), UNCHANGED <<notBySay, batch, users, turns>>
  PROVE  LoopInv'
<1>1. TalkTypes /\ pc \notin Working
  BY DEF LoopInv, LoopTypes, Working
<1>2. pending[1] \in UserMessages /\ pending = <<pending[1]>>
  <2>1. pending \in Seq(UserMessages) /\ Len(pending) \in Nat /\ Len(pending) <= 1 /\ Len(pending) # 0
    BY <1>1, LenProperties, EmptySeq DEF TalkTypes
  <2>2. Len(pending) = 1
    <3>1. \A n \in Nat : n <= 1 /\ n # 0 => n = 1
      OBVIOUS
    <3>. QED
      BY <2>1, <3>1
  <2>3. 1 \in 1..Len(pending)
    BY <2>2
  <2>. QED
    BY <2>1, <2>2, <2>3, ElementOfSeq
<1>. DEFINE m == pending[1]
<1>3. m \in Messages /\ m.role # "result"
  BY <1>2, KindsApart DEF UserMessages
<1>4. next \in Places \ Working /\ "failing" \in Places \ Working /\ next # "failing"
  BY DEF Places, Working
<1>5. Plain(<<>>) /\ UNCHANGED <<batch, answer, base>>
  BY PlainOnes DEF notBySay
<1>6. /\ BatchTypes' /\ BatchOK' /\ EventsOK' /\ StoredOK' /\ events' \in Seq(LoopEvents)
      /\ pc' \in {next, "failing"} /\ onDisk' \in BOOLEAN /\ faults' \in Nat
      /\ stored' \in Seq(Messages) /\ base' \in 0..Len(stored')
      /\ pc' # "failing" => stored' = Append(stored, m)
  BY <1>1, <1>3, <1>4, <1>5, QuietSay
<1>7. context' = Append(context, m) /\ context' \in Seq(Messages)
  <2>1. context \in Seq(Messages) /\ context' = context \o <<m>>
    BY <1>1, <1>2 DEF TalkTypes
  <2>. QED
    BY <1>3, <2>1, AppendIsConcat, AppendProperties
<1>8. TalkTypes'
  <2>1. pc' \in Places /\ pc' # "prompts"
    BY <1>4, <1>6
  <2>2. pending' \in Seq(UserMessages) /\ Len(pending') <= 1
    BY EmptySeq
  <2>3. UNCHANGED <<cancelled, more, crashes, users, turns>>
    BY DEF notBySay
  <2>. QED
    BY <1>1, <1>6, <1>7, <2>1, <2>2, <2>3 DEF TalkTypes
<1>9. ContextOK'
  <2>1. context = stored
    BY DEF LoopInv, ContextOK
  <2>. QED
    BY <1>6, <1>7, <2>1 DEF ContextOK
<1>. QED
  BY <1>6, <1>8, <1>9 DEF LoopInv, LoopTypes

LEMMA EmitPromptKeeps == ASSUME LoopInv, EmitPrompt PROVE LoopInv'
<1>1. pending # <<>>
  BY DEF EmitPrompt, LoopInv, LoopTypes, TalkTypes
<1>. QED
  BY <1>1, PendingKeeps DEF EmitPrompt

LEMMA InjectKeeps == ASSUME LoopInv, Inject PROVE LoopInv'
  BY PendingKeeps DEF Inject

\* What a poll answers.
LEMMA PolledTypes ==
  ASSUME TalkTypes, NEW arrives \in BOOLEAN, Polled(arrives)
  PROVE  pending' \in Seq(UserMessages) /\ Len(pending') <= 1 /\ users' \in 0..MaxUsers
<1>1. CASE arrives
  <2>1. users \in 0..MaxUsers /\ MaxUsers \in Nat /\ users < MaxUsers
    BY <1>1, Bounds DEF TalkTypes, Polled
  <2>2. users + 1 \in 1..MaxUsers
    BY <2>1
  <2>3. User(users + 1) \in UserMessages
    BY <2>2, KindsApart
  <2>4. pending' = <<User(users + 1)>> /\ users' = users + 1
    BY <1>1 DEF Polled
  <2>5. <<User(users + 1)>> \in Seq(UserMessages) /\ Len(<<User(users + 1)>>) = 1
    BY <2>3
  <2>. QED
    BY <2>1, <2>2, <2>4, <2>5
<1>2. CASE ~arrives
  BY <1>2 DEF Polled, TalkTypes
<1>. QED
  BY <1>1, <1>2

LEMMA GetSteeringMessagesKeeps == ASSUME LoopInv, GetSteeringMessages PROVE LoopInv'
<1>1. /\ TalkTypes /\ pc \notin Working /\ pc \in {"poll", "poll_more"} /\ events \in Seq(LoopEvents)
      /\ UNCHANGED <<cancelled, context, stored, onDisk, base, answer, batch, more, turns, faults, crashes>>
  BY DEF GetSteeringMessages, LoopInv, LoopTypes, TalkTypes, Working
<1>2. /\ pc' \in {"failing", "inject", "follow_up"}
      /\ pending' \in Seq(UserMessages) /\ Len(pending') <= 1 /\ users' \in 0..MaxUsers
      /\ \E es : Plain(es) /\ events' = events \o es
  <2>1. CASE PollRefused
    BY <1>1, <2>1, ConcatNothing DEF PollRefused, TalkTypes
  <2>2. ASSUME NEW arrives \in BOOLEAN, Polled(arrives),
               pc' = IF pc = "poll" \/ more \/ arrives THEN "inject" ELSE "follow_up",
               Publish(IF pc = "poll_more" /\ (more \/ arrives) THEN <<Event("turn_start")>> ELSE <<>>)
        PROVE  <1>2
    <3>1. \E es : Plain(es) /\ events' = events \o es
      BY <2>2, PlainOnes DEF Publish
    <3>2. pc' \in {"inject", "follow_up"}
      BY <2>2
    <3>. QED
      BY <1>1, <2>2, <3>1, <3>2, PolledTypes
  <2>. QED
    BY <2>1, <2>2 DEF GetSteeringMessages
<1>3. pc' \notin Working /\ pc' \in Places /\ pc' # "prompts"
  BY <1>2 DEF Working, Places
<1>4. BatchTypes' /\ BatchOK' /\ EventsOK' /\ StoredOK' /\ events' \in Seq(LoopEvents)
  <2>1. PICK es : Plain(es) /\ events' = events \o es
    BY <1>2
  <2>. QED
    BY <1>1, <1>3, <2>1, Quiet
<1>5. TalkTypes'
  BY <1>1, <1>2, <1>3, <1>4 DEF TalkTypes
<1>6. ContextOK'
  BY <1>1 DEF LoopInv, ContextOK
<1>. QED
  BY <1>4, <1>5, <1>6 DEF LoopInv, LoopTypes

LEMMA GetFollowUpMessagesKeeps == ASSUME LoopInv, GetFollowUpMessages PROVE LoopInv'
<1>1. /\ TalkTypes /\ pc \notin Working /\ pc = "follow_up" /\ events \in Seq(LoopEvents)
      /\ UNCHANGED <<cancelled, context, stored, onDisk, base, answer, batch, more, turns, faults, crashes>>
  BY DEF GetFollowUpMessages, LoopInv, LoopTypes, TalkTypes, Working
<1>2. /\ pc' \in {"failing", "inject", "idle"}
      /\ pending' \in Seq(UserMessages) /\ Len(pending') <= 1 /\ users' \in 0..MaxUsers
      /\ \E es : Plain(es) /\ events' = events \o es
  <2>1. CASE PollRefused
    BY <1>1, <2>1, ConcatNothing DEF PollRefused, TalkTypes
  <2>2. ASSUME NEW arrives \in BOOLEAN, Polled(arrives),
               pc' = IF arrives THEN "inject" ELSE "idle",
               Publish(<<Event(IF arrives THEN "turn_start" ELSE "agent_end")>>)
        PROVE  <1>2
    <3>1. \E es : Plain(es) /\ events' = events \o es
      BY <2>2, PlainOnes DEF Publish
    <3>2. pc' \in {"inject", "idle"}
      BY <2>2
    <3>. QED
      BY <1>1, <2>2, <3>1, <3>2, PolledTypes
  <2>. QED
    BY <2>1, <2>2 DEF GetFollowUpMessages
<1>3. pc' \notin Working /\ pc' \in Places /\ pc' # "prompts"
  BY <1>2 DEF Working, Places
<1>4. BatchTypes' /\ BatchOK' /\ EventsOK' /\ StoredOK' /\ events' \in Seq(LoopEvents)
  <2>1. PICK es : Plain(es) /\ events' = events \o es
    BY <1>2
  <2>. QED
    BY <1>1, <1>3, <2>1, Quiet
<1>5. TalkTypes'
  BY <1>1, <1>2, <1>3, <1>4 DEF TalkTypes
<1>6. ContextOK'
  BY <1>1 DEF LoopInv, ContextOK
<1>. QED
  BY <1>4, <1>5, <1>6 DEF LoopInv, LoopTypes

\* Opening a stream, which may fail.
LEMMA RequestKeeps == ASSUME LoopInv, Request \/ StreamRefused PROVE LoopInv'
<1>1. /\ TalkTypes /\ pc \in {"inject", "streaming"} /\ pc' \in {"streaming", "failing"}
      /\ events' = events /\ batch' = batch /\ events \in Seq(LoopEvents)
      /\ UNCHANGED <<cancelled, context, stored, onDisk, base, pending, answer, more, users, turns, faults, crashes>>
  BY DEF Request, StreamRefused, notByTools, LoopInv, LoopTypes, TalkTypes
<1>2. pc \notin Working /\ pc' \notin Working /\ pc' \in Places /\ pc' # "prompts"
  BY <1>1 DEF Working, Places
<1>3. Plain(<<>>) /\ events' = events \o <<>>
  BY <1>1, ConcatNothing
<1>4. BatchTypes' /\ BatchOK' /\ EventsOK' /\ StoredOK' /\ events' \in Seq(LoopEvents)
  BY <1>1, <1>2, <1>3, Quiet
<1>5. TalkTypes'
  BY <1>1, <1>2, <1>4 DEF TalkTypes
<1>6. ContextOK'
  BY <1>1 DEF LoopInv, ContextOK
<1>. QED
  BY <1>4, <1>5, <1>6 DEF LoopInv, LoopTypes

LEMMA AnswerFailedKeeps == ASSUME LoopInv, AnswerFailed PROVE LoopInv'
<1>1. TalkTypes /\ pc \notin Working /\ UNCHANGED <<cancelled, base, answer, more, crashes, batch, pending, users>>
  BY DEF AnswerFailed, notBySay, LoopInv, LoopTypes, Working
<1>2. PICK n \in 0..MaxCalls :
         /\ context' = Append(context, Assistant(turns + 1, n, TRUE))
         /\ Say(Assistant(turns + 1, n, TRUE), "idle", "failing", RunEnd)
  BY DEF AnswerFailed
<1>3. turns' \in 0..MaxTurns /\ turns + 1 \in 0..MaxTurns
  BY <1>1, Bounds DEF AnswerFailed, TalkTypes
<1>. DEFINE m == Assistant(turns + 1, n, TRUE)
<1>4. m \in Messages /\ m.role = "assistant" /\ m.role # "result"
  BY <1>3, KindsApart
<1>5. "idle" \in Places \ Working /\ "failing" \in Places \ Working /\ Plain(RunEnd)
  BY PlainOnes DEF Places, Working
<1>. HIDE DEF m
<1>6. /\ BatchTypes' /\ BatchOK' /\ EventsOK' /\ StoredOK' /\ events' \in Seq(LoopEvents)
      /\ pc' \in {"idle", "failing"} /\ onDisk' \in BOOLEAN /\ faults' \in Nat
      /\ stored' \in Seq(Messages) /\ base' \in 0..Len(stored')
  <2>1. Say(m, "idle", "failing", RunEnd)
    BY <1>2 DEF m
  <2>. QED
    BY <1>1, <1>4, <1>5, <2>1, QuietSay
<1>7. context' \in Seq(Messages)
  <2>1. context' = Append(context, m) /\ context \in Seq(Messages)
    BY <1>1, <1>2 DEF m, TalkTypes
  <2>. QED
    BY <1>4, <2>1, AppendProperties
<1>8. TalkTypes'
  <2>1. pc' \in Places /\ pc' # "prompts"
    BY <1>6 DEF Places
  <2>. QED
    BY <1>1, <1>3, <1>6, <1>7, <2>1 DEF TalkTypes
<1>9. ContextOK'
  BY <1>6 DEF ContextOK
<1>. QED
  BY <1>6, <1>8, <1>9 DEF LoopInv, LoopTypes

LEMMA EmitRunFailureKeeps == ASSUME LoopInv, EmitRunFailure PROVE LoopInv'
<1>1. /\ TalkTypes /\ pc \notin Working
      /\ UNCHANGED <<cancelled, base, answer, more, crashes, context, batch, pending, users, turns>>
  BY DEF EmitRunFailure, notBySay, LoopInv, LoopTypes, Working
<1>2. Failure \in Messages /\ Failure.role # "result"
  BY KindsApart
<1>3. "idle" \in Places \ Working /\ Plain(RunEnd)
  BY PlainOnes DEF Places, Working
<1>4. /\ BatchTypes' /\ BatchOK' /\ EventsOK' /\ StoredOK' /\ events' \in Seq(LoopEvents)
      /\ pc' = "idle" /\ onDisk' \in BOOLEAN /\ faults' \in Nat
      /\ stored' \in Seq(Messages) /\ base' \in 0..Len(stored')
  BY <1>1, <1>2, <1>3, QuietSay DEF EmitRunFailure
<1>5. TalkTypes'
  BY <1>1, <1>4 DEF TalkTypes, Places
<1>6. ContextOK'
  BY <1>4 DEF ContextOK
<1>. QED
  BY <1>4, <1>5, <1>6 DEF LoopInv, LoopTypes

LEMMA TurnEndKeeps == ASSUME LoopInv, TurnEnd PROVE LoopInv'
<1>1. /\ TalkTypes /\ pc \notin Working /\ events' = events \o <<Event("turn_end")>>
      /\ UNCHANGED <<cancelled, stored, onDisk, base, pending, answer, batch, more, users, turns, faults, crashes>>
      /\ \/ pc' = "failing" /\ context' = context
         \/ pc' = "poll_more" /\ context' = stored
  BY DEF TurnEnd, Publish, LoopInv, LoopTypes, Working
<1>2. pc' \notin Working /\ pc' \in Places /\ pc' # "prompts"
  BY <1>1 DEF Working, Places
<1>3. Plain(<<Event("turn_end")>>)
  BY PlainOnes
<1>4. BatchTypes' /\ BatchOK' /\ EventsOK' /\ StoredOK' /\ events' \in Seq(LoopEvents)
  BY <1>1, <1>2, <1>3, Quiet
<1>5. TalkTypes'
  BY <1>1, <1>2, <1>4 DEF TalkTypes
<1>6. ContextOK'
  BY <1>1 DEF ContextOK
<1>. QED
  BY <1>4, <1>5, <1>6 DEF LoopInv, LoopTypes

LEMMA BatchReturnsKeeps == ASSUME LoopInv, BatchReturns PROVE LoopInv'
<1>1. /\ TalkTypes /\ BatchTypes /\ BatchOK /\ pc \in Working /\ pc' = "turn_end" /\ events \in Seq(LoopEvents)
      /\ batch.results = Len(batch.status) /\ more' \in BOOLEAN
      /\ context' = context \o [c \in Started |-> ToolResult(answer.id, c)]
      /\ UNCHANGED <<cancelled, stored, onDisk, events, base, pending, answer, batch, users, turns, faults, crashes>>
  BY DEF BatchReturns, LoopInv, LoopTypes, TalkTypes, Working
<1>2. pc' \notin Working /\ pc' \in Places /\ pc' # "prompts"
  BY <1>1 DEF Working, Places
<1>3. batch.status \in Seq(Statuses) /\ Len(batch.status) \in Nat /\ Started = 1..Len(batch.status)
  BY <1>1, LenProperties DEF BatchTypes, Batches, Started
<1>4. \A c \in Started : HasEnded(c)
  BY <1>1, <1>3 DEF BatchOK
<1>5. Plain(<<>>) /\ events' = events \o <<>>
  BY <1>1, ConcatNothing
<1>6. BatchTypes' /\ BatchOK' /\ EventsOK' /\ StoredOK' /\ events' \in Seq(LoopEvents)
  BY <1>1, <1>2, <1>4, <1>5, Quiet
<1>7. context' \in Seq(Messages)
  <2>1. \A c \in Started : ToolResult(answer.id, c) \in Messages
    <3>1. answer.id \in 0..MaxTurns /\ answer.id # 0 /\ answer.calls \in 0..MaxCalls /\ Len(batch.status) <= answer.calls
      BY <1>1 DEF BatchTypes, AnswerMessages
    <3>2. answer.id \in 1..MaxTurns /\ \A c \in Started : c \in 1..MaxCalls
      BY <1>3, <3>1, Bounds
    <3>. QED
      BY <3>2, KindsApart
  <2>2. [c \in Started |-> ToolResult(answer.id, c)] \in Seq(Messages)
    BY <1>3, <2>1
  <2>. QED
    BY <1>1, <2>2, ConcatProperties DEF TalkTypes
<1>8. TalkTypes'
  BY <1>1, <1>2, <1>7, <1>6 DEF TalkTypes
<1>9. ContextOK'
  BY <1>1 DEF ContextOK
<1>. QED
  BY <1>6, <1>8, <1>9 DEF LoopInv, LoopTypes

LEMMA CancelKeeps == ASSUME LoopInv, Cancel PROVE LoopInv'
<1>1. /\ TalkTypes /\ cancelled' = TRUE
      /\ UNCHANGED <<pc, context, stored, onDisk, events, base, pending, answer, batch, more, users, turns, faults, crashes>>
  BY DEF Cancel, LoopInv, LoopTypes
<1>2. TalkTypes'
  BY <1>1 DEF TalkTypes
<1>3. BatchTypes' /\ BatchOK'
  BY <1>1 DEF LoopInv, LoopTypes, BatchTypes, BatchOK, Started, HasEnded
<1>4. EventsOK'
  BY <1>1 DEF LoopInv, EventsOK, Count, Open, Started, HasEnded
<1>5. StoredOK' /\ ContextOK'
  BY <1>1 DEF LoopInv, StoredOK, ResultsFollowCalls, LastSaid, ContextOK
<1>. QED
  BY <1>2, <1>3, <1>4, <1>5 DEF LoopInv, LoopTypes

\* A batch nobody has started.
LEMMA FreshBatch ==
  ASSUME NEW mode \in Modes \cup {"none"}, batch' = NewBatch(mode), answer' \in AnswerMessages
  PROVE  /\ batch' \in Batches /\ Started' = {} /\ Len(batch'.status) = 0 /\ batch'.results = 0
         /\ batch'.mode = mode /\ DOMAIN batch'.completed = {}
         /\ Len(batch'.status) <= answer'.calls /\ batch'.results <= Len(batch'.status)
<1>1. <<>> \in Seq(Statuses) /\ <<>> \in Seq(Nat) /\ Len(<<>>) = 0 /\ DOMAIN <<>> = {}
  BY EmptySeq
<1>2. batch'.mode = mode /\ batch'.status = <<>> /\ batch'.completed = <<>> /\ batch'.results = 0
  BY DEF NewBatch
<1>3. batch' \in Batches
  BY <1>1 DEF NewBatch, Batches
<1>4. answer'.calls \in Nat
  BY Bounds DEF AnswerMessages
<1>. QED
  BY <1>1, <1>2, <1>3, <1>4 DEF Started

LEMMA FreshBatchOK ==
  ASSUME NEW mode \in Modes \cup {"none"}, batch' = NewBatch(mode), answer' \in AnswerMessages,
         pc' # "collecting", pc' \in Working => answer'.id # 0 /\ mode # "none"
  PROVE  BatchTypes' /\ BatchOK' /\ \A c : Open(c)' = 0
<1>1. /\ batch' \in Batches /\ Started' = {} /\ Len(batch'.status) = 0 /\ batch'.results = 0
      /\ batch'.mode = mode /\ DOMAIN batch'.completed = {}
      /\ Len(batch'.status) <= answer'.calls /\ batch'.results <= Len(batch'.status)
  BY FreshBatch
<1>2. 1..0 = {} /\ 0 <= 0 + 1
  OBVIOUS
<1>3. BatchTypes'
  BY <1>1 DEF BatchTypes
<1>4. BatchOK'
  BY <1>1, <1>2 DEF BatchOK
<1>. QED
  BY <1>1, <1>3, <1>4 DEF Open

LEMMA AnswerKeeps == ASSUME LoopInv, Answer PROVE LoopInv'
<1>1. TalkTypes /\ pc = "streaming" /\ UNCHANGED <<cancelled, base, pending, users, crashes>> /\ more' = FALSE
  BY DEF Answer, LoopInv, LoopTypes
<1>2. PICK n \in 0..MaxCalls, mode \in Modes :
         /\ answer' = Assistant(turns + 1, n, FALSE)
         /\ batch' = NewBatch(mode)
         /\ context' = Append(context, Assistant(turns + 1, n, FALSE))
         /\ Say(Assistant(turns + 1, n, FALSE), IF n = 0 THEN "turn_end" ELSE "tools", "failing", <<>>)
  BY DEF Answer
<1>3. turns' \in 0..MaxTurns /\ turns + 1 \in 0..MaxTurns /\ turns + 1 # 0
  BY <1>1, Bounds DEF Answer, TalkTypes
<1>. DEFINE m == Assistant(turns + 1, n, FALSE)
            next == IF n = 0 THEN "turn_end" ELSE "tools"
<1>4. m \in Messages /\ m \in AnswerMessages /\ m.role = "assistant" /\ m.id # 0 /\ ~m.failed
  BY <1>3, KindsApart DEF Assistant, AnswerMessages
<1>5. next \in Places /\ "failing" \in Places /\ Plain(<<>>) /\ next \in {"turn_end", "tools"}
  BY PlainOnes DEF Places
<1>6. answer' = m /\ context' = Append(context, m) /\ Say(m, next, "failing", <<>>)
  BY <1>2
<1>. HIDE DEF m, next
<1>7. /\ pc' \in {next, "failing"} /\ onDisk' \in BOOLEAN /\ faults' \in Nat
      /\ stored' \in Seq(Messages) /\ Len(stored) \in Nat /\ Len(stored') >= Len(stored)
      /\ stored' = stored \/ stored' = Append(stored, m)
      /\ pc' # "failing" => stored' = Append(stored, m)
      /\ \E es : Plain(es) /\ events' = events \o es
  BY <1>1, <1>4, <1>5, <1>6, SayDoes
<1>8. pc' # "collecting" /\ (pc' \in Working => answer'.id # 0 /\ mode # "none")
  <2>1. mode # "none"
    BY <1>2, ModesAssumption
  <2>. QED
    BY <1>4, <1>5, <1>6, <1>7, <2>1
<1>9. BatchTypes' /\ BatchOK' /\ \A c : Open(c)' = 0
  BY <1>2, <1>4, <1>6, <1>8, FreshBatchOK
<1>10. EventsOK' /\ events' \in Seq(LoopEvents)
  <2>1. PICK es : Plain(es) /\ events' = events \o es
    BY <1>7
  <2>2. events \in Seq(LoopEvents) /\ pc \notin Working
    BY <1>1 DEF TalkTypes, Working
  <2>3. \A c : Open(c) = 0
    BY <2>2 DEF LoopInv, BatchOK, Open
  <2>4. ASSUME NEW c PROVE Count("tool_end", c)' = Count("tool_end", c) /\ Count("tool_start", c)' = Count("tool_start", c)
    BY <2>1, <2>2, PlainCounts
  <2>5. events' \in Seq(LoopEvents)
    BY <2>1, <2>2, PlainCounts
  <2>. HIDE DEF Open
  <2>. QED
    BY <1>9, <2>3, <2>4, <2>5 DEF EventsOK, LoopInv
<1>11. StoredOK'
  <2>1. ResultsFollowCalls /\ stored \in Seq(Messages)
    BY <1>1 DEF LoopInv, StoredOK, TalkTypes
  <2>2. ResultsFollowCalls'
    <3>1. CASE stored' = stored
      BY <2>1, <3>1 DEF ResultsFollowCalls
    <3>2. CASE stored' = Append(stored, m)
      BY <1>4, <2>1, <3>2, FollowsAppend
    <3>. QED
      BY <1>7, <3>1, <3>2
  <2>3. ASSUME pc' \in Working PROVE LastSaid'
    <3>1. stored' = Append(stored, m)
      BY <1>7, <2>3 DEF Working
    <3>2. stored' # <<>> /\ stored'[Len(stored')] = m
      BY <1>4, <2>1, <3>1, AppendProperties, LenProperties
    <3>3. batch'.results = 0
      BY <1>2 DEF NewBatch
    <3>. QED
      BY <1>4, <1>6, <3>2, <3>3 DEF LastSaid
  <2>. QED
    BY <2>2, <2>3 DEF StoredOK
<1>12. TalkTypes'
  <2>1. base' \in 0..Len(stored')
    <3>1. base \in Nat /\ base <= Len(stored) /\ Len(stored') \in Nat
      BY <1>1, <1>7, LenProperties DEF TalkTypes
    <3>. QED
      BY <1>1, <1>7, <3>1
  <2>2. context' \in Seq(Messages)
    BY <1>1, <1>4, <1>6, AppendProperties DEF TalkTypes
  <2>3. pc' \in Places /\ pc' # "prompts"
    BY <1>5, <1>7
  <2>. QED
    BY <1>1, <1>3, <1>7, <1>10, <2>1, <2>2, <2>3 DEF TalkTypes
<1>13. ContextOK'
  BY <1>5, <1>7 DEF ContextOK
<1>. QED
  BY <1>9, <1>10, <1>11, <1>12, <1>13 DEF LoopInv, LoopTypes

LEMMA NoEvents == ASSUME events' = <<>> PROVE \A type, c : Count(type, c)' = 0
<1>1. ASSUME NEW x PROVE {i \in DOMAIN events' : events'[i] = x} = {}
  BY EmptySeq
<1>. QED
  BY <1>1, FS_EmptySet DEF Count

LEMMA CrashKeeps == ASSUME LoopInv, Crash PROVE LoopInv'
<1>1. /\ TalkTypes /\ pc' = "idle" /\ cancelled' = FALSE /\ context' = <<>> /\ events' = <<>> /\ pending' = <<>>
      /\ answer' = NoAnswer /\ batch' = NewBatch("none") /\ more' = FALSE /\ crashes' = crashes + 1
      /\ UNCHANGED <<onDisk, users, turns, faults>> /\ base' = Len(stored')
      /\ stored' = stored \/ stored' = <<>>
  BY DEF Crash, LoopInv, LoopTypes
<1>2. answer' \in AnswerMessages
  BY <1>1, Bounds DEF NoAnswer, Assistant, AnswerMessages
<1>3. BatchTypes' /\ BatchOK' /\ \A c : Open(c)' = 0
  BY <1>1, <1>2, FreshBatchOK DEF Working
<1>4. EventsOK'
  <2>. HIDE DEF Open
  <2>1. ASSUME NEW c PROVE Count("tool_end", c)' = 0 /\ Count("tool_start", c)' = 0
    BY <1>1, NoEvents
  <2>. QED
    BY <1>3, <2>1 DEF EventsOK
<1>5. stored' \in Seq(Messages) /\ Len(stored') \in Nat
  <2>1. stored' \in Seq(Messages)
    BY <1>1, EmptySeq DEF TalkTypes
  <2>. QED
    BY <2>1, LenProperties
<1>6. StoredOK'
  <2>1. ResultsFollowCalls
    BY DEF LoopInv, StoredOK
  <2>2. CASE stored' = stored
    BY <1>1, <2>1, <2>2 DEF StoredOK, ResultsFollowCalls, Working
  <2>3. CASE stored' = <<>>
    BY <1>1, <2>3, EmptySeq DEF StoredOK, ResultsFollowCalls, Working
  <2>. QED
    BY <1>1, <2>2, <2>3
<1>7. TalkTypes'
  <2>1. base' \in 0..Len(stored') /\ crashes' \in Nat
    BY <1>1, <1>5 DEF TalkTypes
  <2>2. <<>> \in Seq(Messages) /\ <<>> \in Seq(UserMessages) /\ <<>> \in Seq(LoopEvents) /\ Len(<<>>) <= 1
    BY EmptySeq
  <2>3. pc' \in Places /\ pc' # "prompts"
    BY <1>1 DEF Places
  <2>. QED
    BY <1>1, <1>5, <2>1, <2>2, <2>3 DEF TalkTypes
<1>8. ContextOK'
  BY <1>1 DEF ContextOK
<1>. QED
  BY <1>3, <1>4, <1>6, <1>7, <1>8 DEF LoopInv, LoopTypes

-----------------------------------------------------------------------
(* The steps of a batch                                                         *)

\* What the invariant says of a batch that is worked on.
LEMMA WorkingFacts ==
  ASSUME LoopInv, pc \in Working
  PROVE  /\ TalkTypes /\ BatchTypes /\ BatchOK /\ EventsOK /\ events \in Seq(LoopEvents)
         /\ batch \in Batches /\ batch.status \in Seq(Statuses) /\ Len(batch.status) \in Nat
         /\ Started = 1..Len(batch.status) /\ batch.results \in Nat /\ answer.id # 0
         /\ batch.mode \in {"sequential", "parallel"}
         /\ answer.calls \in 0..MaxCalls /\ Len(batch.status) <= answer.calls /\ MaxCalls \in Nat
         /\ answer.id \in 1..MaxTurns /\ \A c \in Started : c \in 1..MaxCalls
<1>1. /\ TalkTypes /\ BatchTypes /\ BatchOK /\ EventsOK /\ events \in Seq(LoopEvents)
      /\ batch \in Batches /\ batch.status \in Seq(Statuses) /\ Len(batch.status) \in Nat
      /\ Started = 1..Len(batch.status) /\ batch.results \in Nat /\ answer.id # 0
      /\ batch.mode # "none"
      /\ answer \in AnswerMessages /\ Len(batch.status) <= answer.calls
  BY LenProperties DEF LoopInv, LoopTypes, TalkTypes, BatchTypes, Batches, Started
<1>2. batch.mode \in {"sequential", "parallel"}
  BY <1>1, ModesAssumption DEF Batches
<1>3. answer.id \in 0..MaxTurns /\ answer.calls \in 0..MaxCalls
  BY <1>1 DEF AnswerMessages
<1>4. answer.id \in 1..MaxTurns
  BY <1>1, <1>3, Bounds
<1>5. \A c \in Started : c \in 1..MaxCalls
  BY <1>1, <1>3, Bounds
<1>. QED
  BY <1>1, <1>2, <1>3, <1>4, <1>5, Bounds

LEMMA TwoInARow == ASSUME NEW S, NEW a \in S, NEW b \in S PROVE <<a>> \o <<b>> = <<a, b>>
<1>1. /\ <<a>> \in Seq(S) /\ <<b>> \in Seq(S) /\ <<a, b>> \in Seq(S)
      /\ Len(<<a>>) = 1 /\ Len(<<b>>) = 1 /\ Len(<<a, b>>) = 2
  OBVIOUS
<1>2. /\ <<a>> \o <<b>> \in Seq(S) /\ Len(<<a>> \o <<b>>) = 2
      /\ \A i \in 1..2 : (<<a>> \o <<b>>)[i] = IF i <= 1 THEN <<a>>[i] ELSE <<b>>[i - 1]
  BY <1>1, ConcatProperties
<1>3. (<<a>> \o <<b>>)[1] = a
  BY <1>2
<1>4. (<<a>> \o <<b>>)[2] = b
  BY <1>2
<1>5. \A i \in 1..2 : (<<a>> \o <<b>>)[i] = <<a, b>>[i]
  BY <1>3, <1>4
<1>. QED
  BY <1>1, <1>2, <1>5, SeqEqual

\* One event of a tool more.
LEMMA ToolCounts ==
  ASSUME NEW s \in Seq(LoopEvents), NEW kind \in {"tool_start", "tool_end"}, NEW c \in 1..MaxCalls
  PROVE  /\ ToolEvent(kind, c) \in LoopEvents
         /\ s \o <<ToolEvent(kind, c)>> \in Seq(LoopEvents)
         /\ \A type, d : Occ(s \o <<ToolEvent(kind, c)>>, ToolEvent(type, d))
                            = Occ(s, ToolEvent(type, d)) + (IF type = kind /\ d = c THEN 1 ELSE 0)
<1>1. ToolEvent(kind, c) \in LoopEvents
  BY DEF ToolEvent, LoopEvents
<1>2. s \o <<ToolEvent(kind, c)>> = Append(s, ToolEvent(kind, c))
  BY <1>1, AppendIsConcat
<1>3. Append(s, ToolEvent(kind, c)) \in Seq(LoopEvents)
  BY <1>1, AppendProperties
<1>4. ASSUME NEW type, NEW d
      PROVE  ToolEvent(kind, c) = ToolEvent(type, d) <=> type = kind /\ d = c
  <2>1. ToolEvent(kind, c).type = kind /\ ToolEvent(kind, c).call = c
    BY DEF ToolEvent
  <2>2. ToolEvent(type, d).type = type /\ ToolEvent(type, d).call = d
    BY DEF ToolEvent
  <2>3. type = kind /\ d = c => ToolEvent(kind, c) = ToolEvent(type, d)
    OBVIOUS
  <2>. QED
    BY <2>1, <2>2, <2>3
<1>5. ASSUME NEW type, NEW d
      PROVE  Occ(Append(s, ToolEvent(kind, c)), ToolEvent(type, d))
                = Occ(s, ToolEvent(type, d)) + (IF type = kind /\ d = c THEN 1 ELSE 0)
  <2>1. CASE type = kind /\ d = c
    BY <1>1, <1>4, <2>1, OccAppend
  <2>2. CASE ~(type = kind /\ d = c)
    BY <1>1, <1>4, <2>2, OccAppend
  <2>. QED
    BY <2>1, <2>2
<1>. QED
  BY <1>1, <1>2, <1>3, <1>5

\* A call is announced: it is on the screen unless it has ended at once.
LEMMA AnnounceCounts ==
  ASSUME LoopInv, pc \in Working, NEW c \in (1..MaxCalls) \ Started,
         \/ events' = events \o <<ToolEvent("tool_start", c)>> /\ Open(c)' = 1
         \/ events' = events \o <<ToolEvent("tool_start", c), ToolEvent("tool_end", c)>> /\ Open(c)' = 0,
         \A d \in 1..MaxCalls : d # c => Open(d)' = Open(d)
  PROVE  EventsOK' /\ events' \in Seq(LoopEvents)
<1>1. EventsOK /\ events \in Seq(LoopEvents)
  BY WorkingFacts
<1>. DEFINE one == events \o <<ToolEvent("tool_start", c)>>
            two == one \o <<ToolEvent("tool_end", c)>>
<1>2. /\ one \in Seq(LoopEvents)
      /\ \A type, d : Occ(one, ToolEvent(type, d))
                         = Occ(events, ToolEvent(type, d)) + (IF type = "tool_start" /\ d = c THEN 1 ELSE 0)
  BY <1>1, ToolCounts
<1>3. /\ two \in Seq(LoopEvents)
      /\ \A type, d : Occ(two, ToolEvent(type, d))
                         = Occ(one, ToolEvent(type, d)) + (IF type = "tool_end" /\ d = c THEN 1 ELSE 0)
  <2>. HIDE DEF one
  <2>. QED
    BY <1>2, ToolCounts
<1>4. two = events \o <<ToolEvent("tool_start", c), ToolEvent("tool_end", c)>>
  <2>1. <<ToolEvent("tool_start", c)>> \in Seq(LoopEvents) /\ <<ToolEvent("tool_end", c)>> \in Seq(LoopEvents)
    <3>1. ToolEvent("tool_start", c) \in LoopEvents /\ ToolEvent("tool_end", c) \in LoopEvents
      BY <1>1, ToolCounts
    <3>. QED
      BY <3>1
  <2>2. <<ToolEvent("tool_start", c)>> \o <<ToolEvent("tool_end", c)>>
           = <<ToolEvent("tool_start", c), ToolEvent("tool_end", c)>>
    <3>1. ToolEvent("tool_start", c) \in LoopEvents /\ ToolEvent("tool_end", c) \in LoopEvents
      BY <1>1, ToolCounts
    <3>. QED
      BY <3>1, TwoInARow
  <2>. QED
    BY <1>1, <2>1, <2>2, ConcatAssociative
<1>5. Open(c) = 0
  BY DEF Open
<1>6. ASSUME NEW d \in 1..MaxCalls
      PROVE  /\ Occ(events, ToolEvent("tool_end", d)) \in Nat
             /\ Occ(events, ToolEvent("tool_start", d)) = Occ(events, ToolEvent("tool_end", d)) + Open(d)
  BY <1>1 DEF EventsOK, Count, Occ
<1>7. \A d : Open(d) \in {0, 1} /\ Open(d)' \in {0, 1}
  BY DEF Open
<1>8. ASSUME NEW d \in 1..MaxCalls
      PROVE  /\ Occ(events', ToolEvent("tool_end", d)) \in Nat
             /\ Occ(events', ToolEvent("tool_start", d)) = Occ(events', ToolEvent("tool_end", d)) + Open(d)'
  <2>. HIDE DEF one, two, Open, Occ
  <2>1. CASE events' = one /\ Open(c)' = 1
    BY <1>2, <1>5, <1>6, <1>7, <2>1
  <2>2. CASE events' = two /\ Open(c)' = 0
    BY <1>2, <1>3, <1>5, <1>6, <1>7, <2>2
  <2>. QED
    BY <1>4, <2>1, <2>2 DEF one
<1>. QED
  BY <1>2, <1>3, <1>4, <1>8 DEF EventsOK, Count, Occ

\* A call ends: it leaves the screen.
LEMMA EndCounts ==
  ASSUME LoopInv, pc \in Working, NEW c \in Started, Open(c) = 1, Open(c)' = 0,
         events' = events \o <<ToolEvent("tool_end", c)>>,
         \A d \in 1..MaxCalls : d # c => Open(d)' = Open(d)
  PROVE  EventsOK' /\ events' \in Seq(LoopEvents)
<1>1. EventsOK /\ events \in Seq(LoopEvents) /\ c \in 1..MaxCalls
  BY WorkingFacts
<1>2. /\ events' \in Seq(LoopEvents)
      /\ \A type, d : Occ(events', ToolEvent(type, d))
                         = Occ(events, ToolEvent(type, d)) + (IF type = "tool_end" /\ d = c THEN 1 ELSE 0)
  BY <1>1, ToolCounts
<1>3. ASSUME NEW d \in 1..MaxCalls
      PROVE  /\ Occ(events, ToolEvent("tool_end", d)) \in Nat
             /\ Occ(events, ToolEvent("tool_start", d)) = Occ(events, ToolEvent("tool_end", d)) + Open(d)
  BY <1>1 DEF EventsOK, Count, Occ
<1>4. \A d : Open(d) \in {0, 1}
  BY DEF Open
<1>5. ASSUME NEW d \in 1..MaxCalls
      PROVE  /\ Occ(events', ToolEvent("tool_end", d)) \in Nat
             /\ Occ(events', ToolEvent("tool_start", d)) = Occ(events', ToolEvent("tool_end", d)) + Open(d)'
  <2>. HIDE DEF Open, Occ
  <2>1. CASE d = c
    BY <1>2, <1>3, <1>4, <2>1
  <2>2. CASE d # c
    BY <1>2, <1>3, <1>4, <2>2
  <2>. QED
    BY <2>1, <2>2
<1>. QED
  BY <1>2, <1>5 DEF EventsOK, Count, Occ

\* One more call of the batch is looked at.
LEMMA StartsOne ==
  ASSUME LoopInv, MayStart, NEW s \in {"blocked", "prepared", "running"},
         NEW c, c = Len(batch.status) + 1,
         batch' = [batch EXCEPT !.status = Append(@, s)], UNCHANGED <<pc, answer>>
  PROVE  /\ BatchTypes' /\ BatchOK' /\ batch'.results = batch.results /\ pc \in Working
         /\ c \in (1..MaxCalls) \ Started
         /\ Open(c)' = (IF s = "blocked" THEN 0 ELSE 1)
         /\ \A d \in 1..MaxCalls : d # c => Open(d)' = Open(d)
<1>1. pc = "tools" /\ pc \in Working /\ MoreToStart
      /\ (batch.mode = "sequential" => batch.results = Len(batch.status))
  BY DEF MayStart, Working
<1>2. /\ BatchTypes /\ BatchOK /\ batch \in Batches /\ batch.status \in Seq(Statuses)
      /\ Len(batch.status) \in Nat /\ Started = 1..Len(batch.status) /\ batch.results \in Nat
      /\ answer.calls \in 0..MaxCalls /\ MaxCalls \in Nat
  BY <1>1, WorkingFacts
<1>3. Len(batch.status) < answer.calls
  BY <1>1 DEF MoreToStart
<1>. DEFINE old == batch.status
            status == Append(old, s)
<1>4. s \in Statuses /\ s # "ended"
  BY DEF Statuses
<1>5. /\ status \in Seq(Statuses) /\ Len(status) = Len(old) + 1 /\ status[c] = s
      /\ \A d \in 1..Len(old) : status[d] = old[d]
      /\ DOMAIN status = 1..Len(old) + 1
  BY <1>2, <1>4, AppendProperties, LenProperties
<1>6. /\ batch'.status = status /\ batch'.completed = batch.completed /\ batch'.results = batch.results
      /\ batch'.mode = batch.mode /\ batch' \in Batches
  BY <1>2, <1>5 DEF Batches
<1>. HIDE DEF status
<1>7. c \in (1..MaxCalls) \ Started /\ Len(status) <= answer.calls
  BY <1>2, <1>3, <1>5
<1>8. BatchTypes'
  <2>1. batch.results <= Len(status)
    BY <1>2, <1>5 DEF BatchTypes
  <2>. QED
    BY <1>2, <1>6, <1>7, <2>1 DEF BatchTypes
<1>9. /\ Started' = 1..Len(old) + 1 /\ Started \subseteq Started'
      /\ \A d \in Started : (HasEnded(d)' <=> HasEnded(d)) /\ batch'.status[d] = batch.status[d]
  BY <1>2, <1>5, <1>6 DEF Started, HasEnded
<1>10. BatchOK'
  <2>1. \A d \in 1..batch'.results : HasEnded(d)'
    <3>1. \A d \in 1..batch.results : d \in Started /\ HasEnded(d)
      BY <1>2 DEF BatchOK, BatchTypes
    <3>. QED
      BY <1>6, <1>9, <3>1
  <2>2. pc' = "tools" /\ pc' # "collecting" /\ pc' \in Working
    BY <1>1
  <2>3. pc' = "tools" /\ batch'.mode = "parallel" => batch'.results = 0
    BY <1>2, <1>6, <2>2 DEF BatchOK
  <2>4. batch'.mode = "sequential" => Len(batch'.status) <= batch'.results + 1
    BY <1>1, <1>2, <1>5, <1>6
  <2>5. \A i \in DOMAIN batch'.completed :
          /\ batch'.completed[i] \in Started'
          /\ batch'.status[batch'.completed[i]] = "returned"
          /\ \A k \in DOMAIN batch'.completed : batch'.completed[k] = batch'.completed[i] => k = i
    BY <1>2, <1>6, <1>9 DEF BatchOK
  <2>. QED
    BY <2>1, <2>2, <2>3, <2>4, <2>5 DEF BatchOK
<1>11. Open(c)' = (IF s = "blocked" THEN 0 ELSE 1)
  <2>1. c \in Started'
    BY <1>2, <1>9
  <2>2. HasEnded(c)' <=> s = "blocked"
    BY <1>4, <1>5, <1>6 DEF HasEnded
  <2>. QED
    BY <2>1, <2>2 DEF Open
<1>12. \A d \in 1..MaxCalls : d # c => Open(d)' = Open(d)
  <2>1. \A d \in 1..MaxCalls : d # c => (d \in Started' <=> d \in Started)
    BY <1>2, <1>9
  <2>. QED
    BY <1>9, <2>1 DEF Open
<1>. QED
  BY <1>1, <1>6, <1>7, <1>8, <1>10, <1>11, <1>12

LEMMA StartBlockedKeeps == ASSUME LoopInv, StartBlocked PROVE LoopInv'
<1>. PICK c : c = Len(batch.status) + 1
  OBVIOUS
<1>1. /\ MayStart /\ batch' = [batch EXCEPT !.status = Append(@, "blocked")]
      /\ events' = events \o <<ToolEvent("tool_start", c), ToolEvent("tool_end", c)>>
      /\ UNCHANGED <<pc, notByTools>> /\ UNCHANGED <<pc, answer>>
  BY DEF StartBlocked, Publish, notByTools
<1>2. /\ BatchTypes' /\ BatchOK' /\ batch'.results = batch.results /\ pc \in Working
      /\ c \in (1..MaxCalls) \ Started /\ Open(c)' = 0
      /\ \A d \in 1..MaxCalls : d # c => Open(d)' = Open(d)
  BY <1>1, StartsOne
<1>. HIDE DEF Open
<1>3. EventsOK' /\ events' \in Seq(LoopEvents)
  BY <1>1, <1>2, AnnounceCounts
<1>4. TalkTypes' /\ StoredOK' /\ ContextOK'
  BY <1>1, <1>2, <1>3, ToolsKeep
<1>. QED
  BY <1>2, <1>3, <1>4 DEF LoopInv, LoopTypes

LEMMA StartPreparedKeeps == ASSUME LoopInv, StartPrepared PROVE LoopInv'
<1>. PICK c : c = Len(batch.status) + 1
  OBVIOUS
<1>1. PICK s \in {"prepared", "running"} : batch' = [batch EXCEPT !.status = Append(@, s)]
  BY DEF StartPrepared
<1>2. /\ MayStart /\ events' = events \o <<ToolEvent("tool_start", c)>>
      /\ UNCHANGED <<pc, notByTools>> /\ UNCHANGED <<pc, answer>>
  BY DEF StartPrepared, Publish, notByTools
<1>3. /\ BatchTypes' /\ BatchOK' /\ batch'.results = batch.results /\ pc \in Working
      /\ c \in (1..MaxCalls) \ Started /\ Open(c)' = 1
      /\ \A d \in 1..MaxCalls : d # c => Open(d)' = Open(d)
  BY <1>1, <1>2, StartsOne
<1>. HIDE DEF Open
<1>4. EventsOK' /\ events' \in Seq(LoopEvents)
  BY <1>2, <1>3, AnnounceCounts
<1>5. TalkTypes' /\ StoredOK' /\ ContextOK'
  BY <1>2, <1>3, <1>4, ToolsKeep
<1>. QED
  BY <1>3, <1>4, <1>5 DEF LoopInv, LoopTypes

LEMMA LaunchKeeps == ASSUME LoopInv, Launch PROVE LoopInv'
<1>. DEFINE status == [c \in Started |-> IF batch.status[c] = "prepared" THEN "running" ELSE batch.status[c]]
<1>1. /\ pc = "tools" /\ pc \in Working /\ pc' = "collecting" /\ pc' \in Working /\ batch.mode = "parallel"
      /\ batch' = [batch EXCEPT !.status = status] /\ UNCHANGED <<events, notByTools>> /\ answer' = answer
  BY DEF Launch, notByTools, Working
<1>2. /\ BatchTypes /\ BatchOK /\ batch \in Batches /\ batch.status \in Seq(Statuses)
      /\ Len(batch.status) \in Nat /\ Started = 1..Len(batch.status) /\ batch.results \in Nat
      /\ EventsOK /\ events \in Seq(LoopEvents)
  BY <1>1, WorkingFacts
<1>3. /\ status \in Seq(Statuses) /\ Len(status) = Len(batch.status) /\ DOMAIN status = Started
      /\ \A c \in Started : /\ status[c] \in {"blocked", "ended"} <=> batch.status[c] \in {"blocked", "ended"}
                            /\ batch.status[c] = "returned" => status[c] = "returned"
  <2>1. \A c \in Started : batch.status[c] \in Statuses
    BY <1>2, ElementOfSeq DEF Started
  <2>2. \A c \in Started : status[c] \in Statuses
    BY <2>1 DEF Statuses
  <2>3. status \in Seq(Statuses) /\ Len(status) = Len(batch.status)
    <3>1. status \in [1..Len(batch.status) -> Statuses]
      BY <1>2, <2>2
    <3>. HIDE DEF status
    <3>2. DOMAIN status = 1..Len(batch.status) /\ \A c \in 1..Len(batch.status) : status[c] \in Statuses
      BY <3>1
    <3>3. status \in Seq(Statuses)
      BY <1>2, <3>1
    <3>. QED
      BY <1>2, <3>2, <3>3, LenProperties
  <2>. QED
    BY <2>3
<1>4. /\ batch'.status = status /\ batch'.completed = batch.completed /\ batch'.results = batch.results
      /\ batch'.mode = batch.mode /\ batch' \in Batches
  BY <1>1, <1>2, <1>3 DEF Batches
<1>. HIDE DEF status
<1>5. Started' = Started /\ \A c \in Started : HasEnded(c)' <=> HasEnded(c)
  BY <1>3, <1>4 DEF Started, HasEnded
<1>6. BatchTypes'
  <2>1. answer.id # 0 /\ batch.mode # "none"
    BY <1>1, <1>2 DEF BatchTypes
  <2>. QED
    BY <1>1, <1>2, <1>3, <1>4, <2>1 DEF BatchTypes
<1>7. BatchOK'
  <2>1. \A d \in 1..batch'.results : HasEnded(d)'
    <3>1. \A d \in 1..batch.results : d \in Started /\ HasEnded(d)
      BY <1>2 DEF BatchOK, BatchTypes
    <3>. QED
      BY <1>4, <1>5, <3>1
  <2>2. \A i \in DOMAIN batch'.completed :
          /\ batch'.completed[i] \in Started'
          /\ batch'.status[batch'.completed[i]] = "returned"
          /\ \A k \in DOMAIN batch'.completed : batch'.completed[k] = batch'.completed[i] => k = i
    BY <1>2, <1>3, <1>4, <1>5 DEF BatchOK
  <2>. QED
    BY <1>1, <1>4, <2>1, <2>2 DEF BatchOK
<1>8. EventsOK'
  <2>1. \A c : Open(c)' = Open(c)
    BY <1>5 DEF Open
  <2>. HIDE DEF Open
  <2>. QED
    BY <1>1, <1>2, <2>1 DEF EventsOK, Count
<1>9. TalkTypes' /\ StoredOK' /\ ContextOK'
  BY <1>1, <1>2, <1>4, ToolsKeep
<1>. QED
  BY <1>6, <1>7, <1>8, <1>9 DEF LoopInv, LoopTypes

\* A call's status changes.
LEMMA StatusChanges ==
  ASSUME LoopInv, pc \in Working, NEW c \in Started, NEW s \in Statuses,
         batch'.status = [batch.status EXCEPT ![c] = s]
  PROVE  /\ batch'.status \in Seq(Statuses) /\ Len(batch'.status) = Len(batch.status)
         /\ Started' = Started /\ batch'.status[c] = s
         /\ \A d \in Started : d # c => batch'.status[d] = batch.status[d]
         /\ \A d \in Started : d # c => (HasEnded(d)' <=> HasEnded(d))
         /\ HasEnded(c)' <=> s \in {"blocked", "ended"}
         /\ \A d \in 1..MaxCalls : d # c => Open(d)' = Open(d)
         /\ Open(c)' = IF s \in {"blocked", "ended"} THEN 0 ELSE 1
<1>1. batch.status \in Seq(Statuses) /\ Started = 1..Len(batch.status) /\ Len(batch.status) \in Nat
  BY WorkingFacts
<1>2. /\ batch'.status \in Seq(Statuses) /\ Len(batch'.status) = Len(batch.status)
      /\ \A d \in 1..Len(batch.status) : batch'.status[d] = IF d = c THEN s ELSE batch.status[d]
  BY <1>1, ExceptSeq
<1>3. Started' = Started
  BY <1>1, <1>2, LenProperties DEF Started
<1>4. batch'.status[c] = s /\ \A d \in Started : d # c => batch'.status[d] = batch.status[d]
  BY <1>1, <1>2
<1>5. \A d \in Started : d # c => (HasEnded(d)' <=> HasEnded(d))
  BY <1>4 DEF HasEnded
<1>6. HasEnded(c)' <=> s \in {"blocked", "ended"}
  BY <1>4 DEF HasEnded
<1>7. \A d \in 1..MaxCalls : d # c => Open(d)' = Open(d)
  BY <1>3, <1>5 DEF Open
<1>8. Open(c)' = IF s \in {"blocked", "ended"} THEN 0 ELSE 1
  BY <1>3, <1>6 DEF Open
<1>. QED
  BY <1>2, <1>3, <1>4, <1>5, <1>6, <1>7, <1>8

\* The completions of a batch: calls that have returned, each once.
CompletionsOK ==
    \A i \in DOMAIN batch.completed :
        /\ batch.completed[i] \in Started
        /\ batch.status[batch.completed[i]] = "returned"
        /\ \A k \in DOMAIN batch.completed : batch.completed[k] = batch.completed[i] => k = i

\* A call that has not ended gets on, or ends; the batch stays in order.
LEMMA GetsOn ==
  ASSUME LoopInv, pc \in Working, NEW c \in Started, ~HasEnded(c), NEW s \in Statuses,
         batch'.status = [batch.status EXCEPT ![c] = s], batch' \in Batches,
         batch'.results = batch.results, batch'.mode = batch.mode, UNCHANGED <<pc, answer>>,
         CompletionsOK'
  PROVE  BatchTypes' /\ BatchOK'
<1>1. /\ BatchTypes /\ BatchOK /\ Started = 1..Len(batch.status) /\ Len(batch.status) \in Nat
      /\ answer.id # 0 /\ batch.mode # "none" /\ batch.results \in Nat
  BY WorkingFacts DEF BatchTypes
<1>2. /\ batch'.status \in Seq(Statuses) /\ Len(batch'.status) = Len(batch.status)
      /\ Started' = Started
      /\ \A d \in Started : d # c => (HasEnded(d)' <=> HasEnded(d))
  BY StatusChanges
<1>3. BatchTypes'
  BY <1>1, <1>2 DEF BatchTypes
<1>4. BatchOK'
  <2>1. \A d \in 1..batch'.results : HasEnded(d)'
    <3>1. \A d \in 1..batch.results : d \in Started /\ HasEnded(d)
      BY <1>1 DEF BatchOK, BatchTypes
    <3>. SUFFICES ASSUME NEW d \in 1..batch.results PROVE HasEnded(d)'
      OBVIOUS
    <3>2. d # c
      BY <3>1
    <3>. QED
      BY <1>2, <3>1, <3>2
  <2>. QED
    BY <1>1, <1>2, <2>1 DEF BatchOK, CompletionsOK
<1>. QED
  BY <1>3, <1>4

LEMMA ToolReturnsKeeps == ASSUME LoopInv, NEW c \in Started, ToolReturns(c) PROVE LoopInv'
<1>1. /\ batch.status[c] = "running" /\ UNCHANGED <<pc, notByTools>> /\ UNCHANGED <<pc, answer>>
      /\ ~HasEnded(c)
  BY DEF ToolReturns, notByTools, HasEnded
<1>2. pc \in Working
  BY <1>1 DEF LoopInv, BatchOK
<1>3. /\ TalkTypes /\ BatchTypes /\ BatchOK /\ EventsOK /\ events \in Seq(LoopEvents) /\ batch \in Batches
      /\ batch.status \in Seq(Statuses) /\ Started = 1..Len(batch.status) /\ c \in 1..MaxCalls
      /\ batch.completed \in Seq(Nat) /\ c \in Nat /\ Open(c) = 1
  BY <1>1, <1>2, WorkingFacts DEF Batches, Open
<1>completions. CompletionsOK
  BY <1>3 DEF BatchOK, CompletionsOK
<1>4. "returned" \in Statuses /\ "ended" \in Statuses
  BY DEF Statuses
<1>5. BatchTypes' /\ BatchOK' /\ EventsOK' /\ batch'.results = batch.results /\ events' \in Seq(LoopEvents)
  <2>1. CASE batch' = [batch EXCEPT !.status[c] = "returned", !.completed = Append(@, c)] /\ UNCHANGED events
    <3>. DEFINE status == [batch.status EXCEPT ![c] = "returned"]
                done == Append(batch.completed, c)
    <3>1. batch' = [[batch EXCEPT !.status = status] EXCEPT !.completed = done]
      BY <1>3, <2>1 DEF Batches
    <3>2. /\ done \in Seq(Nat) /\ DOMAIN done = 1..Len(batch.completed) + 1
          /\ DOMAIN batch.completed = 1..Len(batch.completed) /\ Len(batch.completed) \in Nat
          /\ done[Len(batch.completed) + 1] = c
          /\ \A i \in 1..Len(batch.completed) : done[i] = batch.completed[i]
      BY <1>3, AppendProperties, LenProperties
    <3>3. status \in Seq(Statuses)
      BY <1>3, <1>4, ExceptSeq
    <3>. HIDE DEF status, done
    <3>4. /\ batch'.status = status /\ batch'.completed = done /\ batch'.results = batch.results
          /\ batch'.mode = batch.mode /\ batch' \in Batches
      BY <1>3, <3>1, <3>2, <3>3 DEF Batches
    <3>5. /\ Started' = Started /\ batch'.status[c] = "returned"
          /\ \A d \in Started : d # c => batch'.status[d] = batch.status[d]
          /\ \A d \in 1..MaxCalls : d # c => Open(d)' = Open(d)
          /\ Open(c)' = 1
      BY <1>2, <1>4, <3>4, StatusChanges DEF status
    <3>6. \A i \in DOMAIN batch.completed : batch.completed[i] \in Started /\ batch.completed[i] # c
      BY <1>1, <1>3 DEF BatchOK
    <3>7. CompletionsOK'
      <4>1. ASSUME NEW i \in DOMAIN done
            PROVE  /\ done[i] \in Started /\ batch'.status[done[i]] = "returned"
                   /\ \A k \in DOMAIN done : done[k] = done[i] => k = i
        <5>1. CASE i \in DOMAIN batch.completed
          <6>1. done[i] = batch.completed[i] /\ done[i] \in Started /\ done[i] # c
            BY <3>2, <3>6, <5>1
          <6>2. batch'.status[done[i]] = "returned"
            BY <1>completions, <3>5, <5>1, <6>1 DEF CompletionsOK
          <6>3. ASSUME NEW k \in DOMAIN done, done[k] = done[i] PROVE k = i
            <7>1. k \in DOMAIN batch.completed
              BY <3>2, <6>1, <6>3
            <7>2. done[k] = batch.completed[k]
              BY <3>2, <7>1
            <7>. QED
              BY <1>completions, <5>1, <6>1, <6>3, <7>1, <7>2 DEF CompletionsOK
          <6>. QED
            BY <6>1, <6>2, <6>3
        <5>2. CASE i \notin DOMAIN batch.completed
          <6>1. i = Len(batch.completed) + 1 /\ done[i] = c
            BY <3>2, <5>2
          <6>2. \A k \in DOMAIN done : done[k] = c => k = Len(batch.completed) + 1
            BY <3>2, <3>6
          <6>. QED
            BY <3>5, <6>1, <6>2
        <5>. QED
          BY <5>1, <5>2
      <4>. QED
        BY <3>4, <3>5, <4>1 DEF CompletionsOK
    <3>8. BatchTypes' /\ BatchOK'
      BY <1>1, <1>2, <1>4, <3>4, <3>7, GetsOn DEF status
    <3>9. \A d \in 1..MaxCalls : Open(d)' = Open(d)
      BY <1>3, <3>5
    <3>. HIDE DEF Open
    <3>10. EventsOK'
      BY <1>3, <2>1, <3>9 DEF EventsOK, Count
    <3>. QED
      BY <1>3, <2>1, <3>4, <3>8, <3>10
  <2>2. CASE batch' = [batch EXCEPT !.status[c] = "ended"] /\ Publish(<<ToolEvent("tool_end", c)>>)
    <3>. DEFINE status == [batch.status EXCEPT ![c] = "ended"]
    <3>1. batch' = [batch EXCEPT !.status = status]
      BY <1>3, <2>2 DEF Batches
    <3>2. status \in Seq(Statuses)
      BY <1>3, <1>4, ExceptSeq
    <3>. HIDE DEF status
    <3>3. /\ batch'.status = status /\ batch'.completed = batch.completed /\ batch'.results = batch.results
          /\ batch'.mode = batch.mode /\ batch' \in Batches
      BY <1>3, <3>1, <3>2 DEF Batches
    <3>4. /\ Started' = Started
          /\ \A d \in Started : d # c => batch'.status[d] = batch.status[d]
          /\ \A d \in 1..MaxCalls : d # c => Open(d)' = Open(d)
          /\ Open(c)' = 0
      BY <1>2, <1>4, <3>3, StatusChanges DEF status
    <3>5. \A i \in DOMAIN batch.completed : batch.completed[i] \in Started /\ batch.completed[i] # c
      BY <1>1, <1>completions DEF CompletionsOK
    <3>6. CompletionsOK'
      <4>1. \A i \in DOMAIN batch.completed : batch'.status[batch.completed[i]] = batch.status[batch.completed[i]]
        BY <3>4, <3>5
      <4>. QED
        BY <1>completions, <3>3, <3>4, <4>1 DEF CompletionsOK
    <3>7. BatchTypes' /\ BatchOK'
      BY <1>1, <1>2, <1>4, <3>3, <3>6, GetsOn DEF status
    <3>. HIDE DEF Open
    <3>8. EventsOK' /\ events' \in Seq(LoopEvents)
      BY <1>2, <1>3, <2>2, <3>4, EndCounts DEF Publish
    <3>. QED
      BY <3>3, <3>7, <3>8
  <2>. QED
    BY <2>1, <2>2 DEF ToolReturns
<1>6. TalkTypes' /\ StoredOK' /\ ContextOK'
  BY <1>1, <1>2, <1>5, ToolsKeep
<1>. QED
  BY <1>5, <1>6 DEF LoopInv, LoopTypes

LEMMA CollectKeeps == ASSUME LoopInv, Collect PROVE LoopInv'
<1>1. PICK c : c = Head(batch.completed)
  OBVIOUS
<1>. DEFINE status == [batch.status EXCEPT ![c] = "ended"]
            rest == Tail(batch.completed)
<1>2. /\ pc \in Working /\ batch.completed # <<>>
      /\ batch' = [batch EXCEPT !.status[c] = "ended", !.completed = Tail(@)]
      /\ events' = events \o <<ToolEvent("tool_end", c)>>
      /\ UNCHANGED <<pc, notByTools>> /\ UNCHANGED <<pc, answer>>
  BY <1>1 DEF Collect, Publish, notByTools, Working
<1>3. /\ BatchOK /\ batch \in Batches /\ batch.status \in Seq(Statuses) /\ Started = 1..Len(batch.status)
      /\ batch.completed \in Seq(Nat)
  BY <1>2, WorkingFacts DEF Batches
<1>4. /\ rest \in Seq(Nat) /\ Len(batch.completed) \in Nat \ {0}
      /\ DOMAIN batch.completed = 1..Len(batch.completed) /\ DOMAIN rest = 1..Len(batch.completed) - 1
      /\ \A i \in 1..Len(batch.completed) - 1 : rest[i] = batch.completed[i + 1]
      /\ c = batch.completed[1]
  BY <1>1, <1>2, <1>3, HeadTailProperties, LenProperties, EmptySeq
<1>5. c \in Started /\ batch.status[c] = "returned" /\ ~HasEnded(c) /\ Open(c) = 1
  <2>1. 1 \in DOMAIN batch.completed
    BY <1>4
  <2>2. c \in Started /\ batch.status[c] = "returned"
    BY <1>3, <1>4, <2>1 DEF BatchOK
  <2>. QED
    BY <2>2 DEF HasEnded, Open
<1>completions. CompletionsOK
  BY <1>3 DEF BatchOK, CompletionsOK
<1>6. "ended" \in Statuses
  BY DEF Statuses
<1>7. status \in Seq(Statuses)
  BY <1>3, <1>5, <1>6, ExceptSeq
<1>8. batch' = [[batch EXCEPT !.status = status] EXCEPT !.completed = rest]
  BY <1>2, <1>3 DEF Batches
<1>. HIDE DEF status, rest
<1>9. /\ batch'.status = status /\ batch'.completed = rest /\ batch'.results = batch.results
      /\ batch'.mode = batch.mode /\ batch' \in Batches
  BY <1>3, <1>4, <1>7, <1>8 DEF Batches
<1>10. /\ Started' = Started
       /\ \A d \in Started : d # c => batch'.status[d] = batch.status[d]
       /\ \A d \in 1..MaxCalls : d # c => Open(d)' = Open(d)
       /\ Open(c)' = 0
  BY <1>2, <1>5, <1>6, <1>9, StatusChanges DEF status
<1>11. CompletionsOK'
  <2>1. ASSUME NEW i \in DOMAIN rest
        PROVE  /\ rest[i] \in Started /\ batch'.status[rest[i]] = "returned"
               /\ \A k \in DOMAIN rest : rest[k] = rest[i] => k = i
    <3>1. i \in Nat /\ i + 1 \in DOMAIN batch.completed /\ i + 1 # 1 /\ 1 \in DOMAIN batch.completed
      BY <1>4, <2>1
    <3>2. rest[i] = batch.completed[i + 1] /\ rest[i] \in Started /\ batch.status[rest[i]] = "returned"
      <4>1. rest[i] = batch.completed[i + 1]
        BY <1>4, <2>1
      <4>. QED
        BY <1>completions, <3>1, <4>1 DEF CompletionsOK
    <3>3. rest[i] # c
      BY <1>completions, <1>4, <3>1, <3>2 DEF CompletionsOK
    <3>4. ASSUME NEW k \in DOMAIN rest, rest[k] = rest[i] PROVE k = i
      <4>1. k \in Nat /\ k + 1 \in DOMAIN batch.completed /\ rest[k] = batch.completed[k + 1]
        BY <1>4, <3>4
      <4>2. k + 1 = i + 1
        BY <1>completions, <3>1, <3>2, <3>4, <4>1 DEF CompletionsOK
      <4>. QED
        BY <3>1, <4>1, <4>2
    <3>. QED
      BY <1>10, <3>2, <3>3, <3>4
  <2>. QED
    BY <1>9, <1>10, <2>1 DEF CompletionsOK
<1>12. BatchTypes' /\ BatchOK'
  BY <1>2, <1>5, <1>6, <1>9, <1>11, GetsOn DEF status
<1>. HIDE DEF Open
<1>13. EventsOK' /\ events' \in Seq(LoopEvents)
  BY <1>2, <1>5, <1>10, EndCounts
<1>14. TalkTypes' /\ StoredOK' /\ ContextOK'
  BY <1>2, <1>9, <1>13, ToolsKeep
<1>. QED
  BY <1>12, <1>13, <1>14 DEF LoopInv, LoopTypes

LEMMA StoreResultKeeps == ASSUME LoopInv, StoreResult PROVE LoopInv'
<1>1. PICK n : n = batch.results + 1
  OBVIOUS
<1>. DEFINE m == ToolResult(answer.id, n)
<1>2. /\ pc \in Working /\ ResultsDue
      /\ batch' = [batch EXCEPT !.results = @ + 1]
      /\ Say(m, pc, "failing", <<>>)
      /\ UNCHANGED <<cancelled, base, answer, more, crashes, context, pending, users, turns>>
  BY <1>1 DEF StoreResult, NextResult, notBySay, ResultsDue, Working
<1>3. /\ TalkTypes /\ BatchTypes /\ BatchOK /\ EventsOK /\ events \in Seq(LoopEvents)
      /\ batch \in Batches /\ batch.status \in Seq(Statuses) /\ Len(batch.status) \in Nat
      /\ Started = 1..Len(batch.status) /\ batch.results \in Nat /\ answer.id # 0
      /\ batch.mode \in {"sequential", "parallel"}
      /\ answer.id \in 1..MaxTurns /\ \A c \in Started : c \in 1..MaxCalls
  BY <1>2, WorkingFacts
<1>4. n \in Started /\ batch.results < Len(batch.status)
  BY <1>1, <1>2, <1>3 DEF ResultsDue
<1>5. /\ m \in Messages /\ m.role = "result" /\ m.of = answer.id /\ m.call = n
  BY <1>3, <1>4, KindsApart DEF ToolResult
<1>6. pc \in Places /\ "failing" \in Places /\ Plain(<<>>) /\ pc # "failing"
  BY <1>2, PlainOnes DEF Places, Working
<1>. HIDE DEF m
<1>7. /\ pc' \in {pc, "failing"} /\ onDisk' \in BOOLEAN /\ faults' \in Nat
      /\ stored' \in Seq(Messages) /\ Len(stored) \in Nat /\ Len(stored') >= Len(stored)
      /\ stored' = stored \/ stored' = Append(stored, m)
      /\ pc' # "failing" => stored' = Append(stored, m)
      /\ \E es : Plain(es) /\ events' = events \o es
  BY <1>2, <1>3, <1>5, <1>6, SayDoes
<1>8. \A c \in Started : HasEnded(c)
  <2>1. CASE batch.mode = "parallel"
    BY <1>2, <2>1 DEF ResultsDue
  <2>2. CASE batch.mode = "sequential"
    <3>1. Len(batch.status) <= batch.results + 1 /\ HasEnded(Len(batch.status))
      BY <1>2, <1>3, <2>2 DEF ResultsDue, BatchOK
    <3>2. \A c \in Started : c \in 1..batch.results \/ c = Len(batch.status)
      BY <1>3, <1>4, <3>1
    <3>. QED
      BY <1>3, <3>1, <3>2 DEF BatchOK
  <2>. QED
    BY <1>3, <2>1, <2>2
<1>9. /\ batch'.status = batch.status /\ batch'.completed = batch.completed /\ batch'.mode = batch.mode
      /\ batch'.results = n /\ batch' \in Batches
  <2>1. batch' = [batch EXCEPT !.results = n] /\ n \in Nat
    BY <1>1, <1>2, <1>3 DEF Batches
  <2>. QED
    BY <1>3, <2>1 DEF Batches
<1>10. Started' = Started /\ \A c : HasEnded(c)' <=> HasEnded(c)
  BY <1>9 DEF Started, HasEnded
<1>11. BatchTypes'
  <2>1. n <= Len(batch.status)
    BY <1>3, <1>4
  <2>. QED
    BY <1>2, <1>3, <1>9, <2>1 DEF BatchTypes
<1>12. BatchOK'
  <2>1. \A c \in 1..n : HasEnded(c)'
    BY <1>3, <1>4, <1>8, <1>10
  <2>2. \A c \in Started' : HasEnded(c)'
    BY <1>8, <1>10
  <2>3. pc' = "collecting" => batch'.mode = "parallel"
    BY <1>3, <1>7, <1>9 DEF BatchOK
  <2>4. ~(pc' = "tools" /\ batch'.mode = "parallel")
    BY <1>2, <1>7, <1>9 DEF ResultsDue
  <2>5. pc' \in Working /\ batch'.mode = "sequential" => Len(batch'.status) <= batch'.results + 1
    <3>1. pc' \in Working /\ batch'.mode = "sequential" => Len(batch.status) <= batch.results + 1
      BY <1>2, <1>3, <1>9 DEF BatchOK
    <3>. QED
      BY <1>1, <1>3, <1>9, <3>1
  <2>. QED
    BY <1>3, <1>9, <1>10, <2>1, <2>2, <2>3, <2>4, <2>5 DEF BatchOK
<1>13. EventsOK' /\ events' \in Seq(LoopEvents)
  <2>1. PICK es : Plain(es) /\ events' = events \o es
    BY <1>7
  <2>2. \A c : Open(c)' = Open(c)
    BY <1>10 DEF Open
  <2>3. ASSUME NEW c PROVE Count("tool_end", c)' = Count("tool_end", c) /\ Count("tool_start", c)' = Count("tool_start", c)
    BY <1>3, <2>1, PlainCounts
  <2>4. events' \in Seq(LoopEvents)
    BY <1>3, <2>1, PlainCounts
  <2>. HIDE DEF Open
  <2>. QED
    BY <1>3, <2>2, <2>3, <2>4 DEF EventsOK
<1>14. StoredOK'
  <2>1. ResultsFollowCalls /\ LastSaid /\ stored \in Seq(Messages)
    BY <1>2, <1>3 DEF LoopInv, StoredOK, TalkTypes
  <2>2. ResultsFollowCalls'
    <3>1. CASE stored' = stored
      BY <2>1, <3>1 DEF ResultsFollowCalls
    <3>2. CASE stored' = Append(stored, m)
      <4>1. /\ stored # <<>>
            /\ IF m.call = 1
               THEN /\ stored[Len(stored)].role = "assistant"
                    /\ stored[Len(stored)].id = m.of
                    /\ ~stored[Len(stored)].failed
               ELSE stored[Len(stored)] = ToolResult(m.of, m.call - 1)
        <5>1. CASE batch.results = 0
          BY <1>1, <1>5, <2>1, <5>1 DEF LastSaid
        <5>2. CASE batch.results # 0
          <6>1. m.call # 1 /\ m.call - 1 = batch.results
            BY <1>1, <1>3, <1>5, <5>2
          <6>. QED
            BY <1>5, <2>1, <5>2, <6>1 DEF LastSaid
        <5>. QED
          BY <5>1, <5>2
      <4>. QED
        BY <1>5, <2>1, <3>2, <4>1, FollowsAppend
    <3>. QED
      BY <1>7, <3>1, <3>2
  <2>3. ASSUME pc' \in Working PROVE LastSaid'
    <3>1. stored' = Append(stored, m)
      BY <1>7, <2>3 DEF Working
    <3>2. stored' # <<>> /\ stored'[Len(stored')] = m
      BY <1>5, <2>1, <3>1, AppendProperties, LenProperties
    <3>3. batch'.results # 0
      BY <1>1, <1>3, <1>9
    <3>4. m = ToolResult(answer'.id, batch'.results)
      BY <1>2, <1>9 DEF m
    <3>. QED
      BY <3>2, <3>3, <3>4 DEF LastSaid, ToolResult
  <2>. QED
    BY <2>2, <2>3 DEF StoredOK
<1>15. TalkTypes'
  <2>1. base' \in 0..Len(stored')
    <3>1. base \in Nat /\ base <= Len(stored) /\ Len(stored') \in Nat
      BY <1>3, <1>7, LenProperties DEF TalkTypes
    <3>. QED
      BY <1>2, <1>7, <3>1
  <2>2. pc' \in Places /\ pc' # "prompts"
    BY <1>2, <1>6, <1>7 DEF Working
  <2>. QED
    BY <1>2, <1>3, <1>7, <1>13, <2>1, <2>2 DEF TalkTypes
<1>16. ContextOK'
  BY <1>2, <1>7 DEF ContextOK, Working
<1>. QED
  BY <1>11, <1>12, <1>13, <1>14, <1>15, <1>16 DEF LoopInv, LoopTypes

-----------------------------------------------------------------------
(* The loop                                                                     *)

LEMMA InitHolds == Init => LoopInv
<1>. SUFFICES ASSUME Init PROVE LoopInv
  OBVIOUS
<1>. USE DEF Init
<1>1. /\ <<>> \in Seq(Messages) /\ <<>> \in Seq(UserMessages) /\ <<>> \in Seq(LoopEvents)
      /\ <<>> \in Seq(Statuses) /\ <<>> \in Seq(Nat) /\ Len(<<>>) = 0 /\ DOMAIN <<>> = {}
  BY EmptySeq
<1>2. TalkTypes
  <2>1. base \in 0..Len(stored) /\ users \in 0..MaxUsers /\ turns \in 0..MaxTurns
    BY <1>1, Bounds
  <2>2. cancelled \in BOOLEAN /\ onDisk \in BOOLEAN /\ more \in BOOLEAN
    OBVIOUS
  <2>3. pc \in Places /\ pc # "prompts"
    BY DEF Places
  <2>4. context \in Seq(Messages) /\ stored \in Seq(Messages) /\ pending \in Seq(UserMessages) /\ Len(pending) <= 1
        /\ events \in Seq(LoopEvents) /\ faults \in Nat /\ crashes \in Nat
    BY <1>1
  <2>. QED
    BY <2>1, <2>2, <2>3, <2>4 DEF TalkTypes
<1>3. /\ batch.status = <<>> /\ batch.completed = <<>> /\ batch.results = 0 /\ batch.mode = "none"
      /\ batch \in Batches
  BY <1>1 DEF NewBatch, Batches
<1>4. answer \in AnswerMessages /\ answer.calls = 0 /\ pc \notin Working
  BY Bounds DEF NoAnswer, Assistant, AnswerMessages, Working
<1>5. BatchTypes
  BY <1>1, <1>3, <1>4 DEF BatchTypes
<1>6. Started = {} /\ 1..0 = {}
  BY <1>1, <1>3 DEF Started
<1>7. BatchOK
  BY <1>1, <1>3, <1>4, <1>6 DEF BatchOK
<1>8. EventsOK
  <2>1. \A x : Occ(events, x) = 0
    BY OccEmpty
  <2>2. \A c : Open(c) = 0
    BY <1>6 DEF Open
  <2>. HIDE DEF Open
  <2>. QED
    BY <2>1, <2>2, CountIsOcc DEF EventsOK
<1>9. StoredOK /\ ContextOK
  BY <1>1, <1>4 DEF StoredOK, ResultsFollowCalls, ContextOK
<1>. QED
  BY <1>2, <1>5, <1>7, <1>8, <1>9 DEF LoopInv, LoopTypes

LEMMA NextKeeps == LoopInv /\ [Next]_vars => LoopInv'
<1>1. ASSUME LoopInv, Next PROVE LoopInv'
  <2>1. CASE LoopStep
    BY <1>1, <2>1, EmitPromptKeeps, GetSteeringMessagesKeeps, GetFollowUpMessagesKeeps, InjectKeeps,
       RequestKeeps, AnswerKeeps, AnswerFailedKeeps, StartBlockedKeeps, StartPreparedKeeps, LaunchKeeps,
       CollectKeeps, StoreResultKeeps, BatchReturnsKeeps, TurnEndKeeps, EmitRunFailureKeeps DEF LoopStep
  <2>2. CASE \E c \in Started : ToolReturns(c)
    BY <1>1, <2>2, ToolReturnsKeeps
  <2>. QED
    BY <1>1, <2>1, <2>2, PromptKeeps, ContinueKeeps, CancelKeeps, CrashKeeps DEF Next
<1>2. ASSUME LoopInv, UNCHANGED vars PROVE LoopInv'
  <2>1. UNCHANGED <<pc, cancelled, context, stored, onDisk, events, base, pending, answer, batch,
                    more, users, turns, faults, crashes>>
    BY <1>2 DEF vars
  <2>2. LoopTypes'
    BY <1>2, <2>1 DEF LoopInv, LoopTypes, TalkTypes, BatchTypes
  <2>3. BatchOK'
    BY <1>2, <2>1 DEF LoopInv, BatchOK, Started, HasEnded
  <2>4. EventsOK'
    BY <1>2, <2>1 DEF LoopInv, EventsOK, Count, Open, Started, HasEnded
  <2>5. StoredOK' /\ ContextOK'
    BY <1>2, <2>1 DEF LoopInv, StoredOK, ResultsFollowCalls, LastSaid, ContextOK
  <2>. QED
    BY <2>2, <2>3, <2>4, <2>5 DEF LoopInv
<1>. QED
  BY <1>1, <1>2

\* The invariant of the loop: what has been announced, stored and put into the
\* context agrees at every step, in every place of the loop.
THEOREM LoopInvariant == Spec => []LoopInv
<1>1. Init => LoopInv
  BY InitHolds
<1>2. LoopInv /\ [Next]_vars => LoopInv'
  BY NextKeeps
<1>. QED
  BY <1>1, <1>2, PTL DEF Spec

LEMMA InvShows == LoopInv => BatchesComplete /\ ModelSeesSession
<1>. SUFFICES ASSUME LoopInv PROVE BatchesComplete /\ ModelSeesSession
  OBVIOUS
<1>1. ToolsAlwaysEnd
  <2>. SUFFICES ASSUME NEW c \in 1..MaxCalls
                PROVE  /\ Count("tool_end", c) <= Count("tool_start", c)
                       /\ pc \notin {"tools", "collecting"} => Count("tool_end", c) = Count("tool_start", c)
    BY DEF ToolsAlwaysEnd
  <2>1. /\ Count("tool_end", c) \in Nat /\ Count("tool_start", c) = Count("tool_end", c) + Open(c)
    BY DEF LoopInv, EventsOK
  <2>2. Open(c) \in {0, 1} /\ (pc \notin {"tools", "collecting"} => Open(c) = 0)
    BY DEF Open, LoopInv, BatchOK, Working
  <2>. HIDE DEF Open
  <2>. QED
    BY <2>1, <2>2
<1>2. ResultsFollowCalls
  BY DEF LoopInv, StoredOK
<1>3. ModelSeesSession
  BY DEF LoopInv, ContextOK, ModelSeesSession
<1>. QED
  BY <1>1, <1>2, <1>3 DEF BatchesComplete

\* Every call that was announced has ended once the loop has left its batch, and on the
\* branch the results of an answer stand directly behind it in the order of its calls,
\* wherever the batch was cancelled or a write failed (agentloop/loop.go: executeToolCalls).
THEOREM BatchesKept == Spec => []BatchesComplete
  BY LoopInvariant, InvShows, PTL

\* The model is asked on exactly the branch that the session would rebuild.
THEOREM ContextIsBranch == Spec => []ModelSeesSession
  BY LoopInvariant, InvShows, PTL

\* What the loop works on, stores and publishes keeps its type, for any bounds.
THEOREM TypeCorrect == Spec => []TypeOK
<1>1. LoopInv => TypeOK
  <2>. SUFFICES ASSUME LoopInv PROVE TypeOK
    OBVIOUS
  <2>1. TalkTypes /\ BatchTypes /\ BatchOK
    BY DEF LoopInv, LoopTypes
  <2>2. \A S : \A s \in Seq(S) : Range(s) \subseteq S
    BY LenProperties DEF Range
  <2>3. Range(context) \subseteq Messages /\ Range(stored) \subseteq Messages /\ Range(pending) \subseteq Messages
    BY <2>1, <2>2, KindsApart DEF TalkTypes
  <2>4. Range(events) \subseteq LoopEvents
    BY <2>1, <2>2 DEF TalkTypes
  <2>5. \A e \in Range(events) :
          \/ e.type \in {"agent_start", "turn_start", "turn_end", "agent_end"}
          \/ e.type = "message" /\ e.message \in Messages
          \/ e.type \in {"tool_start", "tool_end"} /\ e.call \in 1..MaxCalls
    BY <2>4 DEF LoopEvents
  <2>6. Range(batch.status) \subseteq Statuses /\ Range(batch.completed) \subseteq Started
    BY <2>1, <2>2 DEF BatchTypes, Batches, BatchOK, Range
  <2>7. batch.mode \in Modes \cup {"none"} /\ Len(batch.status) <= answer.calls /\ batch.results <= Len(batch.status)
    BY <2>1 DEF BatchTypes, Batches
  <2>. QED
    BY <2>1, <2>3, <2>5, <2>6, <2>7 DEF TypeOK, TalkTypes, Places, Statuses
<1>. QED
  BY <1>1, LoopInvariant, PTL

LEMMA SayGrows ==
  ASSUME NEW m, NEW next, NEW onError, NEW after, Say(m, next, onError, after)
  PROVE  stored' = stored \/ stored' = Append(stored, m)
  BY DEF Say

\* A message leaves the branch only by a retry, which takes away one failed answer, or by
\* a crash before anything was on disk (Session.AppendMessage, prepareRetryAssistant).
THEOREM BranchKept == Spec => BranchOnlyGrows
<1>. DEFINE Kept == \/ IsPrefix(stored, stored')
                    \/ IsFailed(stored[Len(stored)]) /\ stored' = Front(stored)
                    \/ crashes' # crashes /\ ~onDisk /\ stored' = <<>>
<1>1. ASSUME LoopInv, [Next]_vars PROVE [Kept]_vars
  <2>1. stored \in Seq(Messages) /\ Len(stored) \in Nat /\ crashes \in Nat
    BY <1>1, LenProperties DEF LoopInv, LoopTypes, TalkTypes
  <2>2. ASSUME stored' = stored PROVE Kept
    BY <2>1, <2>2 DEF IsPrefix
  <2>3. ASSUME NEW m, stored' = Append(stored, m) PROVE Kept
    <3>1. stored \in Seq(Messages \cup {m}) /\ m \in Messages \cup {m}
      BY <2>1, SeqMonotonic
    <3>2. /\ stored' \in Seq(Messages \cup {m}) /\ Len(stored') = Len(stored) + 1
          /\ \A i \in 1..Len(stored) : stored'[i] = stored[i]
      BY <2>1, <2>3, <3>1, AppendProperties
    <3>3. IsPrefix(stored, stored')
      BY <2>1, <3>2 DEF IsPrefix
    <3>. QED
      BY <3>3
  <2>4. ASSUME \E m, next, onError, after : Say(m, next, onError, after) PROVE Kept
    BY <2>2, <2>3, <2>4, SayGrows
  <2>. HIDE DEF Kept
  <2>5. CASE EmitPrompt \/ Inject \/ Answer \/ AnswerFailed \/ StoreResult \/ EmitRunFailure
    BY <2>4, <2>5 DEF EmitPrompt, Inject, Answer, AnswerFailed, StoreResult, EmitRunFailure
  <2>6. CASE Continue
    BY <2>6 DEF Continue, Kept, Last
  <2>7. CASE Crash
    <3>1. CASE onDisk
      BY <2>2, <2>7, <3>1 DEF Crash
    <3>2. CASE ~onDisk
      BY <2>1, <2>7, <3>2 DEF Crash, Kept
    <3>. QED
      BY <3>1, <3>2
  <2>8. CASE \/ Prompt \/ Cancel \/ GetSteeringMessages \/ GetFollowUpMessages \/ Request \/ StreamRefused
             \/ StartBlocked \/ StartPrepared \/ Launch \/ Collect \/ BatchReturns \/ TurnEnd
             \/ (\E c \in Started : ToolReturns(c)) \/ UNCHANGED vars
    <3>1. stored' = stored
      BY <2>8 DEF Prompt, Cancel, GetSteeringMessages, GetFollowUpMessages, Request, StreamRefused,
         StartBlocked, StartPrepared, Launch, Collect, BatchReturns, TurnEnd, ToolReturns, notByTools, vars
    <3>. QED
      BY <2>2, <3>1
  <2>. QED
    BY <1>1, <2>5, <2>6, <2>7, <2>8 DEF Next, LoopStep
<1>. QED
  BY <1>1, LoopInvariant, PTL DEF Spec, BranchOnlyGrows
-----------------------------------------------------------------------
(* FlattenSeq, prefix by prefix                                                 *)

\* The order of the naturals as a relation.
Below == OpToRel(<, Nat)

\* A set of naturals that is not empty has a least one.
LEMMA LeastExists ==
  ASSUME NEW T, T \subseteq Nat, T # {}
  PROVE  \E x \in T : \A y \in T : x <= y
<1>1. IsWellFoundedOn(Below, Nat)
  BY NatLessThanWellFounded DEF Below
<1>2. \A x, y \in Nat : <<x, y>> \in Below <=> x < y
  BY DEF Below, OpToRel
<1>3. PICK x \in T : \A y \in T : ~(<<y, x>> \in Below)
  BY <1>1, WFMin
<1>4. ASSUME NEW y \in T PROVE x <= y
  <2>1. x \in Nat /\ y \in Nat
    OBVIOUS
  <2>2. ~(y < x)
    BY <1>2, <1>3, <2>1
  <2>. QED
    BY <2>1, <2>2
<1>. QED
  BY <1>4

\* Induction over the naturals, with a set for the predicate.
LEMMA UpFromZero ==
  ASSUME NEW S, 0 \in S, \A n \in Nat : n \in S => n + 1 \in S
  PROVE  Nat \subseteq S
<1>. DEFINE T == Nat \ S
<1>. SUFFICES ASSUME T # {} PROVE FALSE
  OBVIOUS
<1>1. PICK x \in T : \A y \in T : x <= y
  BY LeastExists
<1>2. x \in Nat /\ x # 0 /\ x - 1 \in Nat
  BY <1>1
<1>3. x - 1 \in S
  BY <1>1, <1>2
<1>4. (x - 1) + 1 \in S
  BY <1>2, <1>3
<1>. QED
  BY <1>1, <1>2, <1>4

\* FlattenSeq is the last of its prefixes.
PrefixesOf(seqs, n, P) == P = [i \in 1..n |-> IF i = 1 THEN seqs[i] ELSE P[i - 1] \o seqs[i]]

LEMMA PrefixesExist ==
  ASSUME NEW seqs, NEW n \in Nat \ {0}
  PROVE  \E P : PrefixesOf(seqs, n, P)
<1>. DEFINE S == {m \in Nat : \E P : PrefixesOf(seqs, m + 1, P)}
<1>1. 0 \in S
  <2>. DEFINE P == [i \in 1..1 |-> seqs[i]]
  <2>1. PrefixesOf(seqs, 0 + 1, P)
    <3>1. \A i \in 1..1 : i = 1
      OBVIOUS
    <3>2. 0 + 1 = 1
      OBVIOUS
    <3>. QED
      BY <3>1, <3>2 DEF PrefixesOf
  <2>. QED
    BY <2>1
<1>2. ASSUME NEW m \in Nat, m \in S PROVE m + 1 \in S
  <2>1. PICK P : PrefixesOf(seqs, m + 1, P)
    BY <1>2
  <2>. DEFINE k == m + 2
              R == [i \in 1..k |-> IF i = 1 THEN seqs[i] ELSE P[i - 1] \o seqs[i]]
              body(i) == IF i = 1 THEN seqs[i] ELSE R[i - 1] \o seqs[i]
  <2>2. ASSUME NEW i \in 1..(m + 1) PROVE R[i] = P[i]
    <3>1. i \in 1..k
      OBVIOUS
    <3>. QED
      BY <2>1, <3>1 DEF PrefixesOf
  <2>3. ASSUME NEW i \in 1..k PROVE R[i] = body(i)
    <3>1. i # 1 => i - 1 \in 1..(m + 1)
      OBVIOUS
    <3>2. i # 1 => R[i - 1] = P[i - 1]
      BY <2>2, <3>1
    <3>3. R[i] = IF i = 1 THEN seqs[i] ELSE P[i - 1] \o seqs[i]
      OBVIOUS
    <3>. HIDE DEF R
    <3>. QED
      BY <3>2, <3>3
  <2>4. R = [i \in 1..k |-> body(i)]
    <3>. HIDE DEF body
    <3>. QED
      BY <2>3
  <2>5. PrefixesOf(seqs, (m + 1) + 1, R)
    <3>1. (m + 1) + 1 = k
      OBVIOUS
    <3>. HIDE DEF k
    <3>. QED
      BY <2>4, <3>1 DEF PrefixesOf
  <2>. HIDE DEF R
  <2>. QED
    BY <2>5
<1>3. n - 1 \in S
  <2>1. Nat \subseteq S
    <3>. HIDE DEF S
    <3>. QED
      BY <1>1, <1>2, UpFromZero
  <2>2. n - 1 \in Nat
    OBVIOUS
  <2>. QED
    BY <2>1, <2>2
<1>4. (n - 1) + 1 = n
  OBVIOUS
<1>. QED
  BY <1>3, <1>4

LEMMA FlattenIs ==
  ASSUME NEW seqs, NEW n \in Nat \ {0}, Len(seqs) = n
  PROVE  \E P : /\ FlattenSeq(seqs) = P[n] /\ P[1] = seqs[1]
                /\ \A i \in 1..n - 1 : P[i + 1] = P[i] \o seqs[i + 1]
<1>. DEFINE P == CHOOSE P : PrefixesOf(seqs, n, P)
<1>1. PrefixesOf(seqs, n, P)
  BY PrefixesExist
<1>2. FlattenSeq(seqs) = P[n]
  BY DEF FlattenSeq, PrefixesOf
<1>. HIDE DEF P
<1>3. 1 \in 1..n /\ \A i \in 1..n - 1 : i + 1 \in 1..n /\ i + 1 # 1 /\ (i + 1) - 1 = i
  OBVIOUS
<1>4. P[1] = seqs[1]
  BY <1>1, <1>3 DEF PrefixesOf
<1>5. \A i \in 1..n - 1 : P[i + 1] = P[i] \o seqs[i + 1]
  BY <1>1, <1>3 DEF PrefixesOf
<1>. QED
  BY <1>2, <1>4, <1>5

\* A sequence without the calls 1..m of an answer has the others, in order.
But(f, n, m) == [c \in 1..n |-> IF c \in 1..m THEN <<>> ELSE <<f[c]>>]
Behind(f, n, m) == [k \in 1..(n - m) |-> f[m + k]]

LEMMA FlattenRest ==
  ASSUME NEW f, NEW n \in Nat, NEW m \in Nat, m <= n
  PROVE  FlattenSeq(But(f, n, m)) = Behind(f, n, m)
<1>0. PICK S : \A c \in 1..n : f[c] \in S
  <2>1. \A c \in 1..n : f[c] \in {f[d] : d \in 1..n}
    OBVIOUS
  <2>. QED
    BY <2>1
<1>. DEFINE seqs == [c \in 1..n |-> IF c \in 1..m THEN <<>> ELSE <<f[c]>>]
            Rest(c) == [k \in 1..(c - m) |-> f[m + k]]
<1>1. Len(seqs) = n /\ \A c \in 1..n : seqs[c] = IF c \in 1..m THEN <<>> ELSE <<f[c]>>
  OBVIOUS
<1>. HIDE DEF seqs
<1>2. CASE n = 0
  <2>1. FlattenSeq(seqs) = seqs
    BY <1>1, <1>2 DEF FlattenSeq
  <2>2. seqs = Rest(n)
    <3>1. 1..n = {} /\ 1..(n - m) = {}
      BY <1>2
    <3>. QED
      BY <3>1 DEF seqs
  <2>. QED
    BY <2>1, <2>2 DEF seqs, But, Behind
<1>3. CASE n # 0
  <2>1. PICK P : /\ FlattenSeq(seqs) = P[n] /\ P[1] = seqs[1]
                 /\ \A i \in 1..n - 1 : P[i + 1] = P[i] \o seqs[i + 1]
    <3>1. n \in Nat \ {0} /\ Len(seqs) = n
      BY <1>1, <1>3
    <3>. QED
      BY <3>1, FlattenIs, Zenon
  <2>. DEFINE T == {i \in Nat : i + 1 <= n => P[i + 1] = Rest(i + 1)}
  <2>2. 0 \in T
    <3>1. 1 \in 1..n /\ 0 + 1 = 1
      BY <1>3
    <3>2. CASE m >= 1
      <4>1. seqs[1] = <<>>
        BY <1>1, <3>1, <3>2
      <4>2. 1..(1 - m) = {}
        BY <3>2
      <4>. QED
        BY <2>1, <3>1, <4>1, <4>2
    <3>3. CASE m = 0
      <4>1. seqs[1] = <<f[1]>>
        BY <1>1, <3>1, <3>3
      <4>2. Rest(1) = <<f[1]>>
        BY <3>3
      <4>. QED
        BY <2>1, <3>1, <4>1, <4>2
    <3>. QED
      BY <3>2, <3>3
  <2>3. ASSUME NEW i \in Nat, i \in T PROVE i + 1 \in T
    <3>. SUFFICES ASSUME (i + 1) + 1 <= n PROVE P[(i + 1) + 1] = Rest((i + 1) + 1)
      OBVIOUS
    <3>. DEFINE c == i + 1
    <3>1. c \in 1..n - 1 /\ c + 1 \in 1..n /\ c <= n
      OBVIOUS
    <3>2. P[c] = Rest(c)
      BY <2>3, <3>1
    <3>3. P[c + 1] = P[c] \o seqs[c + 1]
      BY <2>1, <3>1
    <3>4. CASE c + 1 <= m
      <4>1. seqs[c + 1] = <<>>
        BY <1>1, <3>1, <3>4
      <4>2. 1..(c - m) = {} /\ 1..(c + 1 - m) = {}
        BY <3>1, <3>4
      <4>3. Rest(c) = <<>> /\ Rest(c + 1) = <<>>
        BY <4>2
      <4>. QED
        BY <3>2, <3>3, <4>1, <4>3
    <3>5. CASE ~(c + 1 <= m)
      <4>1. seqs[c + 1] = <<f[c + 1]>>
        BY <1>1, <3>1, <3>5
      <4>2. c - m \in Nat /\ (c + 1) - m = (c - m) + 1 /\ m + ((c - m) + 1) = c + 1
        BY <3>1, <3>5
      <4>. DEFINE d == c - m
      <4>3. \A k \in 1..d : m + k \in 1..n
        BY <3>1, <4>2
      <4>4. Rest(c) \in Seq(S) /\ Len(Rest(c)) = d /\ f[c + 1] \in S
        <5>1. Rest(c) = [k \in 1..d |-> f[m + k]] /\ f[c + 1] \in S
          BY <1>0, <3>1
        <5>. HIDE DEF d
        <5>. QED
          BY <1>0, <4>2, <4>3, <5>1 DEF d
      <4>5. Rest(c) \o <<f[c + 1]>> = [k \in 1..(d + 1) |-> f[m + k]]
        <5>1. PICK r : r = Rest(c)
          OBVIOUS
        <5>2. r \in Seq(S) /\ Len(r) = d /\ \A k \in 1..d : r[k] = f[m + k]
          BY <4>4, <5>1
        <5>. HIDE DEF d
        <5>3. PICK g : g = [k \in 1..(d + 1) |-> f[m + k]]
          OBVIOUS
        <5>4. g \in Seq(S) /\ Len(g) = d + 1 /\ (\A k \in 1..d + 1 : g[k] = f[m + k]) /\ d \in Nat
          <6>1. d \in Nat /\ \A k \in 1..(d + 1) : m + k \in 1..n
            BY <3>1, <4>2 DEF d
          <6>2. \A k \in 1..(d + 1) : f[m + k] \in S
            BY <1>0, <6>1
          <6>. QED
            BY <5>3, <6>1, <6>2
        <5>5. m + (d + 1) = c + 1
          BY <4>2 DEF d
        <5>6. /\ r \o <<f[c + 1]>> \in Seq(S) /\ Len(r \o <<f[c + 1]>>) = d + 1
              /\ \A k \in 1..d + 1 : (r \o <<f[c + 1]>>)[k] = IF k <= d THEN r[k] ELSE f[c + 1]
          <6>1. <<f[c + 1]>> \in Seq(S) /\ Len(<<f[c + 1]>>) = 1 /\ <<f[c + 1]>>[1] = f[c + 1]
            BY <4>4
          <6>2. /\ r \o <<f[c + 1]>> \in Seq(S) /\ Len(r \o <<f[c + 1]>>) = d + 1
                /\ \A k \in 1..d + 1 : (r \o <<f[c + 1]>>)[k] = IF k <= d THEN r[k] ELSE <<f[c + 1]>>[k - d]
            BY <5>2, <6>1, ConcatProperties
          <6>3. \A k \in 1..d + 1 : ~(k <= d) => k - d = 1
            BY <5>4
          <6>. QED
            BY <6>1, <6>2, <6>3
        <5>7. \A k \in 1..d + 1 : (r \o <<f[c + 1]>>)[k] = g[k]
          <6>1. \A k \in 1..d + 1 : k \in 1..d \/ k = d + 1
            BY <5>4
          <6>2. ~(d + 1 <= d) /\ \A k \in 1..d : k <= d /\ k \in 1..d + 1
            BY <5>4
          <6>3. \A k \in 1..d : (r \o <<f[c + 1]>>)[k] = g[k]
            BY <5>2, <5>4, <5>6, <6>2
          <6>4. (r \o <<f[c + 1]>>)[d + 1] = f[c + 1]
            <7>1. d + 1 \in 1..d + 1
              BY <5>4
            <7>. QED
              BY <5>6, <6>2, <7>1
          <6>5. g[d + 1] = f[c + 1]
            <7>1. d + 1 \in 1..d + 1
              BY <5>4
            <7>. QED
              BY <5>4, <5>5, <7>1
          <6>. QED
            BY <6>1, <6>3, <6>4, <6>5
        <5>8. r \o <<f[c + 1]>> = g
          BY <5>4, <5>6, <5>7, SeqEqual
        <5>. QED
          BY <5>1, <5>3, <5>8
      <4>6. Rest(c + 1) = [k \in 1..(d + 1) |-> f[m + k]]
        BY <4>2
      <4>. QED
        BY <3>2, <3>3, <4>1, <4>5, <4>6
    <3>. QED
      BY <3>4, <3>5
  <2>4. Nat \subseteq T
    <3>. HIDE DEF T
    <3>. QED
      BY <2>2, <2>3, UpFromZero
  <2>5. n - 1 \in T /\ (n - 1) + 1 = n
    <3>1. n - 1 \in Nat /\ (n - 1) + 1 = n
      BY <1>3
    <3>. HIDE DEF T
    <3>. QED
      BY <2>4, <3>1
  <2>. QED
    BY <2>1, <2>5 DEF seqs, But, Behind
<1>. QED
  BY <1>2, <1>3 DEF But, Behind, seqs

-----------------------------------------------------------------------
(* The branch: every result stands in the group of its answer                   *)

\* The result at i belongs to the answer that stands as far before it as its call says, and
\* the results in between are those of the calls before it.
Belongs(s, i) ==
    LET c == s[i].call
        j == i - c
    IN  /\ j >= 1 /\ c >= 1
        /\ s[j].role = "assistant" /\ ~s[j].failed /\ s[j].id = s[i].of /\ c <= s[j].calls
        /\ \A k \in 1..c : s[j + k] = ToolResult(s[i].of, k)
ResultsBelong(s) == \A i \in DOMAIN s : s[i].role = "result" => Belongs(s, i)

\* While a batch is worked on, its answer stands before the results it has so far.
AnswerStands ==
    /\ batch.results < Len(stored)
    /\ stored[Len(stored) - batch.results] = answer
GroupInv == ResultsBelong(stored) /\ (pc \in Working => AnswerStands)

LEMMA MessageKinds ==
  ASSUME NEW m \in Messages
  PROVE  /\ m.role = "result" => m.of \in 1..MaxTurns /\ m.call \in 1..MaxCalls /\ m.call \in Nat /\ m.synthetic = FALSE
         /\ m.role = "assistant" => m.id \in 0..MaxTurns /\ m.calls \in 0..MaxCalls /\ m.calls \in Nat /\ m.failed \in BOOLEAN
         /\ m.role \in {"user", "assistant", "result"}
<1>1. MaxCalls \in Nat /\ MaxTurns \in Nat
  BY Bounds
<1>2. CASE m \in [role : {"user"}, id : 1..MaxUsers]
  BY <1>2
<1>3. CASE m \in [role : {"assistant"}, id : 0..MaxTurns, calls : 0..MaxCalls, failed : BOOLEAN]
  BY <1>1, <1>3
<1>4. CASE m \in [role : {"result"}, of : 1..MaxTurns, call : 1..MaxCalls, synthetic : {FALSE}]
  <2>1. m.role = "result" /\ m.of \in 1..MaxTurns /\ m.call \in 1..MaxCalls /\ m.synthetic = FALSE
    BY <1>4
  <2>2. m.call \in Nat
    BY <1>1, <2>1
  <2>. QED
    BY <2>1, <2>2
<1>. QED
  BY <1>2, <1>3, <1>4 DEF Messages

LEMMA BelongsOn ==
  ASSUME NEW s \in Seq(Messages), NEW t \in Seq(Messages), NEW i \in Nat, i <= Len(s), i <= Len(t),
         \A k \in 1..i : t[k] = s[k], i >= 1, s[i].role = "result", Belongs(s, i)
  PROVE  Belongs(t, i)
<1>1. i \in 1..i /\ s[i] \in Messages
  BY LenProperties
<1>. DEFINE c == s[i].call
            j == i - c
<1>2. c \in Nat /\ t[i] = s[i]
  BY <1>1, MessageKinds
<1>3. /\ j >= 1 /\ c >= 1
      /\ s[j].role = "assistant" /\ ~s[j].failed /\ s[j].id = s[i].of /\ c <= s[j].calls
      /\ \A k \in 1..c : s[j + k] = ToolResult(s[i].of, k)
  BY DEF Belongs
<1>4. j \in 1..i /\ \A k \in 1..c : j + k \in 1..i
  BY <1>2, <1>3
<1>5. t[j] = s[j] /\ \A k \in 1..c : t[j + k] = s[j + k]
  BY <1>4
<1>. QED
  BY <1>2, <1>3, <1>5 DEF Belongs

LEMMA BelongAppend ==
  ASSUME NEW s \in Seq(Messages), NEW m \in Messages, ResultsBelong(s),
         m.role = "result" => Belongs(Append(s, m), Len(s) + 1)
  PROVE  ResultsBelong(Append(s, m))
<1>. DEFINE t == Append(s, m)
<1>1. /\ t \in Seq(Messages) /\ Len(s) \in Nat /\ Len(t) = Len(s) + 1 /\ DOMAIN t = 1..Len(s) + 1
      /\ DOMAIN s = 1..Len(s) /\ (\A i \in 1..Len(s) : t[i] = s[i]) /\ t[Len(s) + 1] = m
  BY AppendProperties, LenProperties
<1>. SUFFICES ASSUME NEW i \in DOMAIN t, t[i].role = "result" PROVE Belongs(t, i)
  BY DEF ResultsBelong
<1>. HIDE DEF t
<1>2. CASE i = Len(s) + 1
  <2>1. m.role = "result"
    BY <1>1, <1>2
  <2>. QED
    BY <1>2, <2>1 DEF t
<1>3. CASE i # Len(s) + 1
  <2>1. i \in Nat /\ i \in DOMAIN s /\ i <= Len(s) /\ i <= Len(t) /\ i >= 1
    BY <1>1, <1>3
  <2>2. \A k \in 1..i : t[k] = s[k]
    BY <1>1, <2>1
  <2>3. s[i].role = "result"
    BY <1>1, <2>1
  <2>4. Belongs(s, i)
    BY <2>1, <2>3 DEF ResultsBelong
  <2>. QED
    BY <1>1, <2>1, <2>2, <2>3, <2>4, BelongsOn
<1>. QED
  BY <1>2, <1>3

LEMMA BelongFront ==
  ASSUME NEW s \in Seq(Messages), s # <<>>, ResultsBelong(s)
  PROVE  ResultsBelong(Front(s))
<1>. DEFINE t == Front(s)
<1>1. Len(s) \in Nat /\ Len(s) # 0 /\ DOMAIN s = 1..Len(s)
  BY LenProperties, EmptySeq
<1>2. 1 \in 1..Len(s) + 1 /\ Len(s) - 1 \in 0..Len(s)
  BY <1>1
<1>3. t \in Seq(Messages) /\ Len(t) = Len(s) - 1 /\ \A i \in 1..Len(s) - 1 : t[i] = s[i]
  BY <1>1, <1>2, SubSeqProperties DEF Front
<1>4. DOMAIN t = 1..Len(s) - 1
  BY <1>3, LenProperties
<1>. SUFFICES ASSUME NEW i \in DOMAIN t, t[i].role = "result" PROVE Belongs(t, i)
  BY DEF ResultsBelong
<1>. HIDE DEF t
<1>5. i \in Nat /\ i \in DOMAIN s /\ i <= Len(s) /\ i <= Len(t) /\ i >= 1
  BY <1>1, <1>3, <1>4
<1>6. \A k \in 1..i : t[k] = s[k]
  BY <1>1, <1>3, <1>5
<1>7. s[i].role = "result"
  BY <1>5, <1>6
<1>8. Belongs(s, i)
  BY <1>5, <1>7 DEF ResultsBelong
<1>. QED
  BY <1>3, <1>5, <1>6, <1>7, <1>8, BelongsOn

\* A step that leaves the batch alone and says at most something that is no result.
LEMMA ElsewhereKeeps ==
  ASSUME LoopInv, GroupInv, pc' \notin Working,
         \/ stored' = stored
         \/ \E m \in Messages : m.role # "result" /\ stored' = Append(stored, m)
         \/ stored # <<>> /\ stored' = Front(stored)
         \/ stored' = <<>>
  PROVE  GroupInv'
<1>1. stored \in Seq(Messages) /\ ResultsBelong(stored)
  BY DEF LoopInv, LoopTypes, TalkTypes, GroupInv
<1>2. ResultsBelong(<<>>)
  BY DEF ResultsBelong
<1>3. ResultsBelong(stored')
  BY <1>1, <1>2, BelongAppend, BelongFront
<1>. QED
  BY <1>3 DEF GroupInv

\* A step on the tools of the batch.
LEMMA OnToolsKeeps ==
  ASSUME GroupInv, pc \in Working, stored' = stored, answer' = answer, batch'.results = batch.results
  PROVE  GroupInv'
  BY DEF GroupInv, AnswerStands

LEMMA SaidStands ==
  ASSUME NEW s \in Seq(Messages), NEW m \in Messages
  PROVE  0 < Len(Append(s, m)) /\ Append(s, m)[Len(Append(s, m)) - 0] = m
<1>1. Len(s) \in Nat /\ Len(Append(s, m)) = Len(s) + 1 /\ Append(s, m)[Len(s) + 1] = m
  BY AppendProperties, LenProperties
<1>2. (Len(s) + 1) - 0 = Len(s) + 1 /\ 0 < Len(s) + 1
  BY <1>1
<1>. QED
  BY <1>1, <1>2

LEMMA AnswerGroups == ASSUME LoopInv, GroupInv, Answer PROVE GroupInv'
<1>1. PICK n \in 0..MaxCalls, mode \in Modes :
        /\ answer' = Assistant(turns + 1, n, FALSE)
        /\ batch' = NewBatch(mode)
        /\ Say(Assistant(turns + 1, n, FALSE), IF n = 0 THEN "turn_end" ELSE "tools", "failing", <<>>)
  BY DEF Answer
<1>. DEFINE m == Assistant(turns + 1, n, FALSE)
<1>2. m \in Messages /\ m.role = "assistant"
  <2>1. turns + 1 \in 0..MaxTurns
    BY Bounds DEF Answer, LoopInv, LoopTypes, TalkTypes
  <2>. QED
    BY <2>1 DEF Assistant, Messages
<1>3. batch'.results = 0 /\ stored \in Seq(Messages)
  BY <1>1 DEF NewBatch, LoopInv, LoopTypes, TalkTypes
<1>4. stored' = stored \/ stored' = Append(stored, m)
  BY <1>1, SayGrows
<1>5. pc' # "failing" => stored' = Append(stored, m)
  BY <1>1 DEF Say
<1>. HIDE DEF m
<1>6. ResultsBelong(stored')
  BY <1>2, <1>3, <1>4, BelongAppend DEF GroupInv
<1>7. pc' \in Working => AnswerStands'
  <2>. SUFFICES ASSUME pc' \in Working PROVE AnswerStands'
    OBVIOUS
  <2>1. stored' = Append(stored, m) /\ answer' = m
    BY <1>1, <1>5 DEF Working, m
  <2>2. 0 < Len(Append(stored, m)) /\ Append(stored, m)[Len(Append(stored, m)) - 0] = m
    BY <1>2, <1>3, SaidStands
  <2>. QED
    BY <1>3, <2>1, <2>2 DEF AnswerStands
<1>. QED
  BY <1>6, <1>7 DEF GroupInv

LEMMA StoreResultGroups == ASSUME LoopInv, GroupInv, StoreResult PROVE GroupInv'
<1>1. PICK n : n = batch.results + 1
  OBVIOUS
<1>. DEFINE m == ToolResult(answer.id, n)
<1>2. /\ pc \in Working /\ ResultsDue /\ batch' = [batch EXCEPT !.results = @ + 1]
      /\ Say(m, pc, "failing", <<>>) /\ answer' = answer
  BY <1>1 DEF StoreResult, NextResult, notBySay, ResultsDue, Working
<1>3. /\ TalkTypes /\ BatchTypes /\ batch \in Batches /\ Len(batch.status) \in Nat
      /\ Started = 1..Len(batch.status) /\ batch.results \in Nat
      /\ answer.id \in 1..MaxTurns /\ (\A c \in Started : c \in 1..MaxCalls)
      /\ Len(batch.status) <= answer.calls /\ answer \in AnswerMessages
  BY <1>2, WorkingFacts DEF BatchTypes
<1>4. n \in Nat /\ n \in Started /\ n <= answer.calls /\ answer.calls \in Nat
  <2>1. batch.results < Len(batch.status)
    BY <1>2 DEF ResultsDue
  <2>2. answer.calls \in Nat
    BY <1>3, Bounds DEF AnswerMessages
  <2>. QED
    BY <1>1, <1>3, <2>1, <2>2
<1>5. /\ m \in Messages /\ m.role = "result" /\ m.of = answer.id /\ m.call = n
  BY <1>3, <1>4, KindsApart DEF ToolResult
<1>6. stored' = stored \/ stored' = Append(stored, m)
  BY <1>2, SayGrows
<1>7. pc' # "failing" => stored' = Append(stored, m) /\ pc' \in Working
  BY <1>2 DEF Say
<1>8. /\ stored \in Seq(Messages) /\ Len(stored) \in Nat /\ batch.results < Len(stored)
      /\ stored[Len(stored) - batch.results] = answer /\ ResultsBelong(stored) /\ LastSaid
  BY <1>2, <1>3, LenProperties DEF GroupInv, AnswerStands, TalkTypes, LoopInv, StoredOK
<1>9. answer.role = "assistant" /\ answer \in Messages
  BY <1>3 DEF AnswerMessages, Messages
<1>. DEFINE t == Append(stored, m)
            p == Len(stored) - batch.results
<1>10. /\ t \in Seq(Messages) /\ Len(t) = Len(stored) + 1
       /\ (\A i \in 1..Len(stored) : t[i] = stored[i]) /\ t[Len(stored) + 1] = m
  BY <1>5, <1>8, AppendProperties
<1>11. p \in 1..Len(stored) /\ (Len(stored) + 1) - n = p /\ p + n = Len(stored) + 1
  <2>1. ASSUME NEW l \in Nat, NEW r \in Nat, r < l
        PROVE  l - r \in 1..l /\ (l + 1) - (r + 1) = l - r /\ (l - r) + (r + 1) = l + 1
    BY <2>1
  <2>. QED
    BY <1>1, <1>3, <1>8, <2>1
<1>12. \A k \in 1..n - 1 : stored[p + k] = ToolResult(answer.id, k)
  <2>1. CASE batch.results = 0
    BY <1>1, <2>1
  <2>2. CASE batch.results # 0
    <3>1. stored[Len(stored)] = ToolResult(answer.id, batch.results) /\ Len(stored) \in DOMAIN stored
      BY <1>8, <2>2, <1>3, LenProperties DEF LastSaid
    <3>2. stored[Len(stored)].role = "result" /\ stored[Len(stored)].call = batch.results
          /\ stored[Len(stored)].of = answer.id
      BY <3>1 DEF ToolResult
    <3>3. Belongs(stored, Len(stored))
      BY <1>8, <3>1, <3>2 DEF ResultsBelong
    <3>4. \A k \in 1..batch.results : stored[p + k] = ToolResult(answer.id, k)
      BY <3>2, <3>3 DEF Belongs
    <3>5. n - 1 = batch.results
      BY <1>1, <1>3
    <3>. QED
      BY <3>4, <3>5
  <2>. QED
    BY <2>1, <2>2
<1>13. ~answer.failed
  <2>1. CASE batch.results = 0
    <3>1. p = Len(stored)
      BY <1>8, <2>1
    <3>. QED
      BY <1>8, <2>1, <3>1 DEF LastSaid
  <2>2. CASE batch.results # 0
    <3>1. stored[Len(stored)] = ToolResult(answer.id, batch.results) /\ Len(stored) \in DOMAIN stored
      BY <1>8, <2>2, <1>3, LenProperties DEF LastSaid
    <3>2. stored[Len(stored)].role = "result" /\ stored[Len(stored)].call = batch.results
      BY <3>1 DEF ToolResult
    <3>3. Belongs(stored, Len(stored))
      BY <1>8, <3>1, <3>2 DEF ResultsBelong
    <3>. QED
      BY <1>8, <3>2, <3>3 DEF Belongs
  <2>. QED
    BY <2>1, <2>2
<1>. HIDE DEF m, t
<1>14. Belongs(t, Len(stored) + 1)
  <2>1. t[p] = answer /\ t[p + n] = m
    BY <1>8, <1>10, <1>11
  <2>2. \A k \in 1..n : t[p + k] = ToolResult(answer.id, k)
    <3>. SUFFICES ASSUME NEW k \in 1..n PROVE t[p + k] = ToolResult(answer.id, k)
      OBVIOUS
    <3>1. CASE k = n
      BY <2>1, <3>1 DEF m
    <3>2. CASE k # n
      <4>1. k \in 1..n - 1 /\ p + k \in 1..Len(stored)
        BY <1>4, <1>11, <3>2
      <4>. QED
        BY <1>10, <1>12, <4>1
    <3>. QED
      BY <3>1, <3>2
  <2>3. t[Len(stored) + 1].call = n /\ t[Len(stored) + 1].of = answer.id /\ n >= 1
    BY <1>4, <1>5, <1>10, <1>3
  <2>. HIDE DEF p
  <2>4. p >= 1
    BY <1>8, <1>11
  <2>. QED
    BY <1>4, <1>9, <1>11, <1>13, <2>1, <2>2, <2>3, <2>4 DEF Belongs
<1>15. ResultsBelong(stored')
  BY <1>5, <1>6, <1>8, <1>14, BelongAppend DEF t
<1>16. pc' \in Working => AnswerStands'
  <2>. SUFFICES ASSUME pc' \in Working PROVE AnswerStands'
    OBVIOUS
  <2>1. stored' = t
    BY <1>7 DEF Working, t
  <2>2. batch'.results = n
    BY <1>1, <1>2, <1>3 DEF Batches
  <2>3. n < Len(t) /\ t[Len(t) - n] = answer
    <3>1. Len(t) - n = p /\ n < Len(t)
      BY <1>1, <1>3, <1>8, <1>10, <1>11
    <3>. QED
      BY <1>8, <1>10, <1>11, <3>1
  <2>. QED
    BY <1>2, <2>1, <2>2, <2>3 DEF AnswerStands
<1>. QED
  BY <1>15, <1>16 DEF GroupInv

LEMMA GroupInit == Init => GroupInv
  BY DEF Init, GroupInv, ResultsBelong, Working

LEMMA SayElsewhere ==
  ASSUME LoopInv, GroupInv, NEW m \in Messages, m.role # "result",
         NEW next, NEW onError, next \notin Working, onError \notin Working, NEW after, Say(m, next, onError, after)
  PROVE  GroupInv'
<1>1. stored' = stored \/ stored' = Append(stored, m)
  BY SayGrows
<1>2. pc' \notin Working
  BY DEF Say
<1>. QED
  BY <1>1, <1>2, ElsewhereKeeps

LEMMA GroupStep == ASSUME LoopInv, GroupInv, [Next]_vars PROVE GroupInv'
<1>1. /\ turns < MaxTurns => turns + 1 \in 0..MaxTurns
      /\ TalkTypes /\ BatchTypes /\ stored \in Seq(Messages)
  BY Bounds DEF LoopInv, LoopTypes, TalkTypes
<1>2. CASE EmitPrompt \/ Inject
  <2>1. pending # <<>>
    BY <1>1, <1>2 DEF TalkTypes, EmitPrompt, Inject
  <2>2. pending[1] \in Messages /\ pending[1].role # "result"
    <3>1. pending[1] \in UserMessages
      BY <1>1, <2>1, LenProperties, EmptySeq DEF TalkTypes
    <3>. QED
      BY <3>1 DEF UserMessages, Messages
  <2>3. \E next \in {"poll", "inject"} : Say(pending[1], next, "failing", <<>>)
    BY <1>2 DEF EmitPrompt, Inject
  <2>. QED
    BY <2>2, <2>3, SayElsewhere DEF Working
<1>3. CASE AnswerFailed
  <2>1. PICK n \in 0..MaxCalls : Say(Assistant(turns + 1, n, TRUE), "idle", "failing", RunEnd)
    BY <1>3 DEF AnswerFailed
  <2>2. Assistant(turns + 1, n, TRUE) \in Messages /\ Assistant(turns + 1, n, TRUE).role # "result"
    BY <1>1, <1>3 DEF AnswerFailed, Assistant, Messages
  <2>. QED
    BY <2>1, <2>2, SayElsewhere DEF Working
<1>4. CASE EmitRunFailure
  <2>1. Failure \in Messages /\ Failure.role # "result"
    BY Bounds DEF Failure, Assistant, Messages
  <2>. QED
    BY <1>4, <2>1, SayElsewhere DEF EmitRunFailure, Working
<1>5. CASE Continue
  BY <1>5, ElsewhereKeeps DEF Continue, Working
<1>6. CASE Crash
  BY <1>6, ElsewhereKeeps DEF Crash, Working
<1>7. CASE \/ Prompt \/ GetSteeringMessages \/ GetFollowUpMessages \/ Request \/ StreamRefused
           \/ BatchReturns \/ TurnEnd
  <2>1. stored' = stored
    BY <1>7 DEF Prompt, GetSteeringMessages, GetFollowUpMessages, Request, StreamRefused, BatchReturns,
       TurnEnd, notByTools
  <2>2. pc' \notin Working
    BY <1>7 DEF Prompt, GetSteeringMessages, GetFollowUpMessages, Request, StreamRefused, BatchReturns,
       TurnEnd, PollRefused, Working
  <2>. QED
    BY <2>1, <2>2, ElsewhereKeeps
<1>8. CASE \/ StartBlocked \/ StartPrepared \/ Launch \/ Collect \/ \E c \in Started : ToolReturns(c)
  <2>1. stored' = stored /\ answer' = answer
    BY <1>8 DEF StartBlocked, StartPrepared, Launch, Collect, ToolReturns, notByTools
  <2>2. batch'.results = batch.results
    BY <1>1, <1>8 DEF StartBlocked, StartPrepared, Launch, Collect, ToolReturns, BatchTypes, Batches
  <2>3. pc \in Working \/ pc' = pc
    BY <1>8 DEF StartBlocked, StartPrepared, Launch, Collect, ToolReturns, MayStart, Working
  <2>. QED
    BY <2>1, <2>2, <2>3, OnToolsKeeps, ElsewhereKeeps
<1>9. CASE Cancel \/ UNCHANGED vars
  BY <1>9 DEF Cancel, vars, GroupInv, AnswerStands
<1>. QED
  BY <1>2, <1>3, <1>4, <1>5, <1>6, <1>7, <1>8, <1>9, AnswerGroups, StoreResultGroups DEF Next, LoopStep

LEMMA GroupInvariant == Spec => []GroupInv
<1>1. LoopInv /\ GroupInv /\ [Next]_vars => GroupInv'
  BY GroupStep
<1>. QED
  BY <1>1, GroupInit, LoopInvariant, PTL DEF Spec

-----------------------------------------------------------------------
(* What a request carries: whole groups                                         *)

\* Messages, and the results that a request makes up.
Sendable == Messages \cup [role : {"result"}, of : 0..MaxTurns, call : Nat, synthetic : {TRUE}]

LEMMA WireKinds ==
  ASSUME NEW m \in Sendable
  PROVE  /\ m.role \in {"user", "assistant", "result"}
         /\ m.role = "assistant" => m.calls \in Nat /\ m \in Messages
<1>1. CASE m \in Messages
  BY <1>1, MessageKinds
<1>2. CASE m \in [role : {"result"}, of : 0..MaxTurns, call : Nat, synthetic : {TRUE}]
  <2>1. m.role = "result"
    BY <1>2
  <2>. QED
    BY <2>1
<1>. QED
  BY <1>1, <1>2 DEF Sendable

\* The calls of the answer at i of s are answered at i + 1..k, in any order.
AnsweredTo(s, i, k) ==
    /\ k \in i..Len(s) /\ k - i = s[i].calls
    /\ \A j \in (i + 1)..k : /\ s[j].role = "result" /\ s[j].of = s[i].id
                             /\ s[j].call \in 1..s[i].calls
    /\ \A c \in 1..s[i].calls : \E j \in (i + 1)..k : s[j].call = c
\* The result at i of s is that of an answer at j.
AnswerOf(s, i, j) ==
    j \in 1..(i - 1) /\ s[j].role = "assistant" /\ s[j].id = s[i].of /\ i - j <= s[j].calls
PairedAt(s) ==
    \A i \in DOMAIN s :
        /\ s[i].role = "assistant" => \E k : AnsweredTo(s, i, k)
        /\ s[i].role = "result" => \E j : AnswerOf(s, i, j)

LEMMA PairedIs == ASSUME NEW s, PairedAt(s) PROVE Paired(s)
<1>1. ASSUME NEW i \in DOMAIN s, s[i].role = "assistant"
      PROVE  \E k \in i..Len(s) :
                /\ k - i = s[i].calls
                /\ {s[j].role : j \in (i + 1)..k} \subseteq {"result"}
                /\ {s[j].of : j \in (i + 1)..k} \subseteq {s[i].id}
                /\ {s[j].call : j \in (i + 1)..k} = 1..s[i].calls
  <2>1. PICK k : AnsweredTo(s, i, k)
    BY <1>1 DEF PairedAt
  <2>2. {s[j].role : j \in (i + 1)..k} \subseteq {"result"}
    BY <2>1 DEF AnsweredTo
  <2>3. {s[j].of : j \in (i + 1)..k} \subseteq {s[i].id}
    BY <2>1 DEF AnsweredTo
  <2>4. {s[j].call : j \in (i + 1)..k} = 1..s[i].calls
    <3>1. {s[j].call : j \in (i + 1)..k} \subseteq 1..s[i].calls
      BY <2>1 DEF AnsweredTo
    <3>2. ASSUME NEW c \in 1..s[i].calls PROVE c \in {s[j].call : j \in (i + 1)..k}
      BY <2>1 DEF AnsweredTo
    <3>. QED
      BY <3>1, <3>2
  <2>. QED
    BY <2>1, <2>2, <2>3, <2>4 DEF AnsweredTo
<1>2. ASSUME NEW i \in DOMAIN s, s[i].role = "result"
      PROVE  \E j \in 1..(i - 1) : s[j].role = "assistant" /\ s[j].id = s[i].of /\ i - j <= s[j].calls
  BY <1>2 DEF PairedAt, AnswerOf
<1>. QED
  BY <1>1, <1>2 DEF Paired

LEMMA NothingPaired == PairedAt(<<>>)
  BY DEF PairedAt

LEMMA PairedConcat ==
  ASSUME NEW x \in Seq(Sendable), NEW y \in Seq(Sendable), PairedAt(x), PairedAt(y)
  PROVE  PairedAt(x \o y) /\ x \o y \in Seq(Sendable)
<1>. DEFINE z == x \o y
            l == Len(x)
<1>1. /\ z \in Seq(Sendable) /\ Len(z) = l + Len(y) /\ l \in Nat /\ Len(y) \in Nat
      /\ DOMAIN z = 1..l + Len(y) /\ DOMAIN x = 1..l /\ DOMAIN y = 1..Len(y)
      /\ \A i \in 1..l + Len(y) : z[i] = IF i <= l THEN x[i] ELSE y[i - l]
  BY ConcatProperties, LenProperties
<1>. HIDE DEF z, l
<1>2. \A i \in 1..l : z[i] = x[i]
  BY <1>1
<1>3. \A i \in 1..Len(y) : z[l + i] = y[i]
  <2>. SUFFICES ASSUME NEW i \in 1..Len(y) PROVE z[l + i] = y[i]
    OBVIOUS
  <2>1. l + i \in 1..l + Len(y) /\ ~(l + i <= l) /\ (l + i) - l = i
    BY <1>1
  <2>. QED
    BY <1>1, <2>1
<1>4. ASSUME NEW i \in 1..l
      PROVE  /\ z[i].role = "assistant" => \E k : AnsweredTo(z, i, k)
             /\ z[i].role = "result" => \E j : AnswerOf(z, i, j)
  <2>1. ASSUME NEW k, AnsweredTo(x, i, k) PROVE AnsweredTo(z, i, k)
    <3>1. k \in i..l /\ k \in Int
      BY <1>1, <2>1 DEF AnsweredTo, l
    <3>2. k \in i..Len(z) /\ \A j \in (i + 1)..k : j \in 1..l
      BY <1>1, <3>1
    <3>3. \A j \in (i + 1)..k : z[j] = x[j]
      BY <1>2, <3>2
    <3>4. z[i] = x[i]
      BY <1>2
    <3>. QED
      BY <2>1, <3>2, <3>3, <3>4 DEF AnsweredTo
  <2>2. ASSUME NEW j, AnswerOf(x, i, j) PROVE AnswerOf(z, i, j)
    <3>1. j \in 1..l
      BY <1>1, <2>2 DEF AnswerOf
    <3>2. z[j] = x[j] /\ z[i] = x[i]
      BY <1>2, <3>1
    <3>. QED
      BY <2>2, <3>2 DEF AnswerOf
  <2>3. z[i] = x[i] /\ i \in DOMAIN x
    BY <1>1, <1>2
  <2>. QED
    BY <2>1, <2>2, <2>3 DEF PairedAt
<1>5. ASSUME NEW i \in 1..Len(y)
      PROVE  /\ z[l + i].role = "assistant" => \E k : AnsweredTo(z, l + i, k)
             /\ z[l + i].role = "result" => \E j : AnswerOf(z, l + i, j)
  <2>1. ASSUME NEW k, AnsweredTo(y, i, k) PROVE AnsweredTo(z, l + i, l + k)
    <3>1. k \in i..Len(y) /\ k - i = y[i].calls /\ k \in Int /\ i \in Int
      BY <1>1, <2>1 DEF AnsweredTo
    <3>2. l + k \in (l + i)..Len(z) /\ (l + k) - (l + i) = k - i
      BY <1>1, <3>1
    <3>3. z[l + i] = y[i]
      BY <1>3
    <3>4. ASSUME NEW j \in ((l + i) + 1)..(l + k)
          PROVE  /\ z[j].role = "result" /\ z[j].of = y[i].id /\ z[j].call \in 1..y[i].calls
      <4>1. j - l \in (i + 1)..k /\ j - l \in 1..Len(y) /\ l + (j - l) = j
        BY <1>1, <3>1
      <4>2. z[j] = y[j - l]
        BY <1>3, <4>1
      <4>. QED
        BY <2>1, <4>1, <4>2 DEF AnsweredTo
    <3>5. ASSUME NEW c \in 1..y[i].calls PROVE \E j \in ((l + i) + 1)..(l + k) : z[j].call = c
      <4>1. PICK j \in (i + 1)..k : y[j].call = c
        BY <2>1 DEF AnsweredTo
      <4>2. l + j \in ((l + i) + 1)..(l + k) /\ j \in 1..Len(y)
        BY <1>1, <3>1
      <4>3. z[l + j] = y[j]
        BY <1>3, <4>2
      <4>. QED
        BY <4>1, <4>2, <4>3
    <3>. QED
      BY <3>1, <3>2, <3>3, <3>4, <3>5 DEF AnsweredTo
  <2>2. ASSUME NEW j, AnswerOf(y, i, j) PROVE AnswerOf(z, l + i, l + j)
    <3>1. j \in 1..(i - 1) /\ j \in 1..Len(y) /\ i \in Int /\ j \in Int
      BY <1>1, <2>2 DEF AnswerOf
    <3>2. z[l + j] = y[j] /\ z[l + i] = y[i]
      BY <1>3, <3>1
    <3>3. l + j \in 1..((l + i) - 1) /\ (l + i) - (l + j) = i - j
      BY <1>1, <3>1
    <3>. QED
      BY <2>2, <3>2, <3>3 DEF AnswerOf
  <2>3. z[l + i] = y[i] /\ i \in DOMAIN y
    BY <1>1, <1>3
  <2>. QED
    BY <2>1, <2>2, <2>3 DEF PairedAt
<1>6. \A i \in DOMAIN z : i \in 1..l \/ (i - l \in 1..Len(y) /\ l + (i - l) = i)
  BY <1>1
<1>7. PairedAt(z)
  <2>. SUFFICES ASSUME NEW i \in DOMAIN z
                PROVE  /\ z[i].role = "assistant" => \E k : AnsweredTo(z, i, k)
                       /\ z[i].role = "result" => \E j : AnswerOf(z, i, j)
    BY DEF PairedAt
  <2>1. CASE i \in 1..l
    BY <1>4, <2>1
  <2>2. CASE i - l \in 1..Len(y) /\ l + (i - l) = i
    <3>1. PICK h : h = i - l
      OBVIOUS
    <3>2. h \in 1..Len(y) /\ i = l + h
      BY <2>2, <3>1
    <3>. QED
      BY <1>5, <3>2
  <2>. QED
    BY <1>6, <2>1, <2>2
<1>. QED
  BY <1>1, <1>7 DEF z

\* An answer and the results of its calls in their order.
GroupOf(g) ==
    /\ g[1].role = "assistant" /\ Len(g) = g[1].calls + 1
    /\ \A c \in 1..g[1].calls : g[c + 1].role = "result" /\ g[c + 1].of = g[1].id /\ g[c + 1].call = c

LEMMA GroupPaired == ASSUME NEW g \in Seq(Sendable), g # <<>>, GroupOf(g) PROVE PairedAt(g)
<1>. DEFINE n == g[1].calls
<1>1. 1 \in 1..Len(g) /\ Len(g) \in Nat /\ DOMAIN g = 1..Len(g) /\ g[1] \in Sendable
  BY LenProperties, EmptySeq
<1>2. n \in Nat /\ Len(g) = n + 1 /\ g[1].role = "assistant"
  BY <1>1, WireKinds DEF GroupOf
<1>. HIDE DEF n
<1>3. \A j \in 2..(n + 1) : g[j].role = "result" /\ g[j].of = g[1].id /\ g[j].call = j - 1
  <2>. SUFFICES ASSUME NEW j \in 2..(n + 1) PROVE g[j].role = "result" /\ g[j].of = g[1].id /\ g[j].call = j - 1
    OBVIOUS
  <2>1. j - 1 \in 1..n /\ (j - 1) + 1 = j
    BY <1>2
  <2>. QED
    BY <2>1 DEF GroupOf, n
<1>4. AnsweredTo(g, 1, n + 1)
  <2>1. n + 1 \in 1..Len(g) /\ (n + 1) - 1 = n /\ 1 + 1 = 2
    BY <1>2
  <2>2. \A j \in 2..(n + 1) : j - 1 \in 1..n
    BY <1>2
  <2>3. ASSUME NEW c \in 1..n PROVE \E j \in 2..(n + 1) : g[j].call = c
    <3>1. c + 1 \in 2..(n + 1) /\ (c + 1) - 1 = c
      BY <1>2
    <3>. QED
      BY <1>3, <3>1
  <2>. QED
    BY <1>3, <2>1, <2>2, <2>3 DEF AnsweredTo, n
<1>5. ASSUME NEW i \in 2..(n + 1) PROVE AnswerOf(g, i, 1)
  <2>1. 1 \in 1..(i - 1) /\ i - 1 <= n
    BY <1>2
  <2>. QED
    BY <1>2, <1>3, <2>1 DEF AnswerOf, n
<1>6. \A i \in DOMAIN g : i = 1 \/ i \in 2..(n + 1)
  BY <1>1, <1>2
<1>. QED
  BY <1>2, <1>3, <1>4, <1>5, <1>6 DEF PairedAt

LEMMA OnePaired ==
  ASSUME NEW m \in Sendable, m.role = "user" PROVE <<m>> \in Seq(Sendable) /\ PairedAt(<<m>>)
<1>1. <<m>> \in Seq(Sendable) /\ DOMAIN <<m>> = {1} /\ <<m>>[1] = m
  OBVIOUS
<1>. QED
  BY <1>1 DEF PairedAt

\* The answer at j is the last thing before i + 1 that closes what is before it, and the
\* messages after it are its first results.
OpenGroup(s, i, j) ==
    /\ j \in 1..i /\ s[j].role = "assistant" /\ ~s[j].failed /\ i - j <= s[j].calls
    /\ \A k \in 1..(i - j) : s[j + k] = ToolResult(s[j].id, k)
ClosedAt(s, i) == i >= 1 /\ (s[i].role = "user" \/ IsFailed(s[i]))

\* What of s up to i still waits for results.
Waits(s, i, t) ==
    \/ i = 0 /\ t = <<>>
    \/ ClosedAt(s, i) /\ t = <<>>
    \/ \E j : OpenGroup(s, i, j) /\ t = [k \in 1..((i - j) + 1) |-> s[(j + k) - 1]]

LEMMA LastCloser ==
  ASSUME NEW s, NEW i \in Nat, NEW j \in 1..i, Closes(s[j]), \A k \in (j + 1)..i : ~Closes(s[k])
  PROVE  /\ {x \in 1..((i + 1) - 1) : Closes(s[x])} # {}
         /\ j = CHOOSE k \in {x \in 1..((i + 1) - 1) : Closes(s[x])} :
                    \A l \in {x \in 1..((i + 1) - 1) : Closes(s[x])} : l <= k
<1>. DEFINE B == {x \in 1..((i + 1) - 1) : Closes(s[x])}
<1>1. (i + 1) - 1 = i
  OBVIOUS
<1>2. j \in B
  BY <1>1
<1>3. \A l \in B : l <= j /\ l \in Int
  BY <1>1
<1>4. ASSUME NEW k \in B, \A l \in B : l <= k PROVE k = j
  BY <1>2, <1>3, <1>4
<1>. HIDE DEF B
<1>5. j = CHOOSE k \in B : \A l \in B : l <= k
  BY <1>2, <1>3, <1>4
<1>. QED
  BY <1>2, <1>5 DEF B

LEMMA NothingMissing ==
  ASSUME NEW s \in Seq(Messages), NEW i \in Nat, i <= Len(s), i = 0 \/ ClosedAt(s, i)
  PROVE  Missing(s, i + 1) = <<>>
<1>1. CASE i = 0
  <2>1. {x \in 1..((i + 1) - 1) : Closes(s[x])} = {}
    BY <1>1
  <2>. QED
    BY <2>1 DEF Missing
<1>2. CASE ClosedAt(s, i)
  <2>1. i \in 1..i /\ Closes(s[i]) /\ \A k \in (i + 1)..i : ~Closes(s[k])
    BY <1>2 DEF ClosedAt, Closes, IsFailed
  <2>. DEFINE B == {x \in 1..((i + 1) - 1) : Closes(s[x])}
  <2>2. B # {} /\ i = CHOOSE k \in B : \A l \in B : l <= k
    BY <2>1, LastCloser
  <2>3. s[i].role # "assistant" \/ s[i].failed
    BY <1>2 DEF ClosedAt, IsFailed
  <2>. QED
    BY <2>2, <2>3 DEF Missing
<1>. QED
  BY <1>1, <1>2

\* Missing, of the messages that close what is before them and the last of these.
MissingOf(s, i, before, j) ==
    LET answered == {s[k].call : k \in (j + 1)..(i - 1)}
    IN  IF before = {} \/ s[j].role # "assistant" THEN <<>>
        ELSE IF s[j].failed THEN <<>>
        ELSE FlattenSeq([c \in 1..s[j].calls |->
                 IF c \in answered THEN <<>> ELSE <<Synthetic(s[j].id, c)>>])

LEMMA MissingRest ==
  ASSUME NEW s \in Seq(Messages), NEW i \in Nat, i <= Len(s), NEW j, OpenGroup(s, i, j)
  PROVE  /\ s[j].calls \in Nat /\ s[j].id \in 0..MaxTurns /\ s[j] \in Messages /\ j \in Nat
         /\ Missing(s, i + 1) = [k \in 1..(s[j].calls - (i - j)) |-> Synthetic(s[j].id, (i - j) + k)]
<1>. DEFINE n == s[j].calls
            m == i - j
            f == [c \in 1..n |-> Synthetic(s[j].id, c)]
            B == {x \in 1..((i + 1) - 1) : Closes(s[x])}
<1>1. j \in 1..i /\ s[j] \in Messages /\ s[j].role = "assistant"
  <2>1. j \in 1..i /\ s[j].role = "assistant"
    BY DEF OpenGroup
  <2>2. j \in 1..Len(s)
    BY <2>1, LenProperties
  <2>. QED
    BY <2>1, <2>2, LenProperties
<1>2. n \in Nat /\ s[j].id \in 0..MaxTurns
  BY <1>1, MessageKinds
<1>3. m \in Nat /\ m <= n
  BY <1>1 DEF OpenGroup
<1>4. \A k \in 1..m : s[j + k] = ToolResult(s[j].id, k)
  BY DEF OpenGroup
<1>5. \A k \in (j + 1)..i : k - j \in 1..m /\ j + (k - j) = k
  BY <1>1
<1>6. \A k \in (j + 1)..i : s[k] = ToolResult(s[j].id, k - j)
  <2>. SUFFICES ASSUME NEW k \in (j + 1)..i PROVE s[k] = ToolResult(s[j].id, k - j)
    OBVIOUS
  <2>1. PICK h : h = k - j
    OBVIOUS
  <2>2. h \in 1..m /\ j + h = k
    BY <1>5, <2>1
  <2>3. s[j + h] = ToolResult(s[j].id, h)
    BY <1>4, <2>2
  <2>. QED
    BY <2>1, <2>2, <2>3
<1>7. Closes(s[j]) /\ \A k \in (j + 1)..i : ~Closes(s[k])
  <2>1. \A k \in (j + 1)..i : s[k].role = "result"
    <3>1. \A x, y : ToolResult(x, y).role = "result"
      BY DEF ToolResult
    <3>. QED
      BY <1>6, <3>1
  <2>. QED
    BY <1>1, <2>1 DEF Closes
<1>8. B # {} /\ j = CHOOSE k \in B : \A l \in B : l <= k
  BY <1>1, <1>7, LastCloser
<1>9. {s[k].call : k \in (j + 1)..((i + 1) - 1)} = 1..m
  <2>1. (i + 1) - 1 = i
    OBVIOUS
  <2>2. \A k \in (j + 1)..i : s[k].call = k - j
    <3>1. \A x, y : ToolResult(x, y).call = y
      BY DEF ToolResult
    <3>. QED
      BY <1>6, <3>1
  <2>3. {s[k].call : k \in (j + 1)..i} \subseteq 1..m
    BY <1>5, <2>2
  <2>4. ASSUME NEW c \in 1..m PROVE c \in {s[k].call : k \in (j + 1)..i}
    <3>1. j + c \in (j + 1)..i /\ (j + c) - j = c
      BY <1>1
    <3>. QED
      BY <2>2, <3>1
  <2>. QED
    BY <2>1, <2>3, <2>4
<1>. HIDE DEF B
<1>10. Missing(s, i + 1) = FlattenSeq([c \in 1..n |-> IF c \in 1..m THEN <<>> ELSE <<Synthetic(s[j].id, c)>>])
  <2>1. s[j].role = "assistant" /\ ~s[j].failed
    BY DEF OpenGroup
  <2>. QED
    <3>1. Missing(s, i + 1) = MissingOf(s, i + 1, B, CHOOSE k \in B : \A l \in B : l <= k)
      BY DEF Missing, MissingOf, B
    <3>2. Missing(s, i + 1) = MissingOf(s, i + 1, B, j)
      BY <1>8, <3>1
    <3>3. MissingOf(s, i + 1, B, j) = FlattenSeq([c \in 1..s[j].calls |->
              IF c \in {s[k].call : k \in (j + 1)..((i + 1) - 1)} THEN <<>> ELSE <<Synthetic(s[j].id, c)>>])
      BY <1>8, <2>1 DEF MissingOf
    <3>. QED
      BY <1>9, <3>2, <3>3
<1>11. [c \in 1..n |-> IF c \in 1..m THEN <<>> ELSE <<Synthetic(s[j].id, c)>>]
         = [c \in 1..n |-> IF c \in 1..m THEN <<>> ELSE <<f[c]>>]
  OBVIOUS
<1>12. FlattenSeq([c \in 1..n |-> IF c \in 1..m THEN <<>> ELSE <<f[c]>>]) = [k \in 1..(n - m) |-> f[m + k]]
  <2>2. n \in Nat /\ m \in Nat /\ m <= n
    BY <1>2, <1>3
  <2>. HIDE DEF f, n, m
  <2>3. FlattenSeq(But(f, n, m)) = Behind(f, n, m)
    BY <2>2, FlattenRest
  <2>. QED
    BY <2>3 DEF But, Behind
<1>13. [k \in 1..(n - m) |-> f[m + k]] = [k \in 1..(n - m) |-> Synthetic(s[j].id, m + k)]
  <2>1. \A k \in 1..(n - m) : m + k \in 1..n
    BY <1>2, <1>3
  <2>. HIDE DEF n, m
  <2>2. \A k \in 1..(n - m) : f[m + k] = Synthetic(s[j].id, m + k)
    BY <2>1
  <2>. HIDE DEF f
  <2>. QED
    BY <2>2
<1>. QED
  <2>1. j \in Nat
    BY <1>1
  <2>. QED
    BY <1>1, <1>2, <1>10, <1>11, <1>12, <1>13, <2>1, Zenon

LEMMA SyntheticIs ==
  ASSUME NEW n \in 0..MaxTurns, NEW c \in Nat
  PROVE  /\ Synthetic(n, c) \in Sendable /\ Synthetic(n, c).role = "result"
         /\ Synthetic(n, c).of = n /\ Synthetic(n, c).call = c
<1>1. PICK r : r = [role |-> "result", of |-> n, call |-> c, synthetic |-> FALSE]
  OBVIOUS
<1>2. PICK e : e = [r EXCEPT !.synthetic = TRUE]
  OBVIOUS
<1>3. Synthetic(n, c) = e
  BY <1>1, <1>2 DEF Synthetic, ToolResult
<1>4. r \in [role : {"result"}, of : 0..MaxTurns, call : Nat, synthetic : BOOLEAN] /\ r.of = n /\ r.call = c
  BY <1>1
<1>5. e \in [role : {"result"}, of : 0..MaxTurns, call : Nat, synthetic : {TRUE}] /\ e.of = n /\ e.call = c
  BY <1>2, <1>4
<1>. QED
  BY <1>3, <1>5 DEF Sendable

\* What waits, with the results that are missing, is whole.
LEMMA ClosingWhole ==
  ASSUME NEW s \in Seq(Messages), NEW i \in Nat, i <= Len(s), NEW t, Waits(s, i, t)
  PROVE  /\ t \in Seq(Sendable) /\ Missing(s, i + 1) \in Seq(Sendable)
         /\ t \o Missing(s, i + 1) \in Seq(Sendable) /\ PairedAt(t \o Missing(s, i + 1))
<1>1. CASE (i = 0 \/ ClosedAt(s, i)) /\ t = <<>>
  <2>1. Missing(s, i + 1) = <<>>
    BY <1>1, NothingMissing
  <2>2. <<>> \in Seq(Sendable) /\ <<>> \o <<>> = <<>>
    OBVIOUS
  <2>. QED
    BY <1>1, <2>1, <2>2, NothingPaired
<1>2. ASSUME NEW j, OpenGroup(s, i, j), t = [k \in 1..((i - j) + 1) |-> s[(j + k) - 1]]
      PROVE  /\ t \in Seq(Sendable) /\ Missing(s, i + 1) \in Seq(Sendable)
             /\ t \o Missing(s, i + 1) \in Seq(Sendable) /\ PairedAt(t \o Missing(s, i + 1))
  <2>. DEFINE M == Missing(s, i + 1)
  <2>1. /\ s[j].calls \in Nat /\ s[j].id \in 0..MaxTurns /\ s[j] \in Messages /\ j \in Nat
        /\ M = [k \in 1..(s[j].calls - (i - j)) |-> Synthetic(s[j].id, (i - j) + k)]
    BY <1>2, MissingRest
  <2>2. PICK m, n, d : m = i - j /\ n = s[j].calls /\ d = n - m
    OBVIOUS
  <2>3. /\ m \in Nat /\ n \in Nat /\ m <= n /\ d \in Nat /\ j \in 1..i /\ j + m = i
        /\ s[j].role = "assistant" /\ \A k \in 1..m : s[j + k] = ToolResult(s[j].id, k)
    <3>1. /\ j \in 1..i /\ s[j].role = "assistant" /\ i - j <= s[j].calls
          /\ \A k \in 1..(i - j) : s[j + k] = ToolResult(s[j].id, k)
      BY <1>2 DEF OpenGroup
    <3>2. m \in Nat /\ n \in Nat /\ m <= n /\ j + m = i
      BY <2>1, <2>2, <3>1
    <3>3. d \in Nat
      BY <2>2, <3>2
    <3>. QED
      BY <2>2, <3>1, <3>2, <3>3
  <2>4. t = [k \in 1..(m + 1) |-> s[(j + k) - 1]] /\ M = [k \in 1..d |-> Synthetic(s[j].id, m + k)]
    BY <1>2, <2>1, <2>2
  <2>. HIDE DEF M
  <2>5. t \in Seq(Sendable) /\ Len(t) = m + 1 /\ \A k \in 1..(m + 1) : t[k] = s[(j + k) - 1]
    <3>1. \A k \in 1..(m + 1) : (j + k) - 1 \in 1..Len(s)
      BY <2>3, LenProperties
    <3>2. \A k \in 1..(m + 1) : s[(j + k) - 1] \in Sendable
      BY <3>1, LenProperties DEF Sendable
    <3>3. m + 1 \in Nat /\ t = [k \in 1..(m + 1) |-> s[(j + k) - 1]]
      BY <2>3, <2>4
    <3>4. t \in [1..(m + 1) -> Sendable]
      BY <3>2, <3>3
    <3>5. t \in Seq(Sendable) /\ Len(t) = m + 1
      BY <3>3, <3>4
    <3>. QED
      BY <3>3, <3>5
  <2>6. M \in Seq(Sendable) /\ Len(M) = d /\ \A k \in 1..d : M[k] = Synthetic(s[j].id, m + k)
    <3>1. \A k \in 1..d : m + k \in Nat
      BY <2>3
    <3>2. \A k \in 1..d : Synthetic(s[j].id, m + k) \in Sendable
      BY <2>1, <3>1, SyntheticIs
    <3>. QED
      BY <2>3, <2>4, <3>2
  <2>. DEFINE g == t \o M
  <2>7. /\ g \in Seq(Sendable) /\ Len(g) = (m + 1) + d
        /\ \A k \in 1..(m + 1) + d : g[k] = IF k <= m + 1 THEN t[k] ELSE M[k - (m + 1)]
    <3>. HIDE DEF g
    <3>1. /\ t \o M \in Seq(Sendable) /\ Len(t \o M) = Len(t) + Len(M)
          /\ \A k \in 1..Len(t) + Len(M) : (t \o M)[k] = IF k <= Len(t) THEN t[k] ELSE M[k - Len(t)]
      BY <2>5, <2>6, ConcatProperties
    <3>. QED
      BY <2>5, <2>6, <3>1 DEF g
  <2>8. Len(g) = n + 1
    BY <2>2, <2>3, <2>7
  <2>9. g[1] = s[j]
    <3>1. 1 \in 1..(m + 1) + d /\ 1 <= m + 1 /\ 1 \in 1..(m + 1) /\ (j + 1) - 1 = j
      BY <2>3
    <3>. QED
      BY <2>5, <2>7, <3>1
  <2>. HIDE DEF g
  <2>10. ASSUME NEW c \in 1..n
         PROVE  g[c + 1].role = "result" /\ g[c + 1].of = s[j].id /\ g[c + 1].call = c
    <3>1. c \in Nat /\ c + 1 \in 1..(m + 1) + d
      BY <2>2, <2>3
    <3>2. CASE c <= m
      <4>1. c + 1 <= m + 1 /\ c + 1 \in 1..(m + 1) /\ (j + (c + 1)) - 1 = j + c /\ c \in 1..m
        BY <2>3, <3>1, <3>2
      <4>2. g[c + 1] = ToolResult(s[j].id, c)
        BY <2>3, <2>5, <2>7, <3>1, <4>1
      <4>. QED
        BY <4>2 DEF ToolResult
    <3>3. CASE ~(c <= m)
      <4>1. ~(c + 1 <= m + 1) /\ (c + 1) - (m + 1) = c - m /\ c - m \in 1..d /\ m + (c - m) = c
        BY <2>2, <2>3, <3>1, <3>3
      <4>2. g[c + 1] = M[c - m]
        BY <2>7, <3>1, <4>1
      <4>3. M[c - m] = Synthetic(s[j].id, c)
        <5>1. PICK h : h = c - m
          OBVIOUS
        <5>2. h \in 1..d /\ m + h = c
          BY <4>1, <5>1
        <5>3. M[h] = Synthetic(s[j].id, m + h)
          BY <2>6, <5>2
        <5>. QED
          BY <5>1, <5>2, <5>3
      <4>. QED
        BY <2>1, <3>1, <4>2, <4>3, SyntheticIs
    <3>. QED
      BY <3>2, <3>3
  <2>11. GroupOf(g) /\ g # <<>>
    <3>1. g # <<>>
      BY <2>3, <2>7, <2>8, EmptySeq
    <3>. QED
      BY <2>2, <2>3, <2>8, <2>9, <2>10, <3>1 DEF GroupOf
  <2>. QED
    BY <2>5, <2>6, <2>7, <2>11, GroupPaired DEF g, M
<1>. QED
  BY <1>1, <1>2 DEF Waits

\* The part of what is sent that stands for position i.
Part(s, i) ==
    IF i > Len(s) THEN Missing(s, i)
    ELSE (IF Closes(s[i]) THEN Missing(s, i) ELSE <<>>)
         \o (IF IsFailed(s[i]) THEN <<>> ELSE <<s[i]>>)

\* p stands for s up to i: it is whole up to what waits.
Whole(s, i, p) ==
    \E x, t \in Seq(Sendable) : p = x \o t /\ PairedAt(x) /\ Waits(s, i, t)

\* A result comes behind the ones that wait.
LEMMA ResultWaits ==
  ASSUME NEW s \in Seq(Messages), ResultsBelong(s), NEW i \in Nat, i < Len(s), s[i + 1].role = "result",
         NEW t \in Seq(Sendable), Waits(s, i, t)
  PROVE  Waits(s, i + 1, t \o <<s[i + 1]>>)
<1>. DEFINE m == s[i + 1]
<1>1. i + 1 \in DOMAIN s /\ m \in Messages /\ m.role = "result"
  BY LenProperties
<1>2. PICK c : c = m.call
  OBVIOUS
<1>3. c \in Nat /\ c >= 1
  <2>. HIDE DEF m
  <2>1. m.call \in 1..MaxCalls /\ m.call \in Nat
    BY <1>1, MessageKinds
  <2>. QED
    BY <1>2, <2>1
<1>4. PICK j : j = (i + 1) - c
  OBVIOUS
<1>5. /\ j >= 1 /\ s[j].role = "assistant" /\ ~s[j].failed /\ s[j].id = m.of /\ c <= s[j].calls
      /\ \A k \in 1..c : s[j + k] = ToolResult(m.of, k)
  <2>1. Belongs(s, i + 1)
    BY <1>1 DEF ResultsBelong
  <2>. QED
    BY <1>2, <1>4, <2>1 DEF Belongs
<1>6. j \in 1..i /\ j \in Nat /\ (i + 1) - j = c /\ j \in 1..(i + 1)
  BY <1>3, <1>4, <1>5
<1>7. OpenGroup(s, i + 1, j)
  BY <1>5, <1>6 DEF OpenGroup
<1>8. \A k \in (j + 1)..i : s[k].role = "result"
  <2>. SUFFICES ASSUME NEW k \in (j + 1)..i PROVE s[k].role = "result"
    OBVIOUS
  <2>1. k - j \in 1..c /\ j + (k - j) = k
    BY <1>6
  <2>2. PICK h : h = k - j
    OBVIOUS
  <2>3. s[j + h] = ToolResult(m.of, h) /\ j + h = k
    BY <1>5, <2>1, <2>2
  <2>. QED
    BY <2>3 DEF ToolResult
<1>9. ASSUME i = 0 \/ ClosedAt(s, i) PROVE FALSE
  <2>1. ClosedAt(s, i) /\ i >= 1
    BY <1>6, <1>9
  <2>2. CASE j = i
    BY <1>5, <2>1, <2>2 DEF ClosedAt, IsFailed
  <2>3. CASE j # i
    <3>1. i \in (j + 1)..i
      BY <1>6, <2>3
    <3>. QED
      BY <1>8, <2>1, <3>1 DEF ClosedAt, IsFailed
  <2>. QED
    BY <2>2, <2>3
<1>10. PICK l : OpenGroup(s, i, l) /\ t = [k \in 1..((i - l) + 1) |-> s[(l + k) - 1]]
  BY <1>9 DEF Waits
<1>11. l = j
  <2>1. l \in 1..i /\ s[l].role = "assistant" /\ l \in Nat
    BY <1>10 DEF OpenGroup
  <2>2. CASE j < l
    <3>1. l \in (j + 1)..i
      BY <1>6, <2>1, <2>2
    <3>. QED
      BY <1>8, <2>1, <3>1
  <2>3. CASE l < j
    <3>1. j - l \in 1..(i - l) /\ l + (j - l) = j
      BY <1>6, <2>1, <2>3
    <3>2. PICK h : h = j - l
      OBVIOUS
    <3>3. s[l + h] = ToolResult(s[l].id, h) /\ l + h = j
      BY <1>10, <3>1, <3>2 DEF OpenGroup
    <3>4. s[j].role = "result"
      BY <3>3 DEF ToolResult
    <3>. QED
      BY <1>5, <3>4
  <2>. QED
    BY <1>6, <2>1, <2>2, <2>3
<1>12. PICK n : n = (i - j) + 1
  OBVIOUS
<1>13. n \in Nat /\ n = c /\ ((i + 1) - j) + 1 = n + 1 /\ (j + (n + 1)) - 1 = i + 1
  BY <1>3, <1>4, <1>6, <1>12
<1>14. t \o <<m>> = [k \in 1..(n + 1) |-> s[(j + k) - 1]]
  <2>1. t = [k \in 1..n |-> s[(j + k) - 1]]
    BY <1>10, <1>11, <1>12
  <2>2. Len(t) = n /\ \A k \in 1..n : t[k] = s[(j + k) - 1]
    BY <1>13, <2>1
  <2>3. PICK g : g = [k \in 1..(n + 1) |-> s[(j + k) - 1]]
    OBVIOUS
  <2>4. g \in Seq(Sendable) /\ Len(g) = n + 1 /\ \A k \in 1..(n + 1) : g[k] = s[(j + k) - 1]
    <3>1. \A k \in 1..(n + 1) : (j + k) - 1 \in 1..Len(s)
      BY <1>3, <1>6, <1>13
    <3>2. \A k \in 1..(n + 1) : s[(j + k) - 1] \in Sendable
      BY <3>1, LenProperties DEF Sendable
    <3>. QED
      BY <1>13, <2>3, <3>2
  <2>. HIDE DEF m
  <2>5. <<m>> \in Seq(Sendable) /\ Len(<<m>>) = 1 /\ <<m>>[1] = m
    <3>1. m \in Sendable
      BY <1>1 DEF Sendable
    <3>. QED
      BY <3>1
  <2>6. /\ t \o <<m>> \in Seq(Sendable) /\ Len(t \o <<m>>) = n + 1
        /\ \A k \in 1..n + 1 : (t \o <<m>>)[k] = IF k <= n THEN t[k] ELSE <<m>>[k - n]
    BY <2>2, <2>5, ConcatProperties
  <2>7. \A k \in 1..n : (t \o <<m>>)[k] = g[k]
    <3>1. \A k \in 1..n : k \in 1..n + 1 /\ k <= n
      BY <1>13
    <3>. QED
      BY <2>2, <2>4, <2>6, <3>1
  <2>8. (t \o <<m>>)[n + 1] = g[n + 1]
    <3>1. n + 1 \in 1..n + 1 /\ ~(n + 1 <= n) /\ (n + 1) - n = 1
      BY <1>13
    <3>2. (t \o <<m>>)[n + 1] = m
      BY <2>5, <2>6, <3>1
    <3>3. g[n + 1] = s[i + 1]
      BY <1>13, <2>4, <3>1
    <3>. QED
      BY <3>2, <3>3 DEF m
  <2>9. \A k \in 1..n + 1 : k \in 1..n \/ k = n + 1
    BY <1>13
  <2>10. \A k \in 1..Len(t \o <<m>>) : (t \o <<m>>)[k] = g[k]
    BY <2>6, <2>7, <2>8, <2>9
  <2>11. t \o <<m>> = g
    BY <2>4, <2>6, <2>10, SeqEqual
  <2>. QED
    BY <2>3, <2>11
<1>. QED
  BY <1>7, <1>13, <1>14 DEF Waits

\* One position further.
LEMMA WholeStep ==
  ASSUME NEW s \in Seq(Messages), ResultsBelong(s), NEW i \in Nat, i < Len(s), NEW p, Whole(s, i, p)
  PROVE  Whole(s, i + 1, p \o Part(s, i + 1))
<1>. DEFINE m == s[i + 1]
            M == Missing(s, i + 1)
<1>1. PICK x, t \in Seq(Sendable) : p = x \o t /\ PairedAt(x) /\ Waits(s, i, t)
  BY DEF Whole
<1>2. m \in Messages /\ m \in Sendable /\ i + 1 \in Nat /\ i <= Len(s) /\ ~(i + 1 > Len(s))
  <2>1. Len(s) \in Nat /\ \A k \in 1..Len(s) : s[k] \in Messages
    BY LenProperties
  <2>2. i + 1 \in 1..Len(s) /\ i + 1 \in Nat /\ i <= Len(s) /\ ~(i + 1 > Len(s))
    BY <2>1
  <2>3. m \in Messages
    BY <2>1, <2>2
  <2>. QED
    BY <2>2, <2>3 DEF Sendable
<1>3. <<m>> \in Seq(Sendable) /\ <<>> \in Seq(Sendable)
  BY <1>2
<1>4. M \in Seq(Sendable) /\ t \o M \in Seq(Sendable) /\ PairedAt(t \o M)
  BY <1>1, <1>2, ClosingWhole
<1>5. Part(s, i + 1) = (IF Closes(m) THEN M ELSE <<>>) \o (IF IsFailed(m) THEN <<>> ELSE <<m>>)
  BY <1>2 DEF Part
<1>. HIDE DEF M
<1>6. CASE m.role = "result"
  <2>1. Part(s, i + 1) = <<>> \o <<m>>
    BY <1>5, <1>6 DEF Closes, IsFailed
  <2>2. Part(s, i + 1) = <<m>>
    BY <1>3, <2>1, ConcatEmptySeq
  <2>3. Waits(s, i + 1, t \o <<m>>)
    BY <1>1, <1>6, ResultWaits
  <2>. HIDE DEF m
  <2>4. t \o <<m>> \in Seq(Sendable)
    BY <1>1, <1>3, ConcatProperties
  <2>5. p \o <<m>> = x \o (t \o <<m>>)
    BY <1>1, <1>3, ConcatAssociative
  <2>. QED
    BY <1>1, <2>2, <2>3, <2>4, <2>5 DEF Whole
<1>7. CASE m.role # "result"
  <2>. DEFINE y == x \o (t \o M)
  <2>1. m.role \in {"user", "assistant"} /\ Closes(m)
    BY <1>2, <1>7, WireKinds DEF Closes
  <2>2. y \in Seq(Sendable) /\ PairedAt(y)
    BY <1>1, <1>4, PairedConcat
  <2>3. p \o M = y
    BY <1>1, <1>4, ConcatAssociative
  <2>4. p \in Seq(Sendable)
    BY <1>1, ConcatProperties
  <2>. HIDE DEF y
  <2>5. CASE IsFailed(m)
    <3>1. Part(s, i + 1) = M \o <<>>
      BY <1>5, <2>1, <2>5
    <3>2. Part(s, i + 1) = M
      BY <1>4, <3>1, ConcatEmptySeq
    <3>3. y = y \o <<>>
      BY <2>2, ConcatEmptySeq
    <3>4. ClosedAt(s, i + 1)
      BY <2>5 DEF ClosedAt
    <3>. QED
      BY <1>3, <2>2, <2>3, <3>2, <3>3, <3>4 DEF Whole, Waits
  <2>6. CASE ~IsFailed(m)
    <3>1. Part(s, i + 1) = M \o <<m>>
      BY <1>5, <2>1, <2>6
    <3>2. p \o Part(s, i + 1) = y \o <<m>>
      <4>. HIDE DEF m
      <4>1. p \o (M \o <<m>>) = (p \o M) \o <<m>>
        BY <1>3, <1>4, <2>4, ConcatAssociative
      <4>. QED
        BY <2>3, <3>1, <4>1
    <3>3. CASE m.role = "user"
      <4>1. PairedAt(<<m>>)
        BY <1>2, <3>3, OnePaired
      <4>2. y \o <<m>> \in Seq(Sendable) /\ PairedAt(y \o <<m>>)
        BY <1>3, <2>2, <4>1, PairedConcat
      <4>3. y \o <<m>> = (y \o <<m>>) \o <<>>
        BY <4>2, ConcatEmptySeq
      <4>4. ClosedAt(s, i + 1)
        BY <3>3 DEF ClosedAt
      <4>. HIDE DEF m
      <4>5. Waits(s, i + 1, <<>>)
        BY <4>4 DEF Waits
      <4>. QED
        BY <1>3, <3>2, <4>2, <4>3, <4>5 DEF Whole
    <3>4. CASE m.role = "assistant"
      <4>1. ~m.failed /\ m.calls \in Nat
        BY <1>2, <2>6, <3>4, MessageKinds DEF IsFailed
      <4>2. OpenGroup(s, i + 1, i + 1)
        <5>1. (i + 1) - (i + 1) = 0 /\ i + 1 \in 1..(i + 1)
          OBVIOUS
        <5>. QED
          BY <3>4, <4>1, <5>1 DEF OpenGroup
      <4>3. <<m>> = [k \in 1..(((i + 1) - (i + 1)) + 1) |-> s[((i + 1) + k) - 1]]
        <5>1. ((i + 1) - (i + 1)) + 1 = 1 /\ \A k \in 1..1 : k = 1
          OBVIOUS
        <5>2. ((i + 1) + 1) - 1 = i + 1
          OBVIOUS
        <5>. QED
          BY <5>1, <5>2
      <4>4. Waits(s, i + 1, <<m>>)
        BY <4>2, <4>3 DEF Waits
      <4>. HIDE DEF m
      <4>. QED
        BY <1>3, <2>2, <3>2, <4>4 DEF Whole
    <3>. QED
      BY <2>1, <3>3, <3>4
  <2>. QED
    BY <2>5, <2>6
<1>. QED
  BY <1>6, <1>7

LEMMA WholeFirst == \A s : Whole(s, 0, <<>>)
<1>1. <<>> \in Seq(Sendable) /\ <<>> = <<>> \o <<>>
  OBVIOUS
<1>. QED
  BY <1>1, NothingPaired DEF Whole, Waits

\* Whatever a branch is on which results follow their calls, what is sent of it is paired.
LEMMA SentPaired ==
  ASSUME NEW s \in Seq(Messages), ResultsBelong(s)
  PROVE  Paired(Sent(s))
<1>1. PICK n : n = Len(s) + 1
  OBVIOUS
<1>2. Len(s) \in Nat /\ n \in Nat \ {0}
  BY <1>1, LenProperties
<1>. DEFINE seqs == [i \in 1..n |-> Part(s, i)]
<1>3. Sent(s) = FlattenSeq(seqs)
  BY <1>1 DEF Sent, Part
<1>4. Len(seqs) = n /\ \A i \in 1..n : seqs[i] = Part(s, i)
  BY <1>2
<1>. HIDE DEF seqs
<1>5. PICK P : /\ FlattenSeq(seqs) = P[n] /\ P[1] = seqs[1]
               /\ \A i \in 1..n - 1 : P[i + 1] = P[i] \o seqs[i + 1]
  BY <1>2, <1>4, FlattenIs, Zenon
<1>. DEFINE Before(i) == IF i = 0 THEN <<>> ELSE P[i]
            T == {i \in Nat : i <= Len(s) => Whole(s, i, Before(i))}
<1>6. 0 \in T
  BY WholeFirst
<1>7. \A i \in 1..n - 1 : P[i + 1] = P[i] \o Part(s, i + 1)
  <2>1. \A i \in 1..n - 1 : i + 1 \in 1..n
    BY <1>2
  <2>. QED
    BY <1>4, <1>5, <2>1
<1>8. Whole(s, 0, <<>>) /\ P[1] = Part(s, 1)
  <2>1. 1 \in 1..n
    BY <1>2
  <2>. QED
    BY <1>4, <1>5, <2>1, WholeFirst
<1>9. ASSUME NEW i \in Nat, i \in T PROVE i + 1 \in T
  <2>. SUFFICES ASSUME i + 1 <= Len(s) PROVE Whole(s, i + 1, P[i + 1])
    OBVIOUS
  <2>1. i < Len(s) /\ Whole(s, i, Before(i))
    BY <1>2, <1>9
  <2>2. Whole(s, i + 1, Before(i) \o Part(s, i + 1))
    BY <2>1, WholeStep
  <2>3. CASE i = 0
    <3>1. 0 + 1 = 1
      OBVIOUS
    <3>2. Whole(s, 1, <<>> \o Part(s, 1))
      BY <2>2, <2>3, <3>1
    <3>3. <<>> \o Part(s, 1) = Part(s, 1)
      <4>1. s[1] \in Messages /\ 1 \in Nat /\ ~(1 > Len(s)) /\ 0 <= Len(s) /\ 0 + 1 = 1
        BY <1>2, <2>3, LenProperties
      <4>2. Missing(s, 1) = <<>>
        BY <4>1, NothingMissing
      <4>3. Part(s, 1) = <<>> \o (IF IsFailed(s[1]) THEN <<>> ELSE <<s[1]>>)
        BY <4>1, <4>2 DEF Part
      <4>4. (IF IsFailed(s[1]) THEN <<>> ELSE <<s[1]>>) \in Seq(Messages)
        BY <4>1
      <4>. QED
        BY <4>3, <4>4, ConcatEmptySeq
    <3>. QED
      BY <1>8, <2>3, <3>1, <3>2, <3>3
  <2>4. CASE i # 0
    <3>1. i \in 1..n - 1
      BY <1>1, <1>2, <2>1, <2>4
    <3>2. P[i + 1] = Before(i) \o Part(s, i + 1)
      BY <1>7, <2>4, <3>1
    <3>. QED
      BY <2>2, <3>2
  <2>. QED
    BY <2>3, <2>4
<1>10. Whole(s, Len(s), Before(Len(s)))
  <2>1. Nat \subseteq T
    <3>. HIDE DEF T
    <3>. QED
      BY <1>6, <1>9, UpFromZero
  <2>. QED
    BY <1>2, <2>1
<1>11. PICK x, t \in Seq(Sendable) : Before(Len(s)) = x \o t /\ PairedAt(x) /\ Waits(s, Len(s), t)
  BY <1>10 DEF Whole
<1>. DEFINE M == Missing(s, Len(s) + 1)
<1>12. M \in Seq(Sendable) /\ t \o M \in Seq(Sendable) /\ PairedAt(t \o M)
  BY <1>2, <1>11, ClosingWhole
<1>13. Part(s, n) = M
  BY <1>1, <1>2 DEF Part
<1>. HIDE DEF M
<1>14. (x \o t) \o M = x \o (t \o M)
  BY <1>11, <1>12, ConcatAssociative
<1>15. PairedAt(x \o (t \o M))
  BY <1>11, <1>12, PairedConcat
<1>16. P[n] = (x \o t) \o M
  <2>1. CASE Len(s) = 0
    <3>1. n = 1 /\ x \o t = <<>>
      BY <1>1, <1>11, <2>1
    <3>2. <<>> \o M = M
      BY <1>12, ConcatEmptySeq
    <3>. QED
      BY <1>8, <1>13, <3>1, <3>2
  <2>2. CASE Len(s) # 0
    <3>1. n - 1 = Len(s) /\ Len(s) \in 1..n - 1 /\ Len(s) + 1 = n
      BY <1>1, <1>2, <2>2
    <3>2. P[n] = P[Len(s)] \o Part(s, n)
      BY <1>7, <3>1
    <3>. QED
      BY <1>11, <1>13, <2>2, <3>2
  <2>. QED
    BY <2>1, <2>2
<1>17. PairedAt(Sent(s))
  BY <1>3, <1>5, <1>14, <1>15, <1>16
<1>. QED
  BY <1>17, PairedIs

\* No request has a call without a result or a result without its call, whatever was
\* cancelled, failed, retried or lost half-way through a batch before it
\* (ai/transform.go:TransformMessages; agentloop/loop.go:executeToolCalls).
THEOREM RequestsPaired == Spec => []RequestPaired
<1>1. LoopInv /\ GroupInv => RequestPaired
  <2>. SUFFICES ASSUME LoopInv, GroupInv, pc = "streaming" PROVE Paired(Sent(context))
    BY DEF RequestPaired
  <2>1. context = stored /\ stored \in Seq(Messages) /\ ResultsBelong(stored)
    BY DEF LoopInv, LoopTypes, TalkTypes, ContextOK, GroupInv
  <2>. QED
    BY <2>1, SentPaired
<1>. QED
  BY <1>1, LoopInvariant, GroupInvariant, PTL

-----------------------------------------------------------------------
(* The events of some types                                                     *)

\* One sequence more behind those that are flattened.
LEMMA FlattenMore ==
  ASSUME NEW q, NEW r, NEW n \in Nat, Len(q) = n, Len(r) = n + 1, \A i \in 1..n : r[i] = q[i],
         q = <<>> \/ n # 0, NEW S, r[n + 1] \in Seq(S)
  PROVE  FlattenSeq(r) = FlattenSeq(q) \o r[n + 1]
<1>1. n + 1 \in Nat \ {0} /\ 1 \in 1..n + 1
  OBVIOUS
<1>2. PICK R : /\ FlattenSeq(r) = R[n + 1] /\ R[1] = r[1]
               /\ \A i \in 1..(n + 1) - 1 : R[i + 1] = R[i] \o r[i + 1]
  BY <1>1, FlattenIs, Zenon
<1>3. (n + 1) - 1 = n
  OBVIOUS
<1>4. CASE n = 0
  <2>1. FlattenSeq(q) = <<>>
    BY <1>4 DEF FlattenSeq
  <2>2. FlattenSeq(r) = r[n + 1]
    BY <1>2, <1>4
  <2>. QED
    BY <2>1, <2>2, ConcatEmptySeq
<1>5. CASE n # 0
  <2>1. n \in Nat \ {0}
    BY <1>5
  <2>2. PICK Q : /\ FlattenSeq(q) = Q[n] /\ Q[1] = q[1]
                 /\ \A i \in 1..n - 1 : Q[i + 1] = Q[i] \o q[i + 1]
    BY <2>1, FlattenIs, Zenon
  <2>. DEFINE T == {i \in Nat : i + 1 <= n => R[i + 1] = Q[i + 1]}
  <2>3. 0 \in T
    <3>1. 1 \in 1..n /\ 0 + 1 = 1
      BY <2>1
    <3>. QED
      BY <1>2, <2>2, <3>1
  <2>4. ASSUME NEW i \in Nat, i \in T PROVE i + 1 \in T
    <3>. SUFFICES ASSUME (i + 1) + 1 <= n PROVE R[(i + 1) + 1] = Q[(i + 1) + 1]
      OBVIOUS
    <3>1. PICK c : c = i + 1
      OBVIOUS
    <3>2. c \in 1..n - 1 /\ c \in 1..n /\ c + 1 \in 1..n /\ c <= n
      BY <3>1
    <3>3. R[c] = Q[c]
      BY <2>4, <3>1, <3>2
    <3>4. R[c + 1] = R[c] \o r[c + 1]
      BY <1>2, <1>3, <3>2
    <3>5. Q[c + 1] = Q[c] \o q[c + 1]
      BY <2>2, <3>2
    <3>6. r[c + 1] = q[c + 1]
      BY <3>2
    <3>. QED
      BY <3>1, <3>3, <3>4, <3>5, <3>6
  <2>5. R[n] = Q[n]
    <3>1. Nat \subseteq T
      <4>. HIDE DEF T
      <4>. QED
        BY <2>3, <2>4, UpFromZero
    <3>2. n - 1 \in Nat /\ (n - 1) + 1 = n
      BY <2>1
    <3>3. n - 1 \in T
      BY <3>1, <3>2
    <3>. QED
      BY <3>2, <3>3
  <2>6. n \in 1..(n + 1) - 1
    BY <2>1
  <2>7. R[n + 1] = R[n] \o r[n + 1]
    BY <1>2, <2>6
  <2>. QED
    BY <1>2, <2>2, <2>5, <2>7
<1>. QED
  BY <1>4, <1>5

Picked(types, e) == IF e.type \in types THEN <<e>> ELSE <<>>

LEMMA OnlyEmpty == \A types : Only(types, <<>>) = <<>>
<1>. TAKE types
<1>1. DOMAIN <<>> = {} /\ [i \in {} |-> Picked(types, <<>>[i])] = <<>>
  OBVIOUS
<1>2. Only(types, <<>>) = FlattenSeq([i \in DOMAIN <<>> |-> Picked(types, <<>>[i])])
  BY DEF Only, Picked
<1>3. FlattenSeq(<<>>) = <<>>
  BY DEF FlattenSeq
<1>. QED
  BY <1>1, <1>2, <1>3

LEMMA OnlyAppend ==
  ASSUME NEW s \in Seq(LoopEvents), NEW e \in LoopEvents, NEW types
  PROVE  Only(types, Append(s, e)) = Only(types, s) \o Picked(types, e)
<1>. DEFINE t == Append(s, e)
            q == [i \in DOMAIN s |-> Picked(types, s[i])]
            r == [i \in DOMAIN t |-> Picked(types, t[i])]
<1>1. PICK n : n = Len(s)
  OBVIOUS
<1>2. /\ n \in Nat /\ DOMAIN s = 1..n /\ DOMAIN t = 1..n + 1 /\ t \in Seq(LoopEvents)
      /\ (\A i \in 1..n : t[i] = s[i]) /\ t[n + 1] = e
  BY <1>1, AppendProperties, LenProperties
<1>3. Only(types, s) = FlattenSeq(q) /\ Only(types, t) = FlattenSeq(r)
  BY DEF Only, Picked
<1>. HIDE DEF t
<1>4. Len(q) = n /\ Len(r) = n + 1 /\ (n = 0 => q = <<>>)
  <2>1. q = [i \in 1..n |-> Picked(types, s[i])] /\ r = [i \in 1..n + 1 |-> Picked(types, t[i])]
    BY <1>2
  <2>2. n = 0 => 1..n = {}
    OBVIOUS
  <2>. HIDE DEF Picked
  <2>. QED
    BY <1>2, <2>1, <2>2
<1>5. \A i \in 1..n : r[i] = q[i]
  <2>1. \A i \in 1..n : i \in 1..n + 1
    BY <1>2
  <2>. QED
    BY <1>2, <2>1
<1>6. r[n + 1] = Picked(types, e)
  <2>1. n + 1 \in 1..n + 1
    BY <1>2
  <2>. QED
    BY <1>2, <2>1
<1>7. Picked(types, e) \in Seq(LoopEvents)
  BY DEF Picked
<1>. HIDE DEF q, r
<1>8. FlattenSeq(r) = FlattenSeq(q) \o r[n + 1]
  <2>1. q = <<>> \/ n # 0
    BY <1>4
  <2>2. r[n + 1] \in Seq(LoopEvents)
    BY <1>6, <1>7
  <2>. QED
    BY <1>2, <1>4, <1>5, <2>1, <2>2, FlattenMore, Zenon
<1>. QED
  BY <1>3, <1>6, <1>8 DEF t

\* The beginning of a sequence, one element longer.
LEMMA CutMore ==
  ASSUME NEW S, NEW u \in Seq(S), NEW k \in Nat, k + 1 <= Len(u)
  PROVE  /\ SubSeq(u, 1, k) \in Seq(S) /\ u[k + 1] \in S
         /\ SubSeq(u, 1, k + 1) = Append(SubSeq(u, 1, k), u[k + 1])
<1>1. /\ k + 1 \in 1..Len(u) /\ (k + 1) - 1 = k /\ 1 \in 1..Len(u) + 1 /\ k \in 0..Len(u)
      /\ 1 \in 1..Len(u) /\ Len(u) \in Nat
  BY LenProperties
<1>2. SubSeq(u, 1, k) \in Seq(S) /\ u[k + 1] \in S
  BY <1>1, SubSeqProperties, LenProperties
<1>3. SubSeq(u, 1, k + 1) = SubSeq(u, 1, (k + 1) - 1) \o <<u[k + 1]>>
  BY <1>1, SubSeqRecursiveSecond
<1>. QED
  BY <1>1, <1>2, <1>3, AppendIsConcat

LEMMA OnlyType == \A types : \A u \in Seq(LoopEvents) : Only(types, u) \in Seq(LoopEvents)
<1>. TAKE types
<1>. TAKE u \in Seq(LoopEvents)
<1>. DEFINE V == {k \in Nat : k <= Len(u) => Only(types, SubSeq(u, 1, k)) \in Seq(LoopEvents)}
<1>1. 0 \in V
  <2>1. SubSeq(u, 1, 0) = <<>> /\ <<>> \in Seq(LoopEvents)
    BY SubSeqEmpty
  <2>. QED
    BY <2>1, OnlyEmpty
<1>2. ASSUME NEW k \in Nat, k \in V PROVE k + 1 \in V
  <2>. SUFFICES ASSUME k + 1 <= Len(u)
                PROVE  Only(types, SubSeq(u, 1, k + 1)) \in Seq(LoopEvents)
    OBVIOUS
  <2>1. k <= Len(u)
    BY LenProperties
  <2>2. Only(types, SubSeq(u, 1, k)) \in Seq(LoopEvents)
    BY <1>2, <2>1
  <2>3. PICK c, e : c = SubSeq(u, 1, k) /\ e = u[k + 1]
    OBVIOUS
  <2>4. c \in Seq(LoopEvents) /\ e \in LoopEvents /\ SubSeq(u, 1, k + 1) = Append(c, e)
    BY <2>3, CutMore
  <2>5. Only(types, Append(c, e)) = Only(types, c) \o Picked(types, e)
    BY <2>4, OnlyAppend
  <2>6. PICK d, q \in Seq(LoopEvents) : d = Only(types, c) /\ q = Picked(types, e)
    <3>1. Picked(types, e) \in Seq(LoopEvents)
      BY <2>4 DEF Picked
    <3>. QED
      BY <2>2, <2>3, <3>1
  <2>7. d \o q \in Seq(LoopEvents)
    BY <2>6, ConcatProperties
  <2>. HIDE DEF V
  <2>. QED
    BY <2>3, <2>4, <2>5, <2>6, <2>7
<1>3. Nat \subseteq V
  <2>. HIDE DEF V
  <2>. QED
    BY <1>1, <1>2, UpFromZero
<1>4. PICK n : n = Len(u)
  OBVIOUS
<1>5. n \in Nat /\ n <= n /\ SubSeq(u, 1, n) = u
  BY <1>4, LenProperties, SubSeqFull
<1>6. n \in V
  BY <1>3, <1>5
<1>7. n <= Len(u) => Only(types, SubSeq(u, 1, n)) \in Seq(LoopEvents)
  BY <1>6
<1>. QED
  BY <1>4, <1>5, <1>7

\* Where sequences of events are joined does not matter.
LEMMA JoinEvents ==
  ASSUME NEW c \in Seq(LoopEvents), NEW d \in Seq(LoopEvents), NEW e \in Seq(LoopEvents)
  PROVE  (c \o d) \o e = c \o (d \o e)
  BY ConcatAssociative

LEMMA AppendLater ==
  ASSUME NEW c \in Seq(LoopEvents), NEW d \in Seq(LoopEvents), NEW e \in LoopEvents
  PROVE  c \o Append(d, e) = Append(c \o d, e)
<1>1. PICK w \in Seq(LoopEvents) : w = <<e>>
  <2>1. <<e>> \in Seq(LoopEvents)
    OBVIOUS
  <2>. QED
    BY <2>1
<1>2. (c \o d) \o w = c \o (d \o w)
  BY JoinEvents
<1>3. c \o d \in Seq(LoopEvents)
  BY ConcatProperties
<1>. QED
  BY <1>1, <1>2, <1>3, AppendIsConcat

LEMMA OnlyConcat ==
  ASSUME NEW s \in Seq(LoopEvents), NEW u \in Seq(LoopEvents), NEW types
  PROVE  Only(types, s \o u) = Only(types, s) \o Only(types, u)
<1>. DEFINE Cut(k) == SubSeq(u, 1, k)
            V == {k \in Nat : k <= Len(u) => Only(types, s \o Cut(k)) = Only(types, s) \o Only(types, Cut(k))}
<1>1. Only(types, s) \in Seq(LoopEvents)
  BY OnlyType
<1>2. 0 \in V
  <2>1. Cut(0) = <<>> /\ s \o <<>> = s
    BY SubSeqEmpty, ConcatEmptySeq
  <2>2. Only(types, s) \o <<>> = Only(types, s)
    BY <1>1, ConcatEmptySeq
  <2>. HIDE DEF Cut
  <2>. QED
    BY <2>1, <2>2, OnlyEmpty
<1>3. ASSUME NEW k \in Nat, k \in V PROVE k + 1 \in V
  <2>. SUFFICES ASSUME k + 1 <= Len(u)
                PROVE  Only(types, s \o Cut(k + 1)) = Only(types, s) \o Only(types, Cut(k + 1))
    OBVIOUS
  <2>1. PICK c \in Seq(LoopEvents), e \in LoopEvents : c = Cut(k) /\ e = u[k + 1]
    BY CutMore
  <2>2. c \in Seq(LoopEvents) /\ e \in LoopEvents /\ Cut(k + 1) = Append(c, e)
    BY <2>1, CutMore
  <2>3. Only(types, s \o c) = Only(types, s) \o Only(types, c)
    <3>1. k <= Len(u)
      BY LenProperties
    <3>. QED
      BY <1>3, <2>1, <3>1
  <2>. HIDE DEF V, Cut
  <2>4. PICK d, p, q \in Seq(LoopEvents) :
               d = Only(types, s) /\ p = Only(types, c) /\ q = Picked(types, e)
    <3>1. Picked(types, e) \in Seq(LoopEvents)
      BY <2>2 DEF Picked
    <3>2. Only(types, c) \in Seq(LoopEvents)
      BY <2>2, OnlyType
    <3>. QED
      BY <1>1, <3>1, <3>2
  <2>6. Only(types, Append(c, e)) = p \o q
    BY <2>2, <2>4, OnlyAppend
  <2>7. s \o c \in Seq(LoopEvents)
    BY <2>2, ConcatProperties
  <2>8. s \o Append(c, e) = Append(s \o c, e)
    BY AppendLater
  <2>9. Only(types, Append(s \o c, e)) = (d \o p) \o q
    BY <2>2, <2>3, <2>4, <2>7, OnlyAppend
  <2>10. (d \o p) \o q = d \o (p \o q)
    BY JoinEvents
  <2>. QED
    BY <2>2, <2>4, <2>6, <2>8, <2>9, <2>10
<1>4. Nat \subseteq V
  <2>. HIDE DEF V
  <2>. QED
    BY <1>2, <1>3, UpFromZero
<1>5. PICK n : n = Len(u)
  OBVIOUS
<1>6. n \in Nat /\ n <= n /\ Cut(n) = u
  BY <1>5, LenProperties, SubSeqFull
<1>7. n \in V
  BY <1>4, <1>6
<1>8. n <= Len(u) => Only(types, s \o Cut(n)) = Only(types, s) \o Only(types, Cut(n))
  BY <1>7
<1>. HIDE DEF Cut
<1>. QED
  BY <1>5, <1>6, <1>8

LEMMA TwoEvents ==
  ASSUME NEW d \in LoopEvents, NEW e \in LoopEvents
  PROVE  <<d>> \in Seq(LoopEvents) /\ <<d, e>> \in Seq(LoopEvents) /\ <<d>> \o <<e>> = <<d, e>>
<1>1. <<d>> \in Seq(LoopEvents) /\ <<d, e>> \in Seq(LoopEvents) /\ <<d, e>> = Append(<<d>>, e)
  OBVIOUS
<1>. QED
  BY <1>1, AppendIsConcat

\* What is published of one or two more events.
LEMMA OnlyFew ==
  ASSUME NEW types, NEW d \in LoopEvents, NEW e \in LoopEvents
  PROVE  /\ Only(types, <<d>>) = Picked(types, d)
         /\ d.type \notin types => Only(types, <<d, e>>) = Picked(types, e)
         /\ d.type \in types => Only(types, <<d, e>>) = <<d>> \o Picked(types, e)
<1>1. <<>> \in Seq(LoopEvents) /\ <<d>> \in Seq(LoopEvents) /\ <<d>> = Append(<<>>, d)
      /\ <<d, e>> = Append(<<d>>, e)
  OBVIOUS
<1>2. Picked(types, d) \in Seq(LoopEvents) /\ Picked(types, e) \in Seq(LoopEvents)
  BY DEF Picked
<1>3. Only(types, <<d>>) = Picked(types, d)
  <2>1. Only(types, Append(<<>>, d)) = Only(types, <<>>) \o Picked(types, d)
    BY <1>1, OnlyAppend
  <2>. QED
    BY <1>1, <1>2, <2>1, OnlyEmpty, ConcatEmptySeq
<1>4. Only(types, <<d, e>>) = Picked(types, d) \o Picked(types, e)
  BY <1>1, <1>3, OnlyAppend
<1>5. <<>> \o Picked(types, e) = Picked(types, e)
  BY <1>2, ConcatEmptySeq
<1>. QED
  BY <1>3, <1>4, <1>5 DEF Picked

Talk == {"message"}
Frames == {"agent_start", "agent_end", "turn_start", "turn_end"}

LEMMA LoopEventsAre ==
  /\ \A type \in Frames : Event(type) \in LoopEvents /\ Event(type).type = type
  /\ \A m \in Messages : MessageEvent(m) \in LoopEvents /\ MessageEvent(m).type = "message"
                           /\ MessageEvent(m).message = m
  /\ \A type \in {"tool_start", "tool_end"}, c \in 1..MaxCalls :
       ToolEvent(type, c) \in LoopEvents /\ ToolEvent(type, c).type = type
  BY DEF LoopEvents, Frames, Event, MessageEvent, ToolEvent

\* What the subscribers get with one more publication.
LEMMA PublishMore ==
  ASSUME LoopTypes, NEW u \in Seq(LoopEvents), Publish(u)
  PROVE  /\ Published' = Published \o Only(Talk, u)
         /\ Marks' = Marks \o Only(Frames, u)
         /\ Published \in Seq(LoopEvents) /\ Marks \in Seq(LoopEvents)
<1>1. events \in Seq(LoopEvents) /\ events' = events \o u
  BY DEF LoopTypes, TalkTypes, Publish
<1>2. /\ Only(Talk, events \o u) = Only(Talk, events) \o Only(Talk, u)
      /\ Only(Frames, events \o u) = Only(Frames, events) \o Only(Frames, u)
  BY <1>1, OnlyConcat
<1>3. Only(Talk, events) \in Seq(LoopEvents) /\ Only(Frames, events) \in Seq(LoopEvents)
  BY <1>1, OnlyType
<1>4. Published = Only(Talk, events) /\ Marks = Only(Frames, events)
      /\ Published' = Only(Talk, events') /\ Marks' = Only(Frames, events')
  BY DEF Published, Marks, Talk, Frames
<1>. QED
  BY <1>1, <1>2, <1>3, <1>4

\* ... of the frame of a run alone, and of a message before or without it.
LEMMA FramesSaid ==
  ASSUME NEW d \in Frames, NEW e \in Frames
  PROVE  /\ <<Event(d)>> \in Seq(LoopEvents) /\ <<Event(d), Event(e)>> \in Seq(LoopEvents)
         /\ Only(Talk, <<Event(d)>>) = <<>> /\ Only(Talk, <<Event(d), Event(e)>>) = <<>>
         /\ Only(Frames, <<Event(d)>>) = <<Event(d)>>
         /\ Only(Frames, <<Event(d), Event(e)>>) = <<Event(d), Event(e)>>
<1>1. PICK x, y \in LoopEvents : x = Event(d) /\ y = Event(e)
  BY LoopEventsAre
<1>2. x.type \in Frames /\ x.type \notin Talk /\ y.type \in Frames /\ y.type \notin Talk
  <2>1. x.type = d /\ y.type = e
    BY <1>1, LoopEventsAre
  <2>. QED
    BY <2>1 DEF Frames, Talk
<1>3. <<x>> \in Seq(LoopEvents) /\ <<x, y>> \in Seq(LoopEvents) /\ <<x>> \o <<y>> = <<x, y>>
  BY TwoEvents
<1>4. /\ Picked(Talk, x) = <<>> /\ Picked(Talk, y) = <<>>
      /\ Picked(Frames, x) = <<x>> /\ Picked(Frames, y) = <<y>>
  BY <1>2 DEF Picked
<1>5. /\ Only(Talk, <<x>>) = Picked(Talk, x) /\ Only(Frames, <<x>>) = Picked(Frames, x)
      /\ Only(Talk, <<x, y>>) = Picked(Talk, y) /\ Only(Frames, <<x, y>>) = <<x>> \o Picked(Frames, y)
  BY <1>2, OnlyFew
<1>. QED
  BY <1>1, <1>3, <1>4, <1>5

LEMMA MessageSaid ==
  ASSUME NEW m \in Messages, NEW after \in Seq(LoopEvents)
  PROVE  /\ <<MessageEvent(m)>> \in Seq(LoopEvents) /\ <<MessageEvent(m)>> \o after \in Seq(LoopEvents)
         /\ Only(Talk, <<MessageEvent(m)>>) = <<MessageEvent(m)>>
         /\ Only(Frames, <<MessageEvent(m)>>) = <<>>
         /\ Only(Talk, <<MessageEvent(m)>> \o after) = <<MessageEvent(m)>> \o Only(Talk, after)
         /\ Only(Frames, <<MessageEvent(m)>> \o after) = Only(Frames, after)
<1>1. PICK x \in LoopEvents : x = MessageEvent(m)
  BY LoopEventsAre
<1>2. x.type \in Talk /\ x.type \notin Frames
  BY <1>1, LoopEventsAre DEF Talk, Frames
<1>3. <<x>> \in Seq(LoopEvents)
  OBVIOUS
<1>4. <<x>> \o after \in Seq(LoopEvents)
  BY <1>3, ConcatProperties
<1>5. Only(Talk, <<x>>) = <<x>> /\ Only(Frames, <<x>>) = <<>>
  BY <1>2, OnlyFew DEF Picked
<1>6. /\ Only(Talk, <<x>> \o after) = Only(Talk, <<x>>) \o Only(Talk, after)
      /\ Only(Frames, <<x>> \o after) = Only(Frames, <<x>>) \o Only(Frames, after)
  BY <1>3, OnlyConcat
<1>7. <<>> \o Only(Frames, after) = Only(Frames, after)
  BY OnlyType, ConcatEmptySeq
<1>. QED
  BY <1>1, <1>3, <1>4, <1>5, <1>6, <1>7

LEMMA CallSaid ==
  ASSUME NEW c \in 1..MaxCalls, NEW d \in {"tool_start", "tool_end"}, NEW e \in {"tool_start", "tool_end"}
  PROVE  /\ <<ToolEvent(d, c)>> \in Seq(LoopEvents) /\ <<ToolEvent(d, c), ToolEvent(e, c)>> \in Seq(LoopEvents)
         /\ \A types \in {Talk, Frames} : /\ Only(types, <<ToolEvent(d, c)>>) = <<>>
                                          /\ Only(types, <<ToolEvent(d, c), ToolEvent(e, c)>>) = <<>>
<1>1. PICK x, y \in LoopEvents : x = ToolEvent(d, c) /\ y = ToolEvent(e, c)
  BY LoopEventsAre
<1>2. \A types \in {Talk, Frames} : x.type \notin types /\ y.type \notin types
  <2>1. x.type = d /\ y.type = e
    BY <1>1, LoopEventsAre
  <2>. QED
    BY <2>1 DEF Frames, Talk
<1>3. <<x>> \in Seq(LoopEvents) /\ <<x, y>> \in Seq(LoopEvents)
  OBVIOUS
<1>4. ASSUME NEW types \in {Talk, Frames} PROVE Only(types, <<x>>) = <<>> /\ Only(types, <<x, y>>) = <<>>
  <2>1. Picked(types, x) = <<>> /\ Picked(types, y) = <<>>
    BY <1>2 DEF Picked
  <2>. QED
    BY <1>2, <2>1, OnlyFew
<1>. QED
  BY <1>1, <1>3, <1>4

-----------------------------------------------------------------------
(* What is stored has been published                                            *)

Told ==
    LET n == Len(stored) - base
    IN  /\ n <= Len(Published)
        /\ \A i \in 1..n : Published[i].message = stored[base + i]
        /\ ~cancelled => Len(Published) = n

\* ... shown as it is stated of the model.
LEMMA ToldShows == LoopTypes /\ Told => StoredIsPublished
<1>. SUFFICES ASSUME LoopTypes, Told PROVE StoredIsPublished
  OBVIOUS
<1>1. PICK n, added : n = Len(stored) - base /\ added = SubSeq(stored, base + 1, Len(stored))
  OBVIOUS
<1>2. base \in 0..Len(stored) /\ Len(stored) \in Nat /\ n \in Nat /\ stored \in Seq(Messages)
  BY <1>1, LenProperties DEF LoopTypes, TalkTypes
<1>3. Len(added) = n /\ DOMAIN added = 1..n /\ \A i \in 1..n : added[i] = stored[base + i]
  <2>1. base + 1 \in 1..Len(stored) + 1 /\ Len(stored) \in base..Len(stored)
    BY <1>2
  <2>2. /\ added \in Seq(Messages)
        /\ Len(added) = IF base + 1 <= Len(stored) THEN Len(stored) - (base + 1) + 1 ELSE 0
        /\ \A i \in 1..Len(stored) - (base + 1) + 1 : added[i] = stored[(base + 1) + i - 1]
    BY <1>1, <1>2, <2>1, SubSeqProperties
  <2>3. Len(stored) - (base + 1) + 1 = n /\ (base + 1 <= Len(stored) \/ n = 0)
    BY <1>1, <1>2
  <2>4. ASSUME NEW i \in 1..n PROVE (base + 1) + i - 1 = base + i
    BY <1>2
  <2>. QED
    BY <1>2, <2>2, <2>3, <2>4, LenProperties
<1>4. n <= Len(Published) /\ (\A i \in 1..n : Published[i].message = stored[base + i])
      /\ (~cancelled => Len(Published) = n)
  BY <1>1 DEF Told
<1>. QED
  BY <1>1, <1>3, <1>4 DEF StoredIsPublished

\* Nothing is said.
LEMMA QuietTold ==
  ASSUME Told, stored' = stored, base' = base, Published' = Published, cancelled => cancelled'
  PROVE  Told'
  BY DEF Told

\* A run begins.
LEMMA FreshTold ==
  ASSUME LoopTypes', base' = Len(stored'), Published' = <<>>
  PROVE  Told'
<1>1. Len(stored)' \in Nat /\ base' \in Nat /\ Len(<<>>) = 0
  BY LenProperties DEF LoopTypes, TalkTypes
<1>2. (Len(stored) - base)' = 0
  BY <1>1
<1>. QED
  BY <1>1, <1>2 DEF Told

\* A message is said.
LEMMA SayTold ==
  ASSUME LoopTypes, Told, NEW m \in Messages, NEW next, NEW onError, NEW after \in Seq(LoopEvents),
         Only(Talk, after) = <<>>, Say(m, next, onError, after), cancelled' = cancelled, base' = base
  PROVE  Told'
<1>1. PICK b, s, p, n : b = base /\ s = stored /\ p = Published /\ n = Len(s) - b
  OBVIOUS
<1>2. b \in 0..Len(s) /\ Len(s) \in Nat /\ n \in Nat /\ s \in Seq(Messages) /\ p \in Seq(LoopEvents) /\ Len(p) \in Nat
  <2>1. p \in Seq(LoopEvents)
    BY <1>1, OnlyType DEF LoopTypes, TalkTypes, Published
  <2>. QED
    BY <1>1, <2>1, LenProperties DEF LoopTypes, TalkTypes
<1>3. PICK x \in LoopEvents : x = MessageEvent(m)
  BY LoopEventsAre
<1>4. n <= Len(p) /\ (\A i \in 1..n : p[i].message = s[b + i]) /\ (~cancelled => Len(p) = n)
  BY <1>1 DEF Told
<1>5. Published' = Append(p, x)
  <2>1. PICK u \in Seq(LoopEvents) : Publish(u) /\ Only(Talk, u) = <<x>>
    <3>1. Publish(<<MessageEvent(m)>>) \/ Publish(<<MessageEvent(m)>> \o after)
      BY DEF Say
    <3>2. <<MessageEvent(m)>> \o <<>> = <<MessageEvent(m)>>
      BY MessageSaid, ConcatEmptySeq
    <3>3. CASE Publish(<<MessageEvent(m)>>)
      BY <1>3, <3>3, MessageSaid
    <3>4. CASE Publish(<<MessageEvent(m)>> \o after)
      <4>1. PICK u : u = <<MessageEvent(m)>> \o after
        OBVIOUS
      <4>2. u \in Seq(LoopEvents) /\ Only(Talk, u) = <<MessageEvent(m)>> \o Only(Talk, after)
        BY <4>1, MessageSaid
      <4>3. Only(Talk, u) = <<x>>
        BY <1>3, <3>2, <4>2
      <4>. QED
        BY <3>4, <4>1, <4>2, <4>3
    <3>. QED
      BY <3>1, <3>3, <3>4
  <2>2. Published' = Published \o <<x>>
    BY <2>1, PublishMore
  <2>. QED
    BY <1>1, <1>2, <2>2, AppendIsConcat
<1>6. /\ Len(Append(p, x)) = Len(p) + 1 /\ (\A i \in 1..Len(p) : Append(p, x)[i] = p[i])
      /\ Append(p, x)[Len(p) + 1] = x
  BY <1>2, AppendProperties
<1>7. \A i \in 1..n : i \in 1..Len(p)
  BY <1>2, <1>4
<1>8. CASE stored' = s /\ cancelled
  <2>1. (Len(stored) - base)' = n
    BY <1>1, <1>8
  <2>2. \A i \in 1..n : Append(p, x)[i].message = stored'[base' + i]
    BY <1>1, <1>4, <1>6, <1>7, <1>8
  <2>3. n <= Len(p) + 1
    BY <1>2, <1>4
  <2>. QED
    BY <1>5, <1>6, <1>8, <2>1, <2>2, <2>3 DEF Told
<1>9. CASE stored' = Append(s, m) /\ ~cancelled
  <2>1. /\ Len(Append(s, m)) = Len(s) + 1 /\ (\A i \in 1..Len(s) : Append(s, m)[i] = s[i])
        /\ Append(s, m)[Len(s) + 1] = m
    BY <1>2, AppendProperties
  <2>2. Len(p) = n /\ (Len(stored) - base)' = n + 1 /\ b + (n + 1) = Len(s) + 1
    <3>1. Len(p) = n
      BY <1>4, <1>9
    <3>2. Len(stored') = Len(s) + 1 /\ base' = b
      BY <1>1, <1>9, <2>1
    <3>3. (Len(stored) - base)' = n + 1 /\ b + (n + 1) = Len(s) + 1
      BY <1>1, <1>2, <3>2
    <3>. QED
      BY <3>1, <3>3
  <2>3. ASSUME NEW i \in 1..n + 1 PROVE Append(p, x)[i].message = Append(s, m)[b + i]
    <3>1. CASE i = n + 1
      BY <1>3, <1>6, <2>1, <2>2, <3>1, LoopEventsAre
    <3>2. CASE i # n + 1
      <4>1. i \in 1..n /\ b + i \in 1..Len(s)
        BY <1>1, <1>2, <3>2
      <4>. QED
        BY <1>4, <1>6, <1>7, <2>1, <4>1
    <3>. QED
      BY <3>1, <3>2
  <2>4. \A i \in 1..n + 1 : Append(p, x)[i].message = stored'[base' + i]
    BY <1>1, <1>9, <2>3
  <2>. QED
    BY <1>2, <1>5, <1>6, <2>2, <2>4 DEF Told
<1>. QED
  BY <1>1, <1>8, <1>9 DEF Say

LEMMA SameEvents ==
  ASSUME events' = events
  PROVE  Published' = Published /\ Marks' = Marks
  BY DEF Published, Marks

\* Nothing is said between the messages by these events.
LEMMA NothingSaid ==
  ASSUME LoopTypes, NEW u \in Seq(LoopEvents), Publish(u), Only(Talk, u) = <<>>
  PROVE  Published' = Published
  BY PublishMore, ConcatEmptySeq

LEMMA NoMarks ==
  ASSUME LoopTypes, NEW u \in Seq(LoopEvents), Publish(u), Only(Frames, u) = <<>>
  PROVE  Marks' = Marks
  BY PublishMore, ConcatEmptySeq

OnTools == StartBlocked \/ StartPrepared \/ Launch \/ Collect \/ \E c \in Started : ToolReturns(c)

\* The steps of a batch say nothing but where its calls stand.
LEMMA ToolsSayNothing ==
  ASSUME LoopInv, OnTools
  PROVE  /\ Published' = Published /\ Marks' = Marks /\ UNCHANGED notByTools
         /\ pc \in Working /\ pc' \in Working
<1>1. pc \in Working /\ pc' \in Working /\ UNCHANGED notByTools
  <2>1. CASE StartBlocked \/ StartPrepared \/ Launch \/ Collect
    BY <2>1 DEF StartBlocked, StartPrepared, Launch, Collect, MayStart, Working
  <2>2. ASSUME NEW c \in Started, ToolReturns(c) PROVE pc \in Working /\ pc' = pc /\ UNCHANGED notByTools
    <3>1. batch.status[c] = "running" /\ pc' = pc /\ UNCHANGED notByTools
      BY <2>2 DEF ToolReturns
    <3>2. pc \in Working
      BY <3>1, <2>2 DEF LoopInv, BatchOK, HasEnded
    <3>. QED
      BY <3>1, <3>2
  <2>. QED
    BY <2>1, <2>2 DEF OnTools
<1>2. /\ LoopTypes /\ Started = 1..Len(batch.status) /\ Len(batch.status) \in Nat
      /\ answer.calls \in 0..MaxCalls /\ MaxCalls \in Nat /\ \A c \in Started : c \in 1..MaxCalls
  BY <1>1, WorkingFacts DEF LoopInv
<1>3. ASSUME NEW c \in 1..MaxCalls,
             Publish(<<ToolEvent("tool_start", c)>>) \/ Publish(<<ToolEvent("tool_end", c)>>)
      PROVE  Published' = Published /\ Marks' = Marks
  <2>1. CASE Publish(<<ToolEvent("tool_start", c)>>)
    BY <1>2, <2>1, CallSaid, NothingSaid, NoMarks
  <2>2. CASE Publish(<<ToolEvent("tool_end", c)>>)
    BY <1>2, <2>2, CallSaid, NothingSaid, NoMarks
  <2>. QED
    BY <1>3, <2>1, <2>2
<1>4. ASSUME NEW c \in 1..MaxCalls, Publish(<<ToolEvent("tool_start", c), ToolEvent("tool_end", c)>>)
      PROVE  Published' = Published /\ Marks' = Marks
  BY <1>2, <1>4, CallSaid, NothingSaid, NoMarks
<1>5. CASE Launch
  <2>1. events' = events
    BY <1>5 DEF Launch
  <2>. QED
    BY <1>1, <2>1, SameEvents
<1>6. CASE StartBlocked \/ StartPrepared
  <2>1. PICK c : c = Len(batch.status) + 1
    OBVIOUS
  <2>2. MoreToStart
    BY <1>6 DEF StartBlocked, StartPrepared, MayStart
  <2>3. c \in 1..MaxCalls
    BY <1>2, <2>1, <2>2 DEF MoreToStart
  <2>4. \/ Publish(<<ToolEvent("tool_start", c), ToolEvent("tool_end", c)>>)
        \/ Publish(<<ToolEvent("tool_start", c)>>)
    BY <1>6, <2>1 DEF StartBlocked, StartPrepared
  <2>. QED
    BY <1>1, <1>3, <1>4, <2>3, <2>4
<1>7. CASE Collect
  <2>1. PICK c : c = Head(batch.completed)
    OBVIOUS
  <2>2. batch.completed # <<>> /\ Publish(<<ToolEvent("tool_end", c)>>)
    BY <1>7, <2>1 DEF Collect
  <2>3. c \in Started
    <3>1. batch.completed \in Seq(Nat)
      BY DEF LoopInv, LoopTypes, BatchTypes, Batches
    <3>2. 1 \in DOMAIN batch.completed /\ c = batch.completed[1]
      BY <2>1, <2>2, <3>1
    <3>. QED
      BY <3>2 DEF LoopInv, BatchOK
  <2>. QED
    BY <1>1, <1>2, <1>3, <2>2, <2>3
<1>8. ASSUME NEW c \in Started, ToolReturns(c) PROVE Published' = Published /\ Marks' = Marks
  <2>1. events' = events \/ Publish(<<ToolEvent("tool_end", c)>>)
    BY <1>8 DEF ToolReturns
  <2>. QED
    BY <1>2, <1>3, <2>1, SameEvents
<1>. QED
  BY <1>1, <1>5, <1>6, <1>7, <1>8 DEF OnTools

\* The steps that say a message.
Says == EmitPrompt \/ Inject \/ Answer \/ AnswerFailed \/ StoreResult \/ EmitRunFailure

LEMMA EndsSaid ==
  /\ RunStart \in Seq(LoopEvents) /\ Only(Talk, RunStart) = <<>> /\ Only(Frames, RunStart) = RunStart
  /\ RunEnd \in Seq(LoopEvents) /\ Only(Talk, RunEnd) = <<>> /\ Only(Frames, RunEnd) = RunEnd
  BY FramesSaid DEF RunStart, RunEnd, Frames

\* ... say one, and what is published behind it is no message.
LEMMA SaysOne ==
  ASSUME LoopInv, Says
  PROVE  /\ cancelled' = cancelled /\ base' = base
         /\ \E m \in Messages : \E next, onError : \E after \in {<<>>, RunEnd} : Say(m, next, onError, after)
<1>1. /\ turns < MaxTurns => turns + 1 \in 0..MaxTurns
      /\ TalkTypes /\ BatchTypes
  BY Bounds DEF LoopInv, LoopTypes, TalkTypes
<1>2. cancelled' = cancelled /\ base' = base
  BY DEF Says, EmitPrompt, Inject, Answer, AnswerFailed, StoreResult, EmitRunFailure, notBySay
<1>3. CASE EmitPrompt \/ Inject
  <2>1. pending # <<>>
    BY <1>1, <1>3 DEF TalkTypes, EmitPrompt, Inject
  <2>2. pending[1] \in Messages
    <3>1. pending[1] \in UserMessages
      BY <1>1, <2>1, LenProperties, EmptySeq DEF TalkTypes
    <3>. QED
      BY <3>1, KindsApart
  <2>3. \E next \in {"poll", "inject"} : Say(pending[1], next, "failing", <<>>)
    BY <1>3 DEF EmitPrompt, Inject
  <2>. QED
    BY <1>2, <2>2, <2>3
<1>4. CASE Answer
  <2>1. PICK n \in 0..MaxCalls : Say(Assistant(turns + 1, n, FALSE), IF n = 0 THEN "turn_end" ELSE "tools", "failing", <<>>)
    BY <1>4 DEF Answer
  <2>2. Assistant(turns + 1, n, FALSE) \in Messages
    BY <1>1, <1>4, KindsApart DEF Answer
  <2>. QED
    BY <1>2, <2>1, <2>2
<1>5. CASE AnswerFailed
  <2>1. PICK n \in 0..MaxCalls : Say(Assistant(turns + 1, n, TRUE), "idle", "failing", RunEnd)
    BY <1>5 DEF AnswerFailed
  <2>2. Assistant(turns + 1, n, TRUE) \in Messages
    BY <1>1, <1>5, KindsApart DEF AnswerFailed
  <2>. QED
    BY <1>2, <2>1, <2>2
<1>6. CASE EmitRunFailure
  BY <1>2, <1>6, KindsApart DEF EmitRunFailure
<1>7. CASE StoreResult
  <2>1. PICK n : n = batch.results + 1
    OBVIOUS
  <2>2. pc \in Working /\ ResultsDue /\ Say(ToolResult(answer.id, n), pc, "failing", <<>>)
    BY <1>7, <2>1 DEF StoreResult, NextResult, ResultsDue, Working
  <2>3. /\ Started = 1..Len(batch.status) /\ batch.results \in Nat /\ Len(batch.status) \in Nat
        /\ answer.id \in 1..MaxTurns /\ \A c \in Started : c \in 1..MaxCalls
    BY <2>2, WorkingFacts
  <2>4. n \in 1..MaxCalls
    BY <2>1, <2>2, <2>3 DEF ResultsDue
  <2>. QED
    BY <1>2, <2>2, <2>3, <2>4, KindsApart
<1>. QED
  BY <1>3, <1>4, <1>5, <1>6, <1>7 DEF Says

\* A poll says what it says of the frame alone, and stores nothing.
Polls == GetSteeringMessages \/ GetFollowUpMessages

LEMMA PollsSay ==
  ASSUME LoopInv, Polls
  PROVE  /\ Published' = Published /\ stored' = stored /\ base' = base /\ cancelled' = cancelled
         /\ faults' = faults /\ more' = more
<1>1. LoopTypes
  BY DEF LoopInv
<1>2. \/ events' = events \/ Publish(<<Event("turn_start")>>) \/ Publish(<<Event("agent_end")>>)
      \/ Publish(<<>>)
  BY DEF Polls, GetSteeringMessages, GetFollowUpMessages, PollRefused
<1>3. <<>> \in Seq(LoopEvents) /\ Only(Talk, <<>>) = <<>>
  BY OnlyEmpty
<1>4. Published' = Published
  <2>1. CASE events' = events
    BY <2>1, SameEvents
  <2>2. CASE Publish(<<Event("turn_start")>>)
    BY <1>1, <2>2, FramesSaid, NothingSaid DEF Frames
  <2>3. CASE Publish(<<Event("agent_end")>>)
    BY <1>1, <2>3, FramesSaid, NothingSaid DEF Frames
  <2>4. CASE Publish(<<>>)
    BY <1>1, <1>3, <2>4, NothingSaid
  <2>. QED
    BY <1>2, <2>1, <2>2, <2>3, <2>4
<1>. QED
  BY <1>4 DEF Polls, GetSteeringMessages, GetFollowUpMessages

LEMMA ToldStep == ASSUME LoopInv, LoopInv', Told, [Next]_vars PROVE Told'
<1>1. LoopTypes /\ LoopTypes'
  BY DEF LoopInv
<1>2. <<>> \in Seq(LoopEvents) /\ Only(Talk, <<>>) = <<>> /\ Only(Frames, <<>>) = <<>>
  BY OnlyEmpty
<1>3. CASE Says
  BY <1>1, <1>2, <1>3, SaysOne, SayTold, EndsSaid
<1>4. CASE OnTools
  BY <1>4, ToolsSayNothing, QuietTold DEF notByTools
<1>5. CASE Polls
  BY <1>5, PollsSay, QuietTold
<1>6. CASE Request \/ StreamRefused \/ BatchReturns \/ Cancel \/ UNCHANGED vars
  <2>1. UNCHANGED <<events, stored, base>> /\ (cancelled => cancelled')
    BY <1>6 DEF Request, StreamRefused, BatchReturns, Cancel, vars, notByTools
  <2>. QED
    BY <2>1, SameEvents, QuietTold
<1>7. CASE TurnEnd
  <2>1. Publish(<<Event("turn_end")>>) /\ stored' = stored /\ base' = base /\ cancelled' = cancelled
    BY <1>7 DEF TurnEnd
  <2>2. Published' = Published
    BY <1>1, <2>1, FramesSaid, NothingSaid DEF Frames
  <2>. QED
    BY <2>1, <2>2, QuietTold
<1>8. CASE Prompt \/ Continue \/ Crash
  <2>1. events' = RunStart \/ events' = <<>>
    BY <1>8 DEF Prompt, Continue, Crash
  <2>2. base' = Len(stored')
    BY <1>8 DEF Prompt, Continue, Crash
  <2>3. Published' = <<>>
    <3>1. Published' = Only(Talk, events')
      BY DEF Published, Talk
    <3>. QED
      BY <1>2, <2>1, <3>1, EndsSaid
  <2>. QED
    BY <1>1, <2>2, <2>3, FreshTold
<1>. QED
  BY <1>3, <1>4, <1>5, <1>6, <1>7, <1>8 DEF Next, LoopStep, Says, OnTools, Polls

LEMMA ToldInit == Init => Told
<1>. SUFFICES ASSUME Init PROVE Told
  OBVIOUS
<1>1. events = <<>> /\ stored = <<>> /\ base = 0
  BY DEF Init
<1>2. Published = Only(Talk, <<>>)
  BY <1>1 DEF Published, Talk
<1>3. Published = <<>> /\ Len(<<>>) = 0
  BY <1>2, OnlyEmpty
<1>. QED
  BY <1>1, <1>3 DEF Told

LEMMA ToldInvariant == Spec => []Told
<1>1. LoopInv /\ LoopInv' /\ Told /\ [Next]_vars => Told'
  BY ToldStep
<1>. QED
  BY <1>1, ToldInit, LoopInvariant, PTL DEF Spec

-----------------------------------------------------------------------
(* The frame of a run                                                           *)

\* The turns of a run that has begun, the last of them open or not.
Turns(s) ==
    \A i \in DOMAIN s :
        s[i].type = (IF i = 1 THEN "agent_start" ELSE IF i % 2 = 0 THEN "turn_start" ELSE "turn_end")
InTurn(s) == Len(s) >= 2 /\ Len(s) % 2 = 0 /\ Turns(s)
Between(s) == Len(s) >= 3 /\ Len(s) % 2 = 1 /\ Turns(s)

LEMMA Parity ==
  ASSUME NEW n \in Nat
  PROVE  /\ n % 2 = 0 => (n + 1) % 2 = 1
         /\ n % 2 = 1 => (n + 1) % 2 = 0
  OBVIOUS

LEMMA FrameGrows ==
  ASSUME NEW s \in Seq(LoopEvents)
  PROVE  /\ InTurn(s) => Between(s \o <<Event("turn_end")>>)
         /\ Between(s) => InTurn(s \o <<Event("turn_start")>>)
         /\ Between(s) => WellFormed(s \o <<Event("agent_end")>>)
         /\ InTurn(s) => WellFormed(s \o RunEnd)
<1>1. ASSUME NEW t \in Seq(LoopEvents), NEW e \in LoopEvents
      PROVE  /\ t \o <<e>> \in Seq(LoopEvents) /\ Len(t \o <<e>>) = Len(t) + 1 /\ Len(t) \in Nat
             /\ DOMAIN t = 1..Len(t) /\ DOMAIN (t \o <<e>>) = 1..Len(t) + 1
             /\ (\A i \in 1..Len(t) : (t \o <<e>>)[i] = t[i]) /\ (t \o <<e>>)[Len(t) + 1] = e
  <2>1. t \o <<e>> = Append(t, e)
    BY AppendIsConcat
  <2>. QED
    BY <2>1, AppendProperties, LenProperties
<1>2. ASSUME NEW t \in Seq(LoopEvents), InTurn(t)
      PROVE  Between(t \o <<Event("turn_end")>>)
  <2>1. PICK e \in LoopEvents : e = Event("turn_end") /\ e.type = "turn_end"
    BY LoopEventsAre DEF Frames
  <2>2. PICK n, r : n = Len(t) /\ r = t \o <<e>>
    OBVIOUS
  <2>3. /\ Len(r) = n + 1 /\ n \in Nat /\ DOMAIN t = 1..n /\ DOMAIN r = 1..n + 1
        /\ (\A i \in 1..n : r[i] = t[i]) /\ r[n + 1] = e
    BY <1>1, <2>2
  <2>4. n >= 2 /\ n % 2 = 0 /\ (n + 1) % 2 = 1 /\ n + 1 # 1 /\ n + 1 >= 3
    BY <1>2, <2>2, <2>3, Parity DEF InTurn
  <2>5. Turns(r)
    <3>1. ASSUME NEW i \in 1..n
          PROVE  r[i].type = (IF i = 1 THEN "agent_start" ELSE IF i % 2 = 0 THEN "turn_start" ELSE "turn_end")
      BY <1>2, <2>3 DEF InTurn, Turns
    <3>2. \A i \in 1..n + 1 : i \in 1..n \/ i = n + 1
      BY <2>3
    <3>3. (n + 1) % 2 # 0
      BY <2>4
    <3>. QED
      BY <2>1, <2>3, <2>4, <3>1, <3>2, <3>3 DEF Turns
  <2>. QED
    BY <2>1, <2>2, <2>3, <2>4, <2>5 DEF Between
<1>3. ASSUME NEW t \in Seq(LoopEvents), Between(t)
      PROVE  /\ InTurn(t \o <<Event("turn_start")>>) /\ WellFormed(t \o <<Event("agent_end")>>)
  <2>1. ASSUME NEW e \in LoopEvents, e.type \in {"turn_start", "agent_end"}
        PROVE  /\ e.type = "turn_start" => InTurn(t \o <<e>>)
               /\ e.type = "agent_end" => WellFormed(t \o <<e>>)
    <3>2. PICK n, r : n = Len(t) /\ r = t \o <<e>>
      OBVIOUS
    <3>3. /\ Len(r) = n + 1 /\ n \in Nat /\ DOMAIN t = 1..n /\ DOMAIN r = 1..n + 1
          /\ (\A i \in 1..n : r[i] = t[i]) /\ r[n + 1] = e
      BY <1>1, <3>2
    <3>4. n >= 3 /\ n % 2 = 1 /\ (n + 1) % 2 = 0 /\ n + 1 # 1 /\ n + 1 >= 4 /\ n + 1 >= 2
      BY <1>3, <3>2, <3>3, Parity DEF Between
    <3>5. \A i \in 1..n : r[i].type = (IF i = 1 THEN "agent_start" ELSE IF i % 2 = 0 THEN "turn_start" ELSE "turn_end")
      BY <1>3, <3>3 DEF Between, Turns
    <3>6. \A i \in 1..n + 1 : (i \in 1..n /\ i # n + 1) \/ i = n + 1
      BY <3>3
    <3>7. e.type = "turn_start" => InTurn(r)
      BY <3>3, <3>4, <3>5, <3>6 DEF Turns, InTurn
    <3>8. e.type = "agent_end" => WellFormed(r)
      BY <3>3, <3>4, <3>5, <3>6 DEF WellFormed
    <3>. QED
      BY <3>2, <3>7, <3>8
  <2>2. /\ Event("turn_start") \in LoopEvents /\ Event("turn_start").type = "turn_start"
        /\ Event("agent_end") \in LoopEvents /\ Event("agent_end").type = "agent_end"
    BY LoopEventsAre DEF Frames
  <2>. QED
    BY <2>1, <2>2
<1>4. ASSUME InTurn(s) PROVE WellFormed(s \o RunEnd)
  <2>1. PICK x, y \in LoopEvents : x = Event("turn_end") /\ y = Event("agent_end")
    BY LoopEventsAre DEF Frames
  <2>2. PICK t \in Seq(LoopEvents) : t = s \o <<x>> /\ Between(t)
    BY <1>1, <1>2, <1>4, <2>1
  <2>3. WellFormed(t \o <<y>>)
    BY <1>3, <2>1, <2>2
  <2>4. t \o <<y>> = s \o <<x, y>>
    <3>1. PICK u, v \in Seq(LoopEvents) : u = <<x>> /\ v = <<y>> /\ u \o v = <<x, y>>
      BY TwoEvents
    <3>2. (s \o u) \o v = s \o (u \o v)
      BY JoinEvents
    <3>. QED
      BY <2>2, <3>1, <3>2
  <2>. QED
    BY <2>1, <2>3, <2>4 DEF RunEnd
<1>. QED
  BY <1>2, <1>3, <1>4

\* A branch that a model can be asked on: its last message is no answer.
AwaitsAnswer(s) == s # <<>> /\ s[Len(s)].role # "assistant"
Asks ==
    \/ pc \in {"poll", "streaming", "failing"}
    \/ pc = "inject" /\ pending = <<>>
    \/ pc \in {"turn_end", "poll_more"} /\ more

\* The frame that has been published in each place of the loop, and how the branch ends
\* there: a retry finds what it needs before the answer that failed.
FrameOK ==
    /\ pc \in {"prompts", "poll", "inject", "streaming", "tools", "collecting", "turn_end", "failing"}
          => InTurn(Marks)
    /\ pc \in {"poll_more", "follow_up"} => Between(Marks)
    /\ pc = "idle" /\ events # <<>> => WellFormed(Marks)
EndOK ==
    /\ Asks => AwaitsAnswer(stored)
    /\ pc \in {"turn_end", "poll_more", "follow_up"} => stored # <<>> /\ ~IsFailed(Last(stored))
    /\ pc = "idle" /\ events # <<>> /\ stored # <<>> =>
          (IsFailed(Last(stored)) => AwaitsAnswer(Front(stored)))

Undisturbed == ~cancelled /\ faults = 0
StreamInv == Undisturbed => FrameOK /\ EndOK

LEMMA EndOfAppend ==
  ASSUME NEW s \in Seq(Messages), NEW m \in Messages
  PROVE  /\ Append(s, m) \in Seq(Messages) /\ Append(s, m) # <<>>
         /\ Last(Append(s, m)) = m /\ Append(s, m)[Len(Append(s, m))] = m
         /\ Front(Append(s, m)) = s
<1>1. PICK t : t = Append(s, m)
  OBVIOUS
<1>2. /\ t \in Seq(Messages) /\ Len(t) = Len(s) + 1 /\ Len(s) \in Nat
      /\ (\A i \in 1..Len(s) : t[i] = s[i]) /\ t[Len(s) + 1] = m
  BY <1>1, AppendProperties, LenProperties
<1>3. t # <<>> /\ t[Len(t)] = m /\ Last(t) = m
  BY <1>1, <1>2 DEF Last
<1>4. Front(t) = s
  <2>1. Front(t) = SubSeq(t, 1, Len(s))
    <3>1. Len(t) - 1 = Len(s)
      BY <1>2
    <3>. QED
      BY <3>1 DEF Front
  <2>2. Len(s) \in 0..Len(t) /\ 1 \in 1..Len(t) + 1
    BY <1>2
  <2>3. /\ SubSeq(t, 1, Len(s)) \in Seq(Messages) /\ Len(SubSeq(t, 1, Len(s))) = Len(s)
        /\ \A i \in 1..Len(s) : SubSeq(t, 1, Len(s))[i] = t[i]
    BY <1>2, <2>2
  <2>. QED
    BY <1>2, <2>1, <2>3, SeqEqual
<1>. QED
  BY <1>1, <1>2, <1>3, <1>4

\* Where nothing disturbs it, what is said is stored and the loop goes on.
LEMMA SayFrame ==
  ASSUME LoopInv, NEW m \in Messages, NEW next, NEW onError, NEW after \in {<<>>, RunEnd},
         Say(m, next, onError, after), cancelled' = cancelled, Undisturbed'
  PROVE  /\ Undisturbed /\ pc' = next /\ stored' = Append(stored, m) /\ events' # <<>>
         /\ after = <<>> => Marks' = Marks
         /\ after = RunEnd => Marks' = Marks \o RunEnd
<1>1. LoopTypes /\ faults \in Nat /\ events \in Seq(LoopEvents) /\ stored \in Seq(Messages)
  BY DEF LoopInv, LoopTypes, TalkTypes
<1>2. ~cancelled /\ faults' = 0
  BY DEF Undisturbed
<1>3. faults' # faults + 1
  BY <1>1, <1>2
<1>4. /\ pc' = next /\ stored' = Append(stored, m) /\ faults' = faults
      /\ Publish(<<MessageEvent(m)>> \o after)
  BY <1>2, <1>3 DEF Say
<1>5. after \in Seq(LoopEvents) /\ Only(Frames, <<>>) = <<>>
  <2>1. RunEnd \in Seq(LoopEvents) /\ <<>> \in Seq(LoopEvents)
    BY EndsSaid
  <2>. QED
    BY <2>1, OnlyEmpty
<1>6. PICK u \in Seq(LoopEvents) : u = <<MessageEvent(m)>> \o after /\ Only(Frames, u) = Only(Frames, after)
  BY <1>5, MessageSaid
<1>7. Marks' = Marks \o Only(Frames, after) /\ Marks \in Seq(LoopEvents)
  BY <1>1, <1>4, <1>6, PublishMore
<1>8. events' # <<>>
  <2>1. Len(u) # 0
    <3>1. Len(u) = 1 + Len(after) /\ Len(after) \in Nat
      BY <1>5, <1>6, ConcatProperties, LenProperties, MessageSaid
    <3>. QED
      BY <3>1
  <2>2. events' = events \o u
    BY <1>4, <1>6 DEF Publish
  <2>3. Len(events \o u) = Len(events) + Len(u) /\ Len(events) \in Nat /\ Len(u) \in Nat
    BY <1>1, ConcatProperties, LenProperties
  <2>4. Len(events \o u) # 0
    BY <2>1, <2>3
  <2>. QED
    BY <2>2, <2>4
<1>9. Marks \o <<>> = Marks
  BY <1>7, ConcatEmptySeq
<1>. QED
  BY <1>2, <1>4, <1>5, <1>7, <1>8, <1>9, EndsSaid DEF Undisturbed

\* Where the loop works on tools nothing is asked of the end of the branch.
LEMMA AtWork == ASSUME LoopInv', pc' \in Working \cup {"prompts"}, InTurn(Marks') PROVE (FrameOK /\ EndOK)'
  BY DEF FrameOK, EndOK, Asks, Working

\* The steps that say a message.
LEMMA SaysStream == ASSUME LoopInv, LoopInv', StreamInv, Says, Undisturbed' PROVE (FrameOK /\ EndOK)'
<1>1. /\ turns < MaxTurns => turns + 1 \in 0..MaxTurns
      /\ TalkTypes /\ BatchTypes /\ stored \in Seq(Messages)
  BY Bounds DEF LoopInv, LoopTypes, TalkTypes
<1>2. cancelled' = cancelled /\ Undisturbed
  <2>1. cancelled' = cancelled
    BY SaysOne
  <2>2. PICK m \in Messages : \E next, onError : \E after \in {<<>>, RunEnd} : Say(m, next, onError, after)
    BY SaysOne
  <2>. QED
    BY <2>1, <2>2, SayFrame
<1>3. FrameOK /\ EndOK
  BY <1>2 DEF StreamInv
<1>. USE <1>2
<1>4. CASE EmitPrompt \/ Inject
  <2>1. pending # <<>>
    BY <1>1, <1>4 DEF TalkTypes, EmitPrompt, Inject
  <2>2. PICK m : m = pending[1]
    OBVIOUS
  <2>3. m \in Messages /\ m.role = "user"
    <3>1. pending[1] \in UserMessages
      BY <1>1, <2>1, LenProperties, EmptySeq DEF TalkTypes
    <3>. QED
      BY <2>2, <3>1, KindsApart DEF UserMessages
  <2>4. PICK next \in {"poll", "inject"} : Say(m, next, "failing", <<>>)
    BY <1>4, <2>2 DEF EmitPrompt, Inject
  <2>5. pc' = next /\ stored' = Append(stored, m) /\ Marks' = Marks
    BY <2>3, <2>4, SayFrame
  <2>6. InTurn(Marks)
    BY <1>3, <1>4 DEF FrameOK, EmitPrompt, Inject
  <2>7. FrameOK'
    BY <2>5, <2>6 DEF FrameOK
  <2>8. AwaitsAnswer(stored')
    BY <1>1, <2>3, <2>5, EndOfAppend DEF AwaitsAnswer
  <2>9. EndOK'
    BY <2>5, <2>8 DEF EndOK
  <2>. QED
    BY <2>7, <2>9
<1>5. CASE Answer
  <2>1. PICK n \in 0..MaxCalls : Say(Assistant(turns + 1, n, FALSE), IF n = 0 THEN "turn_end" ELSE "tools", "failing", <<>>)
    BY <1>5 DEF Answer
  <2>2. PICK m \in Messages : m = Assistant(turns + 1, n, FALSE)
    BY <1>1, <1>5, KindsApart DEF Answer
  <2>3. ~IsFailed(m)
    BY <2>2 DEF Assistant, IsFailed
  <2>4. pc' = (IF n = 0 THEN "turn_end" ELSE "tools") /\ stored' = Append(stored, m) /\ Marks' = Marks
    <3>1. Say(m, IF n = 0 THEN "turn_end" ELSE "tools", "failing", <<>>)
      BY <2>1, <2>2
    <3>. QED
      BY <3>1, SayFrame
  <2>5. InTurn(Marks) /\ ~more'
    BY <1>3, <1>5 DEF FrameOK, Answer
  <2>6. FrameOK'
    BY <2>4, <2>5 DEF FrameOK
  <2>7. stored' # <<>> /\ ~IsFailed(Last(stored'))
    BY <1>1, <2>3, <2>4, EndOfAppend
  <2>8. EndOK'
    BY <2>4, <2>5, <2>7 DEF EndOK, Asks
  <2>. QED
    BY <2>6, <2>8
<1>6. ASSUME NEW m \in Messages, Say(m, "idle", "failing", RunEnd) \/ Say(m, "idle", "idle", RunEnd),
             pc \in {"streaming", "failing"}
      PROVE  (FrameOK /\ EndOK)'
  <2>1. pc' = "idle" /\ stored' = Append(stored, m) /\ Marks' = Marks \o RunEnd
    BY <1>6, SayFrame
  <2>2. InTurn(Marks) /\ AwaitsAnswer(stored)
    BY <1>3, <1>6 DEF FrameOK, EndOK, Asks
  <2>3. Marks \in Seq(LoopEvents)
    BY <1>1, OnlyType DEF Marks, TalkTypes
  <2>4. WellFormed(Marks')
    BY <2>1, <2>2, <2>3, FrameGrows
  <2>5. FrameOK'
    BY <2>1, <2>4 DEF FrameOK
  <2>6. Front(stored') = stored
    BY <1>1, <2>1, EndOfAppend
  <2>7. EndOK'
    BY <2>1, <2>2, <2>6 DEF EndOK, Asks
  <2>. QED
    BY <2>5, <2>7
<1>7. CASE AnswerFailed
  <2>1. PICK n \in 0..MaxCalls : Say(Assistant(turns + 1, n, TRUE), "idle", "failing", RunEnd)
    BY <1>7 DEF AnswerFailed
  <2>2. Assistant(turns + 1, n, TRUE) \in Messages
    BY <1>1, <1>7, KindsApart DEF AnswerFailed
  <2>. QED
    BY <1>6, <1>7, <2>1, <2>2 DEF AnswerFailed
<1>8. CASE EmitRunFailure
  BY <1>6, <1>8, KindsApart DEF EmitRunFailure
<1>9. CASE StoreResult
  <2>1. pc \in Working /\ Say(ToolResult(answer.id, NextResult), pc, "failing", <<>>)
    BY <1>9 DEF StoreResult, ResultsDue, Working
  <2>2. ToolResult(answer.id, NextResult) \in Messages
    <3>1. PICK n : n = batch.results + 1
      OBVIOUS
    <3>2. /\ Started = 1..Len(batch.status) /\ batch.results \in Nat /\ Len(batch.status) \in Nat
          /\ answer.id \in 1..MaxTurns /\ \A c \in Started : c \in 1..MaxCalls
      BY <2>1, WorkingFacts
    <3>3. n \in 1..MaxCalls
      BY <1>9, <3>1, <3>2 DEF StoreResult, ResultsDue
    <3>. QED
      BY <3>1, <3>2, <3>3, KindsApart DEF NextResult
  <2>3. pc' = pc /\ Marks' = Marks
    BY <2>1, <2>2, SayFrame
  <2>4. InTurn(Marks)
    BY <1>3, <2>1 DEF FrameOK, Working
  <2>. QED
    BY <2>1, <2>3, <2>4, AtWork
<1>. QED
  BY <1>4, <1>5, <1>7, <1>8, <1>9 DEF Says

\* What a publication of the frame makes of it.
LEMMA FramePublished ==
  ASSUME LoopTypes, NEW d \in Frames, Publish(<<Event(d)>>)
  PROVE  Marks' = Marks \o <<Event(d)>> /\ Marks \in Seq(LoopEvents) /\ events' # <<>>
<1>1. PICK u \in Seq(LoopEvents) : u = <<Event(d)>> /\ Only(Frames, u) = <<Event(d)>> /\ Len(u) = 1
  BY FramesSaid
<1>2. Marks' = Marks \o <<Event(d)>> /\ Marks \in Seq(LoopEvents)
  BY <1>1, PublishMore
<1>3. events' = events \o u /\ events \in Seq(LoopEvents)
  BY <1>1 DEF Publish, LoopTypes, TalkTypes
<1>4. Len(events \o u) = Len(events) + Len(u) /\ Len(events) \in Nat
  BY <1>3, ConcatProperties, LenProperties
<1>. QED
  BY <1>1, <1>2, <1>3, <1>4

\* The polls and the end of a turn.
LEMMA PollsStream == ASSUME LoopInv, StreamInv, Polls, Undisturbed' PROVE (FrameOK /\ EndOK)'
<1>1. LoopTypes /\ TalkTypes /\ stored \in Seq(Messages)
  BY DEF LoopInv, LoopTypes, TalkTypes
<1>2. ~cancelled /\ FrameOK /\ EndOK /\ stored' = stored /\ more' = more
  BY PollsSay DEF Undisturbed, StreamInv
<1>3. CASE GetSteeringMessages
  <2>1. PICK arrives \in BOOLEAN :
              /\ Polled(arrives)
              /\ pc' = IF pc = "poll" \/ more \/ arrives THEN "inject" ELSE "follow_up"
              /\ Publish(IF pc = "poll_more" /\ (more \/ arrives)
                         THEN <<Event("turn_start")>> ELSE <<>>)
    BY <1>2, <1>3 DEF GetSteeringMessages, PollRefused
  <2>2. pc \in {"poll", "poll_more"}
    BY <1>3 DEF GetSteeringMessages
  <2>3. arrives => pending' # <<>>
    BY <2>1 DEF Polled
  <2>4. CASE pc = "poll"
    <3>1. pc' = "inject" /\ Publish(<<>>)
      BY <2>1, <2>4
    <3>2. InTurn(Marks) /\ AwaitsAnswer(stored)
      BY <1>2, <2>4 DEF FrameOK, EndOK, Asks
    <3>3. Marks' = Marks
      <4>1. <<>> \in Seq(LoopEvents) /\ Only(Frames, <<>>) = <<>>
        BY OnlyEmpty
      <4>. QED
        BY <1>1, <3>1, <4>1, NoMarks
    <3>. QED
      BY <1>2, <3>1, <3>2, <3>3 DEF FrameOK, EndOK
  <2>5. CASE pc = "poll_more" /\ (more \/ arrives)
    <3>1. pc' = "inject" /\ Publish(<<Event("turn_start")>>)
      BY <2>1, <2>5
    <3>2. Between(Marks) /\ (more => AwaitsAnswer(stored))
      BY <1>2, <2>5 DEF FrameOK, EndOK, Asks
    <3>3. Marks' = Marks \o <<Event("turn_start")>> /\ Marks \in Seq(LoopEvents)
      BY <1>1, <3>1, FramePublished DEF Frames
    <3>4. InTurn(Marks')
      BY <3>2, <3>3, FrameGrows
    <3>. QED
      BY <1>2, <2>3, <2>5, <3>1, <3>2, <3>4 DEF FrameOK, EndOK, Asks
  <2>6. CASE pc = "poll_more" /\ ~(more \/ arrives)
    <3>1. pc' = "follow_up" /\ Publish(<<>>)
      BY <2>1, <2>6
    <3>2. Between(Marks) /\ stored # <<>> /\ ~IsFailed(Last(stored))
      BY <1>2, <2>6 DEF FrameOK, EndOK
    <3>3. Marks' = Marks
      <4>1. <<>> \in Seq(LoopEvents) /\ Only(Frames, <<>>) = <<>>
        BY OnlyEmpty
      <4>. QED
        BY <1>1, <3>1, <4>1, NoMarks
    <3>. QED
      BY <1>2, <3>1, <3>2, <3>3 DEF FrameOK, EndOK, Asks
  <2>. QED
    BY <2>2, <2>4, <2>5, <2>6
<1>4. CASE GetFollowUpMessages
  <2>1. PICK arrives \in BOOLEAN :
              /\ Polled(arrives)
              /\ pc' = IF arrives THEN "inject" ELSE "idle"
              /\ Publish(<<Event(IF arrives THEN "turn_start" ELSE "agent_end")>>)
    BY <1>2, <1>4 DEF GetFollowUpMessages, PollRefused
  <2>2. Between(Marks) /\ stored # <<>> /\ ~IsFailed(Last(stored))
    BY <1>2, <1>4 DEF FrameOK, EndOK, GetFollowUpMessages
  <2>3. CASE arrives
    <3>1. pc' = "inject" /\ pending' # <<>> /\ Publish(<<Event("turn_start")>>)
      BY <2>1, <2>3 DEF Polled
    <3>2. Marks' = Marks \o <<Event("turn_start")>> /\ Marks \in Seq(LoopEvents)
      BY <1>1, <3>1, FramePublished DEF Frames
    <3>3. InTurn(Marks')
      BY <2>2, <3>2, FrameGrows
    <3>. QED
      BY <3>1, <3>3 DEF FrameOK, EndOK, Asks
  <2>4. CASE ~arrives
    <3>1. pc' = "idle" /\ Publish(<<Event("agent_end")>>)
      BY <2>1, <2>4
    <3>2. Marks' = Marks \o <<Event("agent_end")>> /\ Marks \in Seq(LoopEvents)
      BY <1>1, <3>1, FramePublished DEF Frames
    <3>3. WellFormed(Marks')
      BY <2>2, <3>2, FrameGrows
    <3>. QED
      BY <1>2, <2>2, <3>1, <3>3 DEF FrameOK, EndOK, Asks
  <2>. QED
    BY <2>3, <2>4
<1>. QED
  BY <1>3, <1>4 DEF Polls

LEMMA TurnEndStream == ASSUME LoopInv, StreamInv, TurnEnd, Undisturbed' PROVE (FrameOK /\ EndOK)'
<1>1. LoopTypes
  BY DEF LoopInv
<1>2. /\ pc = "turn_end" /\ pc' = "poll_more" /\ stored' = stored /\ more' = more
      /\ Publish(<<Event("turn_end")>>) /\ FrameOK /\ EndOK
  BY DEF TurnEnd, Undisturbed, StreamInv
<1>3. Marks' = Marks \o <<Event("turn_end")>> /\ Marks \in Seq(LoopEvents)
  BY <1>1, <1>2, FramePublished DEF Frames
<1>4. Between(Marks')
  BY <1>2, <1>3, FrameGrows DEF FrameOK
<1>. QED
  BY <1>2, <1>4 DEF FrameOK, EndOK, Asks

LEMMA BatchReturnsStream == ASSUME LoopInv, StreamInv, BatchReturns, Undisturbed' PROVE (FrameOK /\ EndOK)'
<1>1. pc \in Working
  BY DEF BatchReturns, Working
<1>2. /\ pc' = "turn_end" /\ stored' = stored /\ events' = events /\ FrameOK
      /\ Started # {} /\ batch.results = Len(batch.status)
  BY DEF BatchReturns, Undisturbed, StreamInv
<1>3. batch.results # 0
  BY <1>1, <1>2, WorkingFacts
<1>4. stored # <<>> /\ stored[Len(stored)] = ToolResult(answer.id, batch.results)
  BY <1>1, <1>3 DEF LoopInv, StoredOK, LastSaid
<1>5. AwaitsAnswer(stored) /\ ~IsFailed(Last(stored))
  BY <1>4 DEF AwaitsAnswer, IsFailed, Last, ToolResult
<1>6. InTurn(Marks) /\ Marks' = Marks
  BY <1>1, <1>2, SameEvents DEF FrameOK, Working
<1>. QED
  BY <1>2, <1>4, <1>5, <1>6 DEF FrameOK, EndOK, Asks

LEMMA StartsStream == ASSUME LoopInv, StreamInv, Prompt \/ Continue \/ Crash, Undisturbed' PROVE (FrameOK /\ EndOK)'
<1>1. CASE Crash
  BY <1>1 DEF Crash, FrameOK, EndOK, Asks
<1>2. ASSUME events' = RunStart PROVE InTurn(Marks')
  <2>1. Marks' = RunStart
    <3>1. Marks' = Only(Frames, events')
      BY DEF Marks, Frames
    <3>. QED
      BY <1>2, <3>1, EndsSaid
  <2>2. /\ Len(RunStart) = 2 /\ 2 % 2 = 0 /\ DOMAIN RunStart = {1, 2}
        /\ RunStart[1].type = "agent_start" /\ RunStart[2].type = "turn_start"
    BY DEF RunStart, Event
  <2>3. InTurn(RunStart)
    BY <2>2 DEF InTurn, Turns
  <2>. QED
    BY <2>1, <2>3
<1>3. CASE Prompt
  <2>1. pc' = "prompts" /\ events' = RunStart
    BY <1>3 DEF Prompt
  <2>. QED
    BY <1>2, <2>1 DEF FrameOK, EndOK, Asks
<1>4. CASE Continue
  <2>1. /\ pc = "idle" /\ events # <<>> /\ stored # <<>> /\ IsFailed(Last(stored)) /\ EndOK
    BY <1>4 DEF Continue, Undisturbed, StreamInv
  <2>2. AwaitsAnswer(Front(stored))
    BY <2>1 DEF EndOK
  <2>3. Front(stored) # <<>> /\ Last(Front(stored)).role # "assistant"
    BY <2>2 DEF AwaitsAnswer, Last
  <2>4. pc' = "poll" /\ events' = RunStart /\ stored' = Front(stored)
    BY <1>4, <2>3 DEF Continue
  <2>. QED
    BY <1>2, <2>2, <2>4 DEF FrameOK, EndOK, Asks
<1>. QED
  BY <1>1, <1>3, <1>4

LEMMA StreamStep == ASSUME LoopInv, LoopInv', StreamInv, [Next]_vars PROVE StreamInv'
<1>. SUFFICES ASSUME Undisturbed' PROVE (FrameOK /\ EndOK)'
  BY DEF StreamInv
<1>1. CASE Says
  BY <1>1, SaysStream
<1>2. CASE OnTools
  <2>1. pc \in Working /\ pc' \in Working /\ Marks' = Marks /\ cancelled' = cancelled /\ faults' = faults
    BY <1>2, ToolsSayNothing DEF notByTools
  <2>2. InTurn(Marks)
    BY <2>1 DEF Undisturbed, StreamInv, FrameOK, Working
  <2>. QED
    BY <2>1, <2>2, AtWork
<1>3. CASE Request \/ StreamRefused
  <2>1. events' = events /\ UNCHANGED <<cancelled, stored, faults>>
    BY <1>3 DEF Request, StreamRefused, notByTools
  <2>2. Marks' = Marks
    BY <2>1, SameEvents
  <2>3. pc \in {"inject", "streaming"} /\ Asks /\ pc' \in {"streaming", "failing"}
    BY <1>3 DEF Request, StreamRefused, Asks
  <2>4. InTurn(Marks) /\ AwaitsAnswer(stored)
    BY <2>1, <2>3 DEF Undisturbed, StreamInv, FrameOK, EndOK
  <2>. QED
    BY <2>1, <2>2, <2>3, <2>4 DEF FrameOK, EndOK, Asks
<1>4. CASE Cancel
  BY <1>4 DEF Cancel, Undisturbed
<1>5. CASE UNCHANGED vars
  <2>1. UNCHANGED <<pc, cancelled, stored, events, pending, more, faults>>
    BY <1>5 DEF vars
  <2>2. FrameOK /\ EndOK /\ Marks' = Marks
    BY <2>1, SameEvents DEF StreamInv, Undisturbed
  <2>. QED
    BY <2>1, <2>2 DEF FrameOK, EndOK, Asks
<1>. QED
  BY <1>1, <1>2, <1>3, <1>4, <1>5, PollsStream, TurnEndStream, BatchReturnsStream, StartsStream
     DEF Next, LoopStep, Says, OnTools, Polls

LEMMA StreamInvariant == Spec => []StreamInv
<1>1. Init => StreamInv
  BY DEF Init, StreamInv, FrameOK, EndOK, Asks
<1>2. LoopInv /\ LoopInv' /\ StreamInv /\ [Next]_vars => StreamInv'
  BY StreamStep
<1>. QED
  BY <1>1, <1>2, LoopInvariant, PTL DEF Spec

\* The loop, the session and the subscribers agree: the model is asked on the branch, what
\* is on the branch has been published, and a run that nobody cancels and whose writes
\* succeed publishes its turns complete, whatever fails in it (agentloop/loop.go:runLoop,
\* harness/prompt.go: emit, emitRunFailure).
THEOREM LoopStaysInStep == Spec => []LoopInStep
<1>1. LoopInv /\ Told /\ StreamInv => LoopInStep
  <2>1. LoopInv => ModelSeesSession
    BY InvShows
  <2>2. LoopInv /\ Told => StoredIsPublished
    BY ToldShows DEF LoopInv
  <2>3. StreamInv => StreamComplete
    BY DEF StreamInv, Undisturbed, FrameOK, StreamComplete
  <2>. QED
    BY <2>1, <2>2, <2>3 DEF LoopInStep
<1>. QED
  BY <1>1, LoopInvariant, ToldInvariant, StreamInvariant, PTL
=======================================================================
