--------------------------- MODULE RunControlProofs ---------------------------
(***************************************************************************)
(* Theorems about the run lifecycle, for any number of callers and any     *)
(* bounds.                                                                 *)
(***************************************************************************)
EXTENDS RunControl, SequenceTheorems, TLAPS

LEMMA QueueParts ==
    ASSUME MsgTypeOK, NEW q \in Queues
    PROVE  /\ Drained(q) \in Seq(Nat) /\ Remaining(q) \in Seq(Nat)
           /\ Drained(q) \o Remaining(q) = queue[q]
<1>1. queue[q] \in Seq(Nat)
    BY DEF MsgTypeOK
<1>2. CASE q \in AllAtOnce \/ queue[q] = <<>>
    <2>1. Drained(q) = queue[q]
        BY <1>2 DEF Drained
    <2>2. Remaining(q) = <<>>
        BY <1>1, <2>1, SubSeqEmpty, LenProperties DEF Remaining
    <2> QED
        BY <1>1, <2>1, <2>2, ConcatEmptySeq
<1>3. CASE ~(q \in AllAtOnce \/ queue[q] = <<>>)
    <2>1. Drained(q) = <<Head(queue[q])>> /\ Remaining(q) = SubSeq(queue[q], 2, Len(queue[q]))
        BY <1>1, <1>3 DEF Drained, Remaining
    <2>2. Remaining(q) = Tail(queue[q])
        BY <1>1, <1>3, <2>1, TailIsSubSeq
    <2> QED
        BY <1>1, <1>3, <2>1, <2>2, HeadTailProperties
<1> QED
    BY <1>2, <1>3

LEMMA FlushType ==
    ASSUME SetTypeOK, RunTypeOK, Flush
    PROVE  pending' \in Seq(Write) /\ logged' \in Seq(Write) /\ faults' \in 0..MaxFaults
<1>1. pending \in Seq(Write) /\ logged \in Seq(Write) /\ faults \in 0..MaxFaults
    BY DEF SetTypeOK, RunTypeOK
<1>2. ASSUME NEW n \in 0..Len(pending)
      PROVE  logged \o SubSeq(pending, 1, n) \in Seq(Write)
    <2>1. \A i \in 1..n : pending[i] \in Write
        BY <1>1, ElementOfSeq, LenProperties
    <2>2. SubSeq(pending, 1, n) \in Seq(Write)
        BY <1>1, <2>1, SubSeqProperties
    <2> QED
        BY <1>1, <2>2, ConcatProperties
<1>3. CASE logged' = logged \o pending /\ pending' = <<>> /\ NoFault
    BY <1>1, <1>3, ConcatProperties DEF NoFault
<1>4. CASE Fault /\ UNCHANGED pending /\ \E n \in 0..Len(pending) : logged' = logged \o SubSeq(pending, 1, n)
    BY <1>1, <1>2, <1>4, BoundsAssumption DEF Fault
<1> QED
    BY <1>3, <1>4 DEF Flush

LEMMA EmptyType == Empty \in [Queues -> Seq(Nat)]
BY DEF Empty

LEMMA HandsUpdate ==
    ASSUME CallTypeOK, NEW c \in Clients, NEW q \in Queues, NEW s \in Seq(Nat)
    PROVE  Held(c, q, s) \in [Clients -> [Queues -> Seq(Nat)]]
<1> DEFINE R == [Queues -> Seq(Nat)]
<1>1. [hands[c] EXCEPT ![q] = s] \in R
    BY DEF CallTypeOK
<1>2. hands \in [Clients -> R]
    BY DEF CallTypeOK
<1> HIDE DEF R
<1>3. [hands EXCEPT ![c] = [hands[c] EXCEPT ![q] = s]] \in [Clients -> R]
    BY <1>1, <1>2
<1> QED
    BY <1>3 DEF Held, R

LEMMA InitType == Init => TypeOK
<1> SUFFICES ASSUME Init
             PROVE  TypeOK
    OBVIOUS
<1>1. RunTypeOK
    BY BoundsAssumption DEF Init, RunTypeOK
<1>2. CallTypeOK
    BY BoundsAssumption, EmptyType DEF Init, CallTypeOK, NoRun
<1>3. MsgTypeOK
    BY BoundsAssumption, EmptyType DEF Init, MsgTypeOK
<1>4. SetTypeOK
    <2>1. [k \in Settings |-> IF k = "model" THEN Model0 ELSE Level0] \in [Settings -> Models \cup Levels]
        BY ValuesAssumption DEF Settings
    <2>2. current \in [Settings -> Models \cup Levels]
        BY <2>1 DEF Init
    <2>3. pending \in Seq(Write) /\ logged \in Seq(Write)
        BY DEF Init
    <2>4. sets \in 0..MaxSets
        BY BoundsAssumption DEF Init
    <2>5. late \in BOOLEAN
        BY DEF Init
    <2> QED
        BY <2>2, <2>3, <2>4, <2>5 DEF SetTypeOK
<1> QED
    BY <1>1, <1>2, <1>3, <1>4 DEF TypeOK

LEMMA NextType == TypeOK /\ [Next]_vars => TypeOK'
<1> SUFFICES ASSUME TypeOK, [Next]_vars
             PROVE  TypeOK'
    OBVIOUS
<1>1. CASE UNCHANGED vars
    BY <1>1 DEF TypeOK, RunTypeOK, CallTypeOK, MsgTypeOK, SetTypeOK, vars
<1>2. ASSUME NEW c \in Clients, Prompt(c)
      PROVE  TypeOK'
    <2>1. RunTypeOK'
        BY <1>2, BoundsAssumption DEF TypeOK, RunTypeOK, Prompt, BeginRun
    <2>2. CallTypeOK'
        BY <1>2, BoundsAssumption
        DEF TypeOK, CallTypeOK, Prompt, BeginRun, RunTypeOK, Goto, RunPcs
    <2>3. MsgTypeOK'
        BY <1>2, BoundsAssumption DEF TypeOK, MsgTypeOK, Prompt, BeginRun, msgVars
    <2>4. SetTypeOK'
        BY <1>2, BoundsAssumption DEF TypeOK, SetTypeOK, Prompt, BeginRun
    <2> QED
        BY <2>1, <2>2, <2>3, <2>4 DEF TypeOK
<1>3. ASSUME NEW c \in Clients, Compact(c)
      PROVE  TypeOK'
    <2>1. RunTypeOK'
        BY <1>3, BoundsAssumption DEF TypeOK, RunTypeOK, Compact, BeginRun
    <2>2. CallTypeOK'
        BY <1>3, BoundsAssumption
        DEF TypeOK, CallTypeOK, Compact, BeginRun, RunTypeOK, Goto, RunPcs
    <2>3. MsgTypeOK'
        BY <1>3, BoundsAssumption DEF TypeOK, MsgTypeOK, Compact, BeginRun, msgVars
    <2>4. SetTypeOK'
        BY <1>3, BoundsAssumption DEF TypeOK, SetTypeOK, Compact, BeginRun
    <2> QED
        BY <2>1, <2>2, <2>3, <2>4 DEF TypeOK
<1>4. ASSUME NEW c \in Clients, NavigateTree(c)
      PROVE  TypeOK'
    <2>1. RunTypeOK'
        BY <1>4, BoundsAssumption DEF TypeOK, RunTypeOK, NavigateTree, BeginRun
    <2>2. CallTypeOK'
        BY <1>4, BoundsAssumption
        DEF TypeOK, CallTypeOK, NavigateTree, BeginRun, RunTypeOK, Goto, RunPcs
    <2>3. MsgTypeOK'
        BY <1>4, BoundsAssumption DEF TypeOK, MsgTypeOK, NavigateTree, BeginRun, msgVars
    <2>4. SetTypeOK'
        BY <1>4, BoundsAssumption DEF TypeOK, SetTypeOK, NavigateTree, BeginRun
    <2> QED
        BY <2>1, <2>2, <2>3, <2>4 DEF TypeOK
<1>5. ASSUME NEW c \in Clients, Accept(c)
      PROVE  TypeOK'
    <2>1. RunTypeOK'
        BY <1>5, BoundsAssumption DEF TypeOK, RunTypeOK, Accept
    <2>2. CallTypeOK'
        BY <1>5, BoundsAssumption DEF TypeOK, CallTypeOK, Accept, Goto, RunPcs
    <2>3. MsgTypeOK'
        BY <1>5, BoundsAssumption DEF TypeOK, MsgTypeOK, Accept, msgVars
    <2>4. SetTypeOK'
        BY <1>5, BoundsAssumption DEF TypeOK, SetTypeOK, Accept, setVars
    <2> QED
        BY <2>1, <2>2, <2>3, <2>4 DEF TypeOK
<1>6. ASSUME NEW c \in Clients, CompactReturns(c)
      PROVE  TypeOK'
    <2>1. RunTypeOK'
        BY <1>6, BoundsAssumption DEF TypeOK, RunTypeOK, CompactReturns
    <2>2. CallTypeOK'
        BY <1>6, BoundsAssumption DEF TypeOK, CallTypeOK, CompactReturns, Goto, RunPcs
    <2>3. MsgTypeOK'
        BY <1>6, BoundsAssumption DEF TypeOK, MsgTypeOK, CompactReturns, msgVars
    <2>4. SetTypeOK'
        BY <1>6, BoundsAssumption DEF TypeOK, SetTypeOK, CompactReturns, setVars
    <2> QED
        BY <2>1, <2>2, <2>3, <2>4 DEF TypeOK
<1>7. ASSUME NEW c \in Clients, ResidualFlush(c)
      PROVE  TypeOK'
    <2>1. RunTypeOK'
        BY <1>7, BoundsAssumption, FlushType DEF TypeOK, RunTypeOK, ResidualFlush
    <2>2. CallTypeOK'
        BY <1>7, BoundsAssumption DEF TypeOK, CallTypeOK, ResidualFlush, Goto, RunPcs
    <2>3. MsgTypeOK'
        BY <1>7, BoundsAssumption DEF TypeOK, MsgTypeOK, ResidualFlush, msgVars
    <2>4. SetTypeOK'
        BY <1>7, BoundsAssumption, FlushType DEF TypeOK, SetTypeOK, ResidualFlush
    <2> QED
        BY <2>1, <2>2, <2>3, <2>4 DEF TypeOK
<1>8. ASSUME NEW c \in Clients, FinishRun(c)
      PROVE  TypeOK'
    <2>1. RunTypeOK'
        BY <1>8, BoundsAssumption DEF TypeOK, RunTypeOK, FinishRun
    <2>2. CallTypeOK'
        BY <1>8, BoundsAssumption DEF TypeOK, CallTypeOK, FinishRun, Goto, RunPcs, NoRun
    <2>3. MsgTypeOK'
        BY <1>8, BoundsAssumption DEF TypeOK, MsgTypeOK, FinishRun, msgVars
    <2>4. SetTypeOK'
        BY <1>8, BoundsAssumption DEF TypeOK, SetTypeOK, FinishRun, setVars
    <2> QED
        BY <2>1, <2>2, <2>3, <2>4 DEF TypeOK
<1>9. ASSUME NEW c \in Clients, PollSteering(c)
      PROVE  TypeOK'
    <2>1. RunTypeOK'
        BY <1>9, BoundsAssumption DEF TypeOK, RunTypeOK, PollSteering, DrainRefused, Drain
    <2>2. CallTypeOK'
        <3>1. hands' = hands \/ hands' = Held(c, "steer", Drained("steer"))
            BY <1>9 DEF PollSteering, DrainRefused, Drain
        <3>2. hands' \in [Clients -> [Queues -> Seq(Nat)]]
            <4>1. CASE hands' = hands
                BY <4>1 DEF TypeOK, CallTypeOK
            <4>2. CASE hands' # hands
                <5>1. PICK q \in Queues : hands' = Held(c, q, Drained(q))
                    BY <3>1, <4>2 DEF Queues
                <5>2. Drained(q) \in Seq(Nat)
                    BY QueueParts DEF TypeOK
                <5>3. Held(c, q, Drained(q)) \in [Clients -> [Queues -> Seq(Nat)]]
                    BY <5>2, HandsUpdate DEF TypeOK
                <5> QED
                    BY <5>1, <5>3
            <4> QED
                BY <4>1, <4>2
        <3>3. \E l \in RunPcs : pc' = [pc EXCEPT ![c] = l]
            BY <1>9 DEF PollSteering, DrainRefused, Goto, RunPcs
        <3> QED
            BY <1>9, <3>2, <3>3 DEF TypeOK, CallTypeOK, PollSteering, RunPcs
    <2>3. MsgTypeOK'
        BY <1>9, BoundsAssumption, QueueParts
        DEF TypeOK, MsgTypeOK, PollSteering, DrainRefused, Drain, Queues
    <2>4. SetTypeOK'
        BY <1>9, BoundsAssumption
        DEF TypeOK, SetTypeOK, PollSteering, DrainRefused, Drain, setVars
    <2> QED
        BY <2>1, <2>2, <2>3, <2>4 DEF TypeOK
<1>10. ASSUME NEW c \in Clients, PollFollowUp(c)
       PROVE  TypeOK'
    <2>1. RunTypeOK'
        BY <1>10, BoundsAssumption DEF TypeOK, RunTypeOK, PollFollowUp, DrainRefused, Drain
    <2>2. CallTypeOK'
        <3>1. hands' = hands \/ hands' = Held(c, "followUp", Drained("followUp"))
            BY <1>10 DEF PollFollowUp, DrainRefused, Drain
        <3>2. hands' \in [Clients -> [Queues -> Seq(Nat)]]
            <4>1. CASE hands' = hands
                BY <4>1 DEF TypeOK, CallTypeOK
            <4>2. CASE hands' # hands
                <5>1. PICK q \in Queues : hands' = Held(c, q, Drained(q))
                    BY <3>1, <4>2 DEF Queues
                <5>2. Drained(q) \in Seq(Nat)
                    BY QueueParts DEF TypeOK
                <5>3. Held(c, q, Drained(q)) \in [Clients -> [Queues -> Seq(Nat)]]
                    BY <5>2, HandsUpdate DEF TypeOK
                <5> QED
                    BY <5>1, <5>3
            <4> QED
                BY <4>1, <4>2
        <3>3. \E l \in RunPcs : pc' = [pc EXCEPT ![c] = l]
            BY <1>10 DEF PollFollowUp, DrainRefused, Goto, RunPcs
        <3> QED
            BY <1>10, <3>2, <3>3 DEF TypeOK, CallTypeOK, PollFollowUp, RunPcs
    <2>3. MsgTypeOK'
        BY <1>10, BoundsAssumption, QueueParts
        DEF TypeOK, MsgTypeOK, PollFollowUp, DrainRefused, Drain, Queues
    <2>4. SetTypeOK'
        BY <1>10, BoundsAssumption
        DEF TypeOK, SetTypeOK, PollFollowUp, DrainRefused, Drain, setVars
    <2> QED
        BY <2>1, <2>2, <2>3, <2>4 DEF TypeOK
<1>11. ASSUME NEW c \in Clients, NEW q \in Queues, Deliver(c, q)
       PROVE  TypeOK'
    <2>1. RunTypeOK'
        BY <1>11, BoundsAssumption DEF TypeOK, RunTypeOK, Deliver, Fault, NoFault
    <2>2. CallTypeOK'
        <3>1. hands[c][q] \in Seq(Nat) /\ hands[c][q] # <<>>
            BY <1>11 DEF TypeOK, CallTypeOK, Deliver
        <3>2. Tail(hands[c][q]) \in Seq(Nat)
            BY <3>1, HeadTailProperties
        <3>3. \/ hands' = [hands EXCEPT ![c] = Empty]
              \/ hands' = Held(c, q, Tail(hands[c][q]))
            BY <1>11 DEF Deliver
        <3>4. hands' \in [Clients -> [Queues -> Seq(Nat)]]
            <4>1. CASE hands' = [hands EXCEPT ![c] = Empty]
                BY <4>1, EmptyType DEF TypeOK, CallTypeOK
            <4>2. CASE hands' = Held(c, q, Tail(hands[c][q]))
                <5>1. Held(c, q, Tail(hands[c][q])) \in [Clients -> [Queues -> Seq(Nat)]]
                    BY <3>2, HandsUpdate DEF TypeOK
                <5> QED
                    BY <4>2, <5>1
            <4> QED
                BY <3>3, <4>1, <4>2
        <3>5. pc' = pc \/ \E l \in RunPcs : pc' = [pc EXCEPT ![c] = l]
            BY <1>11 DEF Deliver, Goto, RunPcs
        <3> QED
            BY <1>11, <3>4, <3>5 DEF TypeOK, CallTypeOK, Deliver, RunPcs
    <2>3. MsgTypeOK'
        <3>1. Head(hands[c][q]) \in Nat
            BY <1>11, HeadTailProperties DEF TypeOK, CallTypeOK, Deliver
        <3>2. Append(delivered[q], Head(hands[c][q])) \in Seq(Nat)
            BY <3>1, AppendProperties DEF TypeOK, MsgTypeOK
        <3>3. \/ delivered' = delivered
              \/ delivered' = [delivered EXCEPT ![q] = Append(@, Head(hands[c][q]))]
            BY <1>11 DEF Deliver
        <3>4. delivered' \in [Queues -> Seq(Nat)]
            BY <3>2, <3>3 DEF TypeOK, MsgTypeOK
        <3> QED
            BY <1>11, <3>4 DEF TypeOK, MsgTypeOK, Deliver
    <2>4. SetTypeOK'
        BY <1>11, BoundsAssumption DEF TypeOK, SetTypeOK, Deliver, setVars
    <2> QED
        BY <2>1, <2>2, <2>3, <2>4 DEF TypeOK
<1>12. ASSUME NEW c \in Clients, TurnReturns(c)
       PROVE  TypeOK'
    <2>1. RunTypeOK'
        BY <1>12, BoundsAssumption DEF TypeOK, RunTypeOK, TurnReturns, Fault, NoFault
    <2>2. CallTypeOK'
        BY <1>12, BoundsAssumption DEF TypeOK, CallTypeOK, TurnReturns, Goto, RunPcs
    <2>3. MsgTypeOK'
        BY <1>12, BoundsAssumption DEF TypeOK, MsgTypeOK, TurnReturns, msgVars
    <2>4. SetTypeOK'
        BY <1>12, BoundsAssumption DEF TypeOK, SetTypeOK, TurnReturns, setVars
    <2> QED
        BY <2>1, <2>2, <2>3, <2>4 DEF TypeOK
<1>13. ASSUME NEW c \in Clients, TurnEnd(c)
       PROVE  TypeOK'
    <2>1. RunTypeOK'
        BY <1>13, BoundsAssumption, FlushType DEF TypeOK, RunTypeOK, TurnEnd
    <2>2. CallTypeOK'
        BY <1>13, BoundsAssumption DEF TypeOK, CallTypeOK, TurnEnd, Goto, RunPcs
    <2>3. MsgTypeOK'
        BY <1>13, BoundsAssumption DEF TypeOK, MsgTypeOK, TurnEnd, msgVars
    <2>4. SetTypeOK'
        BY <1>13, BoundsAssumption, FlushType DEF TypeOK, SetTypeOK, TurnEnd
    <2> QED
        BY <2>1, <2>2, <2>3, <2>4 DEF TypeOK
<1>14. ASSUME NEW c \in Clients, Ended(c)
       PROVE  TypeOK'
    <2>1. RunTypeOK'
        BY <1>14, BoundsAssumption DEF TypeOK, RunTypeOK, Ended
    <2>2. CallTypeOK'
        BY <1>14, BoundsAssumption DEF TypeOK, CallTypeOK, Ended, Goto, RunPcs
    <2>3. MsgTypeOK'
        BY <1>14, BoundsAssumption DEF TypeOK, MsgTypeOK, Ended, msgVars
    <2>4. SetTypeOK'
        BY <1>14, BoundsAssumption DEF TypeOK, SetTypeOK, Ended, setVars
    <2> QED
        BY <2>1, <2>2, <2>3, <2>4 DEF TypeOK
<1>15. ASSUME NEW c \in Clients, NEW q \in Queues, SteerOrFollowUp(c, q)
       PROVE  TypeOK'
    <2>1. RunTypeOK'
        BY <1>15, BoundsAssumption DEF TypeOK, RunTypeOK, SteerOrFollowUp
    <2>2. CallTypeOK'
        BY <1>15, BoundsAssumption DEF TypeOK, CallTypeOK, SteerOrFollowUp, callVars
    <2>3. MsgTypeOK'
        BY <1>15, BoundsAssumption DEF TypeOK, MsgTypeOK, SteerOrFollowUp, Enqueue
    <2>4. SetTypeOK'
        BY <1>15, BoundsAssumption DEF TypeOK, SetTypeOK, SteerOrFollowUp, setVars
    <2> QED
        BY <2>1, <2>2, <2>3, <2>4 DEF TypeOK
<1>16. ASSUME NEW c \in Clients, NEW q \in Queues, Route(c, q)
       PROVE  TypeOK'
    <2>1. RunTypeOK'
        BY <1>16, BoundsAssumption DEF TypeOK, RunTypeOK, Route
    <2>2. CallTypeOK'
        BY <1>16, BoundsAssumption DEF TypeOK, CallTypeOK, Route, Goto, CallPcs
    <2>3. MsgTypeOK'
        BY <1>16, BoundsAssumption DEF TypeOK, MsgTypeOK, Route, msgVars
    <2>4. SetTypeOK'
        BY <1>16, BoundsAssumption DEF TypeOK, SetTypeOK, Route, setVars
    <2> QED
        BY <2>1, <2>2, <2>3, <2>4 DEF TypeOK
<1>17. ASSUME NEW c \in Clients, NEW q \in Queues, Routed(c, q)
       PROVE  TypeOK'
    <2>1. RunTypeOK'
        BY <1>17, BoundsAssumption DEF TypeOK, RunTypeOK, Routed
    <2>2. CallTypeOK'
        BY <1>17, BoundsAssumption DEF TypeOK, CallTypeOK, Routed, Goto, CallPcs
    <2>3. MsgTypeOK'
        BY <1>17, BoundsAssumption DEF TypeOK, MsgTypeOK, Routed, Enqueue
    <2>4. SetTypeOK'
        BY <1>17, BoundsAssumption DEF TypeOK, SetTypeOK, Routed, setVars
    <2> QED
        BY <2>1, <2>2, <2>3, <2>4 DEF TypeOK
<1>18. ASSUME NEW c \in Clients, Abort(c)
       PROVE  TypeOK'
    <2>1. RunTypeOK'
        BY <1>18, BoundsAssumption DEF TypeOK, RunTypeOK, Abort
    <2>2. CallTypeOK'
        BY <1>18, BoundsAssumption
        DEF TypeOK, CallTypeOK, Abort, RunTypeOK, NoRun, Goto, CallPcs
    <2>3. MsgTypeOK'
        <3>1. cleared' \subseteq cleared \cup 1..sent
            BY <1>18 DEF Abort
        <3>2. queue' = Empty /\ UNCHANGED <<sent, delivered>>
            BY <1>18 DEF Abort
        <3> QED
            BY <3>1, <3>2, EmptyType, BoundsAssumption DEF TypeOK, MsgTypeOK
    <2>4. SetTypeOK'
        BY <1>18, BoundsAssumption DEF TypeOK, SetTypeOK, Abort, setVars
    <2> QED
        BY <2>1, <2>2, <2>3, <2>4 DEF TypeOK
<1>19. ASSUME NEW c \in Clients, Cancel(c)
       PROVE  TypeOK'
    <2>1. RunTypeOK'
        <3>1. run[c] \in 0..MaxRuns
            BY DEF TypeOK, CallTypeOK
        <3>2. cancelled' = cancelled \/ (run[c] # 0 /\ cancelled' = cancelled \cup {run[c]})
            BY <1>19 DEF Cancel, NoRun
        <3>3. UNCHANGED <<phase, runs, faults>>
            BY <1>19 DEF Cancel
        <3> QED
            <4>1. run[c] # 0 => run[c] \in 1..MaxRuns
                BY <3>1, BoundsAssumption
            <4>2. cancelled' \subseteq 1..MaxRuns
                BY <3>2, <4>1 DEF TypeOK, RunTypeOK
            <4> QED
                BY <3>3, <4>2 DEF TypeOK, RunTypeOK
    <2>2. CallTypeOK'
        BY <1>19, BoundsAssumption DEF TypeOK, CallTypeOK, Cancel, Goto, CallPcs, NoRun
    <2>3. MsgTypeOK'
        BY <1>19, BoundsAssumption DEF TypeOK, MsgTypeOK, Cancel, msgVars
    <2>4. SetTypeOK'
        BY <1>19, BoundsAssumption DEF TypeOK, SetTypeOK, Cancel, setVars
    <2> QED
        BY <2>1, <2>2, <2>3, <2>4 DEF TypeOK
<1>20. ASSUME NEW c \in Clients, Check(c)
       PROVE  TypeOK'
    <2>1. RunTypeOK'
        BY <1>20, BoundsAssumption DEF TypeOK, RunTypeOK, Check
    <2>2. CallTypeOK'
        BY <1>20, BoundsAssumption DEF TypeOK, CallTypeOK, Check, RunTypeOK, Goto, CallPcs
    <2>3. MsgTypeOK'
        BY <1>20, BoundsAssumption DEF TypeOK, MsgTypeOK, Check, msgVars
    <2>4. SetTypeOK'
        BY <1>20, BoundsAssumption DEF TypeOK, SetTypeOK, Check, setVars
    <2> QED
        BY <2>1, <2>2, <2>3, <2>4 DEF TypeOK
<1>21. ASSUME NEW c \in Clients, Wake(c)
       PROVE  TypeOK'
    <2>1. RunTypeOK'
        BY <1>21, BoundsAssumption DEF TypeOK, RunTypeOK, Wake
    <2>2. CallTypeOK'
        BY <1>21, BoundsAssumption DEF TypeOK, CallTypeOK, Wake, NoRun, Goto, CallPcs
    <2>3. MsgTypeOK'
        BY <1>21, BoundsAssumption DEF TypeOK, MsgTypeOK, Wake, msgVars
    <2>4. SetTypeOK'
        BY <1>21, BoundsAssumption DEF TypeOK, SetTypeOK, Wake, setVars
    <2> QED
        BY <2>1, <2>2, <2>3, <2>4 DEF TypeOK
<1>22. ASSUME NEW c \in Clients, NEW w \in Write, Set(c, w)
       PROVE  TypeOK'
    <2>1. RunTypeOK'
        BY <1>22, BoundsAssumption DEF TypeOK, RunTypeOK, Set
    <2>2. CallTypeOK'
        BY <1>22, BoundsAssumption DEF TypeOK, CallTypeOK, Set, Goto, CallPcs, callVars
    <2>3. MsgTypeOK'
        BY <1>22, BoundsAssumption DEF TypeOK, MsgTypeOK, Set, msgVars
    <2>4. SetTypeOK'
        <3>1. w.kind \in Settings /\ w.value \in Models \cup Levels
            BY DEF Write, Settings
        <3>2. current' = [current EXCEPT ![w.kind] = w.value] /\ sets < MaxSets /\ sets' = sets + 1
              /\ logged' = logged
            BY <1>22 DEF Set
        <3>3. pending' = pending \/ pending' = Append(pending, w)
            BY <1>22 DEF Set
        <3>4. late' \in BOOLEAN
            BY <1>22 DEF Set, TypeOK, SetTypeOK
        <3> QED
            BY <3>1, <3>2, <3>3, <3>4, BoundsAssumption DEF TypeOK, SetTypeOK
    <2> QED
        BY <2>1, <2>2, <2>3, <2>4 DEF TypeOK
<1>23. ASSUME NEW c \in Clients, AppendSetting(c)
       PROVE  TypeOK'
    <2>1. RunTypeOK'
        BY <1>23, BoundsAssumption DEF TypeOK, RunTypeOK, AppendSetting, Fault, NoFault
    <2>2. CallTypeOK'
        BY <1>23, BoundsAssumption DEF TypeOK, CallTypeOK, AppendSetting, Goto, CallPcs
    <2>3. MsgTypeOK'
        BY <1>23, BoundsAssumption DEF TypeOK, MsgTypeOK, AppendSetting, msgVars
    <2>4. SetTypeOK'
        <3>1. change[c] \in Write
            BY <1>23 DEF TypeOK, CallTypeOK, AppendSetting
        <3>2. logged' = logged \/ logged' = Append(logged, change[c])
            BY <1>23 DEF AppendSetting
        <3>3. UNCHANGED <<current, pending, sets, late>>
            BY <1>23 DEF AppendSetting
        <3> QED
            BY <3>1, <3>2, <3>3 DEF TypeOK, SetTypeOK
    <2> QED
        BY <2>1, <2>2, <2>3, <2>4 DEF TypeOK
<1> QED
    BY <1>1, <1>2, <1>3, <1>4, <1>5, <1>6, <1>7, <1>8, <1>9, <1>10, <1>11, <1>12, <1>13, <1>14, <1>15, <1>16, <1>17, <1>18, <1>19, <1>20, <1>21, <1>22, <1>23
    DEF Next, Loop, Call

\* Every reachable state is well typed.
THEOREM TypeCorrect == Spec => []TypeOK
BY InitType, NextType, PTL DEF Spec
-----------------------------------------------------------------------------
(* One run at a time.                                                      *)

\* The owner of the run moves on and keeps it.
OwnerStep(c) ==
    /\ Owns(c)
    /\ \E l \in RunPcs : Goto(c, l)
    /\ UNCHANGED <<phase, runs, run>>

\* A call that owns no run moves on.
CallerStep(c) ==
    /\ ~Owns(c)
    /\ \E l \in {"ready"} \cup CallPcs : Goto(c, l)
    /\ \E r \in 0..MaxRuns : run' = [run EXCEPT ![c] = r]
    /\ UNCHANGED <<phase, runs>>

BeginStep(c) ==
    /\ phase = "idle" /\ phase' # "idle"
    /\ pc[c] = "ready"
    /\ \E l \in RunPcs \ {"flushed"} : Goto(c, l)
    /\ runs' = runs + 1
    /\ run' = [run EXCEPT ![c] = runs + 1]

FinishStep(c) ==
    /\ pc[c] = "flushed"
    /\ phase' = "idle"
    /\ Goto(c, "ready")
    /\ run' = [run EXCEPT ![c] = NoRun]
    /\ UNCHANGED runs

LEMMA StepKind ==
    ASSUME TypeOK, [Next]_vars
    PROVE  \/ UNCHANGED <<phase, runs, run, pc>>
           \/ \E c \in Clients : OwnerStep(c) \/ CallerStep(c) \/ BeginStep(c) \/ FinishStep(c)
<1> DEFINE Goal == \/ UNCHANGED <<phase, runs, run, pc>>
                   \/ \E c \in Clients : OwnerStep(c) \/ CallerStep(c) \/ BeginStep(c) \/ FinishStep(c)
<1>1. CASE UNCHANGED vars
    BY <1>1 DEF vars
<1>2. ASSUME NEW c \in Clients, Prompt(c)
      PROVE  BeginStep(c)
    BY <1>2 DEF Prompt, BeginRun, BeginStep, RunPcs
<1>3. ASSUME NEW c \in Clients, Compact(c)
      PROVE  BeginStep(c)
    BY <1>3 DEF Compact, BeginRun, BeginStep, RunPcs
<1>4. ASSUME NEW c \in Clients, NavigateTree(c)
      PROVE  BeginStep(c)
    BY <1>4 DEF NavigateTree, BeginRun, BeginStep, RunPcs
<1>5. ASSUME NEW c \in Clients, Accept(c)
      PROVE  OwnerStep(c)
    BY <1>5 DEF Accept, OwnerStep, Owns, RunPcs
<1>6. ASSUME NEW c \in Clients, CompactReturns(c)
      PROVE  OwnerStep(c)
    BY <1>6 DEF CompactReturns, OwnerStep, Owns, RunPcs
<1>7. ASSUME NEW c \in Clients, ResidualFlush(c)
      PROVE  OwnerStep(c)
    BY <1>7 DEF ResidualFlush, OwnerStep, Owns, RunPcs
<1>8. ASSUME NEW c \in Clients, FinishRun(c)
      PROVE  FinishStep(c)
    BY <1>8 DEF FinishRun, FinishStep
<1>9. ASSUME NEW c \in Clients, PollSteering(c)
      PROVE  OwnerStep(c)
    BY <1>9 DEF PollSteering, DrainRefused, OwnerStep, Owns, RunPcs
<1>10. ASSUME NEW c \in Clients, PollFollowUp(c)
       PROVE  OwnerStep(c)
    BY <1>10 DEF PollFollowUp, DrainRefused, OwnerStep, Owns, RunPcs
<1>11. ASSUME NEW c \in Clients, NEW q \in Queues, Deliver(c, q)
       PROVE  OwnerStep(c)
    <2>1. pc[c] = "turn" /\ UNCHANGED <<phase, runs, run>>
        BY <1>11 DEF Deliver
    <2>2. Goto(c, "settling") \/ Goto(c, "turn_failed") \/ UNCHANGED pc
        BY <1>11 DEF Deliver
    <2>3. UNCHANGED pc => Goto(c, "turn")
        BY <2>1 DEF Goto, TypeOK, CallTypeOK
    <2> QED
        BY <2>1, <2>2, <2>3 DEF OwnerStep, Owns, RunPcs
<1>12. ASSUME NEW c \in Clients, TurnReturns(c)
       PROVE  OwnerStep(c)
    BY <1>12 DEF TurnReturns, OwnerStep, Owns, RunPcs
<1>13. ASSUME NEW c \in Clients, TurnEnd(c)
       PROVE  OwnerStep(c)
    BY <1>13 DEF TurnEnd, OwnerStep, Owns, RunPcs
<1>14. ASSUME NEW c \in Clients, Ended(c)
       PROVE  OwnerStep(c)
    BY <1>14 DEF Ended, OwnerStep, Owns, RunPcs
<1>15. ASSUME NEW c \in Clients, NEW q \in Queues, SteerOrFollowUp(c, q)
       PROVE  UNCHANGED <<phase, runs, run, pc>>
    BY <1>15 DEF SteerOrFollowUp, callVars
<1>16. ASSUME NEW c \in Clients
       PROVE  /\ UNCHANGED run => \E r \in 0..MaxRuns : run' = [run EXCEPT ![c] = r]
              /\ run[c] \in 0..MaxRuns /\ runs \in 0..MaxRuns /\ NoRun \in 0..MaxRuns
    BY BoundsAssumption DEF TypeOK, CallTypeOK, RunTypeOK, NoRun
<1>17. ASSUME NEW c \in Clients, NEW q \in Queues, Route(c, q)
       PROVE  CallerStep(c)
    BY <1>16, <1>17 DEF Route, CallerStep, Owns, RunPcs, CallPcs
<1>18. ASSUME NEW c \in Clients, NEW q \in Queues, Routed(c, q)
       PROVE  CallerStep(c)
    BY <1>16, <1>18 DEF Routed, CallerStep, Owns, RunPcs
<1>19. ASSUME NEW c \in Clients, Abort(c)
       PROVE  CallerStep(c)
    BY <1>16, <1>19 DEF Abort, CallerStep, Owns, RunPcs, CallPcs
<1>20. ASSUME NEW c \in Clients, Cancel(c)
       PROVE  CallerStep(c)
    BY <1>16, <1>20 DEF Cancel, CallerStep, Owns, RunPcs, CallPcs
<1>21. ASSUME NEW c \in Clients, Check(c)
       PROVE  CallerStep(c)
    BY <1>16, <1>21 DEF Check, CallerStep, Owns, RunPcs, CallPcs
<1>22. ASSUME NEW c \in Clients, Wake(c)
       PROVE  CallerStep(c)
    BY <1>16, <1>22 DEF Wake, CallerStep, Owns, RunPcs, CallPcs
<1>23. ASSUME NEW c \in Clients, NEW w \in Write, Set(c, w)
       PROVE  UNCHANGED <<phase, runs, run, pc>> \/ CallerStep(c)
    BY <1>16, <1>23 DEF Set, CallerStep, callVars, Owns, RunPcs, CallPcs
<1>24. ASSUME NEW c \in Clients, AppendSetting(c)
       PROVE  CallerStep(c)
    BY <1>16, <1>24 DEF AppendSetting, CallerStep, Owns, RunPcs
<1> QED
    BY <1>1, <1>2, <1>3, <1>4, <1>5, <1>6, <1>7, <1>8, <1>9, <1>10, <1>11, <1>12, <1>13, <1>14,
       <1>15, <1>17, <1>18, <1>19, <1>20, <1>21, <1>22, <1>23, <1>24
    DEF Next, Loop, Call

LEMMA NextOneRun == TypeOK /\ OneRun /\ [Next]_vars => OneRun'
<1> SUFFICES ASSUME TypeOK, OneRun, [Next]_vars
             PROVE  OneRun'
    OBVIOUS
<1>1. CASE UNCHANGED <<phase, runs, run, pc>>
    BY <1>1 DEF OneRun, Owns
<1>2. ASSUME NEW c \in Clients, OwnerStep(c)
      PROVE  OneRun'
    <2>1. \A d \in Clients : Owns(d)' <=> Owns(d)
        BY <1>2 DEF OwnerStep, Goto, Owns, TypeOK, CallTypeOK
    <2> QED
        BY <1>2, <2>1 DEF OneRun, OwnerStep
<1>3. ASSUME NEW c \in Clients, CallerStep(c)
      PROVE  OneRun'
    <2>1. PICK l \in {"ready"} \cup CallPcs : pc' = [pc EXCEPT ![c] = l]
        BY <1>3 DEF CallerStep, Goto
    <2>2. l \notin RunPcs
        BY <2>1 DEF CallPcs, RunPcs
    <2>3. \A d \in Clients : Owns(d)' <=> Owns(d)
        BY <1>3, <2>1, <2>2 DEF CallerStep, Owns, TypeOK, CallTypeOK
    <2>4. \A d \in Clients : Owns(d) => run'[d] = run[d]
        BY <1>3 DEF CallerStep, TypeOK, CallTypeOK
    <2> QED
        BY <1>3, <2>3, <2>4 DEF OneRun, CallerStep
<1>4. ASSUME NEW c \in Clients, BeginStep(c)
      PROVE  OneRun'
    <2>1. \A d \in Clients : ~Owns(d)
        BY <1>4 DEF OneRun, BeginStep
    <2>2. \A d \in Clients : Owns(d)' <=> d = c
        BY <1>4, <2>1 DEF BeginStep, Goto, Owns, TypeOK, CallTypeOK
    <2>3. run'[c] = runs'
        BY <1>4 DEF BeginStep, TypeOK, CallTypeOK
    <2> QED
        BY <1>4, <2>2, <2>3 DEF OneRun, BeginStep
<1>5. ASSUME NEW c \in Clients, FinishStep(c)
      PROVE  OneRun'
    <2>1. \A d \in Clients : Owns(d) <=> d = c
        BY <1>5 DEF OneRun, FinishStep, Owns, RunPcs
    <2>2. \A d \in Clients : ~Owns(d)'
        BY <1>5, <2>1 DEF FinishStep, Goto, Owns, RunPcs, TypeOK, CallTypeOK
    <2> QED
        BY <1>5, <2>2 DEF OneRun, FinishStep
<1> QED
    BY <1>1, <1>2, <1>3, <1>4, <1>5, StepKind

\* beginRun's check and finishRun's reset admit one run at a time, through
\* every turn, retry and flush, whatever other calls do meanwhile.
THEOREM RunsExclusive == Spec => []OneRun
<1>1. Init => OneRun
    BY DEF Init, OneRun, Owns, RunPcs
<1> QED
    BY <1>1, NextOneRun, TypeCorrect, PTL DEF Spec
-----------------------------------------------------------------------------
(* Nothing stays pending behind a run.                                     *)

\* From its last flush on, a run leaves no write behind.
FlushedClean ==
    (faults = 0 /\ ~late /\ (phase = "idle" \/ \E c \in Clients : pc[c] = "flushed"))
        => pending = <<>>

LEMMA FaultsGrow == TypeOK /\ [Next]_vars => faults' >= faults /\ (late => late')
<1> SUFFICES ASSUME TypeOK, [Next]_vars
             PROVE  faults' >= faults /\ (late => late')
    OBVIOUS
<1>1. faults \in Nat
    BY BoundsAssumption DEF TypeOK, RunTypeOK
<1>2. CASE UNCHANGED vars
    BY <1>1, <1>2 DEF vars
<1>3. ASSUME NEW c \in Clients, Prompt(c) \/ Compact(c) \/ NavigateTree(c)
      PROVE  UNCHANGED <<faults, late>>
    BY <1>3 DEF Prompt, Compact, NavigateTree, BeginRun
<1>4. ASSUME NEW c \in Clients, Accept(c) \/ CompactReturns(c) \/ FinishRun(c) \/ Ended(c)
      PROVE  UNCHANGED <<faults, late>>
    BY <1>4 DEF Accept, CompactReturns, FinishRun, Ended, setVars
<1>5. ASSUME Flush \/ Fault \/ NoFault
      PROVE  faults' >= faults
    BY <1>1, <1>5 DEF Flush, Fault, NoFault
<1>6. ASSUME NEW c \in Clients, ResidualFlush(c) \/ TurnEnd(c)
      PROVE  faults' >= faults /\ UNCHANGED late
    BY <1>5, <1>6 DEF ResidualFlush, TurnEnd
<1>7. ASSUME NEW c \in Clients, PollSteering(c) \/ PollFollowUp(c)
      PROVE  UNCHANGED <<faults, late>>
    BY <1>7 DEF PollSteering, PollFollowUp, setVars
<1>8. ASSUME NEW c \in Clients, NEW q \in Queues, Deliver(c, q)
      PROVE  faults' >= faults /\ UNCHANGED late
    BY <1>5, <1>8 DEF Deliver, setVars
<1>9. ASSUME NEW c \in Clients, TurnReturns(c)
      PROVE  faults' >= faults /\ UNCHANGED late
    BY <1>5, <1>9 DEF TurnReturns, setVars
<1>10. ASSUME NEW c \in Clients, NEW q \in Queues,
              SteerOrFollowUp(c, q) \/ Route(c, q) \/ Routed(c, q)
       PROVE  UNCHANGED <<faults, late>>
    BY <1>10 DEF SteerOrFollowUp, Route, Routed, setVars
<1>11. ASSUME NEW c \in Clients, Abort(c) \/ Cancel(c) \/ Check(c) \/ Wake(c)
       PROVE  UNCHANGED <<faults, late>>
    BY <1>11 DEF Abort, Cancel, Check, Wake, setVars
<1>12. ASSUME NEW c \in Clients, NEW w \in Write, Set(c, w)
       PROVE  UNCHANGED faults /\ (late => late')
    BY <1>12 DEF Set
<1>13. ASSUME NEW c \in Clients, AppendSetting(c)
       PROVE  faults' >= faults /\ UNCHANGED late
    BY <1>5, <1>13 DEF AppendSetting
<1> QED
    BY <1>1, <1>2, <1>3, <1>4, <1>6, <1>7, <1>8, <1>9, <1>10, <1>11, <1>12, <1>13
    DEF Next, Loop, Call

LEMMA NextFlushedClean == TypeOK /\ OneRun /\ FlushedClean /\ [Next]_vars => FlushedClean'
<1> SUFFICES ASSUME TypeOK, OneRun, FlushedClean, [Next]_vars,
                    faults' = 0, ~late',
                    phase' = "idle" \/ \E c \in Clients : pc'[c] = "flushed"
             PROVE  pending' = <<>>
    BY DEF FlushedClean
<1>1. faults = 0 /\ ~late
    BY FaultsGrow, BoundsAssumption DEF TypeOK, RunTypeOK
<1>2. CASE UNCHANGED <<phase, pc, pending>>
    BY <1>1, <1>2 DEF FlushedClean
<1>3. ASSUME NEW c \in Clients, Prompt(c) \/ Compact(c) \/ NavigateTree(c)
      PROVE  FALSE
    <2>1. BeginStep(c)
        BY <1>3 DEF Prompt, Compact, NavigateTree, BeginRun, BeginStep, RunPcs
    <2>2. \A d \in Clients : pc[d] # "flushed"
        BY <2>1 DEF OneRun, BeginStep, Owns, RunPcs
    <2>3. \A d \in Clients : pc'[d] # "flushed"
        BY <2>1, <2>2 DEF BeginStep, Goto, TypeOK, CallTypeOK
    <2> QED
        BY <2>1, <2>3 DEF BeginStep
<1>4. ASSUME NEW c \in Clients, FinishRun(c)
      PROVE  pending' = <<>>
    BY <1>1, <1>4 DEF FinishRun, FlushedClean, setVars
<1>5. ASSUME NEW c \in Clients, ResidualFlush(c)
      PROVE  pending' = <<>>
    BY <1>1, <1>5 DEF ResidualFlush, Flush, Fault
\* A step of the owner that does not end in "flushed" leaves nobody there.
<1>6. ASSUME NEW c \in Clients, Owns(c), UNCHANGED phase,
             NEW l \in RunPcs \ {"flushed"}, pc' = [pc EXCEPT ![c] = l]
      PROVE  FALSE
    <2>1. phase' # "idle"
        BY <1>6 DEF OneRun
    <2>2. \A d \in Clients : pc'[d] # "flushed"
        BY <1>6 DEF OneRun, Owns, RunPcs, TypeOK, CallTypeOK
    <2> QED
        BY <2>1, <2>2
<1>7. ASSUME NEW c \in Clients, Accept(c) \/ CompactReturns(c) \/ Ended(c)
      PROVE  FALSE
    BY <1>6, <1>7 DEF Accept, CompactReturns, Ended, Goto, Owns, RunPcs
<1>8. ASSUME NEW c \in Clients, PollSteering(c) \/ PollFollowUp(c)
      PROVE  FALSE
    BY <1>6, <1>8 DEF PollSteering, PollFollowUp, DrainRefused, Goto, Owns, RunPcs
<1>9. ASSUME NEW c \in Clients, TurnReturns(c)
      PROVE  FALSE
    BY <1>6, <1>9 DEF TurnReturns, Goto, Owns, RunPcs
<1>10. ASSUME NEW c \in Clients, TurnEnd(c)
       PROVE  FALSE
    BY <1>6, <1>10 DEF TurnEnd, Goto, Owns, RunPcs
<1>11. ASSUME NEW c \in Clients, NEW q \in Queues, Deliver(c, q)
       PROVE  FALSE
    <2>1. pc[c] = "turn" /\ UNCHANGED phase
        BY <1>11 DEF Deliver
    <2>2. \E l \in {"turn", "settling", "turn_failed"} : pc' = [pc EXCEPT ![c] = l]
        <3>1. Goto(c, "settling") \/ Goto(c, "turn_failed") \/ UNCHANGED pc
            BY <1>11 DEF Deliver
        <3>2. UNCHANGED pc => pc' = [pc EXCEPT ![c] = "turn"]
            BY <2>1 DEF TypeOK, CallTypeOK
        <3> QED
            BY <3>1, <3>2 DEF Goto
    <2> QED
        BY <1>6, <2>1, <2>2 DEF Owns, RunPcs
<1>13. ASSUME NEW c \in Clients, NEW w \in Write, Set(c, w)
       PROVE  pending' = <<>>
    <2>1. CASE phase = "idle"
        BY <1>1, <1>13, <2>1 DEF Set, FlushedClean
    <2>2. CASE phase # "idle"
        BY <1>13, <2>2 DEF Set, callVars
    <2> QED
        BY <2>1, <2>2
<1>14. ASSUME NEW c \in Clients,
              \/ Abort(c) \/ Cancel(c) \/ Check(c) \/ Wake(c) \/ AppendSetting(c)
              \/ \E q \in Queues : SteerOrFollowUp(c, q) \/ Route(c, q) \/ Routed(c, q)
       PROVE  pending' = <<>>
    <2>1. UNCHANGED pending
        BY <1>14 DEF Abort, Cancel, Check, Wake, AppendSetting, SteerOrFollowUp, Route, Routed, setVars
    <2>2. UNCHANGED phase
        BY <1>14 DEF Abort, Cancel, Check, Wake, AppendSetting, SteerOrFollowUp, Route, Routed
    <2>3. UNCHANGED pc \/ (~Owns(c) /\ \E l \in {"ready"} \cup CallPcs : Goto(c, l))
        BY <1>14 DEF Abort, Cancel, Check, Wake, AppendSetting, SteerOrFollowUp, Route, Routed,
                     callVars, Owns, RunPcs, CallPcs
    <2>4. \A d \in Clients : pc'[d] = "flushed" => pc[d] = "flushed"
        BY <2>3 DEF Goto, CallPcs, TypeOK, CallTypeOK
    <2> QED
        BY <1>1, <2>1, <2>2, <2>4 DEF FlushedClean
<1>15. CASE UNCHANGED vars
    BY <1>2, <1>15 DEF vars
<1> QED
    BY <1>3, <1>4, <1>5, <1>7, <1>8, <1>9, <1>10, <1>11, <1>13, <1>14, <1>15 DEF Next, Loop, Call

\* The flush at the end of every run leaves no write of it pending, whichever
\* way the run ended, but for a failed write or a change after that flush.
THEOREM RunsLeaveNothingPending == Spec => []NothingPendingWhenIdle
<1>1. Init => FlushedClean
    BY DEF Init, FlushedClean
<1>2. FlushedClean => NothingPendingWhenIdle
    BY DEF FlushedClean, NothingPendingWhenIdle
<1> QED
    BY <1>1, <1>2, NextFlushedClean, TypeCorrect, RunsExclusive, PTL DEF Spec
-----------------------------------------------------------------------------
(* The messages of the queues.                                             *)

LEMMA InEmpty == \A n : ~In(n, <<>>)
BY DEF In

LEMMA InAppend ==
    ASSUME NEW s \in Seq(Nat), NEW m \in Nat
    PROVE  \A n : In(n, Append(s, m)) <=> In(n, s) \/ n = m
BY AppendProperties, LenProperties DEF In

LEMMA InConcat ==
    ASSUME NEW s \in Seq(Nat), NEW t \in Seq(Nat)
    PROVE  \A n : In(n, s \o t) <=> In(n, s) \/ In(n, t)
<1> SUFFICES ASSUME NEW n
             PROVE  In(n, s \o t) <=> In(n, s) \/ In(n, t)
    OBVIOUS
<1>1. /\ Len(s) \in Nat /\ Len(t) \in Nat /\ Len(s \o t) = Len(s) + Len(t)
      /\ \A i \in 1..Len(s) + Len(t) :
             (s \o t)[i] = IF i <= Len(s) THEN s[i] ELSE t[i - Len(s)]
    BY ConcatProperties, LenProperties
<1>2. ASSUME In(n, s) PROVE In(n, s \o t)
    BY <1>1, <1>2 DEF In
<1>3. ASSUME In(n, t) PROVE In(n, s \o t)
    <2>1. PICK j \in 1..Len(t) : t[j] = n
        BY <1>3 DEF In
    <2>2. j + Len(s) \in 1..Len(s) + Len(t) /\ ~(j + Len(s) <= Len(s)) /\ j + Len(s) - Len(s) = j
        BY <1>1, <2>1
    <2>3. (s \o t)[j + Len(s)] = n
        BY <1>1, <2>1, <2>2
    <2> QED
        BY <1>1, <2>2, <2>3 DEF In
<1>4. ASSUME In(n, s \o t), ~In(n, s) PROVE In(n, t)
    <2>1. PICK i \in 1..Len(s) + Len(t) : (s \o t)[i] = n
        BY <1>1, <1>4 DEF In
    <2>2. ~(i <= Len(s))
        BY <1>1, <1>4, <2>1 DEF In
    <2>3. i - Len(s) \in 1..Len(t) /\ t[i - Len(s)] = n
        BY <1>1, <2>1, <2>2
    <2> QED
        BY <2>3 DEF In
<1> QED
    BY <1>2, <1>3, <1>4

LEMMA InHeadTail ==
    ASSUME NEW s \in Seq(Nat), s # <<>>
    PROVE  \A n : In(n, s) <=> n = Head(s) \/ In(n, Tail(s))
<1>1. s = <<Head(s)>> \o Tail(s) /\ Head(s) \in Nat /\ Tail(s) \in Seq(Nat)
    BY HeadTailProperties
<1>2. <<Head(s)>> \in Seq(Nat)
    BY <1>1
<1>3. \A n : In(n, <<Head(s)>> \o Tail(s)) <=> In(n, <<Head(s)>>) \/ In(n, Tail(s))
    BY <1>1, <1>2, InConcat
<1>4. \A n : In(n, <<Head(s)>>) <=> n = Head(s)
    BY DEF In
<1> QED
    BY <1>1, <1>3, <1>4

\* In terms of what is in the sequences, so that order survives the operations on them.
LEMMA BeforeIn ==
    ASSUME NEW s \in Seq(Nat), NEW t \in Seq(Nat)
    PROVE  Before(s, t) <=> \A m, n : In(m, s) /\ In(n, t) => m < n
BY LenProperties DEF Before, In

LEMMA IncreasingAppend ==
    ASSUME NEW s \in Seq(Nat), NEW m \in Nat
    PROVE  Increasing(Append(s, m)) <=> Increasing(s) /\ \A n : In(n, s) => n < m
<1>1. /\ Len(s) \in Nat /\ Len(Append(s, m)) = Len(s) + 1
      /\ \A i \in 1..Len(s) : Append(s, m)[i] = s[i]
      /\ Append(s, m)[Len(s) + 1] = m
    BY AppendProperties, LenProperties
<1>2. ASSUME Increasing(s), \A n : In(n, s) => n < m
      PROVE  Increasing(Append(s, m))
    <2> SUFFICES ASSUME NEW i \in 1..Len(s) + 1, NEW j \in 1..Len(s) + 1, i < j
                 PROVE  Append(s, m)[i] < Append(s, m)[j]
        BY <1>1 DEF Increasing
    <2>1. i \in 1..Len(s)
        BY <1>1
    <2>2. CASE j \in 1..Len(s)
        BY <1>1, <1>2, <2>1, <2>2 DEF Increasing
    <2>3. CASE j = Len(s) + 1
        BY <1>1, <1>2, <2>1, <2>3 DEF In
    <2> QED
        BY <1>1, <2>2, <2>3
<1>3. ASSUME Increasing(Append(s, m))
      PROVE  Increasing(s) /\ \A n : In(n, s) => n < m
    <2>1. Increasing(s)
        <3> SUFFICES ASSUME NEW i \in 1..Len(s), NEW j \in 1..Len(s), i < j
                     PROVE  s[i] < s[j]
            BY DEF Increasing
        <3>1. i \in 1..Len(s) + 1 /\ j \in 1..Len(s) + 1
            BY <1>1
        <3>2. Append(s, m)[i] < Append(s, m)[j]
            BY <1>1, <1>3, <3>1 DEF Increasing
        <3> QED
            BY <1>1, <3>2
    <2>2. ASSUME NEW i \in 1..Len(s) PROVE s[i] < m
        <3>1. i \in 1..Len(s) + 1 /\ Len(s) + 1 \in 1..Len(s) + 1 /\ i < Len(s) + 1
            BY <1>1
        <3>2. Append(s, m)[i] < Append(s, m)[Len(s) + 1]
            BY <1>1, <1>3, <3>1 DEF Increasing
        <3> QED
            BY <1>1, <3>2
    <2> QED
        BY <2>1, <2>2 DEF In
<1> QED
    BY <1>2, <1>3

LEMMA IncreasingConcat ==
    ASSUME NEW s \in Seq(Nat), NEW t \in Seq(Nat), Increasing(s \o t)
    PROVE  Increasing(s) /\ Increasing(t) /\ Before(s, t)
<1>1. /\ Len(s) \in Nat /\ Len(t) \in Nat /\ Len(s \o t) = Len(s) + Len(t)
      /\ \A i \in 1..Len(s) + Len(t) :
             (s \o t)[i] = IF i <= Len(s) THEN s[i] ELSE t[i - Len(s)]
    BY ConcatProperties, LenProperties
<1>2. \A i, j \in 1..Len(s) + Len(t) : i < j => (s \o t)[i] < (s \o t)[j]
    BY <1>1 DEF Increasing
<1>3. \A i \in 1..Len(s) : i \in 1..Len(s) + Len(t) /\ (s \o t)[i] = s[i]
    BY <1>1
<1>4. ASSUME NEW j \in 1..Len(t)
      PROVE  j + Len(s) \in 1..Len(s) + Len(t) /\ (s \o t)[j + Len(s)] = t[j]
    <2>1. j + Len(s) \in 1..Len(s) + Len(t) /\ ~(j + Len(s) <= Len(s)) /\ j + Len(s) - Len(s) = j
        BY <1>1
    <2> QED
        BY <1>1, <2>1
<1>5. Increasing(s)
    BY <1>2, <1>3 DEF Increasing
<1>6. Increasing(t)
    <2> SUFFICES ASSUME NEW i \in 1..Len(t), NEW j \in 1..Len(t), i < j
                 PROVE  t[i] < t[j]
        BY DEF Increasing
    <2>1. i + Len(s) < j + Len(s)
        BY <1>1
    <2> QED
        BY <1>2, <1>4, <2>1
<1>7. Before(s, t)
    <2> SUFFICES ASSUME NEW i \in 1..Len(s), NEW j \in 1..Len(t)
                 PROVE  s[i] < t[j]
        BY DEF Before
    <2>1. i < j + Len(s)
        BY <1>1
    <2> QED
        BY <1>2, <1>3, <1>4, <2>1
<1> QED
    BY <1>5, <1>6, <1>7

\* What was delivered of a queue, then what is in hand, then what waits: in order,
\* and numbered by what was sent.
Ordered(del, hnd, que, n) ==
    /\ Increasing(del) /\ Increasing(que) /\ Before(del, que)
    /\ \A m : In(m, del) \/ In(m, que) => m <= n
    /\ \A c \in Clients :
           /\ Increasing(hnd[c]) /\ Before(del, hnd[c]) /\ Before(hnd[c], que)
           /\ \A m : In(m, hnd[c]) => m <= n

LEMMA IncreasingEmpty == Increasing(<<>>) /\ \A s \in Seq(Nat) : Before(s, <<>>) /\ Before(<<>>, s)
BY LenProperties DEF Increasing, Before

LEMMA OrderedEnqueue ==
    ASSUME NEW del \in Seq(Nat), NEW que \in Seq(Nat), NEW hnd \in [Clients -> Seq(Nat)],
           NEW n \in Nat, Ordered(del, hnd, que, n)
    PROVE  Ordered(del, hnd, Append(que, n + 1), n + 1) /\ Ordered(del, hnd, que, n + 1)
<1>1. \A m : In(m, del) => m \in Nat
    BY ElementOfSeq, LenProperties DEF In
<1>2. \A m : In(m, que) => m \in Nat
    BY ElementOfSeq, LenProperties DEF In
<1>3. \A c \in Clients : \A m : In(m, hnd[c]) => m \in Nat
    BY ElementOfSeq, LenProperties DEF In
<1>4. Append(que, n + 1) \in Seq(Nat) /\ \A m : In(m, Append(que, n + 1)) <=> In(m, que) \/ m = n + 1
    BY InAppend, AppendProperties
<1>5. \A m : In(m, del) \/ In(m, Append(que, n + 1)) => m <= n + 1
    BY <1>1, <1>2, <1>4 DEF Ordered
<1>6. \A c \in Clients : \A m : In(m, hnd[c]) => m < n + 1 /\ m <= n + 1
    BY <1>3 DEF Ordered
<1>7. \A m : In(m, que) \/ In(m, del) => m < n + 1
    BY <1>1, <1>2 DEF Ordered
<1>8. Increasing(Append(que, n + 1))
    BY <1>7, IncreasingAppend DEF Ordered
<1>9. Before(del, Append(que, n + 1))
    BY <1>4, <1>7, BeforeIn DEF Ordered
<1>10. \A c \in Clients : Before(hnd[c], Append(que, n + 1))
    BY <1>4, <1>6, BeforeIn DEF Ordered
<1>11. \A m : In(m, del) \/ In(m, que) => m <= n + 1
    BY <1>1, <1>2, <1>7
<1>12. Ordered(del, hnd, que, n + 1)
    BY <1>6, <1>11 DEF Ordered
<1>13. Ordered(del, hnd, Append(que, n + 1), n + 1)
    BY <1>5, <1>6, <1>8, <1>9, <1>10 DEF Ordered
<1> QED
    BY <1>12, <1>13

LEMMA OrderedDrain ==
    ASSUME NEW del \in Seq(Nat), NEW x \in Seq(Nat), NEW y \in Seq(Nat),
           NEW hnd \in [Clients -> Seq(Nat)], NEW n \in Nat, NEW c \in Clients,
           Ordered(del, hnd, x \o y, n)
    PROVE  Ordered(del, [hnd EXCEPT ![c] = x], y, n)
<1>1. x \o y \in Seq(Nat) /\ \A m : In(m, x \o y) <=> In(m, x) \/ In(m, y)
    BY InConcat, ConcatProperties
<1>2. Increasing(x) /\ Increasing(y) /\ Before(x, y)
    BY IncreasingConcat DEF Ordered
<1>3. Before(del, x) /\ Before(del, y)
    BY <1>1, BeforeIn DEF Ordered
<1>4. \A d \in Clients : Before(hnd[d], y)
    BY <1>1, BeforeIn DEF Ordered
<1> QED
    BY <1>1, <1>2, <1>3, <1>4 DEF Ordered

LEMMA OrderedDeliver ==
    ASSUME NEW del \in Seq(Nat), NEW que \in Seq(Nat), NEW hnd \in [Clients -> Seq(Nat)],
           NEW n \in Nat, NEW c \in Clients, Ordered(del, hnd, que, n),
           hnd[c] # <<>>, \A d \in Clients \ {c} : hnd[d] = <<>>,
           NEW rest \in {<<>>, Tail(hnd[c])}
    PROVE  Ordered(Append(del, Head(hnd[c])), [hnd EXCEPT ![c] = rest], que, n)
<1> DEFINE h == Head(hnd[c])
           t == Tail(hnd[c])
           new == Append(del, h)
<1>1. h \in Nat /\ t \in Seq(Nat) /\ rest \in Seq(Nat) /\ <<h>> \in Seq(Nat) /\ hnd[c] = <<h>> \o t
    <2>1. hnd[c] \in Seq(Nat)
        OBVIOUS
    <2>2. h \in Nat /\ t \in Seq(Nat) /\ hnd[c] = <<h>> \o t
        BY <2>1, HeadTailProperties
    <2>3. <<h>> \in Seq(Nat)
        BY <2>2
    <2>4. rest \in Seq(Nat)
        <3>1. rest = <<>> \/ rest = t
            OBVIOUS
        <3>2. <<>> \in Seq(Nat)
            OBVIOUS
        <3> QED
            BY <2>2, <3>1, <3>2
    <2> QED
        BY <2>2, <2>3, <2>4
<1>2. Increasing(t) /\ Before(<<h>>, t)
    BY <1>1, IncreasingConcat DEF Ordered
<1>3. \A m : In(m, hnd[c]) <=> m = h \/ In(m, t)
    BY InHeadTail
<1>4. new \in Seq(Nat) /\ \A m : In(m, new) <=> In(m, del) \/ m = h
    BY <1>1, InAppend, AppendProperties
<1>5. \A m : In(m, t) => h < m
    <2>1. In(h, <<h>>)
        BY DEF In
    <2> QED
        BY <1>1, <1>2, <2>1, BeforeIn
<1>6. \A m : In(m, rest) => In(m, t)
    BY InEmpty
<1>7. \A m, k : In(m, del) /\ In(k, hnd[c]) => m < k
    BY BeforeIn DEF Ordered
<1>8. \A m, k : In(m, hnd[c]) /\ In(k, que) => m < k
    BY BeforeIn DEF Ordered
<1>9. \A m, k : In(m, del) /\ In(k, que) => m < k
    BY BeforeIn DEF Ordered
<1>10. Increasing(new)
    BY <1>1, <1>3, <1>7, IncreasingAppend DEF Ordered
<1>11. Before(new, que)
    BY <1>3, <1>4, <1>8, <1>9, BeforeIn
<1>12. Increasing(rest)
    BY <1>2, IncreasingEmpty
<1>13. Before(new, rest)
    <2>1. \A m, k : In(m, new) /\ In(k, rest) => m < k
        BY <1>3, <1>4, <1>5, <1>6, <1>7
    <2> QED
        BY <1>1, <1>4, <2>1, BeforeIn
<1>14. Before(rest, que)
    BY <1>1, <1>3, <1>6, <1>8, BeforeIn
<1>15. \A m : In(m, rest) \/ In(m, new) => m <= n
    BY <1>3, <1>4, <1>6 DEF Ordered
<1> HIDE DEF h, t, new
<1>16. ASSUME NEW d \in Clients
       PROVE  /\ Increasing([hnd EXCEPT ![c] = rest][d]) /\ Before(new, [hnd EXCEPT ![c] = rest][d])
              /\ Before([hnd EXCEPT ![c] = rest][d], que)
              /\ \A m : In(m, [hnd EXCEPT ![c] = rest][d]) => m <= n
    <2>1. CASE d = c
        BY <1>12, <1>13, <1>14, <1>15, <2>1
    <2>2. CASE d # c
        BY <1>4, <2>2, IncreasingEmpty, InEmpty
    <2> QED
        BY <2>1, <2>2
<1>17. \A m : In(m, new) \/ In(m, que) => m <= n
    BY <1>15 DEF Ordered
<1>18. Increasing(que)
    BY DEF Ordered
<1>19. Ordered(new, [hnd EXCEPT ![c] = rest], que, n)
    BY <1>10, <1>11, <1>16, <1>17, <1>18 DEF Ordered
<1> QED
    BY <1>19 DEF new, h

LEMMA OrderedDrop ==
    ASSUME NEW del \in Seq(Nat), NEW que \in Seq(Nat), NEW hnd \in [Clients -> Seq(Nat)],
           NEW n \in Nat, NEW c \in Clients, Ordered(del, hnd, que, n)
    PROVE  Ordered(del, [hnd EXCEPT ![c] = <<>>], que, n) /\ Ordered(del, hnd, <<>>, n)
BY IncreasingEmpty, InEmpty DEF Ordered

\* What a client has in hand of a queue.
HandOf(q) == [c \in Clients |-> hands[c][q]]

\* Where message n may be.
Somewhere(n) ==
    \/ n \in cleared
    \/ \E q \in Queues : \/ In(n, queue[q]) \/ In(n, delivered[q])
                        \/ \E c \in Clients : In(n, hands[c][q])

\* Messages are in hand during a turn alone, so that only the run has any and no drain
\* overwrites them.
MsgInv ==
    /\ \A q \in Queues : Ordered(delivered[q], HandOf(q), queue[q], sent)
    /\ \A c \in Clients, q \in Queues : hands[c][q] # <<>> => pc[c] = "turn"
    /\ cancelled = {} /\ faults = 0 => \A n \in 1..sent : Somewhere(n)

LEMMA MsgParts ==
    ASSUME TypeOK
    PROVE  /\ sent \in Nat
           /\ \A q \in Queues : /\ delivered[q] \in Seq(Nat) /\ queue[q] \in Seq(Nat)
                                /\ HandOf(q) \in [Clients -> Seq(Nat)]
                                /\ \A c \in Clients : HandOf(q)[c] = hands[c][q]
BY BoundsAssumption DEF TypeOK, MsgTypeOK, CallTypeOK, HandOf

LEMMA MsgInvSafe == TypeOK /\ MsgInv => NothingLost
<1> SUFFICES ASSUME TypeOK, MsgInv
             PROVE  NothingLost
    OBVIOUS
<1>1. InOrder
    BY MsgParts DEF MsgInv, Ordered, InOrder
<1>2. NothingVanishes
    BY DEF MsgInv, Somewhere, NothingVanishes
<1> QED
    BY <1>1, <1>2 DEF NothingLost

LEMMA MsgInvInit == Init => MsgInv
<1> SUFFICES ASSUME Init
             PROVE  MsgInv
    OBVIOUS
<1>1. \A q \in Queues : delivered[q] = <<>> /\ queue[q] = <<>> /\ \A c \in Clients : hands[c][q] = <<>>
    BY DEF Init, Empty
<1>2. \A q \in Queues : HandOf(q) = [c \in Clients |-> <<>>]
    BY <1>1 DEF HandOf
<1>3. <<>> \in Seq(Nat)
    OBVIOUS
<1>4. \A q \in Queues : Ordered(delivered[q], HandOf(q), queue[q], sent)
    BY <1>1, <1>2, <1>3, IncreasingEmpty, InEmpty DEF Ordered
<1>5. 1..sent = {}
    BY DEF Init
<1> QED
    BY <1>1, <1>4, <1>5 DEF MsgInv

\* The call of c moves on, and where it leaves a turn nothing is in hand.
Moves(c) ==
    /\ UNCHANGED pc \/ \E l \in {"ready"} \cup RunPcs \cup CallPcs : Goto(c, l)
    /\ pc[c] # "turn" \/ \A q \in Queues : hands[c][q] = <<>>

LEMMA TurnStays ==
    ASSUME TypeOK, MsgInv, NEW c \in Clients, Moves(c)
    PROVE  \A d \in Clients, q \in Queues : hands[d][q] # <<>> => pc'[d] = "turn"
BY DEF Moves, Goto, MsgInv, TypeOK, CallTypeOK

\* Cancellations and faults are not taken back.
Worse == cancelled \subseteq cancelled' /\ faults' >= faults

LEMMA WorseThanNone ==
    ASSUME TypeOK, Worse, cancelled' = {}, faults' = 0
    PROVE  cancelled = {} /\ faults = 0
BY BoundsAssumption DEF Worse, TypeOK, RunTypeOK

\* Steps that touch no message.
LEMMA QuietKeeps ==
    ASSUME TypeOK, MsgInv, Worse, UNCHANGED <<hands, msgVars>>,
           UNCHANGED pc \/ \E c \in Clients : Moves(c)
    PROVE  MsgInv'
<1>1. \A d \in Clients, q \in Queues : hands'[d][q] # <<>> => pc'[d] = "turn"
    BY TurnStays DEF MsgInv
<1>2. \A q \in Queues : HandOf(q)' = HandOf(q)
    BY DEF HandOf
<1>3. \A q \in Queues : Ordered(delivered'[q], HandOf(q)', queue'[q], sent')
    BY <1>2 DEF MsgInv, msgVars
<1>4. cancelled' = {} /\ faults' = 0 => \A n \in 1..sent' : Somewhere(n)'
    <2> SUFFICES ASSUME cancelled' = {}, faults' = 0, NEW n \in 1..sent'
                 PROVE  Somewhere(n)'
        OBVIOUS
    <2>1. n \in 1..sent /\ Somewhere(n)
        BY WorseThanNone DEF MsgInv, msgVars
    <2> QED
        BY <2>1 DEF Somewhere, msgVars
<1> QED
    BY <1>1, <1>3, <1>4 DEF MsgInv

LEMMA EnqueueKeeps ==
    ASSUME TypeOK, MsgInv, Worse, NEW k \in Queues, Enqueue(k), UNCHANGED hands,
           UNCHANGED pc \/ \E c \in Clients : Moves(c)
    PROVE  MsgInv'
<1>1. \A d \in Clients, q \in Queues : hands'[d][q] # <<>> => pc'[d] = "turn"
    BY TurnStays DEF MsgInv
<1>2. /\ sent' = sent + 1 /\ delivered' = delivered /\ cleared' = cleared
      /\ \A q \in Queues : queue'[q] = IF q = k THEN Append(queue[q], sent + 1) ELSE queue[q]
    BY DEF Enqueue, TypeOK, MsgTypeOK
<1>3. \A q \in Queues : HandOf(q)' = HandOf(q)
    BY DEF HandOf
<1>4. ASSUME NEW q \in Queues
      PROVE  Ordered(delivered'[q], HandOf(q)', queue'[q], sent')
    <2>1. Ordered(delivered[q], HandOf(q), queue[q], sent)
        BY DEF MsgInv
    <2>2. /\ Ordered(delivered[q], HandOf(q), Append(queue[q], sent + 1), sent + 1)
          /\ Ordered(delivered[q], HandOf(q), queue[q], sent + 1)
        BY <2>1, MsgParts, OrderedEnqueue
    <2> QED
        BY <1>2, <1>3, <2>2
<1>5. cancelled' = {} /\ faults' = 0 => \A n \in 1..sent' : Somewhere(n)'
    <2> SUFFICES ASSUME cancelled' = {}, faults' = 0, NEW n \in 1..sent'
                 PROVE  Somewhere(n)'
        OBVIOUS
    <2>1. \A q \in Queues : \A m : In(m, queue[q]) => In(m, queue'[q])
        BY <1>2, MsgParts, InAppend
    <2>2. CASE n = sent + 1
        <3>1. In(n, queue'[k])
            BY <1>2, <2>2, MsgParts, InAppend
        <3> QED
            BY <3>1 DEF Somewhere
    <2>3. CASE n # sent + 1
        <3>1. n \in 1..sent
            BY <1>2, <2>3, MsgParts
        <3>2. Somewhere(n)
            BY <3>1, WorseThanNone DEF MsgInv
        <3> QED
            BY <1>2, <2>1, <3>2 DEF Somewhere
    <2> QED
        BY <2>2, <2>3
<1> QED
    BY <1>1, <1>4, <1>5 DEF MsgInv

\* A drain, with nothing in hand: what it takes is in hand, of a turn if it is anything.
LEMMA DrainKeeps ==
    ASSUME TypeOK, MsgInv, Worse, NEW c \in Clients, NEW k \in Queues, Drain(c, k),
           UNCHANGED <<sent, delivered, cleared>>, pc[c] # "turn",
           NEW l \in RunPcs, Goto(c, l), queue[k] # <<>> => l = "turn"
    PROVE  MsgInv'
<1>1. \A q \in Queues : hands[c][q] = <<>>
    BY DEF MsgInv
<1>2. /\ Drained(k) \in Seq(Nat) /\ Remaining(k) \in Seq(Nat)
      /\ Drained(k) \o Remaining(k) = queue[k]
    BY QueueParts DEF TypeOK
<1>3. queue[k] = <<>> => Drained(k) = <<>>
    BY DEF Drained
<1>4. \A q \in Queues : queue'[q] = IF q = k THEN Remaining(q) ELSE queue[q]
    BY DEF Drain, TypeOK, MsgTypeOK
<1>5. \A d \in Clients, q \in Queues :
          hands'[d][q] = IF d = c /\ q = k THEN Drained(k) ELSE hands[d][q]
    BY DEF Drain, Held, TypeOK, CallTypeOK
<1>6. \A d \in Clients, q \in Queues : hands'[d][q] # <<>> => pc'[d] = "turn"
    BY <1>1, <1>3, <1>5 DEF MsgInv, Goto, TypeOK, CallTypeOK
<1>7. ASSUME NEW q \in Queues
      PROVE  Ordered(delivered'[q], HandOf(q)', queue'[q], sent')
    <2>1. Ordered(delivered[q], HandOf(q), queue[q], sent)
        BY DEF MsgInv
    <2>2. CASE q = k
        <3>1. HandOf(q)' = [HandOf(q) EXCEPT ![c] = Drained(k)]
            BY <1>5, <2>2 DEF HandOf
        <3>2. Ordered(delivered[q], HandOf(q), Drained(k) \o Remaining(k), sent)
            BY <1>2, <2>1, <2>2
        <3>3. Ordered(delivered[q], [HandOf(q) EXCEPT ![c] = Drained(k)], Remaining(k), sent)
            BY <1>2, <3>2, MsgParts, OrderedDrain
        <3> QED
            BY <1>4, <2>2, <3>1, <3>3
    <2>3. CASE q # k
        <3>1. HandOf(q)' = HandOf(q)
            BY <1>5, <2>3 DEF HandOf
        <3> QED
            BY <1>4, <2>1, <2>3, <3>1
    <2> QED
        BY <2>2, <2>3
<1>8. cancelled' = {} /\ faults' = 0 => \A n \in 1..sent' : Somewhere(n)'
    <2> SUFFICES ASSUME cancelled' = {}, faults' = 0, NEW n \in 1..sent'
                 PROVE  Somewhere(n)'
        OBVIOUS
    <2>1. Somewhere(n)
        BY WorseThanNone DEF MsgInv
    <2>2. In(n, queue[k]) => In(n, queue'[k]) \/ In(n, hands'[c][k])
        <3> DEFINE dr == Drained(k)
                   re == Remaining(k)
        <3>1. In(n, dr \o re) <=> In(n, dr) \/ In(n, re)
            <4> dr \in Seq(Nat) /\ re \in Seq(Nat)
                BY <1>2
            <4> HIDE DEF dr, re
            <4> QED
                BY InConcat
        <3>2. queue[k] = dr \o re
            BY <1>2
        <3>3. queue'[k] = re /\ hands'[c][k] = dr
            BY <1>4, <1>5
        <3> HIDE DEF dr, re
        <3> QED
            BY <3>1, <3>2, <3>3
    <2>3. \A d \in Clients, q \in Queues : In(n, hands[d][q]) => In(n, hands'[d][q])
        BY <1>1, <1>5, InEmpty
    <2> QED
        BY <1>4, <2>1, <2>2, <2>3 DEF Somewhere
<1> QED
    BY <1>6, <1>7, <1>8 DEF MsgInv

LEMMA DeliverKeeps ==
    ASSUME TypeOK, OneRun, MsgInv, Worse, NEW c \in Clients, NEW k \in Queues, Deliver(c, k)
    PROVE  MsgInv'
<1> DEFINE head == Head(hands[c][k])
           tail == Tail(hands[c][k])
<1>1. /\ pc[c] = "turn" /\ hands[c][k] # <<>> /\ hands[c][k] \in Seq(Nat)
      /\ UNCHANGED <<queue, sent, cleared, cancelled>>
    BY DEF Deliver, TypeOK, CallTypeOK
<1>2. ASSUME NEW d \in Clients \ {c}, NEW q \in Queues
      PROVE  hands[d][q] = <<>>
    BY <1>1 DEF MsgInv, OneRun, Owns, RunPcs
<1>3. head \in Nat /\ tail \in Seq(Nat)
    BY <1>1, HeadTailProperties
<1>4. ASSUME hands' = [hands EXCEPT ![c] = Empty], UNCHANGED delivered \/ delivered' = [delivered EXCEPT ![k] = Append(@, head)],
             cancelled # {} \/ faults' # 0
      PROVE  MsgInv'
    <2>1. \A d \in Clients, q \in Queues : hands'[d][q] = <<>>
        BY <1>2, <1>4 DEF Empty, TypeOK, CallTypeOK
    <2>2. ASSUME NEW q \in Queues
          PROVE  Ordered(delivered'[q], HandOf(q)', queue'[q], sent')
        <3>1. Ordered(delivered[q], HandOf(q), queue[q], sent)
            BY DEF MsgInv
        <3>2. HandOf(q)' = [HandOf(q) EXCEPT ![c] = <<>>]
            BY <2>1, <1>2 DEF HandOf
        <3>3. Ordered(delivered[q], [HandOf(q) EXCEPT ![c] = <<>>], queue[q], sent)
            BY <3>1, MsgParts, OrderedDrop
        <3>4. CASE delivered'[q] = delivered[q]
            BY <1>1, <3>2, <3>3, <3>4
        <3>5. CASE q = k /\ delivered'[q] = Append(delivered[q], head)
            <4>1. HandOf(q)[c] = hands[c][k] /\ \A d \in Clients \ {c} : HandOf(q)[d] = <<>>
                BY <1>2, <3>5 DEF HandOf
            <4>2. Ordered(Append(delivered[q], Head(HandOf(q)[c])), [HandOf(q) EXCEPT ![c] = <<>>],
                          queue[q], sent)
                BY <1>1, <3>1, <4>1, MsgParts, OrderedDeliver
            <4> QED
                BY <1>1, <3>2, <3>5, <4>1, <4>2
        <3>6. delivered'[q] = delivered[q] \/ (q = k /\ delivered'[q] = Append(delivered[q], head))
            BY <1>4 DEF TypeOK, MsgTypeOK
        <3> QED
            BY <3>4, <3>5, <3>6
    <2> QED
        BY <1>1, <1>4, <2>1, <2>2 DEF MsgInv
<1>5. ASSUME delivered' = [delivered EXCEPT ![k] = Append(@, head)], hands' = Held(c, k, tail),
             UNCHANGED pc, UNCHANGED faults
      PROVE  MsgInv'
    <2>1. \A d \in Clients, q \in Queues :
              hands'[d][q] = IF d = c /\ q = k THEN tail ELSE hands[d][q]
        BY <1>5 DEF Held, TypeOK, CallTypeOK
    <2>2. \A q \in Queues : delivered'[q] = IF q = k THEN Append(delivered[q], head) ELSE delivered[q]
        BY <1>5 DEF TypeOK, MsgTypeOK
    <2>3. \A d \in Clients, q \in Queues : hands'[d][q] # <<>> => pc'[d] = "turn"
        BY <1>1, <1>5, <2>1 DEF MsgInv
    <2>4. ASSUME NEW q \in Queues
          PROVE  Ordered(delivered'[q], HandOf(q)', queue'[q], sent')
        <3>1. Ordered(delivered[q], HandOf(q), queue[q], sent)
            BY DEF MsgInv
        <3>2. CASE q = k
            <4>1. HandOf(q)[c] = hands[c][k] /\ \A d \in Clients \ {c} : HandOf(q)[d] = <<>>
                BY <1>2, <3>2 DEF HandOf
            <4>2. HandOf(q)' = [HandOf(q) EXCEPT ![c] = tail]
                BY <2>1, <3>2 DEF HandOf
            <4>3. Ordered(Append(delivered[q], Head(HandOf(q)[c])),
                          [HandOf(q) EXCEPT ![c] = Tail(HandOf(q)[c])], queue[q], sent)
                BY <1>1, <3>1, <4>1, MsgParts, OrderedDeliver
            <4> QED
                BY <1>1, <2>2, <3>2, <4>1, <4>2, <4>3
        <3>3. CASE q # k
            <4>1. HandOf(q)' = HandOf(q)
                BY <2>1, <3>3 DEF HandOf
            <4> QED
                BY <1>1, <2>2, <3>1, <3>3, <4>1
        <3> QED
            BY <3>2, <3>3
    <2>5. cancelled' = {} /\ faults' = 0 => \A n \in 1..sent' : Somewhere(n)'
        <3> SUFFICES ASSUME cancelled' = {}, faults' = 0, NEW n \in 1..sent'
                     PROVE  Somewhere(n)'
            OBVIOUS
        <3>1. Somewhere(n)
            BY <1>1, WorseThanNone DEF MsgInv
        <3>2. \A q \in Queues : In(n, delivered[q]) => In(n, delivered'[q])
            BY <1>3, <2>2, MsgParts, InAppend
        <3>3. In(n, hands[c][k]) => In(n, hands'[c][k]) \/ In(n, delivered'[k])
            BY <1>1, <1>3, <2>1, <2>2, MsgParts, InHeadTail, InAppend
        <3> QED
            BY <1>1, <2>1, <3>1, <3>2, <3>3 DEF Somewhere
    <2> QED
        BY <2>3, <2>4, <2>5 DEF MsgInv
<1>6. \/ hands' = [hands EXCEPT ![c] = Empty] /\ UNCHANGED delivered /\ Cancelled(c)
      \/ /\ hands' = [hands EXCEPT ![c] = Empty] /\ Fault
         /\ delivered' = [delivered EXCEPT ![k] = Append(@, head)]
      \/ /\ delivered' = [delivered EXCEPT ![k] = Append(@, head)] /\ hands' = Held(c, k, tail)
         /\ UNCHANGED pc /\ UNCHANGED faults
    BY DEF Deliver, NoFault
<1>7. Cancelled(c) => cancelled # {}
    BY DEF Cancelled
<1>8. Fault => faults' # 0
    BY BoundsAssumption DEF Fault, TypeOK, RunTypeOK
<1> QED
    BY <1>4, <1>5, <1>6, <1>7, <1>8

LEMMA AbortKeeps ==
    ASSUME TypeOK, MsgInv, NEW c \in Clients, Abort(c)
    PROVE  MsgInv'
<1>1. /\ queue' = Empty /\ UNCHANGED <<hands, sent, delivered, cancelled, faults>>
      /\ cleared' = cleared \cup {n \in 1..sent : \E q \in Queues : In(n, queue[q])}
    BY DEF Abort, In
<1>2. \A q \in Queues : queue'[q] = <<>>
    BY <1>1 DEF Empty
<1>3. Moves(c)
    BY DEF Abort, Moves, CallPcs
<1>4. \A d \in Clients, q \in Queues : hands'[d][q] # <<>> => pc'[d] = "turn"
    BY <1>1, <1>3, TurnStays
<1>5. ASSUME NEW q \in Queues
      PROVE  Ordered(delivered'[q], HandOf(q)', queue'[q], sent')
    <2>1. Ordered(delivered[q], HandOf(q), queue[q], sent)
        BY DEF MsgInv
    <2>2. HandOf(q)' = HandOf(q)
        BY <1>1 DEF HandOf
    <2>3. Ordered(delivered[q], HandOf(q), <<>>, sent)
        BY <2>1, MsgParts, OrderedDrop
    <2> QED
        BY <1>1, <1>2, <2>2, <2>3
<1>6. cancelled' = {} /\ faults' = 0 => \A n \in 1..sent' : Somewhere(n)'
    BY <1>1 DEF MsgInv, Somewhere
<1> QED
    BY <1>4, <1>5, <1>6 DEF MsgInv

LEMMA MsgInvStep == TypeOK /\ OneRun /\ MsgInv /\ [Next]_vars => MsgInv'
<1> SUFFICES ASSUME TypeOK, OneRun, MsgInv, [Next]_vars
             PROVE  MsgInv'
    OBVIOUS
<1>1. faults' >= faults
    BY FaultsGrow
<1>2. UNCHANGED cancelled => Worse
    BY <1>1 DEF Worse
<1>3. CASE UNCHANGED vars
    BY <1>2, <1>3, QuietKeeps DEF vars, msgVars
<1>4. ASSUME NEW c \in Clients, Prompt(c) \/ Compact(c) \/ NavigateTree(c)
      PROVE  MsgInv'
    <2>1. UNCHANGED <<hands, msgVars, cancelled>> /\ Moves(c)
        BY <1>4 DEF Prompt, Compact, NavigateTree, BeginRun, Moves, RunPcs
    <2> QED
        BY <1>2, <2>1, QuietKeeps
<1>5. ASSUME NEW c \in Clients,
             Accept(c) \/ CompactReturns(c) \/ ResidualFlush(c) \/ FinishRun(c) \/ TurnEnd(c) \/ Ended(c)
      PROVE  MsgInv'
    <2>1. UNCHANGED <<hands, msgVars, cancelled>> /\ Moves(c)
        BY <1>5 DEF Accept, CompactReturns, ResidualFlush, FinishRun, TurnEnd, Ended, Moves, RunPcs
    <2> QED
        BY <1>2, <2>1, QuietKeeps
<1>6. ASSUME NEW c \in Clients, TurnReturns(c)
      PROVE  MsgInv'
    <2>1. UNCHANGED <<hands, msgVars, cancelled>> /\ Moves(c)
        BY <1>6 DEF TurnReturns, Moves, RunPcs
    <2> QED
        BY <1>2, <2>1, QuietKeeps
<1>7. ASSUME NEW c \in Clients, DrainRefused(c), UNCHANGED <<msgVars, cancelled>>, pc[c] # "turn"
      PROVE  MsgInv'
    <2>1. UNCHANGED hands /\ Moves(c)
        BY <1>7 DEF DrainRefused, Moves, RunPcs
    <2> QED
        BY <1>2, <1>7, <2>1, QuietKeeps
<1>8. ASSUME NEW c \in Clients, PollSteering(c)
      PROVE  MsgInv'
    <2>1. /\ pc[c] \in {"poll_more", "poll_done"}
          /\ UNCHANGED <<cancelled, sent, delivered, cleared>>
        BY <1>8 DEF PollSteering
    <2>2. CASE DrainRefused(c)
        BY <1>7, <2>1, <2>2 DEF DrainRefused, msgVars
    <2>3. CASE ~DrainRefused(c)
        <3> DEFINE l == IF pc[c] = "poll_more" \/ queue["steer"] # <<>> THEN "turn" ELSE "follow_up"
        <3>1. Drain(c, "steer") /\ Goto(c, l)
            BY <1>8, <2>3 DEF PollSteering
        <3>2. l \in RunPcs /\ (queue["steer"] # <<>> => l = "turn") /\ "steer" \in Queues
            BY DEF RunPcs, Queues
        <3> HIDE DEF l
        <3> QED
            BY <1>2, <2>1, <3>1, <3>2, DrainKeeps
    <2> QED
        BY <2>2, <2>3
<1>9. ASSUME NEW c \in Clients, PollFollowUp(c)
      PROVE  MsgInv'
    <2>1. /\ pc[c] = "follow_up"
          /\ UNCHANGED <<cancelled, sent, delivered, cleared>>
        BY <1>9 DEF PollFollowUp
    <2>2. CASE DrainRefused(c)
        BY <1>7, <2>1, <2>2 DEF DrainRefused, msgVars
    <2>3. CASE ~DrainRefused(c)
        <3> DEFINE l == IF queue["followUp"] # <<>> THEN "turn" ELSE "ended"
        <3>1. Drain(c, "followUp") /\ Goto(c, l)
            BY <1>9, <2>3 DEF PollFollowUp
        <3>2. l \in RunPcs /\ (queue["followUp"] # <<>> => l = "turn") /\ "followUp" \in Queues
            BY DEF RunPcs, Queues
        <3> HIDE DEF l
        <3> QED
            BY <1>2, <2>1, <3>1, <3>2, DrainKeeps
    <2> QED
        BY <2>2, <2>3
<1>10. ASSUME NEW c \in Clients, NEW q \in Queues, Deliver(c, q)
       PROVE  MsgInv'
    <2>1. UNCHANGED cancelled
        BY <1>10 DEF Deliver
    <2> QED
        BY <1>2, <1>10, <2>1, DeliverKeeps
<1>11. ASSUME NEW c \in Clients, NEW q \in Queues, SteerOrFollowUp(c, q)
       PROVE  MsgInv'
    <2>1. Enqueue(q) /\ UNCHANGED <<hands, pc, cancelled>>
        BY <1>11 DEF SteerOrFollowUp, callVars
    <2> QED
        BY <1>2, <2>1, EnqueueKeeps
<1>12. ASSUME NEW c \in Clients, NEW q \in Queues, Routed(c, q)
       PROVE  MsgInv'
    <2>1. Enqueue(q) /\ UNCHANGED <<hands, cancelled>> /\ Moves(c)
        BY <1>12 DEF Routed, Moves
    <2> QED
        BY <1>2, <2>1, EnqueueKeeps
<1>13. ASSUME NEW c \in Clients, NEW q \in Queues, Route(c, q)
       PROVE  MsgInv'
    <2>1. UNCHANGED <<hands, msgVars, cancelled>> /\ Moves(c)
        BY <1>13 DEF Route, Moves, CallPcs
    <2> QED
        BY <1>2, <2>1, QuietKeeps
<1>14. ASSUME NEW c \in Clients, Cancel(c)
       PROVE  MsgInv'
    <2>1. UNCHANGED <<hands, msgVars>> /\ Moves(c) /\ cancelled \subseteq cancelled'
        BY <1>14 DEF Cancel, Moves, CallPcs
    <2> QED
        BY <1>1, <2>1, QuietKeeps DEF Worse
<1>15. ASSUME NEW c \in Clients, Check(c) \/ Wake(c) \/ AppendSetting(c)
       PROVE  MsgInv'
    <2>1. UNCHANGED <<hands, msgVars, cancelled>> /\ Moves(c)
        BY <1>15 DEF Check, Wake, AppendSetting, Moves, CallPcs
    <2> QED
        BY <1>2, <2>1, QuietKeeps
<1>16. ASSUME NEW c \in Clients, NEW w \in Write, Set(c, w)
       PROVE  MsgInv'
    <2>1. UNCHANGED <<hands, msgVars, cancelled>> /\ Moves(c)
        BY <1>16 DEF Set, Moves, CallPcs, callVars
    <2> QED
        BY <1>2, <2>1, QuietKeeps
<1> QED
    BY <1>3, <1>4, <1>5, <1>6, <1>8, <1>9, <1>10, <1>11, <1>12, <1>13, <1>14, <1>15, <1>16,
       AbortKeeps
    DEF Next, Loop, Call

\* What is queued reaches the session once and in order, whatever drains, retries, aborts
\* and further runs intervene, and none is dropped but by an abort or a failed write
\* (drainSteeringMessages, drainFollowUpMessages, Abort).
THEOREM MessagesKept == Spec => []NothingLost
BY MsgInvInit, MsgInvStep, MsgInvSafe, TypeCorrect, RunsExclusive, PTL DEF Spec
-----------------------------------------------------------------------------
(* What reopening the session would recover.                               *)

OneSetter == \A c, d \in Setters : c = d

Recorded == logged \o pending

\* Only a setter on its way to the session has a write in hand; it was made with nothing
\* pending, nothing becomes pending meanwhile, and the setting still has its value.
SettingsInv ==
    /\ \A c \in Clients : change[c] # NoWrite => pc[c] = "append" /\ c \in Setters
    /\ (faults = 0 /\ ~late) =>
           \A c \in Clients :
               change[c] # NoWrite => pending = <<>> /\ current[change[c].kind] = change[c].value
    /\ SettingsRecoverable

LEMMA LastSetAppended ==
    ASSUME NEW s \in Seq(Write), NEW w \in Write
    PROVE  /\ LastSet(Append(s, w), w.kind, w.value)
           /\ \A k, v : k # w.kind /\ LastSet(s, k, v) => LastSet(Append(s, w), k, v)
<1> DEFINE t == Append(s, w)
<1>1. /\ Len(s) \in Nat /\ Len(t) = Len(s) + 1
      /\ t[Len(s) + 1] = w /\ \A i \in 1..Len(s) : t[i] = s[i]
    BY AppendProperties, LenProperties
<1>2. w = [kind |-> w.kind, value |-> w.value]
    BY DEF Write
<1> HIDE DEF t
<1>3. LastSet(t, w.kind, w.value)
    <2>1. Len(t) \in 1..Len(t) /\ t[Len(t)] = [kind |-> w.kind, value |-> w.value]
        BY <1>1, <1>2
    <2>2. \A j \in (Len(t) + 1)..Len(t) : t[j].kind # w.kind
        BY <1>1
    <2> QED
        BY <2>1, <2>2 DEF LastSet
<1>4. ASSUME NEW k, NEW v, k # w.kind, LastSet(s, k, v)
      PROVE  LastSet(t, k, v)
    <2>1. ASSUME NEW i \in 1..Len(s), s[i] = [kind |-> k, value |-> v],
                 \A j \in (i + 1)..Len(s) : s[j].kind # k
          PROVE  LastSet(t, k, v)
        <3>1. i \in 1..Len(t) /\ t[i] = [kind |-> k, value |-> v]
            BY <1>1, <2>1
        <3>2. ASSUME NEW j \in (i + 1)..Len(t)
              PROVE  t[j].kind # k
            <4>1. j \in (i + 1)..Len(s) \/ j = Len(s) + 1
                BY <1>1
            <4>2. j \in (i + 1)..Len(s) => j \in 1..Len(s)
                BY <1>1
            <4> QED
                BY <1>1, <1>4, <2>1, <4>1, <4>2
        <3> QED
            BY <3>1, <3>2 DEF LastSet
    <2>2. ASSUME \A i \in 1..Len(s) : s[i].kind # k,
                 v = IF k = "model" THEN Model0 ELSE Level0
          PROVE  LastSet(t, k, v)
        <3>1. ASSUME NEW i \in 1..Len(t)
              PROVE  t[i].kind # k
            <4>1. i \in 1..Len(s) \/ i = Len(s) + 1
                BY <1>1
            <4> QED
                BY <1>1, <1>4, <2>2, <4>1
        <3> QED
            BY <2>2, <3>1 DEF LastSet
    <2> QED
        BY <1>4, <2>1, <2>2 DEF LastSet
<1> QED
    BY <1>3, <1>4 DEF t

\* Steps that touch no setting, and no write in hand.
StillSet ==
    /\ UNCHANGED <<change, current, late>>
    /\ \A c \in Clients : pc[c] = "append" => pc'[c] = "append"
    /\ faults' = 0 => faults = 0
    /\ faults' = 0 /\ ~late => (pending = <<>> => pending' = <<>>) /\ Recorded' = Recorded

LEMMA StillSetKeeps ==
    ASSUME TypeOK, SettingsInv, StillSet
    PROVE  SettingsInv'
<1>1. \A c \in Clients : change'[c] # NoWrite => pc'[c] = "append" /\ c \in Setters
    BY DEF SettingsInv, StillSet
<1>2. ASSUME faults' = 0, ~late', NEW c \in Clients, change'[c] # NoWrite
      PROVE  pending' = <<>> /\ current'[change'[c].kind] = change'[c].value
    BY <1>2 DEF SettingsInv, StillSet
<1>3. SettingsRecoverable'
    <2> SUFFICES ASSUME faults' = 0, ~late', NEW k \in Settings,
                        \A c \in Clients : change'[c] # NoWrite => change'[c].kind # k
                 PROVE  LastSet(Recorded', k, current'[k])
        BY DEF SettingsRecoverable, Recorded
    <2>1. LastSet(Recorded, k, current[k])
        BY DEF SettingsInv, SettingsRecoverable, StillSet, Recorded
    <2> QED
        BY <2>1 DEF StillSet
<1> QED
    BY <1>1, <1>2, <1>3 DEF SettingsInv

LEMMA FlushKeepsRecord ==
    ASSUME TypeOK, Flush
    PROVE  /\ faults' = 0 => faults = 0
           /\ faults' = 0 => pending' = <<>> /\ Recorded' = Recorded
<1>1. logged \in Seq(Write) /\ pending \in Seq(Write) /\ faults \in Nat
    BY BoundsAssumption DEF TypeOK, SetTypeOK, RunTypeOK
<1>2. CASE logged' = logged \o pending /\ pending' = <<>> /\ NoFault
    <2>1. (logged \o pending) \o <<>> = logged \o pending
        BY <1>1, ConcatEmptySeq, ConcatProperties
    <2> QED
        BY <1>2, <2>1 DEF Recorded, NoFault
<1>3. CASE Fault
    BY <1>1, <1>3 DEF Fault
<1> QED
    BY <1>2, <1>3 DEF Flush

LEMMA SetKeeps ==
    ASSUME OneSetter, TypeOK, FlushedClean, SettingsInv,
           NEW c \in Clients, NEW w \in Write, Set(c, w)
    PROVE  SettingsInv'
<1>1. /\ c \in Setters /\ pc[c] = "ready" /\ current' = [current EXCEPT ![w.kind] = w.value]
      /\ UNCHANGED <<logged, faults>>
    BY DEF Set
<1>2. \A d \in Clients : change[d] = NoWrite
    BY <1>1 DEF SettingsInv, OneSetter
<1>3. w.kind \in Settings /\ w # NoWrite
    BY DEF Write, Settings, NoWrite
<1>4. logged \in Seq(Write) /\ pending \in Seq(Write) /\ current \in [Settings -> Models \cup Levels]
    BY DEF TypeOK, SetTypeOK
<1>5. /\ current'[w.kind] = w.value
      /\ \A k \in Settings : k # w.kind => current'[k] = current[k]
    BY <1>1, <1>3, <1>4
<1>6. CASE phase # "idle"
    <2>1. pending' = Append(pending, w) /\ (late => late') /\ UNCHANGED <<pc, run, hands, change>>
        BY <1>6 DEF Set, callVars
    <2>2. Recorded \in Seq(Write) /\ Recorded' = Append(Recorded, w)
        <3>1. logged \o Append(pending, w) = Append(logged \o pending, w)
            BY <1>4, AppendProperties, ConcatProperties, AppendIsConcat, ConcatAssociative
        <3> QED
            BY <1>1, <1>4, <2>1, <3>1, ConcatProperties DEF Recorded
    <2>3. SettingsRecoverable'
        <3> SUFFICES ASSUME faults' = 0, ~late', NEW k \in Settings
                     PROVE  LastSet(Recorded', k, current'[k])
            BY DEF SettingsRecoverable, Recorded
        <3>1. LastSet(Recorded, k, current[k])
            BY <1>1, <1>2, <2>1 DEF SettingsInv, SettingsRecoverable, Recorded
        <3> QED
            BY <1>5, <2>2, <3>1, LastSetAppended
    <2> QED
        BY <1>2, <2>1, <2>3 DEF SettingsInv
<1>7. CASE phase = "idle"
    <2>1. /\ Goto(c, "append") /\ change' = [change EXCEPT ![c] = w]
          /\ UNCHANGED <<pending, late, run, hands>>
        BY <1>7 DEF Set
    <2>2. /\ change'[c] = w /\ pc'[c] = "append"
          /\ \A d \in Clients : change'[d] # NoWrite => d = c
        BY <1>2, <2>1 DEF Goto, TypeOK, CallTypeOK
    <2>3. faults' = 0 /\ ~late' => pending' = <<>>
        BY <1>1, <1>7, <2>1 DEF FlushedClean
    <2>4. SettingsRecoverable'
        <3> SUFFICES ASSUME faults' = 0, ~late', NEW k \in Settings,
                            \A d \in Clients : change'[d] # NoWrite => change'[d].kind # k
                     PROVE  LastSet(Recorded', k, current'[k])
            BY DEF SettingsRecoverable, Recorded
        <3>1. k # w.kind
            BY <1>3, <2>2
        <3>2. LastSet(Recorded, k, current[k])
            BY <1>1, <1>2, <2>1 DEF SettingsInv, SettingsRecoverable, Recorded
        <3> QED
            BY <1>1, <1>5, <2>1, <3>1, <3>2 DEF Recorded
    <2> QED
        BY <1>1, <1>5, <2>2, <2>3, <2>4 DEF SettingsInv
<1> QED
    BY <1>6, <1>7

LEMMA AppendSettingKeeps ==
    ASSUME OneSetter, TypeOK, SettingsInv, NEW c \in Clients, AppendSetting(c)
    PROVE  SettingsInv'
<1> DEFINE w == change[c]
<1>1. /\ pc[c] = "append" /\ w \in Write /\ w # NoWrite
      /\ change' = [change EXCEPT ![c] = NoWrite] /\ UNCHANGED <<current, pending, late>>
    BY DEF AppendSetting, TypeOK, CallTypeOK, Write, NoWrite
<1>2. \A d \in Clients \ {c} : change[d] = NoWrite
    BY <1>1 DEF SettingsInv, OneSetter
<1>3. \A d \in Clients : change'[d] = NoWrite
    BY <1>1, <1>2 DEF TypeOK, CallTypeOK
<1>4. SettingsRecoverable'
    <2> SUFFICES ASSUME faults' = 0, ~late', NEW k \in Settings
                 PROVE  LastSet(Recorded', k, current'[k])
        BY DEF SettingsRecoverable, Recorded
    <2>1. faults = 0 /\ logged' = Append(logged, w)
        BY BoundsAssumption DEF AppendSetting, Fault, NoFault, TypeOK, RunTypeOK
    <2>2. pending = <<>> /\ current[w.kind] = w.value
        BY <1>1, <2>1 DEF SettingsInv
    <2>3. logged \in Seq(Write)
        BY DEF TypeOK, SetTypeOK
    <2>4. Recorded = logged /\ Recorded' = Append(logged, w)
        <3>1. logged \o <<>> = logged
            BY <2>3, ConcatEmptySeq
        <3>2. Append(logged, w) \o <<>> = Append(logged, w)
            BY <1>1, <2>3, ConcatEmptySeq, AppendProperties
        <3> QED
            BY <1>1, <2>1, <2>2, <3>1, <3>2 DEF Recorded
    <2>5. CASE k = w.kind
        BY <1>1, <2>2, <2>3, <2>4, <2>5, LastSetAppended
    <2>6. CASE k # w.kind
        <3>1. LastSet(Recorded, k, current[k])
            BY <1>1, <1>2, <2>1, <2>6 DEF SettingsInv, SettingsRecoverable, Recorded
        <3> QED
            BY <1>1, <2>3, <2>4, <2>6, <3>1, LastSetAppended
    <2> QED
        BY <2>5, <2>6
<1> QED
    BY <1>3, <1>4 DEF SettingsInv

LEMMA SettingsInvStep ==
    ASSUME OneSetter
    PROVE  TypeOK /\ FlushedClean /\ SettingsInv /\ [Next]_vars => SettingsInv'
<1> SUFFICES ASSUME TypeOK, FlushedClean, SettingsInv, [Next]_vars
             PROVE  SettingsInv'
    OBVIOUS
<1>1. faults \in Nat /\ pc \in [Clients -> {"ready"} \cup RunPcs \cup CallPcs]
    BY BoundsAssumption DEF TypeOK, RunTypeOK, CallTypeOK
\* A step away from another place than "append", which flushes or leaves the settings alone.
<1>2. ASSUME NEW c \in Clients, pc[c] # "append",
             UNCHANGED pc \/ \E l \in {"ready"} \cup RunPcs \cup CallPcs : Goto(c, l),
             UNCHANGED <<change, current, late>>,
             \/ UNCHANGED <<pending, logged>> /\ (UNCHANGED faults \/ Fault)
             \/ Flush
      PROVE  SettingsInv'
    <2>1. \A d \in Clients : pc[d] = "append" => pc'[d] = "append"
        BY <1>1, <1>2 DEF Goto
    <2>2. /\ faults' = 0 => faults = 0
          /\ faults' = 0 => (pending = <<>> => pending' = <<>>) /\ Recorded' = Recorded
        BY <1>1, <1>2, FlushKeepsRecord DEF Fault, Recorded
    <2>3. StillSet
        BY <1>2, <2>1, <2>2 DEF StillSet
    <2> QED
        BY <2>3, StillSetKeeps
<1>3. ASSUME NEW c \in Clients, Prompt(c) \/ Compact(c) \/ NavigateTree(c)
      PROVE  SettingsInv'
    <2>1. /\ phase = "idle" /\ pc[c] = "ready" /\ UNCHANGED <<change, current, logged, late, faults>>
          /\ pending' \in {pending, <<>>} /\ \E l \in RunPcs : Goto(c, l)
        BY <1>3 DEF Prompt, Compact, NavigateTree, BeginRun, RunPcs
    <2>2. faults = 0 /\ ~late => UNCHANGED pending
        BY <2>1 DEF FlushedClean
    <2>3. \A d \in Clients : pc[d] = "append" => pc'[d] = "append"
        BY <1>1, <2>1 DEF Goto
    <2>4. StillSet
        BY <2>1, <2>2, <2>3 DEF StillSet, Recorded
    <2> QED
        BY <2>4, StillSetKeeps
<1>4. ASSUME NEW c \in Clients, Accept(c) \/ CompactReturns(c) \/ FinishRun(c)
      PROVE  SettingsInv'
    BY <1>2, <1>4 DEF Accept, CompactReturns, FinishRun, RunPcs, setVars
<1>5. ASSUME NEW c \in Clients, ResidualFlush(c) \/ TurnEnd(c)
      PROVE  SettingsInv'
    BY <1>2, <1>5 DEF ResidualFlush, TurnEnd, RunPcs
<1>6. ASSUME NEW c \in Clients, PollSteering(c) \/ PollFollowUp(c)
      PROVE  SettingsInv'
    BY <1>2, <1>6 DEF PollSteering, PollFollowUp, DrainRefused, RunPcs, setVars
<1>7. ASSUME NEW c \in Clients, TurnReturns(c) \/ Ended(c)
      PROVE  SettingsInv'
    BY <1>2, <1>7 DEF TurnReturns, Ended, NoFault, RunPcs, setVars
<1>8. ASSUME NEW c \in Clients, NEW q \in Queues, Deliver(c, q)
      PROVE  SettingsInv'
    BY <1>2, <1>8 DEF Deliver, NoFault, RunPcs, setVars
<1>9. ASSUME NEW c \in Clients, NEW q \in Queues,
             SteerOrFollowUp(c, q) \/ Route(c, q) \/ Routed(c, q)
      PROVE  SettingsInv'
    BY <1>2, <1>9 DEF SteerOrFollowUp, Route, Routed, CallPcs, setVars, callVars
<1>10. ASSUME NEW c \in Clients, Abort(c) \/ Cancel(c) \/ Check(c) \/ Wake(c)
      PROVE  SettingsInv'
    BY <1>2, <1>10 DEF Abort, Cancel, Check, Wake, CallPcs, setVars
<1>11. CASE UNCHANGED vars
    <2>1. StillSet
        BY <1>11 DEF vars, StillSet, Recorded
    <2> QED
        BY <2>1, StillSetKeeps
<1> QED
    BY <1>3, <1>4, <1>5, <1>6, <1>7, <1>8, <1>9, <1>10, <1>11, SetKeeps, AppendSettingKeeps
    DEF Next, Loop, Call

\* With one caller changing settings, the session and the pending writes hold what the
\* orchestrator uses, whatever runs begin, flush and end between a change and its write; but
\* for a failed write or a change after the last flush (setModel, flushPendingWrites).
THEOREM SettingsKept ==
    ASSUME \A c, d \in Setters : c = d
    PROVE  Spec => []SettingsRecoverable
<1>1. OneSetter
    BY DEF OneSetter
<1>2. Init => FlushedClean /\ SettingsInv
    <2> SUFFICES ASSUME Init
                 PROVE  FlushedClean /\ SettingsInv
        OBVIOUS
    <2>1. FlushedClean /\ \A c \in Clients : change[c] = NoWrite
        BY DEF Init, FlushedClean
    <2>2. ASSUME NEW k \in Settings
          PROVE  LastSet(logged \o pending, k, current[k])
        <3>1. logged \o pending = <<>>
            BY DEF Init
        <3>2. current[k] = IF k = "model" THEN Model0 ELSE Level0
            BY DEF Init
        <3> QED
            BY <3>1, <3>2 DEF LastSet
    <2> QED
        BY <2>1, <2>2 DEF SettingsInv, SettingsRecoverable
<1>3. TypeOK /\ FlushedClean /\ SettingsInv /\ [Next]_vars => SettingsInv'
    BY <1>1, SettingsInvStep
<1>4. SettingsInv => SettingsRecoverable
    BY DEF SettingsInv
<1> QED
    BY <1>2, <1>3, <1>4, NextFlushedClean, TypeCorrect, RunsExclusive, PTL DEF Spec
=============================================================================
