----------------------------- MODULE ScreenProofs -----------------------------
(* Proofs about what the user waits for and looks at (MCScreen): the detector     *)
(* stops a run exactly when it goes round in circles, what the shell tool returns  *)
(* is final, the file of its output is complete, and the viewer goes on listening. *)
EXTENDS MCScreen, SequenceTheorems, FiniteSetTheorems, NaturalsInduction, WellFoundedInduction, TLAPS

-------------------------------------------------------------------------------
(* The detector                                                                 *)

\* What the detector remembers is the end of what it has seen: a window of it, and how
\* long the last call has been repeated.
CallsSeen ==
    /\ seen \in Seq(Prints)
    /\ detector.recent \in Seq(Prints) /\ detector.streak \in Nat
    /\ Len(detector.recent) = (IF Len(seen) <= Window THEN Len(seen) ELSE Window)
    /\ \A k \in 0 .. Len(detector.recent) - 1 :
          detector.recent[Len(detector.recent) - k] = seen[Len(seen) - k]
    /\ seen = <<>> => detector.streak = 0 /\ detector.lastPrint = NoPrint
    /\ seen # <<>> => /\ detector.streak \in 1 .. Len(seen)
                      /\ detector.lastPrint = seen[Len(seen)]
                      /\ \A k \in 0 .. detector.streak - 1 : seen[Len(seen) - k] = seen[Len(seen)]
                      /\ detector.streak < Len(seen) =>
                            seen[Len(seen) - detector.streak] # seen[Len(seen)]
    /\ stuck \in {"no", "calls"}
    /\ stuck = "calls" <=> detector.streak >= MaxRepeat \/ Cycles(detector.recent)

\* ... and how long one tool has been failing: from the first of the streak, which may be
\* a success, or the failure of a tool that had not been the one before.
OutcomesSeen ==
    /\ seen \in Seq([tool : Tools, failed : BOOLEAN])
    /\ seen = <<>> => detector.errStreak = 0 /\ detector.lastErrTool = NoPrint
    /\ seen # <<>> =>
          /\ detector.errStreak \in 1 .. Len(seen)
          /\ detector.lastErrTool = seen[Len(seen)].tool
          /\ \A k \in 0 .. detector.errStreak - 1 : seen[Len(seen) - k].tool = detector.lastErrTool
          /\ \A k \in 0 .. detector.errStreak - 2 : seen[Len(seen) - k].failed
          /\ LET first == Len(seen) - detector.errStreak + 1
             IN  first > 1 /\ seen[first].failed => seen[first].tool # seen[first - 1].tool
    /\ stuck \in {"no", "failures"}
    /\ stuck = "failures" <=> detector.errStreak >= MaxRepeat

DetectorFields ==
    [recent : Seq(Prints), lastPrint : Prints \cup {NoPrint}, streak : Nat,
     lastErrTool : Tools \cup {NoPrint}, errStreak : Nat]
DetectorInv ==
    /\ detector \in DetectorFields
    /\ watching = "calls" => CallsSeen
    /\ watching = "results" => OutcomesSeen

-------------------------------------------------------------------------------
(* The ends of sequences                                                        *)

\* One more at the end: what was k from the end is k + 1 from it.
LEMMA FromTheEnd ==
  ASSUME NEW S, NEW s \in Seq(S), NEW e \in S
  PROVE  /\ Append(s, e) \in Seq(S) /\ Len(s) \in Nat /\ Len(Append(s, e)) = Len(s) + 1
         /\ Append(s, e)[Len(s) + 1] = e
         /\ \A k \in 1 .. Len(s) : Append(s, e)[Len(s) + 1 - k] = s[Len(s) - (k - 1)]
<1>1. /\ Append(s, e) \in Seq(S) /\ Len(s) \in Nat /\ Len(Append(s, e)) = Len(s) + 1
      /\ Append(s, e)[Len(s) + 1] = e
      /\ \A i \in 1 .. Len(s) : Append(s, e)[i] = s[i]
  BY AppendProperties, LenProperties
<1>2. ASSUME NEW k \in 1 .. Len(s)
      PROVE  Append(s, e)[Len(s) + 1 - k] = s[Len(s) - (k - 1)]
  <2>1. Len(s) + 1 - k \in 1 .. Len(s) /\ Len(s) + 1 - k = Len(s) - (k - 1)
    BY <1>1
  <2>2. Append(s, e)[Len(s) + 1 - k] = s[Len(s) + 1 - k]
    BY <1>1, <2>1
  <2>. QED
    BY <2>1, <2>2
<1>. QED
  BY <1>1, <1>2

\* The last n of a sequence.
LEMMA LastOnes ==
  ASSUME NEW S, NEW s \in Seq(S), NEW n \in Nat, n <= Len(s)
  PROVE  /\ LastOf(s, n) \in Seq(S) /\ Len(LastOf(s, n)) = n /\ DOMAIN LastOf(s, n) = 1..n
         /\ \A i \in 1..n : LastOf(s, n)[i] = s[Len(s) - (n - i)]
<1>1. Len(s) \in Nat
  BY LenProperties
<1>2. PICK f : f = Len(s) - n + 1
  OBVIOUS
<1>3. f \in 1 .. Len(s) + 1 /\ Len(s) \in f - 1 .. Len(s)
  BY <1>1, <1>2
<1>4. /\ SubSeq(s, f, Len(s)) \in Seq(S) /\ Len(SubSeq(s, f, Len(s))) = Len(s) - f + 1
      /\ \A i \in 1 .. Len(s) - f + 1 : SubSeq(s, f, Len(s))[i] = s[f + i - 1]
  BY <1>3, SubSeqProperties
<1>5. Len(s) - f + 1 = n
  BY <1>1, <1>2
<1>6. ASSUME NEW i \in 1..n PROVE f + i - 1 = Len(s) - (n - i)
  BY <1>1, <1>2
<1>7. LastOf(s, n) = SubSeq(s, f, Len(s))
  BY <1>2 DEF LastOf
<1>. QED
  BY <1>4, <1>5, <1>6, <1>7, LenProperties

\* All of the last n are the same exactly when each of them is the last.
LEMMA UniformIs ==
  ASSUME NEW S, NEW s \in Seq(S), NEW n \in Nat, n >= 1
  PROVE  Uniform(s, n) <=> Len(s) >= n /\ \A k \in 0 .. n - 1 : s[Len(s) - k] = s[Len(s)]
<1>1. Len(s) \in Nat
  BY LenProperties
<1>2. CASE n <= Len(s)
  <2>1. /\ DOMAIN LastOf(s, n) = 1..n /\ \A i \in 1..n : LastOf(s, n)[i] = s[Len(s) - (n - i)]
    BY <1>2, LastOnes
  <2>2. ASSUME Uniform(s, n), NEW k \in 0 .. n - 1 PROVE s[Len(s) - k] = s[Len(s)]
    <3>1. n - k \in 1..n /\ n \in 1..n /\ n - (n - k) = k /\ n - n = 0 /\ Len(s) - 0 = Len(s)
      BY <1>1
    <3>2. LastOf(s, n)[n - k] = LastOf(s, n)[n]
      BY <2>1, <2>2, <3>1 DEF Uniform
    <3>3. LastOf(s, n)[n - k] = s[Len(s) - k] /\ LastOf(s, n)[n] = s[Len(s)]
      BY <1>1, <2>1, <3>1
    <3>. QED
      BY <3>2, <3>3
  <2>3. ASSUME \A k \in 0 .. n - 1 : s[Len(s) - k] = s[Len(s)] PROVE Uniform(s, n)
    <3>1. ASSUME NEW i \in 1..n PROVE LastOf(s, n)[i] = s[Len(s)]
      <4>1. n - i \in 0 .. n - 1
        OBVIOUS
      <4>2. LastOf(s, n)[i] = s[Len(s) - (n - i)]
        BY <2>1
      <4>3. s[Len(s) - (n - i)] = s[Len(s)]
        BY <2>3, <4>1
      <4>. QED
        BY <4>2, <4>3
    <3>. QED
      BY <1>1, <1>2, <2>1, <3>1 DEF Uniform
  <2>. QED
    BY <1>1, <1>2, <2>2, <2>3
<1>3. CASE ~(n <= Len(s))
  BY <1>1, <1>3 DEF Uniform
<1>. QED
  BY <1>2, <1>3

-------------------------------------------------------------------------------
(* The steps of the detector                                                    *)

LEMMA ObserveKeeps ==
  ASSUME detector \in DetectorFields, CallsSeen, NEW fp \in Prints, Observe(fp)
  PROVE  CallsSeen' /\ detector' \in DetectorFields
<1>1. /\ stuck = "no" /\ seen' = Append(seen, fp)
      /\ detector' = [[[detector EXCEPT !.recent = Recent(fp)] EXCEPT !.streak = Streak(fp)] EXCEPT !.lastPrint = fp]
      /\ stuck' = IF Streak(fp) >= MaxRepeat \/ Cycles(Recent(fp)) THEN "calls" ELSE "no"
  BY DEF Observe, DetectorFields
<1>2. /\ seen \in Seq(Prints) /\ detector.recent \in Seq(Prints) /\ detector.streak \in Nat
      /\ Len(detector.recent) = (IF Len(seen) <= Window THEN Len(seen) ELSE Window)
      /\ \A k \in 0 .. Len(detector.recent) - 1 :
            detector.recent[Len(detector.recent) - k] = seen[Len(seen) - k]
  BY DEF CallsSeen
<1>3. PICK l : l = Len(seen)
  OBVIOUS
<1>4. PICK r : r = Len(detector.recent)
  OBVIOUS
<1>5. l \in Nat /\ r \in Nat /\ Window \in Nat /\ Window >= 9 /\ r <= l /\ r <= Window
      /\ r = (IF l <= Window THEN l ELSE Window)
  BY <1>2, <1>3, <1>4, LenProperties, DetectorAssumption
<1>6. /\ seen' \in Seq(Prints) /\ Len(seen') = l + 1 /\ seen'[l + 1] = fp
      /\ \A k \in 1 .. l : seen'[l + 1 - k] = seen[l - (k - 1)]
      /\ seen' # <<>>
  BY <1>1, <1>2, <1>3, <1>5, FromTheEnd, EmptySeq
<1>. DEFINE all == Append(detector.recent, fp)
<1>7. /\ all \in Seq(Prints) /\ Len(all) = r + 1 /\ all[r + 1] = fp
      /\ \A k \in 1 .. r : all[r + 1 - k] = detector.recent[r - (k - 1)]
  BY <1>2, <1>4, FromTheEnd
<1>8. \A k \in 0 .. r : all[r + 1 - k] = seen'[l + 1 - k]
  <2>. SUFFICES ASSUME NEW k \in 0 .. r PROVE all[r + 1 - k] = seen'[l + 1 - k]
    OBVIOUS
  <2>. HIDE DEF all
  <2>1. CASE k = 0
    BY <1>5, <1>6, <1>7, <2>1
  <2>2. CASE k # 0
    <3>1. k \in 1 .. r /\ k \in 1 .. l /\ k - 1 \in 0 .. r - 1
      BY <1>5, <2>2
    <3>2. all[r + 1 - k] = detector.recent[r - (k - 1)]
      BY <1>7, <3>1
    <3>3. detector.recent[r - (k - 1)] = seen[l - (k - 1)]
      BY <1>2, <1>3, <1>4, <3>1
    <3>4. seen'[l + 1 - k] = seen[l - (k - 1)]
      BY <1>6, <3>1
    <3>. QED
      BY <3>2, <3>3, <3>4
  <2>. QED
    BY <2>1, <2>2
<1>9. /\ Recent(fp) \in Seq(Prints)
      /\ Len(Recent(fp)) = (IF l + 1 <= Window THEN l + 1 ELSE Window)
      /\ \A k \in 0 .. Len(Recent(fp)) - 1 : Recent(fp)[Len(Recent(fp)) - k] = seen'[l + 1 - k]
  <2>1. CASE Len(all) > Window
    <3>1. Recent(fp) = Tail(all)
      BY <2>1 DEF Recent
    <3>. HIDE DEF all
    <3>2. all # <<>>
      BY <1>5, <1>7, EmptySeq
    <3>3. /\ Tail(all) \in Seq(Prints) /\ Len(Tail(all)) = r /\ r = Window
          /\ \A i \in 1 .. r : Tail(all)[i] = all[i + 1]
      BY <1>5, <1>7, <2>1, <3>2, HeadTailProperties
    <3>4. ASSUME NEW k \in 0 .. r - 1 PROVE Tail(all)[r - k] = seen'[l + 1 - k]
      <4>1. r - k \in 1 .. r /\ r - k + 1 = r + 1 - k /\ k \in 0 .. r
        BY <1>5
      <4>. QED
        BY <1>8, <3>3, <4>1
    <3>. QED
      BY <1>5, <3>1, <3>3, <3>4
  <2>2. CASE ~(Len(all) > Window)
    <3>1. Recent(fp) = all
      BY <2>2 DEF Recent
    <3>. HIDE DEF all
    <3>2. r + 1 <= Window /\ r = l
      BY <1>5, <1>7, <2>2
    <3>3. \A k \in 0 .. r + 1 - 1 : k \in 0 .. r
      BY <1>5
    <3>. QED
      BY <1>5, <1>7, <1>8, <3>1, <3>2, <3>3
  <2>. QED
    BY <2>1, <2>2
<1>10. /\ Streak(fp) \in 1 .. l + 1
       /\ \A k \in 0 .. Streak(fp) - 1 : seen'[l + 1 - k] = fp
       /\ Streak(fp) < l + 1 => seen'[l + 1 - Streak(fp)] # fp
  <2>1. CASE fp = detector.lastPrint
    <3>1. seen # <<>>
      BY <2>1, DetectorAssumption DEF CallsSeen, NoPrint
    <3>2. PICK s : s = detector.streak
      OBVIOUS
    <3>3. /\ s \in 1 .. l /\ fp = seen[l] /\ \A k \in 0 .. s - 1 : seen[l - k] = seen[l]
          /\ s < l => seen[l - s] # seen[l]
      BY <1>3, <2>1, <3>1, <3>2 DEF CallsSeen
    <3>4. Streak(fp) = s + 1
      BY <2>1, <3>2 DEF Streak
    <3>5. ASSUME NEW k \in 0 .. s PROVE seen'[l + 1 - k] = fp
      <4>1. CASE k = 0
        BY <1>5, <1>6, <4>1
      <4>2. CASE k # 0
        <5>1. k \in 1 .. l /\ k - 1 \in 0 .. s - 1
          BY <1>5, <3>3, <4>2
        <5>. QED
          BY <1>6, <3>3, <5>1
      <4>. QED
        BY <4>1, <4>2
    <3>6. s + 1 < l + 1 => seen'[l + 1 - (s + 1)] # fp
      <4>1. ASSUME s < l PROVE seen'[l + 1 - (s + 1)] # fp
        <5>1. s + 1 \in 1 .. l /\ l - (s + 1 - 1) = l - s
          BY <1>5, <3>3, <4>1
        <5>. QED
          BY <1>6, <3>3, <4>1, <5>1
      <4>. QED
        BY <1>5, <3>3, <4>1
    <3>7. s + 1 \in 1 .. l + 1 /\ s + 1 - 1 = s
      BY <1>5, <3>3
    <3>8. ASSUME NEW k \in 0 .. Streak(fp) - 1 PROVE seen'[l + 1 - k] = fp
      <4>1. k \in 0 .. s
        BY <1>5, <3>3, <3>4, <3>7
      <4>. QED
        BY <3>5, <4>1
    <3>9. Streak(fp) < l + 1 => seen'[l + 1 - Streak(fp)] # fp
      BY <3>4, <3>6
    <3>. QED
      BY <3>4, <3>7, <3>8, <3>9
  <2>2. CASE fp # detector.lastPrint
    <3>1. Streak(fp) = 1
      BY <2>2 DEF Streak
    <3>2. \A k \in 0 .. 1 - 1 : seen'[l + 1 - k] = fp
      BY <1>5, <1>6
    <3>3. ASSUME 1 < l + 1 PROVE seen'[l + 1 - 1] # fp
      <4>1. seen # <<>> /\ 1 \in 1 .. l
        BY <1>3, <1>5, <3>3, EmptySeq
      <4>2. seen'[l + 1 - 1] = seen[l - (1 - 1)] /\ l - (1 - 1) = l
        BY <1>5, <1>6, <4>1
      <4>3. detector.lastPrint = seen[l]
        BY <1>3, <4>1 DEF CallsSeen
      <4>. QED
        BY <2>2, <4>2, <4>3
    <3>. QED
      BY <1>5, <3>1, <3>2, <3>3
  <2>. QED
    BY <2>1, <2>2
<1>11. PICK rec, streak : rec = Recent(fp) /\ streak = Streak(fp)
  OBVIOUS
<1>12. streak \in Nat /\ rec \in Seq(Prints)
  BY <1>5, <1>9, <1>10, <1>11
<1>13. /\ detector'.recent = rec /\ detector'.streak = streak /\ detector'.lastPrint = fp
       /\ detector' \in DetectorFields
  BY <1>1, <1>11, <1>12 DEF DetectorFields
<1>14. stuck' \in {"no", "calls"} /\ (stuck' = "calls" <=> streak >= MaxRepeat \/ Cycles(rec))
  BY <1>1, <1>11
<1>15. /\ Len(rec) = (IF l + 1 <= Window THEN l + 1 ELSE Window)
       /\ \A k \in 0 .. Len(rec) - 1 : rec[Len(rec) - k] = seen'[l + 1 - k]
  BY <1>9, <1>11
<1>16. /\ streak \in 1 .. l + 1 /\ \A k \in 0 .. streak - 1 : seen'[l + 1 - k] = fp
       /\ streak < l + 1 => seen'[l + 1 - streak] # fp
  BY <1>10, <1>11
<1>17. (stuck = "calls" <=> detector.streak >= MaxRepeat \/ Cycles(detector.recent))'
  BY <1>13, <1>14 DEF Cycles, CycleOf
<1>18. /\ Len(detector'.recent) = (IF Len(seen') <= Window THEN Len(seen') ELSE Window)
       /\ \A k \in 0 .. Len(detector'.recent) - 1 :
             detector'.recent[Len(detector'.recent) - k] = seen'[Len(seen') - k]
  <2>1. Len(detector'.recent) = Len(rec)
    BY <1>13
  <2>2. ASSUME NEW k \in 0 .. Len(detector'.recent) - 1
        PROVE  detector'.recent[Len(detector'.recent) - k] = seen'[Len(seen') - k]
    <3>1. rec[Len(rec) - k] = seen'[l + 1 - k]
      BY <1>15, <2>1
    <3>. QED
      BY <1>5, <1>6, <1>12, <1>13, <2>1, <3>1, LenProperties
  <2>. QED
    BY <1>6, <1>15, <2>1, <2>2
<1>19. /\ detector'.streak \in 1 .. Len(seen') /\ detector'.lastPrint = seen'[Len(seen')]
       /\ \A k \in 0 .. detector'.streak - 1 : seen'[Len(seen') - k] = seen'[Len(seen')]
       /\ detector'.streak < Len(seen') => seen'[Len(seen') - detector'.streak] # seen'[Len(seen')]
  <2>1. detector'.streak \in 1 .. Len(seen') /\ detector'.lastPrint = seen'[Len(seen')]
    BY <1>6, <1>13, <1>16
  <2>2. ASSUME NEW k \in 0 .. detector'.streak - 1 PROVE seen'[Len(seen') - k] = seen'[Len(seen')]
    <3>1. seen'[l + 1 - k] = fp
      BY <1>13, <1>16
    <3>. QED
      BY <1>5, <1>6, <1>12, <1>13, <3>1
  <2>3. ASSUME detector'.streak < Len(seen') PROVE seen'[Len(seen') - detector'.streak] # seen'[Len(seen')]
    <3>1. seen'[l + 1 - streak] # fp
      BY <1>6, <1>13, <1>16, <2>3
    <3>. QED
      BY <1>5, <1>6, <1>12, <1>13, <3>1
  <2>. QED
    BY <2>1, <2>2, <2>3
<1>20. /\ seen' \in Seq(Prints) /\ seen' # <<>> /\ detector'.recent \in Seq(Prints)
       /\ detector'.streak \in Nat /\ stuck' \in {"no", "calls"} /\ detector' \in DetectorFields
  BY <1>6, <1>12, <1>13, <1>14
<1>. QED
  BY <1>17, <1>18, <1>19, <1>20 DEF CallsSeen

LEMMA ObserveErrorKeeps ==
  ASSUME detector \in DetectorFields, OutcomesSeen,
         NEW outcome \in [tool : Tools, failed : BOOLEAN], ObserveError(outcome)
  PROVE  OutcomesSeen' /\ detector' \in DetectorFields
<1>1. /\ seen' = Append(seen, outcome)
      /\ detector' = [[detector EXCEPT !.errStreak = ErrStreak(outcome)] EXCEPT !.lastErrTool = outcome.tool]
      /\ stuck' = IF ErrStreak(outcome) >= MaxRepeat THEN "failures" ELSE "no"
  BY DEF ObserveError, DetectorFields
<1>. DEFINE Outcomes == [tool : Tools, failed : BOOLEAN]
<1>2. seen \in Seq(Outcomes) /\ outcome \in Outcomes
  BY DEF OutcomesSeen
<1>. HIDE DEF Outcomes
<1>3. PICK l : l = Len(seen)
  OBVIOUS
<1>4. /\ l \in Nat /\ seen' \in Seq(Outcomes) /\ Len(seen') = l + 1 /\ seen'[l + 1] = outcome
      /\ \A k \in 1 .. l : seen'[l + 1 - k] = seen[l - (k - 1)]
      /\ seen' # <<>>
  BY <1>1, <1>2, <1>3, FromTheEnd, EmptySeq, LenProperties
<1>5. outcome.tool \in Tools /\ outcome.failed \in BOOLEAN /\ NoPrint \notin Tools
  BY DetectorAssumption DEF NoPrint
<1>6. PICK e : e = ErrStreak(outcome)
  OBVIOUS
<1>7. /\ e \in 1 .. l + 1
      /\ \A k \in 0 .. e - 1 : seen'[l + 1 - k].tool = outcome.tool
      /\ \A k \in 0 .. e - 2 : seen'[l + 1 - k].failed
      /\ l + 2 - e > 1 /\ seen'[l + 2 - e].failed => seen'[l + 2 - e].tool # seen'[l + 2 - e - 1].tool
  <2>1. CASE outcome.failed /\ outcome.tool = detector.lastErrTool
    <3>1. seen # <<>>
      BY <1>5, <2>1 DEF OutcomesSeen
    <3>2. PICK s : s = detector.errStreak
      OBVIOUS
    <3>3. /\ s \in 1 .. l /\ outcome.tool = seen[l].tool
          /\ \A k \in 0 .. s - 1 : seen[l - k].tool = outcome.tool
          /\ \A k \in 0 .. s - 2 : seen[l - k].failed
          /\ l - s + 1 > 1 /\ seen[l - s + 1].failed => seen[l - s + 1].tool # seen[l - s + 1 - 1].tool
      BY <1>3, <2>1, <3>1, <3>2 DEF OutcomesSeen
    <3>4. e = s + 1
      BY <1>6, <2>1, <3>2 DEF ErrStreak
    <3>5. ASSUME NEW k \in 0 .. s PROVE seen'[l + 1 - k].tool = outcome.tool
      <4>1. CASE k = 0
        BY <1>4, <4>1
      <4>2. CASE k # 0
        <5>1. k \in 1 .. l /\ k - 1 \in 0 .. s - 1
          BY <1>4, <3>3, <4>2
        <5>. QED
          BY <1>4, <3>3, <5>1
      <4>. QED
        BY <4>1, <4>2
    <3>6. ASSUME NEW k \in 0 .. s - 1 PROVE seen'[l + 1 - k].failed
      <4>1. CASE k = 0
        BY <1>4, <2>1, <4>1
      <4>2. CASE k # 0
        <5>1. k \in 1 .. l /\ k - 1 \in 0 .. s - 2
          BY <1>4, <3>3, <4>2
        <5>. QED
          BY <1>4, <3>3, <5>1
      <4>. QED
        BY <4>1, <4>2
    <3>7. ASSUME l - s + 1 > 1
          PROVE  seen'[l + 1 - s] = seen[l - s + 1] /\ seen'[l + 1 - s - 1] = seen[l - s + 1 - 1]
      <4>1. s \in 1 .. l /\ s + 1 \in 1 .. l
        BY <1>4, <3>3, <3>7
      <4>2. seen'[l + 1 - s] = seen[l - (s - 1)] /\ seen'[l + 1 - (s + 1)] = seen[l - (s + 1 - 1)]
        BY <1>4, <4>1
      <4>3. l - (s - 1) = l - s + 1 /\ l + 1 - (s + 1) = l + 1 - s - 1 /\ l - (s + 1 - 1) = l - s + 1 - 1
        BY <1>4, <4>1
      <4>. QED
        BY <4>2, <4>3
    <3>8. /\ e \in 1 .. l + 1 /\ l + 2 - e = l + 1 - s /\ l + 1 - s = l - s + 1
          /\ 0 .. e - 1 = 0 .. s /\ 0 .. e - 2 = 0 .. s - 1
      BY <1>4, <3>3, <3>4
    <3>9. l + 1 - s > 1 /\ seen'[l + 1 - s].failed => seen'[l + 1 - s].tool # seen'[l + 1 - s - 1].tool
      BY <3>3, <3>7, <3>8
    <3>10. e - 1 = s /\ e - 2 = s - 1
      BY <1>4, <3>3, <3>4
    <3>11. \A k \in 0 .. e - 1 : seen'[l + 1 - k].tool = outcome.tool
      BY <3>5, <3>10
    <3>12. \A k \in 0 .. e - 2 : seen'[l + 1 - k].failed
      BY <3>6, <3>10
    <3>13. l + 2 - e > 1 /\ seen'[l + 2 - e].failed => seen'[l + 2 - e].tool # seen'[l + 2 - e - 1].tool
      BY <1>4, <3>3, <3>4, <3>8, <3>9
    <3>. QED
      BY <3>8, <3>11, <3>12, <3>13
  <2>2. CASE ~(outcome.failed /\ outcome.tool = detector.lastErrTool)
    <3>1. e = 1
      BY <1>6, <2>2 DEF ErrStreak
    <3>2. \A k \in 0 .. 1 - 1 : seen'[l + 1 - k].tool = outcome.tool
      BY <1>4
    <3>3. 0 .. 1 - 2 = {} /\ l + 2 - 1 = l + 1 /\ l + 1 - 1 = l
      BY <1>4
    <3>4. ASSUME l + 1 > 1, outcome.failed PROVE outcome.tool # seen'[l].tool
      <4>1. seen # <<>> /\ 1 \in 1 .. l
        BY <1>3, <1>4, <3>4, EmptySeq
      <4>2. seen'[l + 1 - 1] = seen[l - (1 - 1)] /\ l - (1 - 1) = l
        BY <1>4, <4>1
      <4>3. detector.lastErrTool = seen[l].tool
        BY <1>3, <4>1 DEF OutcomesSeen
      <4>. QED
        BY <2>2, <3>3, <3>4, <4>2, <4>3
    <3>. QED
      BY <1>4, <3>1, <3>2, <3>3, <3>4
  <2>. QED
    BY <2>1, <2>2
<1>8. e \in Nat
  BY <1>4, <1>7
<1>9. detector'.errStreak = e /\ detector'.lastErrTool = outcome.tool /\ detector' \in DetectorFields
  BY <1>1, <1>5, <1>6, <1>8 DEF DetectorFields
<1>10. stuck' \in {"no", "failures"} /\ (stuck' = "failures" <=> e >= MaxRepeat)
  BY <1>1, <1>6
<1>11. l + 1 - e + 1 = l + 2 - e
  BY <1>4, <1>8
<1>. QED
  BY <1>4, <1>7, <1>9, <1>10, <1>11 DEF OutcomesSeen, Outcomes

-------------------------------------------------------------------------------
(* What the detector's memory says of the history                               *)

LEMMA Rounds ==
  ASSUME CallsSeen, NEW n \in 2..3
  PROVE  Round(seen, n) <=> CycleOf(detector.recent, n)
<1>1. PICK m : m = 3 * n
  OBVIOUS
<1>2. PICK l, r : l = Len(seen) /\ r = Len(detector.recent)
  OBVIOUS
<1>3. /\ n \in Nat /\ m \in Nat /\ m = n + n + n /\ m <= 9 /\ n >= 2
      /\ l \in Nat /\ r \in Nat /\ Window \in Nat /\ Window >= 9
      /\ r = (IF l <= Window THEN l ELSE Window)
  BY <1>1, <1>2, LenProperties, DetectorAssumption DEF CallsSeen
<1>4. CASE l < m
  BY <1>1, <1>2, <1>3, <1>4 DEF Round, CycleOf
<1>5. CASE l >= m
  <2>. DEFINE tail == LastOf(detector.recent, m)
  <2>1. r >= m
    BY <1>3, <1>5
  <2>2. \A i \in 1..m : tail[i] = detector.recent[r - (m - i)]
    <3>1. detector.recent \in Seq(Prints)
      BY DEF CallsSeen
    <3>2. Len(detector.recent) >= m
      BY <1>2, <2>1
    <3>3. \A i \in 1..m : LastOf(detector.recent, m)[i] = detector.recent[Len(detector.recent) - (m - i)]
      BY <1>3, <3>1, <3>2, LastOnes
    <3>. QED
      BY <1>2, <3>3
  <2>3. ASSUME NEW i \in 1..m PROVE tail[i] = seen[l - (m - i)]
    <3>1. m - i \in 0 .. r - 1
      BY <1>3, <2>1
    <3>2. detector.recent[r - (m - i)] = seen[l - (m - i)]
      BY <1>2, <3>1 DEF CallsSeen
    <3>. QED
      BY <2>2, <3>2
  <2>4. CycleOf(detector.recent, n) <=> /\ \A i \in 2..n : tail[i] # tail[i - 1]
                                        /\ \A i \in n + 1 .. m : tail[i] = tail[i - n]
    BY <1>1, <1>2, <2>1 DEF CycleOf
  <2>5. Round(seen, n) <=> /\ \A k \in 0 .. 2 * n - 1 : seen[l - k] = seen[l - k - n]
                           /\ \A k \in 1 .. n - 1 : seen[l - k] # seen[l - k + 1]
    BY <1>1, <1>2, <1>5 DEF Round
  <2>. HIDE DEF tail
  \* an element of the last three rounds, and the one a round before it
  <2>6. ASSUME NEW k \in 0 .. 2 * n - 1
        PROVE  /\ m - k \in n + 1 .. m /\ tail[m - k] = seen[l - k]
               /\ m - k - n \in 1 .. m /\ tail[m - k - n] = seen[l - k - n]
    <3>1. m - k \in n + 1 .. m /\ m - k \in 1..m /\ m - k - n \in 1 .. m
      BY <1>3
    <3>2. tail[m - k] = seen[l - (m - (m - k))] /\ tail[m - k - n] = seen[l - (m - (m - k - n))]
      BY <2>3, <3>1
    <3>3. l - (m - (m - k)) = l - k /\ l - (m - (m - k - n)) = l - k - n
      BY <1>3
    <3>. QED
      BY <3>1, <3>2, <3>3
  <2>7. (\A i \in n + 1 .. m : tail[i] = tail[i - n])
          <=> (\A k \in 0 .. 2 * n - 1 : seen[l - k] = seen[l - k - n])
    <3>1. ASSUME \A i \in n + 1 .. m : tail[i] = tail[i - n], NEW k \in 0 .. 2 * n - 1
          PROVE  seen[l - k] = seen[l - k - n]
      BY <2>6, <3>1
    <3>2. ASSUME \A k \in 0 .. 2 * n - 1 : seen[l - k] = seen[l - k - n], NEW i \in n + 1 .. m
          PROVE  tail[i] = tail[i - n]
      <4>1. PICK k : k = m - i
        OBVIOUS
      <4>2. k \in 0 .. 2 * n - 1 /\ m - k = i /\ m - k - n = i - n
        BY <1>3, <4>1
      <4>. QED
        BY <2>6, <3>2, <4>2
    <3>. QED
      BY <3>1, <3>2
  \* in a series of rounds, the neighbours of the first are those of the last
  <2>8. ASSUME \A i \in n + 1 .. m : tail[i] = tail[i - n], NEW k \in 1 .. n - 1
        PROVE  seen[l - k] = tail[n - k] /\ seen[l - k + 1] = tail[n - k + 1]
    <3>1. ASSUME NEW j \in 1..n PROVE tail[j] = tail[j + n + n] /\ tail[j + n + n] = seen[l - (n - j)]
      <4>1. j + n \in n + 1 .. m /\ j + n + n \in n + 1 .. m /\ j + n - n = j /\ j + n + n - n = j + n
            /\ j + n + n \in 1 .. m /\ m - (j + n + n) = n - j
        BY <1>3
      <4>2. tail[j + n] = tail[j] /\ tail[j + n + n] = tail[j + n]
        BY <2>8, <4>1
      <4>3. tail[j + n + n] = seen[l - (m - (j + n + n))]
        BY <2>3, <4>1
      <4>. QED
        BY <4>1, <4>2, <4>3
    <3>2. n - k \in 1..n /\ n - k + 1 \in 1..n /\ n - (n - k) = k /\ l - (n - (n - k + 1)) = l - k + 1
      BY <1>3
    <3>. QED
      BY <3>1, <3>2
  <2>9. ASSUME \A i \in n + 1 .. m : tail[i] = tail[i - n]
        PROVE  (\A i \in 2..n : tail[i] # tail[i - 1])
                 <=> (\A k \in 1 .. n - 1 : seen[l - k] # seen[l - k + 1])
    <3>1. ASSUME \A i \in 2..n : tail[i] # tail[i - 1], NEW k \in 1 .. n - 1
          PROVE  seen[l - k] # seen[l - k + 1]
      <4>1. n - k + 1 \in 2..n /\ n - k + 1 - 1 = n - k
        BY <1>3
      <4>2. tail[n - k + 1] # tail[n - k]
        BY <3>1, <4>1
      <4>. QED
        BY <2>8, <2>9, <4>2
    <3>2. ASSUME \A k \in 1 .. n - 1 : seen[l - k] # seen[l - k + 1], NEW i \in 2..n
          PROVE  tail[i] # tail[i - 1]
      <4>1. PICK k : k = n - i + 1
        OBVIOUS
      <4>2. k \in 1 .. n - 1 /\ n - k = i - 1 /\ n - k + 1 = i
        BY <1>3, <4>1
      <4>3. seen[l - k] = tail[i - 1] /\ seen[l - k + 1] = tail[i]
        BY <2>8, <2>9, <4>2
      <4>. QED
        BY <3>2, <4>2, <4>3
    <3>. QED
      BY <3>1, <3>2
  <2>. QED
    BY <2>4, <2>5, <2>7, <2>9
<1>. QED
  BY <1>3, <1>4, <1>5

LEMMA CallsShow == CallsSeen => StopsOnRepeats
<1>. SUFFICES ASSUME CallsSeen PROVE StopsOnRepeats
  OBVIOUS
<1>1. PICK l, streak : l = Len(seen) /\ streak = detector.streak
  OBVIOUS
<1>2. seen \in Seq(Prints) /\ l \in Nat /\ streak \in Nat /\ MaxRepeat \in Nat /\ MaxRepeat >= 2
  BY <1>1, LenProperties, DetectorAssumption DEF CallsSeen
<1>3. Uniform(seen, MaxRepeat) <=> streak >= MaxRepeat
  <2>1. Uniform(seen, MaxRepeat) <=> l >= MaxRepeat /\ \A k \in 0 .. MaxRepeat - 1 : seen[l - k] = seen[l]
    <3>1. MaxRepeat \in Nat /\ MaxRepeat >= 1
      BY <1>2
    <3>2. Uniform(seen, MaxRepeat)
            <=> Len(seen) >= MaxRepeat /\ \A k \in 0 .. MaxRepeat - 1 : seen[Len(seen) - k] = seen[Len(seen)]
      BY <1>2, <3>1, UniformIs
    <3>. QED
      BY <1>1, <3>2
  <2>2. CASE seen = <<>>
    <3>1. l = 0 /\ streak = 0
      BY <1>1, <2>2, EmptySeq DEF CallsSeen
    <3>. QED
      BY <1>2, <2>1, <3>1
  <2>3. CASE seen # <<>>
    <3>1. /\ streak \in 1 .. l /\ \A k \in 0 .. streak - 1 : seen[l - k] = seen[l]
          /\ streak < l => seen[l - streak] # seen[l]
      BY <1>1, <2>3 DEF CallsSeen
    <3>2. ASSUME streak >= MaxRepeat PROVE Uniform(seen, MaxRepeat)
      <4>1. l >= MaxRepeat /\ \A k \in 0 .. MaxRepeat - 1 : k \in 0 .. streak - 1
        BY <1>2, <3>1, <3>2
      <4>. QED
        BY <2>1, <3>1, <4>1
    <3>3. ASSUME Uniform(seen, MaxRepeat), ~(streak >= MaxRepeat) PROVE FALSE
      <4>1. streak < l /\ streak \in 0 .. MaxRepeat - 1
        BY <1>2, <2>1, <3>1, <3>3
      <4>. QED
        BY <2>1, <3>1, <3>3, <4>1
    <3>. QED
      BY <3>2, <3>3
  <2>. QED
    BY <2>2, <2>3
<1>4. Cycles(detector.recent) <=> \E n \in 2..3 : Round(seen, n)
  <2>1. \A n \in 2..3 : Round(seen, n) <=> CycleOf(detector.recent, n)
    BY Rounds
  <2>2. ASSUME NEW n \in 2..3, CycleOf(detector.recent, n) PROVE Len(detector.recent) >= 6
    <3>1. Len(detector.recent) \in Nat /\ Len(detector.recent) >= 3 * n /\ n \in Nat /\ n >= 2
      BY <2>2, LenProperties DEF CycleOf, CallsSeen
    <3>. QED
      BY <3>1
  <2>. QED
    BY <2>1, <2>2 DEF Cycles
<1>5. stuck = "calls" <=> streak >= MaxRepeat \/ Cycles(detector.recent)
  BY <1>1 DEF CallsSeen
<1>. QED
  BY <1>3, <1>4, <1>5 DEF StopsOnRepeats

LEMMA OutcomesShow == OutcomesSeen => StopsOnFailures
<1>. SUFFICES ASSUME OutcomesSeen PROVE StopsOnFailures
  OBVIOUS
<1>. DEFINE Outcomes == [tool : Tools, failed : BOOLEAN]
<1>1. PICK l, e, n : l = Len(seen) /\ e = detector.errStreak /\ n = MaxRepeat
  OBVIOUS
<1>2. seen \in Seq(Outcomes) /\ l \in Nat /\ n \in Nat /\ n >= 2 /\ (stuck = "failures" <=> e >= n)
  BY <1>1, LenProperties, DetectorAssumption DEF OutcomesSeen
<1>3. seen = <<>> <=> l = 0
  BY <1>1, <1>2, EmptySeq
<1>4. /\ seen = <<>> => e = 0
      /\ seen # <<>> =>
            /\ e \in 1 .. l
            /\ \A k \in 0 .. e - 1 : seen[l - k].tool = seen[l].tool
            /\ \A k \in 0 .. e - 2 : seen[l - k].failed
            /\ l - e + 1 > 1 /\ seen[l - e + 1].failed => seen[l - e + 1].tool # seen[l - e + 1 - 1].tool
  BY <1>1 DEF OutcomesSeen
<1>5. ASSUME e >= n PROVE FailedInARow(n - 1)
  <2>1. seen # <<>> /\ e \in 1 .. l /\ n - 1 \in Nat /\ n - 1 >= 1 /\ l >= n - 1 /\ l - 0 = l /\ 0 \in 0 .. e - 2
    BY <1>2, <1>4, <1>5
  <2>2. seen[l].failed
    BY <1>4, <2>1
  <2>3. ASSUME NEW k \in 0 .. n - 1 - 1 PROVE seen[l - k] = seen[l]
    <3>1. k \in 0 .. e - 1 /\ k \in 0 .. e - 2 /\ l - k \in 1 .. l /\ l \in 1 .. l
      BY <1>2, <1>5, <2>1
    <3>2. seen[l - k] \in Outcomes /\ seen[l] \in Outcomes
      BY <1>1, <1>2, <3>1, ElementOfSeq
    <3>3. seen[l - k].tool = seen[l].tool /\ seen[l - k].failed
      BY <1>4, <2>1, <3>1
    <3>4. \A x, y \in Outcomes : x.tool = y.tool /\ x.failed /\ y.failed => x = y
      OBVIOUS
    <3>. QED
      BY <2>2, <3>2, <3>3, <3>4
  <2>4. Uniform(seen, n - 1)
    BY <1>1, <1>2, <2>1, <2>3, UniformIs
  <2>. QED
    BY <1>1, <2>2, <2>4 DEF FailedInARow
<1>6. ASSUME FailedInARow(n), ~(e >= n) PROVE FALSE
  <2>1. l >= n /\ \A k \in 0 .. n - 1 : seen[l - k] = seen[l]
    <3>1. n \in Nat /\ n >= 1
      BY <1>2
    <3>2. Uniform(seen, n)
            <=> Len(seen) >= n /\ \A k \in 0 .. n - 1 : seen[Len(seen) - k] = seen[Len(seen)]
      BY <1>2, <3>1, UniformIs
    <3>. QED
      BY <1>1, <1>6, <3>2 DEF FailedInARow
  <2>2. seen # <<>> /\ e \in 1 .. l /\ e < n
    BY <1>2, <1>3, <1>4, <1>6, <2>1
  <2>3. /\ l - e + 1 > 1 /\ e - 1 \in 0 .. n - 1 /\ e \in 0 .. n - 1
        /\ l - (e - 1) = l - e + 1 /\ l - e + 1 - 1 = l - e
    BY <1>2, <2>1, <2>2
  <2>4. seen[l - e + 1] = seen[l] /\ seen[l - e + 1 - 1] = seen[l]
    BY <2>1, <2>3
  <2>. QED
    BY <1>1, <1>4, <1>6, <2>2, <2>3, <2>4 DEF FailedInARow
<1>. QED
  BY <1>1, <1>2, <1>5, <1>6 DEF StopsOnFailures

LEMMA DetectorBegins == DetectorInit => DetectorInv /\ watching \in {"calls", "results"}
<1>. SUFFICES ASSUME DetectorInit PROVE DetectorInv /\ watching \in {"calls", "results"}
  OBVIOUS
<1>1. /\ detector.recent = <<>> /\ detector.streak = 0 /\ detector.errStreak = 0
      /\ detector.lastPrint = NoPrint /\ detector.lastErrTool = NoPrint
      /\ detector \in DetectorFields /\ seen = <<>> /\ stuck = "no" /\ watching \in {"calls", "results"}
  BY EmptySeq DEF DetectorInit, DetectorFields
<1>2. MaxRepeat \in Nat /\ MaxRepeat >= 2 /\ Window \in Nat
  BY DetectorAssumption
<1>3. Len(<<>>) = 0 /\ \A S : <<>> \in Seq(S)
  BY EmptySeq
<1>4. ~Cycles(detector.recent) /\ ~(0 >= MaxRepeat)
  BY <1>1, <1>2, <1>3 DEF Cycles
<1>5. CallsSeen
  BY <1>1, <1>2, <1>3, <1>4 DEF CallsSeen
<1>6. OutcomesSeen
  BY <1>1, <1>3, <1>4 DEF OutcomesSeen
<1>. QED
  BY <1>1, <1>5, <1>6 DEF DetectorInv

LEMMA DetectorKeeps == DetectorInv /\ (DetectorNext \/ UNCHANGED detectorVars) => DetectorInv'
<1>1. ASSUME DetectorInv, DetectorNext PROVE DetectorInv'
  <2>1. detector \in DetectorFields /\ watching' = watching
    BY <1>1 DEF DetectorInv, DetectorNext
  <2>2. CASE watching = "calls" /\ \E fp \in Prints : Observe(fp)
    <3>1. CallsSeen' /\ detector' \in DetectorFields
      BY <1>1, <2>1, <2>2, ObserveKeeps DEF DetectorInv
    <3>. QED
      BY <2>1, <2>2, <3>1 DEF DetectorInv
  <2>3. CASE watching = "results" /\ \E tool \in Tools, failed \in BOOLEAN : ObserveError(Outcome(tool, failed))
    <3>1. PICK tool \in Tools, failed \in BOOLEAN : ObserveError(Outcome(tool, failed))
      BY <2>3
    <3>2. Outcome(tool, failed) \in [tool : Tools, failed : BOOLEAN]
      BY DEF Outcome
    <3>3. OutcomesSeen' /\ detector' \in DetectorFields
      BY <1>1, <2>1, <2>3, <3>1, <3>2, ObserveErrorKeeps DEF DetectorInv
    <3>. QED
      BY <2>1, <2>3, <3>3 DEF DetectorInv
  <2>. QED
    BY <1>1, <2>2, <2>3 DEF DetectorNext
<1>2. ASSUME DetectorInv, UNCHANGED detectorVars PROVE DetectorInv'
  <2>1. UNCHANGED <<detector, seen, stuck, watching>>
    BY <1>2 DEF detectorVars
  <2>2. detector' \in DetectorFields
    BY <1>2, <2>1 DEF DetectorInv
  <2>3. watching = "calls" => CallsSeen'
    BY <1>2, <2>1 DEF DetectorInv, CallsSeen, Cycles, CycleOf
  <2>4. watching = "results" => OutcomesSeen'
    BY <1>2, <2>1 DEF DetectorInv, OutcomesSeen
  <2>. QED
    BY <2>1, <2>2, <2>3, <2>4 DEF DetectorInv
<1>. QED
  BY <1>1, <1>2

LEMMA DetectorShows == DetectorInv => StopsWhenStuck
  BY CallsShow, OutcomesShow DEF DetectorInv, StopsWhenStuck

-------------------------------------------------------------------------------
(* The viewer                                                                   *)

ShowMessages == [kind : {"text", "result", "done"}, from : Runs, w : Nat]
Channels == [queue : Seq(ShowMessages), closed : BOOLEAN]
ShowLoops == [step : {"none", "pull", "send", "return", "over"}, events : 0 .. MaxEvents + 1,
              cancelled : BOOLEAN, to : Runs \cup {0}, kind : {"none", "text", "result", "done"}]

\* Types, and what is left of a run's events: after its last the goroutine is done.
ViewerInv ==
    /\ running \in BOOLEAN /\ agentCh \in Runs \cup {0} /\ drains \subseteq Runs
    /\ chans \in [Runs -> Channels] /\ loops \in [Runs -> ShowLoops]
    /\ waiters \in [Runs -> Nat] /\ updates \subseteq ShowMessages
    /\ \A r \in Runs :
         /\ Len(chans[r].queue) <= Room
         /\ loops[r].step = "pull" => loops[r].events <= MaxEvents
         /\ loops[r].step = "send" => /\ loops[r].kind \in {"text", "result", "done"}
                                      /\ loops[r].kind # "done" => loops[r].events <= MaxEvents
    /\ ViewerListens

LEMMA ViewerBegins == ViewerInit => ViewerInv
<1>. SUFFICES ASSUME ViewerInit PROVE ViewerInv
  OBVIOUS
<1>1. MaxEvents \in Nat /\ Room \in Nat /\ MaxShown \in Nat
  BY ViewerAssumption
<1>2. <<>> \in Seq(ShowMessages) /\ Len(<<>>) = 0
  BY EmptySeq
<1>3. [queue |-> <<>>, closed |-> FALSE] \in Channels
  BY <1>2 DEF Channels
<1>4. ShowLoop("none") \in ShowLoops
  BY <1>1 DEF ShowLoop, ShowLoops
<1>5. /\ running = FALSE /\ agentCh = 0 /\ drains = {} /\ updates = {}
      /\ chans = [r \in Runs |-> [queue |-> <<>>, closed |-> FALSE]]
      /\ loops = [r \in Runs |-> ShowLoop("none")] /\ waiters = [r \in Runs |-> 0]
  BY DEF ViewerInit
<1>6. \A r \in Runs : /\ loops[r].step = "none" /\ chans[r].queue = <<>>
                      /\ Len(chans[r].queue) <= Room
  BY <1>1, <1>2, <1>5 DEF ShowLoop
<1>7. chans \in [Runs -> Channels] /\ loops \in [Runs -> ShowLoops] /\ waiters \in [Runs -> Nat]
  BY <1>3, <1>4, <1>5
<1>. QED
  BY <1>5, <1>6, <1>7 DEF ViewerInv, ViewerListens

LEMMA RunsAreNumbered ==
  ASSUME loops \in [Runs -> ShowLoops]
  PROVE  Latest \in Nat
<1>1. MaxShown \in Nat
  BY ViewerAssumption
<1>2. IsFiniteSet(Runs)
  BY <1>1, FS_Interval DEF Runs
<1>3. IsFiniteSet({r \in Runs : loops[r].step # "none"})
  BY <1>2, FS_Subset
<1>. QED
  BY <1>3, FS_CardinalityType DEF Latest

LEMMA Arming ==
  ASSUME waiters \in [Runs -> Nat], NEW ch \in Runs \cup {0}
  PROVE  Armed(ch) \in [Runs -> Nat] /\ (ch # 0 => Armed(ch)[ch] > 0)
  BY DEF Armed, Runs

LEMMA SubmitPromptKeeps == ViewerInv /\ SubmitPrompt => ViewerInv'
<1>. SUFFICES ASSUME ViewerInv, SubmitPrompt PROVE ViewerInv'
  OBVIOUS
<1>1. PICK r : r = Latest + 1
  OBVIOUS
<1>2. r \in Runs
  BY <1>1, RunsAreNumbered, ViewerAssumption DEF SubmitPrompt, ViewerInv, Runs
<1>3. /\ running' = TRUE /\ agentCh' = r /\ loops' = [loops EXCEPT ![r] = ShowLoop("pull")]
      /\ waiters' = Armed(r) /\ UNCHANGED <<chans, drains, updates>>
  BY <1>1 DEF SubmitPrompt
<1>4. ShowLoop("pull") \in ShowLoops /\ ShowLoop("pull").events = 0 /\ ShowLoop("pull").step = "pull"
  BY ViewerAssumption DEF ShowLoop, ShowLoops
<1>5. waiters' \in [Runs -> Nat] /\ waiters'[r] > 0
  BY <1>2, <1>3, Arming DEF ViewerInv, Runs
<1>6. loops' \in [Runs -> ShowLoops] /\ loops'[r] = ShowLoop("pull")
      /\ \A q \in Runs \ {r} : loops'[q] = loops[q]
  BY <1>2, <1>3, <1>4 DEF ViewerInv
<1>7. ViewerListens'
  BY <1>2, <1>3, <1>5 DEF ViewerListens, Runs
<1>. QED
  BY <1>2, <1>3, <1>4, <1>5, <1>6, <1>7, ViewerAssumption DEF ViewerInv

LEMMA CancellingOneLoop ==
  ASSUME loops \in [Runs -> ShowLoops], NEW l, loops' = [loops EXCEPT ![l].cancelled = TRUE]
  PROVE  /\ loops' \in [Runs -> ShowLoops]
         /\ \A q \in Runs : /\ loops'[q].step = loops[q].step /\ loops'[q].kind = loops[q].kind
                            /\ loops'[q].events = loops[q].events
<1>1. ASSUME NEW loop \in ShowLoops, NEW after, after = [loop EXCEPT !.cancelled = TRUE]
      PROVE  /\ after \in ShowLoops /\ after.step = loop.step /\ after.kind = loop.kind
             /\ after.events = loop.events
  BY <1>1 DEF ShowLoops
<1>2. ASSUME NEW q \in Runs
      PROVE  /\ loops'[q] \in ShowLoops /\ loops'[q].step = loops[q].step
             /\ loops'[q].kind = loops[q].kind /\ loops'[q].events = loops[q].events
  <2>1. loops[q] \in ShowLoops
    OBVIOUS
  <2>2. CASE q = l
    <3>1. loops'[q] = [loops[q] EXCEPT !.cancelled = TRUE]
      BY <2>2
    <3>. QED
      BY <1>1, <2>1, <3>1
  <2>3. CASE q # l
    <3>1. loops'[q] = loops[q]
      BY <2>3
    <3>. QED
      BY <2>1, <3>1
  <2>. QED
    BY <2>2, <2>3
<1>3. loops' = [q \in Runs |-> loops'[q]]
  OBVIOUS
<1>. QED
  BY <1>2, <1>3

LEMMA CancelAgentKeeps == ViewerInv /\ CancelAgent => ViewerInv'
<1>. SUFFICES ASSUME ViewerInv, CancelAgent PROVE ViewerInv'
  OBVIOUS
<1>1. /\ running' = FALSE /\ agentCh' = 0 /\ drains' = drains \cup ({agentCh} \ {0})
      /\ UNCHANGED <<chans, waiters, updates>>
  BY DEF CancelAgent
<1>2. PICK l : loops' = [loops EXCEPT ![l].cancelled = TRUE]
  BY DEF CancelAgent
<1>3. loops \in [Runs -> ShowLoops]
  BY DEF ViewerInv
<1>4. /\ loops' \in [Runs -> ShowLoops]
      /\ \A q \in Runs : /\ loops'[q].step = loops[q].step /\ loops'[q].kind = loops[q].kind
                         /\ loops'[q].events = loops[q].events
  BY <1>2, <1>3, CancellingOneLoop
<1>5. drains' \subseteq Runs
  BY <1>1 DEF ViewerInv
<1>6. ViewerListens'
  BY <1>1 DEF ViewerListens
<1>. QED
  BY <1>1, <1>4, <1>5, <1>6 DEF ViewerInv

LEMMA ListensKeeps == ViewerInv /\ Listens => ViewerInv'
<1>. SUFFICES ASSUME ViewerInv, Listens PROVE ViewerInv'
  OBVIOUS
<1>1. /\ waiters' = Armed(agentCh) /\ agentCh \in Runs \cup {0}
      /\ UNCHANGED <<running, agentCh, chans, loops, drains, updates>>
  BY DEF Listens, ViewerInv
<1>2. waiters' \in [Runs -> Nat] /\ (agentCh # 0 => waiters'[agentCh] > 0)
  BY <1>1, Arming DEF ViewerInv
<1>. QED
  BY <1>1, <1>2 DEF ViewerInv, ViewerListens

LEMMA HandleKeeps ==
  ASSUME ViewerInv, NEW msg, Handle(msg)
  PROVE  ViewerInv'
<1>1. /\ waiters' = Armed(agentCh) /\ agentCh \in Runs \cup {0} /\ updates' \subseteq updates
      /\ UNCHANGED <<running, agentCh, chans, loops, drains>>
  BY DEF Handle, Rearmed, ViewerInv
<1>2. waiters' \in [Runs -> Nat] /\ (agentCh # 0 => waiters'[agentCh] > 0)
  BY <1>1, Arming DEF ViewerInv
<1>. QED
  BY <1>1, <1>2 DEF ViewerInv, ViewerListens

LEMMA HandleDoneKeeps ==
  ASSUME ViewerInv, NEW msg, HandleDone(msg)
  PROVE  ViewerInv'
  BY DEF HandleDone, ViewerInv, ViewerListens

LEMMA FetchKeeps ==
  ASSUME ViewerInv, NEW ch \in Runs, Fetch(ch)
  PROVE  ViewerInv'
<1>1. /\ waiters[ch] > 0 /\ waiters' = [waiters EXCEPT ![ch] = waiters[ch] - 1]
      /\ UNCHANGED <<running, agentCh, loops, drains>>
  BY DEF Fetch
<1>2. waiters' \in [Runs -> Nat] /\ waiters[ch] \in Nat /\ chans[ch] \in Channels
  BY <1>1 DEF ViewerInv
<1>3. chans' \in [Runs -> Channels] /\ updates' \subseteq ShowMessages /\ updates' # {}
      /\ \A r \in Runs : Len(chans'[r].queue) <= Room
  <2>1. CASE chans[ch].queue # <<>>
    <3>1. PICK q : q = chans[ch].queue
      OBVIOUS
    <3>2. q \in Seq(ShowMessages) /\ q # <<>> /\ Len(q) <= Room
      BY <1>2, <2>1, <3>1 DEF Channels, ViewerInv
    <3>3. Head(q) \in ShowMessages /\ Tail(q) \in Seq(ShowMessages) /\ Len(Tail(q)) = Len(q) - 1
          /\ Len(q) \in Nat
      BY <3>2, HeadTailProperties, LenProperties
    <3>4. updates' = updates \cup {Head(q)} /\ chans' = [chans EXCEPT ![ch].queue = Tail(q)]
      BY <2>1, <3>1 DEF Fetch
    <3>5. chans' \in [Runs -> Channels] /\ chans'[ch].queue = Tail(q)
          /\ \A r \in Runs \ {ch} : chans'[r] = chans[r]
      BY <1>2, <3>3, <3>4 DEF ViewerInv, Channels
    <3>6. Len(Tail(q)) <= Room
      BY <3>2, <3>3, ViewerAssumption
    <3>. QED
      BY <3>3, <3>4, <3>5, <3>6 DEF ViewerInv
  <2>2. CASE chans[ch].queue = <<>>
    <3>1. updates' = updates \cup {Message("done", ch, waiters[ch])} /\ chans' = chans
      BY <2>2 DEF Fetch
    <3>2. Message("done", ch, waiters[ch]) \in ShowMessages
      BY <1>2 DEF Message, ShowMessages
    <3>. QED
      BY <3>1, <3>2 DEF ViewerInv
  <2>. QED
    BY <2>1, <2>2
<1>4. ViewerListens'
  BY <1>1, <1>3 DEF ViewerInv, ViewerListens
<1>. QED
  BY <1>1, <1>2, <1>3, <1>4 DEF ViewerInv

LEMMA DrainKeeps ==
  ASSUME ViewerInv, NEW ch \in Runs, DrainEvents(ch)
  PROVE  ViewerInv'
<1>1. UNCHANGED <<running, agentCh, loops, waiters, updates>> /\ drains' \subseteq drains
  BY DEF DrainEvents
<1>2. chans[ch] \in Channels
  BY DEF ViewerInv
<1>3. chans' \in [Runs -> Channels] /\ \A r \in Runs : Len(chans'[r].queue) <= Room
  <2>1. CASE chans[ch].queue # <<>>
    <3>1. PICK q : q = chans[ch].queue
      OBVIOUS
    <3>2. q \in Seq(ShowMessages) /\ q # <<>> /\ Len(q) <= Room
      BY <1>2, <2>1, <3>1 DEF Channels, ViewerInv
    <3>3. Tail(q) \in Seq(ShowMessages) /\ Len(Tail(q)) = Len(q) - 1 /\ Len(q) \in Nat
      BY <3>2, HeadTailProperties, LenProperties
    <3>4. chans' = [chans EXCEPT ![ch].queue = Tail(q)]
      BY <2>1, <3>1 DEF DrainEvents
    <3>5. chans' \in [Runs -> Channels] /\ chans'[ch].queue = Tail(q)
          /\ \A r \in Runs \ {ch} : chans'[r] = chans[r]
      BY <1>2, <3>3, <3>4 DEF ViewerInv, Channels
    <3>6. Len(Tail(q)) <= Room
      BY <3>2, <3>3, ViewerAssumption
    <3>. QED
      BY <3>5, <3>6 DEF ViewerInv
  <2>2. CASE chans[ch].queue = <<>>
    BY <2>2 DEF DrainEvents, ViewerInv
  <2>. QED
    BY <2>1, <2>2
<1>. QED
  BY <1>1, <1>3 DEF ViewerInv, ViewerListens

\* One goroutine moves: the others' loops are what they were.
LEMMA LoopMoves ==
  ASSUME ViewerInv, NEW r \in Runs, NEW loop \in ShowLoops, loops' = [loops EXCEPT ![r] = loop],
         loop.step = "pull" => loop.events <= MaxEvents,
         loop.step = "send" => /\ loop.kind \in {"text", "result", "done"}
                               /\ loop.kind # "done" => loop.events <= MaxEvents
  PROVE  /\ loops' \in [Runs -> ShowLoops]
         /\ \A q \in Runs :
              /\ loops'[q].step = "pull" => loops'[q].events <= MaxEvents
              /\ loops'[q].step = "send" => /\ loops'[q].kind \in {"text", "result", "done"}
                                            /\ loops'[q].kind # "done" => loops'[q].events <= MaxEvents
<1>1. loops' \in [Runs -> ShowLoops] /\ loops'[r] = loop /\ \A q \in Runs \ {r} : loops'[q] = loops[q]
  BY DEF ViewerInv
<1>. QED
  BY <1>1 DEF ViewerInv

LEMMA PullKeeps ==
  ASSUME ViewerInv, NEW r \in Runs, Pull(r)
  PROVE  ViewerInv'
<1>1. PICK kind \in {"text", "result", "done"} :
         /\ kind # "done" => loops[r].events < MaxEvents
         /\ loops' = [loops EXCEPT ![r].step = "send", ![r].kind = kind,
                                   ![r].events = @ + 1, ![r].to = agentCh]
  BY DEF Pull
<1>2. loops[r] \in ShowLoops /\ loops[r].events \in Nat /\ loops[r].events <= MaxEvents /\ agentCh \in Runs \cup {0}
      /\ MaxEvents \in Nat
  BY ViewerAssumption DEF ViewerInv, ShowLoops, Pull
<1>3. PICK n \in Nat : n = loops[r].events + 1
  BY <1>2
<1>4. n \in 0 .. MaxEvents + 1 /\ (kind # "done" => n <= MaxEvents)
  BY <1>1, <1>2, <1>3
<1>5. PICK loop : loop = [loops[r] EXCEPT !.step = "send", !.kind = kind, !.events = n, !.to = agentCh]
  OBVIOUS
<1>6. loop \in ShowLoops /\ loop.step = "send" /\ loop.kind = kind /\ loop.events = n
  BY <1>2, <1>4, <1>5 DEF ShowLoops
<1>7. loops' = [loops EXCEPT ![r] = loop]
  BY <1>1, <1>2, <1>3, <1>5 DEF ViewerInv
<1>8. UNCHANGED <<running, agentCh, chans, drains, waiters, updates>>
  BY DEF Pull
<1>. QED
  BY <1>4, <1>6, <1>7, <1>8, LoopMoves DEF ViewerInv, ViewerListens

LEMMA SendKeeps ==
  ASSUME ViewerInv, NEW r \in Runs, Send(r)
  PROVE  ViewerInv'
<1>1. PICK ch : ch = loops[r].to
  OBVIOUS
<1>2. /\ loops[r] \in ShowLoops /\ ch \in Runs /\ chans[ch] \in Channels /\ loops[r].step = "send"
      /\ loops[r].kind \in {"text", "result", "done"}
      /\ UNCHANGED <<running, agentCh, drains, waiters, updates>>
  BY <1>1 DEF ViewerInv, ShowLoops, Send
<1>3. CASE chans[ch].closed
  BY <1>1, <1>2, <1>3 DEF Send, ViewerInv, ViewerListens
<1>4. CASE ~chans[ch].closed
  <2>1. PICK q, m, s : /\ q = chans[ch].queue /\ m = Message(loops[r].kind, r, loops[r].events)
                       /\ s = IF loops[r].kind = "done" THEN "return" ELSE "pull"
    OBVIOUS
  <2>2. q \in Seq(ShowMessages) /\ m \in ShowMessages
    BY <1>2, <2>1 DEF Channels, ShowLoops, ShowMessages, Message
  <2>3. /\ Len(q) < Room
        /\ chans' = [chans EXCEPT ![ch].queue = Append(q, m)]
        /\ loops' = [loops EXCEPT ![r].step = s, ![r].to = 0, ![r].kind = "none"]
    BY <1>1, <1>4, <2>1 DEF Send
  <2>4. Append(q, m) \in Seq(ShowMessages) /\ Len(Append(q, m)) = Len(q) + 1 /\ Len(q) \in Nat
    BY <2>2, AppendProperties, LenProperties
  <2>5. Len(Append(q, m)) <= Room
    BY <2>3, <2>4, ViewerAssumption
  <2>6. chans' \in [Runs -> Channels] /\ chans'[ch].queue = Append(q, m)
        /\ \A p \in Runs \ {ch} : chans'[p] = chans[p]
    BY <1>2, <2>3, <2>4 DEF ViewerInv, Channels
  <2>7. PICK loop : loop = [loops[r] EXCEPT !.step = s, !.to = 0, !.kind = "none"]
    OBVIOUS
  <2>8. loop \in ShowLoops /\ loop.step = s /\ loop.events = loops[r].events /\ s \in {"return", "pull"}
    BY <1>2, <2>1, <2>7 DEF ShowLoops
  <2>9. s = "pull" => loops[r].events <= MaxEvents
    BY <1>2, <2>1 DEF ViewerInv
  <2>10. loops' = [loops EXCEPT ![r] = loop]
    BY <2>3, <2>7 DEF ViewerInv
  <2>11. \A p \in Runs : Len(chans'[p].queue) <= Room
    BY <2>5, <2>6 DEF ViewerInv
  <2>12. /\ loops' \in [Runs -> ShowLoops]
         /\ \A p \in Runs :
              /\ loops'[p].step = "pull" => loops'[p].events <= MaxEvents
              /\ loops'[p].step = "send" => /\ loops'[p].kind \in {"text", "result", "done"}
                                            /\ loops'[p].kind # "done" => loops'[p].events <= MaxEvents
    BY <2>8, <2>9, <2>10, LoopMoves
  <2>. QED
    BY <1>2, <2>6, <2>11, <2>12 DEF ViewerInv, ViewerListens
<1>. QED
  BY <1>3, <1>4

LEMMA EndsKeeps ==
  ASSUME ViewerInv, NEW r \in Runs, IteratorEnds(r) \/ Return(r)
  PROVE  ViewerInv'
<1>1. PICK s \in {"return", "over"} : loops' = [loops EXCEPT ![r].step = s]
  BY DEF IteratorEnds, Return
<1>2. PICK loop : loop = [loops[r] EXCEPT !.step = s]
  OBVIOUS
<1>3. loops[r] \in ShowLoops /\ chans[r] \in Channels
  BY DEF ViewerInv
<1>4. loop \in ShowLoops /\ loop.step = s
  BY <1>2, <1>3 DEF ShowLoops
<1>5. loops' = [loops EXCEPT ![r] = loop]
  BY <1>1, <1>2 DEF ViewerInv
<1>6. UNCHANGED <<running, agentCh, drains, waiters, updates>>
      /\ (chans' = chans \/ chans' = [chans EXCEPT ![r].closed = TRUE])
  BY DEF IteratorEnds, Return
<1>7. chans' \in [Runs -> Channels] /\ \A p \in Runs : chans'[p].queue = chans[p].queue
  <2>1. CASE chans' = chans
    BY <2>1 DEF ViewerInv
  <2>2. CASE chans' = [chans EXCEPT ![r].closed = TRUE]
    <3>1. PICK c : c = [chans[r] EXCEPT !.closed = TRUE]
      OBVIOUS
    <3>2. c \in Channels /\ c.queue = chans[r].queue
      BY <1>3, <3>1 DEF Channels
    <3>3. chans' = [chans EXCEPT ![r] = c] /\ chans \in [Runs -> Channels]
      BY <2>2, <3>1 DEF ViewerInv
    <3>. QED
      BY <3>2, <3>3
  <2>. QED
    BY <1>6, <2>1, <2>2
<1>. QED
  BY <1>4, <1>5, <1>6, <1>7, LoopMoves DEF ViewerInv, ViewerListens

LEMMA ViewerKeeps == ViewerInv /\ (ViewerNext \/ UNCHANGED viewerVars) => ViewerInv'
<1>1. ASSUME ViewerInv, ViewerNext PROVE ViewerInv'
  <2>1. CASE SubmitPrompt
    BY <1>1, <2>1, SubmitPromptKeeps
  <2>2. CASE CancelAgent
    BY <1>1, <2>2, CancelAgentKeeps
  <2>3. CASE Listens
    BY <1>1, <2>3, ListensKeeps
  <2>4. CASE UpdateStep
    BY <1>1, <2>4, HandleKeeps, HandleDoneKeeps DEF UpdateStep
  <2>5. ASSUME NEW r \in Runs, Fetch(r) PROVE ViewerInv'
    BY <1>1, <2>5, FetchKeeps
  <2>6. ASSUME NEW r \in Runs, DrainEvents(r) PROVE ViewerInv'
    BY <1>1, <2>6, DrainKeeps
  <2>7. ASSUME NEW r \in Runs, LoopStep(r) PROVE ViewerInv'
    BY <1>1, <2>7, PullKeeps, SendKeeps, EndsKeeps DEF LoopStep
  <2>. QED
    BY <1>1, <2>1, <2>2, <2>3, <2>4, <2>5, <2>6, <2>7 DEF ViewerNext
<1>2. ASSUME ViewerInv, UNCHANGED viewerVars PROVE ViewerInv'
  BY <1>2 DEF viewerVars, ViewerInv, ViewerListens
<1>. QED
  BY <1>1, <1>2

LEMMA ViewerShows == ViewerInv => ViewerTypeOK /\ ViewerListens
<1>1. ViewerInv => \A r \in Runs : loops[r] \in ShowLoops /\ waiters[r] \in Nat
  BY DEF ViewerInv
<1>. QED
  BY <1>1 DEF ViewerInv, ViewerTypeOK, ShowLoops

-------------------------------------------------------------------------------
(* The shell                                                                    *)

\* Who holds the pipes: the shell as long as it is alive, which alone starts others.
ShellProcs ==
    /\ shPc \in {"start", "draining", "waiting", "executed", "stopping", "returned"}
    /\ shOutcome \in ShellOutcomes /\ shExit \in {"none", "zero", "not zero", "killed"}
    /\ shAlive \subseteq ShellProcesses /\ shHolding \subseteq shAlive
    /\ shEscaped \subseteq Children
    /\ "shell" \in shAlive => "shell" \in shHolding
    /\ shPc = "start" => shAlive = {}

\* Where the output is: captured, or in one of the two pipes. A reader that is done has
\* failed, or left its pipe empty with nobody to fill it again.
ShellOutput ==
    /\ shUnread \in [Pipes -> Nat] /\ shWritten \in 0..MaxChunks /\ shCaptured \in Nat
    /\ shReader \in [Pipes -> {"reading", "calling", "done"}]
    /\ \A p, q \in Pipes : p # q => shCaptured + shUnread[p] + shUnread[q] = shWritten
    /\ \A p \in Pipes :
         /\ shPc = "start" => shReader[p] = "reading" /\ shUnread[p] = 0
         /\ shPc \notin {"start", "draining"} =>
                \/ shReader[p] = "done"
                \/ shHolding = {} /\ shReader[p] = "reading" /\ shUnread[p] = 0
         /\ shReader[p] = "done" =>
                shCallbackErr \/ shReadErr \/ (shHolding = {} /\ shUnread[p] = 0)

\* When updates stop.
ShellUpdates ==
    /\ shTimers \in [Timers -> {"free", "armed", "fired"}] /\ shTimer \in Timers \cup {NoTimer}
    /\ shShown \in Nat /\ shCaptured \in Nat /\ shShown <= shCaptured /\ shUpdates = 0
    /\ shPc \in {"stopping", "returned"} => shOver
    /\ shPc = "returned" => \A t \in Timers : shTimers[t] = "free"

ShellInv == ShellProcs /\ ShellOutput /\ ShellUpdates

LEMMA OtherPipe ==
  ASSUME NEW p \in Pipes
  PROVE  \E q \in Pipes : p # q /\ \A r \in Pipes : r = p \/ r = q
  BY ShellAssumption

LEMMA ShellBegins == ShellInit => ShellInv
<1>. SUFFICES ASSUME ShellInit PROVE ShellInv
  OBVIOUS
<1>1. ShellProcs
  BY DEF ShellInit, ShellProcs, ShellOutcomes
<1>2. ShellOutput
  BY ShellAssumption DEF ShellInit, ShellOutput
<1>3. ShellUpdates
  BY DEF ShellInit, ShellUpdates
<1>. QED
  BY <1>1, <1>2, <1>3 DEF ShellInv

\* Steps that leave the output, or the updates, alone keep what is said of them.
LEMMA OutputStays ==
  ASSUME ShellOutput, UNCHANGED <<shUnread, shWritten, shCaptured, shReader, shCallbackErr, shReadErr>>,
         shPc' = shPc \/ (shPc' \notin {"start", "draining"} /\ shPc \notin {"start", "draining"}),
         shHolding = {} => shHolding' = {}
  PROVE  ShellOutput'
  BY DEF ShellOutput

LEMMA UpdatesStay ==
  ASSUME ShellUpdates, UNCHANGED <<shTimers, shTimer, shShown, shUpdates, shOver>>,
         shCaptured' \in Nat /\ shCaptured' >= shCaptured,
         shPc' = shPc \/ shPc' \notin {"stopping", "returned"}
  PROVE  ShellUpdates'
<1>1. shShown' <= shCaptured'
  BY DEF ShellUpdates
<1>. QED
  BY <1>1 DEF ShellUpdates

LEMMA WriteKeeps ==
  ASSUME ShellInv, NEW p \in Pipes, WriteOutput(p)
  PROVE  ShellInv'
<1>1. /\ shHolding # {} /\ shWritten < MaxChunks /\ shWritten' = shWritten + 1
      /\ shUnread' = [shUnread EXCEPT ![p] = shUnread[p] + 1]
      /\ UNCHANGED <<shPc, shAlive, shEscaped, shHolding, shExit, shReader, shCaptured,
                     shCallbackErr, shReadErr, shOutcome>>
      /\ UNCHANGED <<shTimers, shTimer, shShown, shUpdates, shOver>>
  BY DEF WriteOutput, errorVars, updateVars
<1>2. shPc # "start" /\ shUnread[p] \in Nat /\ shWritten \in Nat /\ shCaptured \in Nat
  <2>1. shPc = "start" => shHolding \subseteq {}
    BY DEF ShellInv, ShellProcs
  <2>2. shUnread[p] \in Nat /\ shWritten \in 0 .. MaxChunks /\ shCaptured \in Nat
    BY DEF ShellInv, ShellOutput
  <2>. QED
    BY <1>1, <2>1, <2>2
<1>3. ShellProcs'
  BY <1>1 DEF ShellInv, ShellProcs
<1>4. ShellUpdates'
  <2>1. shCaptured' \in Nat /\ shCaptured' >= shCaptured
    BY <1>1, <1>2
  <2>. QED
    BY <1>1, <2>1, UpdatesStay DEF ShellInv
<1>5. ShellOutput'
  <2>1. shUnread' \in [Pipes -> Nat] /\ shUnread'[p] = shUnread[p] + 1
        /\ \A q \in Pipes \ {p} : shUnread'[q] = shUnread[q]
    BY <1>1, <1>2 DEF ShellInv, ShellOutput
  <2>2. PICK q \in Pipes : p # q /\ \A r \in Pipes : r = p \/ r = q
    BY OtherPipe
  <2>3. shCaptured + shUnread[p] + shUnread[q] = shWritten /\ shUnread[q] \in Nat
    BY <2>2 DEF ShellInv, ShellOutput
  <2>4. /\ shCaptured' + shUnread'[p] + shUnread'[q] = shWritten'
        /\ shCaptured' + shUnread'[q] + shUnread'[p] = shWritten'
    BY <1>1, <1>2, <2>1, <2>2, <2>3
  <2>5. \A r, s \in Pipes : r # s => shCaptured' + shUnread'[r] + shUnread'[s] = shWritten'
    BY <2>2, <2>4
  <2>6. shWritten' \in 0 .. MaxChunks
    BY <1>1, <1>2, ShellAssumption
  <2>. QED
    BY <1>1, <1>2, <2>1, <2>5, <2>6 DEF ShellInv, ShellOutput
<1>. QED
  BY <1>3, <1>4, <1>5 DEF ShellInv

LEMMA SpawnKeeps ==
  ASSUME ShellInv, NEW c \in Children, Spawn(c)
  PROVE  ShellInv'
<1>1. /\ "shell" \in shAlive /\ shAlive' = shAlive \cup {c}
      /\ UNCHANGED <<shPc, shExit, shWritten, shUnread, shReader, shCaptured, shCallbackErr, shReadErr, shOutcome>>
      /\ UNCHANGED <<shTimers, shTimer, shShown, shUpdates, shOver>>
  BY DEF Spawn, errorVars, updateVars
<1>2. PICK gone \in SUBSET {c}, holding \in SUBSET {c} :
         shEscaped' = shEscaped \cup gone /\ shHolding' = shHolding \cup holding
  BY DEF Spawn
<1>3. ShellProcs'
  BY <1>1, <1>2 DEF ShellInv, ShellProcs, ShellProcesses
<1>4. shHolding # {}
  BY <1>1 DEF ShellInv, ShellProcs
<1>5. ShellOutput'
  BY <1>1, <1>4, OutputStays DEF ShellInv
<1>6. ShellUpdates'
  BY <1>1, UpdatesStay DEF ShellInv, ShellUpdates
<1>. QED
  BY <1>3, <1>5, <1>6 DEF ShellInv

LEMMA ProcessEndsKeeps ==
  ASSUME ShellInv, NEW c \in ShellProcesses, ProcessEnds(c)
  PROVE  ShellInv'
<1>1. /\ shAlive' = shAlive \ {c} /\ shHolding' = shHolding \ {c}
      /\ shExit' \in {shExit, "zero", "not zero"}
      /\ UNCHANGED <<shPc, shEscaped, shWritten, shUnread, shReader, shCaptured, shCallbackErr, shReadErr, shOutcome>>
      /\ UNCHANGED <<shTimers, shTimer, shShown, shUpdates, shOver>>
  BY DEF ProcessEnds, errorVars, updateVars
<1>2. ShellProcs'
  BY <1>1 DEF ShellInv, ShellProcs
<1>3. ShellOutput'
  BY <1>1, OutputStays DEF ShellInv
<1>4. ShellUpdates'
  BY <1>1, UpdatesStay DEF ShellInv, ShellUpdates
<1>. QED
  BY <1>2, <1>3, <1>4 DEF ShellInv

LEMMA KillGroupKeeps == ShellInv /\ KillGroup => ShellInv'
<1>. SUFFICES ASSUME ShellInv, KillGroup PROVE ShellInv'
  OBVIOUS
<1>1. /\ shAlive' = shAlive \ GroupOf(shAlive) /\ shHolding' = shHolding \ GroupOf(shAlive)
      /\ shExit' \in {shExit, "killed"}
      /\ UNCHANGED <<shPc, shEscaped, shWritten, shUnread, shReader, shCaptured, shCallbackErr, shReadErr, shOutcome>>
      /\ UNCHANGED <<shTimers, shTimer, shShown, shUpdates, shOver>>
  BY DEF KillGroup, errorVars, updateVars
<1>2. ShellProcs'
  BY <1>1 DEF ShellInv, ShellProcs
<1>3. ShellOutput'
  BY <1>1, OutputStays DEF ShellInv
<1>4. ShellUpdates'
  BY <1>1, UpdatesStay DEF ShellInv, ShellUpdates
<1>. QED
  BY <1>2, <1>3, <1>4 DEF ShellInv

\* An abort, a deadline and the passing of the interval touch nothing of this.
LEMMA SignalsKeep ==
  ASSUME ShellInv, AbortCommand \/ CommandTimesOut \/ IntervalPasses
  PROVE  ShellInv'
<1>1. /\ UNCHANGED <<shPc, shAlive, shHolding, shExit, shEscaped, shWritten, shUnread, shReader,
                     shCaptured, shCallbackErr, shReadErr, shOutcome>>
      /\ UNCHANGED <<shTimers, shTimer, shShown, shUpdates, shOver>>
  BY DEF AbortCommand, CommandTimesOut, IntervalPasses, processVars, contextVars, errorVars, updateVars
<1>2. ShellProcs'
  BY <1>1 DEF ShellInv, ShellProcs
<1>3. ShellOutput'
  BY <1>1, OutputStays DEF ShellInv
<1>4. ShellUpdates'
  BY <1>1, UpdatesStay DEF ShellInv, ShellUpdates
<1>. QED
  BY <1>2, <1>3, <1>4 DEF ShellInv

LEMMA StartCommandKeeps == ShellInv /\ StartCommand => ShellInv'
<1>. SUFFICES ASSUME ShellInv, StartCommand PROVE ShellInv'
  OBVIOUS
<1>1. /\ shPc = "start"
      /\ UNCHANGED <<shEscaped, shExit, shWritten, shUnread, shReader, shCaptured, shCallbackErr, shReadErr>>
      /\ UNCHANGED <<shTimers, shTimer, shShown, shUpdates, shOver>>
  BY DEF StartCommand, updateVars
<1>2. shAlive = {} /\ shHolding = {} /\ \A p \in Pipes : shReader[p] = "reading" /\ shUnread[p] = 0
  BY <1>1 DEF ShellInv, ShellProcs, ShellOutput
<1>3. \/ shPc' = "executed" /\ shOutcome' \in {"aborted", "spawn"} /\ UNCHANGED <<shAlive, shHolding>>
      \/ shPc' = "draining" /\ shAlive' = {"shell"} /\ shHolding' = {"shell"} /\ shOutcome' = shOutcome
  BY DEF StartCommand
<1>4. ShellProcs'
  BY <1>1, <1>2, <1>3 DEF ShellInv, ShellProcs, ShellProcesses, ShellOutcomes
<1>5. ShellOutput'
  BY <1>1, <1>2, <1>3 DEF ShellInv, ShellOutput
<1>6. ShellUpdates'
  BY <1>1, <1>3, UpdatesStay DEF ShellInv, ShellUpdates
<1>. QED
  BY <1>4, <1>5, <1>6 DEF ShellInv

LEMMA ReadChunkKeeps ==
  ASSUME ShellInv, NEW p \in Pipes, ReadChunk(p)
  PROVE  ShellInv'
<1>1. /\ shPc = "draining" /\ shCaptured' = shCaptured + shUnread[p]
      /\ shUnread' = [shUnread EXCEPT ![p] = 0] /\ shReader' = [shReader EXCEPT ![p] = "calling"]
      /\ UNCHANGED <<shPc, shAlive, shHolding, shEscaped, shExit, shWritten, shCallbackErr, shReadErr, shOutcome>>
      /\ UNCHANGED <<shTimers, shTimer, shShown, shUpdates, shOver>>
  BY DEF ReadChunk, processVars, errorVars, updateVars
<1>2. shUnread[p] \in Nat /\ shCaptured \in Nat /\ shCaptured' \in Nat /\ shCaptured' >= shCaptured
  BY <1>1 DEF ShellInv, ShellOutput
<1>3. ShellProcs'
  BY <1>1 DEF ShellInv, ShellProcs
<1>4. ShellUpdates'
  BY <1>1, <1>2, UpdatesStay DEF ShellInv
<1>5. ShellOutput'
  <2>1. /\ shUnread' \in [Pipes -> Nat] /\ shUnread'[p] = 0
        /\ \A q \in Pipes \ {p} : shUnread'[q] = shUnread[q] /\ shReader'[q] = shReader[q]
        /\ shReader' \in [Pipes -> {"reading", "calling", "done"}] /\ shReader'[p] = "calling"
    BY <1>1 DEF ShellInv, ShellOutput
  <2>2. PICK q \in Pipes : p # q /\ \A r \in Pipes : r = p \/ r = q
    BY OtherPipe
  <2>3. shCaptured + shUnread[p] + shUnread[q] = shWritten /\ shUnread[q] \in Nat /\ shWritten \in Nat
    BY <2>2 DEF ShellInv, ShellOutput
  <2>4. /\ shCaptured' + shUnread'[p] + shUnread'[q] = shWritten'
        /\ shCaptured' + shUnread'[q] + shUnread'[p] = shWritten'
    BY <1>1, <1>2, <2>1, <2>2, <2>3
  <2>5. \A r, s \in Pipes : r # s => shCaptured' + shUnread'[r] + shUnread'[s] = shWritten'
    BY <2>2, <2>4
  <2>6. \A r \in Pipes : shReader'[r] = "done" => r # p
    BY <2>1
  <2>. QED
    BY <1>1, <1>2, <2>1, <2>5, <2>6 DEF ShellInv, ShellOutput
<1>. QED
  BY <1>3, <1>4, <1>5 DEF ShellInv

LEMMA Stopping ==
  ASSUME ShellUpdates
  PROVE  Stopped(shTimer) \in [Timers -> {"free", "armed", "fired"}]
  BY DEF ShellUpdates, Stopped

\* An update that is sent while the command runs is none of a call that has returned.
LEMMA SchedulingKeeps ==
  ASSUME ShellUpdates, shPc = "draining", ScheduleUpdate, UNCHANGED <<shPc, shCaptured>>
  PROVE  ShellUpdates'
<1>1. shPc' = "draining" /\ shCaptured' = shCaptured /\ shCaptured \in Nat /\ shShown \in Nat
  BY DEF ShellUpdates
<1>2. CASE ~shWatched.update \/ shOver
  BY <1>1, <1>2, UpdatesStay DEF ScheduleUpdate, updateVars, ShellUpdates
<1>3. CASE ~(~shWatched.update \/ shOver) /\ ~shRecent
  <2>1. /\ shShown' = shCaptured /\ shUpdates' = shUpdates
        /\ shTimers' = Stopped(shTimer) /\ shTimer' = NoTimer
    BY <1>3 DEF ScheduleUpdate, SendUpdate
  <2>2. shShown' <= shCaptured'
    BY <1>1, <2>1
  <2>3. shTimers' \in [Timers -> {"free", "armed", "fired"}]
    BY <2>1, Stopping
  <2>. QED
    BY <1>1, <2>1, <2>2, <2>3 DEF ShellUpdates
<1>4. CASE ~(~shWatched.update \/ shOver) /\ shRecent
  <2>1. /\ UNCHANGED <<shShown, shUpdates>>
        /\ \/ UNCHANGED <<shTimer, shTimers>>
           \/ \E t \in Timers : shTimer' = t /\ shTimers' = [shTimers EXCEPT ![t] = "armed"]
    BY <1>4 DEF ScheduleUpdate
  <2>2. shTimers' \in [Timers -> {"free", "armed", "fired"}] /\ shTimer' \in Timers \cup {NoTimer}
    BY <2>1 DEF ShellUpdates
  <2>. QED
    BY <1>1, <2>1, <2>2 DEF ShellUpdates
<1>. QED
  BY <1>2, <1>3, <1>4

LEMMA CallBackKeeps ==
  ASSUME ShellInv, NEW p \in Pipes, CallBack(p)
  PROVE  ShellInv'
<1>1. /\ shReader[p] = "calling"
      /\ UNCHANGED <<shPc, shAlive, shHolding, shEscaped, shExit, shWritten, shUnread, shCaptured,
                     shReadErr, shOutcome>>
  BY DEF CallBack, processVars
<1>2. shPc = "draining"
  BY <1>1 DEF ShellInv, ShellProcs, ShellOutput
<1>3. \/ ScheduleUpdate /\ shReader' = [shReader EXCEPT ![p] = "reading"] /\ shCallbackErr' = shCallbackErr
      \/ UNCHANGED updateVars /\ shReader' = [shReader EXCEPT ![p] = "done"] /\ shCallbackErr' = TRUE
  BY DEF CallBack
<1>4. ShellProcs'
  BY <1>1 DEF ShellInv, ShellProcs
<1>5. ShellOutput'
  <2>1. /\ shReader' \in [Pipes -> {"reading", "calling", "done"}] /\ shReader'[p] \in {"reading", "done"}
        /\ shReader'[p] = "done" => shCallbackErr'
        /\ shCallbackErr => shCallbackErr'
        /\ \A q \in Pipes \ {p} : shReader'[q] = shReader[q]
    BY <1>3 DEF ShellInv, ShellOutput
  <2>. QED
    BY <1>1, <1>2, <2>1 DEF ShellInv, ShellOutput
<1>6. ShellUpdates'
  <2>1. CASE ScheduleUpdate
    BY <1>1, <1>2, <2>1, SchedulingKeeps DEF ShellInv
  <2>2. CASE UNCHANGED updateVars
    BY <1>1, <2>2, UpdatesStay DEF ShellInv, ShellUpdates, updateVars
  <2>. QED
    BY <1>3, <2>1, <2>2
<1>. QED
  BY <1>4, <1>5, <1>6 DEF ShellInv

LEMMA PipeReaderEndsKeeps ==
  ASSUME ShellInv, NEW p \in Pipes, PipeReaderEnds(p)
  PROVE  ShellInv'
<1>1. /\ shPc = "draining" /\ shReader' = [shReader EXCEPT ![p] = "done"]
      /\ (PipeEnded(p) /\ shReadErr' = shReadErr) \/ shReadErr'
      /\ UNCHANGED <<shPc, shAlive, shHolding, shEscaped, shExit, shWritten, shUnread, shCaptured,
                     shCallbackErr, shOutcome>>
      /\ UNCHANGED <<shTimers, shTimer, shShown, shUpdates, shOver>>
  BY DEF PipeReaderEnds, processVars, updateVars
<1>2. ShellProcs'
  BY <1>1 DEF ShellInv, ShellProcs
<1>3. ShellOutput'
  <2>1. /\ shReader' \in [Pipes -> {"reading", "calling", "done"}] /\ shReader'[p] = "done"
        /\ shReadErr' \/ (shHolding = {} /\ shUnread[p] = 0)
        /\ shReadErr => shReadErr'
        /\ \A q \in Pipes \ {p} : shReader'[q] = shReader[q]
    BY <1>1 DEF ShellInv, ShellOutput, PipeEnded
  <2>. QED
    BY <1>1, <2>1 DEF ShellInv, ShellOutput
<1>4. ShellUpdates'
  BY <1>1, UpdatesStay DEF ShellInv, ShellUpdates
<1>. QED
  BY <1>2, <1>3, <1>4 DEF ShellInv

LEMMA DrainPipesKeeps == ShellInv /\ DrainPipes => ShellInv'
<1>. SUFFICES ASSUME ShellInv, DrainPipes PROVE ShellInv'
  OBVIOUS
<1>1. /\ shPc' = "waiting" /\ \A p \in Pipes : shReader[p] = "done"
      /\ UNCHANGED <<shAlive, shHolding, shEscaped, shExit, shWritten, shUnread, shCaptured, shReader,
                     shCallbackErr, shReadErr, shOutcome>>
      /\ UNCHANGED <<shTimers, shTimer, shShown, shUpdates, shOver>>
  BY DEF DrainPipes, processVars, errorVars, updateVars
<1>2. ShellProcs'
  BY <1>1 DEF ShellInv, ShellProcs
<1>3. ShellOutput'
  BY <1>1 DEF ShellInv, ShellOutput
<1>4. ShellUpdates'
  BY <1>1, UpdatesStay DEF ShellInv, ShellUpdates
<1>. QED
  BY <1>2, <1>3, <1>4 DEF ShellInv

LEMMA WaitKeeps == ShellInv /\ Wait => ShellInv'
<1>. SUFFICES ASSUME ShellInv, Wait PROVE ShellInv'
  OBVIOUS
<1>1. /\ shPc = "waiting" /\ shPc' = "executed"
      /\ shOutcome' \in {"callback", "aborted", "timeout", "exit code", "unknown", "ok"}
      /\ UNCHANGED <<shAlive, shHolding, shEscaped, shExit, shWritten, shUnread, shCaptured, shReader,
                     shCallbackErr, shReadErr>>
      /\ UNCHANGED <<shTimers, shTimer, shShown, shUpdates, shOver>>
  BY DEF Wait, processVars, errorVars, updateVars
<1>2. ShellProcs'
  BY <1>1 DEF ShellInv, ShellProcs, ShellOutcomes
<1>3. ShellOutput'
  BY <1>1, OutputStays DEF ShellInv
<1>4. ShellUpdates'
  BY <1>1, UpdatesStay DEF ShellInv, ShellUpdates
<1>. QED
  BY <1>2, <1>3, <1>4 DEF ShellInv

LEMMA TimerFiresKeeps ==
  ASSUME ShellInv, NEW t \in Timers, TimerFires(t)
  PROVE  ShellInv'
<1>1. /\ shTimers[t] = "armed" /\ shTimers' = [shTimers EXCEPT ![t] = "fired"]
      /\ UNCHANGED <<shPc, shAlive, shHolding, shEscaped, shExit, shWritten, shUnread, shCaptured, shReader,
                     shCallbackErr, shReadErr, shOutcome>>
      /\ UNCHANGED <<shTimer, shShown, shUpdates, shOver>>
  BY DEF TimerFires, processVars, errorVars
<1>2. ShellProcs'
  BY <1>1 DEF ShellInv, ShellProcs
<1>3. ShellOutput'
  BY <1>1, OutputStays DEF ShellInv
<1>4. ShellUpdates'
  BY <1>1 DEF ShellInv, ShellUpdates
<1>. QED
  BY <1>2, <1>3, <1>4 DEF ShellInv

LEMMA TimerRunsKeeps ==
  ASSUME ShellInv, NEW t \in Timers, TimerRuns(t)
  PROVE  ShellInv'
<1>1. /\ shTimers' = [shTimers EXCEPT ![t] = "free"] /\ shTimer' = NoTimer
      /\ UNCHANGED <<shPc, shAlive, shHolding, shEscaped, shExit, shWritten, shUnread, shCaptured, shReader,
                     shCallbackErr, shReadErr, shOutcome, shOver>>
  BY DEF TimerRuns, processVars, errorVars
<1>2. ShellProcs'
  BY <1>1 DEF ShellInv, ShellProcs
<1>3. ShellOutput'
  BY <1>1, OutputStays DEF ShellInv
<1>4. shTimers' \in [Timers -> {"free", "armed", "fired"}]
      /\ \A u \in Timers : shTimers[u] = "free" => shTimers'[u] = "free"
  BY <1>1 DEF ShellInv, ShellUpdates
<1>5. shShown' \in Nat /\ shShown' <= shCaptured' /\ shUpdates' = 0
  <2>1. shShown \in Nat /\ shCaptured \in Nat /\ shShown <= shCaptured /\ shUpdates = 0 /\ shCaptured' = shCaptured
    BY <1>1 DEF ShellInv, ShellUpdates
  <2>2. CASE shOver \/ ~shDirty
    BY <2>1, <2>2 DEF TimerRuns
  <2>3. CASE ~(shOver \/ ~shDirty)
    <3>1. shPc # "returned"
      BY <2>3 DEF ShellInv, ShellUpdates
    <3>2. shShown' = shCaptured /\ shUpdates' = shUpdates
      BY <2>3, <3>1 DEF TimerRuns, SendUpdate
    <3>. QED
      BY <2>1, <3>2
  <2>. QED
    BY <2>2, <2>3
<1>6. ShellUpdates'
  BY <1>1, <1>4, <1>5 DEF ShellInv, ShellUpdates
<1>. QED
  BY <1>2, <1>3, <1>6 DEF ShellInv

LEMMA StopUpdatesKeeps == ShellInv /\ StopUpdates => ShellInv'
<1>. SUFFICES ASSUME ShellInv, StopUpdates PROVE ShellInv'
  OBVIOUS
<1>1. /\ shPc = "executed" /\ shPc' = "stopping" /\ shOver' = TRUE
      /\ shTimers' = Stopped(shTimer) /\ shTimer' = NoTimer
      /\ UNCHANGED <<shAlive, shHolding, shEscaped, shExit, shWritten, shUnread, shCaptured, shReader,
                     shCallbackErr, shReadErr, shOutcome, shShown, shUpdates>>
  BY DEF StopUpdates, processVars, errorVars
<1>2. ShellProcs'
  BY <1>1 DEF ShellInv, ShellProcs
<1>3. ShellOutput'
  BY <1>1, OutputStays DEF ShellInv
<1>4. shTimers' \in [Timers -> {"free", "armed", "fired"}]
  BY <1>1, Stopping DEF ShellInv
<1>5. ShellUpdates'
  BY <1>1, <1>4 DEF ShellInv, ShellUpdates
<1>. QED
  BY <1>2, <1>3, <1>5 DEF ShellInv

LEMMA ReturnResultKeeps == ShellInv /\ ReturnResult => ShellInv'
<1>. SUFFICES ASSUME ShellInv, ReturnResult PROVE ShellInv'
  OBVIOUS
<1>1. /\ shPc = "stopping" /\ shPc' = "returned" /\ \A t \in Timers : shTimers[t] = "free"
      /\ UNCHANGED <<shAlive, shHolding, shEscaped, shExit, shWritten, shUnread, shCaptured, shReader,
                     shCallbackErr, shReadErr, shOutcome>>
      /\ UNCHANGED <<shTimers, shTimer, shShown, shUpdates, shOver>>
  BY DEF ReturnResult, TimersIdle, processVars, errorVars, updateVars
<1>2. ShellProcs'
  BY <1>1 DEF ShellInv, ShellProcs
<1>3. ShellOutput'
  BY <1>1, OutputStays DEF ShellInv
<1>4. ShellUpdates'
  BY <1>1 DEF ShellInv, ShellUpdates
<1>. QED
  BY <1>2, <1>3, <1>4 DEF ShellInv

LEMMA ShellKeeps == ShellInv /\ (ShellNext \/ UNCHANGED shellVars) => ShellInv'
<1>1. ASSUME ShellInv, ShellNext PROVE ShellInv'
  <2>1. ASSUME NEW p \in Pipes, WriteOutput(p) \/ ReadChunk(p) \/ CallBack(p) \/ PipeReaderEnds(p)
        PROVE  ShellInv'
    BY <1>1, <2>1, WriteKeeps, ReadChunkKeeps, CallBackKeeps, PipeReaderEndsKeeps
  <2>2. ASSUME NEW c \in Children, Spawn(c) PROVE ShellInv'
    BY <1>1, <2>2, SpawnKeeps
  <2>3. ASSUME NEW c \in ShellProcesses, ProcessEnds(c) PROVE ShellInv'
    BY <1>1, <2>3, ProcessEndsKeeps
  <2>4. CASE AbortCommand \/ CommandTimesOut \/ IntervalPasses
    BY <1>1, <2>4, SignalsKeep
  <2>5. CASE KillGroup
    BY <1>1, <2>5, KillGroupKeeps
  <2>6. CASE StartCommand \/ DrainPipes \/ Wait
    BY <1>1, <2>6, StartCommandKeeps, DrainPipesKeeps, WaitKeeps
  <2>7. ASSUME NEW t \in Timers, TimerFires(t) \/ TimerRuns(t) PROVE ShellInv'
    BY <1>1, <2>7, TimerFiresKeeps, TimerRunsKeeps
  <2>8. CASE StopUpdates \/ ReturnResult
    BY <1>1, <2>8, StopUpdatesKeeps, ReturnResultKeeps
  <2>. QED
    BY <1>1, <2>1, <2>2, <2>3, <2>4, <2>5, <2>6, <2>7, <2>8 DEF ShellNext
<1>2. ASSUME ShellInv, UNCHANGED shellVars PROVE ShellInv'
  BY <1>2 DEF shellVars, processVars, contextVars, errorVars, updateVars,
              ShellInv, ShellProcs, ShellOutput, ShellUpdates
<1>. QED
  BY <1>1, <1>2

LEMMA ShellShows == ShellInv => ShellTypeOK /\ ResultIsFinal
<1>. SUFFICES ASSUME ShellInv PROVE ShellTypeOK /\ ResultIsFinal
  OBVIOUS
<1>1. ASSUME NEW p \in Pipes PROVE shUnread[p] \in 0 .. MaxChunks
  <2>1. PICK q \in Pipes : p # q
    BY OtherPipe
  <2>2. /\ shCaptured + shUnread[p] + shUnread[q] = shWritten /\ shUnread[p] \in Nat /\ shUnread[q] \in Nat
        /\ shCaptured \in Nat /\ shWritten \in 0 .. MaxChunks
    BY <2>1 DEF ShellInv, ShellOutput
  <2>. QED
    BY <2>2, ShellAssumption
<1>2. ShellTypeOK
  BY <1>1 DEF ShellInv, ShellProcs, ShellOutput, ShellUpdates, ShellTypeOK
<1>3. ASSUME shPc = "returned", ~shCallbackErr, ~shReadErr PROVE shCaptured = shWritten
  <2>1. PICK p \in Pipes, q \in Pipes : p # q
    BY ShellAssumption
  <2>2. shUnread[p] = 0 /\ shUnread[q] = 0
    BY <1>3 DEF ShellInv, ShellOutput
  <2>3. shCaptured + shUnread[p] + shUnread[q] = shWritten /\ shCaptured \in Nat
    BY <2>1 DEF ShellInv, ShellOutput
  <2>. QED
    BY <2>2, <2>3
<1>. QED
  BY <1>2, <1>3 DEF ShellInv, ShellUpdates, ResultIsFinal

-------------------------------------------------------------------------------
(* What is captured                                                             *)

CaptureNames ==
    {"tail", "atLine", "bytes", "completed", "current", "prefix", "onFile", "file", "failed"}
IsCapture(c) == c = [f \in CaptureNames |-> c[f]]

\* Everything that was written is in the file, or held back for it, unless it was given up.
OutputKept(c, text) ==
    /\ IsCapture(c)
    /\ c.onFile => c.file = text /\ ~c.failed
    /\ ~c.onFile /\ ~c.failed => c.prefix = text

LEMMA TailIsAside ==
  ASSUME NEW c, IsCapture(c), NEW text
  PROVE  LET kept == AppendTail(c, text)
         IN  /\ IsCapture(kept)
             /\ kept.onFile = c.onFile /\ kept.file = c.file /\ kept.prefix = c.prefix /\ kept.failed = c.failed
<1>1. ASSUME NEW kept, IsCapture(kept)
      PROVE  LET e == TrimTail(kept)
             IN  /\ IsCapture(e)
                 /\ e.onFile = kept.onFile /\ e.file = kept.file /\ e.prefix = kept.prefix /\ e.failed = kept.failed
  <2>1. PICK tail, line : TrimTail(kept) = kept \/ TrimTail(kept) = [kept EXCEPT !.tail = tail, !.atLine = line]
    BY DEF TrimTail
  <2>2. ASSUME TrimTail(kept) = [kept EXCEPT !.tail = tail, !.atLine = line]
        PROVE  LET e == TrimTail(kept)
               IN  /\ IsCapture(e)
                   /\ e.onFile = kept.onFile /\ e.file = kept.file /\ e.prefix = kept.prefix /\ e.failed = kept.failed
    BY <1>1, <2>2 DEF IsCapture, CaptureNames
  <2>. QED
    BY <1>1, <2>1, <2>2
<1>2. PICK tail, bytes, n, k : AppendTail(c, text) =
                            TrimTail([c EXCEPT !.tail = tail, !.bytes = bytes, !.completed = n, !.current = k])
  BY DEF AppendTail
<1>3. PICK kept : kept = [c EXCEPT !.tail = tail, !.bytes = bytes, !.completed = n, !.current = k]
  OBVIOUS
<1>4. IsCapture(kept) /\ kept.onFile = c.onFile /\ kept.file = c.file /\ kept.prefix = c.prefix /\ kept.failed = c.failed
  BY <1>3 DEF IsCapture, CaptureNames
<1>. QED
  BY <1>1, <1>2, <1>3, <1>4

LEMMA GivenUp ==
  ASSUME NEW c, IsCapture(c)
  PROVE  IsCapture(GiveUpFile(c)) /\ GiveUpFile(c).failed /\ ~GiveUpFile(c).onFile
  BY DEF IsCapture, CaptureNames, GiveUpFile

LEMMA FullOutputKeeps ==
  ASSUME NEW all, NEW c, OutputKept(c, all), NEW text, NEW written \in BOOLEAN
  PROVE  OutputKept(AppendFullOutput(c, text, written), all \o text)
<1>. DEFINE kept == AppendFullOutput(c, text, written)
<1>1. PICK held : held = [c EXCEPT !.prefix = c.prefix \o text]
  OBVIOUS
<1>2. /\ IsCapture(c) /\ IsCapture(held) /\ held.onFile = c.onFile /\ held.failed = c.failed
      /\ held.prefix = c.prefix \o text
  BY <1>1 DEF OutputKept, IsCapture, CaptureNames
<1>3. CASE c.failed
  <2>1. kept = c /\ ~c.onFile
    BY <1>3 DEF AppendFullOutput, OutputKept
  <2>. QED
    BY <1>2, <1>3, <2>1 DEF OutputKept
<1>4. CASE ~c.failed /\ c.onFile /\ written
  <2>1. kept = [c EXCEPT !.file = c.file \o text]
    BY <1>4 DEF AppendFullOutput
  <2>2. IsCapture(kept) /\ kept.file = c.file \o text /\ kept.onFile = c.onFile /\ kept.failed = c.failed
    BY <1>2, <2>1 DEF IsCapture, CaptureNames
  <2>. QED
    BY <1>4, <2>2 DEF OutputKept
<1>5. CASE ~c.failed /\ c.onFile /\ ~written
  <2>1. kept = GiveUpFile(c)
    BY <1>5 DEF AppendFullOutput
  <2>. QED
    BY <1>2, <2>1, GivenUp DEF OutputKept
<1>6. CASE ~c.failed /\ ~c.onFile
  <2>1. c.prefix = all /\ kept = (IF Overflows(held) THEN EnsureFile(held, written) ELSE held)
    BY <1>1, <1>6 DEF AppendFullOutput, OutputKept
  <2>2. EnsureFile(held, written) =
           (IF ~written THEN GiveUpFile(held)
            ELSE [held EXCEPT !.onFile = TRUE, !.file = held.prefix, !.prefix = <<>>])
    BY <1>2, <1>6 DEF EnsureFile
  <2>3. CASE Overflows(held) /\ ~written
    BY <1>2, <2>1, <2>2, <2>3, GivenUp DEF OutputKept
  <2>4. CASE Overflows(held) /\ written
    <3>1. kept = [held EXCEPT !.onFile = TRUE, !.file = held.prefix, !.prefix = <<>>]
      BY <2>1, <2>2, <2>4
    <3>2. IsCapture(kept) /\ kept.onFile /\ kept.file = held.prefix /\ kept.failed = held.failed
      BY <1>2, <3>1 DEF IsCapture, CaptureNames
    <3>. QED
      BY <1>2, <1>6, <2>1, <3>2 DEF OutputKept
  <2>5. CASE ~Overflows(held)
    BY <1>2, <1>6, <2>1, <2>5 DEF OutputKept
  <2>. QED
    BY <2>3, <2>4, <2>5
<1>. QED
  BY <1>3, <1>4, <1>5, <1>6

LEMMA CaptureBegins == CaptureInit => OutputKept(capture, output)
  BY DEF CaptureInit, EmptyCapture, OutputKept, IsCapture, CaptureNames

LEMMA CaptureKeeps ==
  OutputKept(capture, output) /\ (CaptureNext \/ UNCHANGED captureVars) => OutputKept(capture, output)'
<1>1. ASSUME OutputKept(capture, output), CaptureNext PROVE OutputKept(capture', output')
  <2>1. PICK text \in Chunks, written \in BOOLEAN :
           capture' = Append1(capture, text, written) /\ output' = output \o text
    BY <1>1 DEF CaptureNext
  <2>2. text # <<>>
    <3>1. PICK n \in 1..3 : text \in [1..n -> {NL, PLAIN}]
      BY DEF Chunks
    <3>2. DOMAIN text = 1..n /\ 1 \in 1..n /\ DOMAIN <<>> = {}
      BY <3>1
    <3>. QED
      BY <3>2
  <2>3. PICK c : c = AppendTail(capture, text)
    OBVIOUS
  <2>4. OutputKept(c, output)
    BY <1>1, <2>3, TailIsAside DEF OutputKept
  <2>5. capture' = AppendFullOutput(c, text, written)
    BY <2>1, <2>2, <2>3 DEF Append1
  <2>. QED
    BY <2>1, <2>4, <2>5, FullOutputKeeps
<1>2. ASSUME OutputKept(capture, output), UNCHANGED captureVars PROVE OutputKept(capture', output')
  BY <1>2 DEF captureVars
<1>. QED
  BY <1>1, <1>2

LEMMA CaptureShows == OutputKept(capture, output) => FileComplete
  BY DEF OutputKept, FileComplete, Snapshot

-------------------------------------------------------------------------------
(* Lines of a text                                                              *)

Texts == Seq(Chars)

\* A sequence that has the members of a set in increasing order.
Enumerates(f, S) ==
    /\ f \in Seq(Nat)
    /\ \A i, j \in 1..Len(f) : i < j => f[i] < f[j]
    /\ S = {f[i] : i \in 1..Len(f)}

Below == OpToRel(<, Nat)

\* A set of naturals that is not empty has a least one.
LEMMA LeastExists ==
  ASSUME NEW T, T \subseteq Nat, T # {}
  PROVE  \E x \in T : \A y \in T : x <= y
<1>1. IsWellFoundedOn(Below, Nat)
  BY NatLessThanWellFounded DEF Below
<1>2. \A x, y \in Nat : <<x, y>> \in Below <=> x < y
  BY DEF Below, OpToRel
<1>3. PICK x \in T : \A y \in T : ~(<<y, x>> \in Below)
  BY <1>1, WFMin
<1>4. ASSUME NEW y \in T PROVE x <= y
  <2>1. x \in Nat /\ y \in Nat
    OBVIOUS
  <2>2. ~(y < x)
    BY <1>2, <1>3, <2>1
  <2>. QED
    BY <2>1, <2>2
<1>. QED
  BY <1>4

\* Induction over the naturals, with a set for the predicate.
LEMMA UpFromZero ==
  ASSUME NEW S, 0 \in S, \A n \in Nat : n \in S => n + 1 \in S
  PROVE  Nat \subseteq S
<1>. DEFINE T == Nat \ S
<1>. SUFFICES ASSUME T # {} PROVE FALSE
  OBVIOUS
<1>1. PICK x \in T : \A y \in T : x <= y
  BY LeastExists
<1>2. x \in Nat /\ x # 0 /\ x - 1 \in Nat
  BY <1>1
<1>3. x - 1 \in S
  BY <1>1, <1>2
<1>4. (x - 1) + 1 \in S
  BY <1>2, <1>3
<1>. QED
  BY <1>1, <1>2, <1>4

LEMMA EnumerationsExist ==
  \A n \in Nat : \A S \in SUBSET (1..n) : \E f : Enumerates(f, S)
<1>. DEFINE All == {n \in Nat : \A S \in SUBSET (1..n) : \E f : Enumerates(f, S)}
<1>1. 0 \in All
  <2>1. Enumerates(<<>>, {})
    BY DEF Enumerates
  <2>2. \A S \in SUBSET (1..0) : S = {}
    OBVIOUS
  <2>. QED
    BY <2>1, <2>2
<1>2. ASSUME NEW n \in Nat, n \in All PROVE n + 1 \in All
  <2>1. ASSUME NEW S \in SUBSET (1..n + 1) PROVE \E f : Enumerates(f, S)
    <3>1. S \ {n + 1} \in SUBSET (1..n)
      OBVIOUS
    <3>2. PICK f : Enumerates(f, S \ {n + 1})
      BY <1>2, <3>1
    <3>3. CASE n + 1 \notin S
      BY <3>2, <3>3, S \ {n + 1} = S
    <3>4. CASE n + 1 \in S
      <4>1. /\ f \in Seq(Nat) /\ Len(f) \in Nat
            /\ \A i \in 1..Len(f) : f[i] \in Nat /\ f[i] < n + 1
        <5>1. f \in Seq(Nat) /\ Len(f) \in Nat /\ \A i \in 1..Len(f) : f[i] \in S \ {n + 1}
          BY <3>2, LenProperties DEF Enumerates
        <5>2. \A k \in S \ {n + 1} : k \in Nat /\ k < n + 1
          BY <3>1
        <5>. QED
          BY <5>1, <5>2
      <4>2. PICK g : g = Append(f, n + 1)
        OBVIOUS
      <4>3. /\ g \in Seq(Nat) /\ Len(g) = Len(f) + 1 /\ g[Len(f) + 1] = n + 1
            /\ \A i \in 1..Len(f) : g[i] = f[i]
        BY <4>1, <4>2, AppendProperties
      <4>4. ASSUME NEW i \in 1..Len(g), NEW j \in 1..Len(g), i < j PROVE g[i] < g[j]
        <5>1. i \in 1..Len(f) /\ g[i] = f[i]
          BY <4>1, <4>3, <4>4
        <5>2. CASE j = Len(f) + 1
          BY <4>1, <4>3, <5>1, <5>2
        <5>3. CASE j # Len(f) + 1
          <6>1. j \in 1..Len(f) /\ g[j] = f[j]
            BY <4>1, <4>3, <5>3
          <6>. QED
            BY <3>2, <4>4, <5>1, <6>1 DEF Enumerates
        <5>. QED
          BY <5>2, <5>3
      <4>5. S = {g[i] : i \in 1..Len(g)}
        <5>1. S \ {n + 1} = {f[i] : i \in 1..Len(f)}
          BY <3>2 DEF Enumerates
        <5>2. \A i \in 1..Len(g) : i \in 1..Len(f) \/ i = Len(f) + 1
          BY <4>1, <4>3
        <5>3. \A i \in 1..Len(f) : i \in 1..Len(g)
          BY <4>1, <4>3
        <5>4. Len(f) + 1 \in 1..Len(g)
          BY <4>1, <4>3
        <5>5. \A x \in S : \E i \in 1..Len(g) : x = g[i]
          BY <4>3, <5>1, <5>3, <5>4
        <5>6. \A i \in 1..Len(g) : g[i] \in S
          BY <3>4, <4>3, <5>1, <5>2
        <5>. QED
          BY <5>5, <5>6
      <4>. QED
        BY <4>3, <4>4, <4>5 DEF Enumerates
    <3>. QED
      BY <3>3, <3>4
  <2>. QED
    BY <2>1
<1>. QED
  <2>1. Nat \subseteq All
    <3>. HIDE DEF All
    <3>. QED
      BY <1>1, <1>2, UpFromZero
  <2>. QED
    BY <2>1

LEMMA EnumerationCounts ==
  ASSUME NEW f, NEW S, Enumerates(f, S)
  PROVE  IsFiniteSet(S) /\ Cardinality(S) = Len(f) /\ Len(f) \in Nat
<1>1. f \in Seq(Nat) /\ Len(f) \in Nat /\ DOMAIN f = 1..Len(f) /\ f \in [1..Len(f) -> Nat]
  BY LenProperties DEF Enumerates
<1>2. \A i, j \in 1..Len(f) : i # j => f[i] # f[j]
  <2>1. ASSUME NEW i \in 1..Len(f), NEW j \in 1..Len(f), i # j PROVE f[i] # f[j]
    <3>1. i < j \/ j < i
      BY <1>1, <2>1
    <3>2. f[i] < f[j] \/ f[j] < f[i]
      BY <3>1 DEF Enumerates
    <3>. QED
      BY <1>1, <3>2
  <2>. QED
    BY <2>1
<1>3. f \in Bijection(1..Len(f), S)
  <2>1. f \in [1..Len(f) -> S] /\ \A s \in S : \E i \in 1..Len(f) : f[i] = s
    BY <1>1 DEF Enumerates
  <2>2. \A i, j \in DOMAIN f : f[i] = f[j] => i = j
    BY <1>1, <1>2
  <2>3. f \in Injection(1..Len(f), S)
    BY <2>1, <2>2 DEF Injection, IsInjective
  <2>4. f \in Surjection(1..Len(f), S)
    BY <2>1 DEF Surjection
  <2>. QED
    BY <2>3, <2>4 DEF Bijection
<1>4. ExistsBijection(1..Len(f), S)
  BY <1>3 DEF ExistsBijection
<1>. QED
  BY <1>1, <1>4, FS_CountingElements, FS_NatBijection

\* The numbers before one of an enumeration.
LEMMA EnumerationBefore ==
  ASSUME NEW f, NEW S, Enumerates(f, S), NEW k \in 1..Len(f)
  PROVE  Cardinality({o \in S : o < f[k]}) = k - 1
<1>1. f \in Seq(Nat) /\ Len(f) \in Nat /\ \A i \in 1..Len(f) : f[i] \in Nat
  BY LenProperties, ElementOfSeq DEF Enumerates
<1>2. PICK g : g = [i \in 1..k - 1 |-> f[i]]
  OBVIOUS
<1>3. g \in Seq(Nat) /\ Len(g) = k - 1 /\ \A i \in 1..k - 1 : i \in 1..Len(f) /\ g[i] = f[i]
  <2>1. \A i \in 1..k - 1 : i \in 1..Len(f)
    BY <1>1
  <2>. QED
    BY <1>1, <1>2, <2>1
<1>4. {o \in S : o < f[k]} = {g[i] : i \in 1..k - 1}
  <2>1. ASSUME NEW i \in 1..Len(f) PROVE f[i] < f[k] <=> i \in 1..k - 1
    <3>1. CASE i < k
      BY <1>1, <3>1 DEF Enumerates
    <3>2. CASE i = k
      BY <1>1, <3>2
    <3>3. CASE i > k
      <4>1. f[k] < f[i]
        BY <1>1, <3>3 DEF Enumerates
      <4>. QED
        BY <1>1, <3>3, <4>1
    <3>. QED
      BY <1>1, <3>1, <3>2, <3>3
  <2>2. S = {f[i] : i \in 1..Len(f)}
    BY DEF Enumerates
  <2>. QED
    BY <1>3, <2>1, <2>2
<1>5. Enumerates(g, {o \in S : o < f[k]})
  <2>1. \A i, j \in 1..Len(f) : i < j => f[i] < f[j]
    BY DEF Enumerates
  <2>2. \A i, j \in 1..k - 1 : i < j => g[i] < g[j]
    BY <1>3, <2>1
  <2>3. PICK T : T = {o \in S : o < f[k]}
    OBVIOUS
  <2>4. T = {g[i] : i \in 1..Len(g)}
    BY <1>3, <1>4, <2>3
  <2>5. \A i, j \in 1..Len(g) : i < j => g[i] < g[j]
    BY <1>3, <2>2
  <2>6. Enumerates(g, T)
    BY <1>3, <2>4, <2>5 DEF Enumerates
  <2>. QED
    BY <2>3, <2>6
<1>. QED
  BY <1>3, <1>5, EnumerationCounts

LEMMA AscendingIs ==
  ASSUME NEW f, NEW S, Enumerates(f, S)
  PROVE  Ascending(S) = f
<1>1. f \in Seq(Nat) /\ Len(f) \in Nat /\ DOMAIN f = 1..Len(f)
  BY LenProperties DEF Enumerates
<1>2. Cardinality(S) = Len(f)
  BY EnumerationCounts
<1>3. ASSUME NEW k \in 1..Len(f)
      PROVE  (CHOOSE n \in S : Cardinality({o \in S : o < n}) = k - 1) = f[k]
  <2>1. f[k] \in S /\ Cardinality({o \in S : o < f[k]}) = k - 1
    BY EnumerationBefore DEF Enumerates
  <2>2. ASSUME NEW n \in S, Cardinality({o \in S : o < n}) = k - 1 PROVE n = f[k]
    <3>1. PICK j \in 1..Len(f) : n = f[j]
      BY DEF Enumerates
    <3>2. Cardinality({o \in S : o < n}) = j - 1
      BY <3>1, EnumerationBefore
    <3>. QED
      BY <1>1, <2>2, <3>1, <3>2
  <2>. QED
    BY <2>1, <2>2
<1>4. Ascending(S) = [k \in 1..Len(f) |-> CHOOSE n \in S : Cardinality({o \in S : o < n}) = k - 1]
  BY <1>2 DEF Ascending
<1>5. Ascending(S) = [k \in 1..Len(f) |-> f[k]]
  BY <1>3, <1>4
<1>. QED
  BY <1>1, <1>5
NLs(t) == {i \in DOMAIN t : t[i] = NL}
Begin(f, k) == IF k = 1 THEN 1 ELSE f[k - 1] + 1
Finish(f, t, k) == IF k > Len(f) THEN Len(t) ELSE f[k] - 1
Ends(f, t) == t \in Texts /\ Enumerates(f, NLs(t))

LEMMA EndsExist == \A t \in Texts : \E f : Ends(f, t)
<1>1. ASSUME NEW t \in Texts PROVE \E f : Ends(f, t)
  <2>1. Len(t) \in Nat /\ NLs(t) \in SUBSET (1..Len(t))
    BY LenProperties DEF Texts, NLs
  <2>. QED
    BY <2>1, EnumerationsExist DEF Ends
<1>. QED
  BY <1>1

\* Where the lines of a text begin and end.
LEMMA LinePlaces ==
  ASSUME NEW t, NEW f, Ends(f, t)
  PROVE  /\ t \in Seq(Chars) /\ Len(t) \in Nat /\ Len(f) \in Nat /\ f \in Seq(Nat)
         /\ \A k \in 1..Len(f) : f[k] \in 1..Len(t) /\ t[f[k]] = NL /\ f[k] \in Nat
         /\ \A i \in 1..Len(t) : t[i] = NL => \E k \in 1..Len(f) : f[k] = i
         /\ \A i, j \in 1..Len(f) : i < j => f[i] < f[j]
         /\ \A k \in 1..Len(f) + 1 : /\ Begin(f, k) \in 1..Len(t) + 1 /\ Finish(f, t, k) \in 0..Len(t)
                                     /\ Begin(f, k) <= Finish(f, t, k) + 1
         /\ \A k \in 1..Len(f) : Begin(f, k + 1) = f[k] + 1 /\ Finish(f, t, k) = f[k] - 1
<1>1. /\ t \in Seq(Chars) /\ Len(t) \in Nat /\ DOMAIN t = 1..Len(t) /\ Len(f) \in Nat /\ f \in Seq(Nat)
      /\ NLs(t) = {f[i] : i \in 1..Len(f)}
  BY LenProperties DEF Ends, Texts, Enumerates
<1>2. \A k \in 1..Len(f) : f[k] \in 1..Len(t) /\ t[f[k]] = NL /\ f[k] \in Nat
  <2>1. \A k \in 1..Len(f) : f[k] \in NLs(t)
    BY <1>1
  <2>. QED
    BY <1>1, <2>1 DEF NLs
<1>3. \A i \in 1..Len(t) : t[i] = NL => \E k \in 1..Len(f) : f[k] = i
  <2>1. \A i \in 1..Len(t) : t[i] = NL => i \in NLs(t)
    BY <1>1 DEF NLs
  <2>. QED
    BY <1>1, <2>1
<1>4. \A i, j \in 1..Len(f) : i < j => f[i] < f[j]
  BY DEF Ends, Enumerates
<1>5. \A k \in 1..Len(f) : Begin(f, k + 1) = f[k] + 1 /\ Finish(f, t, k) = f[k] - 1
  BY <1>1 DEF Begin, Finish
<1>6. ASSUME NEW k \in 1..Len(f) + 1
      PROVE  /\ Begin(f, k) \in 1..Len(t) + 1 /\ Finish(f, t, k) \in 0..Len(t)
             /\ Begin(f, k) <= Finish(f, t, k) + 1
  <2>1. Begin(f, k) \in 1..Len(t) + 1
    <3>1. CASE k = 1
      BY <1>1, <3>1 DEF Begin
    <3>2. CASE k # 1
      <4>1. k - 1 \in 1..Len(f)
        BY <1>1, <3>2
      <4>2. f[k - 1] \in 1..Len(t)
        BY <1>2, <4>1
      <4>. QED
        BY <1>1, <3>2, <4>2 DEF Begin
    <3>. QED
      BY <3>1, <3>2
  <2>2. CASE k = Len(f) + 1
    <3>1. Finish(f, t, k) = Len(t)
      BY <1>1, <2>2 DEF Finish
    <3>. QED
      BY <1>1, <2>1, <3>1
  <2>3. CASE k # Len(f) + 1
    <3>1. k \in 1..Len(f)
      BY <1>1, <2>3
    <3>2. Finish(f, t, k) = f[k] - 1 /\ f[k] \in 1..Len(t)
      BY <1>2, <1>5, <3>1
    <3>3. CASE k = 1
      BY <1>1, <2>1, <3>2, <3>3 DEF Begin
    <3>4. CASE k # 1
      <4>1. k - 1 \in 1..Len(f) /\ k - 1 < k
        BY <3>1, <3>4
      <4>2. f[k - 1] < f[k] /\ f[k - 1] \in Nat /\ Begin(f, k) = f[k - 1] + 1
        BY <1>2, <1>4, <3>1, <3>4, <4>1 DEF Begin
      <4>3. PICK x \in Nat, y \in 1..Len(t) : x = f[k - 1] /\ y = f[k]
        BY <3>2, <4>2
      <4>4. x < y /\ Begin(f, k) = x + 1 /\ Finish(f, t, k) = y - 1
        BY <3>2, <4>2, <4>3
      <4>5. x + 1 <= (y - 1) + 1 /\ y - 1 \in 0..Len(t)
        <5>1. PICK n \in Nat : n = Len(t)
          BY <1>1
        <5>2. x \in Nat /\ y \in 1..n /\ x < y
          BY <4>3, <4>4, <5>1
        <5>3. x + 1 <= (y - 1) + 1 /\ y - 1 \in 0..n
          BY <5>2
        <5>. QED
          BY <5>1, <5>3
      <4>. QED
        BY <2>1, <4>4, <4>5
    <3>. QED
      BY <3>3, <3>4
  <2>. QED
    BY <2>2, <2>3
<1>. QED
  BY <1>1, <1>2, <1>3, <1>4, <1>5, <1>6

LEMMA LinesAre ==
  ASSUME NEW t, NEW f, Ends(f, t)
  PROVE  /\ Lines(t) = [k \in 1..Len(f) + 1 |-> SubSeq(t, Begin(f, k), Finish(f, t, k))]
         /\ Lines(t) \in Seq(Texts) /\ Len(Lines(t)) = Len(f) + 1
         /\ \A k \in 1..Len(f) + 1 :
               /\ Lines(t)[k] = SubSeq(t, Begin(f, k), Finish(f, t, k))
               /\ Len(Lines(t)[k]) = Finish(f, t, k) - Begin(f, k) + 1
<1>1. Ascending({i \in DOMAIN t : t[i] = NL}) = f
  BY AscendingIs DEF Ends, NLs
<1>2. Lines(t) = [k \in 1..Len(f) + 1 |-> SubSeq(t, IF k = 1 THEN 1 ELSE f[k - 1] + 1,
                                                   IF k > Len(f) THEN Len(t) ELSE f[k] - 1)]
  BY <1>1 DEF Lines
<1>3. Lines(t) = [k \in 1..Len(f) + 1 |-> SubSeq(t, Begin(f, k), Finish(f, t, k))]
  BY <1>2 DEF Begin, Finish
<1>4. ASSUME NEW k \in 1..Len(f) + 1
      PROVE  /\ SubSeq(t, Begin(f, k), Finish(f, t, k)) \in Texts
             /\ Len(SubSeq(t, Begin(f, k), Finish(f, t, k))) = Finish(f, t, k) - Begin(f, k) + 1
  <2>1. /\ t \in Seq(Chars) /\ Len(t) \in Nat /\ Begin(f, k) \in 1..Len(t) + 1 /\ Finish(f, t, k) \in 0..Len(t)
        /\ Begin(f, k) <= Finish(f, t, k) + 1
    BY LinePlaces
  <2>2. PICK lo, hi : lo = Begin(f, k) /\ hi = Finish(f, t, k)
    OBVIOUS
  <2>3. \A i \in lo..hi : t[i] \in Chars
    BY <2>1, <2>2, ElementOfSeq
  <2>4. SubSeq(t, lo, hi) \in Seq(Chars) /\ Len(SubSeq(t, lo, hi)) = IF lo <= hi THEN hi - lo + 1 ELSE 0
    BY <2>1, <2>2, <2>3, SubSeqProperties
  <2>. QED
    BY <2>1, <2>2, <2>4 DEF Texts
<1>5. Len(f) \in Nat
  BY LinePlaces
<1>6. PICK lines : lines = Lines(t)
  OBVIOUS
<1>7. \A k \in 1..Len(f) + 1 : lines[k] = SubSeq(t, Begin(f, k), Finish(f, t, k)) /\ lines[k] \in Texts
  BY <1>3, <1>4, <1>6
<1>8. lines = [k \in 1..Len(f) + 1 |-> lines[k]]
  BY <1>3, <1>6, <1>7
<1>9. lines \in Seq(Texts) /\ Len(lines) = Len(f) + 1
  BY <1>5, <1>7, <1>8
<1>. QED
  BY <1>3, <1>4, <1>6, <1>7, <1>9

\* A final line end opens no line.
CountOf(f, t) == IF t = <<>> \/ t[Len(t)] = NL THEN Len(f) ELSE Len(f) + 1

LEMMA CountedAre ==
  ASSUME NEW t, NEW f, Ends(f, t)
  PROVE  /\ CountOf(f, t) \in 0..Len(f) + 1 /\ CountOf(f, t) \in Nat
         /\ CountedLines(t) = SubSeq(Lines(t), 1, CountOf(f, t))
         /\ CountedLines(t) \in Seq(Texts) /\ Len(CountedLines(t)) = CountOf(f, t)
         /\ \A k \in 1..CountOf(f, t) : CountedLines(t)[k] = Lines(t)[k]
         /\ t # <<>> => CountOf(f, t) # 0
<1>1. /\ t \in Seq(Chars) /\ Len(t) \in Nat /\ Len(f) \in Nat
      /\ Begin(f, Len(f) + 1) \in 1..Len(t) + 1
      /\ \A k \in 1..Len(f) : f[k] \in 1..Len(t) /\ t[f[k]] = NL
      /\ \A k \in 1..Len(f) : Begin(f, k + 1) = f[k] + 1
  BY LinePlaces
<1>2. PICK lines : lines = Lines(t)
  OBVIOUS
<1>3. /\ lines \in Seq(Texts) /\ Len(lines) = Len(f) + 1
      /\ Len(lines[Len(f) + 1]) = Len(t) - Begin(f, Len(f) + 1) + 1 /\ lines[Len(f) + 1] \in Texts
  <2>1. Finish(f, t, Len(f) + 1) = Len(t) /\ Len(f) + 1 \in 1..Len(f) + 1
    BY <1>1 DEF Finish
  <2>. QED
    BY <1>1, <1>2, <2>1, LinesAre, ElementOfSeq
<1>4. Last(lines) = <<>> <=> Begin(f, Len(f) + 1) = Len(t) + 1
  <2>1. Last(lines) = <<>> <=> Len(lines[Len(f) + 1]) = 0
    BY <1>1, <1>3, EmptySeq DEF Last, Texts
  <2>. QED
    BY <1>1, <1>3, <2>1
<1>5. Begin(f, Len(f) + 1) = Len(t) + 1 <=> t = <<>> \/ t[Len(t)] = NL
  <2>1. t = <<>> <=> Len(t) = 0
    BY <1>1, EmptySeq
  <2>2. CASE Len(f) = 0
    <3>1. Begin(f, Len(f) + 1) = 1
      BY <2>2 DEF Begin
    <3>2. \A i \in 1..Len(t) : t[i] # NL
      BY <2>2, LinePlaces
    <3>3. t # <<>> => Len(t) \in 1..Len(t)
      BY <1>1, <2>1
    <3>. QED
      BY <1>1, <2>1, <3>1, <3>2, <3>3
  <2>3. CASE Len(f) # 0
    <3>1. /\ Len(f) \in 1..Len(f) /\ Begin(f, Len(f) + 1) = f[Len(f)] + 1
          /\ f[Len(f)] \in 1..Len(t) /\ t[f[Len(f)]] = NL
      BY <1>1, <2>3
    <3>2. t # <<>> /\ Len(t) \in 1..Len(t)
      BY <1>1, <2>1, <3>1
    <3>3. ASSUME t[Len(t)] = NL PROVE f[Len(f)] = Len(t)
      <4>0. \A i \in 1..Len(t) : t[i] = NL => \E k \in 1..Len(f) : f[k] = i
        BY LinePlaces
      <4>1. PICK k \in 1..Len(f) : f[k] = Len(t)
        BY <3>2, <3>3, <4>0
      <4>2. k < Len(f) => f[k] < f[Len(f)]
        BY <3>1, LinePlaces
      <4>3. PICK x \in 1..Len(t) : x = f[Len(f)]
        BY <3>1
      <4>4. ~(k < Len(f))
        BY <1>1, <4>1, <4>2, <4>3
      <4>5. k = Len(f)
        BY <1>1, <4>4
      <4>. QED
        BY <4>1, <4>5
    <3>4. PICK x \in 1..Len(t) : x = f[Len(f)]
      BY <3>1
    <3>5. Begin(f, Len(f) + 1) = Len(t) + 1 <=> x = Len(t)
      BY <1>1, <3>1, <3>4
    <3>6. x = Len(t) <=> t[Len(t)] = NL
      BY <3>1, <3>3, <3>4
    <3>. QED
      BY <3>2, <3>5, <3>6
  <2>. QED
    BY <2>2, <2>3
<1>6. CountOf(f, t) \in 0..Len(f) + 1 /\ CountOf(f, t) \in Nat
  BY <1>1 DEF CountOf
<1>7. CountedLines(t) = SubSeq(lines, 1, CountOf(f, t))
  <2>1. CASE t = <<>> \/ t[Len(t)] = NL
    <3>1. CountedLines(t) = Front(lines)
      BY <1>2, <1>4, <1>5, <2>1 DEF CountedLines
    <3>2. Len(lines) - 1 = CountOf(f, t)
      BY <1>1, <1>3, <2>1 DEF CountOf
    <3>. QED
      BY <3>1, <3>2 DEF Front
  <2>2. CASE ~(t = <<>> \/ t[Len(t)] = NL)
    <3>1. CountedLines(t) = lines
      BY <1>2, <1>4, <1>5, <2>2 DEF CountedLines
    <3>2. Len(lines) = CountOf(f, t)
      BY <1>3, <2>2 DEF CountOf
    <3>. QED
      BY <1>3, <3>1, <3>2, SubSeqFull
  <2>. QED
    BY <2>1, <2>2
<1>8. PICK m : m = CountOf(f, t)
  OBVIOUS
<1>9. /\ SubSeq(lines, 1, m) \in Seq(Texts) /\ Len(SubSeq(lines, 1, m)) = m
      /\ \A k \in 1..m : SubSeq(lines, 1, m)[k] = lines[k]
  <2>1. m \in Nat /\ m <= Len(lines)
    BY <1>1, <1>3, <1>6, <1>8
  <2>2. \A k \in 1..m : lines[k] \in Texts
    BY <1>3, <2>1, ElementOfSeq
  <2>. QED
    BY <2>1, <2>2, SubSeqProperties
<1>10. t # <<>> => CountOf(f, t) # 0
  <2>1. ASSUME t # <<>>, CountOf(f, t) = 0 PROVE FALSE
    <3>1. Len(f) = 0 /\ t[Len(t)] = NL
      BY <1>1, <2>1 DEF CountOf
    <3>2. Len(t) \in 1..Len(t)
      BY <1>1, <2>1, EmptySeq
    <3>3. PICK k \in 1..Len(f) : f[k] = Len(t)
      BY <3>1, <3>2, LinePlaces
    <3>. QED
      BY <3>1, <3>3
  <2>. QED
    BY <2>1
<1>. QED
  BY <1>2, <1>6, <1>7, <1>8, <1>9, <1>10

\* A set of the first n numbers has a greatest one.
LEMMA GreatestExists ==
  ASSUME NEW n \in Nat, NEW S, S \subseteq 1..n, S # {}
  PROVE  \E i \in S : \A k \in S : k <= i
<1>. DEFINE D == {gap \in Nat : \E i \in S : i + gap = n}
<1>1. D \subseteq Nat /\ D # {}
  <2>1. PICK i : i \in S
    OBVIOUS
  <2>2. n - i \in D
    BY <2>1
  <2>. QED
    BY <2>2
<1>2. PICK gap \in D : \A c \in D : gap <= c
  <2>. HIDE DEF D
  <2>. QED
    BY <1>1, LeastExists
<1>3. PICK i \in S : i + gap = n
  BY <1>2
<1>4. ASSUME NEW k \in S PROVE k <= i
  <2>1. n - k \in D
    OBVIOUS
  <2>2. gap <= n - k
    BY <1>2, <2>1
  <2>. QED
    BY <1>2, <1>3, <2>2
<1>. QED
  BY <1>4

LEMMA LastPlace ==
  /\ \A n \in Nat : \A s \in SUBSET (1..n + 1) : n + 1 \in s => Max(s) = n + 1
  /\ \A n \in Nat : \A s \in SUBSET (1..n) : s # {} => Max(s) \in s
<1>1. ASSUME NEW n \in Nat, NEW s \in SUBSET (1..n + 1), n + 1 \in s PROVE Max(s) = n + 1
  <2>1. \A x \in s : x <= n + 1
    OBVIOUS
  <2>2. \A x \in s : (\A y \in s : x >= y) => x = n + 1
    BY <1>1, <2>1
  <2>3. \A y \in s : n + 1 >= y
    BY <2>1
  <2>. QED
    BY <1>1, <2>2, <2>3 DEF Max
<1>2. ASSUME NEW n \in Nat, NEW s \in SUBSET (1..n), s # {} PROVE Max(s) \in s
  <2>1. PICK i \in s : \A k \in s : k <= i
    BY <1>2, GreatestExists
  <2>2. \A y \in s : i >= y
    BY <2>1
  <2>. QED
    BY <2>2 DEF Max
<1>. QED
  BY <1>1, <1>2


\* The fold of JoinLines, as a function on the sets of places it has been to.
JoinsOf(first, rest, D, w) ==
    w = [s \in SUBSET D |-> IF s = {} THEN first ELSE w[s \ {Max(s)}] \o <<NL>> \o rest[Max(s)]]

LEMMA JoinIs ==
  ASSUME NEW lines, lines # <<>>
  PROVE  \E w : /\ w = CHOOSE v : JoinsOf(Head(lines), Tail(lines), DOMAIN Tail(lines), v)
                /\ JoinLines(lines) = w[DOMAIN Tail(lines)]
  BY DEF JoinLines, FoldLeft, MapThenFoldSet, JoinsOf

LEMMA JoinsExist ==
  ASSUME NEW first, NEW rest, NEW n \in Nat
  PROVE  \E w : JoinsOf(first, rest, 1..n, w)
<1>. DEFINE Step(acc, i) == acc \o <<NL>> \o rest[i]
            S == {m \in Nat : \E w : JoinsOf(first, rest, 1..m, w)}
<1>0. \A D, w : JoinsOf(first, rest, D, w)
                <=> w = [s \in SUBSET D |-> IF s = {} THEN first ELSE Step(w[s \ {Max(s)}], Max(s))]
  BY DEF JoinsOf
<1>. HIDE DEF Step
<1>1. 0 \in S
  <2>. DEFINE w == [s \in SUBSET (1..0) |-> first]
              body(s) == IF s = {} THEN first ELSE Step(w[s \ {Max(s)}], Max(s))
  <2>1. \A s \in SUBSET (1..0) : body(s) = first
    <3>1. \A s \in SUBSET (1..0) : s = {}
      OBVIOUS
    <3>. HIDE DEF w
    <3>. QED
      BY <3>1
  <2>2. w = [s \in SUBSET (1..0) |-> body(s)]
    <3>. HIDE DEF body
    <3>. QED
      BY <2>1
  <2>3. JoinsOf(first, rest, 1..0, w)
    <3>. HIDE DEF w
    <3>. QED
      BY <1>0, <2>2
  <2>. HIDE DEF w
  <2>. QED
    BY <2>3
<1>2. ASSUME NEW m \in Nat, m \in S PROVE m + 1 \in S
  <2>1. PICK w : JoinsOf(first, rest, 1..m, w)
    BY <1>2
  <2>2. w = [s \in SUBSET (1..m) |-> IF s = {} THEN first ELSE Step(w[s \ {Max(s)}], Max(s))]
    BY <2>1 DEF JoinsOf, Step
  <2>. DEFINE v == [s \in SUBSET (1..m + 1) |-> IF m + 1 \in s THEN Step(w[s \ {m + 1}], m + 1) ELSE w[s]]
              body(s) == IF s = {} THEN first ELSE Step(v[s \ {Max(s)}], Max(s))
  <2>3. \A s \in SUBSET (1..m + 1) : m + 1 \notin s => s \in SUBSET (1..m)
    BY \A k \in 1..m + 1 : k \in 1..m \/ k = m + 1
  <2>4. SUBSET (1..m) \subseteq SUBSET (1..m + 1) /\ \A s \in SUBSET (1..m) : m + 1 \notin s
    OBVIOUS
  <2>5. \A s \in SUBSET (1..m) : v[s] = w[s]
    BY <2>4
  <2>6. ASSUME NEW s \in SUBSET (1..m + 1) PROVE v[s] = body(s)
    <3>1. CASE m + 1 \in s
      <4>1. Max(s) = m + 1 /\ s # {}
        BY <3>1, LastPlace
      <4>2. s \ {m + 1} \in SUBSET (1..m)
        BY <2>3
      <4>3. v[s \ {m + 1}] = w[s \ {m + 1}]
        BY <2>5, <4>2
      <4>4. v[s] = Step(w[s \ {m + 1}], m + 1)
        BY <3>1
      <4>. HIDE DEF v
      <4>. QED
        BY <4>1, <4>3, <4>4
    <3>2. CASE m + 1 \notin s
      <4>1. s \in SUBSET (1..m)
        BY <2>3, <3>2
      <4>2. s \ {Max(s)} \in SUBSET (1..m)
        BY <4>1
      <4>3. v[s] = w[s] /\ v[s \ {Max(s)}] = w[s \ {Max(s)}]
        BY <2>5, <4>1, <4>2
      <4>4. w[s] = IF s = {} THEN first ELSE Step(w[s \ {Max(s)}], Max(s))
        BY <2>2, <4>1
      <4>. HIDE DEF v
      <4>. QED
        BY <4>3, <4>4
    <3>. QED
      BY <3>1, <3>2
  <2>7. v = [s \in SUBSET (1..m + 1) |-> body(s)]
    <3>. HIDE DEF body
    <3>. QED
      BY <2>6
  <2>8. JoinsOf(first, rest, 1..m + 1, v)
    <3>. HIDE DEF v
    <3>. QED
      BY <1>0, <2>7
  <2>. HIDE DEF v
  <2>. QED
    BY <2>8
<1>3. Nat \subseteq S
  <2>. HIDE DEF S
  <2>. QED
    BY <1>1, <1>2, UpFromZero
<1>. QED
  BY <1>3


LEMMA Glued ==
  ASSUME NEW t \in Seq(Chars), NEW p \in 1..Len(t), NEW e \in Int, p - 1 <= e, e + 1 <= Len(t),
         t[e + 1] = NL, NEW e2 \in Int, e + 1 <= e2, e2 <= Len(t)
  PROVE  SubSeq(t, p, e) \o <<NL>> \o SubSeq(t, e + 2, e2) = SubSeq(t, p, e2)
<1>1. Len(t) \in Nat
  BY LenProperties
<1>2. PICK k : k = e + 1
  OBVIOUS
<1>3. k \in 1..Len(t) /\ k \in k..Len(t) /\ t[k] = NL /\ k + 1 = e + 2
  BY <1>1, <1>2
<1>4. SubSeq(t, k, k) = <<NL>>
  <2>1. SubSeq(t, k, k) = <<t[k]>> \o SubSeq(t, k + 1, k)
    BY <1>3, SubSeqRecursiveFirst
  <2>2. SubSeq(t, k + 1, k) = <<>>
    BY <1>3, SubSeqEmpty
  <2>3. <<NL>> \in Seq(Chars) /\ <<NL>> \o <<>> = <<NL>>
    BY DEF Chars
  <2>. QED
    BY <1>3, <2>1, <2>2, <2>3
<1>5. SubSeq(t, p, e) \o SubSeq(t, e + 1, k) = SubSeq(t, p, k)
  <2>1. p \in 1..Len(t) + 1 /\ e \in p - 1..Len(t) /\ k \in e..Len(t)
    BY <1>1, <1>2
  <2>. QED
    BY <2>1, ConcatAdjacentSubSeq
<1>6. SubSeq(t, p, k) \o SubSeq(t, k + 1, e2) = SubSeq(t, p, e2)
  <2>1. p \in 1..Len(t) + 1 /\ k \in p - 1..Len(t) /\ e2 \in k..Len(t)
    BY <1>1, <1>2
  <2>. QED
    BY <2>1, ConcatAdjacentSubSeq
<1>. QED
  BY <1>2, <1>3, <1>4, <1>5, <1>6

\* Lines that follow each other, joined, are the part of the text they were.
LEMMA JoinedLines ==
  ASSUME NEW t, NEW f, Ends(f, t), NEW lo \in 1..Len(f) + 1, NEW hi \in lo..Len(f) + 1
  PROVE  JoinLines(SubSeq(Lines(t), lo, hi)) = SubSeq(t, Begin(f, lo), Finish(f, t, hi))
<1>1. /\ t \in Seq(Chars) /\ Len(t) \in Nat /\ Len(f) \in Nat
      /\ \A k \in 1..Len(f) : f[k] \in 1..Len(t) /\ t[f[k]] = NL
      /\ \A k \in 1..Len(f) : Begin(f, k + 1) = f[k] + 1 /\ Finish(f, t, k) = f[k] - 1
      /\ \A k \in 1..Len(f) + 1 : /\ Begin(f, k) \in 1..Len(t) + 1 /\ Finish(f, t, k) \in 0..Len(t)
                                  /\ Begin(f, k) <= Finish(f, t, k) + 1
      /\ \A i, j \in 1..Len(f) : i < j => f[i] < f[j]
  BY LinePlaces
<1>2. PICK lines : lines = Lines(t)
  OBVIOUS
<1>3. /\ lines \in Seq(Texts) /\ Len(lines) = Len(f) + 1
      /\ \A k \in 1..Len(f) + 1 : lines[k] = SubSeq(t, Begin(f, k), Finish(f, t, k))
  BY <1>2, LinesAre
<1>4. lo \in 1..Len(lines) /\ hi \in lo..Len(lines) /\ lo \in Nat /\ hi \in Nat /\ lo <= hi /\ hi - lo \in Nat
  BY <1>1, <1>3
<1>5. PICK ls : ls = SubSeq(lines, lo, hi)
  OBVIOUS
<1>6. Head(ls) = lines[lo] /\ Tail(ls) = SubSeq(lines, lo + 1, hi)
  BY <1>3, <1>4, <1>5, HeadTailOfSubSeq
<1>7. /\ Tail(ls) \in Seq(Texts) /\ Len(Tail(ls)) = hi - lo /\ DOMAIN Tail(ls) = 1..hi - lo
      /\ \A i \in 1..hi - lo : Tail(ls)[i] = lines[lo + i]
  <2>1. \A i \in lo + 1..hi : lines[i] \in Texts
    BY <1>3, <1>4, ElementOfSeq
  <2>2. PICK c : c = lo + 1
    OBVIOUS
  <2>3. SubSeq(lines, c, hi) \in Seq(Texts) /\ Len(SubSeq(lines, c, hi)) = IF c <= hi THEN hi - c + 1 ELSE 0
    BY <1>4, <2>1, <2>2, SubSeqProperties
  <2>4. \A i \in 1..hi - c + 1 : SubSeq(lines, c, hi)[i] = lines[c + i - 1]
    BY <1>4, <2>1, <2>2, SubSeqProperties
  <2>5. Len(SubSeq(lines, c, hi)) = hi - lo
    BY <1>4, <2>2, <2>3
  <2>6. \A i \in 1..hi - lo : SubSeq(lines, c, hi)[i] = lines[lo + i]
    <3>1. \A i \in 1..hi - lo : i \in 1..hi - c + 1 /\ c + i - 1 = lo + i
      BY <1>4, <2>2
    <3>. QED
      BY <2>4, <3>1
  <2>. QED
    BY <1>6, <2>2, <2>3, <2>5, <2>6, LenProperties
<1>8. ls # <<>>
  <2>1. \A i \in lo..hi : lines[i] \in Texts
    BY <1>3, <1>4, ElementOfSeq
  <2>2. Len(ls) = hi - lo + 1
    BY <1>4, <1>5, <2>1, SubSeqProperties
  <2>. QED
    BY <1>4, <2>2, EmptySeq
<1>9. PICK first, rest : first = Head(ls) /\ rest = Tail(ls)
  OBVIOUS
<1>10. PICK w : /\ w = CHOOSE v : JoinsOf(first, rest, 1..hi - lo, v)
                /\ JoinLines(ls) = w[1..hi - lo]
  BY <1>7, <1>8, <1>9, JoinIs
<1>11. JoinsOf(first, rest, 1..hi - lo, w)
  BY <1>4, <1>10, JoinsExist
<1>. DEFINE S == {n \in Nat : n <= hi - lo => w[1..n] = SubSeq(t, Begin(f, lo), Finish(f, t, lo + n))}
<1>12. 0 \in S
  <2>1. w[{}] = first
    BY <1>11 DEF JoinsOf
  <2>2. 1..0 = {} /\ lo + 0 = lo
    BY <1>4
  <2>3. first = SubSeq(t, Begin(f, lo), Finish(f, t, lo))
    BY <1>3, <1>6, <1>9
  <2>. QED
    BY <2>1, <2>2, <2>3
<1>13. ASSUME NEW n \in Nat, n \in S PROVE n + 1 \in S
  <2>. SUFFICES ASSUME n + 1 <= hi - lo
                PROVE  w[1..n + 1] = SubSeq(t, Begin(f, lo), Finish(f, t, lo + (n + 1)))
    OBVIOUS
  <2>1. PICK k : k = lo + n
    OBVIOUS
  <2>2. k \in 1..Len(f) /\ k + 1 \in 1..Len(f) + 1 /\ lo + (n + 1) = k + 1 /\ lo + n = k /\ lo <= k /\ k \in Nat
    BY <1>1, <1>4, <2>1
  <2>3. w[1..n] = SubSeq(t, Begin(f, lo), Finish(f, t, k))
    <3>1. n <= hi - lo
      BY <1>4
    <3>. QED
      BY <1>13, <2>2, <3>1
  <2>4. w[1..n + 1] = w[1..n] \o <<NL>> \o rest[n + 1]
    <3>1. 1..n + 1 \in SUBSET (1..hi - lo) /\ n + 1 \in 1..n + 1 /\ (1..n + 1) \ {n + 1} = 1..n
      BY <1>4
    <3>2. Max(1..n + 1) = n + 1
      BY <3>1, LastPlace
    <3>. QED
      BY <1>11, <3>1, <3>2 DEF JoinsOf
  <2>5. rest[n + 1] = SubSeq(t, Begin(f, k + 1), Finish(f, t, k + 1))
    <3>1. n + 1 \in 1..hi - lo
      BY <1>4
    <3>. QED
      BY <1>3, <1>7, <1>9, <2>2, <3>1
  <2>6. PICK p, e, q : p = Begin(f, lo) /\ e = Finish(f, t, k) /\ q = Finish(f, t, k + 1)
    OBVIOUS
  <2>7. f[k] \in 1..Len(t) /\ e = f[k] - 1 /\ Begin(f, k + 1) = f[k] + 1 /\ t[f[k]] = NL
    BY <1>1, <2>2, <2>6
  <2>8. e \in Int /\ e + 1 <= Len(t) /\ e + 1 \in 1..Len(t) /\ t[e + 1] = NL /\ Begin(f, k + 1) = e + 2
    <3>1. PICK x \in 1..Len(t) : x = f[k]
      BY <2>7
    <3>2. e = x - 1 /\ Begin(f, k + 1) = x + 1 /\ t[x] = NL
      BY <2>7, <3>1
    <3>3. e \in Int /\ e + 1 = x /\ x + 1 = e + 2
      BY <3>1, <3>2
    <3>4. x <= Len(t)
      BY <1>1, <3>1
    <3>. QED
      BY <3>1, <3>2, <3>3, <3>4
  <2>9. q \in Int /\ e + 1 <= q /\ q <= Len(t)
    <3>1. q \in 0..Len(t) /\ Begin(f, k + 1) <= q + 1
      BY <1>1, <2>2, <2>6
    <3>. QED
      BY <1>1, <2>8, <3>1
  <2>10. p \in 1..Len(t) /\ p - 1 <= e
    <3>1. p \in 1..Len(t) + 1 /\ p <= Finish(f, t, lo) + 1 /\ Finish(f, t, lo) \in 0..Len(t)
      BY <1>1, <2>2, <2>6
    <3>2. Finish(f, t, lo) <= e
      <4>1. CASE lo = k
        BY <2>6, <2>8, <4>1
      <4>2. CASE lo < k
        <5>0. lo \in 1..Len(f)
          BY <1>1, <1>4, <2>2, <4>2
        <5>1. f[lo] < f[k] /\ f[lo] \in 1..Len(t) /\ Finish(f, t, lo) = f[lo] - 1
          BY <1>1, <2>2, <4>2, <5>0
        <5>2. PICK x \in 1..Len(t), y \in 1..Len(t) : x = f[lo] /\ y = f[k]
          BY <2>7, <5>1
        <5>3. x < y /\ Finish(f, t, lo) = x - 1 /\ e = y - 1
          BY <2>7, <5>1, <5>2
        <5>4. x - 1 <= y - 1
          BY <5>2, <5>3
        <5>. QED
          BY <5>3, <5>4
      <4>. QED
        BY <1>4, <2>2, <4>1, <4>2
    <3>. QED
      BY <1>1, <2>8, <3>1, <3>2, SMTT(20)
  <2>11. SubSeq(t, p, e) \o <<NL>> \o SubSeq(t, e + 2, q) = SubSeq(t, p, q)
    BY <1>1, <2>8, <2>9, <2>10, Glued
  <2>. QED
    BY <2>2, <2>3, <2>4, <2>5, <2>6, <2>8, <2>11
<1>14. hi - lo \in S
  <2>1. Nat \subseteq S
    <3>. HIDE DEF S
    <3>. QED
      BY <1>12, <1>13, UpFromZero
  <2>. HIDE DEF S
  <2>. QED
    BY <1>4, <2>1
<1>15. w[1..hi - lo] = SubSeq(t, Begin(f, lo), Finish(f, t, hi))
  <2>1. hi - lo <= hi - lo /\ lo + (hi - lo) = hi
    BY <1>4
  <2>. QED
    BY <1>14, <2>1
<1>. QED
  BY <1>2, <1>5, <1>10, <1>15

LEMMA PartOf ==
  ASSUME NEW t \in Seq(Chars), NEW lo \in 1..Len(t) + 1, NEW hi \in 0..Len(t), lo <= hi + 1
  PROVE  /\ SubSeq(t, lo, hi) \in Seq(Chars) /\ Len(SubSeq(t, lo, hi)) = hi - lo + 1
         /\ \A i \in 1..hi - lo + 1 : SubSeq(t, lo, hi)[i] = t[lo + i - 1]
<1>1. Len(t) \in Nat /\ lo \in Int /\ hi \in Int
  BY LenProperties
<1>2. \A i \in lo..hi : t[i] \in Chars
  BY <1>1, ElementOfSeq
<1>3. /\ SubSeq(t, lo, hi) \in Seq(Chars) /\ Len(SubSeq(t, lo, hi)) = IF lo <= hi THEN hi - lo + 1 ELSE 0
      /\ \A i \in 1..hi - lo + 1 : SubSeq(t, lo, hi)[i] = t[lo + i - 1]
  BY <1>1, <1>2, SubSeqProperties
<1>. QED
  BY <1>1, <1>3

LEMMA PartOfRest ==
  ASSUME NEW t \in Seq(Chars), NEW gap \in 0..Len(t), NEW lo \in Nat \ {0}, NEW hi \in Nat,
         lo <= hi + 1, gap + hi <= Len(t)
  PROVE  SubSeq(SubSeq(t, gap + 1, Len(t)), lo, hi) = SubSeq(t, gap + lo, gap + hi)
<1>1. Len(t) \in Nat /\ gap + 1 \in 1..Len(t) + 1 /\ Len(t) \in 0..Len(t) /\ gap + 1 <= Len(t) + 1
  BY LenProperties
<1>2. PICK w : w = SubSeq(t, gap + 1, Len(t))
  OBVIOUS
<1>3. /\ w \in Seq(Chars) /\ Len(w) = Len(t) - gap
      /\ \A i \in 1..Len(t) - gap : w[i] = t[gap + i]
  <2>1. /\ w \in Seq(Chars) /\ Len(w) = Len(t) - (gap + 1) + 1
        /\ \A i \in 1..Len(t) - (gap + 1) + 1 : w[i] = t[(gap + 1) + i - 1]
    BY <1>1, <1>2, PartOf
  <2>2. Len(t) - (gap + 1) + 1 = Len(t) - gap /\ \A i \in 1..Len(t) - gap : (gap + 1) + i - 1 = gap + i
    BY <1>1
  <2>. QED
    BY <2>1, <2>2
<1>4. lo \in 1..Len(w) + 1 /\ hi \in 0..Len(w) /\ lo <= hi + 1
  BY <1>1, <1>3
<1>5. gap + lo \in 1..Len(t) + 1 /\ gap + hi \in 0..Len(t) /\ gap + lo <= (gap + hi) + 1
  BY <1>1
<1>6. PICK u, v : u = SubSeq(w, lo, hi) /\ v = SubSeq(t, gap + lo, gap + hi)
  OBVIOUS
<1>7. /\ u \in Seq(Chars) /\ Len(u) = hi - lo + 1
      /\ \A i \in 1..hi - lo + 1 : u[i] = w[lo + i - 1]
  BY <1>3, <1>4, <1>6, PartOf
<1>8. /\ v \in Seq(Chars) /\ Len(v) = (gap + hi) - (gap + lo) + 1
      /\ \A i \in 1..(gap + hi) - (gap + lo) + 1 : v[i] = t[(gap + lo) + i - 1]
  BY <1>5, <1>6, PartOf
<1>9. (gap + hi) - (gap + lo) + 1 = hi - lo + 1
  OBVIOUS
<1>10. ASSUME NEW i \in 1..Len(u) PROVE u[i] = v[i]
  <2>1. lo + i - 1 \in 1..Len(t) - gap /\ gap + (lo + i - 1) = (gap + lo) + i - 1 /\ i \in 1..hi - lo + 1
    <3>1. i \in 1..hi - lo + 1
      BY <1>7, <1>10
    <3>2. PICK n \in Nat : n = Len(t)
      BY <1>1
    <3>3. hi + gap <= n /\ gap \in Nat /\ lo \in Nat \ {0} /\ hi \in Nat
      BY <1>1, <3>2
    <3>4. lo + i - 1 \in 1..n - gap /\ gap + (lo + i - 1) = (gap + lo) + i - 1
      BY <3>1, <3>3
    <3>. QED
      BY <3>1, <3>2, <3>4
  <2>. QED
    BY <1>3, <1>7, <1>8, <1>9, <2>1
<1>11. Len(u) = Len(v)
  BY <1>7, <1>8, <1>9
<1>. QED
  BY <1>2, <1>6, <1>7, <1>8, <1>10, <1>11, SeqEqual

\* What follows the p-th line end: its lines are those behind line p.
RestOf(f, t, p) == SubSeq(t, f[p] + 1, Len(t))
EndsBehind(f, p) == [i \in 1..Len(f) - p |-> f[p + i] - f[p]]

LEMMA RestIs ==
  ASSUME NEW t, NEW f, Ends(f, t), NEW p \in 1..Len(f)
  PROVE  /\ RestOf(f, t, p) \in Texts /\ Len(RestOf(f, t, p)) = Len(t) - f[p]
         /\ \A i \in 1..Len(t) - f[p] : RestOf(f, t, p)[i] = t[f[p] + i]
<1>1. t \in Seq(Chars) /\ Len(t) \in Nat /\ f[p] \in 1..Len(t)
  BY LinePlaces
<1>2. PICK gap \in 1..Len(t) : gap = f[p]
  BY <1>1
<1>3. PICK c : c = gap + 1
  OBVIOUS
<1>4. c \in 1..Len(t) + 1 /\ Len(t) \in 0..Len(t) /\ c <= Len(t) + 1
  BY <1>1, <1>2, <1>3
<1>5. /\ SubSeq(t, c, Len(t)) \in Seq(Chars) /\ Len(SubSeq(t, c, Len(t))) = Len(t) - c + 1
      /\ \A i \in 1..Len(t) - c + 1 : SubSeq(t, c, Len(t))[i] = t[c + i - 1]
  BY <1>1, <1>4, PartOf
<1>6. Len(t) - c + 1 = Len(t) - gap /\ \A i \in 1..Len(t) - gap : c + i - 1 = gap + i
  BY <1>1, <1>2, <1>3
<1>. QED
  BY <1>2, <1>3, <1>5, <1>6 DEF RestOf, Texts

LEMMA RestEnds ==
  ASSUME NEW t, NEW f, Ends(f, t), NEW p \in 1..Len(f)
  PROVE  /\ Ends(EndsBehind(f, p), RestOf(f, t, p)) /\ Len(EndsBehind(f, p)) = Len(f) - p
         /\ \A i \in 1..Len(f) - p : EndsBehind(f, p)[i] = f[p + i] - f[p]
<1>1. /\ Len(t) \in Nat /\ Len(f) \in Nat
      /\ \A k \in 1..Len(f) : f[k] \in 1..Len(t) /\ t[f[k]] = NL /\ f[k] \in Nat
      /\ \A i \in 1..Len(t) : t[i] = NL => \E k \in 1..Len(f) : f[k] = i
      /\ \A i, j \in 1..Len(f) : i < j => f[i] < f[j]
  BY LinePlaces
<1>2. PICK gap \in 1..Len(t) : gap = f[p]
  BY <1>1
<1>3. PICK w : w = RestOf(f, t, p)
  OBVIOUS
<1>4. /\ w \in Texts /\ Len(w) = Len(t) - gap /\ DOMAIN w = 1..Len(t) - gap
      /\ \A i \in 1..Len(t) - gap : w[i] = t[gap + i]
  BY <1>2, <1>3, RestIs, LenProperties DEF Texts
<1>5. PICK g : g = EndsBehind(f, p)
  OBVIOUS
<1>6. \A i \in 1..Len(f) - p : p + i \in 1..Len(f) /\ p < p + i /\ p + i - p = i
  BY <1>1
<1>7. \A i \in 1..Len(f) - p : g[i] = f[p + i] - gap /\ f[p + i] \in Nat /\ gap < f[p + i] /\ f[p + i] <= Len(t)
  BY <1>1, <1>2, <1>5, <1>6 DEF EndsBehind
<1>8. \A i \in 1..Len(f) - p : g[i] \in Nat /\ g[i] \in 1..Len(t) - gap /\ gap + g[i] = f[p + i]
  BY <1>1, <1>7
<1>9. g \in Seq(Nat) /\ Len(g) = Len(f) - p
  <2>1. Len(f) - p \in Nat /\ g = [i \in 1..Len(f) - p |-> g[i]]
    BY <1>1, <1>5 DEF EndsBehind
  <2>2. PICK n \in Nat : n = Len(f) - p
    BY <2>1
  <2>3. g = [i \in 1..n |-> g[i]] /\ \A i \in 1..n : g[i] \in Nat
    BY <1>8, <2>1, <2>2
  <2>4. g \in Seq(Nat) /\ Len(g) = n
    BY <2>3
  <2>. QED
    BY <2>2, <2>4
<1>10. ASSUME NEW i \in 1..Len(g), NEW j \in 1..Len(g), i < j PROVE g[i] < g[j]
  <2>1. i \in 1..Len(f) - p /\ j \in 1..Len(f) - p /\ p + i < p + j
    BY <1>1, <1>9, <1>10
  <2>2. f[p + i] < f[p + j]
    BY <1>1, <1>6, <2>1
  <2>. QED
    BY <1>7, <2>1, <2>2
<1>11. NLs(w) = {g[i] : i \in 1..Len(g)}
  <2>1. ASSUME NEW i \in 1..Len(g) PROVE g[i] \in NLs(w)
    <3>1. g[i] \in DOMAIN w /\ w[g[i]] = t[f[p + i]] /\ p + i \in 1..Len(f)
      BY <1>4, <1>6, <1>8, <1>9
    <3>. QED
      BY <1>1, <3>1 DEF NLs
  <2>2. ASSUME NEW x \in NLs(w) PROVE \E i \in 1..Len(g) : g[i] = x
    <3>1. x \in 1..Len(t) - gap /\ t[gap + x] = NL /\ gap + x \in 1..Len(t)
      BY <1>1, <1>4 DEF NLs
    <3>2. PICK k \in 1..Len(f) : f[k] = gap + x
      BY <1>1, <3>1
    <3>3. p < k
      <4>1. k # p /\ ~(k < p)
        BY <1>1, <1>2, <3>1, <3>2
      <4>. QED
        BY <1>1, <4>1
    <3>4. k - p \in 1..Len(f) - p /\ p + (k - p) = k
      BY <1>1, <3>3
    <3>5. g[k - p] = f[k] - gap
      BY <1>7, <3>4
    <3>. QED
      BY <1>1, <1>9, <3>1, <3>2, <3>4, <3>5, SMTT(20)
  <2>. QED
    BY <2>1, <2>2
<1>. QED
  BY <1>2, <1>3, <1>4, <1>5, <1>7, <1>9, <1>10, <1>11 DEF Ends, Enumerates

LEMMA RestLines ==
  ASSUME NEW t, NEW f, Ends(f, t), NEW p \in 1..Len(f), f[p] < Len(t)
  PROVE  LET w == RestOf(f, t, p)
             g == EndsBehind(f, p)
         IN  /\ w \in Texts /\ w # <<>> /\ Ends(g, w) /\ Len(g) = Len(f) - p
             /\ CountOf(g, w) = CountOf(f, t) - p
             /\ \A i \in 1..Len(f) - p + 1 : Lines(w)[i] = Lines(t)[p + i]
<1>1. /\ t \in Seq(Chars) /\ Len(t) \in Nat /\ Len(f) \in Nat
      /\ \A k \in 1..Len(f) : f[k] \in 1..Len(t) /\ t[f[k]] = NL /\ f[k] \in Nat
      /\ \A k \in 1..Len(f) + 1 : /\ Begin(f, k) \in 1..Len(t) + 1 /\ Finish(f, t, k) \in 0..Len(t)
                                  /\ Begin(f, k) <= Finish(f, t, k) + 1
  BY LinePlaces
<1>2. PICK gap \in 1..Len(t) : gap = f[p] /\ gap < Len(t)
  BY <1>1
<1>3. PICK w, g : w = RestOf(f, t, p) /\ g = EndsBehind(f, p)
  OBVIOUS
<1>4. /\ w \in Texts /\ w \in Seq(Chars) /\ Len(w) = Len(t) - gap /\ w = SubSeq(t, gap + 1, Len(t))
      /\ \A i \in 1..Len(t) - gap : w[i] = t[gap + i]
  BY <1>2, <1>3, RestIs DEF Texts, RestOf
<1>5. /\ Ends(g, w) /\ Len(g) = Len(f) - p
      /\ \A i \in 1..Len(f) - p : g[i] = f[p + i] - gap
  <2>1. /\ Ends(g, w) /\ Len(g) = Len(f) - p
        /\ \A i \in 1..Len(f) - p : g[i] = f[p + i] - f[p]
    <3>1. /\ Ends(EndsBehind(f, p), RestOf(f, t, p)) /\ Len(EndsBehind(f, p)) = Len(f) - p
          /\ \A i \in 1..Len(f) - p : EndsBehind(f, p)[i] = f[p + i] - f[p]
      BY RestEnds
    <3>. QED
      BY <1>3, <3>1
  <2>. QED
    BY <1>2, <2>1
<1>6. w # <<>> /\ t # <<>> /\ w[Len(w)] = t[Len(t)]
  <2>1. Len(w) # 0 /\ Len(t) # 0 /\ Len(w) \in 1..Len(t) - gap /\ gap + Len(w) = Len(t)
    BY <1>1, <1>2, <1>4
  <2>2. w # <<>> /\ t # <<>>
    BY <1>1, <1>4, <2>1, EmptySeq
  <2>3. w[Len(w)] = t[gap + Len(w)]
    BY <1>4, <2>1
  <2>. QED
    BY <2>1, <2>2, <2>3
<1>7. CountOf(g, w) = CountOf(f, t) - p
  <2>1. CASE t[Len(t)] = NL
    BY <1>1, <1>5, <1>6, <2>1 DEF CountOf
  <2>2. CASE t[Len(t)] # NL
    <3>1. CountOf(g, w) = Len(f) - p + 1 /\ CountOf(f, t) = Len(f) + 1
      BY <1>1, <1>5, <1>6, <2>2 DEF CountOf
    <3>. QED
      BY <1>1, <3>1
  <2>. QED
    BY <2>1, <2>2
<1>8. ASSUME NEW i \in 1..Len(f) - p + 1 PROVE Lines(w)[i] = Lines(t)[p + i]
  <2>1. i \in 1..Len(g) + 1 /\ p + i \in 1..Len(f) + 1 /\ i \in Nat \ {0}
    BY <1>1, <1>5
  <2>2. /\ Lines(w)[i] = SubSeq(w, Begin(g, i), Finish(g, w, i))
        /\ Lines(t)[p + i] = SubSeq(t, Begin(f, p + i), Finish(f, t, p + i))
    BY <1>5, <2>1, LinesAre
  <2>3. PICK lo, hi : lo = Begin(g, i) /\ hi = Finish(g, w, i)
    OBVIOUS
  <2>4. lo \in 1..Len(w) + 1 /\ hi \in 0..Len(w) /\ lo <= hi + 1
    BY <1>5, <2>1, <2>3, LinePlaces
  <2>5. Begin(f, p + i) = gap + lo
    <3>1. CASE i = 1
      <4>1. p + i - 1 = p /\ p + i # 1 /\ lo = 1
        BY <1>1, <2>3, <3>1 DEF Begin
      <4>. QED
        BY <1>2, <4>1 DEF Begin
    <3>2. CASE i # 1
      <4>1. i - 1 \in 1..Len(f) - p /\ p + i - 1 = p + (i - 1) /\ p + i # 1 /\ p + (i - 1) \in 1..Len(f)
        BY <1>1, <3>2
      <4>2. g[i - 1] = f[p + (i - 1)] - gap
        BY <1>5, <4>1
      <4>3. PICK y \in Nat : y = f[p + (i - 1)]
        BY <1>1, <4>1
      <4>4. lo = (y - gap) + 1
        BY <2>3, <3>2, <4>2, <4>3 DEF Begin
      <4>5. Begin(f, p + i) = y + 1
        BY <4>1, <4>3 DEF Begin
      <4>6. gap \in Int /\ y \in Int
        BY <1>1, <4>3
      <4>7. y + 1 = gap + ((y - gap) + 1)
        BY <4>6
      <4>. QED
        BY <4>4, <4>5, <4>7
    <3>. QED
      BY <3>1, <3>2
  <2>6. Finish(f, t, p + i) = gap + hi
    <3>1. CASE i = Len(g) + 1
      <4>1. hi = Len(t) - gap /\ Finish(f, t, p + i) = Len(t)
        BY <1>1, <1>4, <1>5, <2>3, <3>1, SMTT(20) DEF Finish
      <4>. QED
        BY <1>1, <4>1
    <3>2. CASE i # Len(g) + 1
      <4>1. i \in 1..Len(f) - p /\ p + i \in 1..Len(f) /\ ~(i > Len(g)) /\ ~(p + i > Len(f))
        <5>1. PICK n \in Nat : n = Len(f) /\ p \in 1..n /\ Len(g) = n - p
          BY <1>1, <1>5
        <5>2. i \in 1..n - p
          BY <2>1, <3>2, <5>1
        <5>. QED
          BY <5>1, <5>2
      <4>2. PICK y \in Nat : y = f[p + i]
        BY <1>1, <4>1
      <4>3. hi = (y - gap) - 1 /\ Finish(f, t, p + i) = y - 1
        BY <1>5, <2>3, <4>1, <4>2 DEF Finish
      <4>4. gap \in Int /\ y \in Int
        BY <1>1, <4>2
      <4>5. y - 1 = gap + ((y - gap) - 1)
        BY <4>4
      <4>. QED
        BY <4>3, <4>5
    <3>. QED
      BY <3>1, <3>2
  <2>7. SubSeq(w, lo, hi) = SubSeq(t, gap + lo, gap + hi)
    <3>1. gap \in 0..Len(t) /\ lo \in Nat \ {0} /\ hi \in Nat /\ gap + hi <= Len(t)
      BY <1>1, <1>4, <2>4
    <3>. QED
      BY <1>1, <1>4, <2>4, <3>1, PartOfRest
  <2>. QED
    BY <2>2, <2>3, <2>5, <2>6, <2>7
<1>. QED
  BY <1>3, <1>4, <1>5, <1>6, <1>7, <1>8

\* Where the last line that counts ends.
LEMMA LastFinish ==
  ASSUME NEW t, NEW f, Ends(f, t), t # <<>>
  PROVE  /\ Len(t) \in Nat \ {0} /\ CountOf(f, t) \in 1..Len(f) + 1
         /\ t[Len(t)] = NL => Finish(f, t, CountOf(f, t)) = Len(t) - 1
         /\ t[Len(t)] # NL => Finish(f, t, CountOf(f, t)) = Len(t)
<1>1. /\ t \in Seq(Chars) /\ Len(t) \in Nat /\ Len(f) \in Nat
      /\ \A k \in 1..Len(f) : f[k] \in 1..Len(t)
      /\ \A i \in 1..Len(t) : t[i] = NL => \E k \in 1..Len(f) : f[k] = i
      /\ \A i, j \in 1..Len(f) : i < j => f[i] < f[j]
      /\ \A k \in 1..Len(f) : Finish(f, t, k) = f[k] - 1
  BY LinePlaces
<1>2. Len(t) \in 1..Len(t)
  BY <1>1, EmptySeq
<1>3. CountOf(f, t) \in 1..Len(f) + 1
  BY <1>1, CountedAre
<1>4. ASSUME t[Len(t)] = NL PROVE Finish(f, t, CountOf(f, t)) = Len(t) - 1
  <2>1. PICK k \in 1..Len(f) : f[k] = Len(t)
    BY <1>1, <1>2, <1>4
  <2>2. Len(f) \in 1..Len(f) /\ CountOf(f, t) = Len(f)
    BY <1>1, <1>4 DEF CountOf
  <2>3. PICK x \in 1..Len(t) : x = f[Len(f)]
    BY <1>1, <2>2
  <2>4. k < Len(f) => f[k] < f[Len(f)]
    BY <1>1, <2>2
  <2>5. ~(k < Len(f))
    BY <1>1, <2>1, <2>3, <2>4
  <2>6. k = Len(f)
    BY <1>1, <2>5
  <2>. QED
    BY <1>1, <2>1, <2>2, <2>6
<1>5. ASSUME t[Len(t)] # NL PROVE Finish(f, t, CountOf(f, t)) = Len(t)
  <2>1. CountOf(f, t) = Len(f) + 1
    BY <1>5 DEF CountOf
  <2>. QED
    BY <1>1, <2>1 DEF Finish
<1>. QED
  BY <1>1, <1>2, <1>3, <1>4, <1>5

\* The last n lines that count, and what they make when they are joined.
LEMMA TrailingIs ==
  ASSUME NEW t, NEW f, Ends(f, t), NEW n \in 1..CountOf(f, t)
  PROVE  LET from == Begin(f, CountOf(f, t) - n + 1)
             to == Finish(f, t, CountOf(f, t))
         IN  /\ Trailing(CountedLines(t), n) = SubSeq(Lines(t), CountOf(f, t) - n + 1, CountOf(f, t))
             /\ JoinLines(Trailing(CountedLines(t), n)) = SubSeq(t, from, to)
             /\ from \in 1..Len(t) + 1 /\ to \in 0..Len(t) /\ from <= to + 1
             /\ Len(JoinLines(Trailing(CountedLines(t), n))) = to - from + 1
<1>1. t \in Seq(Chars) /\ Len(t) \in Nat /\ Len(f) \in Nat
  BY LinePlaces
<1>2. PICK m, c : m = CountOf(f, t) /\ c = CountedLines(t)
  OBVIOUS
<1>3. /\ m \in 0..Len(f) + 1 /\ m \in Nat /\ c = SubSeq(Lines(t), 1, m) /\ c \in Seq(Texts) /\ Len(c) = m
      /\ \A k \in 1..m : c[k] = Lines(t)[k]
  BY <1>2, CountedAre
<1>4. PICK lo : lo = m - n + 1
  OBVIOUS
<1>5. lo \in 1..Len(f) + 1 /\ lo \in 1..m /\ m \in lo..Len(f) + 1 /\ m \in 1..Len(f) + 1 /\ lo <= m
  BY <1>1, <1>2, <1>3, <1>4
<1>6. SubSeq(c, lo, m) = SubSeq(Lines(t), lo, m)
  <2>1. /\ \A i \in lo..m : c[i] \in Texts /\ Lines(t)[i] \in Texts
    <3>1. \A i \in lo..m : i \in 1..m
      BY <1>1, <1>5
    <3>. QED
      BY <1>3, <3>1, ElementOfSeq
  <2>2. PICK u, v : u = SubSeq(c, lo, m) /\ v = SubSeq(Lines(t), lo, m)
    OBVIOUS
  <2>3. lo \in Int /\ m \in Int
    BY <1>3, <1>5
  <2>4. u \in Seq(Texts) /\ Len(u) = m - lo + 1 /\ \A i \in 1..m - lo + 1 : u[i] = c[lo + i - 1]
    BY <1>5, <2>1, <2>2, <2>3, SubSeqProperties
  <2>5. v \in Seq(Texts) /\ Len(v) = m - lo + 1 /\ \A i \in 1..m - lo + 1 : v[i] = Lines(t)[lo + i - 1]
    BY <1>5, <2>1, <2>2, <2>3, SubSeqProperties
  <2>6. \A i \in 1..m - lo + 1 : lo + i - 1 \in 1..m
    BY <1>5, <2>3
  <2>7. \A i \in 1..Len(u) : u[i] = v[i]
    BY <1>3, <2>4, <2>5, <2>6
  <2>. QED
    BY <2>2, <2>4, <2>5, <2>7, SeqEqual
<1>7. Trailing(c, n) = SubSeq(Lines(t), lo, m)
  BY <1>3, <1>4, <1>6 DEF Trailing
<1>8. JoinLines(Trailing(c, n)) = SubSeq(t, Begin(f, lo), Finish(f, t, m))
  BY <1>5, <1>7, JoinedLines
<1>9. PICK from, to : from = Begin(f, lo) /\ to = Finish(f, t, m)
  OBVIOUS
<1>10. from \in 1..Len(t) + 1 /\ to \in 0..Len(t)
  BY <1>5, <1>9, LinePlaces
<1>11. from <= to + 1
  <2>1. from <= Finish(f, t, lo) + 1 /\ Finish(f, t, lo) \in 0..Len(t)
    BY <1>5, <1>9, LinePlaces
  <2>2. Finish(f, t, lo) <= to
    <3>1. CASE lo = m
      BY <1>9, <1>10, <3>1
    <3>2. CASE lo < m
      <4>1. lo \in 1..Len(f) /\ lo < m
        BY <1>1, <1>5, <3>2
      <4>2. /\ f[lo] \in 1..Len(t) /\ Finish(f, t, lo) = f[lo] - 1
        BY <4>1, LinePlaces
      <4>3. PICK x \in 1..Len(t) : x = f[lo]
        BY <4>2
      <4>4. CASE m = Len(f) + 1
        <5>1. to = Len(t)
          BY <1>1, <1>9, <4>4 DEF Finish
        <5>. QED
          BY <1>1, <4>2, <4>3, <5>1
      <4>5. CASE m # Len(f) + 1
        <5>1. m \in 1..Len(f)
          BY <1>1, <1>5, <4>5
        <5>2. f[lo] < f[m] /\ f[m] \in 1..Len(t) /\ to = f[m] - 1
          BY <1>9, <4>1, <5>1, LinePlaces
        <5>3. PICK y \in 1..Len(t) : y = f[m]
          BY <5>2
        <5>4. x < y /\ to = y - 1 /\ Finish(f, t, lo) = x - 1
          BY <4>2, <4>3, <5>2, <5>3
        <5>. QED
          BY <4>3, <5>3, <5>4
      <4>. QED
        BY <4>4, <4>5
    <3>. QED
      BY <1>5, <3>1, <3>2
  <2>. QED
    BY <1>1, <1>10, <2>1, <2>2
<1>12. Len(SubSeq(t, from, to)) = to - from + 1
  BY <1>1, <1>10, <1>11, PartOf
<1>. QED
  BY <1>2, <1>4, <1>7, <1>8, <1>9, <1>10, <1>11, <1>12

LEMMA GreatestFit ==
  ASSUME NEW m \in Nat, NEW F, F \subseteq 0..m, F # {}
  PROVE  Max(F) \in F /\ \A k \in F : k <= Max(F)
<1>1. PICK T : T = {k + 1 : k \in F}
  OBVIOUS
<1>2. T \subseteq 1..m + 1 /\ T # {} /\ m + 1 \in Nat
  <2>1. \A k \in F : k \in 0..m
    OBVIOUS
  <2>2. \A k \in 0..m : k + 1 \in 1..m + 1
    OBVIOUS
  <2>3. \A k \in F : k + 1 \in 1..m + 1
    BY <2>1, <2>2
  <2>4. PICK k : k \in F
    OBVIOUS
  <2>5. k + 1 \in T
    BY <1>1, <2>4
  <2>. QED
    BY <1>1, <2>3, <2>5
<1>3. PICK i \in T : \A k \in T : k <= i
  BY <1>2, GreatestExists
<1>4. PICK j \in F : i = j + 1
  BY <1>1, <1>3
<1>5. \A k \in F : j >= k
  <2>1. ASSUME NEW k \in F PROVE j >= k
    <3>1. k + 1 \in T
      BY <1>1
    <3>2. k + 1 <= j + 1 /\ k \in Nat /\ j \in Nat
      BY <1>3, <1>4, <3>1
    <3>. QED
      BY <3>2
  <2>. QED
    BY <2>1
<1>6. Max(F) \in F /\ \A k \in F : Max(F) >= k
  BY <1>5 DEF Max
<1>7. \A k \in F : k \in Nat
  OBVIOUS
<1>. QED
  BY <1>6, <1>7

\* How many lines of the end fit the limits of what is shown.
Fitting(lines) ==
    {n \in 0..Len(lines) : n <= ShownLines /\ Len(JoinLines(Trailing(lines, n))) <= ShownBytes}
Short(t) == \A k \in DOMAIN Lines(t) : Len(Lines(t)[k]) <= ShownBytes

LEMMA TailCut ==
  ASSUME NEW t, NEW f, Ends(f, t), t # <<>>, Short(t)
  PROVE  /\ Max(Fitting(CountedLines(t))) \in 1..CountOf(f, t)
         /\ Max(Fitting(CountedLines(t))) \in Fitting(CountedLines(t))
         /\ \A k \in Fitting(CountedLines(t)) : k <= Max(Fitting(CountedLines(t)))
         /\ Fits(t, ShownLines, ShownBytes) => TruncateTail(t, ShownLines, ShownBytes).content = t
         /\ ~Fits(t, ShownLines, ShownBytes) =>
                TruncateTail(t, ShownLines, ShownBytes).content =
                    JoinLines(Trailing(CountedLines(t), Max(Fitting(CountedLines(t)))))
<1>1. PICK c, m, M : c = CountedLines(t) /\ m = CountOf(f, t) /\ M = Max(Fitting(c))
  OBVIOUS
<1>2. Len(c) = m /\ m \in 1..Len(f) + 1 /\ m \in Nat /\ Len(f) \in Nat
  BY <1>1, CountedAre, LastFinish, LinePlaces
<1>3. 1 \in Fitting(c)
  <2>1. 1 \in 1..m /\ m - 1 + 1 = m
    BY <1>2
  <2>2. Len(JoinLines(Trailing(c, 1))) = Finish(f, t, m) - Begin(f, m) + 1
    <3>1. Len(JoinLines(Trailing(c, 1))) = Finish(f, t, m) - Begin(f, m - 1 + 1) + 1
      BY <1>1, <2>1, TrailingIs
    <3>. QED
      BY <2>1, <3>1
  <2>3. Len(Lines(t)[m]) = Finish(f, t, m) - Begin(f, m) + 1 /\ m \in DOMAIN Lines(t)
    BY <1>2, LinesAre
  <2>4. Len(JoinLines(Trailing(c, 1))) <= ShownBytes
    BY <2>2, <2>3 DEF Short
  <2>5. 1 <= ShownLines /\ 1 \in 0..Len(c)
    BY <1>2, CaptureAssumption
  <2>. QED
    BY <2>4, <2>5 DEF Fitting
<1>4. M \in Fitting(c) /\ \A k \in Fitting(c) : k <= M
  <2>1. Fitting(c) \subseteq 0..m /\ Fitting(c) # {}
    BY <1>2, <1>3 DEF Fitting
  <2>. QED
    BY <1>1, <1>2, <2>1, GreatestFit
<1>5. M \in 1..m
  <2>1. M \in 0..m
    BY <1>2, <1>4 DEF Fitting
  <2>2. 1 <= M
    BY <1>3, <1>4
  <2>. QED
    BY <2>1, <2>2
<1>6. FittingFrom(c, Trailing, ShownLines, ShownBytes) = M
  BY <1>1 DEF FittingFrom, Fitting
<1>7. ASSUME Fits(t, ShownLines, ShownBytes) PROVE TruncateTail(t, ShownLines, ShownBytes).content = t
  BY <1>7 DEF TruncateTail, Untouched
<1>8. ASSUME ~Fits(t, ShownLines, ShownBytes)
      PROVE  TruncateTail(t, ShownLines, ShownBytes).content = JoinLines(Trailing(c, M))
  <2>1. M # 0
    BY <1>5
  <2>2. FittingFrom(CountedLines(t), Trailing, ShownLines, ShownBytes) = M
    BY <1>1, <1>6
  <2>. QED
    BY <1>1, <1>8, <2>1, <2>2 DEF TruncateTail
<1>. QED
  BY <1>1, <1>4, <1>5, <1>7, <1>8

\* Cutting a text to its end, and cutting what follows one of its lines, show the same,
\* where what follows is more than is shown.
LEMMA SameTail ==
  ASSUME NEW t, NEW f, Ends(f, t), Short(t), ~Fits(t, ShownLines, ShownBytes),
         NEW p \in 1..Len(f), f[p] < Len(t), Len(t) - Begin(f, p) >= RollingBytes
  PROVE  LET cut == TruncateTail(t, ShownLines, ShownBytes).content
         IN  TruncateTail(RestOf(f, t, p), ShownLines, ShownBytes).content \in {cut, cut \o <<NL>>}
<1>1. PICK w, g : w = RestOf(f, t, p) /\ g = EndsBehind(f, p)
  OBVIOUS
<1>2. /\ w \in Texts /\ w # <<>> /\ Ends(g, w) /\ Len(g) = Len(f) - p
      /\ CountOf(g, w) = CountOf(f, t) - p
      /\ \A i \in 1..Len(f) - p + 1 : Lines(w)[i] = Lines(t)[p + i]
  BY <1>1, RestLines, SMTT(20)
<1>3. /\ t \in Seq(Chars) /\ Len(t) \in Nat /\ Len(f) \in Nat /\ Len(g) \in Nat /\ f[p] \in 1..Len(t)
      /\ w \in Seq(Chars) /\ Len(w) \in Nat
  BY <1>2, LinePlaces
<1>4. t # <<>>
  BY <1>3, EmptySeq
<1>5. PICK ct, cw, m, n : ct = CountedLines(t) /\ cw = CountedLines(w) /\ m = CountOf(f, t) /\ n = CountOf(g, w)
  OBVIOUS
<1>6. /\ Len(ct) = m /\ Len(cw) = n /\ n = m - p /\ m \in 1..Len(f) + 1 /\ n \in 1..Len(g) + 1
      /\ ShownBytes \in Nat \ {0} /\ ShownLines \in Nat \ {0}
  BY <1>2, <1>4, <1>5, CountedAre, LastFinish, CaptureAssumption
<1>7. Short(w)
  <2>1. ASSUME NEW i \in DOMAIN Lines(w) PROVE Len(Lines(w)[i]) <= ShownBytes
    <3>1. i \in 1..Len(g) + 1
      BY <1>2, <1>3, LinesAre
    <3>2. i \in 1..Len(f) - p + 1 /\ p + i \in 1..Len(f) + 1
      BY <1>2, <1>3, <3>1
    <3>3. p + i \in DOMAIN Lines(t)
      BY <3>2, LinesAre
    <3>. QED
      BY <1>2, <3>2, <3>3 DEF Short
  <2>. QED
    BY <2>1 DEF Short
<1>8. ASSUME NEW k \in 1..n PROVE Trailing(ct, k) = Trailing(cw, k)
  <2>1. k \in 1..m /\ m - k + 1 = p + (n - k + 1) /\ n - k + 1 \in 1..n
    BY <1>6
  <2>2. PICK ka, kb : ka = m - k + 1 /\ kb = n - k + 1
    OBVIOUS
  <2>3. /\ Trailing(ct, k) = SubSeq(Lines(t), ka, m) /\ Trailing(cw, k) = SubSeq(Lines(w), kb, n)
        /\ ka = p + kb /\ kb \in 1..n /\ ka \in 1..m /\ m - ka = n - kb /\ ka <= m /\ kb <= n
    <3>1. Trailing(ct, k) = SubSeq(Lines(t), m - k + 1, m)
      BY <1>5, <2>1, TrailingIs
    <3>2. Trailing(cw, k) = SubSeq(Lines(w), n - k + 1, n)
      BY <1>2, <1>5, TrailingIs
    <3>. QED
      BY <1>6, <2>1, <2>2, <3>1, <3>2
  <2>4. PICK u, v : u = SubSeq(Lines(t), ka, m) /\ v = SubSeq(Lines(w), kb, n)
    OBVIOUS
  <2>5. /\ Lines(t) \in Seq(Texts) /\ Len(Lines(t)) = Len(f) + 1
        /\ Lines(w) \in Seq(Texts) /\ Len(Lines(w)) = Len(g) + 1
    BY <1>2, LinesAre
  <2>6. (\A i \in ka..m : Lines(t)[i] \in Texts) /\ (\A i \in kb..n : Lines(w)[i] \in Texts)
    <3>1. (\A i \in ka..m : i \in 1..Len(f) + 1) /\ (\A i \in kb..n : i \in 1..Len(g) + 1)
      <4>1. PICK i1 \in Nat, i2 \in Nat : i1 = Len(f) + 1 /\ i2 = Len(g) + 1
        BY <1>3
      <4>2. ka \in 1..m /\ kb \in 1..n /\ m \in 1..i1 /\ n \in 1..i2
        BY <1>6, <2>3, <4>1
      <4>3. ka..m \subseteq 1..i1 /\ kb..n \subseteq 1..i2
        BY <4>2
      <4>. QED
        BY <4>1, <4>3
    <3>. QED
      BY <2>5, <3>1, ElementOfSeq
  <2>7. ka \in Int /\ kb \in Int /\ m \in Int /\ n \in Int
    BY <1>3, <1>6, <2>3
  <2>8. u \in Seq(Texts) /\ Len(u) = m - ka + 1 /\ \A i \in 1..m - ka + 1 : u[i] = Lines(t)[ka + i - 1]
    BY <2>3, <2>4, <2>6, <2>7, SubSeqProperties
  <2>9. v \in Seq(Texts) /\ Len(v) = n - kb + 1 /\ \A i \in 1..n - kb + 1 : v[i] = Lines(w)[kb + i - 1]
    BY <2>3, <2>4, <2>6, <2>7, SubSeqProperties
  <2>10. m - ka + 1 = n - kb + 1
    BY <2>3, <2>7
  <2>11. ASSUME NEW i \in 1..n - kb + 1 PROVE u[i] = v[i]
    <3>1. kb + i - 1 \in 1..Len(f) - p + 1 /\ ka + i - 1 = p + (kb + i - 1)
      BY <1>2, <1>3, <1>6, <2>3, <2>7
    <3>. QED
      BY <1>2, <2>8, <2>9, <2>10, <3>1
  <2>12. Len(u) = n - kb + 1 /\ Len(u) = Len(v)
    BY <2>8, <2>9, <2>10
  <2>13. u = v
    BY <2>8, <2>9, <2>11, <2>12, SeqEqual
  <2>. QED
    BY <2>3, <2>4, <2>13
<1>9. Fitting(ct) = Fitting(cw)
  <2>1. Trailing(ct, 0) = Trailing(cw, 0)
    <3>1. Trailing(ct, 0) = <<>> /\ Trailing(cw, 0) = <<>>
      <4>1. Trailing(ct, 0) = SubSeq(ct, m - 0 + 1, m) /\ Trailing(cw, 0) = SubSeq(cw, n - 0 + 1, n)
        BY <1>6 DEF Trailing
      <4>2. m - 0 + 1 \in Int /\ m < m - 0 + 1 /\ n - 0 + 1 \in Int /\ n < n - 0 + 1 /\ m \in Int /\ n \in Int
        BY <1>3, <1>6
      <4>. QED
        BY <4>1, <4>2, SubSeqEmpty
    <3>. QED
      BY <3>1
  <2>2. ASSUME NEW k \in 0..n PROVE k \in Fitting(ct) <=> k \in Fitting(cw)
    <3>1. Trailing(ct, k) = Trailing(cw, k)
      BY <1>3, <1>6, <1>8, <2>1
    <3>2. k \in 0..Len(ct) /\ k \in 0..Len(cw)
      BY <1>3, <1>6
    <3>. QED
      BY <3>1, <3>2 DEF Fitting
  <2>3. ASSUME NEW k \in 0..m, k \notin 0..n PROVE k \notin Fitting(ct)
    <3>1. k \in 1..m /\ m - k + 1 \in 1..p
      BY <1>3, <1>6, <2>3
    <3>2. PICK ka : ka = m - k + 1
      OBVIOUS
    <3>3. Len(JoinLines(Trailing(ct, k))) = Finish(f, t, m) - Begin(f, ka) + 1
      BY <1>5, <3>1, <3>2, TrailingIs
    <3>4. Finish(f, t, m) \in Nat /\ Finish(f, t, m) >= Len(t) - 1
      BY <1>3, <1>4, <1>5, LastFinish
    <3>5. Begin(f, ka) \in Nat /\ Begin(f, p) \in Nat /\ Begin(f, ka) <= Begin(f, p)
      <4>1. ka \in 1..Len(f) + 1 /\ p \in 1..Len(f) + 1
        BY <1>3, <1>6, <3>1, <3>2
      <4>2. Begin(f, ka) \in Nat /\ Begin(f, p) \in Nat /\ Begin(f, ka) \in 1..Len(t) + 1 /\ Begin(f, p) \in 1..Len(t) + 1
        <5>1. \A i \in 1..Len(f) + 1 : Begin(f, i) \in 1..Len(t) + 1
          BY LinePlaces
        <5>. QED
          BY <1>3, <4>1, <5>1
      <4>3. CASE ka = p
        BY <4>2, <4>3
      <4>4. CASE ka # p
        <5>1. ka \in 1..p - 1 /\ p # 1 /\ p - 1 \in 1..Len(f)
          BY <1>3, <3>1, <3>2, <4>4
        <5>2. CASE ka = 1
          BY <1>3, <4>2, <5>2 DEF Begin
        <5>3. CASE ka # 1
          <6>1. ka - 1 \in 1..Len(f) /\ ka - 1 < p - 1
            BY <1>3, <5>1, <5>3
          <6>2. f[ka - 1] < f[p - 1] /\ f[ka - 1] \in Nat /\ f[p - 1] \in Nat
            BY <5>1, <6>1, LinePlaces
          <6>3. PICK x \in Nat, y \in Nat : x = f[ka - 1] /\ y = f[p - 1]
            BY <6>2
          <6>4. x < y /\ Begin(f, ka) = x + 1 /\ Begin(f, p) = y + 1
            BY <5>1, <5>3, <6>2, <6>3 DEF Begin
          <6>5. x \in Nat /\ y \in Nat /\ x < y
            BY <6>3, <6>4
          <6>6. x + 1 <= y + 1
            BY <6>5
          <6>. QED
            BY <4>2, <6>4, <6>6
        <5>. QED
          BY <5>2, <5>3
      <4>. QED
        BY <4>3, <4>4
    <3>6. Len(JoinLines(Trailing(ct, k))) >= RollingBytes
      <4>1. PICK x \in Nat, y \in Nat, z \in Nat : x = Finish(f, t, m) /\ y = Begin(f, ka) /\ z = Begin(f, p)
        BY <3>4, <3>5
      <4>2. PICK r \in Nat : r = RollingBytes
        BY <1>6 DEF RollingBytes
      <4>3. PICK l \in Nat : l = Len(t)
        BY <1>3
      <4>4. x \in Nat /\ y \in Nat /\ z \in Nat /\ r \in Nat /\ x >= l - 1 /\ y <= z /\ l - z >= r
        BY <1>3, <3>4, <3>5, <4>1, <4>2, <4>3
      <4>5. x - y + 1 >= r
        BY <4>3, <4>4
      <4>. QED
        BY <3>3, <4>1, <4>2, <4>5
    <3>7. ~(Len(JoinLines(Trailing(ct, k))) <= ShownBytes)
      <4>1. PICK s \in Nat \ {0} : s = ShownBytes
        BY <1>6
      <4>2. PICK l \in Int : l = Len(JoinLines(Trailing(ct, k)))
        BY <3>3, <3>4, <3>5
      <4>3. l >= 2 * s
        BY <3>6, <4>1, <4>2 DEF RollingBytes
      <4>4. ~(l <= s)
        BY <4>1, <4>2, <4>3
      <4>. QED
        BY <4>1, <4>2, <4>4
    <3>. QED
      BY <3>7 DEF Fitting
  <2>4. Fitting(ct) \subseteq 0..m /\ Fitting(cw) \subseteq 0..n
    BY <1>6 DEF Fitting
  <2>5. 0..n \subseteq 0..m
    BY <1>3, <1>6
  <2>. QED
    BY <2>2, <2>3, <2>4, <2>5
<1>10. PICK M : M = Max(Fitting(ct))
  OBVIOUS
<1>11. PICK cut : cut = TruncateTail(t, ShownLines, ShownBytes).content
  OBVIOUS
<1>12. M \in 1..n /\ M \in Fitting(cw) /\ \A k \in Fitting(cw) : k <= M
  BY <1>2, <1>5, <1>7, <1>9, <1>10, TailCut
<1>13. cut = JoinLines(Trailing(cw, M))
  <2>1. cut = JoinLines(Trailing(ct, M))
    BY <1>4, <1>5, <1>10, <1>11, TailCut
  <2>. QED
    BY <1>8, <1>12, <2>1
<1>14. ASSUME ~Fits(w, ShownLines, ShownBytes)
       PROVE  TruncateTail(w, ShownLines, ShownBytes).content = cut
  BY <1>2, <1>5, <1>7, <1>9, <1>10, <1>13, <1>14, TailCut
<1>15. ASSUME Fits(w, ShownLines, ShownBytes)
       PROVE  w \in {cut, cut \o <<NL>>}
  <2>1. n <= ShownLines /\ Len(w) <= ShownBytes
    BY <1>5, <1>6, <1>15 DEF Fits
  <2>2. PICK to : to = Finish(g, w, n)
    OBVIOUS
  <2>3. n \in 1..n /\ n - n + 1 = 1 /\ n \in 0..n
    BY <1>3, <1>6
  <2>4. /\ JoinLines(Trailing(cw, n)) = SubSeq(w, 1, to)
        /\ Len(JoinLines(Trailing(cw, n))) = to - 1 + 1
    <3>1. Begin(g, n - n + 1) = 1
      BY <2>3 DEF Begin
    <3>2. /\ JoinLines(Trailing(cw, n)) = SubSeq(w, Begin(g, n - n + 1), to)
          /\ Len(JoinLines(Trailing(cw, n))) = to - Begin(g, n - n + 1) + 1
      BY <1>2, <1>5, <2>2, <2>3, TrailingIs
    <3>. QED
      BY <3>1, <3>2
  <2>5. /\ Len(w) \in Nat \ {0}
        /\ w[Len(w)] = NL => to = Len(w) - 1
        /\ w[Len(w)] # NL => to = Len(w)
    BY <1>2, <1>5, <2>2, LastFinish
  <2>6. Len(JoinLines(Trailing(cw, n))) <= ShownBytes
    BY <1>6, <2>1, <2>4, <2>5
  <2>7. n \in Fitting(cw)
    BY <1>6, <2>1, <2>3, <2>6 DEF Fitting
  <2>8. M = n
    BY <1>3, <1>6, <1>12, <2>7
  <2>9. cut = SubSeq(w, 1, to)
    BY <1>13, <2>4, <2>8
  <2>10. CASE w[Len(w)] # NL
    BY <1>3, <2>5, <2>9, <2>10, SubSeqFull
  <2>11. CASE w[Len(w)] = NL
    <3>1. 1 \in 1..Len(w) /\ Len(w) \in 1..Len(w)
      BY <2>5
    <3>2. SubSeq(w, 1, Len(w)) = SubSeq(w, 1, Len(w) - 1) \o <<w[Len(w)]>>
      BY <1>3, <3>1, SubSeqRecursiveSecond
    <3>. QED
      BY <1>3, <2>5, <2>9, <2>11, <3>2, SubSeqFull
  <2>. QED
    BY <2>10, <2>11
<1>16. ASSUME Fits(w, ShownLines, ShownBytes)
       PROVE  TruncateTail(w, ShownLines, ShownBytes).content = w
  BY <1>2, <1>7, <1>16, TailCut
<1>. QED
  BY <1>1, <1>11, <1>14, <1>15, <1>16

-------------------------------------------------------------------------------
(* The tail that is kept                                                        *)

\* A text that goes on.
LEMMA GoesOn ==
  ASSUME NEW t \in Texts, NEW x \in Texts
  PROVE  /\ t \o x \in Texts /\ Len(t) \in Nat /\ Len(x) \in Nat /\ Len(t \o x) = Len(t) + Len(x)
         /\ \A i \in 1..Len(t) : (t \o x)[i] = t[i]
         /\ \A i \in 1..Len(x) : (t \o x)[Len(t) + i] = x[i]
<1>1. t \in Seq(Chars) /\ x \in Seq(Chars)
  BY DEF Texts
<1>2. t \o x \in Seq(Chars) /\ Len(t) \in Nat /\ Len(x) \in Nat /\ Len(t \o x) = Len(t) + Len(x)
  BY <1>1, ConcatProperties, LenProperties
<1>3. \A i \in 1..Len(t) + Len(x) : (t \o x)[i] = IF i <= Len(t) THEN t[i] ELSE x[i - Len(t)]
  BY <1>1, ConcatProperties
<1>4. ASSUME NEW i \in 1..Len(t) PROVE (t \o x)[i] = t[i]
  <2>1. i \in 1..Len(t) + Len(x) /\ i <= Len(t)
    BY <1>2
  <2>. QED
    BY <1>3, <2>1
<1>5. ASSUME NEW i \in 1..Len(x) PROVE (t \o x)[Len(t) + i] = x[i]
  <2>1. Len(t) + i \in 1..Len(t) + Len(x) /\ ~(Len(t) + i <= Len(t)) /\ Len(t) + i - Len(t) = i
    BY <1>2
  <2>. QED
    BY <1>3, <2>1
<1>. QED
  BY <1>2, <1>4, <1>5 DEF Texts

\* The line ends of both parts are those of the whole.
LEMMA EndsGrow ==
  ASSUME NEW t \in Texts, NEW x \in Texts
  PROVE  /\ IsFiniteSet(NLs(x)) /\ Cardinality(NLs(t)) \in Nat /\ Cardinality(NLs(x)) \in Nat
         /\ Cardinality(NLs(t \o x)) = Cardinality(NLs(t)) + Cardinality(NLs(x))
<1>1. /\ t \o x \in Texts /\ Len(t) \in Nat /\ Len(x) \in Nat /\ Len(t \o x) = Len(t) + Len(x)
      /\ \A i \in 1..Len(t) : (t \o x)[i] = t[i]
      /\ \A i \in 1..Len(x) : (t \o x)[Len(t) + i] = x[i]
  BY GoesOn
<1>2. \A w \in Texts : DOMAIN w = 1..Len(w)
  BY LenProperties DEF Texts
<1>3. \A w \in Texts : IsFiniteSet(NLs(w)) /\ Cardinality(NLs(w)) \in Nat
  <2>1. ASSUME NEW w \in Texts PROVE IsFiniteSet(NLs(w)) /\ Cardinality(NLs(w)) \in Nat
    <3>1. PICK f : Ends(f, w)
      BY EndsExist
    <3>. QED
      BY <3>1, EnumerationCounts DEF Ends
  <2>. QED
    BY <2>1
<1>4. PICK S : S = {Len(t) + i : i \in NLs(x)}
  OBVIOUS
<1>5. NLs(x) \subseteq 1..Len(x) /\ NLs(t) \subseteq 1..Len(t)
  BY <1>2 DEF NLs
<1>6. NLs(t \o x) = NLs(t) \cup S
  <2>1. DOMAIN (t \o x) = 1..Len(t) + Len(x) /\ DOMAIN t = 1..Len(t) /\ DOMAIN x = 1..Len(x)
    BY <1>1, <1>2
  <2>2. ASSUME NEW i \in NLs(t \o x) PROVE i \in NLs(t) \cup S
    <3>1. i \in 1..Len(t) + Len(x) /\ (t \o x)[i] = NL
      BY <2>1, <2>2 DEF NLs
    <3>2. CASE i \in 1..Len(t)
      BY <1>1, <2>1, <3>1, <3>2 DEF NLs
    <3>3. CASE i \notin 1..Len(t)
      <4>1. PICK j : j = i - Len(t)
        OBVIOUS
      <4>2. j \in 1..Len(x) /\ i = Len(t) + j
        BY <1>1, <3>1, <3>3, <4>1
      <4>3. x[j] = NL
        BY <1>1, <3>1, <4>2
      <4>. QED
        BY <1>4, <2>1, <4>2, <4>3 DEF NLs
    <3>. QED
      BY <3>2, <3>3
  <2>3. ASSUME NEW i \in NLs(t) PROVE i \in NLs(t \o x)
    <3>1. i \in 1..Len(t) /\ t[i] = NL /\ i \in 1..Len(t) + Len(x)
      BY <1>1, <2>1, <2>3 DEF NLs
    <3>. QED
      BY <1>1, <2>1, <3>1 DEF NLs
  <2>4. ASSUME NEW j \in NLs(x) PROVE Len(t) + j \in NLs(t \o x)
    <3>1. j \in 1..Len(x) /\ x[j] = NL /\ Len(t) + j \in 1..Len(t) + Len(x)
      BY <1>1, <2>1, <2>4 DEF NLs
    <3>. QED
      BY <1>1, <2>1, <3>1 DEF NLs
  <2>. QED
    BY <1>4, <2>2, <2>3, <2>4
<1>7. IsFiniteSet(S) /\ Cardinality(S) = Cardinality(NLs(x))
  <2>1. PICK h : h = [i \in NLs(x) |-> Len(t) + i]
    OBVIOUS
  <2>2. \A i \in NLs(x) : h[i] = Len(t) + i /\ h[i] \in S /\ i \in Nat
    BY <1>4, <1>5, <2>1
  <2>3. h \in [NLs(x) -> S]
    BY <2>1, <2>2
  <2>4. ASSUME NEW i \in NLs(x), NEW j \in NLs(x), h[i] = h[j] PROVE i = j
    BY <1>1, <2>2, <2>4
  <2>5. \A y \in S : \E i \in NLs(x) : h[i] = y
    BY <1>4, <2>2
  <2>6. h \in Bijection(NLs(x), S)
    <3>1. h \in Injection(NLs(x), S)
      BY <2>3, <2>4 DEF Injection, IsInjective
    <3>2. h \in Surjection(NLs(x), S)
      BY <2>3, <2>5 DEF Surjection
    <3>. QED
      BY <3>1, <3>2 DEF Bijection
  <2>7. ExistsBijection(NLs(x), S)
    BY <2>6 DEF ExistsBijection
  <2>. QED
    BY <1>3, <2>7, FS_Bijection
<1>8. NLs(t) \cap S = {}
  <2>1. ASSUME NEW y \in NLs(t), y \in S PROVE FALSE
    <3>1. PICK i \in NLs(x) : y = Len(t) + i
      BY <1>4, <2>1
    <3>2. i \in 1..Len(x) /\ y \in 1..Len(t)
      BY <1>5, <3>1
    <3>. QED
      BY <1>1, <3>1, <3>2
  <2>. QED
    BY <2>1
<1>9. Cardinality(NLs(t) \cap S) = 0
  BY <1>8, FS_EmptySet
<1>10. Cardinality(NLs(t) \cup S) = Cardinality(NLs(t)) + Cardinality(S) - Cardinality(NLs(t) \cap S)
  BY <1>3, <1>7, FS_Union
<1>11. Cardinality(NLs(t)) \in Nat /\ Cardinality(NLs(x)) \in Nat
  BY <1>3
<1>. QED
  BY <1>3, <1>6, <1>7, <1>9, <1>10, <1>11

\* A tail of the text, as long as it must be, with the mark that it begins a line.
TailIs(tail, atLine, t) ==
    \E u \in 1..Len(t) + 1 :
        /\ tail = SubSeq(t, u, Len(t))
        /\ atLine <=> (u = 1 \/ t[u - 1] = NL)
        /\ u > 1 => Len(t) - u + 1 >= RollingBytes

LEMMA TailGrows ==
  ASSUME NEW tail, NEW atLine, NEW t \in Texts, TailIs(tail, atLine, t), NEW x \in Texts
  PROVE  TailIs(tail \o x, atLine, t \o x)
<1>1. PICK u \in 1..Len(t) + 1 :
        /\ tail = SubSeq(t, u, Len(t))
        /\ atLine <=> (u = 1 \/ t[u - 1] = NL)
        /\ u > 1 => Len(t) - u + 1 >= RollingBytes
  BY DEF TailIs
<1>2. /\ t \o x \in Texts /\ Len(t) \in Nat /\ Len(x) \in Nat /\ Len(t \o x) = Len(t) + Len(x)
      /\ \A i \in 1..Len(t) : (t \o x)[i] = t[i]
      /\ \A i \in 1..Len(x) : (t \o x)[Len(t) + i] = x[i]
  BY GoesOn
<1>3. PICK w : w = t \o x
  OBVIOUS
<1>4. PICK n \in Nat : n = Len(t)
  BY <1>2
<1>5. PICK m \in Nat : m = Len(x)
  BY <1>2
<1>6. u \in 1..n + m + 1 /\ n \in 0..n /\ n + m \in 0..n + m /\ u <= n + 1 /\ u <= n + m + 1 /\ u \in 1..n + 1
  BY <1>1, <1>4, <1>5
<1>7. /\ tail \in Seq(Chars) /\ Len(tail) = n - u + 1
      /\ \A i \in 1..n - u + 1 : tail[i] = t[u + i - 1]
  BY <1>1, <1>4, <1>6, PartOf DEF Texts
<1>8. w \in Seq(Chars) /\ Len(w) = n + m
  BY <1>2, <1>3, <1>4, <1>5 DEF Texts
<1>9. /\ SubSeq(w, u, n + m) \in Seq(Chars) /\ Len(SubSeq(w, u, n + m)) = n + m - u + 1
      /\ \A i \in 1..n + m - u + 1 : SubSeq(w, u, n + m)[i] = w[u + i - 1]
  BY <1>6, <1>8, PartOf
<1>10. tail \in Texts
  BY <1>7 DEF Texts
<1>11. /\ tail \o x \in Seq(Chars) /\ Len(tail \o x) = n - u + 1 + m
       /\ \A i \in 1..n - u + 1 : (tail \o x)[i] = tail[i]
       /\ \A i \in 1..m : (tail \o x)[n - u + 1 + i] = x[i]
  <2>1. /\ tail \o x \in Texts /\ Len(tail \o x) = Len(tail) + Len(x)
        /\ \A i \in 1..Len(tail) : (tail \o x)[i] = tail[i]
        /\ \A i \in 1..Len(x) : (tail \o x)[Len(tail) + i] = x[i]
    BY <1>10, GoesOn
  <2>2. Len(tail) = n - u + 1 /\ Len(x) = m
    BY <1>5, <1>7
  <2>. QED
    BY <2>1, <2>2 DEF Texts
<1>12. tail \o x = SubSeq(w, u, n + m)
  <2>1. PICK l : l = tail \o x
    OBVIOUS
  <2>2. PICK r : r = SubSeq(w, u, n + m)
    OBVIOUS
  <2>3. n - u + 1 + m = n + m - u + 1
    BY <1>6
  <2>4. ASSUME NEW i \in 1..n + m - u + 1 PROVE l[i] = r[i]
    <3>1. r[i] = w[u + i - 1]
      BY <1>9, <2>2
    <3>2. CASE i \in 1..n - u + 1
      <4>1. u + i - 1 \in 1..n
        BY <1>6, <3>2
      <4>2. w[u + i - 1] = t[u + i - 1]
        BY <1>2, <1>3, <1>4, <4>1
      <4>. QED
        BY <1>7, <1>11, <2>1, <3>1, <3>2, <4>2
    <3>3. CASE i \notin 1..n - u + 1
      <4>1. PICK j : j = i - (n - u + 1)
        OBVIOUS
      <4>2. j \in 1..m /\ n - u + 1 + j = i /\ n + j = u + i - 1
        BY <1>6, <2>4, <3>3, <4>1
      <4>3. w[n + j] = x[j] /\ l[n - u + 1 + j] = x[j]
        BY <1>2, <1>3, <1>4, <1>5, <1>11, <2>1, <4>2
      <4>. QED
        BY <3>1, <4>2, <4>3
    <3>. QED
      BY <3>2, <3>3
  <2>5. l \in Seq(Chars) /\ r \in Seq(Chars) /\ Len(l) = n + m - u + 1 /\ Len(r) = n + m - u + 1
    BY <1>9, <1>11, <2>1, <2>2, <2>3
  <2>6. l = r
    BY <2>4, <2>5, SeqEqual
  <2>. QED
    BY <2>1, <2>2, <2>6
<1>13. atLine <=> (u = 1 \/ w[u - 1] = NL)
  <2>1. CASE u = 1
    BY <1>1, <2>1
  <2>2. CASE u # 1
    <3>1. u - 1 \in 1..n
      BY <1>6, <2>2
    <3>2. w[u - 1] = t[u - 1]
      BY <1>2, <1>3, <1>4, <3>1
    <3>. QED
      BY <1>1, <2>2, <3>2
  <2>. QED
    BY <2>1, <2>2
<1>14. u > 1 => n + m - u + 1 >= RollingBytes
  <2>1. PICK r \in Nat : r = RollingBytes
    BY CaptureAssumption DEF RollingBytes
  <2>2. u > 1 => n - u + 1 >= r
    BY <1>1, <1>4, <2>1
  <2>. QED
    BY <1>6, <2>1, <2>2
<1>15. Len(w) = n + m
  BY <1>8
<1>16. u \in 1..Len(w) + 1 /\ tail \o x = SubSeq(w, u, Len(w)) /\ (u > 1 => Len(w) - u + 1 >= RollingBytes)
  BY <1>6, <1>12, <1>14, <1>15
<1>17. TailIs(tail \o x, atLine, w)
  BY <1>13, <1>16 DEF TailIs
<1>. QED
  BY <1>3, <1>17

LEMMA TailTrims ==
  ASSUME NEW tail, NEW atLine, NEW t \in Texts, TailIs(tail, atLine, t), NEW start, start = Len(tail) - RollingBytes,
         ~(Len(tail) <= 2 * RollingBytes)
  PROVE  TailIs(SubSeq(tail, start + 1, Len(tail)), tail[start] = NL, t)
<1>1. PICK u \in 1..Len(t) + 1 :
        /\ tail = SubSeq(t, u, Len(t))
        /\ atLine <=> (u = 1 \/ t[u - 1] = NL)
        /\ u > 1 => Len(t) - u + 1 >= RollingBytes
  BY DEF TailIs
<1>2. t \in Seq(Chars) /\ Len(t) \in Nat
  BY LenProperties DEF Texts
<1>3. PICK n \in Nat : n = Len(t)
  BY <1>2
<1>4. PICK r \in Nat : r = RollingBytes
  BY CaptureAssumption DEF RollingBytes
<1>5. u \in 1..n + 1 /\ n \in 0..n /\ u <= n + 1
  BY <1>1, <1>3
<1>6. /\ tail \in Seq(Chars) /\ Len(tail) = n - u + 1
      /\ \A i \in 1..n - u + 1 : tail[i] = t[u + i - 1]
  BY <1>1, <1>2, <1>3, <1>5, PartOf
<1>7. start = n - u + 1 - r /\ start \in 1..n - u + 1 /\ start > r
  <2>1. PICK l \in Nat : l = n - u + 1
    BY <1>5
  <2>2. Len(tail) = l
    BY <1>6, <2>1
  <2>3. start = l - r /\ ~(l <= 2 * r)
    BY <1>4, <2>2
  <2>4. start \in 1..l /\ start > r
    BY <2>3
  <2>. QED
    BY <2>1, <2>3, <2>4
<1>8. PICK gap \in 0..n : gap = u - 1
  BY <1>5
<1>9. PICK lo \in Nat \ {0}, hi \in Nat : lo = start + 1 /\ hi = n - u + 1
  BY <1>5, <1>7
<1>10. /\ lo <= hi + 1 /\ gap + hi = n /\ gap + 1 = u /\ gap + lo = u + start /\ gap + hi <= n
       /\ u + start \in 1..n + 1 /\ n - (u + start) + 1 = r /\ u + start # 1 /\ gap \in Nat
  <2>1. PICK s \in Nat, q \in Nat : s = start /\ q = u
    BY <1>5, <1>7
  <2>2. /\ q \in 1..n + 1 /\ s = n - q + 1 - r /\ s \in 1..n - q + 1 /\ gap = q - 1 /\ lo = s + 1 /\ hi = n - q + 1
        /\ gap \in Nat
    BY <1>5, <1>7, <1>8, <1>9, <2>1
  <2>3. /\ lo <= hi + 1 /\ gap + hi = n /\ gap + 1 = q /\ gap + lo = q + s /\ gap + hi <= n
        /\ q + s \in 1..n + 1 /\ n - (q + s) + 1 = r /\ q + s # 1
    BY <2>2
  <2>. QED
    BY <2>1, <2>2, <2>3
<1>11. tail = SubSeq(t, gap + 1, Len(t))
  BY <1>1, <1>10
<1>12. SubSeq(tail, lo, hi) = SubSeq(t, gap + lo, gap + hi)
  <2>1. gap \in 0..Len(t) /\ gap + hi <= Len(t)
    BY <1>3, <1>8, <1>10
  <2>2. SubSeq(SubSeq(t, gap + 1, Len(t)), lo, hi) = SubSeq(t, gap + lo, gap + hi)
    <3>1. \A i \in 0..Len(t), j \in Nat \ {0}, k \in Nat :
            j <= k + 1 /\ i + k <= Len(t) => SubSeq(SubSeq(t, i + 1, Len(t)), j, k) = SubSeq(t, i + j, i + k)
      BY <1>2, PartOfRest
    <3>2. lo \in Nat \ {0} /\ hi \in Nat /\ lo <= hi + 1
      BY <1>9, <1>10
    <3>. QED
      BY <2>1, <3>1, <3>2
  <2>. QED
    BY <1>11, <2>2
<1>13. PICK v : v = gap + lo
  OBVIOUS
<1>14. v = u + start /\ v \in 1..n + 1 /\ v - 1 = u + start - 1 /\ n - v + 1 = r /\ v # 1
  <2>1. v = u + start
    BY <1>10, <1>13
  <2>. QED
    BY <1>10, <2>1
<1>15. tail[start] = t[v - 1]
  BY <1>6, <1>7, <1>14
<1>16. SubSeq(tail, start + 1, Len(tail)) = SubSeq(t, v, Len(t))
  BY <1>3, <1>6, <1>9, <1>10, <1>12, <1>13
<1>17. Len(t) - v + 1 >= RollingBytes
  BY <1>3, <1>4, <1>14
<1>18. (tail[start] = NL) <=> (v = 1 \/ t[v - 1] = NL)
  BY <1>14, <1>15
<1>. QED
  BY <1>3, <1>14, <1>16, <1>17, <1>18 DEF TailIs

\* What is counted is that of the whole text, and the tail is one of its tails.
TailKept(c, t) ==
    /\ t \in Texts
    /\ c.bytes = Len(t) /\ c.completed = Cardinality(NLs(t))
    /\ c.current \in Nat /\ (c.current = 0 <=> t = <<>> \/ t[Len(t)] = NL)
    /\ TailIs(c.tail, c.atLine, t)

\* The text of the last line so far, counted from its last line end.
LEMMA CurrentIs ==
  ASSUME NEW t \in Texts, NEW x \in Texts, x # <<>>, NEW n \in Nat, NEW k,
         k = IF NLs(x) = {} THEN n + Len(x) ELSE Len(x) - Max(NLs(x))
  PROVE  /\ k \in Nat /\ (k = 0 <=> (t \o x)[Len(t \o x)] = NL)
         /\ t \o x # <<>>
<1>1. /\ t \o x \in Texts /\ Len(t) \in Nat /\ Len(x) \in Nat /\ Len(t \o x) = Len(t) + Len(x)
      /\ \A i \in 1..Len(x) : (t \o x)[Len(t) + i] = x[i]
  BY GoesOn
<1>2. Len(x) # 0
  BY EmptySeq DEF Texts
<1>3. Len(x) \in 1..Len(x) /\ (t \o x)[Len(t \o x)] = x[Len(x)]
  BY <1>1, <1>2
<1>4. NLs(x) \subseteq 1..Len(x) /\ NLs(x) \subseteq 0..Len(x)
  <2>1. DOMAIN x = 1..Len(x)
    BY LenProperties DEF Texts
  <2>2. 1..Len(x) \subseteq 0..Len(x)
    BY <1>1
  <2>. QED
    BY <2>1, <2>2 DEF NLs
<1>5. x[Len(x)] = NL <=> Len(x) \in NLs(x)
  BY <1>3, LenProperties DEF NLs, Texts
<1>6. t \o x # <<>>
  <2>1. Len(t \o x) # 0
    BY <1>1, <1>2
  <2>. QED
    BY <2>1
<1>7. CASE NLs(x) = {}
  <2>1. k = n + Len(x)
    BY <1>7
  <2>2. k \in Nat /\ k # 0
    BY <1>1, <1>2, <2>1
  <2>3. x[Len(x)] # NL
    BY <1>5, <1>7
  <2>. QED
    BY <1>3, <1>6, <2>2, <2>3
<1>8. CASE NLs(x) # {}
  <2>1. PICK last : last = Max(NLs(x))
    OBVIOUS
  <2>2. last \in NLs(x) /\ \A i \in NLs(x) : i <= last
    BY <1>1, <1>4, <1>8, <2>1, GreatestFit
  <2>3. last \in 1..Len(x) /\ k = Len(x) - last
    BY <1>4, <1>8, <2>1, <2>2
  <2>4. k \in Nat /\ (k = 0 <=> last = Len(x))
    BY <1>1, <2>3
  <2>5. last = Len(x) <=> Len(x) \in NLs(x)
    BY <1>1, <2>2, <2>3
  <2>. QED
    BY <1>3, <1>5, <1>6, <2>4, <2>5
<1>. QED
  BY <1>7, <1>8

LEMMA TrimKeeps ==
  ASSUME NEW c, IsCapture(c), NEW t, TailKept(c, t)
  PROVE  TailKept(TrimTail(c), t)
<1>1. CASE TrimTail(c) = c
  BY <1>1
<1>2. CASE TrimTail(c) # c
  <2>1. PICK start : start = Len(c.tail) - RollingBytes
    OBVIOUS
  <2>2. PICK tail, atLine : tail = SubSeq(c.tail, start + 1, Len(c.tail)) /\ (atLine <=> c.tail[start] = NL)
    OBVIOUS
  <2>3. ~(Len(c.tail) <= 2 * RollingBytes)
    BY <1>2 DEF TrimTail
  <2>4. PICK mark : mark = (c.tail[start] = NL)
    OBVIOUS
  <2>5. TrimTail(c) = [c EXCEPT !.tail = tail, !.atLine = mark]
    BY <1>2, <2>1, <2>2, <2>4 DEF TrimTail
  <2>6. PICK e : e = [c EXCEPT !.tail = tail, !.atLine = mark]
    OBVIOUS
  <2>7. /\ e.tail = tail /\ e.atLine = mark /\ e.bytes = c.bytes /\ e.completed = c.completed
        /\ e.current = c.current
    BY <2>6 DEF IsCapture, CaptureNames
  <2>8. TailIs(c.tail, c.atLine, t) /\ t \in Texts
    BY DEF TailKept
  <2>9. TailIs(tail, mark, t)
    <3>1. TailIs(SubSeq(c.tail, start + 1, Len(c.tail)), c.tail[start] = NL, t)
      BY <2>1, <2>3, <2>8, TailTrims
    <3>. QED
      BY <2>2, <2>4, <3>1
  <2>. QED
    BY <2>5, <2>6, <2>7, <2>8, <2>9 DEF TailKept
<1>. QED
  BY <1>1, <1>2

LEMMA AppendKeeps ==
  ASSUME NEW c, IsCapture(c), NEW t, TailKept(c, t), NEW x \in Texts, x # <<>>
  PROVE  TailKept(AppendTail(c, x), t \o x)
<1>1. /\ t \in Texts /\ c.bytes = Len(t) /\ c.completed = Cardinality(NLs(t)) /\ c.current \in Nat
      /\ TailIs(c.tail, c.atLine, t)
  BY DEF TailKept
<1>2. PICK k : k = IF NLs(x) = {} THEN c.current + Len(x) ELSE Len(x) - Max(NLs(x))
  OBVIOUS
<1>3. PICK tail, bytes, n : tail = c.tail \o x /\ bytes = c.bytes + Len(x) /\ n = c.completed + Cardinality(NLs(x))
  OBVIOUS
<1>4. PICK e : e = [c EXCEPT !.tail = tail, !.bytes = bytes, !.completed = n, !.current = k]
  OBVIOUS
<1>5. AppendTail(c, x) = TrimTail(e)
  BY <1>2, <1>3, <1>4 DEF AppendTail, NLs
<1>6. /\ IsCapture(e) /\ e.tail = tail /\ e.bytes = bytes /\ e.completed = n /\ e.current = k
      /\ e.atLine = c.atLine
  BY <1>4 DEF IsCapture, CaptureNames
<1>7. k \in Nat /\ (k = 0 <=> (t \o x)[Len(t \o x)] = NL) /\ t \o x # <<>>
  <2>1. \A m \in Nat : \A j :
           j = (IF NLs(x) = {} THEN m + Len(x) ELSE Len(x) - Max(NLs(x)))
               => j \in Nat /\ (j = 0 <=> (t \o x)[Len(t \o x)] = NL) /\ t \o x # <<>>
    BY <1>1, CurrentIs
  <2>. QED
    <3>1. PICK m \in Nat : m = c.current
      BY <1>1
    <3>2. k = (IF NLs(x) = {} THEN m + Len(x) ELSE Len(x) - Max(NLs(x)))
      BY <1>2, <3>1
    <3>. QED
      BY <2>1, <3>2
<1>8. t \o x \in Texts /\ bytes = Len(t \o x)
  BY <1>1, <1>3, GoesOn
<1>9. n = Cardinality(NLs(t \o x))
  BY <1>1, <1>3, EndsGrow
<1>10. TailIs(tail, e.atLine, t \o x)
  <2>1. TailIs(tail, c.atLine, t \o x)
    BY <1>1, <1>3, TailGrows
  <2>. QED
    BY <1>6, <2>1
<1>11. TailKept(e, t \o x)
  BY <1>6, <1>7, <1>8, <1>9, <1>10 DEF TailKept
<1>. QED
  BY <1>5, <1>6, <1>11, TrimKeeps

\* The file has nothing to do with it.
WithFile(h, p, o, f, l) == [h EXCEPT !.prefix = p, !.onFile = o, !.file = f, !.failed = l]

LEMMA FileIsAside ==
  ASSUME NEW c, IsCapture(c), NEW t, TailKept(c, t), NEW text, NEW written \in BOOLEAN
  PROVE  TailKept(AppendFullOutput(c, text, written), t)
<1>1. ASSUME NEW h, IsCapture(h), TailKept(h, t), NEW p, NEW o, NEW f, NEW l
      PROVE  TailKept(WithFile(h, p, o, f, l), t)
  <2>1. PICK e : e = WithFile(h, p, o, f, l)
    OBVIOUS
  <2>2. /\ e.tail = h.tail /\ e.atLine = h.atLine /\ e.bytes = h.bytes /\ e.completed = h.completed
        /\ e.current = h.current
    BY <1>1, <2>1 DEF IsCapture, CaptureNames, WithFile
  <2>3. TailKept(e, t)
    BY <1>1, <2>2 DEF TailKept
  <2>. QED
    BY <2>1, <2>3
<1>2. PICK p, o, f, l : AppendFullOutput(c, text, written) = WithFile(c, p, o, f, l)
  <2>1. ASSUME NEW h, IsCapture(h)
        PROVE  /\ h = WithFile(h, h.prefix, h.onFile, h.file, h.failed)
               /\ GiveUpFile(h) = WithFile(h, <<>>, FALSE, h.file, TRUE)
    BY <2>1 DEF GiveUpFile, IsCapture, CaptureNames, WithFile
  <2>2. CASE c.failed
    <3>1. AppendFullOutput(c, text, written) = c
      BY <2>2 DEF AppendFullOutput
    <3>2. c = WithFile(c, c.prefix, c.onFile, c.file, c.failed)
      BY <2>1
    <3>. QED
      BY <3>1, <3>2
  <2>3. CASE ~c.failed /\ c.onFile /\ ~written
    <3>1. AppendFullOutput(c, text, written) = GiveUpFile(c)
      BY <2>3 DEF AppendFullOutput
    <3>2. GiveUpFile(c) = WithFile(c, <<>>, FALSE, c.file, TRUE)
      BY <2>1
    <3>. QED
      BY <3>1, <3>2
  <2>4. CASE ~c.failed /\ c.onFile /\ written
    <3>1. AppendFullOutput(c, text, written) = [c EXCEPT !.file = c.file \o text]
      BY <2>4 DEF AppendFullOutput
    <3>2. PICK f : f = c.file \o text
      OBVIOUS
    <3>3. [c EXCEPT !.file = f] = WithFile(c, c.prefix, c.onFile, f, c.failed)
      BY DEF IsCapture, CaptureNames, WithFile
    <3>. QED
      BY <3>1, <3>2, <3>3
  <2>5. CASE ~c.failed /\ ~c.onFile
    <3>1. PICK held : held = [c EXCEPT !.prefix = c.prefix \o text]
      OBVIOUS
    <3>2. IsCapture(held) /\ held.onFile = c.onFile /\ held.failed = c.failed /\ held.file = c.file
      BY <3>1 DEF IsCapture, CaptureNames
    <3>3. AppendFullOutput(c, text, written) = (IF Overflows(held) THEN EnsureFile(held, written) ELSE held)
      BY <2>5, <3>1 DEF AppendFullOutput
    <3>4. held = WithFile(c, held.prefix, c.onFile, c.file, c.failed)
      BY <3>1, <3>2 DEF IsCapture, CaptureNames, WithFile
    <3>5. GiveUpFile(held) = WithFile(c, <<>>, FALSE, c.file, TRUE)
      BY <3>1, <3>2 DEF IsCapture, CaptureNames, GiveUpFile, WithFile
    <3>6. [held EXCEPT !.onFile = TRUE, !.file = held.prefix, !.prefix = <<>>]
             = WithFile(c, <<>>, TRUE, held.prefix, c.failed)
      BY <3>1, <3>2 DEF IsCapture, CaptureNames, WithFile
    <3>7. EnsureFile(held, written) \in {GiveUpFile(held), [held EXCEPT !.onFile = TRUE, !.file = held.prefix, !.prefix = <<>>]}
      BY <2>5, <3>2 DEF EnsureFile
    <3>8. AppendFullOutput(c, text, written) \in
             {held, GiveUpFile(held), [held EXCEPT !.onFile = TRUE, !.file = held.prefix, !.prefix = <<>>]}
      BY <3>3, <3>7
    <3>9. AppendFullOutput(c, text, written) \in
             {WithFile(c, held.prefix, c.onFile, c.file, c.failed), WithFile(c, <<>>, FALSE, c.file, TRUE),
              WithFile(c, <<>>, TRUE, held.prefix, c.failed)}
      BY <3>4, <3>5, <3>6, <3>8
    <3>. QED
      BY <3>9
  <2>. QED
    BY <2>2, <2>3, <2>4, <2>5
<1>. QED
  BY <1>1, <1>2

-------------------------------------------------------------------------------
(* What is shown of it                                                          *)

\* The line a character is of.
LEMMA LineAt ==
  ASSUME NEW t, NEW f, Ends(f, t), NEW x \in 1..Len(t)
  PROVE  \E k \in 1..Len(f) + 1 : Begin(f, k) <= x /\ (k \in 1..Len(f) => f[k] >= x)
<1>1. /\ Len(t) \in Nat /\ Len(f) \in Nat
      /\ \A k \in 1..Len(f) : f[k] \in 1..Len(t) /\ f[k] \in Nat
  BY LinePlaces
<1>2. PICK S : S = {k \in 1..Len(f) + 1 : k \in 1..Len(f) => f[k] >= x}
  OBVIOUS
<1>3. Len(f) + 1 \in S
  BY <1>1, <1>2
<1>4. S \subseteq Nat
  BY <1>1, <1>2
<1>5. PICK k \in S : \A y \in S : k <= y
  BY <1>3, <1>4, LeastExists
<1>6. k \in 1..Len(f) + 1 /\ (k \in 1..Len(f) => f[k] >= x)
  BY <1>2, <1>5
<1>7. Begin(f, k) <= x
  <2>1. CASE k = 1
    BY <2>1 DEF Begin
  <2>2. CASE k # 1
    <3>1. k - 1 \in 1..Len(f) /\ k - 1 \in 1..Len(f) + 1 /\ ~(k <= k - 1)
      BY <1>1, <1>6, <2>2
    <3>2. k - 1 \notin S
      BY <1>5, <3>1
    <3>3. ~(f[k - 1] >= x)
      BY <1>2, <3>1, <3>2
    <3>4. PICK y \in Nat : y = f[k - 1]
      BY <1>1, <3>1
    <3>5. y + 1 <= x
      BY <1>1, <3>3, <3>4
    <3>. QED
      BY <2>2, <3>4, <3>5 DEF Begin
  <2>. QED
    BY <2>1, <2>2
<1>. QED
  BY <1>6, <1>7

LEMMA SmallRemainder == \A i \in Nat, n \in Nat : i < n => i % n = i
  OBVIOUS

\* strings.Index finds the first line end.
LEMMA FirstEnd ==
  ASSUME NEW w \in Texts, NEW i \in 1..Len(w), w[i] = NL, \A j \in 1..i - 1 : w[j] # NL
  PROVE  Index(w, <<NL>>) = i
<1>1. w \in Seq(Chars) /\ Len(w) \in Nat
  BY LenProperties DEF Texts
<1>2. ASSUME NEW j \in 1..Len(w) PROVE SubSeq(w, j, j) = <<w[j]>>
  <2>1. j \in 1..Len(w) + 1 /\ j \in 0..Len(w) /\ j <= j + 1 /\ j - j + 1 = 1
    BY <1>1
  <2>2. /\ SubSeq(w, j, j) \in Seq(Chars) /\ Len(SubSeq(w, j, j)) = 1
        /\ \A k \in 1..1 : SubSeq(w, j, j)[k] = w[j + k - 1]
    BY <1>1, <2>1, PartOf
  <2>3. SubSeq(w, j, j)[1] = w[j]
    <3>1. 1 \in 1..1 /\ j + 1 - 1 = j
      BY <1>1
    <3>. QED
      BY <2>2, <3>1
  <2>4. w[j] \in Chars
    BY <1>1, ElementOfSeq
  <2>. QED
    <3>1. PICK l, y : l = SubSeq(w, j, j) /\ y = w[j]
      OBVIOUS
    <3>2. l \in Seq(Chars) /\ Len(l) = 1 /\ l[1] = y /\ y \in Chars
      BY <2>2, <2>3, <2>4, <3>1
    <3>3. <<y>> \in Seq(Chars) /\ Len(<<y>>) = 1 /\ <<y>>[1] = y
      BY <3>2
    <3>4. l = <<y>>
      BY <3>2, <3>3, SeqEqual
    <3>. QED
      BY <3>1, <3>4
<1>3. Occurrences(w, <<NL>>) = {j \in 1..Len(w) : w[j] = NL}
  <2>1. Len(<<NL>>) = 1 /\ Len(w) - 1 + 1 = Len(w)
    BY <1>1
  <2>2. Occurrences(w, <<NL>>) = {j \in 1..Len(w) : SubSeq(w, j, j) = <<NL>>}
    <3>1. Occurrences(w, <<NL>>) = {j \in 1..Len(w) : SubSeq(w, j, j + 1 - 1) = <<NL>>}
      BY <2>1 DEF Occurrences
    <3>2. \A j \in 1..Len(w) : j + 1 - 1 = j
      BY <1>1
    <3>. QED
      BY <3>1, <3>2
  <2>3. \A j \in 1..Len(w) : SubSeq(w, j, j) = <<NL>> <=> w[j] = NL
    BY <1>2
  <2>. QED
    BY <2>2, <2>3
<1>4. PICK S : S = Occurrences(w, <<NL>>) \cup {Len(w) + 2}
  OBVIOUS
<1>5. i \in S /\ \A y \in S : i <= y
  <2>1. i \in S
    BY <1>3, <1>4
  <2>2. ASSUME NEW y \in S PROVE i <= y
    <3>1. CASE y = Len(w) + 2
      BY <1>1, <3>1
    <3>2. CASE y # Len(w) + 2
      <4>1. y \in 1..Len(w) /\ w[y] = NL
        BY <1>3, <1>4, <2>2, <3>2
      <4>2. y \notin 1..i - 1
        BY <4>1
      <4>. QED
        BY <1>1, <4>1, <4>2
    <3>. QED
      BY <3>1, <3>2
  <2>. QED
    BY <2>1, <2>2
<1>6. S \subseteq Nat
  BY <1>1, <1>3, <1>4
<1>7. Min(S) = i
  <2>1. Min(S) \in S /\ \A y \in S : Min(S) <= y
    BY <1>5 DEF Min
  <2>2. Min(S) <= i /\ i <= Min(S) /\ Min(S) \in Nat /\ i \in Nat
    BY <1>5, <1>6, <2>1
  <2>. QED
    BY <2>2
<1>8. i \in Nat /\ Len(w) + 2 \in Nat /\ i < Len(w) + 2
  BY <1>1
<1>9. i % (Len(w) + 2) = i
  BY <1>8, SmallRemainder
<1>. QED
  BY <1>4, <1>7, <1>9 DEF Index

\* The lines that are counted are those of the text, and more than is shown is noticed.
LEMMA Totals ==
  ASSUME NEW c, NEW t, TailKept(c, t), NEW f, Ends(f, t)
  PROVE  /\ TotalLines(c) = CountOf(f, t) /\ TotalLines(c) = Len(CountedLines(t))
         /\ Overflows(c) <=> ~Fits(t, ShownLines, ShownBytes)
<1>1. c.completed = Len(f) /\ Len(f) \in Nat
  BY EnumerationCounts DEF TailKept, Ends
<1>2. CASE t = <<>> \/ t[Len(t)] = NL
  <2>1. c.current = 0
    BY <1>2 DEF TailKept
  <2>2. TotalLines(c) = Len(f)
    BY <1>1, <2>1 DEF TotalLines
  <2>3. TotalLines(c) = CountOf(f, t)
    BY <1>2, <2>2 DEF CountOf
  <2>4. TotalLines(c) = Len(CountedLines(t))
    BY <2>3, CountedAre
  <2>. QED
    BY <2>3, <2>4, CaptureAssumption, LinePlaces, CountedAre DEF Overflows, Fits, TailKept
<1>3. CASE ~(t = <<>> \/ t[Len(t)] = NL)
  <2>1. c.current # 0 /\ c.current \in Nat
    BY <1>3 DEF TailKept
  <2>2. c.current > 0
    BY <2>1
  <2>3. TotalLines(c) = Len(f) + 1
    BY <1>1, <2>2 DEF TotalLines
  <2>4. TotalLines(c) = CountOf(f, t)
    BY <1>3, <2>3 DEF CountOf
  <2>5. TotalLines(c) = Len(CountedLines(t))
    BY <2>4, CountedAre
  <2>. QED
    BY <2>4, <2>5, CaptureAssumption, LinePlaces, CountedAre DEF Overflows, Fits, TailKept
<1>. QED
  BY <1>2, <1>3

\* A line has no line end within.
LEMMA NoEndWithin ==
  ASSUME NEW t, NEW f, Ends(f, t), NEW k \in 1..Len(f) + 1, NEW x \in 1..Len(t),
         Begin(f, k) <= x, x <= Finish(f, t, k)
  PROVE  t[x] # NL
<1>1. /\ Len(t) \in Nat /\ Len(f) \in Nat
      /\ \A q \in 1..Len(f) : f[q] \in 1..Len(t) /\ f[q] \in Nat
      /\ \A i \in 1..Len(t) : t[i] = NL => \E q \in 1..Len(f) : f[q] = i
      /\ \A i, j \in 1..Len(f) : i < j => f[i] < f[j]
  BY LinePlaces, SMTT(20)
<1>. SUFFICES ASSUME t[x] = NL PROVE FALSE
  OBVIOUS
<1>2. PICK q \in 1..Len(f) : f[q] = x
  BY <1>1
<1>3. CASE q < k
  <2>1. k # 1 /\ k - 1 \in 1..Len(f) /\ (q = k - 1 \/ q < k - 1)
    BY <1>1, <1>3
  <2>2. PICK y \in Nat : y = f[k - 1]
    BY <1>1, <2>1
  <2>3. y + 1 <= x
    BY <2>1, <2>2 DEF Begin
  <2>4. x = y \/ x < y
    BY <1>1, <1>2, <2>1, <2>2
  <2>. QED
    BY <1>1, <2>2, <2>3, <2>4
<1>4. CASE ~(q < k)
  <2>1. k \in 1..Len(f) /\ (q = k \/ k < q) /\ ~(k > Len(f))
    BY <1>1, <1>2, <1>4
  <2>2. PICK y \in Nat : y = f[k]
    BY <1>1, <2>1
  <2>3. x <= y - 1
    BY <2>1, <2>2 DEF Finish
  <2>4. x = y \/ y < x
    BY <1>1, <1>2, <2>1, <2>2
  <2>. QED
    BY <1>1, <2>2, <2>3, <2>4
<1>. QED
  BY <1>3, <1>4

\* What may be shown is the text, or what follows one of its lines and is still too much.
LEMMA SnapshotIs ==
  ASSUME NEW c, NEW t, TailKept(c, t), NEW f, Ends(f, t), Short(t)
  PROVE  \/ SnapshotText(c) = t
         \/ /\ ~Fits(t, ShownLines, ShownBytes)
            /\ \E p \in 1..Len(f) : /\ f[p] < Len(t) /\ Len(t) - Begin(f, p) >= RollingBytes
                                    /\ SnapshotText(c) = RestOf(f, t, p)
<1>1. PICK u \in 1..Len(t) + 1 :
        /\ c.tail = SubSeq(t, u, Len(t))
        /\ c.atLine <=> (u = 1 \/ t[u - 1] = NL)
        /\ u > 1 => Len(t) - u + 1 >= RollingBytes
  BY DEF TailKept, TailIs
<1>2. /\ t \in Seq(Chars) /\ Len(t) \in Nat /\ Len(f) \in Nat
      /\ \A k \in 1..Len(f) : f[k] \in 1..Len(t) /\ t[f[k]] = NL /\ f[k] \in Nat
      /\ \A i \in 1..Len(t) : t[i] = NL => \E k \in 1..Len(f) : f[k] = i
      /\ \A k \in 1..Len(f) + 1 : Begin(f, k) \in 1..Len(t) + 1 /\ Finish(f, t, k) \in 0..Len(t)
      /\ \A k \in 1..Len(f) + 1 : Begin(f, k) <= Finish(f, t, k) + 1
      /\ \A k \in 1..Len(f) : Finish(f, t, k) = f[k] - 1
  BY LinePlaces
<1>3. PICK n \in Nat : n = Len(t)
  BY <1>2
<1>4. PICK s \in Nat \ {0} : s = ShownBytes
  BY CaptureAssumption
<1>5. RollingBytes = 2 * s
  BY <1>4 DEF RollingBytes
<1>6. CASE u = 1
  <2>1. SnapshotText(c) = c.tail
    BY <1>1, <1>6 DEF SnapshotText
  <2>. QED
    BY <1>1, <1>2, <1>6, <2>1, SubSeqFull
<1>7. CASE u # 1
  <2>1. PICK v \in 1..n : v = u - 1
    BY <1>1, <1>3, <1>7
  <2>2. n - v >= 2 * s /\ u = v + 1 /\ v < n
    BY <1>1, <1>3, <1>4, <1>5, <1>7, <2>1
  <2>3. ~Fits(t, ShownLines, ShownBytes)
    <3>1. ~(Len(t) <= ShownBytes)
      BY <1>3, <1>4, <2>1, <2>2
    <3>. QED
      BY <3>1 DEF Fits
  <2>4. c.tail = SubSeq(t, v + 1, n) /\ (c.atLine <=> t[v] = NL)
    BY <1>1, <1>3, <1>7, <2>1, <2>2
  <2>5. CASE t[v] = NL
    <3>1. PICK p \in 1..Len(f) : f[p] = v
      BY <1>2, <1>3, <2>1, <2>5
    <3>2. SnapshotText(c) = RestOf(f, t, p)
      BY <1>3, <2>4, <2>5, <3>1 DEF SnapshotText, RestOf
    <3>3. PICK bg \in Nat : bg = Begin(f, p)
      BY <1>2
    <3>4. bg <= v
      <4>1. p \in 1..Len(f) + 1
        BY <1>2
      <4>2. Begin(f, p) <= Finish(f, t, p) + 1 /\ Finish(f, t, p) = f[p] - 1
        BY <1>2, <4>1
      <4>. QED
        BY <2>1, <3>1, <3>3, <4>2
    <3>5. n - bg >= 2 * s
      BY <1>4, <2>1, <2>2, <3>3, <3>4
    <3>. QED
      BY <1>3, <1>5, <2>2, <2>3, <3>1, <3>2, <3>3, <3>5
  <2>6. CASE t[v] # NL
    <3>1. PICK k \in 1..Len(f) + 1 : Begin(f, k) <= v /\ (k \in 1..Len(f) => f[k] >= v)
      BY <1>3, <2>1, LineAt
    <3>2. PICK bg \in Nat : bg = Begin(f, k)
      BY <1>2
    <3>3. PICK e \in Int : e = Finish(f, t, k)
      BY <1>2
    <3>4. e - bg + 1 <= s
      <4>1. Lines(t)[k] \in Texts /\ Len(Lines(t)[k]) = Finish(f, t, k) - Begin(f, k) + 1 /\ k \in DOMAIN Lines(t)
        BY LinesAre
      <4>2. Len(Lines(t)[k]) <= ShownBytes
        BY <4>1 DEF Short
      <4>. QED
        BY <1>4, <3>2, <3>3, <4>1, <4>2
    <3>5. k \in 1..Len(f)
      <4>1. ASSUME k \notin 1..Len(f) PROVE FALSE
        <5>1. k > Len(f)
          BY <1>2, <4>1
        <5>2. e = n
          BY <1>3, <3>3, <5>1 DEF Finish
        <5>. QED
          BY <1>4, <2>1, <2>2, <3>1, <3>2, <3>4, <5>2
      <4>. QED
        BY <4>1
    <3>6. PICK y \in 1..n : y = f[k]
      BY <1>2, <1>3, <3>5
    <3>7. e = y - 1 /\ v < y /\ t[y] = NL
      <4>1. e = y - 1 /\ t[y] = NL
        BY <1>2, <3>3, <3>5, <3>6
      <4>2. y >= v /\ y # v
        BY <2>6, <3>1, <3>5, <3>6, <4>1
      <4>3. y \in Nat /\ v \in Nat
        BY <2>1, <3>6
      <4>. QED
        BY <4>1, <4>2, <4>3
    <3>8. y < n /\ n - bg >= 2 * s
      <4>1. bg <= v
        BY <3>1, <3>2
      <4>2. n \in Nat /\ s \in Nat \ {0} /\ v \in Nat /\ bg \in Nat /\ y \in Nat /\ y - bg <= s /\ n - v >= 2 * s
        <5>1. e = y - 1 /\ e - bg + 1 <= s /\ y \in 1..n
          BY <3>4, <3>6, <3>7
        <5>2. y - bg <= s
          BY <5>1
        <5>. QED
          BY <2>1, <2>2, <5>1, <5>2
      <4>. QED
        BY <4>1, <4>2
    <3>9. PICK i \in Nat : i = y - v
      BY <2>1, <3>6, <3>7
    <3>10. /\ c.tail \in Seq(Chars) /\ Len(c.tail) = n - v
           /\ \A j \in 1..n - v : c.tail[j] = t[v + j]
      <4>1. v + 1 \in 1..Len(t) + 1 /\ n \in 0..Len(t) /\ v + 1 <= n + 1 /\ n - (v + 1) + 1 = n - v
        BY <1>3, <2>1
      <4>2. /\ SubSeq(t, v + 1, n) \in Seq(Chars) /\ Len(SubSeq(t, v + 1, n)) = n - (v + 1) + 1
            /\ \A j \in 1..n - (v + 1) + 1 : SubSeq(t, v + 1, n)[j] = t[v + 1 + j - 1]
        BY <1>2, <4>1, PartOf
      <4>3. \A j \in 1..n - v : v + 1 + j - 1 = v + j
        BY <2>1
      <4>. QED
        BY <2>4, <4>1, <4>2, <4>3
    <3>11. i \in 1..n - v /\ c.tail[i] = NL
      <4>1. i \in 1..n - v /\ v + i = y
        <5>1. n \in Nat /\ v \in 1..n /\ y \in 1..n /\ v < y /\ i = y - v
          BY <2>1, <3>6, <3>7, <3>9
        <5>. QED
          BY <5>1
      <4>. QED
        BY <3>7, <3>10, <4>1
    <3>12. ASSUME NEW j \in 1..i - 1 PROVE c.tail[j] # NL
      <4>1. j \in 1..n - v /\ v + j \in 1..n /\ bg <= v + j /\ v + j <= e
        <5>1. bg <= v
          BY <3>1, <3>2
        <5>2. v \in 1..n /\ y \in 1..n /\ i \in Nat /\ bg \in Nat /\ i = y - v /\ e = y - 1 /\ j \in 1..i - 1
          BY <2>1, <3>6, <3>7, <3>9, <3>12
        <5>. QED
          BY <5>1, <5>2
      <4>2. t[v + j] # NL
        BY <1>3, <3>2, <3>3, <4>1, NoEndWithin
      <4>. QED
        BY <3>10, <4>1, <4>2
    <3>13. Index(c.tail, <<NL>>) = i
      BY <3>10, <3>11, <3>12, FirstEnd DEF Texts
    <3>14. SnapshotText(c) = SubSeq(c.tail, i + 1, Len(c.tail))
      <4>1. i # 0
        BY <3>11
      <4>. QED
        BY <2>4, <2>6, <3>13, <4>1 DEF SnapshotText
    <3>15. SubSeq(SubSeq(t, v + 1, Len(t)), i + 1, n - v) = SubSeq(t, v + (i + 1), v + (n - v))
      <4>1. \A gap \in 0..Len(t), lo \in Nat \ {0}, m \in Nat :
              lo <= m + 1 /\ gap + m <= Len(t) => SubSeq(SubSeq(t, gap + 1, Len(t)), lo, m) = SubSeq(t, gap + lo, gap + m)
        BY <1>2, PartOfRest
      <4>2. v \in 0..Len(t) /\ i + 1 \in Nat \ {0} /\ n - v \in Nat /\ i + 1 <= n - v + 1 /\ v + (n - v) <= Len(t)
        <5>1. v \in Nat /\ i \in Nat /\ v <= n /\ i <= n - v
          BY <2>1, <3>11
        <5>2. v \in 0..n /\ i + 1 \in Nat \ {0} /\ n - v \in Nat /\ i + 1 <= n - v + 1 /\ v + (n - v) <= n
          BY <5>1
        <5>. QED
          BY <1>3, <5>2
      <4>. QED
        BY <4>1, <4>2
    <3>16. v + (i + 1) = y + 1 /\ v + (n - v) = n
      <4>1. n \in Nat /\ v \in Nat /\ y \in Nat /\ i = y - v
        BY <2>1, <3>6, <3>9
      <4>. QED
        BY <4>1
    <3>17. SnapshotText(c) = RestOf(f, t, k)
      BY <1>3, <2>4, <3>6, <3>10, <3>14, <3>15, <3>16 DEF RestOf
    <3>. QED
      BY <1>3, <1>5, <2>3, <3>2, <3>5, <3>6, <3>8, <3>17
  <2>. QED
    BY <2>5, <2>6
<1>. QED
  BY <1>6, <1>7

LEMMA CaptureIsTrue ==
  ASSUME TailKept(capture, output), output # <<>>
  PROVE  NumbersTrue /\ TailTrue
<1>1. output \in Texts
  BY DEF TailKept
<1>2. PICK f : Ends(f, output)
  BY <1>1, EndsExist
<1>3. TotalLines(capture) = Len(CountedLines(output)) /\ (Overflows(capture) <=> ~Fits(output, ShownLines, ShownBytes))
  BY <1>2, Totals
<1>4. NumbersTrue
  <2>1. /\ Snapshot(capture).totalLines = TotalLines(capture) /\ Snapshot(capture).totalBytes = capture.bytes
        /\ Snapshot(capture).truncated = Overflows(capture)
    BY DEF Snapshot
  <2>2. capture.bytes = Len(output)
    BY DEF TailKept
  <2>3. Overflows(capture) \in BOOLEAN
    BY DEF Overflows
  <2>. QED
    BY <1>3, <2>1, <2>2, <2>3 DEF NumbersTrue
<1>5. TailTrue
  <2>1. PICK cut : cut = TruncateTail(output, ShownLines, ShownBytes).content
    OBVIOUS
  <2>2. ASSUME Short(output) PROVE Snapshot(capture).content \in {cut, cut \o <<NL>>}
    <3>1. /\ Fits(output, ShownLines, ShownBytes) => cut = output
      BY <1>2, <2>1, <2>2, TailCut
    <3>2. Snapshot(capture).content =
             (IF Overflows(capture) THEN TruncateTail(SnapshotText(capture), ShownLines, ShownBytes).content
              ELSE SnapshotText(capture))
      BY DEF Snapshot
    <3>3. CASE SnapshotText(capture) = output
      BY <1>3, <2>1, <3>1, <3>2, <3>3
    <3>4. CASE SnapshotText(capture) # output
      <4>1. /\ ~Fits(output, ShownLines, ShownBytes)
            /\ \E p \in 1..Len(f) : /\ f[p] < Len(output) /\ Len(output) - Begin(f, p) >= RollingBytes
                                    /\ SnapshotText(capture) = RestOf(f, output, p)
        BY <1>2, <2>2, <3>4, SnapshotIs
      <4>2. PICK p \in 1..Len(f) : /\ f[p] < Len(output) /\ Len(output) - Begin(f, p) >= RollingBytes
                                   /\ SnapshotText(capture) = RestOf(f, output, p)
        BY <4>1
      <4>3. TruncateTail(RestOf(f, output, p), ShownLines, ShownBytes).content \in {cut, cut \o <<NL>>}
        BY <1>2, <2>1, <2>2, <4>1, <4>2, SameTail
      <4>. QED
        BY <1>3, <3>2, <4>1, <4>2, <4>3
    <3>. QED
      BY <3>3, <3>4
  <2>. QED
    BY <2>1, <2>2 DEF TailTrue, Short
<1>. QED
  BY <1>4, <1>5

LEMMA ChunkIsText ==
  ASSUME NEW text \in Chunks
  PROVE  text \in Texts /\ text # <<>>
<1>1. PICK n \in 1..3 : text \in [1..n -> {NL, PLAIN}]
  BY DEF Chunks
<1>2. DOMAIN text = 1..n /\ 1 \in 1..n /\ DOMAIN <<>> = {}
  BY <1>1
<1>3. text \in Seq({NL, PLAIN})
  BY <1>1, SeqDef
<1>4. Len(text) = n /\ \A i \in 1..n : text[i] \in Chars
  BY <1>1, <1>3, LenProperties DEF Chars
<1>5. text \in [1..n -> Chars]
  BY <1>1, <1>4
<1>6. text \in Texts
  BY <1>5, SeqDef DEF Texts
<1>. QED
  BY <1>2, <1>6

LEMMA TailBegins == CaptureInit => TailKept(capture, output)
<1>. SUFFICES ASSUME CaptureInit PROVE TailKept(capture, output)
  OBVIOUS
<1>1. /\ capture.tail = <<>> /\ capture.atLine = TRUE /\ capture.bytes = 0 /\ capture.completed = 0
      /\ capture.current = 0 /\ output = <<>>
  BY DEF CaptureInit, EmptyCapture
<1>2. <<>> \in Seq(Chars) /\ Len(<<>>) = 0 /\ NLs(<<>>) = {} /\ <<>> \in Texts
  BY DEF NLs, Texts
<1>3. Cardinality(NLs(<<>>)) = 0
  BY <1>2, FS_EmptySet
<1>4. SubSeq(<<>>, 1, 0) = <<>>
  BY <1>2, SubSeqEmpty
<1>5. TailIs(<<>>, TRUE, <<>>)
  BY <1>2, <1>4 DEF TailIs
<1>6. TailIs(capture.tail, capture.atLine, output)
  BY <1>1, <1>5
<1>7. capture.bytes = Len(output) /\ capture.completed = Cardinality(NLs(output)) /\ output \in Texts
  BY <1>1, <1>2, <1>3
<1>8. capture.current \in Nat /\ capture.current = 0
  BY <1>1
<1>. QED
  BY <1>1, <1>6, <1>7, <1>8 DEF TailKept

LEMMA TailStays ==
  OutputKept(capture, output) /\ TailKept(capture, output) /\ (CaptureNext \/ UNCHANGED captureVars)
    => TailKept(capture, output)'
<1>1. ASSUME OutputKept(capture, output), TailKept(capture, output), CaptureNext
      PROVE  TailKept(capture', output')
  <2>1. PICK text \in Chunks, written \in BOOLEAN :
           capture' = Append1(capture, text, written) /\ output' = output \o text
    BY <1>1 DEF CaptureNext
  <2>2. text \in Texts /\ text # <<>>
    BY ChunkIsText
  <2>3. PICK c : c = AppendTail(capture, text)
    OBVIOUS
  <2>4. IsCapture(capture)
    BY <1>1 DEF OutputKept
  <2>5. IsCapture(c) /\ TailKept(c, output \o text)
    BY <1>1, <2>2, <2>3, <2>4, TailIsAside, AppendKeeps
  <2>6. capture' = AppendFullOutput(c, text, written)
    BY <2>1, <2>2, <2>3 DEF Append1
  <2>. QED
    BY <2>1, <2>5, <2>6, FileIsAside
<1>2. ASSUME TailKept(capture, output), UNCHANGED captureVars PROVE TailKept(capture', output')
  BY <1>2 DEF captureVars
<1>. QED
  BY <1>1, <1>2

LEMMA CaptureTold == OutputKept(capture, output) /\ TailKept(capture, output) => CaptureTrue
  BY CaptureShows, CaptureIsTrue DEF CaptureTrue

-------------------------------------------------------------------------------
(* The parts side by side                                                       *)

ScreenInv ==
    DetectorInv /\ ViewerInv /\ ShellInv /\ OutputKept(capture, output) /\ TailKept(capture, output)

LEMMA ScreenBegins == ScreenInit => ScreenInv
  BY DetectorBegins, ViewerBegins, ShellBegins, CaptureBegins, TailBegins DEF ScreenInit, ScreenInv

\* A step is one of a single part, the others' variables stay.
LEMMA ScreenKeeps == ScreenInv /\ [ScreenNext]_screenVars => ScreenInv'
<1>. SUFFICES ASSUME ScreenInv, [ScreenNext]_screenVars PROVE ScreenInv'
  OBVIOUS
<1>1. /\ DetectorNext \/ UNCHANGED detectorVars
      /\ ViewerNext \/ UNCHANGED viewerVars
      /\ ShellNext \/ UNCHANGED shellVars
      /\ CaptureNext \/ UNCHANGED captureVars
  BY DEF ScreenNext, screenVars
<1>2. DetectorInv'
  BY <1>1, DetectorKeeps DEF ScreenInv
<1>3. ViewerInv'
  BY <1>1, ViewerKeeps DEF ScreenInv
<1>4. ShellInv'
  BY <1>1, ShellKeeps DEF ScreenInv
<1>5. OutputKept(capture, output)'
  BY <1>1, CaptureKeeps DEF ScreenInv
<1>6. TailKept(capture, output)'
  BY <1>1, TailStays DEF ScreenInv
<1>. QED
  BY <1>2, <1>3, <1>4, <1>5, <1>6 DEF ScreenInv

\* The invariants of the detector, of the viewer, of the shell and of what it captured
\* hold of each part (agent_loop.go, bash.go).
THEOREM ScreenInvariant == ScreenSpec => []ScreenInv
  BY ScreenBegins, ScreenKeeps, PTL DEF ScreenSpec

\* cmd/tui/agent_loop.go, stuckDetector: for every window, threshold and history of
\* calls or outcomes, a run is stopped when it is stuck and only then.
THEOREM DetectorKept == ScreenSpec => []StopsWhenStuck
<1>1. ScreenInv => StopsWhenStuck
  BY DetectorShows DEF ScreenInv
<1>. QED
  BY <1>1, ScreenInvariant, PTL

\* tui.go and process_unix.go: the state of a command and of the viewer has its types,
\* no channel exceeds its buffer, and somebody listens to the run that is shown.
THEOREM ScreenTypes == ScreenSpec => []ScreenTypeOK
<1>1. ScreenInv => ScreenTypeOK
  BY ViewerShows, ShellShows DEF ScreenInv, ScreenTypeOK
<1>. QED
  BY <1>1, ScreenInvariant, PTL

\* tool/builtin/bash.go and execenv/local/env.go: with any number of timers and
\* background processes, no update follows the result, and unless a read or a callback
\* failed the result has everything that was written.
THEOREM ResultKept == ScreenSpec => []ResultIsFinal
<1>1. ScreenInv => ResultIsFinal
  BY ShellShows DEF ScreenInv
<1>. QED
  BY <1>1, ScreenInvariant, PTL

\* bash.go:301-520: the file of a long output has all of it, whatever is written and
\* whenever the output outgrows what is shown.
THEOREM FileKept == ScreenSpec => []FileComplete
<1>1. ScreenInv => FileComplete
  BY CaptureShows DEF ScreenInv
<1>. QED
  BY <1>1, ScreenInvariant, PTL

\* bash.go:301-520: whatever a command writes and however the limits are chosen, the
\* numbers of the notice are those of the whole output, the end that is shown is the one
\* that cutting the whole output would have shown (though only a tail of it is kept),
\* the file has all of it, and what is returned is final.
THEOREM ShellStaysTrue == ScreenSpec => []ShellTellsTruth
<1>1. ScreenInv => ShellTellsTruth
  BY CaptureTold, ShellShows DEF ScreenInv, ShellTellsTruth
<1>. QED
  BY <1>1, ScreenInvariant, PTL
===============================================================================
