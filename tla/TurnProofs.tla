------------------------------- MODULE TurnProofs -------------------------------
(***************************************************************************)
(* Theorems about a turn of a model, beside those of the loop: what the    *)
(* extensions' hooks decide is not lost on the way (HookChains), the       *)
(* message is what the service said (AnswerStream), and both hold in the   *)
(* composition (MCModelTurn).                                              *)
(*                                                                         *)
(* The value a chain hands on is a function of the answers in its log:     *)
(* ValueIn names it, NextValue says how one more answer changes it, and    *)
(* EmissionInv keeps the value of the running emission equal to it.  What  *)
(* agent_end tells is a fold over the run's messages; an induction over    *)
(* its prefixes shows that each is told as it was stored.                  *)
(*                                                                         *)
(* A decoder follows a service: InStep says that its message and events    *)
(* are those of the items said so far, Found that its tables lead to the   *)
(* right block, each protocol in its own way.  A lemma for each operation  *)
(* of a decoder shows that it takes what was said (Takes); AnswerInv adds  *)
(* how an answer ends.                                                     *)
(***************************************************************************)
EXTENDS LoopProofs, MCModelTurn




\* A set of the first n numbers has a greatest one.
LEMMA GreatestExists ==
  ASSUME NEW n \in Nat, NEW S, S \subseteq 1..n, S # {}
  PROVE  \E i \in S : \A k \in S : k <= i
<1>. DEFINE D == {d \in Nat : \E i \in S : i + d = n}
<1>1. D \subseteq Nat /\ D # {}
  <2>1. PICK i : i \in S
    OBVIOUS
  <2>2. n - i \in D
    BY <2>1
  <2>. QED
    BY <2>2
<1>2. PICK d \in D : \A c \in D : d <= c
  <2>. HIDE DEF D
  <2>. QED
    BY <1>1, LeastExists
<1>3. PICK i \in S : i + d = n
  BY <1>2
<1>4. ASSUME NEW k \in S PROVE k <= i
  <2>1. n - k \in D
    OBVIOUS
  <2>2. d <= n - k
    BY <1>2, <2>1
  <2>. QED
    BY <1>2, <1>3, <2>2
<1>. QED
  BY <1>4

HookSpec == HookInit /\ [][HookNext]_hookVars
-----------------------------------------------------------------------
(* The value a chain of handlers makes                                          *)

\* WordOn, LastUsed and ValueAfter of a log that is given.
WhoSet(log, f, n) == {i \in 1..n : log[i].used /\ f \in DOMAIN log[i].said}
WordOf(e, log, f, who) ==
    IF Collects(e, f) THEN {log[i].by : i \in who}
    ELSE IF who = {} THEN Original
    ELSE LET last == CHOOSE i \in who : \A k \in who : k <= i IN log[last].said[f]
WordIn(e, log, f, n) == WordOf(e, log, f, WhoSet(log, f, n))
LastIn(log, n) == {i \in 1..n : log[i].used /\ \A k \in i + 1 .. n : ~log[k].used}
OneValue(e, log, value, n, f) ==
    CASE KeepsOne(e) ->
             value[f] = IF \E i \in LastIn(log, n) : f \in DOMAIN log[i].said
                        THEN WordIn(e, log, f, n) ELSE Original
      [] e = "before_provider_payload" ->
             value[f] = IF \E i \in LastIn(log, n) : f \notin DOMAIN log[i].said
                        THEN Nothing ELSE WordIn(e, log, f, n)
      [] e = "input" /\ f = "text" ->
             value[f] = IF \E i \in LastIn(log, n) : f \notin DOMAIN log[i].said
                        THEN Nothing ELSE WordIn(e, log, f, n)
      [] OTHER -> value[f] = WordIn(e, log, f, n)
ValueIn(e, log, value, n) == \A f \in Fields(e) : OneValue(e, log, value, n, f)

LEMMA ValueIs == \A value, n : ValueAfter(value, n) <=> ValueIn(chain, emission.log, value, n)
  BY DEF ValueAfter, ValueIn, OneValue, WordOn, WordIn, WordOf, WhoSet, LastUsed, LastIn

\* What the first n answers come to is decided by them.
LEMMA SameWords ==
  ASSUME NEW log, NEW m, NEW n \in Nat, \A i \in 1..n : m[i] = log[i]
  PROVE  /\ LastIn(m, n) = LastIn(log, n)
         /\ \A f : WhoSet(m, f, n) = WhoSet(log, f, n)
         /\ \A e, f : WordIn(e, m, f, n) = WordIn(e, log, f, n)
<1>1. LastIn(m, n) = LastIn(log, n)
  <2>1. \A i \in 1..n : i + 1 .. n \subseteq 1..n
    OBVIOUS
  <2>. QED
    BY <2>1 DEF LastIn
<1>2. ASSUME NEW f PROVE WhoSet(m, f, n) = WhoSet(log, f, n)
  BY DEF WhoSet
<1>3. ASSUME NEW e, NEW f PROVE WordIn(e, m, f, n) = WordIn(e, log, f, n)
  <2>. DEFINE W == WhoSet(log, f, n)
  <2>1. WhoSet(m, f, n) = W /\ \A i \in W : i \in 1..n
    BY <1>2 DEF WhoSet
  <2>2. {m[i].by : i \in W} = {log[i].by : i \in W}
    BY <2>1
  <2>4. CASE Collects(e, f)
    BY <2>1, <2>2, <2>4 DEF WordIn, WordOf
  <2>5. CASE ~Collects(e, f) /\ W = {}
    BY <2>1, <2>5 DEF WordIn, WordOf
  <2>6. CASE ~Collects(e, f) /\ W # {}
    <3>1. PICK h : h = CHOOSE i \in W : \A k \in W : k <= i
      OBVIOUS
    <3>2. h \in W
      <4>1. W \subseteq 1..n
        BY <2>1
      <4>2. \E i \in W : \A k \in W : k <= i
        <5>. HIDE DEF W
        <5>. QED
          BY <2>6, <4>1, GreatestExists
      <4>. HIDE DEF W
      <4>. QED
        BY <3>1, <4>2
    <3>3. m[h] = log[h]
      BY <2>1, <3>2
    <3>4. WordIn(e, m, f, n) = m[h].said[f] /\ WordIn(e, log, f, n) = log[h].said[f]
      BY <2>1, <2>6, <3>1 DEF WordIn, WordOf
    <3>. QED
      BY <3>3, <3>4
  <2>. QED
    BY <2>4, <2>5, <2>6
<1>. QED
  BY <1>1, <1>2, <1>3

\* An answer that is not used changes nothing of it.
LEMMA UnusedWord ==
  ASSUME NEW log, NEW m, NEW n \in Nat, \A i \in 1..n : m[i] = log[i], ~m[n + 1].used
  PROVE  /\ \A i \in 1..n : m[i] = log[i]
         /\ LastIn(m, n + 1) = LastIn(log, n)
         /\ \A e, f : WordIn(e, m, f, n + 1) = WordIn(e, log, f, n)
<1>1. LastIn(m, n + 1) = LastIn(m, n)
  <2>1. ASSUME NEW i \in 1..n
        PROVE  (\A k \in i + 1 .. n + 1 : ~m[k].used) <=> \A k \in i + 1 .. n : ~m[k].used
    <3>1. \A k : k \in i + 1 .. n + 1 <=> k \in i + 1 .. n \/ k = n + 1
      OBVIOUS
    <3>. QED
      BY <3>1
  <2>2. \A i : i \in 1..n + 1 <=> i \in 1..n \/ i = n + 1
    OBVIOUS
  <2>. QED
    BY <2>1, <2>2 DEF LastIn
<1>2. \A f : WhoSet(m, f, n + 1) = WhoSet(m, f, n)
  <2>1. \A i : i \in 1..n + 1 <=> i \in 1..n \/ i = n + 1
    OBVIOUS
  <2>. QED
    BY <2>1 DEF WhoSet
<1>3. \A e, f : WordIn(e, m, f, n + 1) = WordIn(e, m, f, n)
  BY <1>2 DEF WordIn
<1>4. LastIn(m, n) = LastIn(log, n) /\ \A e, f : WordIn(e, m, f, n) = WordIn(e, log, f, n)
  BY SameWords, Zenon
<1>. QED
  BY <1>1, <1>3, <1>4

\* One that is used is the last.
UsedAfter(log, m, n) ==
    /\ LastIn(m, n + 1) = {n + 1}
    /\ \A e, f : f \notin DOMAIN m[n + 1].said => WordIn(e, m, f, n + 1) = WordIn(e, log, f, n)
    /\ \A e, f : f \in DOMAIN m[n + 1].said =>
           WordIn(e, m, f, n + 1) = IF Collects(e, f) THEN WordIn(e, log, f, n) \cup {m[n + 1].by}
                                    ELSE m[n + 1].said[f]

LEMMA UsedWord ==
  ASSUME NEW log, NEW m, NEW n \in Nat, \A i \in 1..n : m[i] = log[i], m[n + 1].used
  PROVE  UsedAfter(log, m, n)
<1>0. \A i : i \in 1..n + 1 <=> i \in 1..n \/ i = n + 1
  OBVIOUS
<1>1. LastIn(m, n + 1) = {n + 1}
  <2>1. \A i \in 1..n : n + 1 \in i + 1 .. n + 1
    OBVIOUS
  <2>2. n + 1 \in 1..n + 1 /\ \A k \in (n + 1) + 1 .. n + 1 : FALSE
    OBVIOUS
  <2>. QED
    BY <1>0, <2>1, <2>2 DEF LastIn
<1>2. ASSUME NEW e, NEW f, f \notin DOMAIN m[n + 1].said
      PROVE  WordIn(e, m, f, n + 1) = WordIn(e, log, f, n)
  <2>1. WhoSet(m, f, n + 1) = WhoSet(m, f, n)
    BY <1>0, <1>2 DEF WhoSet
  <2>2. WordIn(e, m, f, n + 1) = WordIn(e, m, f, n)
    BY <2>1 DEF WordIn
  <2>3. \A d, g : WordIn(d, m, g, n) = WordIn(d, log, g, n)
    BY SameWords, Zenon
  <2>. QED
    BY <2>2, <2>3
<1>3. ASSUME NEW e, NEW f, f \in DOMAIN m[n + 1].said
      PROVE  WordIn(e, m, f, n + 1) = IF Collects(e, f) THEN WordIn(e, log, f, n) \cup {m[n + 1].by}
                                      ELSE m[n + 1].said[f]
  <2>1. WhoSet(m, f, n + 1) = WhoSet(m, f, n) \cup {n + 1}
    BY <1>0, <1>3 DEF WhoSet
  <2>2. WordIn(e, m, f, n) = WordIn(e, log, f, n)
    <3>1. \A d, g : WordIn(d, m, g, n) = WordIn(d, log, g, n)
      BY SameWords, Zenon
    <3>. QED
      BY <3>1
  <2>3. CASE Collects(e, f)
    <3>1. WordIn(e, m, f, n + 1) = WordIn(e, m, f, n) \cup {m[n + 1].by}
      BY <2>1, <2>3 DEF WordIn, WordOf
    <3>. QED
      BY <2>2, <2>3, <3>1
  <2>4. CASE ~Collects(e, f)
    <3>. DEFINE W == WhoSet(m, f, n + 1)
    <3>1. W \subseteq 1..n + 1 /\ n + 1 \in W
      BY <2>1 DEF WhoSet
    <3>2. \A k \in W : k <= n + 1
      BY <3>1
    <3>3. (CHOOSE i \in W : \A k \in W : k <= i) = n + 1
      <4>1. \A i \in W : (\A k \in W : k <= i) => i = n + 1
        BY <3>1
      <4>. HIDE DEF W
      <4>. QED
        BY <3>1, <3>2, <4>1
    <3>4. WordIn(e, m, f, n + 1) = m[n + 1].said[f]
      BY <2>4, <3>1, <3>3 DEF WordIn, WordOf
    <3>. QED
      BY <2>4, <3>4
  <2>. QED
    BY <2>3, <2>4
<1>. QED
  BY <1>1, <1>2, <1>3 DEF UsedAfter

\* A patch has what was meant to be set, and what its event clears.
Fits(e, patch, gist, by) ==
    \A f \in Fields(e) :
        IF e = "before_provider_payload" \/ (e = "input" /\ f = "text")
        THEN f \in DOMAIN patch /\ patch[f] = IF f \in DOMAIN gist THEN gist[f] ELSE Nothing
        ELSE /\ f \in DOMAIN patch <=> f \in DOMAIN gist
             /\ f \in DOMAIN gist => patch[f] = gist[f] /\ (Collects(e, f) => gist[f] = by)

LEMMA NextValue ==
  ASSUME NEW e, NEW log, NEW m, NEW n \in Nat, \A i \in 1..n : m[i] = log[i],
         NEW value, ValueIn(e, log, value, n), NEW patch,
         m[n + 1].used => Fits(e, patch, m[n + 1].said, m[n + 1].by)
  PROVE  ValueIn(e, m, IF m[n + 1].used THEN Compose(e, value, patch) ELSE value, n + 1)
<1>1. CASE ~m[n + 1].used
  <2>1. /\ LastIn(m, n + 1) = LastIn(log, n)
        /\ \A f : WordIn(e, m, f, n + 1) = WordIn(e, log, f, n)
    BY <1>1, UnusedWord
  <2>2. LastIn(log, n) \subseteq 1..n
    BY DEF LastIn
  <2>. DEFINE Some(l, f, k) == \E i \in LastIn(l, k) : f \in DOMAIN l[i].said
              Other(l, f, k) == \E i \in LastIn(l, k) : f \notin DOMAIN l[i].said
  <2>3. \A f : Some(m, f, n + 1) <=> Some(log, f, n)
    BY <2>1, <2>2
  <2>4. \A f : Other(m, f, n + 1) <=> Other(log, f, n)
    BY <2>1, <2>2
  <2>. HIDE DEF Some, Other
  <2>5. ASSUME NEW f \in Fields(e) PROVE OneValue(e, m, value, n + 1, f)
    <3>1. OneValue(e, log, value, n, f)
      BY DEF ValueIn
    <3>2. /\ WordIn(e, m, f, n + 1) = WordIn(e, log, f, n)
          /\ Some(m, f, n + 1) <=> Some(log, f, n)
          /\ Other(m, f, n + 1) <=> Other(log, f, n)
      BY <2>1, <2>3, <2>4
    <3>. QED
      BY <3>1, <3>2 DEF OneValue, Some, Other
  <2>. QED
    BY <1>1, <2>5 DEF ValueIn
<1>2. CASE m[n + 1].used
  <2>. DEFINE new == Compose(e, value, patch)
              x == m[n + 1]
  <2>1. /\ LastIn(m, n + 1) = {n + 1}
        /\ \A f : f \notin DOMAIN x.said => WordIn(e, m, f, n + 1) = WordIn(e, log, f, n)
        /\ \A f : f \in DOMAIN x.said =>
               WordIn(e, m, f, n + 1) = IF Collects(e, f) THEN WordIn(e, log, f, n) \cup {x.by}
                                        ELSE x.said[f]
    <3>1. UsedAfter(log, m, n)
      BY <1>2, UsedWord
    <3>. QED
      BY <3>1 DEF UsedAfter
  <2>2. /\ \A f : (\E i \in LastIn(m, n + 1) : f \in DOMAIN m[i].said) <=> f \in DOMAIN x.said
        /\ \A f : (\E i \in LastIn(m, n + 1) : f \notin DOMAIN m[i].said) <=> f \notin DOMAIN x.said
    BY <2>1
  <2>3. Fits(e, patch, x.said, x.by)
    BY <1>2
  <2>. HIDE DEF x
  <2>4. ASSUME NEW f \in Fields(e), KeepsOne(e)
        PROVE  new[f] = IF f \in DOMAIN x.said THEN WordIn(e, m, f, n + 1) ELSE Original
    BY <2>1, <2>3, <2>4 DEF Fits, Compose, KeepsOne, Collects, Blank
  <2>5. ASSUME NEW f \in Fields(e), ~KeepsOne(e), e = "before_provider_payload" \/ (e = "input" /\ f = "text")
        PROVE  new[f] = IF f \notin DOMAIN x.said THEN Nothing ELSE WordIn(e, m, f, n + 1)
    BY <2>1, <2>3, <2>5 DEF Fits, Compose, KeepsOne, Collects
  <2>6. ASSUME NEW f \in Fields(e), ~KeepsOne(e), ~(e = "before_provider_payload" \/ (e = "input" /\ f = "text"))
        PROVE  new[f] = WordIn(e, m, f, n + 1)
    <3>1. value[f] = WordIn(e, log, f, n)
      <4>1. OneValue(e, log, value, n, f)
        BY <2>6 DEF ValueIn
      <4>. QED
        BY <2>6, <4>1 DEF OneValue
    <3>2. new[f] = IF f \notin DOMAIN patch THEN value[f]
                   ELSE IF Collects(e, f) THEN value[f] \cup {patch[f]} ELSE patch[f]
      BY <2>6 DEF Compose
    <3>3. /\ f \in DOMAIN patch <=> f \in DOMAIN x.said
          /\ f \in DOMAIN x.said => patch[f] = x.said[f] /\ (Collects(e, f) => x.said[f] = x.by)
      BY <2>3, <2>6 DEF Fits
    <3>. HIDE DEF new
    <3>. QED
      BY <2>1, <3>1, <3>2, <3>3
  <2>. HIDE DEF new
  <2>7. ValueIn(e, m, new, n + 1)
    <3>1. ASSUME NEW f \in Fields(e) PROVE OneValue(e, m, new, n + 1, f)
      <4>1. CASE KeepsOne(e)
        BY <2>2, <2>4, <4>1 DEF OneValue, KeepsOne
      <4>2. CASE ~KeepsOne(e) /\ (e = "before_provider_payload" \/ (e = "input" /\ f = "text"))
        BY <2>2, <2>5, <4>2 DEF OneValue
      <4>3. CASE ~KeepsOne(e) /\ ~(e = "before_provider_payload" \/ (e = "input" /\ f = "text"))
        BY <2>6, <4>3 DEF OneValue
      <4>. QED
        BY <4>1, <4>2, <4>3
    <3>. QED
      BY <3>1 DEF ValueIn
  <2>. QED
    BY <1>2, <2>7 DEF new
<1>. QED
  BY <1>1, <1>2

LEMMA SameValue ==
  ASSUME NEW e, NEW log, NEW m, NEW n \in Nat, \A i \in 1..n : m[i] = log[i],
         NEW value, ValueIn(e, log, value, n)
  PROVE  ValueIn(e, m, value, n)
<1>1. LastIn(m, n) = LastIn(log, n) /\ \A d, f : WordIn(d, m, f, n) = WordIn(d, log, f, n)
  BY SameWords, Zenon
<1>2. LastIn(log, n) \subseteq 1..n
  BY DEF LastIn
<1>3. ASSUME NEW f \in Fields(e) PROVE OneValue(e, m, value, n, f)
  <2>1. OneValue(e, log, value, n, f)
    BY DEF ValueIn
  <2>2. /\ WordIn(e, m, f, n) = WordIn(e, log, f, n)
        /\ (\E i \in LastIn(m, n) : f \in DOMAIN m[i].said)
              <=> \E i \in LastIn(log, n) : f \in DOMAIN log[i].said
        /\ (\E i \in LastIn(m, n) : f \notin DOMAIN m[i].said)
              <=> \E i \in LastIn(log, n) : f \notin DOMAIN log[i].said
    BY <1>1, <1>2
  <2>. QED
    BY <2>1, <2>2 DEF OneValue
<1>. QED
  BY <1>3 DEF ValueIn

\* Nothing said, nothing changed.
LEMMA BlankValue == \A e, log : ValueIn(e, log, Blank(e), 0)
<1>1. ASSUME NEW e, NEW log, NEW f \in Fields(e)
      PROVE  /\ LastIn(log, 0) = {}
             /\ WordIn(e, log, f, 0) = Blank(e)[f] /\ (KeepsOne(e) => Blank(e)[f] = Original)
  <2>1. LastIn(log, 0) = {} /\ WhoSet(log, f, 0) = {}
    BY DEF LastIn, WhoSet
  <2>. QED
    BY <2>1 DEF WordIn, WordOf, Blank, KeepsOne, Collects
<1>2. ASSUME NEW e, NEW log, NEW f \in Fields(e) PROVE OneValue(e, log, Blank(e), 0, f)
  BY <1>1 DEF OneValue
<1>. QED
  BY <1>2 DEF ValueIn

-----------------------------------------------------------------------
(* An emission                                                                  *)

Rules == [kind : {"extension", "shell"}, matches : BOOLEAN]
Patched(e) == UNION {[fields -> Int] : fields \in SUBSET Fields(e)}
AnswersOf(e) == [kind : {"error", "nil", "result"}, stop : BOOLEAN, fits : BOOLEAN, patch : Patched(e)]
Entries(e) == [by : Nat, kind : {"error", "nil", "result"}, stop : BOOLEAN, used : BOOLEAN,
               refused : BOOLEAN, said : Patched(e)]
ValuesOf(e) == {v \in [Fields(e) -> Int \cup SUBSET Int] :
                   \A f \in Fields(e) : IF Collects(e, f) THEN v[f] \subseteq Int ELSE v[f] \in Int}
Emissions(e) == [todo : Seq(Nat), of : Nat, value : ValuesOf(e) \cup {<<>>}, changed : BOOLEAN,
                 end : {"none", "asking", "done", "stopped", "aborted"},
                 log : Seq(Entries(e)), seen : Seq(ValuesOf(e) \cup {<<>>})]

HookTypes == chain \in Chains /\ handlers \in Seq(Rules) /\ emission \in Emissions(chain)

\* The handlers of the snapshot are asked in their order, until one ends the chain.
InOrder ==
    /\ emission.end = "none" => emission = IdleEmission
    /\ emission.end # "none" => emission.value \in ValuesOf(chain)
    /\ emission.end = "asking" <=> emission.todo # <<>>
    /\ emission.end = "asking" => Len(emission.log) + Len(emission.todo) = emission.of
    /\ \A k \in 1..Len(emission.todo) : emission.todo[k] = Len(emission.log) + k
    /\ emission.of <= Len(handlers) /\ Len(emission.log) <= emission.of
    /\ \A i \in 1..Len(emission.log) : emission.log[i].by = i

\* Who ended it.
Ended ==
    LET log == emission.log IN
    /\ \A i \in 1..Len(log) : log[i].stop => i = Len(log) /\ emission.end = "stopped"
    /\ emission.end \in {"stopped", "aborted"} => log # <<>>
    /\ emission.end = "stopped" => log[Len(log)].stop
    /\ emission.end = "done" /\ chain # "user_bash" => Len(log) = emission.of
    /\ emission.end = "aborted" => handlers[Len(log)].kind = "extension"

\* What the answers come to so far.
Composed ==
    /\ Len(emission.seen) = Len(emission.log)
    /\ \A i \in 1..Len(emission.seen) : ValueIn(chain, emission.log, emission.seen[i], i - 1)
    /\ emission.end # "none" => ValueIn(chain, emission.log, emission.value, Len(emission.log))
    /\ emission.end # "none" /\ ~emission.changed => emission.value = Blank(chain)
    /\ ~emission.changed => \A i \in 1..Len(emission.log) : ~emission.log[i].refused

EmissionInv == HookTypes /\ InOrder /\ Ended /\ Composed

LEMMA EmissionShows == EmissionInv => WordsKept /\ StopIsFinal
<1>. SUFFICES ASSUME EmissionInv PROVE WordsKept /\ StopIsFinal
  OBVIOUS
<1>. USE DEF EmissionInv
<1>. DEFINE log == emission.log
            n == Len(log)
<1>1. /\ log \in Seq(Entries(chain)) /\ emission.seen \in Seq(ValuesOf(chain) \cup {<<>>})
      /\ emission.end \in {"none", "asking", "done", "stopped", "aborted"}
  BY DEF HookTypes, Emissions
<1>2. n \in Nat /\ DOMAIN log = 1..n /\ DOMAIN emission.seen = 1..n
  BY <1>1, LenProperties DEF Composed
<1>3. WordsKept
  <2>1. ASSUME NEW i \in DOMAIN emission.seen PROVE ValueAfter(emission.seen[i], i - 1)
    BY <1>2, ValueIs DEF Composed
  <2>2. ASSUME emission.end = "done"
        PROVE  ValueAfter(IF emission.changed THEN emission.value ELSE Blank(chain), n)
    BY <2>2, ValueIs DEF Composed
  <2>. QED
    BY <2>1, <2>2 DEF WordsKept
<1>4. StopIsFinal
  <2>1. n # 0 => n \in 1..n
    BY <1>2
  <2>2. log # <<>> => n # 0
    BY <1>1, EmptySeq
  <2>3. \A i \in 1..n : log[i].by = i
    BY DEF InOrder
  <2>4. ASSUME emission.end = "aborted" PROVE handlers[log[n].by].kind = "extension"
    BY <2>1, <2>2, <2>3, <2>4 DEF Ended
  <2>. QED
    BY <1>2, <2>3, <2>4 DEF StopIsFinal, Ended
<1>. QED
  BY <1>3, <1>4

\* A handler more disturbs no emission.
LEMMA EmissionOn == EmissionInv /\ On => EmissionInv'
<1>. SUFFICES ASSUME EmissionInv, On PROVE EmissionInv'
  OBVIOUS
<1>1. /\ handlers \in Seq(Rules) /\ Len(handlers) \in Nat /\ emission.of \in Nat
      /\ emission.log \in Seq(Entries(chain)) /\ Len(emission.log) \in Nat
  BY LenProperties DEF EmissionInv, HookTypes, Emissions
<1>2. chain' = chain /\ emission' = emission /\ handlers' = Append(handlers, Extension)
  BY DEF On
<1>3. /\ handlers' \in Seq(Rules) /\ Len(handlers') = Len(handlers) + 1
      /\ \A i \in 1..Len(handlers) : handlers'[i] = handlers[i]
  <2>1. Extension \in Rules
    BY DEF Extension, Rules
  <2>. QED
    BY <1>1, <1>2, <2>1, AppendProperties
<1>4. HookTypes'
  BY <1>2, <1>3 DEF EmissionInv, HookTypes
<1>5. InOrder'
  <2>1. InOrder
    BY DEF EmissionInv
  <2>2. emission.of <= Len(handlers')
    BY <1>1, <1>3, <2>1 DEF InOrder
  <2>. QED
    BY <1>2, <2>1, <2>2 DEF InOrder
<1>6. Ended'
  <2>1. ASSUME emission.end = "aborted" PROVE handlers'[Len(emission.log)] = handlers[Len(emission.log)]
    <3>1. Len(emission.log) # 0
      BY <1>1, <2>1, EmptySeq DEF EmissionInv, Ended
    <3>2. Len(emission.log) <= emission.of /\ emission.of <= Len(handlers)
      BY DEF EmissionInv, InOrder
    <3>3. Len(emission.log) \in 1..Len(handlers)
      BY <1>1, <3>1, <3>2
    <3>. QED
      BY <1>3, <3>3
  <2>. QED
    BY <1>2, <2>1 DEF EmissionInv, Ended
<1>7. Composed'
  BY <1>2 DEF EmissionInv, Composed
<1>. QED
  BY <1>4, <1>5, <1>6, <1>7 DEF EmissionInv

\* Where nothing is emitted, nothing is said.
LEMMA EmissionIdle ==
  ASSUME HookTypes, chain' = chain, handlers' = handlers, emission' = IdleEmission
  PROVE  EmissionInv'
<1>1. IdleEmission \in Emissions(chain)
  BY EmptySeq DEF IdleEmission, Emissions
<1>2. HookTypes'
  BY <1>1 DEF HookTypes
<1>3. Len(<<>>) = 0 /\ Len(handlers) \in Nat /\ 1..0 = {}
  BY LenProperties DEF HookTypes
<1>4. InOrder'
  BY <1>3 DEF InOrder, IdleEmission
<1>5. Ended'
  BY <1>3 DEF Ended, IdleEmission
<1>6. Composed'
  BY <1>3 DEF Composed, IdleEmission
<1>. QED
  BY <1>2, <1>4, <1>5, <1>6 DEF EmissionInv

LEMMA EmissionStarts == EmissionInv /\ EmitEvent => EmissionInv'
<1>. SUFFICES ASSUME EmissionInv, EmitEvent PROVE EmissionInv'
  OBVIOUS
<1>. DEFINE n == Len(handlers)
            all == [i \in 1..n |-> i]
<1>1. /\ chain \in Chains /\ handlers \in Seq(Rules) /\ n \in Nat
      /\ handlers = <<>> <=> n = 0
  BY EmptySeq, LenProperties DEF EmissionInv, HookTypes
<1>2. chain' = chain /\ handlers' = handlers
  BY DEF EmitEvent
<1>3. all \in Seq(Nat) /\ Len(all) = n /\ \A k \in 1..n : all[k] = k
  BY <1>1
<1>. HIDE DEF all
<1>4. /\ emission'.todo = all /\ emission'.of = n /\ emission'.value = Blank(chain)
      /\ emission'.end = IF handlers = <<>> THEN "done" ELSE "asking"
      /\ emission'.log = <<>> /\ emission'.seen = <<>> /\ emission'.changed = FALSE
      /\ emission' = [todo |-> all, of |-> n, value |-> Blank(chain), changed |-> FALSE,
                      end |-> IF handlers = <<>> THEN "done" ELSE "asking", log |-> <<>>, seen |-> <<>>]
  BY <1>1 DEF EmitEvent, IdleEmission, all
<1>5. Blank(chain) \in ValuesOf(chain)
  BY DEF Blank, ValuesOf, Original
<1>6. emission' \in Emissions(chain)
  BY <1>1, <1>3, <1>4, <1>5, EmptySeq DEF Emissions
<1>7. HookTypes'
  BY <1>2, <1>6 DEF EmissionInv, HookTypes
<1>8. Len(<<>>) = 0 /\ 1..0 = {} /\ all = <<>> <=> n = 0
  BY <1>1, <1>3, EmptySeq
<1>9. InOrder'
  BY <1>1, <1>2, <1>3, <1>4, <1>5, <1>8 DEF InOrder
<1>10. Ended'
  BY <1>1, <1>2, <1>4, <1>8 DEF Ended
<1>11. Composed'
  BY <1>2, <1>4, <1>8, BlankValue DEF Composed
<1>. QED
  BY <1>7, <1>9, <1>10, <1>11 DEF EmissionInv

\* A handler answers.
AnswerFits(e, report, gist, author) ==
    /\ report \in AnswersOf(e) /\ gist \in Patched(e)
    /\ Used(e, report) => Fits(e, report.patch, gist, author)

LEMMA ComposeIs ==
  ASSUME NEW e, NEW value \in ValuesOf(e), NEW patch \in Patched(e)
  PROVE  Compose(e, value, patch) \in ValuesOf(e)
<1>1. \A f \in DOMAIN patch : patch[f] \in Int
  BY DEF Patched
<1>. QED
  <2>. DEFINE before == IF KeepsOne(e) THEN Blank(e) ELSE value
              new == Compose(e, value, patch)
  <2>1. Blank(e) \in ValuesOf(e)
    BY DEF Blank, ValuesOf, Original
  <2>2. before \in ValuesOf(e)
    BY <2>1
  <2>3. new = [f \in Fields(e) |-> IF f \notin DOMAIN patch THEN before[f]
                                 ELSE IF Collects(e, f) THEN before[f] \cup {patch[f]} ELSE patch[f]]
    BY DEF Compose
  <2>. HIDE DEF before, new
  <2>4. \A f \in Fields(e) : IF Collects(e, f) THEN new[f] \subseteq Int ELSE new[f] \in Int
    BY <1>1, <2>2, <2>3 DEF ValuesOf
  <2>5. new \in [Fields(e) -> Int \cup SUBSET Int]
    BY <2>3, <2>4
  <2>. QED
    BY <2>4, <2>5 DEF ValuesOf, new

LEMMA EmissionAnswered ==
  ASSUME EmissionInv, Busy, NEW report, NEW gist,
         AnswerFits(chain, report, gist, Head(emission.todo)),
         report.kind = "error" => handlers[Head(emission.todo)].kind = "extension",
         HandlerAnswers(report, gist)
  PROVE  EmissionInv'
<1>. DEFINE todo == emission.todo
            log == emission.log
            seen == emission.seen
            ends == EndsChain(chain, report, Tail(todo))
<1>1. PICK n, e, used, value, x :
        /\ n = Len(log) /\ e = chain /\ used = Used(chain, report)
        /\ value = IF used THEN Compose(chain, emission.value, report.patch) ELSE emission.value
        /\ x = [by |-> Head(todo), kind |-> report.kind, stop |-> report.stop,
                used |-> used, refused |-> Remembered(chain, report), said |-> gist]
  OBVIOUS
<1>2. /\ chain \in Chains /\ handlers \in Seq(Rules) /\ Len(handlers) \in Nat
      /\ todo \in Seq(Nat) /\ log \in Seq(Entries(e)) /\ seen \in Seq(ValuesOf(e) \cup {<<>>})
      /\ emission.of \in Nat /\ emission.changed \in BOOLEAN /\ emission.value \in ValuesOf(e)
      /\ emission \in Emissions(e)
  BY <1>1, LenProperties DEF EmissionInv, HookTypes, Emissions, InOrder, Busy
<1>3. n \in Nat /\ Len(seen) = n /\ todo # <<>> /\ Len(todo) \in Nat \ {0}
  BY <1>1, <1>2, LenProperties, EmptySeq DEF EmissionInv, Composed, InOrder, Busy
<1>4. /\ Head(todo) = n + 1 /\ Tail(todo) \in Seq(Nat) /\ Len(Tail(todo)) = Len(todo) - 1
      /\ n + Len(todo) = emission.of /\ emission.of <= Len(handlers)
      /\ \A k \in 1..Len(Tail(todo)) : Tail(todo)[k] = (n + 1) + k
  <2>1. /\ Tail(todo) \in Seq(Nat) /\ Len(Tail(todo)) = Len(todo) - 1
        /\ \A k \in 1..Len(Tail(todo)) : Tail(todo)[k] = todo[k + 1]
    BY <1>2, <1>3, HeadTailProperties
  <2>2. n + Len(todo) = emission.of /\ emission.of <= Len(handlers) /\ \A k \in 1..Len(todo) : todo[k] = n + k
    BY <1>1 DEF EmissionInv, InOrder, Busy
  <2>3. Head(todo) = todo[1] /\ 1 \in 1..Len(todo)
    BY <1>2, <1>3
  <2>4. ASSUME NEW k \in 1..Len(Tail(todo)) PROVE Tail(todo)[k] = (n + 1) + k
    <3>1. k + 1 \in 1..Len(todo) /\ n + (k + 1) = (n + 1) + k
      BY <1>3, <2>1
    <3>. QED
      BY <2>1, <2>2, <3>1
  <2>. QED
    BY <2>1, <2>2, <2>3, <2>4
<1>5. x \in Entries(e) /\ value \in ValuesOf(e)
  <2>1. report \in AnswersOf(e) /\ gist \in Patched(e)
    BY <1>1 DEF AnswerFits
  <2>2. used \in BOOLEAN /\ Remembered(chain, report) \in BOOLEAN
    BY <1>1 DEF Used, Remembered
  <2>3. report.kind \in {"error", "nil", "result"} /\ report.stop \in BOOLEAN /\ report.patch \in Patched(e)
    BY <2>1 DEF AnswersOf
  <2>4. x \in Entries(e)
    BY <1>1, <1>3, <1>4, <2>1, <2>2, <2>3 DEF Entries
  <2>5. value \in ValuesOf(e)
    BY <1>1, <1>2, <2>3, ComposeIs
  <2>. QED
    BY <2>4, <2>5
<1>6. /\ chain' = chain /\ handlers' = handlers
      /\ emission' = [todo |-> IF ends THEN <<>> ELSE Tail(todo), of |-> emission.of, value |-> value,
                      changed |-> emission.changed \/ used \/ Remembered(chain, report),
                      end |-> IF ends THEN EndOf(chain, report) ELSE "asking",
                      log |-> Append(log, x), seen |-> Append(seen, emission.value)]
  BY <1>1, <1>2 DEF HandlerAnswers, Emissions
<1>7. /\ emission'.todo = (IF ends THEN <<>> ELSE Tail(todo)) /\ emission'.of = emission.of
      /\ emission'.value = value /\ emission'.changed = (emission.changed \/ used \/ Remembered(chain, report))
      /\ emission'.end = (IF ends THEN EndOf(chain, report) ELSE "asking")
      /\ emission'.log = Append(log, x) /\ emission'.seen = Append(seen, emission.value)
  BY <1>6
<1>8. PICK m, s : m = Append(log, x) /\ s = Append(seen, emission.value)
  OBVIOUS
<1>9. /\ m \in Seq(Entries(e)) /\ Len(m) = n + 1 /\ m[n + 1] = x /\ \A i \in 1..n : m[i] = log[i]
      /\ s \in Seq(ValuesOf(e) \cup {<<>>}) /\ Len(s) = n + 1 /\ s[n + 1] = emission.value
      /\ \A i \in 1..n : s[i] = seen[i]
  <2>1. emission.value \in ValuesOf(e) \cup {<<>>}
    BY <1>2
  <2>2. /\ m \in Seq(Entries(e)) /\ Len(m) = n + 1 /\ m[n + 1] = x /\ \A i \in 1..n : m[i] = log[i]
    BY <1>1, <1>2, <1>5, <1>8, AppendProperties
  <2>3. /\ s \in Seq(ValuesOf(e) \cup {<<>>}) /\ Len(s) = n + 1 /\ s[n + 1] = emission.value
        /\ \A i \in 1..n : s[i] = seen[i]
    BY <1>2, <1>3, <1>8, <2>1, AppendProperties
  <2>. QED
    BY <2>2, <2>3
<1>10. \A i : i \in 1..n + 1 <=> i \in 1..n \/ i = n + 1
  BY <1>3
<1>11. x.by = n + 1 /\ x.stop = report.stop /\ x.used = used /\ x.refused = Remembered(chain, report) /\ x.said = gist
  BY <1>1, <1>4
<1>12. /\ ends <=> \/ report.stop
                   \/ report.kind = "error" /\ FaultEnds(chain)
                   \/ report.kind = "result" /\ chain = "user_bash"
                   \/ Tail(todo) = <<>>
       /\ EndOf(chain, report) \in {"done", "stopped", "aborted"}
       /\ EndOf(chain, report) = "stopped" <=> report.stop
       /\ EndOf(chain, report) = "aborted" <=> ~report.stop /\ report.kind = "error" /\ FaultEnds(chain)
  <2>1. ends <=> \/ report.stop
                 \/ report.kind = "error" /\ FaultEnds(chain)
                 \/ report.kind = "result" /\ chain = "user_bash"
                 \/ Tail(todo) = <<>>
    BY DEF EndsChain
  <2>2. /\ report.stop => EndOf(chain, report) = "stopped"
        /\ ~report.stop /\ report.kind = "error" /\ FaultEnds(chain) => EndOf(chain, report) = "aborted"
        /\ ~report.stop /\ ~(report.kind = "error" /\ FaultEnds(chain)) => EndOf(chain, report) = "done"
    BY DEF EndOf
  <2>. QED
    BY <2>1, <2>2
<1>. HIDE DEF ends
<1>13. HookTypes'
  <2>1. emission' \in Emissions(e)
    <3>1. emission'.todo \in Seq(Nat)
      BY <1>4, <1>7, EmptySeq
    <3>2. emission'.changed \in BOOLEAN
      BY <1>2, <1>7
    <3>3. emission'.end \in {"none", "asking", "done", "stopped", "aborted"}
      BY <1>7, <1>12
    <3>. QED
      BY <1>2, <1>5, <1>6, <1>7, <1>8, <1>9, <3>1, <3>2, <3>3 DEF Emissions
  <2>. QED
    BY <1>1, <1>2, <1>6, <2>1 DEF HookTypes
<1>14. InOrder'
  <2>1. /\ emission'.end # "none" /\ emission'.value \in ValuesOf(chain')
        /\ Len(emission'.log) = n + 1 /\ emission'.of = emission.of /\ n + 1 <= emission.of
        /\ emission.of <= Len(handlers')
    <3>1. emission'.end # "none"
      BY <1>7, <1>12
    <3>2. n + 1 <= emission.of
      BY <1>2, <1>3, <1>4
    <3>. QED
      BY <1>1, <1>4, <1>5, <1>6, <1>7, <1>8, <1>9, <3>1, <3>2
  <2>2. emission'.end = "asking" <=> emission'.todo # <<>>
    BY <1>7, <1>12
  <2>3. CASE ends
    <3>1. emission'.todo = <<>> /\ 1..Len(emission'.todo) = {}
      BY <1>7, <2>3, EmptySeq
    <3>2. \A i \in 1..n + 1 : m[i].by = i
      BY <1>1, <1>9, <1>10, <1>11 DEF EmissionInv, InOrder
    <3>. QED
      BY <1>7, <1>8, <2>1, <2>2, <3>1, <3>2 DEF InOrder
  <2>4. CASE ~ends
    <3>1. emission'.todo = Tail(todo) /\ (n + 1) + (Len(todo) - 1) = emission.of
      <4>1. emission'.todo = Tail(todo)
        BY <1>7, <2>4
      <4>2. (n + 1) + (Len(todo) - 1) = emission.of
        <5>1. \A a, b, c \in Nat : a + b = c => (a + 1) + (b - 1) = c
          OBVIOUS
        <5>2. n \in Nat /\ Len(todo) \in Nat /\ emission.of \in Nat /\ n + Len(todo) = emission.of
          BY <1>2, <1>3, <1>4
        <5>. QED
          BY <5>1, <5>2
      <4>. QED
        BY <4>1, <4>2
    <3>2. \A i \in 1..n + 1 : m[i].by = i
      BY <1>1, <1>9, <1>10, <1>11 DEF EmissionInv, InOrder
    <3>. QED
      BY <1>4, <1>7, <1>8, <2>1, <2>2, <3>1, <3>2 DEF InOrder
  <2>. QED
    BY <2>3, <2>4
<1>15. Ended'
  <2>1. \A i \in 1..n : ~log[i].stop
    BY <1>1 DEF EmissionInv, Ended, Busy
  <2>2. \A i \in 1..n + 1 : m[i].stop => i = n + 1 /\ emission'.end = "stopped"
    <3>1. \A i \in 1..n : ~m[i].stop
      BY <1>9, <2>1
    <3>2. ASSUME m[n + 1].stop PROVE emission'.end = "stopped"
      <4>1. report.stop
        BY <1>9, <1>11, <3>2
      <4>2. ends /\ EndOf(chain, report) = "stopped"
        BY <1>12, <4>1, Zenon
      <4>. QED
        BY <1>7, <4>2
    <3>. QED
      BY <1>10, <3>1, <3>2
  <2>3. emission'.log = m /\ m # <<>> /\ Len(m) = n + 1
    BY <1>3, <1>7, <1>8, <1>9, EmptySeq
  <2>4. emission'.end = "stopped" => m[n + 1].stop
    BY <1>7, <1>9, <1>11, <1>12
  <2>5. ASSUME emission'.end = "done", chain # "user_bash" PROVE n + 1 = emission.of
    <3>1. Tail(todo) = <<>>
      BY <1>7, <1>12, <2>5
    <3>2. Len(todo) - 1 = 0
      BY <1>4, <3>1, EmptySeq
    <3>3. Len(todo) = 1
      BY <1>3, <3>2
    <3>. QED
      BY <1>4, <3>3
  <2>6. ASSUME emission'.end = "aborted" PROVE handlers[n + 1].kind = "extension"
    BY <1>4, <1>7, <1>12, <2>6
  <2>. QED
    BY <1>6, <1>7, <2>2, <2>3, <2>4, <2>5, <2>6 DEF Ended
<1>16. Composed'
  <2>1. ASSUME NEW i \in 1..n PROVE ValueIn(e, m, s[i], i - 1)
    <3>1. PICK j : j = i - 1
      OBVIOUS
    <3>2. j \in Nat /\ \A k \in 1..j : m[k] = log[k]
      BY <1>3, <1>9, <3>1
    <3>3. ValueIn(e, log, seen[i], j)
      BY <1>1, <1>3, <3>1 DEF EmissionInv, Composed
    <3>4. ValueIn(e, m, seen[i], j)
      BY <3>2, <3>3, SameValue
    <3>. QED
      BY <1>9, <3>1, <3>4
  <2>2. ValueIn(e, log, emission.value, n)
    BY <1>1 DEF EmissionInv, Composed, Busy
  <2>3. ValueIn(e, m, emission.value, n)
    BY <1>3, <1>9, <2>2, SameValue
  <2>4. ValueIn(e, m, value, n + 1)
    <3>1. m[n + 1].used => Fits(e, report.patch, m[n + 1].said, m[n + 1].by)
      BY <1>1, <1>4, <1>9, <1>11 DEF AnswerFits
    <3>2. ValueIn(e, m, IF m[n + 1].used THEN Compose(e, emission.value, report.patch) ELSE emission.value, n + 1)
      BY <1>3, <1>9, <2>2, <3>1, NextValue
    <3>. QED
      BY <1>1, <1>9, <1>11, <3>2
  <2>5. \A i \in 1..n + 1 : ValueIn(e, m, s[i], i - 1)
    <3>1. (n + 1) - 1 = n
      BY <1>3
    <3>. QED
      BY <1>9, <1>10, <2>1, <2>3, <3>1
  <2>6. ASSUME ~emission'.changed PROVE value = Blank(e) /\ \A i \in 1..n + 1 : ~m[i].refused
    <3>1. ~emission.changed /\ ~used /\ ~Remembered(chain, report)
      BY <1>7, <2>6
    <3>2. value = Blank(e) /\ \A i \in 1..n : ~log[i].refused
      BY <1>1, <3>1 DEF EmissionInv, Composed, Busy
    <3>. QED
      BY <1>9, <1>10, <1>11, <3>1, <3>2
  <2>. QED
    BY <1>1, <1>6, <1>7, <1>8, <1>9, <2>4, <2>5, <2>6 DEF Composed
<1>. QED
  BY <1>13, <1>14, <1>15, <1>16 DEF EmissionInv

\* Answers are of their event, and what a shell hook means is what its patch sets.
LEMMA EmptyPatch == \A e : \A p \in Patched(e) : p # <<>> => DOMAIN p # {}
<1>1. ASSUME NEW S, NEW p \in [{} -> S] PROVE p = <<>>
  OBVIOUS
<1>2. ASSUME NEW e, NEW p \in Patched(e), DOMAIN p = {} PROVE p = <<>>
  <2>1. p \in [{} -> Int]
    BY <1>2 DEF Patched
  <2>. QED
    BY <1>1, <2>1
<1>. QED
  BY <1>2

LEMMA ByPatched ==
  ASSUME NEW e, NEW author \in Nat, NEW fields \in SUBSET Fields(e)
  PROVE  By(author, fields) \in Patched(e) /\ DOMAIN By(author, fields) = fields
         /\ \A f \in fields : By(author, fields)[f] = author
<1>1. By(author, fields) \in [fields -> Int]
  BY DEF By
<1>. QED
  BY <1>1 DEF By, Patched

LEMMA NoPatch == \A e : <<>> \in Patched(e)
<1>1. <<>> \in [{} -> Int]
  OBVIOUS
<1>2. \A e : {} \in SUBSET Fields(e)
  OBVIOUS
<1>. QED
  BY <1>1, <1>2 DEF Patched

LEMMA ExtensionFits ==
  ASSUME NEW e, NEW author \in Nat, NEW report \in ExtensionAnswers(e, author)
  PROVE  AnswerFits(e, report, report.patch, author)
<1>1. CASE report \in {Fault, Silent}
  <2>0. <<>> \in Patched(e)
    BY NoPatch
  <2>1. report \in AnswersOf(e) /\ report.kind # "result" /\ report.patch \in Patched(e)
    <3>1. CASE report = Fault
      BY <2>0, <3>1 DEF Fault, AnswersOf
    <3>2. CASE report = Silent
      BY <2>0, <3>2 DEF Silent, AnswersOf
    <3>. QED
      BY <1>1, <3>1, <3>2
  <2>. QED
    BY <2>1 DEF AnswerFits, Used
<1>2. CASE report \notin {Fault, Silent}
  <2>1. PICK stop \in BOOLEAN, fits \in BOOLEAN, p \in Patches(e, author) : report = Result(stop, fits, p)
    BY <1>2 DEF ExtensionAnswers
  <2>2. /\ p \in UNION {[fields -> {author, Nothing}] : fields \in SUBSET Fields(e)}
        /\ \A f \in DOMAIN p : p[f] \in IF f = "header" THEN {author, Nothing} ELSE {author}
        /\ e = "input" /\ p # <<>> => "text" \in DOMAIN p
    BY DEF Patches
  <2>3. p \in Patched(e) /\ DOMAIN p \subseteq Fields(e)
    <3>1. PICK fields \in SUBSET Fields(e) : p \in [fields -> {author, Nothing}]
      BY <2>2
    <3>2. p \in [fields -> Int]
      BY <3>1 DEF Nothing
    <3>. QED
      BY <3>1, <3>2 DEF Patched
  <2>4. /\ report.kind = "result" /\ report.stop = stop /\ report.fits = fits /\ report.patch = p
        /\ report \in AnswersOf(e)
    BY <2>1, <2>3 DEF Result, AnswersOf
  <2>5. ASSUME Used(e, report) PROVE Fits(e, p, p, author)
    <3>1. ASSUME e = "before_provider_payload" PROVE DOMAIN p = Fields(e)
      <4>1. Fields(e) = {"payload"}
        BY <3>1 DEF Fields
      <4>2. p # <<>>
        BY <2>4, <2>5, <3>1 DEF Used, KeepsOne
      <4>. QED
        BY <2>3, <4>1, <4>2, EmptyPatch
    <3>2. ASSUME e = "input" PROVE "text" \in DOMAIN p
      BY <2>2, <2>4, <2>5, <3>2 DEF Used, KeepsOne
    <3>3. ASSUME NEW f \in DOMAIN p, Collects(e, f) PROVE p[f] = author
      BY <2>2, <3>3 DEF Collects
    <3>. QED
      BY <3>1, <3>2, <3>3 DEF Fits
  <2>. QED
    BY <2>3, <2>4, <2>5 DEF AnswerFits
<1>. QED
  BY <1>1, <1>2

LEMMA ShellFits ==
  ASSUME NEW author \in Nat, NEW rule \in Rules, NEW out \in Outputs(chain)
  PROVE  /\ AnswerFits(chain, ShellAnswer(chain, author, rule, out), Means(author, rule, out), author)
         /\ ShellAnswer(chain, author, rule, out).kind # "error"
<1>1. PICK e, report, gist : e = chain /\ report = ShellAnswer(chain, author, rule, out)
                             /\ gist = Means(author, rule, out)
  OBVIOUS
<1>. DEFINE meant ==
         {f \in Fields(chain) :
              \/ f \in out.set /\ (chain = "input" => out.word = "transform")
              \/ chain = "tool_result" /\ out.word = "block" /\ f \in {"isError", "terminate"}}
<1>2. /\ gist \in Patched(e)
      /\ out.says /\ rule.matches => DOMAIN gist = meant /\ \A f \in meant : gist[f] = author
  <2>1. CASE out.says /\ rule.matches
    <3>1. gist = By(author, meant)
      BY <1>1, <2>1 DEF Means
    <3>2. meant \in SUBSET Fields(e)
      BY <1>1
    <3>. HIDE DEF meant
    <3>. QED
      BY <3>1, <3>2, ByPatched
  <2>2. CASE ~(out.says /\ rule.matches)
    <3>1. gist = <<>>
      BY <1>1, <2>2 DEF Means
    <3>. QED
      BY <2>2, <3>1, NoPatch
  <2>. QED
    BY <2>1, <2>2
<1>3. CASE ~rule.matches \/ ~out.says \/ IsZeroDecision(out)
  <2>1. report = Silent
    BY <1>1, <1>3 DEF ShellAnswer
  <2>2. report \in AnswersOf(e) /\ report.kind = "nil"
    BY <2>1, NoPatch DEF Silent, AnswersOf
  <2>. QED
    BY <1>1, <1>2, <2>2 DEF AnswerFits, Used
<1>4. CASE rule.matches /\ out.says /\ ~IsZeroDecision(out)
  <2>1. PICK p : p = ShellPatch(e, author, out)
    OBVIOUS
  <2>2. PICK stop \in BOOLEAN : report = Result(stop, TRUE, p)
    BY <1>1, <1>4, <2>1 DEF ShellAnswer
  <2>3. report.kind = "result" /\ report.patch = p
    BY <2>2 DEF Result
  <2>4. DOMAIN gist = meant /\ \A f \in meant : gist[f] = author
    BY <1>2, <1>4
  <2>5. ASSUME e = "tool_result" /\ out.word = "block" PROVE p \in Patched(e) /\ Fits(e, p, gist, author)
    <3>. DEFINE fields == (out.set \cap Fields(e)) \cup {"terminate", "isError"}
    <3>1. p = By(author, fields)
      BY <2>1, <2>5 DEF ShellPatch
    <3>2. Fields(e) = {"content", "isError", "terminate"}
      BY <2>5 DEF Fields
    <3>3. fields \in SUBSET Fields(e)
      BY <3>2
    <3>4. meant = fields
      BY <1>1, <2>5, <3>2
    <3>. HIDE DEF fields, meant
    <3>5. p \in Patched(e) /\ DOMAIN p = fields /\ \A f \in fields : p[f] = author
      BY <3>1, <3>3, ByPatched
    <3>. QED
      BY <2>4, <2>5, <3>4, <3>5 DEF Fits
  <2>6. ASSUME e = "input" PROVE p \in Patched(e) /\ (Used(e, report) => Fits(e, p, gist, author))
    <3>1. Fields(e) = {"text", "images"}
      BY <2>6 DEF Fields
    <3>2. CASE out.word = "transform"
      <4>. DEFINE fields == {"text"} \cup (out.set \cap Fields(e))
      <4>1. p = [f \in fields |-> IF f \in out.set THEN author ELSE Nothing]
        BY <2>1, <2>6, <3>2 DEF ShellPatch
      <4>2. fields \in SUBSET Fields(e)
        BY <3>1
      <4>3. \A f : f \in meant <=> f \in Fields(e) /\ f \in out.set
        BY <1>1, <2>6, <3>2
      <4>. HIDE DEF meant
      <4>4. p \in [fields -> Int]
        BY <4>1 DEF Nothing
      <4>5. \A f \in Fields(e) : IF f = "text" THEN f \in DOMAIN p /\ p[f] = IF f \in meant THEN author ELSE Nothing
                                 ELSE /\ f \in DOMAIN p <=> f \in meant
                                      /\ f \in meant => p[f] = author
        BY <4>1, <4>3
      <4>. HIDE DEF fields
      <4>6. Fits(e, p, gist, author)
        BY <2>4, <2>6, <4>5 DEF Fits, Collects
      <4>. QED
        BY <4>2, <4>4, <4>6 DEF Patched
    <3>3. CASE out.word # "transform"
      <4>1. p = <<>>
        BY <2>1, <2>6, <3>3 DEF ShellPatch
      <4>. QED
        BY <2>3, <2>6, <4>1, NoPatch DEF Used, KeepsOne
    <3>. QED
      BY <3>2, <3>3
  <2>7. ASSUME e = "before_provider_payload" PROVE p \in Patched(e) /\ Fits(e, p, gist, author)
    <3>1. Fields(e) = {"payload"}
      BY <2>7 DEF Fields
    <3>2. p = [f \in {"payload"} |-> IF "payload" \in out.set THEN author ELSE Nothing]
      BY <2>1, <2>7 DEF ShellPatch
    <3>3. p \in [{"payload"} -> Int]
      BY <3>2 DEF Nothing
    <3>4. p \in Patched(e)
      BY <3>1, <3>3 DEF Patched
    <3>5. "payload" \in meant <=> "payload" \in out.set
      BY <1>1, <2>7, <3>1
    <3>. HIDE DEF meant
    <3>6. p["payload"] = IF "payload" \in DOMAIN gist THEN gist["payload"] ELSE Nothing
      BY <2>4, <3>2, <3>5
    <3>. QED
      BY <2>7, <3>1, <3>2, <3>4, <3>6 DEF Fits
  <2>8. ASSUME ~(e = "tool_result" /\ out.word = "block"), e \notin {"input", "before_provider_payload"}
        PROVE p \in Patched(e) /\ Fits(e, p, gist, author)
    <3>1. p = By(author, out.set \cap Fields(e))
      BY <2>1, <2>8 DEF ShellPatch
    <3>2. meant = out.set \cap Fields(e)
      BY <1>1, <2>8
    <3>. HIDE DEF meant
    <3>3. out.set \cap Fields(e) \in SUBSET Fields(e)
      OBVIOUS
    <3>4. p \in Patched(e) /\ DOMAIN p = meant /\ \A f \in meant : p[f] = author
      BY <3>1, <3>2, <3>3, ByPatched
    <3>. QED
      BY <2>4, <2>8, <3>4 DEF Fits
  <2>9. p \in Patched(e) /\ (Used(e, report) => Fits(e, p, gist, author))
    BY <2>5, <2>6, <2>7, <2>8
  <2>10. report \in AnswersOf(e)
    BY <2>2, <2>9 DEF Result, AnswersOf
  <2>. QED
    BY <1>1, <1>2, <2>3, <2>9, <2>10 DEF AnswerFits
<1>. QED
  BY <1>3, <1>4

-----------------------------------------------------------------------
(* What agent_end tells                                                         *)

\* Messages of one run, and what is recorded of them.
Identified == [no : Nat, identity : Nat]
Finals == [no : Nat, by : Int \cup SUBSET Int, diagnosed : BOOLEAN]
Records == [index : Nat, identity : Nat, replacement : Finals]
Sinks == [original : Seq(Identified), stored : Seq(Finals), replacements : Seq(Records),
          told : Seq(Finals), over : BOOLEAN]

\* A message that is not replaced.
Kept(i) == [no |-> i, by |-> Original, diagnosed |-> FALSE]

\* The replacements are those of the messages that were stored changed, in their order.
RecordedIn(original, finals, replacements) ==
    /\ Len(original) = Len(finals)
    /\ \A i \in 1..Len(finals) : original[i].no = i /\ original[i].identity \in {0, i}
    /\ \A r \in 1..Len(replacements) :
           LET i == replacements[r].index
           IN  /\ i \in 1..Len(finals)
               /\ replacements[r].identity = original[i].identity
               /\ replacements[r].replacement = finals[i]
    /\ \A q, r \in 1..Len(replacements) :
           replacements[q].index = replacements[r].index => q = r
    /\ \A i \in 1..Len(finals) :
           (\A r \in 1..Len(replacements) : replacements[r].index # i) => finals[i] = Kept(i)

\* The fold of mapAgentEndMessages, as a function on the sets of places it has been to.
MapStep(replacements, messages, acc, i) ==
    LET hit == Replacing(replacements, i, messages[i], acc.used)
    IN  [used |-> acc.used \cup hit,
         out |-> Append(acc.out,
             IF hit = {} THEN [no |-> messages[i].no, by |-> Original, diagnosed |-> FALSE]
             ELSE replacements[CHOOSE r \in hit : TRUE].replacement)]
MapsOf(replacements, messages, D, w) ==
    w = [s \in SUBSET D |->
            IF s = {} THEN [used |-> {}, out |-> <<>>]
            ELSE MapStep(replacements, messages, w[s \ {Max(s)}], [i \in DOMAIN messages |-> i][Max(s)])]

LEMMA MappedIs ==
  ASSUME NEW replacements, NEW messages
  PROVE  \E w : /\ w = CHOOSE v : MapsOf(replacements, messages, DOMAIN messages, v)
                /\ Mapped(replacements, messages) = w[DOMAIN messages].out
<1>1. DOMAIN [i \in DOMAIN messages |-> i] = DOMAIN messages
  OBVIOUS
<1>2. Mapped(replacements, messages) =
          (CHOOSE v : MapsOf(replacements, messages, DOMAIN [i \in DOMAIN messages |-> i], v))
              [DOMAIN [i \in DOMAIN messages |-> i]].out
  BY DEF Mapped, FoldLeft, MapThenFoldSet, MapsOf, MapStep
<1>. QED
  BY <1>1, <1>2

LEMMA LastPlace ==
  /\ \A n \in Nat : \A s \in SUBSET (1..n + 1) : n + 1 \in s => Max(s) = n + 1
  /\ \A n \in Nat : \A s \in SUBSET (1..n) : s # {} => Max(s) \in s
<1>1. ASSUME NEW n \in Nat, NEW s \in SUBSET (1..n + 1), n + 1 \in s PROVE Max(s) = n + 1
  <2>1. \A x \in s : x <= n + 1
    OBVIOUS
  <2>2. \A x \in s : (\A y \in s : x >= y) => x = n + 1
    BY <1>1, <2>1
  <2>3. \A y \in s : n + 1 >= y
    BY <2>1
  <2>. QED
    BY <1>1, <2>2, <2>3 DEF Max
<1>2. ASSUME NEW n \in Nat, NEW s \in SUBSET (1..n), s # {} PROVE Max(s) \in s
  <2>1. PICK i \in s : \A k \in s : k <= i
    BY <1>2, GreatestExists
  <2>2. \A y \in s : i >= y
    BY <2>1
  <2>. QED
    BY <2>2 DEF Max
<1>. QED
  BY <1>1, <1>2

LEMMA MapsExist ==
  ASSUME NEW replacements, NEW messages, NEW n \in Nat
  PROVE  \E w : MapsOf(replacements, messages, 1..n, w)
<1>. DEFINE Step(acc, i) == MapStep(replacements, messages, acc, [k \in DOMAIN messages |-> k][i])
            seed == [used |-> {}, out |-> <<>>]
            S == {m \in Nat : \E w : MapsOf(replacements, messages, 1..m, w)}
<1>0. \A D, w : MapsOf(replacements, messages, D, w)
                <=> w = [s \in SUBSET D |-> IF s = {} THEN seed ELSE Step(w[s \ {Max(s)}], Max(s))]
  BY DEF MapsOf
<1>. HIDE DEF Step, seed
<1>1. 0 \in S
  <2>. DEFINE w == [s \in SUBSET (1..0) |-> seed]
              body(s) == IF s = {} THEN seed ELSE Step(w[s \ {Max(s)}], Max(s))
  <2>1. \A s \in SUBSET (1..0) : body(s) = seed
    <3>1. \A s \in SUBSET (1..0) : s = {}
      OBVIOUS
    <3>. HIDE DEF w
    <3>. QED
      BY <3>1
  <2>2. w = [s \in SUBSET (1..0) |-> body(s)]
    <3>. HIDE DEF body
    <3>. QED
      BY <2>1
  <2>3. MapsOf(replacements, messages, 1..0, w)
    <3>. HIDE DEF w
    <3>. QED
      BY <1>0, <2>2
  <2>. HIDE DEF w
  <2>. QED
    BY <2>3
<1>2. ASSUME NEW m \in Nat, m \in S PROVE m + 1 \in S
  <2>1. PICK w : MapsOf(replacements, messages, 1..m, w)
    BY <1>2
  <2>2. w = [s \in SUBSET (1..m) |-> IF s = {} THEN seed ELSE Step(w[s \ {Max(s)}], Max(s))]
    BY <2>1 DEF MapsOf, Step, seed
  <2>. DEFINE v == [s \in SUBSET (1..m + 1) |-> IF m + 1 \in s THEN Step(w[s \ {m + 1}], m + 1) ELSE w[s]]
              body(s) == IF s = {} THEN seed ELSE Step(v[s \ {Max(s)}], Max(s))
  <2>3. \A s \in SUBSET (1..m + 1) : m + 1 \notin s => s \in SUBSET (1..m)
    BY \A k \in 1..m + 1 : k \in 1..m \/ k = m + 1
  <2>4. SUBSET (1..m) \subseteq SUBSET (1..m + 1) /\ \A s \in SUBSET (1..m) : m + 1 \notin s
    OBVIOUS
  <2>5. \A s \in SUBSET (1..m) : v[s] = w[s]
    BY <2>4
  <2>6. ASSUME NEW s \in SUBSET (1..m + 1) PROVE v[s] = body(s)
    <3>1. CASE m + 1 \in s
      <4>1. Max(s) = m + 1 /\ s # {}
        BY <3>1, LastPlace
      <4>2. s \ {m + 1} \in SUBSET (1..m)
        BY <2>3
      <4>3. v[s \ {m + 1}] = w[s \ {m + 1}]
        BY <2>5, <4>2
      <4>4. v[s] = Step(w[s \ {m + 1}], m + 1)
        BY <3>1
      <4>. HIDE DEF v
      <4>. QED
        BY <4>1, <4>3, <4>4
    <3>2. CASE m + 1 \notin s
      <4>1. s \in SUBSET (1..m)
        BY <2>3, <3>2
      <4>2. s \ {Max(s)} \in SUBSET (1..m)
        BY <4>1
      <4>3. v[s] = w[s] /\ v[s \ {Max(s)}] = w[s \ {Max(s)}]
        BY <2>5, <4>1, <4>2
      <4>4. w[s] = IF s = {} THEN seed ELSE Step(w[s \ {Max(s)}], Max(s))
        BY <2>2, <4>1
      <4>. HIDE DEF v
      <4>. QED
        BY <4>3, <4>4
    <3>. QED
      BY <3>1, <3>2
  <2>7. v = [s \in SUBSET (1..m + 1) |-> body(s)]
    <3>. HIDE DEF body
    <3>. QED
      BY <2>6
  <2>8. MapsOf(replacements, messages, 1..m + 1, v)
    <3>. HIDE DEF v
    <3>. QED
      BY <1>0, <2>7
  <2>. HIDE DEF v
  <2>. QED
    BY <2>8
<1>3. Nat \subseteq S
  <2>. HIDE DEF S
  <2>. QED
    BY <1>1, <1>2, UpFromZero
<1>. QED
  BY <1>3

\* The replacement of a message is found by its identity or by its place.
Unmet(replacements, i, used) ==
    \A r \in 1..Len(replacements) : r \in used => replacements[r].index # i
Finds(original, finals, replacements, i, used) ==
    Replacing(replacements, i, original[i], used) = {r \in 1..Len(replacements) : replacements[r].index = i}

LEMMA FoundFor ==
  ASSUME NEW original \in Seq(Identified), NEW finals \in Seq(Finals), NEW replacements \in Seq(Records),
         RecordedIn(original, finals, replacements), NEW i \in 1..Len(finals),
         NEW used, Unmet(replacements, i, used)
  PROVE  Finds(original, finals, replacements, i, used)
<1>. DEFINE R == 1..Len(replacements)
            at == {r \in R : replacements[r].index = i}
            same == {r \in DOMAIN replacements \ used :
                        original[i].identity # 0 /\ replacements[r].identity = original[i].identity}
            placed == {r \in DOMAIN replacements \ used : replacements[r].index = i}
<1>1. DOMAIN replacements = R /\ Len(replacements) \in Nat /\ R \subseteq Nat
  BY LenProperties
<1>2. /\ original[i].identity \in {0, i} /\ i \in Nat
      /\ \A r \in R : /\ replacements[r].index \in 1..Len(finals)
                      /\ replacements[r].identity = original[replacements[r].index].identity
                      /\ replacements[r].identity \in {0, replacements[r].index}
      /\ \A q, r \in at : q = r
  BY DEF RecordedIn
<1>3. placed = at
  BY <1>1 DEF Unmet
<1>4. same = at \/ same = {}
  <2>1. CASE original[i].identity = 0
    BY <2>1
  <2>2. CASE original[i].identity # 0
    <3>1. original[i].identity = i /\ i # 0
      BY <1>2, <2>2
    <3>2. ASSUME NEW r \in R PROVE replacements[r].identity = i <=> replacements[r].index = i
      BY <1>2, <3>1
    <3>. QED
      BY <1>1, <3>1, <3>2 DEF Unmet
  <2>. QED
    BY <2>1, <2>2
<1>5. Replacing(replacements, i, original[i], used) =
          IF same # {} THEN {CHOOSE r \in same : \A q \in same : r <= q}
          ELSE IF placed # {} THEN {CHOOSE r \in placed : \A q \in placed : r <= q} ELSE {}
  BY DEF Replacing
<1>6. at \subseteq Nat
  BY <1>1
<1>. HIDE DEF at, same, placed
<1>7. ASSUME at # {} PROVE {CHOOSE r \in at : \A q \in at : r <= q} = at
  <2>1. PICK r \in at : TRUE
    BY <1>7
  <2>2. at = {r}
    BY <1>2, <2>1
  <2>3. r <= r
    BY <1>6
  <2>4. (CHOOSE p \in at : \A q \in at : p <= q) = r
    BY <2>2, <2>3
  <2>. QED
    BY <2>2, <2>4
<1>8. Replacing(replacements, i, original[i], used) = at
  BY <1>3, <1>4, <1>5, <1>7
<1>. QED
  BY <1>8 DEF at, Finds

\* What the fold has after the first n messages.
LEMMA MapsTo ==
  ASSUME NEW original \in Seq(Identified), NEW finals \in Seq(Finals), NEW replacements \in Seq(Records),
         RecordedIn(original, finals, replacements)
  PROVE  Mapped(replacements, original) = finals
<1>. DEFINE N == Len(finals)
            usedBy(n) == {r \in 1..Len(replacements) : replacements[r].index <= n}
            first(n) == [i \in 1..n |-> finals[i]]
            acc(n) == [used |-> usedBy(n), out |-> first(n)]
<1>1. /\ DOMAIN original = 1..N /\ N \in Nat /\ Len(replacements) \in Nat
      /\ DOMAIN replacements = 1..Len(replacements) /\ DOMAIN finals = 1..N
  BY LenProperties DEF RecordedIn
<1>2. /\ \A i \in 1..N : original[i].no = i /\ finals[i] \in Finals
      /\ \A r \in 1..Len(replacements) : /\ replacements[r].index \in 1..N
                                         /\ replacements[r].replacement = finals[replacements[r].index]
      /\ \A i \in 1..N : (\A r \in 1..Len(replacements) : replacements[r].index # i) => finals[i] = Kept(i)
      /\ \A q, r \in 1..Len(replacements) : replacements[q].index = replacements[r].index => q = r
  BY ElementOfSeq DEF RecordedIn
<1>3. PICK w : /\ w = CHOOSE v : MapsOf(replacements, original, 1..N, v)
               /\ Mapped(replacements, original) = w[1..N].out
  BY <1>1, MappedIs
<1>4. MapsOf(replacements, original, 1..N, w)
  BY <1>1, <1>3, MapsExist
<1>5. ASSUME NEW n \in Nat, n + 1 <= N
      PROVE  MapStep(replacements, original, acc(n), n + 1) = acc(n + 1)
  <2>1. n + 1 \in 1..N /\ \A r \in 1..Len(replacements) : replacements[r].index \in Nat
    BY <1>1, <1>2, <1>5
  <2>2. PICK hit : hit = {r \in 1..Len(replacements) : replacements[r].index = n + 1}
    OBVIOUS
  <2>3. Replacing(replacements, n + 1, original[n + 1], usedBy(n)) = hit
    <3>1. \A r \in 1..Len(replacements) : r \in usedBy(n) => replacements[r].index # n + 1
      BY <2>1
    <3>. HIDE DEF usedBy
    <3>. QED
      <4>1. PICK u : u = usedBy(n)
        OBVIOUS
      <4>2. Replacing(replacements, n + 1, original[n + 1], u)
               = {r \in 1..Len(replacements) : replacements[r].index = n + 1}
        <5>1. Unmet(replacements, n + 1, u)
          BY <3>1, <4>1 DEF Unmet
        <5>2. Finds(original, finals, replacements, n + 1, u)
          BY <2>1, <5>1, FoundFor
        <5>. QED
          BY <5>2 DEF Finds
      <4>. QED
        BY <2>2, <4>1, <4>2
  <2>4. usedBy(n) \cup hit = usedBy(n + 1)
    <3>1. ASSUME NEW r \in 1..Len(replacements)
          PROVE  replacements[r].index <= n + 1 <=> replacements[r].index <= n \/ replacements[r].index = n + 1
      BY <2>1
    <3>. QED
      BY <2>2, <3>1
  <2>5. first(n) \in Seq(Finals) /\ first(n + 1) = Append(first(n), finals[n + 1])
    <3>1. \A i \in 1..n : i \in 1..N
      BY <1>1, <1>5
    <3>2. first(n) \in Seq(Finals) /\ Len(first(n)) = n
      BY <1>2, <3>1
    <3>3. /\ \A i : i \in 1..n + 1 <=> i \in 1..n \/ i = n + 1
          /\ finals[n + 1] \in Finals
      BY <1>2, <2>1
    <3>4. first(n + 1) \in Seq(Finals) /\ Len(first(n + 1)) = n + 1
      BY <1>2, <3>1, <3>3
    <3>5. PICK f, g, t : f = first(n) /\ g = first(n + 1) /\ t = Append(first(n), finals[n + 1])
      OBVIOUS
    <3>6. /\ \A i \in 1..n : f[i] = finals[i] /\ g[i] = finals[i]
          /\ g[n + 1] = finals[n + 1]
      BY <3>3, <3>5
    <3>. HIDE DEF first
    <3>7. /\ t \in Seq(Finals) /\ Len(t) = n + 1 /\ \A i \in 1..n : t[i] = f[i]
          /\ t[n + 1] = finals[n + 1]
      BY <3>2, <3>3, <3>5, AppendProperties
    <3>8. \A i \in 1..n + 1 : g[i] = t[i]
      BY <3>3, <3>6, <3>7
    <3>9. g = t
      BY <3>4, <3>5, <3>7, <3>8, SeqEqual
    <3>. QED
      BY <3>2, <3>5, <3>9
  <2>6. (IF hit = {} THEN [no |-> original[n + 1].no, by |-> Original, diagnosed |-> FALSE]
         ELSE replacements[CHOOSE r \in hit : TRUE].replacement) = finals[n + 1]
    <3>1. CASE hit = {}
      <4>1. finals[n + 1] = Kept(n + 1)
        BY <1>2, <2>1, <2>2, <3>1
      <4>. QED
        BY <1>2, <2>1, <3>1, <4>1 DEF Kept
    <3>2. CASE hit # {}
      <4>1. PICK r : r = CHOOSE q \in hit : TRUE
        OBVIOUS
      <4>2. r \in hit
        BY <3>2, <4>1
      <4>3. replacements[r].replacement = finals[n + 1]
        BY <1>2, <2>2, <4>2
      <4>. QED
        BY <3>2, <4>1, <4>3
    <3>. QED
      BY <3>1, <3>2
  <2>. HIDE DEF usedBy, first
  <2>. QED
    BY <2>3, <2>4, <2>5, <2>6 DEF MapStep
<1>. HIDE DEF acc
<1>. DEFINE I == {n \in Nat : n <= N => w[1..n] = acc(n)}
<1>6. 0 \in I
  <2>1. 1..0 = {} /\ {} \in SUBSET (1..N)
    OBVIOUS
  <2>2. w[{}] = [used |-> {}, out |-> <<>>]
    BY <1>4, <2>1 DEF MapsOf
  <2>3. usedBy(0) = {}
    BY <1>2
  <2>4. first(0) = <<>>
    BY <2>1
  <2>. HIDE DEF usedBy, first
  <2>. QED
    BY <2>1, <2>2, <2>3, <2>4 DEF acc
<1>7. ASSUME NEW n \in Nat, n \in I PROVE n + 1 \in I
  <2>. SUFFICES ASSUME n + 1 <= N PROVE w[1..n + 1] = acc(n + 1)
    OBVIOUS
  <2>1. w[1..n] = acc(n)
    <3>1. n <= N
      BY <1>1
    <3>. QED
      BY <1>7, <3>1
  <2>2. /\ 1..n + 1 \in SUBSET (1..N) /\ 1..n + 1 # {} /\ n + 1 \in 1..n + 1 /\ n + 1 \in 1..N
        /\ (1..n + 1) \ {n + 1} = 1..n
    <3>1. n + 1 \in 1..n + 1 /\ n + 1 \in 1..N
      BY <1>1
    <3>2. 1..n + 1 \in SUBSET (1..N)
      BY <1>1
    <3>3. (1..n + 1) \ {n + 1} = 1..n
      OBVIOUS
    <3>. QED
      BY <3>1, <3>2, <3>3
  <2>3. Max(1..n + 1) = n + 1
    BY <2>2, LastPlace
  <2>4. w[1..n + 1] = MapStep(replacements, original, w[(1..n + 1) \ {Max(1..n + 1)}],
                              [i \in DOMAIN original |-> i][Max(1..n + 1)])
    BY <1>4, <2>2 DEF MapsOf
  <2>5. [i \in DOMAIN original |-> i][n + 1] = n + 1
    BY <1>1, <2>2
  <2>6. w[1..n + 1] = MapStep(replacements, original, w[1..n], n + 1)
    BY <2>2, <2>3, <2>4, <2>5
  <2>. HIDE DEF acc
  <2>. QED
    BY <1>5, <2>1, <2>6
<1>8. N \in I
  <2>1. Nat \subseteq I
    <3>. HIDE DEF I
    <3>. QED
      BY <1>6, <1>7, UpFromZero
  <2>. QED
    BY <1>1, <2>1
<1>9. w[1..N].out = first(N)
  <2>1. N <= N
    BY <1>1
  <2>2. w[1..N] = acc(N)
    BY <1>8, <2>1
  <2>. QED
    BY <2>2 DEF acc
<1>10. first(N) = finals
  BY <1>1
<1>. QED
  BY <1>3, <1>9, <1>10

\* A message more, replaced or kept.
LEMMA RecordedMore ==
  ASSUME NEW original \in Seq(Identified), NEW finals \in Seq(Finals), NEW replacements \in Seq(Records),
         RecordedIn(original, finals, replacements),
         NEW no, no = Len(finals) + 1, NEW msg \in Identified, msg.no = no, msg.identity \in {0, no},
         NEW final \in Finals
  PROVE  /\ RecordedIn(Append(original, msg), Append(finals, final),
                       Append(replacements, Recorded(no, msg, final)))
         /\ final = Kept(no) => RecordedIn(Append(original, msg), Append(finals, final), replacements)
<1>1. PICK n, m, rec, o, s, rs :
          /\ n = Len(finals) /\ m = Len(replacements) /\ rec = Recorded(no, msg, final)
          /\ o = Append(original, msg) /\ s = Append(finals, final) /\ rs = Append(replacements, rec)
  OBVIOUS
<1>2. n \in Nat /\ m \in Nat /\ no = n + 1 /\ no \in Nat
  BY <1>1, LenProperties
<1>3. rec \in Records /\ rec.index = no /\ rec.identity = msg.identity /\ rec.replacement = final
  BY <1>1, <1>2 DEF Recorded, Records, Identified
<1>4. /\ Len(original) = n
      /\ \A i \in 1..n : original[i].no = i /\ original[i].identity \in {0, i}
      /\ \A r \in 1..m : /\ replacements[r].index \in 1..n
                         /\ replacements[r].identity = original[replacements[r].index].identity
                         /\ replacements[r].replacement = finals[replacements[r].index]
      /\ \A q, r \in 1..m : replacements[q].index = replacements[r].index => q = r
      /\ \A i \in 1..n : (\A r \in 1..m : replacements[r].index # i) => finals[i] = Kept(i)
  BY <1>1 DEF RecordedIn
<1>5. /\ Len(o) = n + 1 /\ o[n + 1] = msg /\ \A i \in 1..n : o[i] = original[i]
      /\ Len(s) = n + 1 /\ s[n + 1] = final /\ \A i \in 1..n : s[i] = finals[i]
      /\ Len(rs) = m + 1 /\ rs[m + 1] = rec /\ \A r \in 1..m : rs[r] = replacements[r]
  <2>1. Len(o) = n + 1 /\ o[n + 1] = msg /\ \A i \in 1..n : o[i] = original[i]
    BY <1>1, <1>4, AppendProperties
  <2>2. Len(s) = n + 1 /\ s[n + 1] = final /\ \A i \in 1..n : s[i] = finals[i]
    BY <1>1, AppendProperties
  <2>3. Len(rs) = m + 1 /\ rs[m + 1] = rec /\ \A r \in 1..m : rs[r] = replacements[r]
    BY <1>1, <1>3, AppendProperties
  <2>. QED
    BY <2>1, <2>2, <2>3
<1>6. /\ \A i : i \in 1..n + 1 <=> i \in 1..n \/ i = n + 1
      /\ \A r : r \in 1..m + 1 <=> r \in 1..m \/ r = m + 1
      /\ n + 1 \notin 1..n /\ m + 1 \notin 1..m
  BY <1>2
<1>7. \A i \in 1..n + 1 : o[i].no = i /\ o[i].identity \in {0, i}
  BY <1>2, <1>4, <1>5, <1>6
<1>8. ASSUME NEW r \in 1..m
      PROVE  /\ replacements[r].index \in 1..n + 1
             /\ replacements[r].identity = o[replacements[r].index].identity
             /\ replacements[r].replacement = s[replacements[r].index]
  BY <1>4, <1>5, <1>6
<1>9. RecordedIn(o, s, rs)
  <2>1. ASSUME NEW r \in 1..m + 1
        PROVE  /\ rs[r].index \in 1..n + 1
               /\ rs[r].identity = o[rs[r].index].identity
               /\ rs[r].replacement = s[rs[r].index]
    <3>1. CASE r \in 1..m
      BY <1>5, <1>8, <3>1
    <3>2. CASE r = m + 1
      BY <1>2, <1>3, <1>5, <1>6, <3>2
    <3>. QED
      BY <1>6, <3>1, <3>2
  <2>2. ASSUME NEW q \in 1..m + 1, NEW r \in 1..m + 1, rs[q].index = rs[r].index PROVE q = r
    BY <1>2, <1>3, <1>4, <1>5, <1>6, <2>2
  <2>3. ASSUME NEW i \in 1..n + 1, \A r \in 1..m + 1 : rs[r].index # i PROVE s[i] = Kept(i)
    <3>1. i # n + 1
      BY <1>2, <1>3, <1>5, <1>6, <2>3
    <3>2. i \in 1..n /\ \A r \in 1..m : replacements[r].index # i
      BY <1>5, <1>6, <2>3, <3>1
    <3>. QED
      BY <1>4, <1>5, <3>2
  <2>. QED
    BY <1>5, <1>7, <2>1, <2>2, <2>3 DEF RecordedIn
<1>10. ASSUME final = Kept(no) PROVE RecordedIn(o, s, replacements)
  <2>1. ASSUME NEW i \in 1..n + 1, \A r \in 1..m : replacements[r].index # i PROVE s[i] = Kept(i)
    BY <1>2, <1>4, <1>5, <1>6, <1>10, <2>1
  <2>. QED
    BY <1>1, <1>4, <1>5, <1>7, <1>8, <2>1 DEF RecordedIn
<1>. QED
  BY <1>1, <1>9, <1>10

SinkInv ==
    /\ sink \in Sinks
    /\ RecordedIn(sink.original, sink.stored, sink.replacements)
    /\ sink.over => /\ chain = "message_end" /\ emission.end = "none"
                    /\ sink.told = sink.stored

LEMMA EmissionAsked == EmissionInv /\ (AskExtension \/ AskShell) => EmissionInv'
<1>. SUFFICES ASSUME EmissionInv, AskExtension \/ AskShell PROVE EmissionInv'
  OBVIOUS
<1>1. Busy /\ Head(emission.todo) \in Nat
  <2>1. Busy
    BY DEF AskExtension, AskShell
  <2>2. emission.todo \in Seq(Nat) /\ emission.todo # <<>>
    BY <2>1 DEF EmissionInv, HookTypes, Emissions, InOrder, Busy
  <2>. QED
    BY <2>1, <2>2, HeadTailProperties
<1>2. CASE AskExtension
  <2>1. PICK report \in ExtensionAnswers(chain, Head(emission.todo)) : HandlerAnswers(report, report.patch)
    BY <1>2 DEF AskExtension
  <2>2. handlers[Head(emission.todo)].kind = "extension"
    BY <1>2 DEF AskExtension
  <2>3. AnswerFits(chain, report, report.patch, Head(emission.todo))
    BY <1>1, ExtensionFits
  <2>. QED
    BY <1>1, <2>1, <2>2, <2>3, EmissionAnswered
<1>3. CASE AskShell
  <2>1. PICK author, rule : author = Head(emission.todo) /\ rule = handlers[author]
    OBVIOUS
  <2>2. PICK out \in Outputs(chain) :
             HandlerAnswers(ShellAnswer(chain, author, rule, out), Means(author, rule, out))
    BY <1>3, <2>1 DEF AskShell
  <2>3. rule \in Rules
    <3>1. /\ handlers \in Seq(Rules) /\ Len(handlers) \in Nat /\ emission.todo \in Seq(Nat)
          /\ Len(emission.todo) \in Nat /\ Len(emission.log) \in Nat /\ emission.of \in Nat
      BY LenProperties DEF EmissionInv, HookTypes, Emissions
    <3>2. /\ Len(emission.log) + Len(emission.todo) = emission.of /\ emission.of <= Len(handlers)
          /\ emission.todo # <<>> /\ \A k \in 1..Len(emission.todo) : emission.todo[k] = Len(emission.log) + k
      BY <1>1 DEF EmissionInv, InOrder, Busy
    <3>3. Len(emission.todo) # 0 /\ author = emission.todo[1]
      BY <2>1, <3>1, <3>2, EmptySeq
    <3>4. author = Len(emission.log) + 1
      BY <3>1, <3>2, <3>3
    <3>5. author \in 1..Len(handlers)
      <4>1. \A a, t, o, h \in Nat : a + t = o /\ o <= h /\ t # 0 => a + 1 \in 1..h
        OBVIOUS
      <4>. QED
        BY <3>1, <3>2, <3>3, <3>4, <4>1
    <3>. QED
      BY <2>1, <3>1, <3>5, ElementOfSeq
  <2>4. /\ AnswerFits(chain, ShellAnswer(chain, author, rule, out), Means(author, rule, out), author)
        /\ ShellAnswer(chain, author, rule, out).kind # "error"
    BY <1>1, <2>1, <2>3, ShellFits
  <2>. QED
    BY <1>1, <2>1, <2>2, <2>4, EmissionAnswered
<1>. QED
  BY <1>2, <1>3

\* A message of the run is stored as its chain left it.
LEMMA SinkStores ==
  ASSUME EmissionInv, SinkInv, NEW named \in BOOLEAN, MessageEnd(named)
  PROVE  SinkInv'
<1>1. PICK no, msg, final :
        /\ no = Len(sink.stored) + 1
        /\ msg = [no |-> no, identity |-> IF named THEN no ELSE 0]
        /\ final = [no |-> no, by |-> emission.value["message"], diagnosed |-> Diagnosed]
  OBVIOUS
<1>2. /\ sink.original \in Seq(Identified) /\ sink.stored \in Seq(Finals) /\ sink.replacements \in Seq(Records)
      /\ sink.told \in Seq(Finals) /\ sink.over \in BOOLEAN /\ sink \in Sinks
  BY DEF SinkInv, Sinks
<1>3. chain = "message_end" /\ emission.end = "done" /\ chain' = chain /\ emission' = IdleEmission /\ ~sink.over
  BY DEF MessageEnd, SinkInv
<1>4. Len(sink.stored) \in Nat /\ no \in Nat
  BY <1>1, <1>2, LenProperties
<1>5. emission.value["message"] \in Int /\ "message" \in Fields(chain)
  <2>1. "message" \in Fields(chain) /\ ~Collects(chain, "message")
    BY <1>3 DEF Fields, Collects
  <2>2. emission.value \in ValuesOf(chain)
    BY <1>3 DEF EmissionInv, InOrder
  <2>. QED
    BY <2>1, <2>2 DEF ValuesOf
<1>6. msg \in Identified /\ msg.no = no /\ msg.identity \in {0, no}
  BY <1>1, <1>4 DEF Identified
<1>7. final \in Finals
  BY <1>1, <1>4, <1>5 DEF Finals, Diagnosed
<1>8. ASSUME ~emission.changed PROVE final = Kept(no)
  <2>1. emission.value = Blank(chain) /\ \A i \in 1..Len(emission.log) : ~emission.log[i].refused
    BY <1>3, <1>8 DEF EmissionInv, Composed
  <2>2. Blank(chain)["message"] = Original
    BY <1>3, <1>5 DEF Blank, Collects
  <2>3. DOMAIN emission.log = 1..Len(emission.log)
    BY LenProperties DEF EmissionInv, HookTypes, Emissions
  <2>4. Diagnosed = FALSE
    BY <2>1, <2>3 DEF Diagnosed
  <2>. QED
    BY <1>1, <2>1, <2>2, <2>4 DEF Kept
<1>9. RecordedIn(sink.original, sink.stored, sink.replacements)
  BY DEF SinkInv
<1>10. /\ RecordedIn(Append(sink.original, msg), Append(sink.stored, final),
                     Append(sink.replacements, Recorded(no, msg, final)))
       /\ final = Kept(no)
              => RecordedIn(Append(sink.original, msg), Append(sink.stored, final), sink.replacements)
  <2>1. no = Len(sink.stored) + 1
    BY <1>1
  <2>. QED
    BY <1>2, <1>6, <1>7, <1>9, <2>1, RecordedMore, Zenon
<1>11. PICK rs : rs = IF emission.changed THEN Append(sink.replacements, Recorded(no, msg, final))
                      ELSE sink.replacements
  OBVIOUS
<1>12. /\ Recorded(no, msg, final) \in Records
       /\ rs \in Seq(Records) /\ Append(sink.original, msg) \in Seq(Identified)
       /\ Append(sink.stored, final) \in Seq(Finals)
  <2>1. Recorded(no, msg, final) \in Records
    BY <1>4, <1>6, <1>7 DEF Recorded, Records, Identified
  <2>2. rs \in Seq(Records)
    BY <1>2, <1>11, <2>1, AppendProperties
  <2>. QED
    BY <1>2, <1>6, <1>7, <2>1, <2>2, AppendProperties
<1>13. sink' = [sink EXCEPT !.original = Append(sink.original, msg), !.stored = Append(sink.stored, final),
                            !.replacements = rs]
  BY <1>1, <1>11 DEF MessageEnd
<1>14. /\ sink' \in Sinks /\ sink'.original = Append(sink.original, msg)
       /\ sink'.stored = Append(sink.stored, final) /\ sink'.replacements = rs /\ sink'.over = sink.over
  <2>. DEFINE a == Append(sink.original, msg)
              b == Append(sink.stored, final)
  <2>1. a \in Seq(Identified) /\ b \in Seq(Finals)
    BY <1>12
  <2>2. sink' = [sink EXCEPT !.original = a, !.stored = b, !.replacements = rs]
    BY <1>13
  <2>. HIDE DEF a, b
  <2>3. sink' \in Sinks /\ sink'.original = a /\ sink'.stored = b /\ sink'.replacements = rs /\ sink'.over = sink.over
    BY <1>2, <1>12, <2>1, <2>2 DEF Sinks
  <2>. QED
    BY <2>3 DEF a, b
<1>15. RecordedIn(sink'.original, sink'.stored, sink'.replacements)
  <2>1. CASE emission.changed
    BY <1>10, <1>11, <1>14, <2>1
  <2>2. CASE ~emission.changed
    BY <1>8, <1>10, <1>11, <1>14, <2>2
  <2>. QED
    BY <2>1, <2>2
<1>. QED
  BY <1>3, <1>14, <1>15 DEF SinkInv

LEMMA SinkTells == EmissionInv /\ SinkInv /\ AgentEnd => SinkInv'
<1>. SUFFICES ASSUME SinkInv, AgentEnd PROVE SinkInv'
  OBVIOUS
<1>1. Mapped(sink.replacements, sink.original) = sink.stored
  BY MapsTo DEF SinkInv, Sinks
<1>2. /\ sink' = [sink EXCEPT !.told = sink.stored, !.over = TRUE] /\ chain = "message_end"
      /\ emission.end = "none" /\ chain' = chain /\ emission' = emission
  BY <1>1 DEF AgentEnd
<1>3. sink \in Sinks /\ sink.stored \in Seq(Finals)
  BY DEF SinkInv, Sinks
<1>4. /\ sink' \in Sinks /\ sink'.told = sink.stored /\ sink'.stored = sink.stored
      /\ sink'.original = sink.original /\ sink'.replacements = sink.replacements
  BY <1>2, <1>3 DEF Sinks
<1>. QED
  BY <1>2, <1>4 DEF SinkInv

HooksInv == EmissionInv /\ SinkInv

LEMMA HooksBegin == HookInit => HooksInv
<1>. SUFFICES ASSUME HookInit PROVE HooksInv
  OBVIOUS
<1>1. handlers \in Seq(Rules)
  <2>1. PICK file \in Files, first \in {<<>>, <<Extension>>} :
             \E rules \in RulesOf(file) : handlers = first \o rules
    BY DEF HookInit
  <2>2. PICK rules \in RulesOf(file) : handlers = first \o rules
    BY <2>1
  <2>3. Extension \in Rules /\ \A m \in BOOLEAN : ShellRule(m) \in Rules
    BY DEF Extension, ShellRule, Rules
  <2>4. <<>> \in Seq(Rules) /\ <<Extension>> \in Seq(Rules) /\ \A m \in BOOLEAN : <<ShellRule(m)>> \in Seq(Rules)
    BY <2>3
  <2>5. file.native \in Seq(Rules) /\ file.alias \in Seq(Rules)
    BY <2>4 DEF Files
  <2>6. file.native \o file.alias \in Seq(Rules) /\ file.alias \o file.native \in Seq(Rules)
    BY <2>5, ConcatProperties
  <2>7. rules \in Seq(Rules)
    BY <2>4, <2>6 DEF RulesOf
  <2>. QED
    BY <2>2, <2>4, <2>7, ConcatProperties
<1>2. emission = IdleEmission /\ sink = EmptySink /\ chain \in Chains
  BY DEF HookInit
<1>3. HookTypes
  <2>1. IdleEmission \in Emissions(chain)
    BY EmptySeq DEF IdleEmission, Emissions
  <2>. QED
    BY <1>1, <1>2, <2>1 DEF HookTypes
<1>4. EmissionInv
  <2>1. Len(<<>>) = 0 /\ Len(handlers) \in Nat /\ 1..0 = {}
    BY <1>1, LenProperties
  <2>. QED
    BY <1>2, <1>3, <2>1 DEF EmissionInv, InOrder, Ended, Composed, IdleEmission
<1>5. SinkInv
  <2>1. Len(<<>>) = 0 /\ 1..0 = {}
    OBVIOUS
  <2>2. EmptySink \in Sinks
    BY EmptySeq DEF EmptySink, Sinks
  <2>3. RecordedIn(<<>>, <<>>, <<>>)
    BY <2>1 DEF RecordedIn
  <2>. QED
    BY <1>2, <2>2, <2>3 DEF SinkInv, EmptySink
<1>. QED
  BY <1>4, <1>5 DEF HooksInv

LEMMA HooksStep == HooksInv /\ [HookNext]_hookVars => HooksInv'
<1>. SUFFICES ASSUME HooksInv, [HookNext]_hookVars PROVE HooksInv'
  OBVIOUS
<1>. USE DEF HooksInv
<1>1. ASSUME On PROVE HooksInv'
  BY <1>1, EmissionOn DEF SinkInv, On
<1>2. ASSUME EmitEvent PROVE HooksInv'
  <2>1. EmissionInv'
    BY <1>2, EmissionStarts
  <2>2. ~sink.over /\ chain' = chain /\ sink' = sink
    BY <1>2 DEF EmitEvent, SinkInv
  <2>3. SinkInv'
    BY <2>2 DEF SinkInv
  <2>. QED
    BY <2>1, <2>3
<1>3. ASSUME AskExtension \/ AskShell PROVE HooksInv'
  <2>1. EmissionInv'
    BY <1>3, EmissionAsked
  <2>2. Busy /\ chain' = chain /\ sink' = sink
    BY <1>3 DEF AskExtension, AskShell, HandlerAnswers
  <2>3. SinkInv'
    BY <2>2 DEF SinkInv, Busy
  <2>. QED
    BY <2>1, <2>3
<1>4. ASSUME NEW named \in BOOLEAN, MessageEnd(named) PROVE HooksInv'
  <2>1. SinkInv'
    BY <1>4, SinkStores
  <2>2. HookTypes /\ chain' = chain /\ handlers' = handlers /\ emission' = IdleEmission
    BY <1>4 DEF EmissionInv, MessageEnd
  <2>3. EmissionInv'
    BY <2>2, EmissionIdle
  <2>. QED
    BY <2>1, <2>3
<1>5. ASSUME AgentEnd PROVE HooksInv'
  <2>1. SinkInv'
    BY <1>5, SinkTells
  <2>2. chain' = chain /\ handlers' = handlers /\ emission' = emission
    BY <1>5 DEF AgentEnd
  <2>3. EmissionInv'
    BY <2>2 DEF EmissionInv, HookTypes, InOrder, Ended, Composed
  <2>. QED
    BY <2>1, <2>3
<1>6. ASSUME UNCHANGED hookVars PROVE HooksInv'
  BY <1>6 DEF hookVars, EmissionInv, HookTypes, InOrder, Ended, Composed, SinkInv
<1>. QED
  BY <1>1, <1>2, <1>3, <1>4, <1>5, <1>6 DEF HookNext

\* Whatever the handlers answer and in whatever order they were registered, each sees
\* what the ones before it made of the event and the operation gets what all of them
\* made of it, one that stops the chain has the last word, and agent_end tells the
\* messages of the run as message_end had them stored (hook.go, shellhooks.go,
\* prompt.go, orchestrator.go).
THEOREM HooksStayHonest == HookSpec => []HooksHonest
<1>1. HooksInv => HooksHonest
  <2>1. HooksInv => WordsKept /\ StopIsFinal
    BY EmissionShows DEF HooksInv
  <2>2. HooksInv => ToldIsStored
    BY DEF HooksInv, SinkInv, ToldIsStored
  <2>. QED
    BY <2>1, <2>2 DEF HooksHonest
<1>. QED
  BY <1>1, HooksBegin, HooksStep, PTL DEF HookSpec

-----------------------------------------------------------------------
(* The decoders' states                                                         *)

Pieces == [n : Nat, closes : BOOLEAN]
Items == [kind : Kinds, pieces : Seq(Pieces), open : BOOLEAN]
Blocks == [kind : Kinds, data : Seq(Pieces)]
AnswerEvents ==
    [type : {"message", "start", "delta", "end", "done", "error", "complete"}, index : Nat,
     kind : Kinds \cup {"none"}]
Stops == {"none", "stop", "length", "toolUse", "error", "aborted"}
Decoders ==
    [content : Seq(Blocks), stop : Stops, partial : Seq(Seq(Pieces)), key : Seq(Nat),
     ids : Seq(Nat), open : BOOLEAN, finish : BOOLEAN, events : Seq(AnswerEvents)]

\* A decoder has as many entries in each table as it has blocks.
Tabled(d) ==
    /\ d \in Decoders
    /\ Len(d.partial) = Len(d.content) /\ Len(d.key) = Len(d.content) /\ Len(d.ids) = Len(d.content)

\* The rest of a decoder is as it was.
SameBut(d, e) == e.stop = d.stop /\ e.open = d.open /\ e.finish = d.finish

LEMMA TabledFacts ==
  ASSUME NEW d, Tabled(d)
  PROVE  /\ d \in Decoders
         /\ d.content \in Seq(Blocks) /\ d.partial \in Seq(Seq(Pieces)) /\ d.key \in Seq(Nat)
         /\ d.ids \in Seq(Nat) /\ d.events \in Seq(AnswerEvents) /\ d.stop \in Stops
         /\ d.open \in BOOLEAN /\ d.finish \in BOOLEAN
         /\ Len(d.content) \in Nat /\ Len(d.events) \in Nat
         /\ DOMAIN d.content = 1..Len(d.content) /\ DOMAIN d.partial = 1..Len(d.content)
         /\ DOMAIN d.key = 1..Len(d.content) /\ DOMAIN d.ids = 1..Len(d.content)
         /\ DOMAIN d.events = 1..Len(d.events)
         /\ Len(d.partial) = Len(d.content) /\ Len(d.key) = Len(d.content) /\ Len(d.ids) = Len(d.content)
  BY LenProperties DEF Tabled, Decoders

\* What a decoder's helpers do.
LEMMA ParsedIs == \A p \in Seq(Pieces) : Parsed(p) \in Seq(Pieces)
  BY EmptySeq DEF Parsed

LEMMA EmitIs ==
  ASSUME NEW d, Tabled(d), NEW type \in {"message", "done", "error", "complete"}
  PROVE  /\ Tabled(Emit(d, type)) /\ SameBut(d, Emit(d, type))
         /\ Emit(d, type).content = d.content /\ Emit(d, type).partial = d.partial
         /\ Emit(d, type).key = d.key /\ Emit(d, type).ids = d.ids
         /\ Emit(d, type).events = Append(d.events, StreamEvent(type, 0, "none"))
<1>1. StreamEvent(type, 0, "none") \in AnswerEvents
  BY DEF StreamEvent, AnswerEvents
<1>2. PICK es : es = Append(d.events, StreamEvent(type, 0, "none"))
  OBVIOUS
<1>3. es \in Seq(AnswerEvents)
  BY <1>1, <1>2, TabledFacts, AppendProperties
<1>4. Emit(d, type) = [d EXCEPT !.events = es]
  BY <1>2 DEF Emit
<1>5. d \in Decoders
  BY DEF Tabled
<1>. QED
  BY <1>2, <1>3, <1>4, <1>5 DEF Tabled, Decoders, SameBut

LEMMA EmitBlockIs ==
  ASSUME NEW d, Tabled(d), NEW type \in {"start", "delta", "end"}, NEW i \in 1..Len(d.content)
  PROVE  /\ Tabled(EmitBlock(d, type, i)) /\ SameBut(d, EmitBlock(d, type, i))
         /\ EmitBlock(d, type, i).content = d.content /\ EmitBlock(d, type, i).partial = d.partial
         /\ EmitBlock(d, type, i).key = d.key /\ EmitBlock(d, type, i).ids = d.ids
         /\ EmitBlock(d, type, i).events = Append(d.events, StreamEvent(type, i, d.content[i].kind))
<1>1. StreamEvent(type, i, d.content[i].kind) \in AnswerEvents
  <2>1. d.content[i] \in Blocks /\ i \in Nat
    BY TabledFacts
  <2>. QED
    BY <2>1 DEF StreamEvent, AnswerEvents, Blocks
<1>2. PICK es : es = Append(d.events, StreamEvent(type, i, d.content[i].kind))
  OBVIOUS
<1>3. es \in Seq(AnswerEvents)
  BY <1>1, <1>2, TabledFacts, AppendProperties
<1>4. EmitBlock(d, type, i) = [d EXCEPT !.events = es]
  BY <1>2 DEF EmitBlock
<1>5. d \in Decoders
  BY DEF Tabled
<1>. QED
  BY <1>2, <1>3, <1>4, <1>5 DEF Tabled, Decoders, SameBut

\* A block more, empty, and the event of its start.
Begun(d, e, kind, key, id) ==
    /\ Tabled(e) /\ SameBut(d, e)
    /\ e.content = Append(d.content, Block(kind)) /\ e.partial = Append(d.partial, <<>>)
    /\ e.key = Append(d.key, key) /\ e.ids = Append(d.ids, id)
    /\ e.events = Append(d.events, StreamEvent("start", Len(d.content) + 1, kind))

LEMMA StartBlockIs ==
  ASSUME NEW d, Tabled(d), NEW kind \in Kinds, NEW key \in Nat, NEW id \in Nat
  PROVE  Begun(d, StartBlock(d, kind, key, id), kind, key, id)
<1>1. PICK c, p, k, s : c = Append(d.content, Block(kind)) /\ p = Append(d.partial, <<>>)
                        /\ k = Append(d.key, key) /\ s = Append(d.ids, id)
  OBVIOUS
<1>2. Block(kind) \in Blocks /\ <<>> \in Seq(Pieces)
  BY EmptySeq DEF Block, Blocks
<1>3. /\ c \in Seq(Blocks) /\ Len(c) = Len(d.content) + 1 /\ c[Len(d.content) + 1] = Block(kind)
      /\ p \in Seq(Seq(Pieces)) /\ Len(p) = Len(d.content) + 1
      /\ k \in Seq(Nat) /\ Len(k) = Len(d.content) + 1 /\ s \in Seq(Nat) /\ Len(s) = Len(d.content) + 1
  <2>1. c \in Seq(Blocks) /\ Len(c) = Len(d.content) + 1 /\ c[Len(d.content) + 1] = Block(kind)
    BY <1>1, <1>2, TabledFacts, AppendProperties
  <2>2. p \in Seq(Seq(Pieces)) /\ Len(p) = Len(d.partial) + 1
    BY <1>1, <1>2, TabledFacts, AppendProperties
  <2>3. k \in Seq(Nat) /\ Len(k) = Len(d.key) + 1 /\ s \in Seq(Nat) /\ Len(s) = Len(d.ids) + 1
    BY <1>1, TabledFacts, AppendProperties
  <2>. QED
    BY <2>1, <2>2, <2>3 DEF Tabled
<1>4. PICK e : e = [d EXCEPT !.content = c, !.partial = p, !.key = k, !.ids = s]
  OBVIOUS
<1>5. d \in Decoders
  BY DEF Tabled
<1>6. /\ Tabled(e) /\ SameBut(d, e) /\ e.content = c /\ e.partial = p /\ e.key = k /\ e.ids = s
      /\ e.events = d.events
  BY <1>3, <1>4, <1>5 DEF Tabled, Decoders, SameBut
<1>7. StartBlock(d, kind, key, id) = EmitBlock(e, "start", Len(d.content) + 1)
  BY <1>1, <1>4 DEF StartBlock
<1>8. PICK i : i = Len(d.content) + 1
  OBVIOUS
<1>9. i \in 1..Len(e.content) /\ e.content[i].kind = kind
  BY <1>3, <1>6, <1>8, TabledFacts DEF Block
<1>10. /\ Tabled(EmitBlock(e, "start", i)) /\ SameBut(e, EmitBlock(e, "start", i))
       /\ EmitBlock(e, "start", i).content = e.content /\ EmitBlock(e, "start", i).partial = e.partial
       /\ EmitBlock(e, "start", i).key = e.key /\ EmitBlock(e, "start", i).ids = e.ids
       /\ EmitBlock(e, "start", i).events = Append(e.events, StreamEvent("start", i, e.content[i].kind))
  BY <1>6, <1>9, EmitBlockIs
<1>. QED
  BY <1>1, <1>6, <1>7, <1>8, <1>9, <1>10 DEF Begun, SameBut

\* One block has other data, and what has been heard of it is another.
Changed(d, e, i, data, partial) ==
    /\ Tabled(e) /\ SameBut(d, e)
    /\ Len(e.content) = Len(d.content) /\ e.key = d.key /\ e.ids = d.ids /\ e.events = d.events
    /\ e.content[i] = [kind |-> d.content[i].kind, data |-> data] /\ e.partial[i] = partial
    /\ \A j \in 1..Len(d.content) : j # i => e.content[j] = d.content[j] /\ e.partial[j] = d.partial[j]

LEMMA ChangedIs ==
  ASSUME NEW d, Tabled(d), NEW i \in 1..Len(d.content), NEW data \in Seq(Pieces), NEW partial \in Seq(Pieces)
  PROVE  /\ Changed(d, [d EXCEPT !.partial[i] = partial, !.content[i].data = data], i, data, partial)
         /\ Changed(d, [d EXCEPT !.content[i].data = data], i, data, d.partial[i])
<1>0. /\ d \in Decoders /\ d.content \in Seq(Blocks) /\ d.partial \in Seq(Seq(Pieces))
      /\ DOMAIN d.content = 1..Len(d.content) /\ DOMAIN d.partial = 1..Len(d.content)
      /\ Len(d.partial) = Len(d.content)
  BY TabledFacts
<1>1. PICK c, p : c = [d.content EXCEPT ![i].data = data] /\ p = [d.partial EXCEPT ![i] = partial]
  OBVIOUS
<1>2. /\ d.content[i] \in Blocks /\ d.partial[i] \in Seq(Pieces)
  BY <1>0
<1>3. PICK b : b = [d.content[i] EXCEPT !.data = data]
  OBVIOUS
<1>4. b \in Blocks /\ b = [kind |-> d.content[i].kind, data |-> data]
  BY <1>2, <1>3 DEF Blocks
<1>5. c = [d.content EXCEPT ![i] = b]
  BY <1>1, <1>3
<1>6. /\ c \in Seq(Blocks) /\ Len(c) = Len(d.content) /\ c[i] = b
      /\ \A j \in 1..Len(d.content) : j # i => c[j] = d.content[j]
  BY <1>0, <1>4, <1>5, ExceptSeq
<1>7. /\ p \in Seq(Seq(Pieces)) /\ Len(p) = Len(d.content) /\ p[i] = partial
      /\ \A j \in 1..Len(d.content) : j # i => p[j] = d.partial[j]
  BY <1>0, <1>1, ExceptSeq
<1>8. [d EXCEPT !.partial[i] = partial, !.content[i].data = data] = [d EXCEPT !.partial = p, !.content = c]
  BY <1>0, <1>1 DEF Decoders
<1>9. [d EXCEPT !.content[i].data = data] = [d EXCEPT !.content = c]
  BY <1>0, <1>1 DEF Decoders
<1>10. PICK e : e = [d EXCEPT !.partial = p, !.content = c]
  OBVIOUS
<1>11. Changed(d, e, i, data, partial)
  <2>1. /\ e \in Decoders /\ e.content = c /\ e.partial = p /\ e.key = d.key /\ e.ids = d.ids
        /\ e.events = d.events /\ SameBut(d, e)
    BY <1>0, <1>6, <1>7, <1>10 DEF Decoders, SameBut
  <2>. QED
    BY <1>4, <1>6, <1>7, <2>1 DEF Changed, Tabled
<1>12. PICK f : f = [d EXCEPT !.content = c]
  OBVIOUS
<1>13. Changed(d, f, i, data, d.partial[i])
  <2>1. /\ f \in Decoders /\ f.content = c /\ f.partial = d.partial /\ f.key = d.key /\ f.ids = d.ids
        /\ f.events = d.events /\ SameBut(d, f)
    BY <1>0, <1>6, <1>12 DEF Decoders, SameBut
  <2>. QED
    BY <1>4, <1>6, <2>1 DEF Changed, Tabled
<1>. QED
  BY <1>8, <1>9, <1>10, <1>11, <1>12, <1>13

LEMMA GrowIs ==
  ASSUME NEW d, Tabled(d), NEW i \in 1..Len(d.content), NEW piece \in Pieces
  PROVE  Changed(d, Grow(d, i, piece), i,
                 IF d.content[i].kind = "toolCall" THEN Parsed(Append(d.partial[i], piece))
                 ELSE Append(d.partial[i], piece),
                 Append(d.partial[i], piece))
<1>1. PICK p, data : p = Append(d.partial[i], piece)
                     /\ data = IF d.content[i].kind = "toolCall" THEN Parsed(p) ELSE p
  OBVIOUS
<1>2. p \in Seq(Pieces)
  <2>1. d.partial[i] \in Seq(Pieces)
    BY TabledFacts
  <2>. QED
    BY <1>1, <2>1, AppendProperties
<1>3. data \in Seq(Pieces)
  BY <1>1, <1>2, ParsedIs
<1>4. Grow(d, i, piece) = [d EXCEPT !.partial[i] = p, !.content[i].data = data]
  BY <1>1 DEF Grow
<1>5. Changed(d, [d EXCEPT !.partial[i] = p, !.content[i].data = data], i, data, p)
  BY <1>2, <1>3, ChangedIs, Zenon
<1>. QED
  BY <1>1, <1>4, <1>5

-----------------------------------------------------------------------
(* What the events tell                                                         *)

Tellings == {"message", "start", "delta", "end"}
IsA(event, type, index) == event.type = type /\ event.index = index
Starts(e) == {j \in 1..Len(e) : e[j].type = "start"}

\* The next event, x, goes with those before it, e, and with the blocks of content c.
Next1(e, c, x) ==
    /\ x.type \in Tellings
    /\ x.index \in 0..Len(c) /\ (x.index # 0 => x.kind = c[x.index].kind)
    /\ x.type # "message" => x.index # 0
    /\ x.type = "start" => x.index = Cardinality(Starts(e)) + 1
    /\ x.type \in {"delta", "end"} =>
          /\ \E j \in 1..Len(e) : IsA(e[j], "start", x.index)
          /\ \A j \in 1..Len(e) : ~IsA(e[j], "end", x.index)

\* The events are well formed, and the last of them has not come.
WellTold(e, c) ==
    \A i \in 1..Len(e) :
        /\ e[i].type \in Tellings
        /\ e[i].index \in 0..Len(c) /\ (e[i].index # 0 => e[i].kind = c[e[i].index].kind)
        /\ e[i].type # "message" => e[i].index # 0
        /\ e[i].type = "start" => e[i].index = Cardinality({j \in 1..i : e[j].type = "start"})
        /\ e[i].type \in {"delta", "end"} =>
              /\ \E j \in 1..(i - 1) : IsA(e[j], "start", e[i].index)
              /\ \A j \in 1..(i - 1) : ~IsA(e[j], "end", e[i].index)

\* Blocks of the same kinds, and perhaps more of them.
Extends(c, c2) == Len(c) <= Len(c2) /\ \A i \in 1..Len(c) : c2[i].kind = c[i].kind

LEMMA StartsOf ==
  ASSUME NEW e \in Seq(AnswerEvents)
  PROVE  IsFiniteSet(Starts(e)) /\ Cardinality(Starts(e)) \in Nat
<1>1. Len(e) \in Nat
  BY LenProperties
<1>2. IsFiniteSet(1..Len(e))
  BY <1>1, FS_Interval
<1>3. Starts(e) \subseteq 1..Len(e)
  BY DEF Starts
<1>. QED
  BY <1>2, <1>3, FS_Subset, FS_CardinalityType

LEMMA StartsMore ==
  ASSUME NEW e \in Seq(AnswerEvents), NEW x \in AnswerEvents
  PROVE  Cardinality(Starts(Append(e, x))) =
            IF x.type = "start" THEN Cardinality(Starts(e)) + 1 ELSE Cardinality(Starts(e))
<1>1. PICK n, f : n = Len(e) /\ f = Append(e, x)
  OBVIOUS
<1>2. /\ n \in Nat /\ Len(f) = n + 1 /\ f[n + 1] = x /\ \A j \in 1..n : f[j] = e[j]
  BY <1>1, AppendProperties, LenProperties
<1>3. 1..(n + 1) = (1..n) \cup {n + 1} /\ n + 1 \notin 1..n
  BY <1>2
<1>4. Starts(f) = Starts(e) \cup (IF x.type = "start" THEN {n + 1} ELSE {}) /\ n + 1 \notin Starts(e)
  BY <1>1, <1>2, <1>3 DEF Starts
<1>5. CASE x.type = "start"
  <2>1. Starts(f) = Starts(e) \cup {n + 1}
    BY <1>4, <1>5
  <2>2. Cardinality(Starts(e) \cup {n + 1}) = Cardinality(Starts(e)) + 1
    BY <1>4, StartsOf, FS_AddElement
  <2>. QED
    BY <1>1, <1>5, <2>1, <2>2
<1>6. CASE x.type # "start"
  BY <1>1, <1>4, <1>6
<1>. QED
  BY <1>5, <1>6

\* One event more.
LEMMA ToldMore ==
  ASSUME NEW e \in Seq(AnswerEvents), NEW x \in AnswerEvents, NEW c \in Seq(Blocks), NEW c2 \in Seq(Blocks),
         WellTold(e, c), Extends(c, c2), Next1(e, c2, x)
  PROVE  WellTold(Append(e, x), c2)
<1>1. PICK n, f : n = Len(e) /\ f = Append(e, x)
  OBVIOUS
<1>2. /\ n \in Nat /\ Len(f) = n + 1 /\ f[n + 1] = x /\ \A j \in 1..n : f[j] = e[j]
      /\ Len(c) \in Nat /\ Len(c2) \in Nat
  BY <1>1, AppendProperties, LenProperties
<1>3. ASSUME NEW i \in 1..n
      PROVE  /\ f[i].type \in Tellings
             /\ f[i].index \in 0..Len(c2) /\ (f[i].index # 0 => f[i].kind = c2[f[i].index].kind)
             /\ f[i].type # "message" => f[i].index # 0
             /\ f[i].type = "start" => f[i].index = Cardinality({j \in 1..i : f[j].type = "start"})
             /\ f[i].type \in {"delta", "end"} =>
                   /\ \E j \in 1..(i - 1) : IsA(f[j], "start", f[i].index)
                   /\ \A j \in 1..(i - 1) : ~IsA(f[j], "end", f[i].index)
  <2>1. f[i] = e[i] /\ i \in Nat /\ \A j \in 1..i : j \in 1..n /\ f[j] = e[j]
    BY <1>2
  <2>2. {j \in 1..i : f[j].type = "start"} = {j \in 1..i : e[j].type = "start"}
    BY <2>1
  <2>3. \A j \in 1..(i - 1) : f[j] = e[j]
    BY <2>1
  <2>4. /\ e[i].type \in Tellings
        /\ e[i].index \in 0..Len(c) /\ (e[i].index # 0 => e[i].kind = c[e[i].index].kind)
        /\ e[i].type # "message" => e[i].index # 0
        /\ e[i].type = "start" => e[i].index = Cardinality({j \in 1..i : e[j].type = "start"})
        /\ e[i].type \in {"delta", "end"} =>
              /\ \E j \in 1..(i - 1) : IsA(e[j], "start", e[i].index)
              /\ \A j \in 1..(i - 1) : ~IsA(e[j], "end", e[i].index)
    BY <1>1 DEF WellTold
  <2>5. f[i].index \in 0..Len(c2) /\ (f[i].index # 0 => f[i].kind = c2[f[i].index].kind)
    BY <1>2, <2>1, <2>4 DEF Extends
  <2>. QED
    BY <2>1, <2>2, <2>3, <2>4, <2>5
<1>4. /\ f[n + 1].type \in Tellings
      /\ f[n + 1].index \in 0..Len(c2) /\ (f[n + 1].index # 0 => f[n + 1].kind = c2[f[n + 1].index].kind)
      /\ f[n + 1].type # "message" => f[n + 1].index # 0
  BY <1>2 DEF Next1
<1>5. f[n + 1].type = "start" => f[n + 1].index = Cardinality({j \in 1..(n + 1) : f[j].type = "start"})
  <2>1. {j \in 1..(n + 1) : f[j].type = "start"} = Starts(f)
    BY <1>2 DEF Starts
  <2>. QED
    BY <1>1, <1>2, <2>1, StartsMore DEF Next1
<1>6. f[n + 1].type \in {"delta", "end"} =>
         /\ \E j \in 1..((n + 1) - 1) : IsA(f[j], "start", f[n + 1].index)
         /\ \A j \in 1..((n + 1) - 1) : ~IsA(f[j], "end", f[n + 1].index)
  <2>1. (n + 1) - 1 = n
    BY <1>2
  <2>. QED
    BY <1>1, <1>2, <2>1 DEF Next1
<1>7. \A i \in 1..(n + 1) : i \in 1..n \/ i = n + 1
  BY <1>2
<1>8. WellTold(f, c2)
  <2>1. \A i \in 1..Len(f) : i \in 1..n \/ i = n + 1
    BY <1>2, <1>7
  <2>. QED
    BY <2>1, <1>3, <1>4, <1>5, <1>6, Zenon DEF WellTold
<1>. QED
  BY <1>1, <1>8

\* The same events, of blocks of the same kinds.
LEMMA ToldAgain ==
  ASSUME NEW e \in Seq(AnswerEvents), NEW c \in Seq(Blocks), NEW c2 \in Seq(Blocks),
         WellTold(e, c), Extends(c, c2)
  PROVE  WellTold(e, c2)
<1>1. Len(c) \in Nat /\ Len(c2) \in Nat /\ Len(e) \in Nat
  BY LenProperties
<1>2. ASSUME NEW i \in 1..Len(e)
      PROVE  e[i].index \in 0..Len(c2) /\ (e[i].index # 0 => e[i].kind = c2[e[i].index].kind)
  <2>1. e[i].index \in 0..Len(c) /\ (e[i].index # 0 => e[i].kind = c[e[i].index].kind)
    BY DEF WellTold
  <2>. QED
    BY <1>1, <2>1 DEF Extends
<1>. QED
  BY <1>2 DEF WellTold

\* The events of an answer that is over.
AllTold(e, c) ==
    /\ \A i \in 1..Len(e) :
          /\ e[i].index # 0 => e[i].kind = c[e[i].index].kind
          /\ e[i].type = "start" => e[i].index = Cardinality({j \in 1..i : e[j].type = "start"})
          /\ e[i].type \in {"delta", "end"} =>
                /\ \E j \in 1..(i - 1) : IsA(e[j], "start", e[i].index)
                /\ \A j \in 1..(i - 1) : ~IsA(e[j], "end", e[i].index)
          /\ e[i].type = "complete" => i = Len(e)
          /\ e[i].type \in {"done", "error"} => i = Len(e) - 1
    /\ e # <<>> /\ e[Len(e)].type = "complete"

LEMMA ToldToTheEnd ==
  ASSUME NEW e \in Seq(AnswerEvents), NEW c, WellTold(e, c),
         NEW type \in {"done", "error"}
  PROVE  /\ AllTold(Append(e, StreamEvent("complete", 0, "none")), c)
         /\ AllTold(Append(Append(e, StreamEvent(type, 0, "none")), StreamEvent("complete", 0, "none")), c)
<1>1. PICK n, x, y, f, g, h :
        /\ n = Len(e) /\ x = StreamEvent(type, 0, "none") /\ y = StreamEvent("complete", 0, "none")
        /\ f = Append(e, x) /\ g = Append(f, y) /\ h = Append(e, y)
  OBVIOUS
<1>2. x \in AnswerEvents /\ y \in AnswerEvents /\ x.type = type /\ y.type = "complete" /\ x.index = 0 /\ y.index = 0
  BY <1>1 DEF StreamEvent, AnswerEvents
<1>3. n \in Nat /\ f \in Seq(AnswerEvents) /\ Len(f) = n + 1 /\ f[n + 1] = x /\ \A j \in 1..n : f[j] = e[j]
  BY <1>1, <1>2, AppendProperties, LenProperties
<1>4. /\ g \in Seq(AnswerEvents) /\ Len(g) = (n + 1) + 1 /\ g[(n + 1) + 1] = y
      /\ \A j \in 1..(n + 1) : g[j] = f[j]
  BY <1>1, <1>2, <1>3, AppendProperties
<1>5. h \in Seq(AnswerEvents) /\ Len(h) = n + 1 /\ h[n + 1] = y /\ \A j \in 1..n : h[j] = e[j]
  BY <1>1, <1>2, AppendProperties
<1>6. Len(g) = n + 2 /\ g[n + 2] = y /\ g[n + 1] = x /\ \A j \in 1..n : g[j] = e[j]
  BY <1>3, <1>4
<1>7. ASSUME NEW w, NEW i \in 1..n, \A j \in 1..n : w[j] = e[j]
      PROVE  /\ w[i].index # 0 => w[i].kind = c[w[i].index].kind
             /\ w[i].type = "start" => w[i].index = Cardinality({j \in 1..i : w[j].type = "start"})
             /\ w[i].type \in {"delta", "end"} =>
                   /\ \E j \in 1..(i - 1) : IsA(w[j], "start", w[i].index)
                   /\ \A j \in 1..(i - 1) : ~IsA(w[j], "end", w[i].index)
             /\ w[i].type \in Tellings
  <2>1. w[i] = e[i] /\ i \in Nat /\ \A j \in 1..i : j \in 1..n /\ w[j] = e[j]
    BY <1>3, <1>7
  <2>2. {j \in 1..i : w[j].type = "start"} = {j \in 1..i : e[j].type = "start"}
    BY <2>1
  <2>3. \A j \in 1..(i - 1) : w[j] = e[j]
    BY <2>1
  <2>. QED
    BY <1>1, <2>1, <2>2, <2>3 DEF WellTold
<1>8. AllTold(h, c)
  <2>1. \A i \in 1..Len(h) : i \in 1..n \/ (i = n + 1 /\ i = Len(h))
    BY <1>3, <1>5
  <2>2. ASSUME NEW i \in 1..n
        PROVE  /\ h[i].index # 0 => h[i].kind = c[h[i].index].kind
               /\ h[i].type = "start" => h[i].index = Cardinality({j \in 1..i : h[j].type = "start"})
               /\ h[i].type \in {"delta", "end"} =>
                     /\ \E j \in 1..(i - 1) : IsA(h[j], "start", h[i].index)
                     /\ \A j \in 1..(i - 1) : ~IsA(h[j], "end", h[i].index)
               /\ h[i].type \in Tellings
    BY <1>5, <1>7
  <2>3. h # <<>>
    <3>1. Len(h) # 0
      BY <1>3, <1>5
    <3>2. Len(<<>>) = 0
      OBVIOUS
    <3>. QED
      BY <3>1, <3>2
  <2>. QED
    BY <1>2, <1>5, <2>1, <2>2, <2>3 DEF AllTold, Tellings
<1>9. AllTold(g, c)
  <2>1. \A i \in 1..Len(g) : i \in 1..n \/ (i = n + 1 /\ i = Len(g) - 1) \/ (i = n + 2 /\ i = Len(g))
    BY <1>3, <1>6
  <2>2. ASSUME NEW i \in 1..n
        PROVE  /\ g[i].index # 0 => g[i].kind = c[g[i].index].kind
               /\ g[i].type = "start" => g[i].index = Cardinality({j \in 1..i : g[j].type = "start"})
               /\ g[i].type \in {"delta", "end"} =>
                     /\ \E j \in 1..(i - 1) : IsA(g[j], "start", g[i].index)
                     /\ \A j \in 1..(i - 1) : ~IsA(g[j], "end", g[i].index)
               /\ g[i].type \in Tellings
    BY <1>6, <1>7
  <2>3. g # <<>>
    <3>1. Len(g) # 0
      BY <1>3, <1>6
    <3>2. Len(<<>>) = 0
      OBVIOUS
    <3>. QED
      BY <3>1, <3>2
  <2>4. /\ g[n + 1].index = 0 /\ g[n + 1].type \in {"done", "error"}
        /\ g[n + 2].index = 0 /\ g[n + 2].type = "complete"
    BY <1>2, <1>6
  <2>5. Len(g) = n + 2
    BY <1>6
  <2>. QED
    BY <2>1, <2>2, <2>3, <2>4, <2>5 DEF AllTold, Tellings
<1>. QED
  BY <1>1, <1>8, <1>9

-----------------------------------------------------------------------
(* A decoder in step with what was said                                         *)

\* The message is what was said, s, block by block.
Matches(d, s) ==
    /\ Len(d.content) = Len(s)
    /\ \A i \in 1..Len(s) :
          /\ d.content[i].kind = s[i].kind
          /\ d.partial[i] = s[i].pieces
          /\ d.content[i].data = IF s[i].kind = "toolCall" THEN Parsed(s[i].pieces) ELSE s[i].pieces

\* Each block has been started; one that has been ended is of an item that has
\* ended, and chat completions end none before the end.
ToldSoFar(a, d, s) ==
    /\ WellTold(d.events, d.content)
    /\ d.events # <<>>
    /\ Cardinality(Starts(d.events)) = Len(d.content)
    /\ \A b \in 1..Len(d.content) : \E j \in 1..Len(d.events) : IsA(d.events[j], "start", b)
    /\ \A j \in 1..Len(d.events) :
          d.events[j].type = "end" => a # "completions" /\ ~s[d.events[j].index].open

InStep(a, d, s) == Tabled(d) /\ Matches(d, s) /\ ToldSoFar(a, d, s)

\* What was said is now s2: item i has other pieces, or it has ended.
Resaid(s, s2, i, p) ==
    /\ s2 \in Seq(Items) /\ Len(s2) = Len(s)
    /\ s2[i].kind = s[i].kind /\ s2[i].open = s[i].open /\ s2[i].pieces = p
    /\ \A j \in 1..Len(s) : j # i => s2[j] = s[j]
Over(s, s2, i) ==
    /\ s2 \in Seq(Items) /\ Len(s2) = Len(s)
    /\ s2[i].kind = s[i].kind /\ ~s2[i].open /\ s2[i].pieces = s[i].pieces
    /\ \A j \in 1..Len(s) : j # i => s2[j] = s[j]

LEMMA BeginsWell ==
  ASSUME NEW a, NEW d, NEW s \in Seq(Items), InStep(a, d, s), NEW kind \in Kinds, NEW key \in Nat,
         NEW id \in Nat, NEW e, Begun(d, e, kind, key, id)
  PROVE  InStep(a, e, Append(s, Item(kind, <<>>)))
<1>1. PICK n, x, it, t :
        /\ n = Len(s) /\ x = StreamEvent("start", n + 1, kind) /\ it = Item(kind, <<>>)
        /\ t = Append(s, it)
  OBVIOUS
<1>2. /\ Tabled(d) /\ Tabled(e) /\ n \in Nat /\ Len(d.content) = n
      /\ e.content = Append(d.content, Block(kind)) /\ e.partial = Append(d.partial, <<>>)
      /\ e.events = Append(d.events, x)
  BY <1>1, LenProperties DEF InStep, Begun, Matches
<1>3. /\ d.content \in Seq(Blocks) /\ d.partial \in Seq(Seq(Pieces)) /\ Len(d.partial) = n
      /\ d.events \in Seq(AnswerEvents) /\ Len(d.events) \in Nat
  BY <1>2, TabledFacts
<1>4. /\ Block(kind) \in Blocks /\ <<>> \in Seq(Pieces) /\ it \in Items /\ it.kind = kind /\ it.pieces = <<>>
      /\ it.open /\ Block(kind).kind = kind /\ Block(kind).data = <<>>
      /\ x \in AnswerEvents /\ x.type = "start" /\ x.index = n + 1 /\ x.kind = kind
  <2>1. <<>> \in Seq(Pieces)
    BY EmptySeq
  <2>. QED
    BY <1>1, <1>2, <2>1 DEF Block, Blocks, Item, Items, StreamEvent, AnswerEvents
<1>5. /\ e.content \in Seq(Blocks) /\ Len(e.content) = n + 1 /\ e.content[n + 1] = Block(kind)
      /\ \A i \in 1..n : e.content[i] = d.content[i]
  BY <1>2, <1>3, <1>4, AppendProperties
<1>6. e.partial[n + 1] = <<>> /\ \A i \in 1..n : e.partial[i] = d.partial[i]
  BY <1>2, <1>3, <1>4, AppendProperties
<1>7. t \in Seq(Items) /\ Len(t) = n + 1 /\ t[n + 1] = it /\ \A i \in 1..n : t[i] = s[i]
  BY <1>1, <1>4, AppendProperties
<1>8. \A i \in 1..(n + 1) : i \in 1..n \/ i = n + 1
  BY <1>2
<1>9. Matches(e, t)
  <2>1. \A i \in 1..n : /\ d.content[i].kind = s[i].kind
                        /\ d.partial[i] = s[i].pieces
                        /\ d.content[i].data = IF s[i].kind = "toolCall" THEN Parsed(s[i].pieces)
                                               ELSE s[i].pieces
    BY <1>1 DEF InStep, Matches
  <2>2. Parsed(<<>>) = <<>>
    BY DEF Parsed
  <2>3. \A i \in 1..n :
            /\ e.content[i].kind = t[i].kind /\ e.partial[i] = t[i].pieces
            /\ e.content[i].data = IF t[i].kind = "toolCall" THEN Parsed(t[i].pieces) ELSE t[i].pieces
    BY <1>5, <1>6, <1>7, <2>1
  <2>4. /\ e.content[n + 1].kind = t[n + 1].kind /\ e.partial[n + 1] = t[n + 1].pieces
        /\ e.content[n + 1].data =
               IF t[n + 1].kind = "toolCall" THEN Parsed(t[n + 1].pieces) ELSE t[n + 1].pieces
    BY <1>4, <1>5, <1>6, <1>7, <2>2
  <2>. QED
    BY <1>5, <1>7, <1>8, <2>3, <2>4 DEF Matches
<1>10. WellTold(e.events, e.content)
  <2>1. WellTold(d.events, d.content) /\ Cardinality(Starts(d.events)) = n
    BY <1>2 DEF InStep, ToldSoFar
  <2>2. Extends(d.content, e.content)
    BY <1>2, <1>5 DEF Extends
  <2>3. Next1(d.events, e.content, x)
    BY <1>2, <1>4, <1>5, <2>1 DEF Next1, Tellings
  <2>. QED
    BY <1>2, <1>3, <1>4, <1>5, <2>1, <2>2, <2>3, ToldMore
<1>11. Cardinality(Starts(e.events)) = Len(e.content)
  <2>1. Cardinality(Starts(d.events)) = n
    BY <1>2 DEF InStep, ToldSoFar
  <2>2. Cardinality(Starts(e.events)) = Cardinality(Starts(d.events)) + 1
    BY <1>2, <1>3, <1>4, StartsMore
  <2>. QED
    BY <1>5, <2>1, <2>2
<1>12. PICK m : m = Len(d.events)
  OBVIOUS
<1>13. /\ m \in Nat /\ Len(e.events) = m + 1 /\ e.events[m + 1] = x
       /\ \A j \in 1..m : e.events[j] = d.events[j]
  BY <1>2, <1>3, <1>4, <1>12, AppendProperties
<1>14. \A j \in 1..(m + 1) : j \in 1..m \/ j = m + 1
  BY <1>13
<1>15. ASSUME NEW b \in 1..Len(e.content)
       PROVE  \E j \in 1..Len(e.events) : IsA(e.events[j], "start", b)
  <2>1. CASE b \in 1..n
    <3>1. PICK j \in 1..m : IsA(d.events[j], "start", b)
      BY <1>2, <1>12, <2>1 DEF InStep, ToldSoFar
    <3>. QED
      BY <1>13, <3>1
  <2>2. CASE b = n + 1
    <3>1. IsA(e.events[m + 1], "start", b) /\ m + 1 \in 1..(m + 1)
      BY <1>4, <1>13, <2>2 DEF IsA
    <3>. QED
      BY <1>13, <3>1
  <2>. QED
    BY <1>5, <1>8, <2>1, <2>2
<1>16. ASSUME NEW j \in 1..Len(e.events), e.events[j].type = "end"
       PROVE  a # "completions" /\ ~t[e.events[j].index].open
  <2>1. j \in 1..m
    BY <1>4, <1>13, <1>14, <1>16
  <2>2. e.events[j] = d.events[j]
    BY <1>13, <2>1
  <2>3. a # "completions" /\ ~s[d.events[j].index].open
    BY <1>12, <1>16, <2>1, <2>2 DEF InStep, ToldSoFar
  <2>4. d.events[j].index \in 1..n
    <3>1. d.events[j].index \in 0..n /\ d.events[j].index # 0
      BY <1>2, <1>12, <1>16, <2>1, <2>2 DEF InStep, ToldSoFar, WellTold
    <3>. QED
      BY <1>2, <3>1
  <2>. QED
    BY <1>7, <2>2, <2>3, <2>4
<1>17. e.events # <<>>
  <2>1. Len(e.events) # 0
    BY <1>13
  <2>2. Len(<<>>) = 0
    OBVIOUS
  <2>. QED
    BY <2>1, <2>2
<1>18. ToldSoFar(a, e, t)
  BY <1>10, <1>11, <1>15, <1>16, <1>17 DEF ToldSoFar
<1>. QED
  BY <1>1, <1>2, <1>9, <1>18 DEF InStep

LEMMA ChangesWell ==
  ASSUME NEW a, NEW d, NEW s \in Seq(Items), InStep(a, d, s), NEW i \in 1..Len(s),
         NEW data, NEW partial, NEW e, Changed(d, e, i, data, partial),
         NEW t, Resaid(s, t, i, partial),
         data = IF s[i].kind = "toolCall" THEN Parsed(partial) ELSE partial
  PROVE  InStep(a, e, t)
<1>1. /\ Tabled(d) /\ Tabled(e) /\ Len(d.content) = Len(s) /\ Len(e.content) = Len(s) /\ e.events = d.events
      /\ e.content[i] = [kind |-> d.content[i].kind, data |-> data] /\ e.partial[i] = partial
      /\ \A j \in 1..Len(s) : j # i => e.content[j] = d.content[j] /\ e.partial[j] = d.partial[j]
  BY DEF InStep, Matches, Changed
<1>2. \A j \in 1..Len(s) : e.content[j].kind = d.content[j].kind
  BY <1>1
<1>3. Matches(e, t)
  <2>1. Len(t) = Len(s) /\ t[i].kind = s[i].kind /\ t[i].pieces = partial /\ \A j \in 1..Len(s) : j # i => t[j] = s[j]
    BY DEF Resaid
  <2>2. \A j \in 1..Len(s) : /\ d.content[j].kind = s[j].kind
                             /\ d.partial[j] = s[j].pieces
                             /\ d.content[j].data = IF s[j].kind = "toolCall" THEN Parsed(s[j].pieces)
                                                    ELSE s[j].pieces
    BY DEF InStep, Matches
  <2>3. /\ e.content[i].kind = t[i].kind /\ e.partial[i] = t[i].pieces
        /\ e.content[i].data = IF t[i].kind = "toolCall" THEN Parsed(t[i].pieces) ELSE t[i].pieces
    BY <1>1, <2>1, <2>2
  <2>4. \A j \in 1..Len(s) : j # i =>
            /\ e.content[j].kind = t[j].kind /\ e.partial[j] = t[j].pieces
            /\ e.content[j].data = IF t[j].kind = "toolCall" THEN Parsed(t[j].pieces) ELSE t[j].pieces
    BY <1>1, <2>1, <2>2
  <2>. QED
    BY <1>1, <2>1, <2>3, <2>4 DEF Matches
<1>4. WellTold(e.events, e.content)
  <2>1. Extends(d.content, e.content)
    <3>1. Len(s) \in Nat
      BY LenProperties
    <3>. QED
      BY <1>1, <1>2, <3>1 DEF Extends
  <2>. QED
    BY <1>1, <2>1, TabledFacts, ToldAgain DEF InStep, ToldSoFar
<1>5. \A j \in 1..Len(s) : t[j].open = s[j].open
  BY DEF Resaid
<1>6. ASSUME NEW j \in 1..Len(e.events), e.events[j].type = "end"
      PROVE  a # "completions" /\ ~t[e.events[j].index].open
  <2>1. a # "completions" /\ ~s[d.events[j].index].open
    BY <1>1, <1>6 DEF InStep, ToldSoFar
  <2>2. d.events[j].index \in 0..Len(s) /\ d.events[j].index # 0
    BY <1>1, <1>6 DEF InStep, ToldSoFar, WellTold
  <2>3. d.events[j].index \in 1..Len(s)
    BY <2>2, LenProperties
  <2>. QED
    BY <1>1, <1>5, <2>1, <2>3
<1>7. ToldSoFar(a, e, t)
  BY <1>1, <1>4, <1>6 DEF InStep, ToldSoFar
<1>. QED
  BY <1>1, <1>3, <1>7 DEF InStep

\* An event of an item's delta or of its end.
LEMMA TellsWell ==
  ASSUME NEW a, NEW d, NEW s \in Seq(Items), InStep(a, d, s), NEW i \in 1..Len(s),
         NEW type \in {"delta", "end"}, a = "completions" \/ s[i].open,
         NEW t, Len(t) = Len(s), \A j \in 1..Len(s) : j # i => t[j] = s[j],
         t[i].kind = s[i].kind, t[i].pieces = s[i].pieces,
         IF type = "end" THEN a # "completions" /\ ~t[i].open ELSE t[i].open = s[i].open
  PROVE  InStep(a, EmitBlock(d, type, i), t)
<1>1. PICK e, x : e = EmitBlock(d, type, i) /\ x = StreamEvent(type, i, d.content[i].kind)
  OBVIOUS
<1>2. /\ Tabled(d) /\ Len(d.content) = Len(s) /\ i \in 1..Len(d.content) /\ Len(s) \in Nat
  BY LenProperties DEF InStep, Matches
<1>3. Tabled(e) /\ e.content = d.content /\ e.partial = d.partial /\ e.events = Append(d.events, x)
  BY <1>1, <1>2, EmitBlockIs
<1>4. x \in AnswerEvents /\ x.type = type /\ x.index = i /\ x.kind = d.content[i].kind
  <2>1. d.content[i] \in Blocks /\ i \in Nat
    BY <1>2, TabledFacts
  <2>. QED
    BY <1>1, <2>1 DEF StreamEvent, AnswerEvents, Blocks
<1>5. PICK m : m = Len(d.events)
  OBVIOUS
<1>6. /\ m \in Nat /\ d.events \in Seq(AnswerEvents) /\ Len(e.events) = m + 1 /\ e.events[m + 1] = x
      /\ \A j \in 1..m : e.events[j] = d.events[j]
      /\ d.content \in Seq(Blocks)
  BY <1>2, <1>3, <1>4, <1>5, TabledFacts, AppendProperties
<1>7. Matches(e, t)
  <2>1. \A j \in 1..Len(s) : t[j].kind = s[j].kind /\ t[j].pieces = s[j].pieces
    OBVIOUS
  <2>. QED
    BY <1>3, <2>1 DEF InStep, Matches
<1>8. Next1(d.events, d.content, x)
  <2>1. \E j \in 1..Len(d.events) : IsA(d.events[j], "start", i)
    BY <1>2 DEF InStep, ToldSoFar
  <2>2. \A j \in 1..Len(d.events) : ~IsA(d.events[j], "end", i)
    BY DEF InStep, ToldSoFar, IsA
  <2>3. i \in 0..Len(d.content) /\ i # 0
    BY <1>2
  <2>. QED
    BY <1>4, <2>1, <2>2, <2>3 DEF Next1, Tellings
<1>9. WellTold(e.events, e.content)
  <2>1. Extends(d.content, d.content)
    BY <1>2 DEF Extends
  <2>. QED
    BY <1>3, <1>4, <1>6, <1>8, <2>1, ToldMore DEF InStep, ToldSoFar
<1>10. Cardinality(Starts(e.events)) = Len(e.content)
  BY <1>3, <1>4, <1>6, StartsMore DEF InStep, ToldSoFar
<1>11. \A b \in 1..Len(e.content) : \E j \in 1..Len(e.events) : IsA(e.events[j], "start", b)
  <2>1. \A b \in 1..Len(d.content) : \E j \in 1..m : IsA(d.events[j], "start", b)
    BY <1>5 DEF InStep, ToldSoFar
  <2>2. \A j \in 1..m : j \in 1..Len(e.events)
    BY <1>6
  <2>. QED
    BY <1>3, <1>6, <2>1, <2>2
<1>12. ASSUME NEW j \in 1..Len(e.events), e.events[j].type = "end"
       PROVE  a # "completions" /\ ~t[e.events[j].index].open
  <2>1. CASE j \in 1..m
    <3>1. e.events[j] = d.events[j]
      BY <1>6, <2>1
    <3>2. a # "completions" /\ ~s[d.events[j].index].open
      BY <1>5, <1>12, <2>1, <3>1 DEF InStep, ToldSoFar
    <3>3. d.events[j].index \in 0..Len(s) /\ d.events[j].index # 0
      BY <1>2, <1>5, <1>12, <2>1, <3>1 DEF InStep, ToldSoFar, WellTold
    <3>4. d.events[j].index \in 1..Len(s) /\ d.events[j].index # i
      BY <1>2, <3>2, <3>3
    <3>. QED
      BY <3>1, <3>2, <3>4
  <2>2. CASE j = m + 1
    BY <1>4, <1>6, <1>12, <2>2
  <2>. QED
    BY <1>6, <2>1, <2>2
<1>13. e.events # <<>>
  <2>1. Len(e.events) # 0
    BY <1>6
  <2>2. Len(<<>>) = 0
    OBVIOUS
  <2>. QED
    BY <2>1, <2>2
<1>. QED
  BY <1>1, <1>3, <1>7, <1>9, <1>10, <1>11, <1>12, <1>13 DEF InStep, ToldSoFar

-----------------------------------------------------------------------
(* Where the decoders find a block                                              *)

\* The number of item i among the calls.
Calls(s, i) == Cardinality({j \in 1..i : s[j].kind = "toolCall"})

\* What each protocol's decoder finds its blocks by.
Found(a, nm, d, s) ==
    /\ a = "anthropic" => \A i \in 1..Len(s) : d.key[i] = i
    /\ a \in {"responses", "codex"} =>
          /\ \A i \in 1..Len(s) : s[i].open => i = Len(s)
          /\ d.open <=> s # <<>> /\ s[Len(s)].open
    /\ a = "completions" =>
          /\ \A i \in 1..Len(s) : s[i].pieces # <<>>
          /\ \A i, j \in 1..Len(s) : s[i].kind = s[j].kind /\ s[i].kind # "toolCall" => i = j
          /\ \A i \in 1..Len(s) : s[i].kind # "toolCall" => d.key[i] = 0 /\ d.ids[i] = 0
          /\ \A i \in 1..Len(s) : s[i].kind = "toolCall" =>
                IF nm = "id" THEN d.key[i] = 0 /\ d.ids[i] = Calls(s, i)
                ELSE d.key[i] = Calls(s, i) /\ d.ids[i] \in {0, Calls(s, i)}

Follows(a, nm, d, s) == InStep(a, d, s) /\ Found(a, nm, d, s)
Takes(a, nm, d, e, s) == Follows(a, nm, e, s) /\ e.stop = d.stop /\ e.finish = d.finish

LEMMA MinOne == \A k \in Nat : Min({k}) = k
  BY DEF Min

LEMMA FindBlockIs ==
  ASSUME NEW d, Tabled(d), NEW i \in 1..Len(d.content), \A j \in 1..Len(d.content) : d.key[j] = j
  PROVE  FindBlock(d, i) = i
<1>1. Len(d.key) = Len(d.content) /\ i \in Nat
  BY TabledFacts
<1>2. {j \in 1..Len(d.key) : d.key[j] = i} = {i}
  BY <1>1
<1>. QED
  BY <1>1, <1>2, MinOne DEF FindBlock, SelectInSeq

LEMMA CallBlockIs ==
  ASSUME NEW d, Tabled(d), NEW index \in Nat, NEW id \in Nat
  PROVE  /\ \A i \in 1..Len(d.content) :
               index # 0 /\ (\A j \in 1..Len(d.content) : d.key[j] = index <=> j = i)
                   => CallBlock(d, index, id) = i
         /\ \A i \in 1..Len(d.content) :
               index = 0 /\ id # 0 /\ (\A j \in 1..Len(d.content) : d.ids[j] = id <=> j = i)
                   => CallBlock(d, index, id) = i
         /\ /\ index = 0 \/ \A j \in 1..Len(d.content) : d.key[j] # index
            /\ id = 0 \/ \A j \in 1..Len(d.content) : d.ids[j] # id
            => CallBlock(d, index, id) = 0
<1>. DEFINE I == {j \in 1..Len(d.key) : index # 0 /\ d.key[j] = index}
            J == {j \in 1..Len(d.ids) : id # 0 /\ d.ids[j] = id}
            atI == IF I # {} THEN Min(I) ELSE 0
            atJ == IF J # {} THEN Min(J) ELSE 0
<1>1. CallBlock(d, index, id) = IF atI # 0 THEN atI ELSE atJ
  BY DEF CallBlock, SelectInSeq
<1>2. Len(d.key) = Len(d.content) /\ Len(d.ids) = Len(d.content) /\ Len(d.content) \in Nat
  BY TabledFacts
<1>. HIDE DEF atI, atJ
<1>3. ASSUME NEW i \in 1..Len(d.content), index # 0, \A j \in 1..Len(d.content) : d.key[j] = index <=> j = i
      PROVE  CallBlock(d, index, id) = i
  <2>1. I = {i} /\ i \in Nat /\ i # 0
    BY <1>2, <1>3
  <2>2. atI = i
    BY <2>1, MinOne DEF atI
  <2>. QED
    BY <1>1, <2>1, <2>2
<1>4. ASSUME NEW i \in 1..Len(d.content), index = 0, id # 0,
             \A j \in 1..Len(d.content) : d.ids[j] = id <=> j = i
      PROVE  CallBlock(d, index, id) = i
  <2>1. J = {i} /\ i \in Nat /\ I = {}
    BY <1>2, <1>4
  <2>2. atJ = i /\ atI = 0
    BY <2>1, MinOne DEF atI, atJ
  <2>. QED
    BY <1>1, <2>2
<1>5. ASSUME index = 0 \/ \A j \in 1..Len(d.content) : d.key[j] # index,
             id = 0 \/ \A j \in 1..Len(d.content) : d.ids[j] # id
      PROVE  CallBlock(d, index, id) = 0
  <2>1. I = {} /\ J = {}
    BY <1>2, <1>5
  <2>2. atI = 0 /\ atJ = 0
    BY <2>1 DEF atI, atJ
  <2>. QED
    BY <1>1, <2>2
<1>. QED
  BY <1>3, <1>4, <1>5

\* A call has a number of its own.
LEMMA CallsApart ==
  ASSUME NEW s, NEW i \in Nat, NEW j \in Nat
  PROVE  /\ Calls(s, i) \in Nat
         /\ i \in 1..j => Calls(s, i) <= Calls(s, j)
         /\ i < j /\ s[j].kind = "toolCall" => Calls(s, i) < Calls(s, j)
         /\ i # 0 /\ s[i].kind = "toolCall" => Calls(s, i) # 0
<1>. DEFINE C(k) == {m \in 1..k : s[m].kind = "toolCall"}
<1>1. ASSUME NEW k \in Nat PROVE IsFiniteSet(C(k)) /\ Cardinality(C(k)) \in Nat
  <2>1. IsFiniteSet(1..k) /\ C(k) \subseteq 1..k
    BY FS_Interval
  <2>. QED
    BY <2>1, FS_Subset, FS_CardinalityType
<1>2. ASSUME i \in 1..j PROVE Cardinality(C(i)) <= Cardinality(C(j))
  <2>1. C(i) \subseteq C(j)
    BY <1>2
  <2>. QED
    BY <1>1, <2>1, FS_Subset
<1>3. ASSUME i < j, s[j].kind = "toolCall" PROVE Cardinality(C(i)) < Cardinality(C(j))
  <2>1. C(i) \cup {j} \subseteq C(j) /\ j \notin C(i)
    BY <1>3
  <2>2. Cardinality(C(i) \cup {j}) = Cardinality(C(i)) + 1
    BY <1>1, <2>1, FS_AddElement
  <2>3. Cardinality(C(i) \cup {j}) <= Cardinality(C(j))
    BY <1>1, <2>1, FS_Subset
  <2>4. PICK m, n : m = Cardinality(C(i)) /\ n = Cardinality(C(j))
    OBVIOUS
  <2>5. m \in Nat /\ n \in Nat /\ m + 1 <= n
    BY <1>1, <2>2, <2>3, <2>4
  <2>6. m < n
    BY <2>5
  <2>. QED
    BY <2>4, <2>6
<1>4. ASSUME i # 0, s[i].kind = "toolCall" PROVE Cardinality(C(i)) # 0
  <2>1. i \in C(i)
    BY <1>4
  <2>. QED
    BY <1>1, <2>1, FS_EmptySet
<1>. QED
  BY <1>1, <1>2, <1>3, <1>4 DEF Calls

LEMMA SameCalls ==
  ASSUME NEW s, NEW t, NEW i \in Nat, \A j \in 1..i : t[j].kind = s[j].kind
  PROVE  Calls(t, i) = Calls(s, i)
<1>1. {j \in 1..i : t[j].kind = "toolCall"} = {j \in 1..i : s[j].kind = "toolCall"}
  OBVIOUS
<1>. QED
  BY <1>1 DEF Calls

-----------------------------------------------------------------------
(* The decoders take what is said                                               *)

LEMMA GrowsWell ==
  ASSUME NEW a, NEW d, NEW s \in Seq(Items), InStep(a, d, s), NEW i \in 1..Len(s), NEW piece \in Pieces,
         a = "completions" \/ s[i].open, NEW t, Resaid(s, t, i, Append(s[i].pieces, piece)),
         NEW e, e = EmitBlock(Grow(d, i, piece), "delta", i)
  PROVE  InStep(a, e, t) /\ SameBut(d, e) /\ e.key = d.key /\ e.ids = d.ids
<1>1. PICK g, p, data :
        /\ g = Grow(d, i, piece) /\ p = Append(s[i].pieces, piece)
        /\ data = IF s[i].kind = "toolCall" THEN Parsed(p) ELSE p
  OBVIOUS
<1>2. /\ Tabled(d) /\ i \in 1..Len(d.content) /\ d.partial[i] = s[i].pieces /\ d.content[i].kind = s[i].kind
  BY DEF InStep, Matches
<1>3. Changed(d, g, i, data, p)
  BY <1>1, <1>2, GrowIs
<1>4. Resaid(s, t, i, p)
  BY <1>1
<1>5. InStep(a, g, t)
  BY <1>1, <1>3, <1>4, ChangesWell
<1>6. /\ t \in Seq(Items) /\ i \in 1..Len(t) /\ t[i].open = s[i].open
  BY DEF Resaid
<1>7. InStep(a, e, t)
  BY <1>1, <1>5, <1>6, TellsWell
<1>8. Tabled(g) /\ SameBut(d, g) /\ g.key = d.key /\ g.ids = d.ids /\ i \in 1..Len(g.content)
  BY <1>2, <1>3 DEF Changed
<1>9. SameBut(g, e) /\ e.key = g.key /\ e.ids = g.ids
  BY <1>1, <1>8, EmitBlockIs
<1>. QED
  BY <1>7, <1>8, <1>9 DEF SameBut

LEMMA AnthropicStarts ==
  ASSUME NEW nm, NEW d, NEW s \in Seq(Items), Follows("anthropic", nm, d, s), NEW kind \in Kinds
  PROVE  Takes("anthropic", nm, d, AnthropicStart(d, Len(s) + 1, kind), Append(s, Item(kind, <<>>)))
<1>1. PICK e, t, n : e = AnthropicStart(d, n + 1, kind) /\ t = Append(s, Item(kind, <<>>)) /\ n = Len(s)
  OBVIOUS
<1>2. InStep("anthropic", d, s) /\ Tabled(d) /\ Len(d.content) = n /\ n \in Nat
  BY <1>1, LenProperties DEF Follows, InStep, Matches
<1>3. Begun(d, e, kind, n + 1, 0)
  BY <1>1, <1>2, StartBlockIs DEF AnthropicStart
<1>4. InStep("anthropic", e, t)
  BY <1>1, <1>2, <1>3, BeginsWell
<1>5. e.key = Append(d.key, n + 1) /\ d.key \in Seq(Nat) /\ Len(d.key) = n
  BY <1>2, <1>3, TabledFacts DEF Begun
<1>6. e.key[n + 1] = n + 1 /\ \A i \in 1..n : e.key[i] = d.key[i]
  BY <1>2, <1>5, AppendProperties
<1>7. Len(t) = n + 1
  BY <1>2, <1>4, <1>3, <1>5 DEF InStep, Tabled, Begun, Matches
<1>8. \A i \in 1..(n + 1) : i \in 1..n \/ i = n + 1
  BY <1>2
<1>9. \A i \in 1..Len(t) : e.key[i] = i
  BY <1>1, <1>6, <1>7, <1>8 DEF Follows, Found
<1>10. Found("anthropic", nm, e, t)
  BY <1>9 DEF Found
<1>. QED
  BY <1>1, <1>3, <1>4, <1>10 DEF Takes, Follows, Begun, SameBut

LEMMA AnthropicGrows ==
  ASSUME NEW nm, NEW d, NEW s \in Seq(Items), Follows("anthropic", nm, d, s), NEW i \in 1..Len(s),
         s[i].open, NEW piece \in Pieces, NEW t, Resaid(s, t, i, Append(s[i].pieces, piece))
  PROVE  Takes("anthropic", nm, d, AnthropicDelta(d, i, s[i].kind, piece), t)
<1>1. /\ InStep("anthropic", d, s) /\ Tabled(d) /\ Len(d.content) = Len(s) /\ d.content[i].kind = s[i].kind
      /\ \A j \in 1..Len(s) : d.key[j] = j
  BY DEF Follows, Found, InStep, Matches
<1>2. FindBlock(d, i) = i /\ i # 0
  BY <1>1, FindBlockIs
<1>3. PICK e : e = AnthropicDelta(d, i, s[i].kind, piece)
  OBVIOUS
<1>4. e = EmitBlock(Grow(d, i, piece), "delta", i)
  BY <1>1, <1>2, <1>3 DEF AnthropicDelta
<1>5. InStep("anthropic", e, t) /\ SameBut(d, e) /\ e.key = d.key
  BY <1>1, <1>4, GrowsWell
<1>6. Found("anthropic", nm, e, t)
  BY <1>1, <1>5 DEF Found, Resaid
<1>. QED
  BY <1>3, <1>5, <1>6 DEF Takes, Follows, SameBut

LEMMA AnthropicEnds ==
  ASSUME NEW nm, NEW d, NEW s \in Seq(Items), Follows("anthropic", nm, d, s), NEW i \in 1..Len(s),
         s[i].open, NEW t, Over(s, t, i)
  PROVE  Takes("anthropic", nm, d, AnthropicStop(d, i), t)
<1>1. /\ InStep("anthropic", d, s) /\ Tabled(d) /\ Len(d.content) = Len(s) /\ d.content[i].kind = s[i].kind
      /\ d.partial[i] = s[i].pieces
      /\ \A j \in 1..Len(s) : d.key[j] = j
  BY DEF Follows, Found, InStep, Matches
<1>2. FindBlock(d, i) = i /\ i # 0
  BY <1>1, FindBlockIs
<1>3. PICK e, g, data :
        /\ e = AnthropicStop(d, i) /\ data = Parsed(d.partial[i])
        /\ g = IF d.content[i].kind = "toolCall" THEN [d EXCEPT !.content[i].data = data] ELSE d
  OBVIOUS
<1>4. e = EmitBlock(g, "end", i)
  BY <1>2, <1>3 DEF AnthropicStop
<1>5. InStep("anthropic", g, s) /\ SameBut(d, g) /\ g.key = d.key
  <2>1. CASE s[i].kind = "toolCall"
    <3>1. d.partial[i] \in Seq(Pieces)
      BY <1>1, TabledFacts
    <3>2. data \in Seq(Pieces)
      BY <1>3, <3>1, ParsedIs
    <3>3. Changed(d, [d EXCEPT !.content[i].data = data], i, data, d.partial[i])
      BY <1>1, <3>1, <3>2, ChangedIs
    <3>4. Changed(d, g, i, data, s[i].pieces)
      BY <1>1, <1>3, <2>1, <3>3
    <3>5. Resaid(s, s, i, s[i].pieces)
      BY DEF Resaid
    <3>6. data = IF s[i].kind = "toolCall" THEN Parsed(s[i].pieces) ELSE s[i].pieces
      BY <1>1, <1>3, <2>1
    <3>7. InStep("anthropic", g, s)
      BY <1>1, <3>4, <3>5, <3>6, ChangesWell
    <3>. QED
      BY <3>4, <3>7 DEF Changed
  <2>2. CASE s[i].kind # "toolCall"
    BY <1>1, <1>3, <2>2 DEF SameBut
  <2>. QED
    BY <2>1, <2>2
<1>6. InStep("anthropic", e, t)
  BY <1>4, <1>5, TellsWell DEF Over
<1>7. Tabled(g) /\ i \in 1..Len(g.content)
  BY <1>5 DEF InStep, Matches
<1>8. SameBut(g, e) /\ e.key = g.key
  BY <1>4, <1>7, EmitBlockIs
<1>9. Found("anthropic", nm, e, t)
  BY <1>1, <1>5, <1>8 DEF Found, Over
<1>. QED
  BY <1>3, <1>5, <1>6, <1>8, <1>9 DEF Takes, Follows, SameBut

\* What else changes in a decoder is not of its blocks.
LEMMA OtherFields ==
  ASSUME NEW a, NEW d, NEW s, InStep(a, d, s), NEW e, Tabled(e),
         e.content = d.content, e.partial = d.partial, e.events = d.events
  PROVE  InStep(a, e, s)
  BY DEF InStep, Matches, ToldSoFar

LEMMA FieldsSet ==
  ASSUME NEW d, Tabled(d), NEW b \in BOOLEAN, NEW stop \in Stops
  PROVE  /\ Tabled([d EXCEPT !.open = b]) /\ Tabled([d EXCEPT !.stop = stop])
         /\ Tabled([d EXCEPT !.stop = stop, !.finish = TRUE])
  BY DEF Tabled, Decoders

LEMMA ResponsesAdds ==
  ASSUME NEW a \in {"responses", "codex"}, NEW nm, NEW d, NEW s \in Seq(Items), Follows(a, nm, d, s),
         \A i \in 1..Len(s) : ~s[i].open, NEW kind \in Kinds
  PROVE  Takes(a, nm, d, ResponsesAdded(d, kind), Append(s, Item(kind, <<>>)))
<1>1. PICK e, g, t : /\ e = ResponsesAdded(d, kind) /\ g = StartBlock(d, kind, 0, 0)
                     /\ t = Append(s, Item(kind, <<>>))
  OBVIOUS
<1>2. InStep(a, d, s) /\ Tabled(d) /\ Len(s) \in Nat
  BY LenProperties DEF Follows, InStep
<1>3. Begun(d, g, kind, 0, 0)
  BY <1>1, <1>2, StartBlockIs
<1>4. InStep(a, g, t) /\ Tabled(g)
  BY <1>1, <1>2, <1>3, BeginsWell DEF InStep
<1>5. e = [g EXCEPT !.open = TRUE] /\ g \in Decoders
  BY <1>1, <1>4 DEF ResponsesAdded, Tabled
<1>6. /\ Tabled(e) /\ e.open /\ e.content = g.content /\ e.partial = g.partial /\ e.events = g.events
      /\ e.stop = g.stop /\ e.finish = g.finish
  BY <1>4, <1>5, FieldsSet DEF Decoders
<1>7. InStep(a, e, t)
  BY <1>4, <1>6, OtherFields
<1>8. Item(kind, <<>>) \in Items /\ Item(kind, <<>>).open
  <2>1. <<>> \in Seq(Pieces)
    BY EmptySeq
  <2>. QED
    BY <2>1 DEF Item, Items
<1>9. /\ Len(t) = Len(s) + 1 /\ t[Len(s) + 1].open /\ \A i \in 1..Len(s) : t[i] = s[i]
  BY <1>1, <1>8, AppendProperties
<1>10. t # <<>>
  <2>1. Len(<<>>) = 0 /\ Len(t) # 0
    BY <1>2, <1>9
  <2>. QED
    BY <2>1
<1>11. \A i \in 1..Len(t) : t[i].open => i = Len(t)
  <2>1. \A i \in 1..Len(t) : i \in 1..Len(s) \/ i = Len(t)
    BY <1>2, <1>9
  <2>. QED
    BY <1>9, <2>1
<1>12. Found(a, nm, e, t)
  BY <1>6, <1>9, <1>10, <1>11 DEF Found
<1>. QED
  BY <1>1, <1>3, <1>6, <1>7, <1>12 DEF Takes, Follows, Begun, SameBut

\* The current block is that of the open item.
LEMMA CurrentIs ==
  ASSUME NEW a \in {"responses", "codex"}, NEW nm, NEW d, NEW s \in Seq(Items), Follows(a, nm, d, s),
         NEW i \in 1..Len(s), s[i].open
  PROVE  /\ i = Len(d.content) /\ Len(d.content) = Len(s) /\ d.open /\ IsCurrent(d, s[i].kind)
         /\ InStep(a, d, s) /\ Tabled(d) /\ d.content[i].kind = s[i].kind /\ d.partial[i] = s[i].pieces
         /\ i \in 1..Len(d.content)
<1>1. /\ InStep(a, d, s) /\ Tabled(d) /\ Len(d.content) = Len(s) /\ d.content[i].kind = s[i].kind
      /\ d.partial[i] = s[i].pieces
  BY DEF Follows, InStep, Matches
<1>2. i = Len(s) /\ (d.open <=> s # <<>> /\ s[Len(s)].open)
  BY DEF Follows, Found
<1>3. s # <<>>
  <2>1. Len(<<>>) = 0
    OBVIOUS
  <2>. QED
    BY <1>2, <2>1
<1>4. d.open
  BY <1>2, <1>3
<1>. QED
  BY <1>1, <1>2, <1>4 DEF IsCurrent, Last

\* Items and blocks as before, and one of them has other pieces.
LEMMA StillOpen ==
  ASSUME NEW a \in {"responses", "codex"}, NEW nm, NEW d, NEW s \in Seq(Items), Follows(a, nm, d, s),
         NEW i \in 1..Len(s), s[i].open, NEW p, NEW t, Resaid(s, t, i, p), NEW e, e.open = d.open
  PROVE  Found(a, nm, e, t)
<1>1. /\ i = Len(s) /\ d.open /\ (\A j \in 1..Len(s) : s[j].open => j = Len(s))
  BY CurrentIs DEF Follows, Found
<1>2. Len(t) = Len(s) /\ \A j \in 1..Len(s) : t[j].open = s[j].open
  BY DEF Resaid
<1>3. t # <<>>
  <2>1. Len(<<>>) = 0
    OBVIOUS
  <2>. QED
    BY <1>1, <1>2, <2>1
<1>. QED
  BY <1>1, <1>2, <1>3 DEF Found

LEMMA ResponsesGrows ==
  ASSUME NEW a \in {"responses", "codex"}, NEW nm, NEW d, NEW s \in Seq(Items), Follows(a, nm, d, s),
         NEW i \in 1..Len(s), s[i].open, NEW piece \in Pieces,
         NEW t, Resaid(s, t, i, Append(s[i].pieces, piece))
  PROVE  Takes(a, nm, d, ResponsesDelta(d, s[i].kind, piece), t)
<1>1. PICK e : e = ResponsesDelta(d, s[i].kind, piece)
  OBVIOUS
<1>2. e = EmitBlock(Grow(d, i, piece), "delta", i)
  BY <1>1, CurrentIs DEF ResponsesDelta
<1>3. InStep(a, e, t) /\ SameBut(d, e)
  BY <1>2, CurrentIs, GrowsWell
<1>4. Found(a, nm, e, t)
  BY <1>3, StillOpen DEF SameBut
<1>. QED
  BY <1>1, <1>3, <1>4 DEF Takes, Follows, SameBut

LEMMA ResponsesArguments ==
  ASSUME NEW a \in {"responses", "codex"}, NEW nm, NEW d, NEW s \in Seq(Items), Follows(a, nm, d, s),
         NEW i \in 1..Len(s), s[i].open, s[i].kind = "toolCall", NEW whole \in Seq(Pieces),
         NEW t, Resaid(s, t, i, whole)
  PROVE  Takes(a, nm, d, ResponsesArgumentsDone(d, whole), t)
<1>1. PICK e, g, data :
        /\ e = ResponsesArgumentsDone(d, whole) /\ data = Parsed(whole)
        /\ g = [d EXCEPT !.partial[i] = whole, !.content[i].data = data]
  OBVIOUS
<1>2. /\ i = Len(d.content) /\ IsCurrent(d, "toolCall") /\ InStep(a, d, s) /\ Tabled(d)
      /\ i \in 1..Len(d.content) /\ d.content[i].kind = "toolCall"
  BY CurrentIs
<1>3. e = IF IsStrictPrefix(d.partial[i], whole) THEN EmitBlock(g, "delta", i) ELSE g
  BY <1>1, <1>2 DEF ResponsesArgumentsDone
<1>4. data \in Seq(Pieces)
  BY <1>1, ParsedIs
<1>5. Changed(d, g, i, data, whole)
  BY <1>1, <1>2, <1>4, ChangedIs
<1>6. data = IF s[i].kind = "toolCall" THEN Parsed(whole) ELSE whole
  BY <1>1
<1>7. InStep(a, g, t) /\ Tabled(g) /\ SameBut(d, g) /\ i \in 1..Len(g.content)
  BY <1>2, <1>5, <1>6, ChangesWell DEF Changed
<1>8. t \in Seq(Items) /\ i \in 1..Len(t) /\ t[i].open
  BY DEF Resaid
<1>9. InStep(a, EmitBlock(g, "delta", i), t) /\ SameBut(g, EmitBlock(g, "delta", i))
  BY <1>7, <1>8, TellsWell, EmitBlockIs
<1>10. InStep(a, e, t) /\ SameBut(d, e)
  BY <1>3, <1>7, <1>9 DEF SameBut
<1>11. Found(a, nm, e, t)
  BY <1>10, StillOpen DEF SameBut
<1>. QED
  BY <1>1, <1>10, <1>11 DEF Takes, Follows, SameBut

LEMMA ResponsesEnds ==
  ASSUME NEW a \in {"responses", "codex"}, NEW nm, NEW d, NEW s \in Seq(Items), Follows(a, nm, d, s),
         NEW i \in 1..Len(s), s[i].open, NEW whole \in {s[i].pieces, <<>>}, NEW t, Over(s, t, i)
  PROVE  Takes(a, nm, d, ResponsesDone(d, whole), t)
<1>1. PICK e, f, g, data :
        /\ e = ResponsesDone(d, whole) /\ data = Finalized(d.content[i], d.partial[i], whole)
        /\ f = [d EXCEPT !.content[i].data = data]
        /\ g = [f EXCEPT !.open = FALSE]
  OBVIOUS
<1>2. /\ i = Len(d.content) /\ d.open /\ InStep(a, d, s) /\ Tabled(d) /\ Len(d.content) = Len(s)
      /\ i \in 1..Len(d.content) /\ d.content[i].kind = s[i].kind /\ d.partial[i] = s[i].pieces
  BY CurrentIs
<1>3. /\ d \in Decoders /\ d.content \in Seq(Blocks) /\ d.content[i] \in Blocks /\ d.partial[i] \in Seq(Pieces)
      /\ DOMAIN d.content = 1..Len(d.content)
  BY <1>2, TabledFacts DEF Tabled
<1>4. g = [d EXCEPT !.content[i].data = data, !.open = FALSE]
  BY <1>1, <1>3 DEF Decoders
<1>5. e = EmitBlock(g, "end", i)
  BY <1>1, <1>2, <1>4 DEF ResponsesDone
<1>6. data = IF s[i].kind = "toolCall" THEN Parsed(s[i].pieces) ELSE s[i].pieces
  <2>1. d.content[i].data = IF s[i].kind = "toolCall" THEN Parsed(s[i].pieces) ELSE s[i].pieces
    BY <1>2 DEF InStep, Matches
  <2>. QED
    BY <1>1, <1>2, <2>1 DEF Finalized
<1>7. data \in Seq(Pieces)
  BY <1>2, <1>3, <1>6, ParsedIs
<1>8. Changed(d, f, i, data, s[i].pieces)
  BY <1>1, <1>2, <1>3, <1>7, ChangedIs
<1>9. InStep(a, f, s) /\ Tabled(f) /\ SameBut(d, f)
  <2>1. Resaid(s, s, i, s[i].pieces)
    BY DEF Resaid
  <2>. QED
    BY <1>2, <1>6, <1>8, <2>1, ChangesWell DEF Changed
<1>10. f \in Decoders
  BY <1>9 DEF Tabled
<1>11. /\ Tabled(g) /\ ~g.open /\ g.content = f.content /\ g.partial = f.partial /\ g.events = f.events
       /\ g.stop = f.stop /\ g.finish = f.finish
  BY <1>1, <1>9, <1>10, FieldsSet DEF Decoders
<1>12. InStep(a, g, s)
  BY <1>9, <1>11, OtherFields
<1>13. InStep(a, e, t)
  BY <1>5, <1>12, TellsWell DEF Over
<1>14. i \in 1..Len(g.content)
  BY <1>2, <1>8, <1>11 DEF Changed
<1>15. SameBut(g, e)
  BY <1>5, <1>11, <1>14, EmitBlockIs
<1>16. Found(a, nm, e, t)
  <2>1. \A j \in 1..Len(s) : s[j].open => j = Len(s)
    BY DEF Follows, Found
  <2>2. Len(t) = Len(s) /\ ~t[i].open /\ \A j \in 1..Len(s) : j # i => t[j] = s[j]
    BY DEF Over
  <2>3. \A j \in 1..Len(t) : ~t[j].open
    BY <1>2, <2>1, <2>2
  <2>4. i = Len(t)
    BY <1>2, <2>2
  <2>. QED
    BY <1>11, <1>15, <2>2, <2>3, <2>4 DEF Found, SameBut
<1>. QED
  BY <1>1, <1>9, <1>11, <1>13, <1>15, <1>16 DEF Takes, Follows, SameBut

\* The first block of a kind, or none.
KindAt(d, kind) ==
    LET I == {j \in 1..Len(d.content) : d.content[j].kind = kind} IN IF I # {} THEN Min(I) ELSE 0

LEMMA KindAtIs ==
  ASSUME NEW d, Tabled(d), NEW kind
  PROVE  /\ \A i \in 1..Len(d.content) :
               (\A j \in 1..Len(d.content) : d.content[j].kind = kind <=> j = i) => KindAt(d, kind) = i
         /\ (\A j \in 1..Len(d.content) : d.content[j].kind # kind) => KindAt(d, kind) = 0
<1>. DEFINE I == {j \in 1..Len(d.content) : d.content[j].kind = kind}
<1>1. Len(d.content) \in Nat
  BY TabledFacts
<1>2. ASSUME NEW i \in 1..Len(d.content), \A j \in 1..Len(d.content) : d.content[j].kind = kind <=> j = i
      PROVE  KindAt(d, kind) = i
  <2>1. I = {i} /\ i \in Nat
    BY <1>1, <1>2
  <2>. QED
    BY <2>1, MinOne DEF KindAt
<1>3. ASSUME \A j \in 1..Len(d.content) : d.content[j].kind # kind
      PROVE  KindAt(d, kind) = 0
  <2>1. I = {}
    BY <1>3
  <2>. QED
    BY <2>1 DEF KindAt
<1>. QED
  BY <1>2, <1>3

LEMMA TextIs ==
  ASSUME NEW d, NEW kind, NEW piece
  PROVE  LET i == KindAt(d, kind)
             begun == IF i = 0 THEN StartBlock(d, kind, 0, 0) ELSE d
             at == IF i = 0 THEN Len(begun.content) ELSE i
         IN  CompletionsText(d, kind, piece) = EmitBlock(Grow(begun, at, piece), "delta", at)
  BY DEF CompletionsText, KindAt, SelectInSeq

\* Items and blocks as before, and one has more pieces and perhaps its id.
LEMMA StillFound ==
  ASSUME NEW nm, NEW d, NEW s \in Seq(Items), Follows("completions", nm, d, s), NEW i \in 1..Len(s),
         NEW p, p # <<>>, NEW t, Resaid(s, t, i, p), NEW e, e.key = d.key,
         \A j \in 1..Len(s) : j # i => e.ids[j] = d.ids[j],
         \/ e.ids[i] = d.ids[i]
         \/ nm # "id" /\ s[i].kind = "toolCall" /\ e.ids[i] \in {0, Calls(s, i)}
  PROVE  Found("completions", nm, e, t)
<1>1. /\ \A j \in 1..Len(s) : s[j].pieces # <<>>
      /\ \A j, k \in 1..Len(s) : s[j].kind = s[k].kind /\ s[j].kind # "toolCall" => j = k
      /\ \A j \in 1..Len(s) : s[j].kind # "toolCall" => d.key[j] = 0 /\ d.ids[j] = 0
      /\ \A j \in 1..Len(s) : s[j].kind = "toolCall" =>
            IF nm = "id" THEN d.key[j] = 0 /\ d.ids[j] = Calls(s, j)
            ELSE d.key[j] = Calls(s, j) /\ d.ids[j] \in {0, Calls(s, j)}
  BY DEF Follows, Found
<1>2. Len(t) = Len(s) /\ t[i].kind = s[i].kind /\ t[i].pieces = p /\ \A j \in 1..Len(s) : j # i => t[j] = s[j]
  BY DEF Resaid
<1>3. \A j \in 1..Len(s) : t[j].kind = s[j].kind /\ t[j].pieces # <<>>
  BY <1>1, <1>2
<1>4. \A j \in 1..Len(s) : Calls(t, j) = Calls(s, j)
  <2>1. ASSUME NEW j \in 1..Len(s) PROVE Calls(t, j) = Calls(s, j)
    <3>1. j \in Nat /\ \A k \in 1..j : k \in 1..Len(s)
      BY LenProperties
    <3>. QED
      BY <1>3, <3>1, SameCalls
  <2>. QED
    BY <2>1
<1>5. \A j \in 1..Len(t) : t[j].kind # "toolCall" => e.key[j] = 0 /\ e.ids[j] = 0
  BY <1>1, <1>2, <1>3
<1>6. \A j \in 1..Len(t) : t[j].kind = "toolCall" =>
         IF nm = "id" THEN e.key[j] = 0 /\ e.ids[j] = Calls(t, j)
         ELSE e.key[j] = Calls(t, j) /\ e.ids[j] \in {0, Calls(t, j)}
  <2>1. ASSUME NEW j \in 1..Len(s), t[j].kind = "toolCall"
        PROVE  IF nm = "id" THEN e.key[j] = 0 /\ e.ids[j] = Calls(s, j)
               ELSE e.key[j] = Calls(s, j) /\ e.ids[j] \in {0, Calls(s, j)}
    <3>1. s[j].kind = "toolCall"
      BY <1>3, <2>1
    <3>2. CASE j # i
      BY <1>1, <3>1, <3>2
    <3>3. CASE j = i
      BY <1>1, <3>1, <3>3
    <3>. QED
      BY <3>2, <3>3
  <2>. QED
    BY <1>2, <1>4, <2>1
<1>7. \A j, k \in 1..Len(t) : t[j].kind = t[k].kind /\ t[j].kind # "toolCall" => j = k
  BY <1>1, <1>2, <1>3
<1>. QED
  BY <1>2, <1>3, <1>5, <1>6, <1>7 DEF Found

\* A block more, found by what its piece names.
LEMMA NowFound ==
  ASSUME NEW nm, NEW d, NEW s \in Seq(Items), Follows("completions", nm, d, s), NEW kind \in Kinds,
         NEW key \in Nat, NEW id \in Nat, NEW g, Begun(d, g, kind, key, id), NEW piece \in Pieces,
         NEW t, t = Append(s, Item(kind, <<piece>>)),
         kind # "toolCall" => key = 0 /\ id = 0 /\ \A j \in 1..Len(s) : s[j].kind # kind,
         kind = "toolCall" => IF nm = "id" THEN key = 0 /\ id = Calls(t, Len(s) + 1)
                              ELSE key = Calls(t, Len(s) + 1) /\ id \in {0, Calls(t, Len(s) + 1)},
         NEW e, e.key = g.key, e.ids = g.ids
  PROVE  Found("completions", nm, e, t)
<1>1. /\ \A j \in 1..Len(s) : s[j].pieces # <<>>
      /\ \A j, k \in 1..Len(s) : s[j].kind = s[k].kind /\ s[j].kind # "toolCall" => j = k
      /\ \A j \in 1..Len(s) : s[j].kind # "toolCall" => d.key[j] = 0 /\ d.ids[j] = 0
      /\ \A j \in 1..Len(s) : s[j].kind = "toolCall" =>
            IF nm = "id" THEN d.key[j] = 0 /\ d.ids[j] = Calls(s, j)
            ELSE d.key[j] = Calls(s, j) /\ d.ids[j] \in {0, Calls(s, j)}
  BY DEF Follows, Found
<1>2. PICK n : n = Len(s)
  OBVIOUS
<1>3. n \in Nat /\ Tabled(d) /\ Len(d.content) = n
  BY <1>2, LenProperties DEF Follows, InStep, Matches
<1>4. d.key \in Seq(Nat) /\ Len(d.key) = n /\ d.ids \in Seq(Nat) /\ Len(d.ids) = n
  BY <1>3, TabledFacts
<1>5. /\ e.key[n + 1] = key /\ e.ids[n + 1] = id
      /\ \A j \in 1..n : e.key[j] = d.key[j] /\ e.ids[j] = d.ids[j]
  <2>1. e.key = Append(d.key, key) /\ e.ids = Append(d.ids, id)
    BY DEF Begun
  <2>2. e.key[n + 1] = key /\ \A j \in 1..n : e.key[j] = d.key[j]
    BY <1>4, <2>1, AppendProperties
  <2>3. e.ids[n + 1] = id /\ \A j \in 1..n : e.ids[j] = d.ids[j]
    BY <1>4, <2>1, AppendProperties
  <2>. QED
    BY <2>2, <2>3
<1>6. Item(kind, <<piece>>) \in Items /\ Item(kind, <<piece>>).kind = kind /\ Item(kind, <<piece>>).pieces = <<piece>>
  <2>1. <<piece>> \in Seq(Pieces)
    OBVIOUS
  <2>. QED
    BY <2>1 DEF Item, Items
<1>7. /\ Len(t) = n + 1 /\ t[n + 1].kind = kind /\ t[n + 1].pieces = <<piece>>
      /\ \A j \in 1..n : t[j] = s[j]
  BY <1>2, <1>6, AppendProperties
<1>8. \A j \in 1..(n + 1) : j \in 1..n \/ j = n + 1
  BY <1>3
<1>9. \A j \in 1..n : Calls(t, j) = Calls(s, j)
  <2>1. ASSUME NEW j \in 1..n PROVE Calls(t, j) = Calls(s, j)
    <3>1. j \in Nat /\ \A k \in 1..j : k \in 1..n
      BY <1>3
    <3>. QED
      BY <1>7, <3>1, SameCalls
  <2>. QED
    BY <2>1
<1>10. \A j \in 1..Len(t) : t[j].pieces # <<>>
  <2>1. <<piece>> # <<>>
    OBVIOUS
  <2>. QED
    BY <1>1, <1>2, <1>7, <1>8, <2>1
<1>11. \A j, k \in 1..Len(t) : t[j].kind = t[k].kind /\ t[j].kind # "toolCall" => j = k
  BY <1>1, <1>2, <1>7, <1>8
<1>12. \A j \in 1..Len(t) : t[j].kind # "toolCall" => e.key[j] = 0 /\ e.ids[j] = 0
  BY <1>1, <1>2, <1>5, <1>7, <1>8
<1>13. \A j \in 1..Len(t) : t[j].kind = "toolCall" =>
          IF nm = "id" THEN e.key[j] = 0 /\ e.ids[j] = Calls(t, j)
          ELSE e.key[j] = Calls(t, j) /\ e.ids[j] \in {0, Calls(t, j)}
  <2>1. ASSUME NEW j \in 1..n, t[j].kind = "toolCall"
        PROVE  IF nm = "id" THEN e.key[j] = 0 /\ e.ids[j] = Calls(t, j)
               ELSE e.key[j] = Calls(t, j) /\ e.ids[j] \in {0, Calls(t, j)}
    BY <1>1, <1>2, <1>5, <1>7, <1>9, <2>1
  <2>2. ASSUME NEW j \in {n + 1}, t[j].kind = "toolCall"
        PROVE  IF nm = "id" THEN e.key[j] = 0 /\ e.ids[j] = Calls(t, j)
               ELSE e.key[j] = Calls(t, j) /\ e.ids[j] \in {0, Calls(t, j)}
    BY <1>2, <1>5, <1>7, <2>2
  <2>. QED
    BY <1>7, <1>8, <2>1, <2>2
<1>. QED
  BY <1>10, <1>11, <1>12, <1>13 DEF Found

\* The first piece of an item of chat completions, and the next ones.
LEMMA FirstPiece ==
  ASSUME NEW nm, NEW d, NEW s \in Seq(Items), Follows("completions", nm, d, s), NEW kind \in Kinds,
         NEW key \in Nat, NEW id \in Nat, NEW g, Begun(d, g, kind, key, id), NEW piece \in Pieces,
         NEW t, t = Append(s, Item(kind, <<piece>>)),
         kind # "toolCall" => key = 0 /\ id = 0 /\ \A j \in 1..Len(s) : s[j].kind # kind,
         kind = "toolCall" => IF nm = "id" THEN key = 0 /\ id = Calls(t, Len(s) + 1)
                              ELSE key = Calls(t, Len(s) + 1) /\ id \in {0, Calls(t, Len(s) + 1)},
         NEW e, e = EmitBlock(Grow(g, Len(g.content), piece), "delta", Len(g.content))
  PROVE  Takes("completions", nm, d, e, t)
<1>1. PICK n, u : n = Len(s) /\ u = Append(s, Item(kind, <<>>))
  OBVIOUS
<1>2. InStep("completions", g, u)
  BY <1>1, BeginsWell DEF Follows
<1>3. /\ <<>> \in Seq(Pieces) /\ <<piece>> \in Seq(Pieces) /\ Append(<<>>, piece) = <<piece>>
  BY EmptySeq
<1>4. /\ Item(kind, <<>>) \in Items /\ Item(kind, <<piece>>) \in Items
      /\ Item(kind, <<>>).kind = kind /\ Item(kind, <<>>).pieces = <<>>
      /\ Item(kind, <<piece>>).kind = kind /\ Item(kind, <<piece>>).pieces = <<piece>>
      /\ Item(kind, <<piece>>).open = Item(kind, <<>>).open
  BY <1>3 DEF Item, Items
<1>5. /\ n \in Nat /\ u \in Seq(Items) /\ Len(u) = n + 1 /\ u[n + 1] = Item(kind, <<>>)
      /\ \A j \in 1..n : u[j] = s[j]
  BY <1>1, <1>4, AppendProperties, LenProperties
<1>6. t \in Seq(Items) /\ Len(t) = n + 1 /\ t[n + 1] = Item(kind, <<piece>>) /\ \A j \in 1..n : t[j] = s[j]
  BY <1>1, <1>4, AppendProperties
<1>7. Resaid(u, t, n + 1, Append(u[n + 1].pieces, piece))
  <2>1. \A j \in 1..(n + 1) : j # n + 1 => j \in 1..n
    BY <1>5
  <2>. QED
    <3>1. \A j \in 1..Len(u) : j # n + 1 => t[j] = u[j]
      BY <1>5, <1>6, <2>1
    <3>2. /\ t[n + 1].kind = u[n + 1].kind
          /\ t[n + 1].pieces = Append(u[n + 1].pieces, piece) /\ Len(t) = Len(u)
      BY <1>3, <1>4, <1>5, <1>6
    <3>3. t[n + 1].open = u[n + 1].open
      BY <1>4, <1>5, <1>6, Zenon
    <3>. QED
      BY <1>6, <3>1, <3>2, <3>3 DEF Resaid
<1>8. Len(g.content) = n + 1 /\ n + 1 \in 1..Len(u)
  BY <1>2, <1>5 DEF InStep, Matches
<1>9. InStep("completions", e, t) /\ SameBut(g, e) /\ e.key = g.key /\ e.ids = g.ids
  <2>1. e = EmitBlock(Grow(g, n + 1, piece), "delta", n + 1)
    BY <1>8
  <2>2. PICK i : i = n + 1
    OBVIOUS
  <2>3. i \in 1..Len(u) /\ Resaid(u, t, i, Append(u[i].pieces, piece)) /\ e = EmitBlock(Grow(g, i, piece), "delta", i)
    BY <1>7, <1>8, <2>1, <2>2
  <2>. QED
    <3>1. u \in Seq(Items)
      BY <1>5
    <3>2. ASSUME NEW a, a = "completions"
          PROVE  InStep(a, e, t) /\ SameBut(g, e) /\ e.key = g.key /\ e.ids = g.ids
      BY <1>2, <2>3, <3>1, <3>2, GrowsWell
    <3>. QED
      BY <3>2
<1>10. Found("completions", nm, e, t)
  BY <1>9, NowFound
<1>. QED
  BY <1>9, <1>10 DEF Takes, Follows, Begun, SameBut

LEMMA TextBegins ==
  ASSUME NEW nm, NEW d, NEW s \in Seq(Items), Follows("completions", nm, d, s), NEW kind \in Kinds,
         kind # "toolCall", \A j \in 1..Len(s) : s[j].kind # kind, NEW piece \in Pieces
  PROVE  Takes("completions", nm, d, CompletionsText(d, kind, piece), Append(s, Item(kind, <<piece>>)))
<1>1. PICK e, g, t : /\ e = CompletionsText(d, kind, piece) /\ g = StartBlock(d, kind, 0, 0)
                     /\ t = Append(s, Item(kind, <<piece>>))
  OBVIOUS
<1>2. Tabled(d) /\ Len(d.content) = Len(s) /\ \A j \in 1..Len(s) : d.content[j].kind = s[j].kind
  BY DEF Follows, InStep, Matches
<1>3. KindAt(d, kind) = 0
  BY <1>2, KindAtIs
<1>4. e = EmitBlock(Grow(g, Len(g.content), piece), "delta", Len(g.content))
  BY <1>1, <1>3, TextIs
<1>5. Begun(d, g, kind, 0, 0)
  BY <1>1, <1>2, StartBlockIs
<1>. QED
  BY <1>1, <1>4, <1>5, FirstPiece

LEMMA TextGrows ==
  ASSUME NEW nm, NEW d, NEW s \in Seq(Items), Follows("completions", nm, d, s), NEW i \in 1..Len(s),
         s[i].kind # "toolCall", NEW piece \in Pieces, NEW t, Resaid(s, t, i, Append(s[i].pieces, piece))
  PROVE  Takes("completions", nm, d, CompletionsText(d, s[i].kind, piece), t)
<1>1. PICK e : e = CompletionsText(d, s[i].kind, piece)
  OBVIOUS
<1>2. /\ InStep("completions", d, s) /\ Tabled(d) /\ Len(d.content) = Len(s)
      /\ \A j \in 1..Len(s) : d.content[j].kind = s[j].kind
      /\ \A j, k \in 1..Len(s) : s[j].kind = s[k].kind /\ s[j].kind # "toolCall" => j = k
  BY DEF Follows, InStep, Matches, Found
<1>3. \A j \in 1..Len(d.content) : d.content[j].kind = s[i].kind <=> j = i
  BY <1>2
<1>4. KindAt(d, s[i].kind) = i /\ i # 0
  BY <1>2, <1>3, KindAtIs
<1>5. e = EmitBlock(Grow(d, i, piece), "delta", i)
  BY <1>1, <1>4, TextIs
<1>6. InStep("completions", e, t) /\ SameBut(d, e) /\ e.key = d.key /\ e.ids = d.ids
  BY <1>2, <1>5, GrowsWell
<1>7. Append(s[i].pieces, piece) # <<>>
  <2>1. s[i] \in Items
    BY LenProperties
  <2>2. s[i].pieces \in Seq(Pieces)
    BY <2>1 DEF Items
  <2>. QED
    BY <2>2, AppendProperties
<1>8. Found("completions", nm, e, t)
  BY <1>6, <1>7, StillFound
<1>. QED
  BY <1>1, <1>6, <1>8 DEF Takes, Follows, SameBut

\* What a piece names its call by: n is the number of the call.
Names(nm, n, index, id) ==
    \/ nm = "id" /\ index = 0 /\ id = n
    \/ nm # "id" /\ index = n /\ id \in {0, n}

LEMMA CallBegins ==
  ASSUME NEW nm, NEW d, NEW s \in Seq(Items), Follows("completions", nm, d, s), NEW piece \in Pieces,
         NEW t, t = Append(s, Item("toolCall", <<piece>>)), NEW index, NEW id,
         Names(nm, Calls(t, Len(s) + 1), index, id)
  PROVE  Takes("completions", nm, d, CompletionsCall(d, index, id, piece), t)
<1>1. PICK e, g, n, c : /\ e = CompletionsCall(d, index, id, piece)
                        /\ g = StartBlock(d, "toolCall", index, id)
                        /\ n = Len(s) /\ c = Calls(t, n + 1)
  OBVIOUS
<1>2. /\ Tabled(d) /\ Len(d.content) = n /\ n \in Nat
      /\ \A j \in 1..n : s[j].kind # "toolCall" => d.key[j] = 0 /\ d.ids[j] = 0
      /\ \A j \in 1..n : s[j].kind = "toolCall" =>
            IF nm = "id" THEN d.key[j] = 0 /\ d.ids[j] = Calls(s, j)
            ELSE d.key[j] = Calls(s, j) /\ d.ids[j] \in {0, Calls(s, j)}
  BY <1>1, LenProperties DEF Follows, InStep, Matches, Found
<1>3. /\ Item("toolCall", <<piece>>) \in Items /\ Item("toolCall", <<piece>>).kind = "toolCall"
  <2>1. <<piece>> \in Seq(Pieces)
    OBVIOUS
  <2>. QED
    BY <2>1 DEF Item, Items, Kinds
<1>4. Len(t) = n + 1 /\ t[n + 1].kind = "toolCall" /\ \A j \in 1..n : t[j] = s[j]
  BY <1>1, <1>3, AppendProperties
<1>5. ASSUME NEW j \in 1..n
      PROVE  Calls(t, j) = Calls(s, j) /\ Calls(s, j) \in Nat /\ Calls(s, j) # c
  <2>1. j \in Nat /\ j < n + 1 /\ n + 1 \in Nat /\ \A k \in 1..j : k \in 1..n
    BY <1>2
  <2>2. Calls(t, j) = Calls(s, j)
    BY <1>4, <2>1, SameCalls
  <2>3. Calls(t, j) < Calls(t, n + 1) /\ Calls(t, j) \in Nat /\ Calls(t, n + 1) \in Nat
    BY <1>4, <2>1, CallsApart
  <2>. QED
    BY <1>1, <2>2, <2>3
<1>6. c \in Nat /\ c # 0
  <2>1. n + 1 \in Nat /\ n + 1 # 0
    BY <1>2
  <2>. QED
    BY <1>1, <1>4, <2>1, CallsApart
<1>7. index \in Nat /\ id \in Nat /\ index \in {0, c} /\ id \in {0, c}
  BY <1>1, <1>6 DEF Names
<1>8. /\ index = 0 \/ \A j \in 1..n : d.key[j] # index
      /\ id = 0 \/ \A j \in 1..n : d.ids[j] # id
  <2>1. ASSUME NEW j \in 1..n PROVE d.key[j] # c /\ d.ids[j] # c
    BY <1>2, <1>5, <1>6
  <2>. QED
    BY <1>7, <2>1
<1>9. CallBlock(d, index, id) = 0
  BY <1>2, <1>7, <1>8, CallBlockIs
<1>10. Begun(d, g, "toolCall", index, id)
  BY <1>1, <1>2, <1>7, StartBlockIs DEF Kinds
<1>11. PICK at : at = Len(g.content)
  OBVIOUS
<1>12. Tabled(g) /\ at = n + 1 /\ g.ids[at] = id /\ DOMAIN g.ids = 1..(n + 1)
  <2>1. Block("toolCall") \in Blocks
    <3>1. <<>> \in Seq(Pieces)
      BY EmptySeq
    <3>. QED
      BY <3>1 DEF Block, Blocks, Kinds
  <2>2. Len(g.content) = n + 1
    <3>1. d.content \in Seq(Blocks) /\ g.content = Append(d.content, Block("toolCall"))
      BY <1>2, <1>10, TabledFacts DEF Begun
    <3>. QED
      BY <1>2, <2>1, <3>1, AppendProperties
  <2>3. g.ids[n + 1] = id
    <3>1. d.ids \in Seq(Nat) /\ Len(d.ids) = n /\ g.ids = Append(d.ids, id)
      BY <1>2, <1>10, TabledFacts DEF Begun
    <3>. QED
      BY <1>7, <3>1, AppendProperties
  <2>4. Tabled(g)
    BY <1>10 DEF Begun
  <2>. QED
    BY <1>11, <2>2, <2>3, <2>4, TabledFacts
<1>13. [g EXCEPT !.ids[at] = id] = g
  BY <1>12 DEF Tabled, Decoders
<1>14. e = EmitBlock(Grow(g, at, piece), "delta", at)
  BY <1>1, <1>9, <1>11, <1>13 DEF CompletionsCall
<1>15. IF nm = "id" THEN index = 0 /\ id = c ELSE index = c /\ id \in {0, c}
  BY <1>1 DEF Names
<1>. QED
  BY <1>1, <1>7, <1>10, <1>11, <1>14, <1>15, FirstPiece DEF Kinds

LEMMA CallGrows ==
  ASSUME NEW nm, NEW d, NEW s \in Seq(Items), Follows("completions", nm, d, s), NEW i \in 1..Len(s),
         s[i].kind = "toolCall", NEW piece \in Pieces, NEW t, Resaid(s, t, i, Append(s[i].pieces, piece)),
         NEW index, NEW id, Names(nm, Calls(s, i), index, id)
  PROVE  Takes("completions", nm, d, CompletionsCall(d, index, id, piece), t)
<1>1. PICK e, g, n, c : /\ e = CompletionsCall(d, index, id, piece)
                        /\ g = (IF d.ids[i] = 0 THEN [d EXCEPT !.ids[i] = id] ELSE d)
                        /\ n = Len(s) /\ c = Calls(s, i)
  OBVIOUS
<1>2. /\ Tabled(d) /\ InStep("completions", d, s) /\ Len(d.content) = n /\ n \in Nat
      /\ \A j \in 1..n : s[j].kind # "toolCall" => d.key[j] = 0 /\ d.ids[j] = 0
      /\ \A j \in 1..n : s[j].kind = "toolCall" =>
            IF nm = "id" THEN d.key[j] = 0 /\ d.ids[j] = Calls(s, j)
            ELSE d.key[j] = Calls(s, j) /\ d.ids[j] \in {0, Calls(s, j)}
  BY <1>1, LenProperties DEF Follows, InStep, Matches, Found
<1>3. c \in Nat /\ c # 0
  <2>1. i \in Nat /\ i # 0
    BY <1>1, <1>2
  <2>. QED
    BY <1>1, <2>1, CallsApart
<1>4. ASSUME NEW j \in 1..n, j # i, s[j].kind = "toolCall" PROVE Calls(s, j) # c
  <2>1. j \in Nat /\ i \in Nat /\ (j < i \/ i < j)
    BY <1>1, <1>2, <1>4
  <2>2. Calls(s, j) \in Nat /\ Calls(s, i) \in Nat
    BY <2>1, CallsApart
  <2>3. Calls(s, j) < Calls(s, i) \/ Calls(s, i) < Calls(s, j)
    BY <1>4, <2>1, CallsApart
  <2>. QED
    BY <1>1, <2>2, <2>3
<1>5. index \in Nat /\ id \in Nat /\ index \in {0, c} /\ id \in {0, c}
  BY <1>1, <1>3 DEF Names
<1>6. CallBlock(d, index, id) = i
  <2>1. CASE nm = "id"
    <3>1. index = 0 /\ id = c
      BY <1>1, <2>1 DEF Names
    <3>2. \A j \in 1..Len(d.content) : d.ids[j] = id <=> j = i
      BY <1>1, <1>2, <1>3, <1>4, <2>1, <3>1
    <3>3. i \in 1..Len(d.content)
      BY <1>1, <1>2
    <3>. QED
      BY <1>2, <1>3, <1>5, <3>1, <3>2, <3>3, CallBlockIs
  <2>2. CASE nm # "id"
    <3>1. index = c
      BY <1>1, <2>2 DEF Names
    <3>2. \A j \in 1..Len(d.content) : d.key[j] = index <=> j = i
      BY <1>1, <1>2, <1>3, <1>4, <2>2, <3>1
    <3>3. i \in 1..Len(d.content)
      BY <1>1, <1>2
    <3>. QED
      BY <1>2, <1>3, <1>5, <3>1, <3>2, <3>3, CallBlockIs
  <2>. QED
    BY <2>1, <2>2
<1>7. e = EmitBlock(Grow(g, i, piece), "delta", i)
  <2>1. i # 0
    OBVIOUS
  <2>. QED
    BY <1>1, <1>6, <2>1 DEF CompletionsCall
<1>8. /\ d \in Decoders /\ DOMAIN d.ids = 1..n /\ d.ids \in Seq(Nat) /\ Len(d.ids) = n
  BY <1>2, TabledFacts DEF Tabled
<1>9. PICK k : k = [d.ids EXCEPT ![i] = id]
  OBVIOUS
<1>10. k \in Seq(Nat) /\ Len(k) = n /\ k[i] = id /\ \A j \in 1..n : j # i => k[j] = d.ids[j]
  BY <1>1, <1>5, <1>8, <1>9, ExceptSeq
<1>11. PICK f : f = [d EXCEPT !.ids = k]
  OBVIOUS
<1>12. /\ Tabled(f) /\ SameBut(d, f) /\ f.content = d.content /\ f.partial = d.partial
       /\ f.events = d.events /\ f.key = d.key /\ f.ids = k
  BY <1>2, <1>8, <1>10, <1>11 DEF Tabled, Decoders, SameBut
<1>13. [d EXCEPT !.ids[i] = id] = f
  BY <1>8, <1>9, <1>11 DEF Decoders
<1>14. /\ Tabled(g) /\ SameBut(d, g) /\ g.content = d.content /\ g.partial = d.partial
       /\ g.events = d.events /\ g.key = d.key /\ (\A j \in 1..n : j # i => g.ids[j] = d.ids[j])
       /\ g.ids[i] = d.ids[i] \/ (d.ids[i] = 0 /\ g.ids[i] = id)
  BY <1>1, <1>2, <1>10, <1>12, <1>13 DEF SameBut
<1>15. InStep("completions", g, s)
  BY <1>2, <1>14, OtherFields
<1>16. InStep("completions", e, t) /\ SameBut(g, e) /\ e.key = g.key /\ e.ids = g.ids
  BY <1>7, <1>15, GrowsWell
<1>17. Append(s[i].pieces, piece) # <<>>
  <2>1. s[i] \in Items
    BY LenProperties
  <2>2. s[i].pieces \in Seq(Pieces)
    BY <2>1 DEF Items
  <2>. QED
    BY <2>2, AppendProperties
<1>18. \/ e.ids[i] = d.ids[i]
       \/ nm # "id" /\ s[i].kind = "toolCall" /\ e.ids[i] \in {0, Calls(s, i)}
  <2>1. nm = "id" => d.ids[i] # 0
    BY <1>1, <1>2, <1>3
  <2>. QED
    BY <1>1, <1>5, <1>14, <1>16, <2>1
<1>19. Found("completions", nm, e, t)
  <2>1. e.key = d.key /\ \A j \in 1..Len(s) : j # i => e.ids[j] = d.ids[j]
    BY <1>1, <1>14, <1>16
  <2>. QED
    BY <1>17, <1>18, <2>1, StillFound
<1>. QED
  BY <1>1, <1>14, <1>16, <1>19 DEF Takes, Follows, SameBut

-----------------------------------------------------------------------
(* How an answer ends                                                           *)

\* The blocks are those of d, and the events are all that will come.
Finishes(d, e, stop) ==
    /\ Tabled(e) /\ e.content = d.content /\ e.partial = d.partial /\ e.stop = stop
    /\ AllTold(e.events, e.content)

LEMMA ClosedIs ==
  ASSUME NEW d, Tabled(d), WellTold(d.events, d.content), NEW stop \in Stops
  PROVE  Finishes(d, Closed(d, stop), stop)
<1>1. PICK type, f, g, e :
        /\ type = (IF Failed(stop) THEN "error" ELSE "done") /\ f = [d EXCEPT !.stop = stop]
        /\ g = Emit(f, type) /\ e = Emit(g, "complete")
  OBVIOUS
<1>2. e = Closed(d, stop)
  BY <1>1 DEF Closed
<1>3. /\ Tabled(f) /\ f.content = d.content /\ f.partial = d.partial /\ f.events = d.events /\ f.stop = stop
  <2>1. d \in Decoders
    BY DEF Tabled
  <2>. QED
    BY <1>1, <2>1, FieldsSet DEF Decoders
<1>4. type \in {"done", "error"} /\ type \in {"message", "done", "error", "complete"}
  BY <1>1
<1>5. /\ Tabled(g) /\ SameBut(f, g) /\ g.content = f.content /\ g.partial = f.partial
      /\ g.events = Append(f.events, StreamEvent(type, 0, "none"))
  BY <1>1, <1>3, <1>4, EmitIs
<1>6. /\ Tabled(e) /\ SameBut(g, e) /\ e.content = g.content /\ e.partial = g.partial
      /\ e.events = Append(g.events, StreamEvent("complete", 0, "none"))
  BY <1>1, <1>5, EmitIs
<1>7. AllTold(Append(Append(d.events, StreamEvent(type, 0, "none")), StreamEvent("complete", 0, "none")), d.content)
  BY <1>4, ToldToTheEnd, TabledFacts
<1>. QED
  BY <1>2, <1>3, <1>5, <1>6, <1>7 DEF Finishes, SameBut

LEMMA CompleteIs ==
  ASSUME NEW d, Tabled(d), WellTold(d.events, d.content), NEW stop \in Stops
  PROVE  Finishes(d, Emit([d EXCEPT !.stop = stop], "complete"), stop)
<1>1. PICK f, e : f = [d EXCEPT !.stop = stop] /\ e = Emit(f, "complete")
  OBVIOUS
<1>2. /\ Tabled(f) /\ f.content = d.content /\ f.partial = d.partial /\ f.events = d.events /\ f.stop = stop
  <2>1. d \in Decoders
    BY DEF Tabled
  <2>. QED
    BY <1>1, <2>1, FieldsSet DEF Decoders
<1>3. /\ Tabled(e) /\ SameBut(f, e) /\ e.content = f.content /\ e.partial = f.partial
      /\ e.events = Append(f.events, StreamEvent("complete", 0, "none"))
  BY <1>1, <1>2, EmitIs
<1>4. AllTold(Append(d.events, StreamEvent("complete", 0, "none")), d.content)
  BY ToldToTheEnd, TabledFacts
<1>. QED
  BY <1>1, <1>2, <1>3, <1>4 DEF Finishes, SameBut

LEMMA AbortedIs ==
  ASSUME NEW d, Tabled(d), WellTold(d.events, d.content)
  PROVE  Finishes(d, Aborted(d), "aborted")
<1>1. "aborted" \in Stops
  BY DEF Stops
<1>. QED
  BY <1>1, ClosedIs, CompleteIs DEF Aborted

\* Chat completions end every block when the answer ends.
LEMMA EndsAll ==
  ASSUME NEW d, Tabled(d), NEW s, ToldSoFar("completions", d, s), NEW ends, NEW f,
         ends = [i \in DOMAIN d.content |-> StreamEvent("end", i, d.content[i].kind)],
         f = [d EXCEPT !.events = @ \o ends]
  PROVE  /\ Tabled(f) /\ SameBut(d, f) /\ f.content = d.content /\ f.partial = d.partial
         /\ WellTold(f.events, f.content)
<1>1. PICK n, m, h : n = Len(d.events) /\ m = Len(d.content) /\ h = d.events \o ends
  OBVIOUS
<1>2. /\ d \in Decoders /\ n \in Nat /\ m \in Nat /\ d.events \in Seq(AnswerEvents)
      /\ DOMAIN d.content = 1..m
  BY <1>1, TabledFacts
<1>3. \A i \in 1..m : /\ ends[i] = StreamEvent("end", i, d.content[i].kind) /\ ends[i] \in AnswerEvents
                      /\ ends[i].type = "end" /\ ends[i].index = i /\ ends[i].kind = d.content[i].kind
  <2>1. \A i \in 1..m : d.content[i] \in Blocks /\ i \in Nat
    BY <1>1, TabledFacts
  <2>. QED
    BY <1>2, <2>1 DEF StreamEvent, AnswerEvents, Blocks
<1>4. ends \in Seq(AnswerEvents) /\ Len(ends) = m
  <2>1. ends \in [1..m -> AnswerEvents]
    BY <1>2, <1>3
  <2>. QED
    BY <1>2, <2>1, SeqDef, LenProperties
<1>5. /\ h \in Seq(AnswerEvents) /\ Len(h) = n + m /\ (\A i \in 1..n : h[i] = d.events[i])
      /\ \A i \in 1..m : h[n + i] = ends[i]
  <2>1. /\ h \in Seq(AnswerEvents) /\ Len(h) = n + m
        /\ \A i \in 1..(n + m) : h[i] = IF i <= n THEN d.events[i] ELSE ends[i - n]
    <3>1. PICK es : es = d.events
      OBVIOUS
    <3>2. es \in Seq(AnswerEvents) /\ Len(es) = n
      BY <1>1, <1>2, <3>1
    <3>3. /\ es \o ends \in Seq(AnswerEvents) /\ Len(es \o ends) = Len(es) + Len(ends)
          /\ \A i \in 1..(Len(es) + Len(ends)) :
                 (es \o ends)[i] = IF i <= Len(es) THEN es[i] ELSE ends[i - Len(es)]
      BY <1>4, <3>2, ConcatProperties, Zenon
    <3>. QED
      BY <1>1, <1>4, <3>1, <3>2, <3>3
  <2>2. \A i \in 1..n : i \in 1..(n + m) /\ i <= n
    BY <1>2
  <2>3. \A i \in 1..m : n + i \in 1..(n + m) /\ ~(n + i <= n) /\ (n + i) - n = i
    BY <1>2
  <2>. QED
    BY <2>1, <2>2, <2>3
<1>6. f = [d EXCEPT !.events = h]
  BY <1>1
<1>7. Tabled(f) /\ SameBut(d, f) /\ f.content = d.content /\ f.partial = d.partial /\ f.events = h
  BY <1>2, <1>5, <1>6 DEF Tabled, Decoders, SameBut
<1>8. ASSUME NEW i \in 1..n
      PROVE  /\ h[i].type \in Tellings
             /\ h[i].index \in 0..m /\ (h[i].index # 0 => h[i].kind = d.content[h[i].index].kind)
             /\ h[i].type # "message" => h[i].index # 0
             /\ h[i].type = "start" => h[i].index = Cardinality({j \in 1..i : h[j].type = "start"})
             /\ h[i].type \in {"delta", "end"} =>
                   /\ \E j \in 1..(i - 1) : IsA(h[j], "start", h[i].index)
                   /\ \A j \in 1..(i - 1) : ~IsA(h[j], "end", h[i].index)
  <2>1. h[i] = d.events[i] /\ i \in Nat /\ \A j \in 1..i : j \in 1..n /\ h[j] = d.events[j]
    BY <1>2, <1>5
  <2>2. {j \in 1..i : h[j].type = "start"} = {j \in 1..i : d.events[j].type = "start"}
    BY <2>1
  <2>3. \A j \in 1..(i - 1) : h[j] = d.events[j]
    BY <2>1
  <2>4. WellTold(d.events, d.content)
    BY DEF ToldSoFar
  <2>. QED
    BY <1>1, <2>1, <2>2, <2>3, <2>4 DEF WellTold
<1>9. ASSUME NEW k \in 1..m, NEW i, i = n + k
      PROVE  /\ h[i].type = "end" /\ h[i].index = k /\ h[i].kind = d.content[k].kind
             /\ \E j \in 1..(i - 1) : IsA(h[j], "start", k)
             /\ \A j \in 1..(i - 1) : ~IsA(h[j], "end", k)
  <2>1. h[i].type = "end" /\ h[i].index = k /\ h[i].kind = d.content[k].kind
    <3>1. h[i] = ends[k]
      BY <1>5, <1>9
    <3>. QED
      BY <1>3, <3>1
  <2>2. PICK j \in 1..n : IsA(d.events[j], "start", k)
    BY <1>1 DEF ToldSoFar
  <2>3. j \in 1..(i - 1) /\ IsA(h[j], "start", k)
    BY <1>2, <1>5, <1>9, <2>2
  <2>4. ASSUME NEW l \in 1..(i - 1) PROVE ~IsA(h[l], "end", k)
    <3>1. CASE l \in 1..n
      <4>1. d.events[l].type # "end"
        BY <1>1, <3>1 DEF ToldSoFar
      <4>. QED
        BY <1>5, <3>1, <4>1 DEF IsA
    <3>2. CASE l \notin 1..n
      <4>1. PICK q : q = l - n
        OBVIOUS
      <4>2. q \in 1..m /\ l = n + q /\ q # k
        BY <1>2, <1>9, <2>4, <3>2, <4>1
      <4>3. h[l].index = q
        BY <1>3, <1>5, <4>2
      <4>. QED
        BY <4>2, <4>3 DEF IsA
    <3>. QED
      BY <3>1, <3>2
  <2>. QED
    BY <2>1, <2>3, <2>4
<1>10. \A i \in 1..(n + m) : i \in 1..n \/ \E k \in 1..m : i = n + k
  <2>1. ASSUME NEW i \in 1..(n + m), i \notin 1..n PROVE \E k \in 1..m : i = n + k
    <3>1. i - n \in 1..m /\ i = n + (i - n)
      BY <1>2, <2>1
    <3>. QED
      BY <3>1
  <2>. QED
    BY <2>1
<1>11. ASSUME NEW i \in 1..(n + m)
       PROVE  /\ h[i].type \in Tellings
              /\ h[i].index \in 0..m /\ (h[i].index # 0 => h[i].kind = d.content[h[i].index].kind)
              /\ h[i].type # "message" => h[i].index # 0
              /\ h[i].type = "start" => h[i].index = Cardinality({j \in 1..i : h[j].type = "start"})
              /\ h[i].type \in {"delta", "end"} =>
                    /\ \E j \in 1..(i - 1) : IsA(h[j], "start", h[i].index)
                    /\ \A j \in 1..(i - 1) : ~IsA(h[j], "end", h[i].index)
  <2>1. CASE i \in 1..n
    BY <1>8, <2>1
  <2>2. CASE i \notin 1..n
    <3>1. PICK k \in 1..m : i = n + k
      BY <1>10, <2>2
    <3>2. /\ h[i].type = "end" /\ h[i].index = k /\ h[i].kind = d.content[k].kind
          /\ \E j \in 1..(i - 1) : IsA(h[j], "start", k)
          /\ \A j \in 1..(i - 1) : ~IsA(h[j], "end", k)
      BY <1>9, <3>1
    <3>3. k \in 0..m /\ k # 0
      BY <1>2
    <3>. QED
      BY <3>2, <3>3 DEF Tellings
  <2>. QED
    BY <2>1, <2>2
<1>12. WellTold(h, d.content)
  BY <1>1, <1>5, <1>11 DEF WellTold
<1>. QED
  BY <1>7, <1>12

LEMMA EndOfStreamIs ==
  ASSUME NEW s, NEW d, InStep(api, d, s)
  PROVE  \E stop \in Stops : /\ Finishes(d, EndOfStream(d), stop) /\ stop # "none"
                             /\ d.stop = "error" => stop = "error"
                             /\ api = "completions" /\ ~d.finish => stop = "error"
<1>1. Tabled(d) /\ WellTold(d.events, d.content) /\ d.stop \in Stops
  BY TabledFacts DEF InStep, ToldSoFar
<1>2. CASE api = "completions"
  <2>1. PICK ends, f :
          /\ ends = [i \in DOMAIN d.content |-> StreamEvent("end", i, d.content[i].kind)]
          /\ f = [d EXCEPT !.events = @ \o ends]
    OBVIOUS
  <2>2. /\ Tabled(f) /\ SameBut(d, f) /\ f.content = d.content /\ f.partial = d.partial
        /\ WellTold(f.events, f.content)
    BY <1>1, <1>2, <2>1, EndsAll DEF InStep
  <2>3. PICK stop : stop = IF ~d.finish THEN "error"
                          ELSE IF d.stop \notin {"none", "stop"} THEN d.stop
                          ELSE IF HasCall(d) THEN "toolUse" ELSE "stop"
    OBVIOUS
  <2>4. EndOfStream(d) = Closed(f, stop)
    BY <1>2, <2>1, <2>3 DEF EndOfStream, CompletionsFinish
  <2>5. /\ stop \in Stops /\ stop # "none" /\ (d.stop = "error" => stop = "error")
        /\ ~d.finish => stop = "error"
    BY <1>1, <2>3 DEF Stops
  <2>7. Finishes(f, Closed(f, stop), stop)
    BY <2>2, <2>5, ClosedIs
  <2>8. Finishes(d, EndOfStream(d), stop)
    BY <2>2, <2>4, <2>7 DEF Finishes
  <2>. QED
    BY <1>2, <2>5, <2>8
<1>3. CASE api # "completions"
  <2>1. PICK stop : stop = IF d.stop = "none" THEN "stop" ELSE d.stop
    OBVIOUS
  <2>2. stop \in Stops /\ stop # "none" /\ (d.stop = "error" => stop = "error")
    BY <1>1, <2>1 DEF Stops
  <2>3. EndOfStream(d) = Closed(d, stop)
    BY <1>3, <2>1 DEF EndOfStream
  <2>. QED
    BY <1>1, <1>3, <2>2, <2>3, ClosedIs
<1>. QED
  BY <1>2, <1>3

-----------------------------------------------------------------------
(* The invariant                                                                *)

FinalStages == {"finished", "failed", "abandoned"}
Reasons == {"natural", "tools", "length", "refused"}

AnswerTypes ==
    /\ api \in Apis /\ naming \in Namings /\ said \in Seq(Items) /\ Len(said) <= MaxItems
    /\ pieces \in Nat /\ ctxDone \in BOOLEAN /\ over \in Reasons \cup {"no"} /\ fresh \in BOOLEAN
    /\ stage \in {"asked", "open"} \cup FinalStages

\* Before the answer there is nothing.
NothingYet == stage = "asked" => decoder = NoDecoder /\ said = <<>> /\ over = "no"

\* While it comes, the decoder is in step, and has a reason when the service gave one.
Coming ==
    stage = "open" =>
        /\ Follows(api, naming, decoder, said)
        /\ over = "no" => decoder.stop = "none" /\ ~decoder.finish
        /\ over = "refused" => decoder.stop = "error"
        /\ over # "no" => decoder.stop # "none"

\* When it is over, the events end as they must.
Gone ==
    stage \in FinalStages =>
        /\ Tabled(decoder) /\ Len(decoder.content) <= Len(said)
        /\ ~ctxDone => Matches(decoder, said)
        /\ IF stage = "finished" THEN AllTold(decoder.events, decoder.content)
           ELSE WellTold(decoder.events, decoder.content)
        /\ NoHalfAnswerPasses

AnswerInv == AnswerTypes /\ NothingYet /\ Coming /\ Gone

LEMMA NothingIs ==
  /\ Tabled(NoDecoder) /\ NoDecoder.content = <<>> /\ NoDecoder.events = <<>> /\ NoDecoder.stop = "none"
  /\ ~NoDecoder.finish /\ ~NoDecoder.open /\ NoDecoder.partial = <<>> /\ NoDecoder.key = <<>>
  /\ WellTold(NoDecoder.events, NoDecoder.content) /\ Matches(NoDecoder, <<>>)
<1>1. /\ NoDecoder.content = <<>> /\ NoDecoder.events = <<>> /\ NoDecoder.stop = "none" /\ ~NoDecoder.finish
      /\ ~NoDecoder.open /\ NoDecoder.partial = <<>> /\ NoDecoder.key = <<>> /\ NoDecoder.ids = <<>>
  BY DEF NoDecoder
<1>2. /\ <<>> \in Seq(Blocks) /\ <<>> \in Seq(Seq(Pieces)) /\ <<>> \in Seq(Nat) /\ <<>> \in Seq(AnswerEvents)
      /\ Len(<<>>) = 0
  BY EmptySeq
<1>3. Tabled(NoDecoder)
  BY <1>1, <1>2 DEF Tabled, Decoders, NoDecoder, Stops
<1>4. WellTold(NoDecoder.events, NoDecoder.content) /\ Matches(NoDecoder, <<>>)
  BY <1>1, <1>2 DEF WellTold, Matches
<1>. QED
  BY <1>1, <1>3, <1>4

\* What the invariant says of the answer.
LEMMA AnswerShows == AnswerInv => AnswerFaithful
<1>. SUFFICES ASSUME AnswerInv, decoder # NoDecoder
              PROVE  EventsWellFormed /\ MessageIsWhatWasSaid /\ NoHalfAnswerPasses
  BY DEF AnswerFaithful
<1>1. stage \in {"open"} \cup FinalStages
  BY DEF AnswerInv, AnswerTypes, NothingYet
<1>2. Tabled(decoder)
  BY <1>1 DEF AnswerInv, Coming, Gone, Follows, InStep
<1>3. decoder.events \in Seq(AnswerEvents) /\ Len(decoder.events) \in Nat
  BY <1>2, TabledFacts
<1>. DEFINE e == decoder.events
<1>4. e = decoder.events
  OBVIOUS
<1>5. DOMAIN e = 1..Len(e) /\ (e # <<>> => Len(e) \in 1..Len(e))
  <2>1. e \in Seq(AnswerEvents) /\ Len(e) \in Nat /\ DOMAIN e = 1..Len(e)
    BY <1>3, <1>4, LenProperties
  <2>2. e # <<>> => Len(e) # 0
    BY <2>1, EmptySeq
  <2>. QED
    BY <2>1, <2>2
<1>6. CASE stage = "finished"
  <2>1. AllTold(e, decoder.content)
    BY <1>4, <1>6 DEF AnswerInv, Gone, FinalStages
  <2>2. EventsWellFormed
    <3>1. \A i \in 1..Len(e) :
             /\ e[i].index # 0 => e[i].kind = decoder.content[e[i].index].kind
             /\ e[i].type = "start" => e[i].index = Cardinality({j \in 1..i : e[j].type = "start"})
             /\ e[i].type \in {"delta", "end"} =>
                   /\ \E j \in 1..(i - 1) : e[j].type = "start" /\ e[j].index = e[i].index
                   /\ \A j \in 1..(i - 1) : ~(e[j].type = "end" /\ e[j].index = e[i].index)
             /\ e[i].type = "complete" => i = Len(e)
             /\ e[i].type \in {"done", "error"} => i = Len(e) - 1
      BY <2>1, Zenon DEF AllTold, IsA
    <3>2. e # <<>> /\ Last(e).type = "complete"
      BY <2>1, Zenon DEF AllTold, Last
    <3>3. \A i \in DOMAIN e :
             /\ e[i].index # 0 => e[i].kind = decoder.content[e[i].index].kind
             /\ e[i].type = "start" => e[i].index = Cardinality({j \in 1..i : e[j].type = "start"})
             /\ e[i].type \in {"delta", "end"} =>
                   /\ \E j \in 1..(i - 1) : e[j].type = "start" /\ e[j].index = e[i].index
                   /\ \A j \in 1..(i - 1) : ~(e[j].type = "end" /\ e[j].index = e[i].index)
             /\ e[i].type = "complete" => i = Len(e)
             /\ e[i].type \in {"done", "error"} => i = Len(e) - 1
      BY <1>5, <3>1
    <3>. QED
      BY <1>4, <1>6, <3>2, <3>3 DEF EventsWellFormed
  <2>. QED
    BY <1>6, <2>2 DEF AnswerInv, Gone, FinalStages, MessageIsWhatWasSaid, Matches
<1>7. CASE stage # "finished"
  <2>1. WellTold(e, decoder.content)
    BY <1>1, <1>4, <1>7 DEF AnswerInv, Gone, Coming, Follows, InStep, ToldSoFar
  <2>2. e # <<>> => e[Len(e)].type \in Tellings
    BY <1>5, <2>1 DEF WellTold
  <2>3. EventsWellFormed
    <3>1. \A i \in 1..Len(e) :
             /\ e[i].index # 0 => e[i].kind = decoder.content[e[i].index].kind
             /\ e[i].type = "start" => e[i].index = Cardinality({j \in 1..i : e[j].type = "start"})
             /\ e[i].type \in {"delta", "end"} =>
                   /\ \E j \in 1..(i - 1) : e[j].type = "start" /\ e[j].index = e[i].index
                   /\ \A j \in 1..(i - 1) : ~(e[j].type = "end" /\ e[j].index = e[i].index)
             /\ e[i].type \in Tellings
      BY <2>1, Zenon DEF WellTold, IsA
    <3>2. \A i \in 1..Len(e) : e[i].type \notin {"complete", "done", "error"}
      BY <3>1 DEF Tellings
    <3>3. ~(e # <<>> /\ Last(e).type = "complete")
      BY <2>2 DEF Last, Tellings
    <3>4. \A i \in 1..Len(e) :
             /\ e[i].type = "complete" => i = Len(e)
             /\ e[i].type \in {"done", "error"} => i = Len(e) - 1
      BY <3>2
    <3>5. \A i \in DOMAIN e :
             /\ e[i].index # 0 => e[i].kind = decoder.content[e[i].index].kind
             /\ e[i].type = "start" => e[i].index = Cardinality({j \in 1..i : e[j].type = "start"})
             /\ e[i].type \in {"delta", "end"} =>
                   /\ \E j \in 1..(i - 1) : e[j].type = "start" /\ e[j].index = e[i].index
                   /\ \A j \in 1..(i - 1) : ~(e[j].type = "end" /\ e[j].index = e[i].index)
             /\ e[i].type = "complete" => i = Len(e)
             /\ e[i].type \in {"done", "error"} => i = Len(e) - 1
      BY <1>5, <3>1, <3>4
    <3>. QED
      BY <1>4, <1>7, <3>3, <3>5 DEF EventsWellFormed
  <2>4. ~ctxDone => Matches(decoder, said)
    BY <1>1 DEF AnswerInv, Coming, Gone, Follows, InStep
  <2>5. MessageIsWhatWasSaid
    BY <2>4 DEF MessageIsWhatWasSaid, Matches
  <2>6. NoHalfAnswerPasses
    <3>1. CASE stage \in FinalStages
      BY <3>1 DEF AnswerInv, Gone
    <3>2. CASE stage \notin FinalStages
      BY <3>2 DEF NoHalfAnswerPasses, FinalStages
    <3>. QED
      BY <3>1, <3>2
  <2>. QED
    BY <2>3, <2>5, <2>6
<1>. QED
  BY <1>6, <1>7

LEMMA AnswerShapes == AnswerInv => AnswerTypeOK
<1>. SUFFICES ASSUME AnswerInv PROVE AnswerTypeOK
  OBVIOUS
<1>1. Tabled(decoder) /\ Len(decoder.content) <= Len(said)
  <2>1. CASE stage = "asked"
    <3>1. Len(<<>>) = 0
      OBVIOUS
    <3>. QED
      BY <2>1, <3>1, NothingIs DEF AnswerInv, NothingYet
  <2>2. CASE stage = "open"
    <3>1. Tabled(decoder) /\ Len(decoder.content) = Len(said)
      BY <2>2 DEF AnswerInv, Coming, Follows, InStep, Matches
    <3>2. Len(said) \in Nat
      BY LenProperties DEF AnswerInv, AnswerTypes
    <3>. QED
      BY <3>1, <3>2
  <2>3. CASE stage \in FinalStages
    BY <2>3 DEF AnswerInv, Gone
  <2>. QED
    BY <2>1, <2>2, <2>3 DEF AnswerInv, AnswerTypes
<1>2. Len(decoder.content) \in 0..MaxItems
  <2>1. Len(decoder.content) \in Nat /\ Len(said) \in Nat /\ Len(said) <= MaxItems
    BY <1>1, TabledFacts, LenProperties DEF AnswerInv, AnswerTypes
  <2>. QED
    BY <1>1, <2>1, AnswerBounds
<1>3. decoder.stop \in Stops /\ Len(decoder.partial) = Len(decoder.content)
  BY <1>1, TabledFacts
<1>. QED
  BY <1>2, <1>3 DEF AnswerTypeOK, AnswerInv, AnswerTypes, Stops, FinalStages

LEMMA AnswerBegins == AnswerInit => AnswerInv
<1>. SUFFICES ASSUME AnswerInit PROVE AnswerInv
  OBVIOUS
<1>1. said = <<>> /\ <<>> \in Seq(Items) /\ Len(<<>>) = 0
  BY EmptySeq DEF AnswerInit
<1>2. naming \in Namings
  BY DEF AnswerInit, Namings
<1>3. AnswerTypes
  <2>1. said \in Seq(Items) /\ Len(said) <= MaxItems
    BY <1>1, AnswerBounds
  <2>2. pieces \in Nat /\ ctxDone \in BOOLEAN /\ fresh \in BOOLEAN /\ api \in Apis
    BY DEF AnswerInit
  <2>. QED
    BY <1>2, <2>1, <2>2 DEF AnswerInit, AnswerTypes
<1>. QED
  BY <1>3 DEF AnswerInit, AnswerInv, NothingYet, Coming, Gone, FinalStages

\* A step with which the answer is over.
LEMMA AnswerEnds ==
  ASSUME AnswerInv, stage = "open", stage' \in FinalStages, UNCHANGED <<api, naming, ctxDone>>,
         said' \in Seq(Items), Len(said) <= Len(said'), Len(said') <= MaxItems, ctxDone \/ said' = said,
         pieces' \in Nat, over' \in Reasons \cup {"no"}, fresh' \in BOOLEAN,
         Tabled(decoder'), decoder'.content = decoder.content, decoder'.partial = decoder.partial,
         IF stage' = "finished" THEN AllTold(decoder'.events, decoder'.content)
         ELSE WellTold(decoder'.events, decoder'.content),
         NoHalfAnswerPasses'
  PROVE  AnswerInv'
<1>1. AnswerTypes'
  BY DEF AnswerInv, AnswerTypes
<1>2. stage' # "asked" /\ stage' # "open"
  BY DEF FinalStages
<1>3. Matches(decoder, said) /\ Len(decoder.content) = Len(said)
  BY DEF AnswerInv, Coming, Follows, InStep, Matches
<1>4. ~ctxDone' => Matches(decoder', said')
  BY <1>3 DEF Matches
<1>5. Len(decoder'.content) <= Len(said')
  BY <1>3
<1>. QED
  BY <1>1, <1>2, <1>4, <1>5 DEF AnswerInv, NothingYet, Coming, Gone

\* The decoder takes what the service said.
LEMMA AnswerHeard ==
  ASSUME AnswerInv, NEW d, Hear(d), Follows(api, naming, d, said'),
         said' \in Seq(Items), Len(said) <= Len(said'), Len(said') <= MaxItems, pieces' \in Nat,
         over' \in Reasons \cup {"no"},
         over' = "no" => d.stop = "none" /\ ~d.finish,
         over' = "refused" => d.stop = "error",
         over' # "no" => d.stop # "none"
  PROVE  AnswerInv'
<1>1. stage = "open" /\ UNCHANGED <<api, naming, ctxDone>> /\ fresh' \in BOOLEAN
  BY DEF Hear
<1>2. CASE ctxDone
  <2>1. decoder' = Aborted(decoder) /\ stage' = "finished"
    BY <1>2 DEF Hear
  <2>2. Tabled(decoder) /\ WellTold(decoder.events, decoder.content)
    BY <1>1 DEF AnswerInv, Coming, Follows, InStep, ToldSoFar
  <2>3. Finishes(decoder, decoder', "aborted")
    BY <2>1, <2>2, AbortedIs
  <2>4. NoHalfAnswerPasses'
    BY <2>1, <2>3 DEF NoHalfAnswerPasses, Finishes, Failed
  <2>5. stage' \in FinalStages
    BY <2>1 DEF FinalStages
  <2>. QED
    BY <1>1, <1>2, <2>1, <2>3, <2>4, <2>5, AnswerEnds DEF Finishes
<1>3. CASE ~ctxDone
  <2>1. decoder' = d /\ stage' = "open"
    BY <1>3 DEF Hear
  <2>2. AnswerTypes'
    BY <1>1, <2>1 DEF AnswerInv, AnswerTypes
  <2>3. Coming'
    BY <1>1, <2>1 DEF Coming
  <2>. QED
    BY <2>1, <2>2, <2>3 DEF AnswerInv, NothingYet, Gone, FinalStages
<1>. QED
  BY <1>2, <1>3

\* The same, before the service has finished.
LEMMA AnswerTaken ==
  ASSUME AnswerInv, Speaks, over' = over, NEW d, Hear(d), Takes(api, naming, decoder, d, said'),
         said' \in Seq(Items), Len(said) <= Len(said'), Len(said') <= MaxItems, pieces' \in Nat
  PROVE  AnswerInv'
<1>1. over' = "no" /\ stage = "open" /\ over = "no"
  BY DEF Speaks
<1>2. d.stop = decoder.stop /\ d.finish = decoder.finish /\ Follows(api, naming, d, said')
  BY DEF Takes
<1>3. decoder.stop = "none" /\ ~decoder.finish
  BY <1>1 DEF AnswerInv, Coming
<1>4. d.stop = "none" /\ ~d.finish
  BY <1>2, <1>3
<1>. QED
  BY <1>1, <1>2, <1>4, AnswerHeard

LEMMA ResaidIs ==
  ASSUME NEW s \in Seq(Items), NEW i \in 1..Len(s), NEW piece \in Pieces
  PROVE  Resaid(s, [s EXCEPT ![i].pieces = Append(@, piece)], i, Append(s[i].pieces, piece))
<1>1. PICK p, b, t : p = Append(s[i].pieces, piece) /\ b = [s[i] EXCEPT !.pieces = p] /\ t = [s EXCEPT ![i] = b]
  OBVIOUS
<1>2. s[i] \in Items /\ DOMAIN s = 1..Len(s)
  BY LenProperties
<1>3. p \in Seq(Pieces)
  <2>1. s[i].pieces \in Seq(Pieces)
    BY <1>2 DEF Items
  <2>. QED
    BY <1>1, <2>1, AppendProperties
<1>4. b \in Items /\ b.kind = s[i].kind /\ b.open = s[i].open /\ b.pieces = p
  BY <1>1, <1>2, <1>3 DEF Items
<1>5. t = [s EXCEPT ![i].pieces = Append(@, piece)]
  BY <1>1, <1>2
<1>6. t \in Seq(Items) /\ Len(t) = Len(s) /\ t[i] = b /\ \A j \in 1..Len(s) : j # i => t[j] = s[j]
  <2>1. b \in Items
    BY <1>4
  <2>2. t = [s EXCEPT ![i] = b]
    BY <1>1
  <2>. QED
    BY <2>1, <2>2, ExceptSeq
<1>7. t[i].open = s[i].open
  BY <1>4, <1>6, Zenon
<1>. QED
  BY <1>1, <1>4, <1>5, <1>6, <1>7 DEF Resaid

LEMMA OverIs ==
  ASSUME NEW s \in Seq(Items), NEW i \in 1..Len(s)
  PROVE  Over(s, [s EXCEPT ![i].open = FALSE], i)
<1>1. PICK b, t : b = [s[i] EXCEPT !.open = FALSE] /\ t = [s EXCEPT ![i] = b]
  OBVIOUS
<1>2. s[i] \in Items /\ DOMAIN s = 1..Len(s)
  BY LenProperties
<1>3. b \in Items /\ b.kind = s[i].kind /\ ~b.open /\ b.pieces = s[i].pieces
  BY <1>1, <1>2 DEF Items
<1>4. t = [s EXCEPT ![i].open = FALSE]
  BY <1>1, <1>2
<1>5. t \in Seq(Items) /\ Len(t) = Len(s) /\ t[i] = b /\ \A j \in 1..Len(s) : j # i => t[j] = s[j]
  <2>1. b \in Items
    BY <1>3
  <2>2. t = [s EXCEPT ![i] = b]
    BY <1>1
  <2>. QED
    BY <2>1, <2>2, ExceptSeq
<1>. QED
  BY <1>3, <1>4, <1>5 DEF Over

\* What is known where the service speaks.
LEMMA SpeakingIs ==
  ASSUME AnswerInv, Speaks
  PROVE  /\ Follows(api, naming, decoder, said) /\ said \in Seq(Items) /\ Len(said) \in Nat
         /\ DOMAIN said = 1..Len(said) /\ Len(said) <= MaxItems /\ pieces \in Nat /\ naming \in Namings
         /\ api \in Apis /\ stage = "open" /\ over = "no" /\ MaxItems \in Nat
  BY LenProperties, AnswerBounds DEF AnswerInv, AnswerTypes, Coming, Speaks

LEMMA BeginItemStep == ASSUME AnswerInv, NEW kind \in Kinds, BeginItem(kind) PROVE AnswerInv'
<1>1. Speaks /\ over' = over /\ api # "completions" /\ pieces' = pieces
  BY DEF BeginItem
<1>2. PICK d : /\ Hear(d)
               /\ d = IF api = "anthropic" THEN AnthropicStart(decoder, Len(said) + 1, kind)
                      ELSE ResponsesAdded(decoder, kind)
  BY DEF BeginItem
<1>3. said' = Append(said, Item(kind, <<>>)) /\ Len(said) < MaxItems
  BY DEF BeginItem
<1>4. Item(kind, <<>>) \in Items
  <2>1. <<>> \in Seq(Pieces)
    BY EmptySeq
  <2>. QED
    BY <2>1 DEF Item, Items
<1>5. said' \in Seq(Items) /\ Len(said') = Len(said) + 1
  BY <1>1, <1>3, <1>4, SpeakingIs, AppendProperties
<1>6. Len(said) <= Len(said') /\ Len(said') <= MaxItems /\ pieces' \in Nat
  BY <1>1, <1>3, <1>5, SpeakingIs
<1>7. Takes(api, naming, decoder, d, said')
  <2>1. CASE api = "anthropic"
    <3>1. Takes("anthropic", naming, decoder, AnthropicStart(decoder, Len(said) + 1, kind),
                Append(said, Item(kind, <<>>)))
      BY <1>1, <2>1, SpeakingIs, AnthropicStarts
    <3>. QED
      BY <1>2, <1>3, <2>1, <3>1
  <2>2. CASE api \in {"responses", "codex"}
    <3>1. \A i \in 1..Len(said) : ~said[i].open
      BY <1>1, <2>2, SpeakingIs DEF BeginItem, Sequential
    <3>2. Takes(api, naming, decoder, ResponsesAdded(decoder, kind), Append(said, Item(kind, <<>>)))
      BY <1>1, <2>2, <3>1, SpeakingIs, ResponsesAdds
    <3>. QED
      BY <1>2, <1>3, <2>2, <3>2
  <2>. QED
    BY <1>1, <2>1, <2>2, SpeakingIs DEF Apis
<1>. QED
  BY <1>1, <1>2, <1>5, <1>6, <1>7, AnswerTaken

LEMMA StopSet ==
  ASSUME NEW d, Tabled(d), NEW stop \in Stops
  PROVE  LET e == [d EXCEPT !.stop = stop]
         IN  Tabled(e) /\ e.stop = stop /\ e.content = d.content /\ e.partial = d.partial /\ e.events = d.events
<1>1. d \in Decoders
  BY DEF Tabled
<1>. QED
  BY <1>1, FieldsSet DEF Decoders

LEMMA SayUnknownStep == ASSUME AnswerInv, SayUnknown PROVE AnswerInv'
<1>1. Speaks /\ UNCHANGED <<said, pieces, over>>
  BY DEF SayUnknown
<1>2. CASE api = "anthropic" /\ ~ctxDone
  <2>1. /\ stage' = "failed" /\ decoder' = [decoder EXCEPT !.stop = IF @ = "none" THEN "error" ELSE @]
        /\ fresh' = FALSE /\ UNCHANGED <<api, naming, ctxDone>>
    BY <1>2 DEF SayUnknown
  <2>2. /\ Tabled(decoder) /\ WellTold(decoder.events, decoder.content) /\ decoder.stop = "none"
    BY <1>1, SpeakingIs DEF AnswerInv, Coming, Follows, InStep, ToldSoFar
  <2>3. decoder' = [decoder EXCEPT !.stop = "error"]
    BY <2>1, <2>2
  <2>4. /\ Tabled(decoder') /\ decoder'.stop = "error" /\ decoder'.content = decoder.content
        /\ decoder'.partial = decoder.partial /\ decoder'.events = decoder.events
    BY <2>2, <2>3, StopSet DEF Stops
  <2>5. NoHalfAnswerPasses'
    BY <2>1, <2>4 DEF NoHalfAnswerPasses, Failed
  <2>6. stage' \in FinalStages /\ stage' # "finished" /\ WellTold(decoder'.events, decoder'.content)
    BY <2>1, <2>2, <2>4 DEF FinalStages
  <2>7. /\ said' \in Seq(Items) /\ Len(said) <= Len(said') /\ Len(said') <= MaxItems /\ said' = said
        /\ pieces' \in Nat /\ over' \in Reasons \cup {"no"} /\ stage = "open"
    BY <1>1, SpeakingIs
  <2>. QED
    BY <2>1, <2>4, <2>5, <2>6, <2>7, AnswerEnds
<1>3. CASE ~(api = "anthropic" /\ ~ctxDone)
  <2>1. PICK d : Hear(d) /\ d = IF Sequential THEN ResponsesAdded(decoder, "unsupported") ELSE decoder
    BY <1>3 DEF SayUnknown
  <2>2. d = decoder
    BY <2>1 DEF ResponsesAdded, Kinds
  <2>3. Takes(api, naming, decoder, d, said')
    BY <1>1, <2>2, SpeakingIs DEF Takes
  <2>4. said' \in Seq(Items) /\ Len(said) <= Len(said') /\ Len(said') <= MaxItems /\ pieces' \in Nat
    BY <1>1, SpeakingIs
  <2>. QED
    BY <1>1, <2>1, <2>3, <2>4, AnswerTaken
<1>. QED
  BY <1>2, <1>3

\* The names of a call's piece lead to its number.
LEMMA Given ==
  ASSUME naming \in Namings, NEW i, NEW n, n = Calls(said', i)
  PROVE  Names(naming, n, GivenIndex(i), GivenId(i))
<1>1. CallNumber(i) = n
  BY DEF CallNumber, Calls
<1>2. PICK index, id : index = GivenIndex(i) /\ id = GivenId(i)
  OBVIOUS
<1>3. CASE naming = "id"
  <2>1. index = 0 /\ id = n
    BY <1>1, <1>2, <1>3 DEF GivenIndex, GivenId
  <2>. QED
    BY <1>2, <1>3, <2>1 DEF Names
<1>4. CASE naming = "index"
  <2>1. index = n /\ id \in {0, n}
    BY <1>1, <1>2, <1>4 DEF GivenIndex, GivenId
  <2>. QED
    BY <1>2, <1>4, <2>1 DEF Names
<1>5. CASE naming = "late"
  <2>1. index = n /\ id \in {0, n}
    BY <1>1, <1>2, <1>5 DEF GivenIndex, GivenId
  <2>. QED
    BY <1>2, <1>5, <2>1 DEF Names
<1>. QED
  BY <1>3, <1>4, <1>5 DEF Namings

\* What each decoder makes of a piece.
Piecewise(d, i, kind, piece) ==
    d = IF api = "anthropic" THEN AnthropicDelta(decoder, i, kind, piece)
        ELSE IF Sequential THEN ResponsesDelta(decoder, kind, piece)
        ELSE IF kind = "toolCall"
             THEN CompletionsCall(decoder, GivenIndex(i), GivenId(i), piece)
             ELSE CompletionsText(decoder, kind, piece)

LEMMA NextPieceTaken ==
  ASSUME AnswerInv, Speaks, NEW i \in 1..Len(said), said[i].open, NEW piece \in Pieces, NEW d,
         Piecewise(d, i, said[i].kind, piece), Resaid(said, said', i, Append(said[i].pieces, piece))
  PROVE  Takes(api, naming, decoder, d, said')
<1>1. Follows(api, naming, decoder, said) /\ said \in Seq(Items) /\ naming \in Namings /\ api \in Apis
  BY SpeakingIs
<1>2. CASE api = "anthropic"
  <2>1. d = AnthropicDelta(decoder, i, said[i].kind, piece)
    BY <1>2 DEF Piecewise
  <2>2. Takes("anthropic", naming, decoder, AnthropicDelta(decoder, i, said[i].kind, piece), said')
    BY <1>1, <1>2, AnthropicGrows
  <2>. QED
    BY <1>2, <2>1, <2>2
<1>3. CASE api \in {"responses", "codex"}
  <2>1. d = ResponsesDelta(decoder, said[i].kind, piece)
    BY <1>3 DEF Piecewise, Sequential
  <2>2. Takes(api, naming, decoder, ResponsesDelta(decoder, said[i].kind, piece), said')
    BY <1>1, <1>3, ResponsesGrows
  <2>. QED
    BY <2>1, <2>2
<1>4. CASE api = "completions" /\ said[i].kind # "toolCall"
  <2>1. d = CompletionsText(decoder, said[i].kind, piece)
    BY <1>4 DEF Piecewise, Sequential
  <2>2. Takes("completions", naming, decoder, CompletionsText(decoder, said[i].kind, piece), said')
    BY <1>1, <1>4, TextGrows
  <2>. QED
    BY <1>4, <2>1, <2>2
<1>5. CASE api = "completions" /\ said[i].kind = "toolCall"
  <2>1. PICK index, id : index = GivenIndex(i) /\ id = GivenId(i)
    OBVIOUS
  <2>2. d = CompletionsCall(decoder, index, id, piece)
    BY <1>5, <2>1 DEF Piecewise, Sequential
  <2>3. \A j \in 1..i : said'[j].kind = said[j].kind
    BY <1>1, LenProperties DEF Resaid
  <2>4. Calls(said', i) = Calls(said, i)
    BY <2>3, SameCalls
  <2>5. Names(naming, Calls(said, i), index, id)
    BY <1>1, <2>1, <2>4, Given
  <2>6. Takes("completions", naming, decoder, CompletionsCall(decoder, index, id, piece), said')
    BY <1>1, <1>5, <2>5, CallGrows
  <2>. QED
    BY <1>5, <2>2, <2>6
<1>. QED
  BY <1>1, <1>2, <1>3, <1>4, <1>5 DEF Apis

LEMMA FirstPieceTaken ==
  ASSUME AnswerInv, Speaks, api = "completions", NEW i, i = Len(said) + 1, NEW kind \in Kinds,
         kind # "toolCall" => \A j \in DOMAIN said : said[j].kind # kind, NEW piece \in Pieces, NEW d,
         Piecewise(d, i, kind, piece), said' = Append(said, Item(kind, <<piece>>))
  PROVE  Takes(api, naming, decoder, d, said')
<1>1. /\ Follows("completions", naming, decoder, said) /\ said \in Seq(Items) /\ naming \in Namings
      /\ DOMAIN said = 1..Len(said)
  BY SpeakingIs
<1>2. CASE kind # "toolCall"
  <2>1. d = CompletionsText(decoder, kind, piece)
    BY <1>2 DEF Piecewise, Sequential
  <2>2. \A j \in 1..Len(said) : said[j].kind # kind
    BY <1>1, <1>2
  <2>3. Takes("completions", naming, decoder, CompletionsText(decoder, kind, piece),
              Append(said, Item(kind, <<piece>>)))
    BY <1>1, <1>2, <2>2, TextBegins
  <2>. QED
    BY <2>1, <2>3
<1>3. CASE kind = "toolCall"
  <2>1. PICK index, id : index = GivenIndex(i) /\ id = GivenId(i)
    OBVIOUS
  <2>2. d = CompletionsCall(decoder, index, id, piece)
    BY <1>3, <2>1 DEF Piecewise, Sequential
  <2>3. Names(naming, Calls(said', Len(said) + 1), index, id)
    BY <1>1, <2>1, Given
  <2>4. said' = Append(said, Item("toolCall", <<piece>>))
    BY <1>3
  <2>5. Takes("completions", naming, decoder, CompletionsCall(decoder, index, id, piece), said')
    BY <1>1, <2>3, <2>4, CallBegins
  <2>. QED
    BY <2>2, <2>5
<1>. QED
  BY <1>2, <1>3

LEMMA NextPieceIs ==
  ASSUME AnswerInv, Speaks, NEW closes \in BOOLEAN
  PROVE  NextPiece(closes) \in Pieces /\ pieces + 1 \in Nat
  BY SpeakingIs DEF NextPiece, Pieces

LEMMA SayPieceStep ==
  ASSUME AnswerInv, NEW i \in 1..MaxItems, NEW closes \in BOOLEAN, SayPiece(i, closes)
  PROVE  AnswerInv'
<1>1. Speaks /\ over' = over /\ pieces' = pieces + 1
  BY DEF SayPiece
<1>2. PICK piece : piece = NextPiece(closes)
  OBVIOUS
<1>3. piece \in Pieces /\ pieces' \in Nat
  BY <1>1, <1>2, NextPieceIs
<1>4. PICK d : Hear(d) /\ Piecewise(d, i, said'[i].kind, piece)
  BY <1>2 DEF SayPiece, Piecewise
<1>5. ASSUME i \in DOMAIN said, said[i].open, said' = [said EXCEPT ![i].pieces = Append(@, piece)]
      PROVE  AnswerInv'
  <2>1. said \in Seq(Items) /\ i \in 1..Len(said) /\ Len(said) \in Nat /\ Len(said) <= MaxItems
    BY <1>1, <1>5, SpeakingIs
  <2>2. Resaid(said, said', i, Append(said[i].pieces, piece))
    BY <1>3, <1>5, <2>1, ResaidIs
  <2>3. said' \in Seq(Items) /\ Len(said') = Len(said) /\ said'[i].kind = said[i].kind
    BY <2>2 DEF Resaid
  <2>4. Piecewise(d, i, said[i].kind, piece)
    BY <1>4, <2>3
  <2>5. Takes(api, naming, decoder, d, said')
    BY <1>1, <1>3, <1>5, <2>1, <2>2, <2>4, NextPieceTaken
  <2>6. Len(said) <= Len(said') /\ Len(said') <= MaxItems
    BY <2>1, <2>3
  <2>. QED
    BY <1>1, <1>3, <1>4, <2>3, <2>5, <2>6, AnswerTaken
<1>6. ASSUME api = "completions", i = Len(said) + 1, i <= MaxItems, NEW kind \in Kinds,
             kind # "toolCall" => \A j \in DOMAIN said : said[j].kind # kind,
             said' = Append(said, Item(kind, <<piece>>))
      PROVE  AnswerInv'
  <2>1. said \in Seq(Items) /\ Len(said) \in Nat /\ Len(said) <= MaxItems
    BY <1>1, SpeakingIs
  <2>2. Item(kind, <<piece>>) \in Items /\ Item(kind, <<piece>>).kind = kind
    BY <1>3 DEF Item, Items
  <2>3. said' \in Seq(Items) /\ Len(said') = Len(said) + 1 /\ said'[i].kind = kind
    BY <1>6, <2>1, <2>2, AppendProperties
  <2>4. Piecewise(d, i, kind, piece)
    BY <1>4, <2>3
  <2>5. Takes(api, naming, decoder, d, said')
    BY <1>1, <1>3, <1>6, <2>4, FirstPieceTaken
  <2>6. Len(said) <= Len(said') /\ Len(said') <= MaxItems
    BY <1>6, <2>1, <2>3
  <2>. QED
    BY <1>1, <1>3, <1>4, <2>3, <2>5, <2>6, AnswerTaken
<1>7. \/ i \in DOMAIN said /\ said[i].open /\ said' = [said EXCEPT ![i].pieces = Append(@, piece)]
      \/ /\ api = "completions" /\ i = Len(said) + 1 /\ i <= MaxItems
         /\ \E kind \in Kinds : /\ kind # "toolCall" => \A j \in DOMAIN said : said[j].kind # kind
                                /\ said' = Append(said, Item(kind, <<piece>>))
  BY <1>2 DEF SayPiece
<1>. QED
  BY <1>5, <1>6, <1>7, Zenon

LEMMA SayArgumentsStep ==
  ASSUME AnswerInv, NEW i \in 1..MaxItems, NEW extra \in BOOLEAN, SayArguments(i, extra)
  PROVE  AnswerInv'
<1>1. Speaks /\ over' = over /\ api \in {"responses", "codex"}
  BY DEF SayArguments, Sequential
<1>2. /\ said \in Seq(Items) /\ i \in 1..Len(said) /\ Len(said) \in Nat /\ Len(said) <= MaxItems
      /\ Follows(api, naming, decoder, said) /\ pieces \in Nat
      /\ said[i].open /\ said[i].kind = "toolCall" /\ DOMAIN said = 1..Len(said)
  BY <1>1, SpeakingIs DEF SayArguments
<1>3. PICK piece : piece = NextPiece(TRUE)
  OBVIOUS
<1>4. piece \in Pieces /\ pieces' \in Nat
  BY <1>1, <1>2, <1>3, NextPieceIs DEF SayArguments
<1>5. PICK whole : whole = IF extra THEN Append(said[i].pieces, piece) ELSE said[i].pieces
  OBVIOUS
<1>6. said[i].pieces \in Seq(Pieces) /\ whole \in Seq(Pieces)
  <2>1. said[i] \in Items
    BY <1>2
  <2>2. said[i].pieces \in Seq(Pieces)
    BY <2>1 DEF Items
  <2>. QED
    BY <1>4, <1>5, <2>2, AppendProperties
<1>7. Resaid(said, said', i, whole)
  <2>1. CASE extra
    <3>1. said' = [said EXCEPT ![i].pieces = Append(@, piece)]
      BY <1>3, <2>1 DEF SayArguments
    <3>2. Resaid(said, [said EXCEPT ![i].pieces = Append(@, piece)], i, Append(said[i].pieces, piece))
      BY <1>2, <1>4, ResaidIs
    <3>. QED
      BY <1>5, <2>1, <3>1, <3>2
  <2>2. CASE ~extra
    BY <1>2, <1>5, <2>2 DEF SayArguments, Resaid
  <2>. QED
    BY <2>1, <2>2
<1>8. said' \in Seq(Items) /\ Len(said') = Len(said) /\ said'[i].pieces = whole
  BY <1>7 DEF Resaid
<1>9. PICK d : Hear(d) /\ d = ResponsesArgumentsDone(decoder, whole)
  BY <1>8 DEF SayArguments
<1>10. Takes(api, naming, decoder, d, said')
  <2>1. Takes(api, naming, decoder, ResponsesArgumentsDone(decoder, whole), said')
    BY <1>1, <1>2, <1>6, <1>7, ResponsesArguments
  <2>. QED
    BY <1>9, <2>1
<1>11. Len(said) <= Len(said') /\ Len(said') <= MaxItems
  BY <1>2, <1>8
<1>. QED
  BY <1>1, <1>4, <1>8, <1>9, <1>10, <1>11, AnswerTaken

LEMMA EndItemStep ==
  ASSUME AnswerInv, NEW i \in 1..MaxItems, NEW repeats \in BOOLEAN, EndItem(i, repeats)
  PROVE  AnswerInv'
<1>1. Speaks /\ over' = over /\ api # "completions" /\ pieces' = pieces
  BY DEF EndItem
<1>2. /\ said \in Seq(Items) /\ i \in 1..Len(said) /\ Len(said) \in Nat /\ Len(said) <= MaxItems
      /\ Follows(api, naming, decoder, said) /\ pieces \in Nat /\ said[i].open /\ api \in Apis
  BY <1>1, SpeakingIs DEF EndItem
<1>3. Over(said, said', i)
  BY <1>2, OverIs DEF EndItem
<1>4. said' \in Seq(Items) /\ Len(said') = Len(said)
  BY <1>3 DEF Over
<1>5. PICK whole : whole = IF repeats THEN said[i].pieces ELSE <<>>
  OBVIOUS
<1>6. PICK d : /\ Hear(d)
               /\ d = IF api = "anthropic" THEN AnthropicStop(decoder, i) ELSE ResponsesDone(decoder, whole)
  BY <1>5 DEF EndItem
<1>7. Takes(api, naming, decoder, d, said')
  <2>1. CASE api = "anthropic"
    <3>1. Takes("anthropic", naming, decoder, AnthropicStop(decoder, i), said')
      BY <1>2, <1>3, <2>1, AnthropicEnds
    <3>. QED
      BY <1>6, <2>1, <3>1
  <2>2. CASE api \in {"responses", "codex"}
    <3>1. whole \in {said[i].pieces, <<>>}
      BY <1>5
    <3>2. Takes(api, naming, decoder, ResponsesDone(decoder, whole), said')
      BY <1>2, <1>3, <2>2, <3>1, ResponsesEnds
    <3>. QED
      BY <1>6, <2>2, <3>2
  <2>. QED
    BY <1>1, <1>2, <2>1, <2>2 DEF Apis
<1>8. Len(said) <= Len(said') /\ Len(said') <= MaxItems /\ pieces' \in Nat
  BY <1>1, <1>2, <1>4
<1>. QED
  BY <1>1, <1>4, <1>6, <1>7, <1>8, AnswerTaken

\* What is known while the answer comes.
LEMMA ComingIs ==
  ASSUME AnswerInv, stage = "open"
  PROVE  /\ Follows(api, naming, decoder, said) /\ InStep(api, decoder, said) /\ Tabled(decoder)
         /\ WellTold(decoder.events, decoder.content) /\ Len(said) \in Nat
         /\ said \in Seq(Items) /\ Len(said) <= Len(said) /\ Len(said) <= MaxItems /\ pieces \in Nat
         /\ over \in Reasons \cup {"no"}
         /\ over = "no" => decoder.stop = "none" /\ ~decoder.finish
         /\ over = "refused" => decoder.stop = "error"
         /\ over # "no" => decoder.stop # "none"
<1>1. Follows(api, naming, decoder, said) /\ InStep(api, decoder, said) /\ Tabled(decoder)
      /\ WellTold(decoder.events, decoder.content)
  BY DEF AnswerInv, Coming, Follows, InStep, ToldSoFar
<1>2. Len(said) \in Nat
  BY LenProperties DEF AnswerInv, AnswerTypes
<1>. QED
  BY <1>1, <1>2 DEF AnswerInv, AnswerTypes, Coming

\* A step that closes the answer, with a reason.
LEMMA AnswerFinishes ==
  ASSUME AnswerInv, stage = "open", stage' = "finished", UNCHANGED <<api, naming, said, pieces, ctxDone>>,
         over' \in Reasons \cup {"no"}, fresh' \in BOOLEAN, NEW stop, Finishes(decoder, decoder', stop),
         stop # "none", over' = "refused" => Failed(stop),
         api = "completions" /\ ~Failed(stop) => over' # "no"
  PROVE  AnswerInv'
<1>1. /\ Tabled(decoder') /\ decoder'.content = decoder.content /\ decoder'.partial = decoder.partial
      /\ decoder'.stop = stop /\ AllTold(decoder'.events, decoder'.content)
  BY DEF Finishes
<1>2. NoHalfAnswerPasses'
  BY <1>1 DEF NoHalfAnswerPasses
<1>3. stage' \in FinalStages
  BY DEF FinalStages
<1>4. /\ said' \in Seq(Items) /\ Len(said) <= Len(said') /\ Len(said') <= MaxItems /\ said' = said
      /\ pieces' \in Nat
  BY ComingIs
<1>. QED
  BY <1>1, <1>2, <1>3, <1>4, AnswerEnds

LEMMA SayErrorStep == ASSUME AnswerInv, SayError PROVE AnswerInv'
<1>1. /\ stage = "open" /\ stage' = "finished" /\ UNCHANGED <<api, naming, said, pieces, ctxDone>>
      /\ over' \in Reasons \cup {"no"} /\ fresh' \in BOOLEAN /\ over' = "refused"
  BY DEF SayError, Speaks, Reasons
<1>2. Tabled(decoder) /\ WellTold(decoder.events, decoder.content)
  BY <1>1, ComingIs
<1>3. CASE ctxDone
  <2>1. Finishes(decoder, decoder', "aborted")
    BY <1>2, <1>3, AbortedIs DEF SayError
  <2>. QED
    BY <1>1, <2>1, AnswerFinishes DEF Failed
<1>4. CASE ~ctxDone
  <2>1. Finishes(decoder, decoder', "error")
    BY <1>2, <1>4, ClosedIs DEF SayError, Stops
  <2>. QED
    BY <1>1, <2>1, AnswerFinishes DEF Failed
<1>. QED
  BY <1>3, <1>4

\* The decoder says how the answer ended.
LEMMA EndedByDecoder ==
  ASSUME AnswerInv, stage = "open", decoder' = EndOfStream(decoder), stage' = "finished", fresh' \in BOOLEAN,
         UNCHANGED <<api, naming, said, pieces, ctxDone, over>>
  PROVE  AnswerInv'
<1>1. PICK stop \in Stops : /\ Finishes(decoder, EndOfStream(decoder), stop) /\ stop # "none"
                            /\ decoder.stop = "error" => stop = "error"
                            /\ api = "completions" /\ ~decoder.finish => stop = "error"
  BY ComingIs, EndOfStreamIs
<1>2. Finishes(decoder, decoder', stop)
  BY <1>1
<1>3. over' = over /\ over' \in Reasons \cup {"no"}
  BY ComingIs
<1>4. over' = "refused" => Failed(stop)
  BY <1>1, <1>3, ComingIs DEF Failed
<1>5. api = "completions" /\ ~Failed(stop) => over' # "no"
  BY <1>1, <1>3, ComingIs DEF Failed
<1>. QED
  BY <1>1, <1>2, <1>3, <1>4, <1>5, AnswerFinishes

LEMMA EndStreamStep == ASSUME AnswerInv, EndStream PROVE AnswerInv'
  BY EndedByDecoder DEF EndStream

LEMMA ReadFailsStep == ASSUME AnswerInv, ReadFails PROVE AnswerInv'
<1>1. /\ stage = "open" /\ UNCHANGED <<api, naming, said, pieces, ctxDone, over>>
      /\ fresh' = (decoder'.events # decoder.events)
  BY DEF ReadFails
<1>2. fresh' \in BOOLEAN
  BY <1>1
<1>3. Tabled(decoder) /\ WellTold(decoder.events, decoder.content)
  BY <1>1, ComingIs
<1>4. CASE api = "responses" /\ over \in {"natural", "tools"}
  BY <1>1, <1>2, <1>4, EndedByDecoder DEF ReadFails
<1>5. CASE ~(api = "responses" /\ over \in {"natural", "tools"}) /\ api = "codex" /\ ctxDone
  <2>1. decoder' = Closed(decoder, "aborted") /\ stage' = "finished"
    BY <1>5 DEF ReadFails
  <2>2. Finishes(decoder, decoder', "aborted")
    BY <1>3, <2>1, ClosedIs DEF Stops
  <2>3. over' \in Reasons \cup {"no"}
    BY <1>1, ComingIs
  <2>. QED
    BY <1>1, <1>2, <1>5, <2>1, <2>2, <2>3, AnswerFinishes DEF Failed
<1>6. CASE ~(api = "responses" /\ over \in {"natural", "tools"}) /\ ~(api = "codex" /\ ctxDone)
  <2>1. decoder' = [decoder EXCEPT !.stop = IF @ = "none" THEN "error" ELSE @] /\ stage' = "failed"
    BY <1>6 DEF ReadFails
  <2>2. PICK stop : stop = IF decoder.stop = "none" THEN "error" ELSE decoder.stop
    OBVIOUS
  <2>3. decoder' = [decoder EXCEPT !.stop = stop] /\ stop \in Stops
    BY <1>3, <2>1, <2>2, TabledFacts DEF Stops
  <2>4. /\ Tabled(decoder') /\ decoder'.stop = stop /\ decoder'.content = decoder.content
        /\ decoder'.partial = decoder.partial /\ decoder'.events = decoder.events
    BY <1>3, <2>3, StopSet
  <2>5. stop # "none" /\ (over = "no" => stop = "error") /\ (over = "refused" => stop = "error")
    BY <1>1, <2>2, ComingIs
  <2>6. NoHalfAnswerPasses'
    BY <1>1, <2>1, <2>4, <2>5 DEF NoHalfAnswerPasses, Failed
  <2>7. stage' \in FinalStages /\ stage' # "finished" /\ WellTold(decoder'.events, decoder'.content)
    BY <1>3, <2>1, <2>4 DEF FinalStages
  <2>8. /\ said' \in Seq(Items) /\ Len(said) <= Len(said') /\ Len(said') <= MaxItems /\ said' = said
        /\ pieces' \in Nat /\ over' \in Reasons \cup {"no"}
    BY <1>1, ComingIs
  <2>. QED
    BY <1>1, <1>2, <2>4, <2>6, <2>7, <2>8, AnswerEnds
<1>. QED
  BY <1>4, <1>5, <1>6

LEMMA CancelAnswerStep == ASSUME AnswerInv, CancelAnswer PROVE AnswerInv'
<1>1. /\ stage \in {"asked", "open"} /\ ctxDone' = TRUE /\ fresh' = FALSE
      /\ UNCHANGED <<api, naming, said, pieces, decoder, over, stage>>
  BY DEF CancelAnswer
<1>2. AnswerTypes'
  BY <1>1 DEF AnswerInv, AnswerTypes
<1>3. NothingYet' /\ Coming'
  BY <1>1 DEF AnswerInv, NothingYet, Coming
<1>4. Gone'
  BY <1>1 DEF Gone, FinalStages
<1>. QED
  BY <1>2, <1>3, <1>4 DEF AnswerInv

LEMMA AbandonAnswerStep == ASSUME AnswerInv, AbandonAnswer PROVE AnswerInv'
<1>1. /\ stage = "open" /\ stage' = "abandoned" /\ fresh' = FALSE
      /\ UNCHANGED <<api, naming, said, pieces, ctxDone, over>>
      /\ decoder' = [decoder EXCEPT !.stop = "aborted"]
  BY DEF AbandonAnswer
<1>2. /\ Tabled(decoder') /\ decoder'.stop = "aborted" /\ decoder'.content = decoder.content
      /\ decoder'.partial = decoder.partial /\ decoder'.events = decoder.events
  BY <1>1, ComingIs, StopSet DEF Stops
<1>3. NoHalfAnswerPasses'
  BY <1>1, <1>2 DEF NoHalfAnswerPasses
<1>4. stage' \in FinalStages /\ stage' # "finished" /\ WellTold(decoder'.events, decoder'.content)
  BY <1>1, <1>2, ComingIs DEF FinalStages
<1>5. /\ said' \in Seq(Items) /\ Len(said) <= Len(said') /\ Len(said') <= MaxItems /\ said' = said
      /\ pieces' \in Nat /\ over' \in Reasons \cup {"no"} /\ fresh' \in BOOLEAN
  BY <1>1, ComingIs
<1>. QED
  BY <1>1, <1>2, <1>3, <1>4, <1>5, AnswerEnds

\* The reason the service gives is set beside the blocks.
WithReason(d, stop) == [d EXCEPT !.stop = stop, !.finish = TRUE]

LEMMA ReasonSet ==
  ASSUME NEW a, NEW nm, NEW d, NEW s, Follows(a, nm, d, s), NEW stop \in Stops, NEW e,
         e = WithReason(d, stop)
  PROVE  /\ Follows(a, nm, e, s) /\ Tabled(e) /\ WellTold(e.events, e.content)
         /\ e.stop = stop /\ e.content = d.content /\ e.partial = d.partial
<1>1. InStep(a, d, s) /\ Found(a, nm, d, s) /\ Tabled(d) /\ d \in Decoders
  BY DEF Follows, InStep, Tabled
<1>2. /\ e.stop = stop /\ e.content = d.content /\ e.partial = d.partial /\ e.events = d.events
      /\ e.key = d.key /\ e.ids = d.ids /\ e.open = d.open
  BY <1>1 DEF Decoders, WithReason
<1>3. Tabled(e)
  BY <1>1, FieldsSet DEF WithReason
<1>4. InStep(a, e, s)
  BY <1>1, <1>2, <1>3, OtherFields
<1>5. Found(a, nm, e, s)
  BY <1>1, <1>2 DEF Found
<1>. QED
  BY <1>2, <1>3, <1>4, <1>5 DEF Follows, InStep, ToldSoFar

\* Every reason a service gives for its stop is one the message can show.
StopSaid(reason) ==
    IF Sequential
    THEN ResponsesStop(decoder, CASE reason = "length" -> "incomplete"
                                  [] reason = "refused" -> "cancelled"
                                  [] OTHER -> "completed")
    ELSE StopFor(reason)

LEMMA StopSaidIs ==
  ASSUME NEW reason \in Reasons
  PROVE  /\ StopSaid(reason) \in Stops /\ StopSaid(reason) # "none"
         /\ reason = "refused" => StopSaid(reason) = "error"
<1>1. CASE Sequential
  <2>1. PICK status : status = CASE reason = "length" -> "incomplete"
                                 [] reason = "refused" -> "cancelled"
                                 [] OTHER -> "completed"
    OBVIOUS
  <2>2. StopSaid(reason) = ResponsesStop(decoder, status)
    BY <1>1, <2>1 DEF StopSaid
  <2>3. CASE reason = "length"
    <3>1. status = "incomplete"
      BY <2>1, <2>3
    <3>2. ResponsesStop(decoder, status) = "length"
      BY <3>1 DEF ResponsesStop
    <3>. QED
      BY <2>2, <2>3, <3>2 DEF Stops
  <2>4. CASE reason = "refused"
    <3>1. status = "cancelled"
      BY <2>1, <2>4
    <3>2. ResponsesStop(decoder, status) = "error"
      BY <3>1 DEF ResponsesStop
    <3>. QED
      BY <2>2, <3>2 DEF Stops
  <2>5. CASE reason \notin {"length", "refused"}
    <3>1. status = "completed"
      BY <2>1, <2>5
    <3>2. ResponsesStop(decoder, status) \in {"toolUse", "stop"}
      BY <3>1 DEF ResponsesStop
    <3>. QED
      BY <2>2, <2>5, <3>2 DEF Stops
  <2>. QED
    BY <2>3, <2>4, <2>5
<1>2. CASE ~Sequential
  <2>1. StopSaid(reason) = StopFor(reason)
    BY <1>2 DEF StopSaid
  <2>2. /\ reason = "natural" => StopFor(reason) = "stop"
        /\ reason = "tools" => StopFor(reason) = "toolUse"
        /\ reason = "length" => StopFor(reason) = "length"
        /\ reason = "refused" => StopFor(reason) = "error"
    BY DEF StopFor
  <2>. QED
    BY <2>1, <2>2 DEF Stops, Reasons
<1>. QED
  BY <1>1, <1>2

LEMMA SayFinishStep == ASSUME AnswerInv, NEW reason \in Reasons, SayFinish(reason) PROVE AnswerInv'
<1>1. /\ Speaks /\ stage = "open" /\ over' = reason /\ UNCHANGED <<said, pieces>>
      /\ over' \in Reasons \cup {"no"} /\ over' # "no"
  BY DEF SayFinish, Speaks, Reasons
<1>2. PICK stop, told : stop = StopSaid(reason) /\ told = WithReason(decoder, stop)
  OBVIOUS
<1>3. stop \in Stops /\ stop # "none" /\ (reason = "refused" => stop = "error")
  BY <1>2, StopSaidIs
<1>4. /\ Follows(api, naming, told, said) /\ Tabled(told) /\ WellTold(told.events, told.content)
      /\ told.stop = stop /\ told.content = decoder.content /\ told.partial = decoder.partial
  <2>1. Follows(api, naming, decoder, said)
    BY <1>1, ComingIs
  <2>2. stop \in Stops
    BY <1>3
  <2>3. told = WithReason(decoder, stop)
    BY <1>2
  <2>. QED
    BY <2>1, <2>2, <2>3, ReasonSet
<1>5. CASE api = "codex" /\ ~ctxDone
  <2>1. decoder' = Closed(told, stop) /\ stage' = "finished" /\ fresh' = TRUE /\ UNCHANGED <<api, naming, ctxDone>>
    BY <1>2, <1>5 DEF SayFinish, StopSaid, WithReason
  <2>2. Finishes(told, decoder', stop)
    BY <1>3, <1>4, <2>1, ClosedIs
  <2>3. Finishes(decoder, decoder', stop)
    BY <1>4, <2>2 DEF Finishes
  <2>4. over' = "refused" => Failed(stop)
    BY <1>1, <1>3 DEF Failed
  <2>. QED
    BY <1>1, <1>3, <2>1, <2>3, <2>4, AnswerFinishes
<1>6. CASE ~(api = "codex" /\ ~ctxDone)
  <2>1. Hear(told)
    BY <1>2, <1>6 DEF SayFinish, StopSaid, WithReason
  <2>2. /\ said' \in Seq(Items) /\ Len(said) <= Len(said') /\ Len(said') <= MaxItems /\ said' = said
        /\ pieces' \in Nat
    BY <1>1, ComingIs
  <2>3. /\ over' = "refused" => told.stop = "error"
        /\ over' # "no" => told.stop # "none"
        /\ over' # "no"
    BY <1>1, <1>3, <1>4
  <2>. QED
    BY <1>1, <1>4, <2>1, <2>2, <2>3, AnswerHeard
<1>. QED
  BY <1>5, <1>6

LEMMA AcceptStep == ASSUME AnswerInv, Accept PROVE AnswerInv'
<1>1. /\ stage = "asked" /\ stage' = "open" /\ fresh' = TRUE /\ decoder = NoDecoder /\ said = <<>>
      /\ over = "no" /\ UNCHANGED <<api, naming, said, pieces, ctxDone, over>>
      /\ decoder' = Emit(NoDecoder, "message")
  BY DEF Accept, AnswerInv, NothingYet
<1>2. AnswerTypes'
  BY <1>1 DEF AnswerInv, AnswerTypes
<1>3. PICK d, x : d = Emit(NoDecoder, "message") /\ x = StreamEvent("message", 0, "none")
  OBVIOUS
<1>4. /\ Tabled(d) /\ SameBut(NoDecoder, d) /\ d.content = <<>> /\ d.partial = <<>> /\ d.events = Append(<<>>, x)
  BY <1>3, NothingIs, EmitIs
<1>5. Len(d.events) = 1 /\ d.events[1] = x /\ x.type = "message" /\ x.index = 0
  <2>1. <<>> \in Seq({x}) /\ x \in {x} /\ Len(<<>>) = 0
    BY EmptySeq
  <2>2. Len(Append(<<>>, x)) = 1 /\ Append(<<>>, x)[1] = x
    BY <2>1, AppendProperties
  <2>. QED
    BY <1>3, <1>4, <2>2 DEF StreamEvent
<1>6. Len(<<>>) = 0
  OBVIOUS
<1>7. WellTold(d.events, d.content)
  BY <1>4, <1>5, <1>6 DEF WellTold, Tellings
<1>8. Starts(d.events) = {} /\ d.events # <<>>
  BY <1>5, <1>6 DEF Starts
<1>9. ToldSoFar(api, d, <<>>)
  BY <1>4, <1>5, <1>6, <1>7, <1>8, FS_EmptySet DEF ToldSoFar
<1>10. Matches(d, <<>>)
  BY <1>4, <1>6 DEF Matches
<1>11. d.stop = "none" /\ ~d.finish /\ ~d.open
  BY <1>4, NothingIs DEF SameBut
<1>12. Found(api, naming, d, <<>>)
  BY <1>6, <1>11 DEF Found
<1>13. Follows(api, naming, d, <<>>)
  BY <1>4, <1>9, <1>10, <1>12 DEF Follows, InStep
<1>14. Follows(api', naming', decoder', said') /\ decoder'.stop = "none" /\ ~decoder'.finish /\ over' = "no"
  BY <1>1, <1>3, <1>11, <1>13
<1>15. Coming'
  BY <1>14 DEF Coming
<1>. QED
  BY <1>1, <1>2, <1>15 DEF AnswerInv, NothingYet, Gone, FinalStages

LEMMA RefuseStep == ASSUME AnswerInv, Refuse PROVE AnswerInv'
<1>1. /\ stage = "asked" /\ fresh' = FALSE /\ decoder = NoDecoder /\ said = <<>>
      /\ over = "no" /\ UNCHANGED <<api, naming, said, pieces, ctxDone, over>>
  BY DEF Refuse, AnswerInv, NothingYet
<1>2. Len(<<>>) = 0
  OBVIOUS
<1>3. ASSUME NEW stop \in {"error", "aborted"}, stage' = "finished",
             decoder' = Emit([decoder EXCEPT !.stop = stop], "complete")
      PROVE  AnswerInv'
  <2>1. Finishes(NoDecoder, Emit([NoDecoder EXCEPT !.stop = stop], "complete"), stop)
    BY <1>3, NothingIs, CompleteIs DEF Stops
  <2>2. Finishes(NoDecoder, decoder', stop)
    BY <1>1, <1>3, <2>1
  <2>3. /\ Tabled(decoder') /\ decoder'.content = <<>> /\ decoder'.stop = stop
        /\ AllTold(decoder'.events, decoder'.content)
    BY <2>2, NothingIs DEF Finishes
  <2>4. Matches(decoder', said') /\ Len(decoder'.content) <= Len(said')
    BY <1>1, <1>2, <2>3 DEF Matches
  <2>5. NoHalfAnswerPasses'
    BY <1>1, <1>3, <2>3 DEF NoHalfAnswerPasses, Failed
  <2>6. AnswerTypes'
    BY <1>1, <1>3 DEF AnswerInv, AnswerTypes, FinalStages
  <2>. QED
    BY <1>3, <2>3, <2>4, <2>5, <2>6 DEF AnswerInv, NothingYet, Coming, Gone
<1>4. ASSUME stage' = "failed", decoder' = decoder
      PROVE  AnswerInv'
  <2>1. /\ Tabled(decoder') /\ decoder'.content = <<>> /\ decoder'.events = <<>>
        /\ WellTold(decoder'.events, decoder'.content) /\ Matches(decoder', said')
    BY <1>1, <1>4, NothingIs
  <2>2. Len(decoder'.content) <= Len(said')
    BY <1>1, <1>2, <2>1
  <2>3. NoHalfAnswerPasses'
    BY <1>1, <1>4, <2>1 DEF NoHalfAnswerPasses
  <2>4. AnswerTypes'
    BY <1>1, <1>4 DEF AnswerInv, AnswerTypes, FinalStages
  <2>. QED
    BY <1>4, <2>1, <2>2, <2>3, <2>4 DEF AnswerInv, NothingYet, Coming, Gone
<1>. QED
  BY <1>3, <1>4 DEF Refuse

LEMMA AnswerStays == ASSUME AnswerInv, [AnswerNext]_answerVars PROVE AnswerInv'
<1>1. CASE UNCHANGED answerVars
  BY <1>1 DEF answerVars, AnswerInv, AnswerTypes, NothingYet, Coming, Gone, NoHalfAnswerPasses
<1>2. CASE Accept
  BY <1>2, AcceptStep
<1>3. CASE Refuse
  BY <1>3, RefuseStep
<1>4. ASSUME NEW kind \in Kinds, BeginItem(kind) PROVE AnswerInv'
  BY <1>4, BeginItemStep
<1>5. CASE SayUnknown
  BY <1>5, SayUnknownStep
<1>6. ASSUME NEW i \in 1..MaxItems, NEW flag \in BOOLEAN, SayPiece(i, flag) PROVE AnswerInv'
  BY <1>6, SayPieceStep
<1>7. ASSUME NEW i \in 1..MaxItems, NEW flag \in BOOLEAN, SayArguments(i, flag) PROVE AnswerInv'
  BY <1>7, SayArgumentsStep
<1>8. ASSUME NEW i \in 1..MaxItems, NEW flag \in BOOLEAN, EndItem(i, flag) PROVE AnswerInv'
  BY <1>8, EndItemStep
<1>9. ASSUME NEW reason \in {"natural", "tools", "length", "refused"}, SayFinish(reason) PROVE AnswerInv'
  BY <1>9, SayFinishStep DEF Reasons
<1>10. CASE SayError
  BY <1>10, SayErrorStep
<1>11. CASE EndStream
  BY <1>11, EndStreamStep
<1>12. CASE ReadFails
  BY <1>12, ReadFailsStep
<1>13. CASE CancelAnswer
  BY <1>13, CancelAnswerStep
<1>14. CASE AbandonAnswer
  BY <1>14, AbandonAnswerStep
<1>. QED
  BY <1>1, <1>2, <1>3, <1>4, <1>5, <1>6, <1>7, <1>8, <1>9, <1>10, <1>11, <1>12, <1>13, <1>14 DEF AnswerNext

\* What an answer becomes is what the service said: however the pieces of its
\* items alternate, whichever way it names its calls, wherever the stream is cut,
\* fails, is cancelled or is left by its consumer, the events tell a well-formed
\* answer, the message holds each item under its own block, and nothing that
\* failed passes for complete (anthropic.go, openai_responses.go, codex.go,
\* openai_completions.go, stream.go).
THEOREM AnswersStayFaithful == AnswerSpec => []AnswerFaithful
<1>1. AnswerSpec => []AnswerInv
  BY AnswerBegins, AnswerStays, PTL DEF AnswerSpec
<1>. QED
  BY <1>1, AnswerShows, PTL

\* The decoder's tables have an entry for each block, and no answer has more
\* blocks than the service began items (findAnthropicBlock, ensureToolCallBlock).
THEOREM AnswersStayTabled == AnswerSpec => []AnswerTypeOK
<1>1. AnswerSpec => []AnswerInv
  BY AnswerBegins, AnswerStays, PTL DEF AnswerSpec
<1>. QED
  BY <1>1, AnswerShapes, PTL

-------------------------------------------------------------------------------
(* Types                                                                        *)

\* The bounds of the chains are kept, and a message that is being asked about has
\* its place.
HooksBounded ==
    /\ Len(handlers) <= MaxHandlers /\ Len(sink.stored) <= MaxPublished
    /\ chain = "message_end" /\ emission.end # "none" => Len(sink.stored) < MaxPublished

\* A file registers two rules for an event at most, one of each form.
AtMost(s, n) == s \in Seq(Rules) /\ Len(s) <= n

LEMMA HooksBoundedAtFirst == HookInit => HooksBounded
<1>. SUFFICES ASSUME HookInit PROVE HooksBounded
  OBVIOUS
<1>1. PICK file \in Files, first \in {<<>>, <<Extension>>} : \E rules \in RulesOf(file) : handlers = first \o rules
  BY DEF HookInit
<1>2. PICK rules \in RulesOf(file) : handlers = first \o rules
  BY <1>1
<1>3. ASSUME NEW s, NEW t, NEW m \in Nat, NEW n \in Nat, AtMost(s, m), AtMost(t, n),
             NEW k, k = m + n
      PROVE  AtMost(s \o t, k)
  <2>1. /\ Len(s) \in Nat /\ Len(t) \in Nat /\ s \o t \in Seq(Rules)
        /\ Len(s \o t) = Len(s) + Len(t) /\ Len(s) <= m /\ Len(t) <= n
    BY <1>3, LenProperties, ConcatProperties DEF AtMost
  <2>2. PICK a \in Nat, b \in Nat : a = Len(s) /\ b = Len(t) /\ a <= m /\ b <= n
    BY <2>1
  <2>3. a + b <= m + n
    BY <2>2
  <2>4. Len(s \o t) <= k
    BY <1>3, <2>1, <2>2, <2>3
  <2>. QED
    BY <2>1, <2>4 DEF AtMost
<1>4. AtMost(<<>>, 1) /\ AtMost(<<>>, 2)
  BY DEF AtMost
<1>5. ASSUME NEW e \in Rules PROVE AtMost(<<e>>, 1)
  BY DEF AtMost
<1>6. Extension \in Rules /\ \A m \in BOOLEAN : ShellRule(m) \in Rules
  BY DEF Extension, ShellRule, Rules
<1>7. AtMost(<<Extension>>, 1) /\ \A m \in BOOLEAN : AtMost(<<ShellRule(m)>>, 1)
  BY <1>5, <1>6
<1>8. AtMost(first, 1)
  BY <1>4, <1>7
<1>9. AtMost(file.native, 1) /\ AtMost(file.alias, 1)
  <2>1. file.native = <<>> \/ \E m \in BOOLEAN : file.native = <<ShellRule(m)>>
    <3>1. file.native \in {<<>>} \cup {<<ShellRule(m)>> : m \in BOOLEAN}
      BY DEF Files
    <3>. QED
      BY <3>1, Zenon
  <2>2. file.alias = <<>> \/ file.alias = <<ShellRule(TRUE)>>
    BY DEF Files
  <2>3. TRUE \in BOOLEAN
    OBVIOUS
  <2>4. AtMost(file.native, 1)
    BY <1>4, <1>7, <2>1
  <2>5. AtMost(file.alias, 1)
    BY <1>4, <1>7, <2>2, <2>3
  <2>. QED
    BY <2>4, <2>5
<1>10. AtMost(rules, 2)
  <2>0. 2 = 1 + 1
    OBVIOUS
  <2>1. AtMost(file.native \o file.alias, 2) /\ AtMost(file.alias \o file.native, 2)
    BY <1>3, <1>9, <2>0
  <2>2. rules = <<>> \/ rules = file.native \o file.alias \/ rules = file.alias \o file.native
    BY DEF RulesOf
  <2>. QED
    BY <1>4, <2>1, <2>2
<1>11. Len(handlers) \in Nat /\ Len(handlers) <= 3
  <2>0. 3 = 1 + 2
    OBVIOUS
  <2>1. AtMost(first \o rules, 3)
    BY <1>3, <1>8, <1>10, <2>0
  <2>. QED
    BY <1>2, <2>1, LenProperties DEF AtMost
<1>12. emission.end = "none" /\ Len(sink.stored) = 0
  BY DEF HookInit, IdleEmission, EmptySink
<1>13. MaxHandlers \in Nat /\ MaxHandlers >= 3 /\ MaxPublished \in Nat
  BY HookBounds
<1>14. Len(handlers) <= MaxHandlers
  BY <1>11, <1>13
<1>15. Len(sink.stored) <= MaxPublished
  BY <1>12, <1>13
<1>. QED
  BY <1>12, <1>14, <1>15 DEF HooksBounded

LEMMA HooksStayBounded == HooksInv /\ HooksBounded /\ [HookNext]_hookVars => HooksBounded'
<1>. SUFFICES ASSUME HooksInv, HooksBounded, [HookNext]_hookVars PROVE HooksBounded'
  OBVIOUS
<1>1. /\ handlers \in Seq(Rules) /\ Len(handlers) \in Nat /\ sink \in Sinks /\ sink.stored \in Seq(Finals)
      /\ Len(sink.stored) \in Nat /\ MaxHandlers \in Nat /\ MaxPublished \in Nat
  BY LenProperties, HookBounds DEF HooksInv, EmissionInv, HookTypes, SinkInv, Sinks
<1>2. CASE On
  <2>1. Len(handlers') = Len(handlers) + 1
    BY <1>1, <1>2, AppendProperties DEF On
  <2>. QED
    BY <1>1, <1>2, <2>1 DEF On, HooksBounded
<1>3. CASE EmitEvent
  BY <1>3 DEF EmitEvent, HooksBounded
<1>4. CASE AskExtension \/ AskShell
  <2>1. emission.end = "asking" /\ UNCHANGED <<chain, handlers, sink>>
    BY <1>4 DEF AskExtension, AskShell, HandlerAnswers, Busy
  <2>. QED
    BY <2>1 DEF HooksBounded
<1>5. ASSUME NEW named \in BOOLEAN, MessageEnd(named) PROVE HooksBounded'
  <2>1. PICK final : /\ sink'.stored = Append(sink.stored, final)
                     /\ chain = "message_end" /\ emission.end = "done" /\ emission' = IdleEmission
                     /\ UNCHANGED <<chain, handlers>>
    BY <1>1, <1>5 DEF MessageEnd, Sinks
  <2>2. Len(sink'.stored) = Len(sink.stored) + 1
    BY <1>1, <2>1
  <2>3. emission'.end = "none"
    BY <2>1 DEF IdleEmission
  <2>. QED
    BY <1>1, <2>1, <2>2, <2>3 DEF HooksBounded
<1>6. CASE AgentEnd
  <2>1. sink'.stored = sink.stored /\ UNCHANGED <<chain, handlers, emission>>
    BY <1>1, <1>6 DEF AgentEnd, Sinks
  <2>. QED
    BY <2>1 DEF HooksBounded
<1>7. CASE UNCHANGED hookVars
  BY <1>7 DEF hookVars, HooksBounded
<1>. QED
  BY <1>2, <1>3, <1>4, <1>5, <1>6, <1>7 DEF HookNext

LEMMA HooksTyped == HookSpec => []HookTypeOK
<1>1. HooksInv /\ HooksBounded => HookTypeOK
  BY DEF HooksInv, EmissionInv, HookTypes, Emissions, InOrder, SinkInv, Sinks, HooksBounded, HookTypeOK
<1>. QED
  BY <1>1, HooksBegin, HooksStep, HooksBoundedAtFirst, HooksStayBounded, PTL DEF HookSpec

\* A conversation is a sequence of messages.
WireRoles == {"user", "assistant", "toolResult"}
Conversation ==
    /\ \E S : history \in Seq(S)
    /\ Len(history) <= MaxMessages /\ \A i \in 1..Len(history) : history[i].role \in WireRoles

LEMMA ConversationGrows ==
  ASSUME Conversation, HasRoom, NEW m, m.role \in WireRoles, Store(m)
  PROVE  Conversation'
<1>1. PICK S : history \in Seq(S)
  BY DEF Conversation
<1>2. PICK T : T = S \cup {m}
  OBVIOUS
<1>3. history \in Seq(T) /\ m \in T /\ Len(history) \in Nat
  BY <1>1, <1>2, LenProperties
<1>4. /\ history' \in Seq(T) /\ Len(history') = Len(history) + 1 /\ history'[Len(history) + 1] = m
      /\ \A i \in 1..Len(history) : history'[i] = history[i]
  BY <1>3, AppendProperties DEF Store
<1>5. Len(history') <= MaxMessages
  BY <1>3, <1>4, WireBounds DEF HasRoom
<1>6. \A i \in 1..Len(history') : i \in 1..Len(history) \/ i = Len(history) + 1
  BY <1>3, <1>4
<1>7. \A i \in 1..Len(history') : history'[i].role \in WireRoles
  BY <1>4, <1>6 DEF Conversation
<1>. QED
  BY <1>4, <1>5, <1>7 DEF Conversation

LEMMA ConversationStays == Conversation /\ [WireNext]_wireVars => Conversation'
<1>. SUFFICES ASSUME Conversation, [WireNext]_wireVars PROVE Conversation'
  OBVIOUS
<1>1. CASE UserPrompts
  <2>1. PICK content : HasRoom /\ Store(UserMessage(content))
    BY <1>1 DEF UserPrompts
  <2>2. UserMessage(content).role \in WireRoles
    BY DEF UserMessage, WireRoles
  <2>. QED
    BY <2>1, <2>2, ConversationGrows
<1>2. CASE ModelAnswers
  <2>1. PICK name, content, stop : HasRoom /\ Store(AssistantMessage(name, content, stop))
    BY <1>2 DEF ModelAnswers
  <2>2. AssistantMessage(name, content, stop).role \in WireRoles
    BY DEF AssistantMessage, WireRoles
  <2>. QED
    BY <2>1, <2>2, ConversationGrows
<1>3. CASE ToolAnswers
  <2>1. PICK id, content : HasRoom /\ Store(ResultMessage(id, content))
    BY <1>3 DEF ToolAnswers
  <2>2. ResultMessage(id, content).role \in WireRoles
    BY DEF ResultMessage, WireRoles
  <2>. QED
    BY <2>1, <2>2, ConversationGrows
<1>4. CASE UNCHANGED wireVars
  BY <1>4 DEF wireVars, Conversation
<1>. QED
  BY <1>1, <1>2, <1>3, <1>4 DEF WireNext

LEMMA WireTyped == WireSpec => []WireTypeOK
<1>1. WireInit => Conversation
  <2>1. <<>> \in Seq({}) /\ Len(<<>>) = 0
    OBVIOUS
  <2>. QED
    BY <2>1, WireBounds DEF WireInit, Conversation
<1>2. Conversation => WireTypeOK
  BY LenProperties DEF Conversation, WireRoles, WireTypeOK
<1>. QED
  BY <1>1, <1>2, ConversationStays, PTL DEF WireSpec

-------------------------------------------------------------------------------
(* The parts together                                                           *)

\* A behaviour of the turn is one of the loop, of the hooks, of a decoder and of the
\* conversation requests are made of.
LEMMA TurnParts == TurnSpec => Spec /\ HookSpec /\ AnswerSpec /\ WireSpec
<1>1. TurnInit => Init /\ HookInit /\ AnswerInit /\ WireInit
  BY DEF TurnInit
<1>2. [TurnNext]_turnVars => /\ [Next]_vars /\ [HookNext]_hookVars
                             /\ [AnswerNext]_answerVars /\ [WireNext]_wireVars
  <2>1. TurnNext => /\ [Next]_vars /\ [HookNext]_hookVars
                    /\ [AnswerNext]_answerVars /\ [WireNext]_wireVars
    BY DEF TurnNext
  <2>2. UNCHANGED turnVars => /\ UNCHANGED vars /\ UNCHANGED hookVars
                              /\ UNCHANGED answerVars /\ UNCHANGED wireVars
    BY DEF turnVars
  <2>. QED
    BY <2>1, <2>2
<1>. QED
  BY <1>1, <1>2, PTL DEF TurnSpec, Spec, HookSpec, AnswerSpec, WireSpec

\* A turn of a model, with the loop, the hooks, the requests and the decoders that
\* move in it: the loop keeps the session and the events in step (agent.go, run.go),
\* what the handlers of extensions decide reaches whom it is for (hook.go), and
\* agent_end tells the messages as message_end had them stored.
THEOREM TurnStaysInStep == TurnSpec => []TurnInStep
<1>1. LoopInStep /\ HooksHonest => TurnInStep
  BY DEF TurnInStep
<1>. QED
  BY <1>1, TurnParts, LoopStaysInStep, HooksStayHonest, PTL

\* In a turn too the message is what the service said (anthropic.go,
\* openai_responses.go, codex.go, openai_completions.go).
THEOREM TurnAnswersFaithful == TurnSpec => []AnswerFaithful
  BY TurnParts, AnswersStayFaithful, PTL

\* Every part of a turn keeps its types: no handler is asked that the snapshot of the
\* event does not hold, no block is outside the decoder's tables, and no message of
\* a role the services do not know is stored (hook.go, the decoders, loop.go).
THEOREM TurnTyped == TurnSpec => []TurnTypeOK
<1>1. TypeOK /\ HookTypeOK /\ AnswerTypeOK /\ WireTypeOK => TurnTypeOK
  BY DEF TurnTypeOK
<1>. QED
  BY <1>1, TurnParts, TypeCorrect, HooksTyped, AnswersStayTabled, WireTyped, PTL
===============================================================================
