------------------------------ MODULE StoresProofs ------------------------------
(***************************************************************************)
(* Theorems about what outlives a run: the change of sessions under a      *)
(* running orchestrator (Switching); what is kept in files that several    *)
(* processes or calls change, that is auth.json behind its lock file       *)
(* (Credentials), the settings and their two scopes (Settings) and the     *)
(* files of the tools behind their queues (FileMutations); the catalogue   *)
(* of models (Catalogue); and the types of the components that MCStores    *)
(* puts together.  For any number of callers, sessions, threads,           *)
(* processes, tokens, paths, writers, names, queues, providers and models. *)
(***************************************************************************)
EXTENDS MCStores, SequenceTheorems, FiniteSetTheorems, NaturalsInduction,
        WellFoundedInduction, TLAPS

(***************************************************************************)
(* Switching: what a switch must not break, and the types it rests on.     *)
(***************************************************************************)

(***************************************************************************)
(* The last choice of a branch.                                            *)
(***************************************************************************)

Entries == {Said("user"), Said("assistant")} \cup {Chose(m) : m \in Models}
ChoicesIn(b) == {i \in DOMAIN b : b[i].kind = "model"}
LastChoice(b, i) == i \in ChoicesIn(b) /\ \A j \in ChoicesIn(b) : j <= i

\* The order of the naturals as a relation.
Below == OpToRel(<, Nat)

\* It has no infinite descent.
LEMMA BelowWellFounded == IsWellFoundedOn(Below, Nat)
  BY NatLessThanWellFounded DEF Below

\* Its pairs are the ordered ones.
LEMMA BelowOrders == \A x, y \in Nat : <<x, y>> \in Below <=> x < y
  BY DEF Below, OpToRel

\* A set of positions that is not empty has a last one.
LEMMA LastExists ==
  ASSUME NEW n \in Nat, NEW T, T \subseteq 1..n, T # {}
  PROVE  \E x \in T : \A y \in T : y <= x
<1> DEFINE U == {n - t : t \in T}
<1>1. U \subseteq Nat
  <2>1. ASSUME NEW t \in T PROVE n - t \in Nat
    <3>1. t \in 1..n
      OBVIOUS
    <3>. QED  BY <3>1
  <2>. QED  BY <2>1
<1>2. U # {}
  OBVIOUS
<1>3. PICK u \in U : \A y \in U : ~(<<y, u>> \in Below)
  <2>. HIDE DEF U
  <2>. QED  BY <1>1, <1>2, BelowWellFounded, WFMin
<1>4. PICK x \in T : u = n - x
  OBVIOUS
<1>5. ASSUME NEW y \in T PROVE y <= x
  <2>1. y \in 1..n /\ x \in 1..n
    OBVIOUS
  <2>2. n - y \in U /\ n - y \in Nat /\ u \in Nat
    BY <1>1
  <2>3. ~(n - y < u)
    BY <2>2, <1>3, BelowOrders
  <2>. QED  BY <2>1, <2>3, <1>4
<1>. QED  BY <1>5

\* What is recovered from a branch without a choice is what was given.
LEMMA NothingRecovered ==
  ASSUME NEW b, NEW m, ChoicesIn(b) = {}
  PROVE  Recovered(b, m) = m
  BY DEF Recovered, ChoicesIn

\* With one it is the last, whatever was given.
LEMMA LastRecovered ==
  ASSUME NEW b \in Seq(Entries), NEW m, NEW i, LastChoice(b, i)
  PROVE  Recovered(b, m) = b[i].model
<1>1. ChoicesIn(b) \subseteq Nat
  BY LenProperties DEF ChoicesIn
<1>2. ASSUME NEW x \in ChoicesIn(b), \A y \in ChoicesIn(b) : x >= y PROVE x = i
  BY <1>1, <1>2 DEF LastChoice
<1>3. i \in ChoicesIn(b) /\ \A y \in ChoicesIn(b) : i >= y
  BY <1>1 DEF LastChoice
<1>4. Max(ChoicesIn(b)) = i
  BY <1>2, <1>3 DEF Max
<1>. QED  BY <1>3, <1>4 DEF Recovered, ChoicesIn

\* One of the two is the case.
LEMMA ChoiceOrNone ==
  ASSUME NEW b \in Seq(Entries)
  PROVE  ChoicesIn(b) = {} \/ \E i : LastChoice(b, i)
<1>1. Len(b) \in Nat /\ ChoicesIn(b) \subseteq 1..Len(b)
  BY LenProperties DEF ChoicesIn
<1>2. ASSUME ChoicesIn(b) # {} PROVE \E i \in ChoicesIn(b) : \A j \in ChoicesIn(b) : j <= i
  <2>. HIDE DEF ChoicesIn
  <2>. QED  BY <1>1, <1>2, LastExists
<1>. QED  BY <1>2 DEF LastChoice

\* A choice is one of the models.
LEMMA ChoiceIsModel ==
  ASSUME NEW b \in Seq(Entries), NEW i \in ChoicesIn(b)
  PROVE  b[i].model \in Models
<1>1. i \in 1..Len(b) /\ b[i].kind = "model"
  BY LenProperties DEF ChoicesIn
<1>2. b[i] \in Entries
  BY <1>1, ElementOfSeq
<1>. QED  BY <1>1, <1>2 DEF Entries, Said, Chose

\* What is recovered is a model.
LEMMA RecoveredIsModel ==
  ASSUME NEW b \in Seq(Entries), NEW m \in Models
  PROVE  Recovered(b, m) \in Models
<1>1. CASE ChoicesIn(b) = {}
  BY <1>1, NothingRecovered
<1>2. CASE \E i : LastChoice(b, i)
  <2>1. PICK i : LastChoice(b, i)
    BY <1>2
  <2>. QED  BY <2>1, LastRecovered, ChoiceIsModel DEF LastChoice
<1>. QED  BY <1>1, <1>2, ChoiceOrNone

\* To recover twice is to recover once.
LEMMA RecoveredTwice ==
  ASSUME NEW b \in Seq(Entries), NEW m
  PROVE  Recovered(b, Recovered(b, m)) = Recovered(b, m)
<1>1. CASE ChoicesIn(b) = {}
  BY <1>1, NothingRecovered
<1>2. CASE \E i : LastChoice(b, i)
  BY <1>2, LastRecovered
<1>. QED  BY <1>1, <1>2, ChoiceOrNone

\* A message changes nothing of it.
LEMMA RecoveredAfterMessage ==
  ASSUME NEW b \in Seq(Entries), NEW m, NEW role \in {"user", "assistant"}
  PROVE  Recovered(Append(b, Said(role)), m) = Recovered(b, m)
<1> DEFINE a == Append(b, Said(role))
<1>1. /\ a \in Seq(Entries) /\ Len(a) = Len(b) + 1 /\ Len(b) \in Nat
      /\ \A i \in 1..Len(b) : a[i] = b[i]
      /\ a[Len(b) + 1] = Said(role)
  <2>1. Said(role) \in Entries
    BY DEF Entries
  <2>. QED  BY <2>1, AppendProperties, LenProperties
<1>2. DOMAIN a = 1..Len(b) + 1 /\ DOMAIN b = 1..Len(b)
  BY <1>1, LenProperties
<1>. HIDE DEF a
<1>3. ChoicesIn(a) = ChoicesIn(b)
  BY <1>1, <1>2 DEF ChoicesIn, Said
<1>4. CASE ChoicesIn(b) = {}
  BY <1>3, <1>4, NothingRecovered DEF a
<1>5. CASE \E i : LastChoice(b, i)
  <2>1. PICK i : LastChoice(b, i)
    BY <1>5
  <2>2. LastChoice(a, i) /\ a[i] = b[i]
    BY <2>1, <1>1, <1>2, <1>3 DEF LastChoice, ChoicesIn
  <2>. QED  BY <2>1, <2>2, <1>1, LastRecovered DEF a
<1>. QED  BY <1>4, <1>5, ChoiceOrNone

\* A choice at the end of a branch is what is recovered from it.
LEMMA RecoveredAtEnd ==
  ASSUME NEW b \in Seq(Entries), NEW m, NEW x \in Models,
         b # <<>>, b[Len(b)] = Chose(x)
  PROVE  Recovered(b, m) = x
<1>1. Len(b) \in Nat \ {0} /\ DOMAIN b = 1..Len(b)
  BY EmptySeq, LenProperties
<1>2. LastChoice(b, Len(b))
  BY <1>1 DEF LastChoice, ChoicesIn, Chose
<1>. QED  BY <1>2, LastRecovered DEF Chose

(***************************************************************************)
(* Types.  A branch only grows, and what a caller has in hand exists.      *)
(***************************************************************************)

Fields == {"step", "op", "from", "at", "to", "model", "hooks", "left"}
IsCall(k) == DOMAIN k = Fields /\ k.step \in Steps /\ k.hooks \in Registries

\* What a call refers to is there, in the sessions that are given.
CallFits(k, branches) ==
    /\ k.step \in {"rebind", "swap", "run", "between"} => k.to \in DOMAIN branches
    /\ k.step \in {"assemble", "record"} => k.from \in DOMAIN branches
    /\ k.step \in {"swap", "assemble", "record"} => k.model \in Models
    /\ k.step = "make" /\ k.op \in {"fork", "clone"} =>
           k.from \in DOMAIN branches /\ k.at \in 1..Len(branches[k.from])

TypeInv ==
    /\ SwitchTypeOK
    /\ sessions \in Seq(Seq(Entries))
    /\ DOMAIN calls = Callers /\ \A c \in Callers : IsCall(calls[c])
    /\ \A c \in Callers : CallFits(calls[c], sessions)

\* Sessions are never removed, and their branches never shortened.
Grown ==
    /\ sessions' \in Seq(Seq(Entries))
    /\ DOMAIN sessions \subseteq DOMAIN sessions'
    /\ \A s \in DOMAIN sessions : Len(sessions[s]) <= Len(sessions'[s])

\* What the sessions are in any state.
LEMMA SessionTypes ==
  ASSUME TypeInv
  PROVE  /\ Len(sessions) \in Nat /\ DOMAIN sessions = 1..Len(sessions)
         /\ \A s \in DOMAIN sessions : sessions[s] \in Seq(Entries) /\ Len(sessions[s]) \in Nat
<1>1. sessions \in Seq(Seq(Entries))
  BY DEF TypeInv
<1>2. Len(sessions) \in Nat /\ DOMAIN sessions = 1..Len(sessions)
  BY <1>1, LenProperties
<1>3. \A s \in DOMAIN sessions : sessions[s] \in Seq(Entries)
  BY <1>1, <1>2, ElementOfSeq
<1>. QED  BY <1>2, <1>3, LenProperties

\* A step that leaves the sessions alone, one that adds to a branch, one that adds a session.
LEMMA SameGrown ==
  ASSUME TypeInv, UNCHANGED sessions
  PROVE  Grown
  BY SessionTypes DEF TypeInv, Grown

LEMMA AppendGrown ==
  ASSUME TypeInv, NEW s \in DOMAIN sessions, NEW e \in Entries,
         sessions' = [sessions EXCEPT ![s] = Append(@, e)]
  PROVE  /\ Grown /\ DOMAIN sessions' = DOMAIN sessions
         /\ sessions'[s] = Append(sessions[s], e)
         /\ \A u \in DOMAIN sessions : u # s => sessions'[u] = sessions[u]
<1>1. sessions \in Seq(Seq(Entries)) /\ s \in 1..Len(sessions) /\ sessions[s] \in Seq(Entries)
  BY SessionTypes DEF TypeInv
<1>2. Append(sessions[s], e) \in Seq(Entries) /\ Len(Append(sessions[s], e)) = Len(sessions[s]) + 1
  BY <1>1, AppendProperties
<1>3. sessions' = [sessions EXCEPT ![s] = Append(sessions[s], e)]
  OBVIOUS
<1>4. /\ sessions' \in Seq(Seq(Entries)) /\ Len(sessions') = Len(sessions)
      /\ \A u \in 1..Len(sessions) : sessions'[u] = IF u = s THEN Append(sessions[s], e) ELSE sessions[u]
  BY <1>1, <1>2, <1>3, ExceptSeq
<1>5. DOMAIN sessions' = 1..Len(sessions) /\ DOMAIN sessions = 1..Len(sessions)
  BY <1>1, <1>4, LenProperties
<1>6. \A u \in DOMAIN sessions : Len(sessions[u]) \in Nat
  BY SessionTypes
<1>. QED  BY <1>1, <1>2, <1>4, <1>5, <1>6 DEF Grown

LEMMA NewSessionGrown ==
  ASSUME TypeInv, NEW b \in Seq(Entries), sessions' = Append(sessions, b)
  PROVE  /\ Grown /\ Len(sessions) + 1 \in DOMAIN sessions' /\ sessions'[Len(sessions) + 1] = b
         /\ \A u \in DOMAIN sessions : sessions'[u] = sessions[u]
<1>1. sessions \in Seq(Seq(Entries)) /\ Len(sessions) \in Nat /\ DOMAIN sessions = 1..Len(sessions)
  BY SessionTypes DEF TypeInv
<1>2. /\ sessions' \in Seq(Seq(Entries)) /\ Len(sessions') = Len(sessions) + 1
      /\ \A u \in 1..Len(sessions) : sessions'[u] = sessions[u]
      /\ sessions'[Len(sessions) + 1] = b
  BY <1>1, AppendProperties
<1>3. DOMAIN sessions' = 1..Len(sessions) + 1
  BY <1>1, <1>2, LenProperties
<1>4. \A u \in DOMAIN sessions : Len(sessions[u]) \in Nat
  BY SessionTypes
<1>. QED  BY <1>1, <1>2, <1>3, <1>4 DEF Grown

\* The choices that waited, appended to the session in use.
LEMMA FlushGrown ==
  ASSUME TypeInv, FlushAll
  PROVE  /\ Grown /\ DOMAIN sessions' = DOMAIN sessions /\ waiting' = <<>>
         /\ \A u \in DOMAIN sessions : u # session => sessions'[u] = sessions[u]
         /\ waiting = <<>> => UNCHANGED sessions
         /\ waiting # <<>> => \A m : Recovered(sessions'[session], m) = waiting[Len(waiting)]
<1> DEFINE w == [i \in DOMAIN waiting |-> Chose(waiting[i])]
           b == sessions[session]
<1>1. /\ sessions \in Seq(Seq(Entries)) /\ session \in 1..Len(sessions) /\ b \in Seq(Entries)
      /\ waiting \in Seq(Models)
  BY SessionTypes DEF TypeInv, SwitchTypeOK
<1>2. Len(waiting) \in Nat /\ DOMAIN waiting = 1..Len(waiting)
  BY <1>1, LenProperties
<1>3. \A i \in 1..Len(waiting) : waiting[i] \in Models /\ Chose(waiting[i]) \in Entries
  BY <1>1, ElementOfSeq DEF Entries
<1>4. w \in Seq(Entries)
  BY <1>2, <1>3, IsASeq
<1>5. Len(w) = Len(waiting)
  <2>1. DOMAIN w = 1..Len(waiting) /\ DOMAIN w = 1..Len(w) /\ Len(w) \in Nat
    BY <1>2, <1>4, LenProperties
  <2>. QED  BY <2>1, <1>2
<1>6. /\ b \o w \in Seq(Entries) /\ Len(b \o w) = Len(b) + Len(w)
      /\ \A i \in 1..Len(b) + Len(w) : (b \o w)[i] = IF i <= Len(b) THEN b[i] ELSE w[i - Len(b)]
  <2>. HIDE DEF b, w
  <2>. QED  BY <1>1, <1>4, ConcatProperties
<1>7. sessions' = [sessions EXCEPT ![session] = b \o w] /\ waiting' = <<>>
  BY DEF FlushAll
<1>. HIDE DEF w, b
<1>8. /\ sessions' \in Seq(Seq(Entries)) /\ Len(sessions') = Len(sessions)
      /\ \A u \in 1..Len(sessions) : sessions'[u] = IF u = session THEN b \o w ELSE sessions[u]
  BY <1>1, <1>6, <1>7, ExceptSeq
<1>9. DOMAIN sessions' = 1..Len(sessions) /\ DOMAIN sessions = 1..Len(sessions)
  BY <1>1, <1>8, LenProperties
<1>10. \A u \in DOMAIN sessions : Len(sessions[u]) \in Nat
  BY SessionTypes
<1>11. Len(b) \in Nat /\ Len(b) <= Len(b \o w)
  BY <1>1, <1>2, <1>5, <1>6, LenProperties
<1>12. Grown
  BY <1>1, <1>8, <1>9, <1>10, <1>11 DEF Grown, b
<1>13. ASSUME waiting = <<>> PROVE UNCHANGED sessions
  <2>1. Len(w) = 0
    BY <1>5, <1>13, EmptySeq
  <2>2. w = <<>>
    BY <1>4, <2>1, EmptySeq
  <2>3. b \o w = sessions[session]
    BY <1>1, <2>2, ConcatEmptySeq DEF b
  <2>4. Len(sessions') = Len(sessions) /\ \A u \in 1..Len(sessions) : sessions'[u] = sessions[u]
    BY <1>8, <2>3
  <2>. QED  BY <2>4, <1>1, <1>8, SeqEqual
<1>14. ASSUME waiting # <<>>, NEW m PROVE Recovered(sessions'[session], m) = waiting[Len(waiting)]
  <2>1. Len(waiting) \in Nat \ {0}
    BY <1>1, <1>14, EmptySeq
  <2>2. Len(b \o w) = Len(b) + Len(waiting) /\ (b \o w)[Len(b \o w)] = w[Len(waiting)]
    BY <2>1, <1>5, <1>6, <1>11
  <2>3. w[Len(waiting)] = Chose(waiting[Len(waiting)])
    BY <2>1, <1>2 DEF w
  <2>4. b \o w # <<>>
    BY <2>1, <2>2, <1>11, EmptySeq
  <2>5. waiting[Len(waiting)] \in Models
    BY <2>1, <1>3
  <2>6. DEFINE all == b \o w
              x == waiting[Len(waiting)]
  <2>7. all \in Seq(Entries) /\ all # <<>> /\ all[Len(all)] = Chose(x) /\ x \in Models
    BY <1>6, <2>2, <2>3, <2>4, <2>5
  <2>8. sessions'[session] = all
    BY <1>8, <1>1
  <2>. HIDE DEF all, x
  <2>9. Recovered(all, m) = x
    BY <2>7, RecoveredAtEnd
  <2>. QED  BY <2>8, <2>9 DEF x
<1>. QED  BY <1>7, <1>8, <1>9, <1>1, <1>12, <1>13, <1>14

(***************************************************************************)
(* The inductive invariant.                                                *)
(***************************************************************************)

\* One call runs at a time, in the harness in use, and only a run leaves choices waiting.
Turns ==
    /\ \A c \in Callers : Running(c) => phase = "turn" /\ calls[c].to = harness.on
    /\ \A c, d \in Callers : Running(c) /\ Running(d) => c = d
    /\ ~crossed => harness.on = session
    /\ waiting # <<>> => phase = "turn"

\* A new session that is not in use yet is empty, and nobody else has it in hand.
Fresh(c) == calls[c].step = "rebind" /\ calls[c].op = "new"
Unshared(c) ==
    LET s == calls[c].to IN
    /\ sessions[s] = <<>> /\ s # session /\ s # harness.on
    /\ \A d \in Callers \ {c} :
           /\ calls[d].step \in {"rebind", "swap"} => calls[d].to # s
           /\ calls[d].step = "assemble" => calls[d].from # s

\* What rebindSession is about to install fits the branch, also now, as long as no
\* change was overtaken; and of the choices that wait the last is the one in use.
StillFits(c) == Recovered(sessions[calls[c].to], calls[c].model) = calls[c].model
Recovers ==
    /\ \A c \in Callers : Fresh(c) => Unshared(c)
    /\ ~mixed => \A c \in Callers : CallAt(c, "swap") => StillFits(c)
    /\ ~mixed /\ waiting # <<>> => waiting[Len(waiting)] = model
    /\ SessionRecovers

SwitchInv == TypeInv /\ Turns /\ Recovers

LEMMA InitInv == SwitchInit => SwitchInv
<1> SUFFICES ASSUME SwitchInit
             PROVE  SwitchInv
  OBVIOUS
<1>1. sessions = <<<<>>>> /\ <<>> \in Seq(Entries)
  BY EmptySeq DEF SwitchInit
<1>2. sessions \in Seq(Seq(Entries)) /\ DOMAIN sessions = {1} /\ sessions[1] = <<>>
  <2>1. ASSUME NEW S, NEW e \in S PROVE <<e>> \in Seq(S)
    BY <2>1
  <2>2. Seq(Entries) # {} /\ sessions \in Seq(Seq(Entries))
    BY <1>1, <2>1
  <2>. QED  BY <1>1, <2>2
<1>3. IsCall(NoSwitch) /\ NoSwitch.step = "none"
  BY DEF NoSwitch, IsCall, Fields, Steps, Registries
<1>4. SwitchTypeOK
  <2>1. session \in DOMAIN sessions /\ harness \in [on : DOMAIN sessions, hooks : Registries] /\ hooks \in Registries
    BY <1>2 DEF SwitchInit, HarnessOn, Registries
  <2>2. waiting \in Seq(Models)
    BY EmptySeq DEF SwitchInit
  <2>3. \A c \in Callers : calls[c].step \in Steps
    BY <1>3 DEF SwitchInit, Steps
  <2>4. phase \in {"idle", "turn"} /\ model \in Models /\ mixed \in BOOLEAN /\ crossed \in BOOLEAN
    BY DEF SwitchInit
  <2>5. sets \in 0..MaxSets /\ reloads \in 0..MaxReloads
    BY SwitchingAssumption DEF SwitchInit
  <2>. QED  BY <2>1, <2>2, <2>3, <2>4, <2>5 DEF SwitchTypeOK
<1>5. TypeInv
  BY <1>2, <1>3, <1>4 DEF SwitchInit, TypeInv, CallFits
<1>6. Turns
  BY <1>3 DEF SwitchInit, Turns, Running, HarnessOn
<1>7. Recovered(sessions[session], model) = model
  <2>1. ChoicesIn(<<>>) = {}
    BY DEF ChoicesIn
  <2>. QED  BY <2>1, <1>2, NothingRecovered DEF SwitchInit
<1>8. Recovers
  BY <1>3, <1>7 DEF SwitchInit, Recovers, Fresh, CallAt, SessionRecovers
<1>. QED  BY <1>5, <1>6, <1>8 DEF SwitchInv

\* A caller goes on to a next step: everybody else stays.
LEMMA CallsAfter ==
  ASSUME TypeInv, Grown, NEW c \in Callers, NEW next, IsCall(next), CallGoes(c, next),
         CallFits(next, sessions')
  PROVE  /\ DOMAIN calls' = Callers /\ (\A d \in Callers : IsCall(calls'[d])) /\ calls'[c] = next
         /\ \A d \in Callers : d # c => calls'[d] = calls[d]
         /\ \A d \in Callers : CallFits(calls'[d], sessions')
         /\ \A d \in Callers : calls'[d].step \in Steps
<1>1. DOMAIN calls = Callers /\ (\A d \in Callers : IsCall(calls[d])) /\ \A d \in Callers : CallFits(calls[d], sessions)
  BY DEF TypeInv
<1>2. DOMAIN calls' = Callers /\ (\A d \in Callers : IsCall(calls'[d])) /\ calls'[c] = next /\ \A d \in Callers : d # c => calls'[d] = calls[d]
  BY <1>1 DEF CallGoes
<1>3. ASSUME NEW d \in Callers, d # c PROVE CallFits(calls[d], sessions')
  <2> DEFINE k == calls[d]
  <2>1. CallFits(k, sessions)
    BY <1>1
  <2>2. IsCall(k)
    BY <1>1
  <2>3. ASSUME k.step = "make", k.op \in {"fork", "clone"}
        PROVE  k.from \in DOMAIN sessions' /\ k.at \in 1..Len(sessions'[k.from])
    <3>1. k.from \in DOMAIN sessions /\ k.at \in 1..Len(sessions[k.from])
      BY <2>1, <2>3 DEF CallFits
    <3>2. Len(sessions[k.from]) <= Len(sessions'[k.from]) /\ Len(sessions[k.from]) \in Nat
      BY <3>1, SessionTypes DEF Grown
    <3>3. k.from \in DOMAIN sessions' /\ sessions'[k.from] \in Seq(Entries)
      <4>1. sessions' \in Seq(Seq(Entries)) /\ k.from \in DOMAIN sessions'
        BY <3>1 DEF Grown
      <4>. QED  BY <4>1, LenProperties, ElementOfSeq
    <3>4. Len(sessions'[k.from]) \in Nat
      BY <3>3, LenProperties
    <3>. QED  BY <3>1, <3>2, <3>3, <3>4
  <2>4. DOMAIN sessions \subseteq DOMAIN sessions'
    BY DEF Grown
  <2>. HIDE DEF k
  <2>5. CallFits(k, sessions')
    BY <2>1, <2>3, <2>4 DEF CallFits
  <2>. QED  BY <2>5 DEF k
<1>4. \A d \in Callers : calls'[d].step \in Steps
  BY <1>2 DEF IsCall
<1>. QED  BY <1>2, <1>3, <1>4

\* Steps that change nothing but what one caller is about, and may make a session.
LEMMA QuietStep ==
  ASSUME SwitchInv, NEW c \in Callers, NEW next, IsCall(next), CallGoes(c, next),
         Grown, \A u \in DOMAIN sessions : sessions'[u] = sessions[u],
         UNCHANGED <<phase, session, model, hooks, harness, waiting, mixed, crossed, sets>>,
         reloads' \in 0..MaxReloads,
         CallFits(next, sessions'),
         ~CallAt(c, "record"),
         next.step \notin {"run", "between"},
         next.step = "rebind" /\ next.op = "new" => Unshared(c)',
         next.step = "swap" /\ ~mixed => Recovered(sessions'[next.to], next.model) = next.model,
         \A d \in Callers \ {c} : Fresh(d) =>
            /\ next.step \in {"rebind", "swap"} => next.to # calls[d].to
            /\ next.step = "assemble" => next.from # calls[d].to
  PROVE  SwitchInv'
<1>1. TypeInv /\ Turns /\ Recovers
  BY DEF SwitchInv
<1>2. /\ DOMAIN calls' = Callers /\ (\A d \in Callers : IsCall(calls'[d])) /\ calls'[c] = next
      /\ \A d \in Callers : d # c => calls'[d] = calls[d]
      /\ \A d \in Callers : CallFits(calls'[d], sessions')
      /\ \A d \in Callers : calls'[d].step \in Steps
  BY <1>1, CallsAfter
<1>3. \A d \in Callers : CallFits(calls[d], sessions)
  BY <1>1 DEF TypeInv
<1>4. TypeInv'
  <2>1. SwitchTypeOK'
    BY <1>1, <1>2 DEF TypeInv, SwitchTypeOK, Grown
  <2>. QED  BY <2>1, <1>2 DEF TypeInv, Grown
<1>5. Turns'
  BY <1>1, <1>2 DEF Turns, Running
<1>6. ASSUME NEW d \in Callers, Fresh(d)' PROVE Unshared(d)'
  <2>1. CASE d = c
    BY <2>1, <1>6, <1>2 DEF Fresh
  <2>2. CASE d # c
    <3>1. Fresh(d) /\ Unshared(d) /\ calls'[d] = calls[d]
      BY <2>2, <1>6, <1>2, <1>1 DEF Fresh, Recovers
    <3>2. calls[d].to \in DOMAIN sessions
      BY <3>1, <1>3 DEF Fresh, CallFits
    <3>. QED  BY <3>1, <3>2, <1>2, <2>2 DEF Unshared
  <2>. QED  BY <2>1, <2>2
<1>7. ASSUME ~mixed', NEW d \in Callers, CallAt(d, "swap")' PROVE StillFits(d)'
  <2>1. CASE d = c
    BY <2>1, <1>7, <1>2 DEF CallAt, StillFits
  <2>2. CASE d # c
    <3>1. CallAt(d, "swap") /\ StillFits(d) /\ calls'[d] = calls[d]
      BY <2>2, <1>7, <1>2, <1>1 DEF CallAt, Recovers
    <3>2. calls[d].to \in DOMAIN sessions
      BY <3>1, <1>3 DEF CallAt, CallFits
    <3>. QED  BY <3>1, <3>2 DEF StillFits
  <2>. QED  BY <2>1, <2>2
<1>8. SessionRecovers'
  <2>1. session \in DOMAIN sessions /\ SessionRecovers
    BY <1>1 DEF TypeInv, SwitchTypeOK, Recovers
  <2>2. \A d \in Callers : CallAt(d, "record") => CallAt(d, "record")'
    BY <1>2 DEF CallAt
  <2>. QED  BY <2>1, <2>2 DEF SessionRecovers
<1>9. Recovers'
  BY <1>1, <1>6, <1>7, <1>8 DEF Recovers
<1>. QED  BY <1>4, <1>5, <1>9 DEF SwitchInv

(***************************************************************************)
(* The steps of a switch and of a reload.                                  *)
(***************************************************************************)

LEMMA SnapshotRuntimeStep ==
  ASSUME SwitchInv, NEW c \in Callers, NEW op \in {"new", "switch", "fork", "clone"},
         SnapshotRuntime(c, op)
  PROVE  SwitchInv'
<1>1. TypeInv /\ Grown
  BY SameGrown DEF SwitchInv, SnapshotRuntime
<1>2. session \in DOMAIN sessions /\ session \in Nat /\ Len(sessions[session]) \in Nat
  BY <1>1, SessionTypes DEF TypeInv, SwitchTypeOK
<1>3. PICK cut \in 0..Len(sessions[session]) :
         /\ op \in {"new", "switch"} => cut = 0
         /\ op = "clone" => cut = Len(sessions[session]) /\ cut > 0
         /\ op = "fork" => cut > 0
         /\ CallGoes(c, [NoSwitch EXCEPT !.step = "make", !.op = op, !.at = cut,
                         !.from = IF cut = 0 THEN 0 ELSE session])
  BY DEF SnapshotRuntime
<1> DEFINE next == [NoSwitch EXCEPT !.step = "make", !.op = op, !.at = cut,
                    !.from = IF cut = 0 THEN 0 ELSE session]
<1>4. /\ IsCall(next) /\ next.step = "make" /\ next.op = op /\ next.at = cut
      /\ next.from = IF cut = 0 THEN 0 ELSE session
  BY DEF NoSwitch, IsCall, Fields, Steps, Registries
<1>5. CallGoes(c, next)
  BY <1>3
<1>. HIDE DEF next
<1>6. CallFits(next, sessions')
  BY <1>2, <1>3, <1>4 DEF CallFits, SnapshotRuntime
<1>7. /\ UNCHANGED <<sessions, phase, session, model, hooks, harness, waiting, mixed, crossed, sets>>
      /\ reloads' \in 0..MaxReloads /\ ~CallAt(c, "record")
  BY <1>1 DEF SnapshotRuntime, TypeInv, SwitchTypeOK, CallAt
<1>. QED  BY <1>1, <1>4, <1>5, <1>6, <1>7, QuietStep

LEMMA NoSwitchCall ==
  IsCall(NoSwitch) /\ NoSwitch.step = "none" /\ \A branches : CallFits(NoSwitch, branches)
  BY DEF NoSwitch, IsCall, Fields, Steps, Registries, CallFits

\* A caller that is done, and has changed nothing but the sessions there are.
LEMMA ReturnStep ==
  ASSUME SwitchInv, NEW c \in Callers, Returns(c), UNCHANGED sessions,
         UNCHANGED <<phase, session, model, hooks, harness, waiting, mixed, crossed, sets, reloads>>,
         ~CallAt(c, "record")
  PROVE  SwitchInv'
<1>1. TypeInv /\ Grown /\ CallGoes(c, NoSwitch)
  BY SameGrown DEF SwitchInv, Returns
<1>2. reloads' \in 0..MaxReloads
  BY <1>1 DEF TypeInv, SwitchTypeOK
<1>. QED  BY <1>1, <1>2, NoSwitchCall, QuietStep

\* A session that was just made has nobody else.
LEMMA MadeStep ==
  ASSUME SwitchInv, NEW c \in Callers, CallAt(c, "make"), NEW b \in Seq(Entries), Made(c, b),
         calls[c].op = "new" => b = <<>>,
         UNCHANGED <<phase, session, model, hooks, harness, waiting, mixed, crossed, sets, reloads>>
  PROVE  SwitchInv'
<1> DEFINE next == [NoSwitch EXCEPT !.step = "rebind", !.op = calls[c].op, !.to = Len(sessions) + 1]
           s == Len(sessions) + 1
<1>1. TypeInv /\ Recovers /\ Len(sessions) \in Nat /\ DOMAIN sessions = 1..Len(sessions)
  BY SessionTypes DEF SwitchInv
<1>2. IsCall(calls[c])
  BY <1>1 DEF TypeInv
<1>3. /\ IsCall(next) /\ next.step = "rebind" /\ next.op = calls[c].op /\ next.to = s
      /\ next.from = 0 /\ next.model = "none"
  BY DEF NoSwitch, IsCall, Fields, Steps, Registries
<1>4. CallGoes(c, next) /\ sessions' = Append(sessions, b)
  BY DEF Made, Rebinds
<1>5. /\ Grown /\ s \in DOMAIN sessions' /\ sessions'[s] = b
      /\ \A u \in DOMAIN sessions : sessions'[u] = sessions[u]
  BY <1>1, <1>4, NewSessionGrown
<1>. HIDE DEF next
<1>6. CallFits(next, sessions')
  BY <1>3, <1>5 DEF CallFits
<1>7. /\ DOMAIN calls' = Callers /\ (\A d \in Callers : IsCall(calls'[d])) /\ calls'[c] = next
      /\ \A d \in Callers : d # c => calls'[d] = calls[d]
  BY <1>1, <1>3, <1>4, <1>5, <1>6, CallsAfter
<1>8. s \notin DOMAIN sessions
  BY <1>1
<1>9. session \in DOMAIN sessions /\ harness.on \in DOMAIN sessions
  BY <1>1 DEF TypeInv, SwitchTypeOK
<1>10. \A d \in Callers :
          /\ calls[d].step \in {"rebind", "swap"} => calls[d].to # s
          /\ calls[d].step = "assemble" => calls[d].from # s
  BY <1>1, <1>8 DEF TypeInv, CallFits
<1>. HIDE DEF s
<1>11. next.op = "new" => Unshared(c)'
  BY <1>3, <1>5, <1>7, <1>8, <1>9, <1>10 DEF Unshared
<1>12. \A d \in Callers : Fresh(d) => next.to # calls[d].to
  BY <1>3, <1>10 DEF Fresh
<1>13. reloads' \in 0..MaxReloads
  BY <1>1 DEF TypeInv, SwitchTypeOK
<1>. QED  BY <1>3, <1>4, <1>5, <1>6, <1>11, <1>12, <1>13, QuietStep DEF CallAt

LEMMA MakeStep ==
  ASSUME SwitchInv, NEW c \in Callers, Make(c)
  PROVE  SwitchInv'
<1>1. TypeInv /\ Recovers
  BY DEF SwitchInv
<1>2. /\ CallAt(c, "make") /\ IsCall(calls[c]) /\ CallFits(calls[c], sessions)
      /\ UNCHANGED <<phase, session, model, hooks, harness, waiting, mixed, crossed, sets, reloads>>
  BY <1>1 DEF Make, TypeInv
<1>3. CASE Create(c)
  <2>1. <<>> \in Seq(Entries) /\ Made(c, <<>>)
    BY <1>3, EmptySeq DEF Create
  <2>. QED  BY <1>2, <2>1, MadeStep
<1>4. CASE Open(c)
  <2>1. PICK s \in DOMAIN sessions : OnDisk(sessions[s]) /\ Rebinds(c, s)
    BY <1>4 DEF Open
  <2> DEFINE next == [NoSwitch EXCEPT !.step = "rebind", !.op = calls[c].op, !.to = s]
  <2>2. s \in Nat /\ CallGoes(c, next) /\ UNCHANGED sessions /\ calls[c].op = "switch"
    BY <1>1, <1>4, <2>1, SessionTypes DEF Open, Rebinds
  <2>3. IsCall(next) /\ next.step = "rebind" /\ next.op = "switch" /\ next.to = s
    BY <1>2, <2>2 DEF NoSwitch, IsCall, Fields, Steps, Registries
  <2>. HIDE DEF next
  <2>4. CallFits(next, sessions') /\ Grown
    BY <1>1, <2>1, <2>2, <2>3, SameGrown DEF CallFits
  <2>5. \A d \in Callers : Fresh(d) => next.to # calls[d].to
    <3>1. sessions[s] # <<>>
      BY <2>1 DEF OnDisk
    <3>. QED  BY <3>1, <2>3, <1>1 DEF Recovers, Unshared
  <2>6. reloads' \in 0..MaxReloads
    BY <1>1, <1>2 DEF TypeInv, SwitchTypeOK
  <2>. QED  BY <1>2, <2>2, <2>3, <2>4, <2>5, <2>6, QuietStep DEF CallAt
<1>5. CASE CopyBranch(c)
  <2>1. PICK skip \in BOOLEAN :
           Made(c, IF skip THEN <<>> ELSE SubSeq(sessions[calls[c].from], 1, ForkEnd(c)))
    BY <1>5 DEF CopyBranch
  <2> DEFINE b == IF skip THEN <<>> ELSE SubSeq(sessions[calls[c].from], 1, ForkEnd(c))
  <2>2. calls[c].op \in {"fork", "clone"}
    BY <1>5 DEF CopyBranch
  <2>3. calls[c].from \in DOMAIN sessions /\ calls[c].at \in 1..Len(sessions[calls[c].from])
    BY <1>2, <2>2 DEF CallFits, CallAt
  <2> DEFINE old == sessions[calls[c].from]
  <2>4. old \in Seq(Entries) /\ Len(old) \in Nat
    BY <1>1, <2>3, SessionTypes
  <2>5. ForkEnd(c) \in 0..Len(old)
    BY <2>3, <2>4 DEF ForkEnd
  <2>6. SubSeq(old, 1, ForkEnd(c)) \in Seq(Entries)
    <3>. DEFINE n == ForkEnd(c)
    <3>1. n \in Int /\ \A i \in 1..n : old[i] \in Entries
      <4>. HIDE DEF old
      <4>. QED  BY <2>4, <2>5, ElementOfSeq
    <3>. HIDE DEF n, old
    <3>2. SubSeq(old, 1, n) \in Seq(Entries)
      BY <3>1, SubSeqProperties
    <3>. QED  BY <3>2 DEF n
  <2>7. b \in Seq(Entries)
    BY <2>6, EmptySeq
  <2>8. Made(c, b)
    BY <2>1
  <2>. HIDE DEF b
  <2>. QED  BY <1>2, <2>2, <2>7, <2>8, MadeStep
<1>6. CASE MakeFails(c)
  BY <1>2, <1>6, ReturnStep DEF MakeFails, CallAt
<1>. QED  BY <1>3, <1>4, <1>5, <1>6 DEF Make

LEMMA ReadStateStep ==
  ASSUME SwitchInv, NEW c \in Callers, ReadState(c)
  PROVE  SwitchInv'
<1>1. TypeInv /\ Recovers /\ Grown
  BY SameGrown DEF SwitchInv, ReadState
<1>2. /\ calls[c].step = "rebind" /\ UNCHANGED sessions
      /\ UNCHANGED <<phase, session, model, hooks, harness, waiting, mixed, crossed, sets, reloads>>
  BY DEF ReadState, CallAt
<1>3. CASE Idle
  <2> DEFINE m == IF calls[c].op = "new" THEN model ELSE Recovered(sessions[calls[c].to], model)
             next == [NoSwitch EXCEPT !.step = "swap", !.to = calls[c].to, !.hooks = hooks, !.model = m]
  <2>1. calls[c].to \in DOMAIN sessions /\ model \in Models /\ hooks \in Registries
    BY <1>1, <1>2 DEF TypeInv, CallFits, SwitchTypeOK
  <2>2. sessions[calls[c].to] \in Seq(Entries)
    BY <1>1, <2>1, SessionTypes
  <2>3. m \in Models /\ Recovered(sessions[calls[c].to], m) = m
    <3>1. CASE calls[c].op = "new"
      <4>1. Unshared(c)
        BY <3>1, <1>1, <1>2 DEF Recovers, Fresh
      <4>2. ChoicesIn(sessions[calls[c].to]) = {}
        BY <4>1 DEF Unshared, ChoicesIn
      <4>. QED  BY <3>1, <4>2, <2>1, NothingRecovered
    <3>2. CASE calls[c].op # "new"
      BY <3>2, <2>1, <2>2, RecoveredTwice, RecoveredIsModel
    <3>. QED  BY <3>1, <3>2
  <2>. HIDE DEF m
  <2>4. /\ IsCall(next) /\ next.step = "swap" /\ next.to = calls[c].to
        /\ next.model = m
    BY <2>1 DEF NoSwitch, IsCall, Fields, Steps, Registries
  <2>5. CallGoes(c, next)
    BY <1>3 DEF ReadState, m
  <2>. HIDE DEF next
  <2>6. CallFits(next, sessions')
    BY <1>2, <2>1, <2>3, <2>4 DEF CallFits
  <2>7. \A d \in Callers \ {c} : Fresh(d) => next.to # calls[d].to
    BY <1>1, <1>2, <2>4 DEF Recovers, Unshared
  <2>8. reloads' \in 0..MaxReloads
    BY <1>1, <1>2 DEF TypeInv, SwitchTypeOK
  <2>. QED  BY <1>1, <1>2, <2>3, <2>4, <2>5, <2>6, <2>7, <2>8, QuietStep DEF CallAt
<1>4. CASE ~Idle
  BY <1>2, <1>4, ReturnStep DEF ReadState, CallAt
<1>. QED  BY <1>3, <1>4

\* The types after a step of one caller.
LEMMA TypesAfter ==
  ASSUME TypeInv, Grown, NEW c \in Callers, NEW next, IsCall(next), CallGoes(c, next),
         CallFits(next, sessions'),
         session' \in DOMAIN sessions', harness' \in [on : DOMAIN sessions', hooks : Registries],
         hooks' \in Registries, phase' \in {"idle", "turn"}, model' \in Models,
         waiting' \in Seq(Models), sets' \in 0..MaxSets, reloads' \in 0..MaxReloads,
         mixed' \in BOOLEAN, crossed' \in BOOLEAN
  PROVE  /\ TypeInv' /\ calls'[c] = next
         /\ \A d \in Callers : d # c => calls'[d] = calls[d]
<1>1. /\ DOMAIN calls' = Callers /\ \A d \in Callers : IsCall(calls'[d])
      /\ calls'[c] = next
      /\ \A d \in Callers : d # c => calls'[d] = calls[d]
      /\ \A d \in Callers : CallFits(calls'[d], sessions')
      /\ \A d \in Callers : calls'[d].step \in Steps
  BY CallsAfter
<1>2. SwitchTypeOK'
  BY <1>1 DEF SwitchTypeOK
<1>. QED  BY <1>1, <1>2 DEF TypeInv, Grown

LEMMA SwapStep ==
  ASSUME SwitchInv, NEW c \in Callers, Swap(c)
  PROVE  SwitchInv'
<1>1. TypeInv /\ Turns /\ Recovers /\ Grown
  BY SameGrown DEF SwitchInv, Swap
<1>2. /\ calls[c].step = "swap" /\ Returns(c)
      /\ UNCHANGED sessions /\ UNCHANGED <<phase, hooks, sets, reloads, mixed>>
  BY DEF Swap, CallAt
<1>3. CASE UNCHANGED <<session, model, harness, waiting, crossed>>
  BY <1>2, <1>3, ReturnStep DEF CallAt
<1>4. CASE /\ Idle
           /\ session' = calls[c].to
           /\ model' = calls[c].model
           /\ harness' = HarnessOn(calls[c].to, calls[c].hooks)
           /\ waiting' = <<>> /\ crossed' = FALSE
  <2>1. calls[c].to \in DOMAIN sessions /\ calls[c].model \in Models /\ calls[c].hooks \in Registries
    BY <1>1, <1>2 DEF TypeInv, CallFits, IsCall
  <2>2. /\ TypeInv' /\ calls'[c] = NoSwitch
        /\ \A d \in Callers : d # c => calls'[d] = calls[d]
    <3>1. waiting' \in Seq(Models) /\ harness' \in [on : DOMAIN sessions', hooks : Registries]
      BY <1>2, <1>4, <2>1, EmptySeq DEF HarnessOn
    <3>2. /\ phase' \in {"idle", "turn"} /\ hooks' \in Registries /\ sets' \in 0..MaxSets
          /\ reloads' \in 0..MaxReloads /\ mixed' \in BOOLEAN /\ crossed' \in BOOLEAN
      BY <1>1, <1>2, <1>4 DEF TypeInv, SwitchTypeOK
    <3>3. session' \in DOMAIN sessions' /\ model' \in Models /\ CallGoes(c, NoSwitch)
      BY <1>2, <1>4, <2>1 DEF Returns
    <3>. QED  BY <1>1, <3>1, <3>2, <3>3, NoSwitchCall, TypesAfter
  <2>3. harness'.on = session' /\ NoSwitch.step = "none"
    BY <1>4, NoSwitchCall DEF HarnessOn
  <2>4. Turns'
    BY <1>1, <1>2, <1>4, <2>2, <2>3 DEF Turns, Running, Idle
  <2>5. ASSUME NEW d \in Callers, Fresh(d)' PROVE Unshared(d)'
    <3>1. d # c /\ calls'[d] = calls[d] /\ Fresh(d) /\ Unshared(d)
      BY <2>2, <2>3, <2>5, <1>1 DEF Fresh, Recovers
    <3>2. calls[c].to # calls[d].to
      BY <3>1, <1>2 DEF Unshared
    <3>. QED  BY <3>1, <3>2, <1>2, <1>4, <2>2, <2>3 DEF Unshared
  <2>6. ASSUME ~mixed', NEW d \in Callers, CallAt(d, "swap")' PROVE StillFits(d)'
    BY <2>2, <2>3, <2>6, <1>1, <1>2 DEF CallAt, Recovers, StillFits
  <2>7. SessionRecovers'
    BY <1>1, <1>2, <1>4 DEF SessionRecovers, Recovers, StillFits, CallAt
  <2>8. Recovers'
    BY <2>5, <2>6, <2>7, <1>4 DEF Recovers
  <2>. QED  BY <2>2, <2>4, <2>8 DEF SwitchInv
<1>. QED  BY <1>3, <1>4 DEF Swap, MaySwap

LEMMA SnapshotReloadStep ==
  ASSUME SwitchInv, NEW c \in Callers, SnapshotReload(c)
  PROVE  SwitchInv'
<1> DEFINE next == [NoSwitch EXCEPT !.step = "assemble", !.from = session, !.model = model]
<1>1. TypeInv /\ Recovers /\ Grown
  BY SameGrown DEF SwitchInv, SnapshotReload
<1>2. /\ calls[c].step = "none" /\ reloads' = reloads + 1 /\ reloads < MaxReloads
      /\ CallGoes(c, next) /\ UNCHANGED sessions
      /\ UNCHANGED <<phase, session, model, hooks, harness, waiting, mixed, crossed, sets>>
  BY DEF SnapshotReload, CallAt
<1>3. IsCall(next) /\ next.step = "assemble" /\ next.from = session /\ next.model = model
  BY DEF NoSwitch, IsCall, Fields, Steps, Registries
<1>. HIDE DEF next
<1>4. CallFits(next, sessions')
  BY <1>1, <1>2, <1>3 DEF CallFits, TypeInv, SwitchTypeOK
<1>5. reloads' \in 0..MaxReloads
  BY <1>1, <1>2, SwitchingAssumption DEF TypeInv, SwitchTypeOK
<1>6. \A d \in Callers \ {c} : Fresh(d) => next.from # calls[d].to
  BY <1>1, <1>3 DEF Recovers, Unshared
<1>. QED  BY <1>1, <1>2, <1>3, <1>4, <1>5, <1>6, QuietStep DEF CallAt

LEMMA InstallStep ==
  ASSUME SwitchInv, NEW c \in Callers, Install(c)
  PROVE  SwitchInv'
<1>1. TypeInv /\ Turns /\ Recovers /\ Grown
  BY SameGrown DEF SwitchInv, Install
<1>2. /\ calls[c].step = "assemble" /\ Returns(c)
      /\ UNCHANGED <<sessions, phase, session, waiting, sets, reloads>>
  BY DEF Install, CallAt
<1>3. CASE UNCHANGED <<harness, hooks, model, mixed, crossed>>
  BY <1>2, <1>3, ReturnStep DEF CallAt
<1>4. CASE /\ Idle
           /\ harness' = HarnessOn(calls[c].from, "fresh")
           /\ hooks' = "fresh"
           /\ model' = calls[c].model
           /\ mixed' = (mixed \/ model # calls[c].model \/ session # calls[c].from)
           /\ crossed' = (session # calls[c].from)
  <2>1. calls[c].from \in DOMAIN sessions /\ calls[c].model \in Models
    BY <1>1, <1>2 DEF TypeInv, CallFits
  <2>2. /\ TypeInv' /\ calls'[c] = NoSwitch
        /\ \A d \in Callers : d # c => calls'[d] = calls[d]
    <3>1. /\ harness' \in [on : DOMAIN sessions', hooks : Registries] /\ hooks' \in Registries
          /\ mixed' \in BOOLEAN /\ crossed' \in BOOLEAN
      BY <1>2, <1>4, <2>1 DEF HarnessOn, Registries
    <3>2. /\ phase' \in {"idle", "turn"} /\ sets' \in 0..MaxSets
          /\ reloads' \in 0..MaxReloads /\ waiting' \in Seq(Models)
      BY <1>1, <1>2 DEF TypeInv, SwitchTypeOK
    <3>3. session' \in DOMAIN sessions' /\ model' \in Models /\ CallGoes(c, NoSwitch)
      BY <1>1, <1>2, <1>4, <2>1 DEF Returns, TypeInv, SwitchTypeOK
    <3>. QED  BY <1>1, <3>1, <3>2, <3>3, NoSwitchCall, TypesAfter
  <2>3. harness'.on = calls[c].from /\ NoSwitch.step = "none" /\ waiting = <<>>
    BY <1>1, <1>4, NoSwitchCall DEF HarnessOn, Turns, Idle
  <2>4. Turns'
    BY <1>1, <1>2, <1>4, <2>2, <2>3 DEF Turns, Running, Idle
  <2>5. ASSUME NEW d \in Callers, Fresh(d)' PROVE Unshared(d)'
    <3>1. d # c /\ calls'[d] = calls[d] /\ Fresh(d) /\ Unshared(d)
      BY <2>2, <2>3, <2>5, <1>1 DEF Fresh, Recovers
    <3>2. calls[c].from # calls[d].to
      BY <3>1, <1>2 DEF Unshared
    <3>. QED  BY <3>1, <3>2, <1>2, <2>2, <2>3 DEF Unshared
  <2>6. ASSUME ~mixed', NEW d \in Callers, CallAt(d, "swap")' PROVE StillFits(d)'
    BY <2>2, <2>3, <2>6, <1>1, <1>2, <1>4 DEF CallAt, Recovers, StillFits
  <2>7. SessionRecovers'
    <3>1. \A d \in Callers : CallAt(d, "record") => CallAt(d, "record")'
      BY <2>2, <1>2 DEF CallAt
    <3>. QED  BY <3>1, <1>1, <1>2, <1>4, <2>3 DEF SessionRecovers, Recovers
  <2>8. Recovers'
    BY <2>5, <2>6, <2>7, <2>3, <1>2 DEF Recovers
  <2>. QED  BY <2>2, <2>4, <2>8 DEF SwitchInv
<1>. QED  BY <1>3, <1>4 DEF Install

(***************************************************************************)
(* The steps of the others.                                                *)
(***************************************************************************)

\* The parts of the types that a step leaves alone, or moves within their range.
LEMMA TypedParts ==
  ASSUME TypeInv
  PROVE  /\ session \in DOMAIN sessions /\ harness \in [on : DOMAIN sessions, hooks : Registries]
         /\ harness.on \in DOMAIN sessions /\ harness.hooks \in Registries
         /\ hooks \in Registries /\ phase \in {"idle", "turn"} /\ model \in Models
         /\ waiting \in Seq(Models) /\ sets \in 0..MaxSets /\ reloads \in 0..MaxReloads
         /\ mixed \in BOOLEAN /\ crossed \in BOOLEAN
  BY DEF TypeInv, SwitchTypeOK

LEMMA SetModelStep ==
  ASSUME SwitchInv, NEW c \in Callers, NEW m \in Models, SetModel(c, m)
  PROVE  SwitchInv'
<1>1. TypeInv /\ Turns /\ Recovers /\ Grown
  BY SameGrown DEF SwitchInv, SetModel
<1>2. /\ calls[c].step = "none" /\ sets < MaxSets /\ sets' = sets + 1 /\ model' = m
      /\ mixed' = (mixed \/ Rebinding)
      /\ UNCHANGED <<sessions, phase, session, hooks, harness, reloads, crossed>>
  BY DEF SetModel, CallAt
<1>3. /\ sets' \in 0..MaxSets /\ mixed' \in BOOLEAN /\ crossed' \in BOOLEAN
      /\ session' \in DOMAIN sessions' /\ harness' \in [on : DOMAIN sessions', hooks : Registries]
      /\ hooks' \in Registries /\ phase' \in {"idle", "turn"} /\ model' \in Models
      /\ reloads' \in 0..MaxReloads
  BY <1>1, <1>2, TypedParts, SwitchingAssumption DEF Rebinding
<1>4. CASE Idle
  <2> DEFINE next == [NoSwitch EXCEPT !.step = "record", !.model = m, !.from = session]
  <2>1. CallGoes(c, next) /\ UNCHANGED waiting
    BY <1>4 DEF SetModel
  <2>2. IsCall(next) /\ next.step = "record" /\ next.from = session /\ next.model = m
    BY DEF NoSwitch, IsCall, Fields, Steps, Registries
  <2>. HIDE DEF next
  <2>3. CallFits(next, sessions') /\ waiting' \in Seq(Models) /\ waiting = <<>>
    BY <1>1, <1>2, <1>4, <2>1, <2>2, TypedParts DEF CallFits, Turns, Idle
  <2>4. /\ TypeInv' /\ calls'[c] = next
        /\ \A d \in Callers : d # c => calls'[d] = calls[d]
    BY <1>1, <1>3, <2>1, <2>2, <2>3, TypesAfter
  <2>5. Turns'
    BY <1>1, <1>2, <2>1, <2>2, <2>4 DEF Turns, Running
  <2>6. ASSUME NEW d \in Callers, Fresh(d)' PROVE Unshared(d)'
    <3>1. d # c /\ calls'[d] = calls[d] /\ Unshared(d)
      BY <2>2, <2>4, <2>6, <1>1 DEF Fresh, Recovers
    <3>. QED  BY <3>1, <1>2, <2>2, <2>4 DEF Unshared
  <2>7. ASSUME ~mixed' PROVE \A d \in Callers : ~CallAt(d, "swap")'
    BY <2>7, <2>2, <2>4, <1>2 DEF CallAt, Rebinding
  <2>8. SessionRecovers'
    BY <2>2, <2>4 DEF SessionRecovers, CallAt
  <2>. QED  BY <2>1, <2>3, <2>4, <2>5, <2>6, <2>7, <2>8 DEF SwitchInv, Recovers
<1>5. CASE ~Idle
  <2>1. waiting' = Append(waiting, m) /\ UNCHANGED calls
    BY <1>5 DEF SetModel
  <2>2. /\ waiting' \in Seq(Models) /\ waiting' # <<>> /\ waiting'[Len(waiting')] = m
    <3>1. waiting \in Seq(Models) /\ Len(waiting) \in Nat
      BY <1>1, TypedParts, LenProperties
    <3>2. /\ waiting' \in Seq(Models) /\ Len(waiting') = Len(waiting) + 1
          /\ waiting'[Len(waiting) + 1] = m
      BY <3>1, <2>1, AppendProperties
    <3>. QED  BY <3>1, <3>2, EmptySeq
  <2>3. TypeInv'
    BY <1>1, <1>2, <1>3, <2>1, <2>2 DEF TypeInv, SwitchTypeOK
  <2>4. Turns'
    BY <1>1, <1>2, <1>5, <2>1, TypedParts DEF Turns, Running, Idle
  <2>5. ASSUME NEW d \in Callers, Fresh(d)' PROVE Unshared(d)'
    BY <2>5, <1>1, <1>2, <2>1 DEF Fresh, Recovers, Unshared
  <2>6. ASSUME ~mixed' PROVE \A d \in Callers : ~CallAt(d, "swap")'
    BY <2>6, <2>1, <1>2 DEF CallAt, Rebinding
  <2>7. SessionRecovers'
    BY <2>2 DEF SessionRecovers
  <2>. QED  BY <1>2, <2>2, <2>3, <2>4, <2>5, <2>6, <2>7 DEF SwitchInv, Recovers
<1>. QED  BY <1>4, <1>5

LEMMA RecordModelStep ==
  ASSUME SwitchInv, NEW c \in Callers, RecordModel(c)
  PROVE  SwitchInv'
<1> DEFINE m == calls[c].model
<1>1. TypeInv /\ Turns /\ Recovers
  BY DEF SwitchInv
<1>2. /\ calls[c].step = "record" /\ Returns(c)
      /\ sessions' = [sessions EXCEPT ![session] = Append(@, Chose(m))]
      /\ mixed' = (mixed \/ Rebinding \/ session # calls[c].from \/ model # m)
      /\ UNCHANGED <<phase, session, model, hooks, harness, waiting, sets, reloads, crossed>>
  BY DEF RecordModel, CallAt
<1>3. m \in Models /\ Chose(m) \in Entries /\ session \in DOMAIN sessions
  BY <1>1, <1>2, TypedParts DEF TypeInv, CallFits, Entries
<1>4. /\ Grown /\ DOMAIN sessions' = DOMAIN sessions
      /\ sessions'[session] = Append(sessions[session], Chose(m))
      /\ \A u \in DOMAIN sessions : u # session => sessions'[u] = sessions[u]
  <2> DEFINE e == Chose(m)
  <2>1. e \in Entries /\ sessions' = [sessions EXCEPT ![session] = Append(@, e)]
    BY <1>2, <1>3
  <2>. HIDE DEF e
  <2>2. /\ Grown /\ DOMAIN sessions' = DOMAIN sessions
        /\ sessions'[session] = Append(sessions[session], e)
        /\ \A u \in DOMAIN sessions : u # session => sessions'[u] = sessions[u]
    BY <1>1, <1>3, <2>1, AppendGrown
  <2>. QED  BY <2>2 DEF e
<1>5. /\ TypeInv' /\ calls'[c] = NoSwitch
      /\ \A d \in Callers : d # c => calls'[d] = calls[d]
  <2>1. /\ sets' \in 0..MaxSets /\ mixed' \in BOOLEAN /\ crossed' \in BOOLEAN
        /\ session' \in DOMAIN sessions' /\ harness' \in [on : DOMAIN sessions', hooks : Registries]
        /\ hooks' \in Registries /\ phase' \in {"idle", "turn"} /\ model' \in Models
        /\ reloads' \in 0..MaxReloads /\ waiting' \in Seq(Models)
    BY <1>1, <1>2, <1>4, TypedParts DEF Rebinding
  <2>. QED  BY <1>1, <1>2, <1>4, <2>1, NoSwitchCall, TypesAfter DEF Returns
<1>6. NoSwitch.step = "none"
  BY NoSwitchCall
<1>7. Turns'
  BY <1>1, <1>2, <1>5, <1>6 DEF Turns, Running
<1>8. ASSUME NEW d \in Callers, Fresh(d)' PROVE Unshared(d)'
  <2>1. d # c /\ calls'[d] = calls[d] /\ Unshared(d) /\ Fresh(d)
    BY <1>5, <1>6, <1>8, <1>1 DEF Fresh, Recovers
  <2>2. calls[d].to \in DOMAIN sessions /\ calls[d].to # session
    BY <2>1, <1>1 DEF Fresh, Unshared, TypeInv, CallFits
  <2>. QED  BY <2>1, <2>2, <1>2, <1>4, <1>5, <1>6 DEF Unshared
<1>9. ASSUME ~mixed' PROVE \A d \in Callers : ~CallAt(d, "swap")'
  BY <1>9, <1>2, <1>5, <1>6 DEF CallAt, Rebinding
<1>10. ASSUME ~mixed' PROVE Recovered(sessions'[session], model) = model
  <2> DEFINE b == sessions[session]
             all == Append(b, Chose(m))
  <2>1. b \in Seq(Entries)
    BY <1>1, <1>3, SessionTypes
  <2>2. all \in Seq(Entries) /\ Len(all) = Len(b) + 1 /\ all[Len(b) + 1] = Chose(m) /\ Len(b) \in Nat
    <3> DEFINE e == Chose(m)
    <3>1. e \in Entries
      BY <1>3
    <3>. HIDE DEF e, b
    <3>2. Append(b, e) \in Seq(Entries) /\ Len(Append(b, e)) = Len(b) + 1 /\ Append(b, e)[Len(b) + 1] = e
      BY <2>1, <3>1, AppendProperties
    <3>. QED  BY <3>2, <2>1, LenProperties DEF e
  <2>3. sessions'[session] = all /\ m = model
    BY <1>4, <1>10, <1>2
  <2>. HIDE DEF all, b
  <2>4. all # <<>> /\ all[Len(all)] = Chose(m)
    BY <2>2, EmptySeq
  <2>5. Recovered(all, model) = m
    BY <2>2, <2>4, <1>3, RecoveredAtEnd
  <2>. QED  BY <2>3, <2>5
<1>11. SessionRecovers'
  BY <1>10, <1>2 DEF SessionRecovers
<1>12. Recovers'
  BY <1>1, <1>2, <1>8, <1>9, <1>11 DEF Recovers
<1>. QED  BY <1>5, <1>7, <1>12 DEF SwitchInv

LEMMA BeginRunStep ==
  ASSUME SwitchInv, NEW c \in Callers, BeginRun(c)
  PROVE  SwitchInv'
<1> DEFINE next == [NoSwitch EXCEPT !.step = "run", !.to = harness.on, !.hooks = harness.hooks]
<1>1. TypeInv /\ Turns /\ Recovers /\ Grown
  BY SameGrown DEF SwitchInv, BeginRun
<1>2. /\ calls[c].step = "none" /\ Idle /\ phase' = "turn" /\ waiting' = <<>>
      /\ CallGoes(c, next)
      /\ UNCHANGED <<sessions, session, model, hooks, harness, sets, reloads, mixed, crossed>>
  BY DEF BeginRun, CallAt
<1>3. IsCall(next) /\ next.step = "run" /\ next.to = harness.on
  BY <1>1, TypedParts DEF NoSwitch, IsCall, Fields, Steps, Registries
<1>. HIDE DEF next
<1>4. /\ TypeInv' /\ calls'[c] = next
      /\ \A d \in Callers : d # c => calls'[d] = calls[d]
  <2>1. CallFits(next, sessions')
    BY <1>1, <1>2, <1>3, TypedParts DEF CallFits
  <2>2. /\ sets' \in 0..MaxSets /\ mixed' \in BOOLEAN /\ crossed' \in BOOLEAN
        /\ session' \in DOMAIN sessions' /\ harness' \in [on : DOMAIN sessions', hooks : Registries]
        /\ hooks' \in Registries /\ phase' \in {"idle", "turn"} /\ model' \in Models
        /\ reloads' \in 0..MaxReloads /\ waiting' \in Seq(Models)
    BY <1>1, <1>2, TypedParts, EmptySeq
  <2>. QED  BY <1>1, <1>2, <1>3, <2>1, <2>2, TypesAfter
<1>5. waiting = <<>> /\ \A d \in Callers : ~Running(d)
  BY <1>1, <1>2 DEF Turns, Idle
<1>6. Turns'
  BY <1>1, <1>2, <1>3, <1>4, <1>5 DEF Turns, Running
<1>7. ASSUME NEW d \in Callers, Fresh(d)' PROVE Unshared(d)'
  <2>1. d # c /\ calls'[d] = calls[d] /\ Unshared(d)
    BY <1>3, <1>4, <1>7, <1>1 DEF Fresh, Recovers
  <2>. QED  BY <2>1, <1>2, <1>3, <1>4 DEF Unshared
<1>8. ASSUME ~mixed', NEW d \in Callers, CallAt(d, "swap")' PROVE StillFits(d)'
  BY <1>1, <1>2, <1>3, <1>4, <1>8 DEF CallAt, Recovers, StillFits
<1>9. SessionRecovers'
  <2>1. \A d \in Callers : CallAt(d, "record") => CallAt(d, "record")'
    BY <1>2, <1>4 DEF CallAt
  <2>. QED  BY <2>1, <1>1, <1>2, <1>5 DEF SessionRecovers, Recovers
<1>10. Recovers'
  BY <1>2, <1>7, <1>8, <1>9 DEF Recovers
<1>. QED  BY <1>4, <1>6, <1>10 DEF SwitchInv

LEMMA RunAppendsStep ==
  ASSUME SwitchInv, NEW c \in Callers, RunAppends(c)
  PROVE  SwitchInv'
<1> DEFINE t == calls[c].to
           next == [calls[c] EXCEPT !.step = "run", !.left = 0]
<1>1. TypeInv /\ Turns /\ Recovers
  BY DEF SwitchInv
<1>2. PICK role \in {"user", "assistant"} : sessions' = [sessions EXCEPT ![t] = Append(@, Said(role))]
  BY DEF RunAppends
<1>3. /\ Running(c) /\ CallGoes(c, next)
      /\ UNCHANGED <<phase, session, model, hooks, harness, waiting, sets, reloads, mixed, crossed>>
  BY DEF RunAppends, Running
<1>4. IsCall(next) /\ next.step = "run" /\ next.to = t
  BY <1>1 DEF TypeInv, IsCall, Fields, Steps
<1>. HIDE DEF next
<1>5. t \in DOMAIN sessions /\ t = harness.on
  BY <1>1, <1>3 DEF TypeInv, CallFits, Running, Turns
<1>. HIDE DEF t
<1>6. /\ Grown /\ DOMAIN sessions' = DOMAIN sessions
      /\ sessions'[t] = Append(sessions[t], Said(role))
      /\ \A u \in DOMAIN sessions : u # t => sessions'[u] = sessions[u]
  <2> DEFINE e == Said(role)
  <2>1. e \in Entries /\ sessions' = [sessions EXCEPT ![t] = Append(@, e)]
    BY <1>2 DEF Entries
  <2>. HIDE DEF e
  <2>2. /\ Grown /\ DOMAIN sessions' = DOMAIN sessions
        /\ sessions'[t] = Append(sessions[t], e)
        /\ \A u \in DOMAIN sessions : u # t => sessions'[u] = sessions[u]
    BY <1>1, <1>5, <2>1, AppendGrown
  <2>. QED  BY <2>2 DEF e
<1>7. \A u \in DOMAIN sessions : \A m : Recovered(sessions'[u], m) = Recovered(sessions[u], m)
  <2>1. \A u \in DOMAIN sessions : sessions[u] \in Seq(Entries)
    BY <1>1, SessionTypes
  <2>2. ASSUME NEW u \in DOMAIN sessions, NEW m, u # t
        PROVE  Recovered(sessions'[u], m) = Recovered(sessions[u], m)
    BY <2>2, <1>6
  <2>3. \A m : Recovered(Append(sessions[t], Said(role)), m) = Recovered(sessions[t], m)
    BY <2>1, <1>5, RecoveredAfterMessage
  <2>4. \A m : Recovered(sessions'[t], m) = Recovered(sessions[t], m)
    BY <2>3, <1>6
  <2>. QED  BY <2>2, <2>4
<1>8. /\ TypeInv' /\ calls'[c] = next
      /\ \A d \in Callers : d # c => calls'[d] = calls[d]
  <2>1. CallFits(next, sessions')
    BY <1>4, <1>5, <1>6 DEF CallFits
  <2>2. /\ sets' \in 0..MaxSets /\ mixed' \in BOOLEAN /\ crossed' \in BOOLEAN
        /\ session' \in DOMAIN sessions' /\ harness' \in [on : DOMAIN sessions', hooks : Registries]
        /\ hooks' \in Registries /\ phase' \in {"idle", "turn"} /\ model' \in Models
        /\ reloads' \in 0..MaxReloads /\ waiting' \in Seq(Models)
    BY <1>1, <1>3, <1>6, TypedParts
  <2>. QED  BY <1>1, <1>3, <1>4, <1>6, <2>1, <2>2, TypesAfter
<1>9. Turns'
  <2>1. \A d \in Callers : Running(d)' => Running(d) /\ calls'[d].to = calls[d].to
    BY <1>3, <1>4, <1>8 DEF Running, t
  <2>. QED  BY <2>1, <1>1, <1>3 DEF Turns
<1>10. ASSUME NEW d \in Callers, Fresh(d)' PROVE Unshared(d)'
  <2>1. d # c /\ calls'[d] = calls[d] /\ Unshared(d) /\ Fresh(d)
    BY <1>4, <1>8, <1>10, <1>1 DEF Fresh, Recovers
  <2>2. calls[d].to \in DOMAIN sessions /\ calls[d].to # t
    BY <2>1, <1>1, <1>5 DEF Fresh, Unshared, TypeInv, CallFits
  <2>. QED  BY <2>1, <2>2, <1>3, <1>4, <1>6, <1>8 DEF Unshared
<1>11. ASSUME ~mixed', NEW d \in Callers, CallAt(d, "swap")' PROVE StillFits(d)'
  <2>1. CallAt(d, "swap") /\ StillFits(d) /\ calls'[d] = calls[d]
    BY <1>1, <1>3, <1>4, <1>8, <1>11 DEF CallAt, Recovers
  <2>2. calls[d].to \in DOMAIN sessions
    BY <2>1, <1>1 DEF CallAt, TypeInv, CallFits
  <2>. QED  BY <2>1, <2>2, <1>7 DEF StillFits
<1>12. SessionRecovers'
  <2>1. \A d \in Callers : CallAt(d, "record") => CallAt(d, "record")'
    BY <1>3, <1>8 DEF CallAt, Running
  <2>2. Recovered(sessions'[session], model) = Recovered(sessions[session], model)
    BY <1>1, <1>7, TypedParts
  <2>. QED  BY <2>1, <2>2, <1>1, <1>3 DEF SessionRecovers, Recovers
<1>13. Recovers'
  BY <1>1, <1>3, <1>10, <1>11, <1>12 DEF Recovers
<1>. QED  BY <1>8, <1>9, <1>13 DEF SwitchInv

\* A flush keeps what rebindSession has read, unless it is marked, and leaves the last choice.
LEMMA FlushStep ==
  ASSUME SwitchInv, NEW c \in Callers, Running(c), FlushAll,
         NEW next, IsCall(next), CallGoes(c, next), CallFits(next, sessions'),
         next.step \in {"between", "none"}, phase' \in {"idle", "turn"},
         UNCHANGED <<session, model, hooks, harness, sets, reloads, crossed>>
  PROVE  /\ TypeInv' /\ Recovers' /\ calls'[c] = next
         /\ \A d \in Callers : d # c => calls'[d] = calls[d]
<1>1. TypeInv /\ Turns /\ Recovers
  BY DEF SwitchInv
<1>2. /\ Grown /\ DOMAIN sessions' = DOMAIN sessions /\ waiting' = <<>>
      /\ \A u \in DOMAIN sessions : u # session => sessions'[u] = sessions[u]
      /\ waiting = <<>> => UNCHANGED sessions
      /\ waiting # <<>> => Recovered(sessions'[session], model) = waiting[Len(waiting)]
  BY <1>1, FlushGrown
<1>3. mixed' = (mixed \/ (waiting # <<>> /\ Rebinding))
  BY DEF FlushAll
<1>4. /\ TypeInv' /\ calls'[c] = next
      /\ \A d \in Callers : d # c => calls'[d] = calls[d]
  <2>1. /\ sets' \in 0..MaxSets /\ mixed' \in BOOLEAN /\ crossed' \in BOOLEAN
        /\ session' \in DOMAIN sessions' /\ harness' \in [on : DOMAIN sessions', hooks : Registries]
        /\ hooks' \in Registries /\ model' \in Models
        /\ reloads' \in 0..MaxReloads /\ waiting' \in Seq(Models)
    BY <1>1, <1>2, <1>3, TypedParts, EmptySeq DEF Rebinding
  <2>. QED  BY <1>1, <1>2, <2>1, TypesAfter
<1>5. ASSUME NEW d \in Callers, Fresh(d)' PROVE Unshared(d)'
  <2>1. d # c /\ calls'[d] = calls[d] /\ Unshared(d) /\ Fresh(d)
    BY <1>4, <1>5, <1>1 DEF Fresh, Recovers
  <2>2. calls[d].to \in DOMAIN sessions /\ calls[d].to # session
    BY <2>1, <1>1 DEF Fresh, Unshared, TypeInv, CallFits
  <2>. QED  BY <2>1, <2>2, <1>2, <1>4 DEF Unshared
<1>6. ASSUME ~mixed', NEW d \in Callers, CallAt(d, "swap")' PROVE StillFits(d)'
  <2>1. CallAt(d, "swap") /\ StillFits(d) /\ calls'[d] = calls[d]
    BY <1>1, <1>3, <1>4, <1>6 DEF CallAt, Recovers
  <2>2. UNCHANGED sessions
    BY <2>1, <1>2, <1>3, <1>6 DEF Rebinding
  <2>. QED  BY <2>1, <2>2 DEF StillFits
<1>7. SessionRecovers'
  <2>1. CASE waiting = <<>>
    <3>1. \A d \in Callers : CallAt(d, "record") => CallAt(d, "record")'
      BY <1>4 DEF CallAt, Running
    <3>. QED  BY <2>1, <3>1, <1>1, <1>2, <1>3 DEF SessionRecovers, Recovers
  <2>2. CASE waiting # <<>>
    BY <2>2, <1>1, <1>2, <1>3 DEF SessionRecovers, Recovers
  <2>. QED  BY <2>1, <2>2
<1>8. Recovers'
  BY <1>2, <1>5, <1>6, <1>7 DEF Recovers
<1>. QED  BY <1>4, <1>8

LEMMA TurnEndStep ==
  ASSUME SwitchInv, NEW c \in Callers, TurnEnd(c)
  PROVE  SwitchInv'
<1> DEFINE next == [calls[c] EXCEPT !.step = "between", !.left = Len(waiting')]
<1>1. TypeInv /\ Turns /\ Recovers
  BY DEF SwitchInv
<1>2. /\ calls[c].step = "run" /\ CallGoes(c, next)
      /\ UNCHANGED <<phase, session, model, hooks, harness, sets, reloads, crossed>>
  BY DEF TurnEnd, CallAt
<1>3. IsCall(next) /\ next.step = "between" /\ next.to = calls[c].to
  BY <1>1 DEF TypeInv, IsCall, Fields, Steps
<1>. HIDE DEF next
<1>4. calls[c].to \in DOMAIN sessions /\ Running(c)
  BY <1>1, <1>2 DEF TypeInv, CallFits, Running
<1>5. phase' \in {"idle", "turn"}
  BY <1>1, <1>2, TypedParts
<1>6. /\ TypeInv' /\ Recovers' /\ calls'[c] = next
      /\ \A d \in Callers : d # c => calls'[d] = calls[d]
      /\ waiting' # <<>> => waiting # <<>>
  <2>1. CASE calls[c].hooks = "own"
    <3>1. FlushAll
      BY <2>1 DEF TurnEnd
    <3>2. CallFits(next, sessions') /\ waiting' = <<>>
      BY <1>1, <1>3, <1>4, <3>1, FlushGrown DEF CallFits
    <3>. QED  BY <1>2, <1>3, <1>4, <1>5, <3>1, <3>2, FlushStep
  <2>2. CASE calls[c].hooks # "own"
    <3>1. UNCHANGED <<sessions, waiting, mixed>>
      BY <2>2 DEF TurnEnd
    <3>2. Grown /\ CallFits(next, sessions')
      BY <1>1, <1>3, <1>4, <3>1, SameGrown DEF CallFits
    <3>3. /\ TypeInv' /\ calls'[c] = next
          /\ \A d \in Callers : d # c => calls'[d] = calls[d]
      <4>1. /\ sets' \in 0..MaxSets /\ mixed' \in BOOLEAN /\ crossed' \in BOOLEAN
            /\ session' \in DOMAIN sessions' /\ harness' \in [on : DOMAIN sessions', hooks : Registries]
            /\ hooks' \in Registries /\ model' \in Models
            /\ reloads' \in 0..MaxReloads /\ waiting' \in Seq(Models)
        BY <1>1, <1>2, <3>1, TypedParts
      <4>. QED  BY <1>1, <1>2, <1>3, <1>5, <3>2, <4>1, TypesAfter
    <3>4. \A d \in Callers : calls'[d].step = calls[d].step \/ (d = c /\ calls'[d].step = "between")
      BY <1>3, <3>3
    <3>5. ASSUME NEW d \in Callers, Fresh(d)' PROVE Unshared(d)'
      <4>1. d # c /\ calls'[d] = calls[d] /\ Unshared(d)
        BY <1>3, <3>3, <3>5, <1>1 DEF Fresh, Recovers
      <4>. QED  BY <4>1, <1>2, <1>3, <3>1, <3>3 DEF Unshared
    <3>6. ASSUME ~mixed', NEW d \in Callers, CallAt(d, "swap")' PROVE StillFits(d)'
      BY <1>1, <1>3, <3>1, <3>3, <3>6 DEF CallAt, Recovers, StillFits
    <3>7. SessionRecovers'
      <4>1. \A d \in Callers : CallAt(d, "record") => CallAt(d, "record")'
        BY <1>2, <3>3 DEF CallAt
      <4>. QED  BY <4>1, <1>1, <1>2, <3>1 DEF SessionRecovers, Recovers
    <3>8. Recovers'
      BY <1>1, <1>2, <3>1, <3>5, <3>6, <3>7 DEF Recovers
    <3>. QED  BY <3>1, <3>3, <3>8
  <2>. QED  BY <2>1, <2>2
<1>7. Turns'
  <2>1. \A d \in Callers : Running(d)' => Running(d) /\ calls'[d].to = calls[d].to
    BY <1>3, <1>4, <1>6 DEF Running
  <2>. QED  BY <2>1, <1>1, <1>2, <1>6 DEF Turns
<1>. QED  BY <1>6, <1>7 DEF SwitchInv

LEMMA EndRunStep ==
  ASSUME SwitchInv, NEW c \in Callers, EndRun(c)
  PROVE  SwitchInv'
<1>1. TypeInv /\ Turns /\ Running(c) /\ FlushAll
  BY DEF SwitchInv, EndRun, Running
<1>2. /\ phase' = "idle" /\ CallGoes(c, NoSwitch)
      /\ UNCHANGED <<session, model, hooks, harness, sets, reloads, crossed>>
  BY DEF EndRun, Returns
<1>3. waiting' = <<>>
  BY DEF EndRun, FlushAll
<1>4. /\ TypeInv' /\ Recovers' /\ calls'[c] = NoSwitch
      /\ \A d \in Callers : d # c => calls'[d] = calls[d]
  BY <1>1, <1>2, NoSwitchCall, FlushStep
<1>5. \A d \in Callers : ~Running(d)'
  BY <1>1, <1>4, NoSwitchCall DEF Turns, Running
<1>6. Turns'
  BY <1>1, <1>2, <1>3, <1>5 DEF Turns
<1>. QED  BY <1>4, <1>6 DEF SwitchInv

\* Every step keeps the invariant.
LEMMA SwitchInvStep == SwitchInv /\ [SwitchNext]_switchVars => SwitchInv'
<1> SUFFICES ASSUME SwitchInv, [SwitchNext]_switchVars
             PROVE  SwitchInv'
  OBVIOUS
<1>1. CASE UNCHANGED switchVars
  BY <1>1 DEF switchVars, SwitchInv, TypeInv, SwitchTypeOK, Turns, Running, Recovers, Fresh, Unshared,
              CallAt, StillFits, SessionRecovers
<1>2. ASSUME NEW c \in Callers, NEW op \in {"new", "switch", "fork", "clone"}, SnapshotRuntime(c, op)
      PROVE  SwitchInv'
  BY <1>2, SnapshotRuntimeStep
<1>3. ASSUME NEW c \in Callers, Make(c) PROVE SwitchInv'
  BY <1>3, MakeStep
<1>4. ASSUME NEW c \in Callers, ReadState(c) PROVE SwitchInv'
  BY <1>4, ReadStateStep
<1>5. ASSUME NEW c \in Callers, Swap(c) PROVE SwitchInv'
  BY <1>5, SwapStep
<1>6. ASSUME NEW c \in Callers, SnapshotReload(c) PROVE SwitchInv'
  BY <1>6, SnapshotReloadStep
<1>7. ASSUME NEW c \in Callers, Install(c) PROVE SwitchInv'
  BY <1>7, InstallStep
<1>8. ASSUME NEW c \in Callers, NEW m \in Models, SetModel(c, m) PROVE SwitchInv'
  BY <1>8, SetModelStep
<1>9. ASSUME NEW c \in Callers, RecordModel(c) PROVE SwitchInv'
  BY <1>9, RecordModelStep
<1>10. ASSUME NEW c \in Callers, BeginRun(c) PROVE SwitchInv'
  BY <1>10, BeginRunStep
<1>11. ASSUME NEW c \in Callers, RunAppends(c) PROVE SwitchInv'
  BY <1>11, RunAppendsStep
<1>12. ASSUME NEW c \in Callers, TurnEnd(c) PROVE SwitchInv'
  BY <1>12, TurnEndStep
<1>13. ASSUME NEW c \in Callers, EndRun(c) PROVE SwitchInv'
  BY <1>13, EndRunStep
<1>. QED  BY <1>1, <1>2, <1>3, <1>4, <1>5, <1>6, <1>7, <1>8, <1>9, <1>10, <1>11, <1>12, <1>13 DEF SwitchNext

LEMMA SwitchInvariant == SwitchSpec => []SwitchInv
  BY InitInv, SwitchInvStep, PTL DEF SwitchSpec

(***************************************************************************)
(* The theorems.                                                           *)
(***************************************************************************)

\* Every variable has its type, the session in use and the harness's session exist,
\* and so does every session a caller has in hand, however calls overlap.
THEOREM SwitchTypes == SwitchSpec => [](SwitchTypeOK /\ \A c \in Callers : CallFits(calls[c], sessions))
<1>1. SwitchInv => SwitchTypeOK /\ \A c \in Callers : CallFits(calls[c], sessions)
  BY DEF SwitchInv, TypeInv
<1>. QED  BY <1>1, SwitchInvariant, PTL

\* No switch, fork, clone or reload breaks what is in use: a run keeps the session it
\* began with, and a session that is opened again has the model last used in it
\* (rebindSession, recoverSessionState, beginRun, flushPendingWrites).
THEOREM SwitchesSafe == SwitchSpec => []SwitchingSafe
<1>1. SwitchInv => SwitchingSafe
  BY DEF SwitchInv, Turns, Recovers, SwitchingSafe, RunKeepsSession
<1>. QED  BY <1>1, SwitchInvariant, PTL


(***************************************************************************)
(* Credentials: the types, and the attempts that are left.                 *)
(***************************************************************************)

Trying == {"want", "exists", "stale"}
TriesLeft == \A t \in Resolvers : at[t] \in Trying => tries[t] < LockAttempts
CredTypes == CredTypeOK /\ TriesLeft

\* Where a thread goes: the others stay where they are.
LEMMA GotoTypes ==
  ASSUME CredTypes, NEW t \in Resolvers, NEW place \in ResolverPlaces, Goto(t, place)
  PROVE  /\ at' \in [Resolvers -> ResolverPlaces] /\ at'[t] = place
         /\ \A u \in Resolvers : u # t => at'[u] = at[u]
  BY DEF CredTypes, CredTypeOK, Goto

LEMMA CredTypesInit == CredInit => CredTypes
<1> SUFFICES ASSUME CredInit
             PROVE  CredTypes
  OBVIOUS
<1>1. /\ authFile \in Data /\ EmptyFile \in Data
      /\ lockfile \in [by : Resolvers \cup {NoThread}, old : BOOLEAN]
  BY CredAssumption DEF CredInit, Data, EmptyFile, NoLock
<1>2. /\ at \in [Resolvers -> ResolverPlaces] /\ job \in [Resolvers -> Jobs]
      /\ \A t \in Resolvers : at[t] = "idle"
  BY DEF CredInit, ResolverPlaces, Jobs
<1>3. tries \in [Resolvers -> 0..LockAttempts] /\ held \in [Resolvers -> Data]
  BY <1>1, CredAssumption DEF CredInit
<1>4. refresher \in [Processes -> Resolvers \cup {NoThread}]
  BY DEF CredInit
<1>5. /\ issued \in 1..Generations /\ live \subseteq 1..Generations /\ saved \in 0..Keys
      /\ asks \in 0..MaxAsks /\ crashes \in 0..MaxCrashes /\ unsaved \in 0..MaxUnsaved
  BY CredAssumption DEF CredInit
<1>6. reused \in BOOLEAN
  BY DEF CredInit
<1>. QED  BY <1>1, <1>2, <1>3, <1>4, <1>5, <1>6 DEF CredTypes, CredTypeOK, TriesLeft, Trying

LEMMA DoneTypes ==
  ASSUME CredTypes, NEW t \in Resolvers, Done(t)
  PROVE  /\ at' \in [Resolvers -> ResolverPlaces] /\ at'[t] = "idle"
         /\ \A u \in Resolvers : u # t => at'[u] = at[u]
         /\ refresher' \in [Processes -> Resolvers \cup {NoThread}]
  BY GotoTypes DEF CredTypes, CredTypeOK, Done, ResolverPlaces

\* One more attempt, or none.
LEMMA NextAttemptTypes ==
  ASSUME CredTypes, NEW t \in Resolvers, at[t] \in Trying, NextAttempt(t)
  PROVE  /\ at' \in [Resolvers -> ResolverPlaces] /\ at'[t] \in {"want", "idle"}
         /\ \A u \in Resolvers : u # t => at'[u] = at[u]
         /\ refresher' \in [Processes -> Resolvers \cup {NoThread}]
         /\ tries' \in [Resolvers -> 0..LockAttempts] /\ TriesLeft'
<1>1. tries[t] \in Nat /\ tries[t] < LockAttempts /\ tries \in [Resolvers -> 0..LockAttempts]
  BY CredAssumption DEF CredTypes, CredTypeOK, TriesLeft
<1>2. tries' = [tries EXCEPT ![t] = tries[t] + 1]
  BY DEF NextAttempt
<1>3. /\ tries' \in [Resolvers -> 0..LockAttempts] /\ tries'[t] = tries[t] + 1
      /\ \A u \in Resolvers : u # t => tries'[u] = tries[u]
  BY <1>1, <1>2, CredAssumption
<1>4. CASE AttemptsLeft(t)
  <2>1. Goto(t, "want") /\ UNCHANGED refresher
    BY <1>4 DEF NextAttempt
  <2>2. /\ at' \in [Resolvers -> ResolverPlaces] /\ at'[t] = "want"
        /\ \A u \in Resolvers : u # t => at'[u] = at[u]
    BY <2>1, GotoTypes DEF ResolverPlaces
  <2>. QED  BY <1>1, <1>3, <1>4, <2>1, <2>2 DEF AttemptsLeft, CredTypes, CredTypeOK, TriesLeft
<1>5. CASE ~AttemptsLeft(t)
  <2>1. Done(t)
    BY <1>5 DEF NextAttempt
  <2>. QED  BY <1>1, <1>3, <2>1, DoneTypes DEF CredTypes, TriesLeft, Trying
<1>. QED  BY <1>4, <1>5

LEMMA CredTypesStep == CredTypes /\ [CredNext]_credVars => CredTypes'
<1> SUFFICES ASSUME CredTypes, [CredNext]_credVars
             PROVE  CredTypes'
  OBVIOUS
<1>. USE DEF CredTypes, CredTypeOK
<1>1. ASSUME NEW t \in Resolvers, NEW j \in {"resolve", "login", "logout"}, Ask(t, j) PROVE CredTypes'
  <2>1. at' \in [Resolvers -> ResolverPlaces]
    BY <1>1, GotoTypes DEF Ask, ResolverPlaces
  <2>2. asks' \in 0..MaxAsks /\ tries' \in [Resolvers -> 0..LockAttempts] /\ job' \in [Resolvers -> Jobs]
    BY <1>1, CredAssumption DEF Ask, Jobs
  <2>3. TriesLeft'
    BY <1>1, CredAssumption DEF Ask, TriesLeft, Goto
  <2>. QED  BY <1>1, <2>1, <2>2, <2>3 DEF Ask, authServerVars
<1>2. ASSUME NEW t \in Resolvers, TryLock(t) PROVE CredTypes'
  <2>1. PICK place \in {"in", "exists"} : Goto(t, place)
    BY <1>2 DEF TryLock
  <2>2. /\ at' \in [Resolvers -> ResolverPlaces] /\ at'[t] = place
        /\ \A u \in Resolvers : u # t => at'[u] = at[u]
    BY <2>1, GotoTypes DEF ResolverPlaces
  <2>3. TriesLeft'
    BY <1>2, <2>2 DEF TryLock, TriesLeft, Trying
  <2>4. lockfile' \in [by : Resolvers \cup {NoThread}, old : BOOLEAN]
    <3>1. lockfile' = lockfile \/ lockfile' = [by |-> t, old |-> FALSE]
      BY <1>2 DEF TryLock
    <3>2. [by |-> t, old |-> FALSE] \in [by : Resolvers \cup {NoThread}, old : BOOLEAN]
      OBVIOUS
    <3>3. lockfile \in [by : Resolvers \cup {NoThread}, old : BOOLEAN]
      OBVIOUS
    <3>. QED  BY ONLY <3>1, <3>2, <3>3
  <2>. QED  BY <1>2, <2>2, <2>3, <2>4 DEF TryLock, authServerVars, faultVars
<1>3. ASSUME NEW t \in Resolvers, LookAtLock(t) PROVE CredTypes'
  <2>1. UNCHANGED <<lockfile, authFile, job, held, authServerVars, saved, faultVars>> /\ at[t] = "exists"
    BY <1>3 DEF LookAtLock
  <2>2. CASE lockfile.old
    <3>1. Goto(t, "stale") /\ UNCHANGED <<tries, refresher>>
      BY <1>3, <2>2 DEF LookAtLock
    <3>2. /\ at' \in [Resolvers -> ResolverPlaces] /\ at'[t] = "stale"
          /\ \A u \in Resolvers : u # t => at'[u] = at[u]
      BY <3>1, GotoTypes DEF ResolverPlaces
    <3>3. TriesLeft'
      BY <2>1, <3>1, <3>2 DEF TriesLeft, Trying
    <3>. QED  BY <2>1, <3>1, <3>2, <3>3 DEF authServerVars, faultVars
  <2>3. CASE ~lockfile.old
    <3>1. NextAttempt(t)
      BY <1>3, <2>3 DEF LookAtLock
    <3>2. /\ at' \in [Resolvers -> ResolverPlaces] /\ TriesLeft'
          /\ refresher' \in [Processes -> Resolvers \cup {NoThread}]
          /\ tries' \in [Resolvers -> 0..LockAttempts]
      BY <2>1, <3>1, NextAttemptTypes DEF Trying
    <3>. QED  BY <2>1, <3>2 DEF authServerVars, faultVars
  <2>. QED  BY <2>2, <2>3
<1>4. ASSUME NEW t \in Resolvers, Steal(t) PROVE CredTypes'
  <2>1. /\ UNCHANGED <<authFile, job, held, authServerVars, saved, faultVars>>
        /\ at[t] = "stale" /\ NextAttempt(t) /\ lockfile' = NoLock
    BY <1>4 DEF Steal
  <2>2. /\ at' \in [Resolvers -> ResolverPlaces] /\ TriesLeft'
        /\ refresher' \in [Processes -> Resolvers \cup {NoThread}]
        /\ tries' \in [Resolvers -> 0..LockAttempts]
    BY <2>1, NextAttemptTypes DEF Trying
  <2>. QED  BY <2>1, <2>2 DEF authServerVars, faultVars, NoLock
<1>5. ASSUME NEW t \in Resolvers, GiveUp(t) PROVE CredTypes'
  <2>1. /\ at' \in [Resolvers -> ResolverPlaces] /\ at'[t] = "idle"
        /\ \A u \in Resolvers : u # t => at'[u] = at[u]
        /\ refresher' \in [Processes -> Resolvers \cup {NoThread}]
    BY <1>5, DoneTypes DEF GiveUp
  <2>2. TriesLeft'
    BY <1>5, <2>1 DEF GiveUp, TriesLeft, Trying
  <2>. QED  BY <1>5, <2>1, <2>2 DEF GiveUp, authServerVars, faultVars
<1>6. ASSUME NEW t \in Resolvers, Read(t) PROVE CredTypes'
  <2>1. UNCHANGED <<lockVars, authFile, job, refresher, authServerVars, saved, faultVars>>
    BY <1>6 DEF Read
  <2>2. PICK place \in {"release", "refreshing", "write"} : Goto(t, place)
    BY <1>6 DEF Read, Jobs
  <2>3. held' \in [Resolvers -> Data]
    <3>1. authFile \in Data /\ held[t] \in Data /\ job[t] \in Jobs
      OBVIOUS
    <3>2. CASE ~authFile.ok \/ job[t] \in {"resolve", "reread"}
      <4>1. held' = [held EXCEPT ![t] = authFile]
        BY <1>6, <3>2 DEF Read
      <4>. QED  BY <3>1, <4>1
    <3>3. CASE authFile.ok /\ job[t] = "refresh"
      <4> DEFINE current == ToRefresh(authFile, held[t])
      <4>1. held' = [held EXCEPT ![t] = [authFile EXCEPT !.o = current]]
        BY <1>6, <3>3 DEF Read
      <4>2. current \in 0..Generations
        BY <3>1 DEF ToRefresh, Data
      <4>. HIDE DEF current
      <4>3. [authFile EXCEPT !.o = current] \in Data
        BY <3>1, <4>2 DEF Data
      <4>. QED  BY <3>1, <4>1, <4>3
    <3>4. CASE authFile.ok /\ job[t] = "login"
      <4>1. PICK k \in 1..Keys : held' = [held EXCEPT ![t] = [authFile EXCEPT !.k = k]]
        BY <1>6, <3>4 DEF Read
      <4>2. k \in 0..Keys
        BY CredAssumption
      <4>3. [authFile EXCEPT !.k = k] \in Data
        BY <3>1, <4>2 DEF Data
      <4>. QED  BY <3>1, <4>1, <4>3
    <3>5. CASE authFile.ok /\ job[t] = "logout"
      <4>1. held' = [held EXCEPT ![t] = [authFile EXCEPT !.k = 0]]
        BY <1>6, <3>5 DEF Read
      <4>2. [authFile EXCEPT !.k = 0] \in Data
        BY <3>1, CredAssumption DEF Data
      <4>. QED  BY <3>1, <4>1, <4>2
    <3>. QED  BY <3>1, <3>2, <3>3, <3>4, <3>5 DEF Jobs, Data
  <2>4. /\ at' \in [Resolvers -> ResolverPlaces] /\ at'[t] = place
        /\ \A u \in Resolvers : u # t => at'[u] = at[u]
    BY <2>2, GotoTypes DEF ResolverPlaces
  <2>5. TriesLeft'
    BY <2>1, <2>4 DEF TriesLeft, Trying, lockVars
  <2>. QED  BY <2>1, <2>3, <2>4, <2>5 DEF lockVars, authServerVars, faultVars
<1>7. ASSUME NEW t \in Resolvers, RefreshToken(t) PROVE CredTypes'
  <2>1. UNCHANGED <<lockVars, authFile, job, refresher, saved, faultVars>>
    BY <1>7 DEF RefreshToken
  <2>2. PICK place \in {"write", "failed"} : Goto(t, place)
    BY <1>7 DEF RefreshToken
  <2>3. /\ held' \in [Resolvers -> Data] /\ issued' \in 1..Generations /\ live' \subseteq 1..Generations
        /\ reused' \in BOOLEAN
    <3>1. held \in [Resolvers -> Data] /\ issued \in 1..Generations /\ live \subseteq 1..Generations
      OBVIOUS
    <3>2. CASE /\ issued < Generations /\ issued' = issued + 1 /\ live' = live \cup {issued + 1}
               /\ held' = [held EXCEPT ![t].o = issued + 1] /\ UNCHANGED reused
      <4>1. issued + 1 \in 1..Generations
        BY <3>1, <3>2, CredAssumption
      <4>2. [held[t] EXCEPT !.o = issued + 1] \in Data
        BY <3>1, <4>1 DEF Data
      <4>3. held' \in [Resolvers -> Data]
        BY <3>1, <3>2, <4>2
      <4>. QED  BY <3>1, <3>2, <4>1, <4>3
    <3>3. CASE reused' = (reused \/ held[t].o # issued) /\ UNCHANGED <<issued, live, held>>
      BY <3>3
    <3>. QED  BY <1>7, <3>2, <3>3 DEF RefreshToken
  <2>4. /\ at' \in [Resolvers -> ResolverPlaces] /\ at'[t] = place
        /\ \A u \in Resolvers : u # t => at'[u] = at[u]
    BY <2>2, GotoTypes DEF ResolverPlaces
  <2>5. TriesLeft'
    BY <2>1, <2>4 DEF TriesLeft, Trying, lockVars
  <2>. QED  BY <2>1, <2>3, <2>4, <2>5 DEF lockVars, faultVars
<1>8. ASSUME NEW t \in Resolvers, BeginWrite(t) PROVE CredTypes'
  <2>1. UNCHANGED <<lockVars, job, held, refresher, authServerVars, saved, asks, crashes>>
    BY <1>8 DEF BeginWrite
  <2>2. PICK place \in {"writing", "release"} : Goto(t, place)
    BY <1>8 DEF BeginWrite
  <2>3. authFile' \in Data /\ unsaved' \in 0..MaxUnsaved
    BY <1>8, CredAssumption DEF BeginWrite, EmptyFile, Data
  <2>4. /\ at' \in [Resolvers -> ResolverPlaces] /\ at'[t] = place
        /\ \A u \in Resolvers : u # t => at'[u] = at[u]
    BY <2>2, GotoTypes DEF ResolverPlaces
  <2>5. TriesLeft'
    BY <2>1, <2>4 DEF TriesLeft, Trying, lockVars
  <2>. QED  BY <2>1, <2>3, <2>4, <2>5 DEF lockVars, authServerVars
<1>9. ASSUME NEW t \in Resolvers, EndWrite(t) PROVE CredTypes'
  <2>1. UNCHANGED <<lockVars, job, held, refresher, authServerVars, faultVars>> /\ Goto(t, "release")
    BY <1>9 DEF EndWrite
  <2>2. authFile' \in Data /\ saved' \in 0..Keys
    BY <1>9 DEF EndWrite, Data
  <2>3. /\ at' \in [Resolvers -> ResolverPlaces] /\ at'[t] = "release"
        /\ \A u \in Resolvers : u # t => at'[u] = at[u]
    BY <2>1, GotoTypes DEF ResolverPlaces
  <2>4. TriesLeft'
    BY <2>1, <2>3 DEF TriesLeft, Trying, lockVars
  <2>. QED  BY <2>1, <2>2, <2>3, <2>4 DEF lockVars, authServerVars, faultVars
<1>10. ASSUME NEW t \in Resolvers, Release(t) PROVE CredTypes'
  <2>1. UNCHANGED <<authFile, held, authServerVars, saved, faultVars>> /\ lockfile' = NoLock
    BY <1>10 DEF Release
  <2>2. CASE Goto(t, "mutex") /\ UNCHANGED <<job, tries, refresher>>
    <3>1. /\ at' \in [Resolvers -> ResolverPlaces] /\ at'[t] = "mutex"
          /\ \A u \in Resolvers : u # t => at'[u] = at[u]
      BY <2>2, GotoTypes DEF ResolverPlaces
    <3>2. TriesLeft'
      BY <2>2, <3>1 DEF TriesLeft, Trying
    <3>. QED  BY <2>1, <2>2, <3>1, <3>2 DEF authServerVars, faultVars, NoLock
  <2>3. CASE /\ Goto(t, "want") /\ job' = [job EXCEPT ![t] = "reread"]
             /\ tries' = [tries EXCEPT ![t] = 0] /\ UNCHANGED refresher
    <3>1. /\ at' \in [Resolvers -> ResolverPlaces] /\ at'[t] = "want"
          /\ \A u \in Resolvers : u # t => at'[u] = at[u]
      BY <2>3, GotoTypes DEF ResolverPlaces
    <3>2. TriesLeft' /\ tries' \in [Resolvers -> 0..LockAttempts] /\ job' \in [Resolvers -> Jobs]
      BY <2>3, <3>1, CredAssumption DEF TriesLeft, Trying, Jobs
    <3>. QED  BY <2>1, <2>3, <3>1, <3>2 DEF authServerVars, faultVars, NoLock
  <2>4. CASE Done(t) /\ UNCHANGED <<job, tries>>
    <3>1. /\ at' \in [Resolvers -> ResolverPlaces] /\ at'[t] = "idle"
          /\ \A u \in Resolvers : u # t => at'[u] = at[u]
          /\ refresher' \in [Processes -> Resolvers \cup {NoThread}]
      BY <2>4, DoneTypes
    <3>2. TriesLeft'
      BY <2>4, <3>1 DEF TriesLeft, Trying
    <3>. QED  BY <2>1, <2>4, <3>1, <3>2 DEF authServerVars, faultVars, NoLock
  <2>. QED  BY <1>10, <2>2, <2>3, <2>4 DEF Release
<1>11. ASSUME NEW t \in Resolvers, TakeMutex(t) PROVE CredTypes'
  <2>1. /\ UNCHANGED <<lockfile, authFile, held, authServerVars, saved, faultVars>>
        /\ Goto(t, "want") /\ tries' = [tries EXCEPT ![t] = 0] /\ job' = [job EXCEPT ![t] = "refresh"]
        /\ refresher' = [refresher EXCEPT ![ProcessOf[t]] = t]
    BY <1>11 DEF TakeMutex
  <2>2. /\ at' \in [Resolvers -> ResolverPlaces] /\ at'[t] = "want"
        /\ \A u \in Resolvers : u # t => at'[u] = at[u]
    BY <2>1, GotoTypes DEF ResolverPlaces
  <2>3. TriesLeft' /\ tries' \in [Resolvers -> 0..LockAttempts] /\ job' \in [Resolvers -> Jobs]
    BY <2>1, <2>2, CredAssumption DEF TriesLeft, Trying, Jobs
  <2>4. refresher' \in [Processes -> Resolvers \cup {NoThread}]
    BY <2>1, CredAssumption
  <2>. QED  BY <2>1, <2>2, <2>3, <2>4 DEF authServerVars, faultVars
<1>12. CASE Expire
  BY <1>12, CredAssumption DEF Expire, lockVars, faultVars, TriesLeft
<1>13. CASE Age
  BY <1>13 DEF Age, authServerVars, faultVars, TriesLeft
<1>14. ASSUME NEW p \in Processes, Die(p) PROVE CredTypes'
  <2>1. at' \in [Resolvers -> ResolverPlaces] /\ \A u \in Resolvers : at'[u] \in {"dead", at[u]}
    BY <1>14 DEF Die, ResolverPlaces
  <2>2. TriesLeft'
    BY <1>14, <2>1 DEF Die, TriesLeft, Trying, lockVars
  <2>3. crashes' \in 0..MaxCrashes
    BY <1>14, CredAssumption DEF Die
  <2>. QED  BY <1>14, <2>1, <2>2, <2>3 DEF Die, lockVars, authServerVars
<1>15. CASE UNCHANGED credVars
  BY <1>15 DEF credVars, TriesLeft
<1>. QED  BY <1>1, <1>2, <1>3, <1>4, <1>5, <1>6, <1>7, <1>8, <1>9, <1>10, <1>11, <1>12, <1>13, <1>14, <1>15
             DEF CredNext, Step

(***************************************************************************)
(* Credentials: as long as nobody dies or stalls, the lock excludes.       *)
(***************************************************************************)

Calm == crashes = 0 /\ ~Stalls
Changes(t) == job[t] \in {"login", "logout"}
Working(t) == at[t] \in {"refreshing", "write", "writing"}

\* Whoever is inside owns the lock, so there is one of them.
Alone ==
    /\ ~lockfile.old
    /\ \A t \in Resolvers : at[t] \notin {"stale", "dead"}
    /\ \A t \in Resolvers : at[t] \in Inside => lockfile.by = t

\* The key is in the file, or in the hands of the one that writes.
KeyThere ==
    /\ (\A t \in Resolvers : at[t] # "writing") => authFile.ok /\ authFile.k = saved
    /\ \A t \in Resolvers : Working(t) => held[t].ok /\ (Changes(t) \/ held[t].k = saved)
    /\ \A t \in Resolvers : at[t] = "refreshing" => ~Changes(t)

\* So is the newest token, from the moment the server has issued it.
Rotated(t) == at[t] = "writing" \/ (at[t] = "write" /\ ~Changes(t))
TokenThere ==
    /\ (\A t \in Resolvers : ~Rotated(t)) => authFile.o = issued
    /\ \A t \in Resolvers : Working(t) => held[t].o = issued
    /\ ~reused

CalmInv == Calm => Alone /\ KeyThere /\ (unsaved = 0 => TokenThere)
CredInv == CredTypes /\ CalmInv

LEMMA CalmInit == CredInit => CalmInv
  BY DEF CredInit, CalmInv, Alone, KeyThere, TokenThere, Working, Rotated, Inside, NoLock

\* A thread that neither begins nor ends to work on the file, and changes nothing in it.
LEMMA DataKept ==
  ASSUME KeyThere, unsaved = 0 => TokenThere, NEW t \in Resolvers, ~Working(t), ~Working(t)',
         \A u \in Resolvers : u # t => at'[u] = at[u] /\ job'[u] = job[u],
         UNCHANGED <<authFile, held, issued, reused, saved, unsaved>>
  PROVE  KeyThere' /\ (unsaved' = 0 => TokenThere')
<1>1. \A u \in Resolvers : u # t => /\ Working(u)' = Working(u) /\ Changes(u)' = Changes(u)
                                   /\ Rotated(u)' = Rotated(u)
  BY DEF Working, Changes, Rotated
<1>2. ~Rotated(t) /\ ~Rotated(t)' /\ at[t] \notin {"writing", "refreshing"} /\ at'[t] \notin {"writing", "refreshing"}
  BY DEF Working, Rotated
<1>3. KeyThere'
  BY <1>1, <1>2 DEF KeyThere
<1>4. ASSUME unsaved' = 0 PROVE TokenThere'
  BY <1>1, <1>2, <1>4 DEF TokenThere
<1>. QED  BY <1>3, <1>4

\* A step of one thread outside the lock.
LEMMA OutsideStep ==
  ASSUME CredInv, NEW t \in Resolvers, at[t] \notin Inside, at'[t] \notin Inside \cup {"stale", "dead"},
         \A u \in Resolvers : u # t => at'[u] = at[u] /\ job'[u] = job[u],
         UNCHANGED <<lockfile, authFile, held, issued, reused, saved, crashes, unsaved>>
  PROVE  CalmInv'
<1> SUFFICES ASSUME Calm'
             PROVE  Alone' /\ KeyThere' /\ (unsaved' = 0 => TokenThere')
  BY DEF CalmInv
<1>1. Alone /\ KeyThere /\ (unsaved = 0 => TokenThere)
  BY DEF CredInv, CalmInv, Calm
<1>2. ~Working(t) /\ ~Working(t)'
  BY DEF Working, Inside
<1>3. Alone'
  BY <1>1 DEF Alone
<1>. QED  BY <1>1, <1>2, <1>3, DataKept

\* Nobody else is inside.
LEMMA Sole ==
  ASSUME Alone, NEW t \in Resolvers, at[t] \in Inside
  PROVE  \A u \in Resolvers : u # t => at[u] \notin Inside
  BY DEF Alone

LEMMA TryLockCalm ==
  ASSUME CredInv, NEW t \in Resolvers, TryLock(t)
  PROVE  CalmInv'
<1>1. at[t] = "want" /\ UNCHANGED <<authFile, job, tries, held, refresher, issued, live, reused, saved, asks, crashes, unsaved>>
  BY DEF TryLock, authServerVars, faultVars
<1>2. CASE lockfile = NoLock
  <2>1. lockfile' = [by |-> t, old |-> FALSE] /\ Goto(t, "in")
    BY <1>2 DEF TryLock
  <2>2. at'[t] = "in" /\ \A u \in Resolvers : u # t => at'[u] = at[u]
    BY <2>1, GotoTypes DEF CredInv, ResolverPlaces
  <2> SUFFICES ASSUME Calm'
               PROVE  Alone' /\ KeyThere' /\ (unsaved' = 0 => TokenThere')
    BY DEF CalmInv
  <2>3. Alone /\ KeyThere /\ (unsaved = 0 => TokenThere)
    BY <1>1 DEF CredInv, CalmInv, Calm
  <2>4. \A u \in Resolvers : at[u] \notin Inside
    BY <1>2, <2>3, CredAssumption DEF Alone, NoLock
  <2>5. Alone'
    BY <2>1, <2>2, <2>3, <2>4 DEF Alone
  <2>6. ~Working(t) /\ ~Working(t)'
    BY <1>1, <2>2 DEF Working
  <2>. QED  BY <1>1, <2>2, <2>3, <2>5, <2>6, DataKept
<1>3. CASE lockfile # NoLock
  <2>1. Goto(t, "exists") /\ UNCHANGED lockfile
    BY <1>3 DEF TryLock
  <2>2. at'[t] = "exists" /\ \A u \in Resolvers : u # t => at'[u] = at[u]
    BY <2>1, GotoTypes DEF CredInv, ResolverPlaces
  <2>. QED  BY <1>1, <2>1, <2>2, OutsideStep DEF Inside
<1>. QED  BY <1>2, <1>3

LEMMA ReadCalm ==
  ASSUME CredInv, NEW t \in Resolvers, Read(t)
  PROVE  CalmInv'
<1> SUFFICES ASSUME Calm'
             PROVE  Alone' /\ KeyThere' /\ (unsaved' = 0 => TokenThere')
  BY DEF CalmInv
<1>1. /\ at[t] = "in"
      /\ UNCHANGED <<lockfile, authFile, job, issued, reused, saved, crashes, unsaved>>
  BY DEF Read, lockVars, authServerVars, faultVars
<1>2. Alone /\ KeyThere /\ (unsaved = 0 => TokenThere)
  BY <1>1 DEF CredInv, CalmInv, Calm
<1>3. PICK place \in {"release", "refreshing", "write"} : Goto(t, place)
  BY DEF Read
<1>4. at'[t] = place /\ \A u \in Resolvers : u # t => at'[u] = at[u]
  BY <1>3, GotoTypes DEF CredInv, ResolverPlaces
<1>5. \A u \in Resolvers : u # t => at[u] \notin Inside /\ at'[u] \notin Inside
  BY <1>1, <1>2, <1>4, Sole DEF Inside
<1>6. \A u \in Resolvers : u # t => ~Working(u)' /\ at'[u] \notin {"writing", "refreshing"} /\ ~Rotated(u)
  BY <1>5 DEF Inside, Working, Rotated
<1>7. Alone'
  BY <1>1, <1>2, <1>4, <1>5 DEF Alone, Inside
<1>8. authFile.ok /\ authFile.k = saved /\ (unsaved = 0 => authFile.o = issued)
  <2>1. \A u \in Resolvers : at[u] # "writing" /\ ~Rotated(u)
    BY <1>1, <1>5 DEF Inside, Rotated
  <2>. QED  BY <2>1, <1>2 DEF KeyThere, TokenThere
<1>9. /\ place = "refreshing" => ~Changes(t)
      /\ place # "release" => /\ held'[t].ok /\ (Changes(t) \/ held'[t].k = saved)
                              /\ unsaved = 0 => held'[t].o = issued
      /\ place # "writing"
      /\ place = "write" => Changes(t)
  <2>1. authFile \in Data /\ held \in [Resolvers -> Data] /\ issued \in 1..Generations
    BY DEF CredInv, CredTypes, CredTypeOK
  <2>2. CASE job[t] \in {"resolve", "reread"}
    <3>1. Goto(t, "release") /\ ~Changes(t)
      BY <1>8, <2>2 DEF Read, Changes
    <3>. QED  BY <3>1, <1>3, <1>4, GotoTypes DEF CredInv, ResolverPlaces
  <2>3. CASE job[t] = "refresh"
    <3> DEFINE current == ToRefresh(authFile, held[t])
    <3>1. /\ held' = [held EXCEPT ![t] = [authFile EXCEPT !.o = current]]
          /\ Goto(t, IF current \in live THEN "release" ELSE "refreshing")
      BY <1>8, <2>3 DEF Read
    <3>2. unsaved = 0 => current = issued
      BY <1>8, <2>1, CredAssumption DEF ToRefresh
    <3>. HIDE DEF current
    <3>3. held'[t] = [authFile EXCEPT !.o = current]
      BY <2>1, <3>1
    <3>4. held'[t].ok = authFile.ok /\ held'[t].k = authFile.k /\ held'[t].o = current
      BY <2>1, <3>3 DEF Data
    <3>5. at'[t] \in {"release", "refreshing"}
      BY <3>1, GotoTypes DEF CredInv, ResolverPlaces
    <3>. QED  BY <3>2, <3>4, <3>5, <2>3, <1>4, <1>8 DEF Changes
  <2>4. CASE Changes(t)
    <3>1. Goto(t, "write")
      BY <1>8, <2>4 DEF Read, Changes
    <3>2. at'[t] = "write"
      BY <3>1, GotoTypes DEF CredInv, ResolverPlaces
    <3>3. \E k : held' = [held EXCEPT ![t] = [authFile EXCEPT !.k = k]]
      BY <1>8, <2>4 DEF Read, Changes
    <3>4. held'[t].ok = authFile.ok /\ held'[t].o = authFile.o
      BY <2>1, <3>3 DEF Data
    <3>. QED  BY <3>2, <3>4, <2>4, <1>4, <1>8
  <2>. QED  BY <2>2, <2>3, <2>4 DEF CredInv, CredTypes, CredTypeOK, Jobs, Changes
<1>10. Working(t)' => place # "release"
  BY <1>4 DEF Working
<1>11. KeyThere'
  BY <1>1, <1>4, <1>6, <1>8, <1>9, <1>10 DEF KeyThere, Changes
<1>12. ASSUME unsaved' = 0 PROVE TokenThere'
  BY <1>1, <1>2, <1>4, <1>6, <1>8, <1>9, <1>10, <1>12 DEF TokenThere
<1>. QED  BY <1>7, <1>11, <1>12

LEMMA RefreshTokenCalm ==
  ASSUME CredInv, NEW t \in Resolvers, RefreshToken(t)
  PROVE  CalmInv'
<1> SUFFICES ASSUME Calm'
             PROVE  Alone' /\ KeyThere' /\ (unsaved' = 0 => TokenThere')
  BY DEF CalmInv
<1>1. /\ at[t] = "refreshing"
      /\ UNCHANGED <<lockfile, authFile, job, saved, crashes, unsaved>>
  BY DEF RefreshToken, lockVars, faultVars
<1>2. Alone /\ KeyThere /\ (unsaved = 0 => TokenThere)
  BY <1>1 DEF CredInv, CalmInv, Calm
<1>3. PICK place \in {"write", "failed"} : Goto(t, place)
  BY DEF RefreshToken
<1>4. at'[t] = place /\ \A u \in Resolvers : u # t => at'[u] = at[u]
  BY <1>3, GotoTypes DEF CredInv, ResolverPlaces
<1>5. \A u \in Resolvers : u # t => at[u] \notin Inside /\ at'[u] \notin Inside
  BY <1>1, <1>2, <1>4, Sole DEF Inside
<1>6. \A u \in Resolvers : u # t => ~Working(u)' /\ at'[u] \notin {"writing", "refreshing"} /\ ~Rotated(u) /\ ~Rotated(u)'
  BY <1>5 DEF Inside, Working, Rotated
<1>7. Alone'
  BY <1>1, <1>2, <1>4, <1>5 DEF Alone, Inside
<1>8. /\ ~Changes(t) /\ ~Changes(t)' /\ held[t].ok /\ held[t].k = saved /\ ~Rotated(t)
      /\ authFile.ok /\ authFile.k = saved
      /\ unsaved = 0 => authFile.o = issued /\ held[t].o = issued /\ ~reused
  <2>1. Working(t) /\ \A u \in Resolvers : at[u] # "writing" /\ ~Rotated(u)
    BY <1>1, <1>5 DEF Inside, Rotated, Working
  <2>. QED  BY <2>1, <1>1, <1>2 DEF KeyThere, TokenThere, Changes
<1>9. held[t] \in Data /\ held \in [Resolvers -> Data]
  BY DEF CredInv, CredTypes, CredTypeOK
<1>10. CASE /\ issued' = issued + 1 /\ held' = [held EXCEPT ![t].o = issued + 1]
            /\ Goto(t, "write") /\ UNCHANGED reused
  <2>1. held'[t] = [held[t] EXCEPT !.o = issued + 1]
    BY <1>9, <1>10
  <2>2. held'[t].ok = held[t].ok /\ held'[t].k = held[t].k /\ held'[t].o = issued'
    BY <1>9, <1>10, <2>1 DEF Data
  <2>3. at'[t] = "write"
    BY <1>10, GotoTypes DEF CredInv, ResolverPlaces
  <2>4. Rotated(t)'
    BY <2>3, <1>8 DEF Rotated
  <2>5. KeyThere'
    BY <2>2, <2>3, <1>1, <1>6, <1>8 DEF KeyThere
  <2>6. ASSUME unsaved' = 0 PROVE TokenThere'
    BY <2>2, <2>4, <2>6, <1>1, <1>6, <1>8, <1>10 DEF TokenThere
  <2>. QED  BY <2>5, <2>6, <1>7
<1>11. CASE /\ Goto(t, "failed") /\ reused' = (reused \/ held[t].o # issued)
            /\ UNCHANGED <<issued, live, held>>
  <2>1. at'[t] = "failed"
    BY <1>11, GotoTypes DEF CredInv, ResolverPlaces
  <2>2. ~Working(t)' /\ ~Rotated(t)'
    BY <2>1 DEF Working, Rotated
  <2>3. KeyThere'
    BY <2>1, <2>2, <1>1, <1>6, <1>8 DEF KeyThere
  <2>4. ASSUME unsaved' = 0 PROVE TokenThere'
    BY <2>2, <2>4, <1>1, <1>6, <1>8, <1>11 DEF TokenThere
  <2>. QED  BY <2>3, <2>4, <1>7
<1>. QED  BY <1>10, <1>11 DEF RefreshToken

LEMMA BeginWriteCalm ==
  ASSUME CredInv, NEW t \in Resolvers, BeginWrite(t)
  PROVE  CalmInv'
<1> SUFFICES ASSUME Calm'
             PROVE  Alone' /\ KeyThere' /\ (unsaved' = 0 => TokenThere')
  BY DEF CalmInv
<1>1. /\ at[t] = "write" /\ UNCHANGED <<lockfile, job, held, issued, reused, saved, crashes>>
  BY DEF BeginWrite, lockVars, authServerVars
<1>2. Alone /\ KeyThere /\ (unsaved = 0 => TokenThere)
  BY <1>1 DEF CredInv, CalmInv, Calm
<1>3. PICK place \in {"writing", "release"} : Goto(t, place)
  BY DEF BeginWrite
<1>4. at'[t] = place /\ \A u \in Resolvers : u # t => at'[u] = at[u]
  BY <1>3, GotoTypes DEF CredInv, ResolverPlaces
<1>5. \A u \in Resolvers : u # t => at[u] \notin Inside /\ at'[u] \notin Inside
  BY <1>1, <1>2, <1>4, Sole DEF Inside
<1>6. \A u \in Resolvers : u # t => ~Working(u)' /\ at'[u] \notin {"writing", "refreshing"} /\ ~Rotated(u)'
  BY <1>5 DEF Inside, Working, Rotated
<1>7. Alone'
  BY <1>1, <1>2, <1>4, <1>5 DEF Alone, Inside
<1>8. /\ held[t].ok /\ (Changes(t) \/ held[t].k = saved) /\ Changes(t)' = Changes(t)
      /\ authFile.ok /\ authFile.k = saved
      /\ unsaved = 0 => held[t].o = issued /\ ~reused
  <2>1. Working(t) /\ \A u \in Resolvers : at[u] # "writing"
    BY <1>1, <1>5 DEF Inside, Working
  <2>. QED  BY <2>1, <1>1, <1>2 DEF KeyThere, TokenThere, Changes
<1>9. CASE Goto(t, "writing") /\ UNCHANGED unsaved
  <2>1. at'[t] = "writing"
    BY <1>9, GotoTypes DEF CredInv, ResolverPlaces
  <2>2. Rotated(t)'
    BY <2>1 DEF Rotated
  <2>3. KeyThere'
    BY <2>1, <1>1, <1>6, <1>8 DEF KeyThere
  <2>4. ASSUME unsaved' = 0 PROVE TokenThere'
    BY <2>2, <2>4, <1>1, <1>6, <1>8, <1>9 DEF TokenThere
  <2>. QED  BY <2>3, <2>4, <1>7
<1>10. CASE Goto(t, "release") /\ unsaved' = unsaved + 1 /\ UNCHANGED authFile
  <2>1. at'[t] = "release"
    BY <1>10, GotoTypes DEF CredInv, ResolverPlaces
  <2>2. ~Working(t)'
    BY <2>1 DEF Working
  <2>3. KeyThere'
    BY <2>1, <2>2, <1>1, <1>6, <1>8, <1>10 DEF KeyThere
  <2>4. unsaved' # 0
    BY <1>10 DEF CredInv, CredTypes, CredTypeOK
  <2>. QED  BY <2>3, <2>4, <1>7
<1>. QED  BY <1>9, <1>10 DEF BeginWrite

LEMMA EndWriteCalm ==
  ASSUME CredInv, NEW t \in Resolvers, EndWrite(t)
  PROVE  CalmInv'
<1> SUFFICES ASSUME Calm'
             PROVE  Alone' /\ KeyThere' /\ (unsaved' = 0 => TokenThere')
  BY DEF CalmInv
<1>1. /\ at[t] = "writing" /\ Goto(t, "release") /\ authFile' = held[t]
      /\ saved' = IF job[t] \in {"login", "logout"} THEN held[t].k ELSE saved
      /\ UNCHANGED <<lockfile, job, held, issued, reused, crashes, unsaved>>
  BY DEF EndWrite, lockVars, authServerVars, faultVars
<1>2. Alone /\ KeyThere /\ (unsaved = 0 => TokenThere)
  BY <1>1 DEF CredInv, CalmInv, Calm
<1>3. at'[t] = "release" /\ \A u \in Resolvers : u # t => at'[u] = at[u]
  BY <1>1, GotoTypes DEF CredInv, ResolverPlaces
<1>4. \A u \in Resolvers : u # t => at[u] \notin Inside /\ at'[u] \notin Inside
  BY <1>1, <1>2, <1>3, Sole DEF Inside
<1>5. \A u \in Resolvers : ~Working(u)' /\ at'[u] \notin {"writing", "refreshing"}
  BY <1>3, <1>4 DEF Inside, Working
<1>6. Alone'
  BY <1>1, <1>2, <1>3, <1>4 DEF Alone, Inside
<1>7. /\ held[t].ok /\ (Changes(t) \/ held[t].k = saved)
      /\ unsaved = 0 => held[t].o = issued /\ ~reused
  <2>1. Working(t)
    BY <1>1 DEF Working
  <2>. QED  BY <2>1, <1>2 DEF KeyThere, TokenThere
<1>8. KeyThere'
  BY <1>1, <1>5, <1>7 DEF KeyThere, Changes
<1>9. ASSUME unsaved' = 0 PROVE TokenThere'
  BY <1>1, <1>5, <1>7, <1>9 DEF TokenThere
<1>. QED  BY <1>6, <1>8, <1>9

LEMMA ReleaseCalm ==
  ASSUME CredInv, NEW t \in Resolvers, Release(t)
  PROVE  CalmInv'
<1> SUFFICES ASSUME Calm'
             PROVE  Alone' /\ KeyThere' /\ (unsaved' = 0 => TokenThere')
  BY DEF CalmInv
<1>1. /\ at[t] \in {"release", "failed"} /\ lockfile' = NoLock
      /\ UNCHANGED <<authFile, held, issued, reused, saved, crashes, unsaved>>
  BY DEF Release, authServerVars, faultVars
<1>2. Alone /\ KeyThere /\ (unsaved = 0 => TokenThere)
  BY <1>1 DEF CredInv, CalmInv, Calm
<1>3. \A u \in Resolvers : u # t => job'[u] = job[u]
  BY DEF Release, CredInv, CredTypes, CredTypeOK
<1>4. at'[t] \in {"mutex", "want", "idle"} /\ \A u \in Resolvers : u # t => at'[u] = at[u]
  <2>1. Goto(t, "mutex") \/ Goto(t, "want") \/ Goto(t, "idle")
    BY DEF Release, Done
  <2>. QED  BY <2>1, GotoTypes DEF CredInv, ResolverPlaces
<1>5. \A u \in Resolvers : u # t => at[u] \notin Inside
  BY <1>1, <1>2, Sole DEF Inside
<1>6. Alone'
  BY <1>1, <1>2, <1>4, <1>5 DEF Alone, Inside, NoLock
<1>7. ~Working(t) /\ ~Working(t)'
  BY <1>1, <1>4 DEF Working
<1>. QED  BY <1>1, <1>2, <1>3, <1>4, <1>6, <1>7, DataKept

LEMMA CalmStep == CredInv /\ [CredNext]_credVars => CalmInv'
<1> SUFFICES ASSUME CredInv, [CredNext]_credVars
             PROVE  CalmInv'
  OBVIOUS
<1>1. ASSUME NEW t \in Resolvers, NEW j \in {"resolve", "login", "logout"}, Ask(t, j) PROVE CalmInv'
  <2>1. at'[t] = "want" /\ \A u \in Resolvers : u # t => at'[u] = at[u] /\ job'[u] = job[u]
    BY <1>1 DEF Ask, Goto, CredInv, CredTypes, CredTypeOK
  <2>. QED  BY <1>1, <2>1, OutsideStep DEF Ask, Inside, authServerVars
<1>2. ASSUME NEW t \in Resolvers, TryLock(t) PROVE CalmInv'
  BY <1>2, TryLockCalm
<1>3. ASSUME NEW t \in Resolvers, LookAtLock(t) PROVE CalmInv'
  <2>1. at[t] = "exists" /\ UNCHANGED <<lockfile, authFile, job, held, issued, reused, saved, crashes, unsaved>>
    BY <1>3 DEF LookAtLock, authServerVars, faultVars
  <2>2. CASE lockfile.old
    BY <2>1, <2>2 DEF CredInv, CalmInv, Alone, Calm
  <2>3. CASE ~lockfile.old
    <3>1. NextAttempt(t)
      BY <1>3, <2>3 DEF LookAtLock
    <3>2. at'[t] \in {"want", "idle"} /\ \A u \in Resolvers : u # t => at'[u] = at[u]
      BY <2>1, <3>1, NextAttemptTypes DEF CredInv, Trying
    <3>. QED  BY <2>1, <3>2, OutsideStep DEF Inside
  <2>. QED  BY <2>2, <2>3
<1>4. ASSUME NEW t \in Resolvers, Steal(t) PROVE CalmInv'
  BY <1>4 DEF Steal, faultVars, CredInv, CalmInv, Alone, Calm
<1>5. ASSUME NEW t \in Resolvers, GiveUp(t) PROVE CalmInv'
  <2>1. at'[t] = "idle" /\ \A u \in Resolvers : u # t => at'[u] = at[u]
    BY <1>5, DoneTypes DEF GiveUp, CredInv
  <2>. QED  BY <1>5, <2>1, OutsideStep DEF GiveUp, Inside, authServerVars, faultVars
<1>6. ASSUME NEW t \in Resolvers, Read(t) PROVE CalmInv'
  BY <1>6, ReadCalm
<1>7. ASSUME NEW t \in Resolvers, RefreshToken(t) PROVE CalmInv'
  BY <1>7, RefreshTokenCalm
<1>8. ASSUME NEW t \in Resolvers, BeginWrite(t) PROVE CalmInv'
  BY <1>8, BeginWriteCalm
<1>9. ASSUME NEW t \in Resolvers, EndWrite(t) PROVE CalmInv'
  BY <1>9, EndWriteCalm
<1>10. ASSUME NEW t \in Resolvers, Release(t) PROVE CalmInv'
  BY <1>10, ReleaseCalm
<1>11. ASSUME NEW t \in Resolvers, TakeMutex(t) PROVE CalmInv'
  <2>1. at'[t] = "want" /\ \A u \in Resolvers : u # t => at'[u] = at[u] /\ job'[u] = job[u]
    BY <1>11 DEF TakeMutex, Goto, CredInv, CredTypes, CredTypeOK
  <2>. QED  BY <1>11, <2>1, OutsideStep DEF TakeMutex, Inside, authServerVars, faultVars
<1>12. CASE Expire
  BY <1>12 DEF Expire, lockVars, faultVars, CredInv, CalmInv, Calm, Alone, KeyThere, TokenThere, Working,
               Changes, Rotated
<1>13. CASE Age
  <2>1. lockfile # NoLock /\ (Stalls \/ at[lockfile.by] = "dead") /\ crashes' = crashes
    BY <1>13 DEF Age, faultVars
  <2>2. ~lockfile.old => lockfile.by \in Resolvers
    BY <2>1 DEF CredInv, CredTypes, CredTypeOK, NoLock
  <2>. QED  BY <2>1, <2>2 DEF CredInv, CalmInv, Calm, Alone
<1>14. ASSUME NEW p \in Processes, Die(p) PROVE CalmInv'
  BY <1>14 DEF Die, CredInv, CredTypes, CredTypeOK, CalmInv, Calm
<1>15. CASE UNCHANGED credVars
  BY <1>15 DEF credVars, CredInv, CalmInv, Calm, Alone, KeyThere, TokenThere, Working, Changes, Rotated
<1>. QED  BY <1>1, <1>2, <1>3, <1>4, <1>5, <1>6, <1>7, <1>8, <1>9, <1>10, <1>11, <1>12, <1>13, <1>14, <1>15
             DEF CredNext, Step

LEMMA CredInvariant == CredSpec => []CredInv
<1>1. CredInit => CredInv
  BY CredTypesInit, CalmInit DEF CredInv
<1>2. CredInv /\ [CredNext]_credVars => CredInv'
  BY CredTypesStep, CalmStep DEF CredInv
<1>. QED  BY <1>1, <1>2, PTL DEF CredSpec

\* While no process dies and nobody stalls, a refresh token is never shown to the
\* server twice, and a key that was stored stays (refreshExpiredOAuth, Set, Delete and
\* acquireFileLock).
THEOREM CredentialsKept == CredSpec => []CredentialsSafe
<1>1. CredInv => CredentialsSafe
  BY DEF CredInv, CalmInv, Calm, KeyThere, TokenThere, CredentialsSafe, RefreshOnce, KeyKept
<1>. QED  BY <1>1, CredInvariant, PTL

(***************************************************************************)
(* The queues of the file tools.                                           *)
(***************************************************************************)

\* A queue is counted by the calls that refer to it ...
Users(q) == {w \in Writers : queue[w] = q}
Counted == \A q \in Queues : IsFiniteSet(Users(q)) /\ refs[q] = Cardinality(Users(q))

\* ... and is in the table, under the key of each of them, as long as one does.
Linked ==
    \A w \in Writers :
       /\ queue[w] # NoQueue => queues[key[w]] = queue[w]
       /\ step[w] \in {"waiting", "inside", "changed"} => queue[w] # NoQueue
       /\ step[w] \in {"start", "keyed", "done"} => queue[w] = NoQueue
       /\ step[w] = "start" <=> key[w] = NoName

Owned == \A w \in Writers : Changing(w) => owner[queue[w]] = w

SameKey == \A v, w \in Writers : key[v] # NoName /\ key[w] # NoName => key[v] = key[w]
Stored(w) == step[w] \in {"unlocked", "done"}
StillThere(w) == w \in content \/ \E v \in Writers : v # w /\ tool[v] = "write" /\ Stored(v)

\* With one key: what was stored is there, and what an edit has read is what there is.
Kept ==
    SameKey => /\ \A w \in Writers : Stored(w) => StillThere(w)
               /\ \A w \in Writers : step[w] = "changed" /\ tool[w] = "edit" => readBy[w] = content

MutationInv == MutationTypeOK /\ Counted /\ Linked /\ Owned /\ Kept

\* Nobody else changes the file under the same key.
LEMMA OneInside ==
  ASSUME MutationInv, NEW v \in Writers, NEW w \in Writers, Changing(v), Changing(w), key[v] = key[w]
  PROVE  v = w
<1>1. queues[key[v]] = queue[v] /\ queues[key[w]] = queue[w]
  BY DEF MutationInv, Linked, Changing
<1>2. owner[queue[v]] = v /\ owner[queue[w]] = w
  BY DEF MutationInv, Owned
<1>. QED  BY <1>1, <1>2

LEMMA MutationInitInv == MutationInit => MutationInv
<1> SUFFICES ASSUME MutationInit
             PROVE  MutationInv
  OBVIOUS
<1>1. MutationTypeOK
  BY MutationAssumption DEF MutationInit, MutationTypeOK, WriterSteps
<1>2. Counted
  <2>1. \A q \in Queues : Users(q) = {}
    BY MutationAssumption DEF MutationInit, Users
  <2>. QED  BY <2>1, FS_EmptySet DEF MutationInit, Counted
<1>3. Linked /\ Owned /\ Kept
  BY DEF MutationInit, Linked, Owned, Changing, Kept, SameKey, Stored
<1>. QED  BY <1>1, <1>2, <1>3 DEF MutationInv

\* Where a call goes: the others stay where they are.
LEMMA AdvanceTypes ==
  ASSUME MutationTypeOK, NEW w \in Writers, NEW s \in WriterSteps, Advance(w, s)
  PROVE  /\ step' \in [Writers -> WriterSteps] /\ step'[w] = s
         /\ \A v \in Writers : v # w => step'[v] = step[v]
  BY DEF MutationTypeOK, Advance

LEMMA ComputeKeyInv ==
  ASSUME MutationInv, NEW w \in Writers, ComputeKey(w)
  PROVE  MutationInv'
<1>. USE DEF MutationInv
<1>1. /\ step[w] = "start" /\ UNCHANGED <<tool, name, queue, queues, refs, owner, exists, content, readBy, mutationFailures>>
  BY DEF ComputeKey, contentVars
<1>2. PICK n \in Names : key' = [key EXCEPT ![w] = n]
  BY MutationAssumption DEF ComputeKey, MutationTypeOK
<1>3. /\ step' \in [Writers -> WriterSteps] /\ step'[w] = "keyed"
      /\ \A v \in Writers : v # w => step'[v] = step[v]
  BY AdvanceTypes DEF ComputeKey, WriterSteps
<1>4. /\ key' \in [Writers -> Names \cup {NoName}] /\ key'[w] = n /\ n # NoName
      /\ \A v \in Writers : v # w => key'[v] = key[v]
  BY <1>2, MutationAssumption DEF MutationTypeOK
<1>5. MutationTypeOK'
  BY <1>1, <1>3, <1>4 DEF MutationTypeOK
<1>6. Counted'
  BY <1>1 DEF Counted, Users
<1>7. Linked'
  BY <1>1, <1>3, <1>4 DEF Linked
<1>8. Owned'
  BY <1>1, <1>3 DEF Owned, Changing
<1>9. Kept'
  <2> SUFFICES ASSUME SameKey'
               PROVE  /\ \A v \in Writers : Stored(v)' => StillThere(v)'
                      /\ \A v \in Writers : step'[v] = "changed" /\ tool'[v] = "edit" => readBy'[v] = content'
    BY DEF Kept
  <2>1. key[w] = NoName
    BY <1>1 DEF Linked
  <2>2. SameKey
    BY <2>1, <1>4 DEF SameKey
  <2>3. \A v \in Writers : Stored(v)' <=> Stored(v)
    BY <1>1, <1>3 DEF Stored
  <2>. QED  BY <2>2, <2>3, <1>1, <1>3 DEF Kept, StillThere
<1>. QED  BY <1>5, <1>6, <1>7, <1>8, <1>9

LEMMA RegisterInv ==
  ASSUME MutationInv, NEW w \in Writers, Register(w)
  PROVE  MutationInv'
<1>. USE DEF MutationInv
<1>1. step[w] = "keyed" /\ UNCHANGED <<tool, name, key, owner, exists, content, readBy, mutationFailures>>
  BY DEF Register, contentVars
<1>2. PICK q \in Queues :
          /\ IF queues[key[w]] # NoQueue THEN q = queues[key[w]] ELSE Unused(q)
          /\ queues' = [queues EXCEPT ![key[w]] = q]
          /\ refs' = [refs EXCEPT ![q] = @ + 1]
          /\ queue' = [queue EXCEPT ![w] = q]
  BY DEF Register
<1>3. /\ step' \in [Writers -> WriterSteps] /\ step'[w] = "waiting"
      /\ \A v \in Writers : v # w => step'[v] = step[v]
  BY AdvanceTypes DEF Register, WriterSteps
<1>4. key[w] \in Names /\ queue[w] = NoQueue /\ q # NoQueue
  BY <1>1, MutationAssumption DEF Linked, MutationTypeOK
<1>5. /\ queue' \in [Writers -> Queues \cup {NoQueue}] /\ queue'[w] = q
      /\ \A v \in Writers : v # w => queue'[v] = queue[v]
  BY <1>2 DEF MutationTypeOK
<1>6. /\ queues' \in [Names -> Queues \cup {NoQueue}] /\ queues'[key[w]] = q
      /\ \A n \in Names : n # key[w] => queues'[n] = queues[n]
  BY <1>2, <1>4 DEF MutationTypeOK
<1>7. /\ refs' \in [Queues -> Nat] /\ refs'[q] = refs[q] + 1
      /\ \A u \in Queues : u # q => refs'[u] = refs[u]
  BY <1>2 DEF MutationTypeOK
<1>8. MutationTypeOK'
  BY <1>1, <1>3, <1>5, <1>6, <1>7 DEF MutationTypeOK
<1>9. Counted'
  <2>1. Users(q)' = Users(q) \cup {w} /\ w \notin Users(q)
    BY <1>4, <1>5 DEF Users
  <2>2. \A u \in Queues : u # q => Users(u)' = Users(u)
    BY <1>4, <1>5, MutationAssumption DEF Users
  <2>3. IsFiniteSet(Users(q)) /\ refs[q] = Cardinality(Users(q))
    BY DEF Counted
  <2>4. IsFiniteSet(Users(q) \cup {w}) /\ Cardinality(Users(q) \cup {w}) = Cardinality(Users(q)) + 1
    BY <2>1, <2>3, FS_AddElement
  <2>5. IsFiniteSet(Users(q)') /\ refs'[q] = Cardinality(Users(q)')
    BY <2>1, <2>3, <2>4, <1>7
  <2>. QED  BY <2>2, <2>5, <1>7 DEF Counted
<1>10. Linked'
  <2>1. ASSUME NEW v \in Writers, queue'[v] # NoQueue PROVE queues'[key[v]] = queue'[v]
    <3>1. CASE v = w
      BY <3>1, <1>5, <1>6
    <3>2. CASE v # w
      <4>1. queue'[v] = queue[v] /\ queues[key[v]] = queue[v] /\ key[v] \in Names
        BY <2>1, <3>2, <1>5, MutationAssumption DEF Linked, MutationTypeOK
      <4>. QED  BY <4>1, <2>1, <1>2, <1>6
    <3>. QED  BY <3>1, <3>2
  <2>2. \A v \in Writers : step'[v] \in {"waiting", "inside", "changed"} => queue'[v] # NoQueue
    BY <1>3, <1>4, <1>5 DEF Linked
  <2>3. \A v \in Writers : step'[v] \in {"start", "keyed", "done"} => queue'[v] = NoQueue
    BY <1>3, <1>5 DEF Linked
  <2>4. \A v \in Writers : step'[v] = "start" <=> key'[v] = NoName
    BY <1>1, <1>3 DEF Linked
  <2>. QED  BY <2>1, <2>2, <2>3, <2>4, <1>1 DEF Linked
<1>11. Owned'
  BY <1>1, <1>3, <1>5 DEF Owned, Changing
<1>12. Kept'
  BY <1>1, <1>3 DEF Kept, SameKey, Stored, StillThere
<1>. QED  BY <1>8, <1>9, <1>10, <1>11, <1>12

LEMMA LockQueueInv ==
  ASSUME MutationInv, NEW w \in Writers, LockQueue(w)
  PROVE  MutationInv'
<1>. USE DEF MutationInv
<1>1. /\ step[w] = "waiting" /\ owner[queue[w]] = NoWriter
      /\ owner' = [owner EXCEPT ![queue[w]] = w]
      /\ UNCHANGED <<tool, name, key, queue, queues, refs, exists, content, readBy, mutationFailures>>
  BY DEF LockQueue, contentVars
<1>2. /\ step' \in [Writers -> WriterSteps] /\ step'[w] = "inside"
      /\ \A v \in Writers : v # w => step'[v] = step[v]
  BY AdvanceTypes DEF LockQueue, WriterSteps
<1>3. queue[w] \in Queues
  BY <1>1 DEF Linked, MutationTypeOK
<1>4. MutationTypeOK'
  BY <1>1, <1>2, <1>3 DEF MutationTypeOK
<1>5. Counted'
  BY <1>1 DEF Counted, Users
<1>6. Linked'
  BY <1>1, <1>2 DEF Linked
<1>7. Owned'
  <2>1. ASSUME NEW v \in Writers, Changing(v)', v # w PROVE owner'[queue[v]] = v
    <3>1. owner[queue[v]] = v /\ v # NoWriter
      BY <2>1, <1>2, MutationAssumption DEF Owned, Changing
    <3>. QED  BY <3>1, <1>1, <1>3 DEF MutationTypeOK
  <2>2. owner'[queue[w]] = w
    BY <1>1, <1>3 DEF MutationTypeOK
  <2>. QED  BY <2>1, <2>2, <1>1 DEF Owned
<1>8. Kept'
  BY <1>1, <1>2 DEF Kept, SameKey, Stored, StillThere
<1>. QED  BY <1>4, <1>5, <1>6, <1>7, <1>8

LEMMA ReadForEditInv ==
  ASSUME MutationInv, NEW w \in Writers, ReadForEdit(w)
  PROVE  MutationInv'
<1>. USE DEF MutationInv
<1>1. /\ step[w] = "inside" /\ readBy' = [readBy EXCEPT ![w] = content]
      /\ UNCHANGED <<tool, name, key, queue, queues, refs, owner, exists, content, mutationFailures>>
  BY DEF ReadForEdit, queueVars
<1>2. PICK s \in {"changed", "failed"} : Advance(w, s)
  BY DEF ReadForEdit
<1>3. /\ step' \in [Writers -> WriterSteps] /\ step'[w] = s
      /\ \A v \in Writers : v # w => step'[v] = step[v]
  BY <1>2, AdvanceTypes DEF WriterSteps
<1>4. /\ readBy' \in [Writers -> SUBSET Writers] /\ readBy'[w] = content
      /\ \A v \in Writers : v # w => readBy'[v] = readBy[v]
  BY <1>1 DEF MutationTypeOK
<1>5. MutationTypeOK'
  BY <1>1, <1>3, <1>4 DEF MutationTypeOK
<1>6. Counted'
  BY <1>1 DEF Counted, Users
<1>7. Linked'
  BY <1>1, <1>3 DEF Linked
<1>8. Owned'
  BY <1>1, <1>3 DEF Owned, Changing
<1>9. Kept'
  BY <1>1, <1>3, <1>4 DEF Kept, SameKey, Stored, StillThere
<1>. QED  BY <1>5, <1>6, <1>7, <1>8, <1>9

LEMMA ComposeWriteInv ==
  ASSUME MutationInv, NEW w \in Writers, ComposeWrite(w)
  PROVE  MutationInv'
<1>. USE DEF MutationInv
<1>1. /\ step[w] = "inside" /\ tool[w] = "write"
      /\ UNCHANGED <<tool, name, key, queue, queues, refs, owner, exists, content, readBy, mutationFailures>>
  BY DEF ComposeWrite, queueVars, contentVars
<1>2. /\ step' \in [Writers -> WriterSteps] /\ step'[w] = "changed"
      /\ \A v \in Writers : v # w => step'[v] = step[v]
  BY AdvanceTypes DEF ComposeWrite, WriterSteps
<1>3. MutationTypeOK'
  BY <1>1, <1>2 DEF MutationTypeOK
<1>4. Counted'
  BY <1>1 DEF Counted, Users
<1>5. Linked' /\ Owned'
  BY <1>1, <1>2 DEF Linked, Owned, Changing
<1>6. Kept'
  BY <1>1, <1>2 DEF Kept, SameKey, Stored, StillThere
<1>. QED  BY <1>3, <1>4, <1>5, <1>6

LEMMA StoreTextInv ==
  ASSUME MutationInv, NEW w \in Writers, StoreText(w)
  PROVE  MutationInv'
<1>. USE DEF MutationInv
<1>1. /\ step[w] = "changed"
      /\ UNCHANGED <<tool, name, key, queue, queues, refs, owner, readBy>>
  BY DEF StoreText, queueVars
<1>2. PICK s \in {"unlocked", "failed"} : Advance(w, s)
  BY DEF StoreText
<1>3. /\ step' \in [Writers -> WriterSteps] /\ step'[w] = s
      /\ \A v \in Writers : v # w => step'[v] = step[v]
  BY <1>2, AdvanceTypes DEF WriterSteps
<1>4. exists' \in BOOLEAN /\ content' \subseteq Writers /\ mutationFailures' \in 0..MaxFailures
  <2>1. exists \in BOOLEAN /\ content \subseteq Writers /\ readBy[w] \subseteq Writers
    BY DEF MutationTypeOK
  <2>2. mutationFailures \in 0..MaxFailures /\ MaxFailures \in Nat
    BY MutationAssumption DEF MutationTypeOK
  <2>3. \/ exists' = TRUE /\ content' \subseteq readBy[w] \cup {w} /\ UNCHANGED mutationFailures
        \/ /\ mutationFailures < MaxFailures /\ mutationFailures' = mutationFailures + 1
           /\ UNCHANGED <<exists, content>>
    BY DEF StoreText
  <2>4. exists' \in BOOLEAN /\ content' \subseteq Writers
    BY <2>1, <2>3
  <2>5. mutationFailures' \in 0..MaxFailures
    BY <2>2, <2>3
  <2>. QED  BY <2>4, <2>5
<1>5. MutationTypeOK'
  BY <1>1, <1>3, <1>4 DEF MutationTypeOK
<1>6. Counted'
  BY <1>1 DEF Counted, Users
<1>7. Linked' /\ Owned'
  BY <1>1, <1>3 DEF Linked, Owned, Changing
<1>8. Kept'
  <2> SUFFICES ASSUME SameKey'
               PROVE  /\ \A v \in Writers : Stored(v)' => StillThere(v)'
                      /\ \A v \in Writers : step'[v] = "changed" /\ tool'[v] = "edit" => readBy'[v] = content'
    BY DEF Kept
  <2>1. SameKey
    BY <1>1 DEF SameKey
  <2>2. /\ \A v \in Writers : Stored(v) => StillThere(v)
        /\ \A v \in Writers : step[v] = "changed" /\ tool[v] = "edit" => readBy[v] = content
    BY <2>1 DEF Kept
  <2>3. \A v \in Writers : Changing(v) => v = w
    <3>1. \A v \in Writers : Changing(v) => key[v] # NoName
      BY DEF Changing, Linked
    <3>2. Changing(w)
      BY <1>1 DEF Changing
    <3>. QED  BY <2>1, <3>1, <3>2, OneInside DEF SameKey
  <2>4. \A v \in Writers : step'[v] # "changed"
    BY <2>3, <1>3 DEF Changing
  <2>5. CASE content' = (IF tool[w] = "edit" THEN readBy[w] ELSE {}) \cup {w} /\ Advance(w, "unlocked")
    <3>1. step'[w] = "unlocked"
      BY <2>5, AdvanceTypes DEF WriterSteps
    <3>2. \A v \in Writers : v # w => (Stored(v)' <=> Stored(v))
      BY <1>3 DEF Stored
    <3>3. Stored(w)' /\ w \in content' /\ ~Stored(w)
      BY <3>1, <2>5, <1>1 DEF Stored
    <3>4. ASSUME NEW v \in Writers, Stored(v)', v # w PROVE StillThere(v)'
      <4>1. StillThere(v)
        BY <3>2, <3>4, <2>2
      <4>2. CASE tool[w] = "edit"
        <5>1. content \subseteq content'
          BY <4>2, <2>2, <2>5, <1>1
        <5>2. CASE v \in content
          BY <5>1, <5>2 DEF StillThere
        <5>3. CASE \E u \in Writers : u # v /\ tool[u] = "write" /\ Stored(u)
          <6>1. PICK u \in Writers : u # v /\ tool[u] = "write" /\ Stored(u)
            BY <5>3
          <6>2. Stored(u)' /\ tool'[u] = "write"
            BY <6>1, <3>2, <3>3, <1>1
          <6>. QED  BY <6>1, <6>2 DEF StillThere
        <5>. QED  BY <4>1, <5>2, <5>3 DEF StillThere
      <4>3. CASE tool[w] = "write"
        BY <4>3, <3>3, <3>4, <1>1 DEF StillThere
      <4>. QED  BY <4>2, <4>3 DEF MutationTypeOK
    <3>5. \A v \in Writers : Stored(v)' => StillThere(v)'
      BY <3>3, <3>4 DEF StillThere
    <3>. QED  BY <3>5, <2>4
  <2>6. CASE UNCHANGED <<exists, content>> /\ Advance(w, "failed")
    <3>1. step'[w] = "failed"
      BY <2>6, AdvanceTypes DEF WriterSteps
    <3>2. \A v \in Writers : Stored(v)' <=> Stored(v)
      BY <3>1, <1>1, <1>3 DEF Stored
    <3>3. \A v \in Writers : StillThere(v) => StillThere(v)'
      BY <3>2, <2>6, <1>1 DEF StillThere
    <3>. QED  BY <3>2, <3>3, <2>2, <2>4
  <2>. QED  BY <2>5, <2>6 DEF StoreText
<1>. QED  BY <1>5, <1>6, <1>7, <1>8

LEMMA UnlockQueueInv ==
  ASSUME MutationInv, NEW w \in Writers, UnlockQueue(w)
  PROVE  MutationInv'
<1>. USE DEF MutationInv
<1>1. /\ step[w] \in {"unlocked", "failed"} /\ queue[w] # NoQueue /\ owner[queue[w]] = w
      /\ owner' = [owner EXCEPT ![queue[w]] = NoWriter]
      /\ UNCHANGED <<step, tool, name, key, queue, queues, refs, exists, content, readBy, mutationFailures>>
  BY DEF UnlockQueue, contentVars
<1>2. queue[w] \in Queues
  BY <1>1 DEF MutationTypeOK
<1>3. MutationTypeOK'
  BY <1>1, <1>2 DEF MutationTypeOK
<1>4. Counted' /\ Linked'
  BY <1>1 DEF Counted, Users, Linked
<1>5. Owned'
  <2>1. ASSUME NEW v \in Writers, Changing(v) PROVE owner'[queue[v]] = v
    <3>1. owner[queue[v]] = v /\ v # w
      BY <2>1, <1>1 DEF Owned, Changing
    <3>. QED  BY <3>1, <1>1, <1>2 DEF MutationTypeOK
  <2>. QED  BY <2>1, <1>1 DEF Owned, Changing
<1>6. Kept'
  BY <1>1 DEF Kept, SameKey, Stored, StillThere
<1>. QED  BY <1>3, <1>4, <1>5, <1>6

LEMMA UnregisterInv ==
  ASSUME MutationInv, NEW w \in Writers, Unregister(w)
  PROVE  MutationInv'
<1>. USE DEF MutationInv
<1>0. PICK q : q = queue[w]
  OBVIOUS
<1>1. /\ step[w] \in {"unlocked", "failed"} /\ q # NoQueue
      /\ refs' = [refs EXCEPT ![q] = refs[q] - 1]
      /\ queues' = IF LastReference(w) /\ queues[key[w]] = q
                     THEN [queues EXCEPT ![key[w]] = NoQueue] ELSE queues
      /\ queue' = [queue EXCEPT ![w] = NoQueue]
      /\ UNCHANGED <<tool, name, key, owner, exists, content, readBy, mutationFailures>>
  BY <1>0 DEF Unregister, contentVars
<1>2. PICK s \in {"failed", "done"} :
          Advance(w, s) /\ (s = "failed" <=> step[w] = "failed")
  BY <1>1 DEF Unregister
<1>3. /\ step' \in [Writers -> WriterSteps] /\ step'[w] = s
      /\ \A v \in Writers : v # w => step'[v] = step[v]
  BY <1>2, AdvanceTypes DEF WriterSteps
<1>4. q \in Queues /\ w \in Users(q)
  BY <1>0, <1>1 DEF MutationTypeOK, Users
<1>5. /\ queue' \in [Writers -> Queues \cup {NoQueue}] /\ queue'[w] = NoQueue
      /\ \A v \in Writers : v # w => queue'[v] = queue[v]
  BY <1>1 DEF MutationTypeOK
<1>6. /\ IsFiniteSet(Users(q)) /\ refs[q] = Cardinality(Users(q))
      /\ IsFiniteSet(Users(q) \ {w}) /\ Cardinality(Users(q) \ {w}) = Cardinality(Users(q)) - 1
      /\ Cardinality(Users(q) \ {w}) \in Nat
  <2>1. IsFiniteSet(Users(q)) /\ refs[q] = Cardinality(Users(q))
    BY <1>4 DEF Counted
  <2>2. IsFiniteSet(Users(q) \ {w}) /\ Cardinality(Users(q) \ {w}) = Cardinality(Users(q)) - 1
    BY <2>1, <1>4, FS_RemoveElement
  <2>. QED  BY <2>1, <2>2, FS_CardinalityType
<1>7. /\ refs' \in [Queues -> Nat] /\ refs'[q] = refs[q] - 1
      /\ \A u \in Queues : u # q => refs'[u] = refs[u]
  <2>1. refs[q] - 1 \in Nat
    BY <1>6
  <2>. QED  BY <2>1, <1>1, <1>4 DEF MutationTypeOK
<1>8. /\ queues' \in [Names -> Queues \cup {NoQueue}]
      /\ \A n \in Names : queues'[n] = queues[n] \/ (n = key[w] /\ refs[q] = 1)
  BY <1>0, <1>1 DEF MutationTypeOK, LastReference
<1>9. MutationTypeOK'
  BY <1>1, <1>3, <1>5, <1>7, <1>8 DEF MutationTypeOK
<1>10. Counted'
  <2>1. Users(q)' = Users(q) \ {w}
    BY <1>4, <1>5, MutationAssumption DEF Users
  <2>2. \A u \in Queues : u # q => Users(u)' = Users(u)
    BY <1>0, <1>4, <1>5, MutationAssumption DEF Users
  <2>3. IsFiniteSet(Users(q)') /\ refs'[q] = Cardinality(Users(q)')
    BY <2>1, <1>6, <1>7
  <2>. QED  BY <2>2, <2>3, <1>7 DEF Counted
<1>11. Linked'
  <2>1. ASSUME NEW v \in Writers, queue'[v] # NoQueue PROVE queues'[key[v]] = queue'[v]
    <3>1. v # w /\ queue'[v] = queue[v]
      BY <2>1, <1>5
    <3>2. queues[key[v]] = queue[v] /\ queues[key[w]] = q
      BY <1>0, <2>1, <3>1, <1>1 DEF Linked
    <3>3. ASSUME key[v] = key[w] PROVE refs[q] # 1
      <4>1. v \in Users(q) \ {w}
        BY <3>1, <3>2, <3>3 DEF Users
      <4>2. Cardinality(Users(q) \ {w}) # 0
        BY <4>1, <1>6, FS_EmptySet
      <4>. QED  BY <4>2, <1>6
    <3>4. key[v] \in Names
      <4>1. step[v] # "start"
        BY <2>1, <3>1 DEF Linked
      <4>. QED  BY <4>1 DEF Linked, MutationTypeOK
    <3>. QED  BY <3>1, <3>2, <3>3, <3>4, <1>8
  <2>2. \A v \in Writers :
            /\ step'[v] \in {"waiting", "inside", "changed"} => queue'[v] # NoQueue
            /\ step'[v] \in {"start", "keyed", "done"} => queue'[v] = NoQueue
            /\ step'[v] = "start" <=> key'[v] = NoName
    BY <1>1, <1>3, <1>5 DEF Linked
  <2>. QED  BY <2>1, <2>2, <1>1 DEF Linked
<1>12. Owned'
  BY <1>1, <1>3, <1>5 DEF Owned, Changing
<1>13. Kept'
  <2>1. \A v \in Writers : Stored(v)' <=> Stored(v)
    BY <1>1, <1>2, <1>3 DEF Stored
  <2>2. \A v \in Writers : step'[v] = "changed" <=> step[v] = "changed"
    BY <1>1, <1>3
  <2>. QED  BY <2>1, <2>2, <1>1 DEF Kept, SameKey, StillThere
<1>. QED  BY <1>9, <1>10, <1>11, <1>12, <1>13

LEMMA MutationInvStep == MutationInv /\ [MutationNext]_mutationVars => MutationInv'
<1> SUFFICES ASSUME MutationInv, [MutationNext]_mutationVars
             PROVE  MutationInv'
  OBVIOUS
<1>1. CASE UNCHANGED mutationVars
  <2>1. Counted'
    BY <1>1 DEF mutationVars, MutationInv, Counted, Users
  <2>2. MutationTypeOK' /\ Linked' /\ Owned'
    BY <1>1 DEF mutationVars, MutationInv, MutationTypeOK, Linked, Owned, Changing
  <2>3. Kept'
    BY <1>1 DEF mutationVars, MutationInv, Kept, SameKey, Stored, StillThere
  <2>. QED  BY <2>1, <2>2, <2>3 DEF MutationInv
<1>2. ASSUME NEW w \in Writers,
             \/ ComputeKey(w) \/ Register(w) \/ LockQueue(w)
             \/ ReadForEdit(w) \/ ComposeWrite(w) \/ StoreText(w)
             \/ UnlockQueue(w) \/ Unregister(w)
      PROVE  MutationInv'
  BY <1>2, ComputeKeyInv, RegisterInv, LockQueueInv, ReadForEditInv, ComposeWriteInv, StoreTextInv,
     UnlockQueueInv, UnregisterInv
<1>. QED  BY <1>1, <1>2 DEF MutationNext

LEMMA MutationInvariant == MutationSpec => []MutationInv
  BY MutationInvStep, MutationInitInv, PTL DEF MutationSpec

\* Two calls never change a file under one key at the same time, although queues are
\* deleted and made again under the feet of those who wait, and no edit loses what
\* another has stored (withFileMutationQueue, releaseFileMutationQueue, executeEdit).
THEOREM FileToolsSafe == MutationSpec => []FilesSafe
<1>1. MutationInv => OneWriterPerKey
  BY OneInside DEF OneWriterPerKey
<1>2. MutationInv => EditsNotLost
  BY DEF MutationInv, Kept, SameKey, StillThere, Stored, EditsNotLost
<1>. QED  BY <1>1, <1>2, MutationInvariant, PTL DEF FilesSafe

(***************************************************************************)
(* The settings manager.                                                   *)
(***************************************************************************)

\* While no write failed and nobody else wrote, what a scope was asked for is in its
\* memory, and in its file if that was loaded; readers see the two scopes merged.
Wanted ==
    saveErrors = 0 /\ edits = 0 =>
        \A s \in Scopes :
            /\ s \in loadErr <=> ~disk[s].ok
            /\ \A p \in Paths : wanted[s][p] # Unset =>
                   /\ memory[s][p] = wanted[s][p]
                   /\ s \notin loadErr => disk[s].data[p] = wanted[s][p]

SettingsInv ==
    /\ SettingsTypeOK
    /\ merged = Merge(memory["global"], memory["project"])
    /\ Wanted

LEMMA MergeTypes ==
  ASSUME NEW a \in Object, NEW b \in Object
  PROVE  Merge(a, b) \in Object
  BY DEF Merge, Object

LEMMA WithTypes ==
  ASSUME NEW a \in Object, NEW p \in Paths, NEW v \in Values
  PROVE  /\ With(a, p, v) \in Object /\ With(a, p, v)[p] = v
         /\ \A x \in Paths : x # p => With(a, p, v)[x] = a[x]
  BY DEF With, Object

LEMMA NoSettingsTypes == NoSettings \in Object /\ \A p \in Paths : NoSettings[p] = Unset
  BY DEF NoSettings, Object, Values

LEMMA SettingsInitInv == SettingsInit => SettingsInv
<1> SUFFICES ASSUME SettingsInit
             PROVE  SettingsInv
  OBVIOUS
<1>1. disk \in [Scopes -> File] /\ \A s \in Scopes : disk[s].ok \in BOOLEAN /\ disk[s].data = NoSettings
  BY NoSettingsTypes DEF SettingsInit, File
<1>2. memory \in [Scopes -> Object]
  BY <1>1, NoSettingsTypes DEF SettingsInit, Loaded
<1>3. merged \in Object
  BY <1>2, MergeTypes DEF SettingsInit, Scopes
<1>4. wanted \in [Scopes -> Object] /\ \A s \in Scopes, p \in Paths : wanted[s][p] = Unset
  BY NoSettingsTypes DEF SettingsInit
<1>5. loadErr \subseteq Scopes /\ errors \in BOOLEAN /\ \A s \in Scopes : s \in loadErr <=> ~disk[s].ok
  BY DEF SettingsInit
<1>6. edits \in 0..MaxEdits /\ changes \in 0..MaxChanges /\ saveErrors \in 0..MaxSaveErrors
  BY SettingsAssumption DEF SettingsInit
<1>7. SettingsTypeOK
  BY <1>1, <1>2, <1>3, <1>4, <1>5, <1>6 DEF SettingsTypeOK
<1>8. Wanted
  BY <1>4, <1>5 DEF Wanted
<1>. QED  BY <1>7, <1>8 DEF SettingsInv, SettingsInit

\* What Set leaves: the scope has the value in memory, its file has it too or has not
\* been touched, and in that case there is something to be seen.
LEMMA SetOutcome ==
  ASSUME SettingsInv, NEW s \in Scopes, NEW path \in Paths, NEW v \in Options, Set(s, path, v)
  PROVE  LET inMemory == With(memory[s], path, v)
             written == With(disk[s].data, path, v)
         IN /\ memory' \in [Scopes -> Object] /\ merged' = Merge(memory'["global"], memory'["project"])
            /\ \A u \in Scopes : u # s => memory'[u] = memory[u] /\ disk'[u] = disk[u]
            /\ disk' \in [Scopes -> File] /\ errors' \in BOOLEAN
            /\ \/ /\ memory'[s] = inMemory /\ disk' = disk
                  /\ s \in loadErr \/ errors'
                  /\ s \in loadErr \/ ~disk[s].ok \/ saveErrors' = saveErrors + 1
               \/ /\ s \notin loadErr /\ disk[s].ok /\ memory'[s] = written
                  /\ disk'[s].ok /\ disk'[s].data = written
            /\ saveErrors' \in 0..MaxSaveErrors /\ saveErrors' >= saveErrors
<1> DEFINE inMemory == With(memory[s], path, v)
           written == With(disk[s].data, path, v)
<1>1. /\ disk \in [Scopes -> File] /\ memory \in [Scopes -> Object] /\ errors \in BOOLEAN
      /\ saveErrors \in 0..MaxSaveErrors /\ disk[s].data \in Object /\ disk[s].ok \in BOOLEAN
  BY DEF SettingsInv, SettingsTypeOK, File
<1>2. inMemory \in Object /\ written \in Object
  BY <1>1, WithTypes DEF Values
<1>3. [memory EXCEPT ![s] = With(@, path, v)] = [memory EXCEPT ![s] = inMemory]
  OBVIOUS
<1>. HIDE DEF inMemory, written
<1>4. CASE /\ memory' = [memory EXCEPT ![s] = inMemory] /\ merged' = Merge(memory'["global"], memory'["project"])
           /\ disk' = disk
           /\ \/ s \in loadErr /\ UNCHANGED <<errors, saveErrors>>
              \/ ~disk[s].ok /\ errors' = TRUE /\ UNCHANGED saveErrors
              \/ saveErrors < MaxSaveErrors /\ saveErrors' = saveErrors + 1 /\ errors' = TRUE
  <2>1. memory' \in [Scopes -> Object] /\ memory'[s] = inMemory /\ \A u \in Scopes : u # s => memory'[u] = memory[u]
    BY <1>1, <1>2, <1>4
  <2>2. errors' \in BOOLEAN /\ (s \in loadErr \/ errors')
    BY <1>1, <1>4
  <2>3. /\ saveErrors' \in 0..MaxSaveErrors /\ saveErrors' >= saveErrors
        /\ s \in loadErr \/ ~disk[s].ok \/ saveErrors' = saveErrors + 1
    BY <1>1, <1>4, SettingsAssumption
  <2>. QED  BY <2>1, <2>2, <2>3, <1>1, <1>4 DEF inMemory
<1>5. CASE /\ s \notin loadErr /\ disk[s].ok /\ disk' = [disk EXCEPT ![s].data = written]
           /\ memory' = [memory EXCEPT ![s] = written] /\ merged' = Merge(memory'["global"], memory'["project"])
           /\ UNCHANGED <<errors, saveErrors>>
  <2>1. memory' \in [Scopes -> Object] /\ memory'[s] = written /\ \A u \in Scopes : u # s => memory'[u] = memory[u]
    BY <1>1, <1>2, <1>5
  <2>2. /\ disk'[s] = [disk[s] EXCEPT !.data = written] /\ \A u \in Scopes : u # s => disk'[u] = disk[u]
        /\ DOMAIN disk' = Scopes /\ disk' = [u \in Scopes |-> disk'[u]]
    BY <1>1, <1>5
  <2>3. disk'[s] \in File /\ disk'[s].ok /\ disk'[s].data = written
    BY <2>2, <1>1, <1>2, <1>5 DEF File
  <2>4. disk' \in [Scopes -> File]
    BY <2>2, <2>3, <1>1
  <2>. QED  BY <2>1, <2>2, <2>3, <2>4, <1>1, <1>5 DEF written
<1>. QED  BY <1>3, <1>4, <1>5 DEF Set, inMemory, written

LEMMA SetInv ==
  ASSUME SettingsInv, NEW s \in Scopes, NEW path \in Paths, NEW v \in Options, Set(s, path, v)
  PROVE  SettingsInv'
<1>1. LET inMemory == With(memory[s], path, v)
          written == With(disk[s].data, path, v)
      IN /\ memory' \in [Scopes -> Object] /\ merged' = Merge(memory'["global"], memory'["project"])
         /\ \A u \in Scopes : u # s => memory'[u] = memory[u] /\ disk'[u] = disk[u]
         /\ disk' \in [Scopes -> File] /\ errors' \in BOOLEAN
         /\ \/ /\ memory'[s] = inMemory /\ disk' = disk
               /\ s \in loadErr \/ ~disk[s].ok \/ saveErrors' = saveErrors + 1
            \/ /\ s \notin loadErr /\ disk[s].ok /\ memory'[s] = written
               /\ disk'[s].ok /\ disk'[s].data = written
         /\ saveErrors' \in 0..MaxSaveErrors /\ saveErrors' >= saveErrors
  BY SetOutcome
<1>2. /\ changes < MaxChanges /\ changes' = changes + 1
      /\ wanted' = [wanted EXCEPT ![s] = With(wanted[s], path, v)] /\ UNCHANGED <<loadErr, edits>>
  BY DEF Set
<1>3. /\ wanted \in [Scopes -> Object] /\ memory[s] \in Object /\ disk[s].data \in Object
      /\ v \in Values /\ saveErrors \in Nat
  BY DEF SettingsInv, SettingsTypeOK, File, Values
<1>4. /\ With(memory[s], path, v)[path] = v /\ With(disk[s].data, path, v)[path] = v
      /\ With(wanted[s], path, v)[path] = v /\ With(wanted[s], path, v) \in Object
      /\ \A p \in Paths : p # path => /\ With(memory[s], path, v)[p] = memory[s][p]
                                     /\ With(disk[s].data, path, v)[p] = disk[s].data[p]
                                     /\ With(wanted[s], path, v)[p] = wanted[s][p]
  BY <1>3, WithTypes
<1>5. /\ wanted' \in [Scopes -> Object] /\ wanted'[s] = With(wanted[s], path, v)
      /\ \A u \in Scopes : u # s => wanted'[u] = wanted[u]
  BY <1>2, <1>3, <1>4
<1>6. SettingsTypeOK'
  <2>1. merged' \in Object
    BY <1>1, MergeTypes DEF Scopes
  <2>2. changes' \in 0..MaxChanges
    BY <1>2, SettingsAssumption DEF SettingsInv, SettingsTypeOK
  <2>. QED  BY <2>1, <2>2, <1>1, <1>2, <1>5 DEF SettingsInv, SettingsTypeOK
<1>7. Wanted'
  <2> SUFFICES ASSUME saveErrors' = 0 /\ edits' = 0, NEW u \in Scopes
               PROVE  /\ u \in loadErr' <=> ~disk'[u].ok
                      /\ \A p \in Paths : wanted'[u][p] # Unset =>
                             /\ memory'[u][p] = wanted'[u][p]
                             /\ u \notin loadErr' => disk'[u].data[p] = wanted'[u][p]
    BY DEF Wanted
  <2>1. /\ saveErrors = 0 /\ saveErrors' # saveErrors + 1
        /\ \A t \in Scopes : /\ t \in loadErr <=> ~disk[t].ok
                           /\ \A p \in Paths : wanted[t][p] # Unset =>
                                 /\ memory[t][p] = wanted[t][p]
                                 /\ t \notin loadErr => disk[t].data[p] = wanted[t][p]
    BY <1>1, <1>2, <1>3 DEF SettingsInv, Wanted
  <2>2. CASE u # s
    BY <2>1, <2>2, <1>1, <1>2, <1>5
  <2>3. CASE u = s
    <3>1. u \in loadErr' <=> ~disk'[u].ok
      BY <2>1, <2>3, <1>1, <1>2
    <3>2. ASSUME NEW p \in Paths, wanted'[u][p] # Unset
          PROVE  /\ memory'[u][p] = wanted'[u][p]
                 /\ u \notin loadErr' => disk'[u].data[p] = wanted'[u][p]
      <4>1. CASE p = path
        BY <4>1, <2>1, <2>3, <1>1, <1>2, <1>4, <1>5
      <4>2. CASE p # path
        BY <4>2, <3>2, <2>1, <2>3, <1>1, <1>2, <1>4, <1>5
      <4>. QED  BY <4>1, <4>2
    <3>. QED  BY <3>1, <3>2
  <2>. QED  BY <2>2, <2>3
<1>. QED  BY <1>1, <1>6, <1>7 DEF SettingsInv

LEMMA ReloadInv ==
  ASSUME SettingsInv, Reload
  PROVE  SettingsInv'
<1>1. /\ memory' = [s \in Scopes |-> IF disk[s].ok THEN disk[s].data ELSE memory[s]]
      /\ merged' = Merge(memory'["global"], memory'["project"])
      /\ loadErr' = {s \in Scopes : ~disk[s].ok}
      /\ errors' \in BOOLEAN
      /\ wanted' = [s \in Scopes |-> IF disk[s].ok THEN NoSettings ELSE wanted[s]]
      /\ UNCHANGED <<disk, edits, changes, saveErrors>>
  BY DEF Reload, settingsBounds, SettingsInv, SettingsTypeOK
<1>2. memory' \in [Scopes -> Object] /\ wanted' \in [Scopes -> Object] /\ loadErr' \subseteq Scopes
  BY <1>1, NoSettingsTypes DEF SettingsInv, SettingsTypeOK, File
<1>3. merged' \in Object
  BY <1>1, <1>2, MergeTypes DEF Scopes
<1>4. SettingsTypeOK'
  BY <1>1, <1>2, <1>3 DEF SettingsInv, SettingsTypeOK
<1>5. Wanted'
  BY <1>1, NoSettingsTypes DEF SettingsInv, Wanted
<1>. QED  BY <1>1, <1>4, <1>5 DEF SettingsInv

LEMMA EditInv ==
  ASSUME SettingsInv, NEW s \in Scopes, Edit(s)
  PROVE  SettingsInv'
<1>1. /\ edits < MaxEdits /\ edits' = edits + 1
      /\ UNCHANGED <<memory, merged, loadErr, errors, wanted, changes, saveErrors>>
  BY DEF Edit
<1>2. disk \in [Scopes -> File] /\ edits \in 0..MaxEdits
  BY DEF SettingsInv, SettingsTypeOK
<1>3. disk' \in [Scopes -> File]
  <2>1. PICK f : disk' = [disk EXCEPT ![s] = f] /\ f \in File
    <3>1. CASE disk' = [disk EXCEPT ![s].ok = ~@]
      <4> DEFINE f == [disk[s] EXCEPT !.ok = ~disk[s].ok]
      <4>1. f \in File
        BY <1>2 DEF File
      <4>2. disk' = [disk EXCEPT ![s] = f]
        BY <3>1
      <4>. QED  BY <4>1, <4>2
    <3>2. CASE \E p \in Paths, v \in Values :
                  disk' = [disk EXCEPT ![s] = [ok |-> TRUE, data |-> With(@.data, p, v)]]
      <4>1. PICK p \in Paths, v \in Values :
                  disk' = [disk EXCEPT ![s] = [ok |-> TRUE, data |-> With(@.data, p, v)]]
        BY <3>2
      <4> DEFINE object == With(disk[s].data, p, v)
                 f == [ok |-> TRUE, data |-> object]
      <4>2. disk[s].data \in Object
        BY <1>2 DEF File
      <4>3. object \in Object
        BY <4>2, WithTypes
      <4>4. disk' = [disk EXCEPT ![s] = f]
        BY <4>1
      <4>. HIDE DEF object
      <4>5. f \in File
        BY <4>3 DEF File
      <4>. QED  BY <4>4, <4>5
    <3>. QED  BY <3>1, <3>2 DEF Edit
  <2>. QED  BY <2>1, <1>2
<1>4. edits' # 0 /\ edits' \in 0..MaxEdits
  BY <1>1, <1>2, SettingsAssumption
<1>5. SettingsTypeOK' /\ Wanted'
  BY <1>1, <1>3, <1>4 DEF SettingsInv, SettingsTypeOK, Wanted
<1>. QED  BY <1>1, <1>5 DEF SettingsInv

LEMMA SettingsInvStep == SettingsInv /\ [SettingsNext]_settingsVars => SettingsInv'
<1> SUFFICES ASSUME SettingsInv, [SettingsNext]_settingsVars
             PROVE  SettingsInv'
  OBVIOUS
<1>1. CASE UNCHANGED settingsVars
  BY <1>1 DEF settingsVars, SettingsInv, SettingsTypeOK, Wanted
<1>2. CASE DrainErrors
  BY <1>2 DEF DrainErrors, settingsBounds, SettingsInv, SettingsTypeOK, Wanted
<1>. QED  BY <1>1, <1>2, SetInv, ReloadInv, EditInv DEF SettingsNext

LEMMA SettingsInvariant == SettingsSpec => []SettingsInv
  BY SettingsInitInv, SettingsInvStep, PTL DEF SettingsSpec

LEMMA CorruptKeptBySet ==
  ASSUME SettingsInv, NEW t \in Scopes, NEW path \in Paths, NEW v \in Options, Set(t, path, v)
  PROVE  CorruptKept
<1>1. /\ \A u \in Scopes : u # t => memory'[u] = memory[u] /\ disk'[u] = disk[u]
      /\ \/ disk' = disk /\ (t \in loadErr \/ errors')
         \/ disk[t].ok /\ disk'[t].data = memory'[t]
  BY SetOutcome
<1>2. UNCHANGED loadErr
  BY DEF Set
<1>. QED  BY <1>1, <1>2 DEF CorruptKept

LEMMA CorruptKeptByAll == SettingsInv /\ [SettingsNext]_settingsVars => CorruptKept
<1> SUFFICES ASSUME SettingsInv, [SettingsNext]_settingsVars
             PROVE  CorruptKept
  OBVIOUS
<1>1. CASE UNCHANGED settingsVars \/ Reload \/ DrainErrors
  BY <1>1 DEF settingsVars, Reload, DrainErrors, settingsBounds, CorruptKept
<1>2. ASSUME NEW s \in Scopes, Edit(s) PROVE CorruptKept
  <2>1. edits' # edits /\ changes' = changes
    BY <1>2 DEF Edit, SettingsInv, SettingsTypeOK
  <2>. QED  BY <2>1 DEF CorruptKept
<1>. QED  BY <1>1, <1>2, CorruptKeptBySet DEF SettingsNext

\* What is set stays set, whatever else is set meanwhile, as long as no write failed and
\* nobody else wrote; and a file that cannot be parsed is never overwritten (Manager.Set,
\* Reload, persist).
THEOREM SettingsKept == SettingsSpec => SettingsSafe
<1>1. SettingsInv => SettingsStay
  <2> SUFFICES ASSUME SettingsInv, saveErrors = 0 /\ edits = 0, NEW s \in Scopes, NEW p \in Paths,
                      wanted[s][p] # Unset
               PROVE  /\ memory[s][p] = wanted[s][p]
                      /\ s \notin loadErr => disk[s].data[p] = wanted[s][p]
                      /\ s = "project" => merged[p] = wanted[s][p]
    BY DEF SettingsStay
  <2>1. memory[s][p] = wanted[s][p] /\ (s \notin loadErr => disk[s].data[p] = wanted[s][p])
    BY DEF SettingsInv, Wanted
  <2>. QED  BY <2>1 DEF SettingsInv, Merge
<1>2. SettingsInv /\ SettingsInv' /\ [SettingsNext]_settingsVars => [SettingsStay' /\ CorruptKept]_settingsVars
  <2>1. SettingsInv' => SettingsStay'
    BY <1>1, PTL
  <2>. QED  BY <2>1, CorruptKeptByAll
<1>. QED  BY <1>2, SettingsInvariant, PTL DEF SettingsSpec, SettingsSafe

(***************************************************************************)
(* Catalogue: what the operators that build it return, and the invariant.  *)
(***************************************************************************)

\* Copies and merges of configurations are configurations, and keep the key.
LEMMA AdaptedTypes ==
  ASSUME NEW cfg \in Configs
  PROVE  Adapted(cfg) \in Configs /\ Adapted(cfg).key = cfg.key
<1> DEFINE defs == IF cfg.models = Absent THEN Absent
                   ELSE {[def EXCEPT !.input = Unknown(def.input)] : def \in cfg.models}
           over == IF cfg.overrides = Absent THEN Absent
                   ELSE [id \in DOMAIN cfg.overrides |-> Unknown(cfg.overrides[id])]
<1>1. \A input \in Inputs \cup {Absent} : Unknown(input) \in Inputs \cup {Absent}
  BY DEF Unknown
<1>2. defs \in (SUBSET Definitions) \cup {Absent}
  <2>1. CASE cfg.models = Absent
    BY <2>1
  <2>2. CASE cfg.models # Absent
    <3>1. cfg.models \subseteq Definitions
      BY <2>2 DEF Configs
    <3>2. \A def \in cfg.models : [def EXCEPT !.input = Unknown(def.input)] \in Definitions
      BY <3>1, <1>1 DEF Definitions
    <3>3. defs \subseteq Definitions
      BY <2>2, <3>2
    <3>. QED  BY <3>3
  <2>. QED  BY <2>1, <2>2
<1>3. over \in Overrides \cup {Absent}
  <2>1. CASE cfg.overrides = Absent
    BY <2>1
  <2>2. CASE cfg.overrides # Absent
    <3>1. PICK named \in SUBSET Ids : cfg.overrides \in [named -> Inputs \cup {Absent}]
      BY <2>2 DEF Configs, Overrides
    <3>2. over \in [named -> Inputs \cup {Absent}]
      BY <2>2, <3>1, <1>1
    <3>. QED  BY <3>2 DEF Overrides
  <2>. QED  BY <2>1, <2>2
<1>4. Adapted(cfg) = [address |-> cfg.address, key |-> cfg.key, models |-> defs, overrides |-> over]
  BY DEF Adapted
<1>. QED  BY <1>2, <1>3, <1>4 DEF Configs

LEMMA CopiedTypes ==
  ASSUME NEW cfg \in Configs
  PROVE  Copied(cfg) \in Configs /\ Copied(cfg).key = cfg.key
<1> DEFINE defs == IF cfg.models = Absent THEN Absent
                   ELSE {[def EXCEPT !.input = Known(def.input)] : def \in cfg.models}
           over == IF cfg.overrides = Absent THEN Absent
                   ELSE [id \in DOMAIN cfg.overrides |-> Known(cfg.overrides[id])]
<1>1. \A input \in Inputs \cup {Absent} : Known(input) \in Inputs \cup {Absent}
  BY DEF Known, Given, Inputs
<1>2. defs \in (SUBSET Definitions) \cup {Absent}
  <2>1. CASE cfg.models = Absent
    BY <2>1
  <2>2. CASE cfg.models # Absent
    <3>1. cfg.models \subseteq Definitions
      BY <2>2 DEF Configs
    <3>2. \A def \in cfg.models : [def EXCEPT !.input = Known(def.input)] \in Definitions
      BY <3>1, <1>1 DEF Definitions
    <3>3. defs \subseteq Definitions
      BY <2>2, <3>2
    <3>. QED  BY <3>3
  <2>. QED  BY <2>1, <2>2
<1>3. over \in Overrides \cup {Absent}
  <2>1. CASE cfg.overrides = Absent
    BY <2>1
  <2>2. CASE cfg.overrides # Absent
    <3>1. PICK named \in SUBSET Ids : cfg.overrides \in [named -> Inputs \cup {Absent}]
      BY <2>2 DEF Configs, Overrides
    <3>2. over \in [named -> Inputs \cup {Absent}]
      BY <2>2, <3>1, <1>1
    <3>. QED  BY <3>2 DEF Overrides
  <2>. QED  BY <2>1, <2>2
<1>4. Copied(cfg) = [address |-> cfg.address, key |-> cfg.key, models |-> defs, overrides |-> over]
  BY DEF Copied
<1>. QED  BY <1>2, <1>3, <1>4 DEF Configs

LEMMA MergedTypes ==
  ASSUME NEW old \in Configs, NEW new \in Configs
  PROVE  Merged(old, new) \in Configs /\ Merged(old, new).key = Given(new.key, old.key)
  BY DEF Merged, Given, Configs

LEMMA NoConfigTypes == NoConfig \in Configs /\ NoConfig.key = Absent /\ ~Lists(NoConfig)
  BY DEF NoConfig, Configs, Lists

\* A model that a provider lists is a model of that provider, with an address.
LEMMA CustomTypes ==
  ASSUME NEW cfgs \in [Vendors -> Configs], ~Fails(cfgs),
         NEW v \in Vendors, Lists(cfgs[v]), NEW def \in cfgs[v].models
  PROVE  Custom(v, cfgs[v], def) \in ListedModels /\ Custom(v, cfgs[v], def).vendor = v
<1>1. def \in Definitions
  BY DEF Configs, Lists
<1>2. DefaultAddress(v) \in Addresses \cup {Absent}
  BY CatalogueAssumption DEF DefaultAddress, ListedModels
<1>3. Address(v, cfgs[v], def) \in Addresses \cup {Absent}
  BY <1>1, <1>2 DEF Address, Given, Definitions, Configs
<1>4. Address(v, cfgs[v], def) \in Addresses
  BY <1>3 DEF Fails
<1>5. Given(def.input, {"text"}) \in Inputs
  BY <1>1 DEF Given, Definitions, Inputs, Capabilities
<1>. QED  BY <1>1, <1>4, <1>5 DEF Custom, ListedModels, Definitions

LEMMA OverriddenTypes ==
  ASSUME NEW m \in ListedModels, NEW cfg \in Configs
  PROVE  /\ Overridden(m, cfg) \in ListedModels /\ Overridden(m, cfg).vendor = m.vendor
         /\ cfg = NoConfig => Overridden(m, cfg) = m
<1> DEFINE input == IF cfg.overrides # Absent /\ m.id \in DOMAIN cfg.overrides
                    THEN Given(cfg.overrides[m.id], m.input) ELSE m.input
<1>1. Given(cfg.address, m.address) \in Addresses
  BY DEF Given, Configs, ListedModels
<1>2. input \in Inputs
  <2>1. CASE cfg.overrides # Absent /\ m.id \in DOMAIN cfg.overrides
    <3>1. PICK named \in SUBSET Ids : cfg.overrides \in [named -> Inputs \cup {Absent}]
      BY <2>1 DEF Configs, Overrides
    <3>2. cfg.overrides[m.id] \in Inputs \cup {Absent}
      BY <2>1, <3>1
    <3>. QED  BY <2>1, <3>2 DEF Given, ListedModels
  <2>. QED  BY <2>1 DEF ListedModels
<1>3. Overridden(m, cfg) = [vendor |-> m.vendor, id |-> m.id,
                            address |-> Given(cfg.address, m.address), input |-> input]
  BY DEF Overridden
<1>4. cfg = NoConfig => Given(cfg.address, m.address) = m.address /\ input = m.input
  BY DEF NoConfig, Given
<1>5. m = [vendor |-> m.vendor, id |-> m.id, address |-> m.address, input |-> m.input]
  BY DEF ListedModels
<1>6. cfg = NoConfig => Overridden(m, cfg) = m
  BY <1>3, <1>4, <1>5
<1>. QED  BY <1>1, <1>2, <1>3, <1>6 DEF ListedModels

\* Laying configurations over a catalogue gives a catalogue, and leaves the models of a
\* provider alone that nothing is said of.
LEMMA AppliedTypes ==
  ASSUME NEW ms \in SUBSET ListedModels, NEW cfgs \in [Vendors -> Configs], ~Fails(cfgs)
  PROVE  /\ Applied(ms, cfgs) \subseteq ListedModels
         /\ \A v \in Vendors : cfgs[v] = NoConfig =>
               \A m : m.vendor = v => (m \in Applied(ms, cfgs) <=> m \in ms)
<1> DEFINE Stay == {k \in ms : ~Lists(cfgs[k.vendor])}
           Old == {Overridden(m, cfgs[m.vendor]) : m \in Stay}
           New == UNION {{Custom(v, cfgs[v], def) : def \in cfgs[v].models} :
                           v \in {u \in Vendors : Lists(cfgs[u])}}
<1>1. \A m \in ms : m \in ListedModels /\ m.vendor \in Vendors /\ cfgs[m.vendor] \in Configs
  BY DEF ListedModels
<1>2. \A m \in ms : /\ Overridden(m, cfgs[m.vendor]) \in ListedModels
                    /\ Overridden(m, cfgs[m.vendor]).vendor = m.vendor
                    /\ cfgs[m.vendor] = NoConfig => Overridden(m, cfgs[m.vendor]) = m
  BY <1>1, OverriddenTypes
<1>3. \A n \in New : n \in ListedModels /\ n.vendor \in Vendors /\ Lists(cfgs[n.vendor])
  <2> SUFFICES ASSUME NEW n \in New
               PROVE  n \in ListedModels /\ n.vendor \in Vendors /\ Lists(cfgs[n.vendor])
    OBVIOUS
  <2>1. PICK v \in {u \in Vendors : Lists(cfgs[u])} :
            n \in {Custom(v, cfgs[v], def) : def \in cfgs[v].models}
    OBVIOUS
  <2>2. PICK def \in cfgs[v].models : n = Custom(v, cfgs[v], def)
    BY <2>1
  <2>. QED  BY <2>1, <2>2, CustomTypes
<1>4. Applied(ms, cfgs) = Old \cup New
  BY DEF Applied
<1>5. Old \subseteq ListedModels
  BY <1>2
<1>6. ASSUME NEW v \in Vendors, cfgs[v] = NoConfig, NEW m, m.vendor = v
      PROVE  m \in Old \cup New <=> m \in ms
  <2>1. m \notin New
    BY <1>3, <1>6, NoConfigTypes
  <2>2. m \in Old => m \in ms
    <3> SUFFICES ASSUME m \in Old
                 PROVE  m \in ms
      OBVIOUS
    <3>1. PICK k \in Stay : m = Overridden(k, cfgs[k.vendor])
      OBVIOUS
    <3>2. k.vendor = v
      BY <3>1, <1>2, <1>6
    <3>. QED  BY <3>1, <3>2, <1>2, <1>6
  <2>3. m \in ms => m \in Old
    <3> SUFFICES ASSUME m \in ms
                 PROVE  m \in Old
      OBVIOUS
    <3>1. m \in Stay
      BY <1>6, NoConfigTypes
    <3>2. m = Overridden(m, cfgs[m.vendor])
      BY <1>2, <1>6
    <3>. QED  BY <3>1, <3>2
  <2>. QED  BY <2>1, <2>2, <2>3
<1>. QED  BY <1>3, <1>4, <1>5, <1>6

LEMMA BuildTypes ==
  ASSUME NEW c \in [Vendors -> Configs], NEW r \in [Vendors -> Configs]
  PROVE  /\ BuildKeys(c, r) \in [Vendors -> Tokens \cup {Absent}]
         /\ \A v \in Vendors : BuildKeys(c, r)[v] = Given(r[v].key, c[v].key)
         /\ ~BuildFails(c, r) =>
              /\ BuildModels(c, r) \subseteq ListedModels
              /\ \A v \in Vendors : c[v] = NoConfig /\ r[v] = NoConfig =>
                    {m \in BuildModels(c, r) : m.vendor = v} = {m \in Builtin : m.vendor = v}
<1>1. \A v \in Vendors : c[v].key \in Tokens \cup {Absent} /\ r[v].key \in Tokens \cup {Absent}
  BY DEF Configs
<1>2. BuildKeys(c, r) = [v \in Vendors |-> Given(r[v].key, c[v].key)]
  BY DEF BuildKeys, Keyed, NoKeys, Given
<1>3. ASSUME ~BuildFails(c, r)
      PROVE  /\ BuildModels(c, r) \subseteq ListedModels
             /\ \A v \in Vendors : c[v] = NoConfig /\ r[v] = NoConfig =>
                   {m \in BuildModels(c, r) : m.vendor = v} = {m \in Builtin : m.vendor = v}
  <2> DEFINE first == Applied(Builtin, c)
  <2>1. ~Fails(c) /\ ~Fails(r)
    BY <1>3 DEF BuildFails
  <2>2. Builtin \in SUBSET ListedModels
    BY CatalogueAssumption
  <2>3. /\ first \subseteq ListedModels
        /\ \A v \in Vendors : c[v] = NoConfig =>
              \A m : m.vendor = v => (m \in first <=> m \in Builtin)
    BY <2>1, <2>2, AppliedTypes
  <2> HIDE DEF first
  <2>4. /\ Applied(first, r) \subseteq ListedModels
        /\ \A v \in Vendors : r[v] = NoConfig =>
              \A m : m.vendor = v => (m \in Applied(first, r) <=> m \in first)
    BY <2>1, <2>3, AppliedTypes
  <2>5. BuildModels(c, r) = Applied(first, r)
    BY DEF BuildModels, first
  <2>. QED  BY <2>3, <2>4, <2>5
<1>. QED  BY <1>1, <1>2, <1>3 DEF Given

\* What is registered can be built on its own, so that the catalogue fails to build only
\* because of models.json; and the keys that were registered are those that are kept.
CatalogueInv ==
    /\ CatalogueTypeOK /\ Derived
    /\ ~Fails(registered)
    /\ buildErr <=> Fails(config)
    /\ \A v \in Vendors : registered[v].key = given[v]

LEMMA CatalogueInitInv == CatalogueInit => CatalogueInv
<1> SUFFICES ASSUME CatalogueInit
             PROVE  CatalogueInv
  OBVIOUS
<1>1. NoConfigs \in [Vendors -> Configs] /\ ~Fails(NoConfigs)
  BY NoConfigTypes DEF NoConfigs, Fails
<1>2. NoKeys \in [Vendors -> Tokens \cup {Absent}]
  BY DEF NoKeys
<1>3. BuildModels(NoConfigs, NoConfigs) = Builtin
  <2>1. \A m \in ListedModels : ~Lists(NoConfigs[m.vendor]) /\ Overridden(m, NoConfigs[m.vendor]) = m
    BY NoConfigTypes, OverriddenTypes DEF NoConfigs, ListedModels
  <2>2. {u \in Vendors : Lists(NoConfigs[u])} = {}
    BY NoConfigTypes DEF NoConfigs
  <2>3. Applied(Builtin, NoConfigs) = Builtin
    BY <2>1, <2>2, CatalogueAssumption DEF Applied
  <2>. QED  BY <2>3 DEF BuildModels
<1>4. BuildKeys(NoConfigs, NoConfigs) = NoKeys
  BY DEF BuildKeys, Keyed, NoKeys, NoConfigs, NoConfig, Given
<1>5. Derived
  BY <1>3, <1>4 DEF CatalogueInit, Derived
<1>6. CatalogueTypeOK
  <2>1. models \subseteq ListedModels /\ buildErr \in BOOLEAN
    BY CatalogueAssumption DEF CatalogueInit
  <2>2. offers \in 0..MaxOffers
    BY CatalogueAssumption DEF CatalogueInit
  <2>3. /\ config \in [Vendors -> Configs] /\ registered \in [Vendors -> Configs]
        /\ keys \in [Vendors -> Tokens \cup {Absent}] /\ given \in [Vendors -> Tokens \cup {Absent}]
    BY <1>1, <1>2 DEF CatalogueInit
  <2>. QED  BY <2>1, <2>2, <2>3 DEF CatalogueTypeOK
<1>7. \A v \in Vendors : registered[v].key = given[v]
  BY DEF CatalogueInit, NoConfigs, NoKeys, NoConfig
<1>. QED  BY <1>1, <1>5, <1>6, <1>7 DEF CatalogueInv, CatalogueInit

LEMMA ApplyingKeeps ==
  ASSUME CatalogueTypeOK, NEW c \in [Vendors -> Configs], NEW r \in [Vendors -> Configs],
         ~Fails(r), Applying(c, r), Offer,
         given' \in [Vendors -> Tokens \cup {Absent}], \A v \in Vendors : r[v].key = given'[v]
  PROVE  CatalogueInv'
<1>1. config' = c /\ registered' = r /\ buildErr' = BuildFails(c, r)
  BY DEF Applying
<1>2. offers' \in 0..MaxOffers
  BY CatalogueAssumption DEF CatalogueTypeOK, Offer
<1>3. BuildFails(c, r) \in BOOLEAN
  BY DEF BuildFails, Fails
<1>4. /\ BuildKeys(c, r) \in [Vendors -> Tokens \cup {Absent}]
      /\ ~BuildFails(c, r) => BuildModels(c, r) \subseteq ListedModels
  BY BuildTypes
<1>5. NoKeys \in [Vendors -> Tokens \cup {Absent}] /\ Builtin \subseteq ListedModels
  BY CatalogueAssumption DEF NoKeys
<1>6. models' \subseteq ListedModels /\ keys' \in [Vendors -> Tokens \cup {Absent}]
  BY <1>4, <1>5 DEF Applying
<1>7. CatalogueTypeOK'
  BY <1>1, <1>2, <1>3, <1>6 DEF CatalogueTypeOK
<1>8. Derived'
  BY <1>1 DEF Derived, Applying
<1>9. buildErr' <=> Fails(config')
  BY <1>1 DEF BuildFails
<1>. QED  BY <1>1, <1>7, <1>8, <1>9 DEF CatalogueInv

LEMMA RegisteringKeeps ==
  ASSUME CatalogueInv, NEW r \in [Vendors -> Configs], Registering(r), Offer,
         UNCHANGED <<config, buildErr>>,
         given' \in [Vendors -> Tokens \cup {Absent}], \A v \in Vendors : r[v].key = given'[v]
  PROVE  CatalogueInv'
<1>1. ~Fails(config) /\ ~Fails(r) /\ ~buildErr
  BY DEF Registering, BuildFails, CatalogueInv
<1>2. offers' \in 0..MaxOffers
  BY CatalogueAssumption DEF CatalogueInv, CatalogueTypeOK, Offer
<1>3. config \in [Vendors -> Configs] /\ buildErr \in BOOLEAN
  BY DEF CatalogueInv, CatalogueTypeOK
<1>4. /\ BuildKeys(config, r) \in [Vendors -> Tokens \cup {Absent}]
      /\ BuildModels(config, r) \subseteq ListedModels
  BY <1>3, BuildTypes DEF Registering
<1>5. CatalogueTypeOK'
  BY <1>2, <1>3, <1>4 DEF CatalogueTypeOK, Registering
<1>6. Derived'
  BY <1>1 DEF Derived, Registering
<1>. QED  BY <1>1, <1>5, <1>6 DEF CatalogueInv, Registering

LEMMA RefusedKeeps ==
  ASSUME CatalogueInv, Offer, UNCHANGED <<config, registered, models, keys, buildErr, given>>
  PROVE  CatalogueInv'
<1>1. offers' \in 0..MaxOffers
  BY CatalogueAssumption DEF CatalogueInv, CatalogueTypeOK, Offer
<1>2. CatalogueTypeOK'
  BY <1>1 DEF CatalogueInv, CatalogueTypeOK
<1>3. Derived'
  BY DEF CatalogueInv, Derived
<1>. QED  BY <1>2, <1>3 DEF CatalogueInv

LEMMA CatalogueInvStep == CatalogueInv /\ [CatalogueNext]_catalogueVars => CatalogueInv'
<1> SUFFICES ASSUME CatalogueInv, [CatalogueNext]_catalogueVars
             PROVE  CatalogueInv'
  OBVIOUS
<1>1. /\ config \in [Vendors -> Configs] /\ registered \in [Vendors -> Configs]
      /\ given \in [Vendors -> Tokens \cup {Absent}] /\ CatalogueTypeOK
      /\ \A v \in Vendors : registered[v].key = given[v]
  BY DEF CatalogueInv, CatalogueTypeOK
<1>2. \A offer \in Offers : offer \in Configs /\ offer.key \in Tokens \cup {Absent}
  BY CatalogueAssumption DEF Configs
<1>3. ASSUME NEW v \in Vendors, NEW offer \in Offers, ApplyConfig(v, offer)
      PROVE  CatalogueInv'
  <2>1. [NoConfigs EXCEPT ![v] = offer] \in [Vendors -> Configs]
    BY <1>2, NoConfigTypes DEF NoConfigs
  <2>2. /\ Applying([NoConfigs EXCEPT ![v] = offer], registered)
        /\ Offer /\ given' = given /\ ~Fails(registered)
    BY <1>3 DEF ApplyConfig, CatalogueInv
  <2>. QED  BY <1>1, <2>1, <2>2, ApplyingKeeps
<1>4. ASSUME NEW v \in Vendors, NEW offer \in Offers, RegisterProvider(v, offer)
      PROVE  CatalogueInv'
  <2> DEFINE cfg == Merged(registered[v], Copied(Adapted(offer)))
             next == [registered EXCEPT ![v] = cfg]
  <2>1. Copied(Adapted(offer)) \in Configs /\ Copied(Adapted(offer)).key = offer.key
    BY <1>2, AdaptedTypes, CopiedTypes
  <2>2. cfg \in Configs /\ cfg.key = Given(offer.key, given[v])
    BY <1>1, <2>1, MergedTypes
  <2> HIDE DEF cfg
  <2>3. next \in [Vendors -> Configs]
    BY <1>1, <2>2
  <2>4. CASE Registering(next) /\ given' = [given EXCEPT ![v] = Given(offer.key, @)]
    <3>1. given' \in [Vendors -> Tokens \cup {Absent}]
      BY <1>1, <1>2, <2>4 DEF Given
    <3>2. \A u \in Vendors : next[u].key = given'[u]
      BY <1>1, <2>2, <2>4
    <3>3. Offer /\ UNCHANGED <<config, buildErr>>
      BY <1>4 DEF RegisterProvider
    <3> HIDE DEF next
    <3>. QED  BY <2>3, <2>4, <3>1, <3>2, <3>3, RegisteringKeeps
  <2>5. CASE UNCHANGED <<registered, models, keys, given>>
    BY <1>4, <2>5, RefusedKeeps DEF RegisterProvider
  <2>. QED  BY <1>4, <2>4, <2>5 DEF RegisterProvider, cfg
<1>5. ASSUME NEW v \in Vendors, UnregisterProvider(v)
      PROVE  CatalogueInv'
  <2> DEFINE next == [registered EXCEPT ![v] = NoConfig]
  <2>1. next \in [Vendors -> Configs]
    BY <1>1, NoConfigTypes
  <2>2. CASE Registering(next) /\ given' = [given EXCEPT ![v] = Absent]
    <3>1. given' \in [Vendors -> Tokens \cup {Absent}]
      BY <1>1, <2>2
    <3>2. \A u \in Vendors : next[u].key = given'[u]
      BY <1>1, <2>2, NoConfigTypes
    <3>3. Offer /\ UNCHANGED <<config, buildErr>>
      BY <1>5 DEF UnregisterProvider
    <3> HIDE DEF next
    <3>. QED  BY <2>1, <2>2, <3>1, <3>2, <3>3, RegisteringKeeps
  <2>3. CASE UNCHANGED <<registered, models, keys, given>>
    BY <1>5, <2>3, RefusedKeeps DEF UnregisterProvider
  <2>. QED  BY <1>5, <2>2, <2>3 DEF UnregisterProvider
<1>6. ASSUME CloneBase
      PROVE  CatalogueInv'
  <2>1. [v \in Vendors |-> Copied(config[v])] \in [Vendors -> Configs]
    BY <1>1, CopiedTypes
  <2>2. NoConfigs \in [Vendors -> Configs] /\ ~Fails(NoConfigs)
    BY NoConfigTypes DEF NoConfigs, Fails
  <2>3. given' \in [Vendors -> Tokens \cup {Absent}] /\ \A v \in Vendors : NoConfigs[v].key = given'[v]
    BY <1>6, NoConfigTypes DEF CloneBase, NoKeys, NoConfigs
  <2>. QED  BY <1>1, <1>6, <2>1, <2>2, <2>3, ApplyingKeeps DEF CloneBase
<1>7. CASE UNCHANGED catalogueVars
  BY <1>7 DEF catalogueVars, CatalogueInv, CatalogueTypeOK, Derived
<1>. QED  BY <1>3, <1>4, <1>5, <1>6, <1>7 DEF CatalogueNext

\* The catalogue is what models.json and the providers registered now make of the built-in
\* models, whatever was registered, refused, taken back and cloned before; a provider nobody
\* speaks of is left alone; the key registered last counts (Registry.build).
THEOREM CatalogueKept == CatalogueSpec => []CatalogueTrue
<1>1. CatalogueInv => CatalogueTrue
  <2> SUFFICES ASSUME CatalogueInv
               PROVE  CatalogueTrue
    OBVIOUS
  <2>1. config \in [Vendors -> Configs] /\ registered \in [Vendors -> Configs] /\ Derived
    BY DEF CatalogueInv, CatalogueTypeOK
  <2>2. CASE buildErr
    BY <2>1, <2>2 DEF CatalogueTrue, Derived, OthersAsBuiltIn, LastKeyCounts
  <2>3. CASE ~buildErr
    <3>1. models = BuildModels(config, registered) /\ keys = BuildKeys(config, registered)
      BY <2>1, <2>3 DEF Derived
    <3>2. ~BuildFails(config, registered)
      BY <2>3 DEF BuildFails, CatalogueInv
    <3>3. OthersAsBuiltIn
      BY <2>1, <3>1, <3>2, BuildTypes DEF OthersAsBuiltIn
    <3>4. \A v \in Vendors : keys[v] = Given(given[v], config[v].key)
      BY <2>1, <3>1, BuildTypes DEF CatalogueInv
    <3>. QED  BY <2>1, <3>3, <3>4 DEF CatalogueTrue, LastKeyCounts
  <2>. QED  BY <2>2, <2>3
<1>. QED  BY <1>1, CatalogueInitInv, CatalogueInvStep, PTL DEF CatalogueSpec

(***************************************************************************)
(* The stores together.                                                    *)
(***************************************************************************)

StoresInv ==
    /\ part = "credentials" => CredTypes
    /\ part = "settings" => SettingsInv
    /\ part = "files" => MutationInv
    /\ part = "switching" => SwitchInv
    /\ part = "catalogue" => CatalogueInv

\* Every variable of the component that moves has its type (the types of the five
\* components, from the invariants above).
THEOREM StoresTypes == StoresSpec => []StoresTypeOK
<1>1. StoresInit => StoresInv
  BY CredTypesInit, SettingsInitInv, MutationInitInv, InitInv, CatalogueInitInv DEF StoresInit, StoresInv
<1>2. StoresInv /\ [StoresNext]_storesVars => StoresInv'
  <2> SUFFICES ASSUME StoresInv, [StoresNext]_storesVars
               PROVE  StoresInv'
    OBVIOUS
  <2>1. part' = part
    BY DEF StoresNext, storesVars
  <2>2. part = "credentials" => [CredNext]_credVars
    BY DEF StoresNext, storesVars
  <2>3. part = "settings" => [SettingsNext]_settingsVars
    BY DEF StoresNext, storesVars
  <2>4. part = "files" => [MutationNext]_mutationVars
    BY DEF StoresNext, storesVars
  <2>5. part = "switching" => [SwitchNext]_switchVars
    BY DEF StoresNext, storesVars
  <2>10. part = "catalogue" => [CatalogueNext]_catalogueVars
    BY DEF StoresNext, storesVars
  <2>6. (part = "credentials" => CredTypes)'
    BY <2>1, <2>2, CredTypesStep DEF StoresInv
  <2>7. (part = "settings" => SettingsInv)'
    BY <2>1, <2>3, SettingsInvStep DEF StoresInv
  <2>8. (part = "files" => MutationInv)'
    BY <2>1, <2>4, MutationInvStep DEF StoresInv
  <2>9. (part = "switching" => SwitchInv)'
    BY <2>1, <2>5, SwitchInvStep DEF StoresInv
  <2>11. (part = "catalogue" => CatalogueInv)'
    BY <2>1, <2>10, CatalogueInvStep DEF StoresInv
  <2>. QED  BY <2>6, <2>7, <2>8, <2>9, <2>11 DEF StoresInv
<1>3. StoresInv => StoresTypeOK
  BY DEF StoresInv, StoresTypeOK, CredTypes, SettingsInv, MutationInv, SwitchInv, TypeInv, CatalogueInv
<1>. QED  BY <1>1, <1>2, <1>3, PTL DEF StoresSpec
===============================================================================
