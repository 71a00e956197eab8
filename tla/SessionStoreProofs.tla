-------------------------- MODULE SessionStoreProofs --------------------------
(***************************************************************************)
(* Theorems about the session log, for any number of processes and any     *)
(* bounds: type correctness; the closure, the order and the durability of  *)
(* every history no write of which has failed; the walk to the root; the   *)
(* label cache; the refinement of SessionTree by a process that has the    *)
(* log to itself; and what compactions and moves within the tree keep of   *)
(* the history they take out of the model's view.                          *)
(***************************************************************************)
EXTENDS MCHistory, SequenceTheorems, NaturalsInduction, WellFoundedInduction, FiniteSetTheorems, TLAPS

Outcome == [disk : Disk, flushed : BOOLEAN, ok : BOOLEAN]

\* A line of a sequence of lines is a line, and known ids are numbers.
LEMMA KnownIdsType ==
    ASSUME NEW es \in Seq(Line)
    PROVE  KnownIds(es) \subseteq Nat
<1>1. \A i \in 1..Len(es) : es[i] \in Line
    BY ElementOfSeq
<1> QED
    BY <1>1 DEF KnownIds, Line

LEMMA GarbageType == Garbage \in Line
BY DEF Garbage, Line, NoId

LEMMA GluedType ==
    ASSUME NEW d \in Disk, NEW l \in Line, NEW t \in BOOLEAN
    PROVE  Glued(d, l, t) \in Disk
<1> USE GarbageType
<1>1. CASE ~d.torn
    BY <1>1 DEF Glued, Disk
<1>2. CASE d.torn /\ d.lines = <<>>
    BY <1>2 DEF Glued, Disk
<1>3. CASE d.torn /\ d.lines # <<>>
    <2>1. Len(d.lines) \in 1..Len(d.lines)
        BY <1>3, EmptySeq DEF Disk
    <2>2. [d.lines EXCEPT ![Len(d.lines)] = Garbage] \in Seq(Line)
        BY <2>1, ExceptSeq DEF Disk
    <2> QED
        BY <1>3, <2>2 DEF Glued, Disk
<1> QED
    BY <1>1, <1>2, <1>3

LEMMA PrefixType ==
    ASSUME NEW es \in Seq(Line), NEW k \in 0..Len(es)
    PROVE  SubSeq(es, 1, k) \in Seq(Line)
<1>1. \A i \in 1..k : es[i] \in Line
    BY ElementOfSeq, LenProperties
<1> QED
    BY <1>1, SubSeqProperties

\* Whatever a write comes to, the file is a file.
LEMMA ResultsType ==
    ASSUME NEW d \in Disk, NEW fl \in BOOLEAN, NEW es \in Seq(Line), NEW e \in Line
    PROVE  Results(d, fl, es, e) \subseteq Outcome
<1>1. AppendOk(d, e) \in Disk /\ AppendFailed(d, e) \subseteq Disk
    BY GluedType, GarbageType DEF AppendOk, AppendFailed
<1>2. EmptyDisk \in Disk /\ FlushOk(es) \in Disk
    BY DEF EmptyDisk, FlushOk, Disk
<1>3. FlushFailed(d, es) \subseteq Disk
    <2>1. ASSUME NEW k \in 0..Len(es), NEW t \in BOOLEAN
          PROVE  [header |-> TRUE, lines |-> SubSeq(es, 1, k), torn |-> t] \in Disk
        BY PrefixType DEF Disk
    <2>2. ASSUME NEW k \in 0..(Len(es) - 1)
          PROVE  [header |-> TRUE, lines |-> Append(SubSeq(es, 1, k), Garbage), torn |-> TRUE] \in Disk
        <3>1. k \in 0..Len(es)
            BY LenProperties
        <3> QED
            BY <3>1, PrefixType, GarbageType DEF Disk
    <2> QED
        BY <1>2, <2>1, <2>2 DEF FlushFailed
<1> SUFFICES ASSUME NEW r \in Results(d, fl, es, e) PROVE r \in Outcome
    OBVIOUS
<1>4. CASE fl
    <2>1. CASE r = [disk |-> AppendOk(d, e), flushed |-> TRUE, ok |-> TRUE]
        BY <1>1, <2>1 DEF Outcome
    <2>2. CASE \E x \in AppendFailed(d, e) : r = [disk |-> x, flushed |-> TRUE, ok |-> FALSE]
        BY <1>1, <2>2 DEF Outcome
    <2> QED
        BY <1>4, <2>1, <2>2 DEF Results
<1>5. CASE ~fl /\ ~HasAssistant(es)
    <2>1. r = [disk |-> d, flushed |-> FALSE, ok |-> TRUE]
        BY <1>5 DEF Results
    <2> QED
        BY <2>1 DEF Outcome
<1>6. CASE ~fl /\ HasAssistant(es)
    <2>1. CASE r = [disk |-> FlushOk(es), flushed |-> TRUE, ok |-> TRUE]
        BY <1>2, <2>1 DEF Outcome
    <2>2. CASE \E x \in FlushFailed(d, es) : r = [disk |-> x, flushed |-> FALSE, ok |-> FALSE]
        BY <1>3, <2>2 DEF Outcome
    <2> QED
        BY <1>6, <2>1, <2>2 DEF Results
<1> QED
    BY <1>4, <1>5, <1>6

\* The id of a new entry is an id, and the next UUID is counted.
LEMMA NewIdType ==
    ASSUME clock \in 1..MaxWindow, NEW u \in Nat, NEW es
    PROVE  NewId(es, u) \in Nat /\ UuidsAfter(u, NewId(es, u)) \in Nat
BY BoundsAssumption DEF NewId, UuidsAfter

\* One write keeps the type of the state.
LEMMA CommitType ==
    ASSUME TypeOK, NEW p \in Procs, NEW es \in Seq(Line), NEW e \in Line, NEW r \in Outcome,
           Commit(p, es, e, r), uuids' \in Nat, acked' \subseteq Line
    PROVE  TypeOK'
<1>1. LeafAfterEntry(e) \in Nat /\ e.target \in Nat
    BY DEF LeafAfterEntry, Line
<1>2. LabelsAfterEntry(labels[p], e) \in SUBSET Nat
    BY <1>1 DEF LabelsAfterEntry, TypeOK
<1>3. faults' \in 0..MaxFaults
    BY BoundsAssumption DEF Commit, TypeOK
<1> QED
    BY <1>1, <1>2, <1>3 DEF Commit, TypeOK, Outcome

LEMMA AppendEntryType ==
    ASSUME TypeOK, NEW p \in Procs, NEW e \in Line, AppendEntry(p, e),
           UuidsAfter(uuids, e.id) \in Nat
    PROVE  TypeOK'
<1> DEFINE es == Append(entries[p], e)
<1>1. es \in Seq(Line) /\ Len(es) \in 1..Len(es)
    <2>1. entries[p] \in Seq(Line)
        BY DEF TypeOK
    <2> QED
        BY <2>1, AppendProperties, LenProperties
<1>2. PICK r \in Results(disk, flushed[p], es, e) :
          /\ Commit(p, es, e, r)
          /\ acked' = acked \cup Written(es, flushed[p], r)
          /\ uuids' = UuidsAfter(uuids, e.id)
    BY DEF AppendEntry
<1>3. r \in Outcome
    BY <1>1, ResultsType DEF TypeOK
<1>4. Written(es, flushed[p], r) \subseteq Line
    <2>1. \A i \in 1..Len(es) : es[i] \in Line
        BY <1>1, ElementOfSeq
    <2> QED
        BY <1>1, <2>1 DEF Written
<1> QED
    BY <1>1, <1>2, <1>3, <1>4, CommitType DEF TypeOK

\* The parent and the target an operation gives its entry are ids.
LEMMA EntryType ==
    ASSUME NEW k \in EntryKinds, NEW i \in Nat, NEW p \in Nat, NEW t \in Nat
    PROVE  Entry(k, i, p, t) \in Line
BY DEF Entry, Line

LEMMA MoveToWithSummaryType ==
    ASSUME TypeOK, NEW p \in Procs, NEW t \in Nat, MoveToWithSummary(p, t)
    PROVE  TypeOK'
<1> DEFINE e1  == Entry("leaf", NewId(entries[p], uuids), leaf[p], t)
           es1 == Append(entries[p], e1)
           u1  == UuidsAfter(uuids, e1.id)
           e2  == Entry("summary", NewId(es1, u1), t, t)
           es2 == Append(es1, e2)
<1>1. e1 \in Line /\ u1 \in Nat
    <2>1. NewId(entries[p], uuids) \in Nat
        BY NewIdType DEF TypeOK
    <2>2. e1.id = NewId(entries[p], uuids)
        BY DEF Entry
    <2>3. e1 \in Line
        BY <2>1, EntryType DEF TypeOK, EntryKinds
    <2> QED
        BY <2>2, <2>3, NewIdType DEF TypeOK
<1>2. es1 \in Seq(Line) /\ Len(es1) \in 1..Len(es1)
    BY <1>1, AppendProperties, LenProperties DEF TypeOK
<1>3. e2 \in Line /\ UuidsAfter(u1, e2.id) \in Nat
    <2> HIDE DEF u1, es1
    <2>1. NewId(es1, u1) \in Nat
        BY <1>1, NewIdType DEF TypeOK
    <2>2. e2.id = NewId(es1, u1)
        BY DEF Entry
    <2>3. e2 \in Line
        BY <2>1, EntryType DEF EntryKinds
    <2> QED
        BY <1>1, <2>2, <2>3, NewIdType DEF TypeOK
<1>4. es2 \in Seq(Line) /\ Len(es2) \in 1..Len(es2)
    <2> HIDE DEF e2, es1
    <2> QED
        BY <1>2, <1>3, AppendProperties, LenProperties
<1>5. PICK r1 \in Results(disk, flushed[p], es1, e1) :
          \/ ~r1.ok /\ Commit(p, es1, e1, r1) /\ uuids' = u1 /\ UNCHANGED acked
          \/ \E r2 \in Results(r1.disk, r1.flushed, es2, e2) :
                 /\ Commit(p, es2, e2, r2)
                 /\ uuids' = UuidsAfter(u1, e2.id)
                 /\ acked' = acked \cup Written(es1, flushed[p], r1)
                                   \cup Written(es2, r1.flushed, r2)
    BY DEF MoveToWithSummary
<1> HIDE DEF e1, es1, u1, e2, es2
<1>6. r1 \in Outcome
    BY <1>1, <1>2, <1>5, ResultsType DEF TypeOK
<1>7. ASSUME NEW es \in Seq(Line), Len(es) \in 1..Len(es), NEW fl, NEW r
      PROVE  Written(es, fl, r) \subseteq Line
    <2>1. \A i \in 1..Len(es) : es[i] \in Line
        BY ElementOfSeq
    <2> QED
        BY <1>7, <2>1 DEF Written
<1>8. CASE ~r1.ok /\ Commit(p, es1, e1, r1) /\ uuids' = u1 /\ UNCHANGED acked
    BY <1>1, <1>2, <1>6, <1>8, CommitType DEF TypeOK
<1>9. ASSUME NEW r2 \in Results(r1.disk, r1.flushed, es2, e2),
             Commit(p, es2, e2, r2),
             uuids' = UuidsAfter(u1, e2.id),
             acked' = acked \cup Written(es1, flushed[p], r1) \cup Written(es2, r1.flushed, r2)
      PROVE  TypeOK'
    <2>1. r1.disk \in Disk /\ r1.flushed \in BOOLEAN
        BY <1>6 DEF Outcome
    <2>2. r2 \in Outcome
        BY <2>1, <1>3, <1>4, ResultsType
    <2>3. acked' \subseteq Line
        BY <1>2, <1>4, <1>7, <1>9 DEF TypeOK
    <2> QED
        BY <1>3, <1>4, <1>9, <2>2, <2>3, CommitType
<1> QED
    BY <1>5, <1>8, <1>9

LEMMA RecoveredType ==
    ASSUME NEW ls \in Seq(Line)
    PROVE  RecoveredLeaf(ls) \in Nat /\ Labelled(ls) \subseteq Nat
<1>1. \A i \in 1..Len(ls) : ls[i] \in Line
    BY ElementOfSeq
<1>2. Labelled(ls) \subseteq Nat
    BY <1>1 DEF Labelled, Line
<1> QED
    BY <1>1, <1>2 DEF RecoveredLeaf, LeafAfterEntry, Line, NoId

LEMMA TypeStep == TypeOK /\ [Next]_vars => TypeOK'
<1>1. TypeOK /\ [Next]_vars => TypeOK'
    <2> SUFFICES ASSUME TypeOK, [Next]_vars PROVE TypeOK'
        OBVIOUS
    <2>1. CASE Tick
        BY <2>1, BoundsAssumption DEF Tick, TypeOK, mem
    <2>2. CASE UNCHANGED vars
        BY <2>2 DEF vars, mem, TypeOK
    <2>3. ASSUME NEW p \in Procs, Step(p) PROVE TypeOK'
        <3>1. CASE Create(p)
            BY <3>1 DEF Create, TypeOK
        <3>2. CASE Open(p)
            <4>1. disk.lines \in Seq(Line)
                BY DEF TypeOK, Disk
            <4> QED
                BY <3>2, <4>1, RecoveredType DEF Open, TypeOK
        <3>3. CASE Exit(p)
            BY <3>3 DEF Exit, TypeOK, NoId
        <3>4. entries[p] \in Seq(Line) /\ leaf[p] \in Nat /\ uuids \in Nat
            BY DEF TypeOK
        <3>5. NewId(entries[p], uuids) \in Nat
              /\ UuidsAfter(uuids, NewId(entries[p], uuids)) \in Nat
            BY NewIdType DEF TypeOK
        <3>6. ASSUME NEW k \in EntryKinds, NEW t \in Nat,
                     AppendEntry(p, Entry(k, NewId(entries[p], uuids), leaf[p], t))
              PROVE  TypeOK'
            <4>1. Entry(k, NewId(entries[p], uuids), leaf[p], t) \in Line
                BY <3>4, <3>5, EntryType
            <4>2. Entry(k, NewId(entries[p], uuids), leaf[p], t).id = NewId(entries[p], uuids)
                BY DEF Entry
            <4> QED
                BY <3>5, <3>6, <4>1, <4>2, AppendEntryType
        <3>7. \A t \in KnownIds(entries[p]) \cup {NoId} : t \in Nat
            BY <3>4, KnownIdsType DEF NoId
        <3>8. ASSUME NEW k \in ContentKinds, AppendContent(p, k) PROVE TypeOK'
            BY <3>6, <3>8 DEF AppendContent, EntryKinds, NoId
        <3>9. ASSUME NEW k \in {"label", "unlabel"}, NEW t \in KnownIds(entries[p]),
                     AppendLabel(p, k, t)
              PROVE TypeOK'
            BY <3>6, <3>7, <3>9 DEF AppendLabel, EntryKinds
        <3>10. ASSUME NEW t \in KnownIds(entries[p]) \cup {NoId}, MoveTo(p, t) PROVE TypeOK'
            BY <3>6, <3>7, <3>10 DEF MoveTo, EntryKinds
        <3>11. ASSUME NEW t \in KnownIds(entries[p]) \cup {NoId}, MoveToWithSummary(p, t)
               PROVE TypeOK'
            BY <3>7, <3>11, MoveToWithSummaryType
        <3> QED
            BY <2>3, <3>1, <3>2, <3>3, <3>8, <3>9, <3>10, <3>11 DEF Step
    <2> QED
        BY <2>1, <2>2, <2>3 DEF Next
<1> QED
    BY <1>1

\* Every variable keeps its type: in particular no write, whole, failed or
\* torn, and no reopening leaves anything but lines in the file and in memory.
THEOREM TypeCorrect == Spec => []TypeOK
<1>1. Init => TypeOK
    BY BoundsAssumption DEF Init, TypeOK, Disk, EmptyDisk, NoId
<1> QED
    BY <1>1, TypeStep, PTL DEF Spec
-----------------------------------------------------------------------------
(* Histories without a failed write.                                       *)

LineSet(ls) == {ls[i] : i \in 1..Len(ls)}
Ids(ls) == {ls[i].id : i \in 1..Len(ls)}

\* The file is whole: closed, not torn, and empty unless it has its header.
DiskWhole(d) == ~d.torn /\ Closed(d.lines) /\ (~d.header => d = EmptyDisk)

\* A process' memory is closed, and on disk once flushed; until then nothing is.
Held(d, fl, es) ==
    /\ Closed(es)
    /\ fl => d.header /\ Ids(es) \subseteq Ids(d.lines)
    /\ ~fl => d = EmptyDisk

\* A process that has not flushed is the only one that has the session.
Alone(p) == ~flushed[p] => \A q \in Procs : up[q] => q = p

Whole ==
    /\ DiskWhole(disk)
    /\ acked \subseteq LineSet(disk.lines)
    /\ \A p \in Procs : up[p] => /\ Held(disk, flushed[p], entries[p])
                                 /\ leaf[p] \in Ids(entries[p]) \cup {NoId}
                                 /\ Alone(p)

Cleared == \A p \in Procs : ~up[p] => entries[p] = <<>> /\ leaf[p] = NoId /\ ~flushed[p]

IInv == TypeOK /\ Cleared /\ (faults = 0 => Whole)

LEMMA ClosedIds ==
    ASSUME NEW es, Closed(es)
    PROVE  KnownIds(es) = Ids(es)
BY DEF Closed, KnownIds, Ids

\* An entry whose parent and target are known keeps a closed sequence closed.
LEMMA ClosedAppend ==
    ASSUME NEW es \in Seq(Line), Closed(es), NEW e \in Line, IsEntry(e),
           e.parent \in Ids(es) \cup {NoId}, e.target \in Ids(es) \cup {NoId}
    PROVE  Closed(Append(es, e))
<1> DEFINE t == Append(es, e)
<1>1. /\ Len(t) = Len(es) + 1
      /\ \A i \in 1..Len(es) : t[i] = es[i]
      /\ t[Len(es) + 1] = e
      /\ Len(es) \in Nat
    BY AppendProperties, LenProperties
<1> HIDE DEF t
<1>2. ASSUME NEW i \in 1..Len(es)
      PROVE  IsEntry(t[i]) /\ Earlier(t, i, t[i].parent) /\ Earlier(t, i, t[i].target)
    BY <1>1 DEF Closed, Earlier
<1>3. ASSUME NEW id \in Ids(es) \cup {NoId}
      PROVE  Earlier(t, Len(es) + 1, id)
    BY <1>1 DEF Earlier, Ids
<1>4. ASSUME NEW i \in 1..Len(t)
      PROVE  IsEntry(t[i]) /\ Earlier(t, i, t[i].parent) /\ Earlier(t, i, t[i].target)
    <2>1. CASE i \in 1..Len(es)
        BY <1>2, <2>1
    <2>2. CASE i = Len(es) + 1
        BY <1>1, <1>3, <2>2
    <2> QED
        BY <1>1, <2>1, <2>2
<1> QED
    BY <1>4 DEF Closed, t

LEMMA AppendSets ==
    ASSUME NEW es \in Seq(Line), NEW e \in Line
    PROVE  /\ LineSet(Append(es, e)) = LineSet(es) \cup {e}
           /\ Ids(Append(es, e)) = Ids(es) \cup {e.id}
           /\ Append(es, e)[Len(Append(es, e))] = e
<1> DEFINE t == Append(es, e)
<1>1. /\ Len(t) = Len(es) + 1
      /\ \A i \in 1..Len(es) : t[i] = es[i]
      /\ t[Len(es) + 1] = e
      /\ Len(es) \in Nat
    BY AppendProperties, LenProperties
<1> HIDE DEF t
<1>2. LineSet(t) = LineSet(es) \cup {e}
    BY <1>1 DEF LineSet
<1>3. Ids(t) = Ids(es) \cup {e.id}
    BY <1>1 DEF Ids
<1> QED
    BY <1>1, <1>2, <1>3 DEF t

\* The three outcomes of a write that goes well.
LEMMA OkResults ==
    ASSUME NEW d, NEW fl \in BOOLEAN, NEW es, NEW e, NEW r \in Results(d, fl, es, e), r.ok
    PROVE  \/ fl /\ r.flushed = TRUE /\ r.disk = AppendOk(d, e)
           \/ ~fl /\ r.flushed = FALSE /\ r.disk = d
           \/ ~fl /\ r.flushed = TRUE /\ r.disk = FlushOk(es)
BY DEF Results

\* An entry that may be appended to the memory es over the file d.
Writable(d, fl, es, e) ==
    /\ DiskWhole(d) /\ Held(d, fl, es)
    /\ IsEntry(e)
    /\ e.parent \in Ids(es) \cup {NoId}
    /\ e.target \in Ids(es) \cup {NoId}

\* The file holds what was there and what was written, and the writer's memory.
Extended(d, fl, es, r) ==
    /\ DiskWhole(r.disk) /\ Held(r.disk, r.flushed, es)
    /\ LineSet(d.lines) \subseteq LineSet(r.disk.lines)
    /\ Ids(d.lines) \subseteq Ids(r.disk.lines)
    /\ Written(es, fl, r) \subseteq LineSet(r.disk.lines)
    /\ d.header => r.disk.header
    /\ fl => r.flushed

LEMMA OkWrite ==
    ASSUME NEW d \in Disk, NEW fl \in BOOLEAN, NEW es \in Seq(Line), NEW e \in Line,
           Writable(d, fl, es, e),
           NEW r \in Results(d, fl, Append(es, e), e), r.ok
    PROVE  Extended(d, fl, Append(es, e), r)
<1> USE DEF Writable, Extended
<1>1. Closed(Append(es, e))
    BY ClosedAppend DEF Held
<1>2. Append(es, e) \in Seq(Line) /\ d.lines \in Seq(Line)
    BY AppendProperties DEF Disk
<1>3. CASE fl /\ r.flushed = TRUE /\ r.disk = AppendOk(d, e)
    <2>1. d.header /\ Ids(es) \subseteq Ids(d.lines)
        BY <1>3 DEF Held
    <2>2. r.disk = [header |-> TRUE, lines |-> Append(d.lines, e), torn |-> FALSE]
        BY <1>3, <2>1 DEF AppendOk, Glued, DiskWhole, Disk
    <2>3. Closed(Append(d.lines, e))
        BY <1>2, <2>1, ClosedAppend DEF DiskWhole
    <2>4. Written(Append(es, e), fl, r) = {e}
        BY <1>3, AppendSets DEF Written
    <2>5. /\ LineSet(Append(d.lines, e)) = LineSet(d.lines) \cup {e}
          /\ Ids(Append(d.lines, e)) = Ids(d.lines) \cup {e.id}
          /\ Ids(Append(es, e)) = Ids(es) \cup {e.id}
        BY <1>2, AppendSets
    <2>6. r.disk.header /\ ~r.disk.torn /\ r.disk.lines = Append(d.lines, e)
        BY <2>2
    <2> QED
        BY <1>1, <1>3, <2>1, <2>3, <2>4, <2>5, <2>6 DEF DiskWhole, Held
<1>4. CASE ~fl /\ r.flushed = FALSE /\ r.disk = d
    BY <1>1, <1>4 DEF Held, Written
<1>5. CASE ~fl /\ r.flushed = TRUE /\ r.disk = FlushOk(Append(es, e))
    <2>1. d = EmptyDisk
        BY <1>5 DEF Held
    <2>2. LineSet(d.lines) = {} /\ Ids(d.lines) = {}
        BY <2>1 DEF EmptyDisk, LineSet, Ids
    <2>3. Written(Append(es, e), fl, r) = LineSet(Append(es, e))
        BY <1>5 DEF Written, LineSet
    <2>4. r.disk.header /\ ~r.disk.torn /\ r.disk.lines = Append(es, e)
        BY <1>5 DEF FlushOk
    <2> QED
        BY <1>1, <1>5, <2>2, <2>3, <2>4 DEF DiskWhole, Held
<1> QED
    BY <1>3, <1>4, <1>5, OkResults

\* What a step of p that wrote well must show to keep the history whole.
LEMMA WholeCommit ==
    ASSUME Whole, TypeOK, NEW p \in Procs, up[p], NEW es, NEW e \in Line, NEW r,
           r.ok, r.flushed \in BOOLEAN, Commit(p, es, e, r),
           DiskWhole(r.disk), Held(r.disk, r.flushed, es),
           e.id \in Ids(es), e.target \in Ids(es) \cup {NoId},
           acked' \subseteq LineSet(r.disk.lines),
           Ids(disk.lines) \subseteq Ids(r.disk.lines),
           disk.header => r.disk.header,
           flushed[p] => r.flushed
    PROVE  Whole'
<1>1. /\ disk' = r.disk
      /\ up' = up
      /\ entries' = [entries EXCEPT ![p] = es]
      /\ leaf' = [leaf EXCEPT ![p] = LeafAfterEntry(e)]
      /\ flushed' = [flushed EXCEPT ![p] = r.flushed]
    BY DEF Commit
<1>2. DiskWhole(disk') /\ acked' \subseteq LineSet(disk'.lines)
    BY <1>1
<1>3. ASSUME NEW q \in Procs, up'[q]
      PROVE  /\ Held(disk', flushed'[q], entries'[q])
             /\ leaf'[q] \in Ids(entries'[q]) \cup {NoId}
             /\ ~flushed'[q] => \A o \in Procs : up'[o] => o = q
    <2>1. CASE q = p
        <3>1. entries'[q] = es /\ leaf'[q] = LeafAfterEntry(e) /\ flushed'[q] = r.flushed
            BY <1>1, <2>1 DEF TypeOK
        <3>2. LeafAfterEntry(e) \in Ids(es) \cup {NoId}
            BY DEF LeafAfterEntry
        <3>3. ~flushed[p] => \A o \in Procs : up[o] => o = p
            BY DEF Whole, Alone
        <3> QED
            BY <1>1, <2>1, <3>1, <3>2, <3>3
    <2>2. CASE q # p
        <3>1. entries'[q] = entries[q] /\ leaf'[q] = leaf[q] /\ flushed'[q] = flushed[q]
            BY <1>1, <2>2 DEF TypeOK
        <3>2. up[q] /\ Held(disk, flushed[q], entries[q]) /\ leaf[q] \in Ids(entries[q]) \cup {NoId}
            BY <1>1, <1>3 DEF Whole
        <3>3. flushed[q]
            BY <3>2, <2>2 DEF Whole, Alone
        <3> QED
            BY <1>1, <3>1, <3>2, <3>3 DEF Held
    <2> QED
        BY <2>1, <2>2
<1> QED
    BY <1>2, <1>3 DEF Whole, Alone

LEMMA AppendEntryWhole ==
    ASSUME TypeOK, Whole, NEW p \in Procs, up[p], NEW e \in Line, IsEntry(e),
           e.parent \in Ids(entries[p]) \cup {NoId}, e.target \in Ids(entries[p]) \cup {NoId},
           AppendEntry(p, e), faults' = 0
    PROVE  Whole'
<1> DEFINE es == Append(entries[p], e)
<1>1. PICK r \in Results(disk, flushed[p], es, e) :
          /\ Commit(p, es, e, r)
          /\ acked' = acked \cup Written(es, flushed[p], r)
    BY DEF AppendEntry
<1>2. r \in Results(disk, flushed[p], Append(entries[p], e), e) /\ r.ok
    BY <1>1 DEF Commit, TypeOK
<1>3. /\ entries[p] \in Seq(Line) /\ disk \in Disk /\ flushed[p] \in BOOLEAN
      /\ es \in Seq(Line)
    BY AppendProperties DEF TypeOK
<1>4. r \in Outcome
    BY <1>1, <1>3, ResultsType
<1>5. Writable(disk, flushed[p], entries[p], e)
    BY DEF Whole, Writable
<1>6. Ids(es) = Ids(entries[p]) \cup {e.id}
    BY <1>3, AppendSets
<1>7. Extended(disk, flushed[p], es, r)
    BY <1>2, <1>3, <1>5, OkWrite
<1> HIDE DEF es
<1>8. acked' \subseteq LineSet(r.disk.lines)
    BY <1>1, <1>7 DEF Whole, Extended
<1> QED
    BY <1>1, <1>2, <1>4, <1>6, <1>7, <1>8, WholeCommit DEF Outcome, Extended

LEMMA MoveToWithSummaryWhole ==
    ASSUME TypeOK, Whole, NEW p \in Procs, NEW t \in Ids(entries[p]) \cup {NoId},
           MoveToWithSummary(p, t), faults' = 0
    PROVE  Whole'
<1> DEFINE e1  == Entry("leaf", NewId(entries[p], uuids), leaf[p], t)
           es1 == Append(entries[p], e1)
           u1  == UuidsAfter(uuids, e1.id)
           e2  == Entry("summary", NewId(es1, u1), t, t)
           es2 == Append(es1, e2)
<1>1. up[p]
    BY DEF MoveToWithSummary
<1>2. /\ entries[p] \in Seq(Line) /\ disk \in Disk /\ flushed[p] \in BOOLEAN
      /\ leaf[p] \in Ids(entries[p]) \cup {NoId}
      /\ DiskWhole(disk) /\ Held(disk, flushed[p], entries[p])
    BY <1>1 DEF TypeOK, Whole
<1>3. t \in Nat /\ leaf[p] \in Nat
    <2>1. \A i \in 1..Len(entries[p]) : entries[p][i] \in Line
        BY <1>2, ElementOfSeq
    <2>2. \A i \in 1..Len(entries[p]) : entries[p][i].id \in Nat
        BY <2>1 DEF Line
    <2>3. Ids(entries[p]) \subseteq Nat
        BY <2>2 DEF Ids
    <2> QED
        BY <2>3 DEF NoId, TypeOK
<1>4. /\ e1 \in Line /\ IsEntry(e1) /\ u1 \in Nat
      /\ e1.parent = leaf[p] /\ e1.target = t
    <2>1. NewId(entries[p], uuids) \in Nat /\ UuidsAfter(uuids, NewId(entries[p], uuids)) \in Nat
        BY NewIdType DEF TypeOK
    <2> QED
        BY <1>3, <2>1 DEF Entry, EntryKinds, Line, IsEntry
<1>5. es1 \in Seq(Line) /\ Ids(es1) = Ids(entries[p]) \cup {e1.id}
    <2> HIDE DEF e1
    <2> QED
        BY <1>2, <1>4, AppendProperties, AppendSets
<1>6. /\ e2 \in Line /\ IsEntry(e2)
      /\ e2.parent = t /\ e2.target = t
    <2> HIDE DEF u1, es1
    <2>1. NewId(es1, u1) \in Nat
        BY <1>4, NewIdType DEF TypeOK
    <2> QED
        BY <1>3, <2>1 DEF Entry, EntryKinds, Line, IsEntry
<1>7. Ids(es2) = Ids(es1) \cup {e2.id}
    <2> HIDE DEF e2, es1
    <2> QED
        BY <1>5, <1>6, AppendSets
<1>8. PICK r1 \in Results(disk, flushed[p], es1, e1) :
          \/ ~r1.ok /\ Commit(p, es1, e1, r1)
          \/ /\ r1.ok
             /\ \E r2 \in Results(r1.disk, r1.flushed, es2, e2) :
                    /\ Commit(p, es2, e2, r2)
                    /\ acked' = acked \cup Written(es1, flushed[p], r1)
                                      \cup Written(es2, r1.flushed, r2)
    BY DEF MoveToWithSummary
<1> HIDE DEF e1, u1, e2
<1>9. r1.ok
    BY <1>8 DEF Commit, TypeOK
<1>10. PICK r2 \in Results(r1.disk, r1.flushed, es2, e2) :
           /\ Commit(p, es2, e2, r2)
           /\ acked' = acked \cup Written(es1, flushed[p], r1) \cup Written(es2, r1.flushed, r2)
    BY <1>8, <1>9
<1>11. r2 \in Results(r1.disk, r1.flushed, es2, e2) /\ r2.ok
    BY <1>10 DEF Commit, TypeOK
<1>12. r1 \in Outcome
    BY <1>2, <1>4, <1>5, <1>8, ResultsType
<1>13. Extended(disk, flushed[p], es1, r1)
    <2>1. Writable(disk, flushed[p], entries[p], e1)
        BY <1>2, <1>4 DEF Writable
    <2> QED
        BY <1>2, <1>4, <1>8, <1>9, <2>1, OkWrite
<1> HIDE DEF es1
<1>14. r1.disk \in Disk /\ r1.flushed \in BOOLEAN
    BY <1>12 DEF Outcome
<1>15. Extended(r1.disk, r1.flushed, es2, r2)
    <2>1. Writable(r1.disk, r1.flushed, es1, e2)
        BY <1>5, <1>6, <1>13 DEF Writable, Extended
    <2> QED
        BY <1>5, <1>6, <1>11, <1>14, <2>1, OkWrite
<1>16. es2 \in Seq(Line)
    BY <1>5, <1>6, AppendProperties
<1>17. r2 \in Outcome
    BY <1>6, <1>11, <1>14, <1>16, ResultsType
<1> HIDE DEF es2
<1>18. acked' \subseteq LineSet(r2.disk.lines)
    BY <1>10, <1>13, <1>15 DEF Whole, Extended
<1> QED
    BY <1>1, <1>5, <1>6, <1>7, <1>10, <1>11, <1>13, <1>15, <1>17, <1>18, WholeCommit DEF Outcome, Extended

\* Opening a whole file restores a closed history with a known leaf.
LEMMA RecoveredWhole ==
    ASSUME NEW ls, Closed(ls)
    PROVE  RecoveredLeaf(ls) \in Ids(ls) \cup {NoId}
<1>1. ASSUME NEW i \in 1..Len(ls)
      PROVE  LeafAfterEntry(ls[i]) \in Ids(ls) \cup {NoId}
    BY DEF Closed, Earlier, Ids, LeafAfterEntry
<1>2. CASE \E i \in 1..Len(ls) : LastEntry(ls, i)
    <2>1. (CHOOSE i \in 1..Len(ls) : LastEntry(ls, i)) \in 1..Len(ls)
        BY <1>2
    <2> QED
        BY <1>1, <1>2, <2>1 DEF RecoveredLeaf
<1>3. CASE ~ \E i \in 1..Len(ls) : LastEntry(ls, i)
    BY <1>3 DEF RecoveredLeaf
<1> QED
    BY <1>2, <1>3

LEMMA InitIInv == Init => IInv
<1> SUFFICES ASSUME Init PROVE IInv
    OBVIOUS
<1>1. TypeOK
    BY BoundsAssumption DEF Init, TypeOK, Disk, EmptyDisk, NoId
<1>2. Cleared
    BY DEF Init, Cleared
<1>3. DiskWhole(disk) /\ acked \subseteq LineSet(disk.lines)
    BY DEF Init, DiskWhole, EmptyDisk, Closed
<1> QED
    BY <1>1, <1>2, <1>3 DEF Init, Whole, IInv

\* Creation, opening and exit: what the process holds afterwards is whole.
LEMMA SwitchWhole ==
    ASSUME TypeOK, Cleared, Whole, NEW p \in Procs, Create(p) \/ Open(p) \/ Exit(p)
    PROVE  Whole'
<1>1. CASE Create(p)
    <2>1. /\ disk' = disk /\ acked' = acked /\ entries' = entries /\ leaf' = leaf
          /\ flushed' = flushed /\ disk = EmptyDisk /\ ~flushed[p]
          /\ entries[p] = <<>> /\ leaf[p] = NoId
          /\ \A q \in Procs : up'[q] => q = p
        BY <1>1 DEF Create, Cleared, TypeOK
    <2>2. Held(disk, flushed[p], entries[p])
        BY <2>1 DEF Held, Closed
    <2> QED
        BY <2>1, <2>2 DEF Whole, Alone
<1>2. CASE Open(p)
    <2>1. /\ disk' = disk /\ acked' = acked /\ disk.header
          /\ up' = [up EXCEPT ![p] = TRUE]
          /\ entries' = [entries EXCEPT ![p] = disk.lines]
          /\ leaf' = [leaf EXCEPT ![p] = RecoveredLeaf(disk.lines)]
          /\ flushed' = [flushed EXCEPT ![p] = TRUE]
        BY <1>2 DEF Open
    <2>2. Held(disk, TRUE, disk.lines)
        BY <2>1 DEF Held, Whole, DiskWhole
    <2>3. RecoveredLeaf(disk.lines) \in Ids(disk.lines) \cup {NoId}
        BY RecoveredWhole DEF Whole, DiskWhole
    <2>4. disk # EmptyDisk
        BY <2>1 DEF EmptyDisk
    <2>5. ASSUME NEW q \in Procs, up'[q]
          PROVE  /\ Held(disk', flushed'[q], entries'[q])
                 /\ leaf'[q] \in Ids(entries'[q]) \cup {NoId}
                 /\ flushed'[q]
        <3>1. CASE q = p
            BY <2>1, <2>2, <2>3, <3>1 DEF TypeOK
        <3>2. CASE q # p
            <4>1. /\ up[q] /\ entries'[q] = entries[q] /\ leaf'[q] = leaf[q]
                  /\ flushed'[q] = flushed[q]
                BY <2>1, <2>5, <3>2 DEF TypeOK
            <4>2. Held(disk, flushed[q], entries[q]) /\ leaf[q] \in Ids(entries[q]) \cup {NoId}
                BY <4>1 DEF Whole
            <4>3. flushed[q]
                BY <2>4, <4>2 DEF Held
            <4> QED
                BY <2>1, <4>1, <4>2, <4>3
        <3> QED
            BY <3>1, <3>2
    <2> QED
        BY <2>1, <2>5 DEF Whole, Alone
<1>3. CASE Exit(p)
    <2>1. /\ disk' = disk /\ acked' = acked
          /\ \A q \in Procs : up'[q] => q # p /\ up[q]
          /\ \A q \in Procs : q # p => /\ entries'[q] = entries[q]
                                       /\ leaf'[q] = leaf[q]
                                       /\ flushed'[q] = flushed[q]
        BY <1>3 DEF Exit, TypeOK
    <2> QED
        BY <2>1 DEF Whole, Alone
<1> QED
    BY <1>1, <1>2, <1>3

\* The process that writes has the session open; the others' memory is its own.
LEMMA CommitCleared ==
    ASSUME TypeOK, Cleared, NEW p \in Procs, up[p], NEW es, NEW e, NEW r, Commit(p, es, e, r)
    PROVE  Cleared'
BY DEF Cleared, Commit, TypeOK

LEMMA NextIInv == IInv /\ [Next]_vars => IInv'
<1> SUFFICES ASSUME IInv, [Next]_vars PROVE IInv'
    OBVIOUS
<1>1. TypeOK /\ Cleared
    BY DEF IInv
<1>2. TypeOK'
    BY <1>1, TypeStep
<1>3. CASE Tick
    BY <1>1, <1>2, <1>3 DEF Tick, mem, IInv, Cleared, Whole, Alone
<1>4. CASE UNCHANGED vars
    BY <1>1, <1>2, <1>4 DEF vars, mem, IInv, Cleared, Whole, Alone
<1>5. ASSUME NEW p \in Procs, Create(p) \/ Open(p) \/ Exit(p) PROVE IInv'
    <2>1. Cleared'
        BY <1>1, <1>5 DEF Create, Open, Exit, Cleared, TypeOK
    <2>2. faults' = faults
        BY <1>5 DEF Create, Open, Exit
    <2> QED
        BY <1>1, <1>2, <1>5, <2>1, <2>2, SwitchWhole DEF IInv
<1>6. ASSUME NEW p \in Procs, up[p], NEW k \in EntryKinds, NEW t \in KnownIds(entries[p]) \cup {NoId},
             LeafKnown(p) \/ k = "leaf",
             AppendEntry(p, Entry(k, NewId(entries[p], uuids), leaf[p], t))
      PROVE  IInv'
    <2> DEFINE e == Entry(k, NewId(entries[p], uuids), leaf[p], t)
    <2>1. Cleared'
        <3>1. PICK r : Commit(p, Append(entries[p], e), e, r)
            BY <1>6 DEF AppendEntry
        <3> QED
            BY <1>1, <1>6, <3>1, CommitCleared
    <2>2. ASSUME faults' = 0 PROVE Whole'
        <3>1. faults = 0
            BY <1>1, <1>6, <2>2 DEF AppendEntry, Commit, TypeOK
        <3>2. Whole
            BY <3>1 DEF IInv
        <3>3. Closed(entries[p]) /\ leaf[p] \in Ids(entries[p]) \cup {NoId}
            BY <1>6, <3>2 DEF Whole, Held
        <3>4. t \in Ids(entries[p]) \cup {NoId} /\ t \in Nat /\ leaf[p] \in Nat
            BY <1>1, <3>3, ClosedIds, KnownIdsType DEF TypeOK, NoId
        <3>5. NewId(entries[p], uuids) \in Nat
            BY <1>1, NewIdType DEF TypeOK
        <3>6. e \in Line
            BY <3>4, <3>5, EntryType
        <3>7. IsEntry(e) /\ e.parent = leaf[p] /\ e.target = t
            BY DEF Entry, IsEntry, EntryKinds, ContentKinds
        <3> HIDE DEF e
        <3> QED
            BY <1>1, <1>6, <2>2, <3>2, <3>3, <3>4, <3>6, <3>7, AppendEntryWhole DEF e
    <2> QED
        BY <1>2, <2>1, <2>2 DEF IInv
<1>7. ASSUME NEW p \in Procs, NEW t \in KnownIds(entries[p]) \cup {NoId}, MoveToWithSummary(p, t)
      PROVE  IInv'
    <2>1. Cleared'
        <3>1. up[p] /\ \E es, e, r : Commit(p, es, e, r)
            BY <1>7 DEF MoveToWithSummary
        <3> QED
            BY <1>1, <3>1, CommitCleared
    <2>2. ASSUME faults' = 0 PROVE Whole'
        <3>1. faults = 0
            <4>1. \E es, e, r : Commit(p, es, e, r)
                BY <1>7 DEF MoveToWithSummary
            <4> QED
                BY <1>1, <2>2, <4>1 DEF Commit, TypeOK
        <3>2. Whole /\ up[p]
            BY <1>7, <3>1 DEF IInv, MoveToWithSummary
        <3>3. t \in Ids(entries[p]) \cup {NoId}
            BY <3>2, ClosedIds DEF Whole, Held
        <3> QED
            BY <1>1, <1>7, <2>2, <3>2, <3>3, MoveToWithSummaryWhole
    <2> QED
        BY <1>2, <2>1, <2>2 DEF IInv
<1>8. ASSUME NEW p \in Procs, Step(p) PROVE IInv'
    <2>1. CASE Create(p) \/ Open(p) \/ Exit(p)
        BY <1>5, <2>1
    <2>2. ASSUME NEW k \in ContentKinds, AppendContent(p, k) PROVE IInv'
        BY <1>6, <2>2 DEF AppendContent, EntryKinds
    <2>3. ASSUME NEW k \in {"label", "unlabel"}, NEW t \in KnownIds(entries[p]),
                 AppendLabel(p, k, t)
          PROVE  IInv'
        BY <1>6, <2>3 DEF AppendLabel, EntryKinds
    <2>4. ASSUME NEW t \in KnownIds(entries[p]) \cup {NoId}, MoveTo(p, t) PROVE IInv'
        BY <1>6, <2>4 DEF MoveTo, EntryKinds
    <2> QED
        BY <1>7, <1>8, <2>1, <2>2, <2>3, <2>4 DEF Step
<1> QED
    BY <1>3, <1>4, <1>8 DEF Next

\* Without a failed write no process ever misses a parent, a target or its
\* leaf (the errors of GetLeafID and GetPathToRoot), for any number of
\* processes creating, opening, appending, navigating and exiting at will.
THEOREM HistoryStaysClosed == Spec => []HistoryClosed
<1>1. IInv => HistoryClosed
    BY ClosedIds DEF IInv, Whole, Held, HistoryClosed, LeafKnown
<1> QED
    BY <1>1, InitIInv, NextIInv, PTL DEF Spec

\* Without a failed write, what has been reported written is in the file.
THEOREM AckedStaysOnDisk == Spec => []AckedOnDisk
<1>1. IInv => AckedOnDisk
    BY DEF IInv, Whole, LineSet, AckedOnDisk
<1> QED
    BY <1>1, InitIInv, NextIInv, PTL DEF Spec

\* The lines of a file are the first lines of a longer one.
Longer(ls, ms) ==
    /\ Len(ms) >= Len(ls)
    /\ \A i \in 1..Len(ls) : ms[i] = ls[i]

LEMMA OkAppends ==
    ASSUME NEW d \in Disk, ~d.torn, NEW fl, fl = TRUE, NEW es, NEW e \in Line, d.header,
           NEW r \in Results(d, fl, es, e), r.ok
    PROVE  r.disk.header /\ ~r.disk.torn /\ r.disk \in Disk /\ r.flushed = TRUE
           /\ Longer(d.lines, r.disk.lines)
<1>1. r.flushed = TRUE /\ r.disk = AppendOk(d, e)
    BY OkResults
<1>2. r.disk = [header |-> TRUE, lines |-> Append(d.lines, e), torn |-> FALSE]
    BY <1>1 DEF AppendOk, Glued, Disk
<1>3. d.lines \in Seq(Line)
    BY DEF Disk
<1>4. Longer(d.lines, Append(d.lines, e)) /\ Append(d.lines, e) \in Seq(Line)
    BY <1>3, AppendProperties, LenProperties DEF Longer
<1> QED
    BY <1>1, <1>2, <1>4 DEF Disk

LEMMA LongerTransitive ==
    ASSUME NEW l \in Seq(Line), NEW m \in Seq(Line), NEW n \in Seq(Line),
           Longer(l, m), Longer(m, n)
    PROVE  Longer(l, n)
<1>1. Len(l) \in Nat /\ Len(m) \in Nat /\ Len(n) \in Nat
    BY LenProperties
<1> QED
    BY <1>1 DEF Longer

\* Once a process holds the session flushed, no step whose writes go well, of
\* any process, changes or drops a line of the file.
THEOREM LogAppendOnly == Spec => AppendOnly
<1> DEFINE Kept == (faults' = 0 /\ \E p \in Procs : up[p] /\ flushed[p])
                      => disk'.header /\ Longer(disk.lines, disk'.lines)
<1>1. IInv /\ [Next]_vars => Kept
    <2> SUFFICES ASSUME IInv, [Next]_vars, faults' = 0,
                        NEW h \in Procs, up[h] /\ flushed[h]
                 PROVE  disk'.header /\ Longer(disk.lines, disk'.lines)
        OBVIOUS
    <2> USE DEF IInv
    <2>1. faults = 0
        <3>1. ASSUME NEW p \in Procs, Step(p) PROVE faults = 0
            <4>1. CASE Create(p) \/ Open(p) \/ Exit(p)
                BY <4>1 DEF Create, Open, Exit
            <4>2. CASE \E es, e, r : Commit(p, es, e, r)
                BY <4>2 DEF Commit, TypeOK
            <4> QED
                BY <3>1, <4>1, <4>2
                   DEF Step, AppendContent, AppendLabel, MoveTo, MoveToWithSummary, AppendEntry
        <3> QED
            BY <3>1 DEF Next, Tick, vars
    <2>2. Whole /\ disk \in Disk /\ disk.lines \in Seq(Line)
        BY <2>1 DEF TypeOK, Disk
    <2>3. disk.header /\ ~disk.torn
        BY <2>2 DEF Whole, Held, DiskWhole
    <2>4. ASSUME NEW p \in Procs, up[p] PROVE flushed[p] = TRUE
        BY <2>2, <2>3, <2>4 DEF Whole, Held, EmptyDisk, TypeOK
    <2>5. Longer(disk.lines, disk.lines)
        BY <2>2, LenProperties DEF Longer
    <2>6. CASE UNCHANGED disk
        BY <2>3, <2>5, <2>6
    <2>7. ASSUME NEW p \in Procs, up[p], NEW e \in Line, AppendEntry(p, e)
          PROVE  disk'.header /\ Longer(disk.lines, disk'.lines)
        <3>1. PICK r \in Results(disk, flushed[p], Append(entries[p], e), e) :
                  Commit(p, Append(entries[p], e), e, r)
            BY <2>7 DEF AppendEntry
        <3>2. r.ok /\ disk' = r.disk
            BY <3>1 DEF Commit, TypeOK
        <3> QED
            BY <2>2, <2>3, <2>4, <2>7, <3>1, <3>2, OkAppends
    <2>8. ASSUME NEW p \in Procs, NEW k \in EntryKinds, NEW t \in KnownIds(entries[p]) \cup {NoId}
          PROVE  Entry(k, NewId(entries[p], uuids), leaf[p], t) \in Line
        BY KnownIdsType, NewIdType, EntryType DEF TypeOK, NoId
    <2>9. ASSUME NEW p \in Procs, NEW t \in KnownIds(entries[p]) \cup {NoId}, MoveToWithSummary(p, t)
          PROVE  disk'.header /\ Longer(disk.lines, disk'.lines)
        <3> DEFINE e1  == Entry("leaf", NewId(entries[p], uuids), leaf[p], t)
                   es1 == Append(entries[p], e1)
                   u1  == UuidsAfter(uuids, e1.id)
                   e2  == Entry("summary", NewId(es1, u1), t, t)
                   es2 == Append(es1, e2)
        <3>1. e1 \in Line
            BY <2>8 DEF EntryKinds
        <3>2. u1 \in Nat /\ t \in Nat
            BY KnownIdsType, NewIdType DEF Entry, TypeOK, NoId
        <3>3. e2 \in Line
            <4> HIDE DEF u1, es1
            <4> QED
                BY <3>2, NewIdType, EntryType DEF EntryKinds, TypeOK
        <3>4. PICK r1 \in Results(disk, flushed[p], es1, e1) :
                  \/ ~r1.ok /\ Commit(p, es1, e1, r1)
                  \/ r1.ok /\ \E r2 \in Results(r1.disk, r1.flushed, es2, e2) :
                                  Commit(p, es2, e2, r2)
            BY <2>9 DEF MoveToWithSummary
        <3>5. up[p]
            BY <2>9 DEF MoveToWithSummary
        <3> HIDE DEF e1, es1, e2, es2
        <3>6. r1.ok
            BY <3>4 DEF Commit, TypeOK
        <3>7. PICK r2 \in Results(r1.disk, r1.flushed, es2, e2) : Commit(p, es2, e2, r2)
            BY <3>4, <3>6
        <3>8. r2.ok /\ disk' = r2.disk
            BY <3>7 DEF Commit, TypeOK
        <3>9. /\ r1.disk.header /\ ~r1.disk.torn /\ r1.disk \in Disk /\ r1.flushed = TRUE
              /\ Longer(disk.lines, r1.disk.lines)
            BY <2>2, <2>3, <2>4, <3>1, <3>4, <3>5, <3>6, OkAppends
        <3>10. /\ r2.disk.header /\ r2.disk \in Disk
               /\ Longer(r1.disk.lines, r2.disk.lines)
            BY <3>3, <3>7, <3>8, <3>9, OkAppends
        <3> QED
            BY <2>2, <3>8, <3>9, <3>10, LongerTransitive DEF Disk
    <2>10. ASSUME NEW p \in Procs, Step(p)
           PROVE  disk'.header /\ Longer(disk.lines, disk'.lines)
        <3>1. CASE Create(p) \/ Open(p) \/ Exit(p)
            BY <2>6, <3>1 DEF Create, Open, Exit
        <3>2. ASSUME NEW k \in ContentKinds, AppendContent(p, k)
              PROVE  disk'.header /\ Longer(disk.lines, disk'.lines)
            BY <2>7, <2>8, <3>2 DEF AppendContent, EntryKinds
        <3>3. ASSUME NEW k \in {"label", "unlabel"}, NEW t \in KnownIds(entries[p]),
                     AppendLabel(p, k, t)
              PROVE  disk'.header /\ Longer(disk.lines, disk'.lines)
            BY <2>7, <2>8, <3>3 DEF AppendLabel, EntryKinds
        <3>4. ASSUME NEW t \in KnownIds(entries[p]) \cup {NoId}, MoveTo(p, t)
              PROVE  disk'.header /\ Longer(disk.lines, disk'.lines)
            BY <2>7, <2>8, <3>4 DEF MoveTo, EntryKinds
        <3> QED
            BY <2>9, <2>10, <3>1, <3>2, <3>3, <3>4 DEF Step
    <2> QED
        BY <2>6, <2>10 DEF Next, Tick, vars
<1>2. Kept => [(faults' = 0 /\ \E p \in Procs : up[p] /\ flushed[p])
                  => /\ disk'.header
                     /\ Len(disk'.lines) >= Len(disk.lines)
                     /\ \A i \in 1..Len(disk.lines) : disk'.lines[i] = disk.lines[i]]_vars
    BY DEF Longer
<1> HIDE DEF Kept
<1> QED
    BY <1>1, <1>2, InitIInv, NextIInv, PTL DEF Spec, AppendOnly
-----------------------------------------------------------------------------
(* The label cache.                                                        *)

\* The label of t stands: one was given that no later line takes back.
Stands(ls, t) ==
    \E j \in 1..Len(ls) :
        /\ ls[j].kind = "label" /\ ls[j].target = t
        /\ \A k \in (j + 1)..Len(ls) : ~(ls[k].kind = "unlabel" /\ ls[k].target = t)

LEMMA LabelledStands ==
    ASSUME NEW ls, NEW t
    PROVE  t \in Labelled(ls) <=> Stands(ls, t)
BY DEF Labelled, Stands

\* One more line does to the labels what updateLabelCache does to the cache.
LEMMA LabelledAppend ==
    ASSUME NEW es \in Seq(Line), NEW e \in Line
    PROVE  Labelled(Append(es, e)) = LabelsAfterEntry(Labelled(es), e)
<1> DEFINE ls == Append(es, e)
<1>1. /\ Len(ls) = Len(es) + 1
      /\ \A i \in 1..Len(es) : ls[i] = es[i]
      /\ ls[Len(es) + 1] = e
      /\ Len(es) \in Nat
    BY AppendProperties, LenProperties
<1> HIDE DEF ls
<1>2. ASSUME NEW t
      PROVE  Stands(ls, t) <=> \/ e.kind = "label" /\ e.target = t
                               \/ Stands(es, t) /\ ~(e.kind = "unlabel" /\ e.target = t)
    <2>1. ASSUME e.kind = "label", e.target = t PROVE Stands(ls, t)
        BY <1>1, <2>1 DEF Stands
    <2>2. ASSUME Stands(es, t), ~(e.kind = "unlabel" /\ e.target = t) PROVE Stands(ls, t)
        <3>1. PICK j \in 1..Len(es) :
                  /\ es[j].kind = "label" /\ es[j].target = t
                  /\ \A k \in (j + 1)..Len(es) : ~(es[k].kind = "unlabel" /\ es[k].target = t)
            BY <2>2 DEF Stands
        <3>2. j \in 1..Len(ls) /\ ls[j].kind = "label" /\ ls[j].target = t
            BY <1>1, <3>1
        <3>3. ASSUME NEW k \in (j + 1)..Len(ls)
              PROVE  ~(ls[k].kind = "unlabel" /\ ls[k].target = t)
            <4>1. k = Len(es) + 1 \/ k \in (j + 1)..Len(es)
                BY <1>1
            <4>2. k \in (j + 1)..Len(es) => k \in 1..Len(es)
                BY <1>1
            <4> QED
                BY <1>1, <2>2, <3>1, <4>1, <4>2
        <3> QED
            BY <3>2, <3>3 DEF Stands
    <2>3. ASSUME Stands(ls, t), ~(e.kind = "label" /\ e.target = t)
          PROVE  Stands(es, t) /\ ~(e.kind = "unlabel" /\ e.target = t)
        <3>1. PICK j \in 1..Len(ls) :
                  /\ ls[j].kind = "label" /\ ls[j].target = t
                  /\ \A k \in (j + 1)..Len(ls) : ~(ls[k].kind = "unlabel" /\ ls[k].target = t)
            BY <2>3 DEF Stands
        <3>2. j \in 1..Len(es)
            BY <1>1, <2>3, <3>1
        <3>3. ~(e.kind = "unlabel" /\ e.target = t)
            <4>1. Len(es) + 1 \in (j + 1)..Len(ls)
                BY <1>1, <3>2
            <4> QED
                BY <1>1, <3>1, <4>1
        <3>4. ASSUME NEW k \in (j + 1)..Len(es)
              PROVE  ~(es[k].kind = "unlabel" /\ es[k].target = t)
            <4>1. k \in (j + 1)..Len(ls) /\ ls[k] = es[k]
                BY <1>1, <3>2
            <4> QED
                BY <3>1, <4>1
        <3>5. es[j].kind = "label" /\ es[j].target = t
            BY <1>1, <3>1, <3>2
        <3> QED
            BY <3>2, <3>3, <3>4, <3>5 DEF Stands
    <2> QED
        BY <2>1, <2>2, <2>3
<1>3. ASSUME NEW t
      PROVE  t \in Labelled(ls) <=> t \in LabelsAfterEntry(Labelled(es), e)
    <2>1. t \in Labelled(ls) <=> \/ e.kind = "label" /\ e.target = t
                                 \/ t \in Labelled(es) /\ ~(e.kind = "unlabel" /\ e.target = t)
        BY <1>2, LabelledStands
    <2> QED
        BY <2>1 DEF LabelsAfterEntry
<1> QED
    BY <1>3 DEF ls

LabelInv == TypeOK /\ \A p \in Procs : labels[p] = Labelled(entries[p])

LEMMA CommitLabels ==
    ASSUME LabelInv, NEW p \in Procs, NEW es, NEW e, NEW r, Commit(p, es, e, r),
           LabelsAfterEntry(Labelled(entries[p]), e) = Labelled(es)
    PROVE  \A q \in Procs : labels'[q] = Labelled(entries'[q])
BY DEF Commit, LabelInv, TypeOK

LEMMA LabelStep == LabelInv /\ [Next]_vars => LabelInv'
<1> SUFFICES ASSUME LabelInv, [Next]_vars
             PROVE  \A q \in Procs : labels'[q] = Labelled(entries'[q])
    BY TypeStep DEF LabelInv
<1>1. TypeOK
    BY DEF LabelInv
<1>2. CASE UNCHANGED vars
    BY <1>2 DEF vars, mem, LabelInv
<1>3. CASE Tick
    BY <1>3 DEF Tick, mem, LabelInv
<1>4. ASSUME NEW p \in Procs, Step(p)
      PROVE  \A q \in Procs : labels'[q] = Labelled(entries'[q])
    <2>1. CASE Create(p)
        BY <2>1 DEF Create, LabelInv
    <2>2. CASE Open(p)
        BY <2>2 DEF Open, LabelInv, TypeOK
    <2>3. CASE Exit(p)
        <3>1. Labelled(<<>>) = {}
            BY DEF Labelled
        <3> QED
            BY <2>3, <3>1 DEF Exit, LabelInv, TypeOK
    <2>4. /\ entries[p] \in Seq(Line) /\ leaf[p] \in Nat
          /\ \A t \in KnownIds(entries[p]) \cup {NoId} : t \in Nat
          /\ NewId(entries[p], uuids) \in Nat
        BY <1>1, KnownIdsType, NewIdType DEF TypeOK, NoId
    <2>5. ASSUME NEW k \in EntryKinds, NEW t \in Nat,
                 AppendEntry(p, Entry(k, NewId(entries[p], uuids), leaf[p], t))
          PROVE  \A q \in Procs : labels'[q] = Labelled(entries'[q])
        <3> DEFINE e == Entry(k, NewId(entries[p], uuids), leaf[p], t)
        <3>1. e \in Line
            BY <2>4, EntryType
        <3>2. \E r : Commit(p, Append(entries[p], e), e, r)
            BY <2>5 DEF AppendEntry
        <3> HIDE DEF e
        <3>3. LabelsAfterEntry(Labelled(entries[p]), e) = Labelled(Append(entries[p], e))
            BY <2>4, <3>1, LabelledAppend
        <3> QED
            BY <3>2, <3>3, CommitLabels
    <2>6. ASSUME NEW k \in ContentKinds, AppendContent(p, k)
          PROVE  \A q \in Procs : labels'[q] = Labelled(entries'[q])
        BY <2>5, <2>6 DEF AppendContent, EntryKinds, NoId
    <2>7. ASSUME NEW k \in {"label", "unlabel"}, NEW t \in KnownIds(entries[p]),
                 AppendLabel(p, k, t)
          PROVE  \A q \in Procs : labels'[q] = Labelled(entries'[q])
        BY <2>4, <2>5, <2>7 DEF AppendLabel, EntryKinds
    <2>8. ASSUME NEW t \in KnownIds(entries[p]) \cup {NoId}, MoveTo(p, t)
          PROVE  \A q \in Procs : labels'[q] = Labelled(entries'[q])
        BY <2>4, <2>5, <2>8 DEF MoveTo, EntryKinds
    <2>9. ASSUME NEW t \in KnownIds(entries[p]) \cup {NoId}, MoveToWithSummary(p, t)
          PROVE  \A q \in Procs : labels'[q] = Labelled(entries'[q])
        <3> DEFINE e1  == Entry("leaf", NewId(entries[p], uuids), leaf[p], t)
                   es1 == Append(entries[p], e1)
                   u1  == UuidsAfter(uuids, e1.id)
                   e2  == Entry("summary", NewId(es1, u1), t, t)
                   es2 == Append(es1, e2)
        <3>1. (\E r : Commit(p, es1, e1, r)) \/ (\E r : Commit(p, es2, e2, r))
            BY <2>9 DEF MoveToWithSummary
        <3>2. e1 \in Line /\ e1.kind = "leaf" /\ u1 \in Nat
            BY <1>1, <2>4, EntryType, NewIdType DEF EntryKinds, Entry, TypeOK
        <3>3. e2 \in Line /\ e2.kind = "summary"
            <4> HIDE DEF u1, es1
            <4>1. NewId(es1, u1) \in Nat
                BY <1>1, <3>2, NewIdType DEF TypeOK
            <4> QED
                BY <2>4, <4>1, EntryType DEF EntryKinds, Entry
        <3> HIDE DEF e1, e2
        <3>4. es1 \in Seq(Line) /\ Labelled(es1) = LabelsAfterEntry(Labelled(entries[p]), e1)
            BY <2>4, <3>2, LabelledAppend, AppendProperties
        <3> HIDE DEF es1
        <3>5. Labelled(es2) = LabelsAfterEntry(Labelled(es1), e2)
            BY <3>3, <3>4, LabelledAppend
        <3>6. LabelsAfterEntry(Labelled(entries[p]), e2) = Labelled(es2)
            BY <3>2, <3>3, <3>4, <3>5 DEF LabelsAfterEntry
        <3> HIDE DEF es2
        <3> QED
            BY <3>1, <3>4, <3>6, CommitLabels
    <2> QED
        BY <1>4, <2>1, <2>2, <2>3, <2>6, <2>7, <2>8, <2>9 DEF Step
<1> QED
    BY <1>2, <1>3, <1>4 DEF Next
-----------------------------------------------------------------------------
(* The order of the entries: what an entry hangs under comes before it, and  *)
(* before every other entry that another process gave the same short id.     *)

Before(ls, x, y) ==
    \E j \in 1..Len(ls) :
        ls[j].id = x /\ \A k \in 1..Len(ls) : ls[k].id = y => j < k

Ordered(ls) ==
    \A i \in 1..Len(ls) : ls[i].parent = NoId \/ Before(ls, ls[i].parent, ls[i].id)

\* The short ids of the windows so far, and the full UUIDs.
Issued(c, u) == (1..c) \cup ((MaxWindow + 1)..(MaxWindow + u))

\* What a process holds that lacks the id of the current window is older, in
\* the file, than whatever another process has written under that id.
Behind(ls, es, c) == c \in Ids(es) \/ \A y \in Ids(es) : Before(ls, y, c)

FileOrdered(d, c, u) == Ids(d.lines) \subseteq Issued(c, u) /\ Ordered(d.lines)

MemoryOrdered(d, fl, es, c, u) ==
    /\ Ids(es) \subseteq Issued(c, u)
    /\ Ordered(es)
    /\ fl => Behind(d.lines, es, c)

\* Whatever memory was in order over the file d is in order over the file x.
StillOrdered(d, x, c, u, v) ==
    \A fs \in Seq(Line) : MemoryOrdered(d, TRUE, fs, c, u) => MemoryOrdered(x, TRUE, fs, c, v)

LEMMA BeforeAppend ==
    ASSUME NEW ls \in Seq(Line), NEW e \in Line, NEW x, NEW y, Before(ls, x, y)
    PROVE  Before(Append(ls, e), x, y)
<1>1. /\ Len(Append(ls, e)) = Len(ls) + 1
      /\ \A i \in 1..Len(ls) : Append(ls, e)[i] = ls[i]
      /\ Len(ls) \in Nat
    BY AppendProperties, LenProperties
<1> DEFINE t == Append(ls, e)
<1> HIDE DEF t
<1>2. PICK j \in 1..Len(ls) : ls[j].id = x /\ \A k \in 1..Len(ls) : ls[k].id = y => j < k
    BY DEF Before
<1>3. ASSUME NEW k \in 1..Len(t), t[k].id = y PROVE j < k
    <2>1. CASE k \in 1..Len(ls)
        BY <1>1, <1>2, <1>3, <2>1 DEF t
    <2>2. CASE k = Len(ls) + 1
        BY <1>1, <2>2
    <2> QED
        BY <1>1, <2>1, <2>2 DEF t
<1>4. j \in 1..Len(t) /\ t[j].id = x
    BY <1>1, <1>2 DEF t
<1> QED
    BY <1>3, <1>4 DEF Before, t

\* An id that a sequence has comes before one that it has not.
LEMMA BeforeUnknown ==
    ASSUME NEW ls, NEW x \in Ids(ls), NEW y, y \notin Ids(ls)
    PROVE  Before(ls, x, y)
BY DEF Before, Ids

LEMMA OrderedAppend ==
    ASSUME NEW ls \in Seq(Line), NEW e \in Line, Ordered(ls),
           e.parent = NoId \/ Before(ls, e.parent, e.id)
    PROVE  Ordered(Append(ls, e))
<1> DEFINE t == Append(ls, e)
<1>1. /\ Len(t) = Len(ls) + 1
      /\ \A i \in 1..Len(ls) : t[i] = ls[i]
      /\ t[Len(ls) + 1] = e
      /\ Len(ls) \in Nat
    BY AppendProperties, LenProperties
<1>2. \A x, y : Before(ls, x, y) => Before(t, x, y)
    BY BeforeAppend
<1> HIDE DEF t
<1>3. ASSUME NEW i \in 1..Len(t)
      PROVE  t[i].parent = NoId \/ Before(t, t[i].parent, t[i].id)
    <2>1. CASE i \in 1..Len(ls)
        BY <1>1, <1>2, <2>1 DEF Ordered
    <2>2. CASE i = Len(ls) + 1
        BY <1>1, <1>2, <2>2
    <2> QED
        BY <1>1, <2>1, <2>2
<1> QED
    BY <1>3 DEF Ordered, t

\* createEntryIDLocked: the new id is unknown to the process, and a UUID is
\* taken only where the short id is known already.
LEMMA NewIdFresh ==
    ASSUME clock \in 1..MaxWindow, NEW u \in Nat, NEW es, Closed(es),
           Ids(es) \subseteq Issued(clock, u), NEW i, i = NewId(es, u)
    PROVE  /\ i \in Nat \ {NoId} /\ i \notin Ids(es)
           /\ UuidsAfter(u, i) \in u..(u + 1)
           /\ i \in Issued(clock, UuidsAfter(u, i))
           /\ Issued(clock, u) \subseteq Issued(clock, UuidsAfter(u, i))
           /\ i # clock => clock \in Ids(es) /\ i \notin Issued(clock, u)
<1>1. MaxWindow \in Nat \ {0} /\ clock \in Nat
    BY BoundsAssumption
<1>2. KnownIds(es) = Ids(es)
    BY ClosedIds
<1>3. CASE clock \notin Ids(es)
    <2>1. i = clock /\ UuidsAfter(u, i) = u
        BY <1>1, <1>2, <1>3 DEF NewId, UuidsAfter
    <2> QED
        BY <1>1, <1>3, <2>1 DEF Issued, NoId
<1>4. CASE clock \in Ids(es)
    <2>1. i = MaxWindow + u + 1 /\ UuidsAfter(u, i) = u + 1
        BY <1>1, <1>2, <1>4 DEF NewId, UuidsAfter
    <2> QED
        BY <1>1, <1>4, <2>1 DEF Issued, NoId
<1> QED
    BY <1>3, <1>4

\* A write that goes well keeps the order, of the file, of the writer and of
\* everybody else.
LEMMA OrderedWrite ==
    ASSUME NEW d \in Disk, NEW fl \in BOOLEAN, NEW es \in Seq(Line), NEW e \in Line,
           clock \in 1..MaxWindow, NEW u \in Nat, NEW v, v = UuidsAfter(u, e.id),
           Writable(d, fl, es, e), e.id = NewId(es, u),
           FileOrdered(d, clock, u), MemoryOrdered(d, fl, es, clock, u),
           NEW r \in Results(d, fl, Append(es, e), e), r.ok
    PROVE  /\ FileOrdered(r.disk, clock, v)
           /\ MemoryOrdered(r.disk, r.flushed, Append(es, e), clock, v)
           /\ fl => StillOrdered(d, r.disk, clock, u, v)
<1>1. /\ Closed(es) /\ e.parent \in Ids(es) \cup {NoId}
      /\ fl => d.header /\ Ids(es) \subseteq Ids(d.lines)
      /\ ~fl => d = EmptyDisk
      /\ ~d.torn
    BY DEF Writable, Held, DiskWhole
<1>2. /\ e.id \notin Ids(es) /\ e.id \in Issued(clock, v) /\ v \in Nat
      /\ Issued(clock, u) \subseteq Issued(clock, v)
      /\ e.id # clock => clock \in Ids(es) /\ e.id \notin Issued(clock, u)
    BY <1>1, NewIdFresh DEF MemoryOrdered
<1>3. Ids(Append(es, e)) = Ids(es) \cup {e.id} /\ Append(es, e) \in Seq(Line)
    BY AppendSets, AppendProperties
<1>4. Ordered(Append(es, e))
    BY <1>1, <1>2, BeforeUnknown, OrderedAppend DEF MemoryOrdered
<1>5. Ids(Append(es, e)) \subseteq Issued(clock, v) /\ clock \in Ids(Append(es, e))
    BY <1>2, <1>3 DEF MemoryOrdered
<1>6. \A x : MemoryOrdered(x, TRUE, Append(es, e), clock, v)
             /\ MemoryOrdered(x, FALSE, Append(es, e), clock, v)
    BY <1>4, <1>5 DEF MemoryOrdered, Behind
<1>7. MemoryOrdered(r.disk, r.flushed, Append(es, e), clock, v)
    BY <1>4, <1>5 DEF MemoryOrdered, Behind
<1>8. CASE fl /\ r.flushed = TRUE /\ r.disk = AppendOk(d, e)
    <2>1. r.disk.lines = Append(d.lines, e) /\ d.lines \in Seq(Line)
        BY <1>1, <1>8 DEF AppendOk, Glued, Disk
    <2>2. Ids(Append(d.lines, e)) = Ids(d.lines) \cup {e.id}
        BY <2>1, AppendSets
    <2>3. e.parent = NoId \/ Before(d.lines, e.parent, e.id)
        <3>1. CASE e.id = clock
            <4>1. Behind(d.lines, es, clock)
                BY <1>8 DEF MemoryOrdered
            <4> QED
                BY <1>1, <1>2, <3>1, <4>1 DEF Behind
        <3>2. CASE e.id # clock
            <4>1. e.id \notin Ids(d.lines)
                BY <1>2, <3>2 DEF FileOrdered
            <4> QED
                BY <1>1, <1>8, <4>1, BeforeUnknown
        <3> QED
            BY <3>1, <3>2
    <2>4. Ordered(Append(d.lines, e))
        BY <2>1, <2>3, OrderedAppend DEF FileOrdered
    <2>5. FileOrdered(r.disk, clock, v)
        BY <1>2, <2>1, <2>2, <2>4 DEF FileOrdered
    <2>6. ASSUME NEW fs \in Seq(Line), MemoryOrdered(d, TRUE, fs, clock, u)
          PROVE  MemoryOrdered(r.disk, TRUE, fs, clock, v)
        <3>1. Behind(d.lines, fs, clock)
            BY <2>6 DEF MemoryOrdered
        <3>2. Behind(Append(d.lines, e), fs, clock)
            BY <2>1, <3>1, BeforeAppend DEF Behind
        <3> QED
            BY <1>2, <2>1, <2>6, <3>2 DEF MemoryOrdered
    <2> QED
        BY <1>7, <2>5, <2>6 DEF StillOrdered
<1>9. CASE ~fl /\ r.flushed = FALSE /\ r.disk = d
    BY <1>2, <1>7, <1>9 DEF FileOrdered
<1>10. CASE ~fl /\ r.flushed = TRUE /\ r.disk = FlushOk(Append(es, e))
    <2>1. r.disk.lines = Append(es, e)
        BY <1>10 DEF FlushOk
    <2> QED
        BY <1>4, <1>5, <1>7, <1>10, <2>1 DEF FileOrdered
<1> QED
    BY <1>8, <1>9, <1>10, OkResults
Sorted ==
    /\ FileOrdered(disk, clock, uuids)
    /\ \A p \in Procs :
           up[p] => MemoryOrdered(disk, flushed[p], entries[p], clock, uuids)

OrderInv == IInv /\ uuids <= MaxUuids /\ (faults = 0 => Sorted)

\* What a step of p that wrote well must show to keep everything in order.
LEMMA OrderedCommit ==
    ASSUME TypeOK, Whole, Sorted, NEW p \in Procs, up[p], NEW es, NEW e, NEW r, NEW v,
           Commit(p, es, e, r), uuids' = v,
           FileOrdered(r.disk, clock, v), MemoryOrdered(r.disk, r.flushed, es, clock, v),
           flushed[p] => StillOrdered(disk, r.disk, clock, uuids, v)
    PROVE  Sorted'
<1>1. /\ disk' = r.disk /\ up' = up /\ clock' = clock
      /\ entries' = [entries EXCEPT ![p] = es]
      /\ flushed' = [flushed EXCEPT ![p] = r.flushed]
    BY DEF Commit
<1>2. ASSUME NEW q \in Procs, up[q], q # p
      PROVE  MemoryOrdered(r.disk, flushed[q], entries[q], clock, v)
    <2>1. flushed[p] /\ flushed[q]
        BY <1>2 DEF Whole, Alone
    <2>2. flushed[q] = TRUE /\ entries[q] \in Seq(Line)
        BY <2>1 DEF TypeOK
    <2>3. MemoryOrdered(disk, TRUE, entries[q], clock, uuids)
        BY <1>2, <2>2 DEF Sorted
    <2> QED
        BY <2>1, <2>2, <2>3 DEF StillOrdered
<1>3. ASSUME NEW q \in Procs, up'[q]
      PROVE  MemoryOrdered(disk', flushed'[q], entries'[q], clock', uuids')
    <2>1. CASE q = p
        BY <1>1, <2>1 DEF TypeOK
    <2>2. CASE q # p
        <3>1. up[q] /\ flushed'[q] = flushed[q] /\ entries'[q] = entries[q]
            BY <1>1, <1>3, <2>2 DEF TypeOK
        <3> QED
            BY <1>1, <1>2, <2>2, <3>1
    <2> QED
        BY <2>1, <2>2
<1>4. FileOrdered(disk', clock', uuids')
    BY <1>1
<1> QED
    BY <1>3, <1>4 DEF Sorted

LEMMA AppendEntryOrdered ==
    ASSUME TypeOK, Whole, Sorted, NEW p \in Procs, up[p], NEW e \in Line, IsEntry(e),
           e.parent \in Ids(entries[p]) \cup {NoId}, e.target \in Ids(entries[p]) \cup {NoId},
           e.id = NewId(entries[p], uuids),
           AppendEntry(p, e), faults' = 0
    PROVE  Sorted'
<1> DEFINE es == Append(entries[p], e)
<1>1. PICK r \in Results(disk, flushed[p], es, e) :
          Commit(p, es, e, r) /\ uuids' = UuidsAfter(uuids, e.id)
    BY DEF AppendEntry
<1>2. r.ok
    BY <1>1 DEF Commit, TypeOK
<1>3. /\ entries[p] \in Seq(Line) /\ disk \in Disk /\ flushed[p] \in BOOLEAN
      /\ clock \in 1..MaxWindow /\ uuids \in Nat
    BY DEF TypeOK
<1>4. Writable(disk, flushed[p], entries[p], e)
    BY DEF Whole, Writable
<1>5. FileOrdered(disk, clock, uuids)
      /\ MemoryOrdered(disk, flushed[p], entries[p], clock, uuids)
    BY DEF Sorted
<1> DEFINE v == UuidsAfter(uuids, e.id)
<1>6. /\ FileOrdered(r.disk, clock, v)
      /\ MemoryOrdered(r.disk, r.flushed, es, clock, v)
      /\ flushed[p] => StillOrdered(disk, r.disk, clock, uuids, v)
    BY <1>1, <1>2, <1>3, <1>4, <1>5, OrderedWrite
<1> HIDE DEF es, v
<1>7. uuids' = v
    BY <1>1 DEF v
<1> QED
    BY <1>1, <1>6, <1>7, OrderedCommit

LEMMA MoveToWithSummaryOrdered ==
    ASSUME TypeOK, Whole, Sorted, NEW p \in Procs, NEW t \in Ids(entries[p]) \cup {NoId},
           MoveToWithSummary(p, t), faults' = 0
    PROVE  Sorted'
<1> DEFINE e1  == Entry("leaf", NewId(entries[p], uuids), leaf[p], t)
           es1 == Append(entries[p], e1)
           u1  == UuidsAfter(uuids, e1.id)
           e2  == Entry("summary", NewId(es1, u1), t, t)
           es2 == Append(es1, e2)
           u2  == UuidsAfter(u1, e2.id)
<1>1. up[p]
    BY DEF MoveToWithSummary
<1>2. /\ entries[p] \in Seq(Line) /\ disk \in Disk /\ flushed[p] \in BOOLEAN
      /\ leaf[p] \in Ids(entries[p]) \cup {NoId}
      /\ DiskWhole(disk) /\ Held(disk, flushed[p], entries[p])
      /\ clock \in 1..MaxWindow /\ uuids \in Nat
      /\ FileOrdered(disk, clock, uuids)
      /\ MemoryOrdered(disk, flushed[p], entries[p], clock, uuids)
    BY <1>1 DEF TypeOK, Whole, Sorted
<1>3. t \in Nat /\ leaf[p] \in Nat
    <2>1. KnownIds(entries[p]) = Ids(entries[p])
        BY <1>2, ClosedIds DEF Held
    <2> QED
        BY <1>2, <2>1, KnownIdsType DEF NoId, TypeOK
<1>4. /\ e1 \in Line /\ IsEntry(e1) /\ u1 \in Nat
      /\ e1.parent = leaf[p] /\ e1.target = t /\ e1.id = NewId(entries[p], uuids)
    <2>1. NewId(entries[p], uuids) \in Nat /\ UuidsAfter(uuids, NewId(entries[p], uuids)) \in Nat
        BY NewIdType DEF TypeOK
    <2> QED
        BY <1>3, <2>1 DEF Entry, EntryKinds, Line, IsEntry
<1>5. es1 \in Seq(Line) /\ Ids(es1) = Ids(entries[p]) \cup {e1.id}
    <2> HIDE DEF e1
    <2> QED
        BY <1>2, <1>4, AppendProperties, AppendSets
<1>6. /\ e2 \in Line /\ IsEntry(e2)
      /\ e2.parent = t /\ e2.target = t /\ e2.id = NewId(es1, u1)
    <2> HIDE DEF u1, es1
    <2>1. NewId(es1, u1) \in Nat
        BY <1>2, <1>4, NewIdType DEF TypeOK
    <2> QED
        BY <1>3, <2>1 DEF Entry, EntryKinds, Line, IsEntry
<1>7. PICK r1 \in Results(disk, flushed[p], es1, e1) :
          \/ ~r1.ok /\ Commit(p, es1, e1, r1)
          \/ /\ r1.ok
             /\ \E r2 \in Results(r1.disk, r1.flushed, es2, e2) :
                    Commit(p, es2, e2, r2) /\ uuids' = u2
    BY DEF MoveToWithSummary
<1> HIDE DEF e1, e2, u1, u2
<1>8. r1.ok
    BY <1>7 DEF Commit, TypeOK
<1>9. PICK r2 \in Results(r1.disk, r1.flushed, es2, e2) :
          Commit(p, es2, e2, r2) /\ uuids' = u2
    BY <1>7, <1>8
<1>10. r2.ok
    BY <1>9 DEF Commit, TypeOK
<1>11. r1 \in Outcome
    BY <1>2, <1>4, <1>5, <1>7, ResultsType
<1>12. r1.disk \in Disk /\ r1.flushed \in BOOLEAN
    BY <1>11 DEF Outcome
<1>13. Writable(disk, flushed[p], entries[p], e1)
    BY <1>2, <1>4 DEF Writable
<1>14. Extended(disk, flushed[p], es1, r1)
    BY <1>2, <1>4, <1>7, <1>8, <1>13, OkWrite
<1>15. /\ FileOrdered(r1.disk, clock, u1)
       /\ MemoryOrdered(r1.disk, r1.flushed, es1, clock, u1)
       /\ flushed[p] => StillOrdered(disk, r1.disk, clock, uuids, u1)
    <2>1. u1 = UuidsAfter(uuids, e1.id)
        BY DEF u1
    <2> QED
        BY <1>2, <1>4, <1>7, <1>8, <1>13, <2>1, OrderedWrite
<1> HIDE DEF es1
<1>16. Writable(r1.disk, r1.flushed, es1, e2)
    BY <1>5, <1>6, <1>14 DEF Writable, Extended
<1>17. /\ FileOrdered(r2.disk, clock, u2)
       /\ MemoryOrdered(r2.disk, r2.flushed, es2, clock, u2)
       /\ r1.flushed => StillOrdered(r1.disk, r2.disk, clock, u1, u2)
    <2>1. u2 = UuidsAfter(u1, e2.id)
        BY DEF u2
    <2> QED
        BY <1>2, <1>4, <1>5, <1>6, <1>9, <1>10, <1>12, <1>15, <1>16, <2>1, OrderedWrite
<1>18. flushed[p] => r1.flushed
    BY <1>14 DEF Extended
<1> HIDE DEF es2
<1>19. flushed[p] => StillOrdered(disk, r2.disk, clock, uuids, u2)
    BY <1>15, <1>17, <1>18 DEF StillOrdered
<1> QED
    BY <1>1, <1>9, <1>17, <1>19, OrderedCommit

\* A new window: its short id is in no file.
LEMMA TickOrdered ==
    ASSUME TypeOK, Whole, Sorted, Tick
    PROVE  Sorted'
<1>1. /\ disk' = disk /\ up' = up /\ entries' = entries /\ flushed' = flushed
      /\ uuids' = uuids /\ clock' = clock + 1 /\ clock + 1 <= MaxWindow
      /\ clock \in Nat /\ uuids \in Nat /\ MaxWindow \in Nat
    BY BoundsAssumption DEF Tick, TypeOK, mem
<1>2. Issued(clock, uuids) \subseteq Issued(clock + 1, uuids)
      /\ clock + 1 \notin Issued(clock, uuids)
    BY <1>1 DEF Issued
<1>3. FileOrdered(disk, clock + 1, uuids) /\ clock + 1 \notin Ids(disk.lines)
    BY <1>2 DEF Sorted, FileOrdered
<1>4. ASSUME NEW p \in Procs, up[p]
      PROVE  MemoryOrdered(disk, flushed[p], entries[p], clock + 1, uuids)
    <2>1. MemoryOrdered(disk, flushed[p], entries[p], clock, uuids)
          /\ Held(disk, flushed[p], entries[p])
        BY <1>4 DEF Sorted, Whole
    <2>2. flushed[p] => Behind(disk.lines, entries[p], clock + 1)
        BY <1>3, <2>1, BeforeUnknown DEF Held, Behind
    <2> QED
        BY <1>2, <2>1, <2>2 DEF MemoryOrdered
<1> QED
    BY <1>1, <1>3, <1>4 DEF Sorted

LEMMA SwitchOrdered ==
    ASSUME TypeOK, Cleared, Whole, Sorted, NEW p \in Procs, Create(p) \/ Open(p) \/ Exit(p)
    PROVE  Sorted'
<1>1. CASE Create(p)
    <2>1. /\ disk' = disk /\ clock' = clock /\ uuids' = uuids /\ entries' = entries
          /\ flushed' = flushed /\ ~flushed[p] /\ entries[p] = <<>>
          /\ \A q \in Procs : up'[q] => q = p
        BY <1>1 DEF Create, Cleared, TypeOK
    <2>2. MemoryOrdered(disk, flushed[p], entries[p], clock, uuids)
        BY <2>1 DEF MemoryOrdered, Ids, Ordered
    <2> QED
        BY <2>1, <2>2 DEF Sorted
<1>2. CASE Open(p)
    <2>1. /\ disk' = disk /\ clock' = clock /\ uuids' = uuids
          /\ up' = [up EXCEPT ![p] = TRUE]
          /\ entries' = [entries EXCEPT ![p] = disk.lines]
          /\ flushed' = [flushed EXCEPT ![p] = TRUE]
        BY <1>2 DEF Open
    <2>2. Behind(disk.lines, disk.lines, clock)
        BY BeforeUnknown DEF Behind
    <2>3. MemoryOrdered(disk, TRUE, disk.lines, clock, uuids)
        BY <2>2 DEF Sorted, FileOrdered, MemoryOrdered
    <2>4. ASSUME NEW q \in Procs, up'[q]
          PROVE  MemoryOrdered(disk, flushed'[q], entries'[q], clock, uuids)
        <3>1. CASE q = p
            BY <2>1, <2>3, <3>1 DEF TypeOK
        <3>2. CASE q # p
            BY <2>1, <2>4, <3>2 DEF TypeOK, Sorted
        <3> QED
            BY <3>1, <3>2
    <2> QED
        BY <2>1, <2>4 DEF Sorted
<1>3. CASE Exit(p)
    <2>1. /\ disk' = disk /\ clock' = clock /\ uuids' = uuids
          /\ \A q \in Procs : up'[q] => q # p /\ up[q]
          /\ \A q \in Procs : q # p => entries'[q] = entries[q] /\ flushed'[q] = flushed[q]
        BY <1>3 DEF Exit, TypeOK
    <2> QED
        BY <2>1 DEF Sorted
<1> QED
    BY <1>1, <1>2, <1>3

\* A step that writes or moves the clock: no fault is forgotten.
LEMMA FaultsGrow == TypeOK /\ [Next]_vars /\ faults' = 0 => faults = 0
<1> SUFFICES ASSUME TypeOK, [Next]_vars, faults' = 0 PROVE faults = 0
    OBVIOUS
<1>1. ASSUME NEW p \in Procs, Step(p) PROVE faults = 0
    <2>1. CASE Create(p) \/ Open(p) \/ Exit(p)
        BY <2>1 DEF Create, Open, Exit
    <2>2. CASE \E es, e, r : Commit(p, es, e, r)
        BY <2>2 DEF Commit, TypeOK
    <2> QED
        BY <1>1, <2>1, <2>2
           DEF Step, AppendContent, AppendLabel, MoveTo, MoveToWithSummary, AppendEntry
<1> QED
    BY <1>1 DEF Next, Tick, vars

\* The bound on the full UUIDs.
LEMMA UuidsBounded == TypeOK /\ uuids <= MaxUuids /\ [Next]_vars => uuids' <= MaxUuids
<1> SUFFICES ASSUME TypeOK, uuids <= MaxUuids, [Next]_vars PROVE uuids' <= MaxUuids
    OBVIOUS
<1>1. uuids \in Nat /\ MaxUuids \in Nat
    BY BoundsAssumption DEF TypeOK
<1>2. \A u \in Nat : \A i : UuidsAfter(u, i) \in {u, u + 1}
    BY DEF UuidsAfter
<1>3. ASSUME NEW p \in Procs, NEW e, Room(p, 1), AppendEntry(p, e) PROVE uuids' <= MaxUuids
    BY <1>1, <1>2, <1>3 DEF Room, AppendEntry
<1>4. ASSUME NEW p \in Procs, NEW t, MoveToWithSummary(p, t) PROVE uuids' <= MaxUuids
    <2>1. PICK i, j : \/ uuids' = UuidsAfter(uuids, i)
                      \/ uuids' = UuidsAfter(UuidsAfter(uuids, i), j)
        BY <1>4 DEF MoveToWithSummary
    <2>2. uuids + 2 <= MaxUuids
        BY <1>4 DEF MoveToWithSummary, Room
    <2>3. PICK u \in {uuids, uuids + 1} : u = UuidsAfter(uuids, i)
        BY <1>1, <1>2
    <2>4. uuids' = u \/ uuids' \in {u, u + 1}
        BY <1>1, <1>2, <2>1, <2>3
    <2> QED
        BY <1>1, <2>2, <2>3, <2>4
<1>5. ASSUME NEW p \in Procs, Step(p) PROVE uuids' <= MaxUuids
    BY <1>3, <1>4, <1>5 DEF Step, Create, Open, Exit, AppendContent, AppendLabel, MoveTo
<1> QED
    BY <1>5 DEF Next, Tick, vars

LEMMA NextOrderInv == OrderInv /\ [Next]_vars => OrderInv'
<1> SUFFICES ASSUME OrderInv, [Next]_vars PROVE OrderInv'
    OBVIOUS
<1>1. IInv' /\ IInv /\ TypeOK /\ Cleared
    BY NextIInv DEF OrderInv, IInv
<1>2. uuids' <= MaxUuids
    BY <1>1, UuidsBounded DEF OrderInv
<1> SUFFICES ASSUME faults' = 0 PROVE Sorted'
    BY <1>1, <1>2 DEF OrderInv
<1>3. Whole /\ Sorted
    BY <1>1, FaultsGrow DEF OrderInv, IInv
<1>4. CASE UNCHANGED vars
    BY <1>3, <1>4 DEF vars, mem, Sorted
<1>5. CASE Tick
    BY <1>1, <1>3, <1>5, TickOrdered
<1>6. ASSUME NEW p \in Procs, Step(p) PROVE Sorted'
    <2>1. CASE Create(p) \/ Open(p) \/ Exit(p)
        BY <1>1, <1>3, <2>1, SwitchOrdered
    <2>2. ASSUME up[p], NEW k \in EntryKinds, NEW t \in KnownIds(entries[p]) \cup {NoId},
                 AppendEntry(p, Entry(k, NewId(entries[p], uuids), leaf[p], t))
          PROVE  Sorted'
        <3> DEFINE e == Entry(k, NewId(entries[p], uuids), leaf[p], t)
        <3>1. Closed(entries[p]) /\ leaf[p] \in Ids(entries[p]) \cup {NoId}
            BY <1>3, <2>2 DEF Whole, Held
        <3>2. t \in Ids(entries[p]) \cup {NoId} /\ t \in Nat /\ leaf[p] \in Nat
            BY <1>1, <3>1, ClosedIds, KnownIdsType DEF TypeOK, NoId
        <3>3. NewId(entries[p], uuids) \in Nat
            BY <1>1, NewIdType DEF TypeOK
        <3>4. e \in Line
            BY <3>2, <3>3, EntryType
        <3>5. /\ IsEntry(e) /\ e.parent = leaf[p] /\ e.target = t
              /\ e.id = NewId(entries[p], uuids)
            BY DEF Entry, IsEntry, EntryKinds, ContentKinds
        <3> HIDE DEF e
        <3> QED
            BY <1>1, <1>3, <2>2, <3>1, <3>2, <3>4, <3>5, AppendEntryOrdered DEF e
    <2>3. ASSUME NEW k \in ContentKinds, AppendContent(p, k) PROVE Sorted'
        BY <2>2, <2>3 DEF AppendContent, EntryKinds
    <2>4. ASSUME NEW k \in {"label", "unlabel"}, NEW t \in KnownIds(entries[p]),
                 AppendLabel(p, k, t)
          PROVE  Sorted'
        BY <2>2, <2>4 DEF AppendLabel, EntryKinds
    <2>5. ASSUME NEW t \in KnownIds(entries[p]) \cup {NoId}, MoveTo(p, t) PROVE Sorted'
        BY <2>2, <2>5 DEF MoveTo, EntryKinds
    <2>6. ASSUME NEW t \in KnownIds(entries[p]) \cup {NoId}, MoveToWithSummary(p, t)
          PROVE  Sorted'
        <3>1. up[p]
            BY <2>6 DEF MoveToWithSummary
        <3>2. t \in Ids(entries[p]) \cup {NoId}
            BY <1>3, <3>1, ClosedIds DEF Whole, Held
        <3> QED
            BY <1>1, <1>3, <2>6, <3>2, MoveToWithSummaryOrdered
    <2> QED
        BY <1>6, <2>1, <2>3, <2>4, <2>5, <2>6 DEF Step
<1> QED
    BY <1>4, <1>5, <1>6 DEF Next

LEMMA InitOrderInv == Init => OrderInv
<1> SUFFICES ASSUME Init PROVE OrderInv
    OBVIOUS
<1>1. FileOrdered(disk, clock, uuids)
    BY DEF Init, EmptyDisk, FileOrdered, Ids, Ordered
<1>2. \A p \in Procs : ~up[p]
    BY DEF Init
<1> QED
    BY <1>1, <1>2, InitIInv, BoundsAssumption DEF Init, OrderInv, Sorted
-----------------------------------------------------------------------------
(* The walk to the root.                                                   *)

\* The order of the naturals as a relation.
Below == OpToRel(<, Nat)

\* A set of naturals that is not empty has a least one.
LEMMA LeastExists ==
    ASSUME NEW T, T \subseteq Nat, T # {}
    PROVE  \E x \in T : \A y \in T : x <= y
<1>1. IsWellFoundedOn(Below, Nat)
    BY NatLessThanWellFounded DEF Below
<1>2. \A x, y \in Nat : <<x, y>> \in Below <=> x < y
    BY DEF Below, OpToRel
<1>3. PICK x \in T : \A y \in T : ~(<<y, x>> \in Below)
    BY <1>1, WFMin
<1>4. ASSUME NEW y \in T PROVE x <= y
    <2>1. x \in Nat /\ y \in Nat
        OBVIOUS
    <2>2. ~(y < x)
        BY <1>2, <1>3, <2>1
    <2> QED
        BY <2>1, <2>2
<1> QED
    BY <1>4

\* Induction over the naturals, with a set for the predicate.
LEMMA UpFromZero ==
    ASSUME NEW S, 0 \in S, \A n \in Nat : n \in S => n + 1 \in S
    PROVE  Nat \subseteq S
<1> DEFINE T == Nat \ S
<1> SUFFICES ASSUME T # {} PROVE FALSE
    OBVIOUS
<1>1. PICK x \in T : \A y \in T : x <= y
    BY LeastExists
<1>2. x \in Nat /\ x # 0 /\ x - 1 \in Nat
    BY <1>1
<1>3. x - 1 \in S
    BY <1>1, <1>2
<1>4. (x - 1) + 1 \in S
    BY <1>2, <1>3
<1> QED
    BY <1>1, <1>2, <1>4

\* The positions of a set below a bound have a last one.
LEMMA LastPosition ==
    ASSUME NEW n \in Nat, NEW T, T \subseteq 1..n, T # {}
    PROVE  \E x \in T : \A y \in T : y <= x
<1> DEFINE U == {n - t : t \in T}
<1>1. U \subseteq Nat /\ U # {}
    <2>1. \A t \in 1..n : n - t \in Nat
        OBVIOUS
    <2>2. \A t \in T : n - t \in Nat
        BY <2>1
    <2> QED
        BY <2>2
<1>2. PICK u \in U : \A y \in U : u <= y
    BY <1>1, LeastExists
<1>3. PICK x \in T : u = n - x
    OBVIOUS
<1>4. ASSUME NEW y \in T PROVE y <= x
    <2>1. n - y \in U
        OBVIOUS
    <2> QED
        BY <1>2, <1>3, <2>1
<1> QED
    BY <1>4

\* One turn of the loop of GetPathToRoot.
Climb(es, x) == IF x \notin KnownIds(es) THEN x ELSE es[IndexOf(es, x)].parent

\* Walk is the function its definition describes.
LEMMA WalkClimbs ==
    ASSUME NEW es \in Seq(Line), NEW lf
    PROVE  /\ Walk(es, lf)[0] = lf
           /\ \A n \in 1..Len(es) : Walk(es, lf)[n] = Climb(es, Walk(es, lf)[n - 1])
<1> DEFINE Walks(f, m) == f = [n \in 0..m |-> IF n = 0 THEN lf
                                 ELSE IF f[n - 1] \notin KnownIds(es) THEN f[n - 1]
                                 ELSE es[IndexOf(es, f[n - 1])].parent]
           S == {m \in Nat : \E f : Walks(f, m)}
<1>1. 0 \in S
    <2> DEFINE f == [n \in 0..0 |-> lf]
    <2>1. Walks(f, 0)
        OBVIOUS
    <2> QED
        BY <2>1
<1>2. ASSUME NEW m \in Nat, m \in S PROVE m + 1 \in S
    <2>1. PICK f : Walks(f, m)
        BY <1>2
    <2> DEFINE g == [n \in 0..(m + 1) |-> IF n = m + 1 THEN Climb(es, f[m]) ELSE f[n]]
               body(n) == IF n = 0 THEN lf
                          ELSE IF g[n - 1] \notin KnownIds(es) THEN g[n - 1]
                          ELSE es[IndexOf(es, g[n - 1])].parent
    <2>2. ASSUME NEW n \in 0..(m + 1) PROVE g[n] = body(n)
        <3>1. CASE n = 0
            <4>1. 0 \in 0..m /\ 0 # m + 1
                OBVIOUS
            <4> QED
                BY <2>1, <3>1, <4>1
        <3>2. CASE n = m + 1
            <4>1. n - 1 = m /\ m \in 0..(m + 1) /\ m # m + 1 /\ n # 0
                BY <3>2
            <4>2. g[n - 1] = f[m] /\ g[n] = Climb(es, f[m])
                BY <3>2, <4>1
            <4> QED
                BY <4>1, <4>2 DEF Climb
        <3>3. CASE n \in 1..m
            <4>1. n # 0 /\ n - 1 \in 0..(m + 1) /\ n - 1 # m + 1 /\ n # m + 1 /\ n \in 0..m
                BY <3>3
            <4>2. g[n - 1] = f[n - 1] /\ g[n] = f[n]
                BY <4>1
            <4>3. f[n] = IF f[n - 1] \notin KnownIds(es) THEN f[n - 1]
                         ELSE es[IndexOf(es, f[n - 1])].parent
                BY <2>1, <4>1
            <4> QED
                BY <4>1, <4>2, <4>3
        <3> QED
            BY <3>1, <3>2, <3>3
    <2>3. g = [n \in 0..(m + 1) |-> body(n)]
        <3> HIDE DEF body
        <3> QED
            BY <2>2
    <2>4. Walks(g, m + 1)
        BY <2>3
    <2> HIDE DEF g, Walks
    <2> QED
        BY <2>4
<1>3. Len(es) \in S
    <2>1. Len(es) \in Nat
        BY LenProperties
    <2>2. Nat \subseteq S
        <3> HIDE DEF S
        <3> QED
            BY <1>1, <1>2, UpFromZero
    <2> QED
        BY <2>1, <2>2
<1>4. \E f : Walks(f, Len(es))
    BY <1>3
<1>5. Walk(es, lf) = CHOOSE f : Walks(f, Len(es))
    BY DEF Walk
<1>6. Walks(Walk(es, lf), Len(es))
    <2> HIDE DEF Walks
    <2> QED
        BY <1>4, <1>5
<1> DEFINE w == Walk(es, lf)
<1> HIDE DEF w
<1>7. /\ w[0] = lf
      /\ \A n \in 1..Len(es) : w[n] = IF w[n - 1] \notin KnownIds(es) THEN w[n - 1]
                                      ELSE es[IndexOf(es, w[n - 1])].parent
    <2>1. Len(es) \in Nat
        BY LenProperties
    <2>2. Walks(w, Len(es))
        BY <1>6 DEF w
    <2> QED
        BY <2>1, <2>2
<1> QED
    BY <1>7 DEF Climb, w

\* byID has an entry with a known id, the last one.
LEMMA IndexFinds ==
    ASSUME NEW es \in Seq(Line), NEW x \in KnownIds(es)
    PROVE  IndexOf(es, x) \in 1..Len(es) /\ es[IndexOf(es, x)].id = x
<1> DEFINE T == {i \in 1..Len(es) : IsEntry(es[i]) /\ es[i].id = x}
           Sought(i) == /\ IsEntry(es[i]) /\ es[i].id = x
                        /\ \A j \in (i + 1)..Len(es) : ~(IsEntry(es[j]) /\ es[j].id = x)
<1>1. Len(es) \in Nat
    BY LenProperties
<1>2. T \subseteq 1..Len(es) /\ T # {}
    BY DEF KnownIds
<1>3. PICK i \in T : \A j \in T : j <= i
    <2> HIDE DEF T
    <2> QED
        BY <1>1, <1>2, LastPosition
<1>4. i \in 1..Len(es) /\ Sought(i)
    <2>1. ASSUME NEW j \in (i + 1)..Len(es), IsEntry(es[j]) /\ es[j].id = x PROVE FALSE
        <3>1. j \in 1..Len(es)
            BY <1>1
        <3>2. j \in T
            BY <2>1, <3>1
        <3> QED
            BY <1>1, <1>3, <3>2
    <2> QED
        BY <2>1
<1>5. IndexOf(es, x) = CHOOSE n \in 1..Len(es) : Sought(n)
    BY DEF IndexOf
<1> HIDE DEF Sought
<1>6. IndexOf(es, x) \in 1..Len(es) /\ Sought(IndexOf(es, x))
    BY <1>4, <1>5
<1> QED
    BY <1>6 DEF Sought

\* Every turn of the loop goes to an earlier entry, so it comes to the root.
LEMMA WalkEnds ==
    ASSUME NEW es \in Seq(Line), Closed(es), Ordered(es), NoId \notin Ids(es),
           NEW lf \in Ids(es) \cup {NoId}
    PROVE  Walk(es, lf)[Len(es)] = NoId
<1> DEFINE w == Walk(es, lf)
           Near(n) == w[n] = NoId \/ \E j \in 1..(Len(es) - n) : es[j].id = w[n]
           S == {n \in Nat : n <= Len(es) => Near(n)}
<1>1. Len(es) \in Nat /\ KnownIds(es) = Ids(es)
    BY LenProperties, ClosedIds
<1>2. 0 \in S
    BY <1>1, WalkClimbs DEF Ids
<1>3. ASSUME NEW n \in Nat, n \in S PROVE n + 1 \in S
    <2> SUFFICES ASSUME n + 1 <= Len(es) PROVE Near(n + 1)
        OBVIOUS
    <2>1. Near(n)
        BY <1>1, <1>3
    <2>2. w[n + 1] = Climb(es, w[n])
        <3>1. n + 1 \in 1..Len(es) /\ (n + 1) - 1 = n
            BY <1>1
        <3> QED
            BY <3>1, WalkClimbs
    <2> HIDE DEF w
    <2>3. CASE w[n] = NoId
        BY <1>1, <2>2, <2>3 DEF Climb
    <2>4. CASE w[n] # NoId
        <3>1. PICK j \in 1..(Len(es) - n) : es[j].id = w[n]
            BY <2>1, <2>4
        <3>2. j \in 1..Len(es) /\ w[n] \in KnownIds(es)
            BY <1>1, <3>1 DEF Ids
        <3>3. PICK i \in 1..Len(es) : i = IndexOf(es, w[n]) /\ es[i].id = w[n]
            BY <3>2, IndexFinds
        <3>4. w[n + 1] = es[i].parent
            BY <2>2, <3>2, <3>3 DEF Climb
        <3>5. CASE es[i].parent = NoId
            BY <3>4, <3>5
        <3>6. CASE es[i].parent # NoId
            <4>1. Before(es, w[n + 1], w[n])
                BY <3>3, <3>4, <3>6 DEF Ordered
            <4>2. PICK h \in 1..Len(es) : es[h].id = w[n + 1] /\ h < j
                BY <3>1, <3>2, <4>1 DEF Before
            <4>3. h \in 1..(Len(es) - (n + 1))
                BY <1>1, <3>1, <4>2
            <4> QED
                BY <4>2, <4>3
        <3> QED
            BY <3>5, <3>6
    <2> QED
        BY <2>3, <2>4
<1>4. Nat \subseteq S
    <2> HIDE DEF S
    <2> QED
        BY <1>2, <1>3, UpFromZero
<1>5. Near(Len(es))
    BY <1>1, <1>4
<1> QED
    BY <1>1, <1>5

\* The log in memory is sound, for any number of processes with any windows of
\* the clock in common.  As long as no write failed, GetPathToRoot ends at the
\* root, whatever ids the processes gave out unknown to each other; and the
\* label cache is always the one that reopening would build.
THEOREM MemoryStaysTrue == Spec => []MemoryTrue
<1>1. OrderInv => PathReachesRoot
    <2> SUFFICES ASSUME OrderInv, faults = 0, NEW p \in Procs, up[p]
                 PROVE  Walk(entries[p], leaf[p])[Len(entries[p])] = NoId
        BY DEF PathReachesRoot
    <2>1. TypeOK /\ Whole /\ Sorted
        BY DEF OrderInv, IInv
    <2>2. /\ entries[p] \in Seq(Line) /\ Closed(entries[p])
          /\ leaf[p] \in Ids(entries[p]) \cup {NoId}
          /\ Ordered(entries[p]) /\ Ids(entries[p]) \subseteq Issued(clock, uuids)
        BY <2>1 DEF TypeOK, Whole, Held, Sorted, MemoryOrdered
    <2>3. NoId \notin Issued(clock, uuids)
        BY <2>1, BoundsAssumption DEF Issued, NoId, TypeOK
    <2> QED
        BY <2>2, <2>3, WalkEnds
<1>2. LabelInv => LabelCacheMatches
    BY DEF LabelInv, LabelCacheMatches
<1>3. Init => LabelInv
    BY InitIInv DEF Init, LabelInv, IInv, Labelled
<1> QED
    BY <1>1, <1>2, <1>3, InitOrderInv, NextOrderInv, LabelStep, PTL DEF Spec, MemoryTrue
-----------------------------------------------------------------------------
(* One process alone implements the tree.                                  *)

\* The nodes of a sequence of entries.
NodesOf(es) ==
    {[id |-> es[i].id, parent |-> es[i].parent] : i \in {j \in 1..Len(es) : IsEntry(es[j])}}

NodeOf(e) == [id |-> e.id, parent |-> e.parent]

\* The holder's memory, once flushed, is the file, and its leaf is the one
\* that reopening would find.
Mirrored ==
    up[Holder] /\ flushed[Holder]
        => entries[Holder] = disk.lines /\ leaf[Holder] = RecoveredLeaf(disk.lines)

HeldAlone ==
    /\ \A p \in Procs \ {Holder} : ~up[p]
    /\ faults = 0 => Mirrored

HistoryInv == OrderInv /\ (part = "faults" => HeldAlone)

LEMMA RecoveredAppend ==
    ASSUME NEW es \in Seq(Line), NEW e \in Line, IsEntry(e)
    PROVE  RecoveredLeaf(Append(es, e)) = LeafAfterEntry(e)
<1> DEFINE ls == Append(es, e)
<1>1. /\ Len(ls) = Len(es) + 1
      /\ ls[Len(es) + 1] = e
      /\ Len(es) \in Nat
    BY AppendProperties, LenProperties
<1> HIDE DEF ls
<1>2. Len(ls) \in 1..Len(ls) /\ LastEntry(ls, Len(ls))
    BY <1>1 DEF LastEntry
<1>3. ASSUME NEW i \in 1..Len(ls), LastEntry(ls, i) PROVE i = Len(ls)
    BY <1>1, <1>3 DEF LastEntry
<1>4. (CHOOSE i \in 1..Len(ls) : LastEntry(ls, i)) = Len(ls)
    BY <1>2, <1>3
<1> QED
    BY <1>1, <1>2, <1>4 DEF RecoveredLeaf, ls

LEMMA NodesAppend ==
    ASSUME NEW es \in Seq(Line), NEW e \in Line, IsEntry(e)
    PROVE  NodesOf(Append(es, e)) = NodesOf(es) \cup {NodeOf(e)}
<1> DEFINE ls == Append(es, e)
<1>1. /\ Len(ls) = Len(es) + 1
      /\ \A i \in 1..Len(es) : ls[i] = es[i]
      /\ ls[Len(es) + 1] = e
      /\ Len(es) \in Nat
    BY AppendProperties, LenProperties
<1> HIDE DEF ls
<1>2. NodesOf(ls) \subseteq NodesOf(es) \cup {NodeOf(e)}
    <2> SUFFICES ASSUME NEW i \in 1..Len(ls), IsEntry(ls[i])
                 PROVE  [id |-> ls[i].id, parent |-> ls[i].parent] \in NodesOf(es) \cup {NodeOf(e)}
        BY DEF NodesOf
    <2>1. CASE i \in 1..Len(es)
        BY <1>1, <2>1 DEF NodesOf
    <2>2. CASE i = Len(es) + 1
        BY <1>1, <2>2 DEF NodeOf
    <2> QED
        BY <1>1, <2>1, <2>2
<1>3. NodeOf(e) \in NodesOf(ls)
    BY <1>1 DEF NodesOf, NodeOf
<1>4. NodesOf(es) \subseteq NodesOf(ls)
    <2> SUFFICES ASSUME NEW i \in 1..Len(es), IsEntry(es[i])
                 PROVE  [id |-> es[i].id, parent |-> es[i].parent] \in NodesOf(ls)
        BY DEF NodesOf
    <2>1. i \in 1..Len(ls) /\ ls[i] = es[i]
        BY <1>1
    <2> QED
        BY <2>1 DEF NodesOf
<1> QED
    BY <1>2, <1>3, <1>4 DEF ls

\* The ids of the tree are those of the log.
LEMMA TreeIds == Closed(Log) => Tree!Ids = Ids(Log)
<1> SUFFICES ASSUME Closed(Log) PROVE Tree!Ids = Ids(Log)
    OBVIOUS
<1>1. \A i \in 1..Len(Log) : IsEntry(Log[i])
    BY DEF Closed
<1>2. LogNodes = {[id |-> Log[i].id, parent |-> Log[i].parent] : i \in 1..Len(Log)}
    BY <1>1 DEF LogNodes
<1>3. \A n \in LogNodes : n.id \in Ids(Log)
    BY <1>2 DEF Ids
<1>4. ASSUME NEW x \in Ids(Log) PROVE \E n \in LogNodes : n.id = x
    <2>1. PICK i \in 1..Len(Log) : Log[i].id = x
        BY DEF Ids
    <2>2. [id |-> Log[i].id, parent |-> Log[i].parent] \in LogNodes
        BY <1>2
    <2> HIDE DEF LogNodes
    <2> QED
        BY <2>1, <2>2
<1> HIDE DEF LogNodes
<1> QED
    BY <1>3, <1>4 DEF Tree!Ids

\* A write that goes well keeps the file and the memory of the holder alike.
LEMMA MirroredWrite ==
    ASSUME NEW d \in Disk, ~d.torn, NEW fl \in BOOLEAN, NEW es \in Seq(Line), NEW e \in Line,
           fl => d.header /\ es = d.lines,
           NEW r \in Results(d, fl, Append(es, e), e), r.ok
    PROVE  /\ r.flushed => r.disk.header /\ r.disk.lines = Append(es, e)
           /\ r.disk.header \in {d.header, TRUE}
<1>1. CASE fl /\ r.flushed = TRUE /\ r.disk = AppendOk(d, e)
    BY <1>1 DEF AppendOk, Glued
<1>2. CASE ~fl /\ r.flushed = FALSE /\ r.disk = d
    BY <1>2
<1>3. CASE ~fl /\ r.flushed = TRUE /\ r.disk = FlushOk(Append(es, e))
    BY <1>3 DEF FlushOk
<1> QED
    BY <1>1, <1>2, <1>3, OkResults

\* What the holder's last write makes of the tree.
LEMMA HolderCommit ==
    ASSUME TypeOK, up[Holder], NEW es \in Seq(Line), NEW e \in Line, IsEntry(e), NEW r,
           Commit(Holder, Append(es, e), e, r), r.flushed \in BOOLEAN,
           r.flushed => r.disk.lines = Append(es, e)
    PROVE  /\ Mirrored'
           /\ LogNodes' = NodesOf(es) \cup {NodeOf(e)}
           /\ LogCursor' = LeafAfterEntry(e)
           /\ disk'.header = r.disk.header
<1>1. /\ up' = up /\ disk' = r.disk
      /\ entries'[Holder] = Append(es, e)
      /\ leaf'[Holder] = LeafAfterEntry(e)
      /\ flushed'[Holder] = r.flushed
    BY HolderAssumption DEF Commit, TypeOK
<1>2. RecoveredLeaf(Append(es, e)) = LeafAfterEntry(e)
    BY RecoveredAppend
<1>3. Mirrored'
    BY <1>1, <1>2 DEF Mirrored
<1>4. Log' = Append(es, e) /\ LogCursor' = LeafAfterEntry(e)
    BY <1>1 DEF Log, LogCursor
<1>5. LogNodes' = NodesOf(Append(es, e))
    BY <1>4 DEF LogNodes, NodesOf
<1> QED
    BY <1>1, <1>3, <1>4, <1>5, NodesAppend

\* The tree as the holder sees it while it has the session open.
LEMMA HolderTree ==
    ASSUME Whole, up[Holder]
    PROVE  /\ LogNodes = NodesOf(entries[Holder]) /\ LogCursor = leaf[Holder]
           /\ Tree!Ids = Ids(entries[Holder])
           /\ leaf[Holder] \in Ids(entries[Holder]) \cup {NoId}
<1>1. Log = entries[Holder] /\ LogCursor = leaf[Holder]
    BY DEF Log, LogCursor
<1>2. LogNodes = NodesOf(entries[Holder])
    BY <1>1 DEF LogNodes, NodesOf
<1>3. Closed(entries[Holder]) /\ leaf[Holder] \in Ids(entries[Holder]) \cup {NoId}
    BY HolderAssumption DEF Whole, Held
<1> QED
    BY <1>1, <1>2, <1>3, TreeIds

EntryIds == 1..(MaxWindow + MaxUuids)

LEMMA IssuedBounded ==
    ASSUME clock \in 1..MaxWindow, NEW u \in Nat, u <= MaxUuids
    PROVE  Issued(clock, u) \subseteq EntryIds
BY BoundsAssumption DEF Issued, EntryIds

LEMMA HolderAppends ==
    ASSUME TypeOK, Whole, Sorted, Mirrored, uuids' <= MaxUuids, up[Holder],
           NEW e \in Line, IsEntry(e), e.id = NewId(entries[Holder], uuids),
           AppendEntry(Holder, e), faults' = 0
    PROVE  /\ Mirrored'
           /\ LogNodes' = LogNodes \cup {NodeOf(e)}
           /\ LogCursor' = LeafAfterEntry(e)
           /\ disk'.header \in {disk.header, TRUE}
           /\ e.id \in EntryIds /\ e.id \notin Tree!Ids
<1> DEFINE es == Append(entries[Holder], e)
<1>1. PICK r \in Results(disk, flushed[Holder], es, e) :
          Commit(Holder, es, e, r) /\ uuids' = UuidsAfter(uuids, e.id)
    BY DEF AppendEntry
<1>2. r.ok
    BY <1>1 DEF Commit, TypeOK
<1>3. /\ entries[Holder] \in Seq(Line) /\ disk \in Disk /\ flushed[Holder] \in BOOLEAN
      /\ clock \in 1..MaxWindow /\ uuids \in Nat
    BY HolderAssumption DEF TypeOK
<1>4. /\ Closed(entries[Holder]) /\ ~disk.torn
      /\ flushed[Holder] => disk.header /\ entries[Holder] = disk.lines
      /\ Ids(entries[Holder]) \subseteq Issued(clock, uuids)
    BY HolderAssumption DEF Whole, Held, DiskWhole, Mirrored, Sorted, MemoryOrdered
<1>5. es \in Seq(Line)
    BY <1>3, AppendProperties
<1>6. r \in Outcome
    BY <1>1, <1>3, <1>5, ResultsType
<1>7. /\ r.flushed => r.disk.lines = es
      /\ r.disk.header \in {disk.header, TRUE}
    <2>1. flushed[Holder] => disk.header /\ entries[Holder] = disk.lines
        BY <1>4
    <2>2. r \in Results(disk, flushed[Holder], Append(entries[Holder], e), e) /\ ~disk.torn
        BY <1>1, <1>4
    <2> HIDE DEF es
    <2>3. /\ r.flushed => r.disk.header /\ r.disk.lines = Append(entries[Holder], e)
          /\ r.disk.header \in {disk.header, TRUE}
        BY <1>2, <1>3, <2>1, <2>2, MirroredWrite
    <2> QED
        BY <2>3 DEF es
<1>8. r.flushed \in BOOLEAN
    BY <1>6 DEF Outcome
<1>9. /\ Mirrored'
      /\ LogNodes' = NodesOf(entries[Holder]) \cup {NodeOf(e)}
      /\ LogCursor' = LeafAfterEntry(e)
      /\ disk'.header = r.disk.header
    BY <1>1, <1>3, <1>7, <1>8, HolderCommit
<1>10. e.id \notin Ids(entries[Holder]) /\ e.id \in Issued(clock, uuids') /\ uuids' \in Nat
    BY <1>1, <1>3, <1>4, NewIdFresh
<1>11. e.id \in EntryIds
    BY <1>3, <1>10, IssuedBounded
<1> QED
    BY <1>7, <1>9, <1>10, <1>11, HolderTree

\* A new entry that becomes the leaf is a Grow, one that moves it a Jump.
LEMMA GrowStep ==
    ASSUME NEW id \in EntryIds, id \notin Tree!Ids,
           LogNodes' = LogNodes \cup {[id |-> id, parent |-> LogCursor]}, LogCursor' = id,
           disk'.header \in {disk.header, TRUE}
    PROVE  Tree!Next
BY DEF Tree!Next, Tree!Change, Tree!Grow, Tree!Under, EntryIds

LEMMA JumpStep ==
    ASSUME NEW id \in EntryIds, id \notin Tree!Ids, NEW t \in Tree!Ids \cup {NoId},
           LogNodes' = LogNodes \cup {[id |-> id, parent |-> LogCursor]}, LogCursor' = t,
           disk'.header \in {disk.header, TRUE}
    PROVE  Tree!Next
BY DEF Tree!Next, Tree!Change, Tree!Jump, Tree!Under, EntryIds, NoId, Tree!NoId

LEMMA JumpWithSummaryStep ==
    ASSUME NEW id \in EntryIds, NEW s \in EntryIds, id \notin Tree!Ids, s \notin Tree!Ids, id # s,
           NEW t \in Tree!Ids \cup {NoId},
           LogNodes' = LogNodes \cup {[id |-> id, parent |-> LogCursor], [id |-> s, parent |-> t]},
           LogCursor' = s,
           disk'.header \in {disk.header, TRUE}
    PROVE  Tree!Next
<1>1. {id, s} \cap Tree!Ids = {}
    OBVIOUS
<1>2. Tree!JumpWithSummary(id, t, s)
    BY <1>1 DEF Tree!JumpWithSummary
<1>3. t \in Tree!Ids \cup {Tree!NoId}
    BY DEF NoId, Tree!NoId
<1> QED
    BY <1>2, <1>3 DEF Tree!Next, Tree!Change, EntryIds
\* A navigation with a summary, when both writes go well.
LEMMA HolderJumps ==
    ASSUME TypeOK, Whole, Sorted, Mirrored, uuids' <= MaxUuids,
           NEW t \in Ids(entries[Holder]) \cup {NoId},
           MoveToWithSummary(Holder, t), faults' = 0
    PROVE  Mirrored' /\ Tree!Next
<1> DEFINE old == entries[Holder]
           e1  == Entry("leaf", NewId(old, uuids), leaf[Holder], t)
           es1 == Append(old, e1)
           u1  == UuidsAfter(uuids, e1.id)
           e2  == Entry("summary", NewId(es1, u1), t, t)
           es2 == Append(es1, e2)
           u2  == UuidsAfter(u1, e2.id)
<1>1. up[Holder]
    BY DEF MoveToWithSummary
<1>2. /\ old \in Seq(Line) /\ disk \in Disk /\ flushed[Holder] \in BOOLEAN
      /\ leaf[Holder] \in Ids(old) \cup {NoId} /\ t \in Ids(old) \cup {NoId}
      /\ DiskWhole(disk) /\ Held(disk, flushed[Holder], old)
      /\ clock \in 1..MaxWindow /\ uuids \in Nat
      /\ Ids(old) \subseteq Issued(clock, uuids)
    BY <1>1, HolderAssumption DEF TypeOK, Whole, Sorted, MemoryOrdered
<1>3. /\ Closed(old) /\ ~disk.torn
      /\ flushed[Holder] => disk.header /\ old = disk.lines
    BY <1>1, <1>2 DEF DiskWhole, Held, Mirrored
<1>4. t \in Nat /\ leaf[Holder] \in Nat
    BY <1>2, <1>3, ClosedIds, KnownIdsType, HolderAssumption DEF NoId, TypeOK
<1>5. /\ e1 \in Line /\ IsEntry(e1) /\ u1 \in Nat
      /\ e1.parent = leaf[Holder] /\ e1.target = t /\ e1.id = NewId(old, uuids)
    <2>1. NewId(old, uuids) \in Nat /\ UuidsAfter(uuids, NewId(old, uuids)) \in Nat
        BY NewIdType DEF TypeOK
    <2> QED
        BY <1>4, <2>1 DEF Entry, EntryKinds, Line, IsEntry
<1>6. u1 = UuidsAfter(uuids, e1.id)
    OBVIOUS
<1> HIDE DEF old, e1, u1
<1>7. es1 \in Seq(Line) /\ Ids(es1) = Ids(old) \cup {e1.id}
    BY <1>2, <1>5, AppendProperties, AppendSets
<1>8. Closed(es1)
    BY <1>2, <1>3, <1>5, ClosedAppend
<1>9. /\ e1.id \notin Ids(old) /\ u1 \in uuids..(uuids + 1)
      /\ e1.id \in Issued(clock, u1) /\ Issued(clock, uuids) \subseteq Issued(clock, u1)
    <2>1. uuids \in Nat /\ clock \in 1..MaxWindow /\ Closed(old)
          /\ Ids(old) \subseteq Issued(clock, uuids) /\ e1.id = NewId(old, uuids)
        BY <1>2, <1>3, <1>5
    <2>2. /\ e1.id \notin Ids(old) /\ UuidsAfter(uuids, e1.id) \in uuids..(uuids + 1)
          /\ e1.id \in Issued(clock, UuidsAfter(uuids, e1.id))
          /\ Issued(clock, uuids) \subseteq Issued(clock, UuidsAfter(uuids, e1.id))
        BY <2>1, NewIdFresh
    <2> QED
        BY <1>6, <2>2
<1>10. Ids(es1) \subseteq Issued(clock, u1)
    BY <1>2, <1>7, <1>9
<1>11. /\ e2 \in Line /\ IsEntry(e2) /\ e2.kind = "summary"
       /\ e2.parent = t /\ e2.target = t /\ e2.id = NewId(es1, u1)
    <2> HIDE DEF es1
    <2>1. NewId(es1, u1) \in Nat
        BY <1>2, <1>5, NewIdType DEF TypeOK
    <2> QED
        BY <1>4, <2>1 DEF Entry, EntryKinds, Line, IsEntry
<1>12. u2 = UuidsAfter(u1, e2.id)
    OBVIOUS
<1>13. PICK r1 \in Results(disk, flushed[Holder], es1, e1) :
           \/ ~r1.ok /\ Commit(Holder, es1, e1, r1)
           \/ /\ r1.ok
              /\ \E r2 \in Results(r1.disk, r1.flushed, es2, e2) :
                     Commit(Holder, es2, e2, r2) /\ uuids' = u2
    BY DEF MoveToWithSummary, old, e1, u1
<1> HIDE DEF e2, u2
<1>14. r1.ok
    BY <1>13 DEF Commit, TypeOK
<1>15. PICK r2 \in Results(r1.disk, r1.flushed, es2, e2) :
           Commit(Holder, es2, e2, r2) /\ uuids' = u2
    BY <1>13, <1>14
<1>16. r2.ok
    BY <1>15 DEF Commit, TypeOK
<1>17. r1 \in Outcome
    BY <1>2, <1>5, <1>7, <1>13, ResultsType
<1>18. r1.disk \in Disk /\ r1.flushed \in BOOLEAN
    BY <1>17 DEF Outcome
<1>19. /\ r1.flushed => r1.disk.header /\ r1.disk.lines = es1
       /\ r1.disk.header \in {disk.header, TRUE}
    BY <1>2, <1>3, <1>5, <1>13, <1>14, MirroredWrite
<1>20. ~r1.disk.torn
    <2>1. Writable(disk, flushed[Holder], old, e1)
        BY <1>2, <1>5 DEF Writable
    <2>2. Extended(disk, flushed[Holder], es1, r1)
        BY <1>2, <1>5, <1>13, <1>14, <2>1, OkWrite
    <2> QED
        BY <2>2 DEF Extended, DiskWhole
<1>21. NodesOf(es1) = NodesOf(old) \cup {NodeOf(e1)}
    BY <1>2, <1>5, NodesAppend
<1> HIDE DEF es1
<1>22. r1.flushed => r1.disk.header /\ es1 = r1.disk.lines
    BY <1>19
<1>23. /\ r2.flushed => r2.disk.header /\ r2.disk.lines = Append(es1, e2)
       /\ r2.disk.header \in {r1.disk.header, TRUE}
    BY <1>7, <1>11, <1>15, <1>16, <1>18, <1>20, <1>22, MirroredWrite
<1>24. r2 \in Outcome
    <2>1. es2 \in Seq(Line)
        BY <1>7, <1>11, AppendProperties
    <2> HIDE DEF es2
    <2> QED
        BY <1>11, <1>15, <1>18, <2>1, ResultsType
<1>25. /\ Mirrored'
       /\ LogNodes' = NodesOf(es1) \cup {NodeOf(e2)}
       /\ LogCursor' = LeafAfterEntry(e2)
       /\ disk'.header = r2.disk.header
    <2>1. r2.flushed \in BOOLEAN
        BY <1>24 DEF Outcome
    <2>2. Commit(Holder, Append(es1, e2), e2, r2)
        BY <1>15
    <2> QED
        BY <1>1, <1>7, <1>11, <1>23, <2>1, <2>2, HolderCommit
<1>26. /\ e2.id \notin Ids(es1) /\ u2 \in u1..(u1 + 1)
       /\ e2.id \in Issued(clock, u2) /\ Issued(clock, u1) \subseteq Issued(clock, u2)
    BY <1>2, <1>5, <1>8, <1>10, <1>11, <1>12, NewIdFresh
<1>27. e1.id \in EntryIds /\ e2.id \in EntryIds
    <2>1. u2 \in Nat /\ u2 <= MaxUuids
        BY <1>5, <1>15, <1>26
    <2> QED
        BY <1>2, <1>9, <1>26, <2>1, IssuedBounded
<1>28. /\ LogNodes = NodesOf(old) /\ LogCursor = leaf[Holder]
       /\ Tree!Ids = Ids(old)
    BY <1>1, HolderTree DEF old
<1>29. e1.id \notin Tree!Ids /\ e2.id \notin Tree!Ids /\ e1.id # e2.id /\ t \in Tree!Ids \cup {NoId}
    BY <1>7, <1>9, <1>26, <1>28 DEF old
<1>30. LogCursor' = e2.id
    BY <1>11, <1>25 DEF LeafAfterEntry
<1>31. NodeOf(e1) = [id |-> e1.id, parent |-> LogCursor] /\ NodeOf(e2) = [id |-> e2.id, parent |-> t]
    BY <1>5, <1>11, <1>28 DEF NodeOf
<1>32. LogNodes' = LogNodes \cup {[id |-> e1.id, parent |-> LogCursor], [id |-> e2.id, parent |-> t]}
    BY <1>21, <1>25, <1>28, <1>31
<1>33. disk'.header \in {disk.header, TRUE}
    BY <1>19, <1>23, <1>25
<1> QED
    BY <1>25, <1>27, <1>29, <1>30, <1>32, <1>33, JumpWithSummaryStep

\* Exit forgets a session that is not durable; creation, exit and reopening
\* of one that is cannot be told from nothing at all.
LEMMA HolderSwitches ==
    ASSUME TypeOK, Cleared, Whole, Mirrored, Create(Holder) \/ Open(Holder) \/ Exit(Holder)
    PROVE  Mirrored' /\ [Tree!Next]_(Tree!vars)
<1> USE HolderAssumption
<1>1. RecoveredLeaf(<<>>) = NoId /\ EmptyDisk.lines = <<>> /\ ~EmptyDisk.header
    BY DEF RecoveredLeaf, EmptyDisk
<1>2. CASE Create(Holder)
    <2>1. /\ ~up[Holder] /\ up'[Holder] /\ disk' = disk /\ disk = EmptyDisk
          /\ entries'[Holder] = <<>> /\ leaf'[Holder] = NoId /\ ~flushed'[Holder]
        BY <1>2 DEF Create, Cleared, TypeOK
    <2>2. Log' = Log /\ LogCursor' = LogCursor
        BY <1>1, <2>1 DEF Log, LogCursor
    <2>3. LogNodes' = LogNodes /\ disk'.header = disk.header
        BY <2>1, <2>2 DEF LogNodes
    <2> QED
        BY <2>1, <2>2, <2>3 DEF Mirrored, Tree!vars
<1>3. CASE Open(Holder)
    <2>1. /\ ~up[Holder] /\ up'[Holder] /\ disk' = disk
          /\ entries'[Holder] = disk.lines /\ leaf'[Holder] = RecoveredLeaf(disk.lines)
        BY <1>3 DEF Open, TypeOK
    <2>2. Log' = Log /\ LogCursor' = LogCursor
        BY <2>1 DEF Log, LogCursor
    <2>3. LogNodes' = LogNodes /\ disk'.header = disk.header
        BY <2>1, <2>2 DEF LogNodes
    <2> QED
        BY <2>1, <2>2, <2>3 DEF Mirrored, Tree!vars
<1>4. CASE Exit(Holder)
    <2>1. up[Holder] /\ ~up'[Holder] /\ disk' = disk
        BY <1>4 DEF Exit, TypeOK
    <2>2. Log' = disk.lines /\ LogCursor' = RecoveredLeaf(disk.lines) /\ Mirrored'
        BY <2>1 DEF Log, LogCursor, Mirrored
    <2>3. CASE flushed[Holder]
        <3>1. Log' = Log /\ LogCursor' = LogCursor
            BY <2>1, <2>2, <2>3 DEF Log, LogCursor, Mirrored
        <3>2. LogNodes' = LogNodes /\ disk'.header = disk.header
            BY <2>1, <3>1 DEF LogNodes
        <3> QED
            BY <2>2, <3>1, <3>2 DEF Tree!vars
    <2>4. CASE ~flushed[Holder]
        <3>1. disk = EmptyDisk
            BY <2>1, <2>4 DEF Whole, Held
        <3>2. Log' = <<>> /\ LogCursor' = NoId
            BY <1>1, <2>2, <3>1
        <3>3. LogNodes' = {} /\ disk'.header = disk.header /\ ~disk.header
            BY <1>1, <2>1, <3>1, <3>2 DEF LogNodes
        <3> QED
            BY <2>2, <3>2, <3>3 DEF Tree!Next, Tree!Forget, NoId, Tree!NoId
    <2> QED
        BY <2>3, <2>4
<1> QED
    BY <1>2, <1>3, <1>4

\* Whatever the holder does, unless a write fails, is a step of the tree.
LEMMA HolderStep ==
    ASSUME TypeOK, Cleared, Whole, Sorted, Mirrored, uuids' <= MaxUuids,
           Step(Holder), faults' = 0
    PROVE  Mirrored' /\ [Tree!Next]_(Tree!vars)
<1> USE HolderAssumption
<1>1. CASE Create(Holder) \/ Open(Holder) \/ Exit(Holder)
    BY <1>1, HolderSwitches
<1>2. ASSUME up[Holder], NEW k \in EntryKinds, NEW t \in KnownIds(entries[Holder]) \cup {NoId},
             AppendEntry(Holder, Entry(k, NewId(entries[Holder], uuids), leaf[Holder], t))
      PROVE  Mirrored' /\ Tree!Next
    <2> DEFINE e == Entry(k, NewId(entries[Holder], uuids), leaf[Holder], t)
    <2>1. Closed(entries[Holder]) /\ leaf[Holder] \in Ids(entries[Holder]) \cup {NoId}
        BY <1>2 DEF Whole, Held
    <2>2. t \in Ids(entries[Holder]) \cup {NoId} /\ t \in Nat /\ leaf[Holder] \in Nat
        BY <2>1, ClosedIds, KnownIdsType DEF TypeOK, NoId
    <2>3. NewId(entries[Holder], uuids) \in Nat
        BY NewIdType DEF TypeOK
    <2>4. e \in Line
        BY <2>2, <2>3, EntryType
    <2>5. /\ IsEntry(e) /\ e.kind = k /\ e.parent = leaf[Holder] /\ e.target = t
          /\ e.id = NewId(entries[Holder], uuids)
        BY DEF Entry, IsEntry, EntryKinds, ContentKinds
    <2>6. AppendEntry(Holder, e)
        BY <1>2
    <2> HIDE DEF e
    <2>7. /\ Mirrored'
          /\ LogNodes' = LogNodes \cup {NodeOf(e)}
          /\ LogCursor' = LeafAfterEntry(e)
          /\ disk'.header \in {disk.header, TRUE}
          /\ e.id \in EntryIds /\ e.id \notin Tree!Ids
        BY <1>2, <2>4, <2>5, <2>6, HolderAppends
    <2>8. LogCursor = leaf[Holder] /\ Tree!Ids = Ids(entries[Holder])
        BY <1>2, HolderTree
    <2>9. NodeOf(e) = [id |-> e.id, parent |-> LogCursor]
        BY <2>5, <2>8 DEF NodeOf
    <2>10. LogNodes' = LogNodes \cup {[id |-> e.id, parent |-> LogCursor]}
        BY <2>7, <2>9
    <2>11. CASE k = "leaf"
        <3>1. LogCursor' = t /\ t \in Tree!Ids \cup {NoId}
            BY <2>2, <2>5, <2>7, <2>8, <2>11 DEF LeafAfterEntry
        <3> QED
            BY <2>7, <2>10, <3>1, JumpStep
    <2>12. CASE k # "leaf"
        <3>1. LogCursor' = e.id
            BY <2>5, <2>7, <2>12 DEF LeafAfterEntry
        <3> QED
            BY <2>7, <2>10, <3>1, GrowStep
    <2> QED
        BY <2>11, <2>12
<1>3. ASSUME NEW k \in ContentKinds, AppendContent(Holder, k) PROVE Mirrored' /\ Tree!Next
    BY <1>2, <1>3 DEF AppendContent, EntryKinds
<1>4. ASSUME NEW k \in {"label", "unlabel"}, NEW t \in KnownIds(entries[Holder]),
             AppendLabel(Holder, k, t)
      PROVE  Mirrored' /\ Tree!Next
    BY <1>2, <1>4 DEF AppendLabel, EntryKinds
<1>5. ASSUME NEW t \in KnownIds(entries[Holder]) \cup {NoId}, MoveTo(Holder, t)
      PROVE  Mirrored' /\ Tree!Next
    BY <1>2, <1>5 DEF MoveTo, EntryKinds
<1>6. ASSUME NEW t \in KnownIds(entries[Holder]) \cup {NoId}, MoveToWithSummary(Holder, t)
      PROVE  Mirrored' /\ Tree!Next
    <2>1. up[Holder]
        BY <1>6 DEF MoveToWithSummary
    <2>2. t \in Ids(entries[Holder]) \cup {NoId}
        BY <2>1, ClosedIds DEF Whole, Held
    <2> QED
        BY <1>6, <2>2, HolderJumps
<1> QED
    BY <1>1, <1>3, <1>4, <1>5, <1>6 DEF Step

\* Another process cannot have the session where the holder is alone.
LEMMA OthersAbsent ==
    ASSUME TypeOK, NEW p \in Procs, ~up[p], ~up'[p], Step(p)
    PROVE  FALSE
<1>1. CASE Create(p) \/ Open(p)
    BY <1>1 DEF Create, Open, TypeOK
<1>2. CASE ~(Create(p) \/ Open(p))
    BY <1>2 DEF Step, Exit, AppendContent, AppendLabel, MoveTo, MoveToWithSummary
<1> QED
    BY <1>1, <1>2

TreeStep == part = "faults" /\ faults' = 0 => [Tree!Next]_(Tree!vars)

LEMMA NextHistoryInv ==
    HistoryInv /\ [HistoryNext]_historyVars => HistoryInv' /\ TreeStep
<1> SUFFICES ASSUME HistoryInv, [HistoryNext]_historyVars PROVE HistoryInv' /\ TreeStep
    OBVIOUS
<1>1. part' = part /\ [Next]_vars
    BY DEF HistoryNext, historyVars
<1>2. OrderInv' /\ OrderInv /\ TypeOK /\ Cleared
    BY <1>1, NextOrderInv DEF HistoryInv, OrderInv, IInv
<1> SUFFICES ASSUME part = "faults"
             PROVE  HeldAlone' /\ (faults' = 0 => [Tree!Next]_(Tree!vars))
    BY <1>1, <1>2 DEF HistoryInv, TreeStep
<1>3. HeldAlone
    BY DEF HistoryInv
<1>4. CASE UNCHANGED vars
    <2>1. HeldAlone'
        BY <1>3, <1>4 DEF HeldAlone, Mirrored, vars, mem
    <2>2. UNCHANGED Tree!vars
        BY <1>4 DEF Tree!vars, LogNodes, LogCursor, Log, vars, mem
    <2> QED
        BY <2>1, <2>2
<1>5. CASE Next /\ \A p \in Procs \ {Holder} : ~up'[p]
    <2> SUFFICES ASSUME faults' = 0 PROVE Mirrored' /\ [Tree!Next]_(Tree!vars)
        BY <1>5 DEF HeldAlone
    <2>1. faults = 0
        BY <1>1, <1>2, FaultsGrow
    <2>2. Whole /\ Sorted /\ Mirrored
        BY <1>2, <1>3, <2>1 DEF OrderInv, IInv, HeldAlone
    <2>3. CASE Tick
        <3>1. UNCHANGED <<disk, up, entries, leaf, flushed>>
            BY <2>3 DEF Tick, mem
        <3>2. Mirrored'
            BY <2>2, <3>1 DEF Mirrored
        <3>3. UNCHANGED Tree!vars
            BY <3>1 DEF Tree!vars, LogNodes, LogCursor, Log
        <3> QED
            BY <3>2, <3>3
    <2>4. ASSUME NEW p \in Procs, Step(p) PROVE Mirrored' /\ [Tree!Next]_(Tree!vars)
        <3>1. p = Holder
            BY <1>2, <1>3, <1>5, <2>4, OthersAbsent DEF HeldAlone
        <3>2. Step(Holder) /\ uuids' <= MaxUuids
            BY <1>2, <2>4, <3>1 DEF OrderInv
        <3> QED
            BY <1>2, <2>2, <3>2, HolderStep
    <2> QED
        BY <1>5, <2>3, <2>4 DEF Next
<1> QED
    BY <1>4, <1>5 DEF HistoryNext, historyVars

\* The session log implements the tree it promises.  Where one process has the
\* session, every step it takes, be it an append, a label, a navigation with or
\* without a summary, the deferred flush, its exit at any point or its opening
\* again, is a step of SessionTree or leaves the tree as it is, until a write
\* fails.
THEOREM TreeImplemented == HistorySpec => AloneImplementsTree
<1>1. HistoryInit => HistoryInv /\ (part = "faults" => Tree!Init)
    <2> SUFFICES ASSUME HistoryInit PROVE HistoryInv /\ Tree!Init
        OBVIOUS
    <2>1. Init
        BY DEF HistoryInit
    <2>2. HistoryInv
        BY <2>1, InitOrderInv, HolderAssumption DEF Init, HistoryInv, HeldAlone, Mirrored
    <2>3. Log = <<>> /\ LogCursor = NoId /\ disk.header = FALSE
        BY <2>1, HolderAssumption DEF Init, Log, LogCursor, EmptyDisk, RecoveredLeaf
    <2>4. LogNodes = {}
        BY <2>3 DEF LogNodes
    <2> QED
        BY <2>2, <2>3, <2>4 DEF Tree!Init, NoId, Tree!NoId
<1>2. HistoryInv /\ [HistoryNext]_historyVars => HistoryInv' /\ TreeStep
    BY NextHistoryInv
<1>3. TreeStep => (part = "faults" /\ faults' = 0 => [Tree!Next]_(Tree!vars))
    BY DEF TreeStep
<1> HIDE DEF TreeStep
<1> QED
    BY <1>1, <1>2, <1>3, PTL DEF HistorySpec, AloneImplementsTree

-----------------------------------------------------------------------------
(* What a compaction leaves out of the model's view is in its summary.     *)

EntryTypes == MessageTypes \cup {"custom", "setting", "compaction"}
BranchEntries ==
    [type : EntryTypes, tokens : Sizes \cup {0, 1}, keep : Nat, summary : SUBSET Nat, details : SUBSET Nat]

IsCompaction(c) == branch[c].type = "compaction"
CutBefore(c) == Told(1..branch[c].keep - 1)

\* Results stand behind their calls; a compaction keeps from a place that is no result,
\* has summarised nothing from there on, has listed the files of everything before it,
\* and has summarised all of it unless a summary was dropped.
BranchTypes == branch \in Seq(BranchEntries)
ResultsFollow ==
    \A i \in Places : branch[i].type = "tool" => i > 1 /\ branch[i - 1].type \in {"assistant", "tool"}
CutsWell(c) ==
    /\ branch[c].keep \in 1..c - 1 /\ branch[branch[c].keep].type # "tool"
    /\ branch[c].summary \subseteq 1..branch[c].keep - 1
    /\ CutBefore(c) \subseteq branch[c].details
    /\ ~Dropped => CutBefore(c) \subseteq branch[c].summary
CompactionInv ==
    /\ BranchTypes /\ ResultsFollow
    /\ \A c \in Places : IsCompaction(c) => CutsWell(c)

\* The greatest element of a set of positions.
LEMMA MaxOfPlaces ==
    ASSUME NEW n \in Nat, NEW T, T \subseteq 0..n, T # {}
    PROVE  Max(T) \in T /\ \A x \in T : x <= Max(T)
<1> DEFINE U == {n - t : t \in T}
<1>1. \A t \in 0..n : n - t \in Nat /\ t \in Nat
    OBVIOUS
<1>2. U \subseteq Nat /\ U # {}
    BY <1>1
<1>3. PICK u \in U : \A y \in U : u <= y
    BY <1>2, LeastExists
<1>4. PICK x \in T : u = n - x
    OBVIOUS
<1>5. ASSUME NEW y \in T PROVE x >= y
    <2>1. n - y \in U /\ x \in 0..n /\ y \in 0..n
        OBVIOUS
    <2>2. n - x <= n - y
        BY <1>3, <1>4, <2>1
    <2> QED
        BY <2>1, <2>2
<1>6. Max(T) \in T /\ \A y \in T : Max(T) >= y
    BY <1>5 DEF Max
<1>7. Max(T) \in 0..n
    BY <1>6
<1> QED
    BY <1>6, <1>7, <1>1

LEMMA MinOfPlaces ==
    ASSUME NEW T, T \subseteq Nat, T # {}
    PROVE  Min(T) \in T /\ \A x \in T : Min(T) <= x
<1>1. PICK x \in T : \A y \in T : x <= y
    BY LeastExists
<1> QED
    BY <1>1 DEF Min

LEMMA LengthType ==
    ASSUME BranchTypes
    PROVE  Len(branch) \in Nat /\ Places = 1..Len(branch) /\ \A i \in Places : branch[i] \in BranchEntries
BY LenProperties, ElementOfSeq DEF BranchTypes, Places

\* The last compaction, 0 when there is none.
LEMMA LastIs ==
    ASSUME BranchTypes
    PROVE  /\ Compacted \in 0..Len(branch)
           /\ Compacted # 0 => IsCompaction(Compacted)
           /\ \A c \in Places : IsCompaction(c) => c <= Compacted
<1>1. Len(branch) \in Nat /\ Places = 1..Len(branch)
    BY LengthType
<1> DEFINE T == {0} \cup {i \in 1..Len(branch) : IsA(i, {"compaction"})}
<1>2. T \subseteq 0..Len(branch) /\ T # {}
    BY <1>1
<1>3. Max(T) \in T /\ \A x \in T : x <= Max(T)
    <2> HIDE DEF T
    <2> QED
        BY <1>1, <1>2, MaxOfPlaces
<1>4. Compacted = Max(T)
    BY DEF Compacted, LastCompaction
<1> QED
    BY <1>1, <1>3, <1>4 DEF IsA, IsCompaction

\* Where the kept part begins: at or after the boundary, and at no result.
LEMMA CutWhere ==
    ASSUME BranchTypes, NEW start \in Places, branch[start].type # "tool"
    PROVE  /\ CutPoint(start).kept \in start..Len(branch)
           /\ branch[CutPoint(start).kept].type # "tool"
           /\ CutPoint(start).turn = 0 \/ CutPoint(start).turn \in start..CutPoint(start).kept
<1>1. Len(branch) \in Nat /\ Places = 1..Len(branch) /\ start \in 1..Len(branch)
    BY LengthType
<1> DEFINE cuts == {i \in start..Len(branch) : IsA(i, CutTypes)}
           chosen == Chosen(cuts, start)
           cut == Widened(chosen, start)
<1>2. CASE cuts = {}
    <2>1. CutPoint(start) = [kept |-> start, turn |-> 0]
        BY <1>2 DEF CutPoint
    <2> QED
        BY <1>1, <2>1
<1>3. CASE cuts # {}
    <2>1. CutPoint(start) = [kept |-> cut, turn |-> IF IsA(cut, {"user"}) THEN 0 ELSE TurnStart(cut, start)]
        BY <1>3 DEF CutPoint
    <2>2. chosen \in cuts
        <3> DEFINE full == {i \in start..Len(branch) : IsA(i, CountedTypes) /\ TokensFrom(i) >= KeepRecent}
                   after == IF full = {} THEN {} ELSE {c \in cuts : c >= Max(full)}
        <3>1. chosen = IF after = {} THEN Min(cuts) ELSE Min(after)
            BY DEF Chosen
        <3>2. cuts \subseteq Nat /\ after \subseteq cuts
            BY <1>1
        <3> HIDE DEF full, after, cuts, chosen
        <3>3. Min(cuts) \in cuts
            BY <1>3, <3>2, MinOfPlaces
        <3>4. after # {} => Min(after) \in after
            BY <3>2, MinOfPlaces
        <3> QED
            BY <3>1, <3>2, <3>3, <3>4
    <2>3. chosen \in start..Len(branch) /\ branch[chosen].type \in CutTypes
        BY <2>2 DEF IsA
    <2> DEFINE stops == {i \in start..chosen - 1 : IsA(i, MessageTypes \cup {"compaction"})}
    <2>4. cut = IF stops = {} THEN start ELSE Max(stops) + 1
        BY DEF Widened
    <2> HIDE DEF chosen
    <2>5. stops # {} => Max(stops) \in stops /\ \A x \in stops : x <= Max(stops)
        <3>1. stops \subseteq 0..Len(branch)
            BY <1>1, <2>3
        <3> HIDE DEF stops
        <3> QED
            BY <1>1, <3>1, MaxOfPlaces
    <2>11. stops \subseteq start..chosen - 1 /\ chosen \in start..Len(branch)
        BY <2>3
    <2>12. \A i \in start..chosen - 1 : i \notin stops => ~IsA(i, MessageTypes \cup {"compaction"})
        OBVIOUS
    <2> HIDE DEF stops
    <2>6. cut \in start..chosen /\ \A i \in stops : i < cut
        <3>1. CASE stops = {}
            BY <1>1, <2>4, <2>11, <3>1
        <3>2. CASE stops # {}
            <4>1. cut = Max(stops) + 1 /\ Max(stops) \in start..chosen - 1
                BY <2>4, <2>5, <2>11, <3>2
            <4>2. \A i \in stops : i \in Int /\ i <= Max(stops)
                BY <2>5, <2>11, <3>2
            <4> HIDE DEF cut
            <4> QED
                BY <1>1, <2>11, <4>1, <4>2
        <3> QED
            BY <3>1, <3>2
    <2> HIDE DEF cut
    <2>7. \A i \in cut..chosen - 1 : i \in start..chosen - 1 /\ i \notin stops
        BY <1>1, <2>11, <2>6
    <2>8. branch[cut].type # "tool"
        <3>1. CASE cut = chosen
            BY <2>3, <3>1 DEF CutTypes
        <3>2. CASE cut # chosen
            <4>1. cut \in cut..chosen - 1
                BY <1>1, <2>3, <2>6, <3>2
            <4>2. ~IsA(cut, MessageTypes \cup {"compaction"})
                BY <2>7, <2>12, <4>1
            <4> QED
                BY <4>2 DEF IsA, MessageTypes
        <3> QED
            BY <3>1, <3>2
    <2>9. TurnStart(cut, start) = 0 \/ TurnStart(cut, start) \in start..cut
        <3> DEFINE T == {0} \cup {i \in start..cut : IsA(i, {"user", "bash", "custom"})}
        <3>1. T \subseteq 0..Len(branch) /\ T # {}
            BY <1>1, <2>3, <2>6
        <3>2. TurnStart(cut, start) = Max(T)
            BY DEF TurnStart
        <3>3. Max(T) \in T
            <4> HIDE DEF T
            <4> QED
                BY <1>1, <3>1, MaxOfPlaces
        <3> QED
            BY <3>2, <3>3
    <2>10. cut \in start..Len(branch)
        BY <1>1, <2>3, <2>6
    <2> QED
        BY <2>1, <2>8, <2>9, <2>10
<1> QED
    BY <1>2, <1>3

\* What an entry that is appended leaves as it is: the places, their entries, what was cut.
LEMMA BranchAppend ==
    ASSUME CompactionInv, NEW e \in BranchEntries, branch' = Append(branch, e)
    PROVE  /\ BranchTypes' /\ Len(branch)' = Len(branch) + 1
           /\ branch'[Len(branch) + 1] = e
           /\ \A i \in Places : branch'[i] = branch[i]
           /\ Places' = Places \cup {Len(branch) + 1}
           /\ \A k \in 0..Len(branch) : Told(1..k)' = Told(1..k)
           /\ ~Dropped' => ~Dropped
<1>1. Len(branch) \in Nat /\ Places = 1..Len(branch) /\ branch \in Seq(BranchEntries)
    BY LengthType DEF CompactionInv, BranchTypes
<1>2. /\ branch' \in Seq(BranchEntries) /\ Len(branch') = Len(branch) + 1
      /\ branch'[Len(branch) + 1] = e
      /\ \A i \in 1..Len(branch) : branch'[i] = branch[i]
    BY <1>1, AppendProperties
<1>3. Places' = 1..Len(branch) + 1
    BY <1>1, <1>2, LenProperties DEF Places
<1>4. \A k \in 0..Len(branch) : Told(1..k)' = Told(1..k)
    BY <1>1, <1>2 DEF Told, IsA
<1>5. Dropped => Dropped'
    <2> SUFFICES ASSUME NEW c \in Places, IsA(c, {"compaction"}), NEW d \in 1..c - 1,
                        IsA(d, {"compaction"}), ~(branch[d].summary \subseteq branch[c].summary)
                 PROVE  Dropped'
        BY DEF Dropped
    <2>1. c \in Places' /\ branch'[c] = branch[c] /\ d \in 1..Len(branch) /\ branch'[d] = branch[d]
        BY <1>1, <1>2, <1>3
    <2> QED
        BY <2>1 DEF Dropped, IsA
<1> QED
    BY <1>1, <1>2, <1>3, <1>4, <1>5 DEF BranchTypes

\* A compaction of the branch stays what it was.
LEMMA OldCuts ==
    ASSUME CompactionInv, NEW e \in BranchEntries, branch' = Append(branch, e),
           NEW c \in Places, IsCompaction(c)
    PROVE  CutsWell(c)'
<1>1. CutsWell(c)
    BY DEF CompactionInv
<1>2. Len(branch) \in Nat /\ c \in 1..Len(branch)
    BY LengthType DEF CompactionInv
<1>3. /\ branch'[c] = branch[c] /\ branch[c].keep \in 1..c - 1 /\ branch[c].keep \in Places
      /\ branch'[branch[c].keep] = branch[branch[c].keep]
      /\ branch[c].keep - 1 \in 0..Len(branch)
    BY <1>1, <1>2, BranchAppend, LengthType DEF CutsWell, CompactionInv
<1>4. CutBefore(c)' = CutBefore(c)
    BY <1>3, BranchAppend DEF CutBefore
<1>5. ~Dropped' => ~Dropped
    BY BranchAppend
<1> QED
    BY <1>1, <1>3, <1>4, <1>5 DEF CutsWell

LEMMA ConverseKeeps == CompactionInv /\ Converse => CompactionInv'
<1> SUFFICES ASSUME CompactionInv, NEW type \in EntryTypes \ {"compaction"}, NEW tokens \in Sizes \cup {0, 1},
                    Says(type, tokens)
             PROVE  CompactionInv'
    BY DEF Converse, EntryTypes, MessageTypes
<1> DEFINE e == BranchEntry(type, tokens)
<1>1. e \in BranchEntries /\ e.type = type /\ branch' = Append(branch, e)
    BY DEF BranchEntry, BranchEntries, Says
<1> HIDE DEF e
<1>2. Len(branch) \in Nat /\ Places = 1..Len(branch)
    BY LengthType DEF CompactionInv
<1>3. ResultsFollow'
    <2> SUFFICES ASSUME NEW i \in Places', branch'[i].type = "tool"
                 PROVE  i > 1 /\ branch'[i - 1].type \in {"assistant", "tool"}
        BY DEF ResultsFollow
    <2>1. CASE i \in Places
        <3>1. i > 1 /\ branch[i - 1].type \in {"assistant", "tool"}
            BY <1>1, <2>1, BranchAppend DEF CompactionInv, ResultsFollow
        <3>2. i - 1 \in Places
            BY <1>2, <2>1, <3>1
        <3> QED
            BY <1>1, <3>1, <3>2, BranchAppend
    <2>2. CASE i = Len(branch) + 1
        <3>1. type = "tool"
            BY <1>1, <2>2, BranchAppend
        <3>2. branch # <<>> /\ branch[Len(branch)].type \in {"assistant", "tool"}
            BY <3>1 DEF Says, IsA
        <3>3. Len(branch) > 0
            BY <1>2, <3>2, EmptySeq DEF CompactionInv, BranchTypes
        <3>4. Len(branch) \in Places /\ i - 1 = Len(branch)
            BY <1>2, <2>2, <3>3
        <3> QED
            BY <1>1, <1>2, <2>2, <3>2, <3>3, <3>4, BranchAppend
    <2> QED
        BY <1>1, <2>1, <2>2, BranchAppend
<1>4. ASSUME NEW c \in Places', IsCompaction(c)' PROVE CutsWell(c)'
    <2>1. c # Len(branch) + 1
        BY <1>1, <1>4, BranchAppend DEF IsCompaction
    <2>2. c \in Places /\ IsCompaction(c)
        BY <1>1, <1>4, <2>1, BranchAppend DEF IsCompaction
    <2> QED
        BY <1>1, <2>2, OldCuts
<1> QED
    BY <1>1, <1>3, <1>4, BranchAppend DEF CompactionInv

\* What is prepared: the places from the boundary to the cut, all of them, and none after.
LEMMA PreparedIs ==
    ASSUME CompactionInv, branch # <<>>
    PROVE  /\ BoundaryStart \in Places
           /\ BoundaryStart = IF Compacted = 0 THEN 1 ELSE branch[Compacted].keep
           /\ Prepared.kept \in BoundaryStart..Len(branch) /\ branch[Prepared.kept].type # "tool"
           /\ Prepared.history \cup Prepared.prefix = Told(BoundaryStart..Prepared.kept - 1)
           /\ Prepared.prefix # {} => Prepared.split
<1>1. Len(branch) \in Nat /\ Len(branch) > 0 /\ Places = 1..Len(branch) /\ BranchTypes
    BY LengthType, EmptySeq DEF CompactionInv, BranchTypes
<1>2. Compacted \in 0..Len(branch) /\ (Compacted # 0 => CutsWell(Compacted))
    BY <1>1, LastIs DEF CompactionInv
<1>3. BoundaryStart = IF Compacted = 0 THEN 1 ELSE branch[Compacted].keep
    BY <1>1, <1>2 DEF BoundaryStart, Compacted, CutsWell
<1>4. BoundaryStart \in Places /\ branch[BoundaryStart].type # "tool"
    <2>1. branch[1].type # "tool"
        BY <1>1 DEF CompactionInv, ResultsFollow
    <2> QED
        BY <1>1, <1>2, <1>3, <2>1 DEF CutsWell
<1> DEFINE start == BoundaryStart
           cut == CutPoint(start)
<1>5. /\ cut.kept \in start..Len(branch) /\ branch[cut.kept].type # "tool"
      /\ cut.turn = 0 \/ cut.turn \in start..cut.kept
    BY <1>1, <1>4, CutWhere
<1>6. /\ Prepared.kept = cut.kept /\ Prepared.split = (cut.turn # 0)
      /\ Prepared.history = Told(start..HistoryEnd(cut))
      /\ Prepared.prefix = IF cut.turn # 0 THEN Told(cut.turn..cut.kept - 1) ELSE {}
    BY DEF Prepared
<1> HIDE DEF cut
<1>7. start \in 1..Len(branch)
    BY <1>1, <1>4
<1> HIDE DEF start
<1>8. CASE cut.turn = 0
    <2>1. HistoryEnd(cut) = cut.kept - 1
        BY <1>8 DEF HistoryEnd
    <2> QED
        BY <1>3, <1>4, <1>5, <1>6, <1>8, <2>1 DEF start
<1>9. CASE cut.turn # 0
    <2>1. HistoryEnd(cut) = cut.turn - 1
        BY <1>9 DEF HistoryEnd
    <2>2. \A i : i \in start..cut.kept - 1 <=> i \in start..cut.turn - 1 \/ i \in cut.turn..cut.kept - 1
        BY <1>1, <1>5, <1>7, <1>9
    <2>3. Told(start..cut.turn - 1) \cup Told(cut.turn..cut.kept - 1) = Told(start..cut.kept - 1)
        BY <2>2 DEF Told
    <2> QED
        BY <1>3, <1>4, <1>5, <1>6, <1>9, <2>1, <2>3 DEF start
<1> QED
    BY <1>8, <1>9

LEMMA CompactKeeps == CompactionInv /\ Compact => CompactionInv'
<1> SUFFICES ASSUME CompactionInv, Compact PROVE CompactionInv'
    OBVIOUS
<1>1. branch # <<>> /\ branch[Len(branch)].type # "compaction"
    BY DEF Compact, CanCompact, IsA
<1>2. Len(branch) \in Nat /\ Len(branch) > 0 /\ Places = 1..Len(branch) /\ BranchTypes
    BY <1>1, LengthType, EmptySeq DEF CompactionInv, BranchTypes
<1> DEFINE start == BoundaryStart
           prep == Prepared
           last == Compacted
           e == [BranchEntry("compaction", 0) EXCEPT !.keep = prep.kept, !.summary = Summarised(prep),
                                                     !.details = FileOps(prep)]
           read == prep.history \cup prep.prefix
<1>3. /\ start \in Places /\ start = IF last = 0 THEN 1 ELSE branch[last].keep
      /\ prep.kept \in start..Len(branch) /\ branch[prep.kept].type # "tool"
      /\ read = Told(start..prep.kept - 1)
      /\ prep.prefix # {} => prep.split
    BY <1>1, PreparedIs
<1>4. last \in 0..Len(branch) /\ (last # 0 => IsCompaction(last) /\ CutsWell(last))
    BY <1>2, LastIs DEF CompactionInv
<1>5. /\ PreviousSummary = IF last = 0 THEN {} ELSE branch[last].summary
      /\ PreviousDetails = IF last = 0 THEN {} ELSE branch[last].details
    BY DEF PreviousSummary, PreviousDetails, Compacted
<1>6. PreviousSummary \subseteq 1..start - 1 /\ PreviousDetails \subseteq Nat
    BY <1>2, <1>3, <1>4, <1>5, LengthType DEF CutsWell, BranchEntries
<1>7. read \subseteq start..prep.kept - 1
    BY <1>3 DEF Told
<1>8. read \subseteq Summarised(prep) /\ Summarised(prep) \subseteq read \cup PreviousSummary
    BY <1>3 DEF Summarised
<1>9. FileOps(prep) = PreviousDetails \cup read
    BY DEF FileOps
<1>10. branch' = Append(branch, e)
    BY DEF Compact
<1> HIDE DEF prep, start, last
<1>11. /\ e.type = "compaction" /\ e.keep = prep.kept
       /\ e.summary = Summarised(prep) /\ e.details = FileOps(prep)
    BY DEF BranchEntry
<1>12. e \in BranchEntries
    <2>1. start \in Nat /\ prep.kept \in Nat /\ Summarised(prep) \subseteq Nat /\ FileOps(prep) \subseteq Nat
        <3>1. start \in Nat /\ prep.kept \in Nat
            BY <1>2, <1>3
        <3>2. start..prep.kept - 1 \subseteq Nat /\ 1..start - 1 \subseteq Nat
            BY <3>1
        <3> QED
            BY <1>6, <1>7, <1>8, <1>9, <3>1, <3>2
    <2> QED
        BY <2>1 DEF BranchEntry, BranchEntries, EntryTypes
<1> HIDE DEF e
<1>13. ResultsFollow'
    <2> SUFFICES ASSUME NEW i \in Places', branch'[i].type = "tool"
                 PROVE  i > 1 /\ branch'[i - 1].type \in {"assistant", "tool"}
        BY DEF ResultsFollow
    <2>1. i \in Places
        BY <1>10, <1>11, <1>12, BranchAppend
    <2>2. i > 1 /\ branch[i - 1].type \in {"assistant", "tool"}
        BY <1>10, <1>12, <2>1, BranchAppend DEF CompactionInv, ResultsFollow
    <2>3. i - 1 \in Places
        BY <1>2, <2>1, <2>2
    <2> QED
        BY <1>10, <1>12, <2>2, <2>3, BranchAppend
<1>17. PICK n \in Nat : n = Len(branch) + 1
    BY <1>2
<1>18. PICK kept : kept = prep.kept
    OBVIOUS
<1>14. branch'[n] = e /\ n - 1 = Len(branch) /\ Len(branch)' = n
    BY <1>2, <1>10, <1>12, <1>17, BranchAppend
<1>19. last \in Nat
    BY <1>2, <1>4
<1>15. CutsWell(n)'
    <2>1. branch'[n].keep = kept /\ kept \in 1..Len(branch)
        BY <1>2, <1>3, <1>11, <1>14, <1>18
    <2>2. kept \in Places /\ branch'[kept].type # "tool"
        BY <1>2, <1>3, <1>10, <1>12, <1>18, <2>1, BranchAppend
    <2>3. CutBefore(n)' = Told(1..kept - 1)
        <3>1. kept - 1 \in 0..Len(branch)
            BY <1>2, <2>1
        <3>2. CutBefore(n)' = Told(1..kept - 1)'
            BY <2>1 DEF CutBefore
        <3> QED
            BY <1>10, <1>12, <3>1, <3>2, BranchAppend
    <2>4. Told(1..kept - 1) = Told(1..start - 1) \cup read
        <3>1. \A i : i \in 1..kept - 1 <=> i \in 1..start - 1 \/ i \in start..kept - 1
            BY <1>2, <1>3, <1>18
        <3> QED
            BY <1>3, <1>18, <3>1 DEF Told
    <2>5. last = 0 => Told(1..start - 1) = {}
        BY <1>3 DEF Told
    <2>6. last # 0 => Told(1..start - 1) = CutBefore(last)
        BY <1>3 DEF CutBefore
    <2>7. e.summary \subseteq 1..kept - 1
        <3>1. \A i \in 1..start - 1 : i \in 1..kept - 1
            BY <1>2, <1>3, <1>18
        <3>2. \A i \in start..kept - 1 : i \in 1..kept - 1
            BY <1>2, <1>3, <1>18
        <3> QED
            BY <1>6, <1>7, <1>8, <1>11, <1>18, <3>1, <3>2
    <2>8. Told(1..kept - 1) \subseteq e.details
        BY <1>4, <1>5, <1>9, <1>11, <2>4, <2>5, <2>6 DEF CutsWell
    <2>9. ASSUME ~Dropped' PROVE Told(1..kept - 1) \subseteq e.summary
        <3>1. CASE last = 0
            BY <1>8, <1>11, <2>4, <2>5, <3>1
        <3>2. CASE last # 0
            <4>1. last \in Places /\ branch'[last] = branch[last] /\ last \in 1..n - 1 /\ n \in Places'
                BY <1>2, <1>4, <1>10, <1>12, <1>14, <1>17, <1>19, <3>2, BranchAppend
            <4>2. branch'[last].type = "compaction" /\ branch'[n].type = "compaction"
                BY <1>4, <1>11, <1>14, <3>2, <4>1 DEF IsCompaction
            <4>3. branch[last].summary \subseteq e.summary
                BY <1>14, <2>9, <4>1, <4>2 DEF Dropped, IsA
            <4>4. ~Dropped
                BY <1>10, <1>12, <2>9, BranchAppend
            <4>5. CutBefore(last) \subseteq branch[last].summary
                BY <1>4, <3>2, <4>4 DEF CutsWell
            <4> QED
                BY <1>8, <1>11, <2>4, <2>6, <3>2, <4>3, <4>5
        <3> QED
            BY <3>1, <3>2
    <2>10. branch'[n].keep \in 1..n - 1 /\ branch'[branch'[n].keep].type # "tool"
        BY <1>14, <2>1, <2>2
    <2>11. branch'[n].summary \subseteq 1..branch'[n].keep - 1
        BY <1>14, <2>1, <2>7
    <2>12. CutBefore(n)' \subseteq branch'[n].details /\ (~Dropped' => CutBefore(n)' \subseteq branch'[n].summary)
        BY <1>14, <2>3, <2>8, <2>9
    <2> QED
        BY <2>10, <2>11, <2>12 DEF CutsWell
<1>16. ASSUME NEW c \in Places', IsCompaction(c)' PROVE CutsWell(c)'
    <2>1. CASE c = n
        BY <1>15, <2>1
    <2>2. CASE c \in Places
        <3>1. IsCompaction(c)
            BY <1>10, <1>12, <1>16, <2>2, BranchAppend DEF IsCompaction
        <3> QED
            BY <1>10, <1>12, <2>2, <3>1, OldCuts
    <2> QED
        BY <1>10, <1>12, <1>17, <2>1, <2>2, BranchAppend
<1> QED
    BY <1>10, <1>12, <1>13, <1>16, BranchAppend DEF CompactionInv

\* A result is preceded by results only, back to the answer that called for them.
LEMMA CallOf ==
    ASSUME CompactionInv, NEW low \in Places, branch[low].type \notin {"tool"}, NEW i \in Places, low <= i,
           branch[i].type = "tool"
    PROVE  \E c \in low..i - 1 : branch[c].type = "assistant" /\ \A k \in c + 1..i : branch[k].type = "tool"
<1>1. Len(branch) \in Nat /\ Places = 1..Len(branch)
    BY LengthType DEF CompactionInv
<1> DEFINE T == {k \in low..i : branch[k].type # "tool"}
<1>2. T \subseteq 0..Len(branch) /\ low \in T
    BY <1>1
<1>3. Max(T) \in T /\ \A x \in T : x <= Max(T)
    <2> HIDE DEF T
    <2> QED
        BY <1>1, <1>2, MaxOfPlaces
<1> DEFINE c == Max(T)
<1>4. c \in low..i /\ branch[c].type # "tool"
    BY <1>3
<1>5. \A k \in low..i : branch[k].type # "tool" => k <= c
    BY <1>3
<1> HIDE DEF c
<1>6. c # i /\ c \in low..i - 1
    BY <1>1, <1>4
<1>7. ASSUME NEW k \in c + 1..i PROVE branch[k].type = "tool"
    <2>1. k \in low..i /\ ~(k <= c)
        BY <1>1, <1>4
    <2> QED
        BY <1>5, <2>1
<1>8. branch[c + 1].type = "tool" /\ c + 1 \in Places /\ (c + 1) - 1 = c
    BY <1>1, <1>6, <1>7
<1>9. branch[c].type \in {"assistant", "tool"}
    BY <1>8 DEF CompactionInv, ResultsFollow
<1> QED
    BY <1>4, <1>6, <1>7, <1>9

LEMMA CompactionTold == CompactionInv => HistoryKept
<1> SUFFICES ASSUME CompactionInv, branch # <<>>
             PROVE  NothingForgotten /\ NothingTwice /\ FilesKept /\ ResultsKeepTheirCall
    BY DEF HistoryKept
<1>1. Len(branch) \in Nat /\ Places = 1..Len(branch) /\ BranchTypes /\ Len(branch) > 0
    BY LengthType, EmptySeq DEF CompactionInv, BranchTypes
<1> DEFINE last == Compacted
           keep == branch[last].keep
<1>2. last \in 0..Len(branch) /\ (last # 0 => IsCompaction(last) /\ CutsWell(last))
    BY <1>1, LastIs DEF CompactionInv
<1>3. \A c \in Places : IsCompaction(c) => c <= last
    BY <1>1, LastIs
<1>4. /\ Summary = IF last = 0 THEN {} ELSE branch[last].summary
      /\ PreviousDetails = IF last = 0 THEN {} ELSE branch[last].details
      /\ Context = IF last = 0 THEN Told(Places) ELSE Told((keep..last - 1) \cup (last + 1..Len(branch)))
    BY DEF Summary, PreviousSummary, PreviousDetails, Context, Compacted
<1> HIDE DEF last
<1>5. CASE last = 0
    <2>1. NothingForgotten /\ NothingTwice /\ FilesKept
        BY <1>4, <1>5 DEF NothingForgotten, NothingTwice, FilesKept
    <2>2. ASSUME NEW i \in Context, IsA(i, {"tool"})
          PROVE  \E c \in Context : c < i /\ IsA(c, {"assistant"}) /\ \A k \in c + 1..i : ~IsA(k, {"user", "bash"})
        <3>1. i \in Places /\ branch[i].type = "tool" /\ 1 \in Places /\ 1 <= i
            BY <1>1, <1>4, <1>5, <2>2 DEF Told, IsA
        <3>2. branch[1].type \notin {"tool"}
            BY <1>1 DEF CompactionInv, ResultsFollow
        <3>3. PICK c \in 1..i - 1 : branch[c].type = "assistant" /\ \A k \in c + 1..i : branch[k].type = "tool"
            BY <3>1, <3>2, CallOf
        <3>4. c \in Context /\ c < i
            BY <1>1, <1>4, <1>5, <3>1, <3>3 DEF Told, IsA, MessageTypes
        <3> QED
            BY <3>3, <3>4 DEF IsA
    <2> QED
        BY <2>1, <2>2 DEF ResultsKeepTheirCall
<1>6. CASE last # 0
    <2>1. /\ IsCompaction(last) /\ keep \in 1..last - 1 /\ branch[keep].type # "tool"
          /\ branch[last].summary \subseteq 1..keep - 1
          /\ Told(1..keep - 1) \subseteq branch[last].details
          /\ ~Dropped => Told(1..keep - 1) \subseteq branch[last].summary
        BY <1>2, <1>6 DEF CutsWell, CutBefore
    <2>2. /\ Summary = branch[last].summary /\ PreviousDetails = branch[last].details
          /\ Context = Told((keep..last - 1) \cup (last + 1..Len(branch)))
        BY <1>4, <1>6
    <2>3. branch[last].type = "compaction" /\ last \in 1..Len(branch)
        BY <1>1, <1>2, <1>6, <2>1 DEF IsCompaction
    <2> HIDE DEF keep
    <2>4. Told(Places) \ Context \subseteq Told(1..keep - 1)
        <3> SUFFICES ASSUME NEW i \in Told(Places), i \notin Context PROVE i \in Told(1..keep - 1)
            OBVIOUS
        <3>1. i \in 1..Len(branch) /\ i # last
            BY <1>1, <2>3 DEF Told, IsA, MessageTypes
        <3>2. i \notin (keep..last - 1) \cup (last + 1..Len(branch))
            BY <2>2 DEF Told
        <3>3. i \in 1..keep - 1
            BY <1>1, <2>1, <2>3, <3>1, <3>2
        <3> QED
            BY <3>3 DEF Told
    <2>5. Summary \cap Context = {}
        <3>1. \A i \in 1..keep - 1 : i \notin (keep..last - 1) \cup (last + 1..Len(branch))
            BY <1>1, <2>1, <2>3
        <3> QED
            BY <2>1, <2>2, <3>1 DEF Told
    <2>6. NothingForgotten /\ NothingTwice /\ FilesKept
        BY <2>1, <2>2, <2>4, <2>5 DEF NothingForgotten, NothingTwice, FilesKept
    <2>7. ASSUME NEW i \in Context, IsA(i, {"tool"})
          PROVE  \E c \in Context : c < i /\ IsA(c, {"assistant"}) /\ \A k \in c + 1..i : ~IsA(k, {"user", "bash"})
        <3>1. /\ branch[i].type = "tool" /\ i \in (keep..last - 1) \cup (last + 1..Len(branch))
            BY <2>2, <2>7 DEF Told, IsA
        <3>2. CASE i \in keep..last - 1
            <4>1. i \in Places /\ keep \in Places /\ keep <= i /\ branch[keep].type \notin {"tool"}
                BY <1>1, <2>1, <2>3, <3>2
            <4>2. PICK c \in keep..i - 1 : branch[c].type = "assistant" /\ \A k \in c + 1..i : branch[k].type = "tool"
                BY <3>1, <4>1, CallOf
            <4>3. c \in keep..last - 1 /\ c < i
                BY <1>1, <2>1, <2>3, <3>2, <4>2
            <4>4. c \in Context
                BY <2>2, <4>2, <4>3 DEF Told, IsA, MessageTypes
            <4> QED
                BY <4>2, <4>3, <4>4 DEF IsA
        <3>3. CASE i \in last + 1..Len(branch)
            <4>1. i \in Places /\ last \in Places /\ last <= i /\ branch[last].type \notin {"tool"}
                BY <1>1, <2>3, <3>3
            <4>2. PICK c \in last..i - 1 : branch[c].type = "assistant" /\ \A k \in c + 1..i : branch[k].type = "tool"
                BY <3>1, <4>1, CallOf
            <4>3. c # last
                BY <2>3, <4>2
            <4>4. c \in last + 1..Len(branch) /\ c < i
                BY <1>1, <2>3, <3>3, <4>2, <4>3
            <4>5. c \in Context
                BY <2>2, <4>2, <4>4 DEF Told, IsA, MessageTypes
            <4> QED
                BY <4>2, <4>4, <4>5 DEF IsA
        <3> QED
            BY <3>1, <3>2, <3>3
    <2> QED
        BY <2>6, <2>7 DEF ResultsKeepTheirCall
<1> QED
    BY <1>5, <1>6

LEMMA CompactionStepKeeps == CompactionInv /\ [CompactionNext]_branch => CompactionInv'
<1> SUFFICES ASSUME CompactionInv, UNCHANGED branch PROVE CompactionInv'
    BY ConverseKeeps, CompactKeeps DEF CompactionNext
<1> QED
    BY DEF CompactionInv, BranchTypes, ResultsFollow, CutsWell, CutBefore, Told, IsA, IsCompaction, Dropped, Places

LEMMA CompactionInitKeeps == CompactionInit => CompactionInv
<1> SUFFICES ASSUME branch = <<>> PROVE CompactionInv
    BY DEF CompactionInit
<1>1. branch \in Seq(BranchEntries) /\ Len(branch) = 0 /\ Places = {}
    BY EmptySeq DEF Places
<1> QED
    BY <1>1 DEF CompactionInv, BranchTypes, ResultsFollow

-----------------------------------------------------------------------------
(* The tokens of a set of entries: a fold over a set whose order is chosen.  *)

\* The tokens of a set of entries are a sum: the fold's function over the subsets.
Pick(s) == CHOOSE x \in s : TRUE
Sums(t, U, w) == w = [s \in SUBSET U |-> IF s = {} THEN 0 ELSE t[Pick(s)].tokens + w[s \ {Pick(s)}]]
TokensIn(t, s) == MapThenSumSet(LAMBDA n : t[n].tokens, s)

LEMMA Picked == ASSUME NEW s, s # {} PROVE Pick(s) \in s
BY DEF Pick

\* A set of entries is bounded by its size.
Small(U, n) == {s \in SUBSET U : Cardinality(s) <= n}

LEMMA SmallOnes ==
    ASSUME NEW U, IsFiniteSet(U), NEW n \in Nat
    PROVE  /\ Small(U, 0) = {{}}
           /\ \A s \in Small(U, n + 1) : \A x \in s : s \ {x} \in Small(U, n)
           /\ Small(U, Cardinality(U)) = SUBSET U
           /\ Small(U, n) \subseteq Small(U, n + 1)
           /\ {} \in Small(U, n)
<1>1. \A s \in SUBSET U : IsFiniteSet(s) /\ Cardinality(s) \in Nat /\ Cardinality(s) <= Cardinality(U)
    BY FS_Subset, FS_CardinalityType
<1>2. \A s \in SUBSET U : Cardinality(s) = 0 <=> s = {}
    BY <1>1, FS_EmptySet
<1>3. Small(U, 0) = {{}}
    BY <1>1, <1>2 DEF Small
<1>4. ASSUME NEW s \in Small(U, n + 1), NEW x \in s PROVE s \ {x} \in Small(U, n)
    <2>1. s \in SUBSET U /\ Cardinality(s) <= n + 1 /\ Cardinality(s) \in Nat /\ IsFiniteSet(s)
        BY <1>1, <1>4 DEF Small
    <2>2. Cardinality(s \ {x}) = Cardinality(s) - 1
        BY <2>1, FS_RemoveElement
    <2> QED
        BY <2>1, <2>2 DEF Small
<1>5. Small(U, Cardinality(U)) = SUBSET U
    BY <1>1 DEF Small
<1>6. Small(U, n) \subseteq Small(U, n + 1)
    BY <1>1 DEF Small
<1>7. {} \in Small(U, n)
    BY <1>2 DEF Small
<1> QED
    BY <1>3, <1>4, <1>5, <1>6, <1>7

LEMMA SumsExist ==
    ASSUME NEW U, IsFiniteSet(U), NEW t
    PROVE  \E w : Sums(t, U, w)
<1> DEFINE Partial(w, n) == w = [s \in Small(U, n) |->
                                     IF s = {} THEN 0 ELSE t[Pick(s)].tokens + w[s \ {Pick(s)}]]
           S == {n \in Nat : \E w : Partial(w, n)}
<1>1. 0 \in S
    <2> DEFINE w == [s \in Small(U, 0) |-> 0]
    <2>1. Small(U, 0) = {{}}
        BY SmallOnes
    <2>2. Partial(w, 0)
        BY <2>1
    <2> QED
        BY <2>2
<1>2. ASSUME NEW n \in Nat, n \in S PROVE n + 1 \in S
    <2>1. PICK f : Partial(f, n)
        BY <1>2
    <2> DEFINE g == [s \in Small(U, n + 1) |->
                        IF s = {} THEN 0 ELSE t[Pick(s)].tokens + f[s \ {Pick(s)}]]
    <2>2. ASSUME NEW u \in Small(U, n) PROVE g[u] = f[u]
        <3>1. u \in Small(U, n + 1)
            BY SmallOnes
        <3>2. f[u] = IF u = {} THEN 0 ELSE t[Pick(u)].tokens + f[u \ {Pick(u)}]
            BY <2>1
        <3>3. g[u] = IF u = {} THEN 0 ELSE t[Pick(u)].tokens + f[u \ {Pick(u)}]
            BY <3>1
        <3> QED
            BY <3>2, <3>3
    <2> DEFINE body(s) == IF s = {} THEN 0 ELSE t[Pick(s)].tokens + g[s \ {Pick(s)}]
    <2>3. ASSUME NEW s \in Small(U, n + 1) PROVE g[s] = body(s)
        <3>1. s # {} => s \ {Pick(s)} \in Small(U, n)
            BY SmallOnes, Picked
        <3>2. s # {} => g[s \ {Pick(s)}] = f[s \ {Pick(s)}]
            BY <2>2, <3>1
        <3>3. g[s] = IF s = {} THEN 0 ELSE t[Pick(s)].tokens + f[s \ {Pick(s)}]
            OBVIOUS
        <3> HIDE DEF g
        <3> QED
            BY <3>2, <3>3
    <2>4. g = [s \in Small(U, n + 1) |-> body(s)]
        <3> HIDE DEF body
        <3> QED
            BY <2>3
    <2>5. Partial(g, n + 1)
        BY <2>4
    <2> HIDE DEF g, Partial
    <2> QED
        BY <2>5
<1>3. Cardinality(U) \in S
    <2>1. Cardinality(U) \in Nat
        BY FS_CardinalityType
    <2>2. Nat \subseteq S
        <3> HIDE DEF S
        <3> QED
            BY <1>1, <1>2, UpFromZero
    <2> QED
        BY <2>1, <2>2
<1>4. PICK w : Partial(w, Cardinality(U))
    BY <1>3
<1>5. Small(U, Cardinality(U)) = SUBSET U
    BY SmallOnes
<1> QED
    BY <1>4, <1>5 DEF Sums

\* Two such functions agree where both are defined.
LEMMA SumsAgree ==
    ASSUME NEW U, IsFiniteSet(U), NEW S, S \subseteq U, NEW t, NEW u, NEW v, NEW w,
           Sums(t, U, w), Sums(u, S, v), \A n \in S : t[n].tokens = u[n].tokens
    PROVE  v[S] = w[S]
<1> DEFINE I == {n \in Nat : \A s \in Small(S, n) : v[s] = w[s]}
<1>0. IsFiniteSet(S)
    BY FS_Subset
<1>1. 0 \in I
    <2>1. v[{}] = 0 /\ w[{}] = 0
        BY DEF Sums
    <2>2. Small(S, 0) = {{}}
        BY <1>0, SmallOnes
    <2> QED
        BY <2>1, <2>2
<1>2. ASSUME NEW n \in Nat, n \in I PROVE n + 1 \in I
    <2>1. ASSUME NEW s \in Small(S, n + 1), s # {} PROVE v[s] = w[s]
        <3>1. s \in SUBSET S /\ s \in SUBSET U /\ Pick(s) \in s
            BY <2>1, Picked DEF Small
        <3>2. s \ {Pick(s)} \in Small(S, n)
            BY <1>0, <3>1, SmallOnes
        <3>3. v[s \ {Pick(s)}] = w[s \ {Pick(s)}]
            BY <1>2, <3>2
        <3>4. v[s] = u[Pick(s)].tokens + v[s \ {Pick(s)}]
            BY <2>1, <3>1 DEF Sums
        <3>5. w[s] = t[Pick(s)].tokens + w[s \ {Pick(s)}]
            BY <2>1, <3>1 DEF Sums
        <3> QED
            BY <3>1, <3>3, <3>4, <3>5
    <2>2. v[{}] = w[{}]
        BY DEF Sums
    <2> QED
        BY <2>1, <2>2
<1>3. Nat \subseteq I
    <2> HIDE DEF I
    <2> QED
        BY <1>1, <1>2, UpFromZero
<1>4. S \in Small(S, Cardinality(S)) /\ Cardinality(S) \in Nat
    BY <1>0, SmallOnes, FS_CardinalityType
<1>5. Cardinality(S) \in I
    BY <1>3, <1>4
<1> QED
    BY <1>4, <1>5

LEMMA SumsAre ==
    ASSUME NEW U, IsFiniteSet(U), NEW t, NEW w, Sums(t, U, w), NEW S, S \subseteq U
    PROVE  TokensIn(t, S) = w[S]
<1>1. IsFiniteSet(S)
    BY FS_Subset
<1> DEFINE v == CHOOSE v : Sums(t, S, v)
<1>2. TokensIn(t, S) = v[S]
    BY DEF TokensIn, MapThenSumSet, MapThenFoldSet, Sums, Pick
<1>3. Sums(t, S, v)
    BY <1>1, SumsExist
<1> HIDE DEF v
<1>4. v[S] = w[S]
    BY <1>3, SumsAgree
<1> QED
    BY <1>2, <1>4

\* One entry more adds its tokens, whatever order the fold takes them in.
SumsUp(t, w, s) == w[s] \in Nat /\ \A x \in s : w[s] = t[x].tokens + w[s \ {x}]
LEMMA SumsAdd ==
    ASSUME NEW U, IsFiniteSet(U), NEW t, NEW w, Sums(t, U, w), \A n \in U : t[n].tokens \in Nat
    PROVE  \A s \in SUBSET U : SumsUp(t, w, s)
<1> DEFINE I == {n \in Nat : \A s \in Small(U, n) : SumsUp(t, w, s)}
<1>1. 0 \in I
    <2>1. w[{}] = 0
        BY DEF Sums
    <2>2. Small(U, 0) = {{}}
        BY SmallOnes
    <2>3. SumsUp(t, w, {})
        BY <2>1 DEF SumsUp
    <2> QED
        BY <2>2, <2>3
<1>2. ASSUME NEW n \in Nat, n \in I PROVE n + 1 \in I
    <2>0. SumsUp(t, w, {})
        BY DEF Sums, SumsUp
    <2>1. ASSUME NEW s \in Small(U, n + 1), s # {} PROVE SumsUp(t, w, s)
        <3> DEFINE p == Pick(s)
        <3>1. s \in SUBSET U /\ p \in s
            BY <2>1, Picked DEF Small
        <3>2. w[s] = t[p].tokens + w[s \ {p}]
            BY <2>1, <3>1 DEF Sums
        <3> HIDE DEF p
        <3>3. \A x \in s : s \ {x} \in Small(U, n)
            BY SmallOnes
        <3>4. \A x \in s : SumsUp(t, w, s \ {x}) /\ t[x].tokens \in Nat
            BY <1>2, <3>1, <3>3
        <3>5. w[s] \in Nat
            <4>1. w[s \ {p}] \in Nat /\ t[p].tokens \in Nat
                BY <3>1, <3>4 DEF SumsUp
            <4> QED
                BY <3>2, <4>1
        <3>6. ASSUME NEW x \in s, x # p PROVE w[s] = t[x].tokens + w[s \ {x}]
            <4> DEFINE a == t[x].tokens
                       b == t[p].tokens
                       c == w[(s \ {p}) \ {x}]
            <4>1. w[s \ {p}] = a + c
                BY <3>1, <3>4, <3>6 DEF SumsUp
            <4>2. w[s \ {x}] = b + w[(s \ {x}) \ {p}]
                BY <3>1, <3>4, <3>6 DEF SumsUp
            <4>3. (s \ {x}) \ {p} = (s \ {p}) \ {x}
                OBVIOUS
            <4>4. w[s \ {x}] = b + c
                BY <4>2, <4>3
            <4>5. a \in Nat /\ b \in Nat
                BY <3>1, <3>4
            <4>6. c \in Nat
                <5>1. (s \ {p}) \ {x} \in Small(U, n)
                    <6>1. s \ {p} \in Small(U, n + 1)
                        BY <3>1, <3>3, SmallOnes
                    <6> QED
                        BY <6>1, <3>6, SmallOnes
                <5> QED
                    BY <1>2, <5>1 DEF SumsUp
            <4> HIDE DEF a, b, c
            <4> QED
                BY <3>2, <4>1, <4>4, <4>5, <4>6 DEF a, b
        <3> QED
            BY <3>2, <3>5, <3>6 DEF SumsUp
    <2> QED
        BY <2>0, <2>1
<1>3. Nat \subseteq I
    <2> HIDE DEF I
    <2> QED
        BY <1>1, <1>2, UpFromZero
<1>4. Small(U, Cardinality(U)) = SUBSET U /\ Cardinality(U) \in Nat
    BY SmallOnes, FS_CardinalityType
<1>5. Cardinality(U) \in I
    BY <1>3, <1>4
<1> QED
    BY <1>4, <1>5

\* A larger set has no fewer.
LEMMA SumsGrow ==
    ASSUME NEW U, IsFiniteSet(U), NEW t, NEW w, Sums(t, U, w), \A n \in U : t[n].tokens \in Nat,
           NEW s, NEW u, s \subseteq u, u \subseteq U
    PROVE  w[s] <= w[u]
<1> DEFINE I == {n \in Nat : \A r \in Small(U, n) : s \subseteq r => w[s] <= w[r]}
<1>0. \A r \in SUBSET U : SumsUp(t, w, r)
    BY SumsAdd
<1>1. 0 \in I
    <2>1. Small(U, 0) = {{}}
        BY SmallOnes
    <2>2. w[{}] \in Nat
        BY <1>0 DEF SumsUp
    <2>3. ASSUME NEW r \in Small(U, 0), s \subseteq r PROVE w[s] <= w[r]
        <3>1. r = {} /\ s = {}
            BY <2>1, <2>3
        <3> QED
            BY <2>2, <3>1
    <2> QED
        BY <2>3
<1>2. ASSUME NEW n \in Nat, n \in I PROVE n + 1 \in I
    <2>1. ASSUME NEW r \in Small(U, n + 1), s \subseteq r, s # r PROVE w[s] <= w[r]
        <3>1. PICK x \in r : x \notin s
            BY <2>1
        <3>2. r \ {x} \in Small(U, n) /\ s \subseteq r \ {x}
            BY <2>1, <3>1, SmallOnes
        <3>3. w[s] <= w[r \ {x}]
            BY <1>2, <3>2
        <3>4. r \in SUBSET U /\ s \in SUBSET U
            BY <2>1 DEF Small
        <3>5. w[r] = t[x].tokens + w[r \ {x}] /\ w[r \ {x}] \in Nat /\ w[s] \in Nat
            BY <1>0, <3>1, <3>4 DEF SumsUp
        <3>6. t[x].tokens \in Nat
            BY <3>1, <3>4
        <3> QED
            BY <3>3, <3>5, <3>6
    <2>2. w[s] <= w[s]
        BY <1>0 DEF SumsUp
    <2> QED
        BY <2>1, <2>2
<1>3. Nat \subseteq I
    <2> HIDE DEF I
    <2> QED
        BY <1>1, <1>2, UpFromZero
<1>4. Small(U, Cardinality(U)) = SUBSET U /\ Cardinality(U) \in Nat
    BY SmallOnes, FS_CardinalityType
<1>5. Cardinality(U) \in I
    BY <1>3, <1>4
<1> QED
    BY <1>4, <1>5

\* What the proofs use of the tokens of a set of entries.
LEMMA TokensAdd ==
    ASSUME NEW U, IsFiniteSet(U), NEW t, \A n \in U : t[n].tokens \in Nat
    PROVE  /\ TokensIn(t, {}) = 0
           /\ \A s \in SUBSET U : TokensIn(t, s) \in Nat
           /\ \A s \in SUBSET U : \A x \in U \ s : TokensIn(t, s \cup {x}) = TokensIn(t, s) + t[x].tokens
           /\ \A s, u \in SUBSET U : s \subseteq u => TokensIn(t, s) <= TokensIn(t, u)
<1>1. PICK w : Sums(t, U, w)
    BY SumsExist
<1>2. \A s \in SUBSET U : TokensIn(t, s) = w[s]
    BY <1>1, SumsAre
<1>3. \A s \in SUBSET U : SumsUp(t, w, s)
    BY <1>1, SumsAdd
<1>4. w[{}] = 0
    BY <1>1 DEF Sums
<1>5. ASSUME NEW s \in SUBSET U, NEW x \in U \ s
      PROVE  TokensIn(t, s \cup {x}) = TokensIn(t, s) + t[x].tokens
    <2>1. s \cup {x} \in SUBSET U /\ (s \cup {x}) \ {x} = s
        OBVIOUS
    <2>2. w[s \cup {x}] = t[x].tokens + w[(s \cup {x}) \ {x}]
        BY <1>3, <2>1 DEF SumsUp
    <2>3. w[s] \in Nat /\ t[x].tokens \in Nat
        BY <1>3 DEF SumsUp
    <2>4. w[s \cup {x}] = t[x].tokens + w[s]
        BY <2>1, <2>2
    <2>5. TokensIn(t, s \cup {x}) = w[s \cup {x}] /\ TokensIn(t, s) = w[s]
        BY <1>2, <2>1
    <2> QED
        BY <2>3, <2>4, <2>5
<1>6. ASSUME NEW s \in SUBSET U, NEW u \in SUBSET U, s \subseteq u
      PROVE  TokensIn(t, s) <= TokensIn(t, u)
    <2>1. w[s] <= w[u]
        BY <1>1, <1>6, SumsGrow
    <2> QED
        BY <1>2, <2>1
<1>7. \A s \in SUBSET U : TokensIn(t, s) \in Nat
    BY <1>2, <1>3 DEF SumsUp
<1> QED
    BY <1>2, <1>4, <1>5, <1>6, <1>7

LEMMA TokensSame ==
    ASSUME NEW U, IsFiniteSet(U), NEW t, NEW u, \A n \in U : t[n].tokens = u[n].tokens
    PROVE  \A s \in SUBSET U : TokensIn(t, s) = TokensIn(u, s)
<1> TAKE s \in SUBSET U
<1>1. PICK w : Sums(t, U, w)
    BY SumsExist
<1>2. IsFiniteSet(s) /\ \A n \in s : t[n].tokens = u[n].tokens
    BY FS_Subset
<1>3. PICK v : Sums(u, s, v)
    BY <1>2, SumsExist
<1>4. v[s] = w[s]
    BY <1>1, <1>2, <1>3, SumsAgree
<1>5. TokensIn(t, s) = w[s]
    BY <1>1, SumsAre
<1>6. TokensIn(u, s) = v[s]
    BY <1>2, <1>3, SumsAre
<1> QED
    BY <1>4, <1>5, <1>6

-----------------------------------------------------------------------------
(* The paths of the tree that is moved about in.                           *)

\* The paths of a tree of which every parent comes before its children.
Climbs(t, m, f) == f = [k \in 0..m |-> IF k = Root THEN {} ELSE {k} \cup f[t[k].parent]]
ParentsFirst(t, m) == \A n \in 1..m : t[n].parent \in 0..n - 1

LEMMA PathsExist ==
    ASSUME NEW t, NEW m \in Nat, ParentsFirst(t, m)
    PROVE  \E f : Climbs(t, m, f)
<1> DEFINE S == {n \in Nat : n <= m => \E f : Climbs(t, n, f)}
<1>1. 0 \in S
    <2> DEFINE f == [k \in 0..0 |-> {}]
    <2>1. Climbs(t, 0, f)
        <3>1. \A k \in 0..0 : k = Root
            BY DEF Root
        <3> QED
            BY <3>1 DEF Climbs
    <2> QED
        BY <2>1
<1>2. ASSUME NEW n \in Nat, n \in S PROVE n + 1 \in S
    <2> SUFFICES ASSUME n + 1 <= m PROVE \E f : Climbs(t, n + 1, f)
        OBVIOUS
    <2>1. PICK f : Climbs(t, n, f)
        BY <1>2
    <2> DEFINE g == [k \in 0..(n + 1) |-> IF k = Root THEN {} ELSE {k} \cup f[t[k].parent]]
               body(k) == IF k = Root THEN {} ELSE {k} \cup g[t[k].parent]
    <2>2. ASSUME NEW k \in 0..n PROVE g[k] = f[k]
        <3>1. k \in 0..(n + 1)
            OBVIOUS
        <3> QED
            BY <2>1, <3>1 DEF Climbs
    <2>3. ASSUME NEW k \in 0..(n + 1) PROVE g[k] = body(k)
        <3>1. CASE k = Root
            BY <3>1
        <3>2. CASE k # Root
            <4>1. k \in 1..m
                BY <3>2 DEF Root
            <4>2. t[k].parent \in 0..k - 1
                BY <4>1 DEF ParentsFirst
            <4>3. t[k].parent \in 0..n
                BY <4>1, <4>2
            <4>4. g[t[k].parent] = f[t[k].parent]
                BY <2>2, <4>3
            <4>5. g[k] = {k} \cup f[t[k].parent]
                BY <3>2
            <4> HIDE DEF g
            <4> QED
                BY <3>2, <4>4, <4>5
        <3> QED
            BY <3>1, <3>2
    <2>4. g = [k \in 0..(n + 1) |-> body(k)]
        <3> HIDE DEF body
        <3> QED
            BY <2>3
    <2>5. Climbs(t, n + 1, g)
        BY <2>4 DEF Climbs
    <2> HIDE DEF g
    <2> QED
        BY <2>5
<1>3. m \in S
    <2>1. Nat \subseteq S
        <3> HIDE DEF S
        <3> QED
            BY <1>1, <1>2, UpFromZero
    <2> QED
        BY <2>1
<1> QED
    BY <1>3

LEMMA PathsAgree ==
    ASSUME NEW t, NEW u, NEW m \in Nat, NEW l \in Nat, m <= l, NEW f, NEW g,
           ParentsFirst(t, m), \A n \in 1..m : t[n].parent = u[n].parent,
           Climbs(t, m, f), Climbs(u, l, g)
    PROVE  \A k \in 0..m : f[k] = g[k]
<1> DEFINE S == {n \in Nat : \A k \in 0..n : k <= m => f[k] = g[k]}
<1>1. 0 \in S
    <2>1. 0 \in 0..m /\ 0 \in 0..l /\ Root = 0
        BY DEF Root
    <2>2. f[0] = {} /\ g[0] = {}
        BY <2>1 DEF Climbs
    <2> QED
        BY <2>2
<1>2. ASSUME NEW n \in Nat, n \in S PROVE n + 1 \in S
    <2>1. ASSUME n + 1 <= m PROVE f[n + 1] = g[n + 1]
        <3>1. n + 1 \in 1..m /\ n + 1 \in 0..m /\ n + 1 \in 0..l /\ n + 1 # Root
            BY <2>1 DEF Root
        <3>2. t[n + 1].parent \in 0..n /\ u[n + 1].parent = t[n + 1].parent
            BY <3>1 DEF ParentsFirst
        <3>3. f[t[n + 1].parent] = g[t[n + 1].parent]
            BY <1>2, <2>1, <3>2
        <3>4. f[n + 1] = {n + 1} \cup f[t[n + 1].parent]
            BY <3>1 DEF Climbs
        <3>5. g[n + 1] = {n + 1} \cup g[u[n + 1].parent]
            BY <3>1 DEF Climbs
        <3> QED
            BY <3>2, <3>3, <3>4, <3>5
    <2>2. \A k \in 0..(n + 1) : k \in 0..n \/ k = n + 1
        OBVIOUS
    <2> QED
        BY <1>2, <2>1, <2>2
<1>3. Nat \subseteq S
    <2> HIDE DEF S
    <2> QED
        BY <1>1, <1>2, UpFromZero
<1> QED
    BY <1>3

\* A path: itself and the path of its parent.
TreeOK == Len(tree) \in Nat /\ ParentsFirst(tree, Len(tree))

LEMMA PathUp ==
    ASSUME TreeOK
    PROVE  \E f : /\ Climbs(tree, Len(tree), f)
                  /\ \A n \in 0..Len(tree) : OnPath(n) = f[n]
<1> DEFINE f == CHOOSE f : Climbs(tree, Len(tree), f)
<1>1. Climbs(tree, Len(tree), f)
    BY PathsExist DEF TreeOK
<1>2. \A n : OnPath(n) = f[n]
    BY DEF OnPath, Climbs
<1> HIDE DEF f
<1> QED
    BY <1>1, <1>2

PathOK(k) ==
    /\ OnPath(k) \subseteq 1..k
    /\ k # Root => k \in OnPath(k) /\ OnPath(k) = {k} \cup OnPath(tree[k].parent)
    /\ \A a \in OnPath(k) : OnPath(a) = OnPath(k) \cap 1..a

LEMMA Paths ==
    ASSUME TreeOK
    PROVE  \A k \in 0..Len(tree) : PathOK(k)
<1> DEFINE m == Len(tree)
           S == {n \in Nat : \A k \in 0..n : k <= m => PathOK(k)}
<1>1. PICK f : Climbs(tree, m, f) /\ \A n \in 0..m : OnPath(n) = f[n]
    BY PathUp
<1>2. m \in Nat /\ ParentsFirst(tree, m) /\ Root = 0
    BY DEF TreeOK, Root
<1> HIDE DEF m
<1>3. OnPath(0) = {}
    BY <1>1, <1>2 DEF Climbs
<1>4. 0 \in S
    <2>1. PathOK(0)
        BY <1>2, <1>3 DEF PathOK
    <2> QED
        BY <2>1
<1>5. ASSUME NEW n \in Nat, n \in S PROVE n + 1 \in S
    <2>1. ASSUME n + 1 <= m PROVE PathOK(n + 1)
        <3> DEFINE p == tree[n + 1].parent
        <3>1. n + 1 \in 1..m /\ n + 1 \in 0..m /\ n + 1 # Root /\ n + 1 # 0
            BY <1>2, <2>1
        <3>2. p \in 0..n /\ p \in 0..m /\ p <= m
            BY <1>2, <2>1, <3>1 DEF ParentsFirst
        <3>3. f[n + 1] = {n + 1} \cup f[p]
            BY <1>1, <3>1 DEF Climbs
        <3> HIDE DEF p
        <3>4. OnPath(n + 1) = {n + 1} \cup OnPath(p)
            BY <1>1, <3>1, <3>2, <3>3
        <3>5. PathOK(p)
            BY <1>5, <3>2
        <3>6. OnPath(p) \subseteq 1..p /\ \A a \in OnPath(p) : OnPath(a) = OnPath(p) \cap 1..a
            BY <3>5 DEF PathOK
        <3>7. OnPath(n + 1) \subseteq 1..(n + 1)
            BY <3>2, <3>4, <3>6
        <3>8. OnPath(n + 1) = OnPath(n + 1) \cap 1..(n + 1)
            BY <3>7
        <3>9. ASSUME NEW a \in OnPath(p) PROVE OnPath(a) = OnPath(n + 1) \cap 1..a
            <4>1. a \in 1..n
                BY <3>2, <3>6
            <4>2. n + 1 \notin 1..a
                BY <4>1
            <4> QED
                BY <3>4, <3>6, <4>2
        <3> QED
            BY <3>1, <3>4, <3>7, <3>8, <3>9 DEF PathOK, p
    <2>2. \A k \in 0..(n + 1) : k \in 0..n \/ k = n + 1
        OBVIOUS
    <2> QED
        BY <1>5, <2>1, <2>2
<1>6. Nat \subseteq S
    <2> HIDE DEF S
    <2> QED
        BY <1>4, <1>5, UpFromZero
<1> QED
    BY <1>2, <1>6 DEF m

\* What is left: the branch one was on without the branch one goes to.
LEMMA LeftIs ==
    ASSUME TreeOK, NEW old \in 0..Len(tree), NEW target \in 0..Len(tree)
    PROVE  Left(old, target) = OnPath(old) \ OnPath(target)
<1> DEFINE common == OnPath(old) \cap OnPath(target)
           T == {Root} \cup common
           a == Max(T)
<1>1. Len(tree) \in Nat /\ Root = 0
    BY DEF TreeOK, Root
<1>2. PathOK(old) /\ PathOK(target)
    BY Paths
<1>3. OnPath(old) \subseteq 1..old /\ OnPath(target) \subseteq 1..target
    BY <1>2 DEF PathOK
<1>4. T \subseteq 0..Len(tree) /\ T # {}
    BY <1>1, <1>3
<1>5. a \in T /\ \A x \in T : x <= a
    <2> HIDE DEF T
    <2> QED
        BY <1>1, <1>4, MaxOfPlaces
<1>6. Left(old, target) = {n \in OnPath(old) : n > a}
    BY DEF Left, Ancestor
<1> HIDE DEF a
<1>7. ASSUME NEW n \in OnPath(old), n > a PROVE n \notin OnPath(target)
    <2> SUFFICES ASSUME n \in OnPath(target) PROVE FALSE
        OBVIOUS
    <2>1. n <= a /\ n \in Nat /\ a \in Nat
        BY <1>1, <1>3, <1>4, <1>5
    <2> QED
        BY <1>7, <2>1
<1>8. ASSUME NEW n \in OnPath(old), n \notin OnPath(target) PROVE n > a
    <2>1. n \in 1..old /\ a \in 0..Len(tree) /\ n \in Nat /\ a \in Nat
        BY <1>1, <1>3, <1>4, <1>5
    <2>2. CASE a \in common
        <3>1. OnPath(a) = OnPath(old) \cap 1..a /\ OnPath(a) = OnPath(target) \cap 1..a
            BY <1>2, <2>2 DEF PathOK
        <3>2. n \notin 1..a
            BY <1>8, <3>1
        <3> QED
            BY <2>1, <3>2
    <2>3. CASE a = Root
        BY <1>1, <2>1, <2>3
    <2> QED
        BY <1>5, <2>2, <2>3
<1> QED
    BY <1>6, <1>7, <1>8

\* An entry that is appended leaves the paths as they are.
LEMMA PathsStay ==
    ASSUME TreeOK, TreeOK', Len(tree)' = Len(tree) + 1,
           \A n \in 1..Len(tree) : tree'[n] = tree[n]
    PROVE  \A k \in 0..Len(tree) : OnPath(k)' = OnPath(k)
<1>1. PICK f : Climbs(tree, Len(tree), f) /\ \A n \in 0..Len(tree) : OnPath(n) = f[n]
    BY PathUp
<1>2. \E g : Climbs(tree', Len(tree'), g) /\ \A n \in 0..Len(tree') : OnPath(n)' = g[n]
    <2> DEFINE g == CHOOSE g : Climbs(tree', Len(tree'), g)
    <2>1. Climbs(tree', Len(tree'), g)
        BY PathsExist DEF TreeOK
    <2>2. \A n : OnPath(n)' = g[n]
        BY DEF OnPath, Climbs
    <2> HIDE DEF g
    <2> QED
        BY <2>1, <2>2
<1>3. PICK g : Climbs(tree', Len(tree'), g) /\ \A n \in 0..Len(tree') : OnPath(n)' = g[n]
    BY <1>2
<1>4. /\ Len(tree) \in Nat /\ Len(tree') \in Nat /\ Len(tree) <= Len(tree')
      /\ ParentsFirst(tree, Len(tree)) /\ \A n \in 1..Len(tree) : tree[n].parent = tree'[n].parent
    BY DEF TreeOK
<1>5. \A k \in 0..Len(tree) : f[k] = g[k]
    BY <1>1, <1>3, <1>4, PathsAgree
<1>6. \A k \in 0..Len(tree) : k \in 0..Len(tree')
    BY <1>4
<1> QED
    BY <1>1, <1>3, <1>5, <1>6

-----------------------------------------------------------------------------
(* Moves with and without a summary of what they leave.                    *)

NodeTypes == {"user", "assistant", "tool", "setting", "compaction", "branch_summary"}
TreeNodes == [type : NodeTypes, parent : Nat, tokens : Nat, tells : SUBSET Nat]
Trips == [outcome : {"none", "moved", "cancelled", "error"}, from : Nat, target : Nat,
          read : SUBSET Nat, made : BOOLEAN, editor : Nat]

\* The tree has every parent before its children, a summary tells of what is older,
\* and the last move told what it left.
NavTypes ==
    /\ tree \in Seq(TreeNodes) /\ trip \in Trips /\ here \in 0..Len(tree)
    /\ \A n \in Nodes : tree[n].parent \in 0..n - 1 /\ tree[n].tells \subseteq 1..n - 1
NavInv == NavTypes /\ NavigationKept

LEMMA CostsType == Min(Costs) \in Nat /\ Max(Costs) \in Nat
<1>1. Costs \subseteq Nat /\ Costs # {}
    BY NavigationAssumption
<1>2. Min(Costs) \in Costs
    BY <1>1, MinOfPlaces
<1>3. Max(Costs) \in Costs
    <2>1. \E x \in Costs : \A y \in Costs : x >= y
        BY <1>1, NavigationAssumption
    <2> QED
        BY <2>1 DEF Max
<1> QED
    BY <1>1, <1>2, <1>3

LEMMA TreeType ==
    ASSUME NavTypes
    PROVE  /\ Len(tree) \in Nat /\ Nodes = 1..Len(tree) /\ TreeOK
           /\ \A n \in Nodes : tree[n] \in TreeNodes
           /\ \A n \in Nodes : tree[n].tokens \in Nat
           /\ IsFiniteSet(Nodes)
<1>1. Len(tree) \in Nat /\ Nodes = 1..Len(tree) /\ \A n \in Nodes : tree[n] \in TreeNodes
    BY LenProperties, ElementOfSeq DEF NavTypes, Nodes
<1>2. TreeOK
    BY <1>1 DEF NavTypes, TreeOK, ParentsFirst
<1>3. \A n \in Nodes : tree[n].tokens \in Nat
    BY <1>1 DEF TreeNodes
<1>4. IsFiniteSet(Nodes)
    BY <1>1, FS_Interval
<1> QED
    BY <1>1, <1>2, <1>3, <1>4

\* An entry that is appended.
LEMMA TreeGrows ==
    ASSUME NavTypes, NEW e \in TreeNodes, tree' = Append(tree, e),
           e.parent \in 0..Len(tree), e.tells \subseteq 1..Len(tree),
           here' = Len(tree) + 1, trip' \in Trips
    PROVE  /\ NavTypes' /\ Len(tree)' = Len(tree) + 1 /\ tree'[Len(tree) + 1] = e
           /\ \A n \in 1..Len(tree) : tree'[n] = tree[n]
           /\ Nodes' = 1..Len(tree) + 1
<1>1. Len(tree) \in Nat /\ Nodes = 1..Len(tree) /\ tree \in Seq(TreeNodes)
    BY TreeType DEF NavTypes
<1>2. /\ tree' \in Seq(TreeNodes) /\ Len(tree') = Len(tree) + 1
      /\ tree'[Len(tree) + 1] = e /\ \A n \in 1..Len(tree) : tree'[n] = tree[n]
    BY <1>1, AppendProperties
<1>3. Nodes' = 1..Len(tree) + 1
    BY <1>1, <1>2, LenProperties DEF Nodes
<1>4. ASSUME NEW n \in 1..Len(tree) + 1
      PROVE  tree'[n].parent \in 0..n - 1 /\ tree'[n].tells \subseteq 1..n - 1
    <2>1. CASE n = Len(tree) + 1
        <3>1. n - 1 = Len(tree) /\ tree'[n] = e
            BY <1>1, <1>2, <2>1
        <3> QED
            BY <3>1
    <2>2. CASE n # Len(tree) + 1
        <3>1. n \in Nodes /\ tree'[n] = tree[n]
            BY <1>1, <1>2, <2>2
        <3> QED
            BY <3>1 DEF NavTypes
    <2> QED
        BY <2>1, <2>2
<1>5. here' \in 0..Len(tree')
    BY <1>1, <1>2
<1> QED
    BY <1>2, <1>3, <1>4, <1>5 DEF NavTypes

LEMMA NoTripKept == trip = NoTrip => NavigationKept
BY DEF NoTrip, NavigationKept, LeftIsTold, ToldOnce

LEMMA NoTripType == NoTrip \in Trips
BY DEF NoTrip, Trips, Root

LEMMA GrowsKeeps ==
    ASSUME NavInv, NEW e \in TreeNodes, e.parent = here, e.tells \subseteq 1..Len(tree), Grows(e)
    PROVE  NavInv'
<1>1. trip' = NoTrip /\ tree' = Append(tree, e) /\ here' = Len(tree) + 1
    BY DEF Grows
<1>2. NavTypes'
    BY <1>1, NoTripType, TreeGrows DEF NavInv, NavTypes
<1>3. NavigationKept'
    BY <1>1 DEF NoTrip, NavigationKept, LeftIsTold, ToldOnce
<1> QED
    BY <1>2, <1>3 DEF NavInv

LEMMA SessionUsed ==
    ASSUME NavInv, Say \/ Return \/ Choose \/ Compacts
    PROVE  NavInv'
<1>1. here \in Nat /\ here \in 0..Len(tree) /\ Len(tree) \in Nat
    BY TreeType DEF NavInv, NavTypes
<1>2. \A type \in NodeTypes, tokens \in Nat :
          Node(type, here, tokens) \in TreeNodes /\ Node(type, here, tokens).parent = here
              /\ Node(type, here, tokens).tells = {}
    BY <1>1 DEF Node, TreeNodes
<1>3. \A type \in NodeTypes, tokens \in Nat : Grows(Node(type, here, tokens)) => NavInv'
    BY <1>2, GrowsKeeps
<1>4. Costs \subseteq Nat /\ 0 \in Nat
    BY NavigationAssumption
<1>5. CASE Say
    BY <1>3, <1>4, <1>5, CostsType DEF Say, NodeTypes
<1>6. CASE Return
    BY <1>3, <1>6, CostsType DEF Return, NodeTypes
<1>7. CASE Choose
    BY <1>3, <1>4, <1>7 DEF Choose, NodeTypes
<1>8. CASE Compacts
    <2> DEFINE e == [Node("compaction", here, Max(Costs)) EXCEPT !.tells = OnPath(here)]
    <2>1. OnPath(here) \subseteq 1..here
        BY <1>1, TreeType, Paths DEF NavInv, PathOK
    <2>2. OnPath(here) \in SUBSET Nat /\ OnPath(here) \subseteq 1..Len(tree)
        BY <1>1, <2>1
    <2>3. e = [type |-> "compaction", parent |-> here, tokens |-> Max(Costs), tells |-> OnPath(here)]
        BY DEF Node
    <2>4. e \in TreeNodes /\ e.parent = here /\ e.tells = OnPath(here)
        BY <1>1, <2>2, <2>3, CostsType DEF TreeNodes, NodeTypes
    <2>5. Grows(e)
        BY <1>8 DEF Compacts
    <2> HIDE DEF e
    <2> QED
        BY <2>2, <2>4, <2>5, GrowsKeeps
<1> QED
    BY <1>5, <1>6, <1>7, <1>8

LEMMA TripEnds ==
    ASSUME NavInv, trip' = NoTrip, UNCHANGED <<tree, here>>
    PROVE  NavInv'
<1>1. NavTypes'
    BY NoTripType DEF NavInv, NavTypes, Nodes
<1>2. NavigationKept'
    BY DEF NoTrip, NavigationKept, LeftIsTold, ToldOnce
<1> QED
    BY <1>1, <1>2 DEF NavInv

\* Where a move goes.
LEMMA LeafType ==
    ASSUME NavTypes, NEW target \in Nodes
    PROVE  /\ NewLeaf(target) \in 0..target /\ Editor(target) \in 0..target
           /\ OnPath(NewLeaf(target)) \subseteq OnPath(target)
           /\ OnPath(NewLeaf(target)) \subseteq 1..target
           /\ Editor(target) = Root <=> target \in OnPath(NewLeaf(target))
           /\ Editor(target) # Root =>
                  Editor(target) = target /\ OnPath(NewLeaf(target)) = OnPath(target) \ {target}
           /\ Editor(target) = Root => NewLeaf(target) = target
<1>1. target \in 1..Len(tree) /\ Len(tree) \in Nat /\ Root = 0 /\ TreeOK
    BY TreeType DEF Root
<1>2. PathOK(target) /\ target \in OnPath(target) /\ OnPath(target) \subseteq 1..target
    BY <1>1, Paths DEF PathOK
<1>3. CASE tree[target].type = "user"
    <2> DEFINE p == tree[target].parent
    <2>1. NewLeaf(target) = p /\ Editor(target) = target
        BY <1>3 DEF NewLeaf, Editor
    <2>2. p \in 0..target - 1
        BY DEF NavTypes
    <2>3. OnPath(target) = {target} \cup OnPath(p)
        BY <1>1, <1>2 DEF PathOK
    <2> HIDE DEF p
    <2>4. p \in 0..Len(tree) /\ p \in 0..target
        BY <1>1, <2>2
    <2>5. OnPath(p) \subseteq 1..p
        BY <1>1, <2>4, Paths DEF PathOK
    <2>6. target \notin OnPath(p)
        BY <1>1, <2>2, <2>5
    <2> QED
        BY <1>1, <1>2, <2>1, <2>3, <2>4, <2>6
<1>4. CASE tree[target].type # "user"
    BY <1>1, <1>2, <1>4 DEF NewLeaf, Editor
<1> QED
    BY <1>3, <1>4

LEMMA LeftType ==
    ASSUME NavTypes, NEW target \in Nodes
    PROVE  /\ Left(here, target) = OnPath(here) \ OnPath(target)
           /\ Left(here, target) \subseteq Nodes
<1>1. here \in 0..Len(tree) /\ target \in 0..Len(tree) /\ TreeOK /\ Len(tree) \in Nat /\ Nodes = 1..Len(tree)
    BY TreeType DEF NavTypes
<1>2. OnPath(here) \subseteq 1..here
    BY <1>1, Paths DEF PathOK
<1>3. OnPath(here) \subseteq Nodes
    BY <1>1, <1>2
<1> QED
    BY <1>1, <1>3, LeftIs

\* Tokens is a sum over the entries of the tree.
LEMMA TokensType ==
    ASSUME NavTypes
    PROVE  /\ Tokens({}) = 0
           /\ \A s \in SUBSET Nodes : Tokens(s) \in Nat
           /\ \A s \in SUBSET Nodes : \A x \in Nodes \ s : Tokens(s \cup {x}) = Tokens(s) + tree[x].tokens
           /\ \A s, u \in SUBSET Nodes : s \subseteq u => Tokens(s) <= Tokens(u)
<1>1. IsFiniteSet(Nodes) /\ \A n \in Nodes : tree[n].tokens \in Nat
    BY TreeType
<1>2. \A s : Tokens(s) = TokensIn(tree, s)
    BY DEF Tokens, TokensIn
<1> QED
    BY <1>1, <1>2, TokensAdd

\* What a summary reads of the branch that is left: the newest entries, as many as fit,
\* and one summary more.
ReadWell(places, read) ==
    /\ read \subseteq places
    /\ \A n \in places \ read : Tokens({k \in places : k >= n}) > Budget
    /\ \/ Tokens(read) <= Budget
       \/ /\ read # {} /\ tree[Min(read)].type \in Summaries
          /\ Tokens(read \ {Min(read)}) * 10 < Budget * 9

LEMMA PreparedWell ==
    ASSUME NavTypes, NEW left, left \subseteq Nodes
    PROVE  ReadWell({n \in left : Readable(n)}, PreparedEntries(left))
<1> DEFINE places == {n \in left : Readable(n)}
           newer(n) == {k \in places : k > n}
           stops == {n \in places : ~Fits(newer(n), n)}
           read == PreparedEntries(left)
<1>1. places \subseteq Nodes /\ places \subseteq Nat /\ Nodes = 1..Len(tree) /\ Len(tree) \in Nat
    <2>1. Nodes = 1..Len(tree) /\ Len(tree) \in Nat
        BY TreeType
    <2>2. places \subseteq left
        OBVIOUS
    <2> HIDE DEF places
    <2> QED
        BY <2>1, <2>2
<1>2. \A n \in places : newer(n) \subseteq places /\ n \notin newer(n) /\ newer(n) \in SUBSET Nodes
    BY <1>1
<1>3. \A n \in places : Tokens(newer(n) \cup {n}) = Tokens(newer(n)) + tree[n].tokens
    BY <1>1, <1>2, TokensType
<1>4. \A n \in places : n \in stops <=> ~(Tokens(newer(n) \cup {n}) <= Budget)
    BY <1>3 DEF Fits
<1>5. read = IF stops = {} THEN places
             ELSE newer(Max(stops)) \cup
                  (IF tree[Max(stops)].type \in Summaries /\ Tokens(newer(Max(stops))) * 10 < Budget * 9
                   THEN {Max(stops)} ELSE {})
    BY DEF PreparedEntries
<1>6. stops \subseteq places
    OBVIOUS
<1>7. \A n \in places : \A k \in newer(n) : k \in places /\ k > n
    OBVIOUS
<1>8. \A n \in places : \A k \in places : k > n => k \in newer(n)
    OBVIOUS
<1>9. Budget \in Nat
    BY NavigationAssumption
<1> DEFINE from(n) == {k \in places : k >= n}
<1>10. \A n \in places : \A k \in places : k >= n => k \in from(n)
    OBVIOUS
<1>15. \A n \in places : from(n) \in SUBSET Nodes
    BY <1>1
<1> HIDE DEF places, newer, stops, read, from
\* a part of the places that is upward closed and has no stop fits
<1>11. ASSUME NEW s, s \subseteq places, s \cap stops = {},
              \A n \in s : \A k \in places : k > n => k \in s
       PROVE  Tokens(s) <= Budget
    <2>1. CASE s = {}
        BY <1>9, <2>1, TokensType
    <2>2. CASE s # {}
        <3>1. Min(s) \in s /\ \A x \in s : Min(s) <= x
            BY <1>1, <1>11, <2>2, MinOfPlaces
        <3> DEFINE m == Min(s)
        <3>2. m \in s /\ m \in places /\ m \notin stops /\ \A x \in s : m <= x
            BY <1>11, <3>1
        <3> HIDE DEF m
        <3>3. Tokens(newer(m) \cup {m}) <= Budget
            BY <1>4, <3>2
        <3>4. newer(m) \cup {m} \subseteq s
            BY <1>7, <1>11, <3>2
        <3>5. ASSUME NEW x \in s, x # m PROVE x \in newer(m)
            <4>1. x \in Nat /\ m \in Nat /\ m <= x /\ x \in places
                BY <1>1, <1>11, <3>2
            <4>2. x > m
                BY <3>5, <4>1
            <4> QED
                BY <1>8, <3>2, <4>1, <4>2
        <3>6. s = newer(m) \cup {m}
            BY <3>4, <3>5
        <3> QED
            BY <3>3, <3>6
    <2> QED
        BY <2>1, <2>2
<1>12. CASE stops = {}
    <2>1. read = places
        BY <1>5, <1>12
    <2>2. Tokens(places) <= Budget
        BY <1>11, <1>12
    <2> QED
        BY <2>1, <2>2 DEF ReadWell, read, places
<1>13. CASE stops # {}
    <2> DEFINE stop == Max(stops)
    <2>1. stop \in stops /\ \A x \in stops : x <= stop
        <3>1. stops \subseteq 0..Len(tree)
            BY <1>1, <1>6
        <3> QED
            BY <1>1, <1>13, <3>1, MaxOfPlaces
    <2>2. read = newer(stop) \cup (IF tree[stop].type \in Summaries /\ Tokens(newer(stop)) * 10 < Budget * 9
                                   THEN {stop} ELSE {})
        BY <1>5, <1>13
    <2> HIDE DEF stop
    <2>3. stop \in places /\ stop \in Nat
        BY <1>1, <1>6, <2>1
    <2>4. newer(stop) \subseteq places /\ newer(stop) \subseteq read /\ read \subseteq places
        BY <1>2, <2>2, <2>3
    <2>5. ASSUME NEW n \in places \ read PROVE Tokens(from(n)) > Budget
        <3>1. n \in Nat /\ ~(n > stop)
            BY <1>1, <1>8, <2>3, <2>4, <2>5
        <3>2. n <= stop
            BY <2>3, <3>1
        <3>3. newer(stop) \cup {stop} \subseteq from(n)
            <4>1. \A k \in newer(stop) : k \in places /\ k \in Nat /\ k > stop
                BY <1>1, <1>7, <2>3
            <4>2. \A k \in newer(stop) : k >= n
                BY <2>3, <3>1, <3>2, <4>1
            <4>3. stop >= n
                BY <2>3, <3>1, <3>2
            <4> QED
                BY <1>10, <2>3, <4>1, <4>2, <4>3
        <3>4. newer(stop) \cup {stop} \in SUBSET Nodes /\ from(n) \in SUBSET Nodes
            BY <1>1, <1>2, <1>15, <2>3
        <3>5. Tokens(newer(stop) \cup {stop}) <= Tokens(from(n))
            BY <3>3, <3>4, TokensType
        <3>6. Tokens(newer(stop) \cup {stop}) \in Nat /\ Tokens(from(n)) \in Nat
            BY <3>4, TokensType
        <3>7. ~(Tokens(newer(stop) \cup {stop}) <= Budget)
            BY <1>4, <2>1, <2>3
        <3> QED
            BY <1>9, <3>5, <3>6, <3>7
    <2>6. Tokens(newer(stop)) <= Budget
        <3>1. newer(stop) \cap stops = {}
            <4> SUFFICES ASSUME NEW k \in newer(stop), k \in stops PROVE FALSE
                OBVIOUS
            <4>1. k > stop /\ k <= stop /\ k \in Nat
                BY <1>1, <1>7, <2>1, <2>3
            <4> QED
                BY <2>3, <4>1
        <3>2. ASSUME NEW n \in newer(stop), NEW k \in places, k > n PROVE k \in newer(stop)
            <4>1. n > stop /\ n \in Nat /\ k \in Nat
                BY <1>1, <1>7, <2>3
            <4>2. k > stop
                BY <2>3, <3>2, <4>1
            <4> QED
                BY <1>8, <2>3, <4>2
        <3> QED
            BY <1>11, <2>4, <3>1, <3>2
    <2>7. CASE tree[stop].type \in Summaries /\ Tokens(newer(stop)) * 10 < Budget * 9
        <3>1. read = newer(stop) \cup {stop}
            BY <2>2, <2>7
        <3>2. Min(read) = stop
            <4>1. Min(read) \in read /\ \A x \in read : Min(read) <= x
                BY <1>1, <2>4, <3>1, MinOfPlaces
            <4>2. Min(read) <= stop /\ Min(read) \in Nat
                BY <1>1, <2>4, <3>1, <4>1
            <4>3. Min(read) \in newer(stop) => Min(read) > stop
                BY <1>7, <2>3
            <4> QED
                BY <2>3, <3>1, <4>1, <4>2, <4>3
        <3>3. read \ {stop} = newer(stop)
            BY <1>2, <2>3, <3>1
        <3>4. /\ read # {} /\ tree[Min(read)].type \in Summaries
              /\ Tokens(read \ {Min(read)}) * 10 < Budget * 9
            BY <2>7, <3>1, <3>2, <3>3
        <3> QED
            BY <2>4, <2>5, <3>4 DEF ReadWell, read, places, from
    <2>8. CASE ~(tree[stop].type \in Summaries /\ Tokens(newer(stop)) * 10 < Budget * 9)
        <3>1. read = newer(stop)
            BY <2>2, <2>8
        <3> QED
            BY <2>4, <2>5, <2>6, <3>1 DEF ReadWell, read, places, from
    <2> QED
        BY <2>7, <2>8
<1> QED
    BY <1>12, <1>13

LEMMA StayPut ==
    ASSUME NavInv, trip = NoTrip, NEW target \in Nodes, GoNowhere(target) \/ Refused(target) \/ Moves(target)
    PROVE  NavInv'
<1>1. /\ here \in 0..Len(tree) /\ target \in 1..Len(tree) /\ Len(tree) \in Nat /\ Root = 0
      /\ Nodes = 1..Len(tree) /\ NavTypes /\ TreeOK /\ target \in Nat /\ here \in Nat
    BY TreeType DEF NavInv, NavTypes, Root
<1>2. UNCHANGED tree
    BY DEF GoNowhere, Refused, Moves
<1>3. \A n : OnPath(n)' = OnPath(n)
    BY <1>2 DEF OnPath
<1>4. PathOK(target) /\ target \in OnPath(target)
    BY <1>1, Paths DEF PathOK
<1>5. Nodes' = Nodes
    BY <1>2 DEF Nodes
<1>6. CASE GoNowhere(target)
    <2>1. /\ trip' = [outcome |-> "moved", from |-> here, target |-> target, read |-> {}, made |-> FALSE, editor |-> Root]
          /\ here' = target /\ here = target
        BY <1>6 DEF GoNowhere, Answers
    <2>2. trip' \in Trips
        BY <1>1, <2>1 DEF Trips
    <2>3. NavTypes'
        BY <1>1, <1>2, <1>5, <2>1, <2>2 DEF NavTypes
    <2>4. \A n \in OnPath(target) : ~(n > target)
        BY <1>1, <1>4 DEF PathOK
    <2>5. ToldOnce'
        BY <1>3, <1>4, <2>1, <2>4 DEF ToldOnce
    <2>6. LeftIsTold'
        BY <2>1 DEF LeftIsTold
    <2> QED
        BY <2>3, <2>5, <2>6 DEF NavInv, NavigationKept
<1>7. CASE Refused(target)
    <2>1. /\ here' = here
          /\ \/ trip' = [outcome |-> "cancelled", from |-> here, target |-> target, read |-> {}, made |-> FALSE, editor |-> Root]
             \/ trip' = [outcome |-> "error", from |-> here, target |-> target, read |-> {}, made |-> FALSE, editor |-> Root]
        BY <1>7 DEF Refused, Answers
    <2>2. trip' \in Trips /\ trip'.outcome # "moved" /\ trip'.made = FALSE
        <3>1. ASSUME NEW o \in {"cancelled", "error"},
                     trip' = [outcome |-> o, from |-> here, target |-> target, read |-> {}, made |-> FALSE, editor |-> Root]
              PROVE  trip' \in Trips /\ trip'.outcome # "moved" /\ trip'.made = FALSE
            BY <1>1, <3>1 DEF Trips
        <3> QED
            BY <2>1, <3>1
    <2>3. NavTypes'
        BY <1>1, <1>2, <1>5, <2>1, <2>2 DEF NavTypes
    <2> QED
        BY <2>2, <2>3 DEF NavInv, NavigationKept, ToldOnce, LeftIsTold
<1>8. CASE Moves(target)
    <2>1. /\ trip' = [outcome |-> "moved", from |-> here, target |-> target, read |-> {}, made |-> FALSE, editor |-> Editor(target)]
          /\ here' = NewLeaf(target)
        BY <1>8 DEF Moves, Answers
    <2>2. NewLeaf(target) \in 0..target /\ Editor(target) \in 0..target
        BY <1>1, LeafType
    <2>3. trip' \in Trips
        BY <1>1, <2>1, <2>2 DEF Trips
    <2>4. NavTypes'
        BY <1>1, <1>2, <1>5, <2>1, <2>2, <2>3 DEF NavTypes
    <2>5. \A n \in OnPath(NewLeaf(target)) : ~(n > target)
        <3>1. OnPath(NewLeaf(target)) \subseteq 1..target
            BY <1>1, LeafType
        <3> QED
            BY <1>1, <3>1
    <2>6. Editor(target) = Root <=> target \in OnPath(NewLeaf(target))
        BY <1>1, LeafType
    <2>7. Editor(target) # Root => Editor(target) = target
        BY <1>1, LeafType
    <2>8. ToldOnce'
        BY <1>3, <2>1, <2>5, <2>6, <2>7 DEF ToldOnce
    <2>9. LeftIsTold'
        BY <2>1 DEF LeftIsTold
    <2> QED
        BY <2>4, <2>8, <2>9 DEF NavInv, NavigationKept
<1> QED
    BY <1>6, <1>7, <1>8

LEMMA NotAppended ==
    ASSUME NavInv, trip = NoTrip, NEW target \in Nodes, NEW made \in BOOLEAN,
           MovesSummarised(target, made, FALSE)
    PROVE  NavInv'
<1>1. /\ here \in 0..Len(tree) /\ target \in 1..Len(tree) /\ Len(tree) \in Nat /\ Root = 0
      /\ NavTypes /\ target \in Nat /\ here \in Nat
    BY TreeType DEF NavInv, NavTypes, Root
<1>2. /\ UNCHANGED tree /\ here' = NewLeaf(target)
      /\ trip' = [outcome |-> "error", from |-> here, target |-> target, read |-> {}, made |-> FALSE, editor |-> Root]
    BY DEF MovesSummarised, Answers
<1>3. NewLeaf(target) \in 0..target
    BY <1>1, LeafType
<1>4. trip' \in Trips /\ trip'.outcome # "moved" /\ trip'.made = FALSE
    BY <1>1, <1>2 DEF Trips
<1>5. Nodes' = Nodes
    BY <1>2 DEF Nodes
<1>6. NavTypes'
    BY <1>1, <1>2, <1>3, <1>4, <1>5 DEF NavTypes
<1> QED
    BY <1>4, <1>6 DEF NavInv, NavigationKept, ToldOnce, LeftIsTold

LEMMA TokensHere == \A s : Tokens(s) = TokensIn(tree, s)
BY DEF Tokens, TokensIn

LEMMA TokensAre == \A s : Tokens(s) = TokensIn(tree, s) /\ Tokens(s)' = TokensIn(tree', s)
<1>1. (\A s : Tokens(s) = TokensIn(tree, s))'
    BY TokensHere, PTL
<1>2. \A s : Tokens(s)' = TokensIn(tree', s)
    BY <1>1
<1> QED
    BY <1>2, TokensHere

\* A move with a summary: the tree grows by it, and it stands on the new leaf.
LEMMA Appended ==
    ASSUME NavInv, trip = NoTrip, NEW target \in Nodes, NEW made \in BOOLEAN,
           MovesSummarised(target, made, TRUE)
    PROVE  NavInv'
<1> DEFINE left == Left(here, target)
           read == IF made THEN PreparedEntries(left) ELSE {}
           leaf0 == NewLeaf(target)
           places == {n \in left : Readable(n)}
           e == [Node("branch_summary", leaf0, Max(Costs)) EXCEPT !.tells = AllTold(read)]
           L == Len(tree)
<1>1. /\ here \in 0..L /\ target \in 1..L /\ L \in Nat /\ Root = 0 /\ Nodes = 1..L
      /\ NavTypes /\ TreeOK /\ target \in Nat /\ here \in Nat
    BY TreeType DEF NavInv, NavTypes, Root
<1>2. /\ tree' = Append(tree, e) /\ here' = L + 1
      /\ trip' = [outcome |-> "moved", from |-> here, target |-> target, read |-> read,
                  made |-> made, editor |-> Editor(target)]
    BY DEF MovesSummarised, Answers
<1>3. left = OnPath(here) \ OnPath(target) /\ left \subseteq Nodes
    BY <1>1, LeftType
<1>4. places \subseteq left
    OBVIOUS
<1>5. made => ReadWell(places, read)
    BY <1>1, <1>3, PreparedWell
<1> HIDE DEF places
<1>6. read \subseteq places
    BY <1>5 DEF ReadWell
<1>7. leaf0 \in 0..target /\ Editor(target) \in 0..target
    BY <1>1, LeafType
<1> HIDE DEF left, read, leaf0
<1>8. AllTold(read) \subseteq Nodes
    <2>1. \A n \in read : n \in Nodes /\ tree[n].tells \subseteq 1..n - 1
        BY <1>1, <1>3, <1>4, <1>6 DEF NavTypes
    <2>2. \A n \in Nodes : 1..n - 1 \subseteq Nodes
        BY <1>1
    <2>3. \A n \in read : n \in Nodes /\ tree[n].tells \subseteq Nodes
        BY <2>1, <2>2
    <2> QED
        BY <2>3 DEF AllTold
<1>9. e = [type |-> "branch_summary", parent |-> leaf0, tokens |-> Max(Costs), tells |-> AllTold(read)]
    BY DEF Node
<1>10. /\ e \in TreeNodes /\ e.parent = leaf0 /\ e.tells = AllTold(read)
       /\ leaf0 \in 0..L /\ e.tells \subseteq 1..L
    <2>1. leaf0 \in Nat /\ leaf0 \in 0..L /\ AllTold(read) \in SUBSET Nat
        BY <1>1, <1>7, <1>8
    <2>2. "branch_summary" \in NodeTypes /\ Max(Costs) \in Nat
        BY CostsType DEF NodeTypes
    <2> HIDE DEF e
    <2> QED
        BY <1>1, <1>8, <1>9, <2>1, <2>2 DEF TreeNodes
<1> HIDE DEF e
<1>11. trip' \in Trips
    <2>1. read \in SUBSET Nat /\ Editor(target) \in Nat
        BY <1>1, <1>3, <1>4, <1>6, <1>7
    <2> QED
        BY <1>1, <1>2, <2>1 DEF Trips
<1>12. /\ NavTypes' /\ Len(tree') = L + 1 /\ tree'[L + 1] = e
       /\ \A n \in 1..L : tree'[n] = tree[n]
       /\ Nodes' = 1..L + 1
    BY <1>1, <1>2, <1>10, <1>11, TreeGrows
<1>13. TreeOK'
    <2>1. NavTypes' => TreeOK'
        BY TreeType, PTL
    <2> QED
        BY <1>12, <2>1
<1>14. \A k \in 0..L : OnPath(k)' = OnPath(k)
    BY <1>1, <1>12, <1>13, PathsStay
<1> DEFINE ed0 == Editor(target)
<1>15. PICK n, p, h, ed, rd, pl : n = L /\ p = leaf0 /\ h = here /\ ed = ed0 /\ rd = read /\ pl = places
    OBVIOUS
<1>16. /\ n \in Nat /\ p \in 0..n /\ h \in 0..n /\ ed \in 0..n /\ target \in 1..n /\ pl \subseteq 1..n /\ rd \subseteq pl
       /\ pl \subseteq OnPath(h) /\ pl \cap OnPath(target) = {} /\ p \in 0..target
    <2>1. n \in Nat /\ p \in 0..target /\ h \in 0..n /\ ed \in 0..target /\ target \in 1..n
        BY <1>1, <1>7, <1>15
    <2>2. p \in 0..n /\ ed \in 0..n
        BY <2>1
    <2>3. pl \subseteq 1..n /\ rd \subseteq pl /\ pl \subseteq OnPath(h) /\ pl \cap OnPath(target) = {}
        BY <1>1, <1>3, <1>4, <1>6, <1>15
    <2> QED
        BY <2>1, <2>2, <2>3
<1>17. OnPath(n + 1)' = {n + 1} \cup OnPath(p)
    <2>1. TreeOK' => (\A k \in 0..Len(tree) : PathOK(k))'
        BY Paths, PTL
    <2>2. n + 1 \in 0..Len(tree') /\ n + 1 # Root
        BY <1>1, <1>12, <1>15
    <2>3. PathOK(n + 1)'
        BY <1>13, <2>1, <2>2
    <2>4. OnPath(n + 1)' = {n + 1} \cup OnPath(tree[n + 1].parent)'
        BY <2>2, <2>3 DEF PathOK
    <2>5. tree'[n + 1].parent = p
        BY <1>10, <1>12, <1>15
    <2> QED
        BY <1>14, <1>15, <1>16, <2>4, <2>5
<1>18. /\ OnPath(p) \subseteq OnPath(target) /\ OnPath(p) \subseteq 1..target
       /\ ed = Root <=> target \in OnPath(p)
       /\ ed # Root => ed = target /\ OnPath(p) = OnPath(target) \ {target}
       /\ ed = Root => p = target
       /\ target \in OnPath(target)
    <2>1. target \in OnPath(target)
        BY <1>1, Paths DEF PathOK
    <2> QED
        BY <1>1, <1>15, <2>1, LeafType DEF leaf0
<1>19. /\ trip'.outcome = "moved" /\ trip'.from = h /\ trip'.target = target /\ trip'.read = rd
       /\ trip'.made = made /\ trip'.editor = ed /\ here' = n + 1 /\ Len(tree') = n + 1
    BY <1>2, <1>12, <1>15
<1>20. OnPath(h)' = OnPath(h)
    BY <1>14, <1>15, <1>16
<1>21. ToldOnce'
    <2>1. rd \cap ({n + 1} \cup OnPath(p)) = {}
        BY <1>16, <1>18
    <2>2. ed = Root <=> target \in {n + 1} \cup OnPath(p)
        BY <1>16, <1>18
    <2>3. ed # Root => ed = target /\ ed \notin rd
        BY <1>16, <1>18
    <2>4. \A k \in {n + 1} \cup OnPath(p) : k > target => k = n + 1
        BY <1>16, <1>18
    <2> QED
        BY <1>17, <1>19, <2>1, <2>2, <2>3, <2>4 DEF ToldOnce
<1>22. ASSUME made PROVE LeftIsTold'
    <2>1. \A k \in 1..n : Readable(k)' <=> Readable(k)
        BY <1>12, <1>15 DEF Readable
    <2>2. \A k : k \in pl <=> k \in OnPath(h) /\ k \notin OnPath(target) /\ Readable(k)
        BY <1>3, <1>15 DEF left, places
    <2>3. OnPath(h) \subseteq 1..n
        <3>1. OnPath(h) \subseteq 1..h
            BY <1>1, <1>15, Paths DEF PathOK
        <3> QED
            BY <1>16, <3>1
    <2>4. \A k \in 1..n : k # n + 1
        BY <1>16
    <2>5. \A k : k \in Gone' <=> k \in OnPath(h) /\ k \notin {n + 1} \cup OnPath(p) /\ Readable(k)' /\ k # ed
        BY <1>17, <1>19, <1>20 DEF Gone
    <2>6. Gone' = pl
        <3>1. CASE ed = Root
            <4>1. p = target /\ OnPath(p) = OnPath(target)
                BY <1>18, <3>1
            <4>2. \A k \in OnPath(h) : k \in 1..n /\ k # n + 1 /\ k # ed
                BY <1>1, <2>3, <2>4, <3>1
            <4>3. \A k : k \in Gone' <=> k \in pl
                BY <2>1, <2>2, <2>5, <4>1, <4>2
            <4> QED
                BY <4>3
        <3>2. CASE ed # Root
            BY <1>16, <1>18, <2>1, <2>2, <2>3, <2>4, <2>5, <3>2
        <3> QED
            BY <3>1, <3>2
    <2>7. \A s \in SUBSET (1..n) : Tokens(s)' = Tokens(s)
        <3>1. IsFiniteSet(1..n) /\ \A k \in 1..n : tree[k].tokens = tree'[k].tokens
            <4>1. IsFiniteSet(1..n)
                BY <1>16, FS_Interval
            <4>2. \A k \in 1..n : tree'[k] = tree[k]
                BY <1>12, <1>15
            <4> QED
                BY <4>1, <4>2
        <3>2. \A s : Tokens(s) = TokensIn(tree, s) /\ Tokens(s)' = TokensIn(tree', s)
            BY TokensAre
        <3>3. \A s \in SUBSET (1..n) : TokensIn(tree, s) = TokensIn(tree', s)
            <4>1. PICK U, t, u : U = 1..n /\ t = tree /\ u = tree'
                OBVIOUS
            <4>2. IsFiniteSet(U) /\ \A k \in U : t[k].tokens = u[k].tokens
                BY <3>1, <4>1
            <4>3. \A s \in SUBSET U : TokensIn(t, s) = TokensIn(u, s)
                BY <4>2, TokensSame
            <4> QED
                BY <4>1, <4>3
        <3> QED
            BY <3>2, <3>3
    <2>8. ReadWell(pl, rd)
        BY <1>5, <1>15, <1>22
    <2>9. tree'[n + 1].tells = rd \cup UNION {tree[k].tells : k \in rd}
        BY <1>10, <1>12, <1>15 DEF AllTold
    <2>10. ASSUME NEW k \in pl, k \notin tree'[n + 1].tells
           PROVE  Tokens({j \in pl : j >= k})' > Budget
        <3>1. Tokens({j \in pl : j >= k}) > Budget
            BY <2>8, <2>9, <2>10 DEF ReadWell
        <3>2. {j \in pl : j >= k} \in SUBSET (1..n)
            BY <1>16
        <3> QED
            BY <2>7, <3>1, <3>2
    <2>11. \/ Tokens(rd)' <= Budget
           \/ /\ tree'[Min(rd)].type \in Summaries
              /\ Tokens(rd \ {Min(rd)})' * 10 < Budget * 9
        <3>1. rd \in SUBSET (1..n) /\ rd \ {Min(rd)} \in SUBSET (1..n)
            BY <1>16
        <3>2. Tokens(rd)' = Tokens(rd) /\ Tokens(rd \ {Min(rd)})' = Tokens(rd \ {Min(rd)})
            BY <2>7, <3>1
        <3>3. rd # {} => Min(rd) \in 1..n
            <4>1. rd \subseteq Nat
                BY <1>16
            <4> QED
                BY <3>1, <4>1, MinOfPlaces
        <3>4. rd # {} => tree'[Min(rd)] = tree[Min(rd)]
            BY <1>12, <1>15, <3>3
        <3> QED
            BY <2>8, <3>2, <3>4 DEF ReadWell
    <2> QED
        BY <1>19, <2>6, <2>10, <2>11 DEF LeftIsTold
<1>23. ~made => LeftIsTold'
    BY <1>19 DEF LeftIsTold
<1> QED
    BY <1>12, <1>21, <1>22, <1>23 DEF NavInv, NavigationKept

LEMMA NavigationInitKeeps == NavigationInit => NavInv
<1> SUFFICES ASSUME tree = <<>>, here = Root, trip = NoTrip PROVE NavInv
    BY DEF NavigationInit
<1>1. tree \in Seq(TreeNodes) /\ Len(tree) = 0 /\ Nodes = {}
    BY EmptySeq DEF Nodes
<1>2. here \in 0..Len(tree)
    BY <1>1 DEF Root
<1>3. NavTypes
    BY <1>1, <1>2, NoTripType DEF NavTypes
<1> QED
    BY <1>3, NoTripKept DEF NavInv

LEMMA NavigateKeeps ==
    ASSUME NavInv, trip = NoTrip, NEW target \in Nodes, Navigate(target)
    PROVE  NavInv'
<1>1. CASE GoNowhere(target) \/ Refused(target) \/ Moves(target)
    BY <1>1, StayPut
<1>2. ASSUME NEW made \in BOOLEAN, NEW appended \in BOOLEAN, MovesSummarised(target, made, appended)
      PROVE  NavInv'
    BY <1>2, NotAppended, Appended
<1> QED
    BY <1>1, <1>2 DEF Navigate

LEMMA NavigationStepKeeps == NavInv /\ [NavigationNext]_navigationVars => NavInv'
<1> SUFFICES ASSUME NavInv, [NavigationNext]_navigationVars PROVE NavInv'
    OBVIOUS
<1>1. CASE Say \/ Return \/ Choose \/ Compacts
    BY <1>1, SessionUsed
<1>2. CASE trip = NoTrip /\ \E target \in Nodes : Navigate(target)
    BY <1>2, NavigateKeeps
<1>3. CASE trip # NoTrip /\ trip' = NoTrip /\ UNCHANGED <<tree, here>>
    BY <1>3, TripEnds
<1>4. CASE UNCHANGED navigationVars
    <2>1. tree' = tree /\ here' = here /\ trip' = trip
        BY <1>4 DEF navigationVars
    <2>2. NavTypes'
        BY <2>1 DEF NavInv, NavTypes, Nodes
    <2>3. NavigationKept'
        <3>1. \A n : OnPath(n)' = OnPath(n)
            BY <2>1 DEF OnPath
        <3>2. \A n : Readable(n)' <=> Readable(n)
            BY <2>1 DEF Readable
        <3>3. Gone' = Gone
            BY <2>1, <3>1, <3>2 DEF Gone
        <3>4. \A s : Tokens(s)' = Tokens(s)
            BY <2>1, TokensAre
        <3>5. LeftIsTold'
            BY <2>1, <3>3, <3>4 DEF NavInv, NavigationKept, LeftIsTold
        <3>6. ToldOnce'
            BY <2>1, <3>1 DEF NavInv, NavigationKept, ToldOnce
        <3> QED
            BY <3>5, <3>6 DEF NavigationKept
    <2> QED
        BY <2>2, <2>3 DEF NavInv
<1> QED
    BY <1>1, <1>2, <1>3, <1>4 DEF NavigationNext

ToldInv == CompactionInv /\ NavInv

\* Neither a compaction nor a move loses, for the model, what was said.
THEOREM HistoryStaysTold == HistorySpec => []HistoryTold
<1>1. HistoryInit => ToldInv
    BY CompactionInitKeeps, NavigationInitKeeps DEF HistoryInit, ToldInv
<1>2. ToldInv /\ [HistoryNext]_historyVars => ToldInv'
    <2> SUFFICES ASSUME ToldInv, [HistoryNext]_historyVars PROVE ToldInv'
        OBVIOUS
    <2>1. [CompactionNext]_branch /\ [NavigationNext]_navigationVars
        BY DEF HistoryNext, historyVars, navigationVars
    <2> QED
        BY <2>1, CompactionStepKeeps, NavigationStepKeeps DEF ToldInv
<1>3. ToldInv => HistoryTold
    BY CompactionTold DEF ToldInv, HistoryTold, NavInv, NavTypes, NavigationTypeOK, Trips
<1> QED
    BY <1>1, <1>2, <1>3, PTL DEF HistorySpec
=============================================================================
