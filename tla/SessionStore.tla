----------------------------- MODULE SessionStore -----------------------------
(***************************************************************************)
(* The JSONL session log of internal/session: JsonlSessionStorage          *)
(* (storage.go) driven by the operations of Session (session.go).          *)
(*                                                                         *)
(* A session is a tree of entries kept in memory and appended to one file. *)
(* Every operation changes memory first and persists afterwards, so a      *)
(* failing write leaves memory ahead of the file.  Nothing reaches disk    *)
(* before the first assistant message; then the whole buffer is flushed    *)
(* and later entries are appended one line each.                           *)
(*                                                                         *)
(* Several processes may hold the same file open (nothing locks it); each  *)
(* has its own memory.  A process that dies loses its memory only.         *)
(***************************************************************************)
EXTENDS Naturals, Sequences, FiniteSets

CONSTANTS
    Procs,        \* processes that may hold the session open
    MaxEntries,   \* bound: entries held by one process
    MaxWindow,    \* bound: 2^16 ms windows of the clock; also the short ids
    MaxUuids,     \* bound: full UUIDs issued
    MaxFaults     \* bound: failed or torn writes

ASSUME BoundsAssumption ==
    /\ MaxEntries \in Nat
    /\ MaxWindow \in Nat \ {0}
    /\ MaxUuids \in Nat
    /\ MaxFaults \in Nat

VARIABLES
    disk,         \* the file: header decodable?, its other lines, last line torn?
    up,           \* up[p]: p holds the session open
    entries,      \* entries[p]: the entries slice of p (skipped lines as Garbage)
    leaf,         \* leaf[p]: leafID of p, NoId for nil
    labels,       \* labels[p]: the targets in the label cache of p
    flushed,      \* flushed[p]: header and buffer are on disk
    clock,        \* the current 2^16 ms window
    uuids,        \* full UUIDs issued so far
    faults,       \* history: writes that failed or were torn
    acked         \* history: entries whose write returned nil

mem  == <<up, entries, leaf, labels, flushed>>
vars == <<disk, mem, clock, uuids, faults, acked>>
-----------------------------------------------------------------------------
(* Entries and lines.                                                      *)

NoId == 0

\* AppendMessage of a user or an assistant message; every other entry that
\* hangs under the leaf and is neither a label nor a leaf entry is a "note".
ContentKinds == {"user", "assistant", "note"}
EntryKinds == ContentKinds \cup {"label", "unlabel", "leaf", "summary"}

Line == [kind : EntryKinds \cup {"garbage"}, id : Nat, parent : Nat, target : Nat]

\* A line decodeEntry refuses: OpenJSONL skips it, here it keeps its place.
Garbage == [kind |-> "garbage", id |-> NoId, parent |-> NoId, target |-> NoId]

IsEntry(l) == l.kind # "garbage"

\* Mutant of Entry: every entry is written with the type of a plain record.
EntryUntyped(k, i, p, t) == [kind |-> "entry", id |-> i, parent |-> p, target |-> t]

Entry(k, i, p, t) == [kind |-> k, id |-> i, parent |-> p, target |-> t]

\* The keys of byID.
KnownIds(es) == {es[i].id : i \in {j \in 1..Len(es) : IsEntry(es[j])}}

LeafAfterEntry(e) == IF e.kind = "leaf" THEN e.target ELSE e.id

\* Mutant of LabelsAfterEntry: a blank label is ignored.
LabelsAfterEntryNoClear(ls, e) == IF e.kind = "label" THEN ls \cup {e.target} ELSE ls

\* updateLabelCache: a blank label deletes the target's label.
LabelsAfterEntry(ls, e) ==
    IF e.kind = "label" THEN ls \cup {e.target}
    ELSE IF e.kind = "unlabel" THEN ls \ {e.target}
    ELSE ls

HasAssistant(es) == \E i \in 1..Len(es) : es[i].kind = "assistant"

\* Mutant of NewId: the short id is not looked up in byID.
NewIdUnchecked(es, u) == clock

\* createEntryIDLocked: the first 8 hex digits of a UUIDv7 are its timestamp
\* without the low 16 bits, the same for every attempt in one window; when
\* byID has them the full UUID is the fallback.
NewId(es, u) == IF clock \notin KnownIds(es) THEN clock ELSE MaxWindow + u + 1

UuidsAfter(u, id) == IF id > MaxWindow THEN u + 1 ELSE u
-----------------------------------------------------------------------------
(* The file.                                                               *)

Disk == [header : BOOLEAN, lines : Seq(Line), torn : BOOLEAN]

EmptyDisk == [header |-> FALSE, lines |-> <<>>, torn |-> FALSE]

\* O_APPEND of the bytes of a line: bytes that follow a torn line join it,
\* and the joined line decodes to nothing (a torn header stops being one).
Glued(d, l, t) ==
    IF d.torn /\ d.lines = <<>> THEN [header |-> FALSE, lines |-> <<Garbage>>, torn |-> t]
    ELSE [header |-> d.header,
          lines  |-> IF d.torn THEN [d.lines EXCEPT ![Len(d.lines)] = Garbage]
                     ELSE Append(d.lines, l),
          torn   |-> t]

\* Mutant of AppendOk: the file is opened with O_TRUNC instead of O_APPEND.
AppendOkTruncating(d, l) == [header |-> d.header, lines |-> <<l>>, torn |-> FALSE]

\* appendLineLocked: the line and its newline, or an error that wrote nothing,
\* part of the line, or the line without its newline.
AppendOk(d, l) == Glued(d, l, FALSE)
AppendFailed(d, l) == {d, Glued(d, Garbage, TRUE), Glued(d, l, TRUE)}

\* Mutant of FlushOk: only the entry that triggers the flush is written.
FlushOkLastOnly(es) == [header |-> TRUE, lines |-> <<es[Len(es)]>>, torn |-> FALSE]

\* flushAllLocked: os.WriteFile truncates, then writes the header and the
\* entries; an error may leave any prefix of them.
FlushOk(es) == [header |-> TRUE, lines |-> es, torn |-> FALSE]
FlushFailed(d, es) ==
    {d, EmptyDisk}
    \cup {[header |-> TRUE, lines |-> SubSeq(es, 1, k), torn |-> t] :
              k \in 0..Len(es), t \in BOOLEAN}
    \cup {[header |-> TRUE, lines |-> Append(SubSeq(es, 1, k), Garbage), torn |-> TRUE] :
              k \in 0..(Len(es) - 1)}

\* Mutant of Results: every write rewrites the file from memory.
ResultsRewriting(d, fl, es, e) ==
    IF ~HasAssistant(es) THEN {[disk |-> d, flushed |-> FALSE, ok |-> TRUE]}
    ELSE {[disk |-> FlushOk(es), flushed |-> TRUE, ok |-> TRUE]}
         \cup {[disk |-> x, flushed |-> FALSE, ok |-> FALSE] : x \in FlushFailed(d, es)}

\* persistLocked: what writing e, already the last of es, can come to.
Results(d, fl, es, e) ==
    IF fl
    THEN {[disk |-> AppendOk(d, e), flushed |-> TRUE, ok |-> TRUE]}
         \cup {[disk |-> x, flushed |-> TRUE, ok |-> FALSE] : x \in AppendFailed(d, e)}
    ELSE IF ~HasAssistant(es)
    THEN {[disk |-> d, flushed |-> FALSE, ok |-> TRUE]}
    ELSE {[disk |-> FlushOk(es), flushed |-> TRUE, ok |-> TRUE]}
         \cup {[disk |-> x, flushed |-> FALSE, ok |-> FALSE] : x \in FlushFailed(d, es)}

LastEntry(ls, i) == IsEntry(ls[i]) /\ \A j \in (i + 1)..Len(ls) : ~IsEntry(ls[j])

\* Mutant of RecoveredLeaf: the last entry is the leaf, even a leaf entry.
RecoveredLeafLastEntry(ls) ==
    IF \E i \in 1..Len(ls) : LastEntry(ls, i)
    THEN ls[CHOOSE i \in 1..Len(ls) : LastEntry(ls, i)].id
    ELSE NoId

\* What OpenJSONL recovers: the leaf after the last line that decodes, and
\* the label cache that the lines that decode leave behind.
RecoveredLeaf(ls) ==
    IF \E i \in 1..Len(ls) : LastEntry(ls, i)
    THEN LeafAfterEntry(ls[CHOOSE i \in 1..Len(ls) : LastEntry(ls, i)])
    ELSE NoId

Labelled(ls) ==
    {ls[i].target : i \in {j \in 1..Len(ls) :
        /\ ls[j].kind = "label"
        /\ \A k \in (j + 1)..Len(ls) : ~(ls[k].kind = "unlabel" /\ ls[k].target = ls[j].target)}}
-----------------------------------------------------------------------------
Init ==
    /\ disk = EmptyDisk
    /\ up = [p \in Procs |-> FALSE]
    /\ entries = [p \in Procs |-> <<>>]
    /\ leaf = [p \in Procs |-> NoId]
    /\ labels = [p \in Procs |-> {}]
    /\ flushed = [p \in Procs |-> FALSE]
    /\ clock = 1
    /\ uuids = 0
    /\ faults = 0
    /\ acked = {}

\* CreateJSONL: empty memory, and nothing on disk.  The path is new, so nobody
\* else has it open.
Create(p) ==
    /\ \A q \in Procs : ~up[q]
    /\ disk = EmptyDisk
    /\ up' = [up EXCEPT ![p] = TRUE]
    /\ UNCHANGED <<disk, entries, leaf, labels, flushed, clock, uuids, faults, acked>>

\* OpenJSONL: refused without a header, otherwise memory is rebuilt from the
\* lines that decode.
Open(p) ==
    /\ ~up[p]
    /\ disk.header
    /\ up' = [up EXCEPT ![p] = TRUE]
    /\ entries' = [entries EXCEPT ![p] = disk.lines]
    /\ leaf' = [leaf EXCEPT ![p] = RecoveredLeaf(disk.lines)]
    /\ labels' = [labels EXCEPT ![p] = Labelled(disk.lines)]
    /\ flushed' = [flushed EXCEPT ![p] = TRUE]
    /\ UNCHANGED <<disk, clock, uuids, faults, acked>>

\* The process stops, cleanly or not: nothing is written on the way out and
\* its memory is gone.
Exit(p) ==
    /\ up[p]
    /\ up' = [up EXCEPT ![p] = FALSE]
    /\ entries' = [entries EXCEPT ![p] = <<>>]
    /\ leaf' = [leaf EXCEPT ![p] = NoId]
    /\ labels' = [labels EXCEPT ![p] = {}]
    /\ flushed' = [flushed EXCEPT ![p] = FALSE]
    /\ UNCHANGED <<disk, clock, uuids, faults, acked>>

Room(p, n) == Len(entries[p]) + n <= MaxEntries /\ uuids + n <= MaxUuids

\* GetLeafID answers an error when the leaf is not in byID.
LeafKnown(p) == leaf[p] \in KnownIds(entries[p]) \cup {NoId}

\* The entries a write that returned nil has put on disk: the one line, or
\* at the first flush the whole buffer.
Written(es, fl, r) ==
    IF ~(r.ok /\ r.flushed) THEN {}
    ELSE IF fl THEN {es[Len(es)]}
    ELSE {es[i] : i \in 1..Len(es)}

\* Memory as the entries es ending in e leave it, and the outcome r of the write.
Commit(p, es, e, r) ==
    /\ r.ok \/ faults < MaxFaults
    /\ entries' = [entries EXCEPT ![p] = es]
    /\ labels' = [labels EXCEPT ![p] = LabelsAfterEntry(@, e)]
    /\ leaf' = [leaf EXCEPT ![p] = LeafAfterEntry(e)]
    /\ flushed' = [flushed EXCEPT ![p] = r.flushed]
    /\ disk' = r.disk
    /\ faults' = IF r.ok THEN faults ELSE faults + 1
    /\ UNCHANGED <<up, clock>>

\* AppendEntry of e by p: memory first, then the file.
AppendEntry(p, e) ==
    LET es == Append(entries[p], e)
    IN  \E r \in Results(disk, flushed[p], es, e) :
            /\ Commit(p, es, e, r)
            /\ acked' = acked \cup Written(es, flushed[p], r)
            /\ uuids' = UuidsAfter(uuids, e.id)

AppendContent(p, k) ==
    /\ up[p] /\ Room(p, 1) /\ LeafKnown(p)
    /\ AppendEntry(p, Entry(k, NewId(entries[p], uuids), leaf[p], NoId))

\* AppendLabel: the target must be known; a blank label clears.
AppendLabel(p, k, t) ==
    /\ up[p] /\ Room(p, 1) /\ LeafKnown(p)
    /\ t \in KnownIds(entries[p])
    /\ AppendEntry(p, Entry(k, NewId(entries[p], uuids), leaf[p], t))

\* MoveTo without a summary: SetLeafID adds a leaf entry under the old leaf
\* and the target, not the new entry, becomes the leaf.
MoveTo(p, t) ==
    /\ up[p] /\ Room(p, 1)
    /\ t \in KnownIds(entries[p]) \cup {NoId}
    /\ AppendEntry(p, Entry("leaf", NewId(entries[p], uuids), leaf[p], t))

\* MoveTo with a branch summary: the summary entry hangs under the target.
\* An error of the first write returns before the second.
MoveToWithSummary(p, t) ==
    LET e1  == Entry("leaf", NewId(entries[p], uuids), leaf[p], t)
        es1 == Append(entries[p], e1)
        u1  == UuidsAfter(uuids, e1.id)
        e2  == Entry("summary", NewId(es1, u1), t, t)
        es2 == Append(es1, e2)
    IN  /\ up[p] /\ Room(p, 2)
        /\ t \in KnownIds(entries[p]) \cup {NoId}
        /\ \E r1 \in Results(disk, flushed[p], es1, e1) :
               \/ /\ ~r1.ok
                  /\ Commit(p, es1, e1, r1)
                  /\ uuids' = u1
                  /\ UNCHANGED acked
               \/ /\ r1.ok
                  /\ \E r2 \in Results(r1.disk, r1.flushed, es2, e2) :
                         /\ Commit(p, es2, e2, r2)
                         /\ uuids' = UuidsAfter(u1, e2.id)
                         /\ acked' = acked \cup Written(es1, flushed[p], r1)
                                           \cup Written(es2, r1.flushed, r2)

Tick ==
    /\ clock < MaxWindow
    /\ clock' = clock + 1
    /\ UNCHANGED <<disk, mem, uuids, faults, acked>>

Step(p) ==
    \/ Create(p)
    \/ Open(p)
    \/ Exit(p)
    \/ \E k \in ContentKinds : AppendContent(p, k)
    \/ \E k \in {"label", "unlabel"}, t \in KnownIds(entries[p]) : AppendLabel(p, k, t)
    \/ \E t \in KnownIds(entries[p]) \cup {NoId} : MoveTo(p, t) \/ MoveToWithSummary(p, t)

Next == Tick \/ \E p \in Procs : Step(p)

Spec == Init /\ [][Next]_vars
-----------------------------------------------------------------------------
(* Properties.                                                             *)

\* The type of every variable.
TypeOK ==
    /\ disk \in Disk
    /\ up \in [Procs -> BOOLEAN]
    /\ entries \in [Procs -> Seq(Line)]
    /\ leaf \in [Procs -> Nat]
    /\ labels \in [Procs -> SUBSET Nat]
    /\ flushed \in [Procs -> BOOLEAN]
    /\ clock \in 1..MaxWindow
    /\ uuids \in Nat
    /\ faults \in 0..MaxFaults
    /\ acked \subseteq Line

\* The entry at i names as parent, and a label or leaf entry as target, an
\* entry that comes before it, or nothing.
Earlier(es, i, id) == id = NoId \/ \E j \in 1..(i - 1) : es[j].id = id
Closed(es) ==
    \A i \in 1..Len(es) :
        IsEntry(es[i]) /\ Earlier(es, i, es[i].parent) /\ Earlier(es, i, es[i].target)

\* Without a failed write, no interleaving of processes, deferred flush,
\* navigation, exit and reopening leaves a process with an entry whose parent
\* or target it does not hold, or with a leaf that every later append would
\* refuse (GetLeafID, GetPathToRoot).
HistoryClosed ==
    faults = 0 => \A p \in Procs : up[p] => Closed(entries[p]) /\ LeafKnown(p)

\* byID: the last entry with the id.
IndexOf(es, id) ==
    CHOOSE i \in 1..Len(es) :
        /\ IsEntry(es[i]) /\ es[i].id = id
        /\ \A j \in (i + 1)..Len(es) : ~(IsEntry(es[j]) /\ es[j].id = id)

\* GetPathToRoot from the leaf lf: where its loop is after n turns.
Walk(es, lf) ==
    LET at[n \in 0..Len(es)] ==
            IF n = 0 THEN lf
            ELSE IF at[n - 1] \notin KnownIds(es) THEN at[n - 1]
            ELSE es[IndexOf(es, at[n - 1])].parent
    IN  at

\* Without a failed write, the walk from the leaf ends at the root: it does
\* not run around a cycle (the loop has no other exit) nor meet a missing
\* parent, whatever ids the window of the clock gave out.
PathReachesRoot ==
    faults = 0 => \A p \in Procs : up[p] => Walk(entries[p], leaf[p])[Len(entries[p])] = NoId

\* An entry whose write returned nil stays decodable in the file as long as
\* no write was torn or failed.
AckedOnDisk ==
    faults = 0 => acked \subseteq {disk.lines[i] : i \in 1..Len(disk.lines)}

\* The incrementally maintained label cache is the one reopening would build
\* from the same entries, failures or not.
LabelCacheMatches ==
    \A p \in Procs : up[p] => labels[p] = Labelled(entries[p])

\* What a process remembers of the log can be walked to its root and is what
\* reopening would build.
MemoryTrue == PathReachesRoot /\ LabelCacheMatches

\* Once a process holds the log flushed, and while no write fails, a step only
\* adds lines at its end: no operation, flush or reopening of any process
\* rewrites what is there.
AppendOnly ==
    [][(faults' = 0 /\ \E p \in Procs : up[p] /\ flushed[p])
         => /\ disk'.header
            /\ Len(disk'.lines) >= Len(disk.lines)
            /\ \A i \in 1..Len(disk.lines) : disk'.lines[i] = disk.lines[i]]_vars

\* storage.go:126-129: a line torn by a crash "costs only itself, never the
\* whole session".  So what a process appends after it has reopened a file
\* with a torn line is in the file like any other entry.
TornLineCostsOnlyItself ==
    \A p \in Procs : up[p] =>
        \A i, j \in 1..Len(entries[p]) :
            (i < j /\ ~IsEntry(entries[p][i]) /\ IsEntry(entries[p][j]))
                => \E k \in 1..Len(disk.lines) : disk.lines[k] = entries[p][j]
=============================================================================
