------------------------------ MODULE Compaction ------------------------------
(* What a compaction keeps, summarises and forgets (harness/compact.go), over one *)
(* branch that grows and is compacted again and again, and the context that the   *)
(* model is given of it (session.go, buildContextFromPath). A summary is the set  *)
(* of the entries whose text went into it; details are the entries whose file     *)
(* operations it lists. A hook that gives its own summary is left out.            *)
EXTENDS Integers, Sequences, FiniteSets, FiniteSetsExt

CONSTANTS
    KeepRecent,     \* settings.KeepRecentTokens
    Sizes,          \* tokens of a tool's result
    MaxBranch      \* entries of the branch (bound)

VARIABLES branch    \* entries from the root to the leaf; an id is a place in it

\* roles of "message" entries: user, assistant, tool (a result) and bash; the other
\* types: custom (custom_message or branch_summary), setting (what is no message)
\* and compaction
BranchEntry(type, tokens) ==
    [type |-> type, tokens |-> tokens, keep |-> 0, summary |-> {}, details |-> {}]

MessageTypes == {"user", "assistant", "tool", "bash"}
CountedTypes == {"user", "assistant", "tool"}       \* AsAIMessage

CompactionInit == branch = <<>>

Places == DOMAIN branch
IsA(i, types) == branch[i].type \in types
LastCompaction(upTo) == Max({0} \cup {i \in 1..upTo : IsA(i, {"compaction"})})
\* messageFromEntryForCompaction
Told(places) == {i \in places : IsA(i, MessageTypes \cup {"custom"})}

-------------------------------------------------------------------------------
(* findCutPoint                                                                 *)

\* Mutant of CutTypes: a tool's result may come first.
CutTypesAll == MessageTypes \cup {"custom"}
\* findValidCutPoints: any message but a tool's result
CutTypes == (MessageTypes \ {"tool"}) \cup {"custom"}

TokensFrom(i) == MapThenSumSet(LAMBDA k : branch[k].tokens, {k \in i..Len(branch) : IsA(k, CountedTypes)})

\* The newest place from which on there are KeepRecent tokens, and the first cut
\* point from it on; the first of all when there is none.
Chosen(cuts, start) ==
    LET full == {i \in start..Len(branch) : IsA(i, CountedTypes) /\ TokensFrom(i) >= KeepRecent}
        after == IF full = {} THEN {} ELSE {c \in cuts : c >= Max(full)}
    IN  IF after = {} THEN Min(cuts) ELSE Min(after)

\* Entries that are neither messages nor a compaction go with what follows them.
Widened(cut, start) ==
    LET stops == {i \in start..cut - 1 : IsA(i, MessageTypes \cup {"compaction"})}
    IN  IF stops = {} THEN start ELSE Max(stops) + 1

\* findTurnStartIndex; 0 when there is none
TurnStart(at, start) ==
    Max({0} \cup {i \in start..at : IsA(i, {"user", "bash", "custom"})})

CutPoint(start) ==
    LET cuts == {i \in start..Len(branch) : IsA(i, CutTypes)}
        cut == Widened(Chosen(cuts, start), start)
    IN  IF cuts = {} THEN [kept |-> start, turn |-> 0]
        ELSE [kept |-> cut, turn |-> IF IsA(cut, {"user"}) THEN 0 ELSE TurnStart(cut, start)]

-------------------------------------------------------------------------------
(* prepareCompaction and compactPrepared                                        *)

\* From where the last compaction kept; from it on when its entry is not here.
BoundaryStart ==
    LET last == LastCompaction(Len(branch))
    IN  IF last = 0 THEN 1 ELSE IF branch[last].keep \in Places THEN branch[last].keep ELSE last + 1

\* Mutant of HistoryEnd: the first entry that is kept is summarised as well.
HistoryEndInclusive(cut) == IF cut.turn # 0 THEN cut.turn ELSE cut.kept
\* A split turn is not part of the history.
HistoryEnd(cut) == (IF cut.turn # 0 THEN cut.turn ELSE cut.kept) - 1

Prepared ==
    LET cut == CutPoint(BoundaryStart)
        split == cut.turn # 0
    IN  [kept    |-> cut.kept,
         split   |-> split,
         history |-> Told(BoundaryStart .. HistoryEnd(cut)),
         prefix  |-> IF split THEN Told(cut.turn .. cut.kept - 1) ELSE {}]

PreviousSummary ==
    LET last == LastCompaction(Len(branch)) IN IF last = 0 THEN {} ELSE branch[last].summary
PreviousDetails ==
    LET last == LastCompaction(Len(branch)) IN IF last = 0 THEN {} ELSE branch[last].details

\* Mutant of Summarised: the history of a split turn is not summarised.
SummarisedPrefixOnly(prep) ==
    IF prep.split /\ prep.prefix # {} THEN prep.prefix ELSE prep.history \cup PreviousSummary
\* generateSummary updates the previous summary; with nothing before a split turn
\* there is no call to do it and "No prior history." stands for both.
Summarised(prep) ==
    IF prep.split /\ prep.prefix # {}
    THEN prep.prefix \cup (IF prep.history = {} THEN {} ELSE prep.history \cup PreviousSummary)
    ELSE prep.history \cup PreviousSummary

\* Mutant of FileOps: only the history's.
FileOpsOfHistory(prep) == PreviousDetails \cup prep.history
\* extractFileOperations, and the prefix's
FileOps(prep) == PreviousDetails \cup prep.history \cup prep.prefix

CanCompact == branch # <<>> /\ ~IsA(Len(branch), {"compaction"}) /\ Prepared.kept \in Places

\* Compact; it fails before it writes or not at all.
Compact ==
    /\ CanCompact /\ Len(branch) < MaxBranch
    /\ branch' = Append(branch, [BranchEntry("compaction", 0) EXCEPT !.keep = Prepared.kept,
                                    !.summary = Summarised(Prepared), !.details = FileOps(Prepared)])

-------------------------------------------------------------------------------
(* The conversation. A tool's results follow the answer that called for them at   *)
(* once: what else is appended during a run waits for the end of the turn         *)
(* (orchestrator.go, pendingWrites).                                              *)

Says(type, tokens) ==
    /\ Len(branch) < MaxBranch
    /\ type = "tool" => branch # <<>> /\ IsA(Len(branch), {"assistant", "tool"})
    /\ branch' = Append(branch, BranchEntry(type, tokens))

Converse ==
    \/ \E type \in {"user", "assistant", "bash", "custom", "setting"} : Says(type, 1)
    \/ \E tokens \in Sizes : Says("tool", tokens)

CompactionNext == Converse \/ Compact
CompactionSpec == CompactionInit /\ [][CompactionNext]_branch

-------------------------------------------------------------------------------
(* buildContextFromPath                                                         *)

\* The places whose messages the model is given, beside the last summary
Context ==
    LET last == LastCompaction(Len(branch))
    IN  IF last = 0 THEN Told(Places)
        ELSE Told((branch[last].keep .. last - 1) \cup (last + 1 .. Len(branch)))

-------------------------------------------------------------------------------
(* Properties                                                                   *)

Compacted == LastCompaction(Len(branch))
Summary == PreviousSummary

\* Whether a compaction has dropped the summary before it (see Summarised)
Dropped == \E c \in Places :
    /\ IsA(c, {"compaction"})
    /\ \E earlier \in 1..c - 1 :
          IsA(earlier, {"compaction"}) /\ ~(branch[earlier].summary \subseteq branch[c].summary)

\* compact.go:194-224: what the model is no longer given is in the summary it is
\* given, whatever the cut and however many compactions there were - unless one of
\* them split the first turn after the summary before it, which it then dropped.
NothingForgotten == ~Dropped => Told(Places) \ Context \subseteq Summary

\* ... and nothing is both summarised and given in full.
NothingTwice == Summary \cap Context = {}

\* compact.go:223-228: the files of everything that was ever cut stay listed, even
\* where the summary was dropped.
FilesKept == Told(Places) \ Context \subseteq PreviousDetails

\* compact.go:850-899: the context never shows a tool's result without the answer
\* that called for it.
ResultsKeepTheirCall ==
    \A i \in Context : IsA(i, {"tool"}) =>
        \E c \in Context : c < i /\ IsA(c, {"assistant"})
                           /\ \A k \in c + 1 .. i : ~IsA(k, {"user", "bash"})

\* compact.go: a compaction, and one after another, costs nothing but detail.
HistoryKept ==
    branch # <<>> => NothingForgotten /\ NothingTwice /\ FilesKept /\ ResultsKeepTheirCall
===============================================================================
