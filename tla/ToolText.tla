-------------------------------- MODULE ToolText --------------------------------
(* What the file tools do to text: limits of what a model is shown               *)
(* (tool/builtin/truncate.go, read.go), targeted replacements and the patch that *)
(* reports them (editdiff.go).  A text is a sequence of characters; of the many  *)
(* that NormalizeForFuzzyMatch tells apart there is one of each kind.            *)
EXTENDS Naturals, Sequences, FiniteSets, SequencesExt, FiniteSetsExt

NL == "nl"            \* line end
SP == "sp"            \* white space, dropped at the end of a line by the fuzzy match
CURLY == "curly"      \* a smart quote, dash or space
PLAIN == "plain"      \* the character it is normalised to
Chars == {NL, SP, CURLY, PLAIN}

-------------------------------------------------------------------------------
\* Lines.

\* The members of a set of numbers in increasing order.
Ascending(numbers) ==
    [k \in 1..Cardinality(numbers) |->
        CHOOSE n \in numbers : Cardinality({other \in numbers : other < n}) = k - 1]

\* strings.Split(text, "\n").
Lines(text) ==
    LET ends == Ascending({i \in DOMAIN text : text[i] = NL})
        From(k) == IF k = 1 THEN 1 ELSE ends[k - 1] + 1
        To(k) == IF k > Len(ends) THEN Len(text) ELSE ends[k] - 1
    IN [k \in 1..(Len(ends) + 1) |-> SubSeq(text, From(k), To(k))]

\* strings.Join(lines, "\n").
JoinLines(lines) ==
    IF lines = <<>> THEN <<>>
    ELSE FoldLeft(LAMBDA text, line : text \o <<NL>> \o line, Head(lines), Tail(lines))

\* splitLinesForCounting, comparableLines: a final line end opens no line.
CountedLines(text) ==
    LET lines == Lines(text) IN
    IF Last(lines) = <<>> THEN Front(lines) ELSE lines

Fits(text, maxLines, maxBytes) ==
    Len(CountedLines(text)) <= maxLines /\ Len(text) <= maxBytes

\* How many lines from one end of the text fit both limits: the loops stop at
\* the first line that does not.
FittingFrom(lines, Some(_, _), maxLines, maxBytes) ==
    Max({n \in 0..Len(lines) :
            /\ n <= maxLines
            /\ Len(JoinLines(Some(lines, n))) <= maxBytes})

Leading(lines, n) == SubSeq(lines, 1, n)
Trailing(lines, n) == SubSeq(lines, Len(lines) - n + 1, Len(lines))

Untouched(text) ==
    [content |-> text, truncated |-> FALSE, by |-> "none", lines |-> Len(CountedLines(text)),
     tooLong |-> FALSE, partial |-> FALSE]

TruncateHead(text, maxLines, maxBytes) ==
    LET lines == CountedLines(text)
        n == FittingFrom(lines, Leading, maxLines, maxBytes)
    IN  IF Fits(text, maxLines, maxBytes) THEN Untouched(text)
        ELSE IF Len(lines[1]) > maxBytes
          THEN [content |-> <<>>, truncated |-> TRUE, by |-> "bytes", lines |-> 0,
                tooLong |-> TRUE, partial |-> FALSE]
        ELSE [content |-> JoinLines(Leading(lines, n)), truncated |-> TRUE,
              by |-> IF n < Len(lines) /\ n < maxLines THEN "bytes" ELSE "lines",
              lines |-> n, tooLong |-> FALSE, partial |-> FALSE]

\* A last line that is too long by itself is cut from its beginning.
TruncateTail(text, maxLines, maxBytes) ==
    LET lines == CountedLines(text)
        n == FittingFrom(lines, Trailing, maxLines, maxBytes)
        cut == SubSeq(Last(lines), Len(Last(lines)) - maxBytes + 1, Len(Last(lines)))
    IN  IF Fits(text, maxLines, maxBytes) THEN Untouched(text)
        ELSE IF n = 0
          THEN [content |-> cut, truncated |-> TRUE,
                by |-> IF maxLines = 1 THEN "lines" ELSE "bytes",
                lines |-> 1, tooLong |-> FALSE, partial |-> TRUE]
        ELSE [content |-> JoinLines(Trailing(lines, n)), truncated |-> TRUE,
              by |-> IF n < Len(lines) /\ n < maxLines THEN "bytes" ELSE "lines",
              lines |-> n, tooLong |-> FALSE, partial |-> FALSE]

\* Mutant of NextOffset: the line after the page is skipped.
NextOffsetSkips(first, cut) == first + cut.lines + 1
\* Where a page that was cut says to go on
NextOffset(first, cut) == first + cut.lines

\* executeRead: a page of a text file and the offset at which to go on (0: that
\* was the end).  A limit of 0 is none.
ReadPage(text, offset, limit, maxLines, maxBytes) ==
    LET lines == Lines(text)
        first == IF offset > 0 THEN offset ELSE 1
        end == IF limit > 0 THEN Min({first + limit - 1, Len(lines)}) ELSE Len(lines)
        cut == TruncateHead(JoinLines(SubSeq(lines, first, end)), maxLines, maxBytes)
        Page(kind, content, next) == [kind |-> kind, content |-> content, next |-> next]
    IN  IF first > Len(lines) THEN Page("error", <<>>, 0)
        ELSE IF cut.tooLong THEN Page("tooLong", <<>>, 0)
        ELSE IF cut.truncated THEN Page("text", cut.content, NextOffset(first, cut))
        ELSE Page("text", cut.content, IF end < Len(lines) THEN end + 1 ELSE 0)

-------------------------------------------------------------------------------
\* Edits.

\* NormalizeForFuzzyMatch: white space at line ends goes, smart characters
\* become plain ones.
Trimmed(line) == SubSeq(line, 1, Max({0} \cup {i \in DOMAIN line : line[i] # SP}))
WithoutSmart(text) == [i \in DOMAIN text |-> IF text[i] = CURLY THEN PLAIN ELSE text[i]]
TrimmedLines(lines) == [k \in DOMAIN lines |-> Trimmed(lines[k])]
NormalizedText(text) == WithoutSmart(JoinLines(TrimmedLines(Lines(text))))

Occurrences(text, part) ==
    {i \in 1..(Len(text) - Len(part) + 1) : SubSeq(text, i, i + Len(part) - 1) = part}

\* strings.Index; 0 for not found.
Index(text, part) == Min(Occurrences(text, part) \cup {Len(text) + 2}) % (Len(text) + 2)

\* strings.Count: occurrences that do not overlap, from the left; an empty part
\* is found between all characters.
Count(text, part) ==
    IF part = <<>> THEN Len(text) + 1
    ELSE FoldLeft(LAMBDA acc, i : IF i >= acc.free
                                    THEN [n |-> acc.n + 1, free |-> i + Len(part)] ELSE acc,
                  [n |-> 0, free |-> 1], Ascending(Occurrences(text, part))).n

\* FuzzyFindText: exactly, else in the normalised texts.
MatchAt(at, part, fuzzy) == [at |-> at, len |-> Len(part), fuzzy |-> fuzzy /\ at # 0]
FuzzyMatch(text, part) == MatchAt(Index(text, part), part, TRUE)
Find(text, old) ==
    IF Index(text, old) # 0 THEN MatchAt(Index(text, old), old, FALSE)
    ELSE FuzzyMatch(NormalizedText(text), NormalizedText(old))

Replaced(text, match) ==
    SubSeq(text, 1, match.at - 1) \o match.new \o SubSeq(text, match.at + match.len, Len(text))

\* Replaces what was found in a base, from the last match to the first, or refuses.
ReplaceFound(text, edits, base, found) ==
    LET matches == SortSeq([i \in DOMAIN edits |->
                               [at |-> found[i].at, len |-> found[i].len, new |-> edits[i].new]],
                           LAMBDA a, b : a.at < b.at)
        result == FoldRight(LAMBDA match, acc : Replaced(acc, match), matches, base)
        Refused(why) == [error |-> why, base |-> base, text |-> text]
    IN  IF \E i \in DOMAIN edits : edits[i].old = <<>> THEN Refused("empty")
        ELSE IF \E i \in DOMAIN edits : found[i].at = 0 THEN Refused("not found")
        ELSE IF \E i \in DOMAIN edits :
                    Count(NormalizedText(base), NormalizedText(edits[i].old)) > 1 THEN Refused("duplicate")
        ELSE IF \E i \in 2..Len(matches) :
                    matches[i - 1].at + matches[i - 1].len > matches[i].at THEN Refused("overlap")
        ELSE IF result = base THEN Refused("no change")
        ELSE [error |-> "none", base |-> base, text |-> result]

\* ApplyEdits: every old text is found in one base, the normalised text as soon
\* as one of them needs it.
FindAll(text, edits) == [i \in DOMAIN edits |-> Find(text, edits[i].old)]
ApplyEdits(text, edits) ==
    LET InBase(base) == ReplaceFound(text, edits, base, FindAll(base, edits)) IN
    IF \E i \in DOMAIN edits : Find(text, edits[i].old).fuzzy
    THEN InBase(NormalizedText(text)) ELSE InBase(text)

-------------------------------------------------------------------------------
\* The patch.

\* lcsLengths: longest common subsequences of the rests.
LcsLengths(old, new) ==
    LET lcs[i \in 1..(Len(old) + 1), j \in 1..(Len(new) + 1)] ==
            IF i > Len(old) \/ j > Len(new) THEN 0
            ELSE IF old[i] = new[j] THEN lcs[i + 1, j + 1] + 1
            ELSE Max({lcs[i + 1, j], lcs[i, j + 1]})
    IN lcs

\* lineDiffItems: keep, remove or add, removals first where both are as good.
DiffItems(old, new) ==
    LET lcs == LcsLengths(old, new)
        Item(kind, i, j) == [kind |-> kind, old |-> i, new |-> j,
                             text |-> IF kind = "added" THEN new[j] ELSE old[i]]
        items[i \in 1..(Len(old) + 1), j \in 1..(Len(new) + 1)] ==
            IF i > Len(old) /\ j > Len(new) THEN <<>>
            ELSE IF i <= Len(old) /\ j <= Len(new) /\ old[i] = new[j]
              THEN <<Item("equal", i, j)>> \o items[i + 1, j + 1]
            ELSE IF i <= Len(old) /\ (j > Len(new) \/ lcs[i + 1, j] >= lcs[i, j + 1])
              THEN <<Item("removed", i, j)>> \o items[i + 1, j]
            ELSE <<Item("added", i, j)>> \o items[i, j + 1]
    IN items[1, 1]

\* unifiedPatchHunks: the changes with their context, joined where they meet.
\* An item belongs to a hunk if a change is within reach of it.
Hunks(items, context) ==
    LET near == {i \in DOMAIN items : \E c \in DOMAIN items :
                    items[c].kind # "equal" /\ i + context >= c /\ i <= c + context}
        firsts == Ascending({i \in near : i - 1 \notin near})
        End(i) == Max({k \in near : i..k \subseteq near /\ k >= i})
    IN [h \in DOMAIN firsts |-> SubSeq(items, firsts[h], End(firsts[h]))]

\* unifiedPatchLineRange: where the hunk begins in both texts, and how many
\* lines of each it has; a side without lines names the line before it.
HunkRange(hunk) ==
    LET Of(kinds) == {i \in DOMAIN hunk : hunk[i].kind \in kinds}
        olds == Of({"equal", "removed"})
        news == Of({"equal", "added"})
    IN  [oldStart |-> IF olds = {} THEN hunk[1].old - 1 ELSE hunk[Min(olds)].old,
         oldCount |-> Cardinality(olds),
         newStart |-> IF news = {} THEN hunk[1].new - 1 ELSE hunk[Min(news)].new,
         newCount |-> Cardinality(news)]

\* DiffString's first changed line.
FirstChangedLine(items) ==
    LET changes == {i \in DOMAIN items : items[i].kind # "equal"} IN
    IF changes = {} THEN 0 ELSE items[Min(changes)].new
===============================================================================
