-------------------------------- MODULE FileText --------------------------------
(* A model that reads a file page by page, edits it and writes it anew            *)
(* (tool/builtin/read.go, edit.go, write.go): what it is shown of the text, and    *)
(* what it is told of its changes.                                                *)
EXTENDS ToolText

CONSTANTS
    PageLines, PageBytes,   \* defaultMaxLines, defaultMaxBytes
    MaxText                 \* characters of a text that is written (bound)

ASSUME PageAssumption == PageLines \in Nat \ {0} /\ PageBytes \in Nat \ {0}

VARIABLES
    text,       \* the file
    former,     \* what it was before the last edit; the base of its patch
    wished,     \* the edits of the last edit
    offset,     \* where the model reads on; 0: nothing is left
    shown       \* the lines it has been shown, from the first on

fileTextVars == <<text, former, wished, offset, shown>>

TextsUpTo(n) == UNION {[1..k -> Chars] : k \in 0..n}

FileTextInit ==
    /\ text = <<>> /\ former = <<>> /\ wished = <<>>
    /\ offset = 1 /\ shown = <<>>

StartsOver == offset' = 1 /\ shown' = <<>>

\* executeRead at the offset of the last page's notice, with a limit or without one;
\* a line that is too long for a page is not shown, and the model gives up.
ReadNext(limit) ==
    LET page == ReadPage(text, offset, limit, PageLines, PageBytes) IN
    /\ offset # 0
    /\ page.kind = "text"
    /\ offset' = page.next
    /\ shown' = shown \o Lines(page.content)
    /\ UNCHANGED <<text, former, wished>>

\* executeWrite
WriteText(new) ==
    /\ wished = <<>> /\ text = <<>>
    /\ text' = new /\ former' = new
    /\ StartsOver
    /\ UNCHANGED wished

\* What a model asks to have replaced: a part of the text as it has seen it or as it
\* remembers it, by nothing, another character or a line.
Parts(t) == {SubSeq(t, i, j) : i \in DOMAIN t, j \in DOMAIN t}
Asked == [old : Parts(text) \cup Parts(NormalizedText(text)), new : {<<>>, <<PLAIN>>, <<NL, SP>>}]

\* executeEdit; a refused edit changes nothing.
EditText(edits) ==
    LET applied == ApplyEdits(text, edits) IN
    /\ wished = <<>>
    /\ applied.error = "none"
    /\ text' = applied.text /\ former' = applied.base
    /\ wished' = edits
    /\ StartsOver

FileTextNext ==
    \/ \E limit \in 0..1 : ReadNext(limit)
    \/ \E new \in TextsUpTo(MaxText) : WriteText(new)
    \/ \E first \in Asked : EditText(<<first>>) \/ \E second \in Asked : EditText(<<first, second>>)

FileTextSpec == FileTextInit /\ [][FileTextNext]_fileTextVars

-------------------------------------------------------------------------------
\* Properties.

\* Following the offsets of the notices the model sees each line once and in order,
\* however pages are cut by lines, by bytes and by the limit it asks for; and when no
\* notice says more, there is no more.
PagesTile ==
    shown # <<>> =>
        shown = (IF offset = 0 THEN Lines(text) ELSE SubSeq(Lines(text), 1, offset - 1))

\* The order in which a call lists its edits makes no difference: each is found in the
\* text as it was, and none in what another one has put there.
EditsCommute ==
    wished # <<>> =>
        LET again == ApplyEdits(former, Reverse(wished)) IN
        again.error = "none" /\ again.text = text

\* Replaces in old the lines of each hunk, at the line its range names.
Patched(old, hunks) ==
    LET Side(hunk, kind) == SelectSeq(hunk, LAMBDA item : item.kind \in {"equal", kind})
        Texts(items) == [i \in DOMAIN items |-> items[i].text]
        Apply(acc, hunk) ==
            LET range == HunkRange(hunk)
                at == IF range.oldCount = 0 THEN range.oldStart + 1 ELSE range.oldStart
            IN  [done |-> at + range.oldCount - 1,
                 new |-> acc.new \o SubSeq(old, acc.done + 1, at - 1) \o Texts(Side(hunk, "added"))]
        all == FoldLeft(Apply, [done |-> 0, new |-> <<>>], hunks)
    IN  all.new \o SubSeq(old, all.done + 1, Len(old))

\* The patch that is reported of an edit leads from the old text to the new one, at the
\* line numbers that it gives for both, with any lines of context.
PatchTells ==
    wished # <<>> => \A context \in 0..2 :
        LET old == CountedLines(former)
            new == CountedLines(text)
            hunks == Hunks(DiffItems(old, new), context)
        IN  /\ Patched(old, hunks) = new
            /\ \A h \in DOMAIN hunks : LET range == HunkRange(hunks[h]) IN
                  range.newCount > 0 =>
                    SubSeq(new, range.newStart, range.newStart + range.newCount - 1)
                      = LET kept == SelectSeq(hunks[h], LAMBDA item : item.kind # "removed")
                        IN  [i \in DOMAIN kept |-> kept[i].text]

\* read.go:61-184 and editdiff.go: what a model is told of a file is so.
TextTold == PagesTile /\ EditsCommute /\ PatchTells
===============================================================================
