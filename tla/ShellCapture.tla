------------------------------ MODULE ShellCapture ------------------------------
(* What the bash tool keeps of a command's output (shellCapture in              *)
(* tool/builtin/bash.go): totals, a rolling tail, and a file with everything    *)
(* once the output passes the limits of what is shown.                          *)
EXTENDS ToolText

CONSTANTS
    ShownLines, ShownBytes,   \* defaultMaxLines, defaultMaxBytes
    MaxOutput                 \* characters of output (bound)

ASSUME CaptureAssumption == ShownLines \in Nat \ {0} /\ ShownBytes \in Nat \ {0}

RollingBytes == 2 * ShownBytes     \* bashRollingMaxBytes

VARIABLES
    capture,    \* the shellCapture
    output      \* ghost: everything the command has written

captureVars == <<capture, output>>

EmptyCapture ==
    [tail |-> <<>>, atLine |-> TRUE, bytes |-> 0, completed |-> 0, current |-> 0,
     prefix |-> <<>>, onFile |-> FALSE, file |-> <<>>, failed |-> FALSE]

\* totalLinesLocked
TotalLines(c) == c.completed + (IF c.current > 0 THEN 1 ELSE 0)

\* Is the output more than what is shown (shouldUseTempFileLocked)?
Overflows(c) == c.bytes > ShownBytes \/ TotalLines(c) > ShownLines

\* trimTailLocked: the last RollingBytes stay, and whether they begin a line.
TrimTail(c) ==
    LET start == Len(c.tail) - RollingBytes IN
    IF c.bytes = 0 \/ Len(c.tail) <= 2 * RollingBytes THEN c
    ELSE [c EXCEPT !.tail = SubSeq(c.tail, start + 1, Len(c.tail)),
                   !.atLine = c.tail[start] = NL]

\* appendTailLocked
AppendTail(c, text) ==
    LET ends == {i \in DOMAIN text : text[i] = NL} IN
    TrimTail([c EXCEPT !.tail = @ \o text,
                       !.bytes = @ + Len(text),
                       !.completed = @ + Cardinality(ends),
                       !.current = IF ends = {} THEN @ + Len(text) ELSE Len(text) - Max(ends)])

\* recordPersistErrLocked: the file is given up for good.
GiveUpFile(c) == [c EXCEPT !.failed = TRUE, !.prefix = <<>>, !.onFile = FALSE]

\* ensureTempFileLocked; written says whether the environment's calls succeed.
\* Mutant of EnsureFile: what came before there was need of a file is left out.
EnsureFileFromHere(c, written) ==
    IF c.onFile \/ c.failed THEN c
    ELSE IF ~written THEN GiveUpFile(c)
    ELSE [c EXCEPT !.onFile = TRUE, !.file = <<>>, !.prefix = <<>>]
EnsureFile(c, written) ==
    IF c.onFile \/ c.failed THEN c
    ELSE IF ~written THEN GiveUpFile(c)
    ELSE [c EXCEPT !.onFile = TRUE, !.file = c.prefix, !.prefix = <<>>]

\* appendFullOutputLocked
AppendFullOutput(c, text, written) ==
    LET held == [c EXCEPT !.prefix = @ \o text] IN
    IF c.failed THEN c
    ELSE IF c.onFile
      THEN IF written THEN [c EXCEPT !.file = @ \o text] ELSE GiveUpFile(c)
    ELSE IF Overflows(held) THEN EnsureFile(held, written) ELSE held

\* append, for a text from which control characters are gone
Append1(c, text, written) ==
    IF text = <<>> THEN c ELSE AppendFullOutput(AppendTail(c, text), text, written)

\* snapshotTextLocked: what may be shown of the tail starts with a whole line.
SnapshotText(c) ==
    LET first == Index(c.tail, <<NL>>) IN
    IF c.atLine \/ first = 0 THEN c.tail ELSE SubSeq(c.tail, first + 1, Len(c.tail))

\* formatSnapshot with persistIfTruncated; the marker's text is left out, its
\* numbers are kept.
Snapshot(c) ==
    LET cut == TruncateTail(SnapshotText(c), ShownLines, ShownBytes) IN
    [content |-> IF Overflows(c) THEN cut.content ELSE SnapshotText(c),
     truncated |-> Overflows(c),
     partial |-> Overflows(c) /\ cut.partial,
     totalLines |-> TotalLines(c), totalBytes |-> c.bytes,
     firstLine |-> IF Overflows(c) THEN TotalLines(c) - cut.lines + 1 ELSE 1,
     path |-> Overflows(c) /\ c.onFile]

-------------------------------------------------------------------------------
(* A command that writes, chunk by chunk                                        *)

\* What one callback brings: up to three characters, ends of lines among them
Chunks == UNION {[1..n -> {NL, PLAIN}] : n \in 1..3}

CaptureInit == capture = EmptyCapture /\ output = <<>>

CaptureNext ==
    /\ Len(output) < MaxOutput
    /\ \E text \in Chunks, written \in BOOLEAN :
          /\ capture' = Append1(capture, text, written)
          /\ output' = output \o text

-------------------------------------------------------------------------------
(* Properties                                                                   *)

\* The file a truncated result points to has the whole output, also what came
\* before there was need of a file; a file that could not be written is not named.
FileComplete ==
    /\ capture.onFile => capture.file = output
    /\ Snapshot(capture).path => ~capture.failed

\* The numbers in the truncation notice are those of the whole output, although
\* the capture keeps but a tail of it.
NumbersTrue ==
    LET shown == Snapshot(capture) IN
    /\ shown.totalLines = Len(CountedLines(output)) /\ shown.totalBytes = Len(output)
    /\ shown.truncated = ~Fits(output, ShownLines, ShownBytes)

\* The end of the output that is shown is the one that cutting the whole output
\* would have shown, as long as every line can be shown at all.
TailTrue ==
    LET cut == TruncateTail(output, ShownLines, ShownBytes).content IN
    (\A i \in DOMAIN Lines(output) : Len(Lines(output)[i]) <= ShownBytes) =>
        Snapshot(capture).content \in {cut, cut \o <<NL>>}

\* bash.go:301-520: what the shell tool shows of an output it does not keep.
CaptureTrue ==
    output # <<>> => FileComplete /\ NumbersTrue /\ TailTrue

\* bash.go:62-64 says the output is cut to its last lines or bytes: where those are
\* something, something is shown.
TailSuffices ==
    TruncateTail(output, ShownLines, ShownBytes).content # <<>> => Snapshot(capture).content # <<>>
===============================================================================
