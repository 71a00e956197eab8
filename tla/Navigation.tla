------------------------------ MODULE Navigation ------------------------------
(* Moving to another place of the session's tree and summarising the branch that  *)
(* is left (internal/harness/navigate.go, Session.MoveTo). A summary is the set   *)
(* of the entries it tells of. Of a hook's own summary nothing is known: it tells *)
(* of itself only.                                                                *)
EXTENDS Integers, Sequences, FiniteSets, FiniteSetsExt

CONSTANTS
    Budget,     \* tokens a branch summary may read: the context window less a reserve
    Costs,      \* tokens of an entry
    MaxTree     \* entries of the tree (bound)

ASSUME NavigationAssumption ==
    /\ Budget \in Nat \ {0} /\ MaxTree \in Nat
    /\ Costs \subseteq Nat /\ \E most \in Costs : \A cost \in Costs : cost <= most

VARIABLES
    tree,       \* the entries in the order they were appended; an id is a place in it
    here,       \* the session's leaf; Root before the first entry
    trip        \* the last NavigateTree: what was asked, what it read and answered

navigationVars == <<tree, here, trip>>

Root == 0
\* "user" is also custom_message, "assistant" also a command of the user's and its
\* output, "setting" every entry that is no message.
Node(type, parent, tokens) ==
    [type |-> type, parent |-> parent, tokens |-> tokens, tells |-> {}]
Summaries == {"compaction", "branch_summary"}
NoTrip == [outcome |-> "none", from |-> Root, target |-> Root, read |-> {}, made |-> FALSE, editor |-> Root]

NavigationInit == tree = <<>> /\ here = Root /\ trip = NoTrip

Nodes == DOMAIN tree
\* GetBranch
OnPath(n) ==
    LET path[k \in 0..Len(tree)] == IF k = Root THEN {} ELSE {k} \cup path[tree[k].parent]
    IN  path[n]

Grows(node) ==
    /\ trip = NoTrip /\ Len(tree) < MaxTree
    /\ tree' = Append(tree, node) /\ here' = Len(tree) + 1
    /\ UNCHANGED trip

\* The session is used: a result follows a call.
Say ==
    \/ Grows(Node("user", here, Min(Costs)))
    \/ \E tokens \in Costs : Grows(Node("assistant", here, tokens))
Return == here # Root /\ tree[here].type = "assistant" /\ Grows(Node("tool", here, Max(Costs)))
Choose == Grows(Node("setting", here, 0))
\* A compaction tells of what is before it (Compaction has what it does).
Compacts ==
    /\ here # Root /\ tree[here].type # "compaction"
    /\ Grows([Node("compaction", here, Max(Costs)) EXCEPT !.tells = OnPath(here)])

-------------------------------------------------------------------------------
(* The entries that are left, and those a summary reads                         *)

\* The deepest entry of both branches; parents come before their children.
Ancestor(old, target) == Max({Root} \cup (OnPath(old) \cap OnPath(target)))

\* collectEntriesForBranchSummary; nothing when there is no old leaf
Left(old, target) == {n \in OnPath(old) : n > Ancestor(old, target)}

\* messageFromEntryForBranchSummary
Readable(n) == tree[n].type \notin {"tool", "setting"}

Tokens(nodes) == MapThenSumSet(LAMBDA n : tree[n].tokens, nodes)

\* Mutant of Fits: the entry itself is not counted.
FitsBefore(newer, n) == Tokens(newer) <= Budget
Fits(newer, n) == Tokens(newer) + tree[n].tokens <= Budget

\* prepareBranchEntries, from the newest on: at the first entry that does not fit
\* it stops; if that is a summary and nine tenths are not used up it is read yet.
PreparedEntries(left) ==
    LET places == {n \in left : Readable(n)}
        newer(n) == {k \in places : k > n}
        stops == {n \in places : ~Fits(newer(n), n)}
    IN  IF stops = {} THEN places
        ELSE LET stop == Max(stops) IN
             newer(stop) \cup
             (IF tree[stop].type \in Summaries /\ Tokens(newer(stop)) * 10 < Budget * 9
              THEN {stop} ELSE {})

\* A summary of summaries tells what they told.
AllTold(read) == read \cup UNION {tree[n].tells : n \in read}

-------------------------------------------------------------------------------
(* NavigateTree                                                                 *)

\* Mutant of NewLeaf: a message of the user stays on the branch.
NewLeafAlways(target) == target
\* Back to a user's message is back to before it: its text goes to the editor.
NewLeaf(target) == IF tree[target].type = "user" THEN tree[target].parent ELSE target
Editor(target) == IF tree[target].type = "user" THEN target ELSE Root

Answers(outcome, target, read, made, editor) ==
    trip' = [outcome |-> outcome, from |-> here, target |-> target, read |-> read,
             made |-> made, editor |-> editor]

\* The leaf itself
GoNowhere(target) ==
    /\ target = here
    /\ Answers("moved", target, {}, FALSE, Root)
    /\ UNCHANGED <<tree, here>>

\* A hook cancels, the summary is aborted, or the model or its key fails.
Refused(target) ==
    /\ target # here
    /\ \/ Answers("cancelled", target, {}, FALSE, Root)
       \/ Left(here, target) # {} /\ Answers("error", target, {}, FALSE, Root)
    /\ UNCHANGED <<tree, here>>

\* MoveTo without a summary: none was asked for, or nothing is left
Moves(target) ==
    /\ target # here
    /\ here' = NewLeaf(target)
    /\ Answers("moved", target, {}, FALSE, Editor(target))
    /\ UNCHANGED tree

\* MoveTo with one, made here or by a hook. The leaf comes first, so that when the
\* summary cannot be appended the session has moved all the same, without it.
MovesSummarised(target, made, appended) ==
    LET left == Left(here, target)
        read == IF made THEN PreparedEntries(left) ELSE {}
    IN  /\ target # here /\ (made => left # {})
        /\ IF appended
           THEN /\ Len(tree) < MaxTree
                /\ tree' = Append(tree, [Node("branch_summary", NewLeaf(target), Max(Costs))
                                             EXCEPT !.tells = AllTold(read)])
                /\ here' = Len(tree) + 1
                /\ Answers("moved", target, read, made, Editor(target))
           ELSE /\ here' = NewLeaf(target)
                /\ Answers("error", target, {}, FALSE, Root)
                /\ UNCHANGED tree

Navigate(target) ==
    \/ GoNowhere(target) \/ Refused(target) \/ Moves(target)
    \/ \E made, appended \in BOOLEAN : MovesSummarised(target, made, appended)

NavigationNext ==
    \/ Say \/ Return \/ Choose \/ Compacts
    \/ trip = NoTrip /\ \E target \in Nodes : Navigate(target)
    \/ trip # NoTrip /\ trip' = NoTrip /\ UNCHANGED <<tree, here>>

NavigationTypeOK ==
    /\ \A n \in Nodes : tree[n].parent \in 0..n - 1 /\ tree[n].tells \subseteq 1..n - 1
    /\ here \in 0..Len(tree)
    /\ trip.outcome \in {"none", "moved", "cancelled", "error"}

-------------------------------------------------------------------------------
(* Properties                                                                   *)

\* What was said on the branch that the model does not see any more, nor the user
\* in the editor
Gone == {n \in OnPath(trip.from) \ OnPath(here) : Readable(n) /\ n # trip.editor}

\* navigate.go:207-242, 348-379: after a move with a summary, all that is gone from
\* the model's view is in the summary, of earlier summaries what they told; what is
\* missing is so because it and everything newer do not fit the summary's request,
\* which they never overflow but for one summary.
LeftIsTold ==
    trip.made =>
        LET told == tree[here].tells IN
        /\ \A n \in Gone \ told :
               Tokens({k \in Gone : k >= n}) > Budget
        /\ \/ Tokens(trip.read) <= Budget
           \/ /\ tree[Min(trip.read)].type \in Summaries
              /\ Tokens(trip.read \ {Min(trip.read)}) * 10 < Budget * 9

\* navigate.go:98-137, session.go:266-305: what a summary has read is not still on
\* the branch it was put on, and the message gone back to is either there, as the
\* last thing before the summary, or in the editor.
ToldOnce ==
    trip.outcome = "moved" =>
        /\ trip.read \cap OnPath(here) = {}
        /\ (trip.editor = Root) <=> (trip.target \in OnPath(here))
        /\ trip.editor # Root => trip.editor = trip.target /\ trip.editor \notin trip.read
        /\ \A n \in OnPath(here) : n > trip.target /\ n \notin OnPath(trip.from) => n = Len(tree)

\* The history a move leaves behind is told, once.
NavigationKept == LeftIsTold /\ ToldOnce
===============================================================================
