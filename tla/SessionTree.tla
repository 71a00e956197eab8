----------------------------- MODULE SessionTree -----------------------------
(***************************************************************************)
(* What a session promises its callers (Session in session.go), without    *)
(* memory, file, flush or process: a tree of entries that only grows, and  *)
(* a cursor.  Everything is forgotten together while the session is not    *)
(* durable, and nothing ever afterwards.                                   *)
(***************************************************************************)
EXTENDS Naturals

CONSTANTS EntryIds  \* the ids entries can have

VARIABLES nodes,    \* the entries, as [id, parent]
          cursor,   \* the entry the next one goes under, NoId for the root
          durable   \* the session has reached the disk

vars == <<nodes, cursor, durable>>

NoId == 0
Ids == {n.id : n \in nodes}

Init == nodes = {} /\ cursor = NoId /\ durable = FALSE

\* A new entry under the cursor.
Under(id) == /\ id \notin Ids
             /\ nodes' = nodes \cup {[id |-> id, parent |-> cursor]}

Grow(id) == Under(id) /\ cursor' = id

\* Navigation leaves a trace under the old position and moves the cursor to
\* any entry, or to the root; with a summary, the summary is the new position.
Jump(id, t) == Under(id) /\ cursor' = t

JumpWithSummary(id, t, s) ==
    /\ {id, s} \cap Ids = {} /\ id # s
    /\ nodes' = nodes \cup {[id |-> id, parent |-> cursor], [id |-> s, parent |-> t]}
    /\ cursor' = s

\* The first assistant message makes the session durable with all before it.
Change ==
    /\ \E id \in EntryIds :
           \/ Grow(id)
           \/ \E t \in Ids \cup {NoId} :
                  Jump(id, t) \/ \E s \in EntryIds : JumpWithSummary(id, t, s)
    /\ durable' \in {durable, TRUE}

Forget == ~durable /\ nodes' = {} /\ cursor' = NoId /\ UNCHANGED durable

Next == Change \/ Forget

Spec == Init /\ [][Next]_vars
=============================================================================
