--------------------------- MODULE SessionStoreTree ---------------------------
(***************************************************************************)
(* The tree that a process which has the session log to itself shows its   *)
(* callers.  Deferred flush, exit and reopening are invisible in it once   *)
(* the first assistant message has been written.                           *)
(***************************************************************************)
EXTENDS SessionStore

CONSTANT Holder   \* the one process that opens the session

ASSUME HolderAssumption == Holder \in Procs

\* What a caller finds: the memory of the holder, or what reopening restores.
Log == IF up[Holder] THEN entries[Holder] ELSE disk.lines

LogNodes ==
    {[id |-> Log[i].id, parent |-> Log[i].parent] : i \in {j \in 1..Len(Log) : IsEntry(Log[j])}}

LogCursor == IF up[Holder] THEN leaf[Holder] ELSE RecoveredLeaf(disk.lines)

Tree == INSTANCE SessionTree WITH
            EntryIds <- 1..(MaxWindow + MaxUuids),
            nodes <- LogNodes, cursor <- LogCursor, durable <- disk.header
=============================================================================
