------------------------------- MODULE MCHistory -------------------------------
(* Instances for TLC of what becomes of a session's history: its log, where one   *)
(* process opens it and a write may fail or tear ("faults") or two processes have *)
(* it open and writes succeed ("shared"); the branch that is compacted; and the   *)
(* tree that is moved about in. The last two share no state with the log.         *)
EXTENDS MCSessionStore, Compaction, Navigation

VARIABLE part

historyVars == <<vars, branch, navigationVars, part>>

HistoryInit ==
    /\ Init /\ CompactionInit /\ NavigationInit
    /\ part \in {"faults", "shared", "compaction", "navigation"}

HistoryNext ==
    /\ UNCHANGED part
    /\ \/ /\ part = "faults" /\ Next /\ UNCHANGED <<branch, navigationVars>>
          /\ \A p \in Procs \ {Holder} : ~up'[p]
       \/ /\ part = "shared" /\ Next /\ UNCHANGED <<branch, navigationVars>>
          /\ faults' = 0 /\ \A p \in Procs : Len(entries'[p]) <= 3 \/ disk' = disk
       \/ part = "compaction" /\ CompactionNext /\ UNCHANGED <<vars, navigationVars>>
       \/ part = "navigation" /\ NavigationNext /\ UNCHANGED <<vars, branch>>

HistorySpec == HistoryInit /\ [][HistoryNext]_historyVars

\* What the model was told of a branch is not lost, whether it is compacted or left.
HistoryTold == HistoryKept /\ (part = "navigation" => NavigationTypeOK /\ NavigationKept)

\* The log implements its abstract specification where one process has the session:
\* until a write fails, every step of it is a step of the tree or leaves the tree as
\* it is. In particular the process may stop at any point of the durable life of the
\* session and be opened again on the same tree with the same cursor.
AloneImplementsTree ==
    /\ part = "faults" => Tree!Init
    /\ [][part = "faults" /\ faults' = 0 => [Tree!Next]_(Tree!vars)]_historyVars
=============================================================================
