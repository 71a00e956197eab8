----------------------------- MODULE FileMutations -----------------------------
(* The tools that change files take turns per physical file: the reference     *)
(* counted queues of tool/builtin/mutation_queue.go and what edit and write do *)
(* while they hold one (edit.go, write.go).  One physical file is modelled,    *)
(* reached by several names, the one of the file itself and those that lead    *)
(* through a symbolic link.                                                    *)
EXTENDS Naturals, FiniteSets

CONSTANTS
    Writers,    \* calls of edit and write
    Names,      \* paths that reach the file
    RealName,   \* the one that EvalSymlinks returns
    Queues,     \* queue objects that may be allocated
    MaxFailures \* bound: writes that fail

NoQueue == "no queue"
NoWriter == "no writer"
NoName == "no name"

ASSUME MutationAssumption ==
    /\ RealName \in Names /\ MaxFailures \in Nat
    /\ NoQueue \notin Queues /\ NoWriter \notin Writers /\ NoName \notin Names

VARIABLES
    step,       \* where each call is
    tool,       \* "edit" or "write"
    name,       \* the path each was given
    key,        \* the key it computed from it
    queue,      \* the queue it has a reference to
    queues,     \* fileMutationQueues.queues
    refs,       \* references of each queue object
    owner,      \* who holds its mutex
    exists,     \* is the file there
    content,    \* the calls whose text is in the file
    readBy,     \* what each edit has read
    mutationFailures

mutationVars == <<step, tool, name, key, queue, queues, refs, owner, exists, content,
                  readBy, mutationFailures>>
queueVars == <<key, queue, queues, refs, owner>>
contentVars == <<exists, content, readBy, mutationFailures>>

WriterSteps == {"start", "keyed", "waiting", "inside", "changed", "unlocked", "done", "failed"}

MutationInit ==
    /\ step = [w \in Writers |-> "start"]
    /\ tool \in [Writers -> {"edit", "write"}]
    /\ name \in [Writers -> Names]
    /\ key = [w \in Writers |-> NoName]
    /\ queue = [w \in Writers |-> NoQueue]
    /\ queues = [n \in Names |-> NoQueue]
    /\ refs = [q \in Queues |-> 0]
    /\ owner = [q \in Queues |-> NoWriter]
    /\ exists \in BOOLEAN
    /\ content = {}
    /\ readBy = [w \in Writers |-> {}]
    /\ mutationFailures = 0

Advance(w, s) == step' = [step EXCEPT ![w] = s]

\* mutationQueueKey: symbolic links are resolved only if the file exists.
ComputeKey(w) ==
    /\ step[w] = "start"
    /\ key' = [key EXCEPT ![w] = IF exists THEN RealName ELSE name[w]]
    /\ Advance(w, "keyed")
    /\ UNCHANGED <<tool, name, queue, queues, refs, owner, contentVars>>

\* Queue objects that nobody refers to: garbage, or not yet allocated.
Unused(q) == refs[q] = 0 /\ \A n \in Names : queues[n] # q

\* withFileMutationQueue, under the lock of the table: the queue of the key is
\* found or made, and counted.
Register(w) ==
    /\ step[w] = "keyed"
    /\ \E q \in Queues :
          /\ IF queues[key[w]] # NoQueue THEN q = queues[key[w]] ELSE Unused(q)
          /\ queues' = [queues EXCEPT ![key[w]] = q]
          /\ refs' = [refs EXCEPT ![q] = @ + 1]
          /\ queue' = [queue EXCEPT ![w] = q]
    /\ Advance(w, "waiting")
    /\ UNCHANGED <<tool, name, key, owner, contentVars>>

LockQueue(w) ==
    /\ step[w] = "waiting"
    /\ owner[queue[w]] = NoWriter
    /\ owner' = [owner EXCEPT ![queue[w]] = w]
    /\ Advance(w, "inside")
    /\ UNCHANGED <<tool, name, key, queue, queues, refs, contentVars>>

\* executeEdit reads the file and computes the new text from what it read; it
\* fails if there is no file (or the text does not match).
ReadForEdit(w) ==
    /\ step[w] = "inside" /\ tool[w] = "edit"
    /\ readBy' = [readBy EXCEPT ![w] = content]
    /\ Advance(w, IF exists THEN "changed" ELSE "failed")
    /\ UNCHANGED <<tool, name, queueVars, exists, content, mutationFailures>>

\* executeWrite needs nothing of the old text.
ComposeWrite(w) ==
    /\ step[w] = "inside" /\ tool[w] = "write"
    /\ Advance(w, "changed")
    /\ UNCHANGED <<tool, name, queueVars, contentVars>>

\* env.WriteFile makes the file if need be, or fails.
StoreText(w) ==
    /\ step[w] = "changed"
    /\ \/ /\ exists' = TRUE
          /\ content' = (IF tool[w] = "edit" THEN readBy[w] ELSE {}) \cup {w}
          /\ Advance(w, "unlocked")
          /\ UNCHANGED mutationFailures
       \/ /\ mutationFailures < MaxFailures
          /\ mutationFailures' = mutationFailures + 1
          /\ Advance(w, "failed")
          /\ UNCHANGED <<exists, content>>
    /\ UNCHANGED <<tool, name, queueVars, readBy>>

\* releaseFileMutationQueue: the mutex is released first ...
UnlockQueue(w) ==
    /\ step[w] \in {"unlocked", "failed"} /\ queue[w] # NoQueue
    /\ owner[queue[w]] = w
    /\ owner' = [owner EXCEPT ![queue[w]] = NoWriter]
    /\ UNCHANGED <<step, tool, name, key, queue, queues, refs, contentVars>>

\* Mutant of LastReference: whoever leaves takes the queue from the table.
LastReferenceAny(w) == TRUE
LastReference(w) == refs[queue[w]] = 1

\* ... then, under the lock of the table, the reference; the queue leaves the
\* table with its last one.
Unregister(w) ==
    /\ step[w] \in {"unlocked", "failed"} /\ queue[w] # NoQueue
    /\ owner[queue[w]] # w
    /\ refs' = [refs EXCEPT ![queue[w]] = @ - 1]
    /\ queues' = IF LastReference(w) /\ queues[key[w]] = queue[w]
                   THEN [queues EXCEPT ![key[w]] = NoQueue] ELSE queues
    /\ queue' = [queue EXCEPT ![w] = NoQueue]
    /\ Advance(w, IF step[w] = "failed" THEN "failed" ELSE "done")
    /\ UNCHANGED <<tool, name, key, owner, contentVars>>

MutationNext ==
    \E w \in Writers :
        \/ ComputeKey(w) \/ Register(w) \/ LockQueue(w)
        \/ ReadForEdit(w) \/ ComposeWrite(w) \/ StoreText(w)
        \/ UnlockQueue(w) \/ Unregister(w)

MutationSpec == MutationInit /\ [][MutationNext]_mutationVars

-------------------------------------------------------------------------------
MutationTypeOK ==
    /\ step \in [Writers -> WriterSteps]
    /\ tool \in [Writers -> {"edit", "write"}]
    /\ name \in [Writers -> Names]
    /\ key \in [Writers -> Names \cup {NoName}]
    /\ queue \in [Writers -> Queues \cup {NoQueue}]
    /\ queues \in [Names -> Queues \cup {NoQueue}]
    /\ refs \in [Queues -> Nat]
    /\ owner \in [Queues -> Writers \cup {NoWriter}]
    /\ exists \in BOOLEAN
    /\ content \subseteq Writers
    /\ readBy \in [Writers -> SUBSET Writers]
    /\ mutationFailures \in 0..MaxFailures

Changing(w) == step[w] \in {"inside", "changed"}

\* Two calls with one key never change the file at the same time, although
\* queues are deleted and made again under the feet of those who wait.
OneWriterPerKey ==
    \A v, w \in Writers :
        Changing(v) /\ Changing(w) /\ key[v] = key[w] => v = w

\* A call that has reported success is in the file, unless a write came later;
\* so an edit never loses what another edit did.  This needs that the calls
\* have one key, which they have if the file was there from the beginning.
EditsNotLost ==
    (\A v, w \in Writers : key[v] # NoName /\ key[w] # NoName => key[v] = key[w]) =>
        \A w \in Writers : step[w] \in {"unlocked", "done"} =>
            \/ w \in content
            \/ \E v \in Writers : v # w /\ tool[v] = "write" /\ step[v] \in {"unlocked", "done"}

\* The comment of withFileMutationQueue (mutation_queue.go:22-25): operations on
\* one physical file are serialised, whatever links its paths go through.
OneWriterPerFile ==
    \A v, w \in Writers : Changing(v) /\ Changing(w) => v = w

\* mutation_queue.go:27-80: what the queues of the file tools are for.
FilesSafe == OneWriterPerKey /\ EditsNotLost
===============================================================================
