------------------------------ MODULE Credentials ------------------------------
(* The credentials file auth.json, its lock file, and the refresh of an       *)
(* expired OAuth token, by the threads of several processes                   *)
(* (auth/resolver.go, auth/store.go).                                         *)
(*                                                                            *)
(* The file holds the OAuth token of one provider (o, by its generation, 0    *)
(* when there is none) and the API key of another (k).  The OAuth server is   *)
(* external: it accepts a refresh token once and answers with the next one.   *)
(* A process may die at any point and leave its lock behind; a lock older     *)
(* than lockStaleAfter is stolen.                                             *)
EXTENDS Naturals

CONSTANTS
    Resolvers,     \* threads that resolve, log in or log out
    Processes,
    ProcessOf,     \* the process of each thread
    Generations,   \* bound: generations of the OAuth token
    Keys,          \* bound: API keys that are ever stored
    LockAttempts,  \* lockAttempts
    MaxAsks,       \* bound: operations that are begun
    MaxCrashes,    \* bound: processes that die
    MaxUnsaved,    \* bound: writes of auth.json that fail
    Stalls         \* may a thread that lives hold a lock for lockStaleAfter?

NoThread == "nobody"

ASSUME CredAssumption ==
    /\ NoThread \notin Resolvers
    /\ ProcessOf \in [Resolvers -> Processes]
    /\ Generations \in Nat \ {0} /\ Keys \in Nat
    /\ LockAttempts \in Nat \ {0} /\ MaxAsks \in Nat
    /\ MaxCrashes \in Nat /\ MaxUnsaved \in Nat
    /\ Stalls \in BOOLEAN

VARIABLES
    lockfile,   \* the file auth.json.lock: who created it, is it stale
    authFile,   \* auth.json; not readable when a write was torn
    at,         \* where each thread is
    job,        \* what it wants the lock for
    tries,      \* its attempts at the lock
    held,       \* the data it works on
    refresher,  \* refreshLocks of each process: the thread that owns it
    issued,     \* the server's newest generation
    live,       \* generations whose access token has not expired
    reused,     \* the server was shown a refresh token a second time
    saved,      \* the last API key whose Set returned nil
    asks, crashes, unsaved

credVars == <<lockfile, authFile, at, job, tries, held, refresher, issued, live,
              reused, saved, asks, crashes, unsaved>>
lockVars == <<lockfile, tries>>
authServerVars == <<issued, live, reused>>
faultVars == <<asks, crashes, unsaved>>

NoLock == [by |-> NoThread, old |-> FALSE]
Data == [ok : BOOLEAN, o : 0..Generations, k : 0..Keys]
EmptyFile == [ok |-> TRUE, o |-> 0, k |-> 0]
Jobs == {"resolve", "refresh", "reread", "login", "logout"}
ResolverPlaces == {"idle", "mutex", "want", "exists", "stale", "in", "refreshing",
           "write", "writing", "release", "failed", "dead"}
\* The lock is held, or at least the thread believes so.
Inside == {"in", "refreshing", "write", "writing", "release", "failed"}

CredInit ==
    /\ lockfile = NoLock
    /\ authFile = [ok |-> TRUE, o |-> 1, k |-> 0]
    /\ at = [t \in Resolvers |-> "idle"]
    /\ job = [t \in Resolvers |-> "resolve"]
    /\ tries = [t \in Resolvers |-> 0]
    /\ held = [t \in Resolvers |-> EmptyFile]
    /\ refresher = [p \in Processes |-> NoThread]
    /\ issued = 1 /\ live = {} /\ reused = FALSE
    /\ saved = 0 /\ asks = 0 /\ crashes = 0 /\ unsaved = 0

Expired(cred) == cred.ok /\ cred.o # 0 /\ cred.o \notin live
Goto(t, place) == at' = [at EXCEPT ![t] = place]

\* Resolve reads the stored credential first; Set and Delete rewrite it.
Ask(t, j) ==
    /\ at[t] = "idle" /\ asks < MaxAsks
    /\ asks' = asks + 1
    /\ Goto(t, "want")
    /\ job' = [job EXCEPT ![t] = j]
    /\ tries' = [tries EXCEPT ![t] = 0]
    /\ UNCHANGED <<lockfile, authFile, held, refresher, authServerVars, saved, crashes, unsaved>>

\* The thread is done; the deferred Unlock of resolveOAuth included.
Done(t) ==
    /\ Goto(t, "idle")
    /\ refresher' = [p \in Processes |->
                        IF refresher[p] = t THEN NoThread ELSE refresher[p]]

\* acquireFileLock: the file is created or is found to exist.
TryLock(t) ==
    /\ at[t] = "want"
    /\ IF lockfile = NoLock
         THEN lockfile' = [by |-> t, old |-> FALSE] /\ Goto(t, "in")
         ELSE Goto(t, "exists") /\ UNCHANGED lockfile
    /\ UNCHANGED <<authFile, job, tries, held, refresher, authServerVars, saved, faultVars>>

\* Mutant of AttemptsLeft: one attempt too many.
AttemptsLeftOneMore(t) == tries[t] + 1 <= LockAttempts
AttemptsLeft(t) == tries[t] + 1 < LockAttempts

\* What a failed attempt leads to: another one, or the error of the operation.
\* For resolve the error is as good as no credential, for the others it is final.
NextAttempt(t) ==
    /\ tries' = [tries EXCEPT ![t] = @ + 1]
    /\ IF AttemptsLeft(t)
         THEN Goto(t, "want") /\ UNCHANGED refresher
         ELSE Done(t)

\* acquireFileLock looks at the age of the lock it did not get; one that has
\* gone meanwhile counts as fresh.
LookAtLock(t) ==
    /\ at[t] = "exists"
    /\ IF lockfile.old
         THEN Goto(t, "stale") /\ UNCHANGED <<tries, refresher>>
         ELSE NextAttempt(t)
    /\ UNCHANGED <<lockfile, authFile, job, held, authServerVars, saved, faultVars>>

\* It removes the path, whichever lock is there by now.
Steal(t) ==
    /\ at[t] = "stale"
    /\ lockfile' = NoLock
    /\ NextAttempt(t)
    /\ UNCHANGED <<authFile, job, held, authServerVars, saved, faultVars>>

\* A context that ends while the lock is awaited; Get waits without one.
GiveUp(t) ==
    /\ at[t] = "exists" /\ job[t] \in {"refresh", "login", "logout"}
    /\ Done(t)
    /\ UNCHANGED <<lockfile, authFile, job, tries, held, authServerVars, saved, faultVars>>

\* Mutant of ToRefresh: the token that was read before the lock was had.
ToRefreshEarlier(file, was) == was.o
\* A credential that is gone meanwhile is refreshed all the same.
ToRefresh(file, was) == IF file.o # 0 THEN file.o ELSE was.o

\* readData, and what each job makes of it: a reader leaves, a refresh goes on
\* if the token it finds now has expired, a writer has its new data.
Read(t) ==
    /\ at[t] = "in"
    /\ LET file == authFile IN
       \/ /\ ~file.ok \/ job[t] \in {"resolve", "reread"}
          /\ held' = [held EXCEPT ![t] = file]
          /\ Goto(t, "release")
       \/ /\ file.ok /\ job[t] = "refresh"
          /\ LET current == ToRefresh(file, held[t]) IN
             /\ held' = [held EXCEPT ![t] = [file EXCEPT !.o = current]]
             /\ Goto(t, IF current \in live THEN "release" ELSE "refreshing")
       \/ /\ file.ok
          /\ \/ job[t] = "login" /\ \E k \in 1..Keys : held' = [held EXCEPT ![t] = [file EXCEPT !.k = k]]
             \/ job[t] = "logout" /\ held' = [held EXCEPT ![t] = [file EXCEPT !.k = 0]]
          /\ Goto(t, "write")
    /\ UNCHANGED <<lockVars, authFile, job, refresher, authServerVars, saved, faultVars>>

\* The server rotates the token, or the request fails: a spent token is refused.
RefreshToken(t) ==
    /\ at[t] = "refreshing"
    /\ \/ /\ held[t].o = issued /\ issued < Generations
          /\ issued' = issued + 1 /\ live' = live \cup {issued + 1}
          /\ held' = [held EXCEPT ![t].o = issued + 1]
          /\ Goto(t, "write")
          /\ UNCHANGED reused
       \/ /\ Goto(t, "failed")
          /\ reused' = (reused \/ held[t].o # issued)
          /\ UNCHANGED <<issued, live, held>>
    /\ UNCHANGED <<lockVars, authFile, job, refresher, saved, faultVars>>

\* os.WriteFile truncates the file before it writes: until then it is empty or
\* a fragment.
BeginWrite(t) ==
    /\ at[t] = "write"
    /\ \/ /\ \E whole \in BOOLEAN : authFile' = [EmptyFile EXCEPT !.ok = whole]
          /\ Goto(t, "writing")
          /\ UNCHANGED unsaved
       \/ /\ unsaved < MaxUnsaved  \* it cannot be opened: nothing has changed
          /\ unsaved' = unsaved + 1
          /\ Goto(t, "release")
          /\ UNCHANGED authFile
    /\ UNCHANGED <<lockVars, job, held, refresher, authServerVars, saved, asks, crashes>>

EndWrite(t) ==
    /\ at[t] = "writing"
    /\ authFile' = held[t]
    /\ saved' = IF job[t] \in {"login", "logout"} THEN held[t].k ELSE saved
    /\ Goto(t, "release")
    /\ UNCHANGED <<lockVars, job, held, refresher, authServerVars, faultVars>>

\* release removes the lock by its path.  Afterwards resolve finds its token
\* fresh, absent or unreadable and is done, or waits to refresh it; a refresh
\* that failed reads the file once more (refreshFailed).
Release(t) ==
    /\ at[t] \in {"release", "failed"}
    /\ lockfile' = NoLock
    /\ \/ /\ job[t] = "resolve" /\ Expired(held[t])
          /\ Goto(t, "mutex")
          /\ UNCHANGED <<job, tries, refresher>>
       \/ /\ at[t] = "failed"
          /\ Goto(t, "want")
          /\ job' = [job EXCEPT ![t] = "reread"]
          /\ tries' = [tries EXCEPT ![t] = 0]
          /\ UNCHANGED refresher
       \/ /\ at[t] = "release" /\ ~(job[t] = "resolve" /\ Expired(held[t]))
          /\ Done(t)
          /\ UNCHANGED <<job, tries>>
    /\ UNCHANGED <<authFile, held, authServerVars, saved, faultVars>>

\* resolveOAuth takes the mutex of its process and provider, then the file lock.
TakeMutex(t) ==
    /\ at[t] = "mutex"
    /\ refresher[ProcessOf[t]] = NoThread
    /\ refresher' = [refresher EXCEPT ![ProcessOf[t]] = t]
    /\ Goto(t, "want")
    /\ job' = [job EXCEPT ![t] = "refresh"]
    /\ tries' = [tries EXCEPT ![t] = 0]
    /\ UNCHANGED <<lockfile, authFile, held, authServerVars, saved, faultVars>>

\* Time passes: an access token expires; a lock grows old once its owner is
\* dead, or while its owner takes more than half a minute.
Expire ==
    /\ live # {} /\ issued < Generations
    /\ live' = {}
    /\ UNCHANGED <<lockVars, authFile, at, job, held, refresher, issued, reused, saved, faultVars>>

Age ==
    /\ lockfile # NoLock /\ ~lockfile.old
    /\ Stalls \/ at[lockfile.by] = "dead"
    /\ lockfile' = [lockfile EXCEPT !.old = TRUE]
    /\ UNCHANGED <<authFile, at, job, tries, held, refresher, authServerVars, saved, faultVars>>

\* A process dies: its threads stop where they are and its locks stay.
Die(p) ==
    /\ crashes < MaxCrashes
    /\ \E t \in Resolvers : ProcessOf[t] = p /\ at[t] \notin {"idle", "dead"}
    /\ crashes' = crashes + 1
    /\ at' = [t \in Resolvers |-> IF ProcessOf[t] = p THEN "dead" ELSE at[t]]
    /\ UNCHANGED <<lockVars, authFile, job, held, refresher, authServerVars, saved, asks, unsaved>>

Step(t) ==
    \/ TryLock(t) \/ LookAtLock(t) \/ Steal(t) \/ GiveUp(t) \/ Read(t)
    \/ RefreshToken(t) \/ BeginWrite(t) \/ EndWrite(t) \/ Release(t) \/ TakeMutex(t)

CredNext ==
    \/ \E t \in Resolvers : Step(t) \/ \E j \in {"resolve", "login", "logout"} : Ask(t, j)
    \/ Expire
    \/ Age
    \/ \E p \in Processes : Die(p)

CredSpec == CredInit /\ [][CredNext]_credVars

-------------------------------------------------------------------------------
CredTypeOK ==
    /\ lockfile \in [by : Resolvers \cup {NoThread}, old : BOOLEAN]
    /\ authFile \in Data
    /\ at \in [Resolvers -> ResolverPlaces]
    /\ job \in [Resolvers -> Jobs]
    /\ tries \in [Resolvers -> 0..LockAttempts]
    /\ held \in [Resolvers -> Data]
    /\ refresher \in [Processes -> Resolvers \cup {NoThread}]
    /\ issued \in 1..Generations /\ live \subseteq 1..Generations
    /\ reused \in BOOLEAN
    /\ saved \in 0..Keys
    /\ asks \in 0..MaxAsks /\ crashes \in 0..MaxCrashes /\ unsaved \in 0..MaxUnsaved

\* While no process has died, no write has failed and nobody stalls, a refresh
\* token that was rotated is never presented again: the lock covers the
\* re-read, the request and the write.
RefreshOnce == crashes = 0 /\ unsaved = 0 /\ ~Stalls => ~reused

\* As long as no process has died and nobody stalls, an API key whose Set
\* returned stays in the file, whatever token is refreshed meanwhile.
KeyKept ==
    crashes = 0 /\ ~Stalls /\ (\A t \in Resolvers : at[t] # "writing")
        => authFile.ok /\ authFile.k = saved

\* The comment in refreshExpiredOAuth (resolver.go:334-337): the lock is held
\* across the request, so that concurrent instances never double-refresh.
NeverDoubleRefresh ==
    \A t, u \in Resolvers : at[t] = "refreshing" /\ at[u] = "refreshing" => t = u

\* resolver.go:330-380, store.go:150-260: what the lock on auth.json is for.
CredentialsSafe == RefreshOnce /\ KeyKept
===============================================================================
