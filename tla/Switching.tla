------------------------------- MODULE Switching -------------------------------
(* Changing the session, or the whole runtime, under a running orchestrator      *)
(* (orchestrator/session_runtime.go, ReloadSettings, session/repo.go) while      *)
(* others prompt and set the model: each reads the state, calls hooks, reads     *)
(* files or makes a session without the lock, and installs what came of it.      *)
(*                                                                              *)
(* A session is the sequence of its branch. Its file exists from its first      *)
(* answer on (SessionStore has the deferred flush). Hooks answer at will.       *)
EXTENDS Integers, Sequences, FiniteSets, SequencesExt

CONSTANTS
    Callers,        \* goroutines that serve a request
    Models,         \* models of the catalogue
    MaxSessions,    \* sessions ever made (bound)
    MaxAppends,     \* entries of one session (bound)
    MaxSets,        \* calls of SetModel (bound)
    MaxReloads      \* calls of ReloadSettings (bound)

ASSUME SwitchingAssumption ==
    MaxSessions \in Nat /\ MaxAppends \in Nat /\ MaxSets \in Nat /\ MaxReloads \in Nat

VARIABLES
    sessions,   \* the branch of each session
    phase,      \* "idle" or "turn": o.phase
    session,    \* o.session
    model,      \* o.model
    hooks,      \* o.hooks: whose event handlers it has
    harness,    \* o.harness: its session and its hooks
    waiting,    \* o.pendingWrites
    calls,      \* what each caller is doing
    sets,       \* calls of SetModel so far
    reloads,    \* calls of ReloadSettings so far
    mixed,      \* a change of the model was overtaken by a switch or a reload
    crossed     \* the reload that made the harness was overtaken by a switch

switchVars ==
    <<sessions, phase, session, model, hooks, harness, waiting, calls, sets, reloads, mixed, crossed>>

Said(role) == [kind |-> role, model |-> "none"]
Chose(m) == [kind |-> "model", model |-> m]

OnDisk(branch) == \E i \in DOMAIN branch : branch[i].kind = "assistant"

\* recoverSessionState: the last choice of the branch, if there is one.
Recovered(branch, otherwise) ==
    LET at == {i \in DOMAIN branch : branch[i].kind = "model"} IN
    IF at = {} THEN otherwise ELSE branch[Max(at)].model

\* registerEventHandlers: the handlers of a registry act on the Orchestrator that
\* assembled it, the one in use ("own") or the one a reload throws away ("fresh").
Registries == {"own", "fresh"}
HarnessOn(s, registry) == [on |-> s, hooks |-> registry]

NoSwitch == [step |-> "none", op |-> "none", from |-> 0, at |-> 0,
             to |-> 0, model |-> "none", hooks |-> "own", left |-> 0]
CallGoes(c, next) == calls' = [calls EXCEPT ![c] = next]
Returns(c) == CallGoes(c, NoSwitch)
CallAt(c, step) == calls[c].step = step
Idle == phase = "idle"

\* assemble
SwitchInit ==
    /\ sessions = <<<<>>>>
    /\ phase = "idle" /\ session = 1
    /\ hooks = "own" /\ harness = HarnessOn(1, "own")
    /\ model \in Models
    /\ waiting = <<>>
    /\ calls = [c \in Callers |-> NoSwitch]
    /\ sets = 0 /\ reloads = 0 /\ mixed = FALSE /\ crossed = FALSE

-------------------------------------------------------------------------------
(* Switching. A busy orchestrator answers "cancelled" and changes nothing.      *)

\* sessionRuntimeSnapshot; Clone also reads the leaf of the branch here. Fork is
\* given an entry, and from is the session as it is now.
SnapshotRuntime(c, op) ==
    /\ CallAt(c, "none") /\ Idle
    /\ \E at \in 0..Len(sessions[session]) :
          /\ op \in {"new", "switch"} => at = 0
          /\ op = "clone" => at = Len(sessions[session]) /\ at > 0
          /\ op = "fork" => at > 0
          /\ CallGoes(c, [NoSwitch EXCEPT !.step = "make", !.op = op, !.at = at,
                          !.from = IF at = 0 THEN 0 ELSE session])
    /\ UNCHANGED <<sessions, phase, session, model, hooks, harness, waiting, sets, reloads, mixed, crossed>>

Rebinds(c, to) == CallGoes(c, [NoSwitch EXCEPT !.step = "rebind", !.op = calls[c].op, !.to = to])

Made(c, branch) ==
    /\ Len(sessions) < MaxSessions
    /\ sessions' = Append(sessions, branch)
    /\ Rebinds(c, Len(sessions) + 1)

\* repo.Create
Create(c) == calls[c].op = "new" /\ Made(c, <<>>)

\* repo.Open: any session that has a file
Open(c) ==
    /\ calls[c].op = "switch"
    /\ \E s \in DOMAIN sessions : OnDisk(sessions[s]) /\ Rebinds(c, s)
    /\ UNCHANGED sessions

\* selectedForkText and getEntriesToFork: Fork takes what is before a user message.
ForkEnd(c) == IF calls[c].op = "clone" THEN calls[c].at ELSE calls[c].at - 1
Forkable(c) ==
    LET branch == sessions[calls[c].from] IN
    /\ OnDisk(branch)
    /\ calls[c].op = "fork" => branch[calls[c].at].kind = "user"

\* repo.Fork reads the file of the session the call began with; a hook may ask for
\* a fork without the conversation.
CopyBranch(c) ==
    /\ calls[c].op \in {"fork", "clone"}
    /\ Forkable(c)
    /\ \E skip \in BOOLEAN :
           Made(c, IF skip THEN <<>> ELSE SubSeq(sessions[calls[c].from], 1, ForkEnd(c)))

\* A hook of session_before_switch or session_before_fork fails or cancels, or the
\* repository fails.
MakeFails(c) == Returns(c) /\ UNCHANGED sessions

\* emitSessionBeforeSwitch or emitSessionBeforeFork, then the repository
Make(c) ==
    /\ CallAt(c, "make")
    /\ Create(c) \/ Open(c) \/ CopyBranch(c) \/ MakeFails(c)
    /\ UNCHANGED <<phase, session, model, hooks, harness, waiting, sets, reloads, mixed, crossed>>

\* rebindSession up to its first unlock, and recoverSessionState: a new session
\* keeps the model in use, as it is now. The harness is made here.
ReadState(c) ==
    /\ CallAt(c, "rebind")
    /\ IF Idle
       THEN CallGoes(c, [NoSwitch EXCEPT !.step = "swap", !.to = calls[c].to, !.hooks = hooks,
                        !.model = IF calls[c].op = "new" THEN model
                                  ELSE Recovered(sessions[calls[c].to], model)])
       ELSE Returns(c)
    /\ UNCHANGED <<sessions, phase, session, model, hooks, harness, waiting, sets, reloads, mixed, crossed>>

\* Mutant of MaySwap: only the first look at the phase counts.
MaySwapUnchecked == TRUE
\* rebindSession looks at the phase again when it has the lock again.
MaySwap == Idle

\* After the hooks of session_shutdown, one of which may fail, the second locked
\* part of rebindSession: everything at once. (It also empties the queues of
\* messages, which RunControl has.)
Swap(c) ==
    /\ CallAt(c, "swap") /\ Returns(c)
    /\ \/ /\ MaySwap
          /\ session' = calls[c].to
          /\ model' = calls[c].model
          /\ harness' = HarnessOn(calls[c].to, calls[c].hooks)
          /\ waiting' = <<>> /\ crossed' = FALSE
       \/ UNCHANGED <<session, model, harness, waiting, crossed>>
    /\ UNCHANGED <<sessions, phase, hooks, sets, reloads, mixed>>

-------------------------------------------------------------------------------
(* ReloadSettings                                                               *)

\* What it reads under the lock
SnapshotReload(c) ==
    /\ CallAt(c, "none") /\ Idle /\ reloads < MaxReloads
    /\ reloads' = reloads + 1
    /\ CallGoes(c, [NoSwitch EXCEPT !.step = "assemble", !.from = session, !.model = model])
    /\ UNCHANGED <<sessions, phase, session, model, hooks, harness, waiting, sets, mixed, crossed>>

\* A fresh Orchestrator is assembled for the session that was read, with settings
\* and resources as they are by then; any of that may fail, and hooks are called.
\* Then its parts, not its session, become the ones in use.
Install(c) ==
    /\ CallAt(c, "assemble") /\ Returns(c)
    /\ \/ /\ Idle
          /\ harness' = HarnessOn(calls[c].from, "fresh")
          /\ hooks' = "fresh"
          /\ model' = calls[c].model
          /\ mixed' = (mixed \/ model # calls[c].model \/ session # calls[c].from)
          /\ crossed' = (session # calls[c].from)
       \/ UNCHANGED <<harness, hooks, model, mixed, crossed>>
    /\ UNCHANGED <<sessions, phase, session, waiting, sets, reloads>>

-------------------------------------------------------------------------------
(* The others (orchestrator.go; RunControl has their whole handlers).           *)

\* Some rebindSession has read the state and not yet replaced it.
Rebinding == \E c \in Callers : CallAt(c, "swap")

\* setModel: in a run the record waits, otherwise it follows without the lock.
SetModel(c, m) ==
    /\ CallAt(c, "none") /\ sets < MaxSets
    /\ sets' = sets + 1
    /\ model' = m
    /\ IF Idle
       THEN CallGoes(c, [NoSwitch EXCEPT !.step = "record", !.model = m, !.from = session])
            /\ UNCHANGED waiting
       ELSE waiting' = Append(waiting, m) /\ UNCHANGED calls
    /\ mixed' = (mixed \/ Rebinding)
    /\ UNCHANGED <<sessions, phase, session, hooks, harness, reloads, crossed>>

\* o.session.AppendModelChange: whichever session is in use by then
RecordModel(c) ==
    /\ CallAt(c, "record")
    /\ Len(sessions[session]) < MaxAppends
    /\ sessions' = [sessions EXCEPT ![session] = Append(@, Chose(calls[c].model))]
    /\ mixed' = (mixed \/ Rebinding \/ session # calls[c].from \/ model # calls[c].model)
    /\ Returns(c)
    /\ UNCHANGED <<phase, session, model, hooks, harness, waiting, sets, reloads, crossed>>

\* beginRun, and o.harness as the run calls it: what it runs in from then on
BeginRun(c) ==
    /\ CallAt(c, "none") /\ Idle
    /\ phase' = "turn" /\ waiting' = <<>>
    /\ CallGoes(c, [NoSwitch EXCEPT !.step = "run", !.to = harness.on, !.hooks = harness.hooks])
    /\ UNCHANGED <<sessions, session, model, hooks, harness, sets, reloads, mixed, crossed>>

\* The harness stores messages in the session it was made for.
RunAppends(c) ==
    /\ calls[c].step \in {"run", "between"} /\ Len(sessions[calls[c].to]) < MaxAppends
    /\ \E role \in {"user", "assistant"} :
          sessions' = [sessions EXCEPT ![calls[c].to] = Append(@, Said(role))]
    /\ CallGoes(c, [calls[c] EXCEPT !.step = "run", !.left = 0])
    /\ UNCHANGED <<phase, session, model, hooks, harness, waiting, sets, reloads, mixed, crossed>>

\* flushPendingWrites, under the lock, to the orchestrator's session
FlushAll ==
    /\ Len(sessions[session]) + Len(waiting) <= MaxAppends
    /\ sessions' = [sessions EXCEPT ![session] = @ \o [i \in DOMAIN waiting |-> Chose(waiting[i])]]
    /\ waiting' = <<>>
    /\ mixed' = (mixed \/ (waiting # <<>> /\ Rebinding))

\* The handlers of turn_end: those of another Orchestrator flush its own writes,
\* of which it has none.
TurnEnd(c) ==
    /\ CallAt(c, "run")
    /\ IF calls[c].hooks = "own" THEN FlushAll ELSE UNCHANGED <<sessions, waiting, mixed>>
    /\ CallGoes(c, [calls[c] EXCEPT !.step = "between", !.left = Len(waiting')])
    /\ UNCHANGED <<phase, session, model, hooks, harness, sets, reloads, crossed>>

\* The last flush and finishRun, in any place a run may end
EndRun(c) ==
    /\ calls[c].step \in {"run", "between"}
    /\ FlushAll
    /\ phase' = "idle"
    /\ Returns(c)
    /\ UNCHANGED <<session, model, hooks, harness, sets, reloads, crossed>>

SwitchNext ==
    \E c \in Callers :
       \/ \E op \in {"new", "switch", "fork", "clone"} : SnapshotRuntime(c, op)
       \/ Make(c) \/ ReadState(c) \/ Swap(c) \/ SnapshotReload(c) \/ Install(c)
       \/ \E m \in Models : SetModel(c, m)
       \/ RecordModel(c) \/ BeginRun(c) \/ RunAppends(c) \/ TurnEnd(c) \/ EndRun(c)

SwitchSpec == SwitchInit /\ [][SwitchNext]_switchVars

-------------------------------------------------------------------------------

Steps == {"none", "make", "rebind", "swap", "assemble", "record", "run", "between"}

\* Every variable has its type, and the session in use exists.
SwitchTypeOK ==
    /\ session \in DOMAIN sessions
    /\ harness \in [on : DOMAIN sessions, hooks : Registries] /\ hooks \in Registries
    /\ phase \in {"idle", "turn"}
    /\ model \in Models
    /\ waiting \in Seq(Models)
    /\ \A c \in Callers : calls[c].step \in Steps
    /\ sets \in 0..MaxSets /\ reloads \in 0..MaxReloads
    /\ mixed \in BOOLEAN /\ crossed \in BOOLEAN

\* A run stays on the session it began with: what its harness stores and what the
\* orchestrator flushes for it go to the same file, whoever switches meanwhile. (A
\* reload whose session was switched away installs a harness on the old one.)
Running(c) == calls[c].step \in {"run", "between"}
RunKeepsSession == \A c \in Callers : Running(c) /\ ~crossed => calls[c].to = session

\* A session that is opened again comes back with the model last used in it: what
\* its branch records is what is in use, as long as no change is on its way. Three
\* overlaps lose a change, and mixed marks them: one made or recorded while rebindSession
\* runs its hooks, one whose record follows the switch, and one made or recovered
\* while ReloadSettings assembles with the model it has read.
SessionRecovers ==
    \/ mixed \/ waiting # <<>>
    \/ \E c \in Callers : CallAt(c, "record")
    \/ Recovered(sessions[session], model) = model

\* session_runtime.go: what a switch outside a run must not break.
SwitchingSafe == RunKeepsSession /\ SessionRecovers

\* events.go:61-67: changes of settings made in a turn are flushed when it ends,
\* not left to the end of the run, where an interrupted run would lose them.
TurnFlushes == \A c \in Callers : CallAt(c, "between") => calls[c].left = 0
===============================================================================
