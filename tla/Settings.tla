-------------------------------- MODULE Settings --------------------------------
(* The settings manager: two scopes, each with a file and a copy in memory,      *)
(* merged for the readers (config/manager.go, config/config.go).  A settings     *)
(* object is abstracted to the value at each path; paths are one or two keys     *)
(* deep, as deep as mergeSettings looks.  Every operation runs under m.mu, so    *)
(* it is one step; somebody else (an editor, another process) may rewrite a file *)
(* between two of them.                                                          *)
EXTENDS Naturals

CONSTANTS
    Paths,      \* paths of settings
    Options,    \* values
    Unset,      \* no value
    MaxEdits,   \* bound: files rewritten by somebody else
    MaxChanges, \* bound: calls of Set
    MaxSaveErrors   \* bound: writes that fail

ASSUME SettingsAssumption ==
    Unset \notin Options /\ MaxEdits \in Nat /\ MaxChanges \in Nat /\ MaxSaveErrors \in Nat

VARIABLES
    disk,       \* the file of each scope: can it be parsed, and what it says
    memory,     \* m.global, m.project
    merged,     \* m.merged
    loadErr,    \* the scopes whose file failed to load
    errors,     \* has an error been recorded that nobody has drained?
    wanted,     \* what Set was last asked for, since the scope was last loaded
    edits, changes, saveErrors

settingsVars == <<disk, memory, merged, loadErr, errors, wanted, edits, changes, saveErrors>>
settingsBounds == <<edits, changes, saveErrors>>

Scopes == {"global", "project"}
Values == Options \cup {Unset}
Object == [Paths -> Values]
File == [ok : BOOLEAN, data : Object]
NoSettings == [p \in Paths |-> Unset]

\* Mutant of Merge: the global scope comes first.
MergeGlobalFirst(base, overrides) ==
    [p \in Paths |-> IF base[p] # Unset THEN base[p] ELSE overrides[p]]
\* mergeSettings: an object of the project is laid over that of the global
\* scope key by key, anything else replaces it.
Merge(base, overrides) ==
    [p \in Paths |-> IF overrides[p] # Unset THEN overrides[p] ELSE base[p]]

\* NewManager: a file that is missing is empty, one that cannot be parsed
\* leaves its scope empty.
Loaded(file) == IF file.ok THEN file.data ELSE NoSettings

SettingsInit ==
    /\ disk \in [Scopes -> {[ok |-> o, data |-> NoSettings] : o \in BOOLEAN}]
    /\ memory = [s \in Scopes |-> Loaded(disk[s])]
    /\ merged = Merge(memory["global"], memory["project"])
    /\ loadErr = {s \in Scopes : ~disk[s].ok}
    /\ errors = (loadErr # {})
    /\ wanted = [s \in Scopes |-> NoSettings]
    /\ edits = 0 /\ changes = 0 /\ saveErrors = 0

\* setNestedSetting.
With(object, path, value) == [object EXCEPT ![path] = value]

\* Set: first in memory; then, unless the scope failed to load, in the file as
\* it is now, and what was written becomes the memory.  Errors are recorded.
Set(s, path, value) ==
    LET inMemory == [memory EXCEPT ![s] = With(@, path, value)]
        written == With(disk[s].data, path, value)
        Remember(m) == memory' = m /\ merged' = Merge(m["global"], m["project"])
    IN
    /\ changes < MaxChanges
    /\ changes' = changes + 1
    /\ wanted' = [wanted EXCEPT ![s] = With(@, path, value)]
    /\ \/ /\ s \in loadErr
          /\ Remember(inMemory)
          /\ UNCHANGED <<disk, errors, saveErrors>>
       \/ /\ s \notin loadErr /\ ~disk[s].ok
          /\ Remember(inMemory)
          /\ errors' = TRUE
          /\ UNCHANGED <<disk, saveErrors>>
       \/ /\ s \notin loadErr /\ disk[s].ok
          /\ \/ /\ disk' = [disk EXCEPT ![s].data = written]
                /\ Remember([memory EXCEPT ![s] = written])
                /\ UNCHANGED <<errors, saveErrors>>
             \/ /\ saveErrors < MaxSaveErrors
                /\ saveErrors' = saveErrors + 1
                /\ Remember(inMemory)
                /\ errors' = TRUE
                /\ UNCHANGED disk
    /\ UNCHANGED <<loadErr, edits>>

\* Reload: a scope whose file cannot be parsed keeps what it had.
Reload ==
    /\ memory' = [s \in Scopes |-> IF disk[s].ok THEN disk[s].data ELSE memory[s]]
    /\ merged' = Merge(memory'["global"], memory'["project"])
    /\ loadErr' = {s \in Scopes : ~disk[s].ok}
    /\ errors' = (errors \/ loadErr' # {})
    /\ wanted' = [s \in Scopes |-> IF disk[s].ok THEN NoSettings ELSE wanted[s]]
    /\ UNCHANGED <<disk, settingsBounds>>

DrainErrors ==
    /\ errors
    /\ errors' = FALSE
    /\ UNCHANGED <<disk, memory, merged, loadErr, wanted, settingsBounds>>

\* Somebody else rewrites a file: other values, or text that is no JSON.
Edit(s) ==
    /\ edits < MaxEdits
    /\ edits' = edits + 1
    /\ \/ disk' = [disk EXCEPT ![s].ok = ~@]
       \/ \E p \in Paths, v \in Values :
            disk' = [disk EXCEPT ![s] = [ok |-> TRUE, data |-> With(@.data, p, v)]]
    /\ UNCHANGED <<memory, merged, loadErr, errors, wanted, changes, saveErrors>>

SettingsNext ==
    \/ \E s \in Scopes, p \in Paths, v \in Options : Set(s, p, v)
    \/ Reload \/ DrainErrors
    \/ \E s \in Scopes : Edit(s)

SettingsSpec == SettingsInit /\ [][SettingsNext]_settingsVars

-------------------------------------------------------------------------------
SettingsTypeOK ==
    /\ disk \in [Scopes -> File]
    /\ memory \in [Scopes -> Object]
    /\ merged \in Object
    /\ loadErr \subseteq Scopes
    /\ errors \in BOOLEAN
    /\ wanted \in [Scopes -> Object]
    /\ edits \in 0..MaxEdits /\ changes \in 0..MaxChanges
    /\ saveErrors \in 0..MaxSaveErrors

\* What Set was asked for is what its scope says until the scope is loaded
\* again, whoever sets something else in between or rewrites the file; a later
\* Set reads the file, so this needs that no write failed and that nobody
\* else rewrote it.  Readers see the project's value before the global one.
SettingsStay ==
    saveErrors = 0 /\ edits = 0 =>
        \A s \in Scopes, p \in Paths : wanted[s][p] # Unset =>
            /\ memory[s][p] = wanted[s][p]
            /\ s \notin loadErr => disk[s].data[p] = wanted[s][p]
            /\ s = "project" => merged[p] = wanted[s][p]

\* "so a corrupt file is never clobbered" (manager.go:152-154), whether it was
\* corrupt when it was loaded or has become so since; and every step that
\* fails to store a change leaves an error or a load failure to be seen.
CorruptKept ==
    \A s \in Scopes :
        /\ ~disk[s].ok /\ edits' = edits => disk'[s] = disk[s]
        /\ changes' # changes /\ memory'[s] # memory[s] /\ disk'[s] = disk[s]
              /\ memory'[s] # disk[s].data => errors' \/ s \in loadErr'

\* manager.go:100-200: what is set stays set at every step, and none overwrites
\* what cannot be read.
SettingsSafe == [][SettingsStay' /\ CorruptKept]_settingsVars
===============================================================================
