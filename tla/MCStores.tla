------------------------------- MODULE MCStores -------------------------------
(* Instances for TLC of what is shared and kept: the credentials, the settings,   *)
(* the files that tools read and change, the session in use and the catalogue of  *)
(* models. They share no state with one another, so a behaviour of this module is *)
(* one of a single component.                                                     *)
EXTENDS Credentials, Settings, FileMutations, FileText, Switching, Catalogue

CONSTANTS
    r1, r2, r3, p1, p2,             \* resolvers and their processes
    q1, q2, v1, v2,                 \* paths and values of settings
    w1, w2, w3, n1, n2, u1, u2, u3, \* writers, names of a file, queues
    c1, c2, m1, m2,                 \* callers and models
    x1, x2, i1, i2, h1, h2, k1, k2  \* providers, ids, addresses and keys of the catalogue

ThreeResolvers == {r1, r2, r3}
TwoProcesses == {p1, p2}
TwoInOneProcess == [t \in ThreeResolvers |-> IF t = r3 THEN p2 ELSE p1]
TwoPaths == {q1, q2}
TwoOptions == {v1, v2}
ThreeWriters == {w1, w2, w3}
TwoNames == {n1, n2}
ThreeQueues == {u1, u2, u3}
TwoCallers == {c1, c2}
TwoModels == {m1, m2}
TwoVendors == {x1, x2}
TwoIds == {i1, i2}
TwoAddresses == {h1, h2}
TwoTokens == {k1, k2}

\* A provider with two models that are built in; the other has none.
TwoBuiltin == {[vendor |-> x1, id |-> i, address |-> h1, input |-> {"text"}] : i \in TwoIds}

\* What is given for a provider: a key, an address, an override, and lists of models, of
\* which some say neither where they are served nor what they read.
SomeOffers ==
    LET nothing == [address |-> Absent, key |-> Absent, models |-> Absent, overrides |-> Absent]
        def(i, where, input) == [id |-> i, address |-> where, input |-> input]
    IN {[nothing EXCEPT !.key = k1],
        [nothing EXCEPT !.key = k2, !.address = h2],
        [nothing EXCEPT !.overrides = (i1 :> {"text", "image"}) @@ (i2 :> Absent)],
        [nothing EXCEPT !.models = {def(i1, Absent, Absent)}],
        [nothing EXCEPT !.models = {def(i2, h2, {"image"}), def(i1, Absent, Absent)},
                        !.address = h1],
        [nothing EXCEPT !.models = {}]}

\* Bound: the unused queues are alike, and the first of them is taken.
FirstQueue ==
    /\ Unused(u2) /\ ~Unused(u2)' => ~Unused(u1)
    /\ Unused(u3) /\ ~Unused(u3)' => ~Unused(u2)

\* Bound: one thread changes keys, the others refresh beside it.
OneEditor == Cardinality({t \in Resolvers : job'[t] \in {"login", "logout"}}) <= 1

\* Bound: of the choices, the reloads and the further sessions there are two.
TwoOverlaps == sets' + reloads' + Len(sessions') <= 3

VARIABLE part

storesVars == <<credVars, settingsVars, mutationVars, fileTextVars, switchVars, catalogueVars, part>>

StoresInit ==
    /\ part \in {"credentials", "settings", "files", "text", "switching", "catalogue"}
    /\ CredInit /\ SettingsInit /\ MutationInit /\ FileTextInit /\ SwitchInit /\ CatalogueInit
    \* where a component does not move, one of its beginnings is enough
    /\ part # "settings" => \A s \in Scopes : disk[s].ok
    /\ part # "files" => exists /\ \A w \in Writers : tool[w] = "write" /\ name[w] = RealName
    /\ part # "switching" => model = m1

StoresNext ==
    /\ UNCHANGED part
    /\ \/ /\ part = "credentials" /\ CredNext
          /\ crashes' + unsaved' <= 1     \* bound: one fault, of either kind
          /\ OneEditor
          /\ UNCHANGED <<settingsVars, mutationVars, fileTextVars, switchVars, catalogueVars>>
       \/ /\ part = "settings" /\ SettingsNext
          /\ UNCHANGED <<credVars, mutationVars, fileTextVars, switchVars, catalogueVars>>
       \/ /\ part = "files" /\ MutationNext /\ FirstQueue
          /\ UNCHANGED <<credVars, settingsVars, fileTextVars, switchVars, catalogueVars>>
       \/ /\ part = "switching" /\ SwitchNext /\ TwoOverlaps
          /\ UNCHANGED <<credVars, settingsVars, mutationVars, fileTextVars, catalogueVars>>
       \/ /\ part = "text" /\ FileTextNext
          /\ UNCHANGED <<credVars, settingsVars, mutationVars, switchVars, catalogueVars>>
       \/ /\ part = "catalogue" /\ CatalogueNext
          /\ UNCHANGED <<credVars, settingsVars, mutationVars, fileTextVars, switchVars>>

StoresSpec == StoresInit /\ [][StoresNext]_storesVars

\* Every variable of every component has its type.
StoresTypeOK ==
    /\ part = "credentials" => CredTypeOK
    /\ part = "settings" => SettingsTypeOK
    /\ part = "files" => MutationTypeOK
    /\ part = "switching" => SwitchTypeOK
    /\ part = "catalogue" => CatalogueTypeOK

\* What is read is what is there: the pages and the changes of a file (FileText), and the
\* catalogue of models (Catalogue).
ToldTrue == TextTold /\ CatalogueTrue
===============================================================================
