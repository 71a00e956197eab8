------------------------------- MODULE Catalogue -------------------------------
(* The catalogue of models (provider/registry.go): the built-in models, laid over *)
(* by models.json and then by the providers that extensions register.  Where a    *)
(* model is served and by which interface (its base URL and its api, which are    *)
(* looked up along the same chain) is its address; of the fields that an          *)
(* override replaces the input capabilities are kept, and of what a request is    *)
(* made with the API key.  The steps of build take the providers one after the    *)
(* other in the order of their names; a step touches the models and the key of    *)
(* its own provider only, so that they are done here for all providers at once.   *)
EXTENDS Naturals

CONSTANTS
    Vendors,    \* names of providers
    Ids,        \* names of models
    Addresses, Tokens,
    Absent,     \* a field that is not given (nil)
    Builtin,    \* the built-in models
    Offers,     \* bound: what is given for one provider
    MaxOffers   \* bound: calls that change the catalogue

Capabilities == {"text", "image"}
Inputs == SUBSET Capabilities
Definitions == [id : Ids, address : Addresses \cup {Absent}, input : Inputs \cup {Absent}]
Overrides == UNION {[named -> Inputs \cup {Absent}] : named \in SUBSET Ids}
Configs == [address : Addresses \cup {Absent}, key : Tokens \cup {Absent},
            models : (SUBSET Definitions) \cup {Absent}, overrides : Overrides \cup {Absent}]
ListedModels == [vendor : Vendors, id : Ids, address : Addresses, input : Inputs]

ASSUME CatalogueAssumption ==
    /\ Builtin \subseteq ListedModels
    /\ \A offer \in Offers : offer \in Configs
    /\ Absent \notin Addresses \cup Tokens
    /\ MaxOffers \in Nat

VARIABLES
    config,     \* r.config, of every provider
    registered, \* r.registered, of every provider
    models,     \* r.models
    keys,       \* r.requestConfigs: the key of every provider
    buildErr,    \* r.loadErr # nil
    given,      \* the key that was last registered, since the catalogue was cloned
    offers

catalogueVars == <<config, registered, models, keys, buildErr, given, offers>>

NoConfig == [address |-> Absent, key |-> Absent, models |-> Absent, overrides |-> Absent]
NoConfigs == [v \in Vendors |-> NoConfig]
NoKeys == [v \in Vendors |-> Absent]

Given(field, default) == IF field # Absent THEN field ELSE default

\* builtInDefaults: of the built-in models of a provider the first.
DefaultAddress(v) ==
    IF \E m \in Builtin : m.vendor = v THEN (CHOOSE m \in Builtin : m.vendor = v).address
                                       ELSE Absent

Address(v, cfg, def) == Given(def.address, Given(cfg.address, DefaultAddress(v)))

\* buildCustomModel: a model needs an address; one that does not say reads text.
Custom(v, cfg, def) == [vendor |-> v, id |-> def.id, address |-> Address(v, cfg, def),
                        input |-> Given(def.input, {"text"})]

\* applyProviderOverride and applyModelOverride.
Overridden(m, cfg) ==
    [vendor |-> m.vendor, id |-> m.id, address |-> Given(cfg.address, m.address),
     input |-> IF cfg.overrides # Absent /\ m.id \in DOMAIN cfg.overrides
               THEN Given(cfg.overrides[m.id], m.input) ELSE m.input]

\* applyProviderConfig: the models a provider lists replace those it had; one that
\* lists none changes what is there.
Lists(cfg) == cfg.models \notin {Absent, {}}
Fails(cfgs) == \E v \in Vendors : Lists(cfgs[v]) /\
                   \E def \in cfgs[v].models : Address(v, cfgs[v], def) = Absent
Applied(ms, cfgs) ==
    {Overridden(m, cfgs[m.vendor]) : m \in {k \in ms : ~Lists(cfgs[k.vendor])}} \cup
    UNION {{Custom(v, cfgs[v], def) : def \in cfgs[v].models} :
             v \in {u \in Vendors : Lists(cfgs[u])}}

\* storeRequestConfig.
Keyed(ks, cfgs) == [v \in Vendors |-> Given(cfgs[v].key, ks[v])]

\* build: models.json over what is built in, the registered providers over that.
BuildFails(c, r) == Fails(c) \/ Fails(r)
BuildModels(c, r) == Applied(Applied(Builtin, c), r)
BuildKeys(c, r) == Keyed(Keyed(NoKeys, c), r)

\* copyProviderConfig: input capabilities that are not given come out as none.
Known(input) == Given(input, {})
Copied(cfg) ==
    [address |-> cfg.address, key |-> cfg.key,
     models |-> IF cfg.models = Absent THEN Absent
                ELSE {[def EXCEPT !.input = Known(def.input)] : def \in cfg.models},
     overrides |-> IF cfg.overrides = Absent THEN Absent
                   ELSE [id \in DOMAIN cfg.overrides |-> Known(cfg.overrides[id])]]

\* adaptProviderDefinition, on the way from an extension: it is the other way round.
Unknown(input) == IF input = {} THEN Absent ELSE input
Adapted(cfg) ==
    [address |-> cfg.address, key |-> cfg.key,
     models |-> IF cfg.models = Absent THEN Absent
                ELSE {[def EXCEPT !.input = Unknown(def.input)] : def \in cfg.models},
     overrides |-> IF cfg.overrides = Absent THEN Absent
                   ELSE [id \in DOMAIN cfg.overrides |-> Unknown(cfg.overrides[id])]]

\* Mutant of Merged: a provider that is registered again is what it says now.
MergedAnew(old, new) == new

\* mergeProviderConfig.
Merged(old, new) ==
    [address |-> Given(new.address, old.address), key |-> Given(new.key, old.key),
     models |-> Given(new.models, old.models), overrides |-> Given(new.overrides, old.overrides)]

CatalogueInit ==
    /\ config = NoConfigs /\ registered = NoConfigs
    /\ models = Builtin /\ keys = NoKeys /\ buildErr = FALSE
    /\ given = NoKeys /\ offers = 0

\* ApplyConfig with registered providers r: a configuration that cannot be built is
\* kept, and the catalogue is that of the built-in models.
Applying(c, r) ==
    /\ config' = c /\ registered' = r
    /\ buildErr' = BuildFails(c, r)
    /\ models' = IF BuildFails(c, r) THEN Builtin ELSE BuildModels(c, r)
    /\ keys' = IF BuildFails(c, r) THEN NoKeys ELSE BuildKeys(c, r)

Offer == offers < MaxOffers /\ offers' = offers + 1

\* Bound: models.json says something of one provider.
ApplyConfig(v, offer) ==
    /\ Offer
    /\ Applying([NoConfigs EXCEPT ![v] = offer], registered)
    /\ UNCHANGED given

\* The providers that are registered become r, unless they cannot be built.
Registering(r) ==
    /\ ~BuildFails(config, r)
    /\ registered' = r
    /\ models' = BuildModels(config, r) /\ keys' = BuildKeys(config, r)

RegisterProvider(v, offer) ==
    LET cfg == Merged(registered[v], Copied(Adapted(offer)))
        next == [registered EXCEPT ![v] = cfg]
    IN
    /\ Offer
    /\ \/ Registering(next) /\ given' = [given EXCEPT ![v] = Given(offer.key, @)]
       \/ BuildFails(config, next) /\ UNCHANGED <<registered, models, keys, given>>
    /\ UNCHANGED <<config, buildErr>>

UnregisterProvider(v) ==
    LET next == [registered EXCEPT ![v] = NoConfig] IN
    /\ Offer
    /\ registered[v] # NoConfig
    /\ \/ Registering(next) /\ given' = [given EXCEPT ![v] = Absent]
       \/ BuildFails(config, next) /\ UNCHANGED <<registered, models, keys, given>>
    /\ UNCHANGED <<config, buildErr>>

\* CloneBase, for the registry of a new run of the program or after a reload.
CloneBase ==
    /\ Offer
    /\ Applying([v \in Vendors |-> Copied(config[v])], NoConfigs)
    /\ given' = NoKeys

CatalogueNext ==
    \/ \E v \in Vendors, offer \in Offers : ApplyConfig(v, offer) \/ RegisterProvider(v, offer)
    \/ \E v \in Vendors : UnregisterProvider(v)
    \/ CloneBase

CatalogueSpec == CatalogueInit /\ [][CatalogueNext]_catalogueVars

CatalogueTypeOK ==
    /\ config \in [Vendors -> Configs] /\ registered \in [Vendors -> Configs]
    /\ models \subseteq ListedModels
    /\ keys \in [Vendors -> Tokens \cup {Absent}] /\ given \in [Vendors -> Tokens \cup {Absent}]
    /\ buildErr \in BOOLEAN /\ offers \in 0..MaxOffers

\* After whatever was registered, refused and taken back, the catalogue is what models.json
\* and the providers registered now make of the built-in models; under a models.json that
\* cannot be built it is the built-in models (build, rebuild, baseState).
Derived ==
    IF buildErr THEN models = Builtin /\ keys = NoKeys
               ELSE models = BuildModels(config, registered) /\ keys = BuildKeys(config, registered)

\* A provider that neither models.json nor an extension says anything of has its built-in
\* models, whatever happens to the others (applyProviderConfig).
OthersAsBuiltIn ==
    \A v \in Vendors : config[v] = NoConfig /\ registered[v] = NoConfig =>
        {m \in models : m.vendor = v} = {m \in Builtin : m.vendor = v}

\* A request to a provider is made with the key that was registered last, and with that of
\* models.json if none was (mergeProviderConfig, storeRequestConfig).
LastKeyCounts ==
    ~buildErr => \A v \in Vendors : keys[v] = Given(given[v], config[v].key)

CatalogueTrue == Derived /\ OthersAsBuiltIn /\ LastKeyCounts
===============================================================================
