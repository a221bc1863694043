----------------------------- MODULE ProviderSetup -----------------------------
(***************************************************************************)
(* Which provider instance a session talks to, with which API key, and     *)
(* whose model catalog it offers: internal/provider/registry.go, the key   *)
(* prompt, the provider and model switches of internal/app, first-run      *)
(* setup, and the jobs whose model is looked up when they are             *)
(* spawned.                                                                *)
(*                                                                         *)
(* The screen handles one message at a time; a key is validated, a catalog *)
(* loaded and a job spawned on goroutines of their own.  An instance is    *)
(* the key it was made with, a catalog the instance that listed it.        *)
(***************************************************************************)
EXTENDS Naturals, FiniteSets

CONSTANTS Slugs, Keys, None,
          MaxConfigured, \* providers that have a key at the start
          MaxPrompts,   \* prompts opened
          MaxSubmits,   \* keys submitted in them
          MaxLists      \* catalogs asked for

ConstantsOK == None \notin Keys \cup Slugs /\ Slugs # {} /\ MaxPrompts \in Nat /\ MaxSubmits \in Nat /\ MaxLists \in Nat

VARIABLES
    configKey, env,      \* [slug -> key]: of config.toml; of the environment, fixed for the run
    default,             \* Default.Provider of config.toml
    providers,           \* the Registry: [slug -> instance]
    active,
    cachedModels, modelVersions,
    prompt,              \* the slug it asks the key of
    validation,          \* providerKeyValidation*: [seq, active, slug, key]
    validating,          \* the validations that run: [seq, slug, key]
    fetches,             \* the catalogs asked for: [by, slug, p, version]
    asked,               \* history: the slug and key submitted last in the open prompt
    prompts, submits, lists

saved == <<configKey, env, default>>
registry == <<providers, active, cachedModels, modelVersions>>
keyFlow == <<prompt, validation, validating, asked, prompts, submits>>
vars == <<saved, registry, keyFlow, fetches, lists>>

NoValidation(n) == [seq |-> n, active |-> FALSE, slug |-> None, key |-> None]

-----------------------------------------------------------------------------
\* GetProviderKey: the environment comes first.
GetProviderKey(s) == IF env[s] # None THEN env[s] ELSE configKey[s]

\* Without --provider: no default, or one that has no key.
shouldRunSetup == default \notin {s \in Slugs : GetProviderKey(s) # None}

Init ==
    /\ configKey \in [Slugs -> Keys \cup {None}] /\ env \in [Slugs -> Keys \cup {None}]
    /\ Cardinality({s \in Slugs : configKey[s] # None \/ env[s] # None}) <= MaxConfigured
    /\ default \in Slugs \cup {None}
    /\ providers = [s \in Slugs |-> None] /\ active = None
    /\ cachedModels = [s \in Slugs |-> None] /\ modelVersions = [s \in Slugs |-> 0]
    /\ prompt = None /\ validation = NoValidation(0) /\ validating = {} /\ asked = <<>>
    /\ fetches = {} /\ prompts = 0 /\ submits = 0 /\ lists = 0

\* RunSetup: a provider is chosen and its key typed until one is valid; both are saved.
RunSetup ==
    /\ active = None /\ shouldRunSetup
    /\ \E s \in Slugs, k \in Keys : configKey' = [configKey EXCEPT ![s] = k] /\ default' = s
    /\ UNCHANGED <<env, registry, keyFlow, fetches, lists>>

\* buildPacketRuntime: every provider that has a key is registered, the default is active.
buildPacketRuntime ==
    /\ active = None /\ ~shouldRunSetup
    /\ providers' = [s \in Slugs |-> GetProviderKey(s)]
    /\ modelVersions' = [s \in Slugs |-> IF GetProviderKey(s) = None THEN 0 ELSE 1]
    /\ active' = default
    /\ UNCHANGED <<saved, cachedModels, keyFlow, fetches, lists>>

Started == active # None

-----------------------------------------------------------------------------
\* Registry.Register: upsert, the catalog dropped.
Register(s, k) ==
    /\ providers' = [providers EXCEPT ![s] = k]
    /\ cachedModels' = [cachedModels EXCEPT ![s] = None]
    /\ modelVersions' = [modelVersions EXCEPT ![s] = @ + 1]

SetCachedModels(s, p) ==
    /\ cachedModels' = [cachedModels EXCEPT ![s] = p]
    /\ modelVersions' = [modelVersions EXCEPT ![s] = @ + 1]

-----------------------------------------------------------------------------
\* Mutant: a validation of the prompt before this one still counts.
openOverValidation(s) == prompt' = s /\ asked' = <<>> /\ UNCHANGED validation
\* openProviderKeyPrompt: what is being validated no longer counts.
openProviderKeyPrompt(s) == prompt' = s /\ asked' = <<>> /\ validation' = NoValidation(validation.seq + 1)

\* /provider add, Ctrl+A, or a provider chosen that has no key.
AskKey(s) ==
    /\ Started /\ prompt = None /\ prompts < MaxPrompts /\ prompts' = prompts + 1
    /\ openProviderKeyPrompt(s)
    /\ UNCHANGED <<saved, registry, validating, submits, fetches, lists>>

\* Esc, or Ctrl+C: the prompt is hidden, the validation runs on.
CancelPrompt ==
    /\ prompt # None /\ prompt' = None /\ asked' = <<>>
    /\ UNCHANGED <<saved, registry, validation, validating, prompts, submits, fetches, lists>>

\* handlePromptSubmit: a key that is being validated already is not sent again.
handlePromptSubmit(k) ==
    /\ prompt # None /\ submits < MaxSubmits
    /\ ~(validation.active /\ validation.slug = prompt /\ validation.key = k)
    /\ LET n == validation.seq + 1 IN
       /\ validation' = [seq |-> n, active |-> TRUE, slug |-> prompt, key |-> k]
       /\ validating' = validating \cup {[seq |-> n, slug |-> prompt, key |-> k]}
    /\ asked' = <<prompt, k>> /\ submits' = submits + 1
    /\ UNCHANGED <<saved, registry, prompt, prompts, fetches, lists>>

\* Mutant: any key validated for this prompt is accepted.
AnyKeyOf(v) == validation.active /\ prompt = v.slug
Current(v) ==
    /\ v.seq = validation.seq /\ validation.active /\ validation.slug = v.slug /\ validation.key = v.key
    /\ prompt = v.slug

\* handleProviderKeyValidated: a reply of another prompt or key is dropped; an invalid
\* key leaves the prompt open; a valid one is saved, if it can be, and registered.
handleProviderKeyValidated(v) ==
    /\ v \in validating /\ validating' = validating \ {v}
    /\ IF ~Current(v) THEN UNCHANGED <<configKey, providers, cachedModels, modelVersions, validation, prompt, asked>>
       ELSE /\ validation' = [validation EXCEPT !.active = FALSE]
            /\ \/ UNCHANGED <<configKey, providers, cachedModels, modelVersions, prompt, asked>>
               \/ /\ configKey' = [configKey EXCEPT ![v.slug] = v.key]
                  /\ Register(v.slug, v.key)
                  /\ prompt' = None /\ asked' = <<>>
    /\ UNCHANGED <<env, default, active, prompts, submits, fetches, lists>>

-----------------------------------------------------------------------------
\* applyProviderSwitch, applyModelSwitch: on the screen's thread; the catalog is listed
\* if none is cached, and the pair saved as the default.
ApplySwitch(s) ==
    /\ Started /\ prompt = None /\ providers[s] # None
    /\ active' = s /\ default' = s
    /\ IF cachedModels[s] = None /\ lists < MaxLists
       THEN /\ lists' = lists + 1
            /\ SetCachedModels(s, providers[s]) \/ UNCHANGED <<cachedModels, modelVersions>>
       ELSE UNCHANGED <<cachedModels, modelVersions, lists>>
    /\ UNCHANGED <<configKey, env, providers, keyFlow, fetches>>

\* RefreshModels, its request: for the model picker.
BeginRefresh ==
    /\ Started /\ lists < MaxLists /\ lists' = lists + 1
    /\ modelVersions' = [modelVersions EXCEPT ![active] = @ + 1]
    /\ fetches' = fetches \cup {[by |-> "refresh", slug |-> active, p |-> providers[active], version |-> modelVersions[active] + 1]}
    /\ UNCHANGED <<saved, providers, active, cachedModels, keyFlow>>

\* Mutant: the reply is stored whatever happened meanwhile.
AnyVersion(f) == TRUE
Newest(f) == modelVersions[f.slug] = f.version

\* RefreshModels, its reply: an error, or a catalog, stored if it is the newest.
EndRefresh(f) ==
    /\ f \in fetches /\ f.by = "refresh" /\ fetches' = fetches \ {f}
    /\ \/ UNCHANGED cachedModels
       \/ cachedModels' = IF Newest(f) THEN [cachedModels EXCEPT ![f.slug] = f.p] ELSE cachedModels
    /\ UNCHANGED <<saved, providers, active, modelVersions, keyFlow, lists>>

\* resolveProviderModel: a spawned job's model is looked up in the catalog; without one
\* validateSpawnModel lists it.
BeginSpawn(s) ==
    /\ Started /\ providers[s] # None /\ cachedModels[s] = None
    /\ lists < MaxLists /\ lists' = lists + 1
    /\ fetches' = fetches \cup {[by |-> "spawn", slug |-> s, p |-> providers[s], version |-> 0]}
    /\ UNCHANGED <<saved, registry, keyFlow>>

\* The listing fails and the job is refused; or the catalog is stored.
EndSpawn(f) ==
    /\ f \in fetches /\ f.by = "spawn" /\ fetches' = fetches \ {f}
    /\ SetCachedModels(f.slug, f.p) \/ UNCHANGED <<cachedModels, modelVersions>>
    /\ UNCHANGED <<saved, providers, active, keyFlow, lists>>

-----------------------------------------------------------------------------
Next ==
    \/ RunSetup \/ buildPacketRuntime \/ CancelPrompt \/ BeginRefresh
    \/ \E s \in Slugs : AskKey(s) \/ ApplySwitch(s) \/ BeginSpawn(s)
    \/ \E k \in Keys : handlePromptSubmit(k)
    \/ \E v \in validating : handleProviderKeyValidated(v)
    \/ \E f \in fetches : EndRefresh(f) \/ EndSpawn(f)

Spec == Init /\ [][Next]_vars

-----------------------------------------------------------------------------
TypeOK ==
    /\ configKey \in [Slugs -> Keys \cup {None}] /\ providers \in [Slugs -> Keys \cup {None}]
    /\ cachedModels \in [Slugs -> Keys \cup {None}] /\ active \in Slugs \cup {None} /\ prompt \in Slugs \cup {None}
    /\ active # None => providers[active] # None

\* provider_key.go, "User cancelled or moved on before validation returned": while the
\* program runs a key is saved and registered only if it is the last one submitted in the
\* prompt that is open, whatever validations of earlier keys and prompts still return.
OnlyTheAskedKey ==
    [][\A s \in Slugs : Started /\ (configKey'[s] # configKey[s] \/ providers'[s] # providers[s]) =>
            asked = <<s, configKey'[s]>> /\ providers'[s] = configKey'[s]]_vars

\* registry.go, "a late response cannot undo a refresh, credential change, or
\* invalidation": a refresh stores only a catalog of the instance that is registered.
RefreshIsCurrent ==
    [][\A f \in fetches : f.by = "refresh" /\ f \notin fetches' =>
            cachedModels'[f.slug] \in {cachedModels[f.slug], providers[f.slug]}]_vars

\* registry.go, the same sentence, of the cache: no catalog of an instance that has been
\* replaced is offered.
\* (Does not hold: README, Observations.)
CatalogIsTheInstances == \A s \in Slugs : cachedModels[s] \in {None, providers[s]}

=============================================================================
