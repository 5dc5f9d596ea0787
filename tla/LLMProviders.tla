---------------------------- MODULE LLMProviders ----------------------------
(***************************************************************************)
(* The choice of language model providers for a call: what the settings    *)
(* handlers of the API store, what the worker resolves from it for a turn, *)
(* and the list of candidates it then tries.                               *)
(*                                                                         *)
(* An API key is known by the provider that issued it, an address by the   *)
(* provider that answers there.  Model names matter only for telling       *)
(* candidates apart.                                                       *)
(***************************************************************************)
EXTENDS Naturals, Sequences, SequencesExt

CONSTANTS Names,        \* provider names that users type
          Models,       \* model names of routes and of the fallback
          Urls,         \* addresses that users type
          EnvMode,      \* LLM_MODE
          EnvProvider,  \* LLM_PROVIDER
          EnvUrl,       \* LLM_BASE_URL
          EnvKeys,      \* slots whose API key is in the environment
          Fallback      \* LLM_FALLBACK_PROVIDER, its model and its address, as a
                        \* sequence of 0 or 1

(* NewProvider knows more names than these; they behave like one of them.  *)
Supported == {"openai", "openrouter", "opencode-zen", "kimi-for-coding", "codex"}
Modes == {"remote", "local"}
Slots == {"openai", "openrouter", "opencode-zen"}
Entry == [provider : Names, model : Models \union {""}, url : Urls \union {""}]
Candidate == [local : BOOLEAN, provider : Names, model : Models \union {"saved"},
              key : Names \union Slots \union {"none"}, url : Urls \union {""}]

ASSUME ProvidersAssumption ==
  /\ "none" \notin Names /\ "" \notin Names /\ Urls \subseteq Names
  /\ EnvMode \in Modes /\ EnvProvider \in Names /\ EnvUrl \in Urls \union {""}
  /\ EnvKeys \subseteq Slots
  /\ Fallback \in Seq(Entry) /\ Len(Fallback) <= 1

VARIABLE settings  \* the row of llm_settings; before it is saved, the environment

Unsaved ==
  [saved |-> FALSE, mode |-> EnvMode, provider |-> EnvProvider, key |-> "none", url |-> EnvUrl]

SettingsOK ==
  settings \in [saved : BOOLEAN, mode : Modes, provider : Names, key : Names \union {"none"},
                url : Urls \union {""}]

-----------------------------------------------------------------------------
(* Both processes.                                                         *)

(* providerNeedsKey and requiresAPIKey. *)
NeedsKey(provider) == provider \in {"openai", "openrouter", "opencode-zen", "kimi-for-coding"}

(* The field of llm.Config that holds the key of a provider. *)
Slot(provider) ==
  IF provider \in {"openrouter", "opencode-zen"} THEN provider ELSE "openai"

(* llm.NewProvider fails. *)
Unknown(mode, provider) == mode # "local" /\ provider \notin Supported

(* Whom a provider calls: its own address unless another is configured.    *)
Host(c) == IF c.url = "" THEN c.provider ELSE c.url

(* A call is answered to the key that its host issued; Codex has a login of *)
(* its own.  The local provider only fails.                                 *)
Works(c) == ~c.local /\ (IF NeedsKey(c.provider) THEN c.key ELSE c.provider) = Host(c)

-----------------------------------------------------------------------------
(* The settings handlers.                                                  *)

Or(value, default) == IF value = "" THEN default ELSE value

Request == [mode : Modes \union {""}, provider : Names \union {""}, key : Names \union {""},
            url : Urls \union {""}]

(* updateLLMSettings: empty fields keep what is stored, the key and the    *)
(* address too.                                                            *)
UpdateSettings(req) ==
  LET mode     == Or(req.mode, settings.mode)
      provider == Or(req.provider, settings.provider)
      key      == Or(req.key, settings.key) IN
  /\ (NeedsKey(provider) /\ key = "none") => mode = "local"
  /\ settings' = [saved |-> TRUE, mode |-> mode, provider |-> provider, key |-> key,
                  url |-> Or(req.url, settings.url)]

(* buildLLMConfig: empty fields are those of the environment, whatever is  *)
(* stored; only a key that the provider needs comes from the row.          *)
Tested(req) ==
  LET provider == Or(req.provider, EnvProvider) IN
  [local |-> Or(req.mode, EnvMode) = "local", provider |-> provider, model |-> "saved",
   key |-> Or(req.key, IF NeedsKey(provider) THEN settings.key ELSE "none"),
   url |-> Or(req.url, EnvUrl)]

(* testLLMSettings answers Connected. *)
Connects(req) == Tested(req).provider \in Supported /\ Works(Tested(req))

-----------------------------------------------------------------------------
(* The worker.                                                             *)

(* Mutant: the saved key always goes to the slot of openai. *)
KeysInOneSlot ==
  [slot \in Slots |->
     IF settings.key # "none" /\ slot = "openai" THEN settings.key
     ELSE IF slot \in EnvKeys THEN slot ELSE "none"]

(* The keys of the turn: of the environment, and the saved one in the slot *)
(* of the saved provider.                                                  *)
Keys ==
  [slot \in Slots |->
     IF settings.key # "none" /\ slot = Slot(settings.provider) THEN settings.key
     ELSE IF slot \in EnvKeys THEN slot ELSE "none"]

(* A message may name another provider. *)
Chosen(override) == IF override = "none" THEN settings.provider ELSE override

(* resolveConfig succeeds.  Every provider but openrouter is asked for the *)
(* OpenAI key.                                                             *)
Resolves(override) ==
  NeedsKey(Chosen(override)) =>
    Keys[IF Chosen(override) = "openrouter" THEN "openrouter" ELSE "openai"] # "none"

(* Another provider than the saved one is still called at the saved        *)
(* address, unless the fallback has its own.                               *)
AsCandidate(e) ==
  [local |-> settings.mode = "local", provider |-> e.provider, model |-> Or(e.model, "saved"),
   key |-> Keys[Slot(e.provider)], url |-> Or(e.url, settings.url)]

Seen(list, c) ==
  \E i \in DOMAIN list : list[i].provider = c.provider /\ list[i].model = c.model

(* Mutant: a provider may come twice. *)
AppendCandidateAgain(list, e) ==
  IF Unknown(settings.mode, e.provider) THEN list
  ELSE Append(list, AsCandidate(e))

(* appendCandidate: only the first of the same provider and model, and none *)
(* whose provider is not known.                                             *)
AppendCandidate(list, e) ==
  LET c == AsCandidate(e) IN
  IF Seen(list, c) \/ Unknown(settings.mode, e.provider) THEN list ELSE Append(list, c)

Usable(entries) ==
  LET list[n \in 0..Len(entries)] ==
        IF n = 0 THEN <<>> ELSE AppendCandidate(list[n - 1], entries[n])
  IN  list[Len(entries)]

(* buildProviderCandidates: the usable entries of the route, and if there  *)
(* is none the resolved provider with the fallback; <<>> when it fails.    *)
Candidates(override, route) ==
  IF Usable(route) # <<>> THEN Usable(route)
  ELSE IF Unknown(settings.mode, Chosen(override)) THEN <<>>
  ELSE Usable(<<[provider |-> Chosen(override), model |-> "", url |-> ""]>> \o Fallback)

-----------------------------------------------------------------------------
(* A turn that asks for nothing else is served by the settings: they are   *)
(* accepted by resolveConfig, and the first candidate is one that works.   *)
Served == Resolves("none") /\ Works(Candidates("none", <<>>)[1])

(* What a request leaves empty is the same to the test, which takes it from *)
(* the environment, and to the row, where the earlier value stays.          *)
SameBlanks(req) ==
  /\ req.mode = "" => settings.mode = EnvMode
  /\ req.provider = "" => settings.provider = EnvProvider
  /\ req.url = "" => settings.url = EnvUrl
=============================================================================
