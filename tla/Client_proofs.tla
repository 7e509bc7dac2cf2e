---------------------------- MODULE Client_proofs ----------------------------
(***************************************************************************)
(* Proofs about module Client: whatever the settings, the commands and the *)
(* requests of other programs, and whenever the client gives up, nothing   *)
(* is done for a request without the bearer, and the exit code tells what  *)
(* was done; and about module Settings, with edits of all areas mixed:     *)
(* what is accepted can embed, and what is masked is not read.             *)
(***************************************************************************)
EXTENDS Client, TLAPS

Bears ==
    /\ request.scheme \in {"Bearer", "bearer"}
    /\ request.token = served /\ served # "accented"

\* What an answer tells of the server's work.
HealthTold ==
    /\ response.status \in {200, 500}
    /\ ~Bears => response.status = 200 /\ response.authenticated = FALSE /\ work = {}
    /\ Bears => work = {"count"}
    /\ Bears /\ response.status = 200 => response.authenticated = TRUE

AnswerTold ==
    /\ response.status \in {200, 400, 401, 404, 500}
    /\ response.status = 401 <=> ~Bears
    /\ ~Bears => work = {}
    /\ response.status = 200 => "read" \in work

\* How far the server is with a request, and what it has done for it.
ServerInv ==
    /\ stage \in {"idle", "handler", "embed", "read", "replied"}
    /\ request # NONE => served # NONE
    /\ stage = "idle" => work = {} /\ response = NONE
    /\ stage # "idle" => request # NONE
    /\ stage \in {"handler", "embed", "read"} =>
         Bears /\ request.route # "health" /\ response = NONE
    /\ stage = "replied" => IF request.route = "health" THEN HealthTold ELSE AnswerTold

\* How far the client is.
ClientInv ==
    /\ pc \in {"ready", "waiting", "done", "helped", "other"}
    /\ pc = "ready" => request = NONE
    /\ pc = "waiting" => request.scheme = "Bearer"
    /\ pc \notin {"done", "helped"} => code = NONE
    /\ pc = "helped" => request = NONE /\ code = 0
    /\ code \in {0, 3, 4} /\ pc # "helped" => stage = "replied"

IInv == ServerInv /\ ClientInv /\ ExitTellsOutcome

\* The server's own steps.
LEMMA ServerSteps ==
    ASSUME IInv, Receive \/ Handle \/ Embed \/ Read
    PROVE  ServerInv'
<1> USE DEF IInv, ServerInv, Bears, Reply
<1>1. CASE Receive
  <2>1. CASE request.route = "health"
    <3>1. /\ request # NONE /\ stage = "idle" /\ stage' = "replied" /\ Health
          /\ work = {} /\ UNCHANGED <<served, request>>
      BY <1>1, <2>1 DEF Receive, Health
    <3>2. CASE ~Bears
      <4>1. /\ response' = [status |-> 200, hits |-> {}, authenticated |-> FALSE]
            /\ work' = {}
        BY <3>1, <3>2 DEF Health, has_valid_bearer, to_str
      <4>2. HealthTold'
        BY <3>1, <3>2, <4>1 DEF HealthTold
      <4>3. QED
        BY <2>1, <3>1, <4>2
    <3>3. CASE Bears
      <4>1. /\ \/ response' = [status |-> 200, hits |-> {}, authenticated |-> TRUE]
               \/ response' = [status |-> 500, hits |-> {}, authenticated |-> FALSE]
            /\ work' = {"count"}
        BY <3>1, <3>3 DEF Health, has_valid_bearer, to_str
      <4>2. HealthTold'
        BY <3>1, <3>3, <4>1 DEF HealthTold
      <4>3. QED
        BY <2>1, <3>1, <4>2
    <3>4. QED
      BY <3>2, <3>3
  <2>2. CASE request.route # "health"
    BY <1>1, <2>2 DEF Receive, has_valid_bearer, to_str, AnswerTold
  <2>3. QED
    BY <2>1, <2>2
<1>2. CASE Handle
  BY <1>2 DEF Handle, AnswerTold
<1>3. CASE Embed
  BY <1>3 DEF Embed, AnswerTold
<1>4. CASE Read
  BY <1>4 DEF Read, AnswerTold
<1>5. QED
  BY <1>1, <1>2, <1>3, <1>4

\* They are no concern of a client that has its exit code.
LEMMA ServerLeavesClient ==
    ASSUME IInv, Receive \/ Handle \/ Embed \/ Read
    PROVE  ClientInv' /\ ExitTellsOutcome'
<1>1. UNCHANGED <<served, pc, request, shown, code>>
  BY DEF Receive, Handle, Embed, Read
<1>2. stage # "replied"
  BY DEF Receive, Handle, Embed, Read
<1>3. request # NONE
  BY DEF IInv, ServerInv, Receive, Handle, Embed, Read
<1>4. code \notin {0, 3, 4} /\ pc # "helped"
  BY <1>2, <1>3 DEF IInv, ClientInv
<1>5. code # 1
  BY <1>3 DEF IInv, ExitTellsOutcome
<1>6. QED
  BY <1>1, <1>4, <1>5 DEF IInv, ClientInv, ExitTellsOutcome

\* What the exit code is read from tells of the server's work.
LEMMA AnswerTells ==
    ASSUME IInv, GetAnswer
    PROVE  IInv'
<1> USE DEF IInv
<1>1. /\ pc = "waiting" /\ response # NONE /\ code' = exit_code /\ pc' = "done"
      /\ UNCHANGED <<served, request, shown, stage, work, response>>
  BY DEF GetAnswer, Exit
<1>2. stage = "replied" /\ request.scheme = "Bearer" /\ request # NONE
  BY <1>1 DEF ServerInv, ClientInv
<1>3. ServerInv'
  BY <1>1 DEF ServerInv, Bears, HealthTold, AnswerTold
<1>4. exit_code \in {0, 2, 3, 4}
  BY DEF exit_code, exit_for_client_error
<1>5. ClientInv'
  BY <1>1, <1>2, <1>4 DEF ClientInv
<1>6. CASE request.route = "health"
  <2>1. HealthTold
    BY <1>2, <1>6 DEF ServerInv
  <2>2. \/ code' = 2
        \/ code' = 0 /\ Bears /\ work = {"count"}
        \/ code' = 3 /\ ~Bears /\ work = {}
    BY <1>1, <1>6, <2>1 DEF HealthTold, exit_code, exit_for_client_error
  <2>3. ExitTellsOutcome'
    BY <1>1, <1>2, <1>6, <2>2 DEF Bears, ExitTellsOutcome
  <2>4. QED
    BY <1>3, <1>5, <2>3
<1>7. CASE request.route # "health"
  <2>1. AnswerTold
    BY <1>2, <1>7 DEF ServerInv
  <2>2. \/ code' = 2
        \/ code' = 3 /\ ~Bears /\ work = {}
        \/ code' = 4 /\ Bears /\ "read" \in work /\ response.hits \cap shown = {}
        \/ code' = 0 /\ Bears /\ "read" \in work /\ response.hits \cap shown # {}
    BY <1>1, <1>7, <2>1 DEF AnswerTold, exit_code, exit_for_client_error
  <2>3. ExitTellsOutcome'
    BY <1>1, <1>2, <1>7, <2>2 DEF Bears, ExitTellsOutcome
  <2>4. QED
    BY <1>3, <1>5, <2>3
<1>8. QED
  BY <1>6, <1>7

\* Nothing is known of a request before it is made.
LEMMA Asking ==
    ASSUME IInv, RunCommand \/ Unparsed \/ Help \/ OtherAsks
    PROVE  IInv'
<1> USE DEF IInv
<1>1. /\ pc = "ready" /\ served # NONE
      /\ UNCHANGED <<served, stage, work, response>>
  BY DEF RunCommand, Unparsed, Help, OtherAsks
<1>2. request = NONE /\ stage = "idle" /\ work = {} /\ response = NONE
  BY <1>1 DEF ServerInv, ClientInv
<1>3. \/ pc' = "done" /\ code' \in {1, 2} /\ request' = NONE
      \/ pc' = "helped" /\ code' = 0 /\ request' = NONE
      \/ pc' = "waiting" /\ code' = NONE /\ request'.scheme = "Bearer"
      \/ pc' = "other" /\ code' = NONE
  BY <1>1, <1>2 DEF RunCommand, Unparsed, Help, OtherAsks, Exit, Send, Request, ClientInv
<1>4. ServerInv'
  BY <1>1, <1>2 DEF ServerInv
<1>5. ClientInv'
  BY <1>3, ClientAssumption DEF ClientInv
<1>6. ExitTellsOutcome'
  BY <1>1, <1>2, <1>3, ClientAssumption DEF ExitTellsOutcome
<1>7. QED
  BY <1>4, <1>5, <1>6

\* Every step keeps the invariant.
LEMMA StepKeeps == IInv /\ [Next]_allvars => IInv'
<1> SUFFICES ASSUME IInv, [Next]_allvars PROVE IInv'
  OBVIOUS
<1> USE DEF IInv
<1>1. CASE Configure \/ UNCHANGED allvars
  <2>1. UNCHANGED client
    BY <1>1 DEF Configure, allvars
  <2>2. QED
    BY <2>1 DEF client, ServerInv, ClientInv, ExitTellsOutcome, Bears, HealthTold, AnswerTold
<1>2. CASE Start
  <2>1. /\ request = NONE /\ stage = "idle" /\ (code \notin {0, 3, 4} \/ pc = "helped")
        /\ UNCHANGED <<pc, request, shown, stage, work, response, code>>
    BY <1>2 DEF Start, ServerInv, ClientInv
  <2>2. QED
    BY <2>1 DEF ServerInv, ClientInv, ExitTellsOutcome
<1>3. CASE RunCommand \/ Unparsed \/ Help \/ OtherAsks
  BY <1>3, Asking
<1>4. CASE NetworkFails
  BY <1>4 DEF NetworkFails, Exit, ServerInv, ClientInv, ExitTellsOutcome, Bears, HealthTold,
              AnswerTold
<1>5. CASE GetAnswer
  BY <1>5, AnswerTells
<1>6. CASE Receive \/ Handle \/ Embed \/ Read
  BY <1>6, ServerSteps, ServerLeavesClient
<1>7. QED
  BY <1>1, <1>2, <1>3, <1>4, <1>5, <1>6 DEF Next

---------------------------------------------------------------------------
\* The invariant holds before the server is started, and every step keeps it.
THEOREM Inductive == ClientSpec => []IInv
<1>1. CliInit => IInv
  BY ClientAssumption DEF CliInit, IInv, ServerInv, ClientInv, ExitTellsOutcome
<1>2. QED
  BY <1>1, StepKeeps, PTL DEF ClientSpec

\* src/api/auth.rs: whoever asks, nothing is embedded, read or counted without
\* the bearer the server was started with, and who has it is not turned away.
THEOREM NobodyElseIsServed == ClientSpec => []OnlyTheBearerIsServed
<1>1. IInv => OnlyTheBearerIsServed
  BY DEF IInv, ServerInv, OnlyTheBearerIsServed, Bears, HealthTold, AnswerTold
<1>2. QED
  BY <1>1, Inductive, PTL

\* src/bin/search.rs: the exit code of docindex-search tells what the server
\* did, even though the client may give up while the server is still at it.
THEOREM ExitCodesAreTruthful == ClientSpec => []ExitTellsOutcome
<1>1. IInv => ExitTellsOutcome
  BY DEF IInv
<1>2. QED
  BY <1>1, Inductive, PTL

---------------------------------------------------------------------------
(* The settings.                                                           *)

\* What resolve_embed reads.
EmbedVariables == {"DOCINDEX_EMBED", "DOCINDEX_EMBED_DIM", "GEMINI_API_KEY", "VOYAGE_API_KEY"}
EmbedEntries == {"provider", "dim", "api_key"}

SettingsTyped ==
    /\ \E S : env \in [DOMAIN EnvValues -> S]
    /\ \E S : file \in [DOMAIN FileValues -> S]
    /\ \A k \in EmbedVariables : env[k] \in EnvValues[k]
    /\ \A f \in EmbedEntries : file[f] \in FileValues[f]

LEMMA InitTyped == CliInit => SettingsTyped
<1> SUFFICES ASSUME CliInit PROVE SettingsTyped
  OBVIOUS
<1>1. /\ env = [k \in DOMAIN EnvValues |-> IF k \in DOMAIN Base THEN Base[k] ELSE NONE]
      /\ file = [f \in DOMAIN FileValues |-> NONE]
  BY DEF CliInit, Init
<1>2. \A k \in EmbedVariables : k \in DOMAIN EnvValues /\ env[k] = NONE
  BY <1>1 DEF EmbedVariables, Base, EnvValues
<1>3. \A f \in EmbedEntries : f \in DOMAIN FileValues /\ file[f] = NONE
  BY <1>1 DEF EmbedEntries, FileValues
<1>4. /\ \A k \in EmbedVariables : NONE \in EnvValues[k]
      /\ \A f \in EmbedEntries : NONE \in FileValues[f]
  BY DEF EmbedVariables, EmbedEntries, EnvValues, FileValues
<1>5. /\ \E S : env \in [DOMAIN EnvValues -> S]
      /\ \E S : file \in [DOMAIN FileValues -> S]
  <2>1. env \in [DOMAIN EnvValues -> {env[k] : k \in DOMAIN EnvValues}]
    BY <1>1
  <2>2. file \in [DOMAIN FileValues -> {NONE}]
    BY <1>1
  <2>3. QED
    BY <2>1, <2>2
<1>6. QED
  BY <1>2, <1>3, <1>4, <1>5 DEF SettingsTyped

LEMMA EditsTyped == SettingsTyped /\ [Next]_allvars => SettingsTyped'
<1> SUFFICES ASSUME SettingsTyped, [Next]_allvars PROVE SettingsTyped'
  OBVIOUS
<1>1. CASE UNCHANGED vars
  BY <1>1 DEF vars, SettingsTyped
<1>2. CASE Edit
  <2>1. CASE UNCHANGED <<env, file>>
    BY <2>1 DEF SettingsTyped
  <2>2. ASSUME NEW k, EditEnv(k)
        PROVE  SettingsTyped'
    <3>1. PICK v \in EnvValues[k] : env' = [env EXCEPT ![k] = v] /\ file' = file
      BY <2>2 DEF EditEnv
    <3>2. PICK S : env \in [DOMAIN EnvValues -> S]
      BY DEF SettingsTyped
    <3>3. env' \in [DOMAIN EnvValues -> S \cup {v}]
      BY <3>1, <3>2
    <3>4. \A j \in EmbedVariables : env'[j] \in EnvValues[j]
      <4>1. \A j \in EmbedVariables : j \in DOMAIN EnvValues
        BY DEF EmbedVariables, EnvValues
      <4>2. QED
        BY <3>1, <3>2, <4>1 DEF SettingsTyped
    <3>5. QED
      BY <3>1, <3>3, <3>4 DEF SettingsTyped
  <2>3. ASSUME NEW f, EditFile(f)
        PROVE  SettingsTyped'
    <3>1. PICK v \in FileValues[f] : file' = [file EXCEPT ![f] = v] /\ env' = env
      BY <2>3 DEF EditFile
    <3>2. PICK S : file \in [DOMAIN FileValues -> S]
      BY DEF SettingsTyped
    <3>3. file' \in [DOMAIN FileValues -> S \cup {v}]
      BY <3>1, <3>2
    <3>4. \A j \in EmbedEntries : file'[j] \in FileValues[j]
      <4>1. \A j \in EmbedEntries : j \in DOMAIN FileValues
        BY DEF EmbedEntries, FileValues
      <4>2. QED
        BY <3>1, <3>2, <4>1 DEF SettingsTyped
    <3>5. QED
      BY <3>1, <3>3, <3>4 DEF SettingsTyped
  <2>4. QED
    BY <1>2, <2>1, <2>2, <2>3 DEF Edit, PutFile, Invoke
<1>3. QED
  BY <1>1, <1>2 DEF Next, allvars, Configure, Start, RunCommand, Unparsed, Help, OtherAsks,
     NetworkFails, GetAnswer, Receive, Handle, Embed, Read

LEMMA EmbedTyped ==
    ASSUME SettingsTyped
    PROVE  /\ env.DOCINDEX_EMBED \in {NONE, BAD, "gemini", "voyage"}
           /\ env.DOCINDEX_EMBED_DIM \in {NONE, BAD, 0, 1024}
           /\ env.GEMINI_API_KEY \in {NONE, "gemini's"}
           /\ env.VOYAGE_API_KEY \in {NONE, EMPTY, "voyage's"}
           /\ Said("provider") \in {NONE, "gemini", "voyage"}
           /\ Said("dim") \in {NONE, 768, 1024}
           /\ Said("api_key") \in {NONE, "file's"}
<1>1. /\ \A k \in EmbedVariables : env[k] \in EnvValues[k]
      /\ \A f \in EmbedEntries : file[f] \in FileValues[f]
  BY DEF SettingsTyped
<1>2. QED
  BY <1>1 DEF EmbedVariables, EmbedEntries, EnvValues, FileValues, Said

LEMMA ProviderKnown ==
    ASSUME SettingsTyped
    PROVE  provider \in {"gemini", "voyage", "fake"}
BY EmbedTyped DEF provider, provider_raw, resolved_str, AutoSelected, Set

\* What the registry has of a model that is not the test embedder's.
LEMMA LookupFinds ==
    ASSUME NEW p \in {"gemini", "voyage"}, NEW m, lookup(p, m) # NONE
    PROVE  /\ lookup(p, m) \in MODELS
           /\ lookup(p, m).provider = p /\ lookup(p, m).model = m
<1>1. \E i \in MODELS : i.provider = p /\ i.model = m
  BY DEF lookup
<1>2. QED
  BY <1>1 DEF lookup

LEMMA ModelsTyped ==
    \A i \in MODELS :
        /\ i.allowed_dims \subseteq Nat \ {0}
        /\ i.media_capable => i.model \in {"gemini-embedding-2", "voyage-multimodal-3.5"}
BY DEF MODELS, Model, GEMINI_DIMS, VOYAGE_DIMS

\* However the settings are combined, in one area or in all of them.
LEMMA AcceptedEmbeds == SettingsTyped => AcceptedCanEmbed
<1> SUFFICES ASSUME SettingsTyped, Accepted
             PROVE  /\ \/ Embedder.client = "fake"
                       \/ \E i \in MODELS :
                            /\ i.provider = Embedder.client /\ i.model = Embedder.model
                            /\ Embedder.dim \in i.allowed_dims
                            /\ Set(Embedder.api_key)
                    /\ Embedder.dim > 0
                    /\ media_enabled =>
                         Embedder.embeds_media /\ InFile("pdf_pages_per_chunk") \in 1..MaxParts
  BY DEF AcceptedCanEmbed
<1>1. ~EmbedErrors /\ ~PolicyErrors /\ ~MediaErrors
  BY DEF Accepted, Errors
<1>2. /\ Embedder.client = provider /\ Embedder.model = model /\ Embedder.dim = dim
      /\ Embedder.api_key = api_key
      /\ Embedder.embeds_media
           = (provider = "fake" \/ model \in {"gemini-embedding-2", "voyage-multimodal-3.5"})
  BY DEF Embedder
<1>3. model_info # NONE /\ dim \in model_info.allowed_dims /\ dim # 0
  BY <1>1 DEF EmbedErrors
<1>4. media_enabled => InFile("pdf_pages_per_chunk") \in 1..MaxParts
  BY <1>1 DEF PolicyErrors, MaxParts
<1>5. CASE provider = "fake"
  <2>1. model_info.allowed_dims = Nat
    BY <1>5 DEF model_info, lookup, Model
  <2>2. dim > 0
    BY <1>3, <2>1
  <2>3. QED
    BY <1>2, <1>4, <1>5, <2>2
<1>6. CASE provider \in {"gemini", "voyage"}
  <2>1. model_info \in MODELS /\ model_info.provider = provider /\ model_info.model = model
    BY <1>3, <1>6, LookupFinds DEF model_info
  <2>2. Set(api_key)
    <3>1. \A p \in {"gemini", "voyage"} : key_env_var[p] # NONE
      <4>1. "GEMINI_API_KEY" # NONE /\ "VOYAGE_API_KEY" # NONE
        BY SettingsAssumption
      <4>2. QED
        BY <4>1 DEF key_env_var
    <3>2. QED
      BY <1>1, <1>6, <3>1 DEF EmbedErrors
  <2>3. dim > 0
    BY <1>3, <2>1, ModelsTyped
  <2>4. media_enabled => model \in {"gemini-embedding-2", "voyage-multimodal-3.5"}
    BY <1>1, <1>3, <2>1, ModelsTyped DEF MediaErrors
  <2>5. QED
    BY <1>2, <1>3, <1>4, <2>1, <2>2, <2>3, <2>4
<1>7. QED
  BY <1>5, <1>6, ProviderKnown

LEMMA KeysApart == SettingsTyped => KeyIsOfItsService
<1> SUFFICES ASSUME SettingsTyped, Said("api_key_env") = NONE
             PROVE  /\ provider = "gemini" => api_key # "voyage's"
                    /\ provider = "voyage" => api_key # "gemini's"
  BY DEF KeyIsOfItsService
<1>1. \A x \in {NONE, EMPTY} : x \notin {"gemini's", "voyage's", "file's"}
  BY SettingsAssumption
<1>2. indirected(Said("api_key"), Said("api_key_env")) \in {NONE, "file's"}
  BY EmbedTyped DEF indirected, Set
<1>3. /\ "GEMINI_API_KEY" # NONE /\ "VOYAGE_API_KEY" # NONE
  BY SettingsAssumption
<1>4. /\ provider = "gemini" => api_key \in {env.GEMINI_API_KEY, "file's", EMPTY}
      /\ provider = "voyage" => api_key \in {env.VOYAGE_API_KEY, "file's", EMPTY}
  BY <1>2, <1>3 DEF api_key, key_env_var, resolved_str, Set
<1>5. QED
  BY <1>1, <1>4, EmbedTyped

---------------------------------------------------------------------------
\* Every setting that resolve_embed reads is one that can be written.
THEOREM SettingsAreTyped == ClientSpec => []SettingsTyped
BY InitTyped, EditsTyped, PTL DEF ClientSpec

\* src/config.rs resolve_embed and Config::load: with edits of every area mixed,
\* not only of one, what load accepts names a model, a dim and a key that the
\* embedder can be built and asked with.
THEOREM AcceptedCanAlwaysEmbed == ClientSpec => []AcceptedCanEmbed
BY SettingsAreTyped, AcceptedEmbeds, PTL

\* src/config.rs:584: the key in one service's variable is not sent to the other
\* unless the file says so.
THEOREM KeysAreKeptApart == ClientSpec => []KeyIsOfItsService
BY SettingsAreTyped, KeysApart, PTL

\* The provider, the model and the dim are read from nothing but their settings.
LEMMA IdentityReads ==
    ASSUME UNCHANGED IdentitySettings, Set(env.DOCINDEX_EMBED) \/ Set(Said("provider"))
    PROVE  UNCHANGED Identity
<1> USE DEF IdentitySettings
<1>1. UNCHANGED provider_raw
  BY DEF provider_raw, resolved_str
<1>2. UNCHANGED provider
  BY <1>1 DEF provider
<1>3. UNCHANGED model
  BY <1>2 DEF model, resolved_str
<1>4. UNCHANGED native_dim
  BY <1>2, <1>3 DEF native_dim, model_info
<1>5. UNCHANGED dim
  BY <1>4 DEF dim, resolved_u64, Malformed
<1>6. QED
  BY <1>2, <1>3, <1>5 DEF Identity

\* src/config.rs resolve_embed: where the provider is named, keys, media and all
\* the rest may be edited without a reembed.
THEOREM OnlyDeliberateReembeds == ClientSpec => IdentityIsDeliberate
<1>1. UNCHANGED IdentitySettings /\ (Set(env.DOCINDEX_EMBED) \/ Set(Said("provider")))
        => UNCHANGED Identity
  BY IdentityReads
<1>2. QED
  BY <1>1, PTL DEF IdentityIsDeliberate

\* find_server_config, place after place.
LEMMA Discovered ==
    config_path = IF flag THEN "flag"
                  ELSE IF Set(env.DOCINDEX_CONFIG) THEN "env"
                  ELSE IF home /\ at["home"] # "absent" THEN "home"
                  ELSE IF at["etc"] # "absent" THEN "etc" ELSE NONE
<1> DEFINE Looked == {p \in Places : LookedAt[p]}
           First(p) == p \in Looked /\ \A q \in Looked : SearchOrder[p] <= SearchOrder[q]
<1>1. /\ LookedAt["flag"] <=> flag
      /\ LookedAt["env"] <=> Set(env.DOCINDEX_CONFIG)
      /\ LookedAt["home"] <=> home /\ at["home"] # "absent"
      /\ LookedAt["etc"] <=> at["etc"] # "absent"
  BY DEF LookedAt
<1>2. ASSUME NEW p, First(p)
      PROVE  config_path = p
  <2>1. \A q \in Places, r \in Places : SearchOrder[q] <= SearchOrder[r] /\ SearchOrder[r] <= SearchOrder[q] => q = r
    BY DEF Places, SearchOrder
  <2>2. QED
    BY <1>2, <2>1 DEF config_path
<1>3. Looked = {} => config_path = NONE
  BY DEF config_path
<1>4. \A p \in Places : SearchOrder["flag"] <= SearchOrder[p]
  BY DEF Places, SearchOrder
<1>5. QED
  BY <1>1, <1>2, <1>3 DEF Places, SearchOrder

\* An edit of settings that something above masks.
MaskedEdit ==
    /\ UNCHANGED <<flag, home, env>>
    /\ \A f \in DOMAIN file : file'[f] # file[f] => MaskedSetting(f)
    /\ \A p \in Places : at'[p] # at[p] => MaskedPlace(p)

\* The file that is read stays the same, and as good or bad as it was.
LEMMA MaskedDiscovery ==
    ASSUME MaskedEdit
    PROVE  UNCHANGED config_path /\ UNCHANGED FileError
<1> USE DEF MaskedEdit, MaskedPlace, Places
<1>1. (config_path = IF flag THEN "flag"
                     ELSE IF Set(env.DOCINDEX_CONFIG) THEN "env"
                     ELSE IF home /\ at["home"] # "absent" THEN "home"
                     ELSE IF at["etc"] # "absent" THEN "etc" ELSE NONE)'
  BY Discovered, PTL
<1>2. Set(env.DOCINDEX_CONFIG)' <=> Set(env.DOCINDEX_CONFIG)
  BY DEF Set
<1>3. CASE flag
  <2>1. at'["flag"] = at["flag"]
    OBVIOUS
  <2>2. QED
    BY <1>1, <1>3, <2>1, Discovered DEF FileError
<1>4. CASE ~flag /\ Set(env.DOCINDEX_CONFIG)
  <2>1. at'["env"] = at["env"]
    BY <1>4
  <2>2. QED
    BY <1>1, <1>2, <1>4, <2>1, Discovered DEF FileError
<1>5. CASE ~flag /\ ~Set(env.DOCINDEX_CONFIG) /\ home /\ at["home"] # "absent"
  <2>1. at'["home"] = at["home"]
    BY <1>5
  <2>2. QED
    BY <1>1, <1>2, <1>5, <2>1, Discovered DEF FileError
<1>6. CASE ~flag /\ ~Set(env.DOCINDEX_CONFIG) /\ ~(home /\ at["home"] # "absent")
  <2>1. at'["home"] = at["home"] /\ at'["etc"] = at["etc"]
    BY <1>6
  <2>2. config_path = IF at["etc"] # "absent" THEN "etc" ELSE NONE
    BY <1>6, Discovered
  <2>3. config_path' = IF at["etc"] # "absent" THEN "etc" ELSE NONE
    BY <1>1, <1>2, <1>6, <2>1
  <2>4. at'[config_path'] = at[config_path] \/ config_path = NONE
    BY <2>1, <2>2, <2>3
  <2>5. QED
    BY <2>2, <2>3, <2>4 DEF FileError
<1>7. QED
  BY <1>3, <1>4, <1>5, <1>6

\* What the file says of a setting is the same, or something above is set.
LEMMA MaskedSaid ==
    ASSUME SettingsTyped, MaskedEdit, NEW f \in DOMAIN FileValues, ~MaskedSetting(f)
    PROVE  UNCHANGED Said(f)
<1>1. f \in DOMAIN file
  BY DEF SettingsTyped
<1>2. file'[f] = file[f]
  BY <1>1 DEF MaskedEdit
<1>3. QED
  BY <1>2, MaskedDiscovery DEF Said

LEMMA MaskedTexts ==
    ASSUME SettingsTyped, MaskedEdit
    PROVE  /\ UNCHANGED <<listen, allow_loopback, bearer, vault_dir, db_path, log_format,
                          debounce_ms, http_timeout_ms>>
           /\ UNCHANGED <<display_k, weight_vec, weight_bm25>>
<1>1. env' = env
  BY DEF MaskedEdit
<1>2. \A f \in DOMAIN FileValues : ~MaskedSetting(f) => UNCHANGED Said(f)
  BY MaskedSaid
<1>3. \A f \in {"vault_dir", "db_path", "listen", "allow_loopback", "log_format",
                "debounce_ms", "http_timeout_ms", "bearer"} :
        /\ f \in DOMAIN FileValues
        /\ ~Set(env[EnvBefore[f]]) => ~MaskedSetting(f)
  BY DEF FileValues, MaskedSetting, EnvBefore
<1>4. /\ UNCHANGED listen /\ UNCHANGED vault_dir /\ UNCHANGED db_path /\ UNCHANGED log_format
  BY <1>1, <1>2, <1>3 DEF EnvBefore, listen, vault_dir, db_path, log_format, resolved_str
<1>5. UNCHANGED allow_loopback
  BY <1>1, <1>2, <1>3 DEF EnvBefore, allow_loopback, resolved_bool
<1>6. UNCHANGED debounce_ms /\ UNCHANGED http_timeout_ms
  BY <1>1, <1>2, <1>3 DEF EnvBefore, debounce_ms, http_timeout_ms, resolved_u64, Malformed
<1>7. UNCHANGED bearer
  <2>1. CASE Set(env.DOCINDEX_BEARER)
    BY <1>1, <2>1 DEF bearer, resolved_str
  <2>2. CASE ~Set(env.DOCINDEX_BEARER)
    <3>1. UNCHANGED Said("bearer")
      BY <1>2, <1>3, <2>2 DEF EnvBefore
    <3>2. ~Set(Said("bearer")) => UNCHANGED Said("bearer_env")
      <4>1. CASE config_path = NONE
        BY <4>1, MaskedDiscovery DEF Said
      <4>2. CASE config_path # NONE
        BY <1>2, <2>2, <4>2 DEF Said, FileValues, MaskedSetting, EnvBefore
      <4>3. QED
        BY <4>1, <4>2
    <3>3. UNCHANGED indirected(Said("bearer"), Said("bearer_env"))
      BY <1>1, <3>1, <3>2 DEF indirected
    <3>4. QED
      BY <1>1, <3>3 DEF bearer
  <2>3. QED
    BY <2>1, <2>2
<1>8. UNCHANGED <<display_k, weight_vec>>
  BY <1>1 DEF display_k, weight_vec, parse_float_default, Malformed
<1>9. UNCHANGED weight_bm25
  BY <1>1, <1>8 DEF weight_bm25, parse_float_default, Malformed
<1>10. QED
  BY <1>4, <1>5, <1>6, <1>7, <1>8, <1>9

LEMMA MaskedEmbed ==
    ASSUME SettingsTyped, MaskedEdit
    PROVE  /\ UNCHANGED <<provider_raw, provider, model, model_info, dim, api_key>>
           /\ \A f \in DOMAIN FileDefaults : UNCHANGED InFile(f)
           /\ UNCHANGED Said("base_url")
<1>1. env' = env
  BY DEF MaskedEdit
<1>2. \A f \in DOMAIN FileValues : ~MaskedSetting(f) => UNCHANGED Said(f)
  BY MaskedSaid
<1>3. \A f \in {"provider", "model", "dim"} :
        /\ f \in DOMAIN FileValues
        /\ ~Set(env[EnvBefore[f]]) => ~MaskedSetting(f)
  BY DEF FileValues, MaskedSetting, EnvBefore
<1>4. UNCHANGED provider_raw
  BY <1>1, <1>2, <1>3 DEF EnvBefore, provider_raw, resolved_str, AutoSelected
<1>5. UNCHANGED provider
  BY <1>4 DEF provider
<1>6. UNCHANGED model
  BY <1>1, <1>2, <1>3, <1>5 DEF EnvBefore, model, resolved_str
<1>7. UNCHANGED model_info
  BY <1>5, <1>6 DEF model_info
<1>8. UNCHANGED dim
  BY <1>1, <1>2, <1>3, <1>7 DEF EnvBefore, dim, native_dim, resolved_u64, Malformed
<1>9. UNCHANGED api_key
  <2>1. UNCHANGED Said("api_key")
    BY <1>2 DEF FileValues, MaskedSetting, EnvBefore
  <2>2. ~Set(Said("api_key")) => UNCHANGED Said("api_key_env")
    <3>1. CASE config_path = NONE
      BY <3>1, MaskedDiscovery DEF Said
    <3>2. CASE config_path # NONE
      BY <1>2, <3>2 DEF Said, FileValues, MaskedSetting, EnvBefore
    <3>3. QED
      BY <3>1, <3>2
  <2>3. UNCHANGED indirected(Said("api_key"), Said("api_key_env"))
    BY <1>1, <2>1, <2>2 DEF indirected
  <2>4. QED
    BY <1>1, <1>5, <2>3 DEF api_key
<1>10. \A f \in DOMAIN FileDefaults \cup {"base_url"} :
         f \in DOMAIN FileValues /\ ~MaskedSetting(f)
  BY DEF FileDefaults, FileValues, MaskedSetting, EnvBefore
<1>11. QED
  BY <1>2, <1>4, <1>5, <1>6, <1>7, <1>8, <1>9, <1>10 DEF InFile

\* The settings are the same, and so is what is wrong with them.
LEMMA MaskedChangesNothing ==
    ASSUME SettingsTyped, MaskedEdit
    PROVE  UNCHANGED Config
<1>1. env' = env
  BY DEF MaskedEdit
<1> DEFINE texts == <<listen, allow_loopback, bearer, vault_dir, db_path, log_format,
                      debounce_ms, http_timeout_ms>>
           scores == <<display_k, weight_vec, weight_bm25>>
           embed == <<provider_raw, provider, model, model_info, dim, api_key>>
<1>2. UNCHANGED texts /\ UNCHANGED scores /\ UNCHANGED embed
  BY MaskedTexts, MaskedEmbed
<1>3. \A f \in DOMAIN FileDefaults : UNCHANGED InFile(f)
  BY MaskedEmbed
<1>4. UNCHANGED ScoringErrors
  BY <1>1, <1>2 DEF ScoringErrors, Malformed, Within, weight_sum
<1>5. UNCHANGED EmbedErrors
  BY <1>1, <1>2 DEF EmbedErrors, Malformed
<1>6. UNCHANGED PolicyErrors
  BY <1>3 DEF PolicyErrors, FileDefaults
<1>7. UNCHANGED LaneErrors
  BY <1>3 DEF LaneErrors, Within, FileDefaults
<1>8. UNCHANGED MediaErrors
  BY <1>2, <1>3, <1>6 DEF MediaErrors, media_enabled, FileDefaults
<1>9. UNCHANGED Errors
  BY <1>1, <1>2, <1>4, <1>5, <1>6, <1>7, <1>8 DEF Errors, Malformed, validate_listen
<1>10. UNCHANGED Accepted
  BY <1>9, MaskedDiscovery DEF Accepted
<1>11. UNCHANGED Embedder
  BY <1>2, MaskedEmbed DEF Embedder
<1>12. UNCHANGED [f \in DOMAIN FileDefaults |-> InFile(f)]
  BY <1>3
<1>13. QED
  BY <1>2, <1>10, <1>11, <1>12, MaskedDiscovery DEF Config

\* src/config.rs:136, src/config/file.rs:224, "CLI flags > env vars > TOML file
\* > defaults": however many masked settings are edited, in whichever areas, the
\* server comes up with the same settings, or refuses to as before.
THEOREM WhatIsMaskedIsUnread == ClientSpec => MaskedEditIsNoChange
<1>1. SettingsTyped
        => [ /\ UNCHANGED <<flag, home, env>>
             /\ \A f \in DOMAIN file : file'[f] # file[f] => MaskedSetting(f)
             /\ \A p \in Places : at'[p] # at[p] => MaskedPlace(p)
             => Config' = Config ]_vars
  BY MaskedChangesNothing DEF MaskedEdit
<1>2. QED
  BY <1>1, SettingsAreTyped, PTL DEF MaskedEditIsNoChange

=============================================================================
