------------------------------ MODULE Settings ------------------------------
(***************************************************************************)
(* Config::load (src/config.rs, src/config/file.rs): the server's settings *)
(* from its flag, the environment, a TOML file and the defaults, and the   *)
(* embedder that server.rs builds from them.  The operator edits one       *)
(* setting at a time; what a start would make of the settings as they are  *)
(* is the state function Config.                                           *)
(*                                                                         *)
(* A text is NONE where nothing is set, EMPTY for the empty text and BAD   *)
(* for one that does not parse or names nothing known.  Fractions are      *)
(* hundredths; NAN is the float that compares with nothing.  An address is *)
(* of a class: one "host" address, a "name", "loopback", "any" interface.  *)
(* The bearer "accented" has a character that is not visible ASCII.        *)
(* Edits stay within one area, the other settings are as in Base.          *)
(***************************************************************************)
EXTENDS Integers, Sequences, FiniteSets

CONSTANTS NONE, EMPTY, BAD, NAN

\* No key is unset or empty, and no variable's name.
ASSUME SettingsAssumption ==
    {NONE, EMPTY} \cap {"GEMINI_API_KEY", "VOYAGE_API_KEY", "gemini's", "voyage's", "file's"} = {}

VARIABLES
    area,   \* the settings that are edited
    flag,   \* --config is given
    home,   \* $XDG_CONFIG_HOME or $HOME is set
    at,     \* what is at each place a file is looked for
    env,    \* the environment
    file    \* what the file says, wherever it is

vars == <<area, flag, home, at, env, file>>

----------------------------------------------------------------------------
\* The settings and their values.

EnvValues == [
    DOCINDEX_CONFIG |-> {NONE, EMPTY, "path"},
    DOCINDEX_EMBED |-> {NONE, BAD, "gemini", "voyage"},
    DOCINDEX_EMBED_MODEL |-> {NONE, BAD, "gemini-embedding-2", "voyage-4"},
    DOCINDEX_EMBED_DIM |-> {NONE, BAD, 0, 1024},
    GEMINI_API_KEY |-> {NONE, "gemini's"},
    VOYAGE_API_KEY |-> {NONE, EMPTY, "voyage's"},
    DOCINDEX_VAULT_DIR |-> {NONE, BAD, "dir"},
    DOCINDEX_DB_PATH |-> {NONE, BAD, "dir"},
    DOCINDEX_LISTEN |-> {NONE, BAD, "host", "name", "loopback", "any"},
    DOCINDEX_ALLOW_LOOPBACK |-> {NONE, EMPTY, "yes", "no"},
    DOCINDEX_BEARER |-> {NONE, EMPTY, "bearer", "accented"},
    MY_BEARER |-> {NONE, EMPTY, "bearer2"},
    DOCINDEX_LOG_FORMAT |-> {NONE, BAD, "text"},
    DOCINDEX_DEBOUNCE_MS |-> {NONE, EMPTY, BAD, 0},
    DOCINDEX_HTTP_TIMEOUT_MS |-> {NONE, 1000},
    DOCINDEX_DISPLAY_K |-> {NONE, BAD, NAN, 0, 500},
    DOCINDEX_WEIGHT_VEC |-> {NONE, BAD, NAN, 0, 60, 120},
    DOCINDEX_WEIGHT_BM25 |-> {NONE, BAD, NAN, -20, 39, 45, 100}]

FileValues == [
    provider |-> {NONE, "gemini", "voyage"},
    model |-> {NONE, "gemini-embedding-001", "voyage-multimodal-3.5"},
    dim |-> {NONE, 768, 1024},
    api_key |-> {NONE, "file's"},
    api_key_env |-> {NONE, "VOYAGE_API_KEY"},
    base_url |-> {NONE, "proxy"},
    vault_dir |-> {NONE, BAD, "dir"},
    db_path |-> {NONE, "dir"},
    listen |-> {NONE, "host", "any"},
    allow_loopback |-> {NONE, TRUE, FALSE},
    bearer |-> {NONE, EMPTY, "bearer3"},
    bearer_env |-> {NONE, "MY_BEARER"},
    log_format |-> {NONE, BAD, "json"},
    debounce_ms |-> {NONE, 100},
    http_timeout_ms |-> {NONE, 100},
    media_enabled |-> {NONE, TRUE},
    globs |-> {NONE, BAD},
    exclude_types |-> {NONE, BAD, "pdf"},
    max_file_mb |-> {NONE, 0, 1},
    pdf_pages_per_chunk |-> {NONE, 0, 1, 7},
    pdf_dpi |-> {NONE, 71, 72, 300, 301},
    media_lane_enabled |-> {NONE, TRUE, FALSE},
    media_lane_fraction |-> {NONE, NAN, -1, 0, 100, 101},
    media_gate_image |-> {NONE, NAN, 0, 1},
    media_gate_pdf |-> {NONE, 0},
    media_display_image_best |-> {NONE, NAN, 0, 50},
    media_display_image_worst |-> {NONE, NAN, 25},
    media_display_pdf_best |-> {NONE, 60},
    media_display_pdf_worst |-> {NONE, 35, 61}]

Places == {"flag", "env", "home", "etc"}
Embedding == {"provider", "model", "dim", "api_key", "api_key_env"}

\* The areas, by what is edited in them.
Areas == [
    embed |-> [env |-> {"DOCINDEX_EMBED", "DOCINDEX_EMBED_MODEL", "DOCINDEX_EMBED_DIM",
                        "GEMINI_API_KEY", "VOYAGE_API_KEY"},
               file |-> Embedding \cup {"media_enabled"}, at |-> {}],
    listen |-> [env |-> {"DOCINDEX_LISTEN", "DOCINDEX_ALLOW_LOOPBACK"},
                file |-> {"listen", "allow_loopback"}, at |-> {}],
    bearer |-> [env |-> {"DOCINDEX_BEARER", "MY_BEARER"},
                file |-> {"bearer", "bearer_env"}, at |-> {}],
    paths |-> [env |-> {"DOCINDEX_VAULT_DIR", "DOCINDEX_DB_PATH", "DOCINDEX_LOG_FORMAT",
                        "DOCINDEX_DEBOUNCE_MS", "DOCINDEX_HTTP_TIMEOUT_MS"},
               file |-> {"vault_dir", "db_path", "log_format", "debounce_ms", "http_timeout_ms"},
               at |-> {}],
    weights |-> [env |-> {"DOCINDEX_DISPLAY_K", "DOCINDEX_WEIGHT_VEC", "DOCINDEX_WEIGHT_BM25"},
                 file |-> {}, at |-> {}],
    media |-> [env |-> {"DOCINDEX_EMBED"},
               file |-> {"media_enabled", "globs", "exclude_types", "max_file_mb",
                         "pdf_pages_per_chunk", "pdf_dpi", "base_url"}, at |-> {}],
    lane |-> [env |-> {},
              file |-> {"media_lane_enabled", "media_lane_fraction", "media_gate_image",
                        "media_gate_pdf", "media_display_image_best", "media_display_image_worst",
                        "media_display_pdf_best", "media_display_pdf_worst"}, at |-> {}],
    discovery |-> [env |-> {"DOCINDEX_CONFIG"},
                   file |-> {"base_url"}, at |-> Places]]

\* A server that starts: what is required is in the environment.
Base == [
    DOCINDEX_VAULT_DIR |-> "dir", DOCINDEX_DB_PATH |-> "dir",
    DOCINDEX_LISTEN |-> "host", DOCINDEX_BEARER |-> "bearer"]

Init ==
    /\ area \in DOMAIN Areas
    /\ flag = FALSE /\ home = TRUE
    /\ at = [p \in Places |-> IF p = "etc" THEN "file" ELSE "absent"]
    /\ env = [k \in DOMAIN EnvValues |-> IF k \in DOMAIN Base THEN Base[k] ELSE NONE]
    /\ file = [f \in DOMAIN FileValues |-> NONE]

\* A text that counts as set.
Set(text) == text \notin {NONE, EMPTY}

----------------------------------------------------------------------------
\* find_server_config: a place that is named is looked at whatever is there,
\* the well-known ones only if there is a file.

SearchOrder == [flag |-> 1, env |-> 2, home |-> 3, etc |-> 4]

\* Mutant: a named file that is missing is passed over.
LookedAtIfThere == [
    flag |-> flag /\ at["flag"] # "absent",
    env |-> Set(env.DOCINDEX_CONFIG) /\ at["env"] # "absent",
    home |-> home /\ at["home"] # "absent",
    etc |-> at["etc"] # "absent"]

LookedAt == [
    flag |-> flag,
    env |-> Set(env.DOCINDEX_CONFIG),
    home |-> home /\ at["home"] # "absent",
    etc |-> at["etc"] # "absent"]

config_path ==
    LET Looked == {p \in Places : LookedAt[p]}
    IN IF Looked = {} THEN NONE
       ELSE CHOOSE p \in Looked : \A q \in Looked : SearchOrder[p] <= SearchOrder[q]

\* read_required, parse_toml: not there, or not TOML of this schema.
FileError == config_path # NONE /\ at[config_path] # "file"

Said(f) == IF config_path = NONE THEN NONE ELSE file[f]

----------------------------------------------------------------------------
\* The layers.

resolved_str(e, f, default) == IF Set(e) THEN e ELSE IF Set(f) THEN f ELSE default

resolved_bool(e, f, default) ==
    IF Set(e) THEN e = "yes" ELSE IF f # NONE THEN f ELSE default

\* A number that does not parse is an error, and stands as the default.
Malformed(k) == env[k] = BAD
resolved_u64(k, f, default) ==
    IF Set(env[k]) THEN (IF Malformed(k) THEN default ELSE env[k])
    ELSE IF f # NONE THEN f ELSE default

indirected(inline, name) ==
    IF Set(inline) THEN inline
    ELSE IF Set(name) /\ Set(env[name]) THEN env[name] ELSE NONE

----------------------------------------------------------------------------
\* The registry.

Model(p, m, native, dims, media) ==
    [provider |-> p, model |-> m, native_dim |-> native, allowed_dims |-> dims,
     media_capable |-> media]
GEMINI_DIMS == {768, 1536, 3072}
VOYAGE_DIMS == {256, 512, 1024, 2048}
MODELS ==
    {Model("gemini", "gemini-embedding-001", 3072, GEMINI_DIMS, FALSE),
     Model("gemini", "gemini-embedding-2", 3072, GEMINI_DIMS, TRUE),
     Model("voyage", "voyage-multimodal-3.5", 1024, VOYAGE_DIMS, TRUE)}
    \cup {Model("voyage", m, 1024, VOYAGE_DIMS, FALSE) :
            m \in {"voyage-4", "voyage-4-lite", "voyage-4-large", "voyage-context-4",
                  "voyage-code-3"}}

default_model == [gemini |-> "gemini-embedding-2", voyage |-> "voyage-4", fake |-> "fake"]
key_env_var == [gemini |-> "GEMINI_API_KEY", voyage |-> "VOYAGE_API_KEY", fake |-> NONE]

\* The test embedder takes any model of any dim.
lookup(p, m) ==
    IF p = "fake" THEN Model("fake", "fake", 128, Nat, TRUE)
    ELSE IF \E i \in MODELS : i.provider = p /\ i.model = m
         THEN CHOOSE i \in MODELS : i.provider = p /\ i.model = m
         ELSE NONE

----------------------------------------------------------------------------
\* resolve_embed

\* With no provider named, the keys in the environment choose one.
AutoSelected ==
    IF Set(env.GEMINI_API_KEY) THEN "gemini"
    ELSE IF Set(env.VOYAGE_API_KEY) THEN "voyage" ELSE "fake"

\* Mutant: a key alone selects its provider.
KeyDecides ==
    IF Set(env.GEMINI_API_KEY) THEN "gemini"
    ELSE resolved_str(env.DOCINDEX_EMBED, Said("provider"), AutoSelected)

provider_raw == resolved_str(env.DOCINDEX_EMBED, Said("provider"), AutoSelected)

\* An unknown provider is an error, and stands as the test embedder.
provider == IF provider_raw = BAD THEN "fake" ELSE provider_raw
model == resolved_str(env.DOCINDEX_EMBED_MODEL, Said("model"), default_model[provider])
model_info == lookup(provider, model)
native_dim == IF model_info = NONE THEN 3072 ELSE model_info.native_dim
dim == resolved_u64("DOCINDEX_EMBED_DIM", Said("dim"), native_dim)

\* Mutant: a key of either service will do.
AnyKey ==
    resolved_str(env.GEMINI_API_KEY, env.VOYAGE_API_KEY,
                 indirected(Said("api_key"), Said("api_key_env")))

api_key ==
    LET said == indirected(Said("api_key"), Said("api_key_env"))
    IN IF key_env_var[provider] = NONE THEN said
       ELSE resolved_str(env[key_env_var[provider]], said, EMPTY)

\* Mutant: only a dim of the environment is held against the model.
EmbedErrorsOfEnv ==
    \/ provider_raw = BAD \/ model_info = NONE
    \/ Malformed("DOCINDEX_EMBED_DIM") \/ dim = 0
    \/ (model_info # NONE /\ Set(env.DOCINDEX_EMBED_DIM) /\ dim \notin model_info.allowed_dims)
    \/ (key_env_var[provider] # NONE /\ ~Set(api_key))

EmbedErrors ==
    \/ provider_raw = BAD \/ model_info = NONE
    \/ Malformed("DOCINDEX_EMBED_DIM") \/ dim = 0
    \/ (model_info # NONE /\ dim \notin model_info.allowed_dims)
    \/ (key_env_var[provider] # NONE /\ ~Set(api_key))

----------------------------------------------------------------------------
\* The other settings.

listen == resolved_str(env.DOCINDEX_LISTEN, Said("listen"), EMPTY)
allow_loopback == resolved_bool(env.DOCINDEX_ALLOW_LOOPBACK, Said("allow_loopback"), FALSE)
bearer ==
    resolved_str(env.DOCINDEX_BEARER, indirected(Said("bearer"), Said("bearer_env")), EMPTY)

\* Only an address, not a name, is seen to be loopback.
validate_listen == listen \in {"host", "name"} \/ (listen = "loopback" /\ allow_loopback)

vault_dir == resolved_str(env.DOCINDEX_VAULT_DIR, Said("vault_dir"), EMPTY)
db_path == resolved_str(env.DOCINDEX_DB_PATH, Said("db_path"), EMPTY)
log_format == resolved_str(env.DOCINDEX_LOG_FORMAT, Said("log_format"), "json")
debounce_ms == resolved_u64("DOCINDEX_DEBOUNCE_MS", Said("debounce_ms"), 5000)
http_timeout_ms == resolved_u64("DOCINDEX_HTTP_TIMEOUT_MS", Said("http_timeout_ms"), 30000)

parse_float_default(k, default) ==
    IF Set(env[k]) /\ ~Malformed(k) THEN env[k] ELSE default

display_k == parse_float_default("DOCINDEX_DISPLAY_K", 1000)
weight_vec == parse_float_default("DOCINDEX_WEIGHT_VEC", 55)

\* The other weight follows from weight_vec unless it is set itself.
weight_bm25 ==
    IF Set(env.DOCINDEX_WEIGHT_BM25) THEN parse_float_default("DOCINDEX_WEIGHT_BM25", 45)
    ELSE IF weight_vec = NAN THEN NAN ELSE 100 - weight_vec

Within(x, low, high) == x # NAN /\ low <= x /\ x <= high
weight_sum == IF NAN \in {weight_vec, weight_bm25} THEN NAN ELSE weight_vec + weight_bm25

\* display_k is refused for being at most 0, which NAN is not.
ScoringErrors ==
    \/ \E k \in {"DOCINDEX_DISPLAY_K", "DOCINDEX_WEIGHT_VEC", "DOCINDEX_WEIGHT_BM25"} : Malformed(k)
    \/ (display_k # NAN /\ display_k <= 0)
    \/ ~Within(weight_sum, 99, 101)
    \/ ~Within(weight_vec, 0, 100) \/ ~Within(weight_bm25, 0, 100)

\* MediaFile and SearchFile: what the file does not say has a default.
FileDefaults == [
    media_enabled |-> FALSE, globs |-> "any", exclude_types |-> "none",
    max_file_mb |-> 20, pdf_pages_per_chunk |-> 6, pdf_dpi |-> 150,
    media_lane_enabled |-> FALSE, media_lane_fraction |-> 25,
    media_gate_image |-> 40, media_gate_pdf |-> 45,
    media_display_image_best |-> 25, media_display_image_worst |-> 50,
    media_display_pdf_best |-> 35, media_display_pdf_worst |-> 60]
InFile(f) == IF Said(f) = NONE THEN FileDefaults[f] ELSE Said(f)

\* MediaPolicy::new
PolicyErrors ==
    \/ InFile("max_file_mb") = 0
    \/ InFile("pdf_pages_per_chunk") \notin 1..6
    \/ InFile("pdf_dpi") \notin 72..300
    \/ BAD \in {InFile("globs"), InFile("exclude_types")}

\* MediaLaneScoring::validate
LaneErrors ==
    \/ ~Within(InFile("media_lane_fraction"), 0, 100)
    \/ \E f \in {"media_gate_image", "media_gate_pdf", "media_display_image_best",
                 "media_display_image_worst", "media_display_pdf_best", "media_display_pdf_worst"} :
         InFile(f) = NAN \/ InFile(f) <= 0
    \/ InFile("media_display_image_best") >= InFile("media_display_image_worst")
    \/ InFile("media_display_pdf_best") >= InFile("media_display_pdf_worst")

\* A policy with an error stands as the default one, which is off.
media_enabled == InFile("media_enabled") /\ ~PolicyErrors

MediaErrors == media_enabled /\ (model_info = NONE \/ ~model_info.media_capable)

----------------------------------------------------------------------------
\* Config::load: all the errors there are, or the settings.

Errors ==
    \/ vault_dir # "dir" \/ db_path # "dir"
    \/ ~Set(listen) \/ ~validate_listen
    \/ ~Set(bearer)
    \/ log_format \notin {"json", "text"}
    \/ \E k \in {"DOCINDEX_DEBOUNCE_MS", "DOCINDEX_HTTP_TIMEOUT_MS"} : Malformed(k)
    \/ ScoringErrors \/ EmbedErrors \/ PolicyErrors \/ LaneErrors \/ MediaErrors

Accepted == ~FileError /\ ~Errors

\* build_embedder: what the embedder is made with.
Embedder == [
    client |-> provider, model |-> model, dim |-> dim, api_key |-> api_key,
    base_url |-> Said("base_url"),
    embeds_media |-> provider = "fake" \/ model \in {"gemini-embedding-2", "voyage-multimodal-3.5"}]

Config ==
    IF ~Accepted THEN NONE
    ELSE <<vault_dir, db_path, listen, allow_loopback, bearer, log_format, debounce_ms,
           http_timeout_ms, display_k, weight_vec, weight_bm25, Embedder,
           [f \in DOMAIN FileDefaults |-> InFile(f)], config_path>>

----------------------------------------------------------------------------
\* The operator's edits.

EditEnv(k) ==
    /\ \E v \in EnvValues[k] \ {env[k]} : env' = [env EXCEPT ![k] = v]
    /\ UNCHANGED <<area, flag, home, at, file>>

EditFile(f) ==
    /\ \E v \in FileValues[f] \ {file[f]} : file' = [file EXCEPT ![f] = v]
    /\ UNCHANGED <<area, flag, home, at, env>>

PutFile(p) ==
    /\ \E v \in {"absent", "broken", "file"} \ {at[p]} : at' = [at EXCEPT ![p] = v]
    /\ UNCHANGED <<area, flag, home, env, file>>

Invoke ==
    /\ area = "discovery"
    /\ flag' \in BOOLEAN /\ home' \in BOOLEAN
    /\ UNCHANGED <<area, at, env, file>>

Edit ==
    \/ \E k \in Areas[area].env : EditEnv(k)
    \/ \E f \in Areas[area].file : EditFile(f)
    \/ \E p \in Areas[area].at : PutFile(p)
    \/ Invoke

Spec == Init /\ [][Edit]_vars

----------------------------------------------------------------------------
\* What a client is asked to embed: the largest chunk a policy makes, in parts,
\* and the most parts a model takes of one input (media_prepare.rs).
MaxParts == 6

\* An accepted configuration can do what it promises: its model is one of the
\* provider's and returns vectors of that size, the service gets a key, and
\* media are only indexed with a client that embeds them, in chunks it takes.
AcceptedCanEmbed ==
    Accepted =>
        /\ \/ Embedder.client = "fake"
           \/ \E i \in MODELS :
                /\ i.provider = Embedder.client /\ i.model = Embedder.model
                /\ Embedder.dim \in i.allowed_dims
                /\ Set(Embedder.api_key)
        /\ Embedder.dim > 0
        /\ media_enabled =>
             Embedder.embeds_media /\ InFile("pdf_pages_per_chunk") \in 1..MaxParts

\* Without the file naming the other service's variable, the key in one
\* service's variable is not sent to the other.
KeyIsOfItsService ==
    Said("api_key_env") = NONE =>
        /\ provider = "gemini" => api_key # "voyage's"
        /\ provider = "voyage" => api_key # "gemini's"

\* The variable that goes before a setting of the file.
EnvBefore == [
    provider |-> "DOCINDEX_EMBED", model |-> "DOCINDEX_EMBED_MODEL",
    dim |-> "DOCINDEX_EMBED_DIM", vault_dir |-> "DOCINDEX_VAULT_DIR",
    db_path |-> "DOCINDEX_DB_PATH", listen |-> "DOCINDEX_LISTEN",
    allow_loopback |-> "DOCINDEX_ALLOW_LOOPBACK", bearer |-> "DOCINDEX_BEARER",
    bearer_env |-> "DOCINDEX_BEARER", log_format |-> "DOCINDEX_LOG_FORMAT",
    debounce_ms |-> "DOCINDEX_DEBOUNCE_MS", http_timeout_ms |-> "DOCINDEX_HTTP_TIMEOUT_MS"]

MaskedSetting(f) ==
    \/ f \in DOMAIN EnvBefore /\ Set(env[EnvBefore[f]])
    \/ f = "bearer_env" /\ Set(file.bearer)
    \/ f = "api_key_env" /\ Set(file.api_key)

\* A named place is final, and so is the first well-known one with a file.
MaskedPlace(p) ==
    \/ p # "flag" /\ flag
    \/ p \in {"home", "etc"} /\ Set(env.DOCINDEX_CONFIG)
    \/ p = "etc" /\ home /\ at["home"] # "absent"

\* docs and comments say "CLI flags > env vars > TOML file > defaults"
\* (src/config.rs:136) and that a named file that does not exist is an error
\* (src/config/file.rs:224): an edit of what something above masks changes
\* nothing, neither the settings nor whether they are accepted.
MaskedEditIsNoChange ==
    [][ /\ UNCHANGED <<flag, home, env>>
        /\ \A f \in DOMAIN file : file'[f] # file[f] => MaskedSetting(f)
        /\ \A p \in Places : at'[p] # at[p] => MaskedPlace(p)
        => Config' = Config ]_vars

\* What the index was made with; the server refuses to open it with another.
Identity == <<provider, model, dim>>
IdentitySettings ==
    <<env.DOCINDEX_EMBED, env.DOCINDEX_EMBED_MODEL, env.DOCINDEX_EMBED_DIM,
      Said("provider"), Said("model"), Said("dim")>>

\* Where the provider is named, only an edit of provider, model or dim changes
\* what the index has to be made with; adding a key for another purpose, or
\* switching media on, does not ask for a reembed.
IdentityIsDeliberate ==
    [][ /\ UNCHANGED IdentitySettings
        /\ Set(env.DOCINDEX_EMBED) \/ Set(Said("provider"))
        => UNCHANGED Identity ]_vars

=============================================================================
