------------------------------- MODULE Client -------------------------------
(***************************************************************************)
(* docindex-search (src/bin/search.rs, src/cli/) against a server          *)
(* (src/api/) that was started with the settings of the moment: from a     *)
(* command and the client's own flags, environment and file to the request, *)
(* the answer and the exit code.                                           *)
(*                                                                         *)
(* The client and the server are two processes: the client gives up on a   *)
(* request the server may still be handling.  Other programs ask the       *)
(* server, too, in requests that the client does not make.                 *)
(***************************************************************************)
EXTENDS Settings

ASSUME ClientAssumption == NONE \notin 0..4

VARIABLES
    served,    \* the bearer the server runs with, NONE before it is started
    pc,        \* the asker: "ready", "waiting", "done" or "helped"; "other" if another
    request,   \* what went out, NONE before
    shown,     \* of the hits, the paths the command wants: all or a prefix
    stage,     \* how far the server is with it
    work,      \* what the server did for it
    response,  \* what it answered, NONE before
    code       \* the exit code, NONE before

client == <<served, pc, request, shown, stage, work, response, code>>
allvars == <<vars, client>>

HitPaths == {"work/a", "home/b"}

CliInit ==
    /\ Init /\ served = NONE
    /\ pc = "ready" /\ request = NONE /\ shown = HitPaths
    /\ stage = "idle" /\ work = {} /\ response = NONE /\ code = NONE

----------------------------------------------------------------------------
\* The client's settings.

CliBase == [
    flag_server |-> NONE, env_server |-> NONE, file_server |-> "server",
    flag_token |-> NONE, env_token |-> NONE, file_token |-> NONE,
    file_token_env |-> NONE, MY_TOKEN |-> "bearer2",
    flag_limit |-> NONE, env_limit |-> NONE, file_limit |-> NONE,
    json |-> FALSE, env_format |-> NONE, file_format |-> NONE,
    named |-> FALSE,  \* the file is named by --config or $DOCINDEX_CLI_CONFIG
    at |-> "file"]    \* what is there, or at the well-known place

\* What is varied together.
CliSettings ==
    {[CliBase EXCEPT !.flag_server = a, !.env_server = b, !.file_server = c] :
        a \in {NONE, EMPTY, "server"}, b \in {NONE, EMPTY, "server"}, c \in {NONE, EMPTY, "server"}}
    \cup
    {[CliBase EXCEPT !.flag_token = a, !.env_token = b, !.file_token = c, !.file_token_env = d] :
        a \in {NONE, EMPTY, "bearer", "accented"}, b \in {NONE, EMPTY, "bearer2"},
        c \in {NONE, EMPTY, "bearer3"}, d \in {NONE, "MY_TOKEN"}}
    \cup
    {[CliBase EXCEPT !.flag_limit = a, !.env_limit = b, !.file_limit = c] :
        a \in {NONE, 0, 1}, b \in {NONE, EMPTY, BAD, 0, 1}, c \in {NONE, 0, 1}}
    \cup
    {[CliBase EXCEPT !.json = a, !.env_format = b, !.file_format = c] :
        a \in BOOLEAN, b \in {NONE, EMPTY, BAD, "json"}, c \in {NONE, BAD, "json"}}
    \cup
    {[CliBase EXCEPT !.named = a, !.at = b, !.file_token = "bearer"] :
        a \in BOOLEAN, b \in {"absent", "broken", "file"}}

\* find_cli_config: as the server's, without a system-wide place.
CliFileError(c) == c.at = "broken" \/ (c.named /\ c.at = "absent")
InCliFile(c, f) == IF c.at = "file" THEN c[f] ELSE NONE

\* The first of the alternatives that is set; a flag counts even if empty.
FirstSet(a, b, default) == IF Set(a) THEN a ELSE IF Set(b) THEN b ELSE default
cli_server(c) ==
    IF c.flag_server # NONE THEN c.flag_server
    ELSE FirstSet(c.env_server, InCliFile(c, "file_server"), NONE)

cli_token(c) ==
    IF c.flag_token # NONE THEN c.flag_token
    ELSE LET named == IF Set(InCliFile(c, "file_token_env")) THEN c.MY_TOKEN ELSE NONE
         IN FirstSet(c.env_token, FirstSet(InCliFile(c, "file_token"), named, EMPTY), EMPTY)

cli_limit(c) ==
    IF c.flag_limit # NONE THEN c.flag_limit
    ELSE IF Set(c.env_limit) THEN c.env_limit
    ELSE IF InCliFile(c, "file_limit") # NONE THEN InCliFile(c, "file_limit") ELSE 10

cli_format(c) ==
    IF c.json THEN "json" ELSE FirstSet(c.env_format, InCliFile(c, "file_format"), "text")

\* CliConfig::load
CliErrors(c) ==
    \/ CliFileError(c)
    \/ cli_server(c) = NONE
    \/ cli_limit(c) \in {BAD, 0}
    \/ cli_format(c) = BAD

----------------------------------------------------------------------------
\* The command.

\* A text of "blank" is white space; "words" is a query and also no path
\* of the index.
Commands ==
    [verb : {"bare", "search", "similar", "health"},
     arg : {EMPTY, "blank", "words", "note"},
     media : {NONE, EMPTY, BAD, "pdf"},
     path_filter : {NONE, "work/"}]
BaseCommand == [verb |-> "search", arg |-> "words", media |-> NONE, path_filter |-> NONE]

verb(cmd) == IF cmd.verb = "bare" THEN "search" ELSE cmd.verb

\* run: what is refused before anything is sent.  A path may be blank.
UsageErrors(cmd, c) ==
    \/ (cmd.verb = "bare" /\ cmd.arg = EMPTY)
    \/ (cmd.media # NONE /\ verb(cmd) # "search")
    \/ cmd.media = BAD
    \/ CliErrors(c)
    \/ (verb(cmd) = "search" /\ cmd.arg \in {EMPTY, "blank"})

\* The client's methods: a bearer header goes out even with an empty token.
Request(cmd, c) ==
    [server |-> cli_server(c), route |-> verb(cmd),
     scheme |-> "Bearer", token |-> cli_token(c),
     body |-> cmd.arg, limit |-> cli_limit(c),
     media_only |-> cmd.media # NONE,
     media_types |-> IF cmd.media = "pdf" THEN "pdf" ELSE NONE]

\* --path-filter: the client drops what the server found elsewhere.
Wanted(cmd) == IF cmd.path_filter = NONE THEN HitPaths ELSE {"work/a"}

Exit(n) == pc' = "done" /\ code' = n

Send(r) == request' = r /\ pc' = "waiting" /\ UNCHANGED code

RunCommand ==
    /\ pc = "ready" /\ area = "bearer" /\ served # NONE
    /\ \E cmd \in Commands, c \in CliSettings :
         /\ cmd = BaseCommand \/ c = [CliBase EXCEPT !.file_token = "bearer"]
         /\ shown' = Wanted(cmd)
         /\ IF UsageErrors(cmd, c) THEN Exit(1) /\ UNCHANGED request
            ELSE Send(Request(cmd, c))
    /\ UNCHANGED <<vars, served, stage, work, response>>

\* clap refuses a command line it cannot parse, by an exit of its own.
Unparsed ==
    /\ pc = "ready" /\ area = "bearer" /\ served # NONE
    /\ Exit(2)
    /\ UNCHANGED <<vars, served, request, shown, stage, work, response>>

\* clap answers --help and --version itself.
Help ==
    /\ pc = "ready" /\ area = "bearer" /\ served # NONE
    /\ pc' = "helped" /\ code' = 0
    /\ UNCHANGED <<vars, served, request, shown, stage, work, response>>

\* Any other program.
OtherRequests ==
    [server : {"server"}, route : {"search", "similar"}, scheme : {NONE, "Bearer", "bearer", "Basic"},
     token : {EMPTY, "bearer", "accented"}, body : {BAD, EMPTY, "blank", "words", "note"},
     limit : {0, 1}, media_only : BOOLEAN, media_types : {NONE, BAD, "pdf"}]

OtherAsks ==
    /\ pc = "ready" /\ area = "bearer" /\ served # NONE
    /\ \E r \in OtherRequests : request' = r
    /\ pc' = "other"
    /\ UNCHANGED <<vars, served, shown, stage, work, response, code>>

\* No connection, or no answer within the client's 30 seconds.
NetworkFails ==
    /\ pc = "waiting"
    /\ Exit(2)
    /\ UNCHANGED <<vars, served, request, shown, stage, work, response>>

----------------------------------------------------------------------------
\* The server.

\* server.rs: the bearer of the settings is the server's until it ends.
Start ==
    /\ served = NONE /\ area = "bearer" /\ Accepted
    /\ served' = bearer
    /\ UNCHANGED <<vars, pc, request, shown, stage, work, response, code>>

Reply(status, hits) ==
    /\ response' = [status |-> status, hits |-> hits, authenticated |-> FALSE]
    /\ stage' = "replied"

\* HeaderValue::to_str: a header with a character that is not visible ASCII
\* cannot be read.
to_str(token) == token # "accented"

\* An empty token matches nothing, for no bearer is empty.
has_valid_bearer(r) ==
    to_str(r.token) /\ r.scheme \in {"Bearer", "bearer"} /\ r.token = served

\* Mutant: the count is read before the bearer is.
HealthCounted ==
    /\ response' = [status |-> 200, hits |-> {}, authenticated |-> has_valid_bearer(request)]
    /\ work' = {"count"}
    /\ stage' = "replied"

\* health: public, and says no more than that the server is up.
Health ==
    IF ~has_valid_bearer(request) THEN
        /\ response' = [status |-> 200, hits |-> {}, authenticated |-> FALSE]
        /\ stage' = "replied" /\ UNCHANGED work
    ELSE
        /\ work' = {"count"}
        /\ \/ response' = [status |-> 200, hits |-> {}, authenticated |-> TRUE] /\ stage' = "replied"
           \/ Reply(500, {})

\* build_router: the bearer is looked at before the body is.
Receive ==
    /\ request # NONE /\ stage = "idle" /\ request.server = "server"
    /\ IF request.route = "health" THEN Health
       ELSE /\ UNCHANGED work
            /\ IF has_valid_bearer(request) THEN stage' = "handler" /\ UNCHANGED response
               ELSE Reply(401, {})
    /\ UNCHANGED <<vars, served, pc, request, shown, code>>

\* The handlers' own checks.
BadRequest(r) ==
    \/ r.body \in {BAD, EMPTY, "blank"}
    \/ r.route = "search" /\ ~r.media_only /\ r.media_types # NONE
    \/ r.route = "search" /\ r.media_types = BAD

Handle ==
    /\ stage = "handler"
    /\ IF BadRequest(request) THEN Reply(400, {})
       ELSE /\ stage' = IF request.route = "search" THEN "embed" ELSE "read"
            /\ UNCHANGED response
    /\ UNCHANGED <<vars, served, pc, request, shown, work, code>>

\* search_with_options: the service fails, answers in another dim, or answers.
Embed ==
    /\ stage = "embed"
    /\ work' = work \cup {"embed"}
    /\ \/ Reply(500, {})
       \/ Reply(400, {})
       \/ stage' = "read" /\ UNCHANGED response
    /\ UNCHANGED <<vars, served, pc, request, shown, code>>

LIMIT_MAX == 50
clamp_limit(n) == IF n = 0 THEN 10 ELSE IF n < LIMIT_MAX THEN n ELSE LIMIT_MAX

\* The store fails, has no such path, or has hits.
Read ==
    /\ stage = "read"
    /\ work' = work \cup {"read"}
    /\ \/ Reply(500, {})
       \/ /\ request.route = "similar" => request.body = "note"
          /\ \E hits \in SUBSET HitPaths :
               Cardinality(hits) <= clamp_limit(request.limit) /\ Reply(200, hits)
       \/ request.route = "similar" /\ request.body # "note" /\ Reply(404, {})
    /\ UNCHANGED <<vars, served, pc, request, shown, code>>

----------------------------------------------------------------------------
\* The answer.

\* handle_response and exit_for_client_error
exit_for_client_error == IF response.status \in {401, 403} THEN 3 ELSE 2

\* Mutant: the hits are counted before the filter.
exit_code_unfiltered ==
    IF response.status # 200 THEN exit_for_client_error
    ELSE IF request.route = "health" THEN IF response.authenticated THEN 0 ELSE 3
    ELSE IF response.hits = {} THEN 4 ELSE 0

\* run_health; run_search_like filters what the server found for the limit.
exit_code ==
    IF response.status # 200 THEN exit_for_client_error
    ELSE IF request.route = "health" THEN IF response.authenticated THEN 0 ELSE 3
    ELSE IF response.hits \cap shown = {} THEN 4 ELSE 0

GetAnswer ==
    /\ pc = "waiting" /\ response # NONE
    /\ Exit(exit_code)
    /\ UNCHANGED <<vars, served, request, shown, stage, work, response>>

Configure ==
    /\ served = NONE
    /\ Edit
    /\ UNCHANGED client

Next ==
    \/ Configure \/ Start
    \/ RunCommand \/ Unparsed \/ Help \/ OtherAsks \/ NetworkFails \/ GetAnswer
    \/ Receive \/ Handle \/ Embed \/ Read

ClientSpec == CliInit /\ [][Next]_allvars

----------------------------------------------------------------------------
\* src/bin/search.rs:10 and README.md:133, "0 ok, 1 usage/config error, 2
\* network/server error, 3 authentication failure, 4 no results": what a script
\* may conclude from the exit code about what the server did.  (A command line
\* that clap refuses ends with 2 as well, unlike what is said of 1, and one that
\* asks for help with 0; a bearer with an accent fails whoever has it.)
ExitTellsOutcome ==
    /\ code = 1 \/ pc = "helped" => request = NONE /\ work = {}
    /\ code = 3 => (request.token # served \/ served = "accented") /\ work = {}
    /\ code \in {0, 4} /\ pc # "helped" =>
         request.token = served /\ work \cap {"count", "read"} # {}
    /\ code = 4 => response.hits \cap shown = {}
    /\ code = 0 /\ pc # "helped" /\ request.route # "health" => response.hits \cap shown # {}

\* src/api/mod.rs:29, "/health is public; /search and /similar sit behind
\* require_bearer": nothing is embedded, read or counted for a request without
\* the bearer that the server was started with, none of its mistakes is told,
\* and a request that has it is never turned away; with a bearer that is not
\* visible ASCII, which the settings accept, every request is.
OnlyTheBearerIsServed ==
    LET bears == /\ request.scheme \in {"Bearer", "bearer"}
                 /\ request.token = served /\ served # "accented"
    IN request # NONE /\ stage # "idle" =>
         /\ (work # {} \/ stage \in {"handler", "embed", "read"}) => bears
         /\ response # NONE =>
              IF request.route = "health"
              THEN response.status = 200 => response.authenticated = bears
              ELSE response.status = 401 <=> ~bears

=============================================================================
