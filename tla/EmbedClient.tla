---------------------------- MODULE EmbedClient ----------------------------
(***************************************************************************)
(* AnyEmbedder (src/embed/mod.rs) and the clients behind it                *)
(* (src/embed/voyage.rs, src/embed/gemini.rs, src/embed/fake.rs): a call   *)
(* embeds the inputs of a file as documents, or one text as a query.  The  *)
(* inputs go out in batches of the model's size, each batch is retried     *)
(* with a growing delay, and the vectors are put back in the order of the  *)
(* inputs.                                                                 *)
(*                                                                         *)
(* An input is its number; its vector names that number and what it was    *)
(* asked for as.  A delay is a number of seconds.                          *)
(***************************************************************************)
EXTENDS Naturals, Sequences, FiniteSets, SequencesExt

CONSTANTS
    MAX_BATCH, MAX_MULTIMODAL_BATCH, EMBEDDING_2_BATCH_SIZE,  \* inputs of one request
    RetryAfters,      \* what a Retry-After header may say
    RETRY_AFTER_MAX,  \* the longest of them that is waited for
    BaseDelay,        \* the first delay of the backoff
    MaxInputs,        \* bound: inputs of a call
    MaxRetries        \* bound: retries of a request

ASSUME EmbedClientAssumption ==
    /\ {MAX_BATCH, MAX_MULTIMODAL_BATCH, EMBEDDING_2_BATCH_SIZE} \subseteq Nat \ {0}
    /\ RetryAfters \subseteq Nat
    /\ {RETRY_AFTER_MAX, BaseDelay, MaxInputs, MaxRetries} \subseteq Nat
    /\ BaseDelay <= RETRY_AFTER_MAX

VARIABLES
    model,
    configured,   \* the client has a key, a model and a dim
    role,         \* "document" or "query"
    inputs,       \* "text" or "media", each
    max_retries,
    sent,         \* how many of them have been answered for
    out,          \* the vectors so far
    attempt,      \* requests made for this batch
    delay,        \* the wait before the next one
    waited,       \* what has been waited for this batch
    pc            \* "start", "send", "wait", "ok", "failed" or "exhausted"

call == <<model, configured, role, inputs, max_retries>>
vars == <<call, sent, out, attempt, delay, waited, pc>>

Voyage == {"voyage-4", "voyage-multimodal-3.5"}
Gemini == {"gemini-embedding-001", "gemini-embedding-2"}
Models == Voyage \cup Gemini \cup {"fake"}

\* The models that refuse media: for Voyage at once, for Gemini at the input.
TextOnly == {"voyage-4", "gemini-embedding-001"}

Init ==
    /\ model \in Models
    /\ configured \in BOOLEAN
    /\ \/ role = "document" /\ inputs \in UNION {[1..n -> {"text", "media"}] : n \in 0..MaxInputs}
       \/ role = "query" /\ inputs = <<"text">>
    /\ max_retries \in 0..MaxRetries
    /\ sent = 0 /\ out = <<>>
    /\ attempt = 0
    /\ delay = BaseDelay /\ waited = 0
    /\ pc = "start"

---------------------------------------------------------------------------
\* What becomes of a call before its first request.

Asked(k) == [of |-> k, as |-> role]

\* The fake answers at once; Voyage refuses before anything is paid for; a call
\* of no inputs has no vectors, and for Gemini is not even looked into.
Begin ==
    /\ pc = "start"
    /\ CASE model = "fake" ->
              out' = [k \in DOMAIN inputs |-> Asked(k)] /\ pc' = "ok"
         [] model \in Voyage /\ ~configured ->
              pc' = "failed" /\ UNCHANGED out
         [] model = "voyage-4" /\ "media" \in ToSet(inputs) ->
              pc' = "failed" /\ UNCHANGED out
         [] OTHER ->
              pc' = (IF inputs = <<>> THEN "ok" ELSE "send") /\ UNCHANGED out
    /\ UNCHANGED <<call, sent, attempt, delay, waited>>

\* Gemini looks at its settings, and the old model at each input, only when it
\* comes to the request.
Refusal ==
    /\ model \in Gemini
    /\ ~configured \/ (model \in TextOnly /\ inputs[sent + 1] = "media")

RefuseInput ==
    /\ pc = "send" /\ attempt = 0 /\ Refusal
    /\ pc' = "failed"
    /\ UNCHANGED <<call, sent, out, attempt, delay, waited>>

---------------------------------------------------------------------------
\* What the service answers.

Sending == pc = "send" /\ ~Refusal

Least(a, b) == IF a <= b THEN a ELSE b

BatchSize ==
    CASE model = "voyage-4" -> MAX_BATCH
      [] model = "voyage-multimodal-3.5" -> MAX_MULTIMODAL_BATCH
      [] model = "gemini-embedding-2" -> EMBEDDING_2_BATCH_SIZE
      [] OTHER -> 1

\* The inputs of the request to be made.
BatchLen == Least(BatchSize, Len(inputs) - sent)

\* Voyage numbers the vectors of a batch and may give them in any order;
\* Gemini gives them in the order of the request.  Either may come up short,
\* but for the request of one input, which has one vector.
Answers ==
    LET vector(k) == [index |-> k, vector |-> Asked(sent + k)]
        single == model \in Gemini /\ (model \in TextOnly \/ role = "query")
    IN UNION {{[k \in 1..len |-> vector(s[k])] :
                 s \in IF model \in Voyage THEN {t \in [1..len -> 1..BatchLen] : IsInjective(t)}
                                           ELSE {[k \in 1..len |-> k]}} :
                len \in IF single THEN {1} ELSE {BatchLen, BatchLen - 1}}

\* Mutant: the vectors are taken in the order they come.
DecodeAsItComes(answer) == [k \in DOMAIN answer |-> answer[k].vector]

\* The vectors of an answer: Voyage's are sorted by their number.
Decode(answer) ==
    LET Rank(j) == Cardinality({i \in DOMAIN answer : answer[i].index <= answer[j].index})
        Place(k) == IF model \in Voyage THEN CHOOSE j \in DOMAIN answer : Rank(j) = k ELSE k
    IN [k \in DOMAIN answer |-> answer[Place(k)].vector]

\* An answer is used when it has a vector per input and each is of the
\* configured size.
Complete(answer, sizes) == sizes /\ Len(answer) = BatchLen

Answered ==
    /\ Sending
    /\ \E answer \in Answers, sizes \in BOOLEAN :
         IF Complete(answer, sizes)
         THEN /\ out' = out \o Decode(answer)
              /\ sent' = sent + BatchLen
              /\ pc' = IF sent' >= Len(inputs) THEN "ok" ELSE "send"
         ELSE /\ pc' = "failed"
              /\ UNCHANGED <<out, sent>>
    /\ attempt' = 0 /\ delay' = BaseDelay
    /\ waited' = 0
    /\ UNCHANGED call

---------------------------------------------------------------------------
\* The failures.

Attempts == max_retries + 1

\* The loop goes round, or has gone round for the last time.
TryAgain(next) ==
    /\ attempt' = attempt + 1
    /\ delay' = next
    /\ pc' = IF attempt' < Attempts THEN "wait" ELSE "exhausted"
    /\ UNCHANGED <<call, sent, out, waited>>

\* Mutant: a request that never got through starts the count over.
TransportErrorUncounted ==
    /\ Sending
    /\ pc' = "wait"
    /\ attempt' = 0 /\ delay' = BaseDelay /\ waited' = 0
    /\ UNCHANGED <<call, sent, out>>

\* No answer at all.
TransportError ==
    /\ Sending
    /\ TryAgain(delay)

ServerError ==
    /\ Sending
    /\ TryAgain(delay)

\* Mutant: the header is believed whatever it says.
DelayAsTold(after, backoff) == after

\* effective_retry_delay
EffectiveRetryDelay(after, backoff) == Least(after, RETRY_AFTER_MAX)

\* 429: only Voyage looks at a Retry-After.
TooManyRequests ==
    /\ Sending
    /\ \/ TryAgain(delay)
       \/ /\ model \in Voyage
          /\ \E after \in RetryAfters : TryAgain(EffectiveRetryDelay(after, delay))

\* Any other status, or an answer that breaks off, ends the call.
Refused ==
    /\ Sending
    /\ pc' = "failed"
    /\ attempt' = attempt + 1
    /\ UNCHANGED <<call, sent, out, delay, waited>>

\* The wait before a retry, and the delay doubled for the next.
Wait ==
    /\ pc = "wait"
    /\ waited' = waited + delay
    /\ delay' = 2 * delay
    /\ pc' = "send"
    /\ UNCHANGED <<call, sent, out, attempt>>

Next ==
    \/ Begin \/ RefuseInput
    \/ Answered \/ Refused
    \/ TransportError \/ ServerError \/ TooManyRequests
    \/ Wait

Spec == Init /\ [][Next]_vars /\ WF_vars(Next)

---------------------------------------------------------------------------
\* Every vector is that of the input at its place, asked for in the role of the
\* call, over all the batches and whatever order the service answers in; and a
\* call that succeeds has a vector for every input.
VectorsMatchInputs ==
    /\ \A k \in DOMAIN out : out[k] = [of |-> k, as |-> role]
    /\ pc = "ok" => Len(out) = Len(inputs)

\* A call gives up only when the retries it is configured for are used up, and
\* (voyage.rs:22-24) no Retry-After stalls the indexer beyond the clamp and the
\* doublings that follow it.
RetriesAreBounded ==
    /\ pc = "exhausted" => attempt = max_retries + 1
    /\ waited <= RETRY_AFTER_MAX * (2 ^ max_retries - 1)

\* A call ends, whatever the service does.
CallEnds == <>(pc \in {"ok", "failed", "exhausted"})

=============================================================================
