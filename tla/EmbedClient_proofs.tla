------------------------- MODULE EmbedClient_proofs -------------------------
(***************************************************************************)
(* Proofs about module EmbedClient: for batches of any size, any number of *)
(* inputs and any number of retries, a call returns the vector of each     *)
(* input at its place, and waits no longer than the clamp and the          *)
(* doublings allow.                                                        *)
(***************************************************************************)
EXTENDS EmbedClient, SequenceTheorems, FunctionTheorems, FiniteSetTheorems, TLAPS

---------------------------------------------------------------------------
(* The doublings of a delay: 2^n counts the subsets of 1..n.               *)

LEMMA PowerCounts ==
    ASSUME NEW n \in Nat
    PROVE  /\ IsFiniteSet(SUBSET (1..n)) /\ Cardinality(SUBSET (1..n)) = 2^n
           /\ 2^n \in Nat \ {0}
<1>1. IsFiniteSet(1..n) /\ Cardinality(1..n) = n
  BY FS_Interval
<1>2. IsFiniteSet(SUBSET (1..n)) /\ Cardinality(SUBSET (1..n)) = 2^n
  BY <1>1, FS_SUBSET
<1>3. 2^n \in Nat
  BY <1>2, FS_CardinalityType
<1>4. 2^n # 0
  BY <1>2, FS_EmptySet
<1>5. QED
  BY <1>2, <1>3, <1>4

LEMMA PowerOfZero == 2^0 = 1
<1>1. SUBSET (1..0) = {{}}
  OBVIOUS
<1>2. QED
  BY <1>1, PowerCounts, FS_Singleton

\* A subset of 1..n + 1 has n + 1 or has not.
LEMMA PowerDoubles ==
    ASSUME NEW n \in Nat
    PROVE  2^(n + 1) = 2 * 2^n
<1> DEFINE A == SUBSET (1..n)
           B == {X \cup {n + 1} : X \in A}
           f == [X \in A |-> X \cup {n + 1}]
<1>1. IsFiniteSet(A) /\ Cardinality(A) = 2^n /\ 2^n \in Nat
  BY PowerCounts
<1>2. n + 1 \notin 1..n
  OBVIOUS
<1>3. SUBSET (1..(n + 1)) = A \cup B
  <2>1. 1..n \subseteq 1..(n + 1) /\ n + 1 \in 1..(n + 1) /\ (1..(n + 1)) \ {n + 1} \subseteq 1..n
    OBVIOUS
  <2>2. ASSUME NEW X \in SUBSET (1..(n + 1))
        PROVE  X \in A \cup B
    <3>1. X \ {n + 1} \in A
      BY <2>1
    <3>2. n + 1 \in X => X = (X \ {n + 1}) \cup {n + 1}
      OBVIOUS
    <3>3. n + 1 \notin X => X = X \ {n + 1}
      OBVIOUS
    <3>4. QED
      BY <3>1, <3>2, <3>3
  <2>3. QED
    BY <2>1, <2>2
<1>4. A \cap B = {}
  BY <1>2
<1>5. IsFiniteSet(B) /\ Cardinality(B) = 2^n
  <2>1. f \in [A -> B] /\ \A Y \in B : \E X \in A : f[X] = Y
    OBVIOUS
  <2>2. \A X, Y \in A : f[X] = f[Y] => X = Y
    <3>1. \A X \in A : X = f[X] \ {n + 1}
      BY <1>2
    <3>2. QED
      BY <3>1
  <2> HIDE DEF f, A, B
  <2>3. f \in Bijection(A, B)
    BY <2>1, <2>2, Fun_IsBij, Fun_IsSurj
  <2>4. QED
    BY <1>1, <2>3, FS_Bijection DEF ExistsBijection
<1> HIDE DEF f, A, B
<1>6. Cardinality(A \cup B) = Cardinality(A) + Cardinality(B) - Cardinality(A \cap B)
  BY <1>1, <1>5, FS_Union
<1>7. Cardinality(A \cap B) = 0
  BY <1>4, FS_EmptySet
<1>8. Cardinality(SUBSET (1..(n + 1))) = 2^(n + 1)
  BY PowerCounts
<1>9. 2^(n + 1) = 2^n + 2^n
  BY <1>1, <1>3, <1>5, <1>6, <1>7, <1>8, PowerCounts
<1>10. QED
  BY <1>1, <1>9

LEMMA PowerGrows ==
    ASSUME NEW m \in Nat, NEW n \in Nat, m <= n
    PROVE  2^m <= 2^n
<1>1. SUBSET (1..m) \in SUBSET (SUBSET (1..n))
  OBVIOUS
<1>2. Cardinality(SUBSET (1..m)) <= Cardinality(SUBSET (1..n))
  BY <1>1, PowerCounts, FS_Subset
<1>3. QED
  BY <1>2, PowerCounts

---------------------------------------------------------------------------
(* The vectors of an answer.                                               *)

Roles == {"document", "query"}
Told == [of : Nat, as : Roles]

CallTyped ==
    /\ model \in Models /\ role \in Roles
    /\ inputs \in Seq({"text", "media"})
    /\ max_retries \in Nat

LEMMA BatchesAreWithin ==
    ASSUME CallTyped, sent \in Nat, sent < Len(inputs)
    PROVE  BatchLen \in Nat \ {0} /\ BatchLen <= Len(inputs) - sent
<1>1. BatchSize \in Nat \ {0}
  BY EmbedClientAssumption DEF BatchSize
<1>2. QED
  BY <1>1 DEF BatchLen, Least, CallTyped

\* The number of an answer's entries with numbers up to that of entry j is
\* that number, when no number is given twice and none is left out.
LEMMA RankIsNumber ==
    ASSUME NEW n \in Nat, NEW t \in [1..n -> 1..n], IsInjective(t), NEW j \in 1..n
    PROVE  Cardinality({i \in 1..n : t[i] <= t[j]}) = t[j]
<1> DEFINE S == {i \in 1..n : t[i] <= t[j]}
           T == 1..t[j]
           f == [i \in S |-> t[i]]
<1>1. IsFiniteSet(1..n) /\ IsFiniteSet(T) /\ Cardinality(T) = t[j]
  BY FS_Interval
<1>2. t \in Surjection(1..n, 1..n)
  <2>1. t \in Injection(1..n, 1..n)
    BY DEF Injection
  <2>2. QED
    BY <1>1, <2>1, FS_Injection
<1>3. \A y \in T : \E i \in S : f[i] = y
  <2>1. \A y \in 1..n : \E i \in 1..n : t[i] = y
    BY <1>2 DEF Surjection
  <2>2. \A y \in T : y \in 1..n /\ y <= t[j]
    OBVIOUS
  <2>3. QED
    BY <2>1, <2>2
<1>4. f \in [S -> T] /\ \A a, b \in S : f[a] = f[b] => a = b
  BY DEF IsInjective
<1>5. IsFiniteSet(S)
  BY <1>1, FS_Subset
<1> HIDE DEF f, S, T
<1>6. f \in Bijection(S, T)
  BY <1>3, <1>4, Fun_IsBij, Fun_IsSurj
<1>7. Cardinality(T) = Cardinality(S)
  BY <1>5, <1>6, FS_Bijection DEF ExistsBijection
<1>8. QED
  BY <1>1, <1>7 DEF S

\* Whatever order the service answers in, the vectors of a complete answer are
\* those of the batch, in its order.
LEMMA DecodeInOrder ==
    ASSUME CallTyped, BatchLen \in Nat \ {0}, sent \in Nat,
           NEW answer \in Answers, Len(answer) = BatchLen
    PROVE  Decode(answer) = [k \in 1..BatchLen |-> Asked(sent + k)]
<1> DEFINE vector(k) == [index |-> k, vector |-> Asked(sent + k)]
<1>0. PICK len \in Nat : \E t \in [1..len -> 1..BatchLen] :
        /\ answer = [k \in 1..len |-> vector(t[k])]
        /\ model \in Voyage => IsInjective(t)
        /\ model \notin Voyage => t = [k \in 1..len |-> k]
  BY DEF Answers
<1>1. PICK s \in [1..len -> 1..BatchLen] :
        /\ answer = [k \in 1..len |-> vector(s[k])]
        /\ model \in Voyage => IsInjective(s)
        /\ model \notin Voyage => s = [k \in 1..len |-> k]
  BY <1>0
<1>2. len = BatchLen /\ DOMAIN answer = 1..len
  BY <1>1
<1>3. \A k \in 1..len : answer[k].index = s[k] /\ answer[k].vector = Asked(sent + s[k])
  BY <1>1
<1>4. CASE model \in Voyage
  <2> DEFINE Rank(j) == Cardinality({i \in DOMAIN answer : answer[i].index <= answer[j].index})
  <2>1. ASSUME NEW j \in 1..len
        PROVE  Rank(j) = s[j]
    <3>1. {i \in DOMAIN answer : answer[i].index <= answer[j].index}
            = {i \in 1..len : s[i] <= s[j]}
      BY <1>2, <1>3
    <3>2. s \in [1..len -> 1..len] /\ IsInjective(s)
      BY <1>1, <1>2, <1>4
    <3>3. Cardinality({i \in 1..len : s[i] <= s[j]}) = s[j]
      BY <3>2, RankIsNumber
    <3>4. QED
      BY <3>1, <3>3
  <2>2. s \in Surjection(1..len, 1..len)
    <3>1. s \in Injection(1..len, 1..len)
      BY <1>1, <1>2, <1>4 DEF Injection
    <3>2. IsFiniteSet(1..len)
      BY FS_Interval
    <3>3. QED
      BY <3>1, <3>2, FS_Injection
  <2>3. ASSUME NEW k \in 1..len
        PROVE  answer[CHOOSE j \in DOMAIN answer : Rank(j) = k].vector = Asked(sent + k)
    <3>0. \A y \in 1..len : \E j \in 1..len : s[j] = y
      BY <2>2 DEF Surjection
    <3> HIDE DEF Rank
    <3>1. \E j \in DOMAIN answer : Rank(j) = k
      BY <1>2, <2>1, <3>0
    <3>2. PICK j \in DOMAIN answer : j = (CHOOSE i \in DOMAIN answer : Rank(i) = k) /\ Rank(j) = k
      BY <3>1
    <3>3. s[j] = k /\ j \in 1..len
      BY <1>2, <2>1, <3>2
    <3>4. answer[j].vector = Asked(sent + k)
      BY <1>3, <3>3
    <3>5. QED
      BY <3>2, <3>4
  <2>4. Decode(answer) = [k \in 1..len |-> answer[CHOOSE j \in DOMAIN answer : Rank(j) = k].vector]
    BY <1>2, <1>4 DEF Decode
  <2> HIDE DEF Rank
  <2>5. QED
    BY <1>2, <2>3, <2>4
<1>5. CASE model \notin Voyage
  BY <1>1, <1>2, <1>3, <1>5 DEF Decode
<1>6. QED
  BY <1>4, <1>5

---------------------------------------------------------------------------
(* The invariant.                                                          *)

\* What has been answered for, and how much is left.
Gathered ==
    /\ sent \in Nat /\ out \in Seq(Told)
    /\ \A k \in 1..Len(out) : out[k] = Asked(k)
    /\ pc = "ok" => Len(out) = Len(inputs)
    /\ pc # "ok" => Len(out) = sent
    /\ pc \in {"send", "wait"} => sent < Len(inputs)

\* The failures of this batch, and what they have cost: each is waited for
\* twice as long as the one before, from the clamp on at most.
Backoff ==
    /\ pc \in {"start", "send", "wait", "ok", "failed", "exhausted"}
    /\ attempt \in Nat /\ delay \in Nat /\ waited \in Nat
    /\ pc = "start" => attempt = 0 /\ delay = BaseDelay /\ waited = 0 /\ sent = 0
    /\ pc = "send" =>
         /\ attempt <= max_retries
         /\ delay <= RETRY_AFTER_MAX * 2^attempt
         /\ waited <= RETRY_AFTER_MAX * (2^attempt - 1)
    /\ pc = "wait" =>
         /\ attempt \in 1..max_retries
         /\ delay <= RETRY_AFTER_MAX * 2^(attempt - 1)
         /\ waited <= RETRY_AFTER_MAX * (2^(attempt - 1) - 1)

IInv == CallTyped /\ Gathered /\ Backoff /\ RetriesAreBounded

USE DEF IInv, call

\* The first attempt of a batch.
LEMMA FreshBatch ==
    /\ RETRY_AFTER_MAX \in Nat /\ BaseDelay \in Nat
    /\ BaseDelay <= RETRY_AFTER_MAX * 2^0
    /\ 0 <= RETRY_AFTER_MAX * (2^0 - 1)
    /\ \A n \in Nat : 0 <= RETRY_AFTER_MAX * (2^n - 1)
<1>1. RETRY_AFTER_MAX \in Nat /\ BaseDelay \in Nat /\ BaseDelay <= RETRY_AFTER_MAX
  BY EmbedClientAssumption
<1>2. ASSUME NEW n \in Nat
      PROVE  0 <= RETRY_AFTER_MAX * (2^n - 1)
  <2>1. 2^n - 1 \in Nat
    <3>1. 2^n \in Nat \ {0}
      BY PowerCounts
    <3>2. QED
      BY <3>1
  <2>2. \A r, p \in Nat : 0 <= r * p
    OBVIOUS
  <2>3. QED
    BY <1>1, <2>1, <2>2
<1>3. QED
  BY <1>1, <1>2, PowerOfZero

LEMMA InitHolds == Init => IInv
<1> SUFFICES ASSUME Init PROVE IInv
  OBVIOUS
<1>1. CallTyped
  <2>1. inputs \in Seq({"text", "media"}) /\ role \in Roles
    <3>1. CASE \E n \in 0..MaxInputs : inputs \in [1..n -> {"text", "media"}]
      BY <3>1, EmbedClientAssumption DEF Init, Roles
    <3>2. CASE inputs = <<"text">>
      BY <3>2 DEF Init, Roles
    <3>3. QED
      BY <3>1, <3>2 DEF Init
  <2>2. QED
    BY <2>1, EmbedClientAssumption DEF Init, CallTyped
<1>2. Gathered
  BY DEF Init, Gathered
<1>3. Backoff /\ RetriesAreBounded
  BY <1>1, FreshBatch DEF Init, Backoff, RetriesAreBounded, CallTyped
<1>4. QED
  BY <1>1, <1>2, <1>3

LEMMA BeginKeeps == IInv /\ Begin => IInv'
<1> SUFFICES ASSUME IInv, Begin PROVE IInv'
  OBVIOUS
<1> USE DEF CallTyped, Gathered
<1>1. UNCHANGED <<call, sent, attempt, delay, waited>> /\ pc = "start"
  BY DEF Begin
<1>2. CallTyped'
  BY <1>1
<1>3. Backoff' /\ RetriesAreBounded'
  <2>1. pc' \in {"send", "ok", "failed"}
    BY DEF Begin
  <2>2. QED
    BY <1>1, <2>1, FreshBatch DEF Backoff, RetriesAreBounded
<1>4. Gathered'
  <2>1. sent = 0 /\ Len(out) = 0
    BY <1>1 DEF Backoff
  <2>2. CASE model = "fake"
    <3>1. out' = [k \in DOMAIN inputs |-> Asked(k)] /\ pc' = "ok"
      BY <2>2 DEF Begin, Voyage
    <3>2. \A k \in 1..Len(inputs) : Asked(k) \in Told
      BY DEF Asked, Told
    <3>3. out' \in Seq(Told) /\ Len(out') = Len(inputs)
      BY <3>1, <3>2
    <3>4. \A k \in 1..Len(out') : out'[k] = Asked(k)'
      BY <1>1, <3>1, <3>3 DEF Asked
    <3>5. QED
      BY <1>1, <3>1, <3>3, <3>4
  <2>3. CASE model # "fake"
    <3>1. out' = out /\ pc' \in {"send", "ok", "failed"}
      BY <2>3 DEF Begin, Voyage
    <3>2. pc' = "ok" => inputs = <<>>
      BY <2>3 DEF Begin
    <3>3. pc' = "send" => inputs # <<>>
      BY <2>3 DEF Begin
    <3>4. \A k \in 1..Len(out') : out'[k] = Asked(k)'
      BY <1>1, <3>1 DEF Asked
    <3>5. QED
      BY <1>1, <2>1, <3>1, <3>2, <3>3, <3>4
  <2>4. QED
    BY <2>2, <2>3
<1>5. QED
  BY <1>2, <1>3, <1>4

\* An answer that is used brings the vectors of the batch.
LEMMA AnsweredKeeps == IInv /\ Answered => IInv'
<1> SUFFICES ASSUME IInv, Answered PROVE IInv'
  OBVIOUS
<1>1. /\ pc = "send" /\ UNCHANGED call
      /\ attempt' = 0 /\ delay' = BaseDelay /\ waited' = 0
  BY DEF Answered, Sending
<1>2. sent \in Nat /\ sent < Len(inputs) /\ Len(out) = sent
  BY <1>1 DEF Gathered
<1>3. BatchLen \in Nat \ {0} /\ BatchLen <= Len(inputs) - sent
  BY <1>2, BatchesAreWithin
<1>4. CallTyped'
  BY <1>1 DEF CallTyped
<1>5. pc' \in {"ok", "send", "failed"}
  BY DEF Answered
<1>6. Backoff' /\ RetriesAreBounded'
  BY <1>1, <1>5, FreshBatch DEF Backoff, RetriesAreBounded, CallTyped
<1>7. Gathered'
  <2>1. PICK answer \in Answers, sizes \in BOOLEAN :
          IF Complete(answer, sizes)
          THEN /\ out' = out \o Decode(answer)
               /\ sent' = sent + BatchLen
               /\ pc' = IF sent' >= Len(inputs) THEN "ok" ELSE "send"
          ELSE /\ pc' = "failed"
               /\ UNCHANGED <<out, sent>>
    BY DEF Answered
  <2>2. CASE Complete(answer, sizes)
    <3> DEFINE fresh == [k \in 1..BatchLen |-> Asked(sent + k)]
    <3>1. Decode(answer) = fresh
      BY <1>2, <1>3, <2>2, DecodeInOrder DEF Complete
    <3>2. fresh \in Seq(Told) /\ Len(fresh) = BatchLen
      <4>1. \A k \in 1..BatchLen : Asked(sent + k) \in Told
        BY <1>2, <1>3 DEF Asked, Told, CallTyped
      <4>2. QED
        BY <1>3, <4>1
    <3>3. \A k \in 1..BatchLen : fresh[k] = Asked(sent + k)
      OBVIOUS
    <3> HIDE DEF fresh
    <3>4. out' = out \o fresh /\ sent' = sent + BatchLen
      BY <2>1, <2>2, <3>1
    <3>5. /\ out' \in Seq(Told) /\ Len(out') = sent + BatchLen
          /\ \A k \in 1..Len(out') : out'[k] = IF k <= sent THEN out[k] ELSE fresh[k - sent]
      <4>1. out \in Seq(Told) /\ Len(out) = sent /\ sent \in Nat /\ BatchLen \in Nat
        BY <1>2, <1>3 DEF Gathered
      <4>2. /\ out \o fresh \in Seq(Told) /\ Len(out \o fresh) = Len(out) + Len(fresh)
            /\ \A k \in 1..Len(out) + Len(fresh) :
                 (out \o fresh)[k] = IF k <= Len(out) THEN out[k] ELSE fresh[k - Len(out)]
        BY ONLY <3>2, <4>1, ConcatProperties
      <4>3. QED
        BY ONLY <3>2, <3>4, <4>1, <4>2
    <3>6. ASSUME NEW k \in 1..Len(out')
          PROVE  out'[k] = Asked(k)'
      <4>1. Asked(k)' = Asked(k)
        BY <1>1 DEF Asked
      <4>2. CASE k <= sent
        BY <1>2, <3>5, <4>1, <4>2 DEF Gathered
      <4>3. CASE k > sent
        <5>1. k - sent \in 1..BatchLen /\ out'[k] = fresh[k - sent]
          BY <1>2, <1>3, <3>5, <4>3
        <5>2. QED
          BY <1>2, <3>3, <4>1, <5>1
      <4>4. QED
        BY <1>2, <3>5, <4>2, <4>3
    <3>7. /\ sent' \in Nat /\ sent' <= Len(inputs)
          /\ pc' = IF sent' >= Len(inputs) THEN "ok" ELSE "send"
      BY <1>2, <1>3, <2>1, <2>2, <3>4 DEF CallTyped
    <3>8. Len(inputs) \in Nat /\ Len(inputs)' = Len(inputs) /\ Len(out') = sent'
      BY <1>1, <3>4, <3>5 DEF CallTyped, call
    <3>9. CASE sent' >= Len(inputs)
      <4>1. pc' = "ok" /\ Len(out') = Len(inputs)
        BY ONLY <3>7, <3>8, <3>9
      <4>2. QED
        BY <3>5, <3>6, <3>7, <3>8, <4>1 DEF Gathered
    <3>10. CASE ~(sent' >= Len(inputs))
      <4>1. pc' = "send" /\ sent' < Len(inputs)
        BY ONLY <3>7, <3>8, <3>10
      <4>2. QED
        BY <3>5, <3>6, <3>7, <3>8, <4>1 DEF Gathered
    <3>11. QED
      BY <3>9, <3>10
  <2>3. CASE ~Complete(answer, sizes)
    BY <1>1, <2>1, <2>3 DEF Gathered, Asked
  <2>4. QED
    BY <2>2, <2>3
<1>8. QED
  BY <1>4, <1>6, <1>7

\* What a failed request changes: the count, and the delay, which no header
\* takes past the clamp.
LEMMA TryAgainKeeps ==
    ASSUME IInv, Sending, NEW next \in Nat, TryAgain(next),
           next = delay \/ next <= RETRY_AFTER_MAX
    PROVE  IInv'
<1>1. /\ pc = "send" /\ UNCHANGED <<call, sent, out, waited>>
      /\ attempt' = attempt + 1 /\ delay' = next
      /\ pc' = IF attempt' < max_retries + 1 THEN "wait" ELSE "exhausted"
  BY DEF Sending, TryAgain, Attempts
<1>2. CallTyped' /\ Gathered'
  BY <1>1 DEF CallTyped, Gathered, Asked
<1>3. attempt \in Nat /\ attempt <= max_retries /\ max_retries \in Nat
  BY <1>1 DEF Backoff, CallTyped
<1>4. next <= RETRY_AFTER_MAX * 2^attempt
  <2>1. \A r \in Nat, p \in Nat \ {0} : r <= r * p
    OBVIOUS
  <2>2. RETRY_AFTER_MAX <= RETRY_AFTER_MAX * 2^attempt
    BY <1>3, <2>1, PowerCounts, FreshBatch
  <2>3. RETRY_AFTER_MAX * 2^attempt \in Nat
    BY <1>3, PowerCounts, FreshBatch
  <2>4. QED
    BY <1>1, <2>2, <2>3, FreshBatch DEF Backoff
<1>5. Backoff'
  <2>1. attempt' - 1 = attempt
    BY <1>1, <1>3
  <2>2. QED
    BY <1>1, <1>3, <1>4, <2>1 DEF Backoff
<1>6. RetriesAreBounded'
  BY <1>1, <1>3 DEF RetriesAreBounded
<1>7. QED
  BY <1>2, <1>5, <1>6

LEMMA FailuresKeep == IInv /\ (TransportError \/ ServerError \/ TooManyRequests) => IInv'
<1> SUFFICES ASSUME IInv, TransportError \/ ServerError \/ TooManyRequests PROVE IInv'
  OBVIOUS
<1>1. delay \in Nat
  BY DEF Backoff
<1>2. \/ Sending /\ TryAgain(delay)
      \/ \E after \in RetryAfters : Sending /\ TryAgain(EffectiveRetryDelay(after, delay))
  BY DEF TransportError, ServerError, TooManyRequests
<1>3. CASE Sending /\ TryAgain(delay)
  BY <1>1, <1>3, TryAgainKeeps
<1>4. ASSUME NEW after \in RetryAfters, Sending, TryAgain(EffectiveRetryDelay(after, delay))
      PROVE  IInv'
  <2> DEFINE next == EffectiveRetryDelay(after, delay)
  <2>1. next \in Nat /\ next <= RETRY_AFTER_MAX
    BY EmbedClientAssumption DEF EffectiveRetryDelay, Least
  <2> HIDE DEF next
  <2>2. TryAgain(next)
    BY <1>4 DEF next
  <2>3. QED
    BY <1>4, <2>1, <2>2, TryAgainKeeps
<1>5. QED
  BY <1>2, <1>3, <1>4

\* The wait doubles the delay, and what has been waited with it.
LEMMA WaitKeeps == IInv /\ Wait => IInv'
<1> SUFFICES ASSUME IInv, Wait PROVE IInv'
  OBVIOUS
<1>1. /\ pc = "wait" /\ pc' = "send" /\ UNCHANGED <<call, sent, out, attempt>>
      /\ waited' = waited + delay /\ delay' = 2 * delay
  BY DEF Wait
<1>2. CallTyped' /\ Gathered'
  BY <1>1 DEF CallTyped, Gathered, Asked
<1> DEFINE r == RETRY_AFTER_MAX
           p == 2^(attempt - 1)
           q == 2^max_retries
<1>3. /\ attempt - 1 \in Nat /\ attempt \in Nat /\ max_retries \in Nat
      /\ attempt <= max_retries
      /\ delay <= r * p /\ waited <= r * (p - 1) /\ delay \in Nat /\ waited \in Nat
  BY <1>1 DEF Backoff, CallTyped
<1>4. 2^attempt = 2 * p
  <2>1. (attempt - 1) + 1 = attempt
    BY <1>3
  <2>2. QED
    BY <1>3, <2>1, PowerDoubles
<1>5. r \in Nat /\ p \in Nat /\ q \in Nat
  BY <1>3, PowerCounts, FreshBatch
<1>6. 2 * p <= q
  BY <1>3, <1>4, PowerGrows
<1> HIDE DEF p, q, r
<1>7. /\ waited + delay <= r * (2 * p - 1)
      /\ 2 * delay <= r * (2 * p)
  <2>1. /\ r * (p - 1) + r * p = r * (2 * p - 1)
        /\ 2 * (r * p) = r * (2 * p)
    BY <1>5
  <2>2. r * (p - 1) \in Int /\ r * p \in Nat
    BY <1>5
  <2>3. QED
    BY <1>3, <2>1, <2>2
<1>8. r * (2 * p - 1) <= r * (q - 1)
  <2>1. \A x, y, z \in Int : x >= 0 /\ y <= z => x * y <= x * z
    OBVIOUS
  <2>2. r \in Int /\ r >= 0 /\ 2 * p - 1 \in Int /\ q - 1 \in Int /\ 2 * p - 1 <= q - 1
    BY <1>5, <1>6
  <2>3. QED
    BY <2>1, <2>2
<1>9. Backoff'
  BY <1>1, <1>3, <1>4, <1>7 DEF Backoff, r
<1>10. RetriesAreBounded'
  <2>1. waited' <= r * (q - 1)
    <3>1. r * (2 * p - 1) \in Int /\ r * (q - 1) \in Int
      BY <1>5
    <3>2. QED
      BY <1>1, <1>3, <1>7, <1>8, <3>1
  <2>2. QED
    BY <1>1, <2>1 DEF RetriesAreBounded, r, q
<1>11. QED
  BY <1>2, <1>9, <1>10

\* Every step keeps the invariant.
LEMMA StepKeeps == IInv /\ [Next]_vars => IInv'
<1> SUFFICES ASSUME IInv, [Next]_vars PROVE IInv'
  OBVIOUS
<1>1. CASE Begin
  BY <1>1, BeginKeeps
<1>2. CASE RefuseInput
  BY <1>2 DEF RefuseInput, CallTyped, Gathered, Asked, Backoff, RetriesAreBounded
<1>3. CASE Answered
  BY <1>3, AnsweredKeeps
<1>4. CASE Refused
  BY <1>4 DEF Refused, Sending, CallTyped, Gathered, Asked, Backoff, RetriesAreBounded
<1>5. CASE TransportError \/ ServerError \/ TooManyRequests
  BY <1>5, FailuresKeep
<1>6. CASE Wait
  BY <1>6, WaitKeeps
<1>7. CASE UNCHANGED vars
  BY <1>7 DEF vars, CallTyped, Gathered, Asked, Backoff, RetriesAreBounded
<1>8. QED
  BY <1>1, <1>2, <1>3, <1>4, <1>5, <1>6, <1>7 DEF Next

---------------------------------------------------------------------------
\* The invariant holds when the call is made, and every step keeps it.
THEOREM Inductive == Spec => []IInv
<1>1. QED
  BY InitHolds, StepKeeps, PTL DEF Spec

\* src/embed/mod.rs: over all the batches, and whatever order the service
\* answers in, each vector is that of the input at its place, asked for in the
\* role of the call, and a call that succeeds has one for every input.
THEOREM VectorsAreInPlace == Spec => []VectorsMatchInputs
<1>1. IInv => VectorsMatchInputs
  <2>1. Gathered => DOMAIN out = 1..Len(out)
    BY DEF Gathered
  <2>2. QED
    BY <2>1 DEF Gathered, VectorsMatchInputs, Asked
<1>2. QED
  BY <1>1, Inductive, PTL

\* src/embed/voyage.rs:22-24: a call gives up when its retries are used up and
\* not before, and no batch is waited for beyond the clamp and its doublings.
THEOREM WaitsAreBounded == Spec => []RetriesAreBounded
<1>1. QED
  BY Inductive, PTL DEF IInv

=============================================================================
