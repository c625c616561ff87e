--------------------------- MODULE AiGatewayProofs ---------------------------
(***************************************************************************)
(* Theorems about the circuit breaker of AiGateway, for any number of keys,  *)
(* models and requests in flight and any lengths of the cooldowns that keep  *)
(* their order.                                                              *)
(***************************************************************************)
EXTENDS AiGateway, TLAPS

\* What a request does after a failure keeps its state in range: it sends with
\* the first model of a configured key, or it ends.
LEMMA OnwardTyped ==
    ASSUME TypeOK, NEW c \in Call, NEW i \in Int, Onward(c, i)
    PROVE  calls' \in [Call -> CallState]
<1>1. 1 \in Model
    BY SizeAssumption DEF Model
<1>2. \A k \in Key : Sent(k, 1) \in CallState
    BY <1>1 DEF CallState, Sent
<1>3. Ended("exhausted") \in CallState
    BY DEF CallState, Ended
<1>4. ASSUME NEW s \in CallState, calls' = [calls EXCEPT ![c] = s]
      PROVE  calls' \in [Call -> CallState]
    BY <1>4 DEF TypeOK
<1> QED
    BY <1>2, <1>3, <1>4 DEF Onward, Usable

\* A tier is a cooldown no longer than Third, and it grows with the failures.
LEMMA TierBounds ==
    /\ \A n \in Nat : Tier(n) \in 0 .. Auth /\ Tier(n) <= Third
    /\ \A n \in 0 .. 3 : Longest(n) \in 0 .. Auth
    /\ \A n \in 0 .. 2 : Longest(n) <= Tier(n + 1)
BY TierAssumption DEF Tier, Longest

\* The key of a request that waits is configured.
LEMMA WaitingKey ==
    ASSUME TypeOK, NEW c \in Call, calls[c].at \in {"fetch", "body"}
    PROVE  calls[c].key \in Key /\ calls[c].model \in Model
BY DEF TypeOK, CallState

\* The three records of the breaker keep the types of the two maps.
LEMMA RecordTyped ==
    ASSUME TypeOK, NEW k \in Key,
           RecordFailure(k) \/ RecordAuthFailure(k) \/ RecordSuccess(k)
    PROVE  cooldown' \in [Key -> 0 .. Auth] /\ failures' \in [Key -> 0 .. 3]
<1>1. failures[k] + 1 \in Nat /\ failures[k] \in 0 .. 3
    BY DEF TypeOK
<1>2. Tier(failures[k] + 1) \in 0 .. Auth
    BY <1>1, TierBounds
<1>3. CASE RecordFailure(k)
    <2>1. (IF failures[k] < 3 THEN failures[k] + 1 ELSE 3) \in 0 .. 3
        BY <1>1
    <2> QED
        BY <1>2, <1>3, <2>1 DEF RecordFailure, TypeOK
<1>4. CASE RecordAuthFailure(k)
    <2>1. Auth \in 0 .. Auth
        BY TierAssumption
    <2> QED
        BY <1>4, <2>1 DEF RecordAuthFailure, TypeOK
<1>5. CASE RecordSuccess(k)
    <2>1. 0 \in 0 .. Auth
        BY TierAssumption
    <2> QED
        BY <1>5, <2>1 DEF RecordSuccess, TypeOK
<1> QED
    BY <1>3, <1>4, <1>5

\* What a step of one request changes: the breaker not at all, or by one of
\* its records on the key of the request.
LEMMA RequestRecords ==
    ASSUME TypeOK, NEW c \in Call,
           Begin(c) \/ FetchFails(c) \/ Headers(c) \/ Body(c)
    PROVE  \/ UNCHANGED <<cooldown, failures>>
           \/ \E k \in Key : RecordFailure(k) \/ RecordAuthFailure(k) \/ RecordSuccess(k)
<1>1. CASE Begin(c) \/ Headers(c) \/ ModelError(c) \/ ClientError(c)
    BY <1>1 DEF Begin, Headers, ModelError, ClientError
<1>2. CASE FetchFails(c)
    BY <1>2, WaitingKey DEF FetchFails
<1>3. CASE Analysed(c) \/ Unparseable(c) \/ Unauthorized(c) \/ Recoverable(c)
    <2>1. calls[c].key \in Key
        BY <1>3, WaitingKey DEF Analysed, Unparseable, Unauthorized, Recoverable, Receives
    <2> QED
        BY <1>3, <2>1 DEF Analysed, Unparseable, Unauthorized, Recoverable
<1> QED
    BY <1>1, <1>2, <1>3 DEF Body

\* The types hold at every step.
LEMMA TypeStep == TypeOK /\ [Next]_vars => TypeOK'
<1> SUFFICES ASSUME TypeOK, [Next]_vars PROVE TypeOK'
    OBVIOUS
<1>1. ASSUME NEW c \in Call, Begin(c) \/ FetchFails(c) \/ Headers(c) \/ Body(c)
      PROVE  TypeOK'
    <2>1. cooldown' \in [Key -> 0 .. Auth] /\ failures' \in [Key -> 0 .. 3]
        BY <1>1, RequestRecords, RecordTyped DEF TypeOK
    <2>2. CASE Begin(c)
        <3>1. calls' \in [Call -> CallState]
            BY <2>2, OnwardTyped DEF Begin
        <3> QED
            BY <2>1, <3>1 DEF TypeOK
    <2>3. CASE Headers(c)
        <3>1. PICK s \in Status : calls' = [calls EXCEPT ![c] = Reading(@.key, @.model, s)]
            BY <2>3 DEF Headers
        <3>2. Reading(calls[c].key, calls[c].model, s) \in CallState
            BY <2>3, WaitingKey DEF Headers, CallState, Reading
        <3>3. calls' \in [Call -> CallState]
            BY <3>1, <3>2 DEF TypeOK
        <3> QED
            BY <2>1, <3>3 DEF TypeOK
    <2>4. CASE FetchFails(c) \/ Unparseable(c) \/ Unauthorized(c) \/ Recoverable(c)
        <3>1. calls[c].key \in Int
            BY <2>4, WaitingKey DEF FetchFails, Unparseable, Unauthorized, Recoverable, Receives, Key
        <3>2. Onward(c, calls[c].key)
            BY <2>4 DEF FetchFails, Unparseable, Unauthorized, Recoverable
        <3>3. calls' \in [Call -> CallState]
            BY <3>1, <3>2, OnwardTyped
        <3> QED
            BY <2>1, <3>3 DEF TypeOK
    <2>5. CASE Analysed(c) \/ ClientError(c)
        <3>1. Ended("analysis") \in CallState /\ Ended("client error") \in CallState
            BY DEF CallState, Ended
        <3>2. \E s \in CallState : calls' = [calls EXCEPT ![c] = s]
            BY <2>5, <3>1 DEF Analysed, ClientError
        <3>3. calls' \in [Call -> CallState]
            BY <3>2 DEF TypeOK
        <3> QED
            BY <2>1, <3>3 DEF TypeOK
    <2>6. CASE ModelError(c)
        <3>1. calls[c].key \in Key /\ calls[c].model \in Model
            BY <2>6, WaitingKey DEF ModelError, Receives
        <3>2. CASE calls[c].model < Models
            <4>1. calls[c].model + 1 \in Model
                BY <3>1, <3>2, SizeAssumption DEF Model
            <4>2. Sent(calls[c].key, calls[c].model + 1) \in CallState
                BY <3>1, <4>1 DEF CallState, Sent
            <4>3. calls' = [calls EXCEPT ![c] = Sent(@.key, @.model + 1)]
                BY <2>6, <3>2 DEF ModelError, NextModel
            <4>4. calls' \in [Call -> CallState]
                BY <4>2, <4>3 DEF TypeOK
            <4> QED
                BY <2>1, <4>4 DEF TypeOK
        <3>3. CASE ~(calls[c].model < Models)
            <4>1. Onward(c, calls[c].key)
                BY <2>6, <3>3 DEF ModelError, NextModel
            <4>2. calls' \in [Call -> CallState]
                BY <3>1, <4>1, OnwardTyped DEF Key
            <4> QED
                BY <2>1, <4>2 DEF TypeOK
        <3> QED
            BY <3>2, <3>3
    <2> QED
        BY <1>1, <2>2, <2>3, <2>4, <2>5, <2>6 DEF Body
<1>2. CASE Tick
    <2>1. \A k \in Key : cooldown[k] \in 0 .. Auth
        BY DEF TypeOK
    <2>2. cooldown' \in [Key -> 0 .. Auth]
        BY <1>2, <2>1, TierAssumption DEF Tick
    <2> QED
        BY <1>2, <2>2 DEF Tick, TypeOK
<1>3. CASE UNCHANGED vars
    BY <1>3 DEF vars, TypeOK
<1> QED
    BY <1>1, <1>2, <1>3 DEF Next

\* A key's cooldown stays within what its failures earn at every step.
LEMMA TierStep == TypeOK /\ WithinTier /\ [Next]_vars => WithinTier'
<1> SUFFICES ASSUME TypeOK, WithinTier, [Next]_vars PROVE WithinTier'
    OBVIOUS
<1>1. CASE UNCHANGED <<cooldown, failures>>
    BY <1>1 DEF WithinTier
<1>2. ASSUME NEW k \in Key, RecordFailure(k) \/ RecordAuthFailure(k) \/ RecordSuccess(k)
      PROVE  WithinTier'
    <2>1. failures[k] \in 0 .. 3
        BY DEF TypeOK
    <2>2. cooldown'[k] <= Longest(failures'[k])
        <3>1. CASE RecordFailure(k)
            <4>1. /\ failures'[k] = IF failures[k] < 3 THEN failures[k] + 1 ELSE 3
                  /\ cooldown'[k] = Tier(failures[k] + 1)
                BY <3>1 DEF RecordFailure, TypeOK
            <4> QED
                BY <2>1, <4>1, TierAssumption DEF Longest, Tier
        <3>2. CASE RecordAuthFailure(k)
            BY <3>2, TierAssumption DEF RecordAuthFailure, TypeOK, Longest
        <3>3. CASE RecordSuccess(k)
            BY <3>3 DEF RecordSuccess, TypeOK, Longest
        <3> QED
            BY <1>2, <3>1, <3>2, <3>3
    <2>3. \A j \in Key \ {k} : cooldown'[j] = cooldown[j] /\ failures'[j] = failures[j]
        BY <1>2 DEF RecordFailure, RecordAuthFailure, RecordSuccess, TypeOK
    <2> QED
        BY <2>2, <2>3 DEF WithinTier
<1>3. CASE Tick
    <2> SUFFICES ASSUME NEW k \in Key PROVE cooldown'[k] <= Longest(failures'[k])
        BY DEF WithinTier
    <2>1. cooldown[k] \in 0 .. Auth /\ cooldown[k] <= Longest(failures[k])
        BY DEF TypeOK, WithinTier
    <2>2. failures[k] \in 0 .. 3 /\ failures'[k] = failures[k]
        BY <1>3 DEF TypeOK, Tick
    <2>3. cooldown'[k] = IF cooldown[k] > 0 THEN cooldown[k] - 1 ELSE 0
        BY <1>3 DEF Tick
    <2>4. Longest(failures[k]) \in 0 .. Auth
        BY <2>2, TierBounds
    <2> QED
        BY <2>1, <2>2, <2>3, <2>4, TierAssumption
<1> QED
    BY <1>1, <1>2, <1>3, RequestRecords DEF Next, vars

\* The breaker and the requests keep their types.
THEOREM TypeCorrect == Spec => []TypeOK
<1>1. Init => TypeOK
    BY TierAssumption DEF Init, TypeOK, CallState, Ended
<1> QED
    BY <1>1, TypeStep, PTL DEF Spec

\* A key without failures never cools, and no key cools longer than its failures
\* earn, in whatever order the requests in flight record their outcomes.
THEOREM WithinTierHolds == Spec => []WithinTier
<1>1. Init => WithinTier
    BY DEF Init, WithinTier, Longest
<1> QED
    BY <1>1, TierStep, TypeCorrect, PTL DEF Spec

\* A failure recorded on a key that cools never makes it available earlier,
\* unless the key had been refused.
THEOREM NeverShortenedHolds == Spec => NeverShortened
<1> DEFINE A == \A k \in Key :
          cooldown'[k] < cooldown[k] - 1 => cooldown'[k] = 0 \/ cooldown[k] > Third
<1>1. ASSUME TypeOK, WithinTier, [Next]_vars PROVE A
    <2> SUFFICES ASSUME NEW j \in Key, cooldown'[j] < cooldown[j] - 1
                 PROVE  cooldown'[j] = 0 \/ cooldown[j] > Third
        OBVIOUS
    <2>1. /\ cooldown[j] \in 0 .. Auth /\ failures[j] \in 0 .. 3
          /\ cooldown[j] <= Longest(failures[j])
        BY <1>1 DEF TypeOK, WithinTier
    <2>2. CASE UNCHANGED cooldown
        BY <2>1, <2>2, TierAssumption
    <2>3. CASE Tick
        BY <2>1, <2>3, TierAssumption DEF Tick
    <2>4. ASSUME NEW k \in Key, RecordFailure(k) \/ RecordAuthFailure(k) \/ RecordSuccess(k)
          PROVE  cooldown'[j] = 0 \/ cooldown[j] > Third
        <3>1. CASE j # k
            <4>1. cooldown'[j] = cooldown[j]
                BY <1>1, <2>4, <3>1 DEF RecordFailure, RecordAuthFailure, RecordSuccess, TypeOK
            <4> QED
                BY <2>1, <4>1, TierAssumption
        <3>2. CASE j = k
            <4>1. CASE RecordFailure(k)
                <5>1. cooldown'[j] = Tier(failures[j] + 1)
                    BY <1>1, <3>2, <4>1 DEF RecordFailure, TypeOK
                <5> QED
                    BY <2>1, <5>1, TierAssumption DEF Longest, Tier
            <4>2. CASE RecordAuthFailure(k)
                <5>1. cooldown'[j] = Auth
                    BY <1>1, <3>2, <4>2 DEF RecordAuthFailure, TypeOK
                <5> QED
                    BY <2>1, <5>1, TierAssumption
            <4>3. CASE RecordSuccess(k)
                BY <1>1, <3>2, <4>3 DEF RecordSuccess, TypeOK
            <4> QED
                BY <2>4, <4>1, <4>2, <4>3
        <3> QED
            BY <3>1, <3>2
    <2> QED
        BY <1>1, <2>2, <2>3, <2>4, RequestRecords DEF Next, vars
<1>2. [](TypeOK /\ WithinTier) /\ [][Next]_vars => [][A]_vars
    BY <1>1, PTL
<1> QED
    BY <1>2, TypeCorrect, WithinTierHolds, PTL DEF Spec, NeverShortened
=============================================================================
