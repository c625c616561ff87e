------------------------------ MODULE AiGateway ------------------------------
(***************************************************************************)
(* The AI gateway of one Workers isolate (services/aiGateway.ts): requests  *)
(* that walk the configured provider keys in order, and the circuit breaker *)
(* they share, two module-level maps with the consecutive failures of a key *)
(* and the end of its cooldown.                                             *)
(*                                                                          *)
(* JavaScript runs one request at a time between two awaits, and the awaits *)
(* of a request are the fetch (until the headers of the response) and the   *)
(* reading of the body.  So an action is what a request does from the       *)
(* answer to one await up to the next one: record the outcome, skip the     *)
(* keys that are cooling, send the next attempt.  Other requests run while  *)
(* it waits.  A cooldown is kept as the time that is left of it.            *)
(***************************************************************************)
EXTENDS Integers

CONSTANTS
    Keys,      \* number of configured keys, Groq first, then OpenAI and Gemini
    Models,    \* number of models tried with a key
    Call,      \* requests that may run at the same time
    First, Second, Third,  \* cooldown of the 1st, the 2nd and a later failure
    Auth       \* cooldown of a key that was refused (HTTP 401)

ASSUME SizeAssumption == Keys \in Nat \ {0} /\ Models \in Nat \ {0}

\* 30 s, 2 min, 5 min and 1 h in the code
ASSUME TierAssumption ==
    /\ First \in Nat \ {0} /\ Second \in Nat /\ Third \in Nat /\ Auth \in Nat
    /\ First <= Second /\ Second <= Third /\ Third < Auth

VARIABLES
    cooldown,  \* cooldownExpiries: what is left of the cooldown of each key
    failures,  \* failureCounts: consecutive failures, 3 standing for 3 or more
    calls      \* for each request, where it waits or how it ended

vars == <<cooldown, failures, calls>>

Key == 1 .. Keys
Model == 1 .. Models

\* What a response says, by its status.  A 400 is a "model" error only when
\* its body names the model.
Status == {"ok", "unauthorized", "recoverable", "model", "client"}

Ended(how)    == [at |-> how]
Sent(k, m)    == [at |-> "fetch", key |-> k, model |-> m]
Reading(k, m, s) == [at |-> "body", key |-> k, model |-> m, status |-> s]

CallState ==
    [at : {"new", "analysis", "exhausted", "client error"}]
    \cup [at : {"fetch"}, key : Key, model : Model]
    \cup [at : {"body"}, key : Key, model : Model, status : Status]

Running(c) == calls[c].at \in {"fetch", "body"}

Init ==
    /\ cooldown = [k \in Key |-> 0]
    /\ failures = [k \in Key |-> 0]
    /\ calls = [c \in Call |-> Ended("new")]

-----------------------------------------------------------------------------
(* The circuit breaker.                                                    *)

\* Mutant of Tier: "=== 3" instead of ">= 3"
TierThirdOnly(n) == IF n = 3 THEN Third ELSE IF n = 2 THEN Second ELSE First

Tier(n) == IF n = 1 THEN First ELSE IF n = 2 THEN Second ELSE Third

RecordFailure(k) ==
    /\ failures' = [failures EXCEPT ![k] = IF @ < 3 THEN @ + 1 ELSE 3]
    /\ cooldown' = [cooldown EXCEPT ![k] = Tier(failures[k] + 1)]

\* 999 failures in the code
RecordAuthFailure(k) ==
    /\ failures' = [failures EXCEPT ![k] = 3]
    /\ cooldown' = [cooldown EXCEPT ![k] = Auth]

\* Mutant of RecordSuccess: the cooldown stays after a success
RecordSuccessKeepsCooldown(k) ==
    /\ failures' = [failures EXCEPT ![k] = 0]
    /\ UNCHANGED cooldown

RecordSuccess(k) ==
    /\ failures' = [failures EXCEPT ![k] = 0]
    /\ cooldown' = [cooldown EXCEPT ![k] = 0]

-----------------------------------------------------------------------------
(* A request.                                                              *)

\* Mutant of Usable: the loop over the keys does not look at the breaker
UsableAlways(i) == {k \in Key : k > i}

\* Keys after position i of the list that are not cooling
Usable(i) == {k \in Key : k > i /\ cooldown[k] = 0}

\* The rest of the loop over the keys: skip the ones that are cooling and send
\* to the first that is not, or fail with the last error.
Onward(c, i) ==
    \/ \E k \in Usable(i) :
          /\ \A j \in Usable(i) : k <= j
          /\ calls' = [calls EXCEPT ![c] = Sent(k, 1)]
    \/ /\ Usable(i) = {}
       /\ calls' = [calls EXCEPT ![c] = Ended("exhausted")]

Begin(c) ==
    /\ ~Running(c)
    /\ Onward(c, 0)
    /\ UNCHANGED <<cooldown, failures>>

\* fetch rejects: the abort of the timer, or a network error
FetchFails(c) ==
    /\ calls[c].at = "fetch"
    /\ RecordFailure(calls[c].key)
    /\ Onward(c, calls[c].key)

\* fetch resolves with the headers; its timer is cleared
Headers(c) ==
    /\ calls[c].at = "fetch"
    /\ \E s \in Status :
          calls' = [calls EXCEPT ![c] = Reading(@.key, @.model, s)]
    /\ UNCHANGED <<cooldown, failures>>

Receives(c, s) == calls[c].at = "body" /\ calls[c].status = s

Analysed(c) ==
    /\ Receives(c, "ok")
    /\ RecordSuccess(calls[c].key)
    /\ calls' = [calls EXCEPT ![c] = Ended("analysis")]

\* The body breaks off, is no JSON, or does not match the schema
Unparseable(c) ==
    /\ Receives(c, "ok")
    /\ RecordFailure(calls[c].key)
    /\ Onward(c, calls[c].key)

Unauthorized(c) ==
    /\ Receives(c, "unauthorized")
    /\ RecordAuthFailure(calls[c].key)
    /\ Onward(c, calls[c].key)

Recoverable(c) ==
    /\ Receives(c, "recoverable")
    /\ RecordFailure(calls[c].key)
    /\ Onward(c, calls[c].key)

\* Mutant of NextModel: the loop over the models runs once too often
NextModelTooFar(c) ==
    IF calls[c].model <= Models
    THEN calls' = [calls EXCEPT ![c] = Sent(@.key, @.model + 1)]
    ELSE Onward(c, calls[c].key)

\* Mutant of NextModel: the loop over the models does not advance
NextModelAgain(c) == calls' = [calls EXCEPT ![c] = Sent(@.key, @.model)]

\* The next model of the same key, whatever became of the key meanwhile
NextModel(c) ==
    IF calls[c].model < Models
    THEN calls' = [calls EXCEPT ![c] = Sent(@.key, @.model + 1)]
    ELSE Onward(c, calls[c].key)

ModelError(c) ==
    /\ Receives(c, "model")
    /\ NextModel(c)
    /\ UNCHANGED <<cooldown, failures>>

ClientError(c) ==
    /\ Receives(c, "client")
    /\ calls' = [calls EXCEPT ![c] = Ended("client error")]
    /\ UNCHANGED <<cooldown, failures>>

Body(c) ==
    \/ Analysed(c)     \/ Unparseable(c) \/ Unauthorized(c)
    \/ Recoverable(c)  \/ ModelError(c)  \/ ClientError(c)

Tick ==
    /\ \E k \in Key : cooldown[k] > 0
    /\ cooldown' = [k \in Key |-> IF cooldown[k] > 0 THEN cooldown[k] - 1 ELSE 0]
    /\ UNCHANGED <<failures, calls>>

Next ==
    \/ \E c \in Call : Begin(c) \/ FetchFails(c) \/ Headers(c) \/ Body(c)
    \/ Tick

\* Time passes, so a cooldown runs out and the timer of a fetch fires; the
\* bodies of responses end (nothing in the code bounds them).
Fairness ==
    /\ WF_vars(Tick)
    /\ \A c \in Call : WF_vars(FetchFails(c) \/ Headers(c)) /\ WF_vars(Body(c))

Spec == Init /\ [][Next]_vars /\ Fairness

-----------------------------------------------------------------------------
(* Properties.                                                             *)

TypeOK ==
    /\ cooldown \in [Key -> 0 .. Auth]
    /\ failures \in [Key -> 0 .. 3]
    /\ calls \in [Call -> CallState]

Longest(n) == IF n = 0 THEN 0 ELSE IF n = 3 THEN Auth ELSE Tier(n)

\* The two maps agree: a key without failures does not cool, and the cooldown
\* of a key is no longer than the one its failures earn (recordSuccess clears
\* both, late answers of several requests are recorded in any order).
WithinTier == \A k \in Key : cooldown[k] <= Longest(failures[k])

\* A failure that is recorded while the key already cools, by a request that
\* was in flight, never makes the key available earlier, unless the key was
\* refused; only a success ends a cooldown before its time.
NeverShortened ==
    [][\A k \in Key :
          cooldown'[k] < cooldown[k] - 1 => cooldown'[k] = 0 \/ cooldown[k] > Third]_vars

\* No key is lost to the breaker: whatever requests in flight record on a key
\* that cools, it becomes available again and again.
EveryKeyReturns == \A k \in Key : []<>(cooldown[k] = 0)

\* A request answers after finitely many attempts, whatever the providers
\* answer and the other requests record.
EveryCallEnds == \A c \in Call : Running(c) ~> ~Running(c)

\* recordAuthFailure: a refused key is "immediately and permanently invalid",
\* the cooldown "Avoids any retries or future attempts on this key"; so nothing
\* but the time that passes takes its hour away.
RefusedKeyRests ==
    [][\A k \in Key : cooldown[k] > Third => cooldown'[k] >= cooldown[k] - 1]_vars
=============================================================================
