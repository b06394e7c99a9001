--------------------------- MODULE AdaptiveClient ---------------------------
(***************************************************************************)
(* The adaptive HTTP client (src/src/network/adaptive-client.ts): logical  *)
(* requests that retry with full jitter, over a circuit breaker kept per   *)
(* origin and shared by every request of the process.                      *)
(*                                                                         *)
(* fetch() runs to its first await without interruption, so reading the    *)
(* breaker and issuing the first attempt are one step; every await (the    *)
(* attempt, the backoff sleep) is a point where other requests run.        *)
(*                                                                         *)
(* Time is relative: timer[r] is what is left of the deadline or of the    *)
(* sleep, age[o] is now() - openedAt counted up to ResetAfter, beyond which *)
(* no comparison of the code tells two values apart.  The clock is thus    *)
(* unbounded and the state finite.                                         *)
(***************************************************************************)
EXTENDS Naturals, FiniteSets

CONSTANTS
    Requests,          \* logical requests, each one call of fetch()
    Origins,           \* the keys of the circuits map
    MaxAttempts,       \* maxAttempts, clamped to at least 1 by the constructor
    FailureThreshold,  \* failureThreshold; 0 disables the breaker
    ResetAfter,        \* resetAfterMs
    Timeout,           \* timeoutMs; 0 disables the per-attempt deadline
    BaseDelay,         \* baseDelayMs
    CapDelay,          \* capDelayMs
    None               \* undefined

Places == {"idle", "attempting", "sleeping", "settled"}
Outcomes == {"answer", "last-response", "last-error", "permanent-error", "circuit-open"}
InFlight == {"attempting", "sleeping"}

ASSUME ClientAssumption ==
    /\ IsFiniteSet(Requests)
    /\ MaxAttempts \in Nat \ {0}
    /\ FailureThreshold \in Nat
    /\ ResetAfter \in Nat \ {0}
    /\ Timeout \in Nat
    /\ BaseDelay \in Nat
    /\ CapDelay \in Nat
    /\ None \notin Nat \cup Origins \cup Outcomes
    /\ None \notin {"admitted", "refused", "answered", "failed"} \X Origins

VARIABLES
    failures,   \* per origin: consecutiveFailures (0 when the map has no record)
    age,        \* per origin: None, or the time since openedAt, up to ResetAfter
    pc,         \* per request: where its fetch() is suspended
    origin,     \* per request: originOf(url)
    attempt,    \* per request: the loop's attempt index
    timer,      \* per request: what is left of the deadline, or of the sleep
    cancelled,  \* per request: the signal it listens to has been aborted
    answered,   \* per request: lastResponse is set
    outcome,    \* per request: how the promise settled
    calls,      \* per request: calls of fetchImpl (history)
    probe,      \* per request in flight: admitted because half-open (history)
    era         \* flips at each resetCircuits() (history)

breaker == <<failures, age, era>>
request == <<pc, origin, attempt, timer, cancelled, answered, outcome, calls, probe>>
vars == <<breaker, request>>

Smaller(a, b) == IF a <= b THEN a ELSE b

TypeOK ==
    /\ failures \in [Origins -> Nat]
    /\ age \in [Origins -> (0..ResetAfter) \cup {None}]
    /\ pc \in [Requests -> Places]
    /\ origin \in [Requests -> Origins \cup {None}]
    /\ attempt \in [Requests -> Nat]
    /\ timer \in [Requests -> Nat]
    /\ \A r \in Requests :
          /\ pc[r] # "idle" => origin[r] \in Origins
          /\ pc[r] = "attempting" => timer[r] <= Timeout
          /\ pc[r] = "sleeping" => timer[r] <= CapDelay
    /\ cancelled \in [Requests -> BOOLEAN]
    /\ answered \in [Requests -> BOOLEAN]
    /\ outcome \in [Requests -> Outcomes \cup {None}]
    /\ calls \in [Requests -> Nat]
    /\ probe \in [Requests -> BOOLEAN]
    /\ era \in BOOLEAN

Init ==
    /\ failures = [o \in Origins |-> 0]
    /\ age = [o \in Origins |-> None]
    /\ pc = [r \in Requests |-> "idle"]
    /\ origin = [r \in Requests |-> None]
    /\ attempt = [r \in Requests |-> 0]
    /\ timer = [r \in Requests |-> 0]
    /\ cancelled = [r \in Requests |-> FALSE]
    /\ answered = [r \in Requests |-> FALSE]
    /\ outcome = [r \in Requests |-> None]
    /\ calls = [r \in Requests |-> 0]
    /\ probe = [r \in Requests |-> FALSE]
    /\ era = FALSE

-----------------------------------------------------------------------------
(* The breaker. *)

StateOf(o) ==
    CASE age[o] = None -> "closed"
      [] age[o] = ResetAfter -> "half-open"
      [] OTHER -> "open"

\* Mutant: a success clears the count but leaves openedAt behind.
RecordSuccessStale(o) ==
    /\ failures' = [failures EXCEPT ![o] = 0]
    /\ UNCHANGED <<age, era>>

RecordSuccess(o) ==
    /\ failures' = [failures EXCEPT ![o] = 0]
    /\ age' = [age EXCEPT ![o] = None]
    /\ UNCHANGED era

RecordFailure(o) ==
    /\ failures' = [failures EXCEPT ![o] = @ + 1]
    /\ age' = [age EXCEPT ![o] =
                  IF FailureThreshold > 0 /\ failures[o] + 1 >= FailureThreshold
                  THEN 0 ELSE @]
    /\ UNCHANGED era

-----------------------------------------------------------------------------
(* The backoff.  floor(random() * ceiling) is any natural below the        *)
(* ceiling, and a retry status may carry a Retry-After, capped like the    *)
(* jitter; a transport error has no header to read.                        *)

Ceiling(n) == Smaller(CapDelay, BaseDelay * 2^n)

FullJitterDelays(n) == {d \in 0..CapDelay : d = 0 \/ d < Ceiling(n)}

\* Mutant: a stated Retry-After is honoured without the cap.
DelaysForUncapped(n, gotResponse) ==
    FullJitterDelays(n) \cup (IF gotResponse THEN 0..(CapDelay + 1) ELSE {})

DelaysFor(n, gotResponse) ==
    FullJitterDelays(n) \cup (IF gotResponse THEN 0..CapDelay ELSE {})

-----------------------------------------------------------------------------
(* One call of fetch(). *)

\* The first await of fetch(), reached when rejectIfOpen lets it through.
FetchAdmitted(r, o) ==
    /\ pc[r] = "idle"
    /\ StateOf(o) # "open"
    /\ pc' = [pc EXCEPT ![r] = "attempting"]
    /\ origin' = [origin EXCEPT ![r] = o]
    /\ timer' = [timer EXCEPT ![r] = Timeout]
    /\ calls' = [calls EXCEPT ![r] = @ + 1]
    /\ probe' = [probe EXCEPT ![r] = StateOf(o) = "half-open"]
    /\ UNCHANGED <<breaker, attempt, cancelled, answered, outcome>>

\* The promise settles; no timer of the request is left (clearTimeout), and
\* nobody listens to the caller's signal any more (removeEventListener).
Settle(r, how) ==
    /\ pc' = [pc EXCEPT ![r] = "settled"]
    /\ timer' = [timer EXCEPT ![r] = 0]
    /\ outcome' = [outcome EXCEPT ![r] = how]
    /\ cancelled' = [cancelled EXCEPT ![r] = FALSE]
    /\ probe' = [probe EXCEPT ![r] = FALSE]

FetchRefused(r, o) ==
    /\ pc[r] = "idle"
    /\ StateOf(o) = "open"
    /\ origin' = [origin EXCEPT ![r] = o]
    /\ Settle(r, "circuit-open")
    /\ UNCHANGED <<breaker, attempt, answered, calls>>

\* Any status outside retryStatuses.  An aborted signal leaves no answer.
Definitive(r) ==
    /\ pc[r] = "attempting"
    /\ ~cancelled[r]
    /\ RecordSuccess(origin[r])
    /\ Settle(r, "answer")
    /\ UNCHANGED <<origin, attempt, answered, calls>>

\* The attempt threw what isRetryableError rules out.
Permanent(r) ==
    /\ pc[r] = "attempting"
    /\ ~cancelled[r]
    /\ RecordFailure(origin[r])
    /\ Settle(r, "permanent-error")
    /\ UNCHANGED <<origin, attempt, answered, calls>>

\* Mutant: every attempt that fails counts against the origin.
BackoffCounting(r, gotResponse) ==
    /\ attempt[r] < MaxAttempts - 1
    /\ answered' = [answered EXCEPT ![r] = @ \/ gotResponse]
    /\ RecordFailure(origin[r])
    /\ \E d \in DelaysFor(attempt[r], gotResponse) : timer' = [timer EXCEPT ![r] = d]
    /\ pc' = [pc EXCEPT ![r] = "sleeping"]
    /\ UNCHANGED <<origin, attempt, cancelled, outcome, calls, probe>>

\* The attempt may be repeated: sleep for the delay drawn.
Backoff(r, gotResponse) ==
    /\ attempt[r] < MaxAttempts - 1
    /\ answered' = [answered EXCEPT ![r] = @ \/ gotResponse]
    /\ \E d \in DelaysFor(attempt[r], gotResponse) : timer' = [timer EXCEPT ![r] = d]
    /\ pc' = [pc EXCEPT ![r] = "sleeping"]
    /\ UNCHANGED <<breaker, origin, attempt, cancelled, outcome, calls, probe>>

\* Mutant: only the last attempt decides what the caller gets.
ExhaustedForgetful(r, gotResponse) ==
    /\ attempt[r] = MaxAttempts - 1
    /\ answered' = [answered EXCEPT ![r] = @ \/ gotResponse]
    /\ RecordFailure(origin[r])
    /\ Settle(r, IF gotResponse THEN "last-response" ELSE "last-error")
    /\ UNCHANGED <<origin, attempt, calls>>

\* It was the last one: one failure for the whole run of attempts.
Exhausted(r, gotResponse) ==
    /\ attempt[r] = MaxAttempts - 1
    /\ answered' = [answered EXCEPT ![r] = @ \/ gotResponse]
    /\ RecordFailure(origin[r])
    /\ Settle(r, IF answered[r] \/ gotResponse THEN "last-response" ELSE "last-error")
    /\ UNCHANGED <<origin, attempt, calls>>

TryAgain(r, gotResponse) ==
    /\ pc[r] = "attempting"
    /\ Backoff(r, gotResponse) \/ Exhausted(r, gotResponse)

RetryStatus(r) == ~cancelled[r] /\ TryAgain(r, TRUE)

TransportError(r) == ~cancelled[r] /\ TryAgain(r, FALSE)

\* controller.abort() by the timer: an AbortError, which is retryable.
DeadlineExpires(r) ==
    /\ Timeout > 0
    /\ timer[r] = 0
    /\ TryAgain(r, FALSE)

\* The caller's abort surfaces as the same AbortError, and is retried too.
AbortSurfaces(r) ==
    /\ cancelled[r]
    /\ TryAgain(r, FALSE)

\* Mutant: the retry does not advance the attempt index.
WakeUncounted(r) ==
    /\ pc[r] = "sleeping"
    /\ timer[r] = 0
    /\ pc' = [pc EXCEPT ![r] = "attempting"]
    /\ timer' = [timer EXCEPT ![r] = Timeout]
    /\ UNCHANGED <<breaker, origin, attempt, cancelled, answered, outcome, calls, probe>>

\* The sleep is over: the next attempt, without another look at the breaker.
Wake(r) ==
    /\ pc[r] = "sleeping"
    /\ timer[r] = 0
    /\ pc' = [pc EXCEPT ![r] = "attempting"]
    /\ attempt' = [attempt EXCEPT ![r] = @ + 1]
    /\ timer' = [timer EXCEPT ![r] = Timeout]
    /\ calls' = [calls EXCEPT ![r] = @ + 1]
    /\ UNCHANGED <<breaker, origin, cancelled, answered, outcome, probe>>

-----------------------------------------------------------------------------
(* The caller, and time. *)

\* A signal that was aborted before the call is one aborted right after it.
CallerAborts(r) ==
    /\ pc[r] \in InFlight
    /\ ~cancelled[r]
    /\ cancelled' = [cancelled EXCEPT ![r] = TRUE]
    /\ UNCHANGED <<breaker, pc, origin, attempt, timer, answered, outcome, calls, probe>>

ResetCircuits ==
    /\ failures' = [o \in Origins |-> 0]
    /\ age' = [o \in Origins |-> None]
    /\ era' = ~era
    /\ UNCHANGED request

\* Mutant: a circuit that has cooled off is closed without a probe.
TickForgiving ==
    /\ age' = [o \in Origins |-> IF age[o] \in {None, ResetAfter} THEN None ELSE age[o] + 1]
    /\ timer' = [r \in Requests |-> IF timer[r] = 0 THEN 0 ELSE timer[r] - 1]
    /\ UNCHANGED <<failures, era, pc, origin, attempt, cancelled, answered, outcome, calls,
                   probe>>

Tick ==
    /\ age' = [o \in Origins |-> IF age[o] = None THEN None
                                 ELSE Smaller(age[o] + 1, ResetAfter)]
    /\ timer' = [r \in Requests |-> IF timer[r] = 0 THEN 0 ELSE timer[r] - 1]
    /\ UNCHANGED <<failures, era, pc, origin, attempt, cancelled, answered, outcome, calls,
                   probe>>

Next ==
    \/ \E r \in Requests, o \in Origins : FetchAdmitted(r, o) \/ FetchRefused(r, o)
    \/ \E r \in Requests :
          \/ Definitive(r) \/ Permanent(r) \/ RetryStatus(r) \/ TransportError(r)
          \/ DeadlineExpires(r) \/ AbortSurfaces(r) \/ Wake(r) \/ CallerAborts(r)
    \/ ResetCircuits
    \/ Tick

\* Timers fire (the event loop is fair) and an aborted fetch rejects; nobody
\* has to answer, to call, to cancel or to reset.
Fairness ==
    /\ WF_vars(Tick)
    /\ \A r \in Requests : WF_vars(DeadlineExpires(r)) /\ WF_vars(Wake(r))

Spec == Init /\ [][Next]_vars

FairSpec == Spec /\ Fairness

-----------------------------------------------------------------------------
(* Properties. *)

\* An origin is tripped exactly when it has collected the threshold of
\* failures: stale successes, late failures, probes and resets of any number
\* of overlapping requests never leave one field of the record without the
\* other (recordSuccess deletes both, recordFailure writes both).
BreakerConsistent ==
    \A o \in Origins :
        age[o] # None <=> FailureThreshold > 0 /\ failures[o] >= FailureThreshold

CountedFailure(r) == outcome[r] \in {"last-response", "last-error", "permanent-error"}

FailedAt(o) == {r \in Requests : origin[r] = o /\ CountedFailure(r)}

\* A failure is a logical request, not an attempt, and counts against its own
\* origin only: "a retry-exhausted run of 503s" is one failure, and a dead
\* host does not mute a healthy one.  Whatever the interleaving, a breaker has
\* never collected more failures than requests to that origin failed.
FailuresAreRequests ==
    \A o \in Origins : failures[o] <= Cardinality(FailedAt(o))

\* How a request settles agrees with what its attempts saw: a refused one
\* never touched the network, one that ran out of attempts used all of them
\* and hands back a response whenever one was seen, and none makes more calls
\* than its budget however often it is cancelled or timed out.
VerdictMatchesEvidence ==
    \A r \in Requests :
        /\ pc[r] = "settled" <=> outcome[r] # None
        /\ calls[r] <= MaxAttempts
        /\ calls[r] = 0 <=> pc[r] = "idle" \/ outcome[r] = "circuit-open"
        /\ outcome[r] = "last-response" => answered[r] /\ calls[r] = MaxAttempts
        /\ outcome[r] = "last-error" => ~answered[r] /\ calls[r] = MaxAttempts

\* What became of a request, in the terms of the abstract breaker.
Verdict(r) ==
    CASE pc[r] = "idle" -> None
      [] outcome[r] = "circuit-open" -> <<"refused", origin[r]>>
      [] outcome[r] = "answer" -> <<"answered", origin[r]>>
      [] CountedFailure(r) -> <<"failed", origin[r]>>
      [] OTHER -> <<"admitted", origin[r]>>

AbsState == [o \in Origins |-> StateOf(o)]
AbsVerdict == [r \in Requests |-> Verdict(r)]

Breaker == INSTANCE CircuitBreaker WITH state <- AbsState, verdict <- AbsVerdict

\* The records, clocks and retries of the client keep the promise of
\* CircuitBreaker: requests are refused only while their origin is open, time
\* alone never closes a circuit, what closes it is the answer to a request
\* admitted there (or resetCircuits), and what opens or re-opens it is the
\* failure of one.  An answer and a failure are those of a whole request, and
\* either may come from one admitted before the circuit changed.
ImplementsBreaker == Breaker!Spec

\* Every request that reached the network settles, though it may time out or
\* be cancelled at any await: the retry loop is bounded.
RequestsSettle ==
    \A r \in Requests : pc[r] = "attempting" ~> pc[r] = "settled"

Probes(o) == {r \in Requests : origin[r] = o /\ pc[r] \in InFlight /\ probe[r]}

\* What the comment of rejectIfOpen says of a half-open circuit: it lets
\* exactly one request through as a probe.
OneProbe == \A o \in Origins : Cardinality(Probes(o)) <= 1
=============================================================================
