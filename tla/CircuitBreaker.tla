--------------------------- MODULE CircuitBreaker ---------------------------
(***************************************************************************)
(* What a per-origin circuit breaker promises its callers, without the     *)
(* counters, clocks and retries AdaptiveClient uses to keep the promise.   *)
(* A request is admitted unless its origin is open and refused only while  *)
(* it is open.  A circuit changes in four ways only: a request admitted to *)
(* its origin is answered and closes it; one fails and opens it, or        *)
(* re-opens it, or leaves a closed one closed; time turns open into        *)
(* half-open; and somebody has all circuits forgotten.                     *)
(***************************************************************************)
CONSTANTS Requests, Origins, None

VARIABLES
    state,   \* per origin: CircuitState, adaptive-client.ts
    verdict, \* per request: None, or what became of its fetch() and where
    era      \* flips when the circuits are forgotten, so that time cannot pass for it

vars == <<state, verdict, era>>

CircuitStates == {"closed", "open", "half-open"}

Init ==
    /\ state = [o \in Origins |-> "closed"]
    /\ verdict = [r \in Requests |-> None]
    /\ era = FALSE

Admit(r, o) ==
    /\ verdict[r] = None
    /\ state[o] # "open"
    /\ verdict' = [verdict EXCEPT ![r] = <<"admitted", o>>]
    /\ UNCHANGED <<state, era>>

Refuse(r, o) ==
    /\ verdict[r] = None
    /\ state[o] = "open"
    /\ verdict' = [verdict EXCEPT ![r] = <<"refused", o>>]
    /\ UNCHANGED <<state, era>>

\* A definitive answer closes the circuit of the request's own origin.
Answer(r, o) ==
    /\ verdict[r] = <<"admitted", o>>
    /\ verdict' = [verdict EXCEPT ![r] = <<"answered", o>>]
    /\ state' = [state EXCEPT ![o] = "closed"]
    /\ UNCHANGED era

\* What a failure may make of a circuit.
AfterFailure(s) == IF s = "closed" THEN {"closed", "open"} ELSE {"open"}

\* A failure may open a closed circuit and always re-opens a half-open one.
Fail(r, o) ==
    /\ verdict[r] = <<"admitted", o>>
    /\ verdict' = [verdict EXCEPT ![r] = <<"failed", o>>]
    /\ \E s \in AfterFailure(state[o]) : state' = [state EXCEPT ![o] = s]
    /\ UNCHANGED era

\* Time passes: any number of open circuits become due for a probe.
Cool(S) ==
    /\ \A o \in S : state[o] = "open"
    /\ state' = [o \in Origins |-> IF o \in S THEN "half-open" ELSE state[o]]
    /\ UNCHANGED <<verdict, era>>

Forget ==
    /\ state' = [o \in Origins |-> "closed"]
    /\ era' = ~era
    /\ UNCHANGED verdict

Next ==
    \/ \E r \in Requests, o \in Origins :
          Admit(r, o) \/ Refuse(r, o) \/ Answer(r, o) \/ Fail(r, o)
    \/ \E S \in SUBSET Origins : Cool(S)
    \/ Forget

Spec == Init /\ [][Next]_vars
=============================================================================
