------------------------ MODULE AdaptiveClientProofs ------------------------
(***************************************************************************)
(* Theorems about AdaptiveClient, for every number of requests, origins    *)
(* and every setting of the client: type correctness, the consistency of   *)
(* the breaker's records, the agreement of verdicts with the calls made,   *)
(* and that the client implements the abstract CircuitBreaker.             *)
(***************************************************************************)
EXTENDS AdaptiveClient, FiniteSetTheorems, TLAPS

-----------------------------------------------------------------------------
(* Type correctness. *)

\* A sleep never exceeds capDelayMs, whatever the jitter draws and the server states.
LEMMA DelaysBounded ==
    ASSUME NEW n \in Nat, NEW b \in BOOLEAN
    PROVE  DelaysFor(n, b) \subseteq 0..CapDelay
  BY DEF DelaysFor, FullJitterDelays

\* Recording an outcome keeps the records well-typed.
LEMMA RecordTypes ==
    ASSUME TypeOK, NEW o \in Origins, RecordSuccess(o) \/ RecordFailure(o)
    PROVE  /\ failures' \in [Origins -> Nat]
           /\ age' \in [Origins -> (0..ResetAfter) \cup {None}]
           /\ era' \in BOOLEAN
  BY ClientAssumption DEF TypeOK, RecordSuccess, RecordFailure

\* Trying again keeps the state well-typed.
LEMMA TryAgainType ==
    ASSUME TypeOK, NEW r \in Requests, NEW b \in BOOLEAN, TryAgain(r, b)
    PROVE  TypeOK'
<1>0. pc[r] = "attempting" /\ origin[r] \in Origins
  BY DEF TryAgain, TypeOK
<1>1. CASE Backoff(r, b)
  <2>1. PICK d \in DelaysFor(attempt[r], b) : timer' = [timer EXCEPT ![r] = d]
    BY <1>1 DEF Backoff
  <2>2. d \in 0..CapDelay
    BY <2>1, DelaysBounded, ClientAssumption DEF TypeOK
  <2> QED
    BY <1>0, <1>1, <2>1, <2>2, ClientAssumption
    DEF Backoff, TypeOK, Places, breaker
<1>2. CASE Exhausted(r, b)
  <2>1. /\ failures' \in [Origins -> Nat]
        /\ age' \in [Origins -> (0..ResetAfter) \cup {None}]
        /\ era' \in BOOLEAN
    BY <1>0, <1>2, RecordTypes DEF Exhausted
  <2> QED
    BY <1>0, <1>2, <2>1, ClientAssumption
    DEF Exhausted, Settle, TypeOK, Places, Outcomes
<1> QED
  BY <1>1, <1>2 DEF TryAgain

\* Every variable of the client keeps the shape the code gives it.
THEOREM TypeCorrect == Spec => []TypeOK
<1>1. Init => TypeOK
  <2> SUFFICES ASSUME Init PROVE TypeOK
    OBVIOUS
  <2>1. era \in BOOLEAN
    BY DEF Init
  <2> QED
    BY <2>1, ClientAssumption DEF Init, TypeOK, Places
<1>2. TypeOK /\ [Next]_vars => TypeOK'
  <2> SUFFICES ASSUME TypeOK, [Next]_vars PROVE TypeOK'
    OBVIOUS
  <2>1. CASE UNCHANGED vars
    BY <2>1 DEF vars, breaker, request, TypeOK
  <2>2. ASSUME NEW r \in Requests, NEW o \in Origins, FetchAdmitted(r, o) PROVE TypeOK'
    BY <2>2, ClientAssumption DEF FetchAdmitted, TypeOK, Places, breaker
  <2>3. ASSUME NEW r \in Requests, NEW o \in Origins, FetchRefused(r, o) PROVE TypeOK'
    BY <2>3, ClientAssumption DEF FetchRefused, Settle, TypeOK, Places, Outcomes, breaker
  <2>4. ASSUME NEW r \in Requests, Definitive(r) PROVE TypeOK'
    <3>1. origin[r] \in Origins
      BY <2>4 DEF Definitive, TypeOK
    <3>2. /\ failures' \in [Origins -> Nat]
          /\ age' \in [Origins -> (0..ResetAfter) \cup {None}]
          /\ era' \in BOOLEAN
      BY <2>4, <3>1, RecordTypes DEF Definitive
    <3> QED
      BY <2>4, <3>1, <3>2, ClientAssumption
      DEF Definitive, Settle, TypeOK, Places, Outcomes
  <2>5. ASSUME NEW r \in Requests, Permanent(r) PROVE TypeOK'
    <3>1. origin[r] \in Origins
      BY <2>5 DEF Permanent, TypeOK
    <3>2. /\ failures' \in [Origins -> Nat]
          /\ age' \in [Origins -> (0..ResetAfter) \cup {None}]
          /\ era' \in BOOLEAN
      BY <2>5, <3>1, RecordTypes DEF Permanent
    <3> QED
      BY <2>5, <3>1, <3>2, ClientAssumption
      DEF Permanent, Settle, TypeOK, Places, Outcomes
  <2>6. ASSUME NEW r \in Requests,
               RetryStatus(r) \/ TransportError(r) \/ DeadlineExpires(r) \/ AbortSurfaces(r)
        PROVE TypeOK'
    BY <2>6, TryAgainType DEF RetryStatus, TransportError, DeadlineExpires, AbortSurfaces
  <2>7. ASSUME NEW r \in Requests, Wake(r) PROVE TypeOK'
    BY <2>7, ClientAssumption DEF Wake, TypeOK, Places, breaker
  <2>8. ASSUME NEW r \in Requests, CallerAborts(r) PROVE TypeOK'
    BY <2>8 DEF CallerAborts, TypeOK, breaker
  <2>9. CASE ResetCircuits
    BY <2>9, ClientAssumption DEF ResetCircuits, TypeOK, request
  <2>10. CASE Tick
    BY <2>10, ClientAssumption DEF Tick, TypeOK, Smaller, Places
  <2> QED
    BY <2>1, <2>2, <2>3, <2>4, <2>5, <2>6, <2>7, <2>8, <2>9, <2>10 DEF Next
<1> QED
  BY <1>1, <1>2, PTL DEF Spec

-----------------------------------------------------------------------------
(* The records of the breaker. *)

\* recordSuccess and recordFailure write both fields of a record together.
LEMMA RecordConsistent ==
    ASSUME TypeOK, BreakerConsistent, NEW o \in Origins, RecordSuccess(o) \/ RecordFailure(o)
    PROVE  BreakerConsistent'
  BY ClientAssumption DEF TypeOK, BreakerConsistent, RecordSuccess, RecordFailure

\* An origin is tripped exactly when it has collected the threshold of failures.
THEOREM BreakerIsConsistent == Spec => []BreakerConsistent
<1>1. Init => BreakerConsistent
  BY ClientAssumption DEF Init, BreakerConsistent
<1>2. TypeOK /\ BreakerConsistent /\ [Next]_vars => BreakerConsistent'
  <2> SUFFICES ASSUME TypeOK, BreakerConsistent, [Next]_vars PROVE BreakerConsistent'
    OBVIOUS
  <2>1. CASE UNCHANGED breaker
    BY <2>1 DEF breaker, BreakerConsistent
  <2>2. ASSUME NEW r \in Requests, pc[r] = "attempting",
               RecordSuccess(origin[r]) \/ RecordFailure(origin[r])
        PROVE BreakerConsistent'
    BY <2>2, RecordConsistent DEF TypeOK
  <2>3. CASE ResetCircuits
    BY <2>3, ClientAssumption DEF ResetCircuits, BreakerConsistent
  <2>4. CASE Tick
    BY <2>4, ClientAssumption DEF Tick, BreakerConsistent, TypeOK, Smaller
  <2> QED
    BY <2>1, <2>2, <2>3, <2>4
    DEF Next, vars, FetchAdmitted, FetchRefused, Definitive, Permanent, RetryStatus,
        TransportError, DeadlineExpires, AbortSurfaces, TryAgain, Backoff, Exhausted,
        Wake, CallerAborts
<1> QED
  BY <1>1, <1>2, TypeCorrect, PTL DEF Spec

-----------------------------------------------------------------------------
(* Verdicts and the calls they rest on. *)

\* The inductive form of VerdictMatchesEvidence: the calls made so far are
\* told by the place and the attempt index, and a sleep is followed by one more.
CallsMatch ==
    \A r \in Requests :
        /\ pc[r] = "idle" => calls[r] = 0 /\ attempt[r] = 0
        /\ pc[r] = "attempting" => calls[r] = attempt[r] + 1 /\ attempt[r] < MaxAttempts
        /\ pc[r] = "sleeping" => calls[r] = attempt[r] + 1 /\ attempt[r] < MaxAttempts - 1

EvidenceInv == CallsMatch /\ VerdictMatchesEvidence

\* Trying again, by a sleep or by giving up, preserves the invariant.
LEMMA TryAgainEvidence ==
    ASSUME TypeOK, EvidenceInv, NEW r \in Requests, NEW b \in BOOLEAN, TryAgain(r, b)
    PROVE  EvidenceInv'
<1>1. CASE Backoff(r, b)
  BY <1>1, ClientAssumption
  DEF TryAgain, Backoff, TypeOK, EvidenceInv, CallsMatch, VerdictMatchesEvidence, Outcomes, Places
<1>2. CASE Exhausted(r, b)
  <2>1. calls[r] = MaxAttempts
    BY <1>2, ClientAssumption DEF Exhausted, TryAgain, TypeOK, EvidenceInv, CallsMatch
  <2> QED
    BY <1>2, <2>1, ClientAssumption
    DEF TryAgain, Exhausted, Settle, TypeOK, EvidenceInv, CallsMatch, VerdictMatchesEvidence,
        Outcomes, Places
<1> QED
  BY <1>1, <1>2 DEF TryAgain

\* The inductive form holds of every behaviour.
LEMMA EvidenceCorrect == Spec => []EvidenceInv
<1>1. Init => EvidenceInv
  BY ClientAssumption DEF Init, EvidenceInv, CallsMatch, VerdictMatchesEvidence, Outcomes
<1>2. TypeOK /\ EvidenceInv /\ [Next]_vars => EvidenceInv'
  <2> SUFFICES ASSUME TypeOK, EvidenceInv, [Next]_vars PROVE EvidenceInv'
    OBVIOUS
  <2> USE DEF EvidenceInv, CallsMatch, VerdictMatchesEvidence
  <2>1. CASE UNCHANGED <<pc, attempt, calls, outcome, answered>>
    BY <2>1
  <2>2. ASSUME NEW r \in Requests, NEW o \in Origins, FetchAdmitted(r, o) PROVE EvidenceInv'
    BY <2>2, ClientAssumption DEF FetchAdmitted, TypeOK, Outcomes
  <2>3. ASSUME NEW r \in Requests, NEW o \in Origins, FetchRefused(r, o) PROVE EvidenceInv'
    BY <2>3, ClientAssumption DEF FetchRefused, Settle, TypeOK, Outcomes
  <2>4. ASSUME NEW r \in Requests, Definitive(r) PROVE EvidenceInv'
    BY <2>4, ClientAssumption DEF Definitive, Settle, TypeOK, Outcomes
  <2>5. ASSUME NEW r \in Requests, Permanent(r) PROVE EvidenceInv'
    BY <2>5, ClientAssumption DEF Permanent, Settle, TypeOK, Outcomes
  <2>6. ASSUME NEW r \in Requests,
               RetryStatus(r) \/ TransportError(r) \/ DeadlineExpires(r) \/ AbortSurfaces(r)
        PROVE EvidenceInv'
    BY <2>6, TryAgainEvidence DEF RetryStatus, TransportError, DeadlineExpires, AbortSurfaces
  <2>7. ASSUME NEW r \in Requests, Wake(r) PROVE EvidenceInv'
    BY <2>7, ClientAssumption DEF Wake, TypeOK
  <2> QED
    BY <2>1, <2>2, <2>3, <2>4, <2>5, <2>6, <2>7
    DEF Next, vars, request, CallerAborts, ResetCircuits, Tick
<1> QED
  BY <1>1, <1>2, TypeCorrect, PTL DEF Spec

\* How a request settles agrees with the calls it made and the responses it saw.
THEOREM VerdictsMatch == Spec => []VerdictMatchesEvidence
<1>1. EvidenceInv => VerdictMatchesEvidence
  BY DEF EvidenceInv
<1> QED
  BY <1>1, EvidenceCorrect, PTL

-----------------------------------------------------------------------------
(* Failures are requests. *)

\* A request whose failure is recorded was not counted before, and is now.
LEMMA FailureCounted ==
    ASSUME TypeOK, EvidenceInv, FailuresAreRequests,
           NEW r \in Requests, pc[r] = "attempting", RecordFailure(origin[r]),
           NEW how \in {"last-response", "last-error", "permanent-error"},
           outcome' = [outcome EXCEPT ![r] = how], UNCHANGED origin
    PROVE  FailuresAreRequests'
<1> SUFFICES ASSUME NEW o \in Origins
             PROVE  failures'[o] <= Cardinality(FailedAt(o)')
  BY DEF FailuresAreRequests
<1>1. outcome[r] = None
  BY DEF EvidenceInv, VerdictMatchesEvidence
<1>2. IsFiniteSet(FailedAt(o))
  BY ClientAssumption, FS_Subset DEF FailedAt
<1>3. CASE o = origin[r]
  <2>1. FailedAt(o)' = FailedAt(o) \cup {r}
    BY <1>3 DEF FailedAt, CountedFailure, TypeOK
  <2>2. r \notin FailedAt(o)
    BY <1>1, ClientAssumption DEF FailedAt, CountedFailure, Outcomes
  <2>3. Cardinality(FailedAt(o)') = Cardinality(FailedAt(o)) + 1
    BY <1>2, <2>1, <2>2, FS_AddElement
  <2>4. failures'[o] = failures[o] + 1
    BY <1>3 DEF RecordFailure, TypeOK
  <2>5. Cardinality(FailedAt(o)) \in Nat
    BY <1>2, FS_CardinalityType
  <2> QED
    BY <2>3, <2>4, <2>5 DEF FailuresAreRequests, TypeOK
<1>4. CASE o # origin[r]
  <2>1. FailedAt(o)' = FailedAt(o)
    BY <1>4 DEF FailedAt, CountedFailure, TypeOK
  <2>2. failures'[o] = failures[o]
    BY <1>4 DEF RecordFailure, TypeOK
  <2> QED
    BY <2>1, <2>2 DEF FailuresAreRequests
<1> QED
  BY <1>3, <1>4

\* A step that records no failure keeps every request that was counted.
LEMMA NothingUncounted ==
    ASSUME TypeOK, EvidenceInv, FailuresAreRequests, failures' \in [Origins -> Nat],
           \A o \in Origins : failures'[o] <= failures[o],
           \A r \in Requests :
               outcome[r] # None => outcome'[r] = outcome[r] /\ origin'[r] = origin[r]
    PROVE  FailuresAreRequests'
<1> SUFFICES ASSUME NEW o \in Origins
             PROVE  failures'[o] <= Cardinality(FailedAt(o)')
  BY DEF FailuresAreRequests
<1>1. FailedAt(o) \subseteq FailedAt(o)'
  BY ClientAssumption DEF FailedAt, CountedFailure, Outcomes
<1>2. IsFiniteSet(FailedAt(o)')
  BY ClientAssumption, FS_Subset DEF FailedAt
<1>3. /\ Cardinality(FailedAt(o)) <= Cardinality(FailedAt(o)')
      /\ Cardinality(FailedAt(o)) \in Nat
      /\ Cardinality(FailedAt(o)') \in Nat
  BY <1>1, <1>2, FS_Subset, FS_CardinalityType
<1> QED
  BY <1>3 DEF FailuresAreRequests, TypeOK

\* A breaker has never collected more failures than requests to its origin failed.
THEOREM FailuresCounted == Spec => []FailuresAreRequests
<1>1. Init => FailuresAreRequests
  <2> SUFFICES ASSUME Init, NEW o \in Origins PROVE failures[o] <= Cardinality(FailedAt(o))
    BY DEF FailuresAreRequests
  <2>1. IsFiniteSet(FailedAt(o))
    BY ClientAssumption, FS_Subset DEF FailedAt
  <2> QED
    BY <2>1, FS_CardinalityType DEF Init
<1>2. TypeOK /\ TypeOK' /\ EvidenceInv /\ FailuresAreRequests /\ [Next]_vars
      => FailuresAreRequests'
  <2> SUFFICES ASSUME TypeOK, TypeOK', EvidenceInv, FailuresAreRequests, [Next]_vars
               PROVE  FailuresAreRequests'
    OBVIOUS
  <2>0. failures' \in [Origins -> Nat]
    BY DEF TypeOK
  <2>1. CASE UNCHANGED <<failures, outcome, origin>>
    BY <2>0, <2>1, NothingUncounted DEF TypeOK
  <2>2. ASSUME NEW r \in Requests, NEW o \in Origins, FetchAdmitted(r, o) \/ FetchRefused(r, o)
        PROVE  FailuresAreRequests'
    <3>1. outcome[r] = None
      BY <2>2 DEF FetchAdmitted, FetchRefused, EvidenceInv, VerdictMatchesEvidence
    <3> QED
      BY <2>0, <2>2, <3>1, NothingUncounted
      DEF FetchAdmitted, FetchRefused, Settle, breaker, TypeOK
  <2>3. ASSUME NEW r \in Requests, Definitive(r) PROVE FailuresAreRequests'
    <3>1. outcome[r] = None
      BY <2>3 DEF Definitive, EvidenceInv, VerdictMatchesEvidence
    <3> QED
      BY <2>0, <2>3, <3>1, NothingUncounted DEF Definitive, Settle, RecordSuccess, TypeOK
  <2>4. ASSUME NEW r \in Requests, Permanent(r) PROVE FailuresAreRequests'
    BY <2>4, FailureCounted DEF Permanent, Settle
  <2>5. ASSUME NEW r \in Requests, NEW b \in BOOLEAN, pc[r] = "attempting", Exhausted(r, b)
        PROVE FailuresAreRequests'
    BY <2>5, FailureCounted DEF Exhausted, Settle
  <2>6. CASE ResetCircuits
    BY <2>0, <2>6, NothingUncounted DEF ResetCircuits, request, TypeOK
  <2> QED
    BY <2>1, <2>2, <2>3, <2>4, <2>5, <2>6
    DEF Next, vars, breaker, request, RetryStatus, TransportError, DeadlineExpires,
        AbortSurfaces, TryAgain, Backoff, Wake, CallerAborts, Tick
<1> QED
  BY <1>1, <1>2, TypeCorrect, EvidenceCorrect, PTL DEF Spec

-----------------------------------------------------------------------------
(* Refinement. *)

\* A request that goes on, in whatever state it leaves the circuits, keeps its verdict.
LEMMA GoesOn ==
    ASSUME TypeOK, EvidenceInv, NEW r \in Requests, pc[r] \in InFlight,
           NEW place \in InFlight, pc' = [pc EXCEPT ![r] = place],
           UNCHANGED <<outcome, origin>>
    PROVE  UNCHANGED AbsVerdict
<1>1. \A q \in Requests : (pc[q] = "idle")' <=> pc[q] = "idle"
  BY DEF InFlight, TypeOK
<1> QED
  BY <1>1 DEF AbsVerdict, Verdict, CountedFailure

\* A request that settles moves its own verdict from admitted to what it settled with.
LEMMA Settles ==
    ASSUME TypeOK, EvidenceInv, NEW r \in Requests, pc[r] \in InFlight,
           NEW how \in Outcomes \ {"circuit-open"}, Settle(r, how), UNCHANGED origin
    PROVE  /\ origin[r] \in Origins
           /\ AbsVerdict[r] = <<"admitted", origin[r]>>
           /\ AbsVerdict' = [AbsVerdict EXCEPT ![r] =
                 IF how = "answer" THEN <<"answered", origin[r]>> ELSE <<"failed", origin[r]>>]
<1>1. outcome[r] = None /\ pc[r] # "idle" /\ origin[r] \in Origins
  BY DEF InFlight, EvidenceInv, VerdictMatchesEvidence, TypeOK
<1>2. Verdict(r) = <<"admitted", origin[r]>>
  BY <1>1, ClientAssumption DEF Verdict, CountedFailure, Outcomes
<1>3. Verdict(r)' = IF how = "answer" THEN <<"answered", origin[r]>> ELSE <<"failed", origin[r]>>
  BY DEF Settle, Verdict, CountedFailure, TypeOK, Outcomes
<1>4. ASSUME NEW q \in Requests, q # r PROVE Verdict(q)' = Verdict(q)
  BY <1>4 DEF Settle, Verdict, CountedFailure, TypeOK
<1> QED
  BY <1>1, <1>2, <1>3, <1>4 DEF AbsVerdict

\* A recorded failure makes of a circuit what the abstract breaker allows: it
\* takes the consistency of the record to see that a tripped one starts anew.
LEMMA FailureAllowed ==
    ASSUME TypeOK, BreakerConsistent, NEW o \in Origins, RecordFailure(o)
    PROVE  \E s \in Breaker!AfterFailure(AbsState[o]) : AbsState' = [AbsState EXCEPT ![o] = s]
<1>1. ASSUME NEW q \in Origins, q # o PROVE StateOf(q)' = StateOf(q)
  BY <1>1 DEF RecordFailure, StateOf, TypeOK
<1>2. StateOf(o)' \in Breaker!AfterFailure(StateOf(o))
  <2>1. CASE age[o] = None
    BY <2>1, ClientAssumption DEF RecordFailure, StateOf, TypeOK, Breaker!AfterFailure
  <2>2. CASE age[o] # None
    <3>1. FailureThreshold > 0 /\ failures[o] + 1 >= FailureThreshold
      BY <2>2, ClientAssumption DEF BreakerConsistent, TypeOK
    <3>2. age'[o] = 0
      BY <3>1 DEF RecordFailure, TypeOK
    <3> QED
      BY <2>2, <3>2, ClientAssumption DEF StateOf, TypeOK, Breaker!AfterFailure
  <2> QED
    BY <2>1, <2>2
<1> QED
  BY <1>1, <1>2 DEF AbsState

\* A request that fails, and is recorded to have, is a failure of the abstract breaker.
LEMMA FailureFails ==
    ASSUME TypeOK, EvidenceInv, BreakerConsistent,
           NEW r \in Requests, pc[r] \in InFlight,
           NEW how \in Outcomes \ {"circuit-open", "answer"}, Settle(r, how),
           UNCHANGED origin, RecordFailure(origin[r])
    PROVE  Breaker!Next
<1>1. /\ origin[r] \in Origins
      /\ AbsVerdict[r] = <<"admitted", origin[r]>>
      /\ AbsVerdict' = [AbsVerdict EXCEPT ![r] = <<"failed", origin[r]>>]
  BY Settles
<1>2. \E s \in Breaker!AfterFailure(AbsState[origin[r]]) :
         AbsState' = [AbsState EXCEPT ![origin[r]] = s]
  BY <1>1, FailureAllowed
<1>3. UNCHANGED era
  BY DEF RecordFailure
<1>4. Breaker!Fail(r, origin[r])
  BY <1>1, <1>2, <1>3 DEF Breaker!Fail
<1> QED
  BY <1>1, <1>4 DEF Breaker!Next

\* The client's records, clocks and retries implement the abstract breaker.
THEOREM ClientImplementsBreaker == Spec => ImplementsBreaker
<1>1. Init => Breaker!Init
  BY ClientAssumption
  DEF Init, Breaker!Init, AbsState, AbsVerdict, StateOf, Verdict, CountedFailure, Outcomes
<1>2. TypeOK /\ EvidenceInv /\ BreakerConsistent /\ [Next]_vars => [Breaker!Next]_(Breaker!vars)
  <2> SUFFICES ASSUME TypeOK, EvidenceInv, BreakerConsistent, [Next]_vars
               PROVE  [Breaker!Next]_(Breaker!vars)
    OBVIOUS
  <2>1. CASE UNCHANGED <<age, era, pc, outcome, origin>>
    BY <2>1 DEF Breaker!vars, AbsState, AbsVerdict, StateOf, Verdict, CountedFailure
  <2>2. ASSUME NEW r \in Requests, NEW o \in Origins, FetchAdmitted(r, o)
        PROVE  [Breaker!Next]_(Breaker!vars)
    <3>1. outcome[r] = None
      BY <2>2 DEF FetchAdmitted, EvidenceInv, VerdictMatchesEvidence
    <3>2. Verdict(r) = None /\ Verdict(r)' = <<"admitted", o>>
      BY <2>2, <3>1, ClientAssumption DEF FetchAdmitted, Verdict, CountedFailure, TypeOK, Outcomes
    <3>3. \A q \in Requests \ {r} : Verdict(q)' = Verdict(q)
      BY <2>2 DEF FetchAdmitted, Verdict, CountedFailure, TypeOK
    <3>4. AbsState' = AbsState /\ era' = era /\ StateOf(o) # "open"
      BY <2>2 DEF FetchAdmitted, breaker, AbsState, StateOf
    <3>5. Breaker!Admit(r, o)
      BY <3>2, <3>3, <3>4 DEF Breaker!Admit, AbsState, AbsVerdict
    <3> QED
      BY <3>5 DEF Breaker!Next
  <2>3. ASSUME NEW r \in Requests, NEW o \in Origins, FetchRefused(r, o)
        PROVE  [Breaker!Next]_(Breaker!vars)
    <3>0. outcome[r] = None
      BY <2>3 DEF FetchRefused, EvidenceInv, VerdictMatchesEvidence
    <3>1. Verdict(r) = None /\ Verdict(r)' = <<"refused", o>>
      BY <2>3, <3>0, ClientAssumption
      DEF FetchRefused, Settle, Verdict, CountedFailure, TypeOK, Outcomes
    <3>2. \A q \in Requests \ {r} : Verdict(q)' = Verdict(q)
      BY <2>3 DEF FetchRefused, Settle, Verdict, CountedFailure, TypeOK
    <3>3. AbsState' = AbsState /\ era' = era /\ StateOf(o) = "open"
      BY <2>3 DEF FetchRefused, breaker, AbsState, StateOf
    <3>4. Breaker!Refuse(r, o)
      BY <3>1, <3>2, <3>3 DEF Breaker!Refuse, AbsState, AbsVerdict
    <3> QED
      BY <3>4 DEF Breaker!Next
  <2>4. ASSUME NEW r \in Requests, Definitive(r) PROVE [Breaker!Next]_(Breaker!vars)
    <3>1. /\ origin[r] \in Origins
          /\ AbsVerdict[r] = <<"admitted", origin[r]>>
          /\ AbsVerdict' = [AbsVerdict EXCEPT ![r] = <<"answered", origin[r]>>]
      BY <2>4, Settles DEF Definitive, InFlight, Outcomes
    <3>2. /\ \A o \in Origins : StateOf(o)' = IF o = origin[r] THEN "closed" ELSE StateOf(o)
          /\ UNCHANGED era
      BY <2>4, <3>1, ClientAssumption DEF Definitive, RecordSuccess, StateOf, TypeOK
    <3>3. Breaker!Answer(r, origin[r])
      BY <3>1, <3>2 DEF Breaker!Answer, AbsState
    <3> QED
      BY <3>1, <3>3 DEF Breaker!Next
  <2>5. ASSUME NEW r \in Requests, Permanent(r) PROVE [Breaker!Next]_(Breaker!vars)
    BY <2>5, FailureFails DEF Permanent, InFlight, Outcomes
  <2>6. ASSUME NEW r \in Requests, NEW b \in BOOLEAN, pc[r] = "attempting", Exhausted(r, b)
        PROVE  [Breaker!Next]_(Breaker!vars)
    BY <2>6, FailureFails DEF Exhausted, InFlight, Outcomes
  <2>7. ASSUME NEW r \in Requests, NEW b \in BOOLEAN, pc[r] = "attempting", Backoff(r, b)
        PROVE  [Breaker!Next]_(Breaker!vars)
    <3>1. UNCHANGED AbsVerdict
      BY <2>7, GoesOn DEF Backoff, InFlight
    <3> QED
      BY <2>7, <3>1 DEF Backoff, breaker, Breaker!vars, AbsState, StateOf
  <2>8. ASSUME NEW r \in Requests, Wake(r) PROVE [Breaker!Next]_(Breaker!vars)
    <3>1. UNCHANGED AbsVerdict
      BY <2>8, GoesOn DEF Wake, InFlight
    <3> QED
      BY <2>8, <3>1 DEF Wake, breaker, Breaker!vars, AbsState, StateOf
  <2>9. CASE ResetCircuits
    <3>1. UNCHANGED AbsVerdict
      BY <2>9 DEF ResetCircuits, request, AbsVerdict, Verdict, CountedFailure
    <3>2. AbsState' = [o \in Origins |-> "closed"] /\ era' = ~era
      BY <2>9, ClientAssumption DEF ResetCircuits, AbsState, StateOf
    <3>3. Breaker!Forget
      BY <3>1, <3>2 DEF Breaker!Forget
    <3> QED
      BY <3>3 DEF Breaker!Next
  <2>10. CASE Tick
    <3> DEFINE S == {o \in Origins : StateOf(o) = "open" /\ StateOf(o)' = "half-open"}
    <3>1. \A o \in Origins : StateOf(o)' = IF o \in S THEN "half-open" ELSE StateOf(o)
      BY <2>10, ClientAssumption DEF Tick, StateOf, TypeOK, Smaller
    <3>2. UNCHANGED <<AbsVerdict, era>>
      BY <2>10 DEF Tick, AbsVerdict, Verdict, CountedFailure
    <3>3. Breaker!Cool(S)
      BY <3>1, <3>2 DEF Breaker!Cool, AbsState
    <3> QED
      BY <3>3 DEF Breaker!Next
  <2> QED
    BY <2>1, <2>2, <2>3, <2>4, <2>5, <2>6, <2>7, <2>8, <2>9, <2>10
    DEF Next, vars, breaker, request, RetryStatus, TransportError, DeadlineExpires,
        AbortSurfaces, TryAgain, CallerAborts
<1> QED
  BY <1>1, <1>2, TypeCorrect, EvidenceCorrect, BreakerIsConsistent, PTL
  DEF Spec, Breaker!Spec, ImplementsBreaker
=============================================================================
