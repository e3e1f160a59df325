------------------------ MODULE CircuitBreakerProofs ------------------------
(***************************************************************************)
(* ClosedIsHealthy for every window, threshold, cooldown and set of        *)
(* callers.                                                                *)
(***************************************************************************)
EXTENDS CircuitBreaker, FiniteSetTheorems, TLAPS

(* A record with the breaker's four fields. *)
Breaker(b) ==
    b = [state |-> b.state, age |-> b.age, requests |-> b.requests, latencies |-> b.latencies]

Healthy(b) == b.state = "closed" => ~TooManyErrors(b) /\ ~TooSlow(b)

BreakerSpec == BreakerInit /\ [][BreakerNext]_breakerVars

-----------------------------------------------------------------------------
USE BreakerAssumption

(* No error is too many when nothing was recorded. *)
LEMMA NoRequestsNoErrors == ASSUME NEW b, b.requests = <<>> PROVE ~TooManyErrors(b)
  <1>1. {i \in DOMAIN b.requests : ~b.requests[i]} = {}
    OBVIOUS
  <1>2. Cardinality({}) = 0 /\ Len(b.requests) = 0
    BY FS_EmptySet
  <1> QED
    BY <1>1, <1>2 DEF TooManyErrors

(* A new or newly closed breaker. *)
LEMMA ClosedBreaker == Breaker(Closed) /\ Healthy(Closed)
  <1>1. Closed.requests = <<>> /\ Closed.latencies = <<>>
    BY DEF Closed
  <1>2. ~TooSlow(Closed)
    BY <1>1 DEF TooSlow
  <1> QED
    BY <1>1, <1>2, NoRequestsNoErrors DEF Breaker, Healthy, Closed

(* _evaluate_closed_thresholds_locked closes nothing and leaves no closed   *)
(* breaker that is not healthy.                                             *)
LEMMA EvaluateIsHealthy == ASSUME NEW b, Breaker(b) PROVE Breaker(Evaluate(b)) /\ Healthy(Evaluate(b))
  <1>1. CASE b.state = "closed" /\ ((b.requests # <<>> /\ TooManyErrors(b)) \/ TooSlow(b))
    BY <1>1 DEF Evaluate, Opened, Breaker, Healthy
  <1>2. CASE ~(b.state = "closed" /\ ((b.requests # <<>> /\ TooManyErrors(b)) \/ TooSlow(b)))
    <2>1. Evaluate(b) = b
      BY <1>2 DEF Evaluate
    <2> QED
      BY <1>2, <2>1, NoRequestsNoErrors DEF Healthy
  <1> QED
    BY <1>1, <1>2

(* _refresh_state_locked neither closes a breaker nor touches a closed one. *)
LEMMA RefreshIsHealthy ==
  ASSUME NEW b, Breaker(b), Healthy(b) PROVE Breaker(Refresh(b)) /\ Healthy(Refresh(b))
  <1>1. CASE b.state = "open" /\ b.age >= Cooldown
    BY <1>1 DEF Refresh, Breaker, Healthy
  <1>2. CASE ~(b.state = "open" /\ b.age >= Cooldown)
    BY <1>2 DEF Refresh
  <1> QED
    BY <1>1, <1>2

(* Its fields can be replaced. *)
LEMMA UpdatedIsBreaker ==
  ASSUME NEW b, Breaker(b), NEW x, NEW y
  PROVE  /\ Breaker([b EXCEPT !.requests = x, !.latencies = y])
         /\ Breaker([b EXCEPT !.requests = x])
         /\ Breaker([b EXCEPT !.state = "open", !.age = 0])
         /\ [b EXCEPT !.state = "open", !.age = 0].state = "open"
  <1> DEFINE bx == [b EXCEPT !.requests = x]
             bs == [b EXCEPT !.state = "open"]
  <1>1. Breaker(bx) /\ Breaker(bs) /\ bs.state = "open"
    BY DEF Breaker
  <1>2. \A c : Breaker(c) => Breaker([c EXCEPT !.latencies = y])
    BY DEF Breaker
  <1>3. \A c : Breaker(c) => Breaker([c EXCEPT !.age = 0]) /\ [c EXCEPT !.age = 0].state = c.state
    BY DEF Breaker
  <1>4. [b EXCEPT !.requests = x, !.latencies = y] = [bx EXCEPT !.latencies = y]
    OBVIOUS
  <1>5. [b EXCEPT !.state = "open", !.age = 0] = [bs EXCEPT !.age = 0]
    OBVIOUS
  <1> QED
    BY <1>1, <1>2, <1>3, <1>4, <1>5

(* What a call that ended leaves behind. *)
LEMMA RecordIsHealthy ==
  ASSUME NEW b, Breaker(b), NEW latency
  PROVE  /\ Breaker(RecordSuccess(b, latency)) /\ Healthy(RecordSuccess(b, latency))
         /\ Breaker(RecordFailure(b)) /\ Healthy(RecordFailure(b))
  <1>1. Breaker([b EXCEPT !.requests = Keep(Append(@, TRUE), WindowSize),
                          !.latencies = Keep(Append(@, latency), LatencyWindow)])
    BY UpdatedIsBreaker
  <1>2. Breaker([b EXCEPT !.requests = Keep(Append(@, FALSE), WindowSize)])
    BY UpdatedIsBreaker
  <1>3. Breaker(Opened(b)) /\ Healthy(Opened(b))
    BY UpdatedIsBreaker DEF Healthy, Opened
  <1>4. Breaker(RecordSuccess(b, latency)) /\ Healthy(RecordSuccess(b, latency))
    BY <1>1, ClosedBreaker, EvaluateIsHealthy DEF RecordSuccess, Close
  <1>5. Breaker(RecordFailure(b)) /\ Healthy(RecordFailure(b))
    BY <1>2, <1>3, EvaluateIsHealthy DEF RecordFailure
  <1> QED
    BY <1>4, <1>5

(* A closed breaker is healthy: for every window, threshold and cooldown,   *)
(* and however the calls of any number of callers overlap                   *)
(* (contextpilot_circuit_breaker.py).                                       *)
THEOREM BreakerSoundness == BreakerSpec => []ClosedIsHealthy
  <1> DEFINE Inv == Breaker(breaker) /\ Healthy(breaker)
  <1>1. BreakerInit => Inv
    BY ClosedBreaker DEF BreakerInit
  <1>2. Inv /\ [BreakerNext]_breakerVars => Inv'
    <2> SUFFICES ASSUME Inv, [BreakerNext]_breakerVars PROVE Inv'
      OBVIOUS
    <2>1. Breaker(Refresh(breaker)) /\ Healthy(Refresh(breaker))
      BY RefreshIsHealthy
    <2>2. ASSUME NEW c \in Callers, Ask(c) PROVE Inv'
      BY <2>1, <2>2 DEF Ask, Breaker, Healthy, TooManyErrors, TooSlow
    <2>3. ASSUME NEW c \in Callers, EndsWell(c) \/ EndsSlow(c) \/ Fails(c) PROVE Inv'
      <3>1. \/ breaker' = RecordSuccess(Refresh(breaker), 0)
            \/ breaker' = RecordSuccess(Refresh(breaker), 1)
            \/ breaker' = RecordFailure(Refresh(breaker))
        BY <2>3 DEF EndsWell, EndsSlow, Fails
      <3>2. \A b : (b = breaker' /\ Breaker(b) /\ Healthy(b)) => Inv'
        BY DEF Breaker, Healthy, TooManyErrors, TooSlow
      <3> QED
        BY <2>1, <3>1, <3>2, RecordIsHealthy
    <2>4. CASE Tick
      BY <2>4 DEF Tick, Breaker, Healthy
    <2>5. CASE UNCHANGED breakerVars
      BY <2>5 DEF breakerVars, Breaker, Healthy, TooManyErrors, TooSlow
    <2> QED
      BY <2>2, <2>3, <2>4, <2>5 DEF BreakerNext
  <1>3. Inv => ClosedIsHealthy
    BY DEF Healthy, ClosedIsHealthy
  <1> QED
    BY <1>1, <1>2, <1>3, PTL DEF BreakerSpec
=============================================================================
