--------------------------- MODULE CircuitBreaker ---------------------------
(***************************************************************************)
(* CircuitBreaker (serving/contextpilot_circuit_breaker.py) and callers    *)
(* that ask is_open() before a call and record how it ended; the calls     *)
(* overlap.  Each method runs under the breaker's lock.                    *)
(***************************************************************************)
EXTENDS Integers, Sequences, FiniteSets, SequencesExt, FiniteSetsExt

CONSTANTS
    Callers,
    WindowSize, LatencyWindow,   \* maxlen of the two deques
    ErrorPercent,                \* error_rate_threshold, in percent
    Cooldown,                    \* in ticks
    MaxFailures                  \* bound on the calls that end badly

ASSUME BreakerAssumption ==
    /\ WindowSize \in Nat \ {0} /\ LatencyWindow \in Nat \ {0} /\ Cooldown \in Nat
    /\ ErrorPercent \in Nat /\ MaxFailures \in Nat

VARIABLES
    breaker,    \* [state, age, requests, latencies]; age: ticks since opened_at
    calls,      \* callers between is_open() and the record
    failures    \* calls that ended badly so far

breakerVars == <<breaker, calls, failures>>

Closed == [state |-> "closed", age |-> 0, requests |-> <<>>, latencies |-> <<>>]
BreakerInit == breaker = Closed /\ calls = {} /\ failures = 0

Keep(window, n) == SubSeq(window, Max({Len(window) - n, 0}) + 1, Len(window))

(* _compute_p99; a latency is 1 when it is above the threshold, else 0. *)
P99(window) == SortSeq(window, <)[Max({1, ((99 * Len(window)) + 99) \div 100})]

Opened(b) == [b EXCEPT !.state = "open", !.age = 0]

TooManyErrors(b) ==
    100 * Cardinality({i \in DOMAIN b.requests : ~b.requests[i]}) > ErrorPercent * Len(b.requests)
TooSlow(b) == Len(b.latencies) = LatencyWindow /\ P99(b.latencies) > 0

(* _evaluate_closed_thresholds_locked *)
Evaluate(b) ==
    IF b.state = "closed" /\ ((b.requests # <<>> /\ TooManyErrors(b)) \/ TooSlow(b)) THEN Opened(b) ELSE b

(* _refresh_state_locked *)
Refresh(b) == IF b.state = "open" /\ b.age >= Cooldown THEN [b EXCEPT !.state = "half_open"] ELSE b

Close(b) == Closed

(* Mutant: a success does not close a half-open breaker. *)
RecordSuccessStays(b, latency) ==
    Evaluate([b EXCEPT !.requests = Keep(Append(@, TRUE), WindowSize),
                       !.latencies = Keep(Append(@, latency), LatencyWindow)])

(* record_success and record_failure, after _refresh_state_locked. *)
RecordSuccess(b, latency) ==
    IF b.state = "half_open" THEN Close(b)
    ELSE Evaluate([b EXCEPT !.requests = Keep(Append(@, TRUE), WindowSize),
                            !.latencies = Keep(Append(@, latency), LatencyWindow)])
RecordFailure(b) ==
    IF b.state = "half_open" THEN Opened(b)
    ELSE Evaluate([b EXCEPT !.requests = Keep(Append(@, FALSE), WindowSize)])

(* is_open: the caller goes on unless it is. *)
Ask(c) ==
    /\ c \notin calls /\ breaker' = Refresh(breaker)
    /\ calls' = IF breaker'.state = "open" THEN calls ELSE calls \cup {c}
    /\ UNCHANGED failures

EndsWell(c) ==
    /\ c \in calls /\ calls' = calls \ {c} /\ breaker' = RecordSuccess(Refresh(breaker), 0)
    /\ UNCHANGED failures

EndsSlow(c) ==
    /\ c \in calls /\ failures < MaxFailures /\ calls' = calls \ {c} /\ failures' = failures + 1
    /\ breaker' = RecordSuccess(Refresh(breaker), 1)

Fails(c) ==
    /\ c \in calls /\ failures < MaxFailures /\ calls' = calls \ {c} /\ failures' = failures + 1
    /\ breaker' = RecordFailure(Refresh(breaker))

Tick ==
    /\ breaker.state = "open" /\ breaker.age < Cooldown /\ breaker' = [breaker EXCEPT !.age = @ + 1]
    /\ UNCHANGED <<calls, failures>>

BreakerNext == Tick \/ \E c \in Callers : Ask(c) \/ EndsWell(c) \/ EndsSlow(c) \/ Fails(c)

-----------------------------------------------------------------------------
(* A closed breaker has seen neither too many errors nor too slow calls     *)
(* since it closed: whatever was recorded while it was open, by calls that  *)
(* began before it opened, is gone.                                         *)
ClosedIsHealthy == breaker.state = "closed" => ~TooManyErrors(breaker) /\ ~TooSlow(breaker)

(* The breaker is closed only while calls are healthy, and once no call     *)
(* ends badly any more it closes for good, although results of calls that   *)
(* began earlier still arrive while it is half open.                        *)
BreakerRecovers == []ClosedIsHealthy /\ <>[](breaker.state = "closed")
=============================================================================
