----------------------------- MODULE ApiServer -----------------------------
(***************************************************************************)
(* The HTTP server (entrypoints/openai/api_server_v2.py) around the        *)
(* serving engine: start-up and shutdown, the engine loop, the two         *)
(* watchdogs (serving/watchdog.py) over the health state                   *)
(* (serving/health.py), authentication and rate limit, backpressure,       *)
(* validation (serving/validation.py) and the request handlers.            *)
(*                                                                         *)
(* Coroutines share one event loop: what a handler does between two awaits *)
(* is one step.  _initialize_model and engine.step() never await, so       *)
(* nothing else on the event loop runs during them; the two watchdogs are  *)
(* threads and do run.  The engine is what its callers see of it: requests *)
(* of one or more sequences that a step gives a token each (ServingEngine  *)
(* models what is inside).                                                 *)
(***************************************************************************)
EXTENDS Integers, Sequences, FiniteSets, SequencesExt

CONSTANTS
    Clients, Key,          \* Key[c] is a client's API key, or "bad"
    Shapes,                \* Shapes[c]: what client c may ask for
    Rpm, Window, MaxTime,  \* _rate_limit_rpm, its 60 seconds, a bound on time
    MaxWaiting, MaxN,      \* _max_waiting_requests, _max_n
    MaxSeqLength,          \* runtime_max_seq_length
    Modes,                 \* "cli" (the model is loaded at start-up), "serve"
    Arrivals               \* Arrivals[m]: the clients there are in mode m, a bound

ASSUME ServerAssumption ==
    /\ IsFiniteSet(Clients) /\ Rpm \in Nat /\ MaxWaiting \in Nat /\ MaxN \in Nat

VARIABLES
    mode, watched,                       \* how it was started; with timeouts?
    initTask, engine, health, exited,    \* _model_init_task, engine, _health_state
    loop, shutEvent, down,               \* _engine_task, its event, shutdown_event
    swd, cancelled, overdue,             \* startup watchdog
    dwd, active, late, stopped,          \* decode watchdog
    now, bucket, accepted,               \* rate limit; accepted is history
    shape, pc, conn, idx, group, choices \* per client

lifeVars == <<mode, watched, initTask, engine, health, exited, loop, shutEvent, down>>
wdVars == <<swd, cancelled, overdue, dwd, active, late, stopped>>
rateVars == <<now, bucket, accepted>>
reqVars == <<shape, pc, conn, idx, group, choices>>
vars == <<lifeVars, wdVars, rateVars, reqVars>>

Keys == {Key[c] : c \in Clients} \ {"bad"}
NoGroup == [at |-> "none", tok |-> <<>>, score |-> <<>>, fin |-> {}]

(* "cli": main has set _startup_args.  "serve": MoE.serve() has called      *)
(* initialize_with_model, which leaves the server healthy.                  *)
Init ==
    /\ mode \in Modes /\ watched \in IF mode = "cli" THEN BOOLEAN ELSE {FALSE}
    /\ initTask = "none" /\ exited = FALSE
    /\ engine = (mode = "serve")
    /\ health = IF mode = "serve" THEN "healthy" ELSE "starting"
    /\ loop = "none" /\ shutEvent = FALSE /\ down = "up"
    /\ swd = "off" /\ cancelled = FALSE /\ overdue = FALSE
    /\ dwd = "off" /\ active = FALSE /\ late = FALSE /\ stopped = FALSE
    /\ now = 0 /\ bucket = [k \in Keys |-> <<>>] /\ accepted = bucket
    /\ shape \in [Clients -> UNION {Shapes[c] : c \in Clients}]
    /\ \A c \in Clients : IF c \in Arrivals[mode] THEN shape[c] \in Shapes[c]
                                                  ELSE shape[c] = CHOOSE s \in Shapes[c] : TRUE
    /\ pc = [c \in Clients |-> IF c \in Arrivals[mode] THEN "new" ELSE "never"]
    /\ conn = [c \in Clients |-> TRUE]
    /\ idx = [c \in Clients |-> 1]
    /\ group = [c \in Clients |-> NoGroup] /\ choices = [c \in Clients |-> <<>>]

(* The event loop takes its next step: no call that never awaits is in      *)
(* progress.                                                                *)
EventLoopFree == ~exited /\ initTask \notin {"loading", "starting", "finishing"} /\ loop # "step"

-----------------------------------------------------------------------------
(* Start-up. *)

(* startup_event: load the model in a task, or start the engine loop. *)
Startup ==
    /\ EventLoopFree /\ down = "up" /\ initTask = "none" /\ loop = "none"
    /\ IF engine THEN loop' = "run" /\ UNCHANGED initTask
                 ELSE initTask' = "created" /\ UNCHANGED loop
    /\ UNCHANGED <<mode, watched, engine, health, exited, shutEvent, down, wdVars, rateVars, reqVars>>

(* _initialize_model up to the constructor of the engine. *)
InitBegins ==
    /\ EventLoopFree /\ initTask = "created"
    /\ initTask' = "loading" /\ health' = "starting"
    /\ swd' = IF watched THEN "look" ELSE "off"
    /\ UNCHANGED <<mode, watched, engine, exited, loop, shutEvent, down, cancelled, overdue, dwd,
                   active, late, stopped, rateVars, reqVars>>

InitLoads ==
    /\ ~exited /\ initTask = "loading"
    /\ initTask' = "starting" /\ engine' = TRUE
    /\ UNCHANGED <<mode, watched, health, exited, loop, shutEvent, down, wdVars, rateVars, reqVars>>

(* start_decode_watchdog and _ensure_engine_loop_running. *)
InitStartsLoop ==
    /\ ~exited /\ initTask = "starting"
    /\ initTask' = "finishing" /\ loop' = "run"
    /\ dwd' = IF watched THEN "look" ELSE "off"
    /\ late' = FALSE
    /\ UNCHANGED <<mode, watched, engine, health, exited, shutEvent, down, swd, cancelled, overdue,
                   active, stopped, rateVars, reqVars>>

(* `finally': the startup watchdog is cancelled; then set_healthy. *)
InitCancels ==
    /\ ~exited /\ initTask = "finishing" /\ ~cancelled
    /\ cancelled' = TRUE
    /\ UNCHANGED <<lifeVars, swd, overdue, dwd, active, late, stopped, rateVars, reqVars>>

InitEnds ==
    /\ ~exited /\ initTask = "finishing" /\ cancelled
    /\ initTask' = "done" /\ health' = "healthy"
    /\ UNCHANGED <<mode, watched, engine, exited, loop, shutEvent, down, wdVars, rateVars, reqVars>>

InitFails ==
    /\ ~exited /\ initTask = "loading"
    /\ initTask' = "failed" /\ cancelled' = TRUE
    /\ UNCHANGED <<mode, watched, engine, health, exited, loop, shutEvent, down, swd, overdue,
                   dwd, active, late, stopped, rateVars, reqVars>>

-----------------------------------------------------------------------------
(* The watchdog threads.  overdue and late stand for the clock: more than   *)
(* the timeout has passed since the start, or since the last feed() (which   *)
(* nobody looks at while the watchdog is inactive).                         *)
TimePasses ==
    /\ ~exited
    /\ overdue' = (overdue \/ (swd = "look" /\ ~engine)) /\ late' = (late \/ active \/ dwd = "measure")
    /\ UNCHANGED <<lifeVars, swd, cancelled, dwd, active, stopped, rateVars, reqVars>>

(* StartupWatchdog.run: one turn of its loop, ... *)
SwdLooks ==
    /\ ~exited /\ swd = "look" /\ (cancelled \/ engine \/ overdue)
    /\ swd' = IF cancelled \/ engine THEN "ended" ELSE "due"
    /\ UNCHANGED <<lifeVars, cancelled, overdue, dwd, active, late, stopped, rateVars, reqVars>>

(* ... set_unhealthy, ... *)
SwdMarks ==
    /\ ~exited /\ swd = "due"
    /\ health' = "unhealthy" /\ swd' = "marked"
    /\ UNCHANGED <<mode, watched, initTask, engine, exited, loop, shutEvent, down, cancelled,
                   overdue, dwd, active, late, stopped, rateVars, reqVars>>

(* ... and _hard_exit. *)
SwdExits ==
    /\ ~exited /\ swd = "marked"
    /\ exited' = TRUE /\ swd' = "ended"
    /\ UNCHANGED <<mode, watched, initTask, engine, health, loop, shutEvent, down, cancelled,
                   overdue, dwd, active, late, stopped, rateVars, reqVars>>

(* DecodeWatchdog.run reads _active, then the time of the last feed. *)
DwdLooks ==
    /\ ~exited /\ dwd = "look" /\ (stopped \/ active)
    /\ dwd' = IF stopped THEN "ended" ELSE "measure"
    /\ UNCHANGED <<lifeVars, swd, cancelled, overdue, active, late, stopped, rateVars, reqVars>>

DwdMeasures ==
    /\ ~exited /\ dwd = "measure"
    /\ dwd' = "look" /\ health' = IF late THEN "unhealthy" ELSE health
    /\ UNCHANGED <<mode, watched, initTask, engine, exited, loop, shutEvent, down, swd, cancelled,
                   overdue, active, late, stopped, rateVars, reqVars>>

-----------------------------------------------------------------------------
(* The engine, as the server sees it. *)
PendingGroups == {c \in Clients : group[c].at \in {"waiting", "running"}}
NumWaiting == Cardinality({c \in Clients : group[c].at = "waiting"})

(* One token for every unfinished sequence of the group: `end' are the ones *)
(* that end with it, `good' those whose token has the better log            *)
(* probability, which counts only if the request asked for it.              *)
Token(c, g, end, good) ==
    LET live == DOMAIN g.tok \ g.fin
        fin  == g.fin \cup (live \cap end)
                \cup {i \in live : g.tok[i] + 1 >= shape[c].maxTokens}
    IN [at    |-> IF fin = DOMAIN g.tok THEN "done" ELSE "running",
        tok   |-> [i \in DOMAIN g.tok |-> IF i \in live THEN g.tok[i] + 1 ELSE g.tok[i]],
        score |-> [i \in DOMAIN g.tok |-> IF i \in live /\ shape[c].logprobs /\ i \notin good
                                          THEN g.score[i] - 1 ELSE g.score[i]],
        fin   |-> fin]

(* Mutant: the watchdog is only told once the step is over. *)
LoopBeginsUnwatched ==
    /\ EventLoopFree /\ loop = "run" /\ ~shutEvent /\ PendingGroups # {}
    /\ loop' = "step"
    /\ UNCHANGED <<mode, watched, initTask, engine, health, exited, shutEvent, down, wdVars, rateVars, reqVars>>

(* _engine_loop: a turn with pending requests begins with activate(), ... *)
LoopBegins ==
    /\ EventLoopFree /\ loop = "run" /\ ~shutEvent /\ PendingGroups # {}
    /\ loop' = "step"
    /\ IF dwd = "off" THEN UNCHANGED <<active, late>> ELSE active' = TRUE /\ late' = FALSE
    /\ UNCHANGED <<mode, watched, initTask, engine, health, exited, shutEvent, down, swd, cancelled,
                   overdue, dwd, stopped, rateVars, reqVars>>

(* ... and engine.step(), which calls on_token for every token, ends with   *)
(* feed().                                                                  *)
LoopSteps ==
    /\ ~exited /\ loop = "step"
    /\ loop' = "run" /\ late' = (late /\ dwd = "off")
    /\ \E G \in SUBSET PendingGroups, end, good \in SUBSET (1 .. MaxN) :
          group' = [c \in Clients |-> IF c \in G THEN Token(c, group[c], end, good) ELSE group[c]]
    /\ UNCHANGED <<mode, watched, initTask, engine, health, exited, shutEvent, down, swd, cancelled,
                   overdue, dwd, active, stopped, rateVars, shape, pc, conn, idx, choices>>

(* step() raises: the task of the loop is over. *)
LoopDies ==
    /\ ~exited /\ loop = "step"
    /\ loop' = "dead"
    /\ UNCHANGED <<mode, watched, initTask, engine, health, exited, shutEvent, down, wdVars, rateVars, reqVars>>

LoopRests ==
    /\ EventLoopFree /\ loop = "run" /\ ~shutEvent /\ PendingGroups = {} /\ active
    /\ active' = FALSE
    /\ UNCHANGED <<lifeVars, swd, cancelled, overdue, dwd, late, stopped, rateVars, reqVars>>

LoopEnds ==
    /\ EventLoopFree /\ loop = "run" /\ shutEvent
    /\ loop' = "ended"
    /\ UNCHANGED <<mode, watched, initTask, engine, health, exited, shutEvent, down, wdVars, rateVars, reqVars>>

-----------------------------------------------------------------------------
(* shutdown_event, which uvicorn calls once the responses have ended. *)
Quiet == \A c \in Clients : pc[c] \notin {"handler", "waiting", "streaming"}

(* The init task is cancelled if it has not begun; the exception of one     *)
(* that failed is raised here and ends the shutdown.                        *)
ShutdownBegins ==
    /\ EventLoopFree /\ down = "up" /\ Quiet /\ (initTask # "none" \/ loop # "none")
    /\ down' = IF initTask = "failed" THEN "raised" ELSE "loop"
    /\ initTask' = IF initTask = "created" THEN "cancelled" ELSE initTask
    /\ shutEvent' = (initTask # "failed" /\ loop # "none")
    /\ UNCHANGED <<mode, watched, engine, health, exited, loop, wdVars, rateVars, reqVars>>

(* await _engine_task, which raises what the loop died of. *)
ShutdownAwaits ==
    /\ EventLoopFree /\ down = "loop" /\ loop \in {"none", "dead", "ended"}
    /\ down' = IF loop = "dead" THEN "raised" ELSE "watchdog"
    /\ UNCHANGED <<mode, watched, initTask, engine, health, exited, loop, shutEvent, wdVars, rateVars, reqVars>>

(* deactivate(), stop() and join() with its timeout. *)
ShutdownEnds ==
    /\ EventLoopFree /\ down = "watchdog"
    /\ down' = "down"
    /\ IF dwd = "off" THEN UNCHANGED <<active, stopped>> ELSE active' = FALSE /\ stopped' = TRUE
    /\ UNCHANGED <<mode, watched, initTask, engine, health, exited, loop, shutEvent, swd, cancelled,
                   overdue, dwd, late, rateVars, reqVars>>

-----------------------------------------------------------------------------
(* Requests, which uvicorn takes between startup_event and shutdown_event. *)
Serving == EventLoopFree /\ down = "up" /\ (initTask # "none" \/ loop # "none")
lifeAndWd == <<lifeVars, wdVars>>

Tick ==
    /\ now < MaxTime /\ \E c \in Clients : pc[c] = "new"
    /\ now' = now + 1
    /\ UNCHANGED <<lifeAndWd, bucket, accepted, reqVars>>

(* Mutant: the window leaves out its first instant. *)
InWindowOpen(k) == SelectSeq(bucket[k], LAMBDA t : t > now - Window)

InWindow(k) == SelectSeq(bucket[k], LAMBDA t : t >= now - Window)

(* _check_auth: 401 for a key nobody has, ... *)
Unauthorized(c) ==
    /\ Serving /\ pc[c] = "new" /\ Key[c] = "bad"
    /\ pc' = [pc EXCEPT ![c] = "refused"]
    /\ UNCHANGED <<lifeAndWd, rateVars, shape, conn, idx, group, choices>>

(* ... 429 for one over its limit, ... *)
RateLimited(c) ==
    /\ Serving /\ pc[c] = "new" /\ Key[c] # "bad" /\ Rpm > 0
    /\ Len(InWindow(Key[c])) >= Rpm
    /\ bucket' = [bucket EXCEPT ![Key[c]] = InWindow(Key[c])]
    /\ pc' = [pc EXCEPT ![c] = "refused"]
    /\ UNCHANGED <<lifeAndWd, now, accepted, shape, conn, idx, group, choices>>

(* ... and call_next for the others. *)
Authorized(c) ==
    LET k == Key[c] IN
    /\ Serving /\ pc[c] = "new" /\ k # "bad"
    /\ Rpm > 0 => Len(InWindow(k)) < Rpm
    /\ bucket' = IF Rpm > 0 THEN [bucket EXCEPT ![k] = Append(InWindow(k), now)] ELSE bucket
    /\ accepted' = [accepted EXCEPT ![k] = Append(@, now)]
    /\ pc' = [pc EXCEPT ![c] = "handler"]
    /\ UNCHANGED <<lifeAndWd, now, shape, conn, idx, group, choices>>

(* int(n or 1), int(best_of or n); chat completions have no best_of. *)
RequestedN(c) == IF shape[c].n = 0 THEN 1 ELSE shape[c].n
BestOf(c) == IF shape[c].chat \/ shape[c].bestOf = 0 THEN RequestedN(c) ELSE shape[c].bestOf

(* _check_backpressure *)
AtCapacity == MaxWaiting > 0 /\ NumWaiting >= MaxWaiting

(* validate_required_params, validate_sampling_params: -1 is None. *)
BadParams(c) == shape[c].maxTokens <= 0 \/ ~shape[c].sane

(* _validate_parallel_sampling *)
BadParallel(c) ==
    \/ RequestedN(c) \notin 1 .. MaxN
    \/ BestOf(c) \notin 1 .. MaxN
    \/ BestOf(c) < RequestedN(c)

(* validate_context_length of prompt i *)
TooLong(c, i) == shape[c].prompts[i] + shape[c].maxTokens > MaxSeqLength

(* What the handlers refuse before anything is generated; streaming takes   *)
(* one prompt and one sequence.                                             *)
Refusal(c) ==
    \/ ~engine \/ AtCapacity \/ BadParams(c) \/ BadParallel(c)
    \/ shape[c].prompts = <<>>
    \/ shape[c].stream /\ (BestOf(c) # 1 \/ Len(shape[c].prompts) # 1)
    \/ TooLong(c, 1)

Refuse(c) ==
    /\ EventLoopFree /\ pc[c] = "handler" /\ Refusal(c)
    /\ pc' = [pc EXCEPT ![c] = "refused"]
    /\ UNCHANGED <<lifeAndWd, rateVars, shape, conn, idx, group, choices>>

(* engine.add_request with n = best_of. *)
NewGroup(c) ==
    [at |-> "waiting", tok |-> [i \in 1 .. BestOf(c) |-> 0],
     score |-> [i \in 1 .. BestOf(c) |-> 0], fin |-> {}]

(* The handler hands the first prompt to the engine. *)
Admit(c) ==
    /\ EventLoopFree /\ pc[c] = "handler" /\ ~Refusal(c)
    /\ pc' = [pc EXCEPT ![c] = IF shape[c].stream THEN "streaming" ELSE "waiting"]
    /\ group' = [group EXCEPT ![c] = NewGroup(c)]
    /\ UNCHANGED <<lifeAndWd, rateVars, shape, conn, idx, choices>>

(* _select_best_results: the n sequences with the best total log            *)
(* probability, or with the most tokens, in the order of their ids.         *)
Rank(c, i) == IF shape[c].logprobs THEN group[c].score[i] ELSE group[c].tok[i]
Better(c, i, j) == Rank(c, i) > Rank(c, j) \/ (Rank(c, i) = Rank(c, j) /\ i < j)
SelectBest(c) ==
    SelectSeq([i \in 1 .. BestOf(c) |-> i],
              LAMBDA i : Cardinality({j \in 1 .. BestOf(c) : Better(c, j, i)}) < RequestedN(c))

(* Mutant: the next prompt waits for one sequence too many. *)
AnswerLate(c) ==
    /\ EventLoopFree /\ pc[c] = "waiting" /\ Cardinality(group[c].fin) > BestOf(c)
    /\ pc' = [pc EXCEPT ![c] = "answered"]
    /\ UNCHANGED <<lifeAndWd, rateVars, shape, conn, idx, group, choices>>

(* _wait_non_stream_result sees done_event; the choices are added, and the  *)
(* next prompt, if there is one, is checked and added to the engine.        *)
Answer(c) ==
    LET all == Append(choices[c], SelectBest(c))
        next == idx[c] + 1
    IN /\ EventLoopFree /\ pc[c] = "waiting"
       /\ Cardinality(group[c].fin) >= BestOf(c)
       /\ choices' = [choices EXCEPT ![c] = all]
       /\ \/ /\ next > Len(shape[c].prompts)
             /\ pc' = [pc EXCEPT ![c] = "answered"]
             /\ UNCHANGED <<idx, group>>
          \/ /\ next <= Len(shape[c].prompts) /\ TooLong(c, next)
             /\ pc' = [pc EXCEPT ![c] = "refused"]
             /\ UNCHANGED <<idx, group>>
          \/ /\ next <= Len(shape[c].prompts) /\ ~TooLong(c, next)
             /\ idx' = [idx EXCEPT ![c] = next]
             /\ group' = [group EXCEPT ![c] = NewGroup(c)]
             /\ UNCHANGED pc
       /\ UNCHANGED <<lifeAndWd, rateVars, shape, conn>>

Disconnect(c) ==
    /\ ~exited /\ conn[c] /\ pc[c] \in {"waiting", "streaming"}
    /\ conn' = [conn EXCEPT ![c] = FALSE]
    /\ UNCHANGED <<lifeAndWd, rateVars, shape, pc, idx, group, choices>>


(* is_disconnected() is true, whatever has happened while the handler       *)
(* awaited it: abort_request, then 499 or the stream's end. *)
Abort(c) ==
    /\ EventLoopFree /\ pc[c] \in {"waiting", "streaming"} /\ ~conn[c]
    /\ pc' = [pc EXCEPT ![c] = "gone"]
    /\ group' = [group EXCEPT ![c] = NoGroup]
    /\ UNCHANGED <<lifeAndWd, rateVars, shape, conn, idx, choices>>

(* The stream's generator has sent [DONE] (StreamDelivery). *)
StreamEnds(c) ==
    /\ EventLoopFree /\ pc[c] = "streaming" /\ group[c].at = "done"
    /\ pc' = [pc EXCEPT ![c] = "answered"]
    /\ UNCHANGED <<lifeAndWd, rateVars, shape, conn, idx, group, choices>>

-----------------------------------------------------------------------------
InitSteps == InitLoads \/ InitStartsLoop \/ InitCancels \/ InitEnds
WatchdogSteps == SwdLooks \/ SwdMarks \/ SwdExits \/ DwdLooks \/ DwdMeasures
LoopTurns == LoopBegins \/ LoopRests \/ LoopEnds
ShutdownSteps == ShutdownAwaits \/ ShutdownEnds

Responds(c) == Answer(c) \/ Abort(c) \/ StreamEnds(c)

Next ==
    \/ Startup \/ InitBegins \/ InitSteps \/ InitFails
    \/ TimePasses \/ WatchdogSteps
    \/ LoopTurns \/ LoopSteps \/ LoopDies
    \/ ShutdownBegins \/ ShutdownSteps \/ Tick
    \/ \E c \in Clients :
          \/ Unauthorized(c) \/ RateLimited(c) \/ Authorized(c)
          \/ Refuse(c) \/ Admit(c) \/ Disconnect(c) \/ Responds(c)

(* Threads run and coroutines that are ready are resumed.  The model may    *)
(* load forever and a step of the engine may never return.  asyncio resumes *)
(* what is ready in turn, so a handler that is ready between two steps of   *)
(* the engine gets its turn: it need not be ready without interruption.     *)
Fairness ==
    /\ WF_vars(Startup) /\ WF_vars(InitBegins)
    /\ WF_vars(InitStartsLoop \/ InitCancels \/ InitEnds)
    /\ WF_vars(TimePasses) /\ WF_vars(SwdLooks \/ SwdMarks \/ SwdExits)
    /\ WF_vars(DwdLooks \/ DwdMeasures)
    /\ WF_vars(LoopTurns) /\ WF_vars(ShutdownSteps)
    /\ SF_vars(\E c \in Clients : Refuse(c) \/ Admit(c) \/ Responds(c))

Spec == Init /\ [][Next]_vars /\ Fairness

-----------------------------------------------------------------------------
(* First prompts never wait in a queue longer than _max_waiting_requests.   *)
FirstPromptsBounded ==
    MaxWaiting > 0 =>
        Cardinality({c \in Clients : group[c].at = "waiting" /\ idx[c] = 1}) <= MaxWaiting

(* What the server lets in is bounded.  No key gets more than Rpm requests  *)
(* past _check_auth within any Window, both ends included; and because the  *)
(* backpressure check and the add_request of a first prompt are one step,   *)
(* first prompts never wait in a queue longer than the limit.  (Later       *)
(* prompts of the same request are not checked and may exceed it.)          *)
AdmissionBounded ==
    /\ Rpm > 0 => \A k \in Keys, t \in 0 .. MaxTime :
          Cardinality({i \in DOMAIN accepted[k] : accepted[k][i] \in t .. t + Window}) <= Rpm
    /\ FirstPromptsBounded

(* A handler that has ended leaves nothing behind that the engine works on. *)
NothingLeftRunning ==
    \A c \in Clients : pc[c] \in {"refused", "answered", "gone"} => c \notin PendingGroups


(* /health answers 200 only if the model is loaded, and once start-up is    *)
(* over only if the engine loop was started.                                *)
HealthyIsLoaded == health = "healthy" => engine /\ (initTask = "done" => loop # "none")

(* /health is honest.  It answers 200 only if the model is loaded, and once *)
(* start-up is over only if the engine loop was started; a decode step that *)
(* never returns, or one that raised and took the engine loop with it, is   *)
(* reported by the decode watchdog; and a start-up that hangs is ended by   *)
(* the startup watchdog.                                                    *)
HealthIsHonest ==
    /\ []HealthyIsLoaded
    /\ (dwd # "off" /\ loop \in {"step", "dead"})
          ~> (health = "unhealthy" \/ loop = "run" \/ down # "up" \/ exited)
    /\ (swd # "off" /\ initTask = "loading") ~> (initTask # "loading" \/ exited)

StepsReturn == []<>(loop # "step")

(* If steps return, nobody waits forever.  A request that was admitted, and *)
(* that the engine does not keep pending for ever (ServingEngine:           *)
(* RequestsEnd), is answered or aborted unless the loop dies; and shutdown  *)
(* ends: nothing it awaits is waiting for it.                               *)
NobodyWaitsForever ==
    StepsReturn =>
        /\ \A c \in Clients :
              []<>(c \notin PendingGroups) =>
                  (pc[c] \in {"waiting", "streaming"} ~>
                      (pc[c] \in {"answered", "refused", "gone"} \/ loop = "dead" \/ exited))
        /\ down = "loop" ~> (down \in {"down", "raised"} \/ exited)
=============================================================================
