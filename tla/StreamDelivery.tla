--------------------------- MODULE StreamDelivery ---------------------------
(***************************************************************************)
(* The way of a streamed response: the engine's callback pushes token      *)
(* chunks into the StreamManager (serving/stream.py); the response's async *)
(* generator (api_server_v2.py, _completion_event_generator and            *)
(* _chat_event_generator) calls next() on the stream's generator in a      *)
(* worker thread, gives up on the call after 0.1 seconds and tries again.  *)
(* Giving up does not stop the thread: it stays inside the generator.      *)
(*                                                                         *)
(* One stream; the chunks are 1 .. NumTokens, the [DONE] event is          *)
(* NumTokens + 1.  The engine, the response and the two threads that may   *)
(* be in next() interleave.                                                *)
(***************************************************************************)
EXTENDS Integers, Sequences

CONSTANT NumTokens    \* tokens the request generates

ASSUME StreamAssumption == NumTokens \in Nat \ {0}

Done == NumTokens + 1
Events == 1 .. Done

VARIABLES
    queue,       \* _StreamState.queue
    pushed,      \* tokens the engine has handed to push_token
    registered,  \* the stream is in StreamManager._streams
    callback,    \* the engine still has the request's callback
    engineDead,  \* push_token raised: step() and _engine_loop have ended
    gen,         \* the stream's generator
    call,        \* the next() call that the response awaits, or its outcome
    event,       \* the event that call returned
    abandoned,   \* a thread that nobody awaits is inside the generator
    response,    \* where the response's async generator is
    connected,   \* the client is there
    received,    \* the events the client was sent
    timedOut     \* history: a poll has timed out

streamVars == <<queue, pushed, registered, callback, engineDead, gen, call,
                event, abandoned, response, connected, received,
                timedOut>>

(* _StreamState.finished *)
Finished == pushed = NumTokens

StreamInit ==
    /\ queue = <<>> /\ pushed = 0
    /\ registered = TRUE /\ callback = TRUE /\ engineDead = FALSE
    /\ gen = "new" /\ call = "none" /\ event = 0 /\ abandoned = FALSE
    /\ response = "check" /\ connected = TRUE
    /\ received = <<>> /\ timedOut = FALSE

-----------------------------------------------------------------------------

(* Mutant: the [DONE] event is not queued. *)
PushTokenWithoutDone ==
    /\ callback /\ ~engineDead /\ registered
    /\ pushed' = pushed + 1
    /\ queue' = Append(queue, pushed')
    /\ callback' = (pushed' < NumTokens)
    /\ UNCHANGED <<registered, engineDead, gen, call, event, abandoned, response,
                   connected, received, timedOut>>

(* push_token from the engine's delivery loop; the engine drops the         *)
(* callback after the last token.                                           *)
PushToken ==
    /\ callback /\ ~engineDead /\ registered
    /\ pushed' = pushed + 1
    /\ queue' = queue \o (IF pushed' = NumTokens THEN <<pushed', Done>> ELSE <<pushed'>>)
    /\ callback' = (pushed' < NumTokens)
    /\ UNCHANGED <<registered, engineDead, gen, call, event, abandoned, response,
                   connected, received, timedOut>>

(* push_token finds no stream and raises KeyError in the callback. *)
PushFails ==
    /\ callback /\ ~engineDead /\ ~registered
    /\ engineDead' = TRUE
    /\ UNCHANGED <<queue, pushed, registered, callback, gen, call, event, abandoned,
                   response, connected, received, timedOut>>

Disconnect ==
    /\ connected
    /\ connected' = FALSE
    /\ UNCHANGED <<queue, pushed, registered, callback, engineDead, gen, call,
                   event, abandoned, response, received, timedOut>>

-----------------------------------------------------------------------------
(* The response no longer refers to the generator: a suspended one is       *)
(* closed, and its finally clause removes the stream; one that has not      *)
(* started has no finally clause to run; one that a thread is in stays.     *)
ReleaseGenerator ==
    IF gen = "suspended" THEN gen' = "closed" /\ registered' = FALSE
    ELSE UNCHANGED <<gen, registered>>

(* Mutant: the request is not aborted. *)
CheckWithoutAbort ==
    /\ response = "check"
    /\ \/ /\ ~connected
          /\ response' = "disconnected"
          /\ ReleaseGenerator
          /\ UNCHANGED call
       \/ /\ connected
          /\ response' = "await"
          /\ call' = "queued"
          /\ UNCHANGED <<gen, registered>>
    /\ UNCHANGED <<queue, pushed, callback, engineDead, event, abandoned, connected,
                   received, timedOut>>

(* The loop's head: abort_request if the client is gone (the engine drops   *)
(* the callback), else the next call in a thread.                           *)
Check ==
    /\ response = "check"
    /\ \/ /\ ~connected
          /\ callback' = FALSE
          /\ response' = "disconnected"
          /\ ReleaseGenerator
          /\ UNCHANGED call
       \/ /\ connected
          /\ response' = "await"
          /\ call' = "queued"
          /\ UNCHANGED <<callback, gen, registered>>
    /\ UNCHANGED <<queue, pushed, engineDead, event, abandoned, connected, received, timedOut>>

(* The thread enters the generator.  next() raises ValueError, "generator   *)
(* already executing", if another thread is in there, and StopIteration if  *)
(* it has ended.                                                            *)
ThreadStarts ==
    /\ call = "queued"
    /\ \/ gen = "busy" /\ call' = "error" /\ UNCHANGED gen
       \/ gen \in {"new", "suspended"} /\ call' = "inside" /\ gen' = "busy"
       \/ gen = "closed" /\ call' = "stop" /\ UNCHANGED gen
    /\ UNCHANGED <<queue, pushed, registered, callback, engineDead, event, abandoned,
                   response, connected, received, timedOut>>

(* The thread takes an event out of the generator.  The event of an         *)
(* abandoned call goes nowhere; if the response is over too, nobody refers  *)
(* to the generator any more and it is closed.                              *)
ThreadPops ==
    /\ gen = "busy" /\ queue # <<>>
    /\ queue' = Tail(queue)
    /\ abandoned' = FALSE
    /\ \/ abandoned /\ UNCHANGED <<call, event>>
       \/ ~abandoned /\ call' = "event" /\ event' = Head(queue)
    /\ IF abandoned /\ response \notin {"check", "await"}
       THEN gen' = "closed" /\ registered' = FALSE
       ELSE gen' = "suspended" /\ UNCHANGED registered
    /\ UNCHANGED <<pushed, callback, engineDead, response, connected, received, timedOut>>

(* The stream is finished and empty: the generator ends, next() raises      *)
(* StopIteration, which _next_stream_event turns into None.                 *)
ThreadStops ==
    /\ gen = "busy" /\ queue = <<>> /\ Finished
    /\ gen' = "closed" /\ registered' = FALSE
    /\ abandoned' = FALSE
    /\ \/ abandoned /\ UNCHANGED call
       \/ ~abandoned /\ call' = "stop"
    /\ UNCHANGED <<queue, pushed, callback, engineDead, event, response, connected,
                   received, timedOut>>

(* wait_for gives up: a call that has not started is cancelled, one that is *)
(* inside the generator stays there, and an outcome that has not reached    *)
(* the event loop yet is dropped.                                           *)
Timeout ==
    /\ response = "await"
    /\ timedOut' = TRUE
    /\ abandoned' = (abandoned \/ call = "inside")
    /\ call' = "none" /\ event' = 0
    /\ response' = "check"
    /\ UNCHANGED <<queue, pushed, registered, callback, engineDead, gen, connected, received>>

(* The awaited call has an event: it is sent, and [DONE] ends the response. *)
SendEvent ==
    /\ response = "await" /\ call = "event"
    /\ received' = Append(received, event)
    /\ call' = "none" /\ event' = 0
    /\ \/ /\ event = Done
          /\ response' = "done"
          /\ ReleaseGenerator
       \/ /\ event # Done
          /\ response' = "check"
          /\ UNCHANGED <<gen, registered>>
    /\ UNCHANGED <<queue, pushed, callback, engineDead, abandoned, connected, timedOut>>

(* None ends the response without [DONE]; the ValueError leaves it.  The    *)
(* request is not aborted in either case.                                   *)
ResponseBreaks ==
    /\ response = "await" /\ call \in {"stop", "error"}
    /\ response' = IF call = "stop" THEN "ended" ELSE "error"
    /\ call' = "none"
    /\ ReleaseGenerator
    /\ UNCHANGED <<queue, pushed, callback, engineDead, event, abandoned, connected,
                   received, timedOut>>

ResponseStep == Check \/ SendEvent \/ ResponseBreaks
ThreadStep == ThreadStarts \/ ThreadPops \/ ThreadStops

StreamNext ==
    \/ PushToken \/ PushFails
    \/ Disconnect
    \/ ResponseStep
    \/ ThreadStep
    \/ Timeout

-----------------------------------------------------------------------------
(* Type invariant. *)
StreamTypeOK ==
    /\ queue \in Seq(Events) /\ received \in Seq(Events)
    /\ pushed \in 0 .. NumTokens
    /\ {registered, callback, engineDead, abandoned, connected} \subseteq BOOLEAN
    /\ gen \in {"new", "busy", "suspended", "closed"}
    /\ call \in {"none", "queued", "inside", "event", "stop", "error"}
    /\ event \in 0 .. Done
    /\ response \in {"check", "await", "done", "disconnected", "ended", "error"}

(* The client is never sent an event twice or out of order, and nothing     *)
(* after [DONE], although two threads may take events from the stream.      *)
InOrder ==
    \A i, j \in 1 .. Len(received) : i < j => received[i] < received[j]

(* As long as every token comes within the 0.1 s of a poll, the client is   *)
(* sent every token without a gap, whatever the order of pushes, threads    *)
(* and sends.  After a timeout a chunk can be lost: the abandoned thread    *)
(* takes it.                                                                *)
NoGapInTime == timedOut \/ \A i \in 1 .. Len(received) : received[i] = i

(* As long as no poll has timed out, delivering a token never raises: while *)
(* the engine has a callback for the request its stream is registered, also *)
(* after the client is gone, so that _engine_loop, which serves every other *)
(* request too, is not ended by push_token's KeyError.                      *)
EngineSurvives == timedOut \/ ~engineDead

(* A stream keeps what the three say, however pushes, the two threads, the  *)
(* response and the client interleave.                                      *)
StreamIsSound == InOrder /\ NoGapInTime /\ EngineSurvives

(* Every response that waits for an event comes to an end, [DONE] or its    *)
(* client is gone, unless a poll times out.                                 *)
ResponseEnds == (response = "await") ~> (response \in {"done", "disconnected"} \/ timedOut)
=============================================================================
