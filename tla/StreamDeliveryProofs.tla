------------------------ MODULE StreamDeliveryProofs ------------------------
(***************************************************************************)
(* StreamIsSound for every number of tokens: the client is sent the events *)
(* in order, without a gap as long as no poll times out, and delivering a  *)
(* token does not raise as long as none does.                              *)
(***************************************************************************)
EXTENDS StreamDelivery, TLAPS

(* The last event the engine has queued; [DONE] follows the last token at   *)
(* once.                                                                    *)
Top == IF pushed = NumTokens THEN Done ELSE pushed

(* How many events the threads have taken out of the queue. *)
Popped == Top - Len(queue)

StreamTyped ==
    /\ queue \in Seq(Int) /\ received \in Seq(Int)
    /\ pushed \in 0 .. NumTokens /\ event \in Int

(* The queue holds the events after the ones that were taken, in order. *)
QueueIsRest ==
    /\ Len(queue) <= Top
    /\ \A i \in 1 .. Len(queue) : queue[i] = Popped + i
    /\ callback => pushed < NumTokens

(* What the client was sent was taken before, and so was the event that is  *)
(* about to be sent, which comes after all of them.                         *)
SentWasTaken ==
    /\ \A i \in 1 .. Len(received) : received[i] <= Popped
    /\ call = "event" => event <= Popped /\ \A i \in 1 .. Len(received) : received[i] < event

(* As long as no poll has timed out, the one thread that takes events is    *)
(* awaited, and every event it took was sent or is about to be.             *)
NothingTakenLost ==
    ~timedOut =>
        /\ ~abandoned
        /\ gen = "busy" => call = "inside"
        /\ response # "await" => call = "none"
        /\ call = "event" => event = Len(received) + 1 /\ Popped = Len(received) + 1
        /\ call # "event" => Popped = Len(received)
        /\ \A i \in 1 .. Len(received) : received[i] = i

(* ... and the stream outlives the callback. *)
CallbackHasStream ==
    ~timedOut =>
        /\ ~engineDead
        /\ callback => registered
        /\ gen = "closed" => ~callback
        /\ call = "stop" => ~callback
        /\ call # "error"

StreamInv ==
    /\ StreamTyped /\ QueueIsRest /\ SentWasTaken /\ InOrder /\ NothingTakenLost /\ CallbackHasStream

StreamSpec == StreamInit /\ [][StreamNext]_streamVars

-----------------------------------------------------------------------------
USE StreamAssumption

(* The invariant holds in a new stream. *)
LEMMA StreamInitInv == StreamInit => StreamInv
  BY DEF StreamInit, StreamInv, StreamTyped, QueueIsRest, SentWasTaken, InOrder,
         NothingTakenLost, CallbackHasStream, Popped, Top, Done

(* push_token continues the queue: the one step that makes it longer. *)
LEMMA PushTokenKeeps == StreamInv /\ PushToken => StreamInv'
  <1> SUFFICES ASSUME StreamInv, PushToken PROVE StreamInv'
    OBVIOUS
  <1> USE DEF StreamInv
  <1>1. pushed' = pushed + 1 /\ pushed < NumTokens
    BY DEF PushToken, QueueIsRest
  <1>2. Top = pushed
    BY <1>1 DEF Top, StreamTyped
  <1>3. /\ queue' \in Seq(Int) /\ Len(queue') = Len(queue) + Top' - Top
        /\ \A i \in 1 .. Len(queue') : queue'[i] = Popped + i
    <2>1. CASE pushed' = NumTokens
      <3>1. queue' = queue \o <<pushed', Done>>
        BY <2>1 DEF PushToken
      <3>2. Top' = pushed + 2
        BY <2>1, <1>1 DEF Top, Done, StreamTyped
      <3>3. /\ queue' \in Seq(Int) /\ Len(queue') = Len(queue) + 2
            /\ \A i \in 1 .. Len(queue) : queue'[i] = queue[i]
            /\ queue'[Len(queue) + 1] = pushed' /\ queue'[Len(queue) + 2] = Done
        BY <3>1, <1>1 DEF StreamTyped, Done
      <3>4. Len(queue) \in Nat /\ Popped \in Int /\ pushed' = Popped + Len(queue) + 1 /\ Done = Popped + Len(queue) + 2
        BY <1>1, <1>2, <2>1 DEF Popped, Done, StreamTyped
      <3>5. ASSUME NEW i \in 1 .. Len(queue') PROVE queue'[i] = Popped + i
        <4>1. CASE i <= Len(queue)
          BY <4>1, <3>3, <3>4 DEF QueueIsRest
        <4>2. CASE i = Len(queue) + 1
          BY <4>2, <3>3, <3>4
        <4>3. CASE i = Len(queue) + 2
          BY <4>3, <3>3, <3>4
        <4> QED
          BY <4>1, <4>2, <4>3, <3>3, <3>4
      <3> QED
        BY <1>1, <1>2, <3>2, <3>3, <3>5 DEF StreamTyped
    <2>2. CASE pushed' # NumTokens
      <3>1. queue' = queue \o <<pushed'>>
        BY <2>2 DEF PushToken
      <3>2. Top' = pushed + 1
        BY <2>2, <1>1 DEF Top, StreamTyped
      <3>3. /\ queue' \in Seq(Int) /\ Len(queue') = Len(queue) + 1
            /\ \A i \in 1 .. Len(queue) : queue'[i] = queue[i]
            /\ queue'[Len(queue) + 1] = pushed'
        BY <3>1, <1>1 DEF StreamTyped
      <3>4. Len(queue) \in Nat /\ Popped \in Int /\ pushed' = Popped + Len(queue) + 1
        BY <1>1, <1>2 DEF Popped, StreamTyped
      <3>5. ASSUME NEW i \in 1 .. Len(queue') PROVE queue'[i] = Popped + i
        <4>1. CASE i <= Len(queue)
          BY <4>1, <3>3, <3>4 DEF QueueIsRest
        <4>2. CASE i = Len(queue) + 1
          BY <4>2, <3>3, <3>4
        <4> QED
          BY <4>1, <4>2, <3>3, <3>4
      <3> QED
        BY <1>1, <1>2, <3>2, <3>3, <3>5 DEF StreamTyped
    <2> QED
      BY <2>1, <2>2
  <1>4. Popped' = Popped
    BY <1>1, <1>2, <1>3 DEF Popped, Top, Done, StreamTyped
  <1>5. StreamTyped'
    BY <1>1, <1>3 DEF StreamTyped, PushToken
  <1>6. QueueIsRest'
    <2>1. Len(queue') <= Top'
      BY <1>1, <1>2, <1>3 DEF QueueIsRest, StreamTyped, Top, Done
    <2>2. callback' => pushed' < NumTokens
      BY DEF PushToken
    <2> QED
      BY <1>3, <1>4, <2>1, <2>2 DEF QueueIsRest
  <1>7. SentWasTaken' /\ InOrder' /\ NothingTakenLost' /\ CallbackHasStream'
    BY <1>4 DEF SentWasTaken, InOrder, NothingTakenLost, CallbackHasStream, PushToken
  <1> QED
    BY <1>5, <1>6, <1>7

(* A thread takes the first event of the queue. *)
LEMMA ThreadPopsKeeps == StreamInv /\ ThreadPops => StreamInv'
  <1> SUFFICES ASSUME StreamInv, ThreadPops PROVE StreamInv'
    OBVIOUS
  <1> USE DEF StreamInv
  <1>1. /\ queue' = Tail(queue) /\ queue # <<>> /\ queue \in Seq(Int)
        /\ Len(queue) > 0 /\ Len(queue') = Len(queue) - 1 /\ queue' \in Seq(Int)
        /\ \A i \in 1 .. Len(queue') : queue'[i] = queue[i + 1]
    BY DEF ThreadPops, StreamTyped
  <1>2. Top' = Top /\ Top \in Int /\ Popped' = Popped + 1 /\ Popped \in Int
    BY <1>1 DEF ThreadPops, Top, Popped, Done, StreamTyped
  <1>3. Head(queue) = Popped + 1
    BY <1>1 DEF QueueIsRest
  <1>4. StreamTyped'
    BY <1>1, <1>3, <1>2 DEF StreamTyped, ThreadPops
  <1>5. QueueIsRest'
    BY <1>1, <1>2 DEF QueueIsRest, ThreadPops
  <1>6. SentWasTaken'
    <2>1. received' = received /\ \A i \in 1 .. Len(received) : received[i] \in Int
      BY DEF ThreadPops, StreamTyped
    <2>2. \A i \in 1 .. Len(received) : received[i] < Popped + 1
      BY <1>2, <2>1 DEF SentWasTaken
    <2>3. call' = "event" => (call = "event" /\ event' = event) \/ event' = Popped + 1
      BY <1>3 DEF ThreadPops
    <2>4. event \in Int
      BY DEF StreamTyped
    <2> QED
      BY <1>2, <2>1, <2>2, <2>3, <2>4 DEF SentWasTaken
  <1>7. InOrder' /\ CallbackHasStream'
    BY DEF InOrder, CallbackHasStream, NothingTakenLost, ThreadPops
  <1>8. NothingTakenLost'
    BY <1>2, <1>3 DEF NothingTakenLost, ThreadPops, StreamTyped
  <1> QED
    BY <1>4, <1>5, <1>6, <1>7, <1>8

(* The event that was awaited is sent. *)
LEMMA SendEventKeeps == StreamInv /\ SendEvent => StreamInv'
  <1> SUFFICES ASSUME StreamInv, SendEvent PROVE StreamInv'
    OBVIOUS
  <1> USE DEF StreamInv
  <1>1. /\ received' = Append(received, event) /\ received' \in Seq(Int)
        /\ Len(received') = Len(received) + 1
        /\ \A i \in 1 .. Len(received) : received'[i] = received[i]
        /\ received'[Len(received) + 1] = event
    BY DEF SendEvent, StreamTyped
  <1>2. Popped' = Popped /\ Top' = Top /\ Popped \in Int
    BY DEF SendEvent, Popped, Top, Done, StreamTyped
  <1>3. StreamTyped' /\ QueueIsRest'
    BY <1>1, <1>2 DEF StreamTyped, QueueIsRest, SendEvent
  <1>4. call = "event" /\ call' = "none" /\ event \in Int /\ Len(received) \in Nat
    BY DEF SendEvent, StreamTyped
  <1>5. SentWasTaken'
    BY <1>1, <1>2, <1>4 DEF SentWasTaken
  <1>6. InOrder'
    <2> SUFFICES ASSUME NEW i \in 1 .. Len(received'), NEW j \in 1 .. Len(received'), i < j
                 PROVE  received'[i] < received'[j]
      BY DEF InOrder
    <2>1. i <= Len(received)
      BY <1>1, <1>4
    <2>2. CASE j <= Len(received)
      BY <1>1, <1>4, <2>1, <2>2 DEF InOrder
    <2>3. CASE j = Len(received) + 1
      BY <1>1, <1>4, <2>1, <2>3 DEF SentWasTaken
    <2> QED
      BY <1>1, <1>4, <2>2, <2>3
  <1>7. NothingTakenLost'
    BY <1>1, <1>2 DEF NothingTakenLost, SendEvent, StreamTyped, ReleaseGenerator
  <1>8. event = Done => ~callback
    BY DEF SendEvent, SentWasTaken, QueueIsRest, Popped, Top, Done, StreamTyped
  <1>9. CallbackHasStream'
    BY <1>8 DEF CallbackHasStream, SendEvent, ReleaseGenerator
  <1> QED
    BY <1>3, <1>5, <1>6, <1>7, <1>9

(* The steps that move neither the queue nor what was sent. *)
LEMMA OthersKeep ==
  StreamInv /\ (PushFails \/ Disconnect \/ Check \/ ResponseBreaks \/ ThreadStarts \/ ThreadStops \/ Timeout
                \/ UNCHANGED streamVars) => StreamInv'
  <1> SUFFICES ASSUME StreamInv,
                      PushFails \/ Disconnect \/ Check \/ ResponseBreaks \/ ThreadStarts \/ ThreadStops \/ Timeout
                      \/ UNCHANGED streamVars
               PROVE  StreamInv'
    OBVIOUS
  <1> USE DEF StreamInv
  <1>1. UNCHANGED <<queue, pushed, received>> /\ (callback' => callback)
    BY DEF PushFails, Disconnect, Check, ResponseBreaks, ThreadStarts, ThreadStops, Timeout, streamVars
  <1>2. Popped' = Popped /\ Top' = Top /\ InOrder' /\ QueueIsRest'
    BY <1>1 DEF Popped, Top, InOrder, QueueIsRest
  <1>3. StreamTyped'
    BY <1>1 DEF StreamTyped, PushFails, Disconnect, Check, ResponseBreaks, ThreadStarts, ThreadStops, Timeout, streamVars
  <1>4. SentWasTaken'
    BY <1>1, <1>2 DEF SentWasTaken, PushFails, Disconnect, Check, ResponseBreaks, ThreadStarts, ThreadStops, Timeout, streamVars
  <1>5. NothingTakenLost'
    BY <1>1, <1>2 DEF NothingTakenLost, CallbackHasStream, ReleaseGenerator, PushFails, Disconnect, Check,
                      ResponseBreaks, ThreadStarts, ThreadStops, Timeout, streamVars
  <1>6. CallbackHasStream'
    BY DEF CallbackHasStream, NothingTakenLost, QueueIsRest, Finished, StreamTyped, ReleaseGenerator, PushFails,
           Disconnect, Check, ResponseBreaks, ThreadStarts, ThreadStops, Timeout, streamVars
  <1> QED
    BY <1>2, <1>3, <1>4, <1>5, <1>6

(* The events reach the client in order and, unless a poll times out,       *)
(* without a gap and without ending the engine's loop: for every number of  *)
(* tokens, and every interleaving of the engine, the response, its threads  *)
(* and the client (stream.py, api_server_v2.py).                            *)
THEOREM StreamSoundness == StreamSpec => []StreamIsSound
  <1>1. StreamInv /\ [StreamNext]_streamVars => StreamInv'
    BY PushTokenKeeps, ThreadPopsKeeps, SendEventKeeps, OthersKeep DEF StreamNext, ResponseStep, ThreadStep
  <1>2. StreamInv => StreamIsSound
    BY DEF StreamInv, StreamIsSound, NoGapInTime, EngineSurvives, NothingTakenLost, CallbackHasStream
  <1> QED
    BY StreamInitInv, <1>1, <1>2, PTL DEF StreamSpec
=============================================================================
