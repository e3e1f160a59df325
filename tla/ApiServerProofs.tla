-------------------------- MODULE ApiServerProofs --------------------------
(***************************************************************************)
(* Three safety properties of the HTTP server for every set of clients,    *)
(* every shape of request and every limit: HealthyIsLoaded,                *)
(* NothingLeftRunning and FirstPromptsBounded.                             *)
(***************************************************************************)
EXTENDS ApiServer, FiniteSetTheorems, TLAPS

SafeSpec == Init /\ [][Next]_vars

(* Start-up gets past the constructor only with an engine, and past         *)
(* _ensure_engine_loop_running only with a loop.                            *)
StartedInOrder ==
    /\ engine \in BOOLEAN
    /\ initTask \in {"starting", "finishing", "done"} => engine
    /\ initTask \in {"finishing", "done"} => loop # "none"
    /\ health = "healthy" => engine

(* A handler that waits has given the engine as many sequences as the       *)
(* engine has still to finish, and the request is done with the last one.   *)
Waits(c) ==
    /\ BestOf(c) \in Nat /\ BestOf(c) >= 1
    /\ DOMAIN group[c].tok = 1 .. BestOf(c) /\ group[c].fin \subseteq 1 .. BestOf(c)
    /\ group[c].at = "done" <=> group[c].fin = 1 .. BestOf(c)

HandlerOk(c) ==
    /\ pc[c] \in {"never", "new", "handler", "waiting", "streaming", "refused", "answered", "gone"}
    /\ idx[c] \in Nat \ {0}
    /\ pc[c] \in {"waiting", "streaming"} => Waits(c)
    /\ pc[c] \in {"never", "new", "handler"} => group[c].at = "none" /\ idx[c] = 1
    /\ pc[c] \in {"refused", "answered", "gone"} => group[c].at \notin {"waiting", "running"}

Handlers ==
    /\ pc = [c \in Clients |-> pc[c]] /\ group = [c \in Clients |-> group[c]]
    /\ idx = [c \in Clients |-> idx[c]]
    /\ \A c \in Clients : HandlerOk(c)

FirstWaiting == {c \in Clients : group[c].at = "waiting" /\ idx[c] = 1}

ServerInv == StartedInOrder /\ Handlers /\ FirstPromptsBounded

USE ServerAssumption

-----------------------------------------------------------------------------
(* Start-up and the engine loop. *)

LEMMA StartedStep == StartedInOrder /\ [Next]_vars => StartedInOrder'
  <1> SUFFICES ASSUME StartedInOrder, [Next]_vars PROVE StartedInOrder'
    OBVIOUS
  <1> USE DEF StartedInOrder
  <1>0. CASE UNCHANGED <<engine, health, initTask, loop>>
    BY <1>0
  <1>1. CASE Startup
    BY <1>1 DEF Startup
  <1>2. CASE InitBegins
    BY <1>2 DEF InitBegins
  <1>3. CASE InitSteps
    BY <1>0, <1>3 DEF InitSteps, InitLoads, InitStartsLoop, InitCancels, InitEnds, lifeVars
  <1>4. CASE InitFails
    BY <1>4 DEF InitFails
  <1>5. CASE TimePasses \/ Tick
    BY <1>0, <1>5 DEF TimePasses, Tick, lifeAndWd, lifeVars
  <1>6. CASE WatchdogSteps
    BY <1>0, <1>6 DEF WatchdogSteps, SwdLooks, SwdMarks, SwdExits, DwdLooks, DwdMeasures, lifeVars
  <1>7. CASE LoopTurns
    BY <1>0, <1>7 DEF LoopTurns, LoopBegins, LoopRests, LoopEnds, lifeVars
  <1>8. CASE LoopSteps \/ LoopDies
    BY <1>8 DEF LoopSteps, LoopDies
  <1>9. CASE ShutdownBegins \/ ShutdownSteps
    BY <1>9 DEF ShutdownBegins, ShutdownSteps, ShutdownAwaits, ShutdownEnds
  <1>10. ASSUME NEW c \in Clients, \/ Unauthorized(c) \/ RateLimited(c) \/ Authorized(c)
                                   \/ Refuse(c) \/ Admit(c) \/ Disconnect(c) \/ Responds(c)
         PROVE  UNCHANGED <<engine, health, initTask, loop>>
    BY <1>10 DEF Unauthorized, RateLimited, Authorized, Refuse, Admit, Disconnect, Responds,
                 Answer, Abort, StreamEnds, lifeAndWd, lifeVars
  <1>11. CASE UNCHANGED vars
    BY <1>0, <1>11 DEF vars, lifeVars
  <1> QED
    BY <1>0, <1>1, <1>2, <1>3, <1>4, <1>5, <1>6, <1>7, <1>8, <1>9, <1>10, <1>11 DEF Next

-----------------------------------------------------------------------------
(* The handlers. *)

(* Only these steps touch a request. *)
LEMMA RequestSteps ==
  ASSUME [Next]_vars
  PROVE  \/ UNCHANGED reqVars \/ LoopSteps
         \/ \E c \in Clients : \/ Unauthorized(c) \/ RateLimited(c) \/ Authorized(c)
                               \/ Refuse(c) \/ Admit(c) \/ Disconnect(c)
                               \/ Answer(c) \/ Abort(c) \/ StreamEnds(c)
  <1>1. Startup \/ InitBegins \/ InitSteps \/ InitFails => UNCHANGED reqVars
    BY DEF Startup, InitBegins, InitSteps, InitLoads, InitStartsLoop, InitCancels, InitEnds, InitFails
  <1>2. TimePasses \/ Tick \/ WatchdogSteps => UNCHANGED reqVars
    BY DEF TimePasses, Tick, WatchdogSteps, SwdLooks, SwdMarks, SwdExits, DwdLooks, DwdMeasures
  <1>3. LoopTurns \/ LoopDies \/ ShutdownBegins \/ ShutdownSteps => UNCHANGED reqVars
    BY DEF LoopTurns, LoopBegins, LoopRests, LoopEnds, LoopDies, ShutdownBegins, ShutdownSteps,
           ShutdownAwaits, ShutdownEnds
  <1>4. UNCHANGED vars => UNCHANGED reqVars
    BY DEF vars
  <1> QED
    BY <1>1, <1>2, <1>3, <1>4 DEF Next, Responds

(* The sequences of a request are as many as its shape says, which nothing *)
(* changes.                                                                *)
LEMMA BestOfStays == shape' = shape => \A c \in Clients : BestOf(c)' = BestOf(c)
  BY DEF BestOf, RequestedN

(* A handler whose request and state are untouched stays as it is. *)
LEMMA Untouched ==
  ASSUME NEW c \in Clients, HandlerOk(c), shape' = shape,
         pc'[c] = pc[c], group'[c] = group[c], idx'[c] = idx[c]
  PROVE  HandlerOk(c)'
  BY BestOfStays DEF HandlerOk, Waits

(* engine.add_request leaves a request with no sequence finished. *)
LEMMA NewGroupWaits ==
  ASSUME NEW c \in Clients, shape' = shape, BestOf(c) \in Nat, BestOf(c) >= 1, group'[c] = NewGroup(c)
  PROVE  Waits(c)' /\ group'[c].at = "waiting"
  <1>1. 1 \in 1 .. BestOf(c) /\ BestOf(c)' = BestOf(c)
    BY BestOfStays
  <1>2. /\ group'[c].at = "waiting" /\ group'[c].fin = {}
        /\ DOMAIN group'[c].tok = 1 .. BestOf(c)
    BY DEF NewGroup
  <1> QED
    BY <1>1, <1>2 DEF Waits

(* done_event is set by as many finished sequences as the request has: a   *)
(* handler that counts them all sees a request that is done.               *)
LEMMA CountedIsDone ==
  ASSUME NEW c \in Clients, Waits(c), Cardinality(group[c].fin) >= BestOf(c)
  PROVE  group[c].at = "done"
  <1>1. IsFiniteSet(1 .. BestOf(c)) /\ Cardinality(1 .. BestOf(c)) = BestOf(c)
    BY FS_Interval DEF Waits
  <1>2. /\ IsFiniteSet(group[c].fin) /\ Cardinality(group[c].fin) <= BestOf(c)
        /\ Cardinality(group[c].fin) = BestOf(c) => group[c].fin = 1 .. BestOf(c)
    BY <1>1, FS_Subset DEF Waits
  <1>3. Cardinality(group[c].fin) \in Nat
    BY <1>2, FS_CardinalityType
  <1> QED
    BY <1>2, <1>3 DEF Waits

(* A step of the engine ends a request with the last of its sequences. *)
LEMMA TokenWaits ==
  ASSUME NEW c \in Clients, Waits(c), shape' = shape, NEW end, NEW good,
         group'[c] = Token(c, group[c], end, good)
  PROVE  Waits(c)' /\ group'[c].at \in {"done", "running"}
  <1> DEFINE live == DOMAIN group[c].tok \ group[c].fin
             fin == group[c].fin \cup (live \cap end)
                    \cup {i \in live : group[c].tok[i] + 1 >= shape[c].maxTokens}
  <1>1. /\ group'[c].at = IF fin = DOMAIN group[c].tok THEN "done" ELSE "running"
        /\ group'[c].fin = fin
        /\ DOMAIN group'[c].tok = DOMAIN group[c].tok
    BY DEF Token
  <1>2. BestOf(c)' = BestOf(c)
    BY BestOfStays
  <1>3. fin \subseteq DOMAIN group[c].tok
    BY DEF Waits
  <1> QED
    BY <1>1, <1>2, <1>3 DEF Waits

(* What a step of one handler leaves alone. *)
LEMMA OneHandler ==
  ASSUME Handlers, NEW c \in Clients, NEW p, NEW g, NEW i, shape' = shape,
         pc' = [pc EXCEPT ![c] = p], group' = [group EXCEPT ![c] = g], idx' = [idx EXCEPT ![c] = i],
         HandlerOk(c)'
  PROVE  Handlers'
  <1>1. /\ pc' = [d \in Clients |-> pc'[d]] /\ group' = [d \in Clients |-> group'[d]]
        /\ idx' = [d \in Clients |-> idx'[d]]
    BY DEF Handlers
  <1>2. ASSUME NEW d \in Clients, d # c PROVE HandlerOk(d)'
    BY <1>2, Untouched DEF Handlers
  <1> QED
    BY <1>1, <1>2 DEF Handlers

(* The same for the step that only moves the handler on. *)
LEMMA OnlyMoves ==
  ASSUME Handlers, NEW c \in Clients, NEW p, pc' = [pc EXCEPT ![c] = p],
         UNCHANGED <<shape, group, idx>>, HandlerOk(c)'
  PROVE  Handlers'
  <1>1. group' = [group EXCEPT ![c] = group[c]] /\ idx' = [idx EXCEPT ![c] = idx[c]]
    BY DEF Handlers
  <1> QED
    BY <1>1, OneHandler

LEMMA CheckStep ==
  ASSUME Handlers, NEW c \in Clients,
         Unauthorized(c) \/ RateLimited(c) \/ Authorized(c) \/ Refuse(c) \/ StreamEnds(c)
  PROVE  Handlers' /\ UNCHANGED <<group, idx>>
  <1>1. PICK p : /\ pc' = [pc EXCEPT ![c] = p] /\ UNCHANGED <<shape, group, idx>>
                 /\ \/ pc[c] \in {"new", "handler"} /\ p \in {"refused", "handler"}
                    \/ pc[c] = "streaming" /\ p = "answered" /\ group[c].at = "done"
    BY DEF Unauthorized, RateLimited, Authorized, Refuse, StreamEnds
  <1>2. pc'[c] = p /\ HandlerOk(c)
    BY <1>1 DEF Handlers
  <1>3. HandlerOk(c)'
    BY <1>1, <1>2 DEF HandlerOk
  <1> QED
    BY <1>1, <1>3, OnlyMoves

LEMMA AdmitStep == ASSUME Handlers, NEW c \in Clients, Admit(c) PROVE Handlers'
  <1> DEFINE p == IF shape[c].stream THEN "streaming" ELSE "waiting"
  <1>1. /\ pc' = [pc EXCEPT ![c] = p] /\ group' = [group EXCEPT ![c] = NewGroup(c)]
        /\ UNCHANGED <<shape, idx>> /\ pc[c] = "handler"
    BY DEF Admit
  <1>2. BestOf(c) \in Nat /\ BestOf(c) >= 1
    BY DEF Admit, Refusal, BadParallel
  <1>3. /\ pc'[c] \in {"streaming", "waiting"} /\ group'[c] = NewGroup(c) /\ idx'[c] = idx[c]
        /\ idx' = [idx EXCEPT ![c] = idx[c]] /\ HandlerOk(c)
    BY <1>1 DEF Handlers
  <1>4. Waits(c)'
    BY <1>1, <1>2, <1>3, NewGroupWaits
  <1>5. HandlerOk(c)'
    BY <1>3, <1>4 DEF HandlerOk
  <1> QED
    BY <1>1, <1>3, <1>5, OneHandler

LEMMA AnswerStep ==
  ASSUME Handlers, NEW c \in Clients, Answer(c)
  PROVE  Handlers' /\ (group'[c].at = "waiting" => (group' = group /\ idx' = idx) \/ idx'[c] > 1)
  <1>1. /\ pc[c] = "waiting" /\ Cardinality(group[c].fin) >= BestOf(c) /\ shape' = shape
        /\ HandlerOk(c) /\ Waits(c)
    BY DEF Answer, Handlers, HandlerOk
  <1>2. group[c].at = "done"
    BY <1>1, CountedIsDone
  <1>3. CASE pc' = [pc EXCEPT ![c] = "answered"] /\ UNCHANGED <<idx, group>>
    <2>1. pc'[c] = "answered"
      BY <1>3 DEF Handlers
    <2>2. HandlerOk(c)'
      BY <1>1, <1>2, <1>3, <2>1 DEF HandlerOk
    <2> QED
      BY <1>1, <1>3, <2>2, OnlyMoves
  <1>4. CASE pc' = [pc EXCEPT ![c] = "refused"] /\ UNCHANGED <<idx, group>>
    <2>1. pc'[c] = "refused"
      BY <1>4 DEF Handlers
    <2>2. HandlerOk(c)'
      BY <1>1, <1>2, <1>4, <2>1 DEF HandlerOk
    <2> QED
      BY <1>1, <1>4, <2>2, OnlyMoves
  <1>5. CASE /\ idx' = [idx EXCEPT ![c] = idx[c] + 1] /\ group' = [group EXCEPT ![c] = NewGroup(c)]
             /\ UNCHANGED pc
    <2>1. /\ pc' = [pc EXCEPT ![c] = "waiting"] /\ pc'[c] = "waiting"
          /\ group'[c] = NewGroup(c) /\ idx'[c] = idx[c] + 1
      BY <1>1, <1>5 DEF Handlers
    <2>2. Waits(c)'
      BY <1>1, <2>1, NewGroupWaits DEF Waits
    <2>3. HandlerOk(c)' /\ idx'[c] > 1
      BY <1>1, <2>1, <2>2 DEF HandlerOk
    <2> QED
      BY <1>1, <1>5, <2>1, <2>3, OneHandler
  <1> QED
    BY <1>3, <1>4, <1>5 DEF Answer

LEMMA AbortStep ==
  ASSUME Handlers, NEW c \in Clients, Abort(c) PROVE Handlers' /\ group'[c].at = "none"
  <1>1. /\ pc' = [pc EXCEPT ![c] = "gone"] /\ group' = [group EXCEPT ![c] = NoGroup]
        /\ UNCHANGED <<shape, idx>>
    BY DEF Abort
  <1>2. /\ pc'[c] = "gone" /\ group'[c] = NoGroup /\ idx'[c] = idx[c]
        /\ idx' = [idx EXCEPT ![c] = idx[c]] /\ HandlerOk(c)
    BY <1>1 DEF Handlers
  <1>3. group'[c].at = "none"
    BY <1>2 DEF NoGroup
  <1>4. HandlerOk(c)'
    BY <1>2, <1>3 DEF HandlerOk
  <1> QED
    BY <1>1, <1>2, <1>3, <1>4, OneHandler

LEMMA EngineStep ==
  ASSUME Handlers, LoopSteps
  PROVE  Handlers' /\ idx' = idx /\ \A c \in Clients : group'[c].at = "waiting" => group[c].at = "waiting"
  <1>1. UNCHANGED <<shape, pc, idx>>
    BY DEF LoopSteps
  <1>2. PICK G \in SUBSET PendingGroups, end \in SUBSET (1 .. MaxN), good \in SUBSET (1 .. MaxN) :
          group' = [c \in Clients |-> IF c \in G THEN Token(c, group[c], end, good) ELSE group[c]]
    BY DEF LoopSteps
  <1>3. group' = [c \in Clients |-> group'[c]]
    BY <1>2
  <1>4. ASSUME NEW c \in Clients
        PROVE  HandlerOk(c)' /\ (group'[c].at = "waiting" => group[c].at = "waiting")
    <2>1. HandlerOk(c)
      BY DEF Handlers
    <2>2. CASE c \in G
      <3>1. group'[c] = Token(c, group[c], end, good)
        BY <1>2, <2>2
      <3>2. Waits(c) /\ pc[c] \in {"waiting", "streaming"}
        BY <2>1, <2>2 DEF HandlerOk, PendingGroups
      <3>3. Waits(c)' /\ group'[c].at \in {"done", "running"}
        BY <1>1, <3>1, <3>2, TokenWaits
      <3> QED
        BY <1>1, <2>1, <3>2, <3>3 DEF HandlerOk
    <2>3. CASE c \notin G
      BY <1>1, <1>2, <2>1, <2>3, Untouched
    <2> QED
      BY <2>2, <2>3
  <1> QED
    BY <1>1, <1>3, <1>4 DEF Handlers

-----------------------------------------------------------------------------
(* The queue of first prompts. *)

LEMMA FirstWaitingFinite == IsFiniteSet(FirstWaiting) /\ Cardinality(FirstWaiting) \in Nat
  <1>1. FirstWaiting \subseteq Clients
    BY DEF FirstWaiting
  <1> QED
    BY <1>1, FS_Subset, FS_CardinalityType

(* A queue nobody joins keeps its bound. *)
LEMMA NobodyJoins ==
  ASSUME FirstPromptsBounded, FirstWaiting' \subseteq FirstWaiting
  PROVE  FirstPromptsBounded'
  <1>1. Cardinality(FirstWaiting') <= Cardinality(FirstWaiting) /\ Cardinality(FirstWaiting') \in Nat
    BY FirstWaitingFinite, FS_Subset, FS_CardinalityType
  <1>2. MaxWaiting > 0 => Cardinality(FirstWaiting) <= MaxWaiting
    BY DEF FirstPromptsBounded, FirstWaiting
  <1>3. MaxWaiting > 0 => Cardinality(FirstWaiting') <= MaxWaiting
    BY <1>1, <1>2, FirstWaitingFinite
  <1> QED
    BY <1>3 DEF FirstPromptsBounded, FirstWaiting

LEMMA OneMore ==
  ASSUME NEW S, IsFiniteSet(S), NEW x
  PROVE  /\ IsFiniteSet(S \cup {x}) /\ Cardinality(S \cup {x}) <= Cardinality(S) + 1
         /\ Cardinality(S \cup {x}) \in Nat
  <1>1. Cardinality(S) \in Nat
    BY FS_CardinalityType
  <1>2. CASE x \in S
    <2>1. S \cup {x} = S
      BY <1>2
    <2>2. Cardinality(S \cup {x}) = Cardinality(S) /\ IsFiniteSet(S \cup {x})
      BY <2>1, Zenon
    <2> QED
      BY <1>1, <2>2
  <1>3. CASE x \notin S
    BY <1>1, <1>3, FS_AddElement
  <1> QED
    BY <1>2, <1>3

(* The one who joins it was let in while there was room among all that     *)
(* wait: no other handler runs between the check and add_request.          *)
LEMMA AdmitIsBounded ==
  ASSUME Handlers, FirstPromptsBounded, NEW c \in Clients, Admit(c) PROVE FirstPromptsBounded'
  <1> DEFINE All == {d \in Clients : group[d].at = "waiting"}
  <1>1. FirstWaiting' \subseteq All \cup {c}
    BY DEF Admit, Handlers, FirstWaiting
  <1>2. IsFiniteSet(All) /\ Cardinality(All) \in Nat
    BY FS_Subset, FS_CardinalityType
  <1>3. /\ IsFiniteSet(All \cup {c}) /\ Cardinality(All \cup {c}) <= Cardinality(All) + 1
        /\ Cardinality(All \cup {c}) \in Nat
    BY <1>2, OneMore
  <1>4. /\ Cardinality(FirstWaiting') <= Cardinality(All \cup {c})
        /\ Cardinality(FirstWaiting') \in Nat
    BY <1>1, <1>3, FS_Subset, FS_CardinalityType
  <1>5. MaxWaiting > 0 => Cardinality(All) < MaxWaiting
    BY <1>2 DEF Admit, Refusal, AtCapacity, NumWaiting
  <1>6. MaxWaiting > 0 => Cardinality(FirstWaiting') <= MaxWaiting
    BY <1>2, <1>3, <1>4, <1>5
  <1> QED
    BY <1>6 DEF FirstPromptsBounded, FirstWaiting

-----------------------------------------------------------------------------
LEMMA ServerInitInv == Init => ServerInv
  <1> SUFFICES ASSUME Init PROVE ServerInv
    OBVIOUS
  <1>1. StartedInOrder
    BY DEF Init, StartedInOrder
  <1>2. \A c \in Clients : group[c].at = "none"
    BY DEF Init, NoGroup
  <1>3. \A c \in Clients : pc[c] \in {"new", "never"} /\ idx[c] = 1
    BY DEF Init
  <1>4. Handlers
    <2>1. /\ pc = [c \in Clients |-> pc[c]] /\ group = [c \in Clients |-> group[c]]
          /\ idx = [c \in Clients |-> idx[c]]
      BY DEF Init
    <2>2. \A c \in Clients : HandlerOk(c)
      BY <1>2, <1>3 DEF HandlerOk
    <2> QED
      BY <2>1, <2>2 DEF Handlers
  <1>5. FirstWaiting = {} /\ Cardinality({}) = 0
    BY <1>2, FS_EmptySet DEF FirstWaiting
  <1>6. FirstPromptsBounded
    BY <1>5 DEF FirstPromptsBounded, FirstWaiting
  <1> QED
    BY <1>1, <1>4, <1>6 DEF ServerInv

LEMMA ServerNextInv == ServerInv /\ [Next]_vars => ServerInv'
  <1> SUFFICES ASSUME ServerInv, [Next]_vars PROVE Handlers' /\ FirstPromptsBounded'
    BY StartedStep DEF ServerInv
  <1> USE DEF ServerInv
  <1>1. CASE UNCHANGED reqVars
    <2>1. UNCHANGED <<shape, pc, group, idx>>
      BY <1>1 DEF reqVars
    <2>2. \A c \in Clients : HandlerOk(c)'
      BY <2>1, Untouched DEF Handlers
    <2>3. FirstWaiting' \subseteq FirstWaiting
      BY <2>1 DEF FirstWaiting
    <2> QED
      BY <2>1, <2>2, <2>3, NobodyJoins DEF Handlers
  <1>2. CASE LoopSteps
    <2>1. FirstWaiting' \subseteq FirstWaiting
      BY <1>2, EngineStep DEF FirstWaiting
    <2> QED
      BY <1>2, <2>1, EngineStep, NobodyJoins
  <1>3. ASSUME NEW c \in Clients,
               \/ Unauthorized(c) \/ RateLimited(c) \/ Authorized(c) \/ Refuse(c) \/ StreamEnds(c)
        PROVE  Handlers' /\ FirstPromptsBounded'
    <2>1. FirstWaiting' \subseteq FirstWaiting
      BY <1>3, CheckStep DEF FirstWaiting
    <2> QED
      BY <1>3, <2>1, CheckStep, NobodyJoins
  <1>4. ASSUME NEW c \in Clients, Admit(c) PROVE Handlers' /\ FirstPromptsBounded'
    BY <1>4, AdmitStep, AdmitIsBounded
  <1>5. ASSUME NEW c \in Clients, Disconnect(c) PROVE Handlers' /\ FirstPromptsBounded'
    <2>1. UNCHANGED <<shape, pc, group, idx>>
      BY <1>5 DEF Disconnect
    <2>2. \A d \in Clients : HandlerOk(d)'
      BY <2>1, Untouched DEF Handlers
    <2>3. FirstWaiting' \subseteq FirstWaiting
      BY <2>1 DEF FirstWaiting
    <2> QED
      BY <2>1, <2>2, <2>3, NobodyJoins DEF Handlers
  <1>6. ASSUME NEW c \in Clients, Answer(c) PROVE Handlers' /\ FirstPromptsBounded'
    <2>1. Handlers' /\ (group'[c].at = "waiting" => (group' = group /\ idx' = idx) \/ idx'[c] > 1)
      BY <1>6, AnswerStep
    <2>2. \A d \in Clients : d # c => group'[d] = group[d] /\ idx'[d] = idx[d]
      BY <1>6 DEF Answer, Handlers
    <2>3. FirstWaiting' \subseteq FirstWaiting
      BY <2>1, <2>2 DEF FirstWaiting
    <2> QED
      BY <2>1, <2>3, NobodyJoins
  <1>7. ASSUME NEW c \in Clients, Abort(c) PROVE Handlers' /\ FirstPromptsBounded'
    <2>1. Handlers' /\ group'[c].at = "none"
      BY <1>7, AbortStep
    <2>2. \A d \in Clients : d # c => group'[d] = group[d] /\ idx'[d] = idx[d]
      BY <1>7 DEF Abort, Handlers
    <2>3. FirstWaiting' \subseteq FirstWaiting
      BY <2>1, <2>2 DEF FirstWaiting
    <2> QED
      BY <2>1, <2>3, NobodyJoins
  <1> QED
    BY RequestSteps, <1>1, <1>2, <1>3, <1>4, <1>5, <1>6, <1>7

(* Whatever clients ask for and however start-up, engine loop, watchdogs,  *)
(* shutdown and disconnects interleave: /health answers 200 only with a    *)
(* loaded model and a started loop, a handler that has ended leaves no     *)
(* request in the engine, and _check_backpressure bounds the first prompts *)
(* that wait.                                                              *)
THEOREM ServerSafety ==
  SafeSpec => []HealthyIsLoaded /\ []NothingLeftRunning /\ []FirstPromptsBounded
  <1>1. ServerInv => HealthyIsLoaded
    BY DEF ServerInv, StartedInOrder, HealthyIsLoaded
  <1>2. ServerInv => NothingLeftRunning
    BY DEF ServerInv, Handlers, HandlerOk, NothingLeftRunning, PendingGroups
  <1>3. ServerInv => FirstPromptsBounded
    BY DEF ServerInv
  <1> QED
    BY <1>1, <1>2, <1>3, ServerInitInv, ServerNextInv, PTL DEF SafeSpec
=============================================================================
