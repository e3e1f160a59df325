---------------------------- MODULE ContextPilot ----------------------------
(***************************************************************************)
(* The ContextPilot layer of the server: the switches of api_server_v2.py, *)
(* and ContextPilotMiddleware, which reorders and deduplicates a request   *)
(* before it is tokenized.  The handlers are synchronous code on the event *)
(* loop, so a request passes through in one step.  The package itself is   *)
(* external: its calls answer, answer nonsense, or raise.                  *)
(*   A message is [role, content]; a content is a text, NoContent, or a    *)
(* reference [same |-> n] left by the deduplication.                       *)
(***************************************************************************)
EXTENDS Integers, Sequences, FiniteSets, SequencesExt, FiniteSetsExt

CONSTANTS
    Chats, Texts,   \* chat requests; texts, which are also the completion prompts
    Tokens(_),      \* len(text) // 4
    MaxRequests     \* bound on the requests of a behaviour

ASSUME RequestsAssumption == MaxRequests \in Nat

VARIABLES
    process,     \* [env, debug, installed]: environment, --contextpilot-debug, the package
    enabled, fault,
    middleware,  \* _cp_middleware is not None
    processed,   \* the middleware's _requests_processed
    saved,       \* the middleware's token_savings_total
    fallbacks,   \* _contextpilot_fallback_count
    requests,    \* requests so far, and those ContextPilot did not look at
    bypassed,
    sent,        \* the last request: [received, given]
    repeated     \* tokens of the repeats in the requests that were optimized

cpVars == <<process, enabled, fault, middleware, processed, saved, fallbacks, requests, bypassed, sent, repeated>>

NoContent == [none |-> TRUE]
Text(t) == [text |-> t]
Msg(role, content) == [role |-> role, content |-> content]
IsText(m) == "text" \in DOMAIN m.content
Ref(n) == [same |-> n]

(* _resolve_contextpilot_enabled: the environment overrides the flag *)
CPInit ==
    /\ process \in [env : BOOLEAN, debug : BOOLEAN, installed : BOOLEAN]
    /\ enabled \in (IF process.env THEN BOOLEAN ELSE {FALSE}) /\ fault = "none"
    /\ middleware = FALSE /\ processed = 0 /\ saved = 0 /\ fallbacks = 0 /\ requests = 0 /\ bypassed = 0
    /\ sent = [received |-> <<>>, given |-> <<>>] /\ repeated = 0

IsActive(on) == on /\ process.env

-----------------------------------------------------------------------------
(* What a call can do: return a value, or raise. *)
Returns(v) == [raises |-> FALSE, value |-> v]
Raised == [raises |-> TRUE, value |-> <<>>]

(* External: ContextPilot.optimize keeps every context, in an order of its  *)
(* own and after a preface if it likes, and ends with the query.            *)
Optimized(contexts, query) ==
    {pre \o [i \in DOMAIN contexts |-> Msg("system", contexts[p[i]])] \o query :
        pre \in {<<>>, <<Msg("system", Text("preface"))>>},
        p \in {f \in [DOMAIN contexts -> DOMAIN contexts] : \A i, j \in DOMAIN f : f[i] = f[j] => i = j}}

(* _extract_query: the last user message that has a content, or 0. *)
QueryIndex(messages) ==
    Max({0} \cup {i \in DOMAIN messages : messages[i].role = "user" /\ IsText(messages[i])})

Contexts(messages) ==
    LET q == QueryIndex(messages)
        kept == SetToSortSeq({i \in DOMAIN messages : IsText(messages[i]) /\ i # q}, <)
    IN [k \in DOMAIN kept |-> messages[kept[k]].content]

(* _reorder_messages: after a TypeError the call is made again by keyword;  *)
(* a ValueError, an IndexError or an answer that is no list keeps the order. *)
ReorderMessages(messages) ==
    LET q == QueryIndex(messages)
    IN {Returns(messages), Raised}
       \cup {Returns(o) : o \in Optimized(Contexts(messages), IF q = 0 THEN <<>> ELSE <<messages[q]>>)}

First(messages, i) == Min({j \in 1..i : messages[j].content = messages[i].content})


(* _fallback_deduplicate *)
FallbackDeduplicate(messages) ==
    [i \in DOMAIN messages |->
        IF IsText(messages[i]) /\ First(messages, i) < i
        THEN Msg(messages[i].role, Ref(First(messages, i) - 1)) ELSE messages[i]]

TokensOf(messages) ==
    MapThenSumSet(LAMBDA i : Tokens(messages[i].content.text), {i \in DOMAIN messages : IsText(messages[i])})

(* _estimate_tokens_saved; what _fallback_deduplicate adds up is the same.  *)
TokensSaved(before, after) == Max({0, TokensOf(before) - TokensOf(after)})

(* External: ContextPilot.deduplicate, where it answers, leaves the repeats *)
(* out, and may leave something in that is not a message.                   *)
External(messages) == SelectSeq([i \in DOMAIN messages |-> [at |-> i, m |-> messages[i]]],
                                LAMBDA x : ~IsText(x.m) \/ First(messages, x.at) = x.at)

(* ... and _deduplicate_messages normalizes what it answers. *)
Normalized(items) ==
    [i \in DOMAIN items |-> IF IsText(items[i].m) THEN items[i].m ELSE Msg(items[i].m.role, Text(""))]

DeduplicateMessages(messages) ==
    {Raised, Returns(FallbackDeduplicate(messages)), Returns(Normalized(External(messages)))}

Unseen(messages) == [given |-> messages, count |-> 0, saved |-> 0, optimized |-> FALSE]
Failed(messages) == [given |-> messages, count |-> 1, saved |-> 0, optimized |-> FALSE]

Skipped(messages) == ~process.installed \/ messages = <<>>

(* process_chat_request *)
ProcessChat(messages) ==
    IF Skipped(messages) THEN {Unseen(messages)}
    ELSE {Failed(messages)}
         \cup UNION {{[given |-> d.value, count |-> 1, saved |-> TokensSaved(r.value, d.value), optimized |-> TRUE] :
                        d \in {x \in DeduplicateMessages(r.value) : ~x.raises}} :
                      r \in {x \in ReorderMessages(messages) : ~x.raises}}

PromptOf(optimized) == optimized[Max({i \in DOMAIN optimized : IsText(optimized[i])})]

(* process_completion_request: an empty answer, one without a text, and an  *)
(* exception leave the prompt alone.                                        *)
ProcessCompletion(prompt) ==
    IF Skipped(prompt) THEN {Unseen(prompt)}
    ELSE {Failed(prompt)} \cup {Failed(<<PromptOf(o)>>) : o \in Optimized(<<>>, prompt)}

-----------------------------------------------------------------------------
(* _ensure_cp_middleware_initialized: the constructor may raise. *)
Ensured == IF middleware THEN {TRUE} ELSE BOOLEAN

Repeats(messages) ==
    TokensOf(messages) - MapThenSumSet(Tokens, {messages[i].content.text : i \in {j \in DOMAIN messages : IsText(messages[j])}})

AsReceived(messages) ==
    /\ sent' = [received |-> messages, given |-> messages] /\ UNCHANGED <<processed, saved, repeated>>

(* the except branch, and _record_contextpilot_fallback *)
Fallback(messages) ==
    fault # "none" /\ AsReceived(messages) /\ fallbacks' = fallbacks + 1 /\ UNCHANGED bypassed

Processed(messages, outcomes) ==
    /\ fault = "none"
    /\ \E p \in outcomes :
         /\ sent' = [received |-> messages, given |-> p.given]
         /\ processed' = processed + p.count /\ saved' = saved + p.saved
         /\ bypassed' = bypassed + (IF Skipped(messages) THEN 1 ELSE 0)
         /\ repeated' = repeated + (IF p.optimized THEN Repeats(messages) ELSE 0)
    /\ UNCHANGED fallbacks

(* _process_chat_messages_with_contextpilot and its completion twin *)
Handle(messages, outcomes) ==
    /\ requests < MaxRequests /\ requests' = requests + 1
    /\ \/ /\ ~IsActive(enabled) \/ FALSE \in Ensured
          /\ AsReceived(messages) /\ bypassed' = bypassed + 1 /\ UNCHANGED <<middleware, fallbacks>>
       \/ /\ IsActive(enabled) /\ middleware' = TRUE
          /\ Fallback(messages) \/ Processed(messages, outcomes)
    /\ UNCHANGED <<process, enabled, fault>>

Chat(messages) == Handle(messages, ProcessChat(messages))
Completion(text) == LET prompt == <<Msg("user", Text(text))>> IN Handle(prompt, ProcessCompletion(prompt))

Toggle(on) ==
    /\ enabled' = on
    /\ middleware' \in (IF IsActive(on) THEN Ensured ELSE {middleware})
    /\ UNCHANGED <<process, fault, processed, saved, fallbacks, requests, bypassed, sent, repeated>>

InjectFault(f) ==
    /\ process.debug /\ fault' = f
    /\ UNCHANGED <<process, enabled, middleware, processed, saved, fallbacks, requests, bypassed, sent, repeated>>

CPNext ==
    \/ \E m \in Chats : Chat(m)
    \/ \E t \in Texts : Completion(t)
    \/ \E on \in BOOLEAN : Toggle(on)
    \/ \E f \in {"none", "reorder_exception"} : InjectFault(f)

-----------------------------------------------------------------------------
=============================================================================
