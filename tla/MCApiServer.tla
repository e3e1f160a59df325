---------------------------- MODULE MCApiServer ----------------------------
(* Small instances of ApiServer: two clients of one key and one that has none. *)
EXTENDS ApiServer

Shape(chat, stream, prompts, maxTokens, n, bestOf, logprobs, sane) ==
    [chat |-> chat, stream |-> stream, prompts |-> prompts, maxTokens |-> maxTokens,
     n |-> n, bestOf |-> bestOf, logprobs |-> logprobs, sane |-> sane]

(* c1: a completion of two prompts, the second too long or not, or the best  *)
(* of two sequences by length.  c2: a chat stream, the best of two sequences *)
(* by log probability.                                                       *)
MCShapes ==
    [c \in Clients |->
        IF c = "c1"
        THEN {Shape(FALSE, FALSE, <<1, 1>>, 1, 1, 0, FALSE, TRUE),
              Shape(FALSE, FALSE, <<1, 9>>, 1, 1, 0, FALSE, TRUE),
              Shape(FALSE, FALSE, <<1>>, 2, 1, 2, FALSE, TRUE)}
        ELSE IF c = "c3" THEN {Shape(TRUE, TRUE, <<1>>, 1, 0, 0, FALSE, TRUE)}
        ELSE {Shape(TRUE, TRUE, <<1>>, 1, 0, 0, FALSE, TRUE),
              Shape(FALSE, FALSE, <<1>>, 1, 1, 2, TRUE, TRUE)}]

(* All of them once the server is up, one next to start-up and shutdown. *)
MCArrivals == [m \in {"cli", "serve"} |-> IF m = "cli" THEN {"c2"} ELSE Clients]

MCKey == [c \in Clients |-> IF c = "c3" THEN "bad" ELSE "key"]
=============================================================================
