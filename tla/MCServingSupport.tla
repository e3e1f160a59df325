-------------------------- MODULE MCServingSupport --------------------------
EXTENDS ServingSupport

MCPrompts == {<<1, 2, 3, 4>>, <<5, 2, 3, 4>>, <<3, 4, 1, 2>>, <<1, 2, 5, 2, 3>>, <<2, 2, 1, 3>>}
MCReports ==
    {[id |-> 1, request |-> "q1", event |-> "completed"], [id |-> 2, request |-> "q1", event |-> "freed"],
     [id |-> 3, request |-> "q1", event |-> "swapped"], [id |-> 4, request |-> "q2", event |-> "swapped"],
     [id |-> 5, request |-> "q2", event |-> "aborted"], [id |-> 6, request |-> "q3", event |-> "swapped"]}
MCTokens(t) == CASE t = "a" -> 2 [] t = "b" -> 3 [] t = "preface" -> 1 [] t = "" -> 0
MCChats ==
    LET user(t) == Msg("user", Text(t))
        system == Msg("system", Text("a"))
        silent == Msg("system", NoContent)
    IN {<<>>, <<silent>>, <<user("a"), user("a")>>, <<system, user("b"), user("a")>>, <<silent, user("a"), user("a")>>,
        <<user("a"), user("b"), user("b")>>, <<system, system, user("b"), user("b")>>}
MCScores == {-20, 50, 120}
=============================================================================
