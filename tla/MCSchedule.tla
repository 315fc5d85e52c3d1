----------------------------- MODULE MCSchedule -----------------------------
(* Values of Schedule's constants for TLC.                                 *)
EXTENDS ScheduleProperties, TLC

MCNames     == {"a", "ab", "b"}
MCWildcards == {"*", "a*"}
MCCovers    == ("*" :> MCNames) @@ ("a*" :> {"a", "ab"})

(* What lies under a directory, and the files of a directory whose name    *)
(* only begins with the same letters.                                      *)
MCIntents == {{<<"a", "**">>}, {<<"ab", "*">>}}

MCTasks  == {"t1", "t2"}
MCOrders == {<<"t1", "t2">>, <<"t2", "t1">>}
=============================================================================
