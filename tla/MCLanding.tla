----------------------------- MODULE MCLanding ------------------------------
(* Values of Landing's constants for TLC: a task merged by two processes,  *)
(* one of them restarted, and another task.                                *)
EXTENDS LandingProperties, TLC

MCTaskOf == "m1" :> "t1" @@ "m2" :> "t1" @@ "m3" :> "t2"
=============================================================================
