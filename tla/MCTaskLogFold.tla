--------------------------- MODULE MCTaskLogFold ----------------------------
(* Values for TLC: the events of two stages an agent runs (implement and   *)
(* audit), of the merge stage, and of the humans.                          *)
EXTENDS TaskLogFold

MCStages == {"implement", "audit"}

MCSample ==
  {BlankEvent(t, s) : t \in {"stage_starting", "stage_failed"}, s \in MCStages}
  \cup {StartedEvent(s, "w1") : s \in MCStages}
  \cup {StartedEvent("integrate", "merge")}
  \cup {EnforcementEvent("implement", r) : r \in EnforcementRules}
  \cup {VerdictEvent(v, "c1") : v \in Verdicts}
  \cup {[VerdictEvent("pass", "c2") EXCEPT !.stage = "review"]}
  \cup {DoneEvent(s, NEXT_STAGE[s], a, TRUE) : s \in {"implement", "audit"}, a \in Actors}
  \cup {DoneEvent("implement", "prove", "dev", FALSE)}
  \cup {[BlankEvent("human_decision", NoStage) EXCEPT !.to = s] :
           s \in {"implement", "audit"}}
  \cup {[BlankEvent("human_decision", NoStage) EXCEPT !.to = "stopped", !.action = "stop"],
        [BlankEvent("human_decision", NoStage) EXCEPT !.action = "pause"],
        BlankEvent("human_decision", "implement"),
        [BlankEvent("reopen", NoStage) EXCEPT !.to = "implement"]}
=============================================================================
