----------------------------- MODULE MCAttempts -----------------------------
(* Values of Attempts' constants for TLC.                                  *)
EXTENDS AttemptsProperties, TLC

MCRuntimeOf == "audit" :> "codex" @@ "integrate" :> NoRuntime

Obs(signals, value) == [signals |-> signals, value |-> value]

(* A merge fails in one way only (engine.js mergeIntegrate).               *)
MCObserved ==
  "integrate" :> {Obs({"stuck"}, "v1")} @@
  "audit" :> {Obs({"proof"}, "v1"), Obs({"proof", "paths"}, "v2"), Obs({"paths"}, "v1"),
              Obs({"outside"}, "v1"), Obs({"intent"}, "v1"), Obs({"rules", "stuck"}, "v1"),
              Obs({}, "v1")}

Doc(ceiling, advance, attempts, levels) ==
  [ceiling |-> ceiling, maxAttempts |-> attempts, levels |-> levels,
   autonomy |-> "advance-stage-on-gate-pass" :> advance]

At(level, clean) == [level |-> level, minCleanRuns |-> clean]

MCDocs ==
  {Doc(2, AutoAt(1), 3, {At(1, 1), At(2, 2)}),
   Doc(1, AutoAt(1), 5, {At(2, 1), At(1, 2)}),
   Doc(0, AutoAt(0), 5, {}),
   [Doc(1, AutoAlways, 5, {At(1, 0)}) EXCEPT !.autonomy = "merge-implementation-pr" :> AutoAt(1)],
   Doc(-1, AutoAlways, 0, {At(-1, 0)}),
   Doc(0, Human, 5, {At(1, 0)})}
=============================================================================
