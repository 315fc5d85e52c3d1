-------------------------------- MODULE MCGate ---------------------------------
(* Values of Gate's constants for TLC.                                     *)
EXTENDS GateProperties

CodeX == <<"src", "x">>
CodeY == <<"src", "y">>
Guide == <<"docs", "guide">>

MCNames == {"src", "x", "y", "docs", "guide", "yukl.config.json", ".yukl-intent.yml",
            ".orchestration", "contracts", "intents"} \cup Tasks

MCCovers == <<>>

Contract(t, files, commands) ==
  [task_id |-> t, touched |-> files,
   proofs |-> [i \in DOMAIN commands |-> [command |-> commands[i], code |-> 0]]]

Intent(allowed, forbidden) == [allowed |-> allowed, forbidden |-> forbidden]

OnX    == Intent({<<"src", "x">>}, {})
OnBoth == Intent({<<"src", "**">>}, {})
OnAll  == Intent({<<"**">>}, {<<"src", "y">>})

Tree(config, legacy, intent1) ==
  CodeX :> "old" @@ CodeY :> "old" @@ Guide :> "old" @@
  YuklConfig :> config @@ LegacyIntent :> legacy @@
  ContractFile("t1") :> Absent @@ ContractFile("t2") :> Absent @@
  IntentFile("t1") :> intent1 @@ IntentFile("t2") :> OnAll

MCBases == {Tree({"test"}, Absent, OnX), Tree({"test"}, {"test"}, Absent),
            Tree(Absent, {"test"}, OnX), Tree(Absent, Absent, OnX)}

DoX   == ContractFile("t1") :> Contract("t1", {CodeX}, <<"test">>) @@ CodeX :> "new"
DoY   == ContractFile("t1") :> Contract("t1", {CodeY}, <<"test">>) @@ CodeY :> "new"
Widen == ContractFile("t1") :> Contract("t1", {CodeY, IntentFile("t1")}, <<"test">>)
         @@ CodeY :> "new" @@ IntentFile("t1") :> Intent({<<"**">>}, {})
Wrong == ContractFile("t1") :> Contract("t2", {CodeX}, <<>>) @@ CodeX :> "new"
Lint  == ContractFile("t2") :> Contract("t2", {YuklConfig}, <<"test", "lint">>)
         @@ YuklConfig :> {"test", "lint"}
Stray == ContractFile("t2") :> Contract("t2", {CodeX, Guide}, <<"test">>) @@ CodeX :> "newer"
Both  == ContractFile("t2") :> Contract("t2", {Guide}, <<"test">>) @@ Guide :> "newer" @@ DoX

(* An intent; a contract deleted; code with no contract.                   *)
Small == {IntentFile("t1") :> OnBoth @@ Guide :> "new", ContractFile("t1") :> Absent,
          CodeX :> "bare"}

MCOffers  == "a" :> Small @@ "b" :> {DoX, Lint, Both} @@ "c" :> {DoX, DoY, Widen, Wrong, Stray}
MCMaxRuns == "a" :> 1 @@ "b" :> 1 @@ "c" :> 2
=============================================================================
