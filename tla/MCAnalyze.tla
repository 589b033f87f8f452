----------------------------- MODULE MCAnalyze ------------------------------
(* Instances of Analyze for TLC: one metered type, one of a plugin, and a   *)
(* --fail-on option for each and for a type nothing ever reports.           *)
EXTENDS Analyze, TLC

MCTypes    == {"portscan", "plugin"}
MCMetered  == {"portscan"}
MCVerdicts == {<<>>, <<"portscan">>, <<"portscan", "plugin">>}
MCFailOn   == ("portscan" :> 2) @@ ("plugin" :> 2) @@ ("exfil" :> 1)

=============================================================================
