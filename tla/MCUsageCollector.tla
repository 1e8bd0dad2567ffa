-------------------------- MODULE MCUsageCollector --------------------------
(***************************************************************************)
(* Two deliveries that share a trace; one trace of each kind the collector *)
(* tells apart: two responses, a canary past the retention, and a response *)
(* that nothing identifies.                                                *)
(***************************************************************************)
EXTENDS UsageCollector, TLC

CONSTANTS d1, d2, chat, canary, stray

BatchOf == d1 :> {chat, canary} @@ d2 :> {chat, stray}
ResponsesOf == chat :> 2 @@ canary :> 0 @@ stray :> 1
=============================================================================
