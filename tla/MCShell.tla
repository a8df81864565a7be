-------------------------------- MODULE MCShell --------------------------------
(***************************************************************************)
(* The process of a deployment with one quality tenant and two tenants to  *)
(* embed for: four loops and six resources.                                *)
(***************************************************************************)
EXTENDS WorkerShell

CONSTANTS
    embedding, provider, database, workOrders, events, callbacks,
    embed, process, intake, report, t1, t2

Built == <<embedding, provider, database, workOrders, events, callbacks>>
Abandoned == <<provider, embedding, workOrders, events, callbacks, database>>
Retrieval == <<database, workOrders, embedding, provider>>
Quality == <<events, callbacks>>
Inspecting == <<process, intake, report>>

WorksWith ==
    [l \in {embed, process, intake, report} |->
        CASE l = embed -> {database, embedding}
          [] l = process -> {database, embedding, provider}
          [] l = intake -> {database, events}
          [] l = report -> {database, callbacks}]

Served == [l \in {embed, process, intake, report} |-> IF l = embed THEN <<t1, t2>> ELSE <<t1>>]
================================================================================
