------------------------------ MODULE BillingSystem ------------------------------
(***************************************************************************)
(* The whole of it: sweeps of the scheduler over the rows that the requests, *)
(* the attempts and the two other sweeps of BillingEngine work on.          *)
(***************************************************************************)
EXTENDS BillingEngine, Scheduler

systemVars == <<engineVars, schedulerVars>>

SystemInit == EngineInit /\ SchedulerInit

SystemNext ==
    \/ ServiceNext /\ UNCHANGED schedulerVars
    \/ SchedulerNext /\ UNCHANGED <<provider, execVars, reprocess, creating, request>>

SystemSpec == SystemInit /\ [][SystemNext]_systemVars
=============================================================================
