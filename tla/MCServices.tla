----------------------------- MODULE MCServices -----------------------------
(***************************************************************************)
(* TLC instances of the services that share no row with each other and     *)
(* have something that must eventually happen.  A behaviour is one of one  *)
(* of them, `service', while the others stay as they start: a run explores *)
(* the disjoint union of their state spaces.                               *)
(***************************************************************************)
EXTENDS Realtime, ArModels, KotQueue, NightlyReport

VARIABLE service

servicesVars == <<service, rtVars, arVars, kqVars, nrVars>>

ServicesInit ==
    /\ service \in {"realtime", "ar", "kot", "report"}
    /\ RtInit /\ ArInit /\ KqInit /\ NrInit

RealtimeNext == service = "realtime" /\ RtNext /\ UNCHANGED <<service, arVars, kqVars, nrVars>>
ModelsNext == service = "ar" /\ ArNext /\ UNCHANGED <<service, rtVars, kqVars, nrVars>>
KitchenNext == service = "kot" /\ KqNext /\ UNCHANGED <<service, rtVars, arVars, nrVars>>
ReportNext == service = "report" /\ NrNext /\ UNCHANGED <<service, rtVars, arVars, kqVars>>

ServicesNext == RealtimeNext \/ ModelsNext \/ KitchenNext \/ ReportNext

\* RtFairness, ArFairness, KqFairness and NrFairness, each of its service.
ServicesFairness ==
    /\ \A p \in Pages : WF_rtVars(service = "realtime" /\ RtPage(p))
    /\ \A s \in Sockets : WF_rtVars(service = "realtime" /\ RtSocket(s))
    /\ \A w \in Sweeps : WF_rtVars(service = "realtime" /\ RtLoop(w))
    /\ \A k \in Tasks : SF_arVars(service = "ar" /\ PipelineStep(k))
    /\ \A w \in Workers : WF_kqVars(service = "kot" /\ (WorkerStep(w) \/ AckLost(w)))
    /\ \A r \in Replicas : WF_nrVars(service = "report" /\ TickStep(r))

ServicesSpec == ServicesInit /\ [][ServicesNext]_servicesVars /\ ServicesFairness

=============================================================================
