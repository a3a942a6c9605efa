----------------------------- MODULE MCAutomation -----------------------------
(* Scheduled prompts, external sources and insights for TLC, side by side: they *)
(* share no row and no task, so their steps need not be interleaved and each    *)
(* behaviour is about one of them.                                              *)
EXTENDS Schedules, Integrations, Insights, TLC

VARIABLE focus   \* the part a behaviour is about

mcVars == <<focus, schedVars, intVars, insVars>>

InSchedules(A) ==
    focus = "schedules" /\ A /\ UNCHANGED <<focus, intVars, insVars>>
InIntegrations(A) ==
    focus = "integrations" /\ A /\ UNCHANGED <<focus, schedVars, insVars>>
(* Insights, and the notifications about them, which share no more than the     *)
(* queue of notices.                                                            *)
InInsights(A) ==
    focus = "insights" /\ A
    /\ UNCHANGED <<focus, schedVars, intVars, prefs, hits, expiring, mailVars, windows>>
InNotices(A) ==
    focus = "notices" /\ A
    /\ UNCHANGED <<focus, schedVars, intVars, evVars, profileVars, digests>>

MCInit ==
    /\ focus \in {"schedules", "integrations", "insights", "notices"}
    /\ SchedInit /\ IntInit /\ InsInit
MCNext ==
    \/ InSchedules(SchedNext) \/ InIntegrations(IntNext) \/ InInsights(InsNext)
    \/ InNotices(InsNext)
MCFairness ==
    /\ WF_mcVars(InSchedules(SyncRead)) /\ WF_mcVars(InSchedules(SyncApply))
    /\ WF_mcVars(InSchedules(RestartScheduler))
MCSpec == MCInit /\ [][MCNext]_mcVars /\ MCFairness

==============================================================================
