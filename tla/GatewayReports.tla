---------------------------- MODULE GatewayReports ----------------------------
(***************************************************************************)
(* What the users of the operator are told.  The status of a gateway does  *)
(* not tell it by itself: the operator writes the same status when it      *)
(* fails (manageError) and when a source map of a healthy gateway changes  *)
(* (handleConfigMapChange).  So GatewayController is given a history       *)
(* variable, which says of each gateway how its last reconcile ended since *)
(* what it asks for was last changed.                                      *)
(***************************************************************************)
EXTENDS GatewayController

VARIABLE told   \* told[g]: what manageError made of the last reconcile of g

reportVars == <<vars, told>>

(* "status": the failure is in the status of the gateway; "log": the API   *)
(* server did not take the status for a cause of its own; "refused": it    *)
(* did not take it because the operator wrote over an old copy.  The last  *)
(* two leave the failure in the log of the operator, and nowhere else.     *)
Endings == {"nothing", "status", "log", "refused"}

InitTold == Init /\ told = [g \in Gateways |-> "nothing"]

Forget(S) == told' = [g \in Gateways |-> IF g \in S THEN "nothing" ELSE told[g]]

Report ==
    LET how == IF ~Fresh(Cr(job.req), job.inst) THEN "refused"
               ELSE IF faults' = faults THEN "status" ELSE "log"
    IN  told' = [told EXCEPT ![job.req] = how]

NextTold ==
    \/ \E g \in Gateways : Ask(g) /\ Forget({g})
    \/ \E m \in SourceMaps : Supply(m) /\ Forget(Naming(m))
    \/ Succeed /\ Forget({job.req})
    \/ ManageError /\ Report
    \/ (GoOn \/ Manager \/ Cluster \/ Disturb) /\ UNCHANGED told

ToldSpec     == InitTold /\ [][NextTold]_reportVars
FairToldSpec == ToldSpec /\ Fairness

-----------------------------------------------------------------------------
(* The failure of the last reconcile of g is in its status; or in the log, *)
(* when the API server would not take the status either.                   *)
Reported(g) == (told[g] = "status" /\ api[Cr(g)].failed) \/ told[g] = "log"

(* The operator will look at g again, of its own accord: g is reconciled,  *)
(* or queued or held back to be, or an event of it has yet to come.        *)
Pending(n, k) == n \in queue \cup delayed \/ stream[k] # <<>>
OwnTurn(g) ==
    \/ Pending(g, Cr(g))
    \/ pc \in {"configMap", "deployment", "error"} /\ job.req = g
SourceTurn(g) ==
    \E m \in api[Cr(g)].spec.refs :
        Pending(m, Src(m)) \/ (pc = "touch" /\ job.req = m /\ g \in job.todo)
UnderWay(g) == OwnTurn(g) \/ SourceTurn(g)

(* No gateway is ever forgotten: one that can be had and is not as asked   *)
(* is in the hands of the operator, or its failure was reported after it   *)
(* was last asked for.  Reconcile gives up on every error, conflicts with  *)
(* the deployment controller included, and is killed between two writes,   *)
(* but never without a trace.  (The status that a touch writes is none.)   *)
(* "Any significant changes will result in the running pods being reloaded *)
(* with the new configuration."                                            *)
NeverForgotten ==
    \A g \in Gateways : Wanted(g) => Current(g) \/ Reported(g) \/ UnderWay(g)

(* Users who stop changing things get what they asked for, or are told.    *)
(* (A reconcile that panics is tried for ever and reports nothing.)        *)
Panics(g) == api[Cr(g)].spec.lit \in Panicking
EventuallyDoneOrReported ==
    <>[](\A g \in Gateways : Wanted(g) /\ ~Panics(g) => Current(g) \/ Reported(g))
=============================================================================
