------------------------------- MODULE AgentApi -------------------------------
(***************************************************************************)
(* The whole agent API: registration, updates and log streaming in the same    *)
(* worker processes.  One sync hands over the updates and the log requests of  *)
(* its worker; a worker dies with the memory of both.                       *)
(***************************************************************************)
EXTENDS AgentLogs

vars == <<hostVars, queueVars, logVars>>

TypeOK == HostTypeOK /\ QueueTypeOK /\ LogTypeOK

Init == HostInit /\ QueueInit /\ LogInit

Crash(w) == QueueCrash(w) /\ LogCrash(w) /\ UNCHANGED hostVars

UpdateStep ==
    \/ \E c \in Containers : Found(c) \/ Recreated(c)
    \/ \E u \in Users : UserStep(u)
    \/ \E a \in Agents : StartSync(a) \/ SyncFails(a) \/ AgentApplies(a)

Next ==
    \/ HostNext /\ UNCHANGED <<queueVars, logVars>>
    \/ UpdateStep /\ UNCHANGED <<hostVars, logVars>>
    \/ \E a \in Agents : FinishSync(a) /\ HearRequests(a) /\ UNCHANGED hostVars
    \/ LogNext /\ UNCHANGED <<hostVars, queueVars>>
    \/ \E w \in Workers : Crash(w)

Spec == Init /\ [][Next]_vars

(***************************************************************************)
(* The same with no call failing and no worker dying.                       *)
(***************************************************************************)
CalmNext ==
    \/ \E c \in Containers : Found(c) /\ UNCHANGED <<hostVars, logVars>>
    \/ \E u \in Users : /\ StartUpdate(u) \/ QueueUpdate(u) \/ CommitUpdate(u)
                       /\ UNCHANGED <<hostVars, logVars>>
    \/ \E a \in Agents : /\ StartSync(a) \/ AgentApplies(a)
                        /\ UNCHANGED <<hostVars, logVars>>
    \/ \E a \in Agents : FinishSync(a) /\ HearRequests(a) /\ UNCHANGED hostVars

CalmSpec == Init /\ [][CalmNext]_vars

------------------------------------------------------------------------------
(***************************************************************************)
(* "Populated by the container update endpoint; consumed and cleared on next   *)
(* agent sync" (agent_api.py:112): no sync of a host leaves an update of the   *)
(* host waiting.  Each worker has a queue of its own, and a sync clears only   *)
(* that of the worker it reaches.                                          *)
(***************************************************************************)
ClearedOnNextSync ==
    [][\A a \in Agents : FinishSync(a) => \A w \in Workers : pending'[w][sync[a].of] = <<>>]_vars

==============================================================================
