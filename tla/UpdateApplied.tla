---------------------------- MODULE UpdateApplied ----------------------------
(***************************************************************************)
(* UpdateCheck with the history of one promise: a user who applies an update *)
(* hears no more of it.  update_container_image says so where it resolves     *)
(* the container's notification logs (containers.py:359).                   *)
(***************************************************************************)
EXTENDS UpdateCheck

VARIABLES
    applied,   \* the latest tag and digest a user last applied, Null before
    later      \* the checks opened since

AppliedInit == Init /\ applied = Null /\ later = {}

(***************************************************************************)
(* On an agent host the update is only queued: no column of the row changes.  *)
(***************************************************************************)
QueueUpdate ==
    /\ host_type = "agent"
    /\ row.has_update
    /\ applied' = Latest(row)
    /\ later' = {}
    /\ UNCHANGED vars

Other ==
    /\ Next
    /\ applied' = applied
    /\ later' = {s \in Checks : /\ sess'[s].pc # "idle"
                                /\ s \in later \/ sess[s].pc = "idle"}

AppliedSpec == AppliedInit /\ [][QueueUpdate \/ Other]_<<vars, applied, later>>

(***************************************************************************)
(* No check opened after a user applied an update alerts about that update.  *)
(* The comment's "so no further alerts fire" is about the logs, but a check   *)
(* never reads them: on an agent host has_update stays set and no snooze is   *)
(* set, so the next check alerts again until the agent has reported.        *)
(***************************************************************************)
NoFurtherAlerts ==
    applied # Null =>
        \A s \in later : sess[s].pc = "alerting" => Latest(sess[s].copy) # applied

==============================================================================
