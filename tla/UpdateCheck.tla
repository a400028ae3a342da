----------------------------- MODULE UpdateCheck -----------------------------
(***************************************************************************)
(* One tracked container and every database session that touches its row:  *)
(* update checks (scheduled, host-wide, single), agent syncs, reloads,      *)
(* image updates and acknowledgements, in any worker process.               *)
(*                                                                         *)
(* A session loads its copy of the row when it loads the host, because      *)
(* DockerHost.tracked_containers is loaded eagerly, and keeps that copy over *)
(* every await and commit: sessions are made with expire_on_commit=False     *)
(* and a later SELECT of a row already in the session does not refresh it.   *)
(* Each action below is the code between two awaits, ended by its commit.    *)
(***************************************************************************)
EXTENDS UpdateRules

CONSTANTS
    Checks,       \* sessions that run update checks, at most this many at a time
    Requests,     \* sessions of agent syncs, reloads and image updates
    Images,       \* the kinds of image a run looks at
    HostTypes,    \* \subseteq {"direct", "agent"}
    SnoozeTime    \* host.notification_snooze_hours, in clock ticks

ASSUME ImagesAssumption == Images \subseteq Image
ASSUME HostTypesAssumption == HostTypes \subseteq {"direct", "agent"}
ASSUME SessionsAssumption == Checks \cap Requests = {}
ASSUME SnoozeAssumption == SnoozeTime \in Nat \ {0}

VARIABLES
    img,          \* the image's kind, fixed
    host_type,    \* the host's type, fixed
    published,    \* newest release the registry offers under the version strategy
    running,      \* the release the runtime runs, Null when there is no container
    now,          \* the clock
    row,          \* the container's row in the database
    logged,       \* has it a notification log to acknowledge
    sess,         \* each session's progress, copy of the row and results in hand
    overtaken     \* history: the check that stored last had not seen the pair it replaced

vars == <<img, host_type, published, running, now, row, logged, sess, overtaken>>

Host == <<img, host_type>>
World == <<published, running, now>>

Sessions == Checks \cup Requests

Idle == [pc |-> "idle", copy |-> Null, answer |-> Null, report |-> Null]

(***************************************************************************)
(* Where a session is waiting: "listing" for the runtime's containers at    *)
(* the start of a host check, "asking" for the registry, "answered" for its  *)
(* commit, "alerting" for its turn to send; "syncing" for the commit of an   *)
(* agent's report; "reloading" for the runtime's containers; "recreating"    *)
(* and "relisting" in an image update.                                      *)
(***************************************************************************)
PCs == {"idle", "listing", "asking", "answered", "alerting",
        "syncing", "reloading", "recreating", "relisting"}

Session == [pc: PCs, copy: Row \cup {Null}, answer: Answer \cup {Null}, report: Digest]

TypeOK ==
    /\ img \in Images
    /\ host_type \in HostTypes
    /\ published \in Release
    /\ running \in Release \cup {Null}
    /\ now \in Time
    /\ row \in Row
    /\ logged \in BOOLEAN
    /\ overtaken \in BOOLEAN
    /\ sess \in [Sessions -> Session]
    /\ \A s \in Sessions : sess[s].pc # "idle" => sess[s].copy \in Row
    /\ \A s \in Sessions : sess[s].pc = "answered" => sess[s].answer \in Answer

------------------------------------------------------------------------------
(***************************************************************************)
(* The row is the one the first sync inserts.                              *)
(***************************************************************************)
Inserted(image, release) ==
    [tag |-> TagOf(image, release), digest |-> ReportedDigest(image, release),
     latest_tag |-> Null, latest_digest |-> Null, has_update |-> FALSE,
     snoozed_until |-> Null, status |-> "running"]

Init ==
    /\ img \in Images
    /\ host_type \in HostTypes
    /\ published = 0
    /\ running = 0
    /\ now = 0
    /\ row = Inserted(img, 0)
    /\ logged = FALSE
    /\ overtaken = FALSE
    /\ sess = [s \in Sessions |-> Idle]

------------------------------------------------------------------------------
(***************************************************************************)
(* The world outside: the registry, the runtime, the clock.                *)
(***************************************************************************)
Publish ==
    /\ published < MaxRelease
    /\ published' = published + 1
    /\ UNCHANGED <<Host, running, now, row, logged, sess, overtaken>>

(***************************************************************************)
(* Someone else replaces the container: a pull and recreate by hand, an     *)
(* agent applying a queued update, a removal.                               *)
(***************************************************************************)
RuntimeChange ==
    /\ running' \in (0..published \cup {Null}) \ {running}
    /\ UNCHANGED <<Host, published, now, row, logged, sess, overtaken>>

Tick ==
    /\ now < MaxTime
    /\ now' = now + 1
    /\ UNCHANGED <<Host, published, running, row, logged, sess, overtaken>>

------------------------------------------------------------------------------
(***************************************************************************)
(* Opening a session: load the host and with it the container, then wait.  *)
(***************************************************************************)
Open(s, pc, report) ==
    /\ sess[s].pc = "idle"
    /\ sess' = [sess EXCEPT ![s] = [pc |-> pc, copy |-> row,
                                     answer |-> Null, report |-> report]]
    /\ UNCHANGED <<Host, World, row, logged, overtaken>>

Close(s) == sess' = [sess EXCEPT ![s] = Idle]

(***************************************************************************)
(* A host check starts by listing a direct host's containers; an agent      *)
(* host's are pushed, and the check goes on to the containers that are not  *)
(* removed.  A check of this container alone starts at the registry,        *)
(* removed or not.                                                          *)
(***************************************************************************)
StartHostCheck(s) ==
    \/ host_type = "direct" /\ Open(s, "listing", Null)
    \/ host_type = "agent" /\ row.status # "removed" /\ Open(s, "asking", Null)

StartContainerCheck(s) == Open(s, "asking", Null)

(***************************************************************************)
(* The sync inside a host check: the list is upserted into the copy loaded  *)
(* before the list was asked for, and committed; the check then selects the *)
(* rows the database does not call removed.                                 *)
(***************************************************************************)
CheckSyncs(s) ==
    /\ sess[s].pc = "listing"
    /\ LET copy == Synced(sess[s].copy, img, running)
       IN /\ row' = Flush(row, sess[s].copy, copy)
          /\ IF row'.status # "removed"
             THEN sess' = [sess EXCEPT ![s].pc = "asking", ![s].copy = copy]
             ELSE Close(s)
    /\ UNCHANGED <<Host, World, logged, overtaken>>

(***************************************************************************)
(* The registry answers with what it offers now, for the tag of the copy.  *)
(***************************************************************************)
RegistryAnswers(s) ==
    /\ sess[s].pc = "asking"
    /\ sess' = [sess EXCEPT ![s].pc = "answered",
                            ![s].answer = FindLatestVersion(img, sess[s].copy.tag, published)]
    /\ UNCHANGED <<Host, World, row, logged, overtaken>>

(***************************************************************************)
(* The registry cannot be reached, or knows nothing of the image: only the  *)
(* time of the check is committed.  The same step stands for a runtime that *)
(* cannot be listed, an update that cannot be pulled, and a commit the      *)
(* database refuses, which rolls the session back and ends the check; in    *)
(* each the row and the logs stay as they are.                              *)
(***************************************************************************)
SessionFails(s) ==
    /\ sess[s].pc # "idle"
    /\ Close(s)
    /\ UNCHANGED <<Host, World, row, logged, overtaken>>

Latest(c) == <<c.latest_tag, c.latest_digest>>

(***************************************************************************)
(* The answer is stored in the copy and committed, and the check decides    *)
(* whether to alert; `force` is set in checks a user asked for.             *)
(***************************************************************************)
StoreAnswer(s) ==
    /\ sess[s].pc = "answered"
    /\ \E force \in BOOLEAN :
         LET old == sess[s].copy
             new == Checked(old, sess[s].answer)
         IN /\ row' = Flush(row, old, new)
            /\ overtaken' = (Latest(old) # Latest(row))
            /\ IF ShouldNotify(old, new, force, now)
               THEN sess' = [sess EXCEPT ![s] = [Idle EXCEPT !.pc = "alerting", !.copy = new]]
               ELSE Close(s)
    /\ UNCHANGED <<Host, World, logged>>

(***************************************************************************)
(* The alert goes out, at once or after the host's other containers, and    *)
(* is logged for each channel linked to the space; there may be none.        *)
(***************************************************************************)
SendAlert(s) ==
    /\ sess[s].pc = "alerting"
    /\ logged' \in {logged, TRUE}
    /\ Close(s)
    /\ UNCHANGED <<Host, World, row, overtaken>>

------------------------------------------------------------------------------
(***************************************************************************)
(* An agent pushes its containers; the report was made before the request. *)
(***************************************************************************)
AgentReports(s) == host_type = "agent" /\ Open(s, "syncing", running)

CommitReport(s) ==
    /\ sess[s].pc = "syncing"
    /\ row' = Flush(row, sess[s].copy, Synced(sess[s].copy, img, sess[s].report))
    /\ Close(s)
    /\ UNCHANGED <<Host, World, logged, overtaken>>

(***************************************************************************)
(* A user reloads the container of a direct host.                          *)
(***************************************************************************)
StartReload(s) == host_type = "direct" /\ Open(s, "reloading", Null)

CommitReload(s) ==
    /\ sess[s].pc = "reloading"
    /\ row' = Flush(row, sess[s].copy, Reloaded(sess[s].copy, img, running))
    /\ Close(s)
    /\ UNCHANGED <<Host, World, logged, overtaken>>

------------------------------------------------------------------------------
(***************************************************************************)
(* A user applies the update.  On an agent host it is queued, and the row waits *)
(* for the agent's next report; on a direct host the container is recreated.  *)
(* The container's open logs are resolved; who reads the status of a log is a   *)
(* page, never a check, and the locks on open logs delay nobody who would not  *)
(* be let through when none is open: the status is left out.                 *)
(***************************************************************************)
StartUpdate(s) ==
    /\ host_type = "direct"
    /\ row.has_update
    /\ Open(s, "recreating", Null)

(***************************************************************************)
(* The new container runs what the registry holds under the latest tag:     *)
(* the present release of a rolling tag, the release of a version tag.      *)
(***************************************************************************)
LatestTag(c) == IF c.latest_tag # Null THEN c.latest_tag ELSE c.tag

Recreate(s) ==
    /\ sess[s].pc = "recreating"
    /\ running # Null
    /\ running' = IF img.rolling THEN published ELSE LatestTag(sess[s].copy)
    /\ sess' = [sess EXCEPT ![s].pc = "relisting"]
    /\ UNCHANGED <<Host, published, now, row, logged, overtaken>>

Applied(c) ==
    [c EXCEPT !.has_update = FALSE, !.latest_tag = LatestTag(c), !.snoozed_until = Null]

(***************************************************************************)
(* The runtime is listed again; a failure to list, or a container that is   *)
(* no longer there, leaves the reported columns as they were.               *)
(***************************************************************************)
CommitUpdate(s) ==
    /\ sess[s].pc = "relisting"
    /\ \E listed \in BOOLEAN :
         LET old == sess[s].copy
             seen == IF listed /\ running # Null THEN Reloaded(old, img, running) ELSE old
         IN row' = Flush(row, old, Applied(seen))
    /\ Close(s)
    /\ UNCHANGED <<Host, World, logged, overtaken>>

(***************************************************************************)
(* A user acknowledges one of the container's notifications, and the container  *)
(* is snoozed.                                                             *)
(***************************************************************************)
Acknowledge ==
    /\ now + SnoozeTime <= MaxTime
    /\ logged
    /\ row' = [row EXCEPT !.snoozed_until = now + SnoozeTime]
    /\ UNCHANGED <<Host, World, logged, sess, overtaken>>

------------------------------------------------------------------------------
CheckStep(s) == CheckSyncs(s) \/ RegistryAnswers(s) \/ StoreAnswer(s) \/ SendAlert(s)

RequestStep(s) == CommitReport(s) \/ CommitReload(s) \/ Recreate(s) \/ CommitUpdate(s)

Next ==
    \/ Publish \/ RuntimeChange \/ Tick
    \/ Acknowledge
    \/ \E s \in Checks : StartHostCheck(s) \/ StartContainerCheck(s) \/ CheckStep(s)
    \/ \E s \in Requests : AgentReports(s) \/ StartReload(s) \/ StartUpdate(s) \/ RequestStep(s)
    \/ \E s \in Sessions : SessionFails(s)

Spec == Init /\ [][Next]_vars

(***************************************************************************)
(* The scheduler starts host checks for ever and an agent reports for ever,   *)
(* whatever users keep asking for meanwhile, and a session that keeps coming  *)
(* to the same wait is not failed there for ever: the registry, the runtime   *)
(* and the database answer in the end.                                      *)
(***************************************************************************)
Fairness ==
    /\ \A s \in Checks : SF_vars(StartHostCheck(s)) /\ SF_vars(CheckSyncs(s))
                         /\ SF_vars(RegistryAnswers(s)) /\ SF_vars(StoreAnswer(s))
                         /\ SF_vars(SendAlert(s))
    /\ \A s \in Requests : SF_vars(AgentReports(s)) /\ SF_vars(RequestStep(s))

FairSpec == Spec /\ Fairness

------------------------------------------------------------------------------
(***************************************************************************)
(* An acknowledgement holds: while a snooze is in force, the only checks     *)
(* still about to alert are those that loaded the container before it was    *)
(* acknowledged (check_container decides on the copy of its session).        *)
(***************************************************************************)
AckHolds ==
    \A s \in Checks :
        sess[s].pc = "alerting" /\ Snoozed(row, now)
            => sess[s].copy.snoozed_until # row.snoozed_until

(***************************************************************************)
(* An acknowledgement is not lost: whatever stale copy a check, a sync or a   *)
(* reload commits, the snooze in the row stays.  Only another               *)
(* acknowledgement changes it, and the end of an image update that had seen   *)
(* a snooze when it began: one that had not leaves an acknowledgement that     *)
(* came while the container was recreated.                                  *)
(***************************************************************************)
AckNotLost ==
    [][row'.snoozed_until # row.snoozed_until
         => \/ Acknowledge
            \/ \E s \in Requests : CommitUpdate(s) /\ sess[s].copy.snoozed_until # Null]_vars

(***************************************************************************)
(* An alert names a change: the copy it is written from says another tag, or *)
(* another digest, than the one running.                                    *)
(***************************************************************************)
AlertNamesAChange ==
    \A s \in Checks :
        sess[s].pc = "alerting" =>
            LET c == sess[s].copy
            IN \/ c.latest_tag # c.tag
               \/ c.latest_digest # Null /\ c.latest_digest # c.digest

(***************************************************************************)
(* The latest tag and digest in the row belong together: a Kubernetes        *)
(* update pins the image as latest_tag@latest_digest.  Of two checks that      *)
(* overlap each may leave one column of its own, and the row is torn; only a   *)
(* check that another overtook can tear it, no sync, reload or update does,    *)
(* and the next check that is not overtaken mends it.                        *)
(***************************************************************************)
LatestPair ==
    ~img.rolling /\ row.latest_digest # Null /\ ~overtaken
        => row.latest_digest = row.latest_tag

(***************************************************************************)
(* Whoever can be outdated is told: as long as the container runs an older    *)
(* release than the registry offers and is not snoozed, alerts keep coming.  *)
(* A rolling tag whose digest the runtime does not report cannot be told      *)
(* from an up-to-date one.                                                   *)
(***************************************************************************)
Comparable == ~img.rolling \/ img.reportsDigest

Outdated == running # Null /\ running < published

OutdatedAlerts ==
    <>[](Comparable /\ Outdated /\ ~Snoozed(row, now))
        => []<><<\E s \in Checks : SendAlert(s)>>_vars

(***************************************************************************)
(* The flag converges: once the registry and the runtime rest, has_update     *)
(* comes to say whether the container is outdated, whatever stale copies      *)
(* were committed before.  Where releases cannot be compared it ends false.  *)
(***************************************************************************)
FlagConverges ==
    <>[][UNCHANGED <<published, running>>]_vars
        => <>[](running # Null => row.has_update = (Comparable /\ running < published))

==============================================================================
