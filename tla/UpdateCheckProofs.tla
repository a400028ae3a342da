-------------------------- MODULE UpdateCheckProofs --------------------------
(***************************************************************************)
(* Theorems about the update checker, for every number of sessions, every   *)
(* kind of image and every bound on releases and time.                      *)
(***************************************************************************)
EXTENDS UpdateCheck, TLAPS

(***************************************************************************)
(* Whether an alert is due does not depend on what is compared: with the     *)
(* snooze unchanged, check_container alerts exactly when the image has an    *)
(* update and no snooze is in force, forced or not.                         *)
(***************************************************************************)
THEOREM ShouldNotifyIff ==
    ASSUME NEW old, NEW new, NEW force, NEW t,
           old.has_update \in BOOLEAN,
           new.snoozed_until = old.snoozed_until
    PROVE  ShouldNotify(old, new, force, t) <=> new.has_update /\ ~Snoozed(new, t)
  BY DEF ShouldNotify, Snoozed

------------------------------------------------------------------------------
(***************************************************************************)
(* The operators on rows yield rows.                                       *)
(***************************************************************************)
LEMMA FlushType ==
    ASSUME NEW r \in Row, NEW a \in Row, NEW b \in Row
    PROVE  Flush(r, a, b) \in Row
  BY DEF Flush, Net, Row

LEMMA TagOfType ==
    ASSUME NEW i \in Image, NEW v \in Release
    PROVE  TagOf(i, v) \in Tag /\ ReportedDigest(i, v) \in Digest
  BY DEF TagOf, ReportedDigest, Tag, Digest, Image

LEMMA CheckedType ==
    ASSUME NEW c \in Row, NEW a \in Answer
    PROVE  Checked(c, a) \in Row
  <1>1. DetectHasUpdate(c, a) \in BOOLEAN
    BY DEF DetectHasUpdate
  <1>2. a.tag \in Tag \cup {Null} /\ a.digest \in Digest
    BY DEF Answer
  <1>3. QED
    BY <1>1, <1>2 DEF Checked, Row

LEMMA SyncedType ==
    ASSUME NEW c \in Row, NEW i \in Image, NEW v \in Release \cup {Null}
    PROVE  Synced(c, i, v) \in Row /\ Reloaded(c, i, v) \in Row
  <1>1. CASE v = Null
    BY <1>1 DEF Synced, Reloaded, Row
  <1>2. CASE v \in Release
    <2>1. v # Null
      BY <1>2, NullAssumption DEF Release
    <2>2. PICK t \in Tag : t = TagOf(i, v)
      BY <1>2, TagOfType
    <2>3. PICK d \in Digest : d = ReportedDigest(i, v)
      BY <1>2, TagOfType
    <2>4. Synced(c, i, v) = [c EXCEPT !.tag = t, !.digest = d, !.status = "running",
                                      !.has_update = @ /\ ~(d # Null /\ d = c.latest_digest)]
      BY <2>1, <2>2, <2>3 DEF Synced, Upsert
    <2>5. Reloaded(c, i, v) = [c EXCEPT !.tag = t, !.digest = d, !.status = "running"]
      BY <2>1, <2>2, <2>3 DEF Reloaded
    <2>6. QED
      BY <2>4, <2>5 DEF Row
  <1>3. QED
    BY <1>1, <1>2

LEMMA AppliedType ==
    ASSUME NEW c \in Row
    PROVE  Applied(c) \in Row
  BY DEF Applied, LatestTag, Row

LEMMA AnswerType ==
    ASSUME NEW i \in Image, NEW v \in Tag, NEW n \in Release
    PROVE  FindLatestVersion(i, v, n) \in Answer
  BY DEF FindLatestVersion, Answer, Tag, Digest, Image

------------------------------------------------------------------------------
(***************************************************************************)
(* Type correctness.                                                       *)
(***************************************************************************)
LEMMA OpenType ==
    ASSUME TypeOK, NEW s \in Sessions, NEW pc \in PCs \ {"idle", "answered"},
           NEW report \in Digest, Open(s, pc, report)
    PROVE  TypeOK'
  <1>1. [pc |-> pc, copy |-> row, answer |-> Null, report |-> report] \in Session
    BY DEF Session, TypeOK
  <1>2. QED
    BY <1>1 DEF TypeOK, Open, Host, World

LEMMA CloseType ==
    ASSUME TypeOK, NEW s \in Sessions, Close(s)
    PROVE  /\ sess' \in [Sessions -> Session]
           /\ \A u \in Sessions : sess'[u].pc # "idle" => sess'[u].copy \in Row
           /\ \A u \in Sessions : sess'[u].pc = "answered" => sess'[u].answer \in Answer
  <1>1. Idle \in Session
    BY DEF Idle, Session, PCs, Digest
  <1>2. QED
    BY <1>1 DEF TypeOK, Close, Idle

LEMMA InitType == Init => TypeOK
  <1> SUFFICES ASSUME Init PROVE TypeOK
    OBVIOUS
  <1>1. 0 \in Release /\ 0 \in Time
    BY ReleaseAssumption, TimeAssumption DEF Release, Time
  <1>2. img \in Image
    BY ImagesAssumption DEF Init
  <1>3. row \in Row
    BY <1>1, <1>2, TagOfType DEF Init, Inserted, Row, Digest
  <1>4. Idle \in Session
    BY DEF Idle, Session, PCs, Digest
  <1>5. QED
    BY <1>1, <1>3, <1>4 DEF Init, TypeOK, Idle

(***************************************************************************)
(* A version tag stays a version: no session ever holds a rolling tag for an *)
(* image that does not roll.  It is what makes TypeOK inductive, because an   *)
(* update runs the tag its session holds.                                   *)
(***************************************************************************)
Fits(c) == ~img.rolling => c.tag # RollingTag /\ c.latest_tag # RollingTag

TagsFit ==
    /\ Fits(row)
    /\ \A s \in Sessions : sess[s].pc # "idle" => Fits(sess[s].copy)
    /\ \A s \in Sessions : sess[s].pc = "answered" /\ ~img.rolling
                              => sess[s].answer.tag # RollingTag

LEMMA RunsARelease ==
    ASSUME NEW c \in Row, Fits(c), ~img.rolling
    PROVE  LatestTag(c) \in Release
  BY DEF Fits, LatestTag, Row, Tag

LEMMA NextType == TypeOK /\ TagsFit /\ [Next]_vars => TypeOK'
  <1> SUFFICES ASSUME TypeOK, TagsFit, [Next]_vars PROVE TypeOK'
    OBVIOUS
  <1>0. img \in Image /\ row \in Row
    BY ImagesAssumption DEF TypeOK
  <1>1. CASE Publish
    BY <1>1, ReleaseAssumption DEF Publish, TypeOK, Host, Release
  <1>2. CASE RuntimeChange
    <2>1. running' \in Release \cup {Null}
      BY <1>2, ReleaseAssumption DEF RuntimeChange, TypeOK, Release
    <2>2. QED
      BY <1>2, <2>1 DEF RuntimeChange, TypeOK, Host
  <1>3. CASE Tick
    BY <1>3, TimeAssumption DEF Tick, TypeOK, Host, Time
  <1>5. CASE Acknowledge
    <2>1. now + SnoozeTime \in Time
      BY <1>5, SnoozeAssumption, TimeAssumption DEF Acknowledge, TypeOK, Time
    <2>2. row' \in Row
      BY <1>0, <1>5, <2>1 DEF Acknowledge, Row
    <2>3. QED
      BY <1>5, <2>2 DEF Acknowledge, TypeOK, Host, World
  <1>6. ASSUME NEW s \in Checks, StartHostCheck(s) \/ StartContainerCheck(s) PROVE TypeOK'
    <2>1. PICK pc \in {"listing", "asking"} : Open(s, pc, Null)
      BY <1>6 DEF StartHostCheck, StartContainerCheck
    <2>2. QED
      BY <2>1, OpenType DEF Sessions, PCs, Digest
  <1>7. ASSUME NEW s \in Checks, CheckSyncs(s) PROVE TypeOK'
    <2> DEFINE copy == Synced(sess[s].copy, img, running)
    <2>1. s \in Sessions
      BY DEF Sessions
    <2>2. sess[s].copy \in Row /\ copy \in Row
      BY <1>0, <1>7, <2>1, SyncedType DEF CheckSyncs, TypeOK
    <2>3. row' = Flush(row, sess[s].copy, copy) /\ row' \in Row
      BY <1>0, <1>7, <2>2, FlushType DEF CheckSyncs
    <2>4. UNCHANGED <<Host, World, logged, overtaken>>
      BY <1>7 DEF CheckSyncs
    <2> HIDE DEF copy
    <2>5. CASE sess' = [sess EXCEPT ![s].pc = "asking", ![s].copy = copy]
      BY <2>1, <2>2, <2>3, <2>4, <2>5 DEF TypeOK, Session, PCs, Host, World
    <2>6. CASE Close(s)
      BY <2>1, <2>3, <2>4, <2>6, CloseType DEF TypeOK, Host, World
    <2>7. QED
      BY <1>7, <2>5, <2>6 DEF CheckSyncs, copy
  <1>8. ASSUME NEW s \in Checks, RegistryAnswers(s) PROVE TypeOK'
    <2> DEFINE answer == FindLatestVersion(img, sess[s].copy.tag, published)
    <2>1. s \in Sessions /\ sess[s].pc = "asking" /\ sess[s].copy \in Row
      BY <1>8 DEF RegistryAnswers, TypeOK, Sessions
    <2>2. answer \in Answer
      BY <1>0, <2>1, AnswerType DEF Row, TypeOK
    <2>3. /\ sess' = [sess EXCEPT ![s].pc = "answered", ![s].answer = answer]
          /\ UNCHANGED <<Host, World, row, logged, overtaken>>
      BY <1>8 DEF RegistryAnswers
    <2> HIDE DEF answer
    <2>4. QED
      BY <2>1, <2>2, <2>3 DEF TypeOK, Session, PCs, Host, World
  <1>9. ASSUME NEW s \in Checks, StoreAnswer(s) PROVE TypeOK'
    <2> DEFINE new == Checked(sess[s].copy, sess[s].answer)
    <2>1. s \in Sessions /\ sess[s].copy \in Row /\ sess[s].answer \in Answer
      BY <1>9 DEF StoreAnswer, TypeOK, Sessions
    <2>2. new \in Row
      BY <2>1, CheckedType
    <2>3. row' = Flush(row, sess[s].copy, new) /\ row' \in Row
      BY <1>0, <1>9, <2>1, <2>2, FlushType DEF StoreAnswer
    <2>4. UNCHANGED <<Host, World, logged>> /\ overtaken' \in BOOLEAN
      BY <1>9 DEF StoreAnswer
    <2> HIDE DEF new
    <2>5. CASE sess' = [sess EXCEPT ![s] = [Idle EXCEPT !.pc = "alerting", !.copy = new]]
      <3>1. sess' \in [Sessions -> Session]
        BY <2>1, <2>2, <2>5 DEF TypeOK, Session, PCs, Idle, Digest
      <3>2. \A u \in Sessions : sess'[u].pc # "idle" => sess'[u].copy \in Row
        BY <2>1, <2>2, <2>5 DEF TypeOK, Idle
      <3>3. \A u \in Sessions : sess'[u].pc = "answered" => sess'[u].answer \in Answer
        BY <2>1, <2>5 DEF TypeOK, Idle
      <3>4. QED
        BY <2>3, <2>4, <3>1, <3>2, <3>3 DEF TypeOK, Host, World
    <2>6. CASE Close(s)
      BY <2>1, <2>3, <2>4, <2>6, CloseType DEF TypeOK, Host, World
    <2>7. QED
      BY <1>9, <2>5, <2>6 DEF StoreAnswer, new
  <1>10. ASSUME NEW s \in Checks, SendAlert(s) PROVE TypeOK'
    <2>1. logged' \in BOOLEAN /\ Close(s) /\ UNCHANGED <<Host, World, row, overtaken>>
      BY <1>10 DEF SendAlert, TypeOK
    <2>2. QED
      BY <2>1, CloseType DEF TypeOK, Host, World, Sessions
  <1>11. ASSUME NEW s \in Requests, AgentReports(s) \/ StartReload(s) \/ StartUpdate(s)
         PROVE  TypeOK'
    <2>1. PICK pc \in {"syncing", "reloading", "recreating"}, report \in Digest :
            Open(s, pc, report)
      BY <1>11 DEF AgentReports, StartReload, StartUpdate, Digest, TypeOK
    <2>2. QED
      BY <2>1, OpenType DEF Sessions, PCs
  <1>12. ASSUME NEW s \in Requests, CommitReport(s) \/ CommitReload(s) PROVE TypeOK'
    <2>1. s \in Sessions /\ sess[s].copy \in Row /\ sess[s].report \in Release \cup {Null}
      BY <1>12 DEF CommitReport, CommitReload, TypeOK, Session, Sessions, Digest
    <2>2. PICK copy \in Row : row' = Flush(row, sess[s].copy, copy)
      BY <1>0, <1>12, <2>1, SyncedType DEF CommitReport, CommitReload, TypeOK
    <2>3. row' \in Row
      BY <1>0, <2>1, <2>2, FlushType
    <2>4. Close(s) /\ UNCHANGED <<Host, World, logged, overtaken>>
      BY <1>12 DEF CommitReport, CommitReload
    <2>5. QED
      BY <2>1, <2>3, <2>4, CloseType DEF TypeOK, Host, World
  <1>13. ASSUME NEW s \in Requests, Recreate(s) PROVE TypeOK'
    <2>1. s \in Sessions /\ sess[s].copy \in Row
      BY <1>13 DEF Recreate, TypeOK, Sessions
    <2>2. running' \in Release \cup {Null}
      BY <1>13, <2>1, RunsARelease DEF Recreate, TypeOK, TagsFit
    <2>3. QED
      BY <1>13, <2>1, <2>2 DEF Recreate, TypeOK, Session, PCs, Host
  <1>14. ASSUME NEW s \in Requests, CommitUpdate(s) PROVE TypeOK'
    <2>1. s \in Sessions /\ sess[s].copy \in Row
      BY <1>14 DEF CommitUpdate, TypeOK, Sessions
    <2>2. PICK seen \in Row : row' = Flush(row, sess[s].copy, Applied(seen))
      BY <1>0, <1>14, <2>1, SyncedType DEF CommitUpdate, TypeOK
    <2>3. row' \in Row
      BY <1>0, <2>1, <2>2, FlushType, AppliedType
    <2>4. Close(s) /\ UNCHANGED <<Host, World, logged, overtaken>>
      BY <1>14 DEF CommitUpdate
    <2>5. QED
      BY <2>1, <2>3, <2>4, CloseType DEF TypeOK, Host, World
  <1>15. ASSUME NEW s \in Sessions, SessionFails(s) PROVE TypeOK'
    BY <1>15, CloseType DEF SessionFails, TypeOK, Host, World
  <1>16. CASE UNCHANGED vars
    BY <1>16 DEF vars, TypeOK
  <1>17. QED
    BY <1>1, <1>2, <1>3, <1>5, <1>6, <1>7, <1>8, <1>9, <1>10, <1>11, <1>12, <1>13,
       <1>14, <1>15, <1>16 DEF Next, CheckStep, RequestStep

LEMMA InitFit == Init => TagsFit
  BY ImagesAssumption, NullAssumption, ReleaseAssumption
  DEF Init, TagsFit, Fits, Inserted, TagOf, Idle

LEMMA FlushFits ==
    ASSUME NEW a, NEW b, Fits(row), Fits(a), Fits(b)
    PROVE  Fits(Flush(row, a, b))
  BY DEF Fits, Flush, Net

LEMMA SyncedFits ==
    ASSUME NEW c \in Row, Fits(c), NEW v \in Release \cup {Null}
    PROVE  Fits(Synced(c, img, v)) /\ Fits(Reloaded(c, img, v))
  BY NullAssumption DEF Fits, Synced, Reloaded, Upsert, TagOf, Release, Row

LEMMA NextFit == TypeOK /\ TagsFit /\ [Next]_vars => TagsFit'
  <1> SUFFICES ASSUME TypeOK, TagsFit, [Next]_vars PROVE TagsFit'
    OBVIOUS
  <1>0. img \in Image
    BY ImagesAssumption DEF TypeOK
  <1>1. CASE Publish \/ RuntimeChange \/ Tick
    BY <1>1 DEF Publish, RuntimeChange, Tick, TagsFit, Fits, Host, World
  <1>2. CASE Acknowledge
    BY <1>2 DEF Acknowledge, TagsFit, Fits, Host, World, TypeOK, Row
  <1>3. ASSUME NEW s \in Sessions, NEW pc, NEW report, pc # "answered", Open(s, pc, report)
        PROVE  TagsFit'
    BY <1>3 DEF Open, TagsFit, Fits, Host, World, TypeOK
  <1>4. ASSUME NEW s \in Sessions, Close(s), UNCHANGED Host, Fits(row)' PROVE TagsFit'
    BY <1>4 DEF Close, Idle, TagsFit, Fits, Host, TypeOK
  <1>5. ASSUME NEW s \in Checks, CheckSyncs(s) PROVE TagsFit'
    <2> DEFINE copy == Synced(sess[s].copy, img, running)
    <2>1. s \in Sessions /\ sess[s].copy \in Row /\ UNCHANGED <<img, host_type>>
      BY <1>5 DEF CheckSyncs, TypeOK, Sessions, Host
    <2>2. Fits(sess[s].copy) /\ Fits(copy)
      BY <1>5, <2>1, SyncedFits DEF CheckSyncs, TagsFit, TypeOK
    <2>3. Fits(row)'
      BY <1>5, <2>1, <2>2, FlushFits DEF CheckSyncs, TagsFit, Fits
    <2> HIDE DEF copy
    <2>4. CASE sess' = [sess EXCEPT ![s].pc = "asking", ![s].copy = copy]
      BY <2>1, <2>2, <2>3, <2>4 DEF TagsFit, Fits, TypeOK, Session
    <2>5. CASE Close(s)
      BY <1>4, <2>1, <2>3, <2>5 DEF Host
    <2>6. QED
      BY <1>5, <2>4, <2>5 DEF CheckSyncs, copy
  <1>6. ASSUME NEW s \in Checks, RegistryAnswers(s) PROVE TagsFit'
    <2> DEFINE answer == FindLatestVersion(img, sess[s].copy.tag, published)
    <2>1. s \in Sessions /\ Fits(sess[s].copy) /\ UNCHANGED <<img, row>>
      BY <1>6 DEF RegistryAnswers, TagsFit, Sessions, Host
    <2>2. ~img.rolling => answer.tag # RollingTag
      BY <2>1, NullAssumption DEF FindLatestVersion, Fits, TypeOK, Release
    <2>3. sess' = [sess EXCEPT ![s].pc = "answered", ![s].answer = answer]
      BY <1>6 DEF RegistryAnswers
    <2> HIDE DEF answer
    <2>4. QED
      BY <2>1, <2>2, <2>3 DEF TagsFit, Fits, TypeOK, Session
  <1>7. ASSUME NEW s \in Checks, StoreAnswer(s) PROVE TagsFit'
    <2> DEFINE new == Checked(sess[s].copy, sess[s].answer)
    <2>1. s \in Sessions /\ sess[s].copy \in Row /\ UNCHANGED <<img, host_type>>
      BY <1>7 DEF StoreAnswer, TypeOK, Sessions, Host
    <2>2. Fits(sess[s].copy) /\ Fits(new)
      BY <1>7, <2>1 DEF StoreAnswer, TagsFit, Fits, Checked, Row
    <2>3. Fits(row)'
      BY <1>7, <2>1, <2>2, FlushFits DEF StoreAnswer, TagsFit, Fits
    <2> HIDE DEF new
    <2>4. CASE sess' = [sess EXCEPT ![s] = [Idle EXCEPT !.pc = "alerting", !.copy = new]]
      BY <2>1, <2>2, <2>3, <2>4 DEF TagsFit, Fits, TypeOK, Idle
    <2>5. CASE Close(s)
      BY <1>4, <2>1, <2>3, <2>5 DEF Host
    <2>6. QED
      BY <1>7, <2>4, <2>5 DEF StoreAnswer, new
  <1>8. ASSUME NEW s \in Requests, CommitReport(s) \/ CommitReload(s) PROVE TagsFit'
    <2>1. /\ s \in Sessions /\ sess[s].copy \in Row /\ Close(s)
          /\ UNCHANGED <<img, host_type>> /\ sess[s].report \in Release \cup {Null}
      BY <1>8 DEF CommitReport, CommitReload, TypeOK, Sessions, Host, Session, Digest
    <2>2. Fits(sess[s].copy)
      BY <1>8, <2>1 DEF CommitReport, CommitReload, TagsFit
    <2>3. PICK copy : row' = Flush(row, sess[s].copy, copy) /\ Fits(copy)
      BY <1>8, <2>1, <2>2, SyncedFits DEF CommitReport, CommitReload, TypeOK
    <2>4. Fits(row)'
      BY <2>1, <2>2, <2>3, FlushFits DEF TagsFit, Fits
    <2>5. QED
      BY <1>4, <2>1, <2>4 DEF Host
  <1>9. ASSUME NEW s \in Requests, Recreate(s) PROVE TagsFit'
    BY <1>9 DEF Recreate, TagsFit, Fits, TypeOK, Session, Sessions, Host
  <1>10. ASSUME NEW s \in Requests, CommitUpdate(s) PROVE TagsFit'
    <2>1. s \in Sessions /\ sess[s].copy \in Row /\ Close(s) /\ UNCHANGED <<img, host_type>>
      BY <1>10 DEF CommitUpdate, TypeOK, Sessions, Host
    <2>2. Fits(sess[s].copy)
      BY <1>10, <2>1 DEF CommitUpdate, TagsFit
    <2>3. PICK seen \in Row : row' = Flush(row, sess[s].copy, Applied(seen)) /\ Fits(seen)
      BY <1>0, <1>10, <2>1, <2>2, SyncedFits, SyncedType DEF CommitUpdate, TypeOK
    <2>4. Fits(Applied(seen))
      BY <2>3 DEF Fits, Applied, LatestTag, Row
    <2>5. Fits(row)'
      BY <2>1, <2>2, <2>3, <2>4, FlushFits DEF TagsFit, Fits
    <2>6. QED
      BY <1>4, <2>1, <2>5 DEF Host
  <1>11. CASE UNCHANGED vars
    BY <1>11 DEF vars, TagsFit, Fits
  <1>12. ASSUME NEW s \in Sessions, StartHostCheck(s) \/ StartContainerCheck(s)
                 \/ AgentReports(s) \/ StartReload(s) \/ StartUpdate(s)
         PROVE  TagsFit'
    BY <1>3, <1>12 DEF StartHostCheck, StartContainerCheck, AgentReports, StartReload, StartUpdate
  <1>13. ASSUME NEW s \in Sessions, SendAlert(s) \/ SessionFails(s) PROVE TagsFit'
    BY <1>4, <1>13 DEF SendAlert, SessionFails, TagsFit, Fits, Host
  <1>14. QED
    BY <1>1, <1>2, <1>5, <1>6, <1>7, <1>8, <1>9, <1>10, <1>11, <1>12, <1>13
    DEF Next, CheckStep, RequestStep, Sessions

(***************************************************************************)
(* Every variable keeps its type, however sessions interleave.             *)
(***************************************************************************)
THEOREM TypeCorrect == Spec => []TypeOK
  <1>1. Init => TypeOK /\ TagsFit
    BY InitType, InitFit
  <1>2. TypeOK /\ TagsFit /\ [Next]_vars => TypeOK' /\ TagsFit'
    BY NextType, NextFit
  <1>3. QED
    BY <1>1, <1>2, PTL DEF Spec

------------------------------------------------------------------------------
(***************************************************************************)
(* Alerts.  A session is about to alert either because it was already, with   *)
(* the same copy, or because it has just stored an answer.                  *)
(***************************************************************************)
LEMMA AlertingStep ==
    ASSUME TypeOK, [Next]_vars, NEW s \in Checks, sess'[s].pc = "alerting"
    PROVE  \/ sess'[s] = sess[s]
           \/ /\ sess[s].copy \in Row
              /\ sess'[s].copy = Checked(sess[s].copy, sess[s].answer)
              /\ UNCHANGED now
              /\ \E force : ShouldNotify(sess[s].copy, sess'[s].copy, force, now)
  <1> DEFINE Goal == \/ sess'[s] = sess[s]
                     \/ /\ sess[s].copy \in Row
                        /\ sess'[s].copy = Checked(sess[s].copy, sess[s].answer)
                        /\ UNCHANGED now
                        /\ \E force : ShouldNotify(sess[s].copy, sess'[s].copy, force, now)
  <1>1. CASE UNCHANGED sess
    BY <1>1
  <1>2. ASSUME NEW u \in Sessions, NEW pc, NEW report, pc # "alerting", Open(u, pc, report)
        PROVE  Goal
    BY <1>2 DEF Open, TypeOK, Sessions
  <1>3. ASSUME NEW u \in Sessions, Close(u) PROVE Goal
    BY <1>3 DEF Close, Idle, TypeOK, Sessions
  <1>4. ASSUME NEW u \in Checks, CheckSyncs(u) PROVE Goal
    <2>1. u \in Sessions
      BY DEF Sessions
    <2>2. CASE Close(u)
      BY <1>3, <2>1, <2>2
    <2>3. CASE sess' = [sess EXCEPT ![u].pc = "asking",
                                    ![u].copy = Synced(sess[u].copy, img, running)]
      BY <2>1, <2>3 DEF TypeOK, Session, Sessions
    <2>4. QED
      BY <1>4, <2>2, <2>3 DEF CheckSyncs
  <1>5. ASSUME NEW u \in Checks, RegistryAnswers(u) PROVE Goal
    BY <1>5 DEF RegistryAnswers, TypeOK, Session, Sessions
  <1>6. ASSUME NEW u \in Checks, StoreAnswer(u) PROVE Goal
    <2> DEFINE new == Checked(sess[u].copy, sess[u].answer)
    <2>1. u \in Sessions /\ sess[u].copy \in Row /\ UNCHANGED now
      BY <1>6 DEF StoreAnswer, TypeOK, Sessions, World
    <2>2. CASE Close(u)
      BY <1>3, <2>1, <2>2
    <2>3. CASE /\ sess' = [sess EXCEPT ![u] = [Idle EXCEPT !.pc = "alerting", !.copy = new]]
               /\ \E force : ShouldNotify(sess[u].copy, new, force, now)
      <3>1. CASE u = s
        <4>1. sess'[s].copy = new
          BY <2>1, <2>3, <3>1 DEF TypeOK, Idle
        <4>2. QED
          BY <2>1, <2>3, <3>1, <4>1
      <3>2. CASE u # s
        BY <2>1, <2>3, <3>2 DEF TypeOK, Sessions
      <3>3. QED
        BY <3>1, <3>2
    <2>4. QED
      BY <1>6, <2>2, <2>3 DEF StoreAnswer
  <1>7. ASSUME NEW u \in Requests, Recreate(u) PROVE Goal
    BY <1>7, SessionsAssumption DEF Recreate, TypeOK, Session, Sessions
  <1>8. ASSUME NEW u \in Sessions, StartHostCheck(u) \/ StartContainerCheck(u)
                 \/ AgentReports(u) \/ StartReload(u) \/ StartUpdate(u)
        PROVE  Goal
    BY <1>2, <1>8 DEF StartHostCheck, StartContainerCheck, AgentReports, StartReload, StartUpdate
  <1>9. ASSUME NEW u \in Sessions, SendAlert(u) \/ SessionFails(u) \/ CommitReport(u)
                 \/ CommitReload(u) \/ CommitUpdate(u)
        PROVE  Goal
    BY <1>3, <1>9 DEF SendAlert, SessionFails, CommitReport, CommitReload, CommitUpdate
  <1>10. CASE Publish \/ RuntimeChange \/ Tick \/ Acknowledge \/ UNCHANGED vars
    BY <1>1, <1>10 DEF Publish, RuntimeChange, Tick, Acknowledge, vars
  <1>11. QED
    BY <1>4, <1>5, <1>6, <1>7, <1>8, <1>9, <1>10 DEF Next, CheckStep, RequestStep, Sessions

LEMMA ClockRuns ==
    ASSUME TypeOK, [Next]_vars
    PROVE  now' \in Nat /\ now' >= now
  <1>1. now' = now \/ now' = now + 1
    BY DEF Next, vars, World, Publish, RuntimeChange, Tick, Acknowledge,
           StartHostCheck, StartContainerCheck, CheckStep, CheckSyncs, RegistryAnswers,
           StoreAnswer, SendAlert, AgentReports, StartReload, StartUpdate, RequestStep,
           CommitReport, CommitReload, Recreate, CommitUpdate, SessionFails, Open
  <1>2. QED
    BY <1>1, TimeAssumption DEF TypeOK, Time

(***************************************************************************)
(* Why an acknowledgement holds: no session about to alert has a copy that   *)
(* is snoozed.  Time only runs out snoozes, and a copy does not change once    *)
(* the alert is decided, so a snooze in force in the row is another one.     *)
(***************************************************************************)
AlertsAwake ==
    \A s \in Checks : sess[s].pc = "alerting" => ~Snoozed(sess[s].copy, now)

LEMMA AwakeStep == TypeOK /\ AlertsAwake /\ [Next]_vars => AlertsAwake'
  <1> SUFFICES ASSUME TypeOK, AlertsAwake, [Next]_vars,
                      NEW s \in Checks, sess'[s].pc = "alerting"
               PROVE  ~Snoozed(sess'[s].copy, now')
    BY DEF AlertsAwake
  <1>1. CASE sess'[s] = sess[s]
    <2>1. sess[s].copy \in Row /\ ~Snoozed(sess[s].copy, now)
      BY <1>1 DEF AlertsAwake, TypeOK, Sessions
    <2>2. QED
      BY <1>1, <2>1, ClockRuns, TimeAssumption DEF Snoozed, Row, TypeOK, Time
  <1>2. CASE UNCHANGED now /\ \E force : ShouldNotify(sess[s].copy, sess'[s].copy, force, now)
    BY <1>2 DEF ShouldNotify
  <1>3. QED
    BY <1>1, <1>2, AlertingStep

(***************************************************************************)
(* An acknowledgement holds against every check that loaded the container    *)
(* after it, for any number of checks and requests in any workers.          *)
(***************************************************************************)
THEOREM AcknowledgementHolds == Spec => []AckHolds
  <1>1. Init => AlertsAwake
    BY DEF Init, AlertsAwake, Idle, Sessions
  <1>2. TypeOK /\ AlertsAwake => AckHolds
    BY DEF AlertsAwake, AckHolds, Snoozed
  <1>3. QED
    BY <1>1, <1>2, AwakeStep, TypeCorrect, PTL DEF Spec

LEMMA ChangeStep == TypeOK /\ AlertNamesAChange /\ [Next]_vars => AlertNamesAChange'
  <1> SUFFICES ASSUME TypeOK, AlertNamesAChange, [Next]_vars,
                      NEW s \in Checks, sess'[s].pc = "alerting"
               PROVE  \/ sess'[s].copy.latest_tag # sess'[s].copy.tag
                      \/ /\ sess'[s].copy.latest_digest # Null
                         /\ sess'[s].copy.latest_digest # sess'[s].copy.digest
    BY DEF AlertNamesAChange
  <1>1. CASE sess'[s] = sess[s]
    BY <1>1 DEF AlertNamesAChange
  <1>2. CASE /\ sess[s].copy \in Row
             /\ sess'[s].copy = Checked(sess[s].copy, sess[s].answer)
             /\ \E force : ShouldNotify(sess[s].copy, sess'[s].copy, force, now)
    <2>1. DetectHasUpdate(sess[s].copy, sess[s].answer)
      BY <1>2 DEF ShouldNotify, Checked, Row
    <2>2. /\ sess'[s].copy.tag = sess[s].copy.tag
          /\ sess'[s].copy.digest = sess[s].copy.digest
          /\ sess'[s].copy.latest_tag = sess[s].answer.tag
          /\ sess'[s].copy.latest_digest = sess[s].answer.digest
      BY <1>2 DEF Checked, Row
    <2>3. QED
      BY <2>1, <2>2 DEF DetectHasUpdate, BaselineDigest
  <1>3. QED
    BY <1>1, <1>2, AlertingStep

(***************************************************************************)
(* Every alert names a tag or a digest that is not the one running.          *)
(***************************************************************************)
THEOREM AlertsNameAChange == Spec => []AlertNamesAChange
  <1>1. Init => AlertNamesAChange
    BY DEF Init, AlertNamesAChange, Idle, Sessions
  <1>2. QED
    BY <1>1, ChangeStep, TypeCorrect, PTL DEF Spec

------------------------------------------------------------------------------
(***************************************************************************)
(* The snooze.  No commit but the end of an update changes the snooze of a   *)
(* copy, and that only where the copy has one, so the flush of a stale copy   *)
(* leaves the snooze in the row alone.                                      *)
(***************************************************************************)
SnoozeStep ==
    row'.snoozed_until # row.snoozed_until
        => \/ Acknowledge
           \/ \E s \in Requests : CommitUpdate(s) /\ sess[s].copy.snoozed_until # Null

LEMMA FlushKeepsSnooze ==
    ASSUME NEW r, NEW a, NEW b, b.snoozed_until = a.snoozed_until
    PROVE  Flush(r, a, b).snoozed_until = r.snoozed_until
  BY DEF Flush, Net

LEMMA CopyKeepsSnooze ==
    ASSUME NEW c \in Row, NEW i, NEW v, NEW a
    PROVE  /\ Synced(c, i, v).snoozed_until = c.snoozed_until
           /\ Reloaded(c, i, v).snoozed_until = c.snoozed_until
           /\ Checked(c, a).snoozed_until = c.snoozed_until
  <1>1. Synced(c, i, v).snoozed_until = c.snoozed_until
    BY DEF Synced, Upsert, Row
  <1>2. Reloaded(c, i, v).snoozed_until = c.snoozed_until
    BY DEF Reloaded, Row
  <1>3. Checked(c, a).snoozed_until = c.snoozed_until
    BY DEF Checked, Row
  <1>4. QED
    BY <1>1, <1>2, <1>3

LEMMA SnoozeSurvives == TypeOK /\ [Next]_vars => SnoozeStep
  <1> SUFFICES ASSUME TypeOK, [Next]_vars,
                      ~Acknowledge,
                      ~\E s \in Requests : CommitUpdate(s) /\ sess[s].copy.snoozed_until # Null
               PROVE  row'.snoozed_until = row.snoozed_until
    BY DEF SnoozeStep
  <1>1. ASSUME NEW s \in Sessions,
               CheckSyncs(s) \/ StoreAnswer(s) \/ CommitReport(s) \/ CommitReload(s)
        PROVE  row'.snoozed_until = row.snoozed_until
    <2>1. sess[s].copy \in Row
      BY <1>1 DEF TypeOK, CheckSyncs, StoreAnswer, CommitReport, CommitReload
    <2>2. PICK copy : /\ row' = Flush(row, sess[s].copy, copy)
                      /\ copy.snoozed_until = sess[s].copy.snoozed_until
      BY <1>1, <2>1, CopyKeepsSnooze DEF CheckSyncs, StoreAnswer, CommitReport, CommitReload
    <2>3. QED
      BY <2>2, FlushKeepsSnooze
  <1>2. ASSUME NEW s \in Requests, CommitUpdate(s) PROVE row'.snoozed_until = row.snoozed_until
    <2>1. sess[s].copy \in Row /\ sess[s].copy.snoozed_until = Null /\ img \in Image
      BY <1>2, ImagesAssumption DEF TypeOK, CommitUpdate, Sessions
    <2>2. PICK seen : /\ row' = Flush(row, sess[s].copy, Applied(seen))
                      /\ seen \in {sess[s].copy, Reloaded(sess[s].copy, img, running)}
      BY <1>2 DEF CommitUpdate
    <2>3. seen \in Row /\ seen.snoozed_until = Null
      <3>1. seen \in Row
        BY <2>1, <2>2, SyncedType DEF TypeOK
      <3>2. Reloaded(sess[s].copy, img, running).snoozed_until = Null
        BY <2>1, CopyKeepsSnooze
      <3>3. QED
        BY <2>1, <2>2, <3>1, <3>2
    <2>4. Applied(seen).snoozed_until = sess[s].copy.snoozed_until
      BY <2>1, <2>3 DEF Applied, Row
    <2>5. QED
      BY <2>2, <2>4, FlushKeepsSnooze
  <1>3. CASE UNCHANGED row
    BY <1>3
  <1>4. QED
    BY <1>1, <1>2, <1>3
    DEF Next, vars, Publish, RuntimeChange, Tick, StartHostCheck,
        StartContainerCheck, CheckStep, RegistryAnswers, SendAlert, AgentReports, StartReload,
        StartUpdate, RequestStep, Recreate, SessionFails, Open, Sessions

(***************************************************************************)
(* An acknowledgement is never undone by the commit of a stale copy.        *)
(***************************************************************************)
THEOREM AcknowledgementNotLost == Spec => AckNotLost
  <1>1. TypeOK /\ [Next]_vars => [SnoozeStep]_vars
    BY SnoozeSurvives
  <1>2. QED
    BY <1>1, TypeCorrect, PTL DEF Spec, AckNotLost, SnoozeStep

------------------------------------------------------------------------------
(***************************************************************************)
(* The pair of latest tag and digest.  A check whose copy of the two columns  *)
(* is the row's replaces both; one that was overtaken may replace one, and    *)
(* says so.  No other commit touches them: an update writes latest_tag only    *)
(* where it is absent, and with the update flag up it never is, because no     *)
(* commit makes it absent again.                                           *)
(***************************************************************************)
Paired(tag, digest) == ~img.rolling /\ digest # Null => digest = tag

PairRow ==
    /\ ~overtaken => Paired(row.latest_tag, row.latest_digest)
    /\ row.has_update => row.latest_tag # Null

PairSession(s) ==
    /\ sess[s].pc # "idle" /\ sess[s].copy.latest_tag # Null => row.latest_tag # Null
    /\ sess[s].pc \in {"recreating", "relisting"} => sess[s].copy.latest_tag # Null
    /\ sess[s].pc = "answered" => Paired(sess[s].answer.tag, sess[s].answer.digest)

PairInv == PairRow /\ \A s \in Sessions : PairSession(s)

(***************************************************************************)
(* Steps that leave the row and only open or close sessions.                *)
(***************************************************************************)
LEMMA PairOpen ==
    ASSUME TypeOK, PairInv, NEW s \in Sessions, NEW pc, NEW report, pc # "answered",
           Open(s, pc, report), pc \in {"recreating", "relisting"} => row.has_update
    PROVE  PairInv'
  BY DEF PairInv, PairRow, PairSession, Paired, Open, TypeOK, Host

LEMMA PairClose ==
    ASSUME TypeOK, PairInv, NEW s \in Sessions, Close(s), UNCHANGED <<img, row, overtaken>>
    PROVE  PairInv'
  BY DEF PairInv, PairRow, PairSession, Paired, Close, Idle, TypeOK

(***************************************************************************)
(* A commit that leaves the latest tag and digest alone.                    *)
(***************************************************************************)
LatestKept(r, c) == c.latest_tag = r.latest_tag /\ c.latest_digest = r.latest_digest

LEMMA PairCommit ==
    ASSUME TypeOK, PairInv, NEW s \in Sessions, UNCHANGED <<img, overtaken>>,
           LatestKept(row, row'), row'.has_update => row.has_update,
           \/ Close(s)
           \/ /\ sess[s].pc # "idle"
              /\ \E copy : LatestKept(sess[s].copy, copy)
                     /\ sess' = [sess EXCEPT ![s].pc = "asking", ![s].copy = copy]
    PROVE  PairInv'
  <1>1. CASE Close(s)
    BY <1>1 DEF PairInv, PairRow, PairSession, Paired, Close, Idle, TypeOK, LatestKept
  <1>2. ASSUME NEW copy, LatestKept(sess[s].copy, copy), sess[s].pc # "idle",
               sess' = [sess EXCEPT ![s].pc = "asking", ![s].copy = copy]
        PROVE  PairInv'
    <2>1. /\ sess'[s].pc = "asking" /\ sess'[s].copy = copy
          /\ \A u \in Sessions \ {s} : sess'[u] = sess[u]
      <3>1. sess \in [Sessions -> Session] /\ sess[s] \in Session
        BY DEF TypeOK
      <3>2. sess'[s] = [sess[s] EXCEPT !.pc = "asking", !.copy = copy]
        BY <1>2, <3>1
      <3>3. \A u \in Sessions \ {s} : sess'[u] = sess[u]
        BY <1>2, <3>1
      <3>4. sess'[s].pc = "asking" /\ sess'[s].copy = copy
        BY <3>1, <3>2 DEF Session
      <3>5. QED
        BY <3>3, <3>4
    <2>2. /\ row'.latest_tag = row.latest_tag /\ row'.latest_digest = row.latest_digest
          /\ copy.latest_tag # Null => row.latest_tag # Null
      BY <1>2 DEF PairInv, PairSession, LatestKept
    <2>3. PairRow'
      BY <2>2 DEF PairInv, PairRow, Paired
    <2>4. ASSUME NEW u \in Sessions PROVE PairSession(u)'
      <3>1. CASE u = s
        BY <2>1, <2>2, <3>1 DEF PairSession
      <3>2. CASE u # s
        BY <2>1, <2>2, <3>2 DEF PairInv, PairSession, Paired
      <3>3. QED
        BY <3>1, <3>2
    <2>5. QED
      BY <2>3, <2>4 DEF PairInv, PairRow, PairSession
  <1>3. QED
    BY <1>1, <1>2

LEMMA FlushLatest ==
    ASSUME NEW r \in Row, NEW a \in Row, NEW b \in Row,
           LatestKept(a, b), b.has_update => a.has_update
    PROVE  LatestKept(r, Flush(r, a, b)) /\ (Flush(r, a, b).has_update => r.has_update)
  BY DEF LatestKept, Flush, Net, Row

LEMMA SyncedLatest ==
    ASSUME NEW c \in Row, NEW i, NEW v
    PROVE  /\ LatestKept(c, Synced(c, i, v)) /\ (Synced(c, i, v).has_update => c.has_update)
           /\ LatestKept(c, Reloaded(c, i, v)) /\ (Reloaded(c, i, v).has_update => c.has_update)
  <1>1. LatestKept(c, Synced(c, i, v)) /\ (Synced(c, i, v).has_update => c.has_update)
    BY DEF LatestKept, Synced, Upsert, Row
  <1>2. LatestKept(c, Reloaded(c, i, v)) /\ (Reloaded(c, i, v).has_update => c.has_update)
    BY DEF LatestKept, Reloaded, Row
  <1>3. QED
    BY <1>1, <1>2

LEMMA AppliedLatest ==
    ASSUME NEW c \in Row, c.latest_tag # Null
    PROVE  LatestKept(c, Applied(c)) /\ ~Applied(c).has_update
  BY DEF LatestKept, Applied, LatestTag, Row

LEMMA AnswerPaired ==
    ASSUME NEW v, NEW n
    PROVE  Paired(FindLatestVersion(img, v, n).tag, FindLatestVersion(img, v, n).digest)
  BY DEF Paired, FindLatestVersion

LEMMA PairStep ==
    ASSUME TypeOK, TypeOK', PairInv, [Next]_vars
    PROVE  PairInv'
  <1>0. img \in Image /\ row \in Row /\ row' \in Row
    BY ImagesAssumption DEF TypeOK
  <1>1. CASE Publish \/ RuntimeChange \/ Tick \/ UNCHANGED vars
    BY <1>1 DEF Publish, RuntimeChange, Tick, vars, Host, World, PairInv, PairRow, PairSession,
                Paired
  <1>2. CASE Acknowledge
    <2>1. /\ UNCHANGED <<img, sess, overtaken>> /\ row'.has_update = row.has_update
          /\ row'.latest_tag = row.latest_tag /\ row'.latest_digest = row.latest_digest
      BY <1>0, <1>2 DEF Acknowledge, Host, Row
    <2>2. QED
      BY <2>1 DEF PairInv, PairRow, PairSession, Paired
  <1>3. ASSUME NEW s \in Sessions, StartHostCheck(s) \/ StartContainerCheck(s)
                 \/ AgentReports(s) \/ StartReload(s) \/ StartUpdate(s)
        PROVE  PairInv'
    BY <1>3, PairOpen
    DEF StartHostCheck, StartContainerCheck, AgentReports, StartReload, StartUpdate
  <1>4. ASSUME NEW s \in Sessions, SendAlert(s) \/ SessionFails(s) PROVE PairInv'
    BY <1>4, PairClose DEF SendAlert, SessionFails, Host
  <1>5. ASSUME NEW s \in Checks, CheckSyncs(s) PROVE PairInv'
    <2> DEFINE copy == Synced(sess[s].copy, img, running)
    <2>1. /\ s \in Sessions /\ sess[s].pc = "listing" /\ sess[s].copy \in Row
          /\ UNCHANGED <<img, overtaken>>
      BY <1>5 DEF CheckSyncs, TypeOK, Sessions, Host
    <2>2. /\ copy \in Row /\ LatestKept(sess[s].copy, copy)
          /\ copy.has_update => sess[s].copy.has_update
      BY <1>0, <2>1, SyncedType, SyncedLatest DEF TypeOK
    <2>3. row' = Flush(row, sess[s].copy, copy)
      BY <1>5 DEF CheckSyncs
    <2>4. LatestKept(row, row') /\ (row'.has_update => row.has_update)
      BY <1>0, <2>1, <2>2, <2>3, FlushLatest
    <2>5. Close(s) \/ sess' = [sess EXCEPT ![s].pc = "asking", ![s].copy = copy]
      BY <1>5 DEF CheckSyncs
    <2> HIDE DEF copy
    <2>6. QED
      BY <2>1, <2>2, <2>4, <2>5, PairCommit
  <1>6. ASSUME NEW s \in Checks, RegistryAnswers(s) PROVE PairInv'
    <2> DEFINE answer == FindLatestVersion(img, sess[s].copy.tag, published)
    <2>1. /\ s \in Sessions /\ sess[s].pc = "asking" /\ UNCHANGED <<img, row, overtaken>>
          /\ sess' = [sess EXCEPT ![s].pc = "answered", ![s].answer = answer]
      BY <1>6 DEF RegistryAnswers, Sessions, Host
    <2>2. Paired(answer.tag, answer.digest)
      BY AnswerPaired
    <2> HIDE DEF answer
    <2>3. /\ sess'[s].pc = "answered" /\ sess'[s].copy = sess[s].copy /\ sess'[s].answer = answer
          /\ \A u \in Sessions \ {s} : sess'[u] = sess[u]
      BY <2>1 DEF TypeOK, Session
    <2>4. PairSession(s)'
      BY <2>1, <2>2, <2>3 DEF PairInv, PairSession, Paired
    <2>5. ASSUME NEW u \in Sessions \ {s} PROVE PairSession(u)'
      BY <2>1, <2>3, <2>5 DEF PairInv, PairSession, Paired
    <2>6. PairRow'
      BY <2>1 DEF PairInv, PairRow, Paired
    <2>7. QED
      BY <2>4, <2>5, <2>6 DEF PairInv
  <1>7. ASSUME NEW s \in Checks, StoreAnswer(s) PROVE PairInv'
    <2> DEFINE old == sess[s].copy
               new == Checked(old, sess[s].answer)
    <2>1. /\ s \in Sessions /\ sess[s].pc = "answered" /\ old \in Row
          /\ sess[s].answer \in Answer /\ UNCHANGED img
      BY <1>7 DEF StoreAnswer, TypeOK, Sessions, Host
    <2>2. /\ new.latest_tag = sess[s].answer.tag /\ new.latest_digest = sess[s].answer.digest
          /\ Paired(new.latest_tag, new.latest_digest) /\ new.latest_tag # Null
      BY <2>1, NullAssumption DEF Checked, Row, PairInv, PairSession, Answer, Tag, Release
    <2>3. row' = Flush(row, old, new) /\ overtaken' = (Latest(old) # Latest(row))
      BY <1>7 DEF StoreAnswer
    <2>4. old.latest_tag # Null => row.latest_tag # Null
      BY <2>1 DEF PairInv, PairSession
    <2>5. row'.latest_tag # Null
      BY <2>2, <2>3, <2>4 DEF Flush, Net
    <2>6. ~overtaken' => /\ row'.latest_tag = new.latest_tag
                         /\ row'.latest_digest = new.latest_digest
      BY <2>3 DEF Flush, Net, Latest
    <2>7. \/ Close(s)
          \/ sess' = [sess EXCEPT ![s] = [Idle EXCEPT !.pc = "alerting", !.copy = new]]
      BY <1>7 DEF StoreAnswer
    <2> HIDE DEF old, new
    <2>8. /\ sess'[s].pc \notin {"recreating", "relisting", "answered"}
          /\ \A u \in Sessions \ {s} : sess'[u] = sess[u]
      <3>1. sess \in [Sessions -> Session]
        BY DEF TypeOK
      <3>2. CASE Close(s)
        BY <2>1, <3>1, <3>2 DEF Close, Idle
      <3>3. CASE sess' = [sess EXCEPT ![s] = [Idle EXCEPT !.pc = "alerting", !.copy = new]]
        BY <2>1, <3>1, <3>3 DEF Idle
      <3>4. QED
        BY <2>7, <3>2, <3>3
    <2>9. PairRow'
      BY <2>1, <2>2, <2>5, <2>6 DEF PairRow, Paired
    <2>10. ASSUME NEW u \in Sessions PROVE PairSession(u)'
      BY <2>1, <2>5, <2>8 DEF PairInv, PairSession, Paired
    <2>11. QED
      BY <2>9, <2>10 DEF PairInv
  <1>8. ASSUME NEW s \in Requests, CommitReport(s) \/ CommitReload(s) PROVE PairInv'
    <2>1. /\ s \in Sessions /\ sess[s].copy \in Row /\ Close(s) /\ UNCHANGED <<img, overtaken>>
          /\ sess[s].report \in Release \cup {Null}
      BY <1>8 DEF CommitReport, CommitReload, TypeOK, Sessions, Host, Session, Digest
    <2>2. PICK copy \in Row : /\ row' = Flush(row, sess[s].copy, copy)
                              /\ LatestKept(sess[s].copy, copy)
                              /\ copy.has_update => sess[s].copy.has_update
      BY <1>0, <1>8, <2>1, SyncedType, SyncedLatest DEF CommitReport, CommitReload, TypeOK
    <2>3. LatestKept(row, row') /\ (row'.has_update => row.has_update)
      BY <1>0, <2>1, <2>2, FlushLatest
    <2>4. QED
      BY <2>1, <2>3, PairCommit
  <1>9. ASSUME NEW s \in Requests, Recreate(s) PROVE PairInv'
    <2>1. /\ s \in Sessions /\ sess[s].pc = "recreating" /\ UNCHANGED <<img, row, overtaken>>
          /\ sess' = [sess EXCEPT ![s].pc = "relisting"]
      BY <1>9 DEF Recreate, Sessions, Host
    <2>2. /\ sess'[s].pc = "relisting" /\ sess'[s].copy = sess[s].copy
          /\ \A u \in Sessions \ {s} : sess'[u] = sess[u]
      <3>1. sess \in [Sessions -> Session] /\ sess[s] \in Session
        BY <2>1 DEF TypeOK
      <3>2. sess'[s] = [sess[s] EXCEPT !.pc = "relisting"]
        BY <2>1, <3>1
      <3>3. \A u \in Sessions \ {s} : sess'[u] = sess[u]
        BY <2>1, <3>1
      <3>4. QED
        BY <3>1, <3>2, <3>3 DEF Session
    <2>3. QED
      BY <2>1, <2>2 DEF PairInv, PairRow, PairSession, Paired
  <1>10. ASSUME NEW s \in Requests, CommitUpdate(s) PROVE PairInv'
    <2>1. /\ s \in Sessions /\ sess[s].pc = "relisting" /\ sess[s].copy \in Row
          /\ Close(s) /\ UNCHANGED <<img, overtaken>> /\ sess[s].copy.latest_tag # Null
      BY <1>10 DEF CommitUpdate, TypeOK, Sessions, Host, PairInv, PairSession
    <2>2. PICK seen : /\ row' = Flush(row, sess[s].copy, Applied(seen))
                      /\ seen \in {sess[s].copy, Reloaded(sess[s].copy, img, running)}
      BY <1>10 DEF CommitUpdate
    <2> seen \in Row /\ LatestKept(sess[s].copy, seen)
      <3>1. Reloaded(sess[s].copy, img, running) \in Row
        BY <1>0, <2>1, SyncedType DEF TypeOK
      <3>2. LatestKept(sess[s].copy, Reloaded(sess[s].copy, img, running))
        BY <2>1, SyncedLatest
      <3>3. LatestKept(sess[s].copy, sess[s].copy)
        BY DEF LatestKept
      <3>4. QED
        BY <2>1, <2>2, <3>1, <3>2, <3>3
    <2>3. Applied(seen) \in Row /\ LatestKept(seen, Applied(seen)) /\ ~Applied(seen).has_update
      BY <2>1, <2>2, AppliedType, AppliedLatest DEF LatestKept
    <2>4. LatestKept(row, row') /\ (row'.has_update => row.has_update)
      BY <1>0, <2>1, <2>2, <2>3, FlushLatest DEF LatestKept
    <2>5. QED
      BY <2>1, <2>4, PairCommit
  <1>11. QED
    BY <1>1, <1>2, <1>3, <1>4, <1>5, <1>6, <1>7, <1>8, <1>9, <1>10
    DEF Next, CheckStep, RequestStep, Sessions

(***************************************************************************)
(* The pair a Kubernetes update pins is one the registry gave, for any number *)
(* of overlapping checks, syncs, reloads, updates and acknowledgements, unless *)
(* the check that stored last had itself been overtaken by another.          *)
(***************************************************************************)
THEOREM LatestPairHolds == Spec => []LatestPair
  <1>1. Init => PairInv
    BY DEF Init, Inserted, PairInv, PairRow, PairSession, Paired, Idle
  <1>2. TypeOK /\ TypeOK' /\ PairInv /\ [Next]_vars => PairInv'
    BY PairStep
  <1>3. PairInv => LatestPair
    BY DEF PairInv, PairRow, Paired, LatestPair
  <1>4. QED
    BY <1>1, <1>2, <1>3, TypeCorrect, PTL DEF Spec

==============================================================================
