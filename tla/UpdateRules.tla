----------------------------- MODULE UpdateRules -----------------------------
(***************************************************************************)
(* The pure decisions of the update checker: when a tracked container is   *)
(* out of date, when a check must alert, what a sync report changes in a    *)
(* container's row, and which columns of a session's copy of the row reach  *)
(* the database when the session commits.                                   *)
(*                                                                         *)
(* A release of an image is a number: larger is newer.  A container follows *)
(* either a rolling tag (`latest`, `stable`, `main`...), whose tag never    *)
(* changes and whose digest tells releases apart, or a version tag, which   *)
(* is the release itself.  A digest is the release it identifies.           *)
(***************************************************************************)
EXTENDS Integers

CONSTANTS
    MaxRelease,   \* the newest release that will ever be published
    MaxTime,      \* the last instant of the clock snoozes are measured with
    RollingTag,   \* stands for every tag of the rolling set
    Null          \* an absent column value (SQL NULL, Python None)

ASSUME ReleaseAssumption == MaxRelease \in Nat
ASSUME TimeAssumption == MaxTime \in Nat
ASSUME NullAssumption == RollingTag \notin Int /\ Null \notin Int /\ Null # RollingTag

Release == 0..MaxRelease
Time == 0..MaxTime
Tag == Release \cup {RollingTag}
Digest == Release \cup {Null}

(***************************************************************************)
(* The columns of a tracked container that these rules read or write.      *)
(***************************************************************************)
Row == [tag: Tag, digest: Digest,
        latest_tag: Tag \cup {Null}, latest_digest: Digest,
        has_update: BOOLEAN, snoozed_until: Time \cup {Null},
        status: {"running", "removed"}]

(***************************************************************************)
(* What find_latest_version returns when it returns something.             *)
(***************************************************************************)
Answer == [tag: Tag, digest: Digest]

(***************************************************************************)
(* An image, as seen through its registry and its runtime: does the tag    *)
(* roll, does the registry's tag list carry digests, does the runtime       *)
(* report the digest of the running image.                                 *)
(***************************************************************************)
Image == [rolling: BOOLEAN, tagDigests: BOOLEAN, reportsDigest: BOOLEAN]

TagOf(img, release) == IF img.rolling THEN RollingTag ELSE release

ReportedDigest(img, release) == IF img.reportsDigest THEN release ELSE Null

------------------------------------------------------------------------------
(***************************************************************************)
(* The registry's answer for a container whose copy says `tag`, when        *)
(* `newest` is the newest published release.  A rolling tag is answered     *)
(* with its present digest; a version tag with the best newer tag and the   *)
(* digest of the tag list, if that list has one, or with the current tag    *)
(* and no digest when nothing newer exists.                                 *)
(***************************************************************************)
FindLatestVersion(img, tag, newest) ==
    IF img.rolling
    THEN [tag |-> tag, digest |-> newest]
    ELSE IF newest > tag
         THEN [tag |-> newest, digest |-> IF img.tagDigests THEN newest ELSE Null]
         ELSE [tag |-> tag, digest |-> Null]

(***************************************************************************)
(* Mistakes one could make below, each the body of a mutant: the previous   *)
(* check's digest preferred to the running one, or used alone.              *)
(***************************************************************************)
BaselineLatestFirst(c) == IF c.latest_digest # Null THEN c.latest_digest ELSE c.digest
BaselineLatestOnly(c) == c.latest_digest

(***************************************************************************)
(* The digest a same-tag answer is compared with: the running one when the *)
(* runtime reports it, else the one the previous check saw.                *)
(***************************************************************************)
BaselineDigest(c) == IF c.digest # Null THEN c.digest ELSE c.latest_digest

DetectHasUpdate(c, ans) ==
    IF c.tag = RollingTag \/ ans.tag = c.tag
    THEN /\ ans.digest # Null
         /\ BaselineDigest(c) # Null
         /\ ans.digest # BaselineDigest(c)
    ELSE ans.tag # c.tag

Snoozed(c, now) == c.snoozed_until # Null /\ c.snoozed_until > now

(***************************************************************************)
(* Mutants of Checked: the answer's fields swapped; a known digest kept.    *)
(***************************************************************************)
CheckedSwapped(c, ans) ==
    [c EXCEPT !.latest_tag = ans.digest, !.latest_digest = ans.tag,
              !.has_update = DetectHasUpdate(c, ans)]
CheckedKeepsDigest(c, ans) ==
    [c EXCEPT !.latest_tag = ans.tag,
              !.latest_digest = IF @ # Null THEN @ ELSE ans.digest,
              !.has_update = DetectHasUpdate(c, ans)]

(***************************************************************************)
(* The copy of the row after the checker has stored an answer in it.       *)
(***************************************************************************)
Checked(c, ans) ==
    [c EXCEPT !.latest_tag = ans.tag,
              !.latest_digest = ans.digest,
              !.has_update = DetectHasUpdate(c, ans)]

(***************************************************************************)
(* Mutants of ShouldNotify: the snooze is ignored; an alert is only given    *)
(* when the flag rises or the release changes.                              *)
(***************************************************************************)
ShouldNotifyDespiteSnooze(old, new, force, now) == new.has_update
ShouldNotifyOnChange(old, new, force, now) ==
    /\ new.has_update
    /\ \/ ~old.has_update
       \/ new.latest_tag # old.latest_tag
       \/ new.latest_digest # Null /\ new.latest_digest # old.latest_digest
    /\ ~Snoozed(new, now)

(***************************************************************************)
(* Must the check alert?  `old` is the copy before the answer was stored,   *)
(* `new` the copy after.                                                    *)
(***************************************************************************)
ShouldNotify(old, new, force, now) ==
    LET tag_changed    == new.latest_tag # old.latest_tag
        digest_changed == /\ new.latest_digest # Null
                          /\ new.latest_digest # old.latest_digest
        snooze_expired == /\ old.has_update
                          /\ old.snoozed_until # Null
                          /\ ~Snoozed(new, now)
        not_acked      == old.has_update /\ old.snoozed_until = Null
    IN /\ new.has_update
       /\ \/ ~old.has_update
          \/ tag_changed
          \/ digest_changed
          \/ snooze_expired
          \/ force
          \/ not_acked
       /\ ~Snoozed(new, now)

------------------------------------------------------------------------------
(***************************************************************************)
(* What the runtime says of the container is copied into the row; the       *)
(* update flag falls when the reported digest is the latest one known.      *)
(***************************************************************************)
Upsert(c, img, release) ==
    LET d == ReportedDigest(img, release)
    IN [c EXCEPT !.tag = TagOf(img, release),
                 !.digest = d,
                 !.status = "running",
                 !.has_update = @ /\ ~(d # Null /\ d = c.latest_digest)]

(***************************************************************************)
(* A sync with the runtime: the container is upserted when the runtime     *)
(* lists it and marked removed when it does not (`release` is then Null).   *)
(***************************************************************************)
Synced(c, img, release) ==
    IF release = Null THEN [c EXCEPT !.status = "removed"]
                      ELSE Upsert(c, img, release)

(***************************************************************************)
(* A reload takes the reported columns and leaves the update flag alone.   *)
(***************************************************************************)
Reloaded(c, img, release) ==
    IF release = Null
    THEN [c EXCEPT !.status = "removed"]
    ELSE [c EXCEPT !.tag = TagOf(img, release),
                   !.digest = ReportedDigest(img, release),
                   !.status = "running"]

(***************************************************************************)
(* What a commit stores: a session writes the columns whose value it        *)
(* changed since it loaded or last committed its copy, and no other, so a   *)
(* column that another session committed meanwhile survives unless this     *)
(* session changed it too.                                                  *)
(***************************************************************************)
Net(stored, loaded, current) == IF current # loaded THEN current ELSE stored

(***************************************************************************)
(* Mutant of Flush: every column of the copy is written.                    *)
(***************************************************************************)
FlushWholeRow(row, loaded, copy) == copy

Flush(row, loaded, copy) ==
    [tag           |-> Net(row.tag, loaded.tag, copy.tag),
     digest        |-> Net(row.digest, loaded.digest, copy.digest),
     latest_tag    |-> Net(row.latest_tag, loaded.latest_tag, copy.latest_tag),
     latest_digest |-> Net(row.latest_digest, loaded.latest_digest, copy.latest_digest),
     has_update    |-> Net(row.has_update, loaded.has_update, copy.has_update),
     snoozed_until |-> Net(row.snoozed_until, loaded.snoozed_until, copy.snoozed_until),
     status        |-> Net(row.status, loaded.status, copy.status)]

==============================================================================
