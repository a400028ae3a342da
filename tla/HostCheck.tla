------------------------------ MODULE HostCheck ------------------------------
(***************************************************************************)
(* The checks of one host: CheckerService.check_host, called by the          *)
(* scheduler, by a user for the host and by a user for the whole space, any   *)
(* number of times at once and in any worker process.  Each worker keeps one  *)
(* progress entry per host, shared by all the checks it runs of that host.   *)
(*                                                                         *)
(* What a check finds out about one container is UpdateCheck's subject; here  *)
(* a container is `due` when its check would say that it must alert.          *)
(***************************************************************************)
EXTENDS Integers, FiniteSets

CONSTANTS
    Workers,      \* worker processes
    Checks,       \* calls of check_host, at most this many at a time
    Containers,   \* the host's container rows
    Channels,     \* active notification channels
    WorkerOf,     \* the worker each call runs in
    None          \* no progress entry

ASSUME WorkersAssumption == WorkerOf \in [Checks -> Workers]
ASSUME ContainersAssumption == IsFiniteSet(Containers)

VARIABLES
    present,      \* rows that are not removed and match no exclude pattern
    due,          \* rows whose check says to alert
    linked,       \* channels linked to the host's space
    progress,     \* _check_progress, per worker
    chk           \* each call

vars == <<present, due, linked, progress, chk>>

World == <<present, due, linked>>

(***************************************************************************)
(* A check asked for by the scheduler or for the host sends one alert per    *)
(* channel for all containers ("aggregate"); one asked for the whole space    *)
(* alerts in the loop, container by container ("single").                   *)
(***************************************************************************)
Modes == {"aggregate", "single"}

PCs == {"idle", "syncing", "checking", "loading", "sending", "stamping", "raised"}

Call == [pc: PCs, mode: Modes,
         total: Nat,                \* containers the check set out to look at
         todo: SUBSET Containers,   \* those whose turn has not come
         hits: SUBSET Containers,   \* those to alert about
         to: SUBSET Channels]       \* channels still to be sent to

Ended == [pc |-> "idle", mode |-> "aggregate", total |-> 0,
          todo |-> {}, hits |-> {}, to |-> {}]

Progress == [total: Nat, done: Nat]

ASSUME NoneAssumption == None \notin Progress

TypeOK ==
    /\ present \subseteq Containers
    /\ due \subseteq Containers
    /\ linked \subseteq Channels
    /\ progress \in [Workers -> Progress \cup {None}]
    /\ chk \in [Checks -> Call]

Init ==
    /\ present = Containers
    /\ due = {}
    /\ linked = Channels
    /\ progress = [w \in Workers |-> None]
    /\ chk = [k \in Checks |-> Ended]

------------------------------------------------------------------------------
(***************************************************************************)
(* A sync or a report changes which containers there are, the registries and *)
(* the users which of them are due, and users link and unlink channels.      *)
(***************************************************************************)
WorldChanges ==
    /\ \/ \E c \in Containers : \/ present' = present \cup {c} /\ UNCHANGED due
                                \/ present' = present \ {c} /\ UNCHANGED due
                                \/ due' = due \cup {c} /\ UNCHANGED present
                                \/ due' = due \ {c} /\ UNCHANGED present
          /\ UNCHANGED linked
       \/ \E h \in Channels : linked' \in {linked \cup {h}, linked \ {h}}
          /\ UNCHANGED <<present, due>>
    /\ UNCHANGED <<progress, chk>>

------------------------------------------------------------------------------
Entry(k) == progress[WorkerOf[k]]

SetEntry(k, entry) == progress' = [progress EXCEPT ![WorkerOf[k]] = entry]

Becomes(k, call) == chk' = [chk EXCEPT ![k] = call]

(***************************************************************************)
(* Is the call inside the try of _check_containers_for_host?                *)
(***************************************************************************)
InLoop(k) ==
    \/ chk[k].pc = "checking"
    \/ chk[k].mode = "single" /\ chk[k].pc \in {"loading", "sending"}

AfterLoop(call) ==
    IF call.hits # {} THEN [call EXCEPT !.pc = "loading"] ELSE [call EXCEPT !.pc = "stamping"]

(***************************************************************************)
(* Mistakes one could make in Advance, each the body of a mutant: the count   *)
(* goes down; the entry is left when the loop ends; the count is only raised  *)
(* by containers that are alerted about; the alerts in hand are dropped.     *)
(***************************************************************************)
AdvanceCountsDown(k, call) ==
    IF Entry(k) = None THEN Becomes(k, [call EXCEPT !.pc = "raised"]) /\ UNCHANGED progress
    ELSE IF call.todo # {}
         THEN /\ SetEntry(k, [Entry(k) EXCEPT !.done = @ - 1])
              /\ Becomes(k, [call EXCEPT !.pc = "checking"])
         ELSE SetEntry(k, None) /\ Becomes(k, AfterLoop(call))
AdvanceKeepsEntry(k, call) ==
    IF Entry(k) = None THEN Becomes(k, [call EXCEPT !.pc = "raised"]) /\ UNCHANGED progress
    ELSE /\ SetEntry(k, [Entry(k) EXCEPT !.done = @ + 1])
         /\ Becomes(k, IF call.todo # {} THEN [call EXCEPT !.pc = "checking"] ELSE AfterLoop(call))
AdvanceOnHit(k, call) ==
    IF Entry(k) = None THEN Becomes(k, [call EXCEPT !.pc = "raised"]) /\ UNCHANGED progress
    ELSE IF call.todo # {}
         THEN /\ SetEntry(k, [Entry(k) EXCEPT !.done = IF call.hits # {} THEN @ + 1 ELSE @])
              /\ Becomes(k, [call EXCEPT !.pc = "checking"])
         ELSE SetEntry(k, None) /\ Becomes(k, AfterLoop(call))
AdvanceForgets(k, call) ==
    IF Entry(k) = None THEN Becomes(k, [call EXCEPT !.pc = "raised"]) /\ UNCHANGED progress
    ELSE IF call.todo # {}
         THEN /\ SetEntry(k, [Entry(k) EXCEPT !.done = @ + 1])
              /\ Becomes(k, [call EXCEPT !.pc = "checking"])
         ELSE SetEntry(k, None) /\ Becomes(k, [call EXCEPT !.pc = "stamping"])

(***************************************************************************)
(* The end of a turn of the loop: the progress entry counts one more, and    *)
(* goes when the loop ends.  When another call of this worker has taken the   *)
(* entry away the count raises KeyError, which ends the loop and the check.   *)
(***************************************************************************)
Advance(k, call) ==
    IF Entry(k) = None
    THEN Becomes(k, [call EXCEPT !.pc = "raised"]) /\ UNCHANGED progress
    ELSE IF call.todo # {}
         THEN /\ SetEntry(k, [Entry(k) EXCEPT !.done = @ + 1])
              /\ Becomes(k, [call EXCEPT !.pc = "checking"])
         ELSE SetEntry(k, None) /\ Becomes(k, AfterLoop(call))

------------------------------------------------------------------------------
Start(k) ==
    /\ chk[k].pc = "idle"
    /\ \E mode \in Modes : Becomes(k, [Ended EXCEPT !.pc = "syncing", !.mode = mode])
    /\ UNCHANGED <<World, progress>>

(***************************************************************************)
(* After the sync the rows are selected and the progress entry is made,      *)
(* over any other there is.  With nothing to check the loop ends at once.    *)
(***************************************************************************)
Select(k) ==
    /\ chk[k].pc = "syncing"
    /\ LET call == [chk[k] EXCEPT !.todo = present, !.total = Cardinality(present)]
       IN IF present = {}
          THEN SetEntry(k, None) /\ Becomes(k, AfterLoop(call))
          ELSE /\ SetEntry(k, [total |-> call.total, done |-> 0])
               /\ Becomes(k, [call EXCEPT !.pc = "checking"])
    /\ UNCHANGED World

(***************************************************************************)
(* One container is checked; a registry that fails means no alert.          *)
(***************************************************************************)
CheckOne(k) ==
    /\ chk[k].pc = "checking"
    /\ \E c \in chk[k].todo, answered \in BOOLEAN :
         LET rest  == [chk[k] EXCEPT !.todo = @ \ {c}]
             alert == answered /\ c \in due
         IN \/ ~alert /\ Advance(k, rest)
            \/ /\ alert /\ rest.mode = "aggregate"
               /\ Advance(k, [rest EXCEPT !.hits = @ \cup {c}])
            \/ /\ alert /\ rest.mode = "single"
               /\ Becomes(k, [rest EXCEPT !.pc = "loading", !.hits = {c}])
               /\ UNCHANGED progress
    /\ UNCHANGED World

(***************************************************************************)
(* The active channels linked to the space are selected, then sent to one     *)
(* after another whatever is unlinked meanwhile; a channel that fails is      *)
(* logged as failed.  The logs are committed at the end.                    *)
(***************************************************************************)
LoadChannels(k) ==
    /\ chk[k].pc = "loading"
    /\ Becomes(k, [chk[k] EXCEPT !.pc = "sending", !.to = linked])
    /\ UNCHANGED <<World, progress>>

SendTo(k, h) ==
    /\ chk[k].pc = "sending" /\ h \in chk[k].to
    /\ Becomes(k, [chk[k] EXCEPT !.to = @ \ {h}])
    /\ UNCHANGED <<World, progress>>

CommitLogs(k) ==
    /\ chk[k].pc = "sending" /\ chk[k].to = {}
    /\ \/ /\ chk[k].mode = "single"
          /\ Advance(k, [chk[k] EXCEPT !.hits = {}])
       \/ /\ chk[k].mode = "aggregate"
          /\ Becomes(k, [chk[k] EXCEPT !.pc = "stamping"])
          /\ UNCHANGED progress
    /\ UNCHANGED World

(***************************************************************************)
(* last_update_check_at is set and committed; or the exception of a check     *)
(* that stopped in its loop reaches the caller, who logs it.                *)
(***************************************************************************)
Finish(k) ==
    /\ chk[k].pc \in {"stamping", "raised"}
    /\ Becomes(k, Ended)
    /\ UNCHANGED <<World, progress>>

(***************************************************************************)
(* A runtime that cannot be listed ends the check before its loop.  A        *)
(* statement the database refuses ends it anywhere: the objects of the        *)
(* session expire, reading one in the handler raises again, and the loop's    *)
(* finally takes away whatever entry the worker has for the host.            *)
(***************************************************************************)
Fail(k) ==
    /\ chk[k].pc # "idle"
    /\ IF InLoop(k) THEN SetEntry(k, None) ELSE UNCHANGED progress
    /\ Becomes(k, Ended)
    /\ UNCHANGED World

(***************************************************************************)
(* A worker process dies with its calls and its memory, and is restarted.    *)
(***************************************************************************)
Crash(w) ==
    /\ progress' = [progress EXCEPT ![w] = None]
    /\ chk' = [k \in Checks |-> IF WorkerOf[k] = w THEN Ended ELSE chk[k]]
    /\ UNCHANGED World

------------------------------------------------------------------------------
Step(k) ==
    \/ Select(k) \/ CheckOne(k) \/ LoadChannels(k) \/ CommitLogs(k) \/ Finish(k)
    \/ \E h \in Channels : SendTo(k, h)

Failure == (\E k \in Checks : Fail(k)) \/ (\E w \in Workers : Crash(w))

Next ==
    \/ WorldChanges
    \/ \E k \in Checks : Start(k) \/ Step(k)
    \/ Failure

Spec == Init /\ [][Next]_vars

(***************************************************************************)
(* The same with nothing failing.                                          *)
(***************************************************************************)
CalmSpec == Init /\ [][WorldChanges \/ \E k \in Checks : Start(k) \/ Step(k)]_vars

(***************************************************************************)
(* The scheduler starts a check for ever and the code between two awaits      *)
(* always gets to run.                                                     *)
(***************************************************************************)
FairSpec == Spec /\ \A k \in Checks : WF_vars(Start(k)) /\ WF_vars(Step(k))

------------------------------------------------------------------------------
(***************************************************************************)
(* No progress without a check: what check-progress reports as running is a  *)
(* loop that is running in that worker.                                     *)
(***************************************************************************)
ProgressOwned ==
    \A w \in Workers : progress[w] # None => \E k \in Checks : WorkerOf[k] = w /\ InLoop(k)

(***************************************************************************)
(* The progress is exact for a check that is alone: when one loop runs in a   *)
(* worker and there is an entry, the entry is that loop's own, whatever loops  *)
(* ran beside it before.                                                   *)
(***************************************************************************)
Remaining(k) == Cardinality(chk[k].todo) + (IF chk[k].pc = "checking" THEN 0 ELSE 1)

Alone(k) == \A j \in Checks : WorkerOf[j] = WorkerOf[k] /\ InLoop(j) => j = k

Exact(k) == Entry(k) = [total |-> chk[k].total, done |-> chk[k].total - Remaining(k)]

ProgressExact ==
    \A k \in Checks : InLoop(k) /\ Alone(k) /\ Entry(k) # None => Exact(k)

(***************************************************************************)
(* A call ends before its time, or a container that is due is checked in vain. *)
(***************************************************************************)
EndsEarly(k) ==
    chk[k].pc \notin {"idle", "stamping", "raised"} /\ chk'[k].pc = "idle"

Unanswered(k) ==
    /\ chk'[k].pc # "idle"
    /\ \E c \in chk[k].todo \cap due : c \notin chk'[k].todo \cup chk'[k].hits

Trouble == \E k \in Checks : EndsEarly(k) \/ Unanswered(k)

(***************************************************************************)
(* Whoever must be told is told: once there is no trouble any more, a          *)
(* container that stays due is alerted about for ever on every channel that    *)
(* stays linked, although checks of the same worker take the progress entry    *)
(* from each other and raise: the one that took it has reached its own end.   *)
(***************************************************************************)
Hears(c, h) == \E k \in Checks : c \in chk[k].hits /\ SendTo(k, h)

EachHears ==
    \A c \in Containers, h \in Channels :
        (<>[][~Trouble]_vars /\ <>[](c \in present \cap due /\ h \in linked))
            => []<><<Hears(c, h)>>_vars

(***************************************************************************)
(* A check that nothing fails checks each container, as check_host's own      *)
(* docstring says (checker_service.py:139).  Two checks of one worker break    *)
(* it: the first to finish pops the progress entry, and the other stops with  *)
(* KeyError at its next count, its other containers unchecked.              *)
(***************************************************************************)
EachIsChecked == \A k \in Checks : chk[k].pc = "raised" => chk[k].todo = {}

==============================================================================
