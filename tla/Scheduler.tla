------------------------------ MODULE Scheduler ------------------------------
(***************************************************************************)
(* The scheduled checks of one host: each worker process has a scheduler of    *)
(* its own with jobs of its own; the workers share the host's row and one      *)
(* PostgreSQL advisory lock per host.                                       *)
(*                                                                         *)
(* The lock belongs to a database connection.  A run takes it on one          *)
(* connection of its worker's pool, gives the connection back with its first   *)
(* commit, and unlocks on whichever connection it is given then; a lock that    *)
(* is not released stays with its connection.                               *)
(***************************************************************************)
EXTENDS Integers, FiniteSets

CONSTANTS
    Workers,      \* worker processes
    Conns,        \* connections of all the workers' pools
    Runs,         \* runs of the host's jobs, at most this many at a time
    Edits,        \* requests that add, change or remove the host
    Home,         \* the worker of each connection, run and request
    Schedules,    \* schedules a host can be checked by
    Off,          \* the row of a host that is inactive or not auto-checked
    New, Gone,    \* no row yet, no row any more
    Nobody,       \* no worker, no connection, no job
    MaxHeld       \* bound: how often one connection takes the lock

ASSUME WorkersAssumption == Workers # {} /\ IsFiniteSet(Runs)
ASSUME HomeAssumption == Home \in [Conns \cup Runs \cup Edits -> Workers]
ASSUME NobodyAssumption == Nobody \notin Workers \cup Conns \cup Schedules \cup {Off, New, Gone}
ASSUME RowsAssumption == Off \notin Schedules /\ New \notin Schedules /\ Gone \notin Schedules
ASSUME BoundAssumption == MaxHeld \in Nat

VARIABLES
    host,     \* the row: its schedule, Off, New or Gone
    jobs,     \* the schedule each worker's scheduler has for the host
    up,       \* is the worker running
    edit,     \* each request
    run,      \* each run: "first" while in its first transaction, "loose" after
    held,     \* how often each connection holds the host's advisory lock
    cut,      \* history: has a connection holding the lock been closed under a run
    late,     \* history: requests whose worker made another's job since they read or wrote the row
    lapse     \* history: a request failed, or came late, where the job of the row was at stake

vars == <<host, jobs, up, edit, run, held, cut, late, lapse>>

Rows == Schedules \cup {Off, New, Gone}

NoEdit == [pc |-> "idle", copy |-> Off]
NoRun == [pc |-> "idle", conn |-> Nobody]

TypeOK ==
    /\ host \in Rows
    /\ jobs \in [Workers -> Schedules \cup {Nobody}]
    /\ up \in [Workers -> BOOLEAN]
    /\ edit \in [Edits -> [pc: {"idle", "added", "loaded", "committed", "removing"},
                           copy: Schedules \cup {Off}]]
    /\ run \in [Runs -> [pc: {"idle", "first", "loose"}, conn: Conns \cup {Nobody}]]
    /\ held \in [Conns -> 0..MaxHeld]
    /\ cut \in BOOLEAN
    /\ late \subseteq Edits
    /\ lapse \in BOOLEAN

Job(row) == IF row \in Schedules THEN row ELSE Nobody

(***************************************************************************)
(* The host is not added yet, or every worker started after it was.         *)
(***************************************************************************)
Init ==
    /\ host \in Schedules \cup {Off, New}
    /\ jobs = [w \in Workers |-> Job(host)]
    /\ up = [w \in Workers |-> TRUE]
    /\ edit = [e \in Edits |-> NoEdit]
    /\ run = [r \in Runs |-> NoRun]
    /\ held = [q \in Conns |-> 0]
    /\ cut = FALSE
    /\ late = {}
    /\ lapse = FALSE

------------------------------------------------------------------------------
(***************************************************************************)
(* Requests.  Each works on the copy of the host its session loaded; the jobs *)
(* it makes are those of the copy, in the scheduler of its own worker, after   *)
(* the commit and the writing of the audit log (which never fails a request).  *)
(***************************************************************************)
EditBecomes(e, pc, copy) == edit' = [edit EXCEPT ![e] = [pc |-> pc, copy |-> copy]]

SetJob(e, job) == jobs' = [jobs EXCEPT ![Home[e]] = job]

AddHost(e) ==
    /\ up[Home[e]] /\ edit[e].pc = "idle"
    /\ host = New
    /\ host' \in Schedules \cup {Off}
    /\ EditBecomes(e, "added", Off)
    /\ UNCHANGED <<jobs, up, run, held, cut, late, lapse>>

(***************************************************************************)
(* The new row is read again after the commit; it may be edited by now.  When  *)
(* it cannot be read, or is gone, the request fails and makes no job.         *)
(***************************************************************************)
RefreshHost(e) ==
    /\ edit[e].pc = "added"
    /\ \/ /\ host \in Schedules \cup {Off}
          /\ EditBecomes(e, "committed", host)
          /\ UNCHANGED lapse
       \/ EditBecomes(e, "idle", Off) /\ lapse' = TRUE
    /\ late' = late \ {e}
    /\ UNCHANGED <<host, jobs, up, run, held, cut>>

LoadHost(e) ==
    /\ up[Home[e]] /\ edit[e].pc = "idle"
    /\ host \in Schedules \cup {Off}
    /\ EditBecomes(e, "loaded", host)
    /\ UNCHANGED <<host, jobs, up, run, held, cut, late, lapse>>

(***************************************************************************)
(* Only a schedule that differs from the copy's is written.  A row that is     *)
(* gone cannot be; then, and when the commit is refused, the request ends and   *)
(* nothing has changed.                                                    *)
(***************************************************************************)
UpdateHost(e) ==
    /\ edit[e].pc = "loaded"
    /\ \/ /\ EditBecomes(e, "committed", edit[e].copy)
          /\ UNCHANGED <<host, late>>
       \/ \E row \in (Schedules \cup {Off}) \ {edit[e].copy} :
            /\ host # Gone
            /\ host' = row
            /\ EditBecomes(e, "committed", row)
            /\ late' = late \ {e}
       \/ /\ EditBecomes(e, "idle", Off)
          /\ late' = late \ {e}
          /\ UNCHANGED host
    /\ UNCHANGED <<jobs, up, run, held, cut, lapse>>

(***************************************************************************)
(* The job is that of the copy.  It is the row's, or another request has        *)
(* written the row since and its worker has the job or will; unless that is     *)
(* this worker and the other was the faster: then the job is replaced.         *)
(***************************************************************************)
Colleagues(e) == {o \in Edits \ {e} : Home[o] = Home[e] /\ edit[o].pc # "idle"}

Registered(e) ==
    /\ EditBecomes(e, "idle", Off)
    /\ late' = (late \cup Colleagues(e)) \ {e}
    /\ lapse' = (edit[e].copy # host /\ (lapse \/ e \in late))
    /\ UNCHANGED <<host, up, run, held, cut>>

(***************************************************************************)
(* A mutant of RegisterHostJob: a job that exists is not replaced.           *)
(***************************************************************************)
RegisterKeepsJob(e) ==
    /\ edit[e].pc = "committed"
    /\ SetJob(e, IF jobs[Home[e]] # Nobody THEN jobs[Home[e]] ELSE Job(edit[e].copy))
    /\ Registered(e)

RegisterHostJob(e) ==
    /\ edit[e].pc = "committed"
    /\ SetJob(e, Job(edit[e].copy))
    /\ Registered(e)

UnregisterHostJob(e) ==
    /\ edit[e].pc = "loaded"
    /\ SetJob(e, Nobody)
    /\ EditBecomes(e, "removing", Off)
    /\ UNCHANGED <<host, up, run, held, cut, late, lapse>>

(***************************************************************************)
(* The job is gone already when the row is deleted.  A refused commit, or one   *)
(* that finds no row, leaves the row as it was, and without its job.          *)
(***************************************************************************)
RemoveHost(e) ==
    /\ edit[e].pc = "removing"
    /\ \/ host' = Gone /\ UNCHANGED lapse
       \/ UNCHANGED host /\ lapse' = TRUE
    /\ EditBecomes(e, "idle", Off)
    /\ late' = late \ {e}
    /\ UNCHANGED <<jobs, up, run, held, cut>>

------------------------------------------------------------------------------
(***************************************************************************)
(* A run of a job.                                                         *)
(***************************************************************************)
RunBecomes(r, pc, conn) == run' = [run EXCEPT ![r] = [pc |-> pc, conn |-> conn]]

(***************************************************************************)
(* A connection the pool may hand to the run: one of its worker's that no      *)
(* other run is using.                                                     *)
(***************************************************************************)
Free(r, q) == Home[q] = Home[r] /\ \A o \in Runs : run[o].conn # q

LockedBesides(q) == \E o \in Conns \ {q} : held[o] > 0

Wants(r) == up[Home[r]] /\ jobs[Home[r]] # Nobody /\ run[r].pc = "idle"

(***************************************************************************)
(* A mutant: the answer to pg_try_advisory_lock is not looked at.            *)
(***************************************************************************)
LockUnasked(r) ==
    /\ Wants(r)
    /\ \E q \in Conns :
         /\ Free(r, q) /\ held[q] < MaxHeld
         /\ held' = [held EXCEPT ![q] = @ + 1]
         /\ RunBecomes(r, "first", q)
    /\ UNCHANGED <<host, jobs, up, edit, cut, late, lapse>>

(***************************************************************************)
(* pg_try_advisory_lock succeeds unless another connection holds the lock,    *)
(* and also when this one holds it already.  A run that is refused ends, and   *)
(* nothing has changed.                                                    *)
(***************************************************************************)
Lock(r) ==
    /\ Wants(r)
    /\ \E q \in Conns :
         /\ Free(r, q) /\ ~LockedBesides(q) /\ held[q] < MaxHeld
         /\ held' = [held EXCEPT ![q] = @ + 1]
         /\ RunBecomes(r, "first", q)
    /\ UNCHANGED <<host, jobs, up, edit, cut, late, lapse>>

(***************************************************************************)
(* The check commits, and the connection goes back to the pool.             *)
(***************************************************************************)
FirstCommit(r) ==
    /\ run[r].pc = "first"
    /\ host \in Schedules
    /\ RunBecomes(r, "loose", Nobody)
    /\ UNCHANGED <<host, jobs, up, edit, held, cut, late, lapse>>

(***************************************************************************)
(* pg_advisory_unlock, on the connection of the first transaction when        *)
(* nothing was committed (the host is off or gone, or cannot be listed), else  *)
(* on any connection of the pool; one that does not hold the lock only warns.  *)
(* (UnlockUnheld is a mutant: it counts such an unlock too.)                  *)
(***************************************************************************)
UnlockConn(r, q) ==
    \/ run[r].pc = "first" /\ q = run[r].conn
    \/ run[r].pc = "loose" /\ Free(r, q)

UnlockUnheld(r) ==
    /\ \E q \in Conns :
         /\ UnlockConn(r, q)
         /\ held' = [held EXCEPT ![q] = @ - 1]
    /\ RunBecomes(r, "idle", Nobody)
    /\ UNCHANGED <<host, jobs, up, edit, cut, late, lapse>>

Unlock(r) ==
    /\ \E q \in Conns :
         /\ UnlockConn(r, q)
         /\ held' = [held EXCEPT ![q] = IF @ > 0 THEN @ - 1 ELSE 0]
    /\ RunBecomes(r, "idle", Nobody)
    /\ UNCHANGED <<host, jobs, up, edit, cut, late, lapse>>

(***************************************************************************)
(* After a refused commit the session runs no statement: the run ends          *)
(* without unlocking.                                                      *)
(***************************************************************************)
UnlockFails(r) ==
    /\ run[r].pc # "idle"
    /\ RunBecomes(r, "idle", Nobody)
    /\ UNCHANGED <<host, jobs, up, edit, held, cut, late, lapse>>

(***************************************************************************)
(* A pooled connection is closed, because the pool is over its size when it     *)
(* comes back or because the network cut it, and its lock is released.        *)
(***************************************************************************)
CloseConn(q) ==
    /\ \A r \in Runs : run[r].conn # q
    /\ held[q] > 0
    /\ held' = [held EXCEPT ![q] = 0]
    /\ cut' = (cut \/ \E r \in Runs : Home[r] = Home[q] /\ run[r].pc # "idle")
    /\ UNCHANGED <<host, jobs, up, edit, run, late, lapse>>

------------------------------------------------------------------------------
(***************************************************************************)
(* A worker dies with its jobs, runs, requests and connections; when it        *)
(* starts again it makes the job of the row it reads.                       *)
(***************************************************************************)
Crash(w) ==
    /\ up[w]
    /\ up' = [up EXCEPT ![w] = FALSE]
    /\ jobs' = [jobs EXCEPT ![w] = Nobody]
    /\ edit' = [e \in Edits |-> IF Home[e] = w THEN NoEdit ELSE edit[e]]
    /\ run' = [r \in Runs |-> IF Home[r] = w THEN NoRun ELSE run[r]]
    /\ held' = [q \in Conns |-> IF Home[q] = w THEN 0 ELSE held[q]]
    /\ late' = {e \in late : Home[e] # w}
    /\ UNCHANGED <<host, cut, lapse>>

Boot(w) ==
    /\ ~up[w]
    /\ up' = [up EXCEPT ![w] = TRUE]
    /\ jobs' = [jobs EXCEPT ![w] = Job(host)]
    /\ lapse' = FALSE
    /\ UNCHANGED <<host, edit, run, held, cut, late>>

------------------------------------------------------------------------------
EditStep(e) ==
    \/ AddHost(e) \/ RefreshHost(e) \/ LoadHost(e) \/ UpdateHost(e) \/ RegisterHostJob(e)
    \/ UnregisterHostJob(e) \/ RemoveHost(e)

RunStep(r) == Lock(r) \/ FirstCommit(r) \/ Unlock(r) \/ UnlockFails(r)

Next ==
    \/ \E e \in Edits : EditStep(e)
    \/ \E r \in Runs : RunStep(r)
    \/ \E q \in Conns : CloseConn(q)
    \/ \E w \in Workers : Crash(w) \/ Boot(w)

Spec == Init /\ [][Next]_vars

(***************************************************************************)
(* The same when no worker, connection or commit fails.                     *)
(***************************************************************************)
CalmNext ==
    \/ \E e \in Edits : EditStep(e)
    \/ \E r \in Runs : Lock(r) \/ FirstCommit(r) \/ Unlock(r)

CalmSpec == Init /\ [][CalmNext]_vars

------------------------------------------------------------------------------
Running(r) == run[r].pc # "idle"

(***************************************************************************)
(* One worker at a time: as long as no connection that holds the lock is       *)
(* closed under a run, the scheduled checks of the host run in one worker, even *)
(* though a run may leave its lock behind or unlock one that is not its own.   *)
(***************************************************************************)
OneWorker ==
    ~cut => \A r, o \in Runs : Running(r) /\ Running(o) => Home[r] = Home[o]

(***************************************************************************)
(* The last edit is scheduled: when requests are over and all workers up, the   *)
(* schedule in the row is the job of some worker, whatever edits overlapped and *)
(* whichever workers died.  It lapses where a new host cannot be read again     *)
(* and where a removal unregisters the job and is then refused, and where an     *)
(* older edit of the same worker makes its job after a newer one; it is made    *)
(* good by the next edit or start of a worker.                              *)
(***************************************************************************)
Settled == (\A e \in Edits : edit[e].pc = "idle") /\ \A w \in Workers : up[w]

LastEditScheduled ==
    Settled /\ host \in Schedules /\ ~lapse => \E w \in Workers : jobs[w] = host

(***************************************************************************)
(* The detailed scheduler implements HostTurn: the turn is with the worker of   *)
(* the running checks, and is given up for good when a lock is cut.          *)
(***************************************************************************)
Turn ==
    IF cut \/ \A r \in Runs : ~Running(r)
    THEN Nobody
    ELSE CHOOSE w \in Workers : \E r \in Runs : Running(r) /\ Home[r] = w

HT == INSTANCE HostTurn WITH turn <- Turn

ImplementsHostTurn == HT!Spec

(***************************************************************************)
(* A run that is refused the lock says that another worker is checking the     *)
(* host (scheduler.py:42).  It may be nobody: an unlock on the wrong           *)
(* connection leaves the lock held until that connection is closed.          *)
(***************************************************************************)
Refused(r) == Wants(r) /\ \E q \in Conns : Free(r, q) /\ LockedBesides(q)

SkipMeansBusy ==
    \A r \in Runs : Refused(r) => \E o \in Runs : Running(o) /\ Home[o] # Home[r]

==============================================================================
