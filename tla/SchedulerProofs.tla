--------------------------- MODULE SchedulerProofs ---------------------------
(***************************************************************************)
(* Theorems about the scheduled checks of one host, for any number of worker   *)
(* processes, pooled connections, runs, requests and schedules.             *)
(***************************************************************************)
EXTENDS Scheduler, FiniteSetTheorems, TLAPS

LEMMA HomeIsWorker ==
    /\ \A q \in Conns : Home[q] \in Workers
    /\ \A r \in Runs : Home[r] \in Workers
    /\ \A e \in Edits : Home[e] \in Workers
  BY HomeAssumption

LEMMA JobType == host \in Rows => Job(host) \in Schedules \cup {Nobody}
  BY DEF Job

LEMMA EditType ==
    ASSUME TypeOK, NEW e \in Edits, NEW pc \in {"idle", "added", "loaded", "committed", "removing"},
           NEW copy \in Schedules \cup {Off}, EditBecomes(e, pc, copy)
    PROVE  /\ edit' \in [Edits -> [pc: {"idle", "added", "loaded", "committed", "removing"},
                                   copy: Schedules \cup {Off}]]
           /\ edit'[e] = [pc |-> pc, copy |-> copy]
           /\ \A f \in Edits \ {e} : edit'[f] = edit[f]
  BY DEF TypeOK, EditBecomes

LEMMA JobsType ==
    ASSUME TypeOK, NEW e \in Edits, NEW job \in Schedules \cup {Nobody}, SetJob(e, job)
    PROVE  /\ jobs' \in [Workers -> Schedules \cup {Nobody}]
           /\ jobs'[Home[e]] = job
           /\ \A w \in Workers \ {Home[e]} : jobs'[w] = jobs[w]
  BY HomeIsWorker DEF TypeOK, SetJob

LEMMA RunType ==
    ASSUME TypeOK, NEW r \in Runs, NEW pc \in {"idle", "first", "loose"},
           NEW conn \in Conns \cup {Nobody}, RunBecomes(r, pc, conn)
    PROVE  /\ run' \in [Runs -> [pc: {"idle", "first", "loose"}, conn: Conns \cup {Nobody}]]
           /\ run'[r] = [pc |-> pc, conn |-> conn]
           /\ \A o \in Runs \ {r} : run'[o] = run[o]
  BY DEF TypeOK, RunBecomes

(***************************************************************************)
(* Type correctness: the variables of Scheduler keep their types.           *)
(***************************************************************************)
LEMMA TypeStep == TypeOK /\ [Next]_vars => TypeOK'
  <1> SUFFICES ASSUME TypeOK, [Next]_vars PROVE TypeOK'
    OBVIOUS
  <1>1. ASSUME NEW e \in Edits, AddHost(e) PROVE TypeOK'
    BY <1>1, EditType DEF AddHost, TypeOK, Rows
  <1>2. ASSUME NEW e \in Edits, LoadHost(e) PROVE TypeOK'
    BY <1>2, EditType DEF LoadHost, TypeOK
  <1>3. ASSUME NEW e \in Edits, UpdateHost(e) PROVE TypeOK'
    <2>1. edit[e].copy \in Schedules \cup {Off}
      BY DEF TypeOK
    <2>2. host' \in Rows /\ late' \subseteq Edits
      BY <1>3 DEF UpdateHost, TypeOK, Rows
    <2>3. EditBecomes(e, "idle", Off)
          \/ \E row \in Schedules \cup {Off} : EditBecomes(e, "committed", row)
      BY <1>3, <2>1 DEF UpdateHost
    <2>4. QED
      BY <1>3, <2>2, <2>3, EditType DEF UpdateHost, TypeOK
  <1>4. ASSUME NEW e \in Edits, RegisterHostJob(e) PROVE TypeOK'
    <2>1. Job(edit[e].copy) \in Schedules \cup {Nobody}
      BY DEF Job
    <2>2. late' \subseteq Edits /\ lapse' \in BOOLEAN
      BY <1>4 DEF RegisterHostJob, Registered, Colleagues, TypeOK
    <2>3. QED
      BY <1>4, <2>1, <2>2, EditType, JobsType DEF RegisterHostJob, Registered, TypeOK
  <1>5. ASSUME NEW e \in Edits, UnregisterHostJob(e) PROVE TypeOK'
    BY <1>5, EditType, JobsType DEF UnregisterHostJob, TypeOK
  <1>6. ASSUME NEW e \in Edits, RemoveHost(e) PROVE TypeOK'
    BY <1>6, EditType DEF RemoveHost, TypeOK, Rows
  <1>7. ASSUME NEW r \in Runs, Lock(r) PROVE TypeOK'
    <2>1. PICK q \in Conns : /\ held[q] < MaxHeld
                             /\ held' = [held EXCEPT ![q] = @ + 1]
                             /\ RunBecomes(r, "first", q)
      BY <1>7 DEF Lock
    <2>2. held' \in [Conns -> 0..MaxHeld]
      BY <2>1, BoundAssumption DEF TypeOK
    <2>3. QED
      BY <1>7, <2>1, <2>2, RunType DEF Lock, TypeOK
  <1>8. ASSUME NEW r \in Runs, FirstCommit(r) PROVE TypeOK'
    BY <1>8, RunType DEF FirstCommit, TypeOK
  <1>9. ASSUME NEW r \in Runs, Unlock(r) PROVE TypeOK'
    <2>1. PICK q \in Conns : held' = [held EXCEPT ![q] = IF @ > 0 THEN @ - 1 ELSE 0]
      BY <1>9 DEF Unlock
    <2>2. held' \in [Conns -> 0..MaxHeld]
      BY <2>1, BoundAssumption DEF TypeOK
    <2>3. QED
      BY <1>9, <2>2, RunType DEF Unlock, TypeOK
  <1>10. ASSUME NEW r \in Runs, UnlockFails(r) PROVE TypeOK'
    BY <1>10, RunType DEF UnlockFails, TypeOK
  <1>11. ASSUME NEW q \in Conns, CloseConn(q) PROVE TypeOK'
    BY <1>11, BoundAssumption DEF CloseConn, TypeOK
  <1>12. ASSUME NEW w \in Workers, Crash(w) PROVE TypeOK'
    BY <1>12, BoundAssumption DEF Crash, TypeOK, NoEdit, NoRun
  <1>13. ASSUME NEW w \in Workers, Boot(w) PROVE TypeOK'
    BY <1>13, JobType DEF Boot, TypeOK
  <1>14. CASE UNCHANGED vars
    BY <1>14 DEF vars, TypeOK
  <1>15. ASSUME NEW e \in Edits, RefreshHost(e) PROVE TypeOK'
    <2>1. /\ EditBecomes(e, "idle", Off) \/ host \in Schedules \cup {Off}
          /\ late' \subseteq Edits /\ lapse' \in BOOLEAN
      BY <1>15 DEF RefreshHost, TypeOK
    <2>2. QED
      BY <1>15, <2>1, EditType DEF RefreshHost, TypeOK
  <1>16. QED
    BY <1>1, <1>2, <1>3, <1>4, <1>5, <1>6, <1>7, <1>8, <1>9, <1>10, <1>11, <1>12, <1>13, <1>14,
       <1>15 DEF Next, EditStep, RunStep

LEMMA TypeInit == Init => TypeOK
  <1> SUFFICES ASSUME Init PROVE TypeOK
    OBVIOUS
  <1>1. host \in Rows
    BY DEF Init, Rows
  <1>2. jobs \in [Workers -> Schedules \cup {Nobody}]
    BY <1>1, JobType DEF Init
  <1>3. NoEdit \in [pc: {"idle", "added", "loaded", "committed", "removing"}, copy: Schedules \cup {Off}]
    BY DEF NoEdit
  <1>4. NoRun \in [pc: {"idle", "first", "loose"}, conn: Conns \cup {Nobody}]
    BY DEF NoRun
  <1>5. 0 \in 0..MaxHeld
    BY BoundAssumption
  <1>6. QED
    BY <1>1, <1>2, <1>3, <1>4, <1>5 DEF Init, TypeOK

THEOREM TypeCorrect == Spec => []TypeOK
  BY TypeInit, TypeStep, PTL DEF Spec

------------------------------------------------------------------------------
(***************************************************************************)
(* One worker at a time.  A lock outlives its run and may be released by       *)
(* another, so no run owns its lock; what is true is that the worker with      *)
(* running checks has a connection that holds the lock at least once for each   *)
(* of them, because only runs of that worker unlock its connections and each   *)
(* does so once, when it ends.                                             *)
(***************************************************************************)
Active(w) == {r \in Runs : Running(r) /\ Home[r] = w}

Excl == \A q, o \in Conns : held[q] > 0 /\ held[o] > 0 => q = o

ConnHome ==
    \A r \in Runs : run[r].pc = "first" => run[r].conn \in Conns /\ Home[run[r].conn] = Home[r]

Covers(w, q) == Home[q] = w /\ held[q] >= Cardinality(Active(w))

Cover == ~cut => \A w \in Workers : Active(w) # {} => \E q \in Conns : Covers(w, q)

Inv == TypeOK /\ Excl /\ ConnHome /\ Cover

LEMMA ActiveFinite ==
    ASSUME NEW w \in Workers
    PROVE  /\ IsFiniteSet(Active(w))
           /\ Cardinality(Active(w)) \in Nat
           /\ Active(w) # {} => Cardinality(Active(w)) > 0
  <1>1. IsFiniteSet(Active(w))
    BY WorkersAssumption, FS_Subset DEF Active
  <1>2. QED
    BY <1>1, FS_CardinalityType, FS_EmptySet

LEMMA ActiveFinitePrime ==
    ASSUME NEW w \in Workers
    PROVE  IsFiniteSet(Active(w)')
  BY WorkersAssumption, FS_Subset DEF Active

LEMMA InvImpliesOneWorker == Inv => OneWorker
  <1> SUFFICES ASSUME Inv, ~cut, NEW r \in Runs, NEW o \in Runs, Running(r), Running(o)
               PROVE  Home[r] = Home[o]
    BY DEF OneWorker
  <1>1. ASSUME NEW x \in Runs, Running(x)
        PROVE  \E q \in Conns : Home[q] = Home[x] /\ held[q] > 0
    <2>1. Home[x] \in Workers /\ x \in Active(Home[x])
      BY <1>1, HomeIsWorker DEF Active
    <2>2. PICK q \in Conns : Covers(Home[x], q)
      BY <2>1 DEF Inv, Cover
    <2>3. Cardinality(Active(Home[x])) \in Nat /\ Cardinality(Active(Home[x])) > 0
      BY <2>1, ActiveFinite
    <2>4. held[q] \in Int
      BY BoundAssumption DEF Inv, TypeOK
    <2>5. QED
      BY <2>2, <2>3, <2>4 DEF Covers
  <1>2. QED
    BY <1>1 DEF Inv, Excl

(***************************************************************************)
(* A step that leaves runs and locks alone keeps the invariant.             *)
(***************************************************************************)
LEMMA CoverIdle ==
    ASSUME Inv, UNCHANGED <<run, held, cut>>
    PROVE  (Excl /\ ConnHome /\ Cover)'
  BY DEF Inv, Excl, ConnHome, Cover, Covers, Active, Running

LEMMA CoverLock ==
    ASSUME Inv, NEW r \in Runs, Lock(r)
    PROVE  (Excl /\ ConnHome /\ Cover)'
  <1>1. PICK q \in Conns : /\ Home[q] = Home[r] /\ ~LockedBesides(q)
                           /\ held' = [held EXCEPT ![q] = @ + 1]
                           /\ RunBecomes(r, "first", q)
    BY DEF Lock, Free
  <1>2. \A o \in Conns : held[o] \in Nat
    BY BoundAssumption DEF Inv, TypeOK
  <1>3. /\ held'[q] = held[q] + 1
        /\ \A o \in Conns \ {q} : held'[o] = held[o] /\ ~(held[o] > 0)
    BY <1>1 DEF Inv, TypeOK, LockedBesides
  <1>4. /\ run'[r] = [pc |-> "first", conn |-> q]
        /\ \A o \in Runs \ {r} : run'[o] = run[o]
    BY <1>1, RunType DEF Inv
  <1>5. ~Running(r)
    BY DEF Lock, Wants, Running
  <1>6. Excl'
    BY <1>3 DEF Excl
  <1>7. ConnHome'
    BY <1>1, <1>4 DEF Inv, ConnHome
  <1>8. ASSUME ~cut, NEW w \in Workers, Active(w)' # {}
        PROVE  \E o \in Conns : Covers(w, o)'
    <2>1. CASE w = Home[r]
      <3>1. Active(w)' = Active(w) \cup {r} /\ r \notin Active(w)
        BY <1>4, <1>5, <2>1 DEF Active, Running
      <3>2. Cardinality(Active(w)') = Cardinality(Active(w)) + 1
        BY <3>1, ActiveFinite, FS_AddElement
      <3>3. held[q] >= Cardinality(Active(w))
        <4>1. CASE Active(w) = {}
          BY <1>2, <4>1, FS_EmptySet
        <4>2. CASE Active(w) # {}
          <5>1. PICK o \in Conns : Covers(w, o)
            BY <1>8, <4>2 DEF Inv, Cover
          <5>2. held[o] > 0
            BY <1>2, <4>2, <5>1, ActiveFinite DEF Covers
          <5>3. QED
            BY <1>3, <5>1, <5>2 DEF Covers
        <4>3. QED
          BY <4>1, <4>2
      <3>4. held'[q] >= Cardinality(Active(w)')
        BY <1>2, <1>3, <3>2, <3>3, ActiveFinite
      <3>5. QED
        BY <1>1, <2>1, <3>4 DEF Covers
    <2>2. CASE w # Home[r]
      <3>1. Active(w)' = Active(w)
        BY <1>4, <2>2 DEF Active, Running
      <3>2. PICK o \in Conns : Covers(w, o)
        BY <1>8, <3>1 DEF Inv, Cover
      <3>3. held[o] > 0
        BY <1>2, <1>8, <3>1, <3>2, ActiveFinite DEF Covers
      <3>4. QED
        BY <1>1, <1>3, <2>2, <3>2, <3>3 DEF Covers
    <2>3. QED
      BY <2>1, <2>2
  <1>9. Cover'
    BY <1>8 DEF Cover, Lock
  <1>10. QED
    BY <1>6, <1>7, <1>9

(***************************************************************************)
(* When a run ends, the locks of its worker fall by one at most.            *)
(***************************************************************************)
LEMMA CoverEnds ==
    ASSUME Inv, NEW r \in Runs, Running(r), RunBecomes(r, "idle", Nobody), UNCHANGED cut,
           held' \in [Conns -> 0..MaxHeld],
           \A q \in Conns : /\ held'[q] <= held[q]
                            /\ held'[q] + 1 >= held[q]
                            /\ Home[q] # Home[r] => held'[q] = held[q]
    PROVE  (Excl /\ ConnHome /\ Cover)'
  <1>1. \A q \in Conns : held[q] \in Nat /\ held'[q] \in Nat
    BY BoundAssumption DEF Inv, TypeOK
  <1>2. /\ run'[r] = [pc |-> "idle", conn |-> Nobody]
        /\ \A o \in Runs \ {r} : run'[o] = run[o]
    BY RunType DEF Inv
  <1>3. Excl'
    BY <1>1 DEF Inv, Excl
  <1>4. ConnHome'
    BY <1>2 DEF Inv, ConnHome
  <1>5. ASSUME ~cut, NEW w \in Workers, Active(w)' # {}
        PROVE  \E o \in Conns : Covers(w, o)'
    <2>1. Active(w)' = Active(w) \ {r}
      BY <1>2 DEF Active, Running
    <2>2. PICK o \in Conns : Covers(w, o)
      BY <1>5, <2>1 DEF Inv, Cover
    <2>3. CASE w = Home[r]
      <3>1. r \in Active(w)
        BY <2>3 DEF Active
      <3>2. Cardinality(Active(w)') = Cardinality(Active(w)) - 1
        BY <2>1, <3>1, ActiveFinite, FS_RemoveElement
      <3>3. held'[o] >= Cardinality(Active(w)')
        BY <1>1, <2>2, <3>2, ActiveFinite DEF Covers
      <3>4. QED
        BY <2>2, <3>3 DEF Covers
    <2>4. CASE w # Home[r]
      <3>1. Active(w)' = Active(w)
        BY <2>1, <2>4 DEF Active
      <3>2. QED
        BY <2>2, <2>4, <3>1 DEF Covers
    <2>5. QED
      BY <2>3, <2>4
  <1>6. Cover'
    BY <1>5 DEF Cover
  <1>7. QED
    BY <1>3, <1>4, <1>6

LEMMA CoverUnlock ==
    ASSUME Inv, NEW r \in Runs, Unlock(r)
    PROVE  (Excl /\ ConnHome /\ Cover)'
  <1>1. PICK q \in Conns : /\ UnlockConn(r, q)
                           /\ held' = [held EXCEPT ![q] = IF @ > 0 THEN @ - 1 ELSE 0]
    BY DEF Unlock
  <1>2. Home[q] = Home[r] /\ Running(r)
    BY <1>1 DEF Inv, ConnHome, UnlockConn, Free, Running
  <1>3. \A o \in Conns : held[o] \in 0..MaxHeld
    BY DEF Inv, TypeOK
  <1>4. held' \in [Conns -> 0..MaxHeld]
    BY <1>1, <1>3, BoundAssumption DEF Inv, TypeOK
  <1>5. \A o \in Conns : /\ held'[o] <= held[o]
                         /\ held'[o] + 1 >= held[o]
                         /\ Home[o] # Home[r] => held'[o] = held[o]
    BY <1>1, <1>2, <1>3, BoundAssumption DEF Inv, TypeOK
  <1>6. RunBecomes(r, "idle", Nobody) /\ UNCHANGED cut
    BY DEF Unlock
  <1>7. QED
    BY <1>2, <1>4, <1>5, <1>6, CoverEnds

LEMMA CoverUnlockFails ==
    ASSUME Inv, NEW r \in Runs, UnlockFails(r)
    PROVE  (Excl /\ ConnHome /\ Cover)'
  <1>1. /\ Running(r) /\ RunBecomes(r, "idle", Nobody) /\ UNCHANGED <<held, cut>>
    BY DEF UnlockFails, Running
  <1>2. /\ held' \in [Conns -> 0..MaxHeld]
        /\ \A o \in Conns : /\ held'[o] <= held[o]
                             /\ held'[o] + 1 >= held[o]
                             /\ held'[o] = held[o]
    BY <1>1, BoundAssumption DEF Inv, TypeOK
  <1>3. QED
    BY <1>1, <1>2, CoverEnds

LEMMA CoverFirstCommit ==
    ASSUME Inv, NEW r \in Runs, FirstCommit(r)
    PROVE  (Excl /\ ConnHome /\ Cover)'
  <1>1. /\ run[r].pc = "first" /\ UNCHANGED <<held, cut>>
        /\ run'[r] = [pc |-> "loose", conn |-> Nobody]
        /\ \A o \in Runs \ {r} : run'[o] = run[o]
    BY RunType DEF FirstCommit, Inv
  <1>2. \A w \in Workers : Active(w)' = Active(w)
    BY <1>1 DEF Active, Running
  <1>3. ConnHome'
    BY <1>1 DEF Inv, ConnHome
  <1>4. QED
    BY <1>1, <1>2, <1>3 DEF Inv, Excl, Cover, Covers

(***************************************************************************)
(* A lock cut under a run is noted in `cut`; one that is cut otherwise was      *)
(* covering nobody.                                                        *)
(***************************************************************************)
LEMMA CoverCloseConn ==
    ASSUME Inv, NEW q \in Conns, CloseConn(q)
    PROVE  (Excl /\ ConnHome /\ Cover)'
  <1>1. /\ held'[q] = 0 /\ \A o \in Conns \ {q} : held'[o] = held[o]
        /\ UNCHANGED run
    BY DEF CloseConn, Inv, TypeOK
  <1>2. Excl' /\ ConnHome'
    BY <1>1 DEF Inv, Excl, ConnHome
  <1>3. ASSUME ~cut', NEW w \in Workers, Active(w)' # {}
        PROVE  \E o \in Conns : Covers(w, o)'
    <2>1. Active(w)' = Active(w)
      BY <1>1 DEF Active, Running
    <2>2. ~cut /\ \A r \in Runs : Running(r) => Home[r] # Home[q]
      BY <1>3 DEF CloseConn, Running, Inv, TypeOK
    <2>3. w # Home[q]
      BY <1>3, <2>1, <2>2 DEF Active
    <2>4. PICK o \in Conns : Covers(w, o)
      BY <1>3, <2>1, <2>2 DEF Inv, Cover
    <2>5. QED
      BY <1>1, <2>1, <2>3, <2>4 DEF Covers
  <1>4. QED
    BY <1>2, <1>3 DEF Cover

LEMMA CoverCrash ==
    ASSUME Inv, NEW v \in Workers, Crash(v)
    PROVE  (Excl /\ ConnHome /\ Cover)'
  <1>1. /\ \A r \in Runs : run'[r] = IF Home[r] = v THEN NoRun ELSE run[r]
        /\ \A q \in Conns : held'[q] = IF Home[q] = v THEN 0 ELSE held[q]
        /\ UNCHANGED cut
    BY DEF Crash
  <1>2. Excl' /\ ConnHome'
    BY <1>1 DEF Inv, Excl, ConnHome, NoRun
  <1>3. ASSUME ~cut, NEW w \in Workers, Active(w)' # {}
        PROVE  \E o \in Conns : Covers(w, o)'
    <2>1. w # v
      BY <1>1, <1>3 DEF Active, Running, NoRun
    <2>2. Active(w)' = Active(w)
      BY <1>1, <2>1 DEF Active, Running
    <2>3. PICK o \in Conns : Covers(w, o)
      BY <1>3, <2>2 DEF Inv, Cover
    <2>4. QED
      BY <1>1, <2>1, <2>2, <2>3 DEF Covers
  <1>4. QED
    BY <1>1, <1>2, <1>3 DEF Cover

LEMMA InvStep == Inv /\ [Next]_vars => Inv'
  <1> SUFFICES ASSUME Inv, [Next]_vars PROVE Inv'
    OBVIOUS
  <1>1. TypeOK'
    BY TypeStep DEF Inv
  <1>2. ASSUME NEW e \in Edits, EditStep(e) PROVE (Excl /\ ConnHome /\ Cover)'
    BY <1>2, CoverIdle
    DEF EditStep, AddHost, RefreshHost, LoadHost, UpdateHost, RegisterHostJob, Registered,
        UnregisterHostJob, RemoveHost
  <1>3. ASSUME NEW r \in Runs, RunStep(r) PROVE (Excl /\ ConnHome /\ Cover)'
    BY <1>3, CoverLock, CoverFirstCommit, CoverUnlock, CoverUnlockFails DEF RunStep
  <1>4. ASSUME NEW q \in Conns, CloseConn(q) PROVE (Excl /\ ConnHome /\ Cover)'
    BY <1>4, CoverCloseConn
  <1>5. ASSUME NEW w \in Workers, Crash(w) PROVE (Excl /\ ConnHome /\ Cover)'
    BY <1>5, CoverCrash
  <1>6. ASSUME NEW w \in Workers, Boot(w) PROVE (Excl /\ ConnHome /\ Cover)'
    BY <1>6, CoverIdle DEF Boot
  <1>7. ASSUME UNCHANGED vars PROVE (Excl /\ ConnHome /\ Cover)'
    BY <1>7, CoverIdle DEF vars
  <1>8. (Excl /\ ConnHome /\ Cover)'
    BY <1>2, <1>3, <1>4, <1>5, <1>6, <1>7 DEF Next
  <1>9. QED
    BY <1>1, <1>8 DEF Inv

LEMMA InvInit == Init => Inv
  <1> SUFFICES ASSUME Init PROVE Inv
    OBVIOUS
  <1>1. \A r \in Runs : run[r].pc = "idle"
    BY DEF Init, NoRun
  <1>2. \A q \in Conns : ~(held[q] > 0)
    BY DEF Init
  <1>3. QED
    BY <1>1, <1>2, TypeInit DEF Inv, Excl, ConnHome, Cover, Active, Running

(***************************************************************************)
(* _run_check_host keeps the promise of its docstring for every number of       *)
(* workers, pool size and schedule, short of a lock that is cut under a run.   *)
(***************************************************************************)
THEOREM OneWorkerAtATime == Spec => []OneWorker
  <1>1. Spec => []Inv
    BY InvInit, InvStep, PTL DEF Spec
  <1>2. QED
    BY <1>1, InvImpliesOneWorker, PTL

------------------------------------------------------------------------------
(***************************************************************************)
(* The refinement of HostTurn.                                             *)
(***************************************************************************)
LEMMA TurnIs ==
    ASSUME OneWorker, ~cut, NEW r \in Runs, Running(r)
    PROVE  Turn = Home[r]
  <1> DEFINE P(w) == \E o \in Runs : Running(o) /\ Home[o] = w
  <1>1. Home[r] \in Workers /\ P(Home[r])
    BY HomeIsWorker
  <1>2. \A w \in Workers : P(w) => w = Home[r]
    BY DEF OneWorker
  <1>3. (CHOOSE w \in Workers : P(w)) = Home[r]
    BY <1>1, <1>2
  <1>4. QED
    BY <1>3 DEF Turn

LEMMA TurnIsPrime ==
    ASSUME OneWorker', ~cut', NEW r \in Runs, Running(r)'
    PROVE  Turn' = Home[r]
  <1> DEFINE P(w) == \E o \in Runs : Running(o)' /\ Home[o] = w
  <1>1. Home[r] \in Workers /\ P(Home[r])
    BY HomeIsWorker
  <1>2. \A w \in Workers : P(w) => w = Home[r]
    BY DEF OneWorker
  <1>3. (CHOOSE w \in Workers : P(w)) = Home[r]
    BY <1>1, <1>2
  <1>4. QED
    BY <1>3 DEF Turn

LEMMA TurnType == OneWorker => Turn \in Workers \cup {Nobody}
  <1> SUFFICES ASSUME OneWorker, Turn # Nobody PROVE Turn \in Workers
    OBVIOUS
  <1>1. PICK r \in Runs : Running(r)
    BY DEF Turn
  <1>2. ~cut
    BY DEF Turn
  <1>3. QED
    BY <1>1, <1>2, TurnIs, HomeIsWorker

(***************************************************************************)
(* A run that starts is the only one to change.                            *)
(***************************************************************************)
LEMMA StepStarts ==
    ASSUME TypeOK, [Next]_vars
    PROVE  /\ cut => cut'
           /\ \A x \in Runs : Running(x)' => \/ Running(x)
                                             \/ \A o \in Runs \ {x} : run'[o] = run[o]
  <1>1. ASSUME NEW e \in Edits, EditStep(e) PROVE UNCHANGED <<run, cut>>
    BY <1>1
    DEF EditStep, AddHost, RefreshHost, LoadHost, UpdateHost, RegisterHostJob, Registered,
        UnregisterHostJob, RemoveHost
  <1>2. ASSUME NEW r \in Runs, RunStep(r)
        PROVE  /\ UNCHANGED cut
               /\ \A o \in Runs \ {r} : run'[o] = run[o]
    BY <1>2, RunType DEF RunStep, Lock, FirstCommit, Unlock, UnlockFails, RunBecomes, TypeOK
  <1>3. ASSUME NEW r \in Runs, RunStep(r), NEW x \in Runs, Running(x)'
        PROVE  Running(x) \/ \A o \in Runs \ {x} : run'[o] = run[o]
    BY <1>2, <1>3 DEF Running
  <1>4. ASSUME NEW q \in Conns, CloseConn(q) PROVE UNCHANGED run /\ (cut => cut')
    BY <1>4 DEF CloseConn
  <1>5. ASSUME NEW w \in Workers, Crash(w)
        PROVE  UNCHANGED cut /\ \A x \in Runs : Running(x)' => Running(x)
    BY <1>5 DEF Crash, Running, NoRun
  <1>6. ASSUME NEW w \in Workers, Boot(w) PROVE UNCHANGED <<run, cut>>
    BY <1>6 DEF Boot
  <1>7. CASE UNCHANGED vars
    BY <1>7 DEF vars, Running
  <1>8. QED
    BY <1>1, <1>2, <1>3, <1>4, <1>5, <1>6, <1>7 DEF Next, Running

LEMMA TurnStep ==
    ASSUME TypeOK, OneWorker, OneWorker', [Next]_vars
    PROVE  [HT!Next]_Turn
  <1>1. CASE Turn' = Nobody
    <2>1. CASE Turn = Nobody
      BY <1>1, <2>1
    <2>2. CASE Turn # Nobody
      <3>1. Turn \in Workers
        BY <2>2, TurnType
      <3>2. HT!GiveUp(Turn)
        BY <1>1 DEF HT!GiveUp
      <3>3. QED
        BY <3>1, <3>2 DEF HT!Next
    <2>3. QED
      BY <2>1, <2>2
  <1>2. CASE Turn' # Nobody
    <2>1. PICK x \in Runs : Running(x)'
      BY <1>2 DEF Turn
    <2>2. ~cut' /\ ~cut
      BY <1>2, StepStarts DEF Turn
    <2>3. Turn' = Home[x]
      BY <2>1, <2>2, TurnIsPrime
    <2>4. CASE \E o \in Runs : Running(o) /\ Running(o)'
      <3>1. PICK o \in Runs : Running(o) /\ Running(o)'
        BY <2>4
      <3>2. Turn = Home[o]
        BY <2>2, <3>1, TurnIs
      <3>3. Home[o] = Home[x]
        BY <2>1, <2>2, <3>1 DEF OneWorker, Running
      <3>4. QED
        BY <2>3, <3>2, <3>3
    <2>5. CASE ~\E o \in Runs : Running(o) /\ Running(o)'
      <3>1. ~Running(x) /\ \A o \in Runs \ {x} : run'[o] = run[o]
        BY <2>1, <2>5, StepStarts
      <3>2. \A o \in Runs : ~Running(o)
        BY <2>5, <3>1 DEF Running
      <3>3. Turn = Nobody
        BY <3>2 DEF Turn
      <3>4. HT!Take(Home[x])
        BY <2>3, <3>3 DEF HT!Take
      <3>5. QED
        BY <3>4, HomeIsWorker DEF HT!Next
    <2>6. QED
      BY <2>4, <2>5
  <1>3. QED
    BY <1>1, <1>2

(***************************************************************************)
(* The scheduler implements HostTurn: the turn of a host passes from worker to  *)
(* worker only through Nobody.                                             *)
(***************************************************************************)
THEOREM TurnsAreTaken == Spec => ImplementsHostTurn
  <1>1. Spec => []Inv
    BY InvInit, InvStep, PTL DEF Spec
  <1>2. Init => HT!Init
    BY DEF Init, HT!Init, Turn, Running, NoRun
  <1>3. TypeOK /\ OneWorker /\ OneWorker' /\ [Next]_vars => [HT!Next]_Turn
    BY TurnStep
  <1>4. Inv => TypeOK
    BY DEF Inv
  <1>5. QED
    BY <1>1, <1>2, <1>3, <1>4, InvImpliesOneWorker, PTL DEF Spec, ImplementsHostTurn, HT!Spec

------------------------------------------------------------------------------
(***************************************************************************)
(* The last edit is scheduled.  At any time some worker is good: it has the     *)
(* row's job and no request under way there can replace it unnoticed, or a      *)
(* request there is about to make it; unless a worker is down, a removal is      *)
(* under way, or the schedule has lapsed.                                    *)
(***************************************************************************)
EditsUp == \A e \in Edits : edit[e].pc # "idle" => up[Home[e]]

Holds(w) ==
    /\ jobs[w] = host
    /\ \A e \in Edits : Home[e] = w /\ edit[e].pc \in {"loaded", "committed"}
                            => edit[e].copy = host \/ e \in late

Willing(e) ==
    \/ edit[e].pc = "added"
    \/ edit[e].pc = "committed" /\ edit[e].copy = host

Excused == (\E w \in Workers : ~up[w]) \/ (\E e \in Edits : edit[e].pc = "removing")

Kept ==
    host \in Schedules =>
        \/ lapse
        \/ Excused
        \/ \E w \in Workers : Holds(w)
        \/ \E e \in Edits : Willing(e)

KInv == TypeOK /\ EditsUp /\ Kept

LEMMA KeptIdle ==
    ASSUME KInv, UNCHANGED <<host, jobs, up, edit, late, lapse>>
    PROVE  (EditsUp /\ Kept)'
  BY DEF KInv, EditsUp, Kept, Excused, Holds, Willing

LEMMA KeptAddHost ==
    ASSUME KInv, NEW e \in Edits, AddHost(e)
    PROVE  (EditsUp /\ Kept)'
  <1>1. /\ edit'[e] = [pc |-> "added", copy |-> Off]
        /\ \A f \in Edits \ {e} : edit'[f] = edit[f]
    BY EditType DEF KInv, AddHost
  <1>2. EditsUp'
    BY <1>1 DEF KInv, EditsUp, AddHost
  <1>3. Willing(e)'
    BY <1>1 DEF Willing
  <1>4. QED
    BY <1>2, <1>3 DEF Kept

(***************************************************************************)
(* A new host that is read again has the schedule the request will make a job   *)
(* of; one that is not has lapsed.                                          *)
(***************************************************************************)
LEMMA KeptRefreshHost ==
    ASSUME KInv, NEW e \in Edits, RefreshHost(e)
    PROVE  (EditsUp /\ Kept)'
  <1>1. edit[e].pc = "added" /\ UNCHANGED <<host, jobs, up>>
    BY DEF RefreshHost
  <1>2. CASE host \in Schedules /\ EditBecomes(e, "committed", host)
    <2>1. /\ edit'[e] = [pc |-> "committed", copy |-> host]
          /\ \A f \in Edits \ {e} : edit'[f] = edit[f]
      BY <1>2, EditType DEF KInv
    <2>2. Willing(e)'
      BY <1>1, <2>1 DEF Willing
    <2>3. EditsUp'
      BY <1>1, <2>1 DEF KInv, EditsUp
    <2>4. QED
      BY <2>2, <2>3 DEF Kept
  <1>3. CASE host \notin Schedules \/ lapse'
    <2>1. EditsUp'
      BY <1>1 DEF KInv, EditsUp, TypeOK, RefreshHost, EditBecomes
    <2>2. QED
      BY <1>1, <1>3, <2>1 DEF Kept
  <1>4. QED
    BY <1>2, <1>3 DEF RefreshHost

LEMMA KeptLoadHost ==
    ASSUME KInv, NEW e \in Edits, LoadHost(e)
    PROVE  (EditsUp /\ Kept)'
  <1>1. /\ edit'[e] = [pc |-> "loaded", copy |-> host]
        /\ \A f \in Edits \ {e} : edit'[f] = edit[f]
    BY EditType DEF KInv, LoadHost
  <1>2. /\ edit[e].pc = "idle" /\ up[Home[e]]
        /\ UNCHANGED <<host, jobs, up, late, lapse>>
    BY DEF LoadHost
  <1>3. EditsUp'
    BY <1>1, <1>2 DEF KInv, EditsUp
  <1>4. \A w \in Workers : Holds(w) => Holds(w)'
    BY <1>1, <1>2 DEF Holds
  <1>5. \A f \in Edits : Willing(f) => Willing(f)'
    BY <1>1, <1>2 DEF Willing
  <1>6. Excused => Excused'
    BY <1>1, <1>2 DEF Excused
  <1>7. QED
    BY <1>2, <1>3, <1>4, <1>5, <1>6 DEF KInv, Kept

(***************************************************************************)
(* A request that writes the row is the one to make its job.  One that does    *)
(* not write, or fails, leaves who is good as it was.                       *)
(***************************************************************************)
LEMMA KeptUpdateHost ==
    ASSUME KInv, NEW e \in Edits, UpdateHost(e)
    PROVE  (EditsUp /\ Kept)'
  <1>1. edit[e].pc = "loaded" /\ UNCHANGED <<jobs, up, lapse>>
    BY DEF UpdateHost
  <1>2. ASSUME NEW pc, NEW copy, EditBecomes(e, pc, copy)
        PROVE  /\ edit'[e] = [pc |-> pc, copy |-> copy]
               /\ \A f \in Edits \ {e} : edit'[f] = edit[f]
               /\ EditsUp'
               /\ Excused => Excused'
    <2>1. /\ edit'[e] = [pc |-> pc, copy |-> copy]
          /\ \A f \in Edits \ {e} : edit'[f] = edit[f]
      BY <1>2 DEF EditBecomes, KInv, TypeOK
    <2>2. QED
      BY <1>1, <2>1 DEF KInv, EditsUp, Excused
  <1>3. CASE EditBecomes(e, "committed", edit[e].copy) /\ UNCHANGED <<host, late>>
    <2>1. /\ edit'[e] = [pc |-> "committed", copy |-> edit[e].copy]
          /\ \A f \in Edits \ {e} : edit'[f] = edit[f]
          /\ EditsUp' /\ (Excused => Excused')
      BY <1>2, <1>3
    <2>2. \A w \in Workers : Holds(w) => Holds(w)'
      BY <1>1, <1>3, <2>1 DEF Holds
    <2>3. \A f \in Edits : Willing(f) => Willing(f)'
      BY <1>1, <1>3, <2>1 DEF Willing
    <2>4. QED
      BY <1>1, <1>3, <2>1, <2>2, <2>3 DEF KInv, Kept
  <1>4. ASSUME NEW row, host' = row, EditBecomes(e, "committed", row)
        PROVE  (EditsUp /\ Kept)'
    <2>1. edit'[e] = [pc |-> "committed", copy |-> row] /\ EditsUp'
      BY <1>2, <1>4
    <2>2. Willing(e)'
      BY <1>4, <2>1 DEF Willing
    <2>3. QED
      BY <2>1, <2>2 DEF Kept
  <1>5. CASE EditBecomes(e, "idle", Off) /\ late' = late \ {e} /\ UNCHANGED host
    <2>1. /\ edit'[e] = [pc |-> "idle", copy |-> Off]
          /\ \A f \in Edits \ {e} : edit'[f] = edit[f]
          /\ EditsUp' /\ (Excused => Excused')
      BY <1>2, <1>5
    <2>2. \A w \in Workers : Holds(w) => Holds(w)'
      BY <1>1, <1>5, <2>1 DEF Holds
    <2>3. \A f \in Edits : Willing(f) => Willing(f)'
      BY <1>1, <1>5, <2>1 DEF Willing
    <2>4. QED
      BY <1>1, <1>5, <2>1, <2>2, <2>3 DEF KInv, Kept
  <1>6. QED
    BY <1>3, <1>4, <1>5 DEF UpdateHost

(***************************************************************************)
(* A job made of the row is safe: every other request of the worker is late     *)
(* from now on.  A job made of something else replaces the row's only when it    *)
(* comes late, which is a lapse.                                            *)
(***************************************************************************)
LEMMA KeptRegisterHostJob ==
    ASSUME KInv, NEW e \in Edits, RegisterHostJob(e)
    PROVE  (EditsUp /\ Kept)'
  <1>1. /\ edit[e].pc = "committed" /\ UNCHANGED <<host, up>>
        /\ late' = (late \cup Colleagues(e)) \ {e}
        /\ lapse' = (edit[e].copy # host /\ (lapse \/ e \in late))
    BY DEF RegisterHostJob, Registered
  <1>2. /\ edit'[e] = [pc |-> "idle", copy |-> Off]
        /\ \A f \in Edits \ {e} : edit'[f] = edit[f]
    BY EditType DEF RegisterHostJob, Registered, KInv
  <1>3. /\ jobs'[Home[e]] = Job(edit[e].copy)
        /\ \A w \in Workers \ {Home[e]} : jobs'[w] = jobs[w]
    BY JobsType DEF RegisterHostJob, KInv, Job
  <1>4. EditsUp'
    BY <1>1, <1>2 DEF KInv, EditsUp
  <1>5. Excused => Excused'
    BY <1>1, <1>2 DEF Excused
  <1>6. CASE edit[e].copy = host /\ host \in Schedules
    <2>1. jobs'[Home[e]] = host'
      BY <1>1, <1>3, <1>6 DEF Job
    <2>2. \A f \in Edits : Home[f] = Home[e] /\ edit'[f].pc \in {"loaded", "committed"}
                                => f \in late'
      BY <1>1, <1>2 DEF Colleagues
    <2>3. Holds(Home[e])'
      BY <2>1, <2>2 DEF Holds
    <2>4. QED
      BY <1>4, <2>3, HomeIsWorker DEF Kept
  <1>7. CASE edit[e].copy # host
    <2>1. ASSUME NEW w \in Workers, Holds(w) PROVE Holds(w)' \/ lapse'
      <3>1. CASE Home[e] = w
        BY <1>1, <1>7, <2>1, <3>1 DEF Holds
      <3>2. CASE Home[e] # w
        BY <1>1, <1>2, <1>3, <2>1, <3>2 DEF Holds
      <3>3. QED
        BY <3>1, <3>2
    <2>2. \A f \in Edits : Willing(f) => Willing(f)'
      BY <1>1, <1>2, <1>7 DEF Willing
    <2>3. lapse => lapse'
      BY <1>1, <1>7
    <2>4. QED
      BY <1>1, <1>4, <1>5, <2>1, <2>2, <2>3 DEF KInv, Kept
  <1>8. QED
    BY <1>1, <1>4, <1>6, <1>7 DEF Kept

LEMMA KeptUnregisterHostJob ==
    ASSUME KInv, NEW e \in Edits, UnregisterHostJob(e)
    PROVE  (EditsUp /\ Kept)'
  <1>1. /\ edit'[e] = [pc |-> "removing", copy |-> Off]
        /\ \A f \in Edits \ {e} : edit'[f] = edit[f]
    BY EditType DEF UnregisterHostJob, KInv
  <1>2. Excused'
    BY <1>1 DEF Excused
  <1>3. QED
    BY <1>1, <1>2 DEF UnregisterHostJob, KInv, EditsUp, Kept

LEMMA KeptRemoveHost ==
    ASSUME KInv, NEW e \in Edits, RemoveHost(e)
    PROVE  (EditsUp /\ Kept)'
  <1>1. /\ edit'[e] = [pc |-> "idle", copy |-> Off]
        /\ \A f \in Edits \ {e} : edit'[f] = edit[f]
    BY EditType DEF RemoveHost, KInv
  <1>2. EditsUp'
    BY <1>1 DEF RemoveHost, KInv, EditsUp
  <1>3. QED
    BY <1>2, RowsAssumption DEF RemoveHost, Kept

LEMMA KeptCrash ==
    ASSUME KInv, NEW w \in Workers, Crash(w)
    PROVE  (EditsUp /\ Kept)'
  <1>1. /\ up'[w] = FALSE /\ \A v \in Workers \ {w} : up'[v] = up[v]
        /\ \A e \in Edits : edit'[e] = IF Home[e] = w THEN NoEdit ELSE edit[e]
    BY DEF Crash, KInv, TypeOK
  <1>2. EditsUp'
    BY <1>1, HomeIsWorker DEF KInv, EditsUp, NoEdit
  <1>3. QED
    BY <1>1, <1>2 DEF Kept, Excused

LEMMA KeptBoot ==
    ASSUME KInv, NEW w \in Workers, Boot(w)
    PROVE  (EditsUp /\ Kept)'
  <1>1. /\ ~up[w] /\ up'[w] /\ \A v \in Workers \ {w} : up'[v] = up[v]
        /\ jobs'[w] = Job(host) /\ UNCHANGED <<host, edit>>
    BY DEF Boot, KInv, TypeOK
  <1>2. EditsUp'
    BY <1>1, HomeIsWorker DEF KInv, EditsUp
  <1>3. \A e \in Edits : Home[e] = w => edit[e].pc = "idle"
    BY <1>1 DEF KInv, EditsUp
  <1>4. host \in Schedules => jobs'[w] = host
    BY <1>1 DEF Job
  <1>5. host \in Schedules => Holds(w)'
    BY <1>1, <1>3, <1>4 DEF Holds
  <1>6. QED
    BY <1>1, <1>2, <1>5 DEF Kept

LEMMA KeptStep == KInv /\ [Next]_vars => KInv'
  <1> SUFFICES ASSUME KInv, [Next]_vars PROVE KInv'
    OBVIOUS
  <1>1. TypeOK'
    BY TypeStep DEF KInv
  <1>2. ASSUME NEW e \in Edits, EditStep(e) PROVE (EditsUp /\ Kept)'
    BY <1>2, KeptAddHost, KeptRefreshHost, KeptLoadHost, KeptUpdateHost, KeptRegisterHostJob,
       KeptUnregisterHostJob, KeptRemoveHost DEF EditStep
  <1>3. ASSUME NEW r \in Runs, RunStep(r) PROVE (EditsUp /\ Kept)'
    BY <1>3, KeptIdle DEF RunStep, Lock, FirstCommit, Unlock, UnlockFails
  <1>4. ASSUME NEW q \in Conns, CloseConn(q) PROVE (EditsUp /\ Kept)'
    BY <1>4, KeptIdle DEF CloseConn
  <1>5. ASSUME NEW w \in Workers, Crash(w) \/ Boot(w) PROVE (EditsUp /\ Kept)'
    BY <1>5, KeptCrash, KeptBoot
  <1>6. ASSUME UNCHANGED vars PROVE (EditsUp /\ Kept)'
    BY <1>6, KeptIdle DEF vars
  <1>7. (EditsUp /\ Kept)'
    BY <1>2, <1>3, <1>4, <1>5, <1>6 DEF Next
  <1>8. QED
    BY <1>1, <1>7 DEF KInv

LEMMA KeptInit == Init => KInv
  <1> SUFFICES ASSUME Init PROVE KInv
    OBVIOUS
  <1>1. \A e \in Edits : edit[e].pc = "idle"
    BY DEF Init, NoEdit
  <1>2. PICK w \in Workers : TRUE
    BY WorkersAssumption
  <1>3. host \in Schedules => jobs[w] = host
    BY <1>2 DEF Init, Job
  <1>4. host \in Schedules => Holds(w)
    BY <1>1, <1>3 DEF Holds
  <1>5. QED
    BY <1>1, <1>2, <1>4, TypeInit DEF KInv, EditsUp, Kept

(***************************************************************************)
(* register_host_job, called after each edit and at each start, leaves some     *)
(* worker with the schedule of the last committed edit, however many requests   *)
(* overlap in however many workers, until a lapse.                          *)
(***************************************************************************)
THEOREM LastEditIsScheduled == Spec => []LastEditScheduled
  <1>1. KInv => LastEditScheduled
    BY DEF KInv, Kept, LastEditScheduled, Settled, Excused, Holds, Willing
  <1>2. KInv /\ [Next]_vars => KInv'
    BY KeptStep
  <1>3. QED
    BY KeptInit, <1>1, <1>2, PTL DEF Spec

==============================================================================
