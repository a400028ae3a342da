---------------------------- MODULE RecreateProofs ----------------------------
(***************************************************************************)
(* Lemmas about the updates of Recreate, for the theorems of UpgradeProofs.   *)
(***************************************************************************)
EXTENDS Recreate, FiniteSetTheorems, TLAPS

(***************************************************************************)
(* An id belongs to one name for ever: to no other name's container, and to    *)
(* none that will be created.                                              *)
(***************************************************************************)
Owns(n, id) == id \in 0 .. ids /\ \A m \in Names : runtime[m] # NoOne /\ runtime[m].id = id => m = n

Called(u) == upd[u] # NotCalled

CallOwned(u) ==
    /\ Target(u) \in Names
    /\ Owns(Target(u), upd[u].id) /\ Owns(Target(u), upd[u].new)
    /\ upd[u].todo \subseteq upd[u].ran /\ (upd[u].pc = "looking" => upd[u].todo = {})
    /\ \A id \in upd[u].ran : \E m \in Names : Owns(m, id) /\ (m = Target(u) \/ Composed(m))

IdsOwned ==
    /\ \A n \in Names : Owns(n, known[n]) /\ (runtime[n] # NoOne => Owns(n, runtime[n].id))
    /\ \A u \in Updates : Called(u) => CallOwned(u)

(***************************************************************************)
(* Whoever is past the removal has removed its container alone.              *)
(***************************************************************************)
PastRemoval(u) == upd[u].pc \in {"creating", "restarting", "starting", "reloading", "reporting", "told"}

RemovedOnce ==
    /\ \A u \in Updates : PastRemoval(u) => ~Exists(upd[u].id)
    /\ \A u, v \in Updates : PastRemoval(u) /\ PastRemoval(v) /\ upd[u].id = upd[v].id => u = v

(***************************************************************************)
(* A call that has looked holds all the mounts of an ordinary container.      *)
(***************************************************************************)
HasLooked(u) == upd[u].pc \in {"listing", "stopping", "pulling", "halting", "removing", "creating"}

MountsHeld ==
    \A u \in Updates : HasLooked(u) /\ Ordinary(Target(u)) => upd[u].mounts = Mounts(Target(u))

(***************************************************************************)
(* What a call must still start: the containers that it saw running, and the   *)
(* new one in the place of its own.  It is doomed to fail when one of these    *)
(* is gone.                                                                *)
(***************************************************************************)
Successor(u) == IF upd[u].id \in upd[u].ran THEN {upd[u].new} ELSE {}

Owed(u) ==
    CASE upd[u].pc \in {"stopping", "pulling", "halting", "removing"} -> upd[u].ran
      [] upd[u].pc = "creating"   -> upd[u].ran \ {upd[u].id}
      [] upd[u].pc = "restarting" -> upd[u].todo \cup Successor(u)
      [] upd[u].pc = "starting"   -> Successor(u)
      [] OTHER -> {}

Doomed(u) == \E id \in Owed(u) : ~Exists(id)

Sound == \A u \in Updates : upd[u].pc # "failed" /\ ~Doomed(u)

(***************************************************************************)
(* While no call has failed or must, a container that ran and does not run is   *)
(* still owed by a call, unless two overlapped on it.                        *)
(***************************************************************************)
Answers(u, n) ==
    \/ runtime[n] # NoOne /\ runtime[n].id \in Owed(u)
    \/ upd[u].pc = "creating" /\ Target(u) = n /\ upd[u].id \in upd[u].ran

LossesOwed ==
    Sound => \A n \in plan.ran :
        Contended(n) \/ n \in Running(Names) \/ \E u \in Updates : Answers(u, n)

Overlaps ==
    \A u, v \in Updates :
        UnderWay(u) /\ UnderWay(v) /\ Target(u) = Target(v) /\ u # v => upd[u].beside # {} \/ upd[v].beside # {}

(***************************************************************************)
(* The calls of a project's containers list and stop, the others halt; what is  *)
(* halted was seen running.                                                 *)
(***************************************************************************)
Branches ==
    \A u \in Updates :
        /\ upd[u].pc \in {"listing", "stopping"} => Composed(Target(u))
        /\ upd[u].pc = "halting" => ~Composed(Target(u))

SeenRunning ==
    Sound => \A u \in Updates :
        upd[u].pc \in {"pulling", "halting"} /\ ~Composed(Target(u)) /\ Target(u) \in plan.ran
            => Contended(Target(u)) \/ upd[u].id \in upd[u].ran

RecreateInv ==
    /\ RecreateTypeOK /\ IdsOwned /\ RemovedOnce
    /\ MountsKept /\ MountsHeld
    /\ MissingOnlyAtCreate
    /\ LossesOwed /\ Overlaps /\ Branches /\ SeenRunning

------------------------------------------------------------------------------
(***************************************************************************)
(* What a step does to the calls: it changes that of u, to `call`.            *)
(***************************************************************************)
CallTypes == DOMAIN upd = Updates /\ \A u \in Updates : upd[u] = NotCalled \/ upd[u] \in Call(Target(u))

RuntimeTypes == DOMAIN runtime = Names /\ \A n \in Names : runtime[n] \in Container(n) \cup {NoOne}

LEMMA GoesTo ==
    ASSUME CallTypes, NEW u \in Updates, NEW call \in Call(Target(u)), Goes(u, call), UNCHANGED plan
    PROVE  /\ CallTypes'
           /\ upd'[u] = call
           /\ \A v \in Updates : v # u => upd'[v] = upd[v]
           /\ \A v \in Updates : Target(v)' = Target(v)
  BY DEF CallTypes, Goes, Target, Call, Mounts

(***************************************************************************)
(* A call that is under way, with the type of its record.                    *)
(***************************************************************************)
LEMMA PastNew ==
    ASSUME CallTypes, NEW u \in Updates, upd[u].pc # "new"
    PROVE  upd[u] \in Call(Target(u)) /\ Called(u)
  BY DEF CallTypes, NotCalled, Call, Called, UpdatePCs

(***************************************************************************)
(* Starting and stopping change whether the container runs, nothing else.     *)
(***************************************************************************)
LEMMA SetRunningDoes ==
    ASSUME RuntimeTypes, NEW id, NEW on \in BOOLEAN, SetRunning(id, on)
    PROVE  /\ RuntimeTypes'
           /\ \A n \in Names : runtime'[n] = NoOne <=> runtime[n] = NoOne
           /\ \A n \in Names : runtime[n] # NoOne =>
                /\ runtime'[n].id = runtime[n].id /\ runtime'[n].image = runtime[n].image
                /\ runtime'[n].mounts = runtime[n].mounts
                /\ runtime[n].id = id => runtime'[n].running = on
                /\ runtime[n].id # id => runtime'[n].running = runtime[n].running
  <1>1. \A n \in Names : runtime'[n] = IF runtime[n] # NoOne /\ runtime[n].id = id
                                      THEN [runtime[n] EXCEPT !.running = on] ELSE runtime[n]
    BY DEF SetRunning
  <1>2. \A n \in Names : runtime[n] # NoOne =>
            runtime[n] \in Container(n) /\ [runtime[n] EXCEPT !.running = on] \in Container(n)
    BY DEF RuntimeTypes, Container
  <1>3. DOMAIN runtime' = Names
    BY DEF SetRunning
  <1>4. \A n \in Names : runtime[n] # NoOne => [runtime[n] EXCEPT !.running = on] # NoOne
    BY <1>2, NoOneIsNoContainer
  <1>5. RuntimeTypes'
    BY <1>1, <1>2, <1>3 DEF RuntimeTypes, Container, Mounts
  <1> QED
    BY <1>1, <1>2, <1>4, <1>5 DEF Container

------------------------------------------------------------------------------
(***************************************************************************)
(* Type correctness.                                                       *)
(***************************************************************************)
LEMMA TypesInit == RecreateInit => RecreateTypeOK /\ CallTypes /\ RuntimeTypes
  <1> SUFFICES ASSUME RecreateInit PROVE RecreateTypeOK /\ CallTypes /\ RuntimeTypes
    OBVIOUS
  <1>1. Cardinality(Names) \in 0 .. MaxId
    BY RecreateAssumption, FS_CardinalityType
  <1>2. FirstId \in [Names -> 1 .. MaxId]
    BY <1>1, RecreateAssumption
  <1>3. plan.image \in Images
    BY PlansAssumption DEF RecreateInit
  <1> QED
    BY <1>1, <1>2, <1>3 DEF RecreateInit, RecreateTypeOK, CallTypes, RuntimeTypes, Container

OtherTypes == plan \in Plans /\ ids \in 0 .. MaxId /\ known \in [Names -> 1 .. MaxId]

LEMMA TypesSplit ==
    /\ RecreateTypeOK <=> OtherTypes /\ CallTypes /\ RuntimeTypes
    /\ RecreateTypeOK' <=> OtherTypes' /\ CallTypes' /\ RuntimeTypes'
  BY DEF RecreateTypeOK, OtherTypes, CallTypes, RuntimeTypes

LEMMA BeginTypes ==
    ASSUME RecreateTypeOK, NEW u \in Updates, NEW image \in Images, Begin(u, image)
    PROVE  RecreateTypeOK' /\ Target(u) \in Names
  <1> DEFINE call == [pc |-> "looking", at |-> "looking", id |-> known[Target(u)], image |-> image,
                      mounts |-> {}, ran |-> {}, todo |-> {}, new |-> 0,
                      beside |-> {v \in Updates : UnderWay(v) /\ Target(v) = Target(u)}]
  <1>1. Target(u) \in Names
    BY PlansAssumption DEF Begin, Target, RecreateTypeOK
  <1>2. call \in Call(Target(u))
    <2>1. known[Target(u)] \in 1 .. MaxId /\ 0 \in 0 .. MaxId
      BY <1>1, RecreateAssumption DEF RecreateTypeOK
    <2>2. "looking" \in UpdatePCs
      BY DEF UpdatePCs
    <2> QED
      BY <2>1, <2>2 DEF Call
  <1>3. Goes(u, call)
    BY DEF Begin
  <1> HIDE DEF call
  <1>4. CallTypes'
    BY <1>2, <1>3, GoesTo, TypesSplit DEF OtherTypes, Begin
  <1> QED
    BY <1>1, <1>4, TypesSplit DEF OtherTypes, Begin, RuntimeTypes, Container

(***************************************************************************)
(* The steps of a call but its failure: the call after the step.             *)
(***************************************************************************)
LEMMA WorkTypes ==
    ASSUME RecreateTypeOK, IdsOwned, NEW u \in Updates, WorkStep(u)
    PROVE  RecreateTypeOK'
  <1>1. upd[u] \in Call(Target(u)) /\ Called(u) /\ Target(u) \in Names
    BY PastNew, TypesSplit DEF OtherTypes, IdsOwned, CallOwned, WorkStep, Look, ListProject, StopNext, Pull, Halt, RemoveOld,
         Create, RestartNext, StartNew, Reload, UpdateFails, UnderWay
  <1> DEFINE Typed == /\ plan' = plan /\ known' = known
                      /\ \E call : Goes(u, call) /\ call \in Call(Target(u))
                      /\ ids' \in 0 .. MaxId /\ RuntimeTypes'
  <1>2. Typed
    <2>1. CASE Look(u)
      <3> DEFINE c == runtime[Target(u)]
                 seen == [upd[u] EXCEPT !.mounts = c.mounts]
      <3>1. runtime[Target(u)] # NoOne
        BY <1>1, <2>1 DEF Look, Exists, Live, IdsOwned, CallOwned, Owns
      <3>2. seen \in Call(Target(u)) /\ c.id \in 1 .. MaxId
        BY <1>1, <3>1, TypesSplit DEF OtherTypes, Call, RuntimeTypes, Container
      <3>3. /\ [seen EXCEPT !.pc = "listing"] \in Call(Target(u))
            /\ [seen EXCEPT !.pc = "pulling", !.ran = IF c.running THEN {c.id} ELSE {}] \in Call(Target(u))
        BY <3>2 DEF Call, UpdatePCs
      <3> QED
        BY <2>1, <3>3, TypesSplit DEF OtherTypes, Look, RuntimeTypes, Container, Mounts
    <2>2. CASE ListProject(u)
      <3> DEFINE ran == Ids(Running(ProjectOf(Target(u))))
      <3>1. ran \in SUBSET (1 .. MaxId)
        BY TypesSplit, PlansAssumption DEF Ids, Running, Live, ProjectOf, RuntimeTypes, Container
      <3> HIDE DEF ran
      <3>2. [upd[u] EXCEPT !.pc = "stopping", !.ran = ran, !.todo = ran] \in Call(Target(u))
        BY <1>1, <3>1 DEF Call, UpdatePCs
      <3> QED
        BY <2>2, <3>2, TypesSplit DEF OtherTypes, ListProject, RuntimeTypes, Container, Mounts, ran
    <2>3. CASE StopNext(u) \/ RestartNext(u)
      <3>1. /\ \A id \in upd[u].todo : [upd[u] EXCEPT !.todo = @ \ {id}] \in Call(Target(u))
            /\ [upd[u] EXCEPT !.pc = "pulling"] \in Call(Target(u))
            /\ [upd[u] EXCEPT !.pc = "starting"] \in Call(Target(u))
        BY <1>1 DEF Call, UpdatePCs
      <3>2. UNCHANGED runtime \/ \E id, on : on \in BOOLEAN /\ SetRunning(id, on)
        BY <2>3 DEF StopNext, RestartNext
      <3>3. RuntimeTypes'
        BY <3>2, SetRunningDoes, TypesSplit DEF OtherTypes, RuntimeTypes, Container, Mounts
      <3> QED
        BY <2>3, <3>1, <3>3, TypesSplit DEF OtherTypes, StopNext, RestartNext
    <2>4. CASE Pull(u) \/ Reload(u)
      <3>1. /\ [upd[u] EXCEPT !.pc = "removing"] \in Call(Target(u))
            /\ [upd[u] EXCEPT !.pc = "halting"] \in Call(Target(u))
            /\ [upd[u] EXCEPT !.pc = "reporting"] \in Call(Target(u))
        BY <1>1 DEF Call, UpdatePCs
      <3> QED
        BY <2>4, <3>1, TypesSplit DEF OtherTypes, Pull, Reload, RuntimeTypes, Container, Mounts
    <2>5. CASE Halt(u)
      <3>1. [upd[u] EXCEPT !.pc = "removing"] \in Call(Target(u))
        BY <1>1 DEF Call, UpdatePCs
      <3> QED
        BY <2>5, <3>1, SetRunningDoes, TypesSplit DEF OtherTypes, Halt
    <2>6. CASE RemoveOld(u)
      <3>1. [upd[u] EXCEPT !.pc = "creating"] \in Call(Target(u))
        BY <1>1 DEF Call, UpdatePCs
      <3>2. RuntimeTypes'
        BY <2>6, <1>1, TypesSplit DEF OtherTypes, RemoveOld, RuntimeTypes, Container, Mounts
      <3> QED
        BY <2>6, <3>1, <3>2, TypesSplit DEF OtherTypes, RemoveOld
    <2>7. CASE Create(u)
      <3>0. ids + 1 \in 0 .. MaxId /\ Others(u) \in SUBSET (1 .. MaxId) /\ ids' = ids + 1
        BY <1>1, <2>7, RecreateAssumption, TypesSplit DEF OtherTypes, Create, Others, Call
      <3>1. AfterCreate(u) \in Call(Target(u)) /\ ids' \in 0 .. MaxId
        BY <1>1, <3>0 DEF AfterCreate, Call, UpdatePCs
      <3>2. [id |-> ids + 1, running |-> FALSE, image |-> upd[u].image,
             mounts |-> Carried(Target(u), upd[u].mounts)] \in Container(Target(u))
        BY <1>1, <2>7, RecreateAssumption, TypesSplit DEF OtherTypes, Create, Call, Carried, Container
      <3>3. RuntimeTypes'
        BY <2>7, <1>1, <3>2, TypesSplit DEF OtherTypes, Create, RuntimeTypes, Container, Mounts
      <3> QED
        BY <2>7, <3>1, <3>3, TypesSplit DEF OtherTypes, Create
    <2>8. CASE StartNew(u)
      <3>1. [upd[u] EXCEPT !.pc = "reloading"] \in Call(Target(u))
        BY <1>1 DEF Call, UpdatePCs
      <3>2. RuntimeTypes'
        BY <2>8, SetRunningDoes, TypesSplit DEF OtherTypes, StartNew, RuntimeTypes, Container, Mounts
      <3> QED
        BY <2>8, <3>1, <3>2, TypesSplit DEF OtherTypes, StartNew
    <2>9. CASE UpdateFails(u)
      <3>1. [upd[u] EXCEPT !.pc = "failed", !.at = upd[u].pc] \in Call(Target(u))
        BY <1>1 DEF Call, UpdatePCs
      <3> QED
        BY <2>9, <3>1, TypesSplit DEF OtherTypes, UpdateFails, RuntimeTypes, Container, Mounts
    <2> HIDE DEF Typed
    <2> QED
      BY <2>1, <2>2, <2>3, <2>4, <2>5, <2>6, <2>7, <2>8, <2>9 DEF WorkStep
  <1>3. CallTypes'
    BY <1>2, GoesTo, TypesSplit DEF OtherTypes
  <1> QED
    BY <1>2, <1>3, TypesSplit DEF OtherTypes

------------------------------------------------------------------------------
(***************************************************************************)
(* No step brings an old id back: a container keeps its id, and a new one has  *)
(* a new id.  So an id belongs to its name for ever, and one that is gone is    *)
(* gone.                                                                   *)
(***************************************************************************)
Grows ==
    /\ ids \in Nat /\ ids' \in Nat /\ ids <= ids'
    /\ \A m \in Names : runtime'[m] # NoOne =>
         \/ runtime[m] # NoOne /\ runtime'[m].id = runtime[m].id
         \/ runtime'[m].id \notin 0 .. ids

LEMMA SameGrows ==
    ASSUME RecreateTypeOK, UNCHANGED <<runtime, ids>> PROVE Grows
  BY RecreateAssumption DEF RecreateTypeOK, Grows

LEMMA WorkGrows ==
    ASSUME RecreateTypeOK, NEW u \in Updates, WorkStep(u) PROVE Grows
  <1>1. ids \in Nat /\ RuntimeTypes
    BY RecreateAssumption, TypesSplit DEF OtherTypes
  <1>2. CASE UNCHANGED <<runtime, ids>>
    BY <1>2, SameGrows
  <1>3. ASSUME NEW id, NEW on \in BOOLEAN, SetRunning(id, on), ids' = ids PROVE Grows
    BY <1>1, <1>3, SetRunningDoes DEF Grows
  <1>4. CASE RemoveOld(u)
    BY <1>1, <1>4 DEF RemoveOld, RuntimeTypes, Grows
  <1>5. CASE Create(u)
    BY <1>1, <1>5 DEF Create, RuntimeTypes, Grows
  <1> QED
    BY <1>2, <1>3, <1>4, <1>5 DEF WorkStep, Look, ListProject, StopNext, Pull, Halt, RestartNext,
                                  StartNew, Reload, UpdateFails

LEMMA GoneOrOwned ==
    ASSUME Grows
    PROVE  /\ \A n, id : Owns(n, id) => Owns(n, id)'
           /\ \A id : id \in 0 .. ids /\ ~Exists(id) => ~Exists(id)'
  BY DEF Grows, Owns, Exists, Live

LEMMA OwnedStays ==
    ASSUME Grows, NEW v \in Updates, Called(v) => CallOwned(v), upd'[v] = upd[v], plan' = plan
    PROVE  Called(v)' => CallOwned(v)'
  <1> SUFFICES ASSUME Called(v)' PROVE CallOwned(v)'
    OBVIOUS
  <1>1. CallOwned(v) /\ Target(v)' = Target(v)
    BY DEF Called, Target
  <1>2. \A n, id : Owns(n, id) => Owns(n, id)'
    BY GoneOrOwned
  <1> QED
    BY <1>1, <1>2 DEF CallOwned

(***************************************************************************)
(* A call whose ids are those before the step, or new.                      *)
(***************************************************************************)
LEMMA OwnedCall ==
    ASSUME Grows, NEW u \in Updates, CallOwned(u), plan' = plan,
           upd'[u].id = upd[u].id, upd'[u].new = upd[u].new \/ Owns(Target(u), upd[u].new)',
           upd'[u].todo \subseteq upd'[u].ran, upd'[u].pc # "looking",
           \A id \in upd'[u].ran :
               id \in upd[u].ran \/ (\E m \in Names : Owns(m, id) /\ (m = Target(u) \/ Composed(m)))
    PROVE  CallOwned(u)'
  <1>1. Target(u)' = Target(u) /\ \A m : Composed(m)' = Composed(m)
    BY DEF Target, Composed
  <1>2. \A n, id : Owns(n, id) => Owns(n, id)'
    BY GoneOrOwned
  <1>3. Owns(Target(u), upd[u].id)' /\ Owns(Target(u), upd[u].new)'
    BY <1>1, <1>2 DEF CallOwned
  <1>4. ASSUME NEW id \in upd'[u].ran
        PROVE  \E m \in Names : Owns(m, id)' /\ (m = Target(u) \/ Composed(m))
    <2>1. PICK m \in Names : Owns(m, id) /\ (m = Target(u) \/ Composed(m))
      BY <1>4 DEF CallOwned
    <2> QED
      BY <2>1, <1>2
  <1> QED
    BY <1>1, <1>3, <1>4 DEF CallOwned

LEMMA NamesOwned ==
    ASSUME IdsOwned, Grows,
           \A n \in Names : known'[n] = known[n] \/ (runtime[n] # NoOne /\ known'[n] = runtime[n].id),
           \A n \in Names : runtime'[n] # NoOne =>
               (runtime[n] # NoOne /\ runtime'[n].id = runtime[n].id) \/ Owns(n, runtime[n].id)'
    PROVE  (\A n \in Names : Owns(n, known[n]) /\ (runtime[n] # NoOne => Owns(n, runtime[n].id)))'
  <1>1. \A n, id : Owns(n, id) => Owns(n, id)'
    BY GoneOrOwned
  <1> QED
    BY <1>1 DEF IdsOwned

LEMMA OwnedInit == RecreateInit => IdsOwned
  <1> SUFFICES ASSUME RecreateInit PROVE IdsOwned
    OBVIOUS
  <1>1. /\ Cardinality(Names) \in Nat /\ FirstId \in [Names -> 1 .. Cardinality(Names)]
        /\ \A n, m \in Names : FirstId[n] = FirstId[m] => n = m
    BY RecreateAssumption, FS_CardinalityType
  <1>2. /\ ids = Cardinality(Names) /\ known = FirstId
        /\ \A n \in Names : runtime[n].id = FirstId[n]
        /\ \A u \in Updates : ~Called(u)
    BY DEF RecreateInit, Called
  <1> QED
    BY <1>1, <1>2 DEF IdsOwned, Owns

LEMMA SyncOwned ==
    ASSUME RecreateTypeOK, IdsOwned, SyncIds
    PROVE  RecreateTypeOK' /\ IdsOwned'
  <1>1. Grows
    BY SameGrows DEF SyncIds
  <1>2. \A n \in Names : known'[n] = known[n] \/ (runtime[n] # NoOne /\ known'[n] = runtime[n].id)
    BY DEF SyncIds
  <1>3. \A u \in Updates : Called(u)' => CallOwned(u)'
    BY <1>1, OwnedStays DEF SyncIds, IdsOwned
  <1>4. IdsOwned'
    BY <1>1, <1>2, <1>3, NamesOwned DEF SyncIds, IdsOwned
  <1>5. known' \in [Names -> 1 .. MaxId]
    BY TypesSplit DEF OtherTypes, RuntimeTypes, Container, SyncIds
  <1>6. CallTypes' /\ RuntimeTypes'
    BY TypesSplit DEF SyncIds, CallTypes, RuntimeTypes, Call, Container, Mounts, Target
  <1> QED
    BY <1>4, <1>5, <1>6, TypesSplit DEF OtherTypes, SyncIds

LEMMA BeginOwned ==
    ASSUME RecreateTypeOK, IdsOwned, NEW u \in Updates, NEW image \in Images, Begin(u, image)
    PROVE  IdsOwned'
  <1>1. Grows /\ Target(u) \in Names /\ Target(u)' = Target(u)
    BY SameGrows, BeginTypes DEF Begin, Target
  <1>2. /\ upd'[u].id = known[Target(u)] /\ upd'[u].new = 0 /\ upd'[u].todo = {} /\ upd'[u].ran = {}
        /\ \A v \in Updates : v # u => upd'[v] = upd[v]
    BY TypesSplit DEF Begin, Goes, CallTypes
  <1>3. Owns(Target(u), known[Target(u)])' /\ Owns(Target(u), 0)'
    BY <1>1, GoneOrOwned, TypesSplit DEF Begin, IdsOwned, Owns, Grows, RuntimeTypes, Container
  <1>4. CallOwned(u)'
    BY <1>1, <1>2, <1>3 DEF CallOwned, Begin
  <1>5. \A v \in Updates : v # u => (Called(v)' => CallOwned(v)')
    BY <1>1, <1>2, OwnedStays DEF IdsOwned, Begin
  <1> QED
    BY <1>1, <1>4, <1>5, NamesOwned DEF IdsOwned, Begin

(***************************************************************************)
(* What all steps of a call leave alone.                                    *)
(***************************************************************************)
LEMMA WorkSpares ==
    ASSUME RecreateTypeOK, IdsOwned, NEW u \in Updates, WorkStep(u)
    PROVE  /\ upd[u] \in Call(Target(u)) /\ Called(u) /\ CallOwned(u) /\ UnderWay(u)
           /\ plan' = plan /\ known' = known
           /\ \A v \in Updates : v # u => upd'[v] = upd[v]
           /\ upd'[u].id = upd[u].id /\ upd'[u].image = upd[u].image /\ upd'[u].beside = upd[u].beside
           /\ ~Create(u) => upd'[u].new = upd[u].new
  <1>1. upd[u] \in Call(Target(u)) /\ Called(u) /\ CallOwned(u) /\ UnderWay(u) /\ CallTypes
    BY PastNew, TypesSplit DEF OtherTypes, IdsOwned, WorkStep, Look, ListProject, StopNext, Pull, Halt,
         RemoveOld, Create, RestartNext, StartNew, Reload, UpdateFails, UnderWay
  <1> DEFINE looked == [upd[u] EXCEPT !.mounts = runtime[Target(u)].mounts]
  <1> USE <1>1 DEF Goes, CallTypes, Call
  <1>2. CASE Look(u)
    <2>1. \/ upd' = [upd EXCEPT ![u] = [looked EXCEPT !.pc = "listing"]]
          \/ \E ran : upd' = [upd EXCEPT ![u] = [looked EXCEPT !.pc = "pulling", !.ran = ran]]
      BY <1>2 DEF Look
    <2>2. plan' = plan /\ known' = known
      BY <1>2 DEF Look
    <2> QED
      BY <2>1, <2>2
  <1>3. CASE ListProject(u)
    BY <1>3 DEF ListProject
  <1>4. CASE StopNext(u)
    <2>1. \/ \E id : upd' = [upd EXCEPT ![u] = [upd[u] EXCEPT !.todo = upd[u].todo \ {id}]]
          \/ upd' = [upd EXCEPT ![u] = [upd[u] EXCEPT !.pc = "pulling"]]
      BY <1>4 DEF StopNext
    <2>2. plan' = plan /\ known' = known
      BY <1>4 DEF StopNext
    <2> QED
      BY <2>1, <2>2
  <1>5. CASE Pull(u)
    BY <1>5 DEF Pull
  <1>6. CASE Halt(u)
    BY <1>6 DEF Halt
  <1>7. CASE RemoveOld(u)
    BY <1>7 DEF RemoveOld
  <1>8. CASE RestartNext(u)
    <2>1. \/ \E id : upd' = [upd EXCEPT ![u] = [upd[u] EXCEPT !.todo = upd[u].todo \ {id}]]
          \/ upd' = [upd EXCEPT ![u] = [upd[u] EXCEPT !.pc = "starting"]]
      BY <1>8 DEF RestartNext
    <2>2. plan' = plan /\ known' = known
      BY <1>8 DEF RestartNext
    <2> QED
      BY <2>1, <2>2
  <1>9. CASE StartNew(u)
    BY <1>9 DEF StartNew
  <1>10. CASE Reload(u)
    BY <1>10 DEF Reload
  <1>11. CASE UpdateFails(u)
    BY <1>11 DEF UpdateFails
  <1>12. CASE Create(u)
    BY <1>12 DEF Create, AfterCreate
  <1> QED
    BY <1>2, <1>3, <1>4, <1>5, <1>6, <1>7, <1>8, <1>9, <1>10, <1>11, <1>12 DEF WorkStep

(***************************************************************************)
(* What some steps do to the containers.                                    *)
(***************************************************************************)
LEMMA CreateDoes ==
    ASSUME RecreateTypeOK, IdsOwned, NEW u \in Updates, Create(u)
    PROVE  /\ upd[u].pc = "creating" /\ runtime[Target(u)] = NoOne
           /\ runtime'[Target(u)] # NoOne
           /\ runtime'[Target(u)].id = ids + 1 /\ runtime'[Target(u)].running = FALSE
           /\ runtime'[Target(u)].mounts = Carried(Target(u), upd[u].mounts)
           /\ runtime'[Target(u)].image = upd[u].image
           /\ \A n \in Names : n # Target(u) => runtime'[n] = runtime[n]
           /\ ids' = ids + 1 /\ Owns(Target(u), ids)'
  <1>1. CallOwned(u) /\ RuntimeTypes /\ ids \in Nat /\ RuntimeTypes'
    BY WorkSpares, WorkTypes, RecreateAssumption, TypesSplit DEF WorkStep, OtherTypes
  <1>2. Target(u) \in Names /\ Target(u)' = Target(u)
    BY <1>1 DEF CallOwned, Create, Target
  <1> DEFINE new == [id |-> ids + 1, running |-> FALSE, image |-> upd[u].image,
                     mounts |-> Carried(Target(u), upd[u].mounts)]
  <1>3. runtime'[Target(u)] = new /\ \A n \in Names : n # Target(u) => runtime'[n] = runtime[n]
    BY <1>1, <1>2 DEF Create, RuntimeTypes
  <1>4. new.id = ids + 1 /\ new.running = FALSE /\ new.image = upd[u].image
        /\ new.mounts = Carried(Target(u), upd[u].mounts)
    OBVIOUS
  <1>5. new # NoOne
    <2>1. upd[u].image \in Images /\ Carried(Target(u), upd[u].mounts) \in SUBSET Mounts(Target(u))
      BY WorkSpares DEF WorkStep, Call, Carried
    <2>2. ids + 1 \in 1 .. MaxId
      BY <1>1, RecreateAssumption, TypesSplit DEF Create, OtherTypes
    <2>3. new \in Container(Target(u))
      BY <2>1, <2>2 DEF Container
    <2> QED
      BY <1>2, <2>3, NoOneIsNoContainer
  <1> HIDE DEF new
  <1>6. ids' = ids + 1 /\ Owns(Target(u), ids)'
    BY <1>1, <1>2, <1>3, <1>4 DEF Create, Owns, IdsOwned
  <1> QED
    BY <1>3, <1>4, <1>5, <1>6 DEF Create

LEMMA RemoveDoes ==
    ASSUME RecreateTypeOK, IdsOwned, NEW u \in Updates, RemoveOld(u)
    PROVE  /\ upd[u].pc = "removing"
           /\ runtime[Target(u)] # NoOne /\ runtime[Target(u)].id = upd[u].id
           /\ ~runtime[Target(u)].running
           /\ runtime'[Target(u)] = NoOne
           /\ \A n \in Names : n # Target(u) => runtime'[n] = runtime[n]
  <1>1. CallOwned(u) /\ RuntimeTypes
    BY WorkSpares, TypesSplit DEF WorkStep
  <1> QED
    BY <1>1 DEF RemoveOld, RuntimeTypes, CallOwned, Owns, Exists, Live

LEMMA LookDoes ==
    ASSUME RecreateTypeOK, IdsOwned, NEW u \in Updates, Look(u)
    PROVE  /\ upd[u].pc = "looking"
           /\ runtime[Target(u)] # NoOne /\ runtime[Target(u)].id = upd[u].id
           /\ upd'[u].mounts = runtime[Target(u)].mounts
           /\ \/ Composed(Target(u)) /\ upd'[u].pc = "listing" /\ upd'[u].ran = upd[u].ran
              \/ /\ ~Composed(Target(u)) /\ upd'[u].pc = "pulling"
                 /\ upd'[u].ran = IF runtime[Target(u)].running THEN {upd[u].id} ELSE {}
           /\ upd'[u].todo = upd[u].todo
  <1>1. CallOwned(u) /\ RuntimeTypes /\ upd[u] \in Call(Target(u)) /\ DOMAIN upd = Updates
    BY WorkSpares, TypesSplit DEF WorkStep, CallTypes
  <1>2. runtime[Target(u)] # NoOne /\ runtime[Target(u)].id = upd[u].id
    BY <1>1 DEF Look, Exists, Live, CallOwned, Owns
  <1> DEFINE looked == [upd[u] EXCEPT !.mounts = runtime[Target(u)].mounts]
             ran    == IF runtime[Target(u)].running THEN {upd[u].id} ELSE {}
  <1>3. \/ Composed(Target(u)) /\ upd'[u] = [looked EXCEPT !.pc = "listing"]
        \/ ~Composed(Target(u)) /\ upd'[u] = [looked EXCEPT !.pc = "pulling", !.ran = ran]
    BY <1>1, <1>2 DEF Look, Goes
  <1> HIDE DEF ran
  <1>4. \/ /\ Composed(Target(u)) /\ upd'[u].pc = "listing" /\ upd'[u].ran = upd[u].ran
           /\ upd'[u].mounts = runtime[Target(u)].mounts /\ upd'[u].todo = upd[u].todo
        \/ /\ ~Composed(Target(u)) /\ upd'[u].pc = "pulling" /\ upd'[u].ran = ran
           /\ upd'[u].mounts = runtime[Target(u)].mounts /\ upd'[u].todo = upd[u].todo
    BY <1>1, <1>3 DEF Call
  <1> QED
    BY <1>2, <1>4 DEF Look, ran

LEMMA ListDoes ==
    ASSUME RecreateTypeOK, IdsOwned, NEW u \in Updates, ListProject(u)
    PROVE  /\ upd[u].pc = "listing" /\ upd'[u].pc = "stopping"
           /\ upd'[u].mounts = upd[u].mounts
           /\ upd'[u].ran = Ids(Running(ProjectOf(Target(u)))) /\ upd'[u].todo = upd'[u].ran
  <1> DEFINE ran == Ids(Running(ProjectOf(Target(u))))
  <1>1. upd[u] \in Call(Target(u)) /\ DOMAIN upd = Updates
    BY WorkSpares, TypesSplit DEF WorkStep, CallTypes
  <1>2. upd'[u] = [upd[u] EXCEPT !.pc = "stopping", !.ran = ran, !.todo = ran]
    BY <1>1 DEF ListProject, Goes
  <1> HIDE DEF ran
  <1>3. /\ upd'[u].pc = "stopping" /\ upd'[u].mounts = upd[u].mounts
        /\ upd'[u].ran = ran /\ upd'[u].todo = ran
    BY <1>1, <1>2 DEF Call
  <1> QED
    BY <1>3 DEF ListProject, ran

LEMMA StopDoes ==
    ASSUME RecreateTypeOK, IdsOwned, NEW u \in Updates, StopNext(u)
    PROVE  /\ upd[u].pc = "stopping"
           /\ \/ \E id \in upd[u].todo : /\ Exists(id) /\ SetRunning(id, FALSE)
                                         /\ upd'[u].pc = "stopping" /\ upd'[u].todo = upd[u].todo \ {id}
              \/ runtime' = runtime /\ upd[u].todo = {} /\ upd'[u].pc = "pulling" /\ upd'[u].todo = upd[u].todo
           /\ upd'[u].ran = upd[u].ran /\ upd'[u].mounts = upd[u].mounts
  <1>1. upd[u] \in Call(Target(u)) /\ DOMAIN upd = Updates
    BY WorkSpares, TypesSplit DEF WorkStep, CallTypes
  <1>2. \/ \E id \in upd[u].todo : /\ Exists(id) /\ SetRunning(id, FALSE)
                                   /\ upd'[u] = [upd[u] EXCEPT !.todo = upd[u].todo \ {id}]
        \/ runtime' = runtime /\ upd[u].todo = {} /\ upd'[u] = [upd[u] EXCEPT !.pc = "pulling"]
    BY <1>1 DEF StopNext, Goes
  <1> QED
    BY <1>1, <1>2 DEF StopNext, Call

LEMMA RestartDoes ==
    ASSUME RecreateTypeOK, IdsOwned, NEW u \in Updates, RestartNext(u)
    PROVE  /\ upd[u].pc = "restarting"
           /\ \/ \E id \in upd[u].todo : /\ Exists(id) /\ SetRunning(id, TRUE)
                                         /\ upd'[u].pc = "restarting" /\ upd'[u].todo = upd[u].todo \ {id}
              \/ runtime' = runtime /\ upd[u].todo = {} /\ upd'[u].pc = "starting" /\ upd'[u].todo = upd[u].todo
           /\ upd'[u].ran = upd[u].ran /\ upd'[u].mounts = upd[u].mounts
  <1>1. upd[u] \in Call(Target(u)) /\ DOMAIN upd = Updates
    BY WorkSpares, TypesSplit DEF WorkStep, CallTypes
  <1>2. \/ \E id \in upd[u].todo : /\ Exists(id) /\ SetRunning(id, TRUE)
                                   /\ upd'[u] = [upd[u] EXCEPT !.todo = upd[u].todo \ {id}]
        \/ runtime' = runtime /\ upd[u].todo = {} /\ upd'[u] = [upd[u] EXCEPT !.pc = "starting"]
    BY <1>1 DEF RestartNext, Goes
  <1> QED
    BY <1>1, <1>2 DEF RestartNext, Call

LEMMA AfterCreateDoes ==
    ASSUME RecreateTypeOK, IdsOwned, NEW u \in Updates, Create(u)
    PROVE  /\ upd'[u].pc = "restarting" /\ upd'[u].ran = upd[u].ran
           /\ upd'[u].todo = upd[u].ran \ {upd[u].id} /\ upd'[u].new = ids + 1
  <1>1. upd[u] \in Call(Target(u)) /\ DOMAIN upd = Updates
    BY WorkSpares, TypesSplit DEF WorkStep, CallTypes
  <1>2. upd'[u] = [upd[u] EXCEPT !.pc = "restarting", !.todo = Others(u), !.new = ids + 1]
    BY <1>1 DEF Create, AfterCreate, Goes
  <1> QED
    BY <1>1, <1>2 DEF Others, Call

(***************************************************************************)
(* The other steps keep what was seen, and go on.                            *)
(***************************************************************************)
LEMMA GoesOn ==
    ASSUME RecreateTypeOK, IdsOwned, NEW u \in Updates,
           Pull(u) \/ Halt(u) \/ RemoveOld(u) \/ StartNew(u) \/ Reload(u) \/ UpdateFails(u)
    PROVE  /\ upd'[u].ran = upd[u].ran /\ upd'[u].todo = upd[u].todo /\ upd'[u].mounts = upd[u].mounts
           /\ Pull(u) => upd'[u].pc = IF Composed(Target(u)) THEN "removing" ELSE "halting"
           /\ Halt(u) => upd'[u].pc = "removing"
           /\ RemoveOld(u) => upd'[u].pc = "creating"
           /\ StartNew(u) => upd'[u].pc = "reloading"
           /\ Reload(u) => upd'[u].pc = "reporting"
           /\ UpdateFails(u) => upd'[u].pc = "failed" /\ upd'[u].at = upd[u].pc
  <1>1. upd[u] \in Call(Target(u)) /\ DOMAIN upd = Updates
    BY WorkSpares, TypesSplit DEF WorkStep, CallTypes
  <1>2. ASSUME NEW pc, upd'[u] = [upd[u] EXCEPT !.pc = pc]
        PROVE  upd'[u].pc = pc /\ upd'[u].ran = upd[u].ran /\ upd'[u].todo = upd[u].todo /\ upd'[u].mounts = upd[u].mounts
    BY <1>1, <1>2 DEF Call
  <1>3. ASSUME upd'[u] = [upd[u] EXCEPT !.pc = "failed", !.at = upd[u].pc]
        PROVE  /\ upd'[u].pc = "failed" /\ upd'[u].at = upd[u].pc
               /\ upd'[u].ran = upd[u].ran /\ upd'[u].todo = upd[u].todo /\ upd'[u].mounts = upd[u].mounts
    BY <1>1, <1>3 DEF Call
  <1>4. /\ Pull(u) => upd[u].pc = "pulling" /\ upd'[u] = [upd[u] EXCEPT !.pc = IF Composed(Target(u)) THEN "removing" ELSE "halting"]
        /\ Halt(u) => upd[u].pc = "halting" /\ upd'[u] = [upd[u] EXCEPT !.pc = "removing"]
        /\ RemoveOld(u) => upd[u].pc = "removing" /\ upd'[u] = [upd[u] EXCEPT !.pc = "creating"]
        /\ StartNew(u) => upd[u].pc = "starting" /\ upd'[u] = [upd[u] EXCEPT !.pc = "reloading"]
        /\ Reload(u) => upd[u].pc = "reloading" /\ upd'[u] = [upd[u] EXCEPT !.pc = "reporting"]
        /\ UpdateFails(u) => upd'[u] = [upd[u] EXCEPT !.pc = "failed", !.at = upd[u].pc]
    BY <1>1 DEF Pull, Halt, RemoveOld, StartNew, Reload, UpdateFails, Goes
  <1> QED
    BY <1>2, <1>3, <1>4 DEF Pull, Halt, RemoveOld, StartNew, Reload, UpdateFails

LEMMA WorkOwned ==
    ASSUME RecreateTypeOK, IdsOwned, NEW u \in Updates, WorkStep(u)
    PROVE  IdsOwned'
  <1>1. /\ Called(u) /\ CallOwned(u) /\ plan' = plan /\ known' = known /\ upd'[u].id = upd[u].id
        /\ Grows /\ RuntimeTypes
    BY WorkSpares, WorkGrows, TypesSplit
  <1>2. \A n \in Names : runtime'[n] # NoOne =>
            (runtime[n] # NoOne /\ runtime'[n].id = runtime[n].id) \/ Owns(n, runtime[n].id)'
    <2>1. CASE UNCHANGED runtime
      BY <2>1
    <2>2. ASSUME NEW id, NEW on \in BOOLEAN, SetRunning(id, on)
          PROVE \A n \in Names : runtime'[n] # NoOne => runtime[n] # NoOne /\ runtime'[n].id = runtime[n].id
      BY <1>1, <2>2, SetRunningDoes
    <2>3. CASE RemoveOld(u)
      BY <2>3, RemoveDoes
    <2>4. CASE Create(u)
      <3>1. Target(u)' = Target(u)
        BY <1>1 DEF Target
      <3>2. Owns(Target(u), runtime[Target(u)].id)'
        BY <2>4, <3>1, CreateDoes
      <3> QED
        BY <2>4, <3>1, <3>2, CreateDoes
    <2> QED
      BY <2>1, <2>2, <2>3, <2>4 DEF WorkStep, Look, ListProject, StopNext, Pull, Halt, RestartNext,
                                    StartNew, Reload, UpdateFails
  <1>3. (\A n \in Names : Owns(n, known[n]) /\ (runtime[n] # NoOne => Owns(n, runtime[n].id)))'
    BY <1>1, <1>2, NamesOwned
  <1>4. upd'[u].new = upd[u].new \/ Owns(Target(u), upd[u].new)'
    <2>1. CASE Create(u)
      <3>1. upd'[u].new = ids'
        BY <2>1, CreateDoes, AfterCreateDoes
      <3> QED
        BY <2>1, <3>1, CreateDoes
    <2>2. CASE ~Create(u)
      BY <2>2, WorkSpares
    <2> QED
      BY <2>1, <2>2
  <1>5. /\ upd'[u].todo \subseteq upd'[u].ran /\ upd'[u].pc # "looking"
        /\ \A id \in upd'[u].ran :
             id \in upd[u].ran \/ (\E m \in Names : Owns(m, id) /\ (m = Target(u) \/ Composed(m)))
    <2>1. CASE Look(u)
      BY <1>1, <2>1, LookDoes DEF CallOwned
    <2>2. CASE ListProject(u)
      <3>1. \A id \in Ids(Running(ProjectOf(Target(u)))) : \E m \in Names : Owns(m, id) /\ Composed(m)
        BY PlansAssumption DEF Ids, Running, Live, ProjectOf, Composed, IdsOwned
      <3> QED
        BY <2>2, <3>1, ListDoes
    <2>3. CASE StopNext(u)
      BY <1>1, <2>3, StopDoes DEF CallOwned
    <2>4. CASE RestartNext(u)
      BY <1>1, <2>4, RestartDoes DEF CallOwned
    <2>5. CASE Create(u)
      BY <1>1, <2>5, AfterCreateDoes DEF CallOwned
    <2>6. CASE Pull(u) \/ Halt(u) \/ RemoveOld(u) \/ StartNew(u) \/ Reload(u) \/ UpdateFails(u)
      BY <1>1, <2>6, GoesOn DEF CallOwned
    <2> QED
      BY <2>1, <2>2, <2>3, <2>4, <2>5, <2>6 DEF WorkStep
  <1>6. CallOwned(u)'
    BY <1>1, <1>4, <1>5, OwnedCall
  <1>7. \A v \in Updates : v # u => (Called(v)' => CallOwned(v)')
    BY <1>1, WorkSpares, OwnedStays DEF IdsOwned
  <1> QED
    BY <1>3, <1>6, <1>7 DEF IdsOwned

(***************************************************************************)
(* The beginning and the end of a call, which leave the containers alone.      *)
(***************************************************************************)
Begins(u) ==
    /\ ~Called(u) /\ Called(u)' /\ upd[u].pc = "new" /\ upd'[u].pc = "looking"
    /\ \A v \in Updates : UnderWay(v) /\ Target(v) = Target(u) => v \in upd'[u].beside

Ends(u) ==
    /\ Called(u) /\ Called(u)' /\ upd[u].pc = "reporting" /\ upd'[u].pc = "told"
    /\ upd'[u].id = upd[u].id /\ upd'[u].beside = upd[u].beside

Calm(u) ==
    /\ UNCHANGED <<runtime, ids, plan>>
    /\ \A v \in Updates : v # u => upd'[v] = upd[v]
    /\ Begins(u) \/ Ends(u)

LEMMA BeginIsCalm ==
    ASSUME RecreateTypeOK, NEW u \in Updates, NEW image \in Images, Begin(u, image)
    PROVE  Calm(u)
  <1>1. /\ upd'[u].pc = "looking"
        /\ upd'[u].beside = {v \in Updates : UnderWay(v) /\ Target(v) = Target(u)}
        /\ \A v \in Updates : v # u => upd'[v] = upd[v]
    BY TypesSplit DEF Begin, Goes, CallTypes
  <1> QED
    BY <1>1 DEF Begin, Calm, Begins, Called, NotCalled

LEMMA ReportDoes ==
    ASSUME RecreateTypeOK, IdsOwned, NEW u \in Updates, Report(u)
    PROVE  Calm(u) /\ RecreateTypeOK' /\ IdsOwned'
  <1>1. upd[u] \in Call(Target(u)) /\ Called(u) /\ CallOwned(u) /\ CallTypes /\ Target(u)' = Target(u)
    BY PastNew, TypesSplit DEF Report, IdsOwned, Target
  <1> DEFINE told == [upd[u] EXCEPT !.pc = "told"]
  <1>2. told \in Call(Target(u)) /\ Goes(u, told)
    BY <1>1 DEF Report, Call, UpdatePCs
  <1>3. /\ told.pc = "told" /\ told.id = upd[u].id /\ told.beside = upd[u].beside
        /\ told.ran = upd[u].ran /\ told.todo = upd[u].todo /\ told.new = upd[u].new
    BY <1>1 DEF Call
  <1> HIDE DEF told
  <1>4. CallTypes' /\ upd'[u] = told /\ \A v \in Updates : v # u => upd'[v] = upd[v]
    BY <1>1, <1>2, GoesTo DEF Report
  <1>5. Calm(u)
    BY <1>1, <1>3, <1>4 DEF Report, Calm, Ends, Called, NotCalled
  <1>6. RuntimeTypes'
    BY TypesSplit DEF Report, RuntimeTypes, Container, Mounts
  <1>7. \A n \in Names : known'[n] = known[n] \/ (runtime[n] # NoOne /\ known'[n] = runtime[n].id)
    BY <1>1, TypesSplit DEF Report, Relisted, OtherTypes, CallOwned
  <1>8. known' \in [Names -> 1 .. MaxId]
    BY <1>1, TypesSplit DEF Report, Relisted, OtherTypes, CallOwned, RuntimeTypes, Container
  <1>9. RecreateTypeOK' /\ Grows
    BY <1>4, <1>6, <1>8, SameGrows, TypesSplit DEF OtherTypes, Report
  <1>10. CallOwned(u)'
    BY <1>1, <1>3, <1>4, <1>9, OwnedCall DEF Report, CallOwned
  <1>11. \A v \in Updates : v # u => (Called(v)' => CallOwned(v)')
    BY <1>4, <1>9, OwnedStays DEF IdsOwned, Report
  <1> QED
    BY <1>5, <1>7, <1>9, <1>10, <1>11, NamesOwned DEF IdsOwned, Report

------------------------------------------------------------------------------
(***************************************************************************)
(* No container is removed twice.                                          *)
(***************************************************************************)
LEMMA OnceCalm ==
    ASSUME RemovedOnce, NEW u \in Updates, Calm(u)
    PROVE  RemovedOnce'
  BY DEF RemovedOnce, Calm, Begins, Ends, PastRemoval, Exists, Live

LEMMA OnceWork ==
    ASSUME RecreateTypeOK, IdsOwned, RemovedOnce, NEW u \in Updates, WorkStep(u)
    PROVE  RemovedOnce'
  <1>1. \A id : id \in 0 .. ids /\ ~Exists(id) => ~Exists(id)'
    BY WorkGrows, GoneOrOwned
  <1>2. /\ \A v \in Updates : upd'[v].id = upd[v].id /\ (v # u => upd'[v] = upd[v])
        /\ CallOwned(u)
    BY WorkSpares
  <1>3. PastRemoval(u)' => PastRemoval(u) \/ RemoveOld(u)
    <2>1. CASE Look(u) \/ ListProject(u) \/ StopNext(u)
      BY <2>1, LookDoes, ListDoes, StopDoes DEF PastRemoval
    <2>2. CASE Pull(u) \/ Halt(u) \/ StartNew(u) \/ Reload(u) \/ UpdateFails(u)
      BY <2>2, GoesOn DEF PastRemoval, StartNew, Reload
    <2>3. CASE Create(u) \/ RestartNext(u) \/ RemoveOld(u)
      BY <2>3, CreateDoes, RestartDoes DEF PastRemoval
    <2> QED
      BY <2>1, <2>2, <2>3 DEF WorkStep
  <1>4. \A v \in Updates : PastRemoval(v) => ~Exists(upd[v].id) /\ ~Exists(upd[v].id)'
    <2> SUFFICES ASSUME NEW v \in Updates, PastRemoval(v) PROVE ~Exists(upd[v].id) /\ ~Exists(upd[v].id)'
      OBVIOUS
    <2>1. upd[v].id \in 0 .. ids /\ ~Exists(upd[v].id) /\ upd'[v].id = upd[v].id
      BY <1>2, PastNew, TypesSplit DEF RemovedOnce, PastRemoval, IdsOwned, CallOwned, Owns
    <2> QED
      BY <1>1, <2>1
  <1>5. CASE RemoveOld(u)
    <2>1. Exists(upd[u].id) /\ ~Exists(upd[u].id)'
      BY <1>2, <1>5, RemoveDoes DEF Exists, Live, CallOwned, Owns
    <2> QED
      BY <1>2, <1>4, <2>1 DEF RemovedOnce, PastRemoval
  <1>6. CASE ~RemoveOld(u)
    BY <1>2, <1>3, <1>4, <1>6 DEF RemovedOnce, PastRemoval
  <1> QED
    BY <1>5, <1>6

------------------------------------------------------------------------------
(***************************************************************************)
(* An ordinary container keeps its mounts.                                  *)
(***************************************************************************)
LEMMA AllCarried ==
    ASSUME NEW n, Ordinary(n) PROVE Carried(n, Mounts(n)) = Mounts(n)
  BY DEF Ordinary, Carried, Hides

LEMMA MountsCalm ==
    ASSUME MountsKept, MountsHeld, NEW u \in Updates, Calm(u)
    PROVE  MountsKept' /\ MountsHeld'
  BY DEF MountsKept, MountsHeld, Calm, Begins, Ends, HasLooked, Live, Ordinary, Mounts, SameSource, Target

LEMMA MountsWork ==
    ASSUME RecreateTypeOK, IdsOwned, MountsKept, MountsHeld, NEW u \in Updates, WorkStep(u)
    PROVE  MountsKept' /\ MountsHeld'
  <1>1. /\ \A v \in Updates : v # u => upd'[v] = upd[v]
        /\ CallOwned(u) /\ plan' = plan /\ RuntimeTypes
    BY WorkSpares, TypesSplit
  <1>2. \A n \in Names : runtime'[n] # NoOne =>
            (runtime[n] # NoOne /\ runtime'[n].mounts = runtime[n].mounts) \/ (Create(u) /\ n = Target(u))
    <2>1. CASE UNCHANGED runtime
      BY <2>1
    <2>2. ASSUME NEW id, NEW on \in BOOLEAN, SetRunning(id, on)
          PROVE \A n \in Names : runtime'[n] # NoOne => runtime[n] # NoOne /\ runtime'[n].mounts = runtime[n].mounts
      BY <1>1, <2>2, SetRunningDoes
    <2>3. CASE RemoveOld(u) \/ Create(u)
      BY <2>3, RemoveDoes, CreateDoes
    <2> QED
      BY <2>1, <2>2, <2>3 DEF WorkStep, Look, ListProject, StopNext, Pull, Halt, RestartNext,
                              StartNew, Reload, UpdateFails
  <1>3. MountsKept'
    <2> SUFFICES ASSUME NEW n \in Names, runtime'[n] # NoOne, Ordinary(n) PROVE runtime'[n].mounts = Mounts(n)
      BY DEF MountsKept, Live, Ordinary, Mounts, SameSource
    <2>1. CASE Create(u) /\ n = Target(u)
      <3>1. upd[u].mounts = Mounts(n) /\ runtime'[n].mounts = Carried(n, upd[u].mounts)
        BY <2>1, CreateDoes DEF MountsHeld, HasLooked
      <3> QED
        BY <3>1, AllCarried
    <2> QED
      BY <1>2, <2>1 DEF MountsKept, Live
  <1>4. HasLooked(u)' => Look(u) \/ (HasLooked(u) /\ upd'[u].mounts = upd[u].mounts)
    <2>1. CASE ListProject(u) \/ StopNext(u) \/ Create(u) \/ RestartNext(u)
      BY <2>1, ListDoes, StopDoes, AfterCreateDoes, RestartDoes DEF HasLooked
    <2>2. CASE Pull(u) \/ Halt(u) \/ RemoveOld(u) \/ StartNew(u) \/ Reload(u) \/ UpdateFails(u)
      BY <2>2, GoesOn DEF HasLooked, Pull, Halt, RemoveOld
    <2> QED
      BY <2>1, <2>2 DEF WorkStep
  <1>5. Look(u) /\ Ordinary(Target(u)) => upd'[u].mounts = Mounts(Target(u))
    BY <1>1, LookDoes DEF MountsKept, Live, CallOwned
  <1>6. MountsHeld'
    BY <1>1, <1>4, <1>5 DEF MountsHeld, HasLooked, Ordinary, Mounts, SameSource, Target
  <1> QED
    BY <1>3, <1>6

------------------------------------------------------------------------------
(***************************************************************************)
(* A container is missing only where an update stands or stood.               *)
(***************************************************************************)
LEMMA MissingCalm ==
    ASSUME MissingOnlyAtCreate, NEW u \in Updates, Calm(u)
    PROVE  MissingOnlyAtCreate'
  BY DEF MissingOnlyAtCreate, Calm, Begins, Ends, Target

LEMMA MissingWork ==
    ASSUME RecreateTypeOK, IdsOwned, MissingOnlyAtCreate, NEW u \in Updates, WorkStep(u)
    PROVE  MissingOnlyAtCreate'
  <1>1. /\ \A v \in Updates : v # u => upd'[v] = upd[v]
        /\ \A v \in Updates : Target(v)' = Target(v)
        /\ UnderWay(u) /\ CallOwned(u) /\ plan' = plan /\ RuntimeTypes
    BY WorkSpares, TypesSplit DEF Target
  <1> SUFFICES ASSUME NEW n \in Names, runtime'[n] = NoOne
               PROVE  \E v \in Updates : /\ Target(v) = n
                                         /\ \/ upd'[v].pc = "creating"
                                            \/ upd'[v].pc = "failed" /\ upd'[v].at = "creating"
    BY <1>1 DEF MissingOnlyAtCreate
  <1>2. CASE RemoveOld(u) /\ n = Target(u)
    BY <1>2, GoesOn
  <1>3. CASE ~(RemoveOld(u) /\ n = Target(u))
    <2>1. runtime[n] = NoOne /\ (Create(u) => n # Target(u))
      <3>1. ASSUME NEW id, NEW on \in BOOLEAN, SetRunning(id, on) PROVE runtime[n] = NoOne
        BY <1>1, <3>1, SetRunningDoes
      <3>2. CASE RemoveOld(u) \/ Create(u)
        BY <1>3, <3>2, RemoveDoes, CreateDoes
      <3> QED
        BY <3>1, <3>2 DEF WorkStep, Look, ListProject, StopNext, Pull, Halt, RestartNext,
                          StartNew, Reload, UpdateFails
    <2>2. PICK v \in Updates : /\ Target(v) = n
                               /\ upd[v].pc = "creating" \/ (upd[v].pc = "failed" /\ upd[v].at = "creating")
      BY <2>1 DEF MissingOnlyAtCreate
    <2>3. CASE v = u
      <3>1. upd[u].pc = "creating"
        BY <1>1, <2>2, <2>3 DEF UnderWay
      <3>2. UpdateFails(u)
        BY <2>1, <2>2, <2>3, <3>1 DEF WorkStep, Look, ListProject, StopNext, Pull, Halt, RemoveOld, RestartNext,
                                      StartNew, Reload
      <3> QED
        BY <2>2, <2>3, <3>1, <3>2, GoesOn
    <2> QED
      BY <1>1, <2>2, <2>3
  <1> QED
    BY <1>2, <1>3

------------------------------------------------------------------------------
(***************************************************************************)
(* A call that is under way stays called; with its target, and those that were *)
(* under way when it began, containers stay contended.                       *)
(***************************************************************************)
LEMMA StaysCalled ==
    ASSUME RecreateTypeOK, IdsOwned, NEW u \in Updates, WorkStep(u)
    PROVE  upd'[u].pc # "new" /\ Called(u)'
  <1>1. upd'[u].pc # "new"
    <2>1. CASE Look(u) \/ ListProject(u)
      BY <2>1, LookDoes, ListDoes
    <2>2. CASE StopNext(u) \/ RestartNext(u)
      BY <2>2, StopDoes, RestartDoes
    <2>3. CASE Pull(u) \/ Halt(u) \/ RemoveOld(u) \/ StartNew(u) \/ Reload(u) \/ UpdateFails(u)
      BY <2>3, GoesOn
    <2>4. CASE Create(u)
      BY <2>4, AfterCreateDoes
    <2> QED
      BY <2>1, <2>2, <2>3, <2>4 DEF WorkStep
  <1> QED
    BY <1>1 DEF Called, NotCalled

LEMMA ContendedStays ==
    ASSUME plan' = plan, NEW u \in Updates, Called(u)', ~Called(u) \/ upd'[u].beside = upd[u].beside,
           \A v \in Updates : v # u => upd'[v] = upd[v]
    PROVE  \A n : Contended(n) => Contended(n)'
  BY DEF Contended, Called, Target, Composed

LEMMA OverlapsCalm ==
    ASSUME Overlaps, NEW u \in Updates, Calm(u) PROVE Overlaps'
  BY DEF Overlaps, Calm, Begins, Ends, UnderWay, Target

LEMMA OverlapsWork ==
    ASSUME RecreateTypeOK, IdsOwned, Overlaps, NEW u \in Updates, WorkStep(u) PROVE Overlaps'
  <1>1. /\ plan' = plan /\ UnderWay(u) /\ upd'[u].beside = upd[u].beside
        /\ \A v \in Updates : v # u => upd'[v] = upd[v]
    BY WorkSpares
  <1> QED
    BY <1>1 DEF Overlaps, UnderWay, Target

LEMMA BranchesCalm ==
    ASSUME Branches, NEW u \in Updates, Calm(u) PROVE Branches'
  BY DEF Branches, Calm, Begins, Ends, Target, Composed

LEMMA BranchesWork ==
    ASSUME RecreateTypeOK, IdsOwned, Branches, NEW u \in Updates, WorkStep(u) PROVE Branches'
  <1>1. plan' = plan /\ \A v \in Updates : v # u => upd'[v] = upd[v]
    BY WorkSpares
  <1>2. /\ upd'[u].pc \in {"listing", "stopping"} => Composed(Target(u))
        /\ upd'[u].pc = "halting" => ~Composed(Target(u))
    <2>1. CASE Look(u) \/ ListProject(u) \/ StopNext(u)
      BY <2>1, LookDoes, ListDoes, StopDoes DEF Branches
    <2>2. CASE Pull(u) \/ Halt(u) \/ RemoveOld(u) \/ StartNew(u) \/ Reload(u) \/ UpdateFails(u)
      BY <2>2, GoesOn
    <2>3. CASE Create(u) \/ RestartNext(u)
      BY <2>3, AfterCreateDoes, RestartDoes
    <2> QED
      BY <2>1, <2>2, <2>3 DEF WorkStep
  <1> QED
    BY <1>1, <1>2 DEF Branches, Target, Composed

------------------------------------------------------------------------------
(***************************************************************************)
(* What a call owes it goes on to owe, or the container is there.  So a call    *)
(* that is doomed fails in the end: once all is told, no call was ever doomed. *)
(***************************************************************************)
LEMMA OwedIds ==
    ASSUME RecreateTypeOK, IdsOwned, NEW u \in Updates, NEW id \in Owed(u)
    PROVE  /\ Called(u) /\ UnderWay(u) /\ CallOwned(u) /\ id \in 0 .. ids
           /\ id \in upd[u].ran \/ id = upd[u].new
  <1>1. upd[u].pc \in {"stopping", "pulling", "halting", "removing", "creating", "restarting", "starting"}
    BY DEF Owed
  <1>2. Called(u) /\ UnderWay(u) /\ CallOwned(u)
    BY <1>1, PastNew, TypesSplit DEF UnderWay, IdsOwned
  <1>3. id \in upd[u].ran \/ id = upd[u].new
    BY <1>1, <1>2 DEF Owed, Successor, CallOwned
  <1> QED
    BY <1>2, <1>3 DEF CallOwned, Owns

LEMMA OwedOnce ==
    ASSUME RecreateTypeOK, IdsOwned, NEW u \in Updates, WorkStep(u), ~UpdateFails(u), NEW id \in Owed(u)
    PROVE  id \in Owed(u)' \/ Exists(id)
  <1>1. upd'[u].id = upd[u].id /\ (~Create(u) => upd'[u].new = upd[u].new)
    BY WorkSpares
  <1>2. CASE Look(u) \/ ListProject(u) \/ StopNext(u)
    BY <1>2, LookDoes, ListDoes, StopDoes DEF Owed
  <1>3. CASE Pull(u) \/ Halt(u)
    BY <1>3, GoesOn DEF Owed, Pull, Halt
  <1>4. CASE RemoveOld(u)
    BY <1>1, <1>4, GoesOn DEF Owed, RemoveOld
  <1>5. CASE Create(u)
    BY <1>5, CreateDoes, AfterCreateDoes DEF Owed
  <1>6. CASE RestartNext(u)
    <2>1. Successor(u)' = Successor(u)
      BY <1>1, <1>6, RestartDoes DEF Successor, Create, RestartNext
    <2> QED
      BY <1>6, <2>1, RestartDoes DEF Owed
  <1>7. CASE StartNew(u) \/ Reload(u)
    BY <1>7 DEF StartNew, Reload, Owed, Successor
  <1> QED
    BY <1>2, <1>3, <1>4, <1>5, <1>6, <1>7 DEF WorkStep

LEMMA SoundBefore ==
    ASSUME RecreateTypeOK, IdsOwned, NEW u \in Updates, WorkStep(u), Sound'
    PROVE  Sound /\ ~UpdateFails(u)
  <1>1. UnderWay(u) /\ \A v \in Updates : v # u => upd'[v] = upd[v]
    BY WorkSpares
  <1>2. ~UpdateFails(u)
    BY GoesOn DEF Sound
  <1>3. ASSUME NEW v \in Updates, NEW id \in Owed(v), ~Exists(id) PROVE FALSE
    <2>1. ~Exists(id)'
      BY <1>3, OwedIds, WorkGrows, GoneOrOwned
    <2>2. id \in Owed(v)'
      <3>1. CASE v = u
        BY <1>2, <1>3, <3>1, OwedOnce
      <3>2. CASE v # u
        BY <1>1, <1>3, <3>2 DEF Owed, Successor
      <3> QED
        BY <3>1, <3>2
    <2> QED
      BY <2>1, <2>2 DEF Sound, Doomed
  <1>4. \A v \in Updates : upd[v].pc # "failed"
    BY <1>1 DEF Sound, UnderWay
  <1> QED
    BY <1>2, <1>3, <1>4 DEF Sound, Doomed

------------------------------------------------------------------------------
(***************************************************************************)
(* Which containers stop in a step: the ones in a call's list, or its own.     *)
(***************************************************************************)
LEMMA StopsOwed ==
    ASSUME RecreateTypeOK, IdsOwned, Branches, SeenRunning, Sound, NEW u \in Updates, WorkStep(u),
           NEW n \in plan.ran, n \in Running(Names), n \notin Running(Names)'
    PROVE  Contended(n) \/ Answers(u, n)'
  <1>1. /\ n \in Names /\ RuntimeTypes /\ CallOwned(u) /\ upd'[u].id = upd[u].id
        /\ runtime[n] # NoOne /\ runtime[n].running
        /\ runtime'[n] = NoOne \/ ~runtime'[n].running
    BY WorkSpares, TypesSplit DEF Running, Live
  <1>2. ASSUME NEW id, NEW on \in BOOLEAN, SetRunning(id, on), ~on
        PROVE  runtime'[n] # NoOne /\ runtime[n].id = id /\ runtime'[n].id = id
    <2>1. /\ runtime'[n] # NoOne /\ runtime'[n].id = runtime[n].id
          /\ runtime[n].id # id => runtime'[n].running = runtime[n].running
      BY <1>1, <1>2, SetRunningDoes
    <2> QED
      BY <1>1, <2>1
  <1>3. CASE StopNext(u)
    <2>1. PICK id \in upd[u].todo : SetRunning(id, FALSE) /\ upd'[u].pc = "stopping"
      BY <1>1, <1>3, StopDoes
    <2>2. runtime'[n] # NoOne /\ runtime'[n].id \in upd'[u].ran
      BY <1>1, <1>2, <1>3, <2>1, StopDoes DEF CallOwned
    <2> QED
      BY <2>1, <2>2 DEF Answers, Owed
  <1>4. CASE Halt(u)
    <2>1. runtime'[n] # NoOne /\ runtime[n].id = upd[u].id /\ runtime'[n].id = upd[u].id
      BY <1>2, <1>4 DEF Halt
    <2>2. n = Target(u)
      BY <1>1, <2>1 DEF CallOwned, Owns
    <2>3. Contended(n) \/ upd[u].id \in upd[u].ran
      BY <1>4, <2>2 DEF SeenRunning, Branches, Halt
    <2> QED
      BY <1>4, <2>1, <2>3, GoesOn DEF Answers, Owed
  <1>5. ASSUME NEW id, SetRunning(id, TRUE) PROVE FALSE
    BY <1>1, <1>5, SetRunningDoes
  <1>6. ~RestartNext(u) /\ ~StartNew(u)
    BY <1>1, <1>5 DEF RestartNext, StartNew
  <1>7. ~RemoveOld(u) /\ ~Create(u)
    BY <1>1, RemoveDoes, CreateDoes
  <1> QED
    BY <1>1, <1>3, <1>4, <1>6, <1>7 DEF WorkStep, Look, ListProject, Pull, Reload, UpdateFails

(***************************************************************************)
(* A container that some call owes, that call goes on to owe, or it runs.      *)
(***************************************************************************)
LEMMA OtherAnswers ==
    ASSUME RecreateTypeOK, IdsOwned, Sound', NEW u \in Updates, WorkStep(u),
           NEW v \in Updates, v # u, NEW n \in Names, Answers(v, n)
    PROVE  Answers(v, n)'
  <1>1. upd'[v] = upd[v] /\ Target(v)' = Target(v) /\ RuntimeTypes /\ Owed(v)' = Owed(v)
    BY WorkSpares, TypesSplit DEF Target, Owed, Successor
  <1>2. CASE runtime[n] # NoOne /\ runtime[n].id \in Owed(v)
    <2>1. CASE runtime'[n] = NoOne
      <3>0. PICK lost : lost = runtime[n].id
        OBVIOUS
      <3>1. ~Exists(lost)'
        <4>1. RemoveOld(u) /\ n = Target(u)
          <5>1. ASSUME NEW id, NEW on \in BOOLEAN, SetRunning(id, on) PROVE FALSE
            BY <1>1, <1>2, <2>1, <5>1, SetRunningDoes
          <5> QED
            BY <1>2, <2>1, <5>1, RemoveDoes, CreateDoes DEF WorkStep, Look, ListProject, StopNext, Pull, Halt,
                                                          RestartNext, StartNew, Reload, UpdateFails
        <4>2. \A m \in Names : m # n => runtime'[m] = runtime[m]
          BY <4>1, RemoveDoes
        <4>3. Owns(n, lost)
          BY <1>2, <3>0 DEF IdsOwned
        <4> QED
          BY <2>1, <4>2, <4>3 DEF Exists, Live, Owns
      <3> QED
        BY <1>1, <1>2, <3>0, <3>1 DEF Sound, Doomed
    <2>2. CASE runtime'[n] # NoOne
      <3>1. runtime'[n].id = runtime[n].id
        <4>1. WorkStep(u) => Grows
          BY WorkGrows
        <4>2. CASE Create(u)
          BY <1>2, <4>2, CreateDoes
        <4>3. CASE ~Create(u)
          <5>1. ASSUME NEW id, NEW on \in BOOLEAN, SetRunning(id, on) PROVE runtime'[n].id = runtime[n].id
            BY <1>1, <1>2, <5>1, SetRunningDoes
          <5> QED
            BY <2>2, <4>3, <5>1, RemoveDoes DEF WorkStep, Look, ListProject, StopNext, Pull, Halt,
                                               RestartNext, StartNew, Reload, UpdateFails
        <4> QED
          BY <4>2, <4>3
      <3> QED
        BY <1>1, <1>2, <2>2, <3>1 DEF Answers
    <2> QED
      BY <2>1, <2>2
  <1>3. CASE upd[v].pc = "creating" /\ Target(v) = n /\ upd[v].id \in upd[v].ran
    BY <1>1, <1>3 DEF Answers
  <1> QED
    BY <1>2, <1>3 DEF Answers

LEMMA OwnAnswers ==
    ASSUME RecreateTypeOK, IdsOwned, NEW u \in Updates, WorkStep(u), ~UpdateFails(u),
           NEW n \in Names, Answers(u, n)
    PROVE  Answers(u, n)' \/ n \in Running(Names)'
  <1>1. /\ CallOwned(u) /\ Target(u)' = Target(u) /\ RuntimeTypes /\ upd'[u].id = upd[u].id
        /\ ~Create(u) => upd'[u].new = upd[u].new
    BY WorkSpares, TypesSplit DEF Target
  <1>2. CASE Create(u)
    <2>1. /\ upd[u].pc = "creating" /\ upd'[u].pc = "restarting"
          /\ Owed(u) = upd[u].ran \ {upd[u].id}
          /\ Owed(u)' = (upd[u].ran \ {upd[u].id}) \cup (IF upd[u].id \in upd[u].ran THEN {ids + 1} ELSE {})
      BY <1>1, <1>2, CreateDoes, AfterCreateDoes DEF Owed, Successor
    <2>2. CASE n = Target(u)
      <3>1. upd[u].id \in upd[u].ran
        BY <1>2, <2>2, CreateDoes DEF Answers
      <3> QED
        BY <1>2, <2>1, <2>2, <3>1, CreateDoes DEF Answers
    <2>3. CASE n # Target(u)
      BY <1>2, <2>1, <2>3, CreateDoes DEF Answers
    <2> QED
      BY <2>2, <2>3
  <1>3. CASE ~Create(u)
    <2>1. runtime[n] # NoOne /\ runtime[n].id \in Owed(u)
      BY <1>3 DEF Answers, WorkStep, Look, ListProject, StopNext, Pull, Halt, RemoveOld,
                  RestartNext, StartNew, Reload
    <2>2. ASSUME NEW id, NEW on \in BOOLEAN, SetRunning(id, on)
          PROVE  /\ runtime'[n] # NoOne /\ runtime'[n].id = runtime[n].id
                 /\ on /\ runtime[n].id = id => n \in Running(Names)'
      BY <1>1, <2>1, <2>2, SetRunningDoes DEF Running, Live
    <2>3. CASE StopNext(u)
      <3>1. runtime'[n] # NoOne /\ runtime'[n].id = runtime[n].id
        BY <2>1, <2>2, <2>3, StopDoes
      <3> QED
        BY <2>1, <2>3, <3>1, StopDoes DEF Answers, Owed
    <2>4. CASE Pull(u) \/ Halt(u)
      <3>1. runtime'[n] # NoOne /\ runtime'[n].id = runtime[n].id
        <4>1. CASE Pull(u)
          BY <2>1, <4>1 DEF Pull
        <4>2. CASE Halt(u)
          BY <2>2, <4>2 DEF Halt
        <4> QED
          BY <2>4, <4>1, <4>2
      <3> QED
        BY <2>1, <2>4, <3>1, GoesOn DEF Answers, Owed, Pull, Halt
    <2>5. CASE RemoveOld(u)
      <3>1. upd[u].pc = "removing" /\ upd'[u].pc = "creating" /\ upd'[u].ran = upd[u].ran
            /\ runtime[n].id \in upd[u].ran
        BY <2>1, <2>5, GoesOn, RemoveDoes DEF Owed
      <3>2. CASE n = Target(u)
        BY <1>1, <2>5, <3>1, <3>2, RemoveDoes DEF Answers
      <3>3. CASE n # Target(u)
        <4>1. runtime'[n] = runtime[n] /\ runtime[n].id # upd[u].id
          BY <1>1, <2>1, <2>5, <3>3, RemoveDoes DEF CallOwned, Owns
        <4> QED
          BY <1>1, <2>1, <3>1, <4>1 DEF Answers, Owed
      <3> QED
        BY <3>2, <3>3
    <2>6. CASE RestartNext(u)
      <3>1. Successor(u)' = Successor(u) /\ Owed(u) = upd[u].todo \cup Successor(u)
        BY <1>1, <1>3, <2>6, RestartDoes DEF Successor, Owed
      <3>2. CASE \E id \in upd[u].todo : /\ SetRunning(id, TRUE)
                                         /\ upd'[u].pc = "restarting" /\ upd'[u].todo = upd[u].todo \ {id}
        <4>1. PICK id \in upd[u].todo : /\ SetRunning(id, TRUE)
                                        /\ upd'[u].pc = "restarting" /\ upd'[u].todo = upd[u].todo \ {id}
          BY <3>2
        <4>2. Owed(u)' = (upd[u].todo \ {id}) \cup Successor(u)
          BY <3>1, <4>1 DEF Owed
        <4> QED
          BY <2>1, <2>2, <3>1, <4>1, <4>2 DEF Answers
      <3>3. CASE runtime' = runtime /\ upd[u].todo = {} /\ upd'[u].pc = "starting"
        BY <2>1, <3>1, <3>3 DEF Answers, Owed
      <3> QED
        BY <2>6, <3>2, <3>3, RestartDoes
    <2>7. CASE StartNew(u)
      <3>1. upd[u].id \in upd[u].ran /\ runtime[n].id = upd[u].new
        BY <2>1, <2>7 DEF StartNew, Owed, Successor
      <3> QED
        BY <2>2, <2>7, <3>1 DEF StartNew
    <2>8. CASE Look(u) \/ ListProject(u) \/ Reload(u)
      BY <2>1, <2>8 DEF Look, ListProject, Reload, Owed
    <2> QED
      BY <1>3, <2>3, <2>4, <2>5, <2>6, <2>7, <2>8 DEF WorkStep
  <1> QED
    BY <1>2, <1>3

------------------------------------------------------------------------------
(***************************************************************************)
(* Losses stay owed, and what is halted was seen running, or two updates       *)
(* overlapped on it.                                                       *)
(***************************************************************************)
LEMMA CalmOwes ==
    ASSUME NEW u \in Updates, Calm(u)
    PROVE  /\ Sound' => Sound
           /\ \A v \in Updates : Owed(v)' = Owed(v)
           /\ \A v \in Updates : \A n : Answers(v, n) => Answers(v, n)'
           /\ \A n : Contended(n) => Contended(n)'
  <1>1. /\ upd[u].pc \in {"new", "reporting"} /\ upd'[u].pc \in {"looking", "told"}
        /\ \A v \in Updates : v # u => upd'[v] = upd[v]
        /\ runtime' = runtime /\ plan' = plan
        /\ Called(u)' /\ (~Called(u) \/ upd'[u].beside = upd[u].beside)
    BY DEF Calm, Begins, Ends
  <1>2. \A v \in Updates : Owed(v)' = Owed(v)
    BY <1>1 DEF Owed, Successor
  <1>3. \A id : Exists(id)' <=> Exists(id)
    BY <1>1 DEF Exists, Live
  <1>4. \A n : Contended(n) => Contended(n)'
    BY <1>1, ContendedStays
  <1> QED
    BY <1>1, <1>2, <1>3, <1>4 DEF Sound, Doomed, Answers, Target

LEMMA LossesCalm ==
    ASSUME LossesOwed, SeenRunning, NEW u \in Updates, Calm(u)
    PROVE  LossesOwed' /\ SeenRunning'
  <1>1. plan' = plan /\ runtime' = runtime
    BY DEF Calm
  <1>2. LossesOwed'
    BY <1>1, CalmOwes DEF LossesOwed, Running, Live
  <1>3. SeenRunning'
    BY <1>1, CalmOwes DEF SeenRunning, Calm, Begins, Ends, Target, Composed
  <1> QED
    BY <1>2, <1>3

LEMMA LossesWork ==
    ASSUME RecreateTypeOK, IdsOwned, LossesOwed, Branches, SeenRunning, NEW u \in Updates, WorkStep(u)
    PROVE  LossesOwed'
  <1>1. plan' = plan /\ \A n : Contended(n) => Contended(n)'
    BY WorkSpares, StaysCalled, ContendedStays
  <1> SUFFICES ASSUME Sound', NEW n \in plan.ran
               PROVE  Contended(n)' \/ n \in Running(Names)' \/ \E v \in Updates : Answers(v, n)'
    BY <1>1 DEF LossesOwed
  <1>2. Sound /\ ~UpdateFails(u) /\ n \in Names
    BY SoundBefore, PlansAssumption, TypesSplit DEF OtherTypes
  <1>3. CASE n \in Running(Names)
    BY <1>1, <1>2, <1>3, StopsOwed
  <1>4. ASSUME NEW v \in Updates, Answers(v, n)
        PROVE  n \in Running(Names)' \/ \E w \in Updates : Answers(w, n)'
    BY <1>2, <1>4, OtherAnswers, OwnAnswers
  <1> QED
    BY <1>1, <1>2, <1>3, <1>4 DEF LossesOwed

LEMMA SeenWork ==
    ASSUME RecreateTypeOK, IdsOwned, LossesOwed, Overlaps, Branches, SeenRunning, NEW u \in Updates, WorkStep(u)
    PROVE  SeenRunning'
  <1>1. /\ plan' = plan /\ \A n : Contended(n) => Contended(n)'
        /\ \A v \in Updates : v # u => upd'[v] = upd[v]
        /\ upd'[u].id = upd[u].id /\ CallOwned(u) /\ UnderWay(u) /\ Called(u)
    BY WorkSpares, StaysCalled, ContendedStays
  <1> SUFFICES ASSUME Sound', upd'[u].pc \in {"pulling", "halting"}, ~Composed(Target(u)), Target(u) \in plan.ran
               PROVE  Contended(Target(u)) \/ upd[u].id \in upd'[u].ran
    <2>1. Sound' => Sound
      BY SoundBefore
    <2> QED
      BY <1>1, <2>1 DEF SeenRunning, Target, Composed
  <1>2. Sound /\ ~UpdateFails(u)
    BY SoundBefore
  <1>3. CASE Look(u)
    <2>1. CASE Target(u) \in Running(Names)
      BY <1>3, <2>1, LookDoes DEF Running
    <2>2. ASSUME NEW v \in Updates, Answers(v, Target(u)) PROVE Contended(Target(u))
      <3>1. runtime[Target(u)] # NoOne /\ upd[u].pc = "looking"
        BY <1>3, LookDoes
      <3>2. v # u
        BY <2>2, <3>1 DEF Answers, Owed
      <3>3. UnderWay(v) /\ Called(v) /\ Target(v) = Target(u)
        <4>1. CASE upd[v].pc = "creating" /\ Target(v) = Target(u)
          BY <4>1, PastNew, TypesSplit DEF UnderWay
        <4>2. CASE runtime[Target(u)].id \in Owed(v)
          <5>1. /\ UnderWay(v) /\ Called(v) /\ CallOwned(v)
                /\ runtime[Target(u)].id \in upd[v].ran \/ runtime[Target(u)].id = upd[v].new
            BY <4>2, OwedIds
          <5>2. \A m : Owns(m, runtime[Target(u)].id) => m = Target(u)
            BY <1>1, <3>1 DEF Owns, CallOwned
          <5> QED
            BY <5>1, <5>2 DEF CallOwned
        <4> QED
          BY <2>2, <4>1, <4>2 DEF Answers
      <3> QED
        BY <1>1, <3>2, <3>3 DEF Overlaps, Contended, Called
    <2> QED
      BY <1>2, <2>1, <2>2 DEF LossesOwed
  <1>4. CASE Pull(u)
    BY <1>2, <1>4, GoesOn DEF SeenRunning, Pull
  <1>5. CASE StopNext(u)
    BY <1>5, StopDoes DEF Branches
  <1>6. upd'[u].pc \notin {"pulling", "halting"} \/ Look(u) \/ Pull(u) \/ StopNext(u)
    <2>1. CASE ListProject(u)
      BY <2>1, ListDoes
    <2>2. CASE Halt(u) \/ RemoveOld(u) \/ StartNew(u) \/ Reload(u) \/ UpdateFails(u)
      BY <2>2, GoesOn
    <2>3. CASE Create(u)
      BY <2>3, AfterCreateDoes
    <2>4. CASE RestartNext(u)
      BY <2>4, RestartDoes
    <2> QED
      BY <2>1, <2>2, <2>3, <2>4 DEF WorkStep
  <1> QED
    BY <1>3, <1>4, <1>5, <1>6

LEMMA RestIsSound ==
    ASSUME LossesOwed PROVE LossIsTold
  <1> SUFFICES ASSUME AtRest, \A u \in Updates : upd[u].pc # "failed"
               PROVE  \A n \in plan.ran : n \in Running(Names) \/ Contended(n)
    BY DEF LossIsTold
  <1>1. \A u \in Updates : upd[u].pc \in {"new", "told"}
    BY DEF AtRest, UnderWay
  <1>2. \A u \in Updates : Owed(u) = {}
    BY <1>1 DEF Owed
  <1> QED
    BY <1>1, <1>2 DEF LossesOwed, Sound, Doomed, Answers

------------------------------------------------------------------------------
(***************************************************************************)
(* Every step keeps all of this.                                           *)
(***************************************************************************)
LEMMA RecreateInvInit == RecreateInit => RecreateInv
  <1> SUFFICES ASSUME RecreateInit PROVE RecreateInv
    OBVIOUS
  <1>1. RecreateTypeOK /\ RuntimeTypes /\ IdsOwned
    BY TypesInit, OwnedInit
  <1>2. /\ \A u \in Updates : upd[u].pc = "new"
        /\ \A n \in Names : /\ runtime[n].mounts = Mounts(n) /\ runtime[n].running = (n \in plan.ran)
                            /\ runtime[n] # NoOne
        /\ plan.ran \subseteq Names
    <2>1. /\ \A u \in Updates : upd[u].pc = "new"
          /\ \A n \in Names : runtime[n].mounts = Mounts(n) /\ runtime[n].running = (n \in plan.ran)
          /\ plan.ran \subseteq Names
      BY PlansAssumption DEF RecreateInit, NotCalled
    <2>2. ASSUME NEW n \in Names PROVE runtime[n] # NoOne
      <3>1. runtime[n] = [id |-> FirstId[n], running |-> n \in plan.ran,
                          image |-> plan.image, mounts |-> Mounts(n)]
        BY DEF RecreateInit
      <3>2. FirstId[n] \in 1 .. MaxId /\ plan.image \in Images /\ Mounts(n) \in SUBSET Mounts(n)
        BY RecreateAssumption, PlansAssumption, FS_CardinalityType DEF RecreateInit
      <3>3. runtime[n] \in Container(n)
        BY <3>1, <3>2 DEF Container
      <3> QED
        BY <3>3, NoOneIsNoContainer
    <2> QED
      BY <2>1, <2>2
  <1>3. RemovedOnce /\ MountsKept /\ MountsHeld /\ MissingOnlyAtCreate /\ Overlaps /\ Branches /\ SeenRunning
    BY <1>2 DEF RemovedOnce, PastRemoval, MountsKept, Live, MountsHeld, HasLooked, MissingOnlyAtCreate,
                Overlaps, UnderWay, Branches, SeenRunning
  <1>4. LossesOwed
    BY <1>2 DEF LossesOwed, Running, Live
  <1> QED
    BY <1>1, <1>3, <1>4 DEF RecreateInv

LEMMA RecreateInvCalm ==
    ASSUME RecreateInv, NEW u \in Updates, Report(u) \/ \E image \in Images : Begin(u, image)
    PROVE  RecreateInv' /\ plan' = plan /\ runtime' = runtime
  <1>1. Calm(u) /\ RecreateTypeOK' /\ IdsOwned'
    BY ReportDoes, BeginIsCalm, BeginTypes, BeginOwned DEF RecreateInv
  <1>2. RemovedOnce' /\ MountsKept' /\ MountsHeld' /\ MissingOnlyAtCreate'
    BY <1>1, OnceCalm, MountsCalm, MissingCalm DEF RecreateInv
  <1>3. LossesOwed' /\ Overlaps' /\ Branches' /\ SeenRunning'
    BY <1>1, LossesCalm, OverlapsCalm, BranchesCalm DEF RecreateInv
  <1> QED
    BY <1>1, <1>2, <1>3 DEF RecreateInv, Calm

LEMMA RecreateInvWork ==
    ASSUME RecreateInv, NEW u \in Updates, WorkStep(u)
    PROVE  RecreateInv'
  <1>1. RecreateTypeOK' /\ IdsOwned'
    BY WorkTypes, WorkOwned DEF RecreateInv
  <1>2. RemovedOnce' /\ MountsKept' /\ MountsHeld' /\ MissingOnlyAtCreate'
    BY OnceWork, MountsWork, MissingWork DEF RecreateInv
  <1>3. LossesOwed' /\ Overlaps' /\ Branches' /\ SeenRunning'
    BY LossesWork, OverlapsWork, BranchesWork, SeenWork DEF RecreateInv
  <1> QED
    BY <1>1, <1>2, <1>3 DEF RecreateInv

LEMMA SameCallsAndContainers ==
    ASSUME UNCHANGED <<runtime, upd, plan>>
    PROVE  /\ (RemovedOnce /\ MountsKept /\ MountsHeld /\ MissingOnlyAtCreate)
                => (RemovedOnce /\ MountsKept /\ MountsHeld /\ MissingOnlyAtCreate)'
           /\ (LossesOwed /\ Overlaps /\ Branches /\ SeenRunning)
                => (LossesOwed /\ Overlaps /\ Branches /\ SeenRunning)'
  <1>1. /\ \A u : Owed(u)' = Owed(u) /\ Target(u)' = Target(u) /\ (UnderWay(u)' <=> UnderWay(u))
        /\ \A n : Contended(n)' <=> Contended(n)
        /\ \A id : Exists(id)' <=> Exists(id)
        /\ Running(Names)' = Running(Names) /\ Live(Names)' = Live(Names)
        /\ \A n : (Ordinary(n)' <=> Ordinary(n)) /\ Mounts(n)' = Mounts(n) /\ (Composed(n)' <=> Composed(n))
    BY DEF Owed, Successor, Target, UnderWay, Contended, Composed, Exists, Running, Live, Ordinary, Mounts, SameSource
  <1>2. Sound' <=> Sound
    BY <1>1 DEF Sound, Doomed
  <1>3. (RemovedOnce /\ MountsKept /\ MountsHeld /\ MissingOnlyAtCreate)
            => (RemovedOnce /\ MountsKept /\ MountsHeld /\ MissingOnlyAtCreate)'
    BY <1>1 DEF RemovedOnce, PastRemoval, MountsKept, MountsHeld, HasLooked, MissingOnlyAtCreate
  <1>4. (LossesOwed /\ Overlaps /\ Branches /\ SeenRunning)
            => (LossesOwed /\ Overlaps /\ Branches /\ SeenRunning)'
    BY <1>1, <1>2 DEF LossesOwed, Answers, Overlaps, Branches, SeenRunning
  <1> QED
    BY <1>3, <1>4

LEMMA RecreateInvSync ==
    ASSUME RecreateInv, SyncIds
    PROVE  RecreateInv'
  <1>1. RecreateTypeOK' /\ IdsOwned'
    BY SyncOwned DEF RecreateInv
  <1> QED
    BY <1>1, SameCallsAndContainers DEF RecreateInv, SyncIds

LEMMA RecreateInvSame ==
    ASSUME RecreateInv, UNCHANGED recreateVars
    PROVE  RecreateInv'
  <1>1. RecreateTypeOK'
    BY TypesSplit DEF RecreateInv, recreateVars, OtherTypes, CallTypes, RuntimeTypes, Call, Container, Mounts, Target
  <1>2. IdsOwned'
    <2>1. /\ \A n, id : Owns(n, id)' <=> Owns(n, id)
          /\ \A u : Called(u)' <=> Called(u)
      BY DEF recreateVars, Owns, Called
    <2>2. \A u \in Updates : CallOwned(u) => CallOwned(u)'
      BY <2>1 DEF CallOwned, recreateVars, Target, Composed
    <2> QED
      BY <2>1, <2>2 DEF RecreateInv, IdsOwned, recreateVars
  <1> QED
    BY <1>1, <1>2, SameCallsAndContainers DEF RecreateInv, recreateVars

LEMMA RemovedOnceReplacesOnce == RemovedOnce => ReplacedOnce
  BY DEF RemovedOnce, ReplacedOnce, PastRemoval

==============================================================================
