------------------------------- MODULE Recreate -------------------------------
(***************************************************************************)
(* DockerService.pull_and_recreate: an update of a container of a direct host  *)
(* pulls its image, removes the container and creates it anew, one call of     *)
(* the runtime after another in a thread; one of a compose project stops and   *)
(* starts the rest of the project around it.  Updates overlap, any call of the *)
(* runtime may fail, and a worker may die between two.                       *)
(***************************************************************************)
EXTENDS Integers, FiniteSets

CONSTANTS
    Names,        \* containers by name; a name belongs to one at a time
    Projects,     \* the compose projects: disjoint sets of names
    Images,       \* images
    FirstId,      \* the order in which they were created
    MountsOf,     \* the mounts they were created with, in order
    Updates,      \* calls of pull_and_recreate, each made at most once
    Plans,        \* what runs and what is updated in one behaviour
    MaxId,        \* bound on the containers created
    NoOne         \* no container

(***************************************************************************)
(* A mount: where from, and how it was asked for: as a bind in HostConfig.Binds,*)
(* as a named or anonymous volume, or as a bind by --mount, which stands in    *)
(* HostConfig.Mounts.                                                      *)
(***************************************************************************)
Kinds == {"bind", "volume", "mount"}

ASSUME RecreateAssumption ==
    /\ IsFiniteSet(Names) /\ MaxId \in Nat /\ MaxId >= Cardinality(Names)
    /\ FirstId \in [Names -> 1 .. Cardinality(Names)]
    /\ \A n, m \in Names : FirstId[n] = FirstId[m] => n = m
    /\ \A p, q \in Projects : p \cap q # {} => p = q
    /\ \A n \in Names : \A i \in DOMAIN MountsOf[n] : MountsOf[n][i].kind \in Kinds

ASSUME PlansAssumption ==
    /\ NoOne \notin Names /\ \A p \in Projects : p \subseteq Names
    /\ \A p \in Plans : /\ p.image \in Images /\ p.ran \subseteq Names
                       /\ p.target \in [Updates -> Names \cup {NoOne}]

VARIABLES
    runtime,      \* the container of each name
    ids,          \* the last container created
    known,        \* container_id in the row of each name
    upd,          \* each call
    plan          \* the first image, what runs first, what each call updates

recreateVars == <<runtime, ids, known, upd, plan>>

(***************************************************************************)
(* A container: which of the mounts of its name it has, by their place.       *)
(***************************************************************************)
Mounts(n) == DOMAIN MountsOf[n]

Container(n) == [id: 1 .. MaxId, running: BOOLEAN, image: Images, mounts: SUBSET Mounts(n)]

ASSUME NoOneIsNoContainer == \A n \in Names : NoOne \notin Container(n)

(***************************************************************************)
(* A call: the container it updates, by id; the image; the containers that ran *)
(* when it looked; the ones still to stop or start; the new container; and the *)
(* updates of the same container that were under way when it began.          *)
(***************************************************************************)
UpdatePCs == {"looking", "listing", "stopping", "pulling", "halting", "removing",
              "creating", "restarting", "starting", "reloading", "reporting", "told", "failed"}

Call(n) == [pc: UpdatePCs, at: UpdatePCs, id: 1 .. MaxId, image: Images, mounts: SUBSET Mounts(n),
            ran: SUBSET (1 .. MaxId), todo: SUBSET (1 .. MaxId), new: 0 .. MaxId,
            beside: SUBSET Updates]

NotCalled == [pc |-> "new"]

Target(u) == plan.target[u]

RecreateTypeOK ==
    /\ plan \in Plans
    /\ DOMAIN runtime = Names /\ \A n \in Names : runtime[n] \in Container(n) \cup {NoOne}
    /\ ids \in 0 .. MaxId
    /\ known \in [Names -> 1 .. MaxId]
    /\ DOMAIN upd = Updates /\ \A u \in Updates : upd[u] = NotCalled \/ upd[u] \in Call(Target(u))

RecreateInit ==
    /\ plan \in Plans
    /\ runtime = [n \in Names |-> [id |-> FirstId[n], running |-> n \in plan.ran,
                                   image |-> plan.image, mounts |-> Mounts(n)]]
    /\ ids = Cardinality(Names)
    /\ known = FirstId
    /\ upd = [u \in Updates |-> NotCalled]

------------------------------------------------------------------------------
Composed(n) == \E p \in Projects : n \in p

ProjectOf(n) == UNION {p \in Projects : n \in p}

Live(ns) == {n \in ns : runtime[n] # NoOne}

Exists(id) == \E n \in Live(Names) : runtime[n].id = id

Running(ns) == {n \in Live(ns) : runtime[n].running}

Ids(ns) == {runtime[n].id : n \in ns}

(***************************************************************************)
(* Ids are given in the order of creation.                                 *)
(***************************************************************************)
IsEldest(id, some) == id \in some /\ \A i \in some : id <= i
IsYoungest(id, some) == id \in some /\ \A i \in some : i <= id

SetRunning(id, on) ==
    runtime' = [n \in Names |-> IF runtime[n] # NoOne /\ runtime[n].id = id
                                THEN [runtime[n] EXCEPT !.running = on] ELSE runtime[n]]

Goes(u, call) == upd' = [upd EXCEPT ![u] = call]

(***************************************************************************)
(* What is left of a container's mounts: the dictionary of volumes is keyed by *)
(* their source, so that of two with one source the later stays, and a bind    *)
(* before a volume; a bind by --mount is in neither list.                    *)
(***************************************************************************)
SameSource(n, i, j) == MountsOf[n][i].source = MountsOf[n][j].source

Hides(n, j, i) ==
    /\ i # j /\ SameSource(n, i, j)
    /\ \/ MountsOf[n][i].kind = MountsOf[n][j].kind /\ i < j
       \/ MountsOf[n][i].kind = "volume" /\ MountsOf[n][j].kind = "bind"

(***************************************************************************)
(* A mistake one could make, the body of a mutant: only the binds are carried  *)
(* over.                                                                   *)
(***************************************************************************)
CarriedBinds(n, mounts) ==
    {i \in mounts : MountsOf[n][i].kind = "bind" /\ ~\E j \in mounts : Hides(n, j, i)}

Carried(n, mounts) ==
    {i \in mounts : MountsOf[n][i].kind # "mount" /\ ~\E j \in mounts : Hides(n, j, i)}

------------------------------------------------------------------------------
(***************************************************************************)
(* A user applies an update: the id is the one of the container's row.        *)
(***************************************************************************)
UnderWay(u) == upd[u].pc \notin {"new", "told", "failed"}

Begin(u, image) ==
    /\ upd[u] = NotCalled /\ Target(u) # NoOne
    /\ Goes(u, [pc |-> "looking", at |-> "looking", id |-> known[Target(u)], image |-> image,
                mounts |-> {}, ran |-> {}, todo |-> {}, new |-> 0,
                beside |-> {v \in Updates : UnderWay(v) /\ Target(v) = Target(u)}])
    /\ UNCHANGED <<runtime, ids, known, plan>>

(***************************************************************************)
(* The container is fetched by its id.  One without a compose label is         *)
(* recreated by itself and must run again if it runs now.                   *)
(***************************************************************************)
Look(u) ==
    /\ upd[u].pc = "looking" /\ Exists(upd[u].id)
    /\ LET c    == runtime[Target(u)]
           seen == [upd[u] EXCEPT !.mounts = c.mounts]
       IN \/ Composed(Target(u)) /\ Goes(u, [seen EXCEPT !.pc = "listing"])
          \/ /\ ~Composed(Target(u))
             /\ Goes(u, [seen EXCEPT !.pc = "pulling", !.ran = IF c.running THEN {c.id} ELSE {}])
    /\ UNCHANGED <<runtime, ids, known, plan>>

(***************************************************************************)
(* The project's containers and which of them run.                         *)
(***************************************************************************)
ListProject(u) ==
    /\ upd[u].pc = "listing"
    /\ LET ran == Ids(Running(ProjectOf(Target(u))))
       IN Goes(u, [upd[u] EXCEPT !.pc = "stopping", !.ran = ran, !.todo = ran])
    /\ UNCHANGED <<runtime, ids, known, plan>>

(***************************************************************************)
(* The last created is stopped first.                                      *)
(***************************************************************************)
StopNext(u) ==
    /\ upd[u].pc = "stopping"
    /\ \/ \E id \in upd[u].todo :
            /\ IsYoungest(id, upd[u].todo) /\ Exists(id)
            /\ SetRunning(id, FALSE)
            /\ Goes(u, [upd[u] EXCEPT !.todo = @ \ {id}])
       \/ /\ upd[u].todo = {}
          /\ Goes(u, [upd[u] EXCEPT !.pc = "pulling"])
          /\ UNCHANGED runtime
    /\ UNCHANGED <<ids, known, plan>>

(***************************************************************************)
(* A mistake one could make, the body of a mutant: the old container is        *)
(* removed before the new image is there.                                   *)
(***************************************************************************)
PullLate(u) ==
    /\ upd[u].pc = "pulling"
    /\ IF runtime[Target(u)] = NoOne
       THEN Goes(u, [upd[u] EXCEPT !.pc = "creating"]) /\ UNCHANGED runtime
       ELSE runtime' = [runtime EXCEPT ![Target(u)] = NoOne] /\ UNCHANGED upd
    /\ UNCHANGED <<ids, known, plan>>

Pull(u) ==
    /\ upd[u].pc = "pulling"
    /\ Goes(u, [upd[u] EXCEPT !.pc = IF Composed(Target(u)) THEN "removing" ELSE "halting"])
    /\ UNCHANGED <<runtime, ids, known, plan>>

Halt(u) ==
    /\ upd[u].pc = "halting" /\ Exists(upd[u].id)
    /\ SetRunning(upd[u].id, FALSE)
    /\ Goes(u, [upd[u] EXCEPT !.pc = "removing"])
    /\ UNCHANGED <<ids, known, plan>>

(***************************************************************************)
(* A mistake one could make, the body of a mutant: the container is removed by *)
(* its name.                                                               *)
(***************************************************************************)
RemoveByName(u) ==
    /\ upd[u].pc = "removing" /\ runtime[Target(u)] # NoOne /\ ~runtime[Target(u)].running
    /\ runtime' = [runtime EXCEPT ![Target(u)] = NoOne]
    /\ Goes(u, [upd[u] EXCEPT !.pc = "creating"])
    /\ UNCHANGED <<ids, known, plan>>

(***************************************************************************)
(* The runtime removes no container that runs.                             *)
(***************************************************************************)
RemoveOld(u) ==
    /\ upd[u].pc = "removing" /\ Exists(upd[u].id) /\ ~runtime[Target(u)].running
    /\ runtime' = [runtime EXCEPT ![Target(u)] = NoOne]
    /\ Goes(u, [upd[u] EXCEPT !.pc = "creating"])
    /\ UNCHANGED <<ids, known, plan>>

Others(u) == upd[u].ran \ {upd[u].id}

(***************************************************************************)
(* A mistake one could make, the body of a mutant: a container that must not   *)
(* be started leaves the project stopped.                                   *)
(***************************************************************************)
AfterCreateOwnOnly(u) ==
    [upd[u] EXCEPT !.pc = IF upd[u].id \in upd[u].ran THEN "restarting" ELSE "reloading",
                   !.todo = Others(u), !.new = ids + 1]

AfterCreate(u) ==
    [upd[u] EXCEPT !.pc = "restarting", !.todo = Others(u), !.new = ids + 1]

(***************************************************************************)
(* The new container is created under the old name and connected to the extra  *)
(* networks, as far as that goes.                                           *)
(***************************************************************************)
Create(u) ==
    /\ upd[u].pc = "creating" /\ runtime[Target(u)] = NoOne /\ ids < MaxId
    /\ runtime' = [runtime EXCEPT ![Target(u)] =
                     [id |-> ids + 1, running |-> FALSE, image |-> upd[u].image,
                      mounts |-> Carried(Target(u), upd[u].mounts)]]
    /\ ids' = ids + 1
    /\ Goes(u, AfterCreate(u))
    /\ UNCHANGED <<known, plan>>

(***************************************************************************)
(* The others that ran are started, the first created first.                *)
(***************************************************************************)
RestartNext(u) ==
    /\ upd[u].pc = "restarting"
    /\ \/ \E id \in upd[u].todo :
            /\ IsEldest(id, upd[u].todo) /\ Exists(id)
            /\ SetRunning(id, TRUE)
            /\ Goes(u, [upd[u] EXCEPT !.todo = @ \ {id}])
       \/ /\ upd[u].todo = {}
          /\ Goes(u, [upd[u] EXCEPT !.pc = "starting"])
          /\ UNCHANGED runtime
    /\ UNCHANGED <<ids, known, plan>>

StartNew(u) ==
    /\ upd[u].pc = "starting"
    /\ \/ /\ upd[u].id \in upd[u].ran /\ Exists(upd[u].new)
          /\ SetRunning(upd[u].new, TRUE)
       \/ upd[u].id \notin upd[u].ran /\ UNCHANGED runtime
    /\ Goes(u, [upd[u] EXCEPT !.pc = "reloading"])
    /\ UNCHANGED <<ids, known, plan>>

Reload(u) ==
    /\ upd[u].pc = "reloading" /\ Exists(upd[u].new)
    /\ Goes(u, [upd[u] EXCEPT !.pc = "reporting"])
    /\ UNCHANGED <<runtime, ids, known, plan>>

(***************************************************************************)
(* The containers are listed, which may fail and be passed over, the one of    *)
(* that name is taken into the row, whichever it is by then, and the row is    *)
(* committed.                                                              *)
(***************************************************************************)
Relisted(n) == IF runtime[n] = NoOne THEN known ELSE [known EXCEPT ![n] = runtime[n].id]

Report(u) ==
    /\ upd[u].pc = "reporting"
    /\ known' \in {known, Relisted(Target(u))}
    /\ Goes(u, [upd[u] EXCEPT !.pc = "told"])
    /\ UNCHANGED <<runtime, ids, plan>>

(***************************************************************************)
(* A call of the runtime fails, as one that names a container that is gone     *)
(* must, or the worker dies: nothing is undone.  `at` is where.             *)
(***************************************************************************)
UpdateFails(u) ==
    /\ UnderWay(u)
    /\ Goes(u, [upd[u] EXCEPT !.pc = "failed", !.at = upd[u].pc])
    /\ UNCHANGED <<runtime, ids, known, plan>>

(***************************************************************************)
(* A sync brings the ids of the containers there are into their rows.         *)
(***************************************************************************)
SyncIds ==
    /\ known' = [n \in Names |-> IF runtime[n] = NoOne THEN known[n] ELSE runtime[n].id]
    /\ UNCHANGED <<runtime, ids, upd, plan>>

WorkStep(u) ==
    \/ Look(u) \/ ListProject(u) \/ StopNext(u) \/ Pull(u) \/ Halt(u) \/ RemoveOld(u)
    \/ Create(u) \/ RestartNext(u) \/ StartNew(u) \/ Reload(u) \/ UpdateFails(u)

RecreateNext ==
    \/ SyncIds
    \/ \E u \in Updates : WorkStep(u) \/ Report(u) \/ \E image \in Images : Begin(u, image)

RecreateSpec == RecreateInit /\ [][RecreateNext]_recreateVars

------------------------------------------------------------------------------
(***************************************************************************)
(* Every loss is told: when no update is under way, each container that ran    *)
(* runs, or a user was told of an update that failed, however updates of one   *)
(* project stop and start each other's containers.  The exception is a          *)
(* container by itself that two updates overlap on: when a sync makes the new   *)
(* one known before it is started, the second update takes it for stopped, and  *)
(* leaves it so.                                                           *)
(***************************************************************************)
AtRest == \A u \in Updates : ~UnderWay(u)

Contended(n) == ~Composed(n) /\ \E u \in Updates :
                    Target(u) = n /\ upd[u] # NotCalled /\ upd[u].beside # {}

LossIsTold ==
    AtRest => \A n \in plan.ran : \/ n \in Running(Names) \/ Contended(n)
                                 \/ \E u \in Updates : upd[u].pc = "failed"

(***************************************************************************)
(* A container is only missing between its removal and its creation, or when  *)
(* an update failed right there: one that fails to pull, or in any other call  *)
(* of the runtime, leaves a container of that name.                         *)
(***************************************************************************)
MissingOnlyAtCreate ==
    \A n \in Names : runtime[n] = NoOne =>
        \E u \in Updates : /\ Target(u) = n
                           /\ \/ upd[u].pc = "creating"
                              \/ upd[u].pc = "failed" /\ upd[u].at = "creating"

(***************************************************************************)
(* No container is replaced twice: of the updates that began with the same     *)
(* container, as those of two users who press the button at once do, one       *)
(* succeeds at most, and the others are told that they failed.               *)
(***************************************************************************)
ReplacedOnce ==
    \A u, v \in Updates :
        upd[u].pc = "told" /\ upd[v].pc = "told" /\ upd[u].id = upd[v].id => u = v

(***************************************************************************)
(* "recreate the container with the same configuration" (containers.py:340):   *)
(* over any number of updates a container keeps its mounts, if they are binds   *)
(* or volumes that come from different sources.                             *)
(***************************************************************************)
Ordinary(n) ==
    \A i, j \in Mounts(n) : MountsOf[n][i].kind # "mount" /\ (SameSource(n, i, j) => i = j)

MountsKept ==
    \A n \in Live(Names) : Ordinary(n) => runtime[n].mounts = Mounts(n)

==============================================================================
