----------------------------- MODULE AgentUpdates -----------------------------
(***************************************************************************)
(* Updates of containers on agent hosts: update_container_image puts them in   *)
(* a queue that its worker process keeps per host, and the next sync of the    *)
(* host that this worker answers hands the whole queue to the agent.         *)
(***************************************************************************)
EXTENDS AgentHosts, Sequences, Functions

CONSTANTS
    Workers,      \* worker processes
    Users,        \* requests for an update, each made at most once
    Containers,   \* container rows
    HostOf,       \* the host of each container
    MaxRelease,   \* bound on the releases published of each container
    MaxId         \* bound on the container_ids a container gets by other hands

VARIABLES
    row,          \* each container's latest_digest, has_update and container_id
    runs,         \* the release each container runs, and its container_id
    pending,      \* _agent_pending_updates of each worker
    ask,          \* each user's request
    sync,         \* each agent's call of sync_agent
    todo,         \* what each agent has been handed and not applied
    handed,       \* history: requests whose update has left in an answer
    forgotten     \* history: requests whose update went with a worker

queueVars == <<row, runs, pending, ask, sync, todo, handed, forgotten>>

Releases == Nat

(***************************************************************************)
(* A container keeps its name and gets a new container_id whenever it is        *)
(* recreated: the first has 0, the next 1, ...  The row has the id of the last   *)
(* report.                                                                 *)
(***************************************************************************)
Known == [latest: Releases, has: BOOLEAN, id: Nat]
Runtime == [image: Releases, id: Nat]

(***************************************************************************)
(* A queued update names its container by the id the row had, and its image;   *)
(* `by` is the request that queued it.                                      *)
(***************************************************************************)
Update == [by: Users, c: Containers, id: Nat, image: Releases]

(***************************************************************************)
(* A request: where it runs, the id and the image its copy of the row names    *)
(* and, once its update is queued, the request that queued it: itself, or an    *)
(* earlier one for the same id.                                             *)
(***************************************************************************)
Ask == [pc: {"resolving", "committing", "told", "refused"},
        w: Workers, c: Containers, id: Nat, image: Releases, served: SUBSET Users]

NotAsked == [pc |-> "new"]

(***************************************************************************)
(* A sync: what the agent reports to run, and the copies of the rows that it is  *)
(* compared with.                                                          *)
(***************************************************************************)
Sync == [w: Workers, of: Hosts, report: [Containers -> Runtime],
         copy: [Containers -> Known]]

ASSUME QueueAssumption ==
    /\ MaxRelease \in [Containers -> Nat] /\ MaxId \in Nat /\ IsFiniteSet(Users)
    /\ HostOf \in [Containers -> Hosts]
    /\ None \notin Sync

Waiting(w) == {u \in Users : \E h \in Hosts : \E e \in Range(pending[w][h]) : e.by = u}

QueueTypeOK ==
    /\ row \in [Containers -> Known]
    /\ runs \in [Containers -> Runtime]
    /\ pending \in [Workers -> [Hosts -> Seq(Update)]]
    /\ ask \in [Users -> Ask \cup {NotAsked}]
    /\ sync \in [Agents -> Sync \cup {None}]
    /\ todo \in [Agents -> Seq(Update)]
    /\ handed \subseteq Users /\ forgotten \subseteq Users

NoUpdates == [h \in Hosts |-> <<>>]

QueueInit ==
    /\ row = [c \in Containers |-> [latest |-> 0, has |-> FALSE, id |-> 0]]
    /\ runs = [c \in Containers |-> [image |-> 0, id |-> 0]]
    /\ pending = [w \in Workers |-> NoUpdates]
    /\ ask = [u \in Users |-> NotAsked]
    /\ sync = [a \in Agents |-> None]
    /\ todo = [a \in Agents |-> <<>>]
    /\ handed = {} /\ forgotten = {}

------------------------------------------------------------------------------
(***************************************************************************)
(* A check finds a newer release and raises the flag (UpdateCheck).          *)
(***************************************************************************)
Found(c) ==
    /\ c \in load /\ row[c].latest < MaxRelease[c]
    /\ row' = [row EXCEPT ![c].latest = @ + 1, ![c].has = TRUE]
    /\ UNCHANGED <<runs, pending, ask, sync, todo, handed, forgotten>>

(***************************************************************************)
(* Someone else recreates the container.                                    *)
(***************************************************************************)
Recreated(c) ==
    /\ c \in load /\ runs[c].id < MaxId
    /\ runs' = [runs EXCEPT ![c].id = @ + 1]
    /\ UNCHANGED <<row, pending, ask, sync, todo, handed, forgotten>>

(***************************************************************************)
(* A user applies the update: the container is loaded and, without has_update, *)
(* refused; then its notification logs are resolved.                        *)
(***************************************************************************)
StartUpdate(u) ==
    /\ u \in load /\ ask[u] = NotAsked
    /\ \E c \in Containers, w \in Workers \cap load :
         /\ row[c].has
         /\ ask' = [ask EXCEPT ![u] = [pc |-> "resolving", w |-> w, c |-> c, id |-> row[c].id,
                                       image |-> row[c].latest, served |-> {}]]
    /\ UNCHANGED <<row, runs, pending, sync, todo, handed, forgotten>>

Queue(u) == pending[ask[u].w][HostOf[ask[u].c]]

Queued(u) == {e \in Range(Queue(u)) : e.c = ask[u].c /\ e.id = ask[u].id}

Enqueue(u) ==
    /\ pending' = [pending EXCEPT ![ask[u].w][HostOf[ask[u].c]] =
                     Append(@, [by |-> u, c |-> ask[u].c, id |-> ask[u].id,
                                image |-> ask[u].image])]
    /\ ask' = [ask EXCEPT ![u].pc = "committing", ![u].served = {u}]

(***************************************************************************)
(* A mistake one could make, the body of a mutant: nobody asks whether the    *)
(* container is in the queue already.                                      *)
(***************************************************************************)
QueueUpdateUnasked(u) ==
    /\ ask[u].pc = "resolving"
    /\ Enqueue(u)
    /\ UNCHANGED <<row, runs, sync, todo, handed, forgotten>>

(***************************************************************************)
(* The update is queued, unless one of this container_id is: then that one      *)
(* stays, whatever image it names.  One that was queued under an older id of    *)
(* the container is not found.                                              *)
(***************************************************************************)
QueueUpdate(u) ==
    /\ ask[u].pc = "resolving"
    /\ \/ Queued(u) = {} /\ Enqueue(u)
       \/ /\ Queued(u) # {}
          /\ ask' = [ask EXCEPT ![u].pc = "committing", ![u].served = {e.by : e \in Queued(u)}]
          /\ UNCHANGED pending
    /\ UNCHANGED <<row, runs, sync, todo, handed, forgotten>>

(***************************************************************************)
(* A mistake one could make, the body of a mutant: a refused commit takes the *)
(* container's update out of the queue, whoever put it there.               *)
(***************************************************************************)
CommitUpdateTakesBack(u) ==
    /\ ask[u].pc = "committing"
    /\ \/ ask' = [ask EXCEPT ![u].pc = "told"] /\ UNCHANGED pending
       \/ /\ ask' = [ask EXCEPT ![u].pc = "refused"]
          /\ pending' = [pending EXCEPT ![ask[u].w][HostOf[ask[u].c]] =
                           SelectSeq(@, LAMBDA e : e.c # ask[u].c)]
    /\ UNCHANGED <<row, runs, sync, todo, handed, forgotten>>

(***************************************************************************)
(* The resolved logs are committed and the user is told that the update is    *)
(* queued; when the commit is refused the user is told so, and it is queued.  *)
(***************************************************************************)
CommitUpdate(u) ==
    /\ ask[u].pc = "committing"
    /\ \E end \in {"told", "refused"} : ask' = [ask EXCEPT ![u].pc = end]
    /\ UNCHANGED <<row, runs, pending, sync, todo, handed, forgotten>>

UpdateFails(u) ==
    /\ ask[u].pc = "resolving"
    /\ ask' = [ask EXCEPT ![u].pc = "refused"]
    /\ UNCHANGED <<row, runs, pending, sync, todo, handed, forgotten>>

------------------------------------------------------------------------------
(***************************************************************************)
(* An agent reports what runs: the host is found by the secret, its containers *)
(* are loaded.                                                             *)
(***************************************************************************)
StartSync(a) ==
    /\ sync[a] = None
    /\ \E h \in Hosts, w \in Workers \cap load :
         /\ Opens(a, h)
         /\ sync' = [sync EXCEPT ![a] = [w |-> w, of |-> h, report |-> runs, copy |-> row]]
    /\ UNCHANGED <<row, runs, pending, ask, todo, handed, forgotten>>

(***************************************************************************)
(* The report is committed: of each container of the host the id that differs   *)
(* from the copy's is written, and has_update falls when what runs is the        *)
(* latest release of the copy.                                              *)
(***************************************************************************)
Reported(known, copy, report) ==
    [known EXCEPT
        !.id = IF report.id # copy.id THEN report.id ELSE @,
        !.has = @ /\ ~(copy.has /\ report.image = copy.latest)]

Applied(a) ==
    [c \in Containers |->
        IF HostOf[c] = sync[a].of
        THEN Reported(row[c], sync[a].copy[c], sync[a].report[c])
        ELSE row[c]]

(***************************************************************************)
(* A mistake one could make, the body of a mutant: the queue is read and not  *)
(* taken.                                                                  *)
(***************************************************************************)
FinishSyncLeaves(a) ==
    /\ sync[a] # None
    /\ LET given == pending[sync[a].w][sync[a].of]
       IN /\ UNCHANGED pending
          /\ handed' = handed \cup {e.by : e \in Range(given)}
          /\ todo' \in {todo, [todo EXCEPT ![a] = @ \o given]}
    /\ row' = Applied(a)
    /\ sync' = [sync EXCEPT ![a] = None]
    /\ UNCHANGED <<runs, ask, forgotten>>

(***************************************************************************)
(* After the commit the host's queue in this worker is taken and sent; the    *)
(* answer may be lost, and the updates with it.                             *)
(***************************************************************************)
FinishSync(a) ==
    /\ sync[a] # None
    /\ LET given == pending[sync[a].w][sync[a].of]
       IN /\ pending' = [pending EXCEPT ![sync[a].w][sync[a].of] = <<>>]
          /\ handed' = handed \cup {e.by : e \in Range(given)}
          /\ todo' \in {todo, [todo EXCEPT ![a] = @ \o given]}
    /\ row' = Applied(a)
    /\ sync' = [sync EXCEPT ![a] = None]
    /\ UNCHANGED <<runs, ask, forgotten>>

(***************************************************************************)
(* A sync stopped by the database, before its report is committed or at the   *)
(* commit of the host's metadata, which follows.                            *)
(***************************************************************************)
SyncFails(a) ==
    /\ sync[a] # None
    /\ row' \in {row, Applied(a)}
    /\ sync' = [sync EXCEPT ![a] = None]
    /\ UNCHANGED <<runs, pending, ask, todo, handed, forgotten>>

(***************************************************************************)
(* The agent applies an update it was handed, or fails to; the container that   *)
(* it recreates has another id.                                             *)
(***************************************************************************)
AgentApplies(a) ==
    /\ todo[a] # <<>>
    /\ todo' = [todo EXCEPT ![a] = Tail(@)]
    /\ LET e == Head(todo[a])
       IN runs' \in {runs, [runs EXCEPT ![e.c] = [image |-> e.image, id |-> @.id + 1]]}
    /\ UNCHANGED <<row, pending, ask, sync, handed, forgotten>>

(***************************************************************************)
(* A worker dies with its queues and the calls it was answering.             *)
(***************************************************************************)
QueueCrash(w) ==
    /\ w \in load
    /\ pending' = [pending EXCEPT ![w] = NoUpdates]
    /\ forgotten' = forgotten \cup Waiting(w)
    /\ ask' = [u \in Users |->
                 IF ask[u].pc \in {"resolving", "committing"} /\ ask[u].w = w
                 THEN [ask[u] EXCEPT !.pc = "refused"] ELSE ask[u]]
    /\ sync' = [a \in Agents |-> IF sync[a] # None /\ sync[a].w = w THEN None ELSE sync[a]]
    /\ UNCHANGED <<row, runs, todo, handed>>

UserStep(u) == StartUpdate(u) \/ QueueUpdate(u) \/ CommitUpdate(u) \/ UpdateFails(u)

QueueNext ==
    \/ \E c \in Containers : Found(c) \/ Recreated(c)
    \/ \E u \in Users : UserStep(u)
    \/ \E a \in Agents : StartSync(a) \/ FinishSync(a) \/ SyncFails(a) \/ AgentApplies(a)
    \/ \E w \in Workers : QueueCrash(w)

UpdateInit == HostInit /\ QueueInit

UpdateNext ==
    \/ HostNext /\ UNCHANGED queueVars
    \/ QueueNext /\ UNCHANGED hostVars

UpdateSpec ==
    UpdateInit /\ [][UpdateNext]_<<hostVars, queueVars>>

------------------------------------------------------------------------------
(***************************************************************************)
(* No update twice: however the requests of a worker interleave at their       *)
(* awaits, and whatever ids the syncs write meanwhile, two updates of one        *)
(* container stand in a queue only when it was recreated and reported in        *)
(* between, so that they name two ids.                                       *)
(***************************************************************************)
OneEntryEach ==
    \A w \in Workers, h \in Hosts : \A i, j \in 1 .. Len(pending[w][h]) :
        /\ pending[w][h][i].c = pending[w][h][j].c
        /\ pending[w][h][i].id = pending[w][h][j].id
        => i = j

(***************************************************************************)
(* A user who is told "queued" is served: the update that serves the request,  *)
(* its own or the one found in the queue, waits in that worker, has been       *)
(* handed over or went with the worker; another user's refused commit or a     *)
(* sync in between takes it from nobody.                                   *)
(***************************************************************************)
ToldIsServed ==
    \A u \in Users : ask[u].pc = "told" =>
        ask[u].served # {} /\ ask[u].served \subseteq Waiting(ask[u].w) \cup handed \cup forgotten

(***************************************************************************)
(* The queues of all workers together hand each update over at most once.    *)
(***************************************************************************)
Promise == INSTANCE Handover WITH waiting <- UNION {Waiting(w) : w \in Workers}

ImplementsHandover == Promise!Spec

==============================================================================
