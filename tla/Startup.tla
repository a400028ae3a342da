------------------------------- MODULE Startup -------------------------------
(***************************************************************************)
(* How the site comes up: each worker's lifespan (main.py) with what it does    *)
(* to the database, the setup wizard (auth.py), and the guard that keeps users  *)
(* out until an administrator is there.  Workers start at the same time, any    *)
(* call of the database may fail, and a worker may die at any point.           *)
(*                                                                         *)
(* There is one database: all who fill in the wizard's form mean the same.     *)
(***************************************************************************)
EXTENDS Accounts, Integers

CONSTANTS
    Workers,      \* processes, each with an engine and a scheduler of its own
    Wizards,      \* browsers with the setup wizard
    DefaultGroups \* the groups _ensure_default_groups makes

VARIABLES
    saved,        \* is a database URL in the configuration file or environment?
    schema,       \* of the database: none, or the parts that are of an old version
    worker,       \* each worker
    wiz           \* each browser's step of the wizard

siteVars == <<accountVars, saved, schema, worker, wiz>>

(***************************************************************************)
(* A worker: where its lifespan is, whether it has an engine, whether its       *)
(* scheduler runs, and whether it found a URL when it started.                *)
(***************************************************************************)
WorkerPCs == {"down", "tables", "migrations", "groups", "settings", "jobs", "up"}

Worker == [pc: WorkerPCs, engine: BOOLEAN, jobs: BOOLEAN, found: BOOLEAN]

Down == [pc |-> "down", engine |-> FALSE, jobs |-> FALSE, found |-> FALSE]

(***************************************************************************)
(* The wizard: the worker that handles the step, and whether the first          *)
(* administrator came to be since it counted.                                *)
(***************************************************************************)
Step == [pc: {"idle", "form", "tested", "tables", "inserting"}, at: Workers \cup {None}, overtaken: BOOLEAN]

Rest == [pc |-> "idle", at |-> None, overtaken |-> FALSE]

ASSUME DefaultGroupsAssumption == DefaultGroups \subseteq Groups

(***************************************************************************)
(* The tables whose columns the migrations change: an old version may lack       *)
(* those of any.  A database without tables has no schema.                   *)
(***************************************************************************)
Parts == {"hosts", "containers", "logs", "users", "spaces"}

Schemas == {None} \cup SUBSET Parts

(***************************************************************************)
(* A site that serves at first has been migrated to this version; its browsers *)
(* are some of those with the wizard.  What the scheduler loads at a start are   *)
(* the hosts that are checked, and if there are any, their containers, and the  *)
(* logs of those.                                                           *)
(***************************************************************************)
ASSUME PlansAssumption ==
    /\ \A parts \in SUBSET Parts : parts # None
    /\ \A p \in Plans : /\ p.saved \in BOOLEAN /\ p.schema \in Schemas
                        /\ p.loads \in {{"hosts"}, {"hosts", "containers"}, {"hosts", "containers", "logs"}}
                        /\ p.serving => p.schema = {}
                        /\ p.browsers \subseteq Wizards

TypeOK ==
    /\ AccountTypeOK
    /\ saved \in BOOLEAN
    /\ schema \in Schemas
    /\ worker \in [Workers -> Worker]
    /\ wiz \in [Wizards -> Step]

Init ==
    /\ AccountInit
    /\ saved = plan.saved /\ schema = plan.schema
    /\ worker = [w \in Workers |-> IF plan.serving
                  THEN [pc |-> "up", engine |-> TRUE, jobs |-> TRUE, found |-> TRUE] ELSE Down]
    /\ wiz = [z \in Wizards |-> Rest]

------------------------------------------------------------------------------
IsInitialized(w) == worker[w].engine \/ saved

Goes(w, pc) == worker' = [worker EXCEPT ![w].pc = pc]

(***************************************************************************)
(* A worker starts: with a URL it makes its engine, which connects to nothing   *)
(* yet, and without one it serves the wizard and starts no scheduler.          *)
(***************************************************************************)
StartWorker(w) ==
    /\ worker[w].pc = "down"
    /\ worker' = [worker EXCEPT ![w] = [pc |-> IF saved THEN "tables" ELSE "up", engine |-> saved,
                                        jobs |-> FALSE, found |-> saved]]
    /\ UNCHANGED <<accountVars, saved, schema, wiz>>

(***************************************************************************)
(* create_all makes the tables that are missing, as they are in this version,   *)
(* and leaves those there are alone.                                        *)
(***************************************************************************)
Ensured == IF schema = None THEN {} ELSE schema

InitTables(w) ==
    /\ worker[w].pc = "tables"
    /\ schema' = Ensured
    /\ Goes(w, "migrations")
    /\ UNCHANGED <<accountVars, saved, wiz>>

(***************************************************************************)
(* The migrations are one transaction: all of them or none.                   *)
(***************************************************************************)
RunMigrations(w) ==
    /\ worker[w].pc = "migrations"
    /\ schema' = {}
    /\ Goes(w, "groups")
    /\ UNCHANGED <<accountVars, saved, wiz>>

EnsureDefaultGroups(w) ==
    /\ worker[w].pc = "groups"
    /\ live' = live \cup DefaultGroups
    /\ req' = AllSeen(DefaultGroups \ live, FALSE)
    /\ Goes(w, "settings")
    /\ UNCHANGED <<users, open, grants, plan, saved, schema, wiz>>

(***************************************************************************)
(* When one of the three fails, as when two workers make the same table or      *)
(* group, the rest is passed over and the worker goes on.                    *)
(***************************************************************************)
InitFails(w) ==
    /\ worker[w].pc \in {"tables", "migrations", "groups"}
    /\ Goes(w, "settings")
    /\ UNCHANGED <<accountVars, saved, schema, wiz>>

(***************************************************************************)
(* A mistake one could make, the body of a mutant: what the texts of the site   *)
(* are is asked only of a database that answers.                             *)
(***************************************************************************)
LoadSettingsOrNot(w) ==
    /\ worker[w].pc = "settings"
    /\ Goes(w, IF schema = None THEN "up" ELSE "jobs")
    /\ UNCHANGED <<accountVars, saved, schema, wiz>>

(***************************************************************************)
(* The settings are selected outside of the try: there must be a table, and no   *)
(* migration has ever changed it.                                           *)
(***************************************************************************)
LoadSettings(w) ==
    /\ worker[w].pc = "settings" /\ schema # None
    /\ Goes(w, "jobs")
    /\ UNCHANGED <<accountVars, saved, schema, wiz>>

(***************************************************************************)
(* The hosts that are checked are selected, and what hangs on them, with the     *)
(* columns of this version; the other tables may be of any version.           *)
(***************************************************************************)
StartScheduler(w) ==
    /\ worker[w].pc = "jobs"
    /\ plan.loads \cap schema = {}
    /\ worker' = [worker EXCEPT ![w].pc = "up", ![w].jobs = TRUE]
    /\ UNCHANGED <<accountVars, saved, schema, wiz>>

(***************************************************************************)
(* A worker dies, or one of the selects of its start fails.                  *)
(***************************************************************************)
Crash(w) ==
    /\ plan.restarts
    /\ worker[w].pc # "down"
    /\ worker' = [worker EXCEPT ![w] = Down]
    /\ wiz' = [z \in Wizards |-> IF wiz[z].at = w THEN Rest ELSE wiz[z]]
    /\ UNCHANGED <<accountVars, saved, schema>>

WorkerStep(w) ==
    \/ StartWorker(w) \/ InitTables(w) \/ RunMigrations(w) \/ EnsureDefaultGroups(w)
    \/ InitFails(w) \/ LoadSettings(w) \/ StartScheduler(w) \/ Crash(w)

------------------------------------------------------------------------------
(***************************************************************************)
(* The guard lets a page through when the users' table can be counted and has   *)
(* an administrator, active or not; a worker without an engine makes it first,  *)
(* from the URL that another worker saved.                                  *)
(***************************************************************************)
Loads(w) == worker' = [worker EXCEPT ![w].engine = TRUE]

Visit(w) ==
    /\ worker[w].pc = "up" /\ IsInitialized(w) /\ ~worker[w].engine
    /\ Loads(w)
    /\ UNCHANGED <<accountVars, saved, schema, wiz>>

Guarded(w) == worker[w].pc = "up" /\ worker[w].engine /\ schema # None /\ Admins # {}

(***************************************************************************)
(* Whatever reads or writes a whole user needs the columns of this version.    *)
(***************************************************************************)
UsersFit == schema # None /\ "users" \notin schema

BeginRequest ==
    /\ UsersFit /\ \E w \in Workers : Guarded(w)
    /\ Begin
    /\ UNCHANGED <<saved, schema, worker, wiz>>

Note(z, s) == wiz' = [wiz EXCEPT ![z] = s]

(***************************************************************************)
(* The page of the first step is served only as long as no URL is known.       *)
(***************************************************************************)
OpenForm(z) ==
    /\ wiz[z].pc = "idle"
    /\ \E w \in Workers : worker[w].pc = "up" /\ ~IsInitialized(w)
    /\ Note(z, [Rest EXCEPT !.pc = "form"])
    /\ UNCHANGED <<accountVars, saved, schema, worker>>

(***************************************************************************)
(* The form may be sent when another has been meanwhile.  The connection is    *)
(* tried first, with an engine that is thrown away.                          *)
(***************************************************************************)
TestConnection(z, w) ==
    /\ wiz[z].pc = "form" /\ worker[w].pc = "up"
    /\ Note(z, [wiz[z] EXCEPT !.pc = "tested", !.at = w])
    /\ UNCHANGED <<accountVars, saved, schema, worker>>

SaveUrl(z) ==
    /\ wiz[z].pc = "tested"
    /\ saved' = TRUE
    /\ Loads(wiz[z].at)
    /\ Note(z, [wiz[z] EXCEPT !.pc = "tables"])
    /\ UNCHANGED <<accountVars, schema>>

(***************************************************************************)
(* The wizard makes missing tables and migrates nothing.                     *)
(***************************************************************************)
MakeTables(z) ==
    /\ wiz[z].pc = "tables"
    /\ schema' = Ensured
    /\ Note(z, Rest)
    /\ UNCHANGED <<accountVars, saved, worker>>

(***************************************************************************)
(* A mistake one could make, the body of a mutant: only active administrators  *)
(* count.                                                                  *)
(***************************************************************************)
NobodyActive == ActiveAdmins = {}

Nobody == Admins = {}

(***************************************************************************)
(* The second step: administrators are counted in one session, active or not,   *)
(* and the first one is inserted in another, under a username that is free.    *)
(***************************************************************************)
CountAdmins(z, w) ==
    /\ wiz[z].pc = "idle" /\ worker[w].pc = "up" /\ IsInitialized(w)
    /\ Loads(w)
    /\ schema # None /\ Nobody
    /\ Note(z, [pc |-> "inserting", at |-> w, overtaken |-> FALSE])
    /\ UNCHANGED <<accountVars, saved, schema>>

Overtaken == [z \in Wizards |-> [wiz[z] EXCEPT !.overtaken = wiz[z].pc = "inserting"]]

InsertAdmin(z, u) ==
    /\ wiz[z].pc = "inserting" /\ UsersFit
    /\ users[u] = None
    /\ users' = [users EXCEPT ![u] = [admin |-> TRUE, active |-> TRUE, in |-> {}]]
    /\ req' = AllSeen({u}, FALSE)
    /\ wiz' = [Overtaken EXCEPT ![z] = Rest]
    /\ UNCHANGED <<live, open, grants, plan, saved, schema, worker>>

(***************************************************************************)
(* A step is refused or fails: nothing of it is undone.                      *)
(***************************************************************************)
StepFails(z) ==
    /\ wiz[z].pc # "idle"
    /\ Note(z, Rest)
    /\ UNCHANGED <<accountVars, saved, schema, worker>>

WizardStep(z) ==
    \/ OpenForm(z) \/ SaveUrl(z) \/ MakeTables(z) \/ StepFails(z)
    \/ \E w \in Workers : TestConnection(z, w) \/ CountAdmins(z, w)
    \/ \E u \in plan.founders : InsertAdmin(z, u)

(***************************************************************************)
(* A request that is under way commits; a wizard that counted nobody has been   *)
(* overtaken when it makes an administrator.                                *)
(***************************************************************************)
ProceedRequest ==
    /\ \E r \in Requests : Proceed(r)
    /\ wiz' = IF Admins' = {} THEN wiz ELSE Overtaken
    /\ UNCHANGED <<saved, schema, worker>>

Next ==
    \/ \E w \in Workers : WorkerStep(w) \/ Visit(w)
    \/ BeginRequest
    \/ ProceedRequest
    \/ \E z \in plan.browsers : WizardStep(z)

Spec == Init /\ [][Next]_siteVars

------------------------------------------------------------------------------
(***************************************************************************)
(* "Start the update-check scheduler only when DB is ready" (main.py:114): a    *)
(* worker that found a URL and serves has its scheduler, and under it a         *)
(* database whose hosts it can load, although its own migrations may have       *)
(* failed, in a race with another worker or as the database was away.  One that *)
(* cannot reach the database dies, and is never in the setup mode it speaks of  *)
(* (main.py:90).                                                           *)
(***************************************************************************)
FoundMeansReady ==
    \A w \in Workers : worker[w].pc = "up" /\ worker[w].found =>
        worker[w].jobs /\ schema # None /\ plan.loads \cap schema = {}

(***************************************************************************)
(* "Database schema migrations run automatically on container startup."          *)
(* (README.md:167): a worker that found a URL and serves has a database of this *)
(* version.  It need not: when the migrations fail, the rest of the start needs *)
(* no more than the tables the scheduler loads.                             *)
(***************************************************************************)
StartMigrates ==
    \A w \in Workers : worker[w].pc = "up" /\ worker[w].found => schema = {}

(***************************************************************************)
(* The wizard makes no administrator where there is one, even one who may not   *)
(* log in, except when two browsers, or the wizard and a login or an edit that  *)
(* was still under way, overtake each other.                                *)
(***************************************************************************)
WizardMakesFirst ==
    [][\A z \in Wizards : wiz[z].pc = "inserting" /\ users' # users /\ wiz'[z].pc = "idle"
            => Admins = {} \/ wiz[z].overtaken]_siteVars

==============================================================================
