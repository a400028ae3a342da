---------------------------- MODULE StartupProofs ----------------------------
(***************************************************************************)
(* Theorems about how the site comes up, for any number of workers, browsers,  *)
(* users, groups, spaces and requests.                                      *)
(***************************************************************************)
EXTENDS Startup, AccountsProofs

(***************************************************************************)
(* The types that the start of a worker depends on, whatever becomes of the     *)
(* accounts.                                                               *)
(***************************************************************************)
SiteTypeOK ==
    /\ plan \in Plans
    /\ saved \in BOOLEAN
    /\ schema \in Schemas
    /\ worker \in [Workers -> Worker]
    /\ wiz \in [Wizards -> Step]

LEMMA SiteTypeInit == Init => SiteTypeOK
  <1> SUFFICES ASSUME Init PROVE SiteTypeOK
    OBVIOUS
  <1>1. plan \in Plans /\ saved = plan.saved /\ schema = plan.schema
    BY DEF Init, AccountInit
  <1>2. saved \in BOOLEAN /\ schema \in Schemas
    BY <1>1, PlansAssumption
  <1>3. Down \in Worker /\ [pc |-> "up", engine |-> TRUE, jobs |-> TRUE, found |-> TRUE] \in Worker
    BY DEF Worker, WorkerPCs, Down
  <1>4. worker \in [Workers -> Worker]
    BY <1>3 DEF Init
  <1>5. wiz \in [Wizards -> Step]
    BY DEF Init, Rest, Step
  <1> QED
    BY <1>1, <1>2, <1>4, <1>5 DEF SiteTypeOK

LEMMA GoesType ==
    ASSUME SiteTypeOK, NEW w \in Workers, NEW pc \in WorkerPCs, Goes(w, pc)
    PROVE  /\ worker' \in [Workers -> Worker]
           /\ \A v \in Workers : /\ worker'[v].pc = IF v = w THEN pc ELSE worker[v].pc
                                 /\ worker'[v].jobs = worker[v].jobs
                                 /\ worker'[v].found = worker[v].found
  BY DEF SiteTypeOK, Goes, Worker

LEMMA LoadsType ==
    ASSUME SiteTypeOK, NEW w, Loads(w)
    PROVE  /\ worker' \in [Workers -> Worker]
           /\ \A v \in Workers : /\ worker'[v].pc = worker[v].pc
                                 /\ worker'[v].jobs = worker[v].jobs
                                 /\ worker'[v].found = worker[v].found
  BY DEF SiteTypeOK, Loads, Worker

LEMMA NoteType ==
    ASSUME SiteTypeOK, NEW z, NEW s \in Step, Note(z, s)
    PROVE  /\ wiz' \in [Wizards -> Step]
           /\ \A y \in Wizards : wiz'[y] = IF y = z THEN s ELSE wiz[y]
  BY DEF SiteTypeOK, Note

LEMMA OvertakenType ==
    ASSUME SiteTypeOK
    PROVE  /\ Overtaken \in [Wizards -> Step]
           /\ \A z \in Wizards : /\ Overtaken[z].pc = wiz[z].pc
                                 /\ Overtaken[z].pc = "inserting" => Overtaken[z].overtaken
  BY DEF SiteTypeOK, Overtaken, Step

(***************************************************************************)
(* What a step of a worker, of the wizard or of a request does to the types.   *)
(***************************************************************************)
LEMMA WorkerKeepsTypes ==
    ASSUME SiteTypeOK, NEW w \in Workers, WorkerStep(w)
    PROVE  SiteTypeOK'
  <1>1. ASSUME StartWorker(w) PROVE SiteTypeOK'
    BY <1>1 DEF StartWorker, accountVars, SiteTypeOK, Worker, WorkerPCs
  <1>2. ASSUME InitTables(w) PROVE SiteTypeOK'
    BY <1>2, GoesType DEF InitTables, accountVars, Ensured, Schemas, SiteTypeOK, WorkerPCs
  <1>3. ASSUME RunMigrations(w) PROVE SiteTypeOK'
    BY <1>3, GoesType DEF RunMigrations, accountVars, Schemas, SiteTypeOK, WorkerPCs
  <1>4. ASSUME EnsureDefaultGroups(w) PROVE SiteTypeOK'
    BY <1>4, GoesType DEF EnsureDefaultGroups, SiteTypeOK, WorkerPCs
  <1>5. ASSUME InitFails(w) PROVE SiteTypeOK'
    BY <1>5, GoesType DEF InitFails, accountVars, SiteTypeOK, WorkerPCs
  <1>6. ASSUME LoadSettings(w) PROVE SiteTypeOK'
    BY <1>6, GoesType DEF LoadSettings, accountVars, SiteTypeOK, WorkerPCs
  <1>7. ASSUME StartScheduler(w) PROVE SiteTypeOK'
    BY <1>7 DEF StartScheduler, accountVars, SiteTypeOK, Worker, WorkerPCs
  <1>8. ASSUME Crash(w) PROVE SiteTypeOK'
    <2>1. Down \in Worker /\ Rest \in Step
      BY DEF Down, Worker, WorkerPCs, Rest, Step
    <2> QED
      BY <1>8, <2>1 DEF Crash, accountVars, SiteTypeOK
  <1> QED
    BY <1>1, <1>2, <1>3, <1>4, <1>5, <1>6, <1>7, <1>8 DEF WorkerStep

LEMMA WizardKeepsTypes ==
    ASSUME SiteTypeOK, NEW z \in plan.browsers, WizardStep(z)
    PROVE  SiteTypeOK'
  <1> z \in Wizards
    BY PlansAssumption DEF SiteTypeOK
  <1>1. Rest \in Step /\ [Rest EXCEPT !.pc = "form"] \in Step
    BY DEF Rest, Step
  <1>2. ASSUME OpenForm(z) PROVE SiteTypeOK'
    BY <1>1, <1>2, NoteType DEF OpenForm, accountVars, SiteTypeOK
  <1>3. ASSUME NEW w \in Workers, TestConnection(z, w) PROVE SiteTypeOK'
    <2>1. [wiz[z] EXCEPT !.pc = "tested", !.at = w] \in Step
      BY DEF SiteTypeOK, Step
    <2> QED
      BY <1>3, <2>1, NoteType DEF TestConnection, accountVars, SiteTypeOK
  <1>4. ASSUME SaveUrl(z) PROVE SiteTypeOK'
    <2>1. [wiz[z] EXCEPT !.pc = "tables"] \in Step
      BY DEF SiteTypeOK, Step
    <2> QED
      BY <1>4, <2>1, NoteType, LoadsType DEF SaveUrl, accountVars, SiteTypeOK
  <1>5. ASSUME MakeTables(z) PROVE SiteTypeOK'
    BY <1>1, <1>5, NoteType DEF MakeTables, accountVars, Ensured, Schemas, SiteTypeOK
  <1>6. ASSUME StepFails(z) PROVE SiteTypeOK'
    BY <1>1, <1>6, NoteType DEF StepFails, accountVars, SiteTypeOK
  <1>7. ASSUME NEW w \in Workers, CountAdmins(z, w) PROVE SiteTypeOK'
    <2>1. [pc |-> "inserting", at |-> w, overtaken |-> FALSE] \in Step
      BY DEF Step
    <2> QED
      BY <1>7, <2>1, NoteType, LoadsType DEF CountAdmins, accountVars, SiteTypeOK
  <1>8. ASSUME NEW u, InsertAdmin(z, u) PROVE SiteTypeOK'
    BY <1>1, <1>8, OvertakenType DEF InsertAdmin, SiteTypeOK
  <1> QED
    BY <1>2, <1>3, <1>4, <1>5, <1>6, <1>7, <1>8 DEF WizardStep

LEMMA RequestKeepsPlan ==
    ASSUME Begin \/ \E r \in Requests : Proceed(r)
    PROVE  UNCHANGED plan
  BY DEF Begin, Authorise, StartLogin, Proceed, Load, Count, LookUp, Wipe, Abandon, Create, Edit, Delete, Login,
         MakeGroup, DropGroup, Join, Leave, Grant, Revoke, MakeSpace, DropSpace

LEMMA RequestKeepsTypes ==
    ASSUME SiteTypeOK, BeginRequest \/ ProceedRequest
    PROVE  SiteTypeOK'
  BY RequestKeepsPlan, OvertakenType DEF BeginRequest, ProceedRequest, SiteTypeOK

LEMMA SiteTypeStep == SiteTypeOK /\ [Next]_siteVars => SiteTypeOK'
  <1> SUFFICES ASSUME SiteTypeOK, [Next]_siteVars PROVE SiteTypeOK'
    OBVIOUS
  <1>1. ASSUME NEW w \in Workers, Visit(w) PROVE SiteTypeOK'
    BY <1>1, LoadsType DEF Visit, accountVars, SiteTypeOK
  <1>2. CASE UNCHANGED siteVars
    BY <1>2 DEF siteVars, accountVars, SiteTypeOK
  <1> QED
    BY <1>1, <1>2, WorkerKeepsTypes, WizardKeepsTypes, RequestKeepsTypes DEF Next

(***************************************************************************)
(* A worker that has read its settings has tables under it, so that a schema is  *)
(* there when it loads the hosts.                                           *)
(***************************************************************************)
Readied ==
    /\ FoundMeansReady
    /\ \A w \in Workers : worker[w].pc = "jobs" => schema # None

(***************************************************************************)
(* Tables only become those of this version: nothing drops them, or takes back   *)
(* what a migration did.                                                     *)
(***************************************************************************)
Mended == schema' = schema \/ schema' = {}

LEMMA MendedFits ==
    ASSUME Mended, UNCHANGED plan, schema # None
    PROVE  schema' # None /\ (plan.loads \cap schema = {} => (plan.loads \cap schema = {})')
  BY PlansAssumption DEF Mended

LEMMA ReadiedKept ==
    ASSUME Readied, Mended, UNCHANGED plan,
           \A w \in Workers :
              \/ /\ worker'[w].pc = worker[w].pc /\ worker'[w].jobs = worker[w].jobs
                 /\ worker'[w].found = worker[w].found
              \/ worker'[w].pc \notin {"up", "jobs"}
              \/ worker'[w].pc = "up" /\ ~worker'[w].found
    PROVE  Readied'
  BY MendedFits DEF Readied, FoundMeansReady

LEMMA ReadiedStep == SiteTypeOK /\ Readied /\ [Next]_siteVars => Readied'
  <1> SUFFICES ASSUME SiteTypeOK, Readied, [Next]_siteVars PROVE Readied'
    OBVIOUS
  <1>1. ASSUME NEW w \in Workers, WorkerStep(w) PROVE Readied'
    <2>1. ASSUME StartWorker(w) PROVE Readied'
      <3>1. \A v \in Workers : worker'[v] = IF v = w THEN [pc |-> IF saved THEN "tables" ELSE "up",
                engine |-> saved, jobs |-> FALSE, found |-> saved] ELSE worker[v]
        BY <1>1, <2>1 DEF StartWorker, SiteTypeOK
      <3>2. Mended /\ UNCHANGED plan
        BY <2>1 DEF StartWorker, Mended, accountVars
      <3>3. /\ worker'[w].pc \notin {"up", "jobs"} \/ (worker'[w].pc = "up" /\ ~worker'[w].found)
            /\ \A v \in Workers : v # w => worker'[v] = worker[v]
        BY <1>1, <3>1
      <3> QED
        BY <3>2, <3>3, ReadiedKept
    <2>2. ASSUME InitTables(w) PROVE Readied'
      BY <1>1, <2>2, GoesType, ReadiedKept DEF InitTables, Ensured, Mended, accountVars, WorkerPCs
    <2>3. ASSUME RunMigrations(w) PROVE Readied'
      BY <1>1, <2>3, GoesType, ReadiedKept DEF RunMigrations, Mended, accountVars, WorkerPCs
    <2>4. ASSUME EnsureDefaultGroups(w) PROVE Readied'
      BY <1>1, <2>4, GoesType, ReadiedKept DEF EnsureDefaultGroups, Mended, WorkerPCs
    <2>5. ASSUME InitFails(w) PROVE Readied'
      BY <1>1, <2>5, GoesType, ReadiedKept DEF InitFails, Mended, accountVars, WorkerPCs
    <2>6. ASSUME LoadSettings(w) PROVE Readied'
      BY <1>1, <2>6, GoesType DEF LoadSettings, accountVars, WorkerPCs, Readied, FoundMeansReady
    <2>7. ASSUME StartScheduler(w) PROVE Readied'
      BY <1>1, <2>7 DEF StartScheduler, accountVars, SiteTypeOK, Worker, Readied, FoundMeansReady
    <2>8. ASSUME Crash(w) PROVE Readied'
      <3>1. \A v \in Workers : worker'[v] = IF v = w THEN Down ELSE worker[v]
        BY <1>1, <2>8 DEF Crash, SiteTypeOK
      <3>2. Mended /\ UNCHANGED plan
        BY <2>8 DEF Crash, Mended, accountVars
      <3>3. worker'[w].pc = "down" /\ \A v \in Workers : v # w => worker'[v] = worker[v]
        BY <1>1, <3>1 DEF Down
      <3> QED
        BY <3>2, <3>3, ReadiedKept
    <2> QED
      BY <1>1, <2>1, <2>2, <2>3, <2>4, <2>5, <2>6, <2>7, <2>8 DEF WorkerStep
  <1>2. ASSUME NEW w \in Workers, Visit(w) PROVE Readied'
    BY <1>2, LoadsType, ReadiedKept DEF Visit, Mended, accountVars
  <1>3. ASSUME BeginRequest \/ ProceedRequest PROVE Readied'
    BY <1>3, RequestKeepsPlan, ReadiedKept DEF BeginRequest, ProceedRequest, Mended
  <1>4. ASSUME NEW z \in plan.browsers, WizardStep(z) PROVE Readied'
    <2>1. Mended /\ UNCHANGED plan
      BY <1>4 DEF WizardStep, OpenForm, TestConnection, SaveUrl, MakeTables, StepFails, CountAdmins,
                  InsertAdmin, Ensured, Mended, accountVars
    <2>2. UNCHANGED worker \/ \E w : Loads(w)
      BY <1>4 DEF WizardStep, OpenForm, TestConnection, SaveUrl, MakeTables, StepFails, CountAdmins,
                  InsertAdmin
    <2> QED
      BY <2>1, <2>2, LoadsType, ReadiedKept
  <1>5. CASE UNCHANGED siteVars
    BY <1>5, ReadiedKept DEF siteVars, accountVars, Mended
  <1> QED
    BY <1>1, <1>2, <1>3, <1>4, <1>5 DEF Next

(***************************************************************************)
(* A worker that found a URL and serves has its scheduler, and a database whose  *)
(* hosts it could load then and can load still: the jobs are made of nothing    *)
(* else, and no step takes tables or columns back.                           *)
(***************************************************************************)
THEOREM FoundIsReady == Spec => []FoundMeansReady
  <1>1. Init => Readied
    BY PlansAssumption DEF Init, AccountInit, Readied, FoundMeansReady, Down
  <1>2. Readied => FoundMeansReady
    BY DEF Readied
  <1> QED
    BY <1>1, <1>2, SiteTypeInit, SiteTypeStep, ReadiedStep, PTL DEF Spec

(***************************************************************************)
(* A wizard about to make an administrator that none has overtaken finds none:  *)
(* whoever makes one tells the wizards under way.                            *)
(***************************************************************************)
CountStands ==
    \A z \in Wizards : wiz[z].pc = "inserting" => Admins = {} \/ wiz[z].overtaken

LEMMA AdminsStand == UNCHANGED users => UNCHANGED Admins
  BY DEF Admins, There

LEMMA CountStandsStep == SiteTypeOK /\ CountStands /\ [Next]_siteVars => CountStands'
  <1> SUFFICES ASSUME SiteTypeOK, CountStands, [Next]_siteVars PROVE CountStands'
    OBVIOUS
  <1>1. ASSUME NEW w \in Workers, WorkerStep(w) \/ Visit(w) PROVE CountStands'
    <2>1. UNCHANGED users
      BY <1>1 DEF WorkerStep, Visit, StartWorker, InitTables, RunMigrations, EnsureDefaultGroups,
                  InitFails, LoadSettings, StartScheduler, Crash, accountVars
    <2>2. \A z \in Wizards : wiz'[z] = wiz[z] \/ wiz'[z] = Rest
      BY <1>1 DEF WorkerStep, Visit, StartWorker, InitTables, RunMigrations, EnsureDefaultGroups,
                  InitFails, LoadSettings, StartScheduler, Crash
    <2> QED
      BY <2>1, <2>2, AdminsStand DEF CountStands, Rest
  <1>2. ASSUME BeginRequest PROVE CountStands'
    <2>1. UNCHANGED <<users, wiz>>
      BY <1>2 DEF BeginRequest, Begin, Authorise, StartLogin
    <2> QED
      BY <2>1, AdminsStand DEF CountStands
  <1>3. ASSUME ProceedRequest PROVE CountStands'
    <2>1. CASE Admins' = {}
      BY <2>1 DEF CountStands
    <2>2. CASE Admins' # {}
      BY <1>3, <2>2, OvertakenType DEF ProceedRequest, CountStands
    <2> QED
      BY <2>1, <2>2
  <1>4. ASSUME NEW z \in plan.browsers, WizardStep(z) PROVE CountStands'
    <2>1. ASSUME NEW u, InsertAdmin(z, u) PROVE CountStands'
      BY <2>1, OvertakenType DEF InsertAdmin, Rest, CountStands, SiteTypeOK
    <2>2. ASSUME NEW w \in Workers, CountAdmins(z, w) PROVE CountStands'
      BY <2>2, AdminsStand DEF CountAdmins, Note, Nobody, CountStands, SiteTypeOK, accountVars
    <2>3. ASSUME NEW w \in Workers, TestConnection(z, w) PROVE CountStands'
      BY <2>3, AdminsStand DEF TestConnection, Note, CountStands, SiteTypeOK, Step, accountVars
    <2>4. ASSUME OpenForm(z) \/ MakeTables(z) \/ StepFails(z) PROVE CountStands'
      BY <2>4, AdminsStand DEF OpenForm, MakeTables, StepFails, Note, Rest, CountStands, SiteTypeOK,
                               accountVars
    <2>5. ASSUME SaveUrl(z) PROVE CountStands'
      BY <2>5, AdminsStand DEF SaveUrl, Note, CountStands, SiteTypeOK, Step, accountVars
    <2> QED
      BY <1>4, <2>1, <2>2, <2>3, <2>4, <2>5 DEF WizardStep
  <1>5. CASE UNCHANGED siteVars
    BY <1>5, AdminsStand DEF siteVars, accountVars, CountStands
  <1> QED
    BY <1>1, <1>2, <1>3, <1>4, <1>5 DEF Next

(***************************************************************************)
(* The wizard makes no administrator where there is one, unless it has been     *)
(* overtaken since it counted.                                              *)
(***************************************************************************)
THEOREM WizardMakesTheFirst == Spec => WizardMakesFirst
  <1>1. Init => CountStands
    BY DEF Init, Rest, CountStands
  <1>2. CountStands => \A z \in Wizards : wiz[z].pc = "inserting" /\ users' # users /\ wiz'[z].pc = "idle"
                            => Admins = {} \/ wiz[z].overtaken
    BY DEF CountStands
  <1> QED
    BY <1>1, <1>2, SiteTypeInit, SiteTypeStep, CountStandsStep, PTL DEF Spec, WizardMakesFirst

(***************************************************************************)
(* The start and the wizard keep what the requests rely on: they delete         *)
(* nothing, and tell the requests of what they make.                          *)
(***************************************************************************)
LEMMA MakingKeeps ==
    ASSUME AccountInv, NEW touched, req' = AllSeen(touched, FALSE), UNCHANGED <<open, grants, plan>>,
           users' \in [Users -> Row \cup {None}], live \subseteq live', live' \subseteq Groups,
           \A u \in Users : users'[u] = users[u] \/ (users'[u] # None /\ users'[u].in = {}),
           There \subseteq There', There' \subseteq There \cup touched
    PROVE  AccountInv'
  <1>1. Told(None, touched)
    BY AllSeenKeeps DEF Told, AccountInv
  <1>2. AccessIsLive'
    BY DEF AccountInv, AccessIsLive, There
  <1>3. open' \subseteq Spaces
    BY DEF AccountInv, AccountTypeOK
  <1> QED
    BY <1>1, <1>2, <1>3, CommitKeeps

LEMMA AccountInvStep == AccountInv /\ [Next]_siteVars => AccountInv'
  <1> SUFFICES ASSUME AccountInv, [Next]_siteVars PROVE AccountInv'
    OBVIOUS
  <1>1. ASSUME UNCHANGED accountVars PROVE AccountInv'
    BY <1>1 DEF accountVars, AccountInv, AccountTypeOK, AccessIsLive, OrdersStand, Stands, There
  <1>2. ASSUME NEW w \in Workers, WorkerStep(w) \/ Visit(w) PROVE AccountInv'
    <2>1. ASSUME EnsureDefaultGroups(w) PROVE AccountInv'
      <3>1. live \cup DefaultGroups \subseteq Groups
        BY DefaultGroupsAssumption DEF AccountInv, AccountTypeOK
      <3>2. users' \in [Users -> Row \cup {None}] /\ There' = There
        BY <2>1 DEF EnsureDefaultGroups, AccountInv, AccountTypeOK, There
      <3> QED
        BY <2>1, <3>1, <3>2, MakingKeeps DEF EnsureDefaultGroups
    <2>2. ASSUME ~EnsureDefaultGroups(w) PROVE AccountInv'
      <3>1. UNCHANGED accountVars
        BY <1>2, <2>2 DEF WorkerStep, Visit, StartWorker, InitTables, RunMigrations, InitFails,
                          LoadSettings, StartScheduler, Crash
      <3> QED
        BY <3>1, <1>1
    <2> QED
      BY <2>1, <2>2
  <1>3. ASSUME BeginRequest \/ ProceedRequest PROVE AccountInv'
    BY <1>3, BeginKeeps, ProceedKeeps DEF BeginRequest, ProceedRequest
  <1>4. ASSUME NEW z, WizardStep(z) PROVE AccountInv'
    <2>1. ASSUME NEW u, InsertAdmin(z, u) PROVE AccountInv'
      <3> DEFINE first == [admin |-> TRUE, active |-> TRUE, in |-> {}]
      <3>1. first \in Row /\ first.in = {}
        BY DEF Row
      <3>2. first \in Row /\ first # None /\ first.in = {}
        BY <3>1, NoneAssumption
      <3>3. users' = [users EXCEPT ![u] = first] /\ users \in [Users -> Row \cup {None}]
        BY <2>1 DEF InsertAdmin, AccountInv, AccountTypeOK
      <3> HIDE DEF first
      <3>4. users' \in [Users -> Row \cup {None}] /\ There \subseteq There' /\ There' \subseteq There \cup {u}
        BY <3>2, <3>3 DEF There
      <3>5. \A v \in Users : users'[v] = users[v] \/ (users'[v] # None /\ users'[v].in = {})
        BY <3>2, <3>3
      <3>6. live' \subseteq Groups
        BY <2>1 DEF InsertAdmin, AccountInv, AccountTypeOK
      <3> QED
        BY <2>1, <3>4, <3>5, <3>6, MakingKeeps DEF InsertAdmin
    <2>2. ASSUME ~\E u \in plan.founders : InsertAdmin(z, u) PROVE AccountInv'
      <3>1. UNCHANGED accountVars
        BY <1>4, <2>2 DEF WizardStep, OpenForm, TestConnection, SaveUrl, MakeTables, StepFails, CountAdmins
      <3> QED
        BY <3>1, <1>1
    <2> QED
      BY <2>1, <2>2
  <1>5. CASE UNCHANGED siteVars
    BY <1>1, <1>5 DEF siteVars
  <1> QED
    BY <1>2, <1>3, <1>4, <1>5 DEF Next

LEMMA AccountInvAlways == Spec => []AccountInv
  <1>1. Init => AccountInv
    BY AccountInvInit DEF Init
  <1> QED
    BY <1>1, AccountInvStep, PTL DEF Spec

(***************************************************************************)
(* What is relied on of administrators is kept by the start and the wizard,     *)
(* which take the rights from nobody.                                       *)
(***************************************************************************)
LEMMA AdminsKept ==
    ASSUME AccountInv, AdminsRelied, NEW touched, req' = AllSeen(touched, FALSE),
           ActiveAdmins \subseteq ActiveAdmins'
    PROVE  AdminsRelied'
  <1>1. \A q \in Requests : req'[q] \in {None, Seen(req[q], touched, FALSE)}
    BY AllSeenKeeps DEF AccountInv
  <1> QED
    BY <1>1, ReliedKept DEF AccountInv

LEMMA Unmoved ==
    ASSUME AdminsRelied, UNCHANGED <<users, req>>
    PROVE  AdminsRelied' /\ ActiveAdmins' = ActiveAdmins
  BY DEF AdminsRelied, Relies, ActiveAdmins, Admins, There

LEMMA AdminStep ==
    ASSUME AccountInv, AdminsRelied, [Next]_siteVars
    PROVE  /\ AdminsRelied'
           /\ ActiveAdmins # {} /\ ActiveAdmins' = {} =>
                 \E r \in Busy : req'[r] = None /\ (Order(r).kind = "login" \/ req[r].overtaken)
  <1>1. ASSUME NEW w \in Workers, EnsureDefaultGroups(w) PROVE AdminsRelied' /\ ActiveAdmins' = ActiveAdmins
    <2>1. ActiveAdmins' = ActiveAdmins
      BY <1>1 DEF EnsureDefaultGroups, ActiveAdmins, Admins, There
    <2> QED
      BY <1>1, <2>1, AdminsKept DEF EnsureDefaultGroups
  <1>2. ASSUME NEW w \in Workers, WorkerStep(w) \/ Visit(w), ~EnsureDefaultGroups(w)
        PROVE  AdminsRelied' /\ ActiveAdmins' = ActiveAdmins
    <2>1. UNCHANGED <<users, req>>
      BY <1>2 DEF WorkerStep, Visit, StartWorker, InitTables, RunMigrations, InitFails, LoadSettings,
                  StartScheduler, Crash, accountVars
    <2> QED
      BY <2>1, Unmoved
  <1>3. CASE BeginRequest
    BY <1>3, BeginRelies DEF BeginRequest
  <1>4. CASE ProceedRequest
    BY <1>4, ProceedRelies, ProceedSpares DEF ProceedRequest
  <1>5. ASSUME NEW z, NEW u, InsertAdmin(z, u) PROVE AdminsRelied' /\ ActiveAdmins \subseteq ActiveAdmins'
    <2>1. ActiveAdmins \subseteq ActiveAdmins'
      BY <1>5 DEF InsertAdmin, ActiveAdmins, Admins, There, AccountInv, AccountTypeOK
    <2> QED
      BY <1>5, <2>1, AdminsKept DEF InsertAdmin
  <1>6. ASSUME NEW z, WizardStep(z), ~\E u \in plan.founders : InsertAdmin(z, u)
        PROVE  AdminsRelied' /\ ActiveAdmins' = ActiveAdmins
    <2>1. UNCHANGED <<users, req>>
      BY <1>6 DEF WizardStep, OpenForm, TestConnection, SaveUrl, MakeTables, StepFails, CountAdmins,
                  accountVars
    <2> QED
      BY <2>1, Unmoved
  <1>7. CASE UNCHANGED siteVars
    BY <1>7, Unmoved DEF siteVars, accountVars
  <1> QED
    BY <1>1, <1>2, <1>3, <1>4, <1>5, <1>6, <1>7 DEF Next

(***************************************************************************)
(* The step that leaves no active administrator is a login's, or that of a      *)
(* request that another commit overtook: unless it is overtaken, the one who    *)
(* asks is an administrator still when the request commits, and who gives up    *)
(* the rights leaves the other that was counted.                            *)
(***************************************************************************)
THEOREM AdminStays == Spec => AdminRemains
  <1>1. Init => AdminsRelied
    BY ReliedInit DEF Init
  <1>2. AccountInv /\ AdminsRelied /\ [Next]_siteVars => AdminsRelied'
    BY AdminStep
  <1>3. AccountInv /\ AdminsRelied /\ [Next]_siteVars =>
          [ActiveAdmins # {} /\ ActiveAdmins' = {} =>
             \E r \in Busy : req'[r] = None /\ (Order(r).kind = "login" \/ req[r].overtaken)]_accountVars
    BY AdminStep
  <1> QED
    BY <1>1, <1>2, <1>3, AccountInvAlways, PTL DEF Spec, AdminRemains

(***************************************************************************)
(* Memberships and grants are those of groups, users and spaces there are,      *)
(* because a request about to join or grant is doomed when what it found is     *)
(* deleted, and deleting takes memberships and grants along.                   *)
(***************************************************************************)
THEOREM AccessStaysLive == Spec => []AccessIsLive
  <1>1. AccountInv => AccessIsLive
    BY DEF AccountInv
  <1> QED
    BY <1>1, AccountInvAlways, PTL

(***************************************************************************)
(* Type correctness of the site and its accounts: the variables of Startup      *)
(* keep their types.                                                       *)
(***************************************************************************)
THEOREM TypeCorrect == Spec => []TypeOK
  <1>1. AccountInv /\ SiteTypeOK => TypeOK
    BY DEF AccountInv, SiteTypeOK, TypeOK
  <1> QED
    BY <1>1, AccountInvAlways, SiteTypeInit, SiteTypeStep, PTL DEF Spec

=============================================================================
