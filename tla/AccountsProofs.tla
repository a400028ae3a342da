--------------------------- MODULE AccountsProofs ---------------------------
(***************************************************************************)
(* Lemmas about users, groups and spaces, for any number of them and of         *)
(* requests under way: what one step of a request keeps.                      *)
(***************************************************************************)
EXTENDS Accounts, FiniteSetTheorems, TLAPS

(***************************************************************************)
(* What a request found when it loaded its rows is there until it commits, or   *)
(* the request is doomed.                                                   *)
(***************************************************************************)
Stands(o, copy) ==
    /\ o.kind = "create" => o.target \notin There
    /\ o.kind = "login" /\ copy # None => o.target \in There
    /\ o.kind \in {"edit", "join", "leave"} => o.target \in There
    /\ o.kind \in {"join", "grant"} => o.group \in live
    /\ o.kind = "grant" => o.space \in open

Past == {"counting", "looking", "ready"}

OrdersStand ==
    \A r \in Requests :
        /\ req[r] # None /\ req[r].pc = "looking" => req[r].order.kind = "login"
        /\ req[r] # None /\ req[r].pc \in Past /\ ~req[r].doomed => Stands(req[r].order, req[r].copy)

AccountInv == AccountTypeOK /\ AccessIsLive /\ OrdersStand

LEMMA PlanOrders == \A p \in Plans : p.orders \subseteq Orders
  BY DEF Orders

LEMMA AccountInvInit == AccountInit => AccountInv
  <1> SUFFICES ASSUME AccountInit PROVE AccountInv
    OBVIOUS
  <1>1. /\ plan \in Plans /\ live \subseteq Groups /\ open \subseteq Spaces
        /\ users \in [Users -> [admin: BOOLEAN, active: BOOLEAN, in: SUBSET live] \cup {None}]
        /\ grants \subseteq live \X open
    BY RowsAssumption DEF AccountInit
  <1>2. users \in [Users -> Row \cup {None}]
    BY <1>1 DEF Row
  <1>3. AccountTypeOK
    BY <1>1, <1>2 DEF AccountInit, AccountTypeOK
  <1>4. AccessIsLive
    BY <1>1 DEF AccessIsLive, There
  <1>5. OrdersStand
    BY DEF AccountInit, OrdersStand
  <1> QED
    BY <1>3, <1>4, <1>5 DEF AccountInv

(***************************************************************************)
(* A request that sees rows come or go keeps what it is about; if it is not     *)
(* doomed, it needs none of them.                                           *)
(***************************************************************************)
LEMMA SeenKeeps ==
    ASSUME NEW request \in Request, NEW touched, NEW lost \in BOOLEAN
    PROVE  /\ Seen(request, touched, lost) \in Request
           /\ Seen(request, touched, lost).pc = request.pc
           /\ Seen(request, touched, lost).order = request.order
           /\ Seen(request, touched, lost).copy = request.copy
           /\ ~Seen(request, touched, lost).doomed =>
                 ~request.doomed /\ (Needs(request) \ {None}) \cap touched = {}
  BY NoneAssumption DEF Seen, Request

LEMMA AllSeenKeeps ==
    ASSUME AccountTypeOK, NEW touched, NEW lost \in BOOLEAN
    PROVE  /\ AllSeen(touched, lost) \in [Requests -> Request \cup {None}]
           /\ \A q \in Requests : AllSeen(touched, lost)[q] = Seen(req[q], touched, lost)
  <1>1. \A q \in Requests : Seen(req[q], touched, lost) \in Request \cup {None}
    <2> TAKE q \in Requests
    <2>1. CASE req[q] = None
      BY <2>1 DEF Seen
    <2>2. CASE req[q] \in Request
      BY <2>2, SeenKeeps
    <2> QED
      BY <2>1, <2>2 DEF AccountTypeOK
  <1> QED
    BY <1>1 DEF AllSeen

(***************************************************************************)
(* What is said of the requests after a commit, by r or by nobody.           *)
(***************************************************************************)
Told(r, touched) ==
    /\ req' \in [Requests -> Request \cup {None}]
    /\ \A q \in Requests : \/ q = r /\ req'[q] = None
                           \/ \E lost \in BOOLEAN : req'[q] = Seen(req[q], touched, lost)

LEMMA EndsTells ==
    ASSUME AccountTypeOK, NEW r \in Requests, NEW touched, Ends(r, touched)
    PROVE  Told(r, touched)
  BY AllSeenKeeps DEF Ends, Told

LEMMA StandsKept ==
    ASSUME AccountTypeOK, OrdersStand, NEW r, NEW touched, Told(r, touched), plan' \in Plans,
           There \ touched \subseteq There', There' \subseteq There \cup touched,
           live \ touched \subseteq live', open \ touched \subseteq open'
    PROVE  OrdersStand'
  <1> SUFFICES ASSUME NEW q \in Requests, NEW o, NEW copy, o = req'[q].order, copy = req'[q].copy,
                      req'[q] # None, req'[q].pc \in Past, ~req'[q].doomed
               PROVE  Stands(o, copy)'
    <2>1. ASSUME NEW q \in Requests, req'[q] # None, req'[q].pc = "looking" PROVE req'[q].order.kind = "login"
      <3>1. PICK lost \in BOOLEAN : req'[q] = Seen(req[q], touched, lost)
        BY <2>1 DEF Told
      <3>2. req[q] \in Request
        BY <2>1, <3>1 DEF Seen, AccountTypeOK
      <3> QED
        BY <2>1, <3>1, <3>2, SeenKeeps, NoneAssumption DEF OrdersStand
    <2> QED
      BY <2>1 DEF OrdersStand, Stands
  <1>1. PICK lost \in BOOLEAN : req'[q] = Seen(req[q], touched, lost)
    BY DEF Told
  <1>2. req[q] \in Request
    BY <1>1 DEF Seen, AccountTypeOK
  <1>3. /\ req[q].order = o /\ req[q].copy = copy /\ req[q].pc \in Past /\ ~req[q].doomed
        /\ (Needs(req[q]) \ {None}) \cap touched = {}
    BY <1>1, <1>2, SeenKeeps
  <1>4. o \in Orders
    BY <1>2, <1>3 DEF Request
  <1>5. Stands(o, copy)
    BY <1>2, <1>3, NoneAssumption DEF OrdersStand
  <1>6. o.kind \in {"create", "edit", "join", "leave", "login"} => o.target \notin touched
    BY <1>3, <1>4, OrdersAssumption, NoneAssumption DEF Needs
  <1>7. o.kind \in {"join", "grant"} => o.group \notin touched
    BY <1>3, <1>4, OrdersAssumption, NoneAssumption DEF Needs
  <1>8. o.kind = "grant" => o.space \notin touched
    BY <1>3, <1>4, OrdersAssumption, NoneAssumption DEF Needs
  <1> QED
    BY <1>3, <1>5, <1>6, <1>7, <1>8 DEF Stands

LEMMA CommitKeeps ==
    ASSUME AccountInv, NEW r, NEW touched, Told(r, touched), UNCHANGED plan,
           users' \in [Users -> Row \cup {None}], live' \subseteq Groups, open' \subseteq Spaces,
           AccessIsLive',
           There \ touched \subseteq There', There' \subseteq There \cup touched,
           live \ touched \subseteq live', open \ touched \subseteq open'
    PROVE  AccountInv'
  <1>1. plan \in Plans /\ req' \in [Requests -> Request \cup {None}]
    BY DEF AccountInv, AccountTypeOK, Told
  <1>2. grants' \subseteq Groups \X Spaces
    BY DEF AccessIsLive
  <1>3. AccountTypeOK'
    BY <1>1, <1>2 DEF AccountTypeOK
  <1>4. OrdersStand'
    BY <1>1, StandsKept DEF AccountInv
  <1> QED
    BY <1>3, <1>4 DEF AccountInv

(***************************************************************************)
(* A request that begins, reads or ends without a commit.                     *)
(***************************************************************************)
LEMMA BecomesKeeps ==
    ASSUME AccountInv, NEW r \in Requests, NEW request \in Request \cup {None}, Becomes(r, request),
           UNCHANGED <<users, live, open, grants, plan>>,
           request # None /\ request.pc = "looking" => request.order.kind = "login",
           request # None /\ request.pc \in Past /\ ~request.doomed => Stands(request.order, request.copy)
    PROVE  AccountInv'
  <1>1. /\ req' \in [Requests -> Request \cup {None}]
        /\ \A q \in Requests : req'[q] = IF q = r THEN request ELSE req[q]
    BY DEF Becomes, AccountInv, AccountTypeOK
  <1>2. AccountTypeOK'
    BY <1>1 DEF AccountInv, AccountTypeOK
  <1>3. AccessIsLive'
    BY DEF AccountInv, AccessIsLive, There
  <1>4. OrdersStand'
    BY <1>1 DEF AccountInv, OrdersStand, Stands, There
  <1> QED
    BY <1>2, <1>3, <1>4 DEF AccountInv

LEMMA BeginKeeps == AccountInv /\ Begin => AccountInv'
  <1> SUFFICES ASSUME AccountInv, NEW r \in Requests, NEW o \in plan.orders,
                      Authorise(r, o) \/ StartLogin(r, o)
               PROVE  AccountInv'
    BY DEF Begin
  <1>1. o \in Orders /\ None \notin Users
    BY PlanOrders, NoneAssumption DEF AccountInv, AccountTypeOK
  <1>2. CASE Authorise(r, o)
    <2>1. o.actor \in Users /\ users[o.actor] \in Row \cup {None}
      BY <1>2 DEF Authorise, ActiveAdmins, Admins, There, AccountInv, AccountTypeOK
    <2>2. Begun("authorised", o, users[o.actor]) \in Request
      BY <1>1, <2>1 DEF Begun, Request
    <2>3. Begun("authorised", o, users[o.actor]).pc \notin Past \cup {"looking"}
      BY DEF Begun, Past
    <2> QED
      BY <1>2, <2>2, <2>3, BecomesKeeps DEF Authorise
  <1>3. CASE StartLogin(r, o)
    <2>1. o.target \in Users
      BY <1>1, <1>3, OrdersAssumption DEF StartLogin
    <2>2. users[o.target] \in Row \cup {None}
      BY <2>1 DEF AccountInv, AccountTypeOK
    <2> DEFINE pc == IF o.claims = None THEN "ready" ELSE "looking"
    <2>3. /\ Begun(pc, o, users[o.target]) \in Request
          /\ Begun(pc, o, users[o.target]).order = o /\ Begun(pc, o, users[o.target]).copy = users[o.target]
      BY <1>1, <2>2 DEF Begun, Request
    <2>4. Stands(o, users[o.target])
      BY <1>3, <2>1 DEF StartLogin, Stands, There
    <2> QED
      BY <1>3, <2>3, <2>4, BecomesKeeps DEF StartLogin
  <1> QED
    BY <1>2, <1>3

LEMMA AppliesStands ==
    ASSUME NEW o, NEW copy, Applies(o), o.kind = "login" => copy = None
    PROVE  Stands(o, copy)
  BY DEF Applies, Stands

LEMMA LoadKeeps ==
    ASSUME AccountInv, NEW r \in Requests, Load(r)
    PROVE  AccountInv'
  <1> DEFINE o   == req[r].order
             row == IF o.kind \notin {"edit", "delete"} THEN None
                    ELSE IF o.target = o.actor THEN req[r].copy ELSE users[o.target]
             loaded == [req[r] EXCEPT !.copy = row, !.doomed = @ /\ ~ByName(o),
                                      !.pc = IF Counts(o, row) THEN "counting" ELSE "ready"]
  <1>1. req[r] \in Request /\ o \in Orders
    BY DEF Load, AccountInv, AccountTypeOK, Request
  <1>2. row \in Row \cup {None}
    BY <1>1, OrdersAssumption DEF AccountInv, AccountTypeOK, Request
  <1>3. loaded \in Request /\ loaded.order = o /\ loaded.pc # "looking"
    BY <1>1, <1>2 DEF Request, ByName
  <1>4. CASE ~Applies(o) \/ Barred(o) \/ Settled(o)
    BY <1>4, BecomesKeeps DEF Load
  <1>5. CASE Applies(o) /\ ~Barred(o) /\ ~Settled(o)
    <2>1. Becomes(r, loaded) /\ UNCHANGED <<users, live, open, grants, plan>>
      BY <1>5 DEF Load
    <2>2. Stands(loaded.order, loaded.copy)
      <3>1. loaded.copy = row
        BY <1>1 DEF Request
      <3>2. o.kind = "login" => row = None
        OBVIOUS
      <3> HIDE DEF loaded, row
      <3> QED
        BY <1>3, <1>5, <3>1, <3>2, AppliesStands
    <2> HIDE DEF loaded
    <2> QED
      BY <1>3, <2>1, <2>2, BecomesKeeps
  <1> QED
    BY <1>4, <1>5

LEMMA CountKeeps ==
    ASSUME AccountInv, NEW r \in Requests, Count(r) \/ Abandon(r)
    PROVE  AccountInv'
  <1>1. CASE Abandon(r) \/ (Count(r) /\ LastOne)
    BY <1>1, BecomesKeeps DEF Abandon, Count
  <1>2. CASE Count(r) /\ ~LastOne
    <2>1. req[r] \in Request
      BY <1>2 DEF Count, AccountInv, AccountTypeOK
    <2>2. /\ [req[r] EXCEPT !.pc = "ready"] \in Request
          /\ ~req[r].doomed => Stands(req[r].order, req[r].copy)
      BY <1>2, <2>1 DEF Count, Request, AccountInv, OrdersStand, Past
    <2> QED
      BY <1>2, <2>1, <2>2, BecomesKeeps DEF Count, Request
  <1> QED
    BY <1>1, <1>2

LEMMA LookUpKeeps ==
    ASSUME AccountInv, NEW r \in Requests, LookUp(r) \/ Wipe(r)
    PROVE  AccountInv'
  <1>1. /\ req[r] \in Request /\ req[r] # None /\ req[r].pc = "looking" /\ Order(r).kind = "login"
        /\ ~req[r].doomed => Stands(Order(r), req[r].copy)
    BY DEF LookUp, Wipe, Order, AccountInv, AccountTypeOK, OrdersStand, Past
  <1>2. Order(r) \in Orders /\ Order(r).target \in Users /\ Claimed(Order(r)) \subseteq Groups
    BY <1>1, OrdersAssumption DEF Request, Order, Claimed
  <1>3. CASE LookUp(r)
    <2>1. PICK g \in Groups : Becomes(r, [req[r] EXCEPT !.asked = @ \cup {g}])
      BY <1>2, <1>3 DEF LookUp
    <2> DEFINE request == [req[r] EXCEPT !.asked = @ \cup {g}]
    <2>2. /\ request \in Request /\ request.order = Order(r) /\ request.copy = req[r].copy
          /\ request.doomed = req[r].doomed
      BY <1>1 DEF Request, Order
    <2>3. UNCHANGED <<users, live, open, grants, plan>>
      BY <1>3 DEF LookUp
    <2> HIDE DEF request
    <2>4. Becomes(r, request)
      BY <2>1 DEF request
    <2> QED
      BY <1>1, <2>2, <2>3, <2>4, BecomesKeeps
  <1>4. CASE Wipe(r)
    <2> DEFINE copy == req[r].copy
               now  == users[Order(r).target]
               wiped == IF copy = None \/ now = None THEN copy ELSE [copy EXCEPT !.in = now.in]
               request == [req[r] EXCEPT !.pc = "ready", !.copy = wiped]
    <2>1. now \in Row \cup {None} /\ copy \in Row \cup {None}
      BY <1>1, <1>2 DEF AccountInv, AccountTypeOK, Request
    <2>2. wiped \in Row \cup {None} /\ (copy = None => wiped = None)
      BY <2>1 DEF Row
    <2>3. Becomes(r, request) /\ UNCHANGED <<users, live, open, grants, plan>>
      BY <1>4 DEF Wipe
    <2> HIDE DEF wiped
    <2>4. /\ request \in Request /\ request.order = Order(r) /\ request.copy = wiped
          /\ request.doomed = req[r].doomed /\ request.pc = "ready"
      BY <1>1, <2>2 DEF Request, Order
    <2>5. Stands(Order(r), copy) => Stands(Order(r), wiped)
      BY <2>2 DEF Stands
    <2> HIDE DEF request
    <2> QED
      BY <1>1, <2>3, <2>4, <2>5, BecomesKeeps
  <1> QED
    BY <1>3, <1>4

(***************************************************************************)
(* A request that commits: what it found stands, and its target is a user, its  *)
(* group a group.                                                          *)
(***************************************************************************)
LEMMA ReadyStands ==
    ASSUME AccountInv, NEW r \in Requests, NEW kind, Ready(r, kind)
    PROVE  /\ req[r] \in Request /\ Order(r) \in Orders /\ Order(r).kind = kind
           /\ Stands(Order(r), req[r].copy)
  BY DEF Ready, Order, AccountInv, AccountTypeOK, OrdersStand, Past, Request

LEMMA UserCommits ==
    ASSUME AccountInv, NEW r \in Requests, Create(r) \/ Edit(r) \/ Delete(r)
    PROVE  AccountInv'
  <1> DEFINE u == Order(r).target
  <1> USE DEF AccountInv, AccountTypeOK, AccessIsLive, There
  <1>1. CASE Create(r)
    <2>1. u \in Users /\ Fresh \in Row /\ Fresh.in = {}
      BY <1>1, ReadyStands, OrdersAssumption DEF Create, Fresh, Row
    <2>2. users' = [users EXCEPT ![u] = Fresh] /\ UNCHANGED <<live, open, grants, plan>>
      BY <1>1 DEF Create
    <2>3. users' \in [Users -> Row \cup {None}] /\ AccessIsLive' /\ There' = There \cup {u}
      BY <2>1, <2>2, NoneAssumption
    <2>4. Told(r, {u})
      BY <1>1, EndsTells DEF Create
    <2> QED
      BY <2>2, <2>3, <2>4, CommitKeeps
  <1>2. CASE Edit(r)
    <2> DEFINE o == Order(r)
               row == [users[u] EXCEPT
                         !.admin  = Written(o, "admin", req[r].copy.admin, @),
                         !.active = Written(o, "active", req[r].copy.active, @)]
    <2>1. u \in There /\ users[u] \in Row /\ o \in Orders
      BY <1>2, ReadyStands DEF Edit, Stands
    <2>2. \A f, loaded : \A now \in BOOLEAN : Written(o, f, loaded, now) \in BOOLEAN
      BY <2>1, OrdersAssumption DEF Written, Says
    <2>3. row \in Row /\ row.in = users[u].in
      BY <2>1, <2>2 DEF Row
    <2>4. users' = [users EXCEPT ![u] = row] /\ UNCHANGED <<live, open, grants, plan>>
      BY <1>2 DEF Edit
    <2> HIDE DEF row
    <2>5. users' \in [Users -> Row \cup {None}] /\ AccessIsLive' /\ There' = There
      BY <2>1, <2>3, <2>4, NoneAssumption
    <2>6. Told(r, {})
      BY <1>2, EndsTells DEF Edit
    <2> QED
      BY <2>4, <2>5, <2>6, CommitKeeps
  <1>3. CASE Delete(r)
    <2>1. users' = [users EXCEPT ![u] = None] /\ UNCHANGED <<live, open, grants, plan>>
      BY <1>3 DEF Delete
    <2>2. users' \in [Users -> Row \cup {None}] /\ AccessIsLive' /\ There' = There \ {u}
      BY <2>1, NoneAssumption
    <2>3. Told(r, {u})
      BY <1>3, EndsTells DEF Delete
    <2> QED
      BY <2>1, <2>2, <2>3, CommitKeeps
  <1> QED
    BY <1>1, <1>2, <1>3

LEMMA LoginCommits ==
    ASSUME AccountInv, NEW r \in Requests, Login(r)
    PROVE  AccountInv'
  <1> DEFINE o    == Order(r)
             copy == IF req[r].copy = None THEN Fresh ELSE req[r].copy
             now  == IF users[o.target] = None THEN Fresh ELSE users[o.target]
             made == Claimed(o) \ live
             row  == IF o.claims = None THEN now ELSE ByClaims(o, copy, now)
             touched == made \cup (IF req[r].copy = None THEN {o.target} ELSE {})
  <1> USE DEF AccountInv, AccountTypeOK, AccessIsLive, There
  <1>1. o \in Orders /\ o.target \in Users /\ req[r] \in Request
    BY ReadyStands, OrdersAssumption DEF Login
  <1>2. Fresh \in Row /\ Fresh.in = {}
    BY DEF Fresh, Row
  <1>3. now \in Row /\ now.in \subseteq live
    BY <1>1, <1>2
  <1>4. copy \in Row
    BY <1>1, <1>2 DEF Request
  <1>5. (o.claims = None \/ o.claims \subseteq Groups) /\ Claimed(o) \subseteq Groups
    BY <1>1, OrdersAssumption DEF Claimed
  <1>6. row \in Row /\ row.in \subseteq live \cup made
    <2> HIDE DEF now, copy
    <2>1. CASE o.claims = None
      BY <1>3, <2>1
    <2>2. CASE o.claims # None
      <3>1. o.claims \subseteq Groups /\ (Administrator \in o.claims) \in BOOLEAN
        BY <1>5, <2>2
      <3>2. ByClaims(o, copy, now) \in Row /\ ByClaims(o, copy, now).in \subseteq live \cup o.claims
        BY <1>3, <1>4, <3>1 DEF ByClaims, Row
      <3> QED
        BY <2>2, <3>2 DEF Claimed
    <2> QED
      BY <2>1, <2>2
  <1>7. /\ users' = [users EXCEPT ![o.target] = row] /\ live' = live \cup made
        /\ UNCHANGED <<open, grants, plan>> /\ Ends(r, touched)
    BY DEF Login
  <1> HIDE DEF row, touched
  <1>8. users' \in [Users -> Row \cup {None}] /\ AccessIsLive' /\ There' = There \cup {o.target}
    BY <1>1, <1>6, <1>7, NoneAssumption
  <1>9. There' \subseteq There \cup touched
    BY <1>8, ReadyStands DEF Login, Stands, touched
  <1>10. live' \subseteq Groups /\ live \subseteq live'
    BY <1>5, <1>7
  <1>11. Told(r, touched)
    BY <1>7, EndsTells
  <1> QED
    BY <1>7, <1>8, <1>10, <1>11, <1>9, CommitKeeps

LEMMA GroupCommits ==
    ASSUME AccountInv, NEW r \in Requests, MakeGroup(r) \/ DropGroup(r)
    PROVE  AccountInv'
  <1> DEFINE g == Order(r).group
  <1> USE DEF AccountInv, AccountTypeOK, AccessIsLive, There
  <1>1. CASE MakeGroup(r)
    <2>1. g \in Groups
      BY <1>1, ReadyStands, OrdersAssumption DEF MakeGroup
    <2>2. live' = live \cup {g} /\ UNCHANGED <<users, open, grants, plan>> /\ Told(r, {g})
      BY <1>1, EndsTells DEF MakeGroup
    <2>3. AccessIsLive'
      BY <2>2
    <2> QED
      BY <2>1, <2>2, <2>3, CommitKeeps
  <1>2. CASE DropGroup(r)
    <2>1. /\ live' = live \ {g} /\ grants' = {e \in grants : e[1] # g} /\ UNCHANGED <<open, plan>>
          /\ users' = [u \in Users |-> IF users[u] = None THEN None ELSE [users[u] EXCEPT !.in = @ \ {g}]]
          /\ Told(r, {g})
      BY <1>2, EndsTells DEF DropGroup
    <2>2. \A u \in There : /\ [users[u] EXCEPT !.in = @ \ {g}] \in Row
                           /\ [users[u] EXCEPT !.in = @ \ {g}].in \subseteq live \ {g}
      BY DEF Row
    <2>3. users' \in [Users -> Row \cup {None}] /\ There' = There
      BY <2>1, <2>2, NoneAssumption
    <2>4. AccessIsLive'
      BY <2>1, <2>2, <2>3
    <2> QED
      BY <2>1, <2>3, <2>4, CommitKeeps
  <1> QED
    BY <1>1, <1>2

LEMMA MembershipCommits ==
    ASSUME AccountInv, NEW r \in Requests, Join(r) \/ Leave(r)
    PROVE  AccountInv'
  <1> DEFINE u == Order(r).target
             g == Order(r).group
  <1> USE DEF AccountInv, AccountTypeOK, AccessIsLive, There
  <1>1. u \in There /\ users[u] \in Row /\ Told(r, {}) /\ UNCHANGED <<live, open, grants, plan>>
    BY ReadyStands, EndsTells DEF Join, Leave, Stands
  <1>2. PICK in \in SUBSET live : users' = [users EXCEPT ![u] = [users[u] EXCEPT !.in = in]]
    <2>1. CASE Join(r)
      <3>1. users[u].in \cup {g} \in SUBSET live
        BY <1>1, <2>1, ReadyStands DEF Join, Stands
      <3> QED
        BY <2>1, <3>1 DEF Join
    <2>2. CASE Leave(r)
      <3>1. users[u].in \ {g} \in SUBSET live
        BY <1>1
      <3> QED
        BY <2>2, <3>1 DEF Leave
    <2> QED
      BY <2>1, <2>2
  <1>3. [users[u] EXCEPT !.in = in] \in Row /\ [users[u] EXCEPT !.in = in].in = in
    BY <1>1 DEF Row
  <1>4. users' \in [Users -> Row \cup {None}] /\ There' = There /\ AccessIsLive'
    BY <1>1, <1>2, <1>3, NoneAssumption
  <1> QED
    BY <1>1, <1>4, CommitKeeps

LEMMA SpaceCommits ==
    ASSUME AccountInv, NEW r \in Requests, Grant(r) \/ Revoke(r) \/ MakeSpace(r) \/ DropSpace(r)
    PROVE  AccountInv'
  <1> USE DEF AccountInv, AccountTypeOK, AccessIsLive, There
  <1>1. CASE Grant(r)
    <2>1. Order(r).group \in live /\ Order(r).space \in open
      BY <1>1, ReadyStands DEF Grant, Stands
    <2>2. AccessIsLive' /\ UNCHANGED <<users, live, open, plan>> /\ Told(r, {})
      BY <1>1, <2>1, EndsTells DEF Grant
    <2> QED
      BY <2>2, CommitKeeps
  <1>2. CASE Revoke(r)
    <2>1. AccessIsLive' /\ UNCHANGED <<users, live, open, plan>> /\ Told(r, {})
      BY <1>2, EndsTells DEF Revoke
    <2> QED
      BY <2>1, CommitKeeps
  <1>3. CASE MakeSpace(r)
    <2>1. PICK s \in Spaces : open' = open \cup {s}
      BY <1>3 DEF MakeSpace
    <2>2. AccessIsLive' /\ UNCHANGED <<users, live, plan>> /\ Told(r, {})
      BY <1>3, <2>1, EndsTells DEF MakeSpace
    <2> QED
      BY <2>1, <2>2, CommitKeeps
  <1>4. CASE DropSpace(r)
    <2>1. /\ open' = open \ {Order(r).space} /\ grants' = {e \in grants : e[2] # Order(r).space}
          /\ UNCHANGED <<users, live, plan>> /\ Told(r, {Order(r).space})
      BY <1>4, EndsTells DEF DropSpace
    <2>2. AccessIsLive'
      BY <2>1
    <2> QED
      BY <2>1, <2>2, CommitKeeps
  <1> QED
    BY <1>1, <1>2, <1>3, <1>4

LEMMA ProceedKeeps ==
    ASSUME AccountInv, NEW r \in Requests, Proceed(r)
    PROVE  AccountInv'
  BY LoadKeeps, CountKeeps, LookUpKeeps, UserCommits, LoginCommits, GroupCommits, MembershipCommits, SpaceCommits
     DEF Proceed

(***************************************************************************)
(* What an administrator's request relies on unless it is overtaken: the one    *)
(* who asks is an active administrator still, and whoever gives up the rights   *)
(* leaves another.                                                         *)
(***************************************************************************)
GivesUp(o) == o.kind = "edit" /\ o.target = o.actor /\ Says(o, "admin") /\ ~o.set["admin"]

Relies(o, pc) ==
    /\ o.actor \in ActiveAdmins
    /\ ~(o.kind = "delete" /\ o.target = o.actor)
    /\ pc \in {"counting", "ready"} => ~Barred(o)
    /\ pc = "ready" /\ GivesUp(o) => ActiveAdmins \ {o.actor} # {}

AdminsRelied ==
    \A r \in Requests :
        req[r] # None /\ req[r].order.kind # "login" /\ ~req[r].overtaken => Relies(req[r].order, req[r].pc)

LEMMA ReliedInit == AccountInit => AdminsRelied
  BY DEF AccountInit, AdminsRelied

(***************************************************************************)
(* After a commit or the making of rows: a request that is not overtaken has    *)
(* lost no administrator.                                                   *)
(***************************************************************************)
LEMMA SeenRelies ==
    ASSUME NEW request \in Request, NEW touched, NEW lost \in BOOLEAN
    PROVE  ~Seen(request, touched, lost).overtaken => ~request.overtaken /\ ~lost
  BY NoneAssumption DEF Seen, Request

LEMMA ReliedKept ==
    ASSUME AccountTypeOK, AdminsRelied, NEW touched, NEW lost \in BOOLEAN,
           ~lost => ActiveAdmins \subseteq ActiveAdmins',
           \A q \in Requests : req'[q] \in {None, Seen(req[q], touched, lost)}
    PROVE  AdminsRelied'
  <1> SUFFICES ASSUME NEW q \in Requests, NEW o, NEW pc, o = req'[q].order, pc = req'[q].pc,
                      req'[q] # None, o.kind # "login", ~req'[q].overtaken
               PROVE  Relies(o, pc)'
    BY DEF AdminsRelied, Relies
  <1>1. req'[q] = Seen(req[q], touched, lost)
    OBVIOUS
  <1>2. req[q] \in Request
    BY <1>1 DEF Seen, AccountTypeOK
  <1>3. req[q].order = o /\ req[q].pc = pc /\ ~req[q].overtaken /\ ~lost
    BY <1>1, <1>2, SeenKeeps, SeenRelies
  <1>4. Relies(o, pc)
    BY <1>2, <1>3, NoneAssumption DEF AdminsRelied
  <1> QED
    BY <1>3, <1>4 DEF Relies

LEMMA EndsRelies ==
    ASSUME AccountTypeOK, AdminsRelied, NEW r \in Requests, NEW touched, Ends(r, touched)
    PROVE  AdminsRelied' /\ req'[r] = None
  <1>1. CASE ActiveAdmins \subseteq ActiveAdmins'
    <2>1. req' = [AllSeen(touched, FALSE) EXCEPT ![r] = None]
      BY <1>1 DEF Ends
    <2>2. req'[r] = None /\ \A q \in Requests : req'[q] \in {None, Seen(req[q], touched, FALSE)}
      BY <2>1, AllSeenKeeps
    <2> QED
      BY <1>1, <2>2, ReliedKept
  <1>2. CASE ~(ActiveAdmins \subseteq ActiveAdmins')
    <2>1. req' = [AllSeen(touched, TRUE) EXCEPT ![r] = None]
      BY <1>2 DEF Ends
    <2>2. req'[r] = None /\ \A q \in Requests : req'[q] \in {None, Seen(req[q], touched, TRUE)}
      BY <2>1, AllSeenKeeps
    <2> QED
      BY <2>2, ReliedKept
  <1> QED
    BY <1>1, <1>2

LEMMA BecomesRelies ==
    ASSUME AccountTypeOK, AdminsRelied, NEW r \in Requests, NEW request, Becomes(r, request), UNCHANGED users,
           request # None /\ request.order.kind # "login" /\ ~request.overtaken
               => Relies(request.order, request.pc)
    PROVE  AdminsRelied' /\ ActiveAdmins' = ActiveAdmins
  <1>1. \A q \in Requests : req'[q] = IF q = r THEN request ELSE req[q]
    BY DEF Becomes, AccountTypeOK
  <1>2. ActiveAdmins' = ActiveAdmins
    BY DEF ActiveAdmins, Admins, There
  <1> QED
    BY <1>1, <1>2 DEF AdminsRelied, Relies

LEMMA BeginRelies == AccountInv /\ AdminsRelied /\ Begin => AdminsRelied' /\ ActiveAdmins' = ActiveAdmins
  <1> SUFFICES ASSUME AccountInv, AdminsRelied, NEW r \in Requests, NEW o \in plan.orders,
                      Authorise(r, o) \/ StartLogin(r, o)
               PROVE  AdminsRelied' /\ ActiveAdmins' = ActiveAdmins
    BY DEF Begin
  <1>1. CASE Authorise(r, o)
    <2>1. Relies(o, "authorised")
      BY <1>1 DEF Authorise, Relies
    <2>2. \A copy : LET begun == Begun("authorised", o, copy) IN begun.order = o /\ begun.pc = "authorised"
      BY DEF Begun
    <2> QED
      BY <1>1, <2>1, <2>2, BecomesRelies DEF Authorise, AccountInv
  <1>2. CASE StartLogin(r, o)
    <2>1. \A pc, copy : Begun(pc, o, copy).order = o
      BY DEF Begun
    <2> QED
      BY <1>2, <2>1, BecomesRelies DEF StartLogin, AccountInv
  <1> QED
    BY <1>1, <1>2

LEMMA LoadRelies ==
    ASSUME AccountInv, AdminsRelied, NEW r \in Requests, Load(r)
    PROVE  AdminsRelied' /\ ActiveAdmins' = ActiveAdmins
  <1> DEFINE o   == req[r].order
             row == IF o.kind \notin {"edit", "delete"} THEN None
                    ELSE IF o.target = o.actor THEN req[r].copy ELSE users[o.target]
             pc == IF Counts(o, row) THEN "counting" ELSE "ready"
             loaded == [req[r] EXCEPT !.copy = row, !.doomed = @ /\ ~ByName(o), !.pc = pc]
  <1>1. req[r] \in Request /\ AccountTypeOK /\ req[r].pc = "authorised"
    BY DEF Load, AccountInv, AccountTypeOK
  <1>2. CASE ~Applies(o) \/ Barred(o) \/ Settled(o)
    BY <1>1, <1>2, BecomesRelies DEF Load
  <1>3. CASE Applies(o) /\ ~Barred(o) /\ ~Settled(o)
    <2>1. Becomes(r, loaded) /\ UNCHANGED users
      BY <1>3 DEF Load
    <2>2. loaded.order = o /\ loaded.overtaken = req[r].overtaken /\ loaded.pc = pc
      BY <1>1 DEF Request
    <2>3. GivesUp(o) => pc = "counting"
      BY DEF GivesUp, Counts
    <2>4. o.kind # "login" /\ ~req[r].overtaken => Relies(o, pc)
      <3> HIDE DEF row, pc
      <3> SUFFICES ASSUME o.kind # "login", ~req[r].overtaken PROVE Relies(o, pc)
        OBVIOUS
      <3>1. Relies(o, "authorised")
        BY <1>1, NoneAssumption DEF AdminsRelied
      <3> QED
        BY <1>3, <2>3, <3>1 DEF Relies
    <2> HIDE DEF loaded, pc
    <2> QED
      BY <1>1, <2>1, <2>2, <2>4, BecomesRelies
  <1> QED
    BY <1>2, <1>3

(***************************************************************************)
(* Whoever passes the count is not the only active administrator.              *)
(***************************************************************************)
LEMMA CountRelies ==
    ASSUME AccountInv, AdminsRelied, NEW r \in Requests, Count(r) \/ Abandon(r)
    PROVE  AdminsRelied' /\ ActiveAdmins' = ActiveAdmins
  <1>1. AccountTypeOK
    BY DEF AccountInv
  <1>2. CASE Abandon(r) \/ (Count(r) /\ LastOne)
    BY <1>1, <1>2, BecomesRelies DEF Abandon, Count
  <1>3. CASE Count(r) /\ ~LastOne
    <2> DEFINE o == req[r].order
               counted == [req[r] EXCEPT !.pc = "ready"]
    <2>1. req[r] \in Request /\ req[r].pc = "counting" /\ Becomes(r, counted) /\ UNCHANGED users
      BY <1>1, <1>3 DEF Count, AccountTypeOK
    <2>2. counted.order = o /\ counted.overtaken = req[r].overtaken /\ counted.pc = "ready"
      BY <2>1 DEF Request
    <2>3. o.kind # "login" /\ ~req[r].overtaken => Relies(o, "ready")
      <3> SUFFICES ASSUME o.kind # "login", ~req[r].overtaken PROVE Relies(o, "ready")
        OBVIOUS
      <3>1. Relies(o, "counting")
        BY <2>1, NoneAssumption DEF AdminsRelied
      <3>2. ActiveAdmins # {o.actor}
        BY <1>3, FS_Singleton DEF LastOne
      <3> QED
        BY <3>1, <3>2 DEF Relies
    <2> HIDE DEF counted
    <2> QED
      BY <1>1, <2>1, <2>2, <2>3, BecomesRelies
  <1> QED
    BY <1>2, <1>3

LEMMA LookUpRelies ==
    ASSUME AccountInv, AdminsRelied, NEW r \in Requests, LookUp(r) \/ Wipe(r)
    PROVE  AdminsRelied' /\ ActiveAdmins' = ActiveAdmins
  <1>1. req[r] \in Request /\ req[r] # None /\ Order(r).kind = "login" /\ UNCHANGED users
    BY DEF LookUp, Wipe, Order, AccountInv, AccountTypeOK, OrdersStand
  <1>2. ASSUME NEW request, Becomes(r, request), request.order = Order(r)
        PROVE  AdminsRelied' /\ ActiveAdmins' = ActiveAdmins
    BY <1>1, <1>2, BecomesRelies DEF AccountInv
  <1>3. CASE LookUp(r)
    <2>1. PICK g : Becomes(r, [req[r] EXCEPT !.asked = @ \cup {g}])
      BY <1>3 DEF LookUp
    <2>2. [req[r] EXCEPT !.asked = @ \cup {g}].order = Order(r)
      BY <1>1 DEF Order, Request
    <2> QED
      BY <1>2, <2>1, <2>2
  <1>4. CASE Wipe(r)
    <2>1. \A copy : [req[r] EXCEPT !.pc = "ready", !.copy = copy].order = Order(r)
      BY <1>1 DEF Order, Request
    <2> QED
      BY <1>2, <1>4, <2>1 DEF Wipe
  <1> QED
    BY <1>3, <1>4

(***************************************************************************)
(* The rule of the last administrator, for a commit: it leaves none only when   *)
(* it is a login's or was overtaken.                                        *)
(***************************************************************************)
Spared(r) == ActiveAdmins' = {} => Order(r).kind = "login" \/ req[r].overtaken

LEMMA ReadyRelies ==
    ASSUME AccountInv, AdminsRelied, NEW r \in Requests, NEW kind, Ready(r, kind), kind # "login",
           ~req[r].overtaken
    PROVE  Relies(Order(r), "ready") /\ Order(r).kind = kind
  BY DEF Ready, Order, AdminsRelied

LEMMA EditSpares ==
    ASSUME AccountInv, AdminsRelied, NEW r \in Requests, Edit(r)
    PROVE  Spared(r)
  <1> SUFFICES ASSUME ~req[r].overtaken PROVE ActiveAdmins' # {}
    BY DEF Spared
  <1> DEFINE o == Order(r)
             u == o.target
             row == [users[u] EXCEPT
                       !.admin  = Written(o, "admin", req[r].copy.admin, @),
                       !.active = Written(o, "active", req[r].copy.active, @)]
  <1>1. Relies(o, "ready") /\ o.kind = "edit"
    BY ReadyRelies DEF Edit
  <1>2. u \in There /\ users[u] \in Row /\ users' = [users EXCEPT ![u] = row]
    BY ReadyStands DEF Edit, Stands, There, AccountInv, AccountTypeOK
  <1>3. \A v \in ActiveAdmins \ {u} : v \in ActiveAdmins'
    BY <1>2 DEF ActiveAdmins, Admins, There, AccountInv, AccountTypeOK
  <1>4. CASE o.actor # u \/ GivesUp(o)
    BY <1>1, <1>3, <1>4 DEF Relies, GivesUp
  <1>5. CASE o.actor = u /\ ~GivesUp(o)
    <2>1. users[u].admin /\ users[u].active
      BY <1>1, <1>5 DEF Relies, ActiveAdmins, Admins
    <2>2. Written(o, "admin", req[r].copy.admin, users[u].admin)
      BY <1>1, <1>5, <2>1 DEF GivesUp, Written
    <2>3. Written(o, "active", req[r].copy.active, users[u].active)
      BY <1>1, <1>5, <2>1 DEF Relies, Barred, Written
    <2>4. row.admin /\ row.active /\ row \in Row
      <3>1. /\ Written(o, "admin", req[r].copy.admin, users[u].admin) \in BOOLEAN
            /\ Written(o, "active", req[r].copy.active, users[u].active) \in BOOLEAN
        BY <1>2, ReadyStands, OrdersAssumption DEF Edit, Written, Says, Row
      <3> QED
        BY <1>2, <2>2, <2>3, <3>1 DEF Row
    <2> HIDE DEF row
    <2>5. u \in ActiveAdmins'
      BY <1>2, <2>4, NoneAssumption DEF ActiveAdmins, Admins, There, AccountInv, AccountTypeOK
    <2> QED
      BY <2>5
  <1> QED
    BY <1>4, <1>5

LEMMA DeleteSpares ==
    ASSUME AccountInv, AdminsRelied, NEW r \in Requests, Delete(r)
    PROVE  Spared(r)
  <1> SUFFICES ASSUME ~req[r].overtaken PROVE Order(r).actor \in ActiveAdmins'
    BY DEF Spared
  <1>1. Relies(Order(r), "ready") /\ Order(r).kind = "delete"
    BY ReadyRelies DEF Delete
  <1> QED
    BY <1>1 DEF Delete, Relies, ActiveAdmins, Admins, There, AccountInv, AccountTypeOK

LEMMA ProceedRelies ==
    ASSUME AccountInv, AdminsRelied, NEW r \in Requests, Proceed(r)
    PROVE  AdminsRelied'
  <1>1. ASSUME NEW touched, Ends(r, touched) PROVE AdminsRelied'
    BY <1>1, EndsRelies DEF AccountInv
  <1>2. CASE Load(r) \/ Count(r) \/ LookUp(r) \/ Wipe(r) \/ Abandon(r)
    BY <1>2, LoadRelies, CountRelies, LookUpRelies
  <1>3. CASE Create(r) \/ Edit(r) \/ Delete(r) \/ Login(r)
    BY <1>1, <1>3 DEF Create, Edit, Delete, Login
  <1>4. CASE MakeGroup(r) \/ DropGroup(r) \/ Join(r) \/ Leave(r)
    BY <1>1, <1>4 DEF MakeGroup, DropGroup, Join, Leave
  <1>5. CASE Grant(r) \/ Revoke(r) \/ MakeSpace(r) \/ DropSpace(r)
    BY <1>1, <1>5 DEF Grant, Revoke, MakeSpace, DropSpace
  <1> QED
    BY <1>2, <1>3, <1>4, <1>5 DEF Proceed

LEMMA ProceedSpares ==
    ASSUME AccountInv, AdminsRelied, NEW r \in Requests, Proceed(r),
           ActiveAdmins # {}, ActiveAdmins' = {}
    PROVE  r \in Busy /\ req'[r] = None /\ (Order(r).kind = "login" \/ req[r].overtaken)
  <1>1. CASE Load(r) \/ Count(r) \/ LookUp(r) \/ Wipe(r) \/ Abandon(r)
    BY <1>1 DEF Load, Count, LookUp, Wipe, Abandon, ActiveAdmins, Admins, There
  <1>2. CASE Create(r)
    <2>1. Order(r).target \notin There
      BY <1>2, ReadyStands DEF Create, Stands
    <2>2. \A v \in ActiveAdmins : v \in ActiveAdmins'
      BY <1>2, <2>1 DEF Create, ActiveAdmins, Admins, There, AccountInv, AccountTypeOK
    <2> QED
      BY <2>2
  <1>3. CASE Edit(r)
    BY <1>3, EditSpares, EndsRelies DEF Edit, Ready, Busy, Spared, AccountInv
  <1>4. CASE Delete(r)
    BY <1>4, DeleteSpares, EndsRelies DEF Delete, Ready, Busy, Spared, AccountInv
  <1>5. CASE Login(r)
    <2>1. \E touched : Ends(r, touched)
      <3>1. ASSUME NEW touched, Ends(r, touched) PROVE \E t : Ends(r, t)
        BY <3>1
      <3> QED
        BY <1>5, <3>1 DEF Login
    <2> QED
      BY <1>5, <2>1, EndsRelies DEF Login, Ready, Order, Busy, AccountInv
  <1>6. CASE DropGroup(r)
    BY <1>6, NoneAssumption DEF DropGroup, ActiveAdmins, Admins, There, AccountInv, AccountTypeOK, Row
  <1>7. CASE Join(r) \/ Leave(r)
    <2> DEFINE u == Order(r).target
    <2>1. u \in There /\ users[u] \in Row
      BY <1>7, ReadyStands DEF Join, Leave, Stands, There, AccountInv, AccountTypeOK
    <2> DEFINE g == Order(r).group
    <2>2. users[u].in \cup {g} \in SUBSET Groups /\ users[u].in \ {g} \in SUBSET Groups
      BY <1>7, <2>1, ReadyStands, OrdersAssumption DEF Join, Leave, Row
    <2>3. PICK in \in SUBSET Groups : users' = [users EXCEPT ![u] = [users[u] EXCEPT !.in = in]]
      BY <1>7, <2>2 DEF Join, Leave
    <2>4. [users[u] EXCEPT !.in = in] \in Row
      BY <2>1 DEF Row
    <2>5. /\ [users[u] EXCEPT !.in = in].admin = users[u].admin
          /\ [users[u] EXCEPT !.in = in].active = users[u].active
          /\ [users[u] EXCEPT !.in = in] # None
      BY <2>1, <2>4, NoneAssumption DEF Row
    <2> QED
      BY <2>1, <2>3, <2>5 DEF ActiveAdmins, Admins, There, AccountInv, AccountTypeOK
  <1>8. CASE MakeGroup(r) \/ Grant(r) \/ Revoke(r) \/ MakeSpace(r) \/ DropSpace(r)
    BY <1>8 DEF MakeGroup, Grant, Revoke, MakeSpace, DropSpace, ActiveAdmins, Admins, There
  <1> QED
    BY <1>1, <1>2, <1>3, <1>4, <1>5, <1>6, <1>7, <1>8 DEF Proceed

=============================================================================
