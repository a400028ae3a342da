------------------------------ MODULE Accounts ------------------------------
(***************************************************************************)
(* Users, groups and spaces: the administrators' edits (admin.py, spaces.py)   *)
(* and the logins through the identity provider (auth.py), each a session that *)
(* reads rows, waits, and commits what it changed of its copies.  A request of  *)
(* an administrator reads who it is from before what it is about, and what is  *)
(* about before it counts and commits; others commit in between.              *)
(***************************************************************************)
EXTENDS FiniteSets

CONSTANTS
    Users,        \* names of users, there or not
    Groups,       \* names of groups, there or not
    Spaces,       \* spaces, there or not
    Administrator,\* the group of that name
    Requests,     \* requests and logins, at most this many at a time
    Plans,        \* rows there are first and the orders that are given
    None          \* no row, no request, no claim

VARIABLES
    users,        \* the row of each user
    live,         \* groups there are
    open,         \* spaces there are
    grants,       \* group_spaces: which group may enter which space
    req,          \* each request
    plan          \* rows there are first and the orders that are given

accountVars == <<users, live, open, grants, req, plan>>

Row == [admin: BOOLEAN, active: BOOLEAN, in: SUBSET Groups]

(***************************************************************************)
(* An order: what to do, who wants it (nobody of the site, for a login), and    *)
(* which user, group or space it is about.  `set` is what an edit says of       *)
(* is_admin and is_active, `claims` the groups a login brings, if any.        *)
(***************************************************************************)
Kinds == {"create", "edit", "delete", "makegroup", "dropgroup", "join", "leave",
          "grant", "revoke", "makespace", "dropspace", "login"}

Orders == UNION {p.orders : p \in Plans}

ASSUME OrdersAssumption ==
    \A o \in Orders :
        /\ o.kind \in Kinds /\ (o.kind = "login" => o.actor = None)
        /\ o.kind \in {"create", "edit", "delete", "join", "leave", "login"} => o.target \in Users
        /\ o.kind \in {"makegroup", "dropgroup", "join", "leave", "grant", "revoke"} => o.group \in Groups
        /\ o.kind \in {"grant", "revoke", "dropspace"} => o.space \in Spaces
        /\ o.claims = None \/ o.claims \subseteq Groups
        /\ \A f \in DOMAIN o.set : o.set[f] \in BOOLEAN

Says(o, field) == field \in DOMAIN o.set

Claimed(o) == IF o.claims = None THEN {} ELSE o.claims

(***************************************************************************)
(* A request: the row it has loaded of its user, the groups a login has looked   *)
(* up, and the history of what has been committed since it began: whether an    *)
(* administrator was lost, and whether something it read has been deleted, or  *)
(* made though it was not there.                                           *)
(***************************************************************************)
Request == [pc: {"authorised", "counting", "looking", "ready"}, order: Orders, copy: Row \cup {None},
            asked: SUBSET Groups, overtaken: BOOLEAN, doomed: BOOLEAN]

ASSUME NoneAssumption ==
    None \notin Row /\ None \notin Request /\ None \notin Users \cup Groups \cup Spaces

(***************************************************************************)
(* The rows there are first are whole: foreign keys bind them.               *)
(***************************************************************************)
ASSUME RowsAssumption ==
    \A p \in Plans :
        /\ p.live \subseteq Groups /\ p.open \subseteq Spaces
        /\ p.users \in [Users -> [admin: BOOLEAN, active: BOOLEAN, in: SUBSET p.live] \cup {None}]
        /\ p.grants \subseteq p.live \X p.open

AccountTypeOK ==
    /\ plan \in Plans
    /\ users \in [Users -> Row \cup {None}]
    /\ live \subseteq Groups /\ open \subseteq Spaces
    /\ grants \subseteq Groups \X Spaces
    /\ req \in [Requests -> Request \cup {None}]

AccountInit ==
    /\ plan \in Plans
    /\ users = plan.users /\ live = plan.live /\ open = plan.open /\ grants = plan.grants
    /\ req = [r \in Requests |-> None]

------------------------------------------------------------------------------
There == {u \in Users : users[u] # None}

Admins == {u \in There : users[u].admin}

ActiveAdmins == {u \in Admins : users[u].active}

Becomes(r, request) == req' = [req EXCEPT ![r] = request]

(***************************************************************************)
(* A mistake one could make, the body of a mutant: memberships and grants have  *)
(* no foreign keys to groups.                                              *)
(***************************************************************************)
NeedsNoGroup(request) == {request.order.target, request.order.space}

(***************************************************************************)
(* The rows a request stands or falls with: deleting one that was there lets   *)
(* its commit match no row or break a foreign key, making one that was not      *)
(* breaks a unique name.                                                   *)
(***************************************************************************)
Needs(request) == {request.order.target, request.order.group, request.order.space} \cup request.asked

Seen(request, touched, lost) ==
    IF request = None THEN None
    ELSE [request EXCEPT !.overtaken = @ \/ lost,
                         !.doomed = @ \/ (Needs(request) \ {None}) \cap touched # {}]

AllSeen(touched, lost) == [r \in Requests |-> Seen(req[r], touched, lost)]

(***************************************************************************)
(* Request r ends; the others have seen these rows come or go.               *)
(***************************************************************************)
Ends(r, touched) ==
    req' = IF ActiveAdmins \subseteq ActiveAdmins'
           THEN [AllSeen(touched, FALSE) EXCEPT ![r] = None]
           ELSE [AllSeen(touched, TRUE) EXCEPT ![r] = None]

Begun(pc, o, copy) == [pc |-> pc, order |-> o, copy |-> copy, asked |-> {},
                       overtaken |-> FALSE, doomed |-> FALSE]

(***************************************************************************)
(* Every administrator's request looks the user up in the database anew: only   *)
(* an active administrator gets past.  Nobody may delete himself.             *)
(***************************************************************************)
Authorise(r, o) ==
    /\ req[r] = None
    /\ o \in plan.orders /\ o.kind # "login"
    /\ o.actor \in ActiveAdmins
    /\ ~(o.kind = "delete" /\ o.target = o.actor)
    /\ Becomes(r, Begun("authorised", o, users[o.actor]))
    /\ UNCHANGED <<users, live, open, grants, plan>>

(***************************************************************************)
(* What must be there for an order, and what must not.                      *)
(***************************************************************************)
Applies(o) ==
    CASE o.kind = "create"               -> o.target \notin There
      [] o.kind \in {"edit", "delete"}   -> o.target \in There
      [] o.kind = "makegroup"            -> o.group \notin live
      [] o.kind = "dropgroup"            -> o.group \in live
      [] o.kind \in {"join", "leave"}    -> o.group \in live /\ o.target \in There
      [] o.kind \in {"grant", "revoke"}  -> o.group \in live /\ o.space \in open
      [] o.kind = "dropspace"            -> o.space \in open
      [] OTHER                           -> TRUE

(***************************************************************************)
(* An administrator may not deactivate himself, and gives up the rights, or     *)
(* deletes an active administrator, only past a count.                      *)
(***************************************************************************)
Barred(o) == o.kind = "edit" /\ o.target = o.actor /\ Says(o, "active") /\ ~o.set["active"]

Counts(o, row) ==
    \/ o.kind = "edit" /\ o.target = o.actor /\ Says(o, "admin") /\ ~o.set["admin"]
    \/ o.kind = "delete" /\ row.admin /\ row.active

(***************************************************************************)
(* A membership or grant that the loaded rows have, or have not, already is     *)
(* answered as done, and nothing is written.                                *)
(***************************************************************************)
Settled(o) ==
    \/ o.kind = "join"   /\ o.group \in users[o.target].in
    \/ o.kind = "leave"  /\ o.group \notin users[o.target].in
    \/ o.kind = "grant"  /\ <<o.group, o.space>> \in grants
    \/ o.kind = "revoke" /\ <<o.group, o.space>> \notin grants

(***************************************************************************)
(* The rows an order is about are loaded; the administrator's own is the one    *)
(* the session has already.  What is asked for by name is looked for now, what  *)
(* is asked for by id is not found when it has been deleted meanwhile.        *)
(***************************************************************************)
ByName(o) == o.kind \in {"create", "makegroup"}

Load(r) ==
    /\ req[r] # None /\ req[r].pc = "authorised"
    /\ LET o   == req[r].order
           row == IF o.kind \notin {"edit", "delete"} THEN None
                  ELSE IF o.target = o.actor THEN req[r].copy ELSE users[o.target]
       IN Becomes(r, IF ~Applies(o) \/ Barred(o) \/ Settled(o) THEN None
                     ELSE [req[r] EXCEPT !.copy = row, !.doomed = @ /\ ~ByName(o),
                             !.pc = IF Counts(o, row) THEN "counting" ELSE "ready"])
    /\ UNCHANGED <<users, live, open, grants, plan>>

(***************************************************************************)
(* A mistake one could make, the body of a mutant: the one who asks is not      *)
(* counted.                                                                *)
(***************************************************************************)
LastOneWithout == Cardinality(ActiveAdmins) = 0

(***************************************************************************)
(* The last active administrator stays one.                                *)
(***************************************************************************)
LastOne == Cardinality(ActiveAdmins) = 1

Count(r) ==
    /\ req[r] # None /\ req[r].pc = "counting"
    /\ Becomes(r, IF LastOne THEN None ELSE [req[r] EXCEPT !.pc = "ready"])
    /\ UNCHANGED <<users, live, open, grants, plan>>

Order(r) == req[r].order

Busy == {r \in Requests : req[r] # None}

(***************************************************************************)
(* A login has come back from the provider: the user with its sub is loaded,    *)
(* or a new one is made.  One user may log in in several browsers at once.     *)
(***************************************************************************)
StartLogin(r, o) ==
    /\ req[r] = None
    /\ o \in plan.orders /\ o.kind = "login"
    /\ Becomes(r, Begun(IF o.claims = None THEN "ready" ELSE "looking", o, users[o.target]))
    /\ UNCHANGED <<users, live, open, grants, plan>>

(***************************************************************************)
(* The groups it claims are looked up one after another.                     *)
(***************************************************************************)
LookUp(r) ==
    /\ req[r] # None /\ req[r].pc = "looking"
    /\ \E g \in Claimed(Order(r)) \ req[r].asked : Becomes(r, [req[r] EXCEPT !.asked = @ \cup {g}])
    /\ UNCHANGED <<users, live, open, grants, plan>>

(***************************************************************************)
(* Then the user's memberships are deleted, those committed by now: one that    *)
(* another session inserts before the login commits is not among them.         *)
(***************************************************************************)
Wipe(r) ==
    /\ req[r] # None /\ req[r].pc = "looking" /\ req[r].asked = Claimed(Order(r))
    /\ LET copy == req[r].copy
           now  == users[Order(r).target]
       IN Becomes(r, [req[r] EXCEPT !.pc = "ready",
                        !.copy = IF copy = None \/ now = None THEN copy ELSE [copy EXCEPT !.in = now.in]])
    /\ UNCHANGED <<users, live, open, grants, plan>>

(***************************************************************************)
(* Any request may fail, or its worker die, before it commits; one that is      *)
(* doomed must.  A group, user or space is deleted together with the            *)
(* memberships and grants loaded with it; when one of those has gone meanwhile  *)
(* the delete may fail or not, as the driver counts rows.                    *)
(***************************************************************************)
Abandon(r) ==
    /\ req[r] # None
    /\ Becomes(r, None)
    /\ UNCHANGED <<users, live, open, grants, plan>>

------------------------------------------------------------------------------
Ready(r, kind) ==
    req[r] # None /\ req[r].pc = "ready" /\ req[r].order.kind = kind /\ ~req[r].doomed

(***************************************************************************)
(* A mistake one could make, the body of a mutant: whether a new user is active *)
(* is not said.                                                            *)
(***************************************************************************)
FreshUnset == [admin |-> FALSE, active |-> None, in |-> {}]

(***************************************************************************)
(* A user is made in no group and without rights.                           *)
(***************************************************************************)
Fresh == [admin |-> FALSE, active |-> TRUE, in |-> {}]

Create(r) ==
    /\ Ready(r, "create")
    /\ users' = [users EXCEPT ![Order(r).target] = Fresh]
    /\ UNCHANGED <<live, open, grants, plan>>
    /\ Ends(r, {Order(r).target})

(***************************************************************************)
(* Only a column that differs from the loaded one is written.               *)
(***************************************************************************)
Written(o, field, loaded, now) ==
    IF Says(o, field) /\ o.set[field] # loaded THEN o.set[field] ELSE now

Edit(r) ==
    /\ Ready(r, "edit")
    /\ LET o == Order(r)
       IN users' = [users EXCEPT
            ![o.target].admin  = Written(o, "admin", req[r].copy.admin, @),
            ![o.target].active = Written(o, "active", req[r].copy.active, @)]
    /\ UNCHANGED <<live, open, grants, plan>>
    /\ Ends(r, {})

Delete(r) ==
    /\ Ready(r, "delete")
    /\ users' = [users EXCEPT ![Order(r).target] = None]
    /\ UNCHANGED <<live, open, grants, plan>>
    /\ Ends(r, {Order(r).target})

(***************************************************************************)
(* A login puts the groups it claims in the place of those it wiped, makes the   *)
(* groups there are not, and the flag says whether Administrator is among them; *)
(* without a list of groups it changes neither.  A membership may not be there   *)
(* twice: one that has come back since makes the login fail.                 *)
(***************************************************************************)
ByClaims(o, copy, now) ==
    LET says == Administrator \in o.claims
    IN [now EXCEPT !.in = (@ \ copy.in) \cup o.claims,
                   !.admin = IF says # copy.admin THEN says ELSE @]

Login(r) ==
    /\ Ready(r, "login")
    /\ LET o    == Order(r)
           copy == IF req[r].copy = None THEN Fresh ELSE req[r].copy
           now  == IF users[o.target] = None THEN Fresh ELSE users[o.target]
           made == Claimed(o) \ live
       IN /\ (now.in \ copy.in) \cap Claimed(o) = {}
          /\ users' = [users EXCEPT ![o.target] = IF o.claims = None THEN now ELSE ByClaims(o, copy, now)]
          /\ live' = live \cup made
          /\ UNCHANGED <<open, grants, plan>>
          /\ Ends(r, made \cup (IF req[r].copy = None THEN {o.target} ELSE {}))

MakeGroup(r) ==
    /\ Ready(r, "makegroup")
    /\ live' = live \cup {Order(r).group}
    /\ UNCHANGED <<users, open, grants, plan>>
    /\ Ends(r, {Order(r).group})

(***************************************************************************)
(* Its memberships and grants go with a group, and its grants with a space.    *)
(***************************************************************************)
DropGroup(r) ==
    /\ Ready(r, "dropgroup")
    /\ LET g == Order(r).group
       IN /\ live' = live \ {g}
          /\ users' = [u \in Users |-> IF users[u] = None THEN None
                                       ELSE [users[u] EXCEPT !.in = @ \ {g}]]
          /\ grants' = {e \in grants : e[1] # g}
          /\ UNCHANGED <<open, plan>>
          /\ Ends(r, {g})

(***************************************************************************)
(* Nor may a membership or a grant be inserted twice.                         *)
(***************************************************************************)
Join(r) ==
    /\ Ready(r, "join") /\ Order(r).group \notin users[Order(r).target].in
    /\ users' = [users EXCEPT ![Order(r).target].in = @ \cup {Order(r).group}]
    /\ UNCHANGED <<live, open, grants, plan>>
    /\ Ends(r, {})

Leave(r) ==
    /\ Ready(r, "leave")
    /\ users' = [users EXCEPT ![Order(r).target].in = @ \ {Order(r).group}]
    /\ UNCHANGED <<live, open, grants, plan>>
    /\ Ends(r, {})

Grant(r) ==
    /\ Ready(r, "grant") /\ <<Order(r).group, Order(r).space>> \notin grants
    /\ grants' = grants \cup {<<Order(r).group, Order(r).space>>}
    /\ UNCHANGED <<users, live, open, plan>>
    /\ Ends(r, {})

Revoke(r) ==
    /\ Ready(r, "revoke")
    /\ grants' = grants \ {<<Order(r).group, Order(r).space>>}
    /\ UNCHANGED <<users, live, open, plan>>
    /\ Ends(r, {})

(***************************************************************************)
(* Spaces may share a name: making one is refused to nobody.                 *)
(***************************************************************************)
MakeSpace(r) ==
    /\ Ready(r, "makespace")
    /\ \E s \in Spaces \ open : open' = open \cup {s}
    /\ UNCHANGED <<users, live, grants, plan>>
    /\ Ends(r, {})

DropSpace(r) ==
    /\ Ready(r, "dropspace")
    /\ open' = open \ {Order(r).space}
    /\ grants' = {e \in grants : e[2] # Order(r).space}
    /\ UNCHANGED <<users, live, plan>>
    /\ Ends(r, {Order(r).space})

Begin == \E r \in Requests : \E o \in plan.orders : Authorise(r, o) \/ StartLogin(r, o)

Proceed(r) ==
    \/ Load(r) \/ Count(r) \/ LookUp(r) \/ Wipe(r) \/ Abandon(r)
    \/ Create(r) \/ Edit(r) \/ Delete(r) \/ Login(r)
    \/ MakeGroup(r) \/ DropGroup(r) \/ Join(r) \/ Leave(r)
    \/ Grant(r) \/ Revoke(r) \/ MakeSpace(r) \/ DropSpace(r)

AccountNext == Begin \/ \E r \in Requests : Proceed(r)

AccountSpec == AccountInit /\ [][AccountNext]_accountVars

------------------------------------------------------------------------------
(***************************************************************************)
(* "Prevent self-demotion for the last admin" and "deleting the last active    *)
(* admin" (admin.py:120, 156): the step that leaves no active administrator is  *)
(* a login's, whose claims the rule does not bind, or that of a request that    *)
(* another commit overtook, taking an administrator the request relied on.    *)
(***************************************************************************)
AdminRemains ==
    [][ActiveAdmins # {} /\ ActiveAdmins' = {} =>
         \E r \in Busy : req'[r] = None /\ (Order(r).kind = "login" \/ req[r].overtaken)]_accountVars

(***************************************************************************)
(* Memberships and grants are those of groups, users and spaces there are:      *)
(* what is made anew under an old name, by an administrator or by the claims    *)
(* of a login, starts with none, whatever was under way when the old was        *)
(* deleted.                                                                *)
(***************************************************************************)
AccessIsLive ==
    /\ \A u \in There : users[u].in \subseteq live
    /\ grants \subseteq live \X open

==============================================================================
