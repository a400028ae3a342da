------------------------------ MODULE MCStartup ------------------------------
(***************************************************************************)
(* Values of the constants of Startup for its run: a site that starts, or is    *)
(* set up, with two workers, and one that serves two local users, one of the    *)
(* identity provider and those who come later.                              *)
(***************************************************************************)
EXTENDS Startup, TLC

CONSTANTS ann, bob, oli, new, User, dev, s1

Base == [kind |-> "edit", actor |-> None, target |-> None, group |-> None, space |-> None,
         set |-> <<>>, claims |-> None]

Order1(kind, actor, target, group, space) ==
    [Base EXCEPT !.kind = kind, !.actor = actor, !.target = target, !.group = group, !.space = space]

Set(admin) == [f \in {"admin"} |-> admin]
Active(active) == [f \in {"active"} |-> active]

EditOf(actor, target, set) == [Order1("edit", actor, target, None, None) EXCEPT !.set = set]

LoginOf(user, claims) == [Order1("login", None, user, None, None) EXCEPT !.claims = claims]

(***************************************************************************)
(* Administrators at odds, and the provider's claims for one of them.          *)
(***************************************************************************)
Rights ==
    {EditOf(a, u, set) : a \in {ann, bob}, u \in {ann, bob},
                         set \in {Set(FALSE), Active(FALSE), Set(TRUE)}}
    \cup {Order1("delete", ann, bob, None, None), Order1("delete", bob, ann, None, None)}

Claims == {LoginOf(oli, claims) : claims \in {None, {}, {Administrator}, {dev}}}

Members ==
    {Order1("create", ann, new, None, None), Order1("delete", ann, bob, None, None),
     Order1("delete", ann, oli, None, None),
     Order1("makegroup", ann, None, dev, None), Order1("dropgroup", ann, None, dev, None),
     Order1("join", ann, bob, dev, None), Order1("leave", ann, bob, dev, None),
     Order1("grant", ann, None, dev, s1), Order1("revoke", ann, None, dev, s1),
     Order1("makespace", ann, None, None, None), Order1("dropspace", ann, None, None, s1),
     LoginOf(oli, {dev})}

RowOf(admin, groups) == [admin |-> admin, active |-> TRUE, in |-> groups]

NoRows == [u \in {ann, bob, oli, new} |-> None]

Plan(rows, orders, founders) ==
    [users |-> rows @@ NoRows, live |-> {Administrator, User}, open |-> {s1}, grants |-> {},
     orders |-> orders, founders |-> founders, browsers |-> IF founders = {} THEN {} ELSE Wizards,
     saved |-> TRUE, schema |-> {}, loads |-> {"hosts", "containers", "logs"},
     serving |-> TRUE, restarts |-> FALSE]

(***************************************************************************)
(* A site to be set up on no database or on that of an older version, whose      *)
(* users or containers lack a column, or started with a URL; one whose only     *)
(* administrator is the provider's, with the wizard at hand; and one that       *)
(* serves.                                                                 *)
(***************************************************************************)
SetUps ==
    {[Plan(<<>>, {}, {ann, bob}) EXCEPT !.live = {}, !.open = {}, !.saved = url, !.schema = tables,
                                       !.loads = loads, !.serving = FALSE, !.restarts = TRUE] :
        url \in BOOLEAN, tables \in {None, {"users"}, {"containers", "spaces"}},
        loads \in {{"hosts"}, {"hosts", "containers"}}}

Reopened ==
    Plan((oli :> RowOf(TRUE, {Administrator})) @@ (bob :> RowOf(FALSE, {})),
         {LoginOf(oli, {}), LoginOf(oli, {Administrator}), EditOf(oli, bob, Set(TRUE)),
          EditOf(oli, bob, Active(FALSE)), EditOf(bob, oli, Active(FALSE))}, {new})

Ruled ==
    Plan((ann :> RowOf(TRUE, {Administrator})) @@ (bob :> RowOf(TRUE, {})), Rights \cup Claims, {})

Shared ==
    Plan((ann :> RowOf(TRUE, {Administrator})) @@ (bob :> RowOf(FALSE, {})), Members, {})

AllPlans == SetUps \cup {Reopened, Ruled, Shared}

(***************************************************************************)
(* Workers, browsers and requests are told apart by nothing.                   *)
(***************************************************************************)
Alike == Permutations(Workers) \cup Permutations(Wizards) \cup Permutations(Requests)

==============================================================================
