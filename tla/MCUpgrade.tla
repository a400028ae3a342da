------------------------------ MODULE MCUpgrade ------------------------------
(***************************************************************************)
(* Values of the constants of Upgrade for its run: a repository with releases   *)
(* of two majors, a suffix, a channel, a date and a word, and a project of      *)
(* three containers beside one of its own.                                  *)
(***************************************************************************)
EXTENDS Upgrade, TLC

CONSTANTS n1, n2, n3, n4, u1, u2

Tag(name, numbers, dash, suffix) ==
    [name |-> name, numbers |-> numbers, dash |-> dash, suffix |-> suffix]

Old     == Tag("1.2.3", <<1, 2, 3>>, <<>>, "")
Patch   == Tag("1.2-4", <<1, 2>>, <<4>>, "")
Chan    == Tag("v1.10", <<1, 10>>, <<>>, "")
Next2   == Tag("2.0.0", <<2, 0, 0>>, <<>>, "")
Alpine1 == Tag("1.2-alpine", <<1, 2>>, <<>>, "alpine")
Alpine2 == Tag("2.1.0-alpine", <<2, 1, 0>>, <<>>, "alpine")
Date    == Tag("20240101", <<20240101>>, <<>>, "")
Word    == Tag("latest", <<>>, <<>>, "")

AllTags == {Old, Patch, Chan, Next2, Alpine1, Alpine2, Date, Word}

Some == {Patch, Next2}

SomePatterns == {Some}

OneProject == {{n1, n2, n3}}

Order == (n1 :> 1) @@ (n2 :> 2) @@ (n3 :> 3) @@ (n4 :> 4)

Mount(kind, source) == [kind |-> kind, source |-> source]

MountLists ==
    (n1 :> <<Mount("bind", "data"), Mount("volume", "cache")>>)
 @@ (n2 :> <<Mount("bind", "data"), Mount("bind", "data")>>)
 @@ (n3 :> <<Mount("mount", "data"), Mount("volume", "cache")>>)
 @@ (n4 :> <<Mount("volume", "cache")>>)

------------------------------------------------------------------------------
By(strategy, pattern) == [strategy |-> strategy, pattern |-> pattern]
Unset == By(None, None)
OwnSettings == {Unset, By("custom", Some), By("custom", None), By("major", None), By("patch", None)}

World(onHub, first, tags, own, host, choices, changes) ==
    [hub |-> onHub, tag |-> first, list |-> tags, own |-> own, host |-> host,
     choices |-> choices, pushes |-> changes]

Listing == <<Word, Patch, Alpine2, Next2, Old, Chan, Alpine1, Date>>

Searched(onHub, first, own, host, choices, changes) ==
    World(onHub, first, Listing, own, host, choices, changes)

Quiet == World(TRUE, Word, <<>>, Unset, By("auto", None), {}, 0)

Plan(image, ran, one, other) ==
    [image |-> image, ran |-> ran, target |-> (u1 :> one) @@ (u2 :> other)]

Start2(world, plan2) == [world |-> world, plan |-> plan2]

(***************************************************************************)
(* Searches alone, with pushes and settings; updates alone, of the project     *)
(* {n1, n2, n3}; searches and updates of n4 in turn, which is by itself.      *)
(***************************************************************************)
SearchStarts ==
    {Start2(Searched(onHub, first, Unset, By("auto", None), {}, IF onHub <=> first = Old THEN 2 ELSE 1),
            Plan(first, {}, NoOne, NoOne)) : onHub \in BOOLEAN, first \in {Old, Alpine1}}
    \cup {Start2(Searched(FALSE, Word, Unset, By("auto", None), {}, 0), Plan(Word, {}, NoOne, NoOne)),
          Start2(Searched(TRUE, Old, Unset, By("custom", Some), OwnSettings, 0), Plan(Old, {}, NoOne, NoOne))}

UpdateStarts ==
    {Start2(Quiet, Plan(Word, ran, one, other)) :
        ran \in {{n1, n2, n3, n4}, {n2, n3}}, one \in {n1, n2}, other \in {n1, n2}}

Cautiously(onHub, first, tags, choices, changes) ==
    World(onHub, first, tags, Unset, By("auto", None), choices, changes)

BothStarts ==
    {Start2(Cautiously(TRUE, Alpine1, <<Alpine2, Alpine1>>, {}, 1), Plan(Alpine1, {n4}, n4, n4)),
     Start2(Cautiously(FALSE, Old, <<Patch, Chan, Next2, Old>>, {}, 0), Plan(Old, {n4}, n4, n4)),
     Start2(Cautiously(TRUE, Old, <<Patch, Next2, Old>>, {By("patch", None)}, 0), Plan(Old, {n4}, n4, NoOne)),
     Start2(Cautiously(TRUE, Old, <<Patch, Next2, Old>>, {By("patch", None)}, 0), Plan(Old, {n4}, NoOne, n4))}

(***************************************************************************)
(* Two checks overlap beside an update; of the two pages only the second has     *)
(* something newer.                                                        *)
(***************************************************************************)
PairStarts ==
    {Start2(Cautiously(TRUE, Old, <<Old, Next2, Patch>>, {}, 0), Plan(Old, {n4}, one, other)) :
        <<one, other>> \in {<<n4, NoOne>>, <<NoOne, n4>>}}

AllStarts == SearchStarts \cup UpdateStarts \cup BothStarts \cup PairStarts

AllWorlds == {s.world : s \in AllStarts}
AllPlans == {s.plan : s \in AllStarts}

------------------------------------------------------------------------------
VARIABLE team     \* the searches that may be made

TeamInit ==
    /\ Init
    /\ team \in CASE list = <<>> -> {{}}
                  [] \E s \in PairStarts : s.world.list = list -> {Searches}
                  [] OTHER -> {{s} : s \in Searches}

TeamNext ==
    /\ Next
    /\ \A s \in Searches \ team : search'[s] = None
    /\ UNCHANGED team

TeamSpec == TeamInit /\ [][TeamNext]_<<vars, team>>

(***************************************************************************)
(* With every start, there is the one where the updates change places; the      *)
(* checks are alike.                                                       *)
(***************************************************************************)
Alike == {u @@ s : u \in Permutations(Updates), s \in Permutations(Searches)}

==============================================================================
