------------------------------ MODULE TagSearch ------------------------------
(***************************************************************************)
(* How RegistryService.find_latest_version looks for a newer tag of a          *)
(* container's image: which tags it can compare, which of them the strategy    *)
(* admits, and the page by page listing of a registry that is pushed to        *)
(* meanwhile.  UpdateRules says what becomes of a digest that is answered.    *)
(***************************************************************************)
EXTENDS Integers, Sequences, Functions

CONSTANTS
    Tags,         \* what the image's repository may hold
    Worlds,       \* the registries and settings a behaviour may start with
    Patterns,     \* custom patterns: the sets of tags that match one
    Searches,     \* calls of find_latest_version, at most this many at a time
    PageSize,     \* tags per page of the registry's list
    None          \* no pattern, no tag, no search

(***************************************************************************)
(* A tag is what _parse_version_and_suffix makes of it: the numbers of its    *)
(* release, after which a dash and one number count as one more, and its       *)
(* suffix.  Tags without a version (latest, a word) have no numbers.  `name`   *)
(* tells apart tags that parse alike, as 1.2 and v1.2.                       *)
(***************************************************************************)
ASSUME TagsAssumption ==
    \A t \in Tags : /\ t.numbers \in Seq(Nat) /\ t.dash \in Seq(Nat)
                    /\ "suffix" \in DOMAIN t /\ "name" \in DOMAIN t

Strategies == {"auto", "major", "minor", "patch", "custom"}

(***************************************************************************)
(* The strategy of a container, or None, and its pattern; a host has one.     *)
(***************************************************************************)
Setting == [strategy: Strategies \cup {None}, pattern: Patterns \cup {None}]
HostSetting == [strategy: Strategies, pattern: Patterns \cup {None}]

ASSUME WorldsAssumption ==
    \A world \in Worlds :
        /\ world.hub \in BOOLEAN /\ world.tag \in Tags /\ world.pushes \in Nat
        /\ world.list \in Seq(Tags)
        /\ world.own \in Setting /\ world.host \in HostSetting /\ world.choices \subseteq Setting

ASSUME SearchAssumption ==
    /\ PageSize \in Nat \ {0}
    /\ None \notin Tags /\ None \notin Patterns
    /\ \A p \in Patterns : p \subseteq Tags

Release(t) == t.numbers \o t.dash

At(release, i) == IF i <= Len(release) THEN release[i] ELSE 0

Major(t) == At(Release(t), 1)
Minor(t) == At(Release(t), 2)

(***************************************************************************)
(* Version's order: the first number that differs decides; missing ones are 0. *)
(***************************************************************************)
Newer(t, u) ==
    \E i \in 1 .. Len(Release(t)) :
        /\ At(Release(t), i) > At(Release(u), i)
        /\ \A j \in 1 .. i - 1 : At(Release(t), j) = At(Release(u), j)

HasVersion(t) == t.numbers # <<>>

(***************************************************************************)
(* Channels float: one number, or two without a suffix.  Their digest is      *)
(* compared, as that of tags without a version, and no tag is searched for.    *)
(***************************************************************************)
IsChannel(t) == Len(Release(t)) <= IF t.suffix = "" THEN 2 ELSE 1

ByDigest(t) == ~HasVersion(t) \/ IsChannel(t)

------------------------------------------------------------------------------
(***************************************************************************)
(* A mistake one could make, the body of a mutant: the host's strategy is not  *)
(* asked for.                                                              *)
(***************************************************************************)
ResolvedOwnOnly(own, host) == own

(***************************************************************************)
(* What a container is checked by: its own setting before its host's, and the *)
(* pattern of the one that says custom.                                     *)
(***************************************************************************)
Resolved(own, host) ==
    LET strategy == IF own.strategy = None THEN host.strategy ELSE own.strategy
    IN [strategy |-> strategy,
        pattern |-> IF strategy # "custom" THEN None
                    ELSE IF own.strategy = "custom" THEN own.pattern ELSE host.pattern]

(***************************************************************************)
(* A mistake one could make, the body of a mutant: two numbers are too few for *)
(* auto to keep to the major version.                                       *)
(***************************************************************************)
EffectiveOffByOne(by, t) ==
    CASE by.strategy = "custom" /\ by.pattern = None -> "auto"
      [] by.strategy = "auto" -> IF Len(Release(t)) > 2 THEN "minor" ELSE "major"
      [] OTHER -> by.strategy

(***************************************************************************)
(* auto keeps to the major version when there is a second number.  custom      *)
(* without a pattern becomes "auto" too late: no rule of Passes is for that,   *)
(* and every version passes.                                               *)
(***************************************************************************)
Effective(by, t) ==
    CASE by.strategy = "custom" /\ by.pattern = None -> "auto"
      [] by.strategy = "auto" -> IF Len(Release(t)) >= 2 THEN "minor" ELSE "major"
      [] OTHER -> by.strategy

(***************************************************************************)
(* A mistake one could make, the body of a mutant: a suffix is not compared.   *)
(***************************************************************************)
PassesAnySuffix(t, cur, by) ==
    /\ HasVersion(t) /\ Major(t) <= 10000
    /\ CASE Effective(by, cur) = "custom" -> t \in by.pattern
         [] Effective(by, cur) = "major"  -> Major(t) > Major(cur)
         [] Effective(by, cur) = "minor"  -> Major(t) = Major(cur)
         [] Effective(by, cur) = "patch"  -> Major(t) = Major(cur) /\ Minor(t) = Minor(cur)
         [] OTHER -> TRUE

(***************************************************************************)
(* Does the strategy admit tag t for a container that runs cur?  A first       *)
(* number over 10000 is a date.                                            *)
(***************************************************************************)
Passes(t, cur, by) ==
    /\ HasVersion(t) /\ t.suffix = cur.suffix /\ Major(t) <= 10000
    /\ CASE Effective(by, cur) = "custom" -> t \in by.pattern
         [] Effective(by, cur) = "major"  -> Major(t) > Major(cur)
         [] Effective(by, cur) = "minor"  -> Major(t) = Major(cur)
         [] Effective(by, cur) = "patch"  -> Major(t) = Major(cur) /\ Minor(t) = Minor(cur)
         [] OTHER -> TRUE

------------------------------------------------------------------------------
VARIABLES
    hub,          \* is the image on Docker Hub?
    tag,          \* the tag of the container's row
    set,          \* the container's strategy, its host's, and what users may choose
    offer,        \* the row's latest_tag and has_update, and where they come from
    list,         \* the repository's tags as the registry lists them
    pushes,       \* bound: changes of the repository still to come
    search        \* each call

searchVars == <<hub, tag, set, offer, list, pushes, search>>

(***************************************************************************)
(* The columns latest_tag and has_update.  Two histories: `from`, the tag that  *)
(* latest_tag was searched for; `mixed`, when the check that stored last had      *)
(* loaded other columns than it found there.                                *)
(***************************************************************************)
Offer == [latest: Tags \cup {None}, has: BOOLEAN, from: Tags \cup {None}, mixed: BOOLEAN]

NoOffer == [latest |-> None, has |-> FALSE, from |-> None, mixed |-> FALSE]

(***************************************************************************)
(* A call: the tag and setting it works with, the columns of its copy of the    *)
(* row, the tags listed so far, the page or the tag whose turn it is, the best   *)
(* tag yet, and the history of what has been pushed or deleted since it began    *)
(* to list.                                                                *)
(***************************************************************************)
PCs == {"token", "digest", "listing", "scanning", "answered"}

Search == [pc: PCs, cur: Tags, by: [strategy: Strategies, pattern: Patterns \cup {None}],
           latest: Tags \cup {None}, has: BOOLEAN,
           got: Seq(Tags), at: Nat, best: Tags, moved: SUBSET Tags, broken: BOOLEAN]

ASSUME NoneIsNoSearch == None \notin Search

SearchTypeOK ==
    /\ hub \in BOOLEAN
    /\ tag \in Tags
    /\ set \in [own: Setting, host: HostSetting, choices: SUBSET Setting]
    /\ offer \in Offer
    /\ list \in Seq(Tags)
    /\ pushes \in Nat
    /\ search \in [Searches -> Search \cup {None}]

(***************************************************************************)
(* Users may choose again what a container has.                             *)
(***************************************************************************)
SettingsOf(world) ==
    [own |-> world.own, host |-> world.host, choices |-> world.choices \cup {world.own}]

SearchInit ==
    /\ \E world \in Worlds :
         /\ hub = world.hub /\ tag = world.tag /\ list = world.list
         /\ set = SettingsOf(world) /\ pushes = world.pushes
    /\ offer = NoOffer
    /\ search = [s \in Searches |-> None]

------------------------------------------------------------------------------
Becomes(s, call) == search' = [search EXCEPT ![s] = call]

Disturbs(tags) ==
    search' = [s \in Searches |-> IF search[s] = None THEN None
                                  ELSE [search[s] EXCEPT !.moved = @ \cup tags]]

(***************************************************************************)
(* The repository changes: Docker Hub lists what was pushed last first, so a   *)
(* tag that is pushed, again or for the first time, moves to the front; other  *)
(* registries keep their order.  A deleted tag moves all that follow it.  Each  *)
(* tag is there once.                                                      *)
(***************************************************************************)
Without(t) ==
    LET i == CHOOSE i \in DOMAIN list : list[i] = t
    IN SubSeq(list, 1, i - 1) \o SubSeq(list, i + 1, Len(list))

Push(t) ==
    /\ pushes > 0 /\ pushes' = pushes - 1
    /\ list' = CASE hub /\ t \in Range(list) -> <<t>> \o Without(t)
                 [] hub /\ t \notin Range(list) -> <<t>> \o list
                 [] OTHER -> IF t \in Range(list) THEN list ELSE Append(list, t)
    /\ Disturbs({t})
    /\ UNCHANGED <<hub, tag, set, offer>>

Delete(t) ==
    /\ pushes > 0 /\ pushes' = pushes - 1
    /\ t \in Range(list)
    /\ list' = Without(t)
    /\ Disturbs(Tags)
    /\ UNCHANGED <<hub, tag, set, offer>>

(***************************************************************************)
(* A user sets the container's strategy, or clears it.                      *)
(***************************************************************************)
SetStrategy(own) ==
    /\ own \in set.choices
    /\ set.own # own
    /\ set' = [set EXCEPT !.own = own]
    /\ UNCHANGED <<hub, tag, offer, list, pushes, search>>

(***************************************************************************)
(* A check works by what is set; a user who asks for one may choose another    *)
(* strategy for it, with the pattern that is set.                           *)
(***************************************************************************)
CheckedBy ==
    {Resolved(set.own, set.host)} \cup
    {Resolved([strategy |-> choice.strategy, pattern |-> set.own.pattern], set.host) :
        choice \in {c \in set.choices : c.strategy # None}}

(***************************************************************************)
(* A check loads the container's row and setting.  A registry other than       *)
(* Docker Hub is asked for a token before its list, Docker Hub only before a   *)
(* digest.                                                                 *)
(***************************************************************************)
Start(s) ==
    /\ search[s] = None
    /\ \E by \in CheckedBy :
         Becomes(s, [pc |-> IF hub /\ ~ByDigest(tag) THEN "listing" ELSE "token",
                   cur |-> tag, by |-> by, latest |-> offer.latest, has |-> offer.has,
                   got |-> <<>>, at |-> 1, best |-> tag, moved |-> {}, broken |-> FALSE])
    /\ UNCHANGED <<hub, tag, set, offer, list, pushes>>

(***************************************************************************)
(* Docker Hub without a token gives no digest and no answer; other registries  *)
(* are asked without one, which those that need none answer.                *)
(***************************************************************************)
GetToken(s) ==
    /\ search[s] # None /\ search[s].pc = "token"
    /\ \/ Becomes(s, [search[s] EXCEPT !.pc = IF ByDigest(search[s].cur) THEN "digest" ELSE "listing"])
       \/ hub /\ Becomes(s, None)
    /\ UNCHANGED <<hub, tag, set, offer, list, pushes>>

(***************************************************************************)
(* The digest of the tag itself comes, and the tag is its own answer, or not.  *)
(***************************************************************************)
GetDigest(s) ==
    /\ search[s] # None /\ search[s].pc = "digest"
    /\ Becomes(s, [search[s] EXCEPT !.pc = "answered"]) \/ Becomes(s, None)
    /\ UNCHANGED <<hub, tag, set, offer, list, pushes>>

Page(p) == SubSeq(list, (p - 1) * PageSize + 1, IF p * PageSize < Len(list) THEN p * PageSize ELSE Len(list))

Listed(call) == [call EXCEPT !.pc = "scanning", !.at = 1]

(***************************************************************************)
(* The next page is read.  One that fails ends the list, and the tags of the  *)
(* pages before it are searched all the same.                               *)
(***************************************************************************)
FetchPage(s) ==
    /\ search[s] # None /\ search[s].pc = "listing"
    /\ LET call == search[s]
           read == [call EXCEPT !.got = @ \o Page(call.at), !.at = @ + 1]
       IN \/ /\ call.at * PageSize < Len(list) /\ Becomes(s, read)
          \/ /\ call.at * PageSize >= Len(list) /\ Becomes(s, Listed(read))
          \/ Becomes(s, Listed([call EXCEPT !.broken = TRUE]))
    /\ UNCHANGED <<hub, tag, set, offer, list, pushes>>

(***************************************************************************)
(* A mistake one could make, the body of a mutant: each tag is compared with   *)
(* the one the container runs.                                             *)
(***************************************************************************)
BetterThanRunning(t, call) == Passes(t, call.cur, call.by) /\ Newer(t, call.cur)

Better(t, call) == Passes(t, call.cur, call.by) /\ Newer(t, call.best)

(***************************************************************************)
(* The tags are gone through in the order listed; without any there is no     *)
(* answer.                                                                 *)
(***************************************************************************)
Scan(s) ==
    /\ search[s] # None /\ search[s].pc = "scanning"
    /\ LET call == search[s]
           t    == call.got[call.at]
       IN IF call.at <= Len(call.got)
          THEN Becomes(s, [call EXCEPT !.at = @ + 1, !.best = IF Better(t, call) THEN t ELSE @])
          ELSE Becomes(s, IF call.got = <<>> THEN None ELSE [call EXCEPT !.pc = "answered"])
    /\ UNCHANGED <<hub, tag, set, offer, list, pushes>>

(***************************************************************************)
(* Does the answer say that there is an update?  Another tag does; the digest  *)
(* of the tag itself may, by the rules of UpdateRules.                       *)
(***************************************************************************)
Detected(call) == IF ByDigest(call.cur) THEN BOOLEAN ELSE {call.best # call.cur}

(***************************************************************************)
(* The check stores the answer, whatever the row has become: of the columns    *)
(* those are written that differ from the copy's.                           *)
(***************************************************************************)
Stored(call, has) ==
    LET latest == IF call.best # call.latest THEN call.best ELSE offer.latest
    IN [latest |-> latest,
        has    |-> IF has # call.has THEN has ELSE offer.has,
        from   |-> IF latest = call.best THEN call.cur ELSE offer.from,
        mixed  |-> offer.latest # call.latest \/ offer.has # call.has]

StoreAnswer(s) ==
    /\ search[s] # None /\ search[s].pc = "answered"
    /\ \E has \in Detected(search[s]) : offer' = Stored(search[s], has)
    /\ Becomes(s, None)
    /\ UNCHANGED <<hub, tag, set, list, pushes>>

SearchStep(s) ==
    \/ Start(s) \/ GetToken(s) \/ GetDigest(s) \/ FetchPage(s) \/ Scan(s) \/ StoreAnswer(s)

SearchNext ==
    \/ \E t \in Tags : Push(t) \/ Delete(t)
    \/ \E own \in set.choices : SetStrategy(own)
    \/ \E s \in Searches : SearchStep(s)

SearchSpec == SearchInit /\ [][SearchNext]_searchVars

------------------------------------------------------------------------------
(***************************************************************************)
(* The newest tag is offered: when every page was read, no tag that stood in   *)
(* the repository all the while and that the strategy admits is newer than    *)
(* the answer, although Docker Hub's pages shift with every push.  A tag that  *)
(* is pushed again while pages are read may be passed over, and for a tag that    *)
(* floats none is searched.                                                *)
(***************************************************************************)
Answered(s) == search[s] # None /\ search[s].pc = "answered"

OfferIsNewest ==
    \A s \in Searches : Answered(s) /\ ~search[s].broken /\ ~ByDigest(search[s].cur) =>
        \A t \in Range(list) \ search[s].moved :
            Passes(t, search[s].cur, search[s].by) => ~Newer(t, search[s].best)

(***************************************************************************)
(* No answer leads backwards or off the line: even from part of the list, and    *)
(* however many checks overlap, the latest_tag that is stored is the tag it was   *)
(* searched for or a newer one with its suffix.  And has_update promises more     *)
(* than the tag itself, unless the last check had loaded other columns: two      *)
(* checks that overlap may leave the one's has_update beside the other's         *)
(* latest_tag, until a check comes that finds what it loaded.                *)
(***************************************************************************)
Leads(t, from) == Newer(t, from) /\ t.suffix = from.suffix

OfferIsForward ==
    /\ offer.latest # None => offer.latest = offer.from \/ Leads(offer.latest, offer.from)
    /\ offer.has /\ ~offer.mixed => ByDigest(offer.from) \/ Leads(offer.latest, offer.from)

==============================================================================
