---------------------------- MODULE UpgradeProofs ----------------------------
(***************************************************************************)
(* Theorems about Upgrade.                                                 *)
(***************************************************************************)
EXTENDS Upgrade, RecreateProofs, SequenceTheorems

(***************************************************************************)
(* Searches.  The best tag is the running one or one on its line that is newer; *)
(* of the tags gone through, none that passes is newer than the best.         *)
(***************************************************************************)
Scanned(call) ==
    \A k \in 1 .. Len(call.got) :
        (call.pc = "scanning" => k < call.at) /\ Passes(call.got[k], call.cur, call.by)
            => ~Newer(call.got[k], call.best)

BestIsForward(call) ==
    call.best = call.cur \/ (Newer(call.best, call.cur) /\ call.best.suffix = call.cur.suffix)

(***************************************************************************)
(* A tag that stands on a page that was read and has not moved was read; for a   *)
(* tag that floats no page is.                                              *)
(***************************************************************************)
PagesRead(call) ==
    ~call.broken /\ ~ByDigest(call.cur) =>
        /\ call.pc = "listing" =>
             \A i \in DOMAIN list : i <= (call.at - 1) * PageSize => list[i] \in call.moved \cup Range(call.got)
        /\ call.pc \in {"scanning", "answered"} => Range(list) \subseteq call.moved \cup Range(call.got)

CallInv(call) ==
    /\ call.at >= 1
    /\ call.pc \in {"token", "digest", "listing"} => call.best = call.cur
    /\ call.pc \in {"token", "digest"} => call.at = 1
    /\ BestIsForward(call)
    /\ call.pc \in {"scanning", "answered"} => ByDigest(call.cur) \/ Scanned(call)
    /\ call.pc \in {"digest"} => ByDigest(call.cur)
    /\ PagesRead(call)

SearchInv ==
    /\ SearchTypeOK
    /\ set.own \in set.choices
    /\ \A s \in Searches : search[s] # None => CallInv(search[s])
    /\ OfferIsForward

(***************************************************************************)
(* The line: the first number and the suffix of the first image, and a second   *)
(* number, without which auto would search other major versions.             *)
(***************************************************************************)
OnLine(t) ==
    /\ Major(t) = Major(plan.image) /\ t.suffix = plan.image.suffix
    /\ Len(Release(t)) >= 2

CallOnLine(call) ==
    call.by.strategy \in {"auto", "minor", "patch"} /\ OnLine(call.cur) /\ OnLine(call.best)

AllOnLine ==
    /\ OnLine(tag)
    /\ offer.latest # None => OnLine(offer.latest)
    /\ \A s \in Searches : search[s] # None => CallOnLine(search[s])
    /\ runtime[It] # NoOne => OnLine(runtime[It].image)
    /\ \A u \in Updates : Called(u) /\ Target(u) = It => OnLine(upd[u].image)

LineInv == Cautious /\ Len(Release(plan.image)) >= 2 => AllOnLine

UpgradeInv == SearchInv /\ RecreateInv /\ LineInv

------------------------------------------------------------------------------
(***************************************************************************)
(* Newer is a strict order, which lets the best of a list be kept while it is  *)
(* gone through.                                                           *)
(***************************************************************************)
LEMMA ReleaseTypes ==
    ASSUME NEW t \in Tags
    PROVE  Release(t) \in Seq(Nat) /\ Len(Release(t)) \in Nat
           /\ \A i \in Nat \ {0} : At(Release(t), i) \in Nat
  <1>1. Release(t) \in Seq(Nat) /\ Len(Release(t)) \in Nat
    BY TagsAssumption, ConcatProperties, LenProperties DEF Release
  <1> QED
    BY <1>1, ElementOfSeq DEF At

LEMMA NewerIrreflexive == \A t \in Tags : ~Newer(t, t)
  BY ReleaseTypes DEF Newer

LEMMA NewerTransitive ==
    ASSUME NEW a \in Tags, NEW b \in Tags, NEW c \in Tags, Newer(a, b), Newer(b, c)
    PROVE  Newer(a, c)
  <1> DEFINE A(i) == At(Release(a), i)
             B(i) == At(Release(b), i)
             C(i) == At(Release(c), i)
  <1>1. /\ Len(Release(a)) \in Nat /\ Len(Release(b)) \in Nat
        /\ \A i \in Nat \ {0} : A(i) \in Nat /\ B(i) \in Nat /\ C(i) \in Nat
    BY ReleaseTypes
  <1>2. PICK i \in 1 .. Len(Release(a)) : A(i) > B(i) /\ \A k \in 1 .. i - 1 : A(k) = B(k)
    BY DEF Newer
  <1>3. PICK j \in 1 .. Len(Release(b)) : B(j) > C(j) /\ \A k \in 1 .. j - 1 : B(k) = C(k)
    BY DEF Newer
  <1> SUFFICES \E m \in 1 .. Len(Release(a)) : A(m) > C(m) /\ \A k \in 1 .. m - 1 : A(k) = C(k)
    BY DEF Newer
  <1> HIDE DEF A, B, C
  <1>4. CASE i <= j
    <2>1. A(i) > C(i)
      <3>1. i \in Nat \ {0} /\ j \in Nat \ {0}
        BY <1>1
      <3>2. A(i) \in Nat /\ B(i) \in Nat /\ C(i) \in Nat
        BY <1>1, <3>1
      <3>3. B(i) > C(i) \/ B(i) = C(i)
        BY <1>3, <1>4, <3>1
      <3> QED
        BY <1>2, <3>2, <3>3
    <2>2. \A k \in 1 .. i - 1 : A(k) = C(k)
      BY <1>1, <1>2, <1>3, <1>4
    <2> QED
      BY <2>1, <2>2
  <1>5. CASE j < i
    <2>1. A(j) > C(j) /\ j \in 1 .. Len(Release(a))
      BY <1>1, <1>2, <1>3, <1>5
    <2>2. \A k \in 1 .. j - 1 : A(k) = C(k)
      BY <1>1, <1>2, <1>3, <1>5
    <2> QED
      BY <2>1, <2>2
  <1> QED
    BY <1>1, <1>4, <1>5

(***************************************************************************)
(* What is newer within a major version has a second number.                  *)
(***************************************************************************)
LEMMA NewerInMajor ==
    ASSUME NEW t \in Tags, NEW u \in Tags, Newer(t, u), Major(t) = Major(u)
    PROVE  Len(Release(t)) >= 2
  <1>1. PICK i \in 1 .. Len(Release(t)) : At(Release(t), i) > At(Release(u), i)
    BY DEF Newer
  <1>2. /\ Len(Release(t)) \in Nat
        /\ \A k \in Nat \ {0} : At(Release(t), k) \in Nat /\ At(Release(u), k) \in Nat
    BY ReleaseTypes
  <1>3. i # 1
    BY <1>1, <1>2 DEF Major
  <1> QED
    BY <1>1, <1>2, <1>3

------------------------------------------------------------------------------
(***************************************************************************)
(* What a repository lists after a change: each tag where it stood, or farther *)
(* back by one place, but for the tag that is pushed.                        *)
(***************************************************************************)
LEMMA WithoutDoes ==
    ASSUME list \in Seq(Tags), NEW t \in Range(list)
    PROVE  /\ Without(t) \in Seq(Tags)
           /\ Len(Without(t)) = Len(list) - 1
           /\ \E p \in 1 .. Len(list) : \A i \in 1 .. Len(list) - 1 :
                Without(t)[i] = IF i < p THEN list[i] ELSE list[i + 1]
  <1> DEFINE p == CHOOSE i \in DOMAIN list : list[i] = t
             before == SubSeq(list, 1, p - 1)
             after  == SubSeq(list, p + 1, Len(list))
  <1>1. Len(list) \in Nat /\ DOMAIN list = 1 .. Len(list) /\ \A i \in 1 .. Len(list) : list[i] \in Tags
    BY LenProperties, ElementOfSeq
  <1>2. p \in 1 .. Len(list)
    BY <1>1 DEF Range
  <1>3. Without(t) = before \o after
    BY DEF Without
  <1> HIDE DEF p
  <1>4. before \in Seq(Tags) /\ Len(before) = p - 1 /\ \A i \in 1 .. p - 1 : before[i] = list[i]
    BY <1>1, <1>2, SubSeqProperties
  <1>5. /\ after \in Seq(Tags) /\ Len(after) = Len(list) - p
        /\ \A i \in 1 .. Len(list) - p : after[i] = list[p + i]
    <2>1. \A i \in p + 1 .. Len(list) : list[i] \in Tags
      BY <1>1, <1>2
    <2>2. /\ after \in Seq(Tags)
          /\ Len(after) = IF p + 1 <= Len(list) THEN Len(list) - (p + 1) + 1 ELSE 0
          /\ \A i \in 1 .. Len(list) - (p + 1) + 1 : after[i] = list[(p + 1) + i - 1]
      BY <1>1, <1>2, <2>1, SubSeqProperties
    <2> HIDE DEF after
    <2>3. ASSUME NEW i \in 1 .. Len(list) - p PROVE after[i] = list[p + i]
      <3>1. i \in 1 .. Len(list) - (p + 1) + 1 /\ (p + 1) + i - 1 = p + i
        BY <1>1, <1>2
      <3> QED
        BY <2>2, <3>1
    <2>4. Len(after) = Len(list) - p
      <3>1. CASE p = Len(list)
        <4>1. ~(p + 1 <= Len(list)) /\ Len(list) - p = 0
          BY <1>1, <3>1
        <4> QED
          BY <2>2, <4>1
      <3>2. CASE p < Len(list)
        <4>1. p + 1 <= Len(list) /\ Len(list) - (p + 1) + 1 = Len(list) - p
          BY <1>1, <1>2, <3>2
        <4> QED
          BY <2>2, <4>1
      <3>3. p \in Int /\ Len(list) \in Int /\ p <= Len(list)
        BY <1>1, <1>2
      <3> QED
        BY <3>1, <3>2, <3>3
    <2> QED
      BY <2>2, <2>3, <2>4
  <1> HIDE DEF before, after
  <1>6. /\ before \o after \in Seq(Tags) /\ Len(before \o after) = Len(list) - 1
        /\ \A i \in 1 .. Len(list) - 1 :
             (before \o after)[i] = IF i < p THEN list[i] ELSE list[i + 1]
    <2>1. /\ before \o after \in Seq(Tags) /\ Len(before \o after) = Len(list) - 1
          /\ \A i \in 1 .. Len(list) - 1 :
               (before \o after)[i] = IF i <= p - 1 THEN before[i] ELSE after[i - (p - 1)]
      <3>1. /\ before \o after \in Seq(Tags) /\ Len(before \o after) = Len(before) + Len(after)
            /\ \A i \in 1 .. Len(before) + Len(after) :
                 (before \o after)[i] = IF i <= Len(before) THEN before[i] ELSE after[i - Len(before)]
        BY <1>4, <1>5, ConcatProperties
      <3>2. Len(before) + Len(after) = Len(list) - 1 /\ Len(before) = p - 1
        BY <1>1, <1>2, <1>4, <1>5
      <3> QED
        BY <3>1, <3>2
    <2>2. ASSUME NEW i \in 1 .. Len(list) - 1
          PROVE  (before \o after)[i] = IF i < p THEN list[i] ELSE list[i + 1]
      <3>1. CASE i < p
        BY <1>1, <1>2, <1>4, <2>1, <3>1
      <3>2. CASE i >= p
        <4>1. i - (p - 1) \in 1 .. Len(list) - p /\ p + (i - (p - 1)) = i + 1
          BY <1>1, <1>2, <3>2
        <4>2. after[i - (p - 1)] = list[i + 1]
          BY <1>5, <4>1
        <4>3. ~(i <= p - 1) /\ ~(i < p)
          BY <1>1, <1>2, <3>2
        <4> QED
          BY <2>1, <4>2, <4>3
      <3>3. i < p \/ i >= p
        BY <1>1, <1>2
      <3> QED
        BY <3>1, <3>2, <3>3
    <2> QED
      BY <2>1, <2>2
  <1> QED
    BY <1>2, <1>3, <1>6

LEMMA PushDoes ==
    ASSUME list \in Seq(Tags), NEW t \in Tags, Push(t)
    PROVE  /\ list' \in Seq(Tags)
           /\ \A i \in DOMAIN list' :
                list'[i] = t \/ \E j \in DOMAIN list : j <= i /\ list'[i] = list[j]
  <1>1. Len(list) \in Nat /\ DOMAIN list = 1 .. Len(list) /\ \A i \in 1 .. Len(list) : list[i] \in Tags
    BY LenProperties, ElementOfSeq
  <1>2. <<t>> \in Seq(Tags) /\ Len(<<t>>) = 1 /\ <<t>>[1] = t
    OBVIOUS
  <1>3. ASSUME NEW rest \in Seq(Tags), list' = <<t>> \o rest
        PROVE  /\ list' \in Seq(Tags) /\ DOMAIN list' = 1 .. Len(rest) + 1
               /\ \A i \in 1 .. Len(rest) + 1 : list'[i] = IF i = 1 THEN t ELSE rest[i - 1]
    <2>1. Len(rest) \in Nat
      BY LenProperties
    <2>2. /\ <<t>> \o rest \in Seq(Tags) /\ Len(<<t>> \o rest) = 1 + Len(rest)
          /\ \A i \in 1 .. 1 + Len(rest) : (<<t>> \o rest)[i] = IF i <= 1 THEN <<t>>[i] ELSE rest[i - 1]
      BY <1>2, ConcatProperties
    <2>3. DOMAIN (<<t>> \o rest) = 1 .. Len(<<t>> \o rest)
      BY <2>2, LenProperties
    <2> QED
      BY <1>2, <1>3, <2>1, <2>2, <2>3
  <1>4. CASE hub /\ t \in Range(list)
    <2>1. list' = <<t>> \o Without(t)
      BY <1>4 DEF Push
    <2>2. PICK p \in 1 .. Len(list) : \A i \in 1 .. Len(list) - 1 :
            Without(t)[i] = IF i < p THEN list[i] ELSE list[i + 1]
      BY <1>4, WithoutDoes
    <2>3. /\ list' \in Seq(Tags) /\ DOMAIN list' = 1 .. Len(list)
          /\ \A i \in 1 .. Len(list) : list'[i] = IF i = 1 THEN t ELSE Without(t)[i - 1]
      <3>1. Without(t) \in Seq(Tags) /\ Len(Without(t)) + 1 = Len(list)
        <4>1. Without(t) \in Seq(Tags) /\ Len(Without(t)) = Len(list) - 1
          BY <1>4, WithoutDoes
        <4> QED
          BY <1>1, <4>1
      <3> QED
        BY <1>3, <2>1, <3>1
    <2>4. ASSUME NEW i \in 1 .. Len(list), i # 1
          PROVE  \E j \in 1 .. Len(list) : j <= i /\ list'[i] = list[j]
      <3>1. i - 1 \in 1 .. Len(list) - 1 /\ list'[i] = Without(t)[i - 1]
        BY <1>1, <2>3, <2>4
      <3>2. list'[i] = list[i - 1] \/ list'[i] = list[(i - 1) + 1]
        BY <2>2, <3>1
      <3> QED
        BY <1>1, <2>4, <3>1, <3>2
    <2> QED
      BY <1>1, <2>3, <2>4
  <1>5. CASE hub /\ t \notin Range(list)
    <2>1. list' = <<t>> \o list
      BY <1>5 DEF Push
    <2>2. /\ list' \in Seq(Tags) /\ DOMAIN list' = 1 .. Len(list) + 1
          /\ \A i \in 1 .. Len(list) + 1 : list'[i] = IF i = 1 THEN t ELSE list[i - 1]
      BY <1>3, <2>1
    <2> QED
      BY <1>1, <2>2
  <1>6. CASE ~hub
    <2>1. list' = list \/ list' = Append(list, t)
      BY <1>6 DEF Push
    <2>2. /\ Append(list, t) \in Seq(Tags) /\ DOMAIN Append(list, t) = 1 .. Len(list) + 1
          /\ \A i \in 1 .. Len(list) : Append(list, t)[i] = list[i]
          /\ Append(list, t)[Len(list) + 1] = t
      BY <1>1
    <2> QED
      BY <1>1, <2>1, <2>2
  <1> QED
    BY <1>4, <1>5, <1>6

------------------------------------------------------------------------------
(***************************************************************************)
(* The steps of a call leave it None, or with what CallInv says of it.        *)
(***************************************************************************)
Calls == search \in [Searches -> Search \cup {None}]

CallsInv == \A s \in Searches : search[s] # None => CallInv(search[s])

Keeps(s) == \E call \in Search \cup {None} : Becomes(s, call) /\ (call # None => CallInv(call))

LEMMA KeptCalls ==
    ASSUME Calls, CallsInv, NEW s \in Searches, Keeps(s), list' = list
    PROVE  Calls' /\ CallsInv'
  <1>1. PICK call \in Search \cup {None} : Becomes(s, call) /\ (call # None => CallInv(call))
    BY DEF Keeps
  <1>2. Calls' /\ search'[s] = call /\ \A r \in Searches : r # s => search'[r] = search[r]
    BY <1>1 DEF Calls, Becomes
  <1>3. ASSUME NEW r \in Searches, search'[r] # None PROVE CallInv(search[r])'
    <2>1. PICK c : c = search'[r]
      OBVIOUS
    <2>2. CallInv(c)
      BY <1>1, <1>2, <1>3, <2>1 DEF CallsInv
    <2> QED
      BY <2>1, <2>2 DEF CallInv, BestIsForward, Scanned, PagesRead
  <1> QED
    BY <1>2, <1>3 DEF CallsInv

By == [strategy: Strategies, pattern: Patterns \cup {None}]

LEMMA CheckedByTypes ==
    ASSUME SearchTypeOK PROVE CheckedBy \subseteq By
  <1>1. ASSUME NEW own \in Setting, NEW host \in HostSetting PROVE Resolved(own, host) \in By
    BY DEF Resolved, Setting, HostSetting, By, Strategies
  <1>2. set.own \in Setting /\ set.host \in HostSetting /\ set.choices \subseteq Setting
    BY DEF SearchTypeOK
  <1>3. ASSUME NEW choice \in set.choices
        PROVE  [strategy |-> choice.strategy, pattern |-> set.own.pattern] \in Setting
    BY <1>2 DEF Setting
  <1> QED
    BY <1>1, <1>2, <1>3 DEF CheckedBy

LEMMA StartKeeps ==
    ASSUME SearchTypeOK, NEW s \in Searches, Start(s) PROVE Keeps(s)
  <1>1. PICK by \in CheckedBy :
          Becomes(s, [pc |-> IF hub /\ ~ByDigest(tag) THEN "listing" ELSE "token",
                      cur |-> tag, by |-> by, latest |-> offer.latest, has |-> offer.has, got |-> <<>>, at |-> 1, best |-> tag,
                      moved |-> {}, broken |-> FALSE])
    BY DEF Start
  <1>2. ASSUME NEW pc \in {"listing", "token"}
        PROVE  LET call == [pc |-> pc, cur |-> tag, by |-> by, latest |-> offer.latest, has |-> offer.has, got |-> <<>>, at |-> 1, best |-> tag,
                            moved |-> {}, broken |-> FALSE]
               IN call \in Search /\ CallInv(call)
    <2> DEFINE call == [pc |-> pc, cur |-> tag, by |-> by, latest |-> offer.latest, has |-> offer.has, got |-> <<>>, at |-> 1, best |-> tag,
                        moved |-> {}, broken |-> FALSE]
    <2>1. by \in By /\ tag \in Tags /\ <<>> \in Seq(Tags) /\ offer.latest \in Tags \cup {None} /\ offer.has \in BOOLEAN
      BY CheckedByTypes DEF SearchTypeOK, Offer
    <2>2. call \in Search
      BY <2>1 DEF Search, PCs, By
    <2>3. (1 - 1) * PageSize = 0 /\ \A i \in DOMAIN list : ~(i <= 0)
      BY SearchAssumption, LenProperties DEF SearchTypeOK
    <2> QED
      BY <2>2, <2>3 DEF CallInv, BestIsForward, PagesRead
  <1> QED
    BY <1>1, <1>2 DEF Keeps

LEMMA CallOfStep ==
    ASSUME Calls, CallsInv, NEW s \in Searches, search[s] # None
    PROVE  search[s] \in Search /\ CallInv(search[s])
  BY DEF Calls, CallsInv

LEMMA TokenKeeps ==
    ASSUME list \in Seq(Tags), Calls, CallsInv, NEW s \in Searches, GetToken(s) \/ GetDigest(s)
    PROVE  Keeps(s)
  <1>1. search[s] \in Search /\ CallInv(search[s])
    BY CallOfStep DEF GetToken, GetDigest
  <1>2. CASE Becomes(s, None)
    BY <1>2 DEF Keeps
  <1>3. ASSUME NEW pc \in {"digest", "listing"}, search[s].pc = "token",
               pc = "digest" => ByDigest(search[s].cur)
        PROVE  [search[s] EXCEPT !.pc = pc] \in Search /\ CallInv([search[s] EXCEPT !.pc = pc])
    <2> DEFINE call == [search[s] EXCEPT !.pc = pc]
    <2>1. /\ call \in Search /\ call.pc = pc /\ call.at = 1 /\ call.best = call.cur
          /\ call.broken = search[s].broken /\ call.cur = search[s].cur
      BY <1>1, <1>3 DEF Search, PCs, CallInv
    <2>2. (1 - 1) * PageSize = 0
      BY SearchAssumption
    <2> HIDE DEF call
    <2>3. (call.at - 1) * PageSize = 0
      BY <2>1, <2>2
    <2>4. \A i \in DOMAIN list : ~(i <= 0)
      BY LenProperties
    <2>5. CallInv(call)
      BY <1>3, <2>1, <2>3, <2>4 DEF CallInv, BestIsForward, PagesRead
    <2> QED
      BY <2>1, <2>5 DEF call
  <1>4. CASE \E pc \in {"digest", "listing"} :
               /\ search[s].pc = "token" /\ (pc = "digest" => ByDigest(search[s].cur))
               /\ Becomes(s, [search[s] EXCEPT !.pc = pc])
    BY <1>3, <1>4, NoneIsNoSearch DEF Keeps
  <1>5. CASE search[s].pc = "digest" /\ Becomes(s, [search[s] EXCEPT !.pc = "answered"])
    <2> DEFINE call == [search[s] EXCEPT !.pc = "answered"]
    <2>1. /\ call \in Search /\ call.pc = "answered" /\ call.at = 1 /\ call.best = call.cur
          /\ ByDigest(call.cur)
      BY <1>1, <1>5 DEF Search, PCs, CallInv
    <2> HIDE DEF call
    <2>2. CallInv(call)
      BY <2>1 DEF CallInv, BestIsForward, PagesRead
    <2> QED
      BY <1>5, <2>1, <2>2, NoneIsNoSearch DEF Keeps, call
  <1> QED
    BY <1>2, <1>4, <1>5 DEF GetToken, GetDigest

LEMMA PageTypes ==
    ASSUME list \in Seq(Tags), NEW p \in Nat \ {0}
    PROVE  /\ Page(p) \in Seq(Tags)
           /\ \A i \in DOMAIN list : (p - 1) * PageSize < i /\ i <= p * PageSize => list[i] \in Range(Page(p))
  <1> DEFINE first == (p - 1) * PageSize + 1
             last  == IF p * PageSize < Len(list) THEN p * PageSize ELSE Len(list)
  <1>1. Len(list) \in Nat /\ DOMAIN list = 1 .. Len(list) /\ \A i \in 1 .. Len(list) : list[i] \in Tags
    BY LenProperties, ElementOfSeq
  <1>2. (p - 1) * PageSize \in Nat /\ p * PageSize \in Nat
    BY SearchAssumption
  <1>3. first \in Int /\ last \in Int /\ 1 <= first /\ last <= Len(list)
    BY <1>1, <1>2
  <1>4. Page(p) = SubSeq(list, first, last)
    BY DEF Page
  <1> HIDE DEF first, last
  <1>5. /\ Page(p) \in Seq(Tags)
        /\ Len(Page(p)) = IF first <= last THEN last - first + 1 ELSE 0
        /\ \A i \in 1 .. last - first + 1 : Page(p)[i] = list[first + i - 1]
    <2>1. \A i \in first .. last : list[i] \in Tags
      BY <1>1, <1>3
    <2> QED
      BY <1>3, <1>4, <2>1, SubSeqProperties
  <1>6. ASSUME NEW i \in DOMAIN list, (p - 1) * PageSize < i, i <= p * PageSize
        PROVE  list[i] \in Range(Page(p))
    <2>1. first <= i /\ i <= last
      BY <1>1, <1>2, <1>6 DEF first, last
    <2>2. i - first + 1 \in 1 .. last - first + 1 /\ first + (i - first + 1) - 1 = i /\ first <= last
      BY <1>1, <1>3, <2>1
    <2>3. i - first + 1 \in DOMAIN Page(p) /\ Page(p)[i - first + 1] = list[i]
      BY <1>5, <2>2, LenProperties
    <2> QED
      BY <2>3 DEF Range
  <1> QED
    BY <1>5, <1>6

(***************************************************************************)
(* The pages before the next one were read, and now that one.                *)
(***************************************************************************)
LEMMA FetchKeeps ==
    ASSUME list \in Seq(Tags), Calls, CallsInv, NEW s \in Searches, FetchPage(s)
    PROVE  Keeps(s)
  <1> DEFINE call == search[s]
             got  == call.got \o Page(call.at)
             next == call.at + 1
             read == [call EXCEPT !.got = got, !.at = next]
  <1>1. call \in Search /\ CallInv(call) /\ call.pc = "listing"
    BY CallOfStep DEF FetchPage
  <1>2. call.at \in Nat \ {0} /\ call.got \in Seq(Tags) /\ call.best = call.cur
    BY <1>1 DEF Search, CallInv
  <1>3. /\ got \in Seq(Tags) /\ Range(got) = Range(call.got) \cup Range(Page(call.at))
        /\ Page(call.at) \in Seq(Tags)
    BY <1>2, PageTypes, RangeConcatenation, ConcatProperties
  <1>4. ~call.broken /\ ~ByDigest(call.cur) => \A i \in DOMAIN list : i <= call.at * PageSize => list[i] \in call.moved \cup Range(got)
    <2> SUFFICES ASSUME ~call.broken, ~ByDigest(call.cur), NEW i \in DOMAIN list, i <= call.at * PageSize
                 PROVE  list[i] \in call.moved \cup Range(got)
      OBVIOUS
    <2>1. CASE i <= (call.at - 1) * PageSize
      BY <1>1, <1>3, <2>1 DEF CallInv, PagesRead
    <2>2. CASE ~(i <= (call.at - 1) * PageSize)
      <3>1. (call.at - 1) * PageSize < i
        BY <1>2, <2>2, SearchAssumption, LenProperties
      <3> QED
        BY <1>2, <1>3, <3>1, PageTypes
    <2> QED
      BY <2>1, <2>2
  <1> HIDE DEF got
  <1>5. /\ read \in Search /\ read.pc = "listing" /\ read.at = call.at + 1 /\ read.got = got
        /\ read.best = call.best /\ read.cur = call.cur /\ read.moved = call.moved
        /\ read.broken = call.broken
    <2>1. next \in Nat /\ next = call.at + 1
      BY <1>2
    <2> HIDE DEF next
    <2> QED
      BY <1>1, <1>3, <2>1 DEF Search
  <1> HIDE DEF read
  <1>6. CallInv(read)
    <2>1. (read.at - 1) * PageSize = call.at * PageSize
      BY <1>2, <1>5
    <2> QED
      BY <1>1, <1>2, <1>4, <1>5, <2>1 DEF CallInv, BestIsForward, PagesRead
  <1>7. ASSUME NEW last \in Search, last.best = last.cur,
               last.broken \/ ByDigest(last.cur) \/ Range(list) \subseteq last.moved \cup Range(last.got)
        PROVE  Listed(last) \in Search /\ CallInv(Listed(last))
    <2>1. /\ Listed(last) \in Search /\ Listed(last).pc = "scanning" /\ Listed(last).at = 1
          /\ Listed(last).best = last.best /\ Listed(last).cur = last.cur /\ Listed(last).moved = last.moved
          /\ Listed(last).got = last.got /\ Listed(last).broken = last.broken
      BY DEF Listed, Search, PCs
    <2>2. Len(last.got) \in Nat
      BY LenProperties DEF Search
    <2>3. Scanned(Listed(last))
      BY <2>1, <2>2 DEF Scanned
    <2> QED
      BY <1>7, <2>1, <2>3 DEF CallInv, BestIsForward, PagesRead
  <1>8. CASE call.at * PageSize >= Len(list) /\ Becomes(s, Listed(read))
    <2>1. ASSUME NEW t \in Range(list), ~call.broken, ~ByDigest(call.cur) PROVE t \in call.moved \cup Range(got)
      <3>1. PICK i \in DOMAIN list : t = list[i]
        BY <2>1 DEF Range
      <3>2. i <= call.at * PageSize
        BY <1>2, <1>8, <3>1, SearchAssumption, LenProperties
      <3> QED
        BY <1>4, <2>1, <3>1, <3>2
    <2>2. Range(list) \subseteq read.moved \cup Range(read.got) \/ read.broken \/ ByDigest(read.cur)
      BY <1>5, <2>1
    <2> QED
      BY <1>2, <1>5, <1>7, <1>8, <2>2 DEF Keeps
  <1>9. CASE Becomes(s, Listed([call EXCEPT !.broken = TRUE]))
    <2>1. /\ [call EXCEPT !.broken = TRUE] \in Search /\ [call EXCEPT !.broken = TRUE].broken
          /\ [call EXCEPT !.broken = TRUE].best = [call EXCEPT !.broken = TRUE].cur
      BY <1>1, <1>2 DEF Search
    <2> QED
      BY <1>7, <1>9, <2>1 DEF Keeps
  <1>10. CASE Becomes(s, read)
    BY <1>5, <1>6, <1>10 DEF Keeps
  <1> QED
    BY <1>8, <1>9, <1>10 DEF FetchPage, read, next, got

(***************************************************************************)
(* The best of the tags gone through stays the best, as Newer is a strict      *)
(* order.                                                                  *)
(***************************************************************************)
LEMMA ScanKeeps ==
    ASSUME Calls, CallsInv, NEW s \in Searches, Scan(s)
    PROVE  Keeps(s)
  <1> DEFINE call == search[s]
             t    == call.got[call.at]
             best == IF Better(t, call) THEN t ELSE call.best
             next == call.at + 1
             on   == [call EXCEPT !.at = next, !.best = best]
  <1>1. /\ call \in Search /\ CallInv(call) /\ call.pc = "scanning"
        /\ call.at \in Nat \ {0} /\ call.got \in Seq(Tags) /\ Len(call.got) \in Nat
        /\ call.best \in Tags /\ call.cur \in Tags
    BY CallOfStep, LenProperties DEF Scan, Search, CallInv
  <1>2. CASE call.at <= Len(call.got)
    <2>1. Becomes(s, on)
      BY <1>2 DEF Scan
    <2>2. t \in Tags
      BY <1>1, <1>2, ElementOfSeq
    <2>3. /\ best \in Tags
          /\ best = call.best \/ (Newer(best, call.best) /\ best.suffix = call.cur.suffix)
          /\ Passes(t, call.cur, call.by) => ~Newer(t, best)
      <3>1. CASE Better(t, call)
        BY <2>2, <3>1, NewerIrreflexive DEF Better, Passes
      <3>2. CASE ~Better(t, call)
        BY <1>1, <3>2 DEF Better
      <3> QED
        BY <3>1, <3>2
    <2> HIDE DEF best
    <2>4. /\ on \in Search /\ on.pc = "scanning" /\ on.at = call.at + 1 /\ on.best = best
          /\ on.cur = call.cur /\ on.by = call.by /\ on.got = call.got /\ on.moved = call.moved
          /\ on.broken = call.broken
      <3>1. next \in Nat /\ next = call.at + 1
        BY <1>1
      <3> HIDE DEF next
      <3> QED
        BY <1>1, <2>3, <3>1 DEF Search
    <2> HIDE DEF on
    <2>5. BestIsForward(on)
      BY <1>1, <2>3, <2>4, NewerTransitive DEF BestIsForward, CallInv
    <2>6. ByDigest(on.cur) \/ Scanned(on)
      <3> SUFFICES ASSUME ~ByDigest(call.cur), NEW k \in 1 .. Len(call.got), k < call.at + 1, Passes(call.got[k], call.cur, call.by)
                   PROVE  ~Newer(call.got[k], best)
        BY <2>4 DEF Scanned
      <3>1. CASE k = call.at
        BY <2>3, <3>1
      <3>2. CASE k # call.at
        <4>1. k < call.at /\ call.got[k] \in Tags
          BY <1>1, <3>2, ElementOfSeq
        <4>2. ~Newer(call.got[k], call.best)
          BY <1>1, <4>1 DEF CallInv, Scanned
        <4> QED
          BY <1>1, <2>3, <4>1, <4>2, NewerTransitive
      <3> QED
        BY <3>1, <3>2
    <2>7. CallInv(on)
      BY <1>1, <2>4, <2>5, <2>6 DEF CallInv, PagesRead
    <2> QED
      BY <2>1, <2>4, <2>7 DEF Keeps
  <1>3. CASE ~(call.at <= Len(call.got)) /\ call.got # <<>>
    <2> DEFINE done == [call EXCEPT !.pc = "answered"]
    <2>1. Becomes(s, done)
      BY <1>3 DEF Scan
    <2>2. /\ done \in Search /\ done.pc = "answered" /\ done.at = call.at /\ done.best = call.best
          /\ done.cur = call.cur /\ done.by = call.by /\ done.got = call.got /\ done.moved = call.moved
          /\ done.broken = call.broken
      BY <1>1 DEF Search, PCs
    <2> HIDE DEF done
    <2>3. \A k \in 1 .. Len(call.got) : k < call.at
      BY <1>1, <1>3
    <2>4. CallInv(done)
      BY <1>1, <2>2, <2>3 DEF CallInv, BestIsForward, Scanned, PagesRead
    <2> QED
      BY <2>1, <2>2, <2>4 DEF Keeps
  <1>4. CASE ~(call.at <= Len(call.got)) /\ call.got = <<>>
    BY <1>4 DEF Scan, Keeps
  <1> QED
    BY <1>2, <1>3, <1>4

------------------------------------------------------------------------------
(***************************************************************************)
(* A change of the repository takes from the pages that were read only what    *)
(* has moved.                                                              *)
(***************************************************************************)
LEMMA DisturbedCalls ==
    ASSUME Calls, CallsInv, NEW tags \in SUBSET Tags, Disturbs(tags),
           list \in Seq(Tags), list' \in Seq(Tags),
           \A i \in DOMAIN list' : list'[i] \in tags \/ \E j \in DOMAIN list : j <= i /\ list'[i] = list[j]
    PROVE  Calls' /\ CallsInv'
  <1>1. ASSUME NEW s \in Searches, search[s] # None
        PROVE  /\ search'[s] \in Search /\ search'[s] # None
               /\ search'[s] = [search[s] EXCEPT !.moved = search[s].moved \cup tags]
    <2>1. search[s] \in Search
      BY <1>1 DEF Calls
    <2>2. search'[s] = [search[s] EXCEPT !.moved = search[s].moved \cup tags]
      BY <1>1 DEF Disturbs
    <2>3. search'[s] \in Search
      BY <2>1, <2>2 DEF Search
    <2> QED
      BY <2>2, <2>3, NoneIsNoSearch
  <1>2. \A s \in Searches : search[s] = None => search'[s] = None
    BY DEF Disturbs
  <1>3. Calls'
    BY <1>1, <1>2 DEF Calls, Disturbs
  <1>4. ASSUME NEW s \in Searches, search[s] # None PROVE CallInv(search[s])'
    <2>1. PICK call : call = search'[s]
      OBVIOUS
    <2>2. search[s] \in Search /\ CallInv(search[s])
      BY <1>4 DEF Calls, CallsInv
    <2>3. /\ call.pc = search[s].pc /\ call.at = search[s].at /\ call.best = search[s].best
          /\ call.cur = search[s].cur /\ call.by = search[s].by /\ call.got = search[s].got
          /\ call.broken = search[s].broken /\ call.moved = search[s].moved \cup tags
      <3>1. call = [search[s] EXCEPT !.moved = search[s].moved \cup tags]
        BY <1>1, <1>4, <2>1
      <3> QED
        BY <2>2, <3>1 DEF Search
    <2>4. BestIsForward(call) /\ (Scanned(search[s]) => Scanned(call))
      BY <2>2, <2>3 DEF CallInv, BestIsForward, Scanned
    <2>5. ASSUME ~call.broken, ~ByDigest(call.cur), call.pc = "listing", NEW i \in DOMAIN list', i <= (call.at - 1) * PageSize
          PROVE  list'[i] \in call.moved \cup Range(call.got)
      <3>1. CASE list'[i] \in tags
        BY <2>3, <3>1
      <3>2. ASSUME NEW j \in DOMAIN list, j <= i, list'[i] = list[j]
            PROVE  list'[i] \in call.moved \cup Range(call.got)
        <4>1. (call.at - 1) * PageSize \in Int /\ i \in Int /\ j \in Int
          BY <2>2, <2>3, SearchAssumption, LenProperties DEF Search
        <4>2. j <= (call.at - 1) * PageSize
          BY <2>5, <3>2, <4>1
        <4> QED
          BY <2>2, <2>3, <2>5, <3>2, <4>2 DEF CallInv, PagesRead
      <3> QED
        BY <3>1, <3>2
    <2>6. ASSUME ~call.broken, ~ByDigest(call.cur), call.pc \in {"scanning", "answered"}
          PROVE  Range(list') \subseteq call.moved \cup Range(call.got)
      <3>1. Range(list') \subseteq tags \cup Range(list)
        BY DEF Range
      <3> QED
        BY <2>2, <2>3, <2>6, <3>1 DEF CallInv, PagesRead
    <2>7. /\ call.at >= 1
          /\ call.pc \in {"token", "digest", "listing"} => call.best = call.cur
          /\ call.pc \in {"token", "digest"} => call.at = 1
          /\ call.pc \in {"scanning", "answered"} => ByDigest(call.cur) \/ Scanned(call)
          /\ call.pc \in {"digest"} => ByDigest(call.cur)
      BY <2>2, <2>3, <2>4 DEF CallInv
    <2>8. PagesRead(search[s])'
      BY <2>1, <2>5, <2>6 DEF PagesRead
    <2> QED
      BY <2>1, <2>4, <2>7, <2>8 DEF CallInv, BestIsForward, Scanned
  <1> QED
    BY <1>2, <1>3, <1>4 DEF CallsInv

RowTypes ==
    /\ hub \in BOOLEAN /\ tag \in Tags /\ set \in [own: Setting, host: HostSetting, choices: SUBSET Setting]
    /\ offer \in Offer /\ pushes \in Nat

LEMMA SearchParts ==
    /\ SearchInv <=> RowTypes /\ list \in Seq(Tags) /\ Calls /\ CallsInv /\ set.own \in set.choices /\ OfferIsForward
    /\ SearchInv' <=> (RowTypes /\ list \in Seq(Tags) /\ Calls /\ CallsInv /\ set.own \in set.choices /\ OfferIsForward)'
  BY DEF SearchInv, SearchTypeOK, RowTypes, Calls, CallsInv

LEMMA ChangeKeeps ==
    ASSUME SearchInv, NEW t \in Tags, Push(t) \/ Delete(t)
    PROVE  SearchInv'
  <1>1. RowTypes' /\ set' = set /\ offer' = offer
    BY SearchParts DEF RowTypes, Push, Delete
  <1>2. OfferIsForward'
    BY <1>1, SearchParts DEF OfferIsForward
  <1>3. CASE Push(t)
    <2>1. /\ list' \in Seq(Tags)
          /\ \A i \in DOMAIN list' : list'[i] = t \/ \E j \in DOMAIN list : j <= i /\ list'[i] = list[j]
      BY <1>3, SearchParts, PushDoes
    <2>2. Calls' /\ CallsInv'
      BY <1>3, <2>1, SearchParts, DisturbedCalls DEF Push
    <2> QED
      BY <1>1, <1>2, <2>1, <2>2, SearchParts
  <1>4. CASE Delete(t)
    <2>1. list' \in Seq(Tags)
      BY <1>4, SearchParts, WithoutDoes DEF Delete
    <2>2. \A i \in DOMAIN list' : list'[i] \in Tags
      BY <2>1, LenProperties, ElementOfSeq
    <2>3. Calls' /\ CallsInv'
      BY <1>4, <2>1, <2>2, SearchParts, DisturbedCalls DEF Delete
    <2> QED
      BY <1>1, <1>2, <2>1, <2>3, SearchParts
  <1> QED
    BY <1>3, <1>4

LEMMA SettingKeeps ==
    ASSUME SearchInv, NEW own, SetStrategy(own)
    PROVE  SearchInv' /\ set'.choices = set.choices /\ set'.host = set.host
  <1>1. /\ set' \in [own: Setting, host: HostSetting, choices: SUBSET Setting]
        /\ set'.choices = set.choices /\ set'.host = set.host /\ set'.own = own
    BY SearchParts DEF SetStrategy, RowTypes
  <1>2. RowTypes' /\ (set.own \in set.choices)'
    BY <1>1, SearchParts DEF SetStrategy, RowTypes
  <1>3. Calls' /\ CallsInv' /\ OfferIsForward' /\ list' \in Seq(Tags)
    BY SearchParts DEF SetStrategy, Calls, CallsInv, CallInv, BestIsForward, Scanned, PagesRead, OfferIsForward
  <1> QED
    BY <1>1, <1>2, <1>3, SearchParts

LEMMA AnswerKeeps ==
    ASSUME SearchInv, NEW s \in Searches, StoreAnswer(s)
    PROVE  SearchInv'
  <1>1. search[s] \in Search /\ CallInv(search[s])
    BY SearchParts, CallOfStep DEF StoreAnswer
  <1>2. Calls' /\ CallsInv'
    BY SearchParts, KeptCalls DEF StoreAnswer, Keeps
  <1> DEFINE call == search[s]
  <1>3. PICK has \in Detected(call) : offer' = Stored(call, has)
    BY DEF StoreAnswer
  <1>4. /\ call.best \in Tags /\ call.cur \in Tags /\ has \in BOOLEAN /\ offer \in Offer
        /\ BestIsForward(call) /\ OfferIsForward
    BY <1>1, SearchParts DEF Search, Detected, CallInv, RowTypes
  <1>5. ~ByDigest(call.cur) => has = (call.best # call.cur)
    BY DEF Detected
  <1> HIDE DEF call
  <1>6. /\ offer'.latest = IF call.best # call.latest THEN call.best ELSE offer.latest
        /\ offer'.has = IF has # call.has THEN has ELSE offer.has
        /\ offer'.from = IF offer'.latest = call.best THEN call.cur ELSE offer.from
        /\ offer'.mixed = (offer.latest # call.latest \/ offer.has # call.has)
    BY <1>3 DEF Stored
  <1>7. offer' \in Offer
    BY <1>3, <1>4 DEF Stored, Offer
  <1>8. OfferIsForward'
    BY <1>4, <1>5, <1>6 DEF OfferIsForward, BestIsForward, Leads
  <1> QED
    BY <1>2, <1>7, <1>8, SearchParts DEF StoreAnswer, RowTypes

LEMMA StepKeeps ==
    ASSUME SearchInv, NEW s \in Searches, SearchStep(s)
    PROVE  SearchInv'
  <1>1. CASE StoreAnswer(s)
    BY <1>1, AnswerKeeps
  <1>2. CASE Start(s) \/ GetToken(s) \/ GetDigest(s) \/ FetchPage(s) \/ Scan(s)
    <2>1. UNCHANGED <<hub, tag, set, offer, list, pushes>>
      BY <1>2 DEF Start, GetToken, GetDigest, FetchPage, Scan
    <2>2. Keeps(s)
      BY <1>2, SearchParts, StartKeeps, TokenKeeps, FetchKeeps, ScanKeeps DEF SearchInv
    <2>3. Calls' /\ CallsInv'
      BY <2>1, <2>2, SearchParts, KeptCalls
    <2> QED
      BY <2>1, <2>3, SearchParts DEF RowTypes, OfferIsForward
  <1> QED
    BY <1>1, <1>2 DEF SearchStep

LEMMA SearchNextKeeps ==
    ASSUME SearchInv, SearchNext
    PROVE  SearchInv' /\ set'.choices = set.choices /\ set'.host = set.host
  <1>1. CASE \E t \in Tags : Push(t) \/ Delete(t)
    BY <1>1, ChangeKeeps DEF Push, Delete
  <1>2. CASE \E own \in set.choices : SetStrategy(own)
    BY <1>2, SettingKeeps
  <1>3. CASE \E s \in Searches : SearchStep(s)
    BY <1>3, StepKeeps DEF SearchStep, Start, GetToken, GetDigest, FetchPage, Scan, StoreAnswer
  <1> QED
    BY <1>1, <1>2, <1>3 DEF SearchNext

LEMMA SearchInvInit == SearchInit => SearchInv
  <1> SUFFICES ASSUME SearchInit PROVE SearchInv
    OBVIOUS
  <1>1. PICK world \in Worlds :
          /\ hub = world.hub /\ tag = world.tag /\ list = world.list
          /\ set = SettingsOf(world) /\ pushes = world.pushes
    BY DEF SearchInit
  <1>2. /\ set \in [own: Setting, host: HostSetting, choices: SUBSET Setting] /\ set.own \in set.choices
    BY <1>1, WorldsAssumption DEF SettingsOf
  <1>3. RowTypes /\ list \in Seq(Tags)
    BY <1>1, <1>2, WorldsAssumption DEF RowTypes, SearchInit, NoOffer, Offer
  <1> QED
    BY <1>2, <1>3, SearchParts DEF SearchInit, NoOffer, Calls, CallsInv, OfferIsForward

(***************************************************************************)
(* What was listed was gone through, and what stood all the while was listed.  *)
(***************************************************************************)
LEMMA AnswersAreNewest == SearchInv => OfferIsNewest
  <1> SUFFICES ASSUME SearchInv, NEW s \in Searches, Answered(s), ~search[s].broken, ~ByDigest(search[s].cur),
                      NEW t \in Range(list) \ search[s].moved, Passes(t, search[s].cur, search[s].by)
               PROVE  ~Newer(t, search[s].best)
    BY DEF OfferIsNewest
  <1>1. search[s] \in Search /\ CallInv(search[s]) /\ search[s].pc = "answered"
    BY SearchParts, CallOfStep DEF Answered
  <1>2. t \in Range(search[s].got)
    BY <1>1 DEF CallInv, PagesRead
  <1>3. PICK k \in DOMAIN search[s].got : t = search[s].got[k]
    BY <1>2 DEF Range
  <1>4. k \in 1 .. Len(search[s].got)
    BY <1>1, <1>3, LenProperties DEF Search
  <1> QED
    BY <1>1, <1>3, <1>4 DEF CallInv, Scanned

------------------------------------------------------------------------------
(***************************************************************************)
(* auto, minor and patch stay on the line of the tag they start from.         *)
(***************************************************************************)
LEMMA CautiousChecks ==
    ASSUME Cautious, set.own \in set.choices, NEW by \in CheckedBy
    PROVE  by.strategy \in {"auto", "minor", "patch"}
  <1>1. CASE by = Resolved(set.own, set.host)
    BY <1>1 DEF Cautious
  <1>2. ASSUME NEW choice \in set.choices, choice.strategy # None,
               by = Resolved([strategy |-> choice.strategy, pattern |-> set.own.pattern], set.host)
        PROVE  by.strategy \in {"auto", "minor", "patch"}
    <2>1. by.strategy = Resolved(choice, set.host).strategy
      BY <1>2 DEF Resolved
    <2> QED
      BY <2>1 DEF Cautious
  <1> QED
    BY <1>1, <1>2 DEF CheckedBy

LEMMA BetterOnLine ==
    ASSUME NEW call \in Search, CallOnLine(call), NEW t \in Tags, Better(t, call)
    PROVE  OnLine(t)
  <1>1. call.best \in Tags /\ call.cur \in Tags
    BY DEF Search
  <1>2. Effective(call.by, call.cur) \in {"minor", "patch"}
    BY DEF CallOnLine, OnLine, Effective
  <1>3. Major(t) = Major(call.cur) /\ t.suffix = call.cur.suffix
    BY <1>2 DEF Better, Passes
  <1>4. Newer(t, call.best) /\ Major(t) = Major(call.best)
    BY <1>3 DEF Better, CallOnLine, OnLine
  <1>5. Len(Release(t)) >= 2
    BY <1>1, <1>4, NewerInMajor
  <1> QED
    BY <1>3, <1>5 DEF CallOnLine, OnLine

(***************************************************************************)
(* A call stays on the line.                                               *)
(***************************************************************************)
LEMMA CallStaysOnLine ==
    ASSUME SearchInv, Cautious, AllOnLine, NEW s \in Searches, SearchStep(s), search'[s] # None
    PROVE  CallOnLine(search'[s])
  <1>1. DOMAIN search = Searches
    BY SearchParts DEF Calls
  <1>2. CASE Start(s)
    <2>1. PICK by \in CheckedBy :
            search'[s] = [pc |-> IF hub /\ ~ByDigest(tag) THEN "listing" ELSE "token",
                          cur |-> tag, by |-> by, latest |-> offer.latest, has |-> offer.has, got |-> <<>>, at |-> 1, best |-> tag,
                          moved |-> {}, broken |-> FALSE]
      BY <1>1, <1>2 DEF Start, Becomes
    <2>2. by.strategy \in {"auto", "minor", "patch"}
      BY SearchParts, CautiousChecks
    <2>3. search'[s].by = by /\ search'[s].cur = tag /\ search'[s].best = tag
      BY <2>1
    <2> QED
      BY <2>2, <2>3 DEF CallOnLine, AllOnLine
  <1>3. CASE search[s] # None
    <2>1. search[s] \in Search /\ CallInv(search[s]) /\ CallOnLine(search[s])
      BY <1>3, SearchParts, CallOfStep DEF AllOnLine
    <2>2. ASSUME search'[s].by = search[s].by, search'[s].cur = search[s].cur, search'[s].best = search[s].best
          PROVE  CallOnLine(search'[s])
      BY <2>1, <2>2 DEF CallOnLine
    <2>3. CASE GetToken(s) \/ GetDigest(s)
      <3>1. \E pc : search'[s] = [search[s] EXCEPT !.pc = pc]
        BY <1>1, <2>3, SearchStep(s), search'[s] # None DEF GetToken, GetDigest, Becomes
      <3> QED
        BY <2>1, <2>2, <3>1 DEF Search
    <2>4. CASE FetchPage(s)
      <3>1. \/ \E got, at : search'[s] = [search[s] EXCEPT !.got = got, !.at = at]
            \/ \E got, at : search'[s] = Listed([search[s] EXCEPT !.got = got, !.at = at])
            \/ search'[s] = Listed([search[s] EXCEPT !.broken = TRUE])
        BY <1>1, <2>4 DEF FetchPage, Becomes
      <3>2. CASE \E got, at : search'[s] = [search[s] EXCEPT !.got = got, !.at = at]
        BY <2>1, <2>2, <3>2 DEF Search
      <3>3. CASE \E got, at : search'[s] = Listed([search[s] EXCEPT !.got = got, !.at = at])
        BY <2>1, <2>2, <3>3 DEF Search, Listed
      <3>4. CASE search'[s] = Listed([search[s] EXCEPT !.broken = TRUE])
        BY <2>1, <2>2, <3>4 DEF Search, Listed
      <3> QED
        BY <3>1, <3>2, <3>3, <3>4
    <2>5. CASE Scan(s)
      <3> DEFINE call == search[s]
                 t == call.got[call.at]
      <3>1. CASE call.at <= Len(call.got)
        <4>1. t \in Tags
          BY <2>1, <3>1, ElementOfSeq DEF Search, CallInv
        <4>2. \E at, best : /\ search'[s] = [call EXCEPT !.at = at, !.best = best]
                            /\ best = call.best \/ (best = t /\ Better(t, call))
          BY <1>1, <2>5, <3>1 DEF Scan, Becomes
        <4>3. PICK at, best : /\ search'[s] = [call EXCEPT !.at = at, !.best = best]
                              /\ best = call.best \/ (best = t /\ Better(t, call))
          BY <4>2
        <4>4. OnLine(best)
          BY <2>1, <4>1, <4>3, BetterOnLine DEF CallOnLine
        <4>5. search'[s].by = call.by /\ search'[s].cur = call.cur /\ search'[s].best = best
          BY <2>1, <4>3 DEF Search
        <4> QED
          BY <2>1, <4>4, <4>5 DEF CallOnLine
      <3>2. CASE ~(call.at <= Len(call.got))
        <4>1. search'[s] = [call EXCEPT !.pc = "answered"]
          BY <1>1, <2>5, <3>2, search'[s] # None DEF Scan, Becomes
        <4> QED
          BY <2>1, <2>2, <4>1 DEF Search
      <3> QED
        BY <3>1, <3>2
    <2>6. ~StoreAnswer(s) /\ ~Start(s)
      BY <1>1, <1>3 DEF StoreAnswer, Start, Becomes
    <2> QED
      BY <2>3, <2>4, <2>5, <2>6 DEF SearchStep
  <1> QED
    BY <1>2, <1>3 DEF SearchStep, GetToken, GetDigest, FetchPage, Scan, StoreAnswer

(***************************************************************************)
(* The steps of Next leave the line and the choices alone.                   *)
(***************************************************************************)
LEMMA SameLine ==
    ASSUME plan' = plan, set'.choices = set.choices, set'.host = set.host, AllOnLine => AllOnLine', LineInv
    PROVE  LineInv'
  BY DEF LineInv, Cautious

LEMMA LineSearch ==
    ASSUME SearchInv, LineInv, SearchNext, UNCHANGED recreateVars
    PROVE  LineInv'
  <1>1. set'.choices = set.choices /\ set'.host = set.host /\ plan' = plan
    BY SearchNextKeeps DEF recreateVars
  <1> SUFFICES ASSUME Cautious, AllOnLine PROVE AllOnLine'
    BY <1>1 DEF LineInv, Cautious
  <1>2. /\ OnLine(tag)' /\ (runtime[It] # NoOne => OnLine(runtime[It].image))'
        /\ (\A u \in Updates : Called(u) /\ Target(u) = It => OnLine(upd[u].image))'
    <2>1. tag' = tag
      BY DEF SearchNext, Push, Delete, SetStrategy, SearchStep, Start, GetToken, GetDigest,
             FetchPage, Scan, StoreAnswer
    <2> QED
      BY <2>1 DEF AllOnLine, OnLine, recreateVars, Called, Target
  <1>3. CASE \E s \in Searches : SearchStep(s)
    <2>1. PICK s \in Searches : SearchStep(s)
      BY <1>3
    <2>2. \A r \in Searches : r # s => search'[r] = search[r]
      BY <2>1, SearchParts DEF SearchStep, Start, GetToken, GetDigest, FetchPage, Scan, StoreAnswer, Becomes, Calls
    <2>3. \A r \in Searches : search'[r] # None => CallOnLine(search'[r])
      BY <2>1, <2>2, CallStaysOnLine DEF AllOnLine
    <2>4. offer'.latest = offer.latest \/ (search[s] # None /\ offer'.latest = search[s].best)
      BY <2>1 DEF SearchStep, Stored, Start, GetToken, GetDigest, FetchPage, Scan, StoreAnswer
    <2>5. (offer.latest # None => OnLine(offer.latest))'
      BY <1>1, <2>4 DEF AllOnLine, CallOnLine, OnLine
    <2>6. (\A r \in Searches : search[r] # None => CallOnLine(search[r]))'
      BY <1>1, <2>3 DEF CallOnLine, OnLine
    <2> QED
      BY <1>2, <2>5, <2>6 DEF AllOnLine
  <1>4. CASE \E t \in Tags : Push(t) \/ Delete(t)
    <2>1. PICK tags : Disturbs(tags)
      BY <1>4 DEF Push, Delete
    <2>2. \A s \in Searches : search'[s] # None =>
              search[s] # None /\ search'[s].by = search[s].by /\ search'[s].cur = search[s].cur
              /\ search'[s].best = search[s].best
      <3> SUFFICES ASSUME NEW s \in Searches, search'[s] # None
                   PROVE  search[s] # None /\ search'[s].by = search[s].by /\ search'[s].cur = search[s].cur
                          /\ search'[s].best = search[s].best
        OBVIOUS
      <3>1. search[s] # None /\ search'[s] = [search[s] EXCEPT !.moved = search[s].moved \cup tags]
        BY <2>1 DEF Disturbs
      <3>2. search[s] \in Search
        BY <3>1, SearchParts DEF Calls
      <3> QED
        BY <3>1, <3>2 DEF Search
    <2>3. (\A s \in Searches : search[s] # None => CallOnLine(search[s]))'
      BY <1>1, <2>2 DEF AllOnLine, CallOnLine, OnLine
    <2>4. (offer.latest # None => OnLine(offer.latest))'
      BY <1>1, <1>4 DEF AllOnLine, OnLine, Push, Delete
    <2> QED
      BY <1>2, <2>3, <2>4 DEF AllOnLine
  <1>5. CASE \E own \in set.choices : SetStrategy(own)
    BY <1>1, <1>2, <1>5 DEF SetStrategy, AllOnLine, CallOnLine, OnLine
  <1> QED
    BY <1>3, <1>4, <1>5 DEF SearchNext

LEMMA LineApply ==
    ASSUME RecreateInv, LineInv, NEW u \in Updates, Apply(u)
    PROVE  LineInv'
  <1>1. plan' = plan /\ runtime' = runtime /\ UNCHANGED searchVars
    BY DEF Apply, Begin
  <1>2. /\ \A v \in Updates : v # u => upd'[v] = upd[v]
        /\ Target(u) = It => upd'[u].image = Offered
    BY TypesSplit DEF RecreateInv, Apply, Begin, Goes, CallTypes
  <1>3. AllOnLine => AllOnLine'
    BY <1>1, <1>2 DEF AllOnLine, CallOnLine, OnLine, Called, Target, Offered, searchVars
  <1> QED
    BY <1>1, <1>3, SameLine DEF searchVars

LEMMA LineWork ==
    ASSUME RecreateInv, LineInv, NEW u \in Updates, WorkStep(u), UNCHANGED searchVars
    PROVE  LineInv'
  <1>1. /\ \A v \in Updates : v # u => upd'[v] = upd[v]
        /\ plan' = plan /\ upd'[u].image = upd[u].image /\ Called(u) /\ RuntimeTypes
    BY WorkSpares, TypesSplit DEF RecreateInv
  <1>2. runtime'[It] # NoOne =>
            \/ runtime[It] # NoOne /\ runtime'[It].image = runtime[It].image
            \/ Target(u) = It /\ runtime'[It].image = upd[u].image
    <2>1. ASSUME NEW id, NEW on \in BOOLEAN, SetRunning(id, on), runtime'[It] # NoOne
          PROVE  runtime[It] # NoOne /\ runtime'[It].image = runtime[It].image
      BY <1>1, <2>1, SetRunningDoes, UpgradeAssumption
    <2>2. CASE RemoveOld(u) \/ Create(u)
      BY <2>2, RemoveDoes, CreateDoes, UpgradeAssumption DEF RecreateInv
    <2>3. CASE Look(u) \/ ListProject(u) \/ Pull(u) \/ Reload(u) \/ UpdateFails(u)
      BY <2>3 DEF Look, ListProject, Pull, Reload, UpdateFails
    <2>4. CASE StopNext(u) \/ Halt(u) \/ RestartNext(u) \/ StartNew(u)
      BY <2>1, <2>4 DEF StopNext, Halt, RestartNext, StartNew
    <2> QED
      BY <2>2, <2>3, <2>4 DEF WorkStep
  <1>3. AllOnLine => AllOnLine'
    BY <1>1, <1>2 DEF AllOnLine, CallOnLine, OnLine, Called, Target, searchVars
  <1> QED
    BY <1>1, <1>3, SameLine DEF searchVars

(***************************************************************************)
(* The row takes the tag of the container that runs, and loses has_update.     *)
(***************************************************************************)
Lowers ==
    /\ offer' \in Offer /\ offer'.latest = offer.latest /\ offer'.from = offer.from
    /\ offer'.mixed = offer.mixed /\ (offer'.has => offer.has)

LEMMA RowLowers ==
    ASSUME SearchInv, NEW image, NEW has \in {offer.has, FALSE}, Row(image, has)
    PROVE  Lowers
  <1>1. offer \in Offer /\ offer' = [offer EXCEPT !.has = has]
    BY SearchParts DEF Row, RowTypes
  <1> QED
    BY <1>1 DEF Lowers, Offer

LEMMA LineRow ==
    ASSUME LineInv, plan' = plan, runtime' = runtime, UNCHANGED <<hub, set, list, pushes, search>>,
           tag' = tag \/ (runtime[It] # NoOne /\ tag' = runtime[It].image),
           offer'.latest = offer.latest,
           \A u \in Updates : Called(u)' => Called(u) /\ upd'[u].image = upd[u].image
    PROVE  LineInv'
  <1>1. AllOnLine => AllOnLine'
    BY DEF AllOnLine, CallOnLine, OnLine, Target
  <1> QED
    BY <1>1, SameLine

LEMMA SucceedDoes ==
    ASSUME SearchInv, NEW u \in Updates, Succeed(u)
    PROVE  /\ UNCHANGED <<hub, set, list, pushes, search>> /\ Lowers
           /\ tag' = tag \/ (runtime[It] # NoOne /\ tag' = runtime[It].image)
  <1>1. CASE Target(u) = It
    <2>1. PICK image \in {tag} \cup (IF known' = known THEN {} ELSE {runtime[It].image}) : Row(image, FALSE)
      BY <1>1 DEF Succeed
    <2>2. Lowers
      BY <2>1, RowLowers
    <2>3. known' # known => runtime[It] # NoOne
      BY <1>1 DEF Succeed, Report, Relisted
    <2> QED
      BY <2>1, <2>2, <2>3 DEF Row
  <1>2. CASE Target(u) # It
    BY <1>2, SearchParts DEF Succeed, searchVars, Lowers, RowTypes
  <1> QED
    BY <1>1, <1>2

LEMMA LineSucceed ==
    ASSUME SearchInv, RecreateInv, LineInv, NEW u \in Updates, Succeed(u)
    PROVE  LineInv'
  <1>1. plan' = plan /\ runtime' = runtime /\ Report(u)
    BY DEF Succeed, Report
  <1>2. \A v \in Updates : Called(v)' => Called(v) /\ upd'[v].image = upd[v].image
    <2>1. upd[u] \in Call(Target(u)) /\ Called(u) /\ DOMAIN upd = Updates
      BY <1>1, PastNew, TypesSplit DEF RecreateInv, Report, CallTypes
    <2>2. upd' = [upd EXCEPT ![u] = [upd[u] EXCEPT !.pc = "told"]]
      BY <1>1 DEF Report, Goes
    <2> QED
      BY <2>1, <2>2 DEF Called, Call
  <1> QED
    BY <1>1, <1>2, SucceedDoes, LineRow DEF Lowers

------------------------------------------------------------------------------
(***************************************************************************)
(* The inductive invariant of the whole.                                   *)
(***************************************************************************)
LEMMA RowKeeps ==
    ASSUME SearchInv, UNCHANGED <<hub, set, list, pushes, search>>, tag' \in Tags, Lowers
    PROVE  SearchInv'
  <1>1. Calls' /\ CallsInv' /\ OfferIsForward' /\ list' \in Seq(Tags) /\ (set.own \in set.choices)'
    BY SearchParts DEF Calls, CallsInv, CallInv, BestIsForward, Scanned, PagesRead, OfferIsForward, Lowers
  <1> QED
    BY <1>1, SearchParts DEF RowTypes, Lowers

LEMMA SearchSame == SearchInv /\ UNCHANGED searchVars => SearchInv' /\ Lowers
  <1> SUFFICES ASSUME SearchInv, UNCHANGED searchVars PROVE SearchInv' /\ Lowers
    OBVIOUS
  <1>1. Lowers /\ tag' \in Tags
    BY SearchParts DEF searchVars, RowTypes, Lowers
  <1> QED
    BY <1>1, RowKeeps DEF searchVars

LEMMA RunningTag ==
    ASSUME RecreateInv, runtime[It] # NoOne PROVE runtime[It].image \in Tags
  BY UpgradeAssumption, TypesSplit DEF RecreateInv, RuntimeTypes, Container

LEMMA UpgradeInvInit == Init => UpgradeInv
  <1> SUFFICES ASSUME Init PROVE UpgradeInv
    OBVIOUS
  <1>1. SearchInv /\ RecreateInv
    BY SearchInvInit, RecreateInvInit DEF Init
  <1>2. tag = plan.image
    BY StartsAssumption DEF Init
  <1>3. /\ offer.latest = None /\ \A s \in Searches : search[s] = None
        /\ runtime[It].image = plan.image /\ \A u \in Updates : ~Called(u)
    BY UpgradeAssumption DEF Init, SearchInit, NoOffer, RecreateInit, Called
  <1>4. LineInv
    BY <1>2, <1>3 DEF LineInv, AllOnLine, OnLine
  <1> QED
    BY <1>1, <1>4 DEF UpgradeInv

LEMMA UpgradeInvNext ==
    ASSUME UpgradeInv, [Next]_vars
    PROVE  UpgradeInv'
  <1>1. SearchInv /\ RecreateInv /\ LineInv
    BY DEF UpgradeInv
  <1>2. CASE SearchNext /\ UNCHANGED recreateVars
    BY <1>1, <1>2, SearchNextKeeps, RecreateInvSame, LineSearch DEF UpgradeInv
  <1>3. ASSUME NEW u \in Updates, Apply(u) PROVE UpgradeInv'
    <2>1. RecreateInv'
      <3>1. \E image \in Images : Begin(u, image)
        <4>1. plan.image \in Images
          BY <1>1, PlansAssumption, TypesSplit DEF RecreateInv, OtherTypes
        <4>2. Offered \in Images
          BY <1>1, SearchParts, UpgradeAssumption DEF RowTypes, Offer, Offered
        <4> QED
          BY <1>3, <4>1, <4>2 DEF Apply
      <3> QED
        BY <1>1, <3>1, RecreateInvCalm
    <2>2. SearchInv'
      BY <1>1, <1>3, SearchSame DEF Apply
    <2> QED
      BY <1>1, <1>3, <2>1, <2>2, LineApply DEF UpgradeInv
  <1>4. ASSUME NEW u \in Updates, Succeed(u) PROVE UpgradeInv'
    <2>1. RecreateInv'
      BY <1>1, <1>4, RecreateInvCalm DEF Succeed
    <2>3. SearchInv'
      BY <1>1, <1>4, SucceedDoes, RowKeeps, RunningTag, SearchParts DEF RowTypes
    <2> QED
      BY <1>1, <1>4, <2>1, <2>3, LineSucceed DEF UpgradeInv
  <1>5. ASSUME NEW u \in Updates, WorkStep(u), UNCHANGED searchVars PROVE UpgradeInv'
    <2>1. SearchInv'
      BY <1>1, <1>5, SearchSame
    <2> QED
      BY <1>1, <1>5, <2>1, RecreateInvWork, LineWork DEF UpgradeInv
  <1>6. CASE Sync
    <2>1. RecreateInv'
      BY <1>1, <1>6, RecreateInvSync DEF Sync
    <2>2. /\ UNCHANGED <<hub, set, list, pushes, search>> /\ Lowers
          /\ tag' = tag \/ (runtime[It] # NoOne /\ tag' = runtime[It].image)
          /\ plan' = plan /\ runtime' = runtime /\ upd' = upd
      BY <1>1, <1>6, RowLowers DEF Sync, Row, SyncIds
    <2>3. SearchInv'
      BY <1>1, <2>2, RowKeeps, RunningTag, SearchParts DEF RowTypes
    <2>4. LineInv'
      BY <1>1, <2>2, LineRow DEF Called, Lowers
    <2> QED
      BY <2>1, <2>3, <2>4 DEF UpgradeInv
  <1>7. CASE UNCHANGED vars
    <2>1. UNCHANGED recreateVars /\ UNCHANGED <<hub, tag, set, offer, list, pushes, search>>
      BY <1>7 DEF vars, searchVars
    <2>2. SearchInv'
      BY <1>1, <2>1, SearchSame DEF searchVars
    <2>3. LineInv'
      BY <1>1, <2>1, LineRow DEF Called, recreateVars
    <2> QED
      BY <1>1, <2>1, <2>2, <2>3, RecreateInvSame DEF UpgradeInv
  <1> QED
    BY <1>2, <1>3, <1>4, <1>5, <1>6, <1>7 DEF Next

LEMMA UpgradeInvHolds == Spec => []UpgradeInv
  <1>1. UpgradeInv /\ [Next]_vars => UpgradeInv'
    BY UpgradeInvNext
  <1> QED
    BY <1>1, UpgradeInvInit, PTL DEF Spec

------------------------------------------------------------------------------
(***************************************************************************)
(* Type correctness.                                                       *)
(***************************************************************************)
THEOREM TypeCorrect == Spec => []TypeOK
  <1>1. UpgradeInv => TypeOK
    BY DEF UpgradeInv, SearchInv, RecreateInv, TypeOK
  <1> QED
    BY <1>1, UpgradeInvHolds, PTL

(***************************************************************************)
(* The newest tag is offered, of any list, with any page size, however the     *)
(* repository changes while it is read (find_latest_version).                *)
(***************************************************************************)
THEOREM NewestIsOffered == Spec => []OfferIsNewest
  <1>1. UpgradeInv => OfferIsNewest
    BY AnswersAreNewest DEF UpgradeInv
  <1> QED
    BY <1>1, UpgradeInvHolds, PTL

(***************************************************************************)
(* However many checks overlap and store their columns over each other's, and    *)
(* whichever part of a list they read, the stored latest_tag leads nowhere      *)
(* backwards or off the suffix, and the last check that found what it had       *)
(* loaded leaves has_update true of it (find_latest_version, check_container). *)
(***************************************************************************)
THEOREM OffersLeadForward == Spec => []OfferIsForward
  <1>1. UpgradeInv => OfferIsForward
    BY DEF UpgradeInv, SearchInv
  <1> QED
    BY <1>1, UpgradeInvHolds, PTL

(***************************************************************************)
(* A container that ran and runs no longer was told of as failed, for any      *)
(* projects and any number of updates that overlap (pull_and_recreate).      *)
(***************************************************************************)
THEOREM LossesAreTold == Spec => []LossIsTold
  <1>1. UpgradeInv => LossIsTold
    BY RestIsSound DEF UpgradeInv, RecreateInv
  <1> QED
    BY <1>1, UpgradeInvHolds, PTL

(***************************************************************************)
(* A container is missing only where an update stands or stopped between its   *)
(* removal and its creation (pull_and_recreate).                             *)
(***************************************************************************)
THEOREM OnlyCreateMisses == Spec => []MissingOnlyAtCreate
  <1>1. UpgradeInv => MissingOnlyAtCreate
    BY DEF UpgradeInv, RecreateInv
  <1> QED
    BY <1>1, UpgradeInvHolds, PTL

(***************************************************************************)
(* Of the updates that began with one container one succeeds, at most          *)
(* (pull_and_recreate).                                                     *)
(***************************************************************************)
THEOREM OneReplaces == Spec => []ReplacedOnce
  <1>1. UpgradeInv => ReplacedOnce
    BY RemovedOnceReplacesOnce DEF UpgradeInv, RecreateInv
  <1> QED
    BY <1>1, UpgradeInvHolds, PTL

(***************************************************************************)
(* Binds and volumes of different sources outlive any number of updates        *)
(* (pull_and_recreate).                                                     *)
(***************************************************************************)
THEOREM MountsOutliveUpdates == Spec => []MountsKept
  <1>1. UpgradeInv => MountsKept
    BY DEF UpgradeInv, RecreateInv
  <1> QED
    BY <1>1, UpgradeInvHolds, PTL

(***************************************************************************)
(* auto, minor and patch never leave the major version and the suffix that     *)
(* the container started with, through any searches and updates               *)
(* (_passes_strategy_filter, update_container_image).                       *)
(***************************************************************************)
THEOREM LineIsKept == Spec => []LineKept
  <1>1. UpgradeInv => LineKept
    BY DEF UpgradeInv, LineInv, LineKept, AllOnLine, OnLine
  <1> QED
    BY <1>1, UpgradeInvHolds, PTL

==============================================================================
