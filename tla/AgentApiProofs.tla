--------------------------- MODULE AgentApiProofs ---------------------------
(***************************************************************************)
(* Theorems about the agent API, for any number of hosts, agents, workers,      *)
(* users, containers and WebSockets.                                         *)
(***************************************************************************)
EXTENDS AgentApi, TLAPS

------------------------------------------------------------------------------
(***************************************************************************)
(* Credentials.  A request that found no secret in the host it loaded finds      *)
(* none when it commits, or one that was made after it loaded.               *)
(***************************************************************************)
ReadStands(r) ==
    \/ r = Idle
    \/ /\ r.of \in Hosts /\ r.asOf \in 0 .. made
       /\ r.secret = None /\ host[r.of].secret # None => host[r.of].secret[2] > r.asOf

HostInv == HostTypeOK /\ (\A a \in Agents : ReadStands(reg[a])) /\ (\A g \in Admins : ReadStands(gen[g]))

LEMMA HostInvInit == HostInit => HostInv
  <1> SUFFICES ASSUME HostInit PROVE HostInv
    OBVIOUS
  <1>1. PICK fresh \in SUBSET (Hosts \cap load) :
          /\ host = [h \in Hosts |-> [token |-> <<h, 0>>, live |-> TRUE,
                                     secret |-> IF h \in fresh THEN None ELSE <<h, 0>>]]
          /\ cred = [a \in Agents |-> [token |-> <<HomeOf[a], 0>>,
                                       secret |-> IF HomeOf[a] \in fresh THEN None ELSE <<HomeOf[a], 0>>]]
    BY DEF HostInit
  <1>2. \A h \in Hosts : <<h, 0>> \in Value
    BY MaxMadeAssumption DEF Value
  <1>3. host \in [Hosts -> Row] /\ cred \in [Agents -> [token: Value, secret: Value \cup {None}]]
    BY <1>1, <1>2, HomeAssumption DEF Row
  <1>4. Idle \in Request /\ 0 \in 0 .. MaxMade
    BY MaxMadeAssumption DEF Idle, Request
  <1> QED
    BY <1>3, <1>4 DEF HostInit, HostInv, HostTypeOK, ReadStands

LEMMA FreshValue ==
    ASSUME HostTypeOK, made < MaxMade, NEW h \in Hosts
    PROVE  /\ Fresh(h) \in Value /\ Fresh(h)[2] = made + 1 /\ made + 1 \in 0 .. MaxMade
           /\ made \in 0 .. made + 1 /\ Fresh(h) # None
  BY MaxMadeAssumption, NoneIsNoValue DEF HostTypeOK, Fresh, Value

LEMMA LoadedStands ==
    ASSUME HostTypeOK, NEW h \in Hosts
    PROVE  Loaded(h) \in Request /\ ReadStands(Loaded(h))
  BY MaxMadeAssumption DEF HostTypeOK, Loaded, Request, Row, ReadStands

(***************************************************************************)
(* What a request read stands whatever is committed, if a secret that appears    *)
(* is a fresh one.                                                          *)
(***************************************************************************)
LEMMA ReadKept ==
    ASSUME HostTypeOK, NEW r, ReadStands(r), made' \in Nat, made <= made',
           \A h \in Hosts : \/ host'[h].secret \in {None, host[h].secret}
                           \/ host'[h].secret[2] = made + 1
    PROVE  ReadStands(r)'
  <1>1. CASE r = Idle
    BY <1>1 DEF ReadStands
  <1>2. CASE r # Idle
    <2>1. r.of \in Hosts /\ r.asOf \in 0 .. made /\ made \in Nat /\ made' \in Nat
      BY <1>2, MaxMadeAssumption DEF HostTypeOK, ReadStands
    <2>2. ASSUME r.secret = None, host'[r.of].secret # None PROVE host'[r.of].secret[2] > r.asOf
      <3>1. CASE host'[r.of].secret = host[r.of].secret
        BY <1>2, <2>2, <3>1 DEF ReadStands
      <3>2. CASE host'[r.of].secret[2] = made + 1
        BY <2>1, <3>2
      <3> QED
        BY <2>1, <2>2, <3>1, <3>2
    <2> QED
      BY <2>1, <2>2 DEF ReadStands
  <1> QED
    BY <1>1, <1>2

LEMMA IdleRead == Idle \in Request /\ ReadStands(Idle) /\ ReadStands(Idle)'
  BY MaxMadeAssumption DEF Idle, Request, ReadStands

LEMMA HostInvStep == HostInv /\ HostNext => HostInv'
  <1> SUFFICES ASSUME HostInv, HostNext PROVE HostInv'
    OBVIOUS
  <1> USE DEF HostInv
  <1>0. /\ made \in Nat /\ HostTypeOK
        /\ \A a \in Agents : reg[a] # Idle => reg[a].of \in Hosts /\ reg[a].secret \in Value \cup {None}
        /\ \A g \in Admins : gen[g] # Idle => gen[g].of \in Hosts
    BY MaxMadeAssumption DEF HostTypeOK, ReadStands, Request
  <1>1. ASSUME NEW h \in Hosts, Expire(h) PROVE HostInv'
    <2>1. host' \in [Hosts -> Row] /\ \A k \in Hosts : host'[k].secret = host[k].secret
      BY <1>1 DEF Expire, HostTypeOK, Row
    <2> QED
      BY <1>0, <1>1, <2>1, ReadKept DEF Expire, HostTypeOK
  <1>2. ASSUME NEW a \in Agents, NEW h \in Hosts, GiveToken(a, h) PROVE HostInv'
    <2>1. host[h].token \in Value
      BY DEF HostTypeOK, Row
    <2>2. cred' \in [Agents -> [token: Value, secret: Value \cup {None}]]
      BY <1>2, <2>1 DEF GiveToken, HostTypeOK
    <2> QED
      BY <1>0, <1>2, <2>2, ReadKept DEF GiveToken, HostTypeOK
  <1>3. ASSUME NEW a \in Agents, StartRegister(a) PROVE HostInv'
    <2>1. PICK h \in Hosts : reg' = [reg EXCEPT ![a] = Loaded(h)]
      BY <1>3 DEF StartRegister
    <2>2. reg' \in [Agents -> Request] /\ \A b \in Agents : reg'[b] = IF b = a THEN Loaded(h) ELSE reg[b]
      BY <2>1, LoadedStands DEF HostTypeOK
    <2>3. \A b \in Agents : ReadStands(reg'[b])
      BY <2>2, LoadedStands
    <2> QED
      BY <1>3, <2>2, <2>3 DEF StartRegister, HostTypeOK, ReadStands
  <1>4. ASSUME NEW a \in Agents, Register(a) PROVE HostInv'
    <2>1. /\ reg' \in [Agents -> Request] /\ \A b \in Agents : reg'[b] = IF b = a THEN Idle ELSE reg[b]
          /\ UNCHANGED <<load, gen>> /\ reg[a] # Idle /\ reg[a].of \in Hosts
      BY <1>0, <1>4, IdleRead DEF Register, NewSecret, Answered, HostTypeOK
    <2>2. CASE reg[a].secret # None
      <3>1. cred' \in [Agents -> [token: Value, secret: Value \cup {None}]] /\ UNCHANGED <<host, made>>
        BY <1>0, <1>4, <2>1, <2>2 DEF Register, Answered, HostTypeOK
      <3> QED
        BY <1>0, <2>1, <3>1, ReadKept, IdleRead DEF HostTypeOK
    <2>3. CASE reg[a].secret = None
      <3> DEFINE h == reg[a].of
      <3>1. made < MaxMade /\ made' = made + 1 /\ host' = [host EXCEPT ![h].secret = Fresh(h)] /\ Answered(a, Fresh(h))
        BY <1>4, <2>3 DEF Register, NewSecret
      <3>2. cred' \in [Agents -> [token: Value, secret: Value \cup {None}]]
        BY <1>0, <2>1, <3>1, FreshValue DEF Answered, HostTypeOK
      <3>3. /\ host' \in [Hosts -> Row]
            /\ \A k \in Hosts : host'[k].secret = IF k = h THEN Fresh(h) ELSE host[k].secret
        BY <1>0, <2>1, <3>1, FreshValue DEF HostTypeOK, Row
      <3>4. \A b \in Agents : ReadStands(reg[b])'
        BY <1>0, <2>1, <3>1, <3>3, FreshValue, ReadKept, IdleRead
      <3> QED
        BY <1>0, <2>1, <3>1, <3>2, <3>3, FreshValue, ReadKept, IdleRead DEF HostTypeOK
    <2> QED
      BY <2>2, <2>3
  <1>5. ASSUME NEW a \in Agents, RegisterFails(a) PROVE HostInv'
    BY <1>0, <1>5, ReadKept, IdleRead DEF RegisterFails, HostTypeOK
  <1>6. ASSUME NEW g \in Admins, NEW h \in Hosts, StartNewToken(g, h) PROVE HostInv'
    <2>1. gen' \in [Admins -> Request] /\ \A b \in Admins : gen'[b] = IF b = g THEN Loaded(h) ELSE gen[b]
      BY <1>6, LoadedStands DEF StartNewToken, HostTypeOK
    <2>2. \A b \in Admins : ReadStands(gen'[b])
      BY <2>1, LoadedStands
    <2> QED
      BY <1>6, <2>1, <2>2 DEF StartNewToken, HostTypeOK, ReadStands
  <1>7. ASSUME NEW g \in Admins, NewToken(g) PROVE HostInv'
    <2> DEFINE h == gen[g].of
    <2>1. /\ made < MaxMade /\ made' = made + 1 /\ h \in Hosts /\ UNCHANGED <<load, cred, reg>>
          /\ gen' \in [Admins -> Request] /\ \A b \in Admins : gen'[b] = IF b = g THEN Idle ELSE gen[b]
      BY <1>0, <1>7, IdleRead DEF NewToken, HostTypeOK
    <2>2. /\ host' \in [Hosts -> Row]
          /\ \A k \in Hosts : host'[k].secret \in {None, host[k].secret}
      BY <1>0, <1>7, <2>1, FreshValue DEF NewToken, HostTypeOK, Row
    <2>3. \A b \in Admins : ReadStands(gen[b])'
      BY <1>0, <2>1, <2>2, ReadKept, IdleRead
    <2> QED
      BY <1>0, <2>1, <2>2, <2>3, FreshValue, ReadKept DEF HostTypeOK
  <1>8. ASSUME NEW g \in Admins, NewTokenFails(g) PROVE HostInv'
    BY <1>0, <1>8, ReadKept, IdleRead DEF NewTokenFails, HostTypeOK
  <1> QED
    BY <1>1, <1>2, <1>3, <1>4, <1>5, <1>6, <1>7, <1>8 DEF HostNext

LEMMA RegisterKeepsSecret ==
    ASSUME HostInv, NEW a \in Agents, Register(a), host[reg[a].of].secret # None,
           host'[reg[a].of].secret # host[reg[a].of].secret
    PROVE  host[reg[a].of].secret[2] > reg[a].asOf
  BY DEF HostInv, ReadStands, Register

LEMMA NewTokenRevokes ==
    ASSUME HostInv, NEW g \in Admins, NewToken(g), host'[gen[g].of].secret # None
    PROVE  host'[gen[g].of].secret[2] > gen[g].asOf
  <1> DEFINE h == gen[g].of
  <1>1. ReadStands(gen[g]) /\ gen[g] # Idle /\ h \in Hosts
    BY DEF HostInv, ReadStands, NewToken
  <1>2. host'[h].secret = IF gen[g].secret = None THEN host[h].secret ELSE None
    BY <1>1 DEF NewToken, HostInv, HostTypeOK, Row
  <1> QED
    BY <1>1, <1>2 DEF ReadStands

------------------------------------------------------------------------------
(***************************************************************************)
(* Updates.  The queue that an update waits in is that of its request, which     *)
(* has queued it and is not new; a request about to be told is served.        *)
(***************************************************************************)
Asked(u) == ask[u].pc \in {"committing", "told", "refused"}

UpdatesPlaced ==
    \A w \in Workers, h \in Hosts : \A e \in Range(pending[w][h]) :
        Asked(e.by) /\ ask[e.by].w = w /\ HostOf[ask[e.by].c] = h

GoneAsked == \A u \in handed \cup forgotten : Asked(u)

RequestsServed ==
    \A u \in Users : ask[u].pc \in {"committing", "told"} =>
        ask[u].served # {} /\ ask[u].served \subseteq Waiting(ask[u].w) \cup handed \cup forgotten

QueueInv == QueueTypeOK /\ OneEntryEach /\ UpdatesPlaced /\ GoneAsked /\ RequestsServed

LEMMA RangeEmpty == Range(<<>>) = {}
  BY DEF Range

LEMMA RangeAppend ==
    ASSUME NEW S, NEW s \in Seq(S), NEW e
    PROVE  Range(Append(s, e)) = Range(s) \cup {e}
  <1> DEFINE t == Append(s, e)
  <1>1. /\ Len(s) \in Nat /\ DOMAIN s = 1 .. Len(s) /\ DOMAIN t = 1 .. Len(s) + 1
        /\ t[Len(s) + 1] = e /\ \A i \in 1 .. Len(s) : t[i] = s[i]
    OBVIOUS
  <1> HIDE DEF t
  <1>2. Range(t) \subseteq Range(s) \cup {e}
    <2> SUFFICES ASSUME NEW i \in 1 .. Len(s) + 1 PROVE t[i] \in Range(s) \cup {e}
      BY <1>1 DEF Range
    <2>1. i \in 1 .. Len(s) \/ i = Len(s) + 1
      BY <1>1
    <2> QED
      BY <1>1, <2>1 DEF Range
  <1>3. e \in Range(t)
    <2>1. Len(s) + 1 \in 1 .. Len(s) + 1
      BY <1>1
    <2> QED
      BY <1>1, <2>1 DEF Range
  <1>4. Range(s) \subseteq Range(t)
    <2> SUFFICES ASSUME NEW i \in 1 .. Len(s) PROVE s[i] \in Range(t)
      BY <1>1 DEF Range
    <2>1. i \in 1 .. Len(s) + 1 /\ t[i] = s[i]
      BY <1>1
    <2> QED
      BY <1>1, <2>1 DEF Range
  <1> QED
    BY <1>2, <1>3, <1>4 DEF t

LEMMA RangeIn ==
    ASSUME NEW S, NEW s \in Seq(S)
    PROVE  Range(s) \subseteq S
  BY DEF Range

LEMMA QueueInvInit == QueueInit => QueueInv
  <1> SUFFICES ASSUME QueueInit PROVE QueueInv
    OBVIOUS
  <1>1. \A w \in Workers, h \in Hosts : pending[w][h] = <<>>
    BY DEF QueueInit, NoUpdates
  <1>2. QueueTypeOK
    BY QueueAssumption DEF QueueInit, QueueTypeOK, NoUpdates, Releases, Known, Runtime
  <1>3. OneEntryEach /\ UpdatesPlaced
    BY <1>1, RangeEmpty DEF OneEntryEach, UpdatesPlaced
  <1>4. GoneAsked /\ RequestsServed
    BY DEF QueueInit, GoneAsked, RequestsServed, NotAsked
  <1> QED
    BY <1>2, <1>3, <1>4 DEF QueueInv

LEMMA PlacedUsers ==
    ASSUME QueueTypeOK, NEW w \in Workers, NEW h \in Hosts
    PROVE  pending[w][h] \in Seq(Update) /\ \A e \in Range(pending[w][h]) : e \in Update /\ e.by \in Users
  <1>1. pending[w][h] \in Seq(Update)
    BY DEF QueueTypeOK
  <1>2. Range(pending[w][h]) \subseteq Update
    BY <1>1, RangeIn
  <1> QED
    BY <1>1, <1>2 DEF Update

(***************************************************************************)
(* A request that has been made, and a sync, have their fields.               *)
(***************************************************************************)
LEMMA AskTypes ==
    ASSUME QueueTypeOK, NEW u \in Users, ask[u].pc # "new"
    PROVE  /\ ask[u] \in Ask /\ ask[u].w \in Workers /\ ask[u].c \in Containers /\ HostOf[ask[u].c] \in Hosts
           /\ ask[u].image \in Releases /\ ask[u].id \in Nat /\ ask[u].served \subseteq Users
           /\ Queue(u) \in Seq(Update)
  <1>1. ask[u] \in Ask
    BY DEF QueueTypeOK, NotAsked
  <1> QED
    BY <1>1, QueueAssumption DEF QueueTypeOK, Ask, Queue

LEMMA SyncTypes ==
    ASSUME QueueTypeOK, NEW a \in Agents, sync[a] # None
    PROVE  /\ sync[a] \in Sync /\ sync[a].w \in Workers /\ sync[a].of \in Hosts
           /\ Applied(a) \in [Containers -> Known]
           /\ pending[sync[a].w][sync[a].of] \in Seq(Update)
  <1>1. /\ sync[a] \in Sync /\ sync[a].w \in Workers /\ sync[a].of \in Hosts
        /\ sync[a].report \in [Containers -> Runtime] /\ sync[a].copy \in [Containers -> Known]
    BY DEF QueueTypeOK, Sync
  <1>2. ASSUME NEW k \in Known, NEW old \in Known, NEW now \in Runtime
        PROVE  Reported(k, old, now) \in Known
    BY <1>2 DEF Known, Runtime, Reported
  <1>3. Applied(a) \in [Containers -> Known]
    BY <1>1, <1>2 DEF QueueTypeOK, Applied
  <1> QED
    BY <1>1, <1>3 DEF QueueTypeOK

(***************************************************************************)
(* Steps that leave the queues alone.                                        *)
(***************************************************************************)
LEMMA QuietKeeps ==
    ASSUME QueueInv, QueueTypeOK', UNCHANGED <<pending, handed, forgotten>>,
           \A u \in Users : Asked(u) => Asked(u)' /\ ask'[u].w = ask[u].w /\ ask'[u].c = ask[u].c,
           \A u \in Users : ask'[u].pc \in {"committing", "told"} =>
               ask[u].pc \in {"committing", "told"} /\ ask'[u].served = ask[u].served /\ ask'[u].w = ask[u].w
    PROVE  QueueInv'
  <1>1. OneEntryEach'
    BY DEF QueueInv, OneEntryEach
  <1>2. \A w \in Workers, h \in Hosts : \A e \in Range(pending[w][h]) : e.by \in Users
    BY PlacedUsers DEF QueueInv
  <1>3. UpdatesPlaced'
    BY <1>2 DEF QueueInv, UpdatesPlaced
  <1>4. GoneAsked'
    BY DEF QueueInv, QueueTypeOK, GoneAsked
  <1>5. \A w : Waiting(w)' = Waiting(w)
    BY DEF Waiting
  <1>6. RequestsServed'
    BY <1>5 DEF QueueInv, RequestsServed
  <1> QED
    BY <1>1, <1>3, <1>4, <1>6 DEF QueueInv

LEMMA FoundKeeps ==
    ASSUME QueueInv, NEW c \in Containers, Found(c)
    PROVE  QueueInv'
  <1>1. row[c].latest \in Releases /\ row[c].latest + 1 \in Releases
    BY DEF QueueInv, QueueTypeOK, Known, Releases
  <1>2. QueueTypeOK'
    BY <1>1 DEF Found, QueueInv, QueueTypeOK, Known
  <1> QED
    BY <1>2, QuietKeeps DEF Found, Asked

LEMMA RecreatedKeeps ==
    ASSUME QueueInv, NEW c \in Containers, Recreated(c)
    PROVE  QueueInv'
  <1>1. runs[c].id + 1 \in Nat /\ runs[c].image \in Releases
    BY DEF QueueInv, QueueTypeOK, Runtime
  <1>2. [runs EXCEPT ![c].id = @ + 1] \in [Containers -> Runtime]
    BY <1>1 DEF QueueInv, QueueTypeOK, Runtime
  <1>3. QueueTypeOK'
    BY <1>2 DEF Recreated, QueueInv, QueueTypeOK
  <1> QED
    BY <1>3, QuietKeeps DEF Recreated, Asked

LEMMA StartUpdateKeeps ==
    ASSUME QueueInv, NEW u \in Users, StartUpdate(u)
    PROVE  QueueInv'
  <1>1. PICK c \in Containers, w \in Workers :
          ask' = [ask EXCEPT ![u] = [pc |-> "resolving", w |-> w, c |-> c, id |-> row[c].id, image |-> row[c].latest,
                                 served |-> {}]]
    BY DEF StartUpdate
  <1> DEFINE new == [pc |-> "resolving", w |-> w, c |-> c, id |-> row[c].id, image |-> row[c].latest,
                                 served |-> {}]
  <1>2. new \in Ask /\ new.pc = "resolving"
    BY DEF QueueInv, QueueTypeOK, Ask, Known
  <1>3. \A v \in Users : ask'[v] = IF v = u THEN new ELSE ask[v]
    BY <1>1 DEF QueueInv, QueueTypeOK
  <1> HIDE DEF new
  <1>4. QueueTypeOK'
    BY <1>1, <1>2 DEF StartUpdate, QueueInv, QueueTypeOK, new
  <1>5. ~Asked(u)
    BY DEF StartUpdate, Asked, NotAsked
  <1> QED
    BY <1>2, <1>3, <1>4, <1>5, QuietKeeps DEF StartUpdate, Asked

LEMMA EndUpdateKeeps ==
    ASSUME QueueInv, NEW u \in Users, CommitUpdate(u) \/ UpdateFails(u)
    PROVE  QueueInv'
  <1>1. PICK end \in {"told", "refused"} :
          /\ ask' = [ask EXCEPT ![u].pc = end] /\ ask[u].pc \in {"resolving", "committing"}
          /\ end = "told" => ask[u].pc = "committing"
          /\ UNCHANGED <<row, runs, pending, sync, todo, handed, forgotten>>
    BY DEF CommitUpdate, UpdateFails
  <1>2. ask[u] \in Ask
    BY <1>1, AskTypes DEF QueueInv
  <1> DEFINE new == [ask[u] EXCEPT !.pc = end]
  <1>3. new \in Ask /\ new.pc = end /\ new.w = ask[u].w /\ new.c = ask[u].c /\ new.served = ask[u].served
    BY <1>2 DEF Ask
  <1>4. \A v \in Users : ask'[v] = IF v = u THEN new ELSE ask[v]
    BY <1>1 DEF QueueInv, QueueTypeOK
  <1>5. QueueTypeOK'
    BY <1>1, <1>3 DEF QueueInv, QueueTypeOK
  <1> HIDE DEF new
  <1> QED
    BY <1>1, <1>3, <1>4, <1>5, QuietKeeps DEF Asked

LEMMA StartSyncKeeps ==
    ASSUME QueueInv, NEW a \in Agents, StartSync(a)
    PROVE  QueueInv'
  <1>1. PICK h \in Hosts, w \in Workers : sync' = [sync EXCEPT ![a] = [w |-> w, of |-> h, report |-> runs, copy |-> row]]
    BY DEF StartSync
  <1>2. [w |-> w, of |-> h, report |-> runs, copy |-> row] \in Sync
    BY DEF QueueInv, QueueTypeOK, Sync
  <1>3. QueueTypeOK'
    BY <1>1, <1>2 DEF StartSync, QueueInv, QueueTypeOK
  <1> QED
    BY <1>3, QuietKeeps DEF StartSync, Asked

LEMMA SyncFailsKeeps ==
    ASSUME QueueInv, NEW a \in Agents, SyncFails(a)
    PROVE  QueueInv'
  <1>1. row' \in [Containers -> Known]
    BY SyncTypes DEF SyncFails, QueueInv, QueueTypeOK
  <1>2. QueueTypeOK'
    BY <1>1 DEF SyncFails, QueueInv, QueueTypeOK
  <1> QED
    BY <1>2, QuietKeeps DEF SyncFails, Asked

LEMMA AgentAppliesKeeps ==
    ASSUME QueueInv, NEW a \in Agents, AgentApplies(a)
    PROVE  QueueInv'
  <1>1. todo[a] \in Seq(Update) /\ todo[a] # <<>>
    BY DEF AgentApplies, QueueInv, QueueTypeOK
  <1>2. Tail(todo[a]) \in Seq(Update) /\ Head(todo[a]) \in Update
    BY <1>1
  <1>3. Head(todo[a]).c \in Containers /\ Head(todo[a]).image \in Releases
    BY <1>2 DEF Update
  <1> DEFINE e == Head(todo[a])
             new == [image |-> e.image, id |-> runs[e.c].id + 1]
  <1>4. todo' \in [Agents -> Seq(Update)] /\ runs' \in [Containers -> Runtime]
    <2>1. new \in Runtime
      BY <1>3 DEF QueueInv, QueueTypeOK, Runtime
    <2>2. todo' = [todo EXCEPT ![a] = Tail(@)] /\ runs' \in {runs, [runs EXCEPT ![e.c] = new]}
      BY <1>3 DEF AgentApplies, QueueInv, QueueTypeOK
    <2> HIDE DEF new
    <2> QED
      BY <1>2, <1>3, <2>1, <2>2 DEF QueueInv, QueueTypeOK
  <1>5. QueueTypeOK'
    BY <1>4 DEF AgentApplies, QueueInv, QueueTypeOK
  <1> QED
    BY <1>5, QuietKeeps DEF AgentApplies, Asked

(***************************************************************************)
(* A request that finds the container in the queue is served by the one there   *)
(* is.                                                                     *)
(***************************************************************************)
LEMMA JoinQueueKeeps ==
    ASSUME QueueInv, NEW u \in Users, QueueUpdate(u), Queued(u) # {}
    PROVE  QueueInv' /\ UNCHANGED pending
  <1> DEFINE served == {e.by : e \in Queued(u)}
             new == [ask[u] EXCEPT !.pc = "committing", !.served = served]
  <1>1. /\ ask' = [ask EXCEPT ![u].pc = "committing", ![u].served = served]
        /\ UNCHANGED <<row, runs, pending, sync, todo, handed, forgotten>> /\ ask[u].pc = "resolving"
    BY DEF QueueUpdate
  <1>2. ask[u] \in Ask /\ ask[u].w \in Workers /\ HostOf[ask[u].c] \in Hosts
    BY <1>1, AskTypes DEF QueueInv
  <1>3. \A e \in Queued(u) : e \in Range(pending[ask[u].w][HostOf[ask[u].c]]) /\ e.by \in Users
    BY <1>2, PlacedUsers DEF QueueInv, Queued, Queue
  <1>4. served \subseteq Waiting(ask[u].w) /\ served # {} /\ served \subseteq Users
    BY <1>2, <1>3 DEF Waiting
  <1>5. new \in Ask /\ new.pc = "committing" /\ new.w = ask[u].w /\ new.c = ask[u].c /\ new.served = served
    BY <1>2, <1>4 DEF Ask
  <1>6. \A v \in Users : ask'[v] = IF v = u THEN new ELSE ask[v]
    BY <1>1 DEF QueueInv, QueueTypeOK
  <1>7. QueueTypeOK'
    BY <1>1, <1>5 DEF QueueInv, QueueTypeOK
  <1> HIDE DEF new, served
  <1>8. OneEntryEach'
    BY <1>1 DEF QueueInv, OneEntryEach
  <1>9. \A v \in Users : Asked(v) => ask'[v].pc \in {"committing", "told", "refused"} /\ ask'[v].w = ask[v].w /\ ask'[v].c = ask[v].c
    BY <1>5, <1>6 DEF Asked
  <1>10. UpdatesPlaced'
    <2>1. \A w \in Workers, h \in Hosts : \A e \in Range(pending[w][h]) : e.by \in Users
      BY PlacedUsers DEF QueueInv
    <2> SUFFICES ASSUME NEW w \in Workers, NEW h \in Hosts, NEW e \in Range(pending'[w][h])
                 PROVE  ask'[e.by].pc \in {"committing", "told", "refused"} /\ ask'[e.by].w = w
                        /\ HostOf[ask'[e.by].c] = h
      BY DEF UpdatesPlaced, Asked
    <2>2. e.by \in Users /\ Asked(e.by) /\ ask[e.by].w = w /\ HostOf[ask[e.by].c] = h
      BY <1>1, <2>1 DEF QueueInv, UpdatesPlaced
    <2> QED
      BY <1>9, <2>2
  <1>11. GoneAsked'
    BY <1>1, <1>9 DEF QueueInv, QueueTypeOK, GoneAsked, Asked
  <1>12. \A w : Waiting(w)' = Waiting(w)
    BY <1>1 DEF Waiting
  <1>13. RequestsServed'
    BY <1>1, <1>4, <1>5, <1>6, <1>12 DEF QueueInv, RequestsServed
  <1> QED
    BY <1>1, <1>7, <1>8, <1>10, <1>11, <1>13 DEF QueueInv

LEMMA EnqueueKeeps ==
    ASSUME QueueInv, NEW u \in Users, QueueUpdate(u), Queued(u) = {}
    PROVE  /\ QueueInv'
           /\ \A w \in Workers : Waiting(w)' = IF w = ask[u].w THEN Waiting(w) \cup {u} ELSE Waiting(w)
           /\ ask[u].w \in Workers /\ UNCHANGED <<handed, forgotten>>
           /\ u \notin handed \cup forgotten \cup UNION {Waiting(w) : w \in Workers}
  <1> DEFINE w == ask[u].w
             h == HostOf[ask[u].c]
             q == pending[w][h]
             e == [by |-> u, c |-> ask[u].c, id |-> ask[u].id, image |-> ask[u].image]
             new == [ask[u] EXCEPT !.pc = "committing", !.served = {u}]
  <1>1. /\ ask[u].pc = "resolving" /\ UNCHANGED <<row, runs, sync, todo, handed, forgotten>>
        /\ pending' = [pending EXCEPT ![w][h] = Append(@, e)]
        /\ ask' = [ask EXCEPT ![u].pc = "committing", ![u].served = {u}]
    BY DEF QueueUpdate, Enqueue
  <1>2. /\ ask[u] \in Ask /\ w \in Workers /\ h \in Hosts /\ q \in Seq(Update) /\ ask[u].c \in Containers
        /\ ask[u].image \in Releases /\ ask[u].id \in Nat
    BY <1>1, AskTypes DEF QueueInv, Queue
  <1>3. e \in Update /\ e.by = u /\ e.c = ask[u].c /\ e.id = ask[u].id
    BY <1>2 DEF Update
  <1>4. new \in Ask /\ new.pc = "committing" /\ new.w = w /\ new.c = ask[u].c /\ new.served = {u}
    BY <1>2 DEF Ask
  <1> HIDE DEF e, new
  <1>5. Append(q, e) \in Seq(Update)
    BY <1>2, <1>3
  <1>6. \A v \in Workers, k \in Hosts :
           pending'[v][k] = IF v = w /\ k = h THEN Append(q, e) ELSE pending[v][k]
    BY <1>1, <1>2 DEF QueueInv, QueueTypeOK
  <1>7. \A v \in Users : ask'[v] = IF v = u THEN new ELSE ask[v]
    BY <1>1 DEF QueueInv, QueueTypeOK, new
  <1>8. QueueTypeOK'
    <2>1. pending' \in [Workers -> [Hosts -> Seq(Update)]]
      BY <1>1, <1>2, <1>5 DEF QueueInv, QueueTypeOK
    <2>2. ask' \in [Users -> Ask \cup {NotAsked}]
      BY <1>1, <1>4 DEF QueueInv, QueueTypeOK, new
    <2> QED
      BY <1>1, <2>1, <2>2 DEF QueueInv, QueueTypeOK
  <1>9. \A v \in Workers, k \in Hosts : \A d : d \in Range(pending[v][k])' <=>
           d \in Range(pending[v][k]) \/ (d = e /\ v = w /\ k = h)
    <2>1. Range(Append(q, e)) = Range(q) \cup {e}
      BY <1>2, <1>3, RangeAppend
    <2> SUFFICES ASSUME NEW v \in Workers, NEW k \in Hosts, NEW d
                 PROVE  d \in Range(pending'[v][k]) <=> d \in Range(pending[v][k]) \/ (d = e /\ v = w /\ k = h)
      BY DEF Range
    <2>2. CASE v = w /\ k = h
      BY <1>6, <2>1, <2>2
    <2>3. CASE ~(v = w /\ k = h)
      BY <1>6, <2>3
    <2> QED
      BY <2>2, <2>3
  <1>10. OneEntryEach'
    <2> SUFFICES ASSUME NEW v \in Workers, NEW k \in Hosts,
                        NEW i \in 1 .. Len(pending'[v][k]), NEW j \in 1 .. Len(pending'[v][k]),
                        pending'[v][k][i].c = pending'[v][k][j].c,
                        pending'[v][k][i].id = pending'[v][k][j].id
                 PROVE  i = j
      BY DEF OneEntryEach
    <2>1. CASE ~(v = w /\ k = h)
      BY <1>6, <2>1 DEF QueueInv, OneEntryEach
    <2>2. CASE v = w /\ k = h
      <3>1. \A m \in 1 .. Len(q) : ~(q[m].c = e.c /\ q[m].id = e.id)
        <4>1. \A m \in 1 .. Len(q) : q[m] \in Range(q)
          BY <1>2 DEF Range
        <4> QED
          BY <1>3, <4>1 DEF Queued, Queue
      <3>2. \A m, n \in 1 .. Len(q) : q[m].c = q[n].c /\ q[m].id = q[n].id => m = n
        BY <1>2 DEF QueueInv, OneEntryEach
      <3>3. pending'[v][k] = Append(q, e)
        BY <1>6, <2>2
      <3> HIDE DEF q
      <3>4. /\ Len(q) \in Nat /\ Len(Append(q, e)) = Len(q) + 1
            /\ \A m \in 1 .. Len(q) + 1 : Append(q, e)[m] = IF m = Len(q) + 1 THEN e ELSE q[m]
        BY <1>2, <1>3
      <3>5. i \in 1 .. Len(q) + 1 /\ j \in 1 .. Len(q) + 1 /\ Append(q, e)[i].c = Append(q, e)[j].c
            /\ Append(q, e)[i].id = Append(q, e)[j].id
        BY <3>3, <3>4
      <3>6. (i \in 1 .. Len(q) \/ i = Len(q) + 1) /\ (j \in 1 .. Len(q) \/ j = Len(q) + 1)
        BY <3>4, <3>5
      <3>7. \A m \in 1 .. Len(q) : m \in 1 .. Len(q) + 1 /\ m # Len(q) + 1
        BY <3>4
      <3> QED
        BY <3>1, <3>2, <3>4, <3>5, <3>6, <3>7
    <2> QED
      BY <2>1, <2>2
  <1>11. \A v \in Workers, k \in Hosts : \A d \in Range(pending[v][k]) : d.by \in Users
    BY PlacedUsers DEF QueueInv
  <1>12. UpdatesPlaced'
    <2> SUFFICES ASSUME NEW v \in Workers, NEW k \in Hosts, NEW d \in Range(pending'[v][k])
                 PROVE  ask'[d.by].pc \in {"committing", "told", "refused"} /\ ask'[d.by].w = v
                        /\ HostOf[ask'[d.by].c] = k
      BY DEF UpdatesPlaced, Asked
    <2>1. CASE d \in Range(pending[v][k])
      <3>1. d.by \in Users /\ Asked(d.by) /\ ask[d.by].w = v /\ HostOf[ask[d.by].c] = k
        BY <1>11, <2>1 DEF QueueInv, UpdatesPlaced
      <3>2. ask'[d.by] = ask[d.by]
        BY <1>1, <1>7, <3>1 DEF Asked
      <3> QED
        BY <3>1, <3>2 DEF Asked
    <2>2. CASE d = e /\ v = w /\ k = h
      BY <1>3, <1>4, <1>7, <2>2
    <2> QED
      BY <1>9, <2>1, <2>2
  <1>13. GoneAsked'
    BY <1>1, <1>4, <1>7 DEF QueueInv, QueueTypeOK, GoneAsked, Asked
  <1>14. \A v \in Workers : Waiting(v)' = IF v = w THEN Waiting(v) \cup {u} ELSE Waiting(v)
    <2> SUFFICES ASSUME NEW v \in Workers, NEW x \in Users
                 PROVE  (\E k \in Hosts : \E d \in Range(pending'[v][k]) : d.by = x)
                          <=> (\E k \in Hosts : \E d \in Range(pending[v][k]) : d.by = x) \/ (v = w /\ x = u)
      BY DEF Waiting
    <2> QED
      BY <1>2, <1>3, <1>9
  <1>15. RequestsServed'
    <2> SUFFICES ASSUME NEW x \in Users, NEW v, v = ask'[x].w, ask'[x].pc \in {"committing", "told"}
                 PROVE  ask'[x].served # {} /\ ask'[x].served \subseteq Waiting(v)' \cup handed \cup forgotten
      BY <1>1 DEF RequestsServed, Waiting
    <2>1. CASE x = u
      BY <1>2, <1>4, <1>7, <1>14, <2>1
    <2>2. CASE x # u
      <3>1. ask[x].w \in Workers /\ ask'[x] = ask[x]
        BY <1>7, <2>2, AskTypes DEF QueueInv
      <3> QED
        BY <1>14, <3>1 DEF QueueInv, RequestsServed
    <2> QED
      BY <2>1, <2>2
  <1>16. u \notin handed \cup forgotten \cup UNION {Waiting(v) : v \in Workers}
    BY <1>1, <1>11 DEF QueueInv, GoneAsked, UpdatesPlaced, Asked, Waiting
  <1> QED
    BY <1>1, <1>2, <1>8, <1>10, <1>12, <1>13, <1>14, <1>15, <1>16 DEF QueueInv

(***************************************************************************)
(* A sync takes one queue, a crash all of a worker's.                         *)
(***************************************************************************)
LEMMA FinishSyncKeeps ==
    ASSUME QueueInv, NEW a \in Agents, FinishSync(a)
    PROVE  /\ QueueInv' /\ UNCHANGED forgotten
           /\ \E some \in SUBSET UNION {Waiting(w) : w \in Workers} :
                 /\ handed' = handed \cup some
                 /\ \A w \in Workers : Waiting(w)' = Waiting(w) \ some
  <1> DEFINE w == sync[a].w
             h == sync[a].of
             q == pending[w][h]
             some == {e.by : e \in Range(q)}
  <1>1. /\ w \in Workers /\ h \in Hosts /\ q \in Seq(Update)
        /\ Applied(a) \in [Containers -> Known]
    BY SyncTypes DEF FinishSync, QueueInv
  <1>2. /\ pending' = [pending EXCEPT ![w][h] = <<>>] /\ handed' = handed \cup some
        /\ todo' \in {todo, [todo EXCEPT ![a] = @ \o q]} /\ row' = Applied(a)
        /\ sync' = [sync EXCEPT ![a] = None] /\ UNCHANGED <<runs, ask, forgotten>>
    BY DEF FinishSync
  <1>3. \A v \in Workers, k \in Hosts : \A d \in Range(pending[v][k]) :
           d.by \in Users /\ Asked(d.by) /\ ask[d.by].w = v /\ HostOf[ask[d.by].c] = k
    BY PlacedUsers DEF QueueInv, UpdatesPlaced
  <1>4. some \subseteq Users /\ \A x \in some : Asked(x) /\ ask[x].w = w /\ HostOf[ask[x].c] = h
    BY <1>1, <1>3
  <1>5. \A v \in Workers, k \in Hosts : pending'[v][k] = IF v = w /\ k = h THEN <<>> ELSE pending[v][k]
    BY <1>1, <1>2 DEF QueueInv, QueueTypeOK
  <1>6. \A v \in Workers, k \in Hosts : \A d :
           d \in Range(pending'[v][k]) <=> d \in Range(pending[v][k]) /\ ~(v = w /\ k = h)
    <2> SUFFICES ASSUME NEW v \in Workers, NEW k \in Hosts
                 PROVE  Range(pending'[v][k]) = IF v = w /\ k = h THEN {} ELSE Range(pending[v][k])
      OBVIOUS
    <2>1. CASE v = w /\ k = h
      BY <1>5, <2>1, RangeEmpty
    <2>2. CASE ~(v = w /\ k = h)
      BY <1>5, <2>2
    <2> QED
      BY <2>1, <2>2
  <1>7. QueueTypeOK'
    <2>1. todo[a] \o q \in Seq(Update)
      BY <1>1 DEF QueueInv, QueueTypeOK
    <2>2. <<>> \in Seq(Update)
      OBVIOUS
    <2> HIDE DEF q, some
    <2>3. todo' \in [Agents -> Seq(Update)] /\ pending' \in [Workers -> [Hosts -> Seq(Update)]]
      BY <1>1, <1>2, <2>1, <2>2 DEF QueueInv, QueueTypeOK
    <2>4. handed' \subseteq Users /\ sync' \in [Agents -> Sync \cup {None}]
      BY <1>2, <1>4 DEF QueueInv, QueueTypeOK
    <2> QED
      BY <1>1, <1>2, <2>3, <2>4 DEF QueueInv, QueueTypeOK
  <1>8. OneEntryEach'
    <2> SUFFICES ASSUME NEW v \in Workers, NEW k \in Hosts,
                        NEW i \in 1 .. Len(pending'[v][k]), NEW j \in 1 .. Len(pending'[v][k]),
                        pending'[v][k][i].c = pending'[v][k][j].c,
                        pending'[v][k][i].id = pending'[v][k][j].id
                 PROVE  i = j
      BY DEF OneEntryEach
    <2>1. CASE v = w /\ k = h
      <3>1. Len(pending'[v][k]) = 0
        BY <1>5, <2>1
      <3> QED
        BY <3>1
    <2>2. CASE ~(v = w /\ k = h)
      BY <1>5, <2>2 DEF QueueInv, OneEntryEach
    <2> QED
      BY <2>1, <2>2
  <1>9. UpdatesPlaced'
    <2> SUFFICES ASSUME NEW v \in Workers, NEW k \in Hosts, NEW d \in Range(pending'[v][k])
                 PROVE  ask[d.by].pc \in {"committing", "told", "refused"} /\ ask[d.by].w = v
                        /\ HostOf[ask[d.by].c] = k
      BY <1>2 DEF UpdatesPlaced, Asked
    <2> QED
      BY <1>3, <1>6 DEF Asked
  <1>10. \A v \in Workers : Waiting(v)' = Waiting(v) \ some
    <2> SUFFICES ASSUME NEW v \in Workers, NEW x \in Users
                 PROVE  (\E k \in Hosts : \E d \in Range(pending'[v][k]) : d.by = x)
                          <=> (\E k \in Hosts : \E d \in Range(pending[v][k]) : d.by = x) /\ x \notin some
      BY DEF Waiting
    <2>1. ASSUME NEW k \in Hosts, NEW d \in Range(pending'[v][k]), d.by = x
          PROVE  d \in Range(pending[v][k]) /\ x \notin some
      BY <1>3, <1>4, <1>6, <2>1
    <2>2. ASSUME NEW k \in Hosts, NEW d \in Range(pending[v][k]), d.by = x, x \notin some
          PROVE  d \in Range(pending'[v][k])
      BY <1>6, <2>2
    <2> HIDE DEF some
    <2> QED
      BY <2>1, <2>2
  <1>11. some \subseteq Waiting(w)
    BY <1>1, <1>4 DEF Waiting
  <1> HIDE DEF some
  <1>12. GoneAsked'
    BY <1>2, <1>4 DEF QueueInv, GoneAsked, Asked
  <1>13. RequestsServed'
    <2> SUFFICES ASSUME NEW x \in Users, ask[x].pc \in {"committing", "told"}
                 PROVE  ask[x].served # {} /\ ask[x].served \subseteq (Waiting(ask[x].w) \ some) \cup handed' \cup forgotten
      <3>1. \A x \in Users : ask[x].pc \in {"committing", "told"} => ask[x].w \in Workers
        BY AskTypes DEF QueueInv
      <3>2. \A x \in Users, v \in Workers : v = ask[x].w => Waiting(v)' = Waiting(ask[x].w) \ some
        BY <1>10
      <3> QED
        BY <1>2, <3>1, <3>2 DEF RequestsServed, Waiting
    <2> QED
      BY <1>2 DEF QueueInv, RequestsServed
  <1> QED
    BY <1>1, <1>2, <1>7, <1>8, <1>9, <1>10, <1>11, <1>12, <1>13 DEF QueueInv

LEMMA QueueCrashKeeps ==
    ASSUME QueueInv, NEW w \in Workers, QueueCrash(w)
    PROVE  /\ QueueInv' /\ UNCHANGED handed /\ forgotten' = forgotten \cup Waiting(w)
           /\ \A v \in Workers : Waiting(v)' = Waiting(v) \ Waiting(w)
  <1>1. /\ pending' = [pending EXCEPT ![w] = NoUpdates] /\ forgotten' = forgotten \cup Waiting(w)
        /\ UNCHANGED <<row, runs, todo, handed>>
        /\ \A u \in Users : ask'[u] = IF ask[u].pc \in {"resolving", "committing"} /\ ask[u].w = w
                                      THEN [ask[u] EXCEPT !.pc = "refused"] ELSE ask[u]
        /\ sync' = [a \in Agents |-> IF sync[a] # None /\ sync[a].w = w THEN None ELSE sync[a]]
        /\ ask' = [u \in Users |-> ask'[u]]
    BY DEF QueueCrash
  <1>2. ASSUME NEW u \in Users
        PROVE  /\ ask'[u] \in Ask \cup {NotAsked}
               /\ Asked(u) => ask'[u].pc \in {"committing", "told", "refused"} /\ ask'[u].w = ask[u].w /\ ask'[u].c = ask[u].c
               /\ ask'[u].pc \in {"committing", "told"} => ask'[u] = ask[u]
    <2>1. CASE ask[u].pc \in {"resolving", "committing"} /\ ask[u].w = w
      <3>1. ask[u] \in Ask
        BY <2>1, AskTypes DEF QueueInv
      <3>2. ask'[u] = [ask[u] EXCEPT !.pc = "refused"]
        BY <1>1, <2>1
      <3> QED
        BY <3>1, <3>2 DEF Ask
    <2>2. CASE ~(ask[u].pc \in {"resolving", "committing"} /\ ask[u].w = w)
      BY <1>1, <2>2 DEF Asked, QueueInv, QueueTypeOK
    <2> QED
      BY <2>1, <2>2
  <1>3. \A v \in Workers, k \in Hosts : pending'[v][k] = IF v = w THEN <<>> ELSE pending[v][k]
    BY <1>1 DEF QueueInv, QueueTypeOK, NoUpdates
  <1>4. \A v \in Workers, k \in Hosts : \A d : d \in Range(pending'[v][k]) <=> d \in Range(pending[v][k]) /\ v # w
    <2> SUFFICES ASSUME NEW v \in Workers, NEW k \in Hosts
                 PROVE  Range(pending'[v][k]) = IF v = w THEN {} ELSE Range(pending[v][k])
      OBVIOUS
    <2>1. CASE v = w
      BY <1>3, <2>1, RangeEmpty
    <2>2. CASE v # w
      BY <1>3, <2>2
    <2> QED
      BY <2>1, <2>2
  <1>5. \A v \in Workers, k \in Hosts : \A d \in Range(pending[v][k]) :
           d.by \in Users /\ Asked(d.by) /\ ask[d.by].w = v /\ HostOf[ask[d.by].c] = k
    BY PlacedUsers DEF QueueInv, UpdatesPlaced
  <1>6. \A v \in Workers : \A x \in Waiting(v) : x \in Users /\ Asked(x) /\ ask[x].w = v
    BY <1>5 DEF Waiting
  <1>7. QueueTypeOK'
    <2>1. pending' \in [Workers -> [Hosts -> Seq(Update)]]
      <3>1. NoUpdates \in [Hosts -> Seq(Update)]
        BY DEF NoUpdates
      <3> QED
        BY <1>1, <3>1 DEF QueueInv, QueueTypeOK
    <2>2. ask' \in [Users -> Ask \cup {NotAsked}]
      BY <1>1, <1>2
    <2>3. sync' \in [Agents -> Sync \cup {None}] /\ forgotten' \subseteq Users
      BY <1>1, <1>6 DEF QueueInv, QueueTypeOK
    <2> QED
      BY <1>1, <2>1, <2>2, <2>3 DEF QueueInv, QueueTypeOK
  <1>8. OneEntryEach'
    <2> SUFFICES ASSUME NEW v \in Workers, NEW k \in Hosts,
                        NEW i \in 1 .. Len(pending'[v][k]), NEW j \in 1 .. Len(pending'[v][k]),
                        pending'[v][k][i].c = pending'[v][k][j].c,
                        pending'[v][k][i].id = pending'[v][k][j].id
                 PROVE  i = j
      BY DEF OneEntryEach
    <2>1. CASE v = w
      <3>1. Len(pending'[v][k]) = 0
        BY <1>3, <2>1
      <3> QED
        BY <3>1
    <2>2. CASE v # w
      BY <1>3, <2>2 DEF QueueInv, OneEntryEach
    <2> QED
      BY <2>1, <2>2
  <1>9. UpdatesPlaced'
    <2> SUFFICES ASSUME NEW v \in Workers, NEW k \in Hosts, NEW d \in Range(pending'[v][k])
                 PROVE  ask'[d.by].pc \in {"committing", "told", "refused"} /\ ask'[d.by].w = v
                        /\ HostOf[ask'[d.by].c] = k
      BY DEF UpdatesPlaced, Asked
    <2> QED
      BY <1>2, <1>4, <1>5
  <1>10. GoneAsked'
    BY <1>1, <1>2, <1>6 DEF QueueInv, QueueTypeOK, GoneAsked, Asked
  <1>11. \A v \in Workers : Waiting(v)' = Waiting(v) \ Waiting(w)
    <2> SUFFICES ASSUME NEW v \in Workers, NEW x \in Users
                 PROVE  (\E k \in Hosts : \E d \in Range(pending'[v][k]) : d.by = x)
                          <=> (\E k \in Hosts : \E d \in Range(pending[v][k]) : d.by = x) /\ x \notin Waiting(w)
      BY DEF Waiting
    <2>1. (\E k \in Hosts : \E d \in Range(pending[v][k]) : d.by = x) <=> x \in Waiting(v)
      BY DEF Waiting
    <2>2. (\E k \in Hosts : \E d \in Range(pending'[v][k]) : d.by = x) <=> x \in Waiting(v) /\ v # w
      BY <1>4, <2>1
    <2> QED
      BY <1>6, <2>1, <2>2
  <1>12. RequestsServed'
    <2> SUFFICES ASSUME NEW x \in Users, NEW v, v = ask'[x].w, ask'[x].pc \in {"committing", "told"}
                 PROVE  ask'[x].served # {} /\ ask'[x].served \subseteq Waiting(v)' \cup handed \cup forgotten'
      BY <1>1 DEF RequestsServed, Waiting
    <2>1. ask'[x] = ask[x] /\ v \in Workers
      BY <1>2, AskTypes DEF QueueInv
    <2>2. ask[x].served # {} /\ ask[x].served \subseteq Waiting(v) \cup handed \cup forgotten
      BY <2>1 DEF QueueInv, RequestsServed
    <2> QED
      BY <1>1, <1>11, <2>1, <2>2
  <1> QED
    BY <1>1, <1>7, <1>8, <1>9, <1>10, <1>11, <1>12 DEF QueueInv

------------------------------------------------------------------------------
(***************************************************************************)
(* Log streams.  The invariant is the four properties together: a socket that   *)
(* leaves sees in the subscribers whether another reads its container.        *)
(***************************************************************************)
LogInv == LogTypeOK /\ StreamsAreRequested /\ SubscribersAreOpen /\ RequestsAreRead /\ LinesAreOwn

LEMMA LogInvInit == LogInit => LogInv
  BY DEF LogInit, LogInv, LogTypeOK, StreamsAreRequested, SubscribersAreOpen, RequestsAreRead, LinesAreOwn,
         Open, NoSubs, NoneWanted

LEMMA ConnectKeeps ==
    ASSUME LogInv, NEW s \in Sockets, Connect(s)
    PROVE  LogInv'
  <1> USE DEF Open, IdIn, Wanted
  <1>1. PICK c \in Containers, w \in Workers :
          /\ sock' = [sock EXCEPT ![s] = [w |-> w, c |-> c, lines |-> {}]]
          /\ subs' = [subs EXCEPT ![w][IdOf[c]] = @ \cup {s}]
          /\ wanted' = [wanted EXCEPT ![w][HostOf[c]] = @ \cup {IdOf[c]}]
    BY DEF Connect
  <1> DEFINE new == [w |-> w, c |-> c, lines |-> {}]
  <1>2. /\ IdOf[c] \in Ids /\ HostOf[c] \in Hosts /\ new \in Socket /\ new # None /\ sock[s] = None
        /\ UNCHANGED sends
    BY IdAssumption, QueueAssumption, NoneIsNoSocket DEF Socket, Connect
  <1>3. LogTypeOK'
    BY <1>1, <1>2 DEF LogInv, LogTypeOK
  <1>4. /\ \A t \in Sockets : sock'[t] = IF t = s THEN new ELSE sock[t]
        /\ \A v \in Workers, i \in Ids : \A t :
              t \in subs'[v][i] <=> t \in subs[v][i] \/ (t = s /\ v = w /\ i = IdOf[c])
        /\ \A v \in Workers, h \in Hosts : \A i :
              i \in wanted'[v][h] <=> i \in wanted[v][h] \/ (i = IdOf[c] /\ v = w /\ h = HostOf[c])
    BY <1>1, <1>2 DEF LogInv, LogTypeOK
  <1>5. \A t \in Sockets : sock[t] # None => /\ sock[t].w \in Workers /\ sock[t].c \in Containers
                                      /\ IdOf[sock[t].c] \in Ids /\ HostOf[sock[t].c] \in Hosts
    BY IdAssumption, QueueAssumption DEF LogInv, LogTypeOK, Socket
  <1>6. \A t \in Sockets : t # s => sock'[t] = sock[t]
    BY <1>4
  <1>7. sock'[s] # None /\ sock[s] = None /\ IdOf[sock'[s].c] = IdOf[c] /\ sock'[s].w = w /\ sock'[s].c = c /\ sock'[s].lines = {}
    BY <1>2, <1>4
  <1> HIDE DEF new
  <1>8. StreamsAreRequested'
    <2> SUFFICES ASSUME NEW t \in Sockets, sock'[t] # None
                 PROVE  t \in subs'[sock'[t].w][IdOf[sock'[t].c]] /\ IdOf[sock'[t].c] \in wanted'[sock'[t].w][HostOf[sock'[t].c]]
      BY DEF StreamsAreRequested
    <2>1. CASE t = s
      BY <1>2, <1>4, <1>7, <2>1
    <2>2. CASE t # s
      <3>1. t \in subs[sock[t].w][IdOf[sock[t].c]] /\ IdOf[sock[t].c] \in wanted[sock[t].w][HostOf[sock[t].c]]
        BY <1>6, <2>2 DEF LogInv, StreamsAreRequested
      <3> QED
        BY <1>4, <1>5, <1>6, <2>2, <3>1
    <2> QED
      BY <2>1, <2>2
  <1>9. SubscribersAreOpen'
    <2> SUFFICES ASSUME NEW v \in Workers, NEW i \in Ids, NEW t \in subs'[v][i]
                 PROVE  sock'[t] # None /\ sock'[t].w = v /\ IdOf[sock'[t].c] = i
      BY DEF SubscribersAreOpen
    <2>1. t \in Sockets /\ (t \in subs[v][i] \/ (t = s /\ v = w /\ i = IdOf[c]))
      BY <1>3, <1>4 DEF LogInv, LogTypeOK
    <2>2. t \in subs[v][i] => t # s /\ sock[t] # None /\ sock[t].w = v /\ IdOf[sock[t].c] = i
      BY <1>7 DEF LogInv, SubscribersAreOpen
    <2> QED
      BY <1>6, <1>7, <2>1, <2>2
  <1>10. RequestsAreRead'
    <2> SUFFICES ASSUME NEW v \in Workers, NEW h \in Hosts, NEW i \in wanted'[v][h], ~Shared(i)
                 PROVE  \E t \in Sockets : sock'[t] # None /\ sock'[t].w = v /\ IdOf[sock'[t].c] = i /\ HostOf[sock'[t].c] = h
      BY DEF RequestsAreRead, Shared
    <2>1. CASE i \in wanted[v][h]
      <3>1. PICK t \in Sockets : sock[t] # None /\ sock[t].w = v /\ IdOf[sock[t].c] = i /\ HostOf[sock[t].c] = h
        BY <2>1 DEF LogInv, RequestsAreRead
      <3> QED
        BY <1>6, <1>7, <3>1
    <2>2. CASE i \notin wanted[v][h]
      BY <1>4, <1>7, <2>2
    <2> QED
      BY <2>1, <2>2
  <1>11. LinesAreOwn'
    BY <1>4, <1>6, <1>7 DEF LogInv, LinesAreOwn
  <1> QED
    BY <1>3, <1>8, <1>9, <1>10, <1>11 DEF LogInv

LEMMA SocketTypes ==
    ASSUME LogInv, NEW t \in Sockets, sock[t] # None
    PROVE  /\ sock[t] \in Socket /\ sock[t].w \in Workers /\ sock[t].c \in Containers
           /\ IdOf[sock[t].c] \in Ids /\ HostOf[sock[t].c] \in Hosts
  BY IdAssumption, QueueAssumption DEF LogInv, LogTypeOK, Socket

(***************************************************************************)
(* The request that goes with a socket has no other reader: one of the same      *)
(* host would be subscribed, one of another host makes the id shared.         *)
(***************************************************************************)
LEMMA LeaveKeeps ==
    ASSUME LogInv, NEW s \in Sockets, Leave(s)
    PROVE  LogInv'
  <1> USE DEF Open, IdIn, Wanted
  <1> DEFINE w == sock[s].w
             c == sock[s].c
             last == subs[w][IdOf[c]] \subseteq {s}
  <1>1. /\ sock[s] # None /\ w \in Workers /\ c \in Containers /\ IdOf[c] \in Ids /\ HostOf[c] \in Hosts
        /\ UNCHANGED sends
    BY SocketTypes DEF Leave
  <1>2. /\ sock' = [sock EXCEPT ![s] = None]
        /\ subs' = [subs EXCEPT ![w][IdOf[c]] = @ \ {s}]
        /\ wanted' = IF last THEN [wanted EXCEPT ![w][HostOf[c]] = @ \ {IdOf[c]}] ELSE wanted
    BY DEF Leave
  <1>3. LogTypeOK'
    BY <1>1, <1>2 DEF LogInv, LogTypeOK
  <1>4. /\ \A t \in Sockets : sock'[t] = IF t = s THEN None ELSE sock[t]
        /\ \A v \in Workers, i \in Ids : \A t :
              t \in subs'[v][i] <=> t \in subs[v][i] /\ ~(t = s /\ v = w /\ i = IdOf[c])
        /\ \A v \in Workers, h \in Hosts : \A i :
              i \in wanted'[v][h] <=> i \in wanted[v][h] /\ ~(last /\ i = IdOf[c] /\ v = w /\ h = HostOf[c])
    BY <1>1, <1>2 DEF LogInv, LogTypeOK
  <1> HIDE DEF last
  <1>5. StreamsAreRequested'
    <2> SUFFICES ASSUME NEW t \in Sockets, sock'[t] # None
                 PROVE  /\ t \in subs'[sock'[t].w][IdOf[sock'[t].c]]
                        /\ IdOf[sock'[t].c] \in wanted'[sock'[t].w][HostOf[sock'[t].c]]
      BY DEF StreamsAreRequested
    <2>1. t # s /\ sock'[t] = sock[t]
      BY <1>4
    <2>2. t \in subs[sock[t].w][IdOf[sock[t].c]] /\ IdOf[sock[t].c] \in wanted[sock[t].w][HostOf[sock[t].c]]
      BY <2>1 DEF LogInv, StreamsAreRequested
    <2>3. ~(last /\ IdOf[sock[t].c] = IdOf[c] /\ sock[t].w = w)
      BY <2>1, <2>2 DEF last
    <2> QED
      BY <1>4, <2>1, <2>2, <2>3, SocketTypes
  <1>6. SubscribersAreOpen'
    <2> SUFFICES ASSUME NEW v \in Workers, NEW i \in Ids, NEW t \in subs'[v][i]
                 PROVE  sock'[t] # None /\ sock'[t].w = v /\ IdOf[sock'[t].c] = i
      BY DEF SubscribersAreOpen
    <2>1. t \in Sockets /\ t \in subs[v][i]
      BY <1>3, <1>4 DEF LogInv, LogTypeOK
    <2>2. sock[t] # None /\ sock[t].w = v /\ IdOf[sock[t].c] = i
      BY <2>1 DEF LogInv, SubscribersAreOpen
    <2> QED
      BY <1>4, <2>1, <2>2
  <1>7. RequestsAreRead'
    <2> SUFFICES ASSUME NEW v \in Workers, NEW h \in Hosts, NEW i \in wanted'[v][h], ~Shared(i)
                 PROVE  \E t \in Sockets : sock'[t] # None /\ sock'[t].w = v /\ IdOf[sock'[t].c] = i
                                             /\ HostOf[sock'[t].c] = h
      BY DEF RequestsAreRead, Shared
    <2>1. i \in wanted[v][h] /\ ~(last /\ i = IdOf[c] /\ v = w /\ h = HostOf[c])
      BY <1>4
    <2>2. PICK t \in Sockets : sock[t] # None /\ sock[t].w = v /\ IdOf[sock[t].c] = i /\ HostOf[sock[t].c] = h
      BY <2>1 DEF LogInv, RequestsAreRead
    <2>3. CASE t # s
      BY <1>4, <2>2, <2>3
    <2>4. CASE t = s
      <3>1. i = IdOf[c] /\ v = w /\ h = HostOf[c] /\ ~last
        BY <2>1, <2>2, <2>4
      <3>2. PICK u \in subs[w][i] : u # s
        BY <3>1 DEF last
      <3>3. u \in Sockets /\ sock[u] # None /\ sock[u].w = w /\ IdOf[sock[u].c] = i
        BY <1>1, <3>1, <3>2 DEF LogInv, LogTypeOK, SubscribersAreOpen
      <3>4. HostOf[sock[u].c] = h
        BY <1>1, <3>1, <3>3, SocketTypes DEF Shared
      <3> QED
        BY <1>4, <3>1, <3>2, <3>3, <3>4
    <2> QED
      BY <2>3, <2>4
  <1>8. LinesAreOwn'
    BY <1>4 DEF LogInv, LinesAreOwn
  <1> QED
    BY <1>3, <1>5, <1>6, <1>7, <1>8 DEF LogInv

LEMMA PostLinesKeeps ==
    ASSUME LogInv, NEW a \in Agents, NEW w \in Workers, NEW c \in Containers, PostLines(a, w, c)
    PROVE  LogInv'
  <1> USE DEF Open, IdIn, Wanted
  <1>1. /\ sock' = [s \in Sockets |-> IF s \in subs[w][IdOf[c]]
                                      THEN [sock[s] EXCEPT !.lines = @ \cup {c}] ELSE sock[s]]
        /\ UNCHANGED <<subs, wanted, sends>>
    BY DEF PostLines
  <1>2. \A s \in Sockets : s \in subs[w][IdOf[c]] => sock[s] # None /\ IdOf[sock[s].c] = IdOf[c]
    BY IdAssumption DEF LogInv, SubscribersAreOpen
  <1>3. ASSUME NEW s \in Sockets
        PROVE  /\ sock'[s] \in Socket \cup {None} /\ (sock'[s] = None <=> sock[s] = None)
               /\ sock[s] # None => sock'[s].w = sock[s].w /\ sock'[s].c = sock[s].c
               /\ sock[s] # None => \/ sock'[s].lines = sock[s].lines
                                    \/ sock'[s].lines = sock[s].lines \cup {c} /\ IdOf[sock[s].c] = IdOf[c]
    <2>1. CASE s \in subs[w][IdOf[c]]
      <3>1. sock[s] \in Socket /\ sock'[s] = [sock[s] EXCEPT !.lines = @ \cup {c}]
        BY <1>1, <1>2, <2>1, SocketTypes
      <3>2. sock'[s] \in Socket
        BY <3>1 DEF Socket
      <3>3. sock'[s] # None
        BY <3>2, NoneIsNoSocket DEF Socket
      <3> QED
        BY <1>2, <2>1, <3>1, <3>2, <3>3 DEF Socket
    <2>2. CASE s \notin subs[w][IdOf[c]]
      BY <1>1, <2>2 DEF LogInv, LogTypeOK
    <2> QED
      BY <2>1, <2>2
  <1>4. LogTypeOK'
    BY <1>1, <1>3 DEF LogInv, LogTypeOK
  <1>5. StreamsAreRequested'
    BY <1>1, <1>3 DEF LogInv, StreamsAreRequested
  <1>6. SubscribersAreOpen'
    <2> SUFFICES ASSUME NEW v \in Workers, NEW i \in Ids, NEW t \in subs[v][i]
                 PROVE  sock'[t] # None /\ sock'[t].w = v /\ IdOf[sock'[t].c] = i
      BY <1>1 DEF SubscribersAreOpen
    <2>1. t \in Sockets /\ sock[t] # None /\ sock[t].w = v /\ IdOf[sock[t].c] = i
      BY DEF LogInv, LogTypeOK, SubscribersAreOpen
    <2> QED
      BY <1>3, <2>1
  <1>7. RequestsAreRead'
    <2> SUFFICES ASSUME NEW v \in Workers, NEW h \in Hosts, NEW i \in wanted[v][h], ~Shared(i)
                 PROVE  \E t \in Sockets : sock'[t] # None /\ sock'[t].w = v /\ IdOf[sock'[t].c] = i
                                             /\ HostOf[sock'[t].c] = h
      BY <1>1 DEF RequestsAreRead, Shared
    <2>1. PICK t \in Sockets : sock[t] # None /\ sock[t].w = v /\ IdOf[sock[t].c] = i /\ HostOf[sock[t].c] = h
      BY DEF LogInv, RequestsAreRead
    <2> QED
      BY <1>3, <2>1
  <1>8. LinesAreOwn'
    <2> SUFFICES ASSUME NEW s \in Sockets, sock'[s] # None, NEW d \in sock'[s].lines
                 PROVE  d = sock'[s].c \/ (Shared(IdOf[sock'[s].c]) /\ IdOf[d] = IdOf[sock'[s].c])
      BY DEF LinesAreOwn, Shared
    <2>1. CASE d \in sock[s].lines
      BY <1>3, <2>1 DEF LogInv, LinesAreOwn
    <2>2. CASE d \notin sock[s].lines
      <3>1. d = c /\ IdOf[sock[s].c] = IdOf[c] /\ sock'[s].c = sock[s].c /\ sock[s].c \in Containers
        BY <1>3, <2>2, SocketTypes
      <3> QED
        BY <3>1, IdAssumption DEF Shared
    <2> QED
      BY <2>1, <2>2
  <1> QED
    BY <1>4, <1>5, <1>6, <1>7, <1>8 DEF LogInv

LEMMA LogCrashKeeps ==
    ASSUME LogInv, NEW w \in Workers, LogCrash(w)
    PROVE  LogInv'
  <1> USE DEF Open, IdIn, Wanted
  <1>1. LogTypeOK'
    BY DEF LogCrash, NoSubs, NoneWanted, LogInv, LogTypeOK
  <1>2. /\ \A t \in Sockets : sock'[t] = IF sock[t] # None /\ sock[t].w = w THEN None ELSE sock[t]
        /\ \A v \in Workers, i \in Ids : \A t : t \in subs'[v][i] <=> v # w /\ t \in subs[v][i]
        /\ \A v \in Workers, h \in Hosts : \A i : i \in wanted'[v][h] <=> v # w /\ i \in wanted[v][h]
    BY DEF LogCrash, NoSubs, NoneWanted, LogInv, LogTypeOK
  <1>3. StreamsAreRequested'
    BY <1>2, SocketTypes DEF LogInv, StreamsAreRequested
  <1>4. SubscribersAreOpen'
    BY <1>2 DEF LogInv, LogTypeOK, SubscribersAreOpen
  <1>5. RequestsAreRead'
    BY <1>2 DEF LogInv, RequestsAreRead, Shared
  <1>6. LinesAreOwn'
    BY <1>2 DEF LogInv, LinesAreOwn
  <1> QED
    BY <1>1, <1>3, <1>4, <1>5, <1>6 DEF LogInv

(***************************************************************************)
(* The next sync's answer names what the worker wants.                        *)
(***************************************************************************)
LEMMA HearKeeps ==
    ASSUME LogInv, QueueTypeOK, NEW a \in Agents, sync[a] # None, HearRequests(a)
    PROVE  LogInv'
  <1>1. wanted[sync[a].w][sync[a].of] \in SUBSET Ids
    BY SyncTypes DEF LogInv, LogTypeOK
  <1>2. LogTypeOK'
    BY <1>1 DEF HearRequests, LogInv, LogTypeOK
  <1> QED
    BY <1>2 DEF HearRequests, LogInv, StreamsAreRequested, SubscribersAreOpen, RequestsAreRead, LinesAreOwn,
                Open, IdIn, Wanted

LEMMA LogNextKeeps == LogInv /\ LogNext => LogInv'
  BY ConnectKeeps, LeaveKeeps, PostLinesKeeps DEF LogNext

------------------------------------------------------------------------------
(***************************************************************************)
(* The whole agent API.                                                     *)
(***************************************************************************)
AgentInv == HostInv /\ QueueInv /\ LogInv

LEMMA HostSame == HostInv /\ UNCHANGED hostVars => HostInv'
  BY DEF hostVars, HostInv, HostTypeOK, ReadStands

LEMMA QueueSame == QueueInv /\ UNCHANGED queueVars => QueueInv'
  BY QuietKeeps DEF queueVars, QueueInv, QueueTypeOK, Asked

LEMMA LogSame == LogInv /\ UNCHANGED logVars => LogInv'
  BY DEF logVars, LogInv, LogTypeOK, StreamsAreRequested, SubscribersAreOpen, RequestsAreRead, LinesAreOwn,
         Open, IdIn, Wanted

Waits == UNION {Waiting(w) : w \in Workers}

(***************************************************************************)
(* What a step does to the queues together: it asks, hands over or forgets.    *)
(***************************************************************************)
Handing ==
    \/ UNCHANGED <<Waits, handed, forgotten>>
    \/ \E u \in Users : Promise!Ask(u)
    \/ Promise!HandOver
    \/ Promise!Forget

LEMMA QuietHands == UNCHANGED <<pending, handed, forgotten>> => Handing
  BY DEF Handing, Waits, Waiting, Range

LEMMA UserHands ==
    ASSUME QueueInv, NEW u \in Users, UserStep(u)
    PROVE  QueueInv' /\ Handing
  <1>1. CASE StartUpdate(u) \/ CommitUpdate(u) \/ UpdateFails(u)
    BY <1>1, StartUpdateKeeps, EndUpdateKeeps, QuietHands DEF StartUpdate, CommitUpdate, UpdateFails
  <1>2. CASE QueueUpdate(u) /\ Queued(u) # {}
    BY <1>2, JoinQueueKeeps, QuietHands DEF QueueUpdate
  <1>3. CASE QueueUpdate(u) /\ Queued(u) = {}
    <2>1. Waits' = Waits \cup {u} /\ u \notin Waits \cup handed \cup forgotten /\ UNCHANGED <<handed, forgotten>>
      BY <1>3, EnqueueKeeps DEF Waits
    <2> QED
      BY <1>3, <2>1, EnqueueKeeps DEF Handing, Waits, Promise!Ask
  <1> QED
    BY <1>1, <1>2, <1>3 DEF UserStep

LEMMA SyncHands ==
    ASSUME QueueInv, NEW a \in Agents, FinishSync(a)
    PROVE  QueueInv' /\ Handing
  <1>1. PICK some \in SUBSET Waits :
          handed' = handed \cup some /\ \A w \in Workers : Waiting(w)' = Waiting(w) \ some
    BY FinishSyncKeeps DEF Waits
  <1>2. Waits' = Waits \ some
    BY <1>1 DEF Waits
  <1> QED
    BY <1>1, <1>2, FinishSyncKeeps DEF Handing, Waits, Promise!HandOver

LEMMA CrashHands ==
    ASSUME QueueInv, NEW w \in Workers, QueueCrash(w)
    PROVE  QueueInv' /\ Handing
  <1>1. Waits' = Waits \ Waiting(w) /\ Waiting(w) \in SUBSET Waits
    BY QueueCrashKeeps DEF Waits
  <1> QED
    BY <1>1, QueueCrashKeeps DEF Handing, Waits, Promise!Forget

LEMMA AgentInvStep == AgentInv /\ [Next]_vars => AgentInv' /\ Handing
  <1> SUFFICES ASSUME AgentInv, [Next]_vars PROVE AgentInv' /\ Handing
    OBVIOUS
  <1> USE DEF AgentInv
  <1>1. CASE HostNext /\ UNCHANGED <<queueVars, logVars>>
    BY <1>1, HostInvStep, QueueSame, LogSame, QuietHands DEF queueVars
  <1>2. CASE UpdateStep /\ UNCHANGED <<hostVars, logVars>>
    <2>1. QueueInv' /\ Handing
      <3>1. ASSUME NEW c \in Containers, Found(c) \/ Recreated(c) PROVE QueueInv' /\ Handing
        BY <3>1, FoundKeeps, RecreatedKeeps, QuietHands DEF Found, Recreated
      <3>2. ASSUME NEW a \in Agents, StartSync(a) \/ SyncFails(a) \/ AgentApplies(a) PROVE QueueInv' /\ Handing
        BY <3>2, StartSyncKeeps, SyncFailsKeeps, AgentAppliesKeeps, QuietHands DEF StartSync, SyncFails, AgentApplies
      <3> QED
        BY <1>2, <3>1, <3>2, UserHands DEF UpdateStep
    <2> QED
      BY <1>2, <2>1, HostSame, LogSame
  <1>3. ASSUME NEW a \in Agents, FinishSync(a), HearRequests(a), UNCHANGED hostVars PROVE AgentInv' /\ Handing
    BY <1>3, SyncHands, HearKeeps, HostSame DEF FinishSync, QueueInv
  <1>4. CASE LogNext /\ UNCHANGED <<hostVars, queueVars>>
    BY <1>4, LogNextKeeps, HostSame, QueueSame, QuietHands DEF queueVars
  <1>5. ASSUME NEW w \in Workers, Crash(w) PROVE AgentInv' /\ Handing
    BY <1>5, CrashHands, LogCrashKeeps, HostSame DEF Crash
  <1>6. CASE UNCHANGED vars
    BY <1>6, HostSame, QueueSame, LogSame, QuietHands DEF vars, queueVars
  <1> QED
    BY <1>1, <1>2, <1>3, <1>4, <1>5, <1>6 DEF Next

LEMMA AgentInvAlways == Spec => []AgentInv
  <1>1. Init => AgentInv
    BY HostInvInit, QueueInvInit, LogInvInit DEF Init, AgentInv
  <1> QED
    BY <1>1, AgentInvStep, PTL DEF Spec

(***************************************************************************)
(* Type correctness: the variables of AgentApi keep their types.              *)
(***************************************************************************)
THEOREM TypeCorrect == Spec => []TypeOK
  <1>1. AgentInv => TypeOK
    BY DEF AgentInv, HostInv, QueueInv, LogInv, TypeOK
  <1> QED
    BY <1>1, AgentInvAlways, PTL

(***************************************************************************)
(* A registration that replaces a secret replaces one that was made while it     *)
(* was under way.                                                          *)
(***************************************************************************)
THEOREM SecretIsKept == Spec => SecretKept
  <1>1. AgentInv /\ [Next]_vars =>
          [\A a \in Agents : Register(a) =>
             LET h == reg[a].of IN
             host[h].secret # None /\ host'[h].secret # host[h].secret
                 => host[h].secret[2] > reg[a].asOf]_hostVars
    BY RegisterKeepsSecret DEF AgentInv
  <1> QED
    BY <1>1, AgentInvAlways, PTL DEF Spec, SecretKept

(***************************************************************************)
(* After a new token the secret is none, or was made since the request read.    *)
(***************************************************************************)
THEOREM TokenDoesRevoke == Spec => TokenRevokes
  <1>1. AgentInv /\ [Next]_vars =>
          [\A g \in Admins : NewToken(g) =>
             LET h == gen[g].of IN
             host'[h].secret # None => host'[h].secret[2] > gen[g].asOf]_hostVars
    BY NewTokenRevokes DEF AgentInv
  <1> QED
    BY <1>1, AgentInvAlways, PTL DEF Spec, TokenRevokes

(***************************************************************************)
(* A queue holds one update of a container under each id that the syncs wrote,   *)
(* since the search and the append are one step of the worker.              *)
(***************************************************************************)
THEOREM OneEntryForEach == Spec => []OneEntryEach
  <1>1. AgentInv => OneEntryEach
    BY DEF AgentInv, QueueInv
  <1> QED
    BY <1>1, AgentInvAlways, PTL

(***************************************************************************)
(* Whoever is told that the update is queued is served: the update waits in the  *)
(* worker that told, has been handed over or went with a worker.             *)
(***************************************************************************)
THEOREM WhoIsToldIsServed == Spec => []ToldIsServed
  <1>1. AgentInv => ToldIsServed
    BY DEF AgentInv, QueueInv, RequestsServed, ToldIsServed
  <1> QED
    BY <1>1, AgentInvAlways, PTL

(***************************************************************************)
(* The queues of all workers implement Handover: each update is in one queue,    *)
(* of the worker and the host of its request, so that taking a queue or losing   *)
(* a worker takes it from all of them.                                       *)
(***************************************************************************)
THEOREM UpdatesAreHandedOver == Spec => ImplementsHandover
  <1>1. Init => Promise!Init
    BY RangeEmpty DEF Init, QueueInit, NoUpdates, Waiting, Promise!Init
  <1>2. AgentInv /\ [Next]_vars => [Promise!Next]_<<UNION {Waiting(w) : w \in Workers}, handed, forgotten>>
    BY AgentInvStep DEF Handing, Waits, Promise!Next
  <1> QED
    BY <1>1, <1>2, AgentInvAlways, PTL DEF Spec, ImplementsHandover, Promise!Spec

(***************************************************************************)
(* An open stream is subscribed and asked for, whichever sockets leave.        *)
(***************************************************************************)
THEOREM OpenStreamsAreRequested == Spec => []StreamsAreRequested
  <1>1. AgentInv => StreamsAreRequested
    BY DEF AgentInv, LogInv
  <1> QED
    BY <1>1, AgentInvAlways, PTL

(***************************************************************************)
(* No queue is subscribed without a socket that reads it.                     *)
(***************************************************************************)
THEOREM SubscribersStayOpen == Spec => []SubscribersAreOpen
  <1>1. AgentInv => SubscribersAreOpen
    BY DEF AgentInv, LogInv
  <1> QED
    BY <1>1, AgentInvAlways, PTL

(***************************************************************************)
(* A container is asked for only while a socket reads it, as long as one host    *)
(* only has its id.                                                        *)
(***************************************************************************)
THEOREM RequestsHaveReaders == Spec => []RequestsAreRead
  <1>1. AgentInv => RequestsAreRead
    BY DEF AgentInv, LogInv
  <1> QED
    BY <1>1, AgentInvAlways, PTL

(***************************************************************************)
(* A socket gets the lines of its own container, or of one with the same id on   *)
(* another host.                                                           *)
(***************************************************************************)
THEOREM LinesStayOwn == Spec => []LinesAreOwn
  <1>1. AgentInv => LinesAreOwn
    BY DEF AgentInv, LogInv
  <1> QED
    BY <1>1, AgentInvAlways, PTL

=============================================================================
