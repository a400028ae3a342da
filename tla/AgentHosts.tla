------------------------------ MODULE AgentHosts ------------------------------
(***************************************************************************)
(* The credentials of agent hosts: the one-time registration token that       *)
(* generate_agent_token writes into a host's row and the secret an agent gets  *)
(* for it from register_agent.  Both are written by sessions that read the    *)
(* row, wait, and commit what they changed of their copy.                   *)
(*                                                                         *)
(* An address outside a host's allow list, an unknown token and an unknown    *)
(* secret are refused before anything changes; such calls are left out.      *)
(***************************************************************************)
EXTENDS Integers, FiniteSets

CONSTANTS
    Hosts,        \* agent hosts
    Agents,       \* agent processes, each calling in sequence
    Admins,       \* requests for a new token, at most this many at a time
    HomeOf,       \* the host whose token each agent is given first
    Loads,        \* what may take part in one behaviour
    MaxMade,      \* bound on the tokens and secrets generated
    None          \* no secret, no host

VARIABLES
    load,         \* what takes part in this behaviour: chosen once
    host,         \* rows: token, whether it has not expired, agent_secret
    made,         \* how many tokens and secrets have been generated
    cred,         \* each agent's token and secret
    reg,          \* each agent's call of register_agent
    gen           \* requests for a new token

hostVars == <<load, host, made, cred, reg, gen>>

(***************************************************************************)
(* secrets.token_urlsafe makes values that nobody else has: here the host     *)
(* they are made for and a number.                                         *)
(***************************************************************************)
Value == Hosts \X (0 .. MaxMade)

ASSUME MaxMadeAssumption == MaxMade \in Nat
ASSUME HomeAssumption == HomeOf \in [Agents -> Hosts]
ASSUME NoneIsNoValue == None \notin Value /\ None \notin Hosts

Row == [token: Value, live: BOOLEAN, secret: Value \cup {None}]

(***************************************************************************)
(* A request: the host it has loaded, the secret in its copy and how many     *)
(* values had been generated when it read them.                            *)
(***************************************************************************)
Request == [of: Hosts \cup {None}, secret: Value \cup {None}, asOf: 0 .. MaxMade]

Idle == [of |-> None, secret |-> None, asOf |-> 0]

HostTypeOK ==
    /\ load \in Loads
    /\ host \in [Hosts -> Row]
    /\ made \in 0 .. MaxMade
    /\ cred \in [Agents -> [token: Value, secret: Value \cup {None}]]
    /\ reg \in [Agents -> Request]
    /\ gen \in [Admins -> Request]

(***************************************************************************)
(* Each agent has been given the token of its host, and the agents of a host   *)
(* have registered or not.  A host that takes part may get registrations and   *)
(* new tokens; the agents of the others have registered.                    *)
(***************************************************************************)
HostInit ==
    /\ load \in Loads
    /\ \E fresh \in SUBSET (Hosts \cap load) :
         LET First(h) == IF h \in fresh THEN None ELSE <<h, 0>>
         IN /\ host = [h \in Hosts |-> [token |-> <<h, 0>>, live |-> TRUE, secret |-> First(h)]]
            /\ cred = [a \in Agents |-> [token |-> <<HomeOf[a], 0>>, secret |-> First(HomeOf[a])]]
    /\ made = 0
    /\ reg = [a \in Agents |-> Idle]
    /\ gen = [g \in Admins |-> Idle]

------------------------------------------------------------------------------
Loaded(h) == [of |-> h, secret |-> host[h].secret, asOf |-> made]

Fresh(h) == <<h, made + 1>>

(***************************************************************************)
(* The 24 hours of a token pass.                                           *)
(***************************************************************************)
Expire(h) ==
    /\ h \in load /\ host[h].live
    /\ host' = [host EXCEPT ![h].live = FALSE]
    /\ UNCHANGED <<load, made, cred, reg, gen>>

(***************************************************************************)
(* An administrator puts the host's present token into the agent's settings. *)
(***************************************************************************)
GiveToken(a, h) ==
    /\ {a, h} \subseteq load /\ cred[a].token # host[h].token /\ reg[a] = Idle
    /\ cred' = [cred EXCEPT ![a].token = host[h].token]
    /\ UNCHANGED <<load, host, made, reg, gen>>

(***************************************************************************)
(* A registration finds the host of its token.                             *)
(***************************************************************************)
StartRegister(a) ==
    /\ a \in load /\ reg[a] = Idle
    /\ \E h \in Hosts \cap load :
                       /\ host[h].token = cred[a].token /\ host[h].live
                       /\ reg' = [reg EXCEPT ![a] = Loaded(h)]
    /\ UNCHANGED <<load, host, made, cred, gen>>

(***************************************************************************)
(* The answer reaches the agent or is lost on the way.                      *)
(***************************************************************************)
Answered(a, secret) ==
    /\ cred' \in {cred, [cred EXCEPT ![a].secret = secret]}
    /\ reg' = [reg EXCEPT ![a] = Idle]

NewSecret(a) ==
    /\ made < MaxMade
    /\ made' = made + 1
    /\ host' = [host EXCEPT ![reg[a].of].secret = Fresh(reg[a].of)]
    /\ Answered(a, Fresh(reg[a].of))

(***************************************************************************)
(* Mistakes one could make, each the body of a mutant: every registration      *)
(* makes a secret; the token is used up.                                    *)
(***************************************************************************)
RegisterAnew(a) ==
    /\ reg[a] # Idle
    /\ NewSecret(a)
    /\ UNCHANGED <<load, gen>>

RegisterUsesToken(a) ==
    /\ reg[a] # Idle
    /\ \/ reg[a].secret # None /\ Answered(a, reg[a].secret) /\ UNCHANGED made
          /\ host' = [host EXCEPT ![reg[a].of].token = None]
       \/ reg[a].secret = None /\ NewSecret(a)
    /\ UNCHANGED <<load, gen>>

(***************************************************************************)
(* An agent that registers again gets the secret there is.                  *)
(***************************************************************************)
Register(a) ==
    /\ reg[a] # Idle
    /\ \/ reg[a].secret # None /\ Answered(a, reg[a].secret) /\ UNCHANGED <<host, made>>
       \/ reg[a].secret = None /\ NewSecret(a)
    /\ UNCHANGED <<load, gen>>

RegisterFails(a) ==
    /\ reg[a] # Idle
    /\ reg' = [reg EXCEPT ![a] = Idle]
    /\ UNCHANGED <<load, host, made, cred, gen>>

StartNewToken(g, h) ==
    /\ {g, h} \subseteq load /\ gen[g] = Idle
    /\ gen' = [gen EXCEPT ![g] = Loaded(h)]
    /\ UNCHANGED <<load, host, made, cred, reg>>

(***************************************************************************)
(* A mistake one could make, the body of a mutant: the secret stays.         *)
(***************************************************************************)
NewTokenKeepsSecret(g) ==
    /\ gen[g] # Idle /\ made < MaxMade
    /\ LET h == gen[g].of
       IN host' = [host EXCEPT ![h].token = Fresh(h), ![h].live = TRUE]
    /\ made' = made + 1
    /\ gen' = [gen EXCEPT ![g] = Idle]
    /\ UNCHANGED <<load, cred, reg>>

(***************************************************************************)
(* The new token is committed and the secret revoked, which writes nothing    *)
(* when the copy has no secret: None for None is no change to SQLAlchemy.    *)
(***************************************************************************)
NewToken(g) ==
    /\ gen[g] # Idle /\ made < MaxMade
    /\ LET h == gen[g].of
       IN host' = [host EXCEPT ![h].token = Fresh(h), ![h].live = TRUE,
                               ![h].secret = IF gen[g].secret = None THEN @ ELSE None]
    /\ made' = made + 1
    /\ gen' = [gen EXCEPT ![g] = Idle]
    /\ UNCHANGED <<load, cred, reg>>

NewTokenFails(g) ==
    /\ gen[g] # Idle
    /\ gen' = [gen EXCEPT ![g] = Idle]
    /\ UNCHANGED <<load, host, made, cred, reg>>

HostNext ==
    \/ \E h \in Hosts : Expire(h)
    \/ \E a \in Agents : StartRegister(a) \/ Register(a) \/ RegisterFails(a)
    \/ \E a \in Agents, h \in Hosts : GiveToken(a, h)
    \/ \E g \in Admins : NewToken(g) \/ NewTokenFails(g)
    \/ \E g \in Admins, h \in Hosts : StartNewToken(g, h)

HostSpec == HostInit /\ [][HostNext]_hostVars

(***************************************************************************)
(* The host an agent's secret opens; sync_agent and receive_log_data begin    *)
(* with this lookup.                                                       *)
(***************************************************************************)
Opens(a, h) == a \in load /\ cred[a].secret # None /\ cred[a].secret = host[h].secret

------------------------------------------------------------------------------
(***************************************************************************)
(* Agents that restart resume: a registration replaces no secret that there   *)
(* was when it read the host, so the agents that work with it go on working.  *)
(* Only one that was made while the registration was under way may go.       *)
(***************************************************************************)
SecretKept ==
    [][\A a \in Agents : Register(a) =>
         LET h == reg[a].of IN
         host[h].secret # None /\ host'[h].secret # host[h].secret
             => host[h].secret[2] > reg[a].asOf]_hostVars

(***************************************************************************)
(* A new token locks the old agent out: the secret there was when the request *)
(* read the host opens nothing after its commit, unless a registration that   *)
(* was under way has written one meanwhile.                                *)
(***************************************************************************)
TokenRevokes ==
    [][\A g \in Admins : NewToken(g) =>
         LET h == gen[g].of IN
         host'[h].secret # None => host'[h].secret[2] > gen[g].asOf]_hostVars

==============================================================================
