------------------------------ MODULE AgentLogs ------------------------------
(***************************************************************************)
(* Log streaming from agent hosts: a WebSocket subscribes a queue under the    *)
(* container's id in its worker and asks for the container's logs under the   *)
(* host; the next sync that this worker answers tells the agent, which then   *)
(* posts lines that whichever worker gets them puts into its own queues.      *)
(***************************************************************************)
EXTENDS AgentUpdates

CONSTANTS
    Sockets,      \* WebSockets
    Ids,          \* container_id values; two hosts may have the same
    IdOf          \* the container_id of each container

ASSUME IdAssumption ==   \* a host's runtime gives no id twice
    /\ IdOf \in [Containers -> Ids]
    /\ \A c, d \in Containers : HostOf[c] = HostOf[d] /\ IdOf[c] = IdOf[d] => c = d
ASSUME NoneIsNoSocket == None \notin [w: Workers, c: Containers, lines: SUBSET Containers]

VARIABLES
    sock,         \* each WebSocket
    subs,         \* _agent_log_subscribers of each worker
    wanted,       \* _agent_log_requests of each worker
    sends         \* the ids each agent was last told to send

logVars == <<sock, subs, wanted, sends>>

(***************************************************************************)
(* A WebSocket: its worker, its container, the containers whose lines have    *)
(* been put into its queue.                                                *)
(***************************************************************************)
Socket == [w: Workers, c: Containers, lines: SUBSET Containers]

Open(s) == sock[s] # None

IdIn(s) == IdOf[sock[s].c]

Wanted(w, h, i) == i \in wanted[w][h]

LogTypeOK ==
    /\ sock \in [Sockets -> Socket \cup {None}]
    /\ subs \in [Workers -> [Ids -> SUBSET Sockets]]
    /\ wanted \in [Workers -> [Hosts -> SUBSET Ids]]
    /\ sends \in [Agents -> SUBSET Ids]

NoSubs == [i \in Ids |-> {}]
NoneWanted == [h \in Hosts |-> {}]

LogInit ==
    /\ sock = [s \in Sockets |-> None]
    /\ subs = [w \in Workers |-> NoSubs]
    /\ wanted = [w \in Workers |-> NoneWanted]
    /\ sends = [a \in Agents |-> {}]

------------------------------------------------------------------------------
(***************************************************************************)
(* A user opens the log of a container.                                    *)
(***************************************************************************)
Connect(s) ==
    /\ s \in load /\ ~Open(s)
    /\ \E c \in Containers, w \in Workers \cap load :
         /\ sock' = [sock EXCEPT ![s] = [w |-> w, c |-> c, lines |-> {}]]
         /\ subs' = [subs EXCEPT ![w][IdOf[c]] = @ \cup {s}]
         /\ wanted' = [wanted EXCEPT ![w][HostOf[c]] = @ \cup {IdOf[c]}]
    /\ UNCHANGED sends

(***************************************************************************)
(* Mistakes one could make, each the body of a mutant: the request goes with   *)
(* any socket that leaves; the queue stays subscribed; the request stays.     *)
(***************************************************************************)
LeaveEndsRequest(s) ==
    /\ Open(s)
    /\ sock' = [sock EXCEPT ![s] = None]
    /\ subs' = [subs EXCEPT ![sock[s].w][IdIn(s)] = @ \ {s}]
    /\ wanted' = [wanted EXCEPT ![sock[s].w][HostOf[sock[s].c]] = @ \ {IdIn(s)}]
    /\ UNCHANGED sends
LeaveStaysSubscribed(s) ==
    /\ Open(s)
    /\ sock' = [sock EXCEPT ![s] = None]
    /\ UNCHANGED <<subs, wanted, sends>>
LeaveKeepsRequest(s) ==
    /\ Open(s)
    /\ sock' = [sock EXCEPT ![s] = None]
    /\ subs' = [subs EXCEPT ![sock[s].w][IdIn(s)] = @ \ {s}]
    /\ UNCHANGED <<wanted, sends>>

(***************************************************************************)
(* The user goes, or no line came for 300 seconds: the queue is taken out,     *)
(* and the last one under an id takes back its own host's request for it.     *)
(***************************************************************************)
Leave(s) ==
    /\ Open(s)
    /\ sock' = [sock EXCEPT ![s] = None]
    /\ subs' = [subs EXCEPT ![sock[s].w][IdIn(s)] = @ \ {s}]
    /\ IF subs[sock[s].w][IdIn(s)] \subseteq {s}
       THEN wanted' = [wanted EXCEPT ![sock[s].w][HostOf[sock[s].c]] = @ \ {IdIn(s)}]
       ELSE UNCHANGED wanted
    /\ UNCHANGED sends

(***************************************************************************)
(* A mistake one could make, the body of a mutant: every queue gets the line. *)
(***************************************************************************)
PostLinesToAll(a, w, c) ==
    /\ w \in load /\ Opens(a, HostOf[c]) /\ IdOf[c] \in sends[a]
    /\ sock' = [s \in Sockets |-> IF \E i \in Ids : s \in subs[w][i]
                                  THEN [sock[s] EXCEPT !.lines = @ \cup {c}] ELSE sock[s]]
    /\ UNCHANGED <<subs, wanted, sends>>

(***************************************************************************)
(* An agent posts lines of a container that some worker has asked it for; the  *)
(* worker that gets them puts them into its queues under the container's id.  *)
(***************************************************************************)
PostLines(a, w, c) ==
    /\ w \in load /\ Opens(a, HostOf[c]) /\ IdOf[c] \in sends[a]
    /\ sock' = [s \in Sockets |-> IF s \in subs[w][IdOf[c]]
                                  THEN [sock[s] EXCEPT !.lines = @ \cup {c}] ELSE sock[s]]
    /\ UNCHANGED <<subs, wanted, sends>>

(***************************************************************************)
(* The answer of a sync names the ids that its worker wants of the host.      *)
(***************************************************************************)
HearRequests(a) ==
    /\ sends' \in {sends, [sends EXCEPT ![a] = wanted[sync[a].w][sync[a].of]]}
    /\ UNCHANGED <<sock, subs, wanted>>

LogCrash(w) ==
    /\ sock' = [s \in Sockets |-> IF Open(s) /\ sock[s].w = w THEN None ELSE sock[s]]
    /\ subs' = [subs EXCEPT ![w] = NoSubs]
    /\ wanted' = [wanted EXCEPT ![w] = NoneWanted]
    /\ UNCHANGED sends

LogNext ==
    \/ \E s \in Sockets : Connect(s) \/ Leave(s)
    \/ \E a \in Agents, w \in Workers, c \in Containers : PostLines(a, w, c)

------------------------------------------------------------------------------
(***************************************************************************)
(* No stream is cut off: whichever sockets of the worker leave, an open one    *)
(* is subscribed and its container is asked for.                            *)
(***************************************************************************)
StreamsAreRequested ==
    \A s \in Sockets : Open(s) =>
        s \in subs[sock[s].w][IdIn(s)] /\ Wanted(sock[s].w, HostOf[sock[s].c], IdIn(s))

(***************************************************************************)
(* No queue without a reader: nothing fills a queue whose socket is closed.   *)
(***************************************************************************)
SubscribersAreOpen ==
    \A w \in Workers, i \in Ids : \A s \in subs[w][i] :
        Open(s) /\ sock[s].w = w /\ IdIn(s) = i

(***************************************************************************)
(* A worker asks an agent for logs only while one of its sockets reads them    *)
(* ("set when a WebSocket is open", agent_api.py:120), as long as one host     *)
(* only has the id.  Where two hosts have it the request of the one that       *)
(* leaves first stays for ever: the last to leave takes back its own only.    *)
(***************************************************************************)
Shared(i) == \E c, d \in Containers : IdOf[c] = i /\ IdOf[d] = i /\ HostOf[c] # HostOf[d]

RequestsAreRead ==
    \A w \in Workers, h \in Hosts : \A i \in wanted[w][h] :
        ~Shared(i) => \E s \in Sockets : /\ Open(s) /\ sock[s].w = w
                                         /\ IdIn(s) = i /\ HostOf[sock[s].c] = h

(***************************************************************************)
(* A socket gets the lines of its own container, whoever else streams, also    *)
(* from syncs and posts that answer a socket that has left; only containers    *)
(* of other hosts with the same id mix.                                    *)
(***************************************************************************)
LinesAreOwn ==
    \A s \in {x \in Sockets : Open(x)} : \A c \in sock[s].lines :
        c = sock[s].c \/ (Shared(IdIn(s)) /\ IdOf[c] = IdIn(s))

==============================================================================
