------------------------------- MODULE Handover -------------------------------
(***************************************************************************)
(* What the queues of agent_api promise of the updates that users ask for     *)
(* (agent_api.py:111-113): an update waits until a sync hands it to the agent, *)
(* which happens at most once; only a worker that dies forgets one.          *)
(***************************************************************************)
CONSTANT Users

VARIABLES waiting, handed, forgotten   \* requests for an update

Init == waiting = {} /\ handed = {} /\ forgotten = {}

Ask(u) ==
    /\ u \notin waiting \cup handed \cup forgotten
    /\ waiting' = waiting \cup {u}
    /\ UNCHANGED <<handed, forgotten>>

HandOver ==
    \E some \in SUBSET waiting : /\ waiting' = waiting \ some
                                 /\ handed' = handed \cup some
                                 /\ UNCHANGED forgotten

Forget ==
    \E some \in SUBSET waiting : /\ waiting' = waiting \ some
                                 /\ forgotten' = forgotten \cup some
                                 /\ UNCHANGED handed

Next == HandOver \/ Forget \/ \E u \in Users : Ask(u)

Spec == Init /\ [][Next]_<<waiting, handed, forgotten>>

==============================================================================
