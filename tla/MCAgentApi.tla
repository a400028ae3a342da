------------------------------ MODULE MCAgentApi ------------------------------
(***************************************************************************)
(* Values of the constants of AgentApi for its runs: two hosts with the agents   *)
(* a1, a2 and a3, the containers c1 and c2 on the first and c3 on the second, where c1   *)
(* and c3 have the same id.                                                *)
(***************************************************************************)
EXTENDS AgentApi, TLC

CONSTANTS h1, h2, c1, c2, c3, i1, i2, a1, a2, a3, g1, u1, u2, s1, s2, w1, w2

Places == [c \in Containers |-> IF c = c3 THEN h2 ELSE h1]
Names == [c \in Containers |-> IF c = c2 THEN i2 ELSE i1]

(***************************************************************************)
(* The first container has two releases, the others one.                     *)
(***************************************************************************)
Released == [c \in Containers |-> IF c = c1 THEN 2 ELSE 1]

Homes == [a \in Agents |-> IF a = a3 THEN h2 ELSE h1]

(***************************************************************************)
(* Two agents of a host register while its token is renewed; two users update  *)
(* containers of an agent's host; sockets on both hosts; and an update while    *)
(* the agent is locked out.                                                *)
(***************************************************************************)
AllLoads == {{h1, a1, a2, g1}, {a1, c1, w1, w2, u1, u2}, {a1, c1, c2, w1, u1, u2},
             {a1, a3, w1, w2, s1, s2}, {h1, a1, g1, c1, w1, u1}, {h1, a1, g1, w1, s1}}

UpdateLoads == {{a1, c1, w1, w2, u1}}

(***************************************************************************)
(* The workers, the users and the sockets are alike.                        *)
(***************************************************************************)
Alike ==
    {w @@ u @@ s : w \in Permutations({w1, w2}), u \in Permutations({u1, u2}),
                   s \in Permutations({s1, s2})}

==============================================================================
