----------------------------- MODULE MCScheduler -----------------------------
(***************************************************************************)
(* Values of the constants of Scheduler for its runs: two workers, the first   *)
(* with two connections and maybe two runs, so that an unlock can miss, and     *)
(* with two requests, so that one can come late.                            *)
(***************************************************************************)
EXTENDS Scheduler, TLC

CONSTANTS w1, w2, q1, q2, q3, r1, r2, r3, e1, e2, e3

TwoWorkers ==
    [x \in Conns \cup Runs \cup Edits |-> IF x \in {q1, q2, r1, r2, e1, e3} THEN w1 ELSE w2]

(***************************************************************************)
(* What the first worker has two of is alike, and so are the schedules.      *)
(***************************************************************************)
Likes ==
    {s @@ q @@ r @@ e : s \in Permutations(Schedules), q \in Permutations({q1, q2}),
                        r \in Permutations({r1, r2}), e \in Permutations({e1, e3})}

==============================================================================
