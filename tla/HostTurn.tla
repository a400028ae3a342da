------------------------------- MODULE HostTurn -------------------------------
(***************************************************************************)
(* What the scheduler promises of one host (_run_check_host's docstring): at   *)
(* any time at most one worker process runs its scheduled checks.            *)
(***************************************************************************)
CONSTANTS Workers, Nobody   \* Nobody is no worker

VARIABLE turn   \* the worker whose scheduled check of the host is running

Init == turn = Nobody

Take(w) == turn = Nobody /\ turn' = w

GiveUp(w) == turn = w /\ turn' = Nobody

Next == \E w \in Workers : Take(w) \/ GiveUp(w)

Spec == Init /\ [][Next]_turn

==============================================================================
