----------------------------- MODULE MCHostCheck -----------------------------
(***************************************************************************)
(* Values of the constants of HostCheck for its runs.                      *)
(***************************************************************************)
EXTENDS HostCheck

CONSTANT w1

OneWorker == [k \in Checks |-> w1]

==============================================================================
