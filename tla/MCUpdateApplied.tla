--------------------------- MODULE MCUpdateApplied ---------------------------
(***************************************************************************)
(* Values of the constants of UpdateApplied for its run.                   *)
(***************************************************************************)
EXTENDS UpdateApplied

AppliedImages == {[rolling |-> TRUE, tagDigests |-> TRUE, reportsDigest |-> TRUE],
                  [rolling |-> FALSE, tagDigests |-> TRUE, reportsDigest |-> TRUE]}

==============================================================================
