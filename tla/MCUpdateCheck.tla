---------------------------- MODULE MCUpdateCheck ----------------------------
(***************************************************************************)
(* Values of the constants of UpdateCheck for its runs, and a specification  *)
(* with fewer sessions: three that all race are too many states, so a run    *)
(* takes a check and a request, or two checks, of the sessions there are.    *)
(***************************************************************************)
EXTENDS UpdateCheck, TLC

Rolling == [rolling |-> TRUE, tagDigests |-> TRUE, reportsDigest |-> TRUE]
RollingUnreported == [Rolling EXCEPT !.reportsDigest = FALSE]
Versioned == [Rolling EXCEPT !.rolling = FALSE]
VersionedNoDigests == [Versioned EXCEPT !.tagDigests = FALSE]
VersionedUnreported == [Versioned EXCEPT !.reportsDigest = FALSE]

EveryImage == {Rolling, RollingUnreported, Versioned, VersionedNoDigests, VersionedUnreported}
LiveImages == {Rolling, RollingUnreported, VersionedNoDigests}

------------------------------------------------------------------------------
VARIABLE team     \* the sessions that may be opened

(***************************************************************************)
(* Two checks overlap where the list of a direct host moves the copy between  *)
(* loading and answering, and where the answers differ in two columns.       *)
(***************************************************************************)
Teams ==
    {{k, r} : k \in Checks, r \in Requests}
        \cup (IF <<img, host_type>> \in {<<Rolling, "direct">>, <<Versioned, "agent">>}
              THEN {Checks} ELSE {})

TeamInit == Init /\ team \in Teams

TeamNext ==
    /\ Next
    /\ \A s \in Sessions \ team : sess'[s] = Idle
    /\ UNCHANGED team

TeamSpec == TeamInit /\ [][TeamNext]_<<vars, team>>

FairTeamSpec == TeamSpec /\ Fairness

CheckSymmetry == Permutations(Checks)

==============================================================================
