----------------------------- MODULE MCCallsigns ----------------------------
(***************************************************************************)
(* Rosters with a rank that has a callsign block and one that has none,    *)
(* where nothing fails and nobody edits a callsign.                        *)
(***************************************************************************)
EXTENDS Rosters

vars == <<surroundings, rosterVars>>

MCRoleOf == [r \in Rank |-> IF r = "officer" THEN "ro" ELSE "rc"]
MCGate == [r \in Rank |-> IF r = "officer" THEN {} ELSE {"ro"}]
MCPosition == [r \in Rank |-> IF r = "officer" THEN 1 ELSE 2]
MCBlock == [r \in Rank |-> IF r = "officer" THEN {1, 2} ELSE {}]
MCRolesAtFirst == [m \in RosterMember |-> IF m = "m1" THEN {"ro"} ELSE {"ro", "rc"}]

Spec == SurroundingsInit /\ RostersInit /\ [][RostersNext]_vars
=============================================================================
