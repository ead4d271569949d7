----------------------------- MODULE MCCommunity ----------------------------
(***************************************************************************)
(* What the platform keeps in step with the community: rosters, names,     *)
(* mappings, accounts with their access, and rights, on a small instance.  *)
(* As in MCDirect, focus chooses the component that a behaviour is about:  *)
(* they share no variable but what may still fail.                         *)
(***************************************************************************)
EXTENDS Rosters, NameMirror, Mappings, Members, Permissions

VARIABLE focus

vars == <<surroundings, rosterVars, nameVars, mappingVars, memberVars, permissionVars, focus>>

\* The first member is an officer, the others are chiefs, who are officers too.
MCRoleOf == [r \in Rank |-> IF r = "officer" THEN "ro" ELSE "rc"]
MCGate == [r \in Rank |-> IF r = "officer" THEN {} ELSE {"ro"}]
MCPosition == [r \in Rank |-> IF r = "officer" THEN 1 ELSE 2]
MCBlock == [r \in Rank |-> IF r = "officer" THEN {1, 2} ELSE {3}]
MCOpenBlock == [r \in Rank |-> IF r = "officer" THEN {1, 2} ELSE {}]
MCRolesAtFirst == [m \in RosterMember |-> IF m = "m1" THEN {"ro"} ELSE {"ro", "rc"}]
MCByHand == {1}

\* Two rosters of the main guild, and one of the department's.
MCRosterGuild == [r \in NameRoster |-> IF r = "police" THEN "dept" ELSE "main"]
MCOrder == [r \in NameRoster |-> IF r = "staff" THEN 1 ELSE IF r = "police" THEN 2 ELSE 3]
MCPriority == [r \in NameRoster |-> "NONE"]
MCRankedAtFirst == {{"staff", "police"}}

\* A circle of three mappings: one is enabled, one waits for a signature, one
\* is not there yet.  The second administrator has only the department's guild.
MCRoleGuild == [r \in MapRole |-> IF r = "A" THEN "main" ELSE "dept"]
MCSourceOf == [k \in MapKey |-> CASE k = "ab" -> "A" [] k = "bc" -> "B" [] k = "ca" -> "C"]
MCTargetOf == [k \in MapKey |-> CASE k = "ab" -> "B" [] k = "bc" -> "C" [] k = "ca" -> "A"]
MCMayMap == [a \in Administrator |-> IF a = "x" THEN MapGuild ELSE {"dept"}]
MCMappingsAtFirst ==
    {[k \in MapKey |-> [state |-> IF k = "ca" THEN "none" ELSE "live", twoWay |-> FALSE,
                        enabled |-> k = "ab", signed |-> FALSE]]}
MCRequestsAtFirst == << [mapping |-> "bc", by |-> "x", status |-> "PENDING", votes |-> {}] >>
MCProtectionAtFirst == [r \in MapRole |-> IF r = "C" THEN "TWO_PERSON" ELSE "NONE"]

MCLinkedAtFirst == << [account |-> "a1", user |-> "u1"] >>

MCStoredLevel == [p \in Person |-> IF p = "manager" THEN 80 ELSE 0]
MCMinLevel == [c \in Capability |-> IF c = "member.view" THEN 0 ELSE 60]

\* The components out of focus stay as they began.
TypeOK ==
    /\ SurroundingsTypeOK
    /\ focus = "rosters" => RostersTypeOK
    /\ focus = "names" => NamesTypeOK
    /\ focus = "mappings" => MappingsTypeOK
    /\ focus = "members" => MembersTypeOK
    /\ focus = "permissions" => PermissionsTypeOK

Init ==
    /\ focus \in {"rosters", "names", "mappings", "members", "permissions"}
    /\ SurroundingsInit
    /\ RostersInit
    /\ NamesInit
    /\ MappingsInit
    /\ MembersInit
    /\ PermissionsInit

Next ==
    /\ UNCHANGED focus
    /\ \/ focus = "rosters" /\ RostersNext
          /\ UNCHANGED <<nameVars, mappingVars, memberVars, permissionVars>>
       \/ focus = "names" /\ NamesNext
          /\ UNCHANGED <<rosterVars, mappingVars, memberVars, permissionVars>>
       \/ focus = "mappings" /\ MappingsNext
          /\ UNCHANGED <<rosterVars, nameVars, memberVars, permissionVars>>
       \/ focus = "members" /\ MembersNext
          /\ UNCHANGED <<rosterVars, nameVars, mappingVars, permissionVars>>
       \/ focus = "permissions" /\ PermissionsNext
          /\ UNCHANGED <<rosterVars, nameVars, mappingVars, memberVars>>

Fairness ==
    /\ WF_<<surroundings, rosterVars>>(focus = "rosters" /\ TakeAnyRosterJob)
    /\ RosterJobsEnd
    /\ WF_<<surroundings, rosterVars>>(focus = "rosters" /\ SweepRosters /\ Passes)
    /\ WF_<<surroundings, rosterVars>>(focus = "rosters" /\ RosterServices)
    /\ \A a \in Actor : RenamingEnds(a)
    /\ WF_<<surroundings, nameVars>>(focus = "names" /\ SweepNames)
    /\ \A h \in NameHandler : WF_<<surroundings, nameVars>>(focus = "names" /\ HandleAnyNickname(h))
    /\ \A r \in NameRoster : NameJobTaken(r)
    /\ WF_<<surroundings, mappingVars>>(focus = "mappings" /\ BeginValidation)
    /\ ValidationEnds
    /\ WF_<<surroundings, memberVars>>(focus = "members" /\ AccessSweep)

Spec == Init /\ [][Next]_vars /\ Fairness

-----------------------------------------------------------------------------

\* A roster places nobody whom Discord shows without the roles of the place, and
\* takes no place away from one who has them (roster-runner.js).
RosterPlacesKept == [][PlacesKept]_vars

\* Once nothing is edited any more and nothing fails, the rosters show whom the
\* roles rank, each with a callsign of his rank's block (roster-runner.js).
RostersSettle == <>[](focus = "rosters" => RosterAgrees)

\* The platform's own renames, each of which Discord announces like an edit, come
\* to an end; and where no two of them overlapped, every server shows the
\* member's name in the form that is his there (event-service.js, roster-runner.js).
NamesSettle ==
    /\ <>[][nick' = nick]_vars
    /\ <>[](focus = "names" /\ pristine => NamesAgree)

\* In the end no mapping is enabled whose guilds or roles are gone
\* (maintenance-service.js).
MappingsMended == <>[](focus = "mappings" => NothingOrphaned)

\* In the end website access that a tier gave follows the roles that confer it
\* (access-service.js).
AccessSettles == <>[](focus = "members" => AccessFollowsRoles)
=============================================================================
