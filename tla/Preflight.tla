----------------------------- MODULE Preflight ------------------------------
(***************************************************************************)
(* What stands between the platform and a change in Discord: the checks    *)
(* made before a call, what Discord answers to the call, and how far an    *)
(* operator may reach.                                                     *)
(*                                                                         *)
(* A guild, a member and a role are what the checks tell apart, so all     *)
(* three are one set of obstacles, the facts of Discord that hold now.     *)
(* A list of checks names the issue each obstacle is reported as; the      *)
(* first one found is the answer.                                          *)
(***************************************************************************)
EXTENDS Integers, Sequences

Obstacle == {"unknown", "unavailable", "absent", "cannotManage", "cannotRename", "left",
             "deleted", "everyone", "integration", "aboveBot", "protected", "owner",
             "memberAboveBot"}

OK == "OK"

\* The issue of the first check that meets one of the obstacles.
FirstIssue(checks, obstacles) ==
    LET met == {i \in DOMAIN checks : checks[i][1] \in obstacles}
    IN  IF met = {} THEN OK ELSE checks[CHOOSE i \in met : \A j \in met : i <= j][2]

\* checkRoleOperation.
RoleChecks ==
    << <<"unknown", "BOT_NOT_IN_GUILD">>, <<"unavailable", "GUILD_UNAVAILABLE">>,
       <<"absent", "BOT_NOT_IN_GUILD">>, <<"cannotManage", "BOT_MISSING_PERMISSION">>,
       <<"left", "MEMBER_NOT_IN_GUILD">>, <<"deleted", "ROLE_DELETED">>,
       <<"everyone", "INVALID_ROLE_REFERENCE">>, <<"integration", "INTEGRATION_MANAGED_ROLE">>,
       <<"aboveBot", "ROLE_ABOVE_BOT">>, <<"protected", "PROTECTED_ROLE_VIOLATION">> >>

CheckRoleOperation(obstacles, allowProtected) ==
    FirstIssue(RoleChecks, IF allowProtected THEN obstacles \ {"protected"} ELSE obstacles)

\* checkNicknameOperation.
NicknameChecks ==
    << <<"unknown", "BOT_NOT_IN_GUILD">>, <<"unavailable", "GUILD_UNAVAILABLE">>,
       <<"absent", "BOT_NOT_IN_GUILD">>, <<"cannotRename", "BOT_MISSING_PERMISSION">>,
       <<"left", "MEMBER_NOT_IN_GUILD">>, <<"owner", "MEMBER_ABOVE_BOT">>,
       <<"memberAboveBot", "MEMBER_ABOVE_BOT">> >>

CheckNicknameOperation(obstacles) == FirstIssue(NicknameChecks, obstacles)

\* assertRoleMappable: a guild that is known but unavailable passes.
MappableChecks ==
    << <<"unknown", "RoleHierarchyError">>, <<"absent", "RoleHierarchyError">>,
       <<"cannotManage", "RoleHierarchyError">>, <<"deleted", "RoleHierarchyError">>,
       <<"everyone", "RoleHierarchyError">>, <<"integration", "ProtectedRoleError">>,
       <<"aboveBot", "RoleHierarchyError">>, <<"protected", "ProtectedRoleError">> >>

AssertRoleMappable(obstacles, allowProtected) ==
    FirstIssue(MappableChecks, IF allowProtected THEN obstacles \ {"protected"} ELSE obstacles)

\* describeRoleProblem, for the daily report on managed roles.
ManagedRoleChecks ==
    << <<"unknown", "BOT_NOT_IN_GUILD">>, <<"absent", "BOT_NOT_IN_GUILD">>,
       <<"deleted", "ROLE_DELETED">>, <<"integration", "INTEGRATION_MANAGED_ROLE">>,
       <<"aboveBot", "ROLE_ABOVE_BOT">>, <<"cannotManage", "BOT_MISSING_PERMISSION">> >>

DescribeRoleProblem(obstacles) == FirstIssue(ManagedRoleChecks, obstacles)

-----------------------------------------------------------------------------

\* The obstacles for which Discord itself refuses a role change, a rename and a
\* ban, each with the code it answers.
RoleRefusals ==
    << <<"unknown", "UNKNOWN_GUILD">>, <<"absent", "UNKNOWN_GUILD">>,
       <<"unavailable", "UNAVAILABLE">>, <<"left", "UNKNOWN_MEMBER">>,
       <<"deleted", "UNKNOWN_ROLE">>, <<"everyone", "UNKNOWN_ROLE">>,
       <<"cannotManage", "MISSING_PERMISSIONS">>, <<"integration", "MISSING_PERMISSIONS">>,
       <<"aboveBot", "MISSING_PERMISSIONS">> >>

\* mapDiscordError: the issue a refusal is reported as.
IssueOfCode ==
    [UNKNOWN_GUILD |-> "GUILD_UNAVAILABLE", UNKNOWN_MEMBER |-> "MEMBER_NOT_IN_GUILD",
     UNKNOWN_USER |-> "MEMBER_NOT_IN_GUILD", UNKNOWN_ROLE |-> "ROLE_DELETED",
     MISSING_PERMISSIONS |-> "BOT_MISSING_PERMISSION", MISSING_ACCESS |-> "BOT_MISSING_PERMISSION",
     RATE_LIMITED |-> "RATE_LIMITED", TIMEOUT |-> "API_TIMEOUT", UNAVAILABLE |-> "DISCORD_ERROR"]

\* Which issues the error carries as worth a retry.
Retryable(issue) == issue \in {"RATE_LIMITED", "API_TIMEOUT", "DISCORD_ERROR"}

\* addRole and removeRole of the gateway: the issue the call throws, or OK.
RoleCallIssue(obstacles) ==
    LET code == FirstIssue(RoleRefusals, obstacles)
    IN  IF code = OK THEN OK ELSE IssueOfCode[code]

-----------------------------------------------------------------------------

\* What assertActorAboveRole reads: whether there is an acting person at all
\* and they own the guild, whether the roles could be listed and the actor is a
\* member, the positions of the actor's highest role and of the role (-1: none,
\* or not placed).
Standing == [actor : BOOLEAN, owner : BOOLEAN, rolesRead : BOOLEAN, member : BOOLEAN,
             highest : Int, position : Int]

\* assertActorAboveRole: what cannot be compared is let through.
ActorAboveRole(s) ==
    \/ ~s.actor
    \/ s.owner
    \/ ~s.rolesRead
    \/ s.member /\ (s.position = -1 \/ s.position < s.highest)
=============================================================================
