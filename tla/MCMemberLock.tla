---------------------------- MODULE MCMemberLock ----------------------------
(* Three executions: two role syncs and a roster sync of one Discord        *)
(* account without a platform member, which all lock its Discord id.        *)
EXTENDS MemberLock

CONSTANTS sync1, sync2, roster, discordKey

MCClient == {sync1, sync2, roster}
MCKeyOf == [c \in MCClient |-> discordKey]
=============================================================================
