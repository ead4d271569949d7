----------------------------- MODULE Permissions ----------------------------
(***************************************************************************)
(* Who may do what: assignments of capabilities in a scope, with a ceiling *)
(* on the authority of the members they reach, and how they are delegated. *)
(* A command works with the snapshot of its caller that was loaded when it *)
(* began; the confirmation it then waits for may take minutes.  A row is   *)
(* unique for its holder, capability and scope, and used again when a      *)
(* right that was revoked is granted once more.                            *)
(*                                                                         *)
(* Nothing on the platform changes a stored authority level but the        *)
(* reconciliation of the root administrators.  held is history: the rights *)
(* each person has had.  Definitions whose names begin with Faulty are     *)
(* seeded faults.                                                          *)
(***************************************************************************)
EXTENDS Surroundings, FiniteSets

CONSTANTS
    Person,             \* users
    RootPerson,         \* those named in GLOBAL_ADMIN_DISCORD_IDS
    StoredLevel,        \* authority level of each, as stored in the beginning
    ScopeGuild,         \* approved guilds a right may be limited to
    Capability,         \* the catalogue
    MinLevel,           \* authority each capability takes
    GuildCapability,    \* capabilities that may be held for one guild
    TierCapability,     \* what the access tier confers on those who have its role
    Ceiling,            \* ceilings asked for
    MaxPermissionOps    \* bound: commands, changes of tier roles, and expiries

Global == "GLOBAL"
Unlimited == 101        \* no ceiling: above every level
Scope == {Global} \cup ScopeGuild
AdminLevel == 100
Bootstrap == "bootstrap"   \* the granter of the root administrators' rows

ASSUME PermissionsConstants ==
    /\ RootPerson \subseteq Person /\ Bootstrap \notin Person /\ Global \notin ScopeGuild
    /\ StoredLevel \in [Person -> 0 .. AdminLevel] /\ MinLevel \in [Capability -> 0 .. AdminLevel]
    /\ GuildCapability \subseteq Capability /\ TierCapability \subseteq Capability \ {"access.manage"}
    /\ Ceiling \subseteq 0 .. AdminLevel
    /\ MaxPermissionOps \in Nat

VARIABLES
    level,          \* stored authority levels
    assignments,    \* PermissionAssignment rows, by their unique key
    tierPeople,     \* people with the role of the access tier
    actors,         \* snapshots the commands on their way work with
    writing,        \* what each of them is about to write
    permissionOps,  \* what is left of the bound
    held            \* history: see above

permissionVars == <<level, assignments, tierPeople, actors, writing, permissionOps, held>>

Right == [capability : Capability, scope : Scope, ceiling : Ceiling \cup {Unlimited}]
RowKey == Person \X Capability \X Scope
NoActor == [step |-> "idle"]

PermissionsTypeOK ==
    /\ level \in [Person -> 0 .. AdminLevel]
    /\ DOMAIN assignments \subseteq RowKey
    /\ \A k \in DOMAIN assignments :
           /\ assignments[k].ceiling \in Ceiling \cup {Unlimited}
           /\ assignments[k].by \in Person \cup {Bootstrap}
           /\ assignments[k].revoked \in BOOLEAN /\ assignments[k].lapsed \in BOOLEAN
           /\ k[3] # Global => k[2] \in GuildCapability
    /\ tierPeople \subseteq Person
    /\ DOMAIN actors = Person /\ DOMAIN writing = Person
    /\ \A p \in Person : /\ \/ actors[p] = NoActor
                            \/ actors[p].level \in 0 .. AdminLevel /\ actors[p].rights \subseteq Right
                         /\ writing[p].step \in {"idle", "grant", "revoke"}
    /\ permissionOps \in 0 .. MaxPermissionOps
    /\ held \in [Person -> SUBSET Right]

-----------------------------------------------------------------------------

AdminRow == [ceiling |-> Unlimited, by |-> Bootstrap, revoked |-> FALSE, lapsed |-> FALSE]

InForce(rows, k) == k \in DOMAIN rows /\ ~rows[k].revoked /\ ~rows[k].lapsed

\* augmentActorWithTier: what the tier confers holds everywhere, with no ceiling.
TierRights == [capability : TierCapability, scope : {Global}, ceiling : {Unlimited}]
TierLevel == CHOOSE n \in {0} \cup {MinLevel[c] : c \in TierCapability} :
                 \A c \in TierCapability : MinLevel[c] <= n

\* loadActor: the rows in force.
Assigned(rows, p) ==
    {[capability |-> k[2], scope |-> k[3], ceiling |-> rows[k].ceiling] :
        k \in {j \in DOMAIN rows : j[1] = p /\ InForce(rows, j)}}

RightsOf(rows, tier, p) == Assigned(rows, p) \cup (IF p \in tier THEN TierRights ELSE {})

PermissionsInit ==
    /\ level = [p \in Person |-> IF p \in RootPerson THEN AdminLevel ELSE StoredLevel[p]]
    /\ assignments = [k \in RootPerson \X Capability \X {Global} |-> AdminRow]
    /\ tierPeople = {}
    /\ actors = [p \in Person |-> NoActor] /\ writing = [p \in Person |-> NoActor]
    /\ permissionOps = MaxPermissionOps
    /\ held = [p \in Person |-> Assigned(assignments, p)]

Remember == held' = [p \in Person |-> held[p] \cup RightsOf(assignments', tierPeople', p)]

\* resolveDiscordActor; roles that cannot be read confer nothing.
LoadActorOf(p) ==
    /\ actors[p] = NoActor
    /\ permissionOps > 0 /\ permissionOps' = permissionOps - 1
    /\ \E tier \in {tierPeople, {}} :
           /\ actors' = [actors EXCEPT ![p] =
                  [step |-> "loaded", rights |-> RightsOf(assignments, tier, p),
                   level |-> IF p \in tier /\ TierLevel > level[p] THEN TierLevel ELSE level[p]]]
           /\ \/ tier = tierPeople /\ Works
              \/ tier # tierPeople /\ Fails
    /\ UNCHANGED <<level, assignments, tierPeople, writing, held>>

\* scopeCovers and evaluate; a right whose scope the capability does not
\* support counts for nothing.
ScopeCovers(right, scope) == right.scope \in {Global, scope}

Authorized(actor, p, capability, scope, target) ==
    /\ target # p
    /\ actor.level >= MinLevel[capability] /\ level[target] < actor.level
    /\ \E right \in actor.rights :
           /\ right.capability = capability
           /\ right.scope = Global \/ capability \in GuildCapability
           /\ ScopeCovers(right, scope)
           /\ level[target] <= right.ceiling

FaultyCanGrant(actor, p, target, right) ==
    LET same == {r \in actor.rights : r.capability = right.capability}
    IN  /\ right.scope = Global \/ right.capability \in GuildCapability
        /\ Authorized(actor, p, "permission.grant", right.scope, target)
        /\ \E r \in same : right.ceiling <= r.ceiling
        /\ right.ceiling # Unlimited => right.ceiling < actor.level

\* assertCanGrant.
CanGrant(actor, p, target, right) ==
    LET covering == {r \in actor.rights : r.capability = right.capability /\ ScopeCovers(r, right.scope)}
    IN  /\ right.scope = Global \/ right.capability \in GuildCapability
        /\ Authorized(actor, p, "permission.grant", right.scope, target)
        /\ \E r \in covering : right.ceiling <= r.ceiling
        /\ right.ceiling # Unlimited => right.ceiling < actor.level

Stands(k) == k \in DOMAIN assignments /\ ~assignments[k].revoked

\* grantPermission checks everything, and that no right stands in the row.
BeginGrant(p, target, right) ==
    LET k == <<target, right.capability, right.scope>>
    IN  /\ actors[p] # NoActor /\ writing[p] = NoActor
        /\ level[target] >= MinLevel[right.capability]
        /\ CanGrant(actors[p], p, target, right)
        /\ ~Stands(k)
        /\ writing' = [writing EXCEPT ![p] = [step |-> "grant", key |-> k, ceiling |-> right.ceiling,
                                              existing |-> k \in DOMAIN assignments]]
        /\ Works
        /\ UNCHANGED <<level, assignments, tierPeople, actors, permissionOps, held>>

Done(p) == actors' = [actors EXCEPT ![p] = NoActor] /\ writing' = [writing EXCEPT ![p] = NoActor]

\* The transaction writes all of the row, or fails where another created it.
CommitGrant(p) ==
    LET w == writing[p]
        row == [ceiling |-> w.ceiling, by |-> p, revoked |-> FALSE, lapsed |-> FALSE]
    IN  /\ w.step = "grant" /\ Done(p)
        /\ assignments' =
               IF ~w.existing /\ w.key \in DOMAIN assignments THEN assignments
               ELSE [k \in DOMAIN assignments \cup {w.key} |-> IF k = w.key THEN row ELSE assignments[k]]
        /\ Works /\ UNCHANGED <<level, tierPeople, permissionOps>> /\ Remember

\* revokePermission (assertCanRevoke).
BeginRevoke(p, k) ==
    /\ actors[p] # NoActor /\ writing[p] = NoActor
    /\ Stands(k)
    /\ Authorized(actors[p], p, "permission.revoke", k[3], k[1])
    /\ writing' = [writing EXCEPT ![p] = [step |-> "revoke", key |-> k]]
    /\ Works
    /\ UNCHANGED <<level, assignments, tierPeople, actors, permissionOps, held>>

CommitRevoke(p) ==
    /\ writing[p].step = "revoke" /\ Done(p)
    /\ assignments' = [assignments EXCEPT ![writing[p].key].revoked = TRUE]
    /\ Works /\ UNCHANGED <<level, tierPeople, permissionOps>> /\ Remember

\* The time a right was given for runs out.
Lapse(k) ==
    /\ k \in DOMAIN assignments /\ assignments[k].by # Bootstrap /\ ~assignments[k].lapsed
    /\ permissionOps > 0 /\ permissionOps' = permissionOps - 1
    /\ assignments' = [assignments EXCEPT ![k].lapsed = TRUE]
    /\ Works /\ UNCHANGED <<level, tierPeople, actors, writing>> /\ Remember

\* reconcileGlobalAdmins, whenever the bot starts: a row that exists is only
\* freed of its revocation.
ReconcileRoot(p) ==
    /\ p \in RootPerson /\ permissionOps > 0 /\ permissionOps' = permissionOps - 1
    /\ level' = [level EXCEPT ![p] = AdminLevel]
    /\ assignments' =
           [k \in DOMAIN assignments \cup ({p} \X Capability \X {Global}) |->
               IF k \notin DOMAIN assignments THEN AdminRow
               ELSE IF k[1] = p /\ k[3] = Global THEN [assignments[k] EXCEPT !.revoked = FALSE]
               ELSE assignments[k]]
    /\ Works /\ UNCHANGED <<tierPeople, actors, writing>> /\ Remember

TierRoleChanges(p) ==
    /\ permissionOps > 0 /\ permissionOps' = permissionOps - 1
    /\ tierPeople' = IF p \in tierPeople THEN tierPeople \ {p} ELSE tierPeople \cup {p}
    /\ Works /\ UNCHANGED <<level, assignments, actors, writing>> /\ Remember

PermissionsNext ==
    \/ \E p \in Person :
           \/ LoadActorOf(p) \/ CommitGrant(p) \/ CommitRevoke(p) \/ ReconcileRoot(p) \/ TierRoleChanges(p)
           \/ \E target \in Person, right \in Right : BeginGrant(p, target, right)
           \/ \E k \in RowKey : BeginRevoke(p, k)
    \/ \E k \in RowKey : Lapse(k)

\* Nothing here depends on what fails.
PermissionsSpec == PermissionsInit /\ [][PermissionsNext]_permissionVars

-----------------------------------------------------------------------------

\* A right that stands in a row was its granter's to give: he has had the
\* capability in a scope and under a ceiling at least as wide, and the right to
\* grant in that scope.
NothingBeyondDelegation ==
    \A k \in DOMAIN assignments :
        assignments[k].by \in Person =>
            LET by == held[assignments[k].by]
            IN  /\ \E r \in by : /\ r.capability = k[2] /\ ScopeCovers(r, k[3])
                                 /\ assignments[k].ceiling <= r.ceiling
                /\ \E r \in by : r.capability = "permission.grant" /\ ScopeCovers(r, k[3])
=============================================================================
