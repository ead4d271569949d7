------------------------------ MODULE Mappings ------------------------------
(***************************************************************************)
(* Role mappings: how they are created, changed, enabled and disabled, the *)
(* check that they close no loop, the second person who has to sign the    *)
(* sensitive ones, and what switches a mapping off when a guild or a role  *)
(* under it goes away.                                                     *)
(*                                                                         *)
(* A command reads and validates first and writes in a transaction later,  *)
(* so that others may write in between.  staleLoops and staleSigns are     *)
(* history: the mappings that were last written on such outdated reading   *)
(* of the other mappings, or of the protection of their roles.             *)
(* Definitions whose names begin with Faulty are seeded faults.            *)
(***************************************************************************)
EXTENDS Surroundings, FiniteSets, Sequences

CONSTANTS
    MapGuild,           \* guilds on the allowlist in the beginning
    MapRole,            \* roles, each of one guild
    RoleGuild,          \* its guild
    MapKey,             \* the mappings there may be
    SourceOf, TargetOf, \* their roles, by which a mapping is unique
    Administrator,      \* people who change mappings
    MayMap,             \* the guilds each of them may do so in
    MayApprove,         \* those with mapping.approve
    MappingsAtFirst,    \* the mappings there are in the beginning
    RequestsAtFirst,    \* the requests for approval
    ProtectionAtFirst,  \* the protection of each role then
    MaxMappingOps,      \* bound: commands
    MaxUpsets           \* bound: what happens to guilds, roles and protections

TwoPerson == "TWO_PERSON"
ProtectionLevel == {"NONE", "ELEVATED", TwoPerson}

Mapping == [state : {"none", "live", "deleted"}, twoWay : BOOLEAN, enabled : BOOLEAN, signed : BOOLEAN]

Request == [mapping : MapKey, by : Administrator,
            status : {"PENDING", "APPROVED", "REJECTED", "EXPIRED"},
            votes : SUBSET [voter : Administrator, approve : BOOLEAN]]

RolesOf(k) == {SourceOf[k], TargetOf[k]}

\* Somebody else than the one who asked has approved one of these requests for k.
SignedByAnother(k, rows) ==
    \E i \in DOMAIN rows : /\ rows[i].mapping = k
                           /\ \E v \in rows[i].votes : v.approve /\ v.voter # rows[i].by

ASSUME MappingsConstants ==
    /\ RoleGuild \in [MapRole -> MapGuild]
    /\ SourceOf \in [MapKey -> MapRole] /\ TargetOf \in [MapKey -> MapRole]
    /\ \A j, k \in MapKey : SourceOf[j] = SourceOf[k] /\ TargetOf[j] = TargetOf[k] => j = k
    /\ MayMap \in [Administrator -> SUBSET MapGuild] /\ MayApprove \subseteq Administrator
    /\ MappingsAtFirst \subseteq [MapKey -> Mapping]
    /\ ProtectionAtFirst \in [MapRole -> ProtectionLevel]
    /\ MaxMappingOps \in Nat /\ MaxUpsets \in Nat

\* The mappings in the beginning were made by the same rules.
ASSUME SignaturesAtFirst ==
    /\ RequestsAtFirst \in Seq(Request)
    /\ \A m \in MappingsAtFirst, k \in MapKey :
           \/ m[k].signed
           \/ /\ m[k].state = "live" /\ m[k].enabled
              /\ \E r \in RolesOf(k) : ProtectionAtFirst[r] = TwoPerson
           => SignedByAnother(k, RequestsAtFirst)

VARIABLES
    mappings,       \* RoleMapping rows; signed is approvedAt
    requests,       \* PendingApproval rows, in the order of their creation
    protection,     \* protection level of each role
    guildState,     \* each guild's place on the allowlist
    syncedGuilds,   \* guilds with syncEnabled
    liveRoles,      \* Discord: roles there are
    deletions,      \* Discord: events of deleted roles on their way to the bot
    mapping,        \* what each administrator's command has read
    checking,       \* the mappings a validation has still to look at
    mappingOps, upsets, \* what is left of the bounds
    staleLoops, staleSigns  \* history: see above

mappingVars == <<mappings, requests, protection, guildState, syncedGuilds, liveRoles, deletions,
                 mapping, checking, mappingOps, upsets, staleLoops, staleSigns>>

GuildsOf(k) == {RoleGuild[r] : r \in RolesOf(k)}
Enabled == {k \in MapKey : mappings[k].state = "live" /\ mappings[k].enabled}
AtRest == [op |-> "none"]
NothingToCheck == [left |-> {}, guilds |-> [g \in MapGuild |-> "approved"], synced |-> MapGuild]

MappingsTypeOK ==
    /\ mappings \in [MapKey -> Mapping]
    /\ \A i \in DOMAIN requests : requests[i] \in Request
    /\ protection \in [MapRole -> ProtectionLevel]
    /\ guildState \in [MapGuild -> {"approved", "disabled", "removed"}] /\ syncedGuilds \subseteq MapGuild
    /\ liveRoles \subseteq MapRole /\ deletions \subseteq MapRole
    /\ \A a \in Administrator :
           \/ mapping[a] = AtRest
           \/ mapping[a].op = "vote" /\ mapping[a].request \in DOMAIN requests /\ mapping[a].approve \in BOOLEAN
           \/ /\ mapping[a].op \in {"create", "update", "enable", "disable", "delete"} /\ mapping[a].key \in MapKey
              /\ mapping[a].row \in Mapping /\ mapping[a].sensitive \in BOOLEAN
    /\ DOMAIN mapping = Administrator
    /\ checking \in [left : SUBSET MapKey, guilds : [MapGuild -> {"approved", "disabled", "removed"}],
                    synced : SUBSET MapGuild]
    /\ mappingOps \in 0 .. MaxMappingOps /\ upsets \in 0 .. MaxUpsets
    /\ staleLoops \subseteq MapKey /\ staleSigns \subseteq MapKey

MappingsInit ==
    /\ mappings \in MappingsAtFirst
    /\ requests = RequestsAtFirst
    /\ protection = ProtectionAtFirst
    /\ guildState = [g \in MapGuild |-> "approved"] /\ syncedGuilds = MapGuild
    /\ liveRoles = MapRole /\ deletions = {}
    /\ mapping = [a \in Administrator |-> AtRest]
    /\ checking = NothingToCheck
    /\ mappingOps = MaxMappingOps /\ upsets = MaxUpsets
    /\ staleLoops = {} /\ staleSigns = {}

-----------------------------------------------------------------------------

Edge == [of : MapKey, from : MapRole, to : MapRole]

\* buildMappingGraph: the edges of mappings, given which of them are two-way.
EdgesOf(keys, twoWays) ==
    {[of |-> k, from |-> SourceOf[k], to |-> TargetOf[k]] : k \in keys}
    \cup {[of |-> k, from |-> TargetOf[k], to |-> SourceOf[k]] : k \in keys \cap twoWays}

\* searchBack: what the search visits is a role and whether an edge of another
\* mapping than the candidate was used on the way to it.
Visits(edges, candidate, visited) ==
    /\ <<TargetOf[candidate], FALSE>> \in visited
    /\ \A e \in edges, used \in BOOLEAN :
           <<e.from, used>> \in visited => <<e.to, used \/ e.of # candidate>> \in visited

\* detectMappingCycle: a mapping of a role to itself, or a way back to the
\* candidate's source that uses another mapping.
ClosesLoop(edges, candidate) ==
    \/ SourceOf[candidate] = TargetOf[candidate]
    \/ \A visited \in SUBSET (MapRole \X BOOLEAN) :
           Visits(edges, candidate, visited) => <<SourceOf[candidate], TRUE>> \in visited

TwoWays == {k \in MapKey : mappings[k].twoWay}

\* The edges a candidate is checked against, with its own.
EdgesWith(k, twoWay) ==
    EdgesOf(Enabled \cup {k}, (TwoWays \ {k}) \cup (IF twoWay THEN {k} ELSE {}))

Sensitive(k) == \E r \in RolesOf(k) : protection[r] = TwoPerson

\* What Discord and the roles' protection allow, given a live connection
\* (assertRoleMappable) or not.
Mappable(a, k, live) ==
    /\ \A g \in GuildsOf(k) : guildState[g] = "approved"
    /\ (\E r \in RolesOf(k) : protection[r] = "ELEVATED") => a \in MayApprove
    /\ live => RolesOf(k) \subseteq liveRoles

\* validateMapping.
ValidateMapping(a, k, twoWay, live) == Mappable(a, k, live) /\ ~ClosesLoop(EdgesWith(k, twoWay), k)

AuthorizeBothSides(a, k) == GuildsOf(k) \subseteq MayMap[a]

-----------------------------------------------------------------------------

NoUpset == UNCHANGED <<protection, guildState, syncedGuilds, liveRoles, deletions, upsets>>
NoHistory == UNCHANGED <<staleLoops, staleSigns>>

Free(a) == mapping[a] = AtRest /\ mappingOps > 0

\* A command has read what it needs and goes on to write.
Begins(a, command) ==
    /\ mappingOps' = mappingOps - 1
    /\ mapping' = [mapping EXCEPT ![a] = command]
    /\ NoUpset /\ NoHistory /\ Works
    /\ UNCHANGED <<mappings, requests, checking>>

Reading(op, k, row) == [op |-> op, key |-> k, row |-> row, sensitive |-> Sensitive(k),
                        before |-> mappings[k], edges |-> EdgesWith(k, row.twoWay)]

\* createMapping, from the bot (live) or from the website: enabled at once only
\* if it could be verified and nobody else has to sign it.
BeginCreate(a, k, twoWay, live, wanted) ==
    /\ AuthorizeBothSides(a, k)
    /\ mappings[k].state # "live"
    /\ ValidateMapping(a, k, twoWay, live)
    /\ Begins(a, Reading("create", k, [state |-> "live", twoWay |-> twoWay, signed |-> FALSE,
                                       enabled |-> wanted /\ live /\ ~Sensitive(k)]))

FaultyBeginUpdate(a, k, twoWay, live) ==
    /\ mappings[k].state = "live"
    /\ AuthorizeBothSides(a, k)
    /\ Begins(a, Reading("update", k, [mappings[k] EXCEPT !.twoWay = twoWay]))

\* updateMapping: an enabled mapping is validated again when its direction changes.
BeginUpdate(a, k, twoWay, live) ==
    /\ mappings[k].state = "live"
    /\ AuthorizeBothSides(a, k)
    /\ mappings[k].enabled /\ twoWay # mappings[k].twoWay => ValidateMapping(a, k, twoWay, live)
    /\ Begins(a, Reading("update", k, [mappings[k] EXCEPT !.twoWay = twoWay]))

FaultyBeginEnable(a, k) ==
    /\ mappings[k].state = "live"
    /\ AuthorizeBothSides(a, k)
    /\ ValidateMapping(a, k, mappings[k].twoWay, TRUE)
    /\ Begins(a, Reading("enable", k, [mappings[k] EXCEPT !.enabled = TRUE]))

\* setMappingEnabled: always validated again, and never without a live connection.
BeginEnable(a, k) ==
    /\ mappings[k].state = "live"
    /\ AuthorizeBothSides(a, k)
    /\ ValidateMapping(a, k, mappings[k].twoWay, TRUE)
    /\ Sensitive(k) => mappings[k].signed
    /\ Begins(a, Reading("enable", k, [mappings[k] EXCEPT !.enabled = TRUE]))

\* setMappingEnabled and deleteMapping have nothing to check.
BeginDisable(a, k) ==
    /\ mappings[k].state = "live" /\ AuthorizeBothSides(a, k)
    /\ Begins(a, Reading("disable", k, [mappings[k] EXCEPT !.enabled = FALSE]))

BeginDelete(a, k) ==
    /\ mappings[k].state = "live" /\ AuthorizeBothSides(a, k)
    /\ Begins(a, Reading("delete", k, [mappings[k] EXCEPT !.enabled = FALSE, !.state = "deleted"]))

\* The columns a command writes, over what the row has become.
Written(c) ==
    LET current == mappings[c.key]
    IN  CASE c.op = "create" -> c.row
          [] c.op = "update" -> [current EXCEPT !.twoWay = c.row.twoWay]
          [] c.op \in {"enable", "disable"} -> [current EXCEPT !.enabled = c.row.enabled]
          [] c.op = "delete" -> [current EXCEPT !.enabled = FALSE, !.state = "deleted"]

\* Something has changed that the command's checks were about.
LoopsStale(c) == ~(EdgesOf(Enabled \cup {c.key}, TwoWays) \subseteq c.edges
                   \cup EdgesOf({c.key}, {c.key})) \/ mappings[c.key] # c.before
SignsStale(c) == Sensitive(c.key) # c.sensitive \/ mappings[c.key] # c.before

\* The transaction of a command.  A second creation of the same mapping fails.
CommitMapping(a) ==
    LET c == mapping[a]
        fails == c.op = "create" /\ mappings[c.key].state = "live" /\ c.before.state = "none"
    IN  /\ c.op \in {"create", "update", "enable", "disable", "delete"}
        /\ mapping' = [mapping EXCEPT ![a] = AtRest]
        /\ IF fails THEN UNCHANGED <<mappings, requests>> /\ NoHistory
           ELSE /\ mappings' = [mappings EXCEPT ![c.key] = Written(c)]
                /\ requests' = IF c.op = "create" /\ c.sensitive
                               THEN Append(requests, [mapping |-> c.key, by |-> a,
                                                      status |-> "PENDING", votes |-> {}])
                               ELSE requests
                /\ staleLoops' = IF LoopsStale(c) THEN staleLoops \cup {c.key} ELSE staleLoops
                /\ staleSigns' = IF SignsStale(c) THEN staleSigns \cup {c.key} ELSE staleSigns
        /\ NoUpset /\ Works
        /\ UNCHANGED <<checking, mappingOps>>

-----------------------------------------------------------------------------

\* loadApproval: whether a may decide on a request now.
MayDecide(a, i) ==
    /\ requests[i].status = "PENDING"
    /\ a \in MayApprove /\ a # requests[i].by

\* A request's time is over; the row says so once somebody looks at it.
RequestExpires(i) ==
    /\ requests[i].status = "PENDING"
    /\ requests' = [requests EXCEPT ![i].status = "EXPIRED"]
    /\ NoUpset /\ NoHistory /\ Works
    /\ UNCHANGED <<mappings, mapping, checking, mappingOps>>

\* approvePending and rejectPending read first; only an approval asks for an
\* earlier vote, the database refuses a second one of either kind.
BeginVote(a, i, approve) ==
    /\ MayDecide(a, i)
    /\ Begins(a, [op |-> "vote", request |-> i, approve |-> approve])

\* The transaction: one approval is enough, whatever was decided meanwhile.
CommitVote(a) ==
    LET c == mapping[a]
        r == requests[c.request]
    IN  /\ c.op = "vote"
        /\ mapping' = [mapping EXCEPT ![a] = AtRest]
        /\ IF \E v \in r.votes : v.voter = a THEN UNCHANGED <<requests, mappings>>
           ELSE /\ requests' = [requests EXCEPT ![c.request] =
                       [r EXCEPT !.votes = @ \cup {[voter |-> a, approve |-> c.approve]},
                                 !.status = IF c.approve THEN "APPROVED" ELSE "REJECTED"]]
                /\ mappings' = IF c.approve THEN [mappings EXCEPT ![r.mapping].signed = TRUE] ELSE mappings
        /\ NoUpset /\ NoHistory /\ Works
        /\ UNCHANGED <<checking, mappingOps>>

-----------------------------------------------------------------------------

Upset == upsets > 0 /\ upsets' = upsets - 1 /\ UNCHANGED <<requests, mapping, mappingOps>>
Disable(keys) == mappings' = [k \in MapKey |-> IF k \in keys THEN [mappings[k] EXCEPT !.enabled = FALSE]
                                               ELSE mappings[k]]

\* upsertManagedRole and removeManagedRole change what protects a role; an
\* enabled mapping of it stays enabled.
Protect(r, level) ==
    /\ protection' = [protection EXCEPT ![r] = level]
    /\ staleSigns' = staleSigns \cup {k \in Enabled : r \in RolesOf(k)}
    /\ Upset /\ Works
    /\ UNCHANGED <<mappings, guildState, syncedGuilds, liveRoles, deletions, checking, staleLoops>>

\* removeGuild switches the guild's mappings off in the same transaction.
RemoveGuild(g) ==
    /\ guildState[g] # "removed"
    /\ guildState' = [guildState EXCEPT ![g] = "removed"] /\ syncedGuilds' = syncedGuilds \ {g}
    /\ Disable({k \in Enabled : g \in GuildsOf(k)})
    /\ Upset /\ Works /\ NoHistory
    /\ UNCHANGED <<protection, liveRoles, deletions, checking>>

\* updateGuildSettings does not.
ChangeGuild(g) ==
    /\ guildState[g] # "removed"
    /\ \E state \in {"approved", "disabled"} : guildState' = [guildState EXCEPT ![g] = state]
    /\ syncedGuilds' \in {syncedGuilds \cup {g}, syncedGuilds \ {g}}
    /\ Upset /\ Works /\ NoHistory
    /\ UNCHANGED <<mappings, protection, liveRoles, deletions, checking>>

\* registerGuild, from the bot (live) or the website.
RegisterGuild(g, live) ==
    /\ guildState[g] # "approved"
    /\ guildState' = [guildState EXCEPT ![g] = "approved"]
    /\ syncedGuilds' \in {syncedGuilds \ {g}} \cup (IF live THEN {syncedGuilds \cup {g}} ELSE {})
    /\ Upset /\ Works /\ NoHistory
    /\ UNCHANGED <<mappings, protection, liveRoles, deletions, checking>>

\* A role is deleted in Discord; the event is lost if the bot is not there.
DeleteRole(r) ==
    /\ r \in liveRoles /\ liveRoles' = liveRoles \ {r}
    /\ (deletions' = deletions \cup {r} /\ Works) \/ (UNCHANGED deletions /\ Fails)
    /\ Upset /\ NoHistory
    /\ UNCHANGED <<mappings, protection, guildState, syncedGuilds, checking>>

\* handleRoleDeleted, unless the guild has been removed.
DisableMappingsOf(r) ==
    /\ r \in deletions /\ deletions' = deletions \ {r}
    /\ IF guildState[RoleGuild[r]] = "removed" THEN UNCHANGED mappings
       ELSE Disable({k \in MapKey : mappings[k].state = "live" /\ r \in RolesOf(k)})
    /\ Works /\ NoHistory
    /\ UNCHANGED <<requests, protection, guildState, syncedGuilds, liveRoles, mapping, checking,
                   mappingOps, upsets>>

\* runMappingValidation takes all enabled mappings, with their guilds as they
\* are, and looks at one after the other.
BeginValidation ==
    /\ checking.left = {} /\ Enabled # {}
    /\ checking' = [left |-> Enabled, guilds |-> guildState, synced |-> syncedGuilds]
    /\ NoUpset /\ NoHistory /\ Works
    /\ UNCHANGED <<mappings, requests, mapping, mappingOps>>

\* A side is broken for good if its guild was off the allowlist, or was
\* synchronized and the role cannot be seen in Discord.
Broken(k, guilds, synced) ==
    \E r \in RolesOf(k) : \/ guilds[RoleGuild[r]] # "approved"
                          \/ RoleGuild[r] \in synced /\ r \notin liveRoles

FaultyCheckMapping(k) ==
    /\ k \in checking.left /\ checking' = IF checking.left = {k} THEN NothingToCheck ELSE [checking EXCEPT !.left = @ \ {k}]
    /\ IF RolesOf(k) \cap liveRoles = {} THEN Disable({k}) ELSE UNCHANGED mappings
    /\ NoUpset /\ NoHistory /\ Works
    /\ UNCHANGED <<requests, mapping, mappingOps>>

\* What cannot be read counts as gone.
CheckMapping(k) ==
    /\ k \in checking.left /\ checking' = IF checking.left = {k} THEN NothingToCheck ELSE [checking EXCEPT !.left = @ \ {k}]
    /\ \/ (IF Broken(k, checking.guilds, checking.synced) THEN Disable({k}) ELSE UNCHANGED mappings) /\ Works
       \/ GuildsOf(k) \cap checking.synced # {} /\ Disable({k}) /\ Fails
    /\ NoUpset /\ NoHistory
    /\ UNCHANGED <<requests, mapping, mappingOps>>

-----------------------------------------------------------------------------

Command(a) ==
    \/ /\ Free(a)
       /\ \/ \E k \in MapKey :
                 \/ BeginEnable(a, k) \/ BeginDisable(a, k) \/ BeginDelete(a, k)
                 \/ \E twoWay, live \in BOOLEAN : \/ BeginUpdate(a, k, twoWay, live)
                                                  \/ \E wanted \in BOOLEAN : BeginCreate(a, k, twoWay, live, wanted)
          \/ \E i \in DOMAIN requests, approve \in BOOLEAN : BeginVote(a, i, approve)
    \/ CommitMapping(a) \/ CommitVote(a)

Validation == BeginValidation \/ \E k \in MapKey : CheckMapping(k)

\* Its fairness once it has begun: it has finitely many steps, each of them possible.
ValidationEnds == []<>(checking.left = {})

MappingsNext ==
    \/ \E a \in Administrator : Command(a)
    \/ \E i \in DOMAIN requests : RequestExpires(i)
    \/ \E r \in MapRole : \/ DeleteRole(r) \/ DisableMappingsOf(r)
                          \/ \E level \in ProtectionLevel : Protect(r, level)
    \/ \E g \in MapGuild : RemoveGuild(g) \/ ChangeGuild(g) \/ \E live \in BOOLEAN : RegisterGuild(g, live)
    \/ Validation

\* Nothing here depends on what fails.
MappingsSpec == MappingsInit /\ [][MappingsNext]_mappingVars

-----------------------------------------------------------------------------

Reaches(edges, from, to) ==
    \A roles \in SUBSET MapRole :
        from \in roles /\ (\A e \in edges : e.from \in roles => e.to \in roles) => to \in roles

\* No closed way through roles uses two mappings.
Untangled(edges) ==
    \A e, f \in edges : e.of # f.of => ~(Reaches(edges, e.to, f.from) /\ Reaches(edges, f.to, e.from))

\* The mappings in the beginning were checked like any others.
ASSUME UntangledAtFirst ==
    \A m \in MappingsAtFirst :
        Untangled(EdgesOf({k \in MapKey : m[k].state = "live" /\ m[k].enabled}, {k \in MapKey : m[k].twoWay}))

\* What is enabled is free of loops; excepted is what was validated against
\* mappings that were no longer the present ones when it was written.
EnabledUntangled == Untangled(EdgesOf(Enabled \ staleLoops, TwoWays))

\* An enabled mapping of a role under two-person protection was approved by
\* somebody else than the one who asked for it.
SensitiveSigned ==
    \A k \in Enabled \ staleSigns : Sensitive(k) => SignedByAnother(k, requests)

\* No enabled mapping is broken.
NothingOrphaned == \A k \in Enabled : ~Broken(k, guildState, syncedGuilds)
=============================================================================
