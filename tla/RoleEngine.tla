----------------------------- MODULE RoleEngine -----------------------------
(***************************************************************************)
(* The reconciliation engine: which roles should one Discord account hold, *)
(* which roles may the platform take away, and the difference between that *)
(* and what the account holds now.  A pure module: operators only.         *)
(*                                                                         *)
(* A role stands for a (guild, role) pair.  The record ctx is what         *)
(* buildReconciliationContext returns: the synchronizing guilds, the       *)
(* enabled mappings between them, the account's active manual grants and   *)
(* whether the account is linked to a platform member at all.              *)
(*                                                                         *)
(* Definitions whose names begin with Faulty are seeded faults: the        *)
(* operator after them as a plausible bug would have it.  No other         *)
(* definition uses them; they show which property notices the bug.         *)
(***************************************************************************)
EXTENDS Integers, Sequences, FiniteSets, Functions

CONSTANTS
    Guild,          \* approved guilds, by Discord id
    Role,           \* Discord roles
    GuildOf,        \* the guild each role belongs to
    GrantRole,      \* platform managed roles of purpose MANUAL_GRANT
    MaxPriority     \* priority of a manual grant, above every mapping's

ASSUME EngineConstants ==
    /\ GuildOf \in [Role -> Guild]
    /\ GrantRole \subseteq Role
    /\ MaxPriority \in Nat

Authority == {"SOURCE_DISCORD", "TARGET_DISCORD", "MANUAL", "SYSTEM"}
Direction == {"ONE_WAY", "TWO_WAY"}

Mapping == [id : Nat, source : Role, target : Role,
            direction : Direction, authority : Authority,
            syncAdd : BOOLEAN, syncRemove : BOOLEAN, priority : 0 .. MaxPriority - 1]

\* How many passes the mapping fixpoint is allowed.
MaxMappingPasses == 10

-----------------------------------------------------------------------------
(* The state of one computation: desired roles with the entry that decided *)
(* them, the roles that may be removed, and whether the last pass changed  *)
(* anything.                                                               *)

GrantEntry == [source |-> "MANUAL", mapping |-> 0, priority |-> MaxPriority]
MappingEntry(m) == [source |-> m.authority, mapping |-> m.id, priority |-> m.priority]
IsGrant(entry) == entry.source = "MANUAL" /\ entry.mapping = 0

RolesIn(guilds) == {r \in Role : GuildOf[r] \in guilds}

\* Manual grants are evaluated for a linked account only; every manual-grant
\* role of a synchronizing guild is then removable, the granted ones desired.
ApplyManualGrants(ctx) ==
    LET grantable == IF ctx.linked THEN GrantRole \cap RolesIn(ctx.guilds) ELSE {}
    IN  [desired    |-> [r \in grantable \cap ctx.grants |-> GrantEntry],
         controlled |-> grantable,
         changed    |-> TRUE]

\* The directed edges a mapping implies, each with whether its origin decides.
EdgesFor(m) ==
    LET forward(auth)  == [from |-> m.source, to |-> m.target, authoritative |-> auth]
        backward(auth) == [from |-> m.target, to |-> m.source, authoritative |-> auth]
    IN  CASE m.authority = "TARGET_DISCORD" -> <<backward(TRUE)>>
          [] m.authority \in {"SOURCE_DISCORD", "SYSTEM"} -> <<forward(TRUE)>>
          [] OTHER -> IF m.direction = "TWO_WAY"
                      THEN <<forward(FALSE), backward(FALSE)>>
                      ELSE <<forward(FALSE)>>

\* What the account will hold once the computation so far is applied.
EffectiveHas(st, seen, r) ==
    \/ r \in DOMAIN st.desired
    \/ r \notin st.controlled /\ r \in seen

\* Edge e of mapping m against state st, where seen are the roles that were read:
\* may it take its role away, does it claim the role, and does it override an
\* earlier claim?
FaultyRemovable(m, e) == e.authoritative
Removable(m, e) == e.authoritative /\ m.syncRemove

FaultyAdds(st, m, e, seen) ==
    EffectiveHas(st, seen, e.from) /\ e.to \notin DOMAIN st.desired
Adds(st, m, e, seen) ==
    EffectiveHas(st, seen, e.from) /\ m.syncAdd /\ e.to \notin DOMAIN st.desired

FaultyDrops(st, m, e, seen) ==
    ~EffectiveHas(st, seen, e.from) /\ Removable(m, e) /\ e.to \in DOMAIN st.desired
Drops(st, m, e, seen) ==
    /\ ~EffectiveHas(st, seen, e.from) /\ Removable(m, e)
    /\ e.to \in DOMAIN st.desired
    /\ ~IsGrant(st.desired[e.to])
    /\ st.desired[e.to].priority < m.priority

\* The receiving role of a removing edge comes under the platform's control.
FaultyControls(st, m, e, seen) ==
    Removable(m, e) /\ e.to \notin st.controlled /\ EffectiveHas(st, seen, e.from)
Controls(st, m, e, seen) == Removable(m, e) /\ e.to \notin st.controlled

ApplyMappingEdge(st, m, e, seen) ==
    LET adds     == Adds(st, m, e, seen)
        drops    == Drops(st, m, e, seen)
        controls == Controls(st, m, e, seen)
        kept     == DOMAIN st.desired \ (IF drops THEN {e.to} ELSE {})
        wanted   == kept \cup (IF adds THEN {e.to} ELSE {})
    IN  [desired    |-> [r \in wanted |-> IF r \in kept THEN st.desired[r] ELSE MappingEntry(m)],
         controlled |-> st.controlled \cup (IF controls THEN {e.to} ELSE {}),
         changed    |-> st.changed \/ adds \/ drops \/ controls]

-----------------------------------------------------------------------------
(* The fixpoint over all mappings, highest priority first.                 *)

Before(m, n) == m.priority > n.priority \/ (m.priority = n.priority /\ m.id < n.id)

\* Mappings whose guilds are both in the context.
LiveMappings(c) == {m \in c.mappings : {m.source, m.target} \subseteq RolesIn(c.guilds)}

\* How many of some mappings are evaluated before m.
Rank(live, m) == Cardinality({n \in live : Before(n, m)})

\* The live mappings, in evaluation order.
FaultyOrderedMappings(c) ==
    LET live == LiveMappings(c)
    IN  [i \in 1 .. Cardinality(live) |-> CHOOSE m \in live : Rank(live, m) = Cardinality(live) - i]
OrderedMappings(c) ==
    LET live == LiveMappings(c)
    IN  [i \in 1 .. Cardinality(live) |-> CHOOSE m \in live : Rank(live, m) = i - 1]

\* The one or two edges of a mapping.
ApplyMapping(st, m, seen) ==
    LET edges == EdgesFor(m)
        first == ApplyMappingEdge(st, m, edges[1], seen)
    IN  IF Len(edges) = 1 THEN first ELSE ApplyMappingEdge(first, m, edges[2], seen)

\* The states of one pass: after so many of the mappings.
PassStates(st, mappings, seen) ==
    LET after[i \in 0 .. Len(mappings)] ==
            IF i = 0 THEN [st EXCEPT !.changed = FALSE]
            ELSE ApplyMapping(after[i - 1], mappings[i], seen)
    IN  after
MappingPass(st, mappings, seen) == PassStates(st, mappings, seen)[Len(mappings)]

\* A pass is made only when the one before it has changed something.
NextPass(st, mappings, seen) == IF st.changed THEN MappingPass(st, mappings, seen) ELSE st

\* The states of the fixpoint: after so many passes.
Passes(start, mappings, seen) ==
    LET after[n \in 0 .. MaxMappingPasses] ==
            IF n = 0 THEN start
            ELSE NextPass(after[n - 1], mappings, seen)
    IN  after
ApplyMappings(start, mappings, seen) == Passes(start, mappings, seen)[MaxMappingPasses]

\* A guild that could not be read contributes nothing to what was seen.
Seen(actual, readable) == actual \cap RolesIn(readable)

ComputeDesiredState(ctx, actual, readable) ==
    ApplyMappings(ApplyManualGrants(ctx), OrderedMappings(ctx), Seen(actual, readable))

-----------------------------------------------------------------------------
(* The diff: additions and removals, in the guilds that could be read.     *)

FaultyDiffMemberState(state, actual, readable) ==
    [add    |-> (DOMAIN state.desired \ actual) \cap RolesIn(readable),
     remove |-> state.controlled \cap actual \cap RolesIn(readable)]

DiffMemberState(state, actual, readable) ==
    [add    |-> (DOMAIN state.desired \ actual) \cap RolesIn(readable),
     remove |-> (state.controlled \cap actual \cap RolesIn(readable)) \ DOMAIN state.desired]

PlanForMember(ctx, actual, readable) ==
    DiffMemberState(ComputeDesiredState(ctx, actual, readable), actual, readable)

Applied(plan, actual) == (actual \cup plan.add) \ plan.remove

-----------------------------------------------------------------------------
(* Reference notions, stated on the mappings and grants alone.             *)

\* The contexts there are: ids are a primary key, and no mapping leads from a role
\* to itself (schemas.js).
SoundContexts ==
    {c \in [guilds : SUBSET Guild, mappings : SUBSET Mapping, grants : SUBSET Role, linked : BOOLEAN] :
        /\ IsFiniteSet(c.mappings)
        /\ \A m, n \in c.mappings : m.id = n.id => m = n
        /\ \A m \in c.mappings : m.source # m.target}

MappingEdges(m) == Range(EdgesFor(m))

\* Roles whose correct value the platform can compute for this account.
Computable(c) ==
    (IF c.linked THEN GrantRole \cap RolesIn(c.guilds) ELSE {})
    \cup {e.to : e \in UNION {{d \in MappingEdges(m) : d.authoritative /\ m.syncRemove}
                                : m \in LiveMappings(c)}}

\* Roles that adding mappings copy from the roles in held, step by step: those in
\* every set that has these and what a mapping copies from its members.
Copying(c) == UNION {{e \in MappingEdges(m) : m.syncAdd} : m \in LiveMappings(c)}
ClosedUnderCopying(c, roles) == \A e \in Copying(c) : e.from \in roles => e.to \in roles
Reachable(c, held) ==
    {r \in Role : \A roles \in SUBSET Role :
        held \subseteq roles /\ ClosedUnderCopying(c, roles) => r \in roles}

ActiveGrants(c) == IF c.linked THEN GrantRole \cap c.grants \cap RolesIn(c.guilds) ELSE {}
=============================================================================
