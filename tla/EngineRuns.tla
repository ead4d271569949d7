----------------------------- MODULE EngineRuns -----------------------------
(***************************************************************************)
(* Consecutive reconciliations of one Discord account, with nobody else    *)
(* changing its roles: what the engine itself promises, and whether it     *)
(* settles.  Each run may fail to read some of the guilds.                 *)
(***************************************************************************)
EXTENDS RoleEngine

CONSTANT Contexts       \* the reconciliation contexts to start from

ASSUME ContextsAreSound == Contexts \subseteq SoundContexts

VARIABLES
    ctx,        \* guilds, mappings and grants: fixed for a behaviour
    actual,     \* the roles the account holds in Discord
    readable    \* the guilds the latest run could read

runsVars == <<ctx, actual, readable>>

RunsInit ==
    /\ ctx \in Contexts
    /\ actual \in SUBSET Role
    /\ readable = {}

\* planForDiscordUser, with every planned change then made in Discord.
Reconcile(read) ==
    /\ readable' = read
    /\ actual' = Applied(PlanForMember(ctx, actual, read), actual)
    /\ UNCHANGED ctx

RunsNext == \E read \in SUBSET ctx.guilds : Reconcile(read)

RunsSpec == RunsInit /\ [][RunsNext]_runsVars

-----------------------------------------------------------------------------
(* Notions the properties are stated in.                                   *)

\* The only mapping edges into a role, over all live mappings.
EdgesInto(c, r) ==
    UNION {{<<m, e>> : e \in {d \in MappingEdges(m) : d.to = r}} : m \in LiveMappings(c)}

\* Every mapping that feeds another is evaluated before it.
EvaluatedUpstreamFirst(c) ==
    \A m, n \in LiveMappings(c) :
        (m # n /\ \E e \in MappingEdges(m), f \in MappingEdges(n) : e.to = f.from) => Before(m, n)

\* Going back along edges always ends: among any roles is one that no edge leads
\* to from them.
NoCircles(c) ==
    \A roles \in (SUBSET Role) \ {{}} : \E r \in roles :
        \A m \in LiveMappings(c) : \A e \in MappingEdges(m) : e.to = r => e.from \notin roles

OneEdgePerTarget(c) == \A r \in Role : \A a, b \in EdgesInto(c, r) : a = b
FullyMirrored(c) == \A m \in LiveMappings(c) :
    /\ m.syncAdd /\ m.syncRemove
    /\ \A e \in MappingEdges(m) : e.authoritative

\* The passes of a complete run end because one has changed nothing, not because
\* as many were made as are allowed (MAPPING_FIXPOINT_NOT_REACHED).
ReachesFixpoint(c, held) == ~ComputeDesiredState(c, held, c.guilds).changed

\* Two ways to be sure of that: not as many mappings as passes, with one pass to
\* bring roles under control and one to find nothing to do; or no mapping that
\* leads to a role manual grants decide.
FewMappings(c) == Cardinality(c.mappings) < MaxMappingPasses - 1
GrantsApart(c) ==
    \A m \in LiveMappings(c) : \A e \in MappingEdges(m) : c.linked => e.to \notin GrantRole

-----------------------------------------------------------------------------
(* Properties.                                                             *)

\* A run only ever takes away a role whose value the platform computes: one a
\* manual grant decides, or the receiving end of an authoritative removing
\* mapping (diff.js: the bot never strips unmanaged roles).
RemovesOnlyComputable == [][actual \ actual' \subseteq Computable(ctx)]_runsVars

\* A run only gives a role that is granted or that a chain of adding mappings
\* copies from a granted role or one the account was seen to hold.
AddsAreJustified ==
    [][actual' \ actual \subseteq
          Reachable(ctx, Seen(actual, readable') \cup ActiveGrants(ctx))]_runsVars

\* After a run an active grant's role is held wherever the guild was readable,
\* whatever any mapping says, and no run takes it away.
GrantsWin ==
    [][\A r \in ActiveGrants(ctx) :
          /\ r \in actual => r \in actual'
          /\ GuildOf[r] \in readable' => r \in actual']_runsVars

\* When mappings that feed others are evaluated first, one run over readable
\* guilds leaves nothing for the next one: the diff is idempotent.
SettlesInOneRun ==
    [][(readable' = ctx.guilds /\ EvaluatedUpstreamFirst(ctx) /\ OneEdgePerTarget(ctx))
          => actual' = Applied(PlanForMember(ctx, actual', ctx.guilds), actual')]_runsVars

\* The roles held after each of n more complete runs.
NextRun(held) == Applied(PlanForMember(ctx, held, ctx.guilds), held)
RunsFrom(n) ==
    LET held[k \in 0 .. n] == IF k = 0 THEN actual ELSE NextRun(held[k - 1])
    IN  held
AfterRuns(n) == RunsFrom(n)[n]

\* Complete runs settle: one more than there are mappings are enough, and the
\* next one changes nothing, so consecutive runs never flip a role to and fro.
\* Contexts without circles do (NoCircles), and those of a two-way mapping that
\* TLC tries; a ring of three or more mappings may not (README, section 5).
EnoughRuns == Cardinality(ctx.mappings) + 1
RunsConverge == AfterRuns(EnoughRuns + 1) = AfterRuns(EnoughRuns)

\* Where they settle, a fully mirrored role with a single mapping is held
\* exactly when its authoritative side is (grants decide their own roles).
SettlesMirrored ==
    (FullyMirrored(ctx) /\ OneEdgePerTarget(ctx)) =>
      LET settled == AfterRuns(EnoughRuns)
      IN  \A m \in LiveMappings(ctx) : \A e \in MappingEdges(m) :
              e.to \notin ActiveGrants(ctx) => (e.to \in settled <=> e.from \in settled)

-----------------------------------------------------------------------------
(* What the documentation says and the engine does not do.                 *)

\* README.md:37: "it never removes a role whose correct value it cannot compute".
\* A mapping's value comes from its origin, so a removal needs the origin's guild
\* to have been read.
RemovesOnlyWhatWasRead ==
    [][\A r \in actual \ actual' :
          \/ ctx.linked /\ r \in GrantRole
          \/ \E me \in EdgesInto(ctx, r) : GuildOf[me[2].from] \in readable']_runsVars
=============================================================================
