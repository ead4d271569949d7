------------------------------ MODULE Rosters -------------------------------
(***************************************************************************)
(* One roster: who is on it is computed from the Discord roles its ranks   *)
(* are bound to.  Jobs for one member or for the whole roster wait on a    *)
(* queue that one worker empties, a job at a time: it reads the            *)
(* configuration, then Discord and the rows, and makes the difference true *)
(* one member after the other.                                             *)
(*                                                                         *)
(* A callsign is a number, "???" or one that is not numeric.  Of a         *)
(* nickname only the managed prefix is kept; module NameMirror has the     *)
(* names.  Waiting jobs of one scope are one, and are taken in any order.  *)
(* steady is history.  Definitions whose names begin with Faulty are       *)
(* seeded faults.                                                          *)
(***************************************************************************)
EXTENDS Surroundings, Integers, SequencesExt

CONSTANTS
    RosterMember,       \* members of the guild, and those who may join it
    Rank,               \* ranks of the roster
    RankRole,           \* Discord roles that ranks refer to
    RoleOf,             \* discordRoleId of each rank
    Gate,               \* requiresRoleId of each rank: at most one role
    Position,           \* the ranks' order by position, ties broken by id
    Block,              \* the numbers of each rank's callsign block, {} if it has none
    CallsignsByHand,    \* callsigns that may be set by hand
    NicknameSync,       \* nicknameSyncEnabled
    RemovalThreshold,   \* sync.maxRemovalsThreshold
    BoundAtFirst,       \* the ranks bound in the beginning
    RolesAtFirst,       \* the rank roles each member holds in the beginning
    Editor,             \* executions of setRosterMemberDetails
    MaxRosterEdits      \* bound: changes of roles, ranks and rows by people

NoRank == "no rank"
NoCallsign == 0
FullBlock == -1     \* CALLSIGN_UNASSIGNED, "???"
CustomCallsign == -2
Callsigns == {NoCallsign, FullBlock} \cup CallsignsByHand \cup UNION {Block[r] : r \in Rank}
Whole == "whole roster"

ASSUME RosterConstants ==
    /\ IsFiniteSet(RosterMember) /\ IsFiniteSet(Rank)
    /\ RoleOf \in [Rank -> RankRole] /\ Gate \in [Rank -> SUBSET RankRole]
    /\ Position \in [Rank -> Nat] /\ \A r, s \in Rank : Position[r] = Position[s] => r = s
    /\ Block \in [Rank -> SUBSET (Nat \ {0})]
    /\ CallsignsByHand \subseteq {CustomCallsign} \cup Nat
    /\ RolesAtFirst \in [RosterMember -> SUBSET RankRole]
    /\ NicknameSync \in BOOLEAN /\ BoundAtFirst \subseteq Rank
    /\ RemovalThreshold \in Nat /\ MaxRosterEdits \in Nat
    /\ NoRank \notin Rank /\ Whole \notin RosterMember

VARIABLES
    rosterHeld,     \* Discord: the rank roles each member holds
    rosterHere,     \* Discord: who is in the guild
    prefix,         \* Discord: the managed prefix each member's nickname shows
    deletedRoles,   \* Discord: roles whose deletion the bot has not handled yet
    open,           \* the roster is not deleted and its guild is enabled
    bound,          \* ranks that are not deleted
    rows,           \* RosterMembership
    rosterQueue,    \* scopes of the waiting jobs
    rosterJob,      \* the job in execution, or the status of the last one
    editing,        \* edits by hand between their check and their write
    rosterEdits,    \* edits left
    steady          \* history: who has been entitled ever since the job in execution began

rosterVars == <<rosterHeld, rosterHere, prefix, deletedRoles, open, bound, rows, rosterQueue,
                rosterJob, editing, rosterEdits, steady>>
discordRoster == <<rosterHeld, rosterHere, deletedRoles>>

Shown == [rank : Rank \cup {NoRank}, callsign : Callsigns]
NoPrefix == [rank |-> NoRank, callsign |-> NoCallsign]
Untouched == [rank |-> "untouched", callsign |-> NoCallsign]
NoEdit == [member |-> "nobody", callsign |-> NoCallsign]
NoRow == [status |-> "none", rank |-> NoRank, callsign |-> NoCallsign]
Row == [status : {"ACTIVE", "DEPARTED"}, rank : Rank \cup {NoRank}, callsign : Callsigns] \cup {NoRow}
RosterChange == [member : RosterMember, type : {"ADD", "PROMOTE", "REMOVE", "NICKNAME", "NONE"},
                 rank : Rank \cup {NoRank}, callsign : Callsigns, reissued : BOOLEAN,
                 prefix : Shown \cup {Untouched}]
JobStatus == {"COMPLETED", "PARTIAL", "FAILED", "PAUSED"}
Idle(status) == [step |-> "idle", status |-> status]

RostersTypeOK ==
    /\ rosterHeld \in [RosterMember -> SUBSET RankRole]
    /\ rosterHere \subseteq RosterMember
    /\ prefix \in [RosterMember -> Shown]
    /\ deletedRoles \subseteq RankRole
    /\ open \in BOOLEAN /\ bound \subseteq Rank
    /\ rows \in [RosterMember -> Row]
    /\ rosterQueue \subseteq RosterMember \cup {Whole}
    /\ \/ rosterJob \in {Idle(s) : s \in JobStatus}
       \/ /\ rosterJob.step \in {"plan", "apply"} /\ rosterJob.scope \in RosterMember \cup {Whole}
          /\ rosterJob.ranks \subseteq Rank /\ DOMAIN rosterJob.todo \subseteq Nat
          /\ \A i \in DOMAIN rosterJob.todo : rosterJob.todo[i] \in RosterChange
          /\ {rosterJob.applied, rosterJob.failed, rosterJob.unread} \subseteq BOOLEAN
    /\ editing \in [Editor -> [member : RosterMember, callsign : CallsignsByHand \cup {NoCallsign}]
                              \cup {NoEdit}]
    /\ rosterEdits \in 0 .. MaxRosterEdits
    /\ steady \subseteq RosterMember

RostersInit ==
    /\ rosterHeld = RolesAtFirst /\ rosterHere = RosterMember
    /\ prefix = [m \in RosterMember |-> NoPrefix]
    /\ deletedRoles = {} /\ open = TRUE /\ bound = BoundAtFirst
    /\ rows = [m \in RosterMember |-> NoRow]
    /\ rosterQueue = {} /\ rosterJob = Idle("COMPLETED")
    /\ editing = [e \in Editor |-> NoEdit]
    /\ rosterEdits = MaxRosterEdits
    /\ steady = {}

-----------------------------------------------------------------------------
\* Planning: roster-resolve.js, without side effects.

\* resolveRank: the highest of the ranks whose roles are held.
ResolveRank(ranks, held) ==
    LET fitting == {r \in ranks : RoleOf[r] \in held /\ Gate[r] \subseteq held}
    IN  IF fitting = {} THEN NoRank
        ELSE CHOOSE r \in fitting : \A other \in fitting : Position[other] <= Position[r]

FaultyCallsignFor(rank, current, taken) ==
    IF rank = NoRank \/ Block[rank] = {} THEN current
    ELSE IF current = CustomCallsign \/ current \in Block[rank] THEN current
    ELSE IF Block[rank] \subseteq taken THEN FullBlock
    ELSE Min(Block[rank] \ taken)

\* resolveCallsign with the allocator: a number of the block is kept if nobody
\* has it, and so is one that is not numeric; any other is replaced by the
\* lowest free number.  A rank without a block leaves every callsign alone.
CallsignFor(rank, current, taken) ==
    IF rank = NoRank \/ Block[rank] = {} THEN current
    ELSE IF current = CustomCallsign \/ current \in Block[rank] \ taken THEN current
    ELSE IF Block[rank] \subseteq taken THEN FullBlock
    ELSE Min(Block[rank] \ taken)

RankNow(m, ranks, present) == IF m \in present THEN ResolveRank(ranks, rosterHeld[m]) ELSE NoRank

\* planMemberChange for a member who was read as one of present and is to have
\* this callsign.
PlanMemberChange(m, ranks, present, callsign) ==
    LET row == rows[m]
        active == row.status = "ACTIVE"
        rank == RankNow(m, ranks, present)
        built == [rank |-> rank, callsign |-> IF rank = NoRank THEN NoCallsign ELSE callsign]
        write == /\ NicknameSync /\ m \in present
                 /\ IF rank = NoRank THEN active ELSE built # prefix[m]
    IN  [member |-> m, rank |-> rank, callsign |-> callsign,
         reissued |-> callsign # row.callsign,
         prefix |-> IF write THEN built ELSE Untouched,
         type |-> IF rank = NoRank THEN (IF active THEN "REMOVE" ELSE "NONE")
                  ELSE IF ~active THEN "ADD"
                  ELSE IF row.rank # rank THEN "PROMOTE"
                  ELSE IF write THEN "NICKNAME" ELSE "NONE"]

Actionable(change) == change.type # "NONE" \/ change.reissued \/ change.prefix # Untouched

\* The callsigns that one pass over the members gives: the allocator starts
\* with nothing taken, and a number is taken once somebody has it from his block.
Allocations(order, ranks, present) ==
    LET rank(i) == RankNow(order[i], ranks, present)
        taken(given, i) ==
            {given[j] : j \in {k \in 1 .. i - 1 : rank(k) # NoRank /\ given[k] \in Block[rank(k)]}}
    IN  {given \in [DOMAIN order -> Callsigns] :
            \A i \in DOMAIN order :
                given[i] = CallsignFor(rank(i), rows[order[i]].callsign, taken(given, i))}

\* planRosterChanges: what is to be done, each change under its place in the
\* order.  The members with rows come first, in whatever order the database
\* returns them.
PlanRosterChanges(order, ranks, present, given) ==
    LET change(i) == PlanMemberChange(order[i], ranks, present, given[i])
    IN  [i \in {j \in DOMAIN order : Actionable(change(j))} |-> change(i)]

ReadOrders(present) ==
    LET withRow == {m \in RosterMember : rows[m] # NoRow}
    IN  {order \in SetToSeqs(present \cup withRow) :
            \A i, j \in DOMAIN order : i < j /\ order[j] \in withRow => order[i] \in withRow}

\* The callsigns that planOne finds in use.
WornByOthers(m) ==
    {rows[o].callsign : o \in {o \in RosterMember \ {m} : rows[o].status = "ACTIVE"}} \ {NoCallsign}

-----------------------------------------------------------------------------
\* The worker: roster-runner.js.

Entitled(m) == open /\ m \in rosterHere /\ ResolveRank(bound, rosterHeld[m]) # NoRank

\* The history goes on: who is not entitled any more, by a rank that the job in
\* execution knows, is not steady.
Passes ==
    steady' = IF rosterJob'.step = "idle" THEN {}
              ELSE {m \in steady : /\ open' /\ m \in rosterHere'
                                   /\ ResolveRank(rosterJob'.ranks \cap bound', rosterHeld'[m]) # NoRank}

EndJob(status) == rosterJob' = Idle(status)

\* runRosterJob and reconcile up to the planning.  Nothing is looked up about
\* the job's own status; a roster that is deleted or has no rank is left alone.
TakeRosterJob(scope) ==
    /\ rosterJob.step = "idle" /\ scope \in rosterQueue
    /\ rosterQueue' = rosterQueue \ {scope}
    /\ IF open /\ bound # {}
       THEN rosterJob' = [step |-> "plan", scope |-> scope, ranks |-> bound, todo |-> <<>>,
                          applied |-> FALSE, failed |-> FALSE, unread |-> FALSE]
       ELSE EndJob("COMPLETED")
    /\ steady' = {m \in RosterMember : Entitled(m)}
    /\ Works
    /\ UNCHANGED <<discordRoster, prefix, open, bound, rows, editing, rosterEdits>>

\* The plan is empty, or takes off more members than the threshold, or is applied.
UsePlan(todo, unread) ==
    LET removals == {i \in DOMAIN todo : todo[i].type = "REMOVE"}
    IN  IF DOMAIN todo = {} THEN EndJob("COMPLETED")
        ELSE IF Cardinality(removals) > RemovalThreshold THEN EndJob("PAUSED")
        ELSE rosterJob' = [rosterJob EXCEPT !.step = "apply", !.todo = todo, !.unread = unread]

\* planOne: a member who cannot be read is taken for one who has left.
PlanOne ==
    LET m == rosterJob.scope
        callsign(present) ==
            CallsignFor(RankNow(m, rosterJob.ranks, present), rows[m].callsign, WornByOthers(m))
        plan(present) ==
            IF m \in present \/ rows[m] # NoRow
            THEN PlanRosterChanges(<<m>>, rosterJob.ranks, present, <<callsign(present)>>)
            ELSE <<>>
    IN  \/ \E todo \in {plan(rosterHere)} : UsePlan(todo, FALSE) /\ Works
        \/ \E todo \in {plan({})} : UsePlan(todo, TRUE) /\ Fails

PlanMembers(present) ==
    \E order \in ReadOrders(present) :
        \E given \in Allocations(order, rosterJob.ranks, present) :
            \E todo \in {PlanRosterChanges(order, rosterJob.ranks, present, given)} : UsePlan(todo, FALSE)

FaultyPlanAll == (PlanMembers(rosterHere) /\ Works) \/ (PlanMembers({}) /\ Fails)

\* planAll: an empty list of members means that they could not be read.
PlanAll == (PlanMembers(rosterHere) /\ Works) \/ (EndJob("COMPLETED") /\ Fails)

PlanRoster ==
    /\ rosterJob.step = "plan"
    /\ IF rosterJob.scope = Whole THEN PlanAll ELSE PlanOne
    /\ UNCHANGED <<discordRoster, prefix, open, bound, rows, rosterQueue, editing, rosterEdits>>

\* persistChange: a member taken off keeps his row and his callsign.
PersistChange(change) ==
    LET row == rows[change.member]
    IN  rows' = [rows EXCEPT ![change.member] =
            IF change.type = "REMOVE" THEN [row EXCEPT !.status = "DEPARTED", !.rank = NoRank]
            ELSE [status |-> "ACTIVE", rank |-> change.rank,
                  callsign |-> IF change.reissued THEN change.callsign ELSE row.callsign]]

\* applyChange under the member's lock: the row, then the nickname.  A member
\* whose lock is taken is left out, a rename that fails counts as a failure.
ApplyChange ==
    /\ rosterJob.step = "apply" /\ DOMAIN rosterJob.todo # {}
    /\ LET next == Min(DOMAIN rosterJob.todo)
           change == rosterJob.todo[next]
           m == change.member
           rest == [rosterJob EXCEPT !.todo = Restrict(@, DOMAIN @ \ {next})]
       IN  \/ /\ PersistChange(change)
              /\ \/ /\ change.prefix = Untouched
                    /\ rosterJob' = [rest EXCEPT !.applied = TRUE]
                    /\ UNCHANGED prefix /\ Works
                 \/ /\ change.prefix # Untouched /\ m \in rosterHere
                    /\ prefix' = [prefix EXCEPT ![m] = change.prefix]
                    /\ rosterJob' = [rest EXCEPT !.applied = TRUE]
                    /\ Works
                 \/ /\ change.prefix # Untouched
                    /\ rosterJob' = [rest EXCEPT !.failed = TRUE]
                    /\ UNCHANGED prefix
                    /\ IF m \in rosterHere THEN Fails ELSE Works
           \/ rosterJob' = rest /\ Fails /\ UNCHANGED <<rows, prefix>>
    /\ UNCHANGED <<discordRoster, open, bound, rosterQueue, editing, rosterEdits>>

FinishRosterJob ==
    /\ rosterJob.step = "apply" /\ DOMAIN rosterJob.todo = {}
    /\ EndJob(IF ~rosterJob.failed THEN "COMPLETED" ELSE IF rosterJob.applied THEN "PARTIAL" ELSE "FAILED")
    /\ Works
    /\ UNCHANGED <<discordRoster, prefix, open, bound, rows, rosterQueue, editing, rosterEdits>>

\* An error ends the execution, or the process does. BullMQ delivers the job
\* again, unless the error is a permanent one and the processor discards it.
RosterJobThrown ==
    /\ rosterJob.step # "idle"
    /\ rosterQueue' \in {rosterQueue, rosterQueue \cup {rosterJob.scope}}
    /\ EndJob("FAILED")
    /\ Fails
    /\ UNCHANGED <<discordRoster, prefix, open, bound, rows, editing, rosterEdits>>

\* runScheduledRosterSweep; a job that waits already is not queued again.
SweepRosters ==
    /\ open /\ Whole \notin rosterQueue
    /\ rosterQueue' = rosterQueue \cup {Whole}
    /\ Works
    /\ UNCHANGED <<discordRoster, prefix, open, bound, rows, rosterJob, editing, rosterEdits>>

-----------------------------------------------------------------------------
\* What people do, in Discord and through the services.

RosterEdit == rosterEdits > 0 /\ rosterEdits' = rosterEdits - 1

\* queueRosterSyncForRoles: only a role that a rank is bound to queues a job,
\* not one that a rank requires besides; and the bot may miss the event.
RoleChanges(m, role) ==
    /\ m \in rosterHere
    /\ \E r \in Rank : role = RoleOf[r] \/ role \in Gate[r]
    /\ rosterHeld' = [rosterHeld EXCEPT ![m] = IF role \in @ THEN @ \ {role} ELSE @ \cup {role}]
    /\ \/ /\ rosterQueue' = IF open /\ \E r \in bound : role = RoleOf[r]
                            THEN rosterQueue \cup {m} ELSE rosterQueue
          /\ Works
       \/ Fails /\ UNCHANGED rosterQueue
    /\ RosterEdit
    /\ UNCHANGED <<rosterHere, deletedRoles, prefix, open, bound, rows, rosterJob, editing>>

\* A member leaves, with roles and nickname, or comes back: nothing is queued for his rosters.
LeavesOrJoins(m) ==
    /\ rosterHere' = IF m \in rosterHere THEN rosterHere \ {m} ELSE rosterHere \cup {m}
    /\ rosterHeld' = [rosterHeld EXCEPT ![m] = {}]
    /\ prefix' = [prefix EXCEPT ![m] = NoPrefix]
    /\ RosterEdit /\ Works
    /\ UNCHANGED <<deletedRoles, open, bound, rows, rosterQueue, rosterJob, editing>>

\* A role is deleted in Discord: nobody holds it any more.
RoleDeleted(role) ==
    /\ rosterHeld' = [m \in RosterMember |-> rosterHeld[m] \ {role}]
    /\ deletedRoles' = deletedRoles \cup {role}
    /\ RosterEdit /\ Works
    /\ UNCHANGED <<rosterHere, prefix, open, bound, rows, rosterQueue, rosterJob, editing>>

Unbound(ranks) ==
    /\ bound' = bound \ ranks
    /\ rows' = [m \in RosterMember |->
           IF rows[m].rank \in ranks THEN [rows[m] EXCEPT !.rank = NoRank] ELSE rows[m]]

\* unbindDeletedRanks: the ranks go with their role, the members stay unranked
\* until a job looks at them.
HandleRoleDeleted(role) ==
    /\ role \in deletedRoles
    /\ deletedRoles' = deletedRoles \ {role}
    /\ IF open THEN Unbound({r \in bound : RoleOf[r] = role}) ELSE UNCHANGED <<bound, rows>>
    /\ Works
    /\ UNCHANGED <<rosterHeld, rosterHere, prefix, open, rosterQueue, rosterJob, editing, rosterEdits>>

\* bindRosterRank and unbindRosterRank, which queue nothing.
BindRosterRank(r) ==
    /\ open /\ r \notin bound
    /\ bound' = bound \cup {r}
    /\ RosterEdit /\ Works
    /\ UNCHANGED <<discordRoster, prefix, open, rows, rosterQueue, rosterJob, editing>>

UnbindRosterRank(r) ==
    /\ open /\ r \in bound
    /\ Unbound({r})
    /\ RosterEdit /\ Works
    /\ UNCHANGED <<discordRoster, prefix, open, rosterQueue, rosterJob, editing>>

\* deleteRoster keeps the rows; createRoster under the same slug has them again.
DeleteOrReviveRoster ==
    /\ open' = ~open
    /\ RosterEdit /\ Works
    /\ UNCHANGED <<discordRoster, prefix, bound, rows, rosterQueue, rosterJob, editing>>

\* A nickname edited by hand; module NameMirror has the event's handling.
NicknameEdited(m, shown) ==
    /\ m \in rosterHere /\ prefix[m] # shown
    /\ prefix' = [prefix EXCEPT ![m] = shown]
    /\ \/ /\ rosterQueue' = IF open /\ NicknameSync /\ rows[m].status = "ACTIVE"
                            THEN rosterQueue \cup {m} ELSE rosterQueue
          /\ Works
       \/ Fails /\ UNCHANGED rosterQueue
    /\ RosterEdit
    /\ UNCHANGED <<discordRoster, open, bound, rows, rosterJob, editing>>

\* setRosterMemberDetails checks that no active member has the callsign ...
CheckCallsign(e, m, callsign) ==
    /\ editing[e] = NoEdit /\ open /\ rows[m] # NoRow
    /\ callsign # NoCallsign => callsign \notin WornByOthers(m)
    /\ editing' = [editing EXCEPT ![e] = [member |-> m, callsign |-> callsign]]
    /\ RosterEdit /\ Works
    /\ UNCHANGED <<discordRoster, prefix, open, bound, rows, rosterQueue, rosterJob>>

\* ... and then writes it, whatever has happened since, and queues the member.
WriteCallsign(e) ==
    /\ editing[e] # NoEdit
    /\ rows' = [rows EXCEPT ![editing[e].member].callsign = editing[e].callsign]
    /\ rosterQueue' = rosterQueue \cup {editing[e].member}
    /\ editing' = [editing EXCEPT ![e] = NoEdit]
    /\ Works
    /\ UNCHANGED <<discordRoster, prefix, open, bound, rosterJob, rosterEdits>>

-----------------------------------------------------------------------------

TakeAnyRosterJob == \E scope \in RosterMember \cup {Whole} : TakeRosterJob(scope)

RosterWorker ==
    \/ TakeAnyRosterJob
    \/ (PlanRoster \/ ApplyChange \/ FinishRosterJob) /\ Passes

\* An execution has finitely many steps, of which one is always possible; that
\* they are taken is the worker's fairness, in a form that is cheap to check.
RosterJobsEnd == []<>(rosterJob.step = "idle")

\* What the bot and the services have begun, they end.
RosterServices ==
    /\ \/ \E role \in RankRole : HandleRoleDeleted(role)
       \/ \E e \in Editor : WriteCallsign(e)
    /\ Passes

RosterEdited ==
    /\ \/ DeleteOrReviveRoster
       \/ \E role \in RankRole : RoleDeleted(role)
       \/ \E m \in RosterMember : \/ LeavesOrJoins(m) \/ NicknameEdited(m, NoPrefix)
                                  \/ \E role \in RankRole : RoleChanges(m, role)
       \/ \E r \in Rank : BindRosterRank(r) \/ UnbindRosterRank(r)
       \/ \E e \in Editor, m \in RosterMember, c \in CallsignsByHand \cup {NoCallsign} :
              CheckCallsign(e, m, c)
    /\ Passes

RostersNext ==
    \/ RosterWorker \/ RosterServices \/ RosterEdited
    \/ (RosterJobThrown \/ SweepRosters) /\ Passes

-----------------------------------------------------------------------------

\* Nobody is taken off who has held a rank, of those the job knows, ever since
\* the job that takes him off began, unless it could not read him.
PlacesKept ==
    \A m \in RosterMember :
        rows[m].status = "ACTIVE" /\ rows'[m].status = "DEPARTED" => m \notin steady \/ rosterJob.unread

\* A rank that has more members than its block has numbers: they take turns.
Crowded(r) == Cardinality({m \in RosterMember : rows[m].rank = r}) > Cardinality(Block[r])

\* The row and the nickname of a member are what his roles ask for.
RightlyListed(m) ==
    LET rank == ResolveRank(bound, rosterHeld[m])
        row == rows[m]
    IN  IF ~Entitled(m) THEN row.status # "ACTIVE"
        ELSE /\ row.status = "ACTIVE" /\ row.rank = rank
             /\ Block[rank] # {} /\ ~Crowded(rank) =>
                    /\ row.callsign \in Block[rank] \cup {CustomCallsign}
                    /\ row.callsign # CustomCallsign =>
                           \A o \in RosterMember \ {m} : rows[o].rank = rank => rows[o].callsign # row.callsign
             /\ NicknameSync /\ ~Crowded(rank) => prefix[m] = [rank |-> rank, callsign |-> row.callsign]

\* The roster agrees with Discord, or a job would stop at the threshold, or
\* there is nothing to agree on.
RosterAgrees ==
    \/ ~open \/ bound = {}
    \/ \A m \in RosterMember : RightlyListed(m)
    \/ Cardinality({m \in RosterMember : rows[m].status = "ACTIVE" /\ ~Entitled(m)}) > RemovalThreshold

\* No two active members wear the same callsign while no job is in execution.
CallsignsUnique ==
    rosterJob.step = "idle" =>
        \A m, o \in RosterMember :
            /\ m # o /\ rows[m].status = "ACTIVE" /\ rows[o].status = "ACTIVE"
            /\ rows[m].callsign \notin {NoCallsign, FullBlock}
            => rows[m].callsign # rows[o].callsign
=============================================================================
