----------------------------- MODULE Transfers ------------------------------
(***************************************************************************)
(* Transfers of one member between departments: a request puts the two     *)
(* sets of roles on a queue, a worker intersects them with what is         *)
(* configured by then, reads the member once in each guild and goes        *)
(* through the roles one at a time.                                        *)
(*                                                                         *)
(* The order of the roles within a set is whatever the configuration has:  *)
(* any order is allowed.  transferTouched is history, read by properties   *)
(* only.  Definitions whose names begin with Faulty are seeded faults.     *)
(***************************************************************************)
EXTENDS Surroundings, Preflight, SequencesExt

CONSTANTS
    Department,         \* approved guilds that transfers go between
    DeptRole,           \* roles of their guilds
    DepartmentOf,       \* the department a role belongs to
    DeptHeldAtFirst,    \* the department roles the member has in the beginning
    ObstaclesAt,        \* what is in the way of changing each role
    SidesOffered,       \* pairs of sets to strip and to grant that a department may be given
    TransferWorker,     \* executions on the transfer queue
    TransferAttempts,   \* attempts BullMQ gives a job
    MaxTransfers,       \* bound: transfers ever requested
    MaxTransferEdits    \* bound: changes of the roles by others

ASSUME TransferConstants ==
    /\ DeptHeldAtFirst \subseteq DeptRole
    /\ SidesOffered \subseteq (SUBSET DeptRole) \X (SUBSET DeptRole)
    /\ DepartmentOf \in [DeptRole -> Department]
    /\ ObstaclesAt \in [DeptRole -> SUBSET Obstacle]
    /\ TransferAttempts \in Nat \ {0}
    /\ MaxTransfers \in Nat /\ MaxTransferEdits \in Nat

VARIABLES
    transferHeld,       \* Discord: the department roles the member has
    transferConfig,     \* transferStripRoleIds, transferGrantRoleIds and the legacy set
    transfers,          \* the jobs on the queue, and what became of them
    transferAt,         \* what each worker is doing
    transferEdits,      \* changes by others left
    transferTouched     \* history: per worker, the roles others changed since its reading

transferVars == <<transferHeld, transferConfig, transfers, transferAt, transferEdits,
                  transferTouched>>

Roles(d) == {r \in DeptRole : DepartmentOf[r] = d}
Side == {"strip", "grant"}
RoleSets == [Side -> SUBSET DeptRole]
Report == {"completed", "partial", "failed"}
TransferJob == [from : Department, to : Department, roles : RoleSets,
                attempts : 0 .. TransferAttempts,
                state : {"waiting", "active", "thrown"} \cup Report]
Run == [job : Nat, step : {"config", "read", "apply"}, asked : RoleSets, todo : RoleSets,
        present : SUBSET Department, seen : SUBSET DeptRole,
        moved : BOOLEAN, missed : BOOLEAN]
NoRun == [step |-> "none"]

TransfersTypeOK ==
    /\ transferHeld \subseteq DeptRole
    /\ transferConfig \in [Department -> [strip : SUBSET DeptRole, grant : SUBSET DeptRole,
                                          legacy : SUBSET DeptRole]]
    /\ transfers \in Seq(TransferJob) /\ Len(transfers) <= MaxTransfers
    /\ transferAt \in [TransferWorker -> Run \cup {NoRun}]
    /\ transferEdits \in 0 .. MaxTransferEdits
    /\ transferTouched \in [TransferWorker -> SUBSET DeptRole]

TransfersInit ==
    /\ transferHeld = DeptHeldAtFirst
    /\ transferConfig = [d \in Department |-> [strip |-> {}, grant |-> {}, legacy |-> Roles(d)]]
    /\ transfers = <<>>
    /\ transferAt = [w \in TransferWorker |-> NoRun]
    /\ transferEdits = MaxTransferEdits
    /\ transferTouched = [w \in TransferWorker |-> {}]

-----------------------------------------------------------------------------

\* stripRolesOf and grantRolesOf: the legacy set while a side is empty.
StripRolesOf(d) ==
    IF transferConfig[d].strip # {} THEN transferConfig[d].strip ELSE transferConfig[d].legacy
GrantRolesOf(d) ==
    IF transferConfig[d].grant # {} THEN transferConfig[d].grant ELSE transferConfig[d].legacy

\* setTransferRoles: both sides are written, and the legacy set is cleared.
SetTransferRoles(d, strip, grant) ==
    /\ transferConfig' = [transferConfig EXCEPT ![d] = [strip |-> strip, grant |-> grant, legacy |-> {}]]
    /\ Works
    /\ UNCHANGED <<transferHeld, transfers, transferAt, transferEdits, transferTouched>>

\* requestTransfer: between two departments, each configured for its side.
RequestTransfer(from, to) ==
    /\ from # to
    /\ StripRolesOf(from) # {} /\ GrantRolesOf(to) # {}
    /\ Len(transfers) < MaxTransfers
    /\ transfers' = Append(transfers,
           [from |-> from, to |-> to, attempts |-> 0, state |-> "waiting",
            roles |-> [strip |-> StripRolesOf(from), grant |-> GrantRolesOf(to)]])
    /\ Works
    /\ UNCHANGED <<transferHeld, transferConfig, transferAt, transferEdits, transferTouched>>

-----------------------------------------------------------------------------

At(w, step) == transferAt[w].step = step
JobOf(w) == transfers[transferAt[w].job]

\* The member has a role for as long as he is in its guild; others know no order.
Change(w, side, r) ==
    /\ transferHeld' = IF side = "strip" THEN transferHeld \ {r} ELSE transferHeld \cup {r}
    /\ transferTouched' = [v \in TransferWorker |->
           IF v # w /\ At(v, "apply") THEN transferTouched[v] \cup {r} ELSE transferTouched[v]]

\* A worker takes a waiting job.
TakeTransfer(w, j) ==
    /\ At(w, "none")
    /\ transfers[j].state = "waiting"
    /\ transfers' = [transfers EXCEPT ![j].state = "active", ![j].attempts = @ + 1]
    /\ transferAt' = [transferAt EXCEPT ![w] =
           [job |-> j, step |-> "config", asked |-> transfers[j].roles, todo |-> transfers[j].roles,
            present |-> {}, seen |-> {}, moved |-> FALSE, missed |-> FALSE]]
    /\ Works
    /\ UNCHANGED <<transferHeld, transferConfig, transferEdits, transferTouched>>

\* The execution ends with an unexpected error: BullMQ makes another attempt if
\* there is one left.  What it has changed stays.
ThrowTransfer(w) ==
    LET j == transferAt[w].job
    IN  /\ transfers' = [transfers EXCEPT ![j].state =
               IF transfers[j].attempts < TransferAttempts THEN "waiting" ELSE "thrown"]
        /\ transferAt' = [transferAt EXCEPT ![w] = NoRun]
        /\ Fails
        /\ UNCHANGED <<transferHeld, transferTouched>>

\* The job's roles are intersected with the configured ones.
ResolveTransfer(w) ==
    /\ At(w, "config")
    /\ \/ /\ LET asked == [strip |-> JobOf(w).roles.strip \cap StripRolesOf(JobOf(w).from),
                           grant |-> JobOf(w).roles.grant \cap GrantRolesOf(JobOf(w).to)]
             IN  transferAt' = [transferAt EXCEPT ![w].step = "read", ![w].asked = asked, ![w].todo = asked]
          /\ Works
          /\ UNCHANGED <<transferHeld, transfers, transferTouched>>
       \/ ThrowTransfer(w)
    /\ UNCHANGED <<transferConfig, transferEdits>>

\* The member is read in both guilds; one that cannot be read counts as absent.
ReadMember(w) ==
    /\ At(w, "read")
    /\ \/ transferAt' = [transferAt EXCEPT ![w].step = "apply", ![w].seen = transferHeld,
                                           ![w].present = {JobOf(w).from, JobOf(w).to}] /\ Works
       \/ \E d \in {JobOf(w).from, JobOf(w).to} :
              transferAt' = [transferAt EXCEPT ![w].step = "apply", ![w].seen = transferHeld \ Roles(d),
                                               ![w].present = {JobOf(w).from, JobOf(w).to} \ {d}]
              /\ Fails
    /\ transferTouched' = [transferTouched EXCEPT ![w] = {}]
    /\ UNCHANGED <<transferHeld, transferConfig, transfers, transferEdits>>

\* Strips come before grants.
Upcoming(w) ==
    LET todo == transferAt[w].todo
    IN  IF todo["strip"] # {} THEN {"strip"} \X todo["strip"] ELSE {"grant"} \X todo["grant"]

\* What the reading says of a role: its side of the move cannot be made, is
\* done already, or has to be made.
ReadAs(w, side, r) ==
    IF DepartmentOf[r] \notin transferAt[w].present THEN "missed"
    ELSE IF (r \in transferAt[w].seen) = (side = "grant") THEN "skip"
    ELSE IF CheckRoleOperation(ObstaclesAt[r], TRUE) # OK THEN "missed"
    ELSE "change"

\* What became of one role.
Outcome(w, side, r, outcome) ==
    transferAt' = [transferAt EXCEPT ![w].todo[side] = @ \ {r},
                                     ![w].moved = @ \/ outcome = "moved",
                                     ![w].missed = @ \/ outcome = "missed"]

\* One role.  A call that fails is one line of the report; a check that fails
\* unexpectedly ends the execution.
TransferRole(w, side, r) ==
    /\ At(w, "apply") /\ <<side, r>> \in Upcoming(w)
    /\ LET reading == ReadAs(w, side, r)
       IN  \/ /\ reading = "change" /\ Works
              /\ Outcome(w, side, r, "moved") /\ Change(w, side, r) /\ UNCHANGED transfers
           \/ /\ IF reading = "change" THEN Fails /\ Outcome(w, side, r, "missed")
                 ELSE Works /\ Outcome(w, side, r, reading)
              /\ UNCHANGED <<transferHeld, transfers, transferTouched>>
           \/ reading = "change" /\ ThrowTransfer(w)
    /\ UNCHANGED <<transferConfig, transferEdits>>

FaultyReportOf(w) ==
    IF transferAt[w].moved THEN "completed" ELSE IF transferAt[w].missed THEN "failed" ELSE "completed"

ReportOf(w) ==
    IF ~transferAt[w].missed THEN "completed" ELSE IF transferAt[w].moved THEN "partial" ELSE "failed"

\* The report; recording it in the audit log may fail and changes nothing.
ReportTransfer(w) ==
    /\ At(w, "apply") /\ Upcoming(w) = {}
    /\ transfers' = [transfers EXCEPT ![transferAt[w].job].state = ReportOf(w)]
    /\ transferAt' = [transferAt EXCEPT ![w] = NoRun]
    /\ Works
    /\ UNCHANGED <<transferHeld, transferConfig, transferEdits, transferTouched>>

\* The worker stops; the job stalls and is delivered again, unless it did before.
TransferStalls(w) ==
    /\ ~At(w, "none")
    /\ \E state \in {"waiting", "thrown"} :
           transfers' = [transfers EXCEPT ![transferAt[w].job].state = state,
                                          ![transferAt[w].job].attempts = @ - 1]
    /\ transferAt' = [transferAt EXCEPT ![w] = NoRun]
    /\ Fails
    /\ UNCHANGED <<transferHeld, transferConfig, transferEdits, transferTouched>>

\* Somebody else - a person, the website, a role synchronization - changes a role.
OthersChange(r) ==
    /\ transferEdits > 0 /\ transferEdits' = transferEdits - 1
    /\ transferHeld' = IF r \in transferHeld THEN transferHeld \ {r} ELSE transferHeld \cup {r}
    /\ transferTouched' = [w \in TransferWorker |-> transferTouched[w] \cup {r}]
    /\ Works
    /\ UNCHANGED <<transferConfig, transfers, transferAt>>

-----------------------------------------------------------------------------

ProceedTransfer(w) ==
    \/ ResolveTransfer(w) \/ ReadMember(w) \/ ReportTransfer(w)
    \/ \E j \in DOMAIN transfers : TakeTransfer(w, j)
    \/ \E side \in Side, r \in DeptRole : TransferRole(w, side, r)

TransfersNext ==
    \/ \E d \in Department, sides \in SidesOffered :
           sides[1] \cup sides[2] \subseteq Roles(d) /\ SetTransferRoles(d, sides[1], sides[2])
    \/ \E from, to \in Department : RequestTransfer(from, to)
    \/ \E w \in TransferWorker : ProceedTransfer(w) \/ TransferStalls(w)
    \/ \E r \in DeptRole : OthersChange(r)


-----------------------------------------------------------------------------

\* An execution that reports "completed" leaves the member without the roles it
\* had to strip and with those it had to grant, but for roles that somebody
\* else changed after it read the member.
MovedWhenCompleted ==
    \A w \in TransferWorker :
        LET j == transferAt[w].job
        IN  (~At(w, "none") /\ transfers[j].state = "active" /\ transfers'[j].state = "completed") =>
                LET asked == transferAt[w].asked
                IN  /\ transferHeld' \cap asked["strip"] \subseteq transferTouched[w]
                    /\ asked["grant"] \ transferHeld' \subseteq transferTouched[w]

\* A transfer that waits or runs.
PendingTransfer(j) == j \in DOMAIN transfers /\ transfers[j].state \in {"waiting", "active"}
=============================================================================
