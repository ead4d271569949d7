------------------------------- MODULE Grants -------------------------------
(***************************************************************************)
(* Manual grants of one role to one member: issuing and revoking, which    *)
(* queue a synchronization of the member, and the scheduled sweep, which   *)
(* queues those of expired grants and then reconciles everybody itself.    *)
(* Synchronizing is planning from what is in force now and applying that   *)
(* later.                                                                  *)
(*                                                                         *)
(* grantsUnsure is history, read by properties only.  Definitions whose    *)
(* names begin with Faulty are seeded faults.                              *)
(***************************************************************************)
EXTENDS Integers, Surroundings, SequencesExt

CONSTANTS
    Issuer,         \* people with grant.issue
    GrantLength,    \* how long a grant can be for, in ticks; 0: without expiry
    Synchronizer,   \* workers on the synchronization queue
    MaxGrants,      \* bound: grants ever issued
    MaxGrantJobs    \* bound: synchronizations queued at once

ASSUME GrantConstants ==
    /\ GrantLength \subseteq Nat /\ IsFiniteSet(Issuer)
    /\ MaxGrants \in Nat /\ MaxGrantJobs \in Nat \ {0}

VARIABLES
    grantHeld,      \* Discord: the member has the role
    grantDriven,    \* the role is defined as platform managed, with purpose MANUAL_GRANT
    grants,         \* ManualRoleGrant rows
    issuing,        \* issuers between the check and the transaction: the expiry they carry
    grantJobs,      \* synchronizations of the member in the queue
    syncPlan,       \* what each synchronizer, and the sweep, is about to apply
    grantsUnsure    \* history: whether something needs the next synchronization

grantVars == <<grantHeld, grantDriven, grants, issuing, grantJobs, syncPlan, grantsUnsure>>

Sweeper == "sweep"
NotIssuing == -1
Forever == 0

GrantsTypeOK ==
    /\ grantHeld \in BOOLEAN /\ grantDriven \in BOOLEAN
    /\ grants \in Seq([until : Nat, revoked : BOOLEAN]) /\ Len(grants) <= MaxGrants
    /\ issuing \in [Issuer -> Nat \cup {NotIssuing}]
    /\ grantJobs \in 0 .. MaxGrantJobs
    /\ syncPlan \in [Synchronizer \cup {Sweeper} -> {"idle", "begun", "add", "remove", "nothing"}]
    /\ grantsUnsure \in BOOLEAN

GrantsInit ==
    /\ grantHeld = FALSE /\ grantDriven = TRUE
    /\ grants = <<>>
    /\ issuing = [i \in Issuer |-> NotIssuing]
    /\ grantJobs = 0
    /\ syncPlan = [w \in Synchronizer \cup {Sweeper} |-> "idle"]
    /\ grantsUnsure = FALSE

-----------------------------------------------------------------------------

\* currentlyEffective: neither revoked nor expired.
CurrentlyEffective(g, time) == ~g.revoked /\ (g.until = Forever \/ g.until > time)

InForce(time) == \E i \in DOMAIN grants : CurrentlyEffective(grants[i], time)

Expiring(i) == ~grants[i].revoked /\ grants[i].until # Forever /\ grants[i].until <= now

Idle(w) == syncPlan[w] = "idle"

\* enqueueSyncJob after a transaction: a failure is recorded, and the change stays.
QueueSync ==
    \/ Works /\ grantJobs < MaxGrantJobs /\ grantJobs' = grantJobs + 1 /\ UNCHANGED grantsUnsure
    \/ Fails /\ grantsUnsure' = TRUE /\ UNCHANGED grantJobs

\* issueGrant up to its check: the role is one that grants drive, and the
\* member has no active grant of it.
CheckGrant(i, length) ==
    /\ issuing[i] = NotIssuing
    /\ Len(grants) + Cardinality({j \in Issuer : issuing[j] # NotIssuing}) < MaxGrants
    /\ grantDriven
    /\ ~InForce(now)
    /\ issuing' = [issuing EXCEPT ![i] = IF length = 0 THEN Forever ELSE now + length]
    /\ Works
    /\ UNCHANGED <<grantHeld, grantDriven, grants, grantJobs, syncPlan, grantsUnsure>>

\* The transaction of issueGrant, and the synchronization it queues.
IssueGrant(i) ==
    /\ issuing[i] # NotIssuing
    /\ grants' = Append(grants, [until |-> issuing[i], revoked |-> FALSE])
    /\ issuing' = [issuing EXCEPT ![i] = NotIssuing]
    /\ QueueSync
    /\ UNCHANGED <<grantHeld, grantDriven, syncPlan>>

FaultyRevokeGrant(g) ==
    /\ ~grants[g].revoked
    /\ grants' = [grants EXCEPT ![g].revoked = TRUE]
    /\ Works
    /\ UNCHANGED <<grantHeld, grantDriven, issuing, grantJobs, syncPlan, grantsUnsure>>

\* revokeGrant: also a grant that has expired can be revoked.
RevokeGrant(g) ==
    /\ ~grants[g].revoked
    /\ grants' = [grants EXCEPT ![g].revoked = TRUE]
    /\ QueueSync
    /\ UNCHANGED <<grantHeld, grantDriven, issuing, syncPlan>>

\* upsertManagedRole and removeManagedRole: nothing is queued, and nothing is
\* taken from those who have the role.
UpsertManagedRole(driven) ==
    /\ grantDriven' = driven
    /\ grantDriven # driven
    /\ grantsUnsure' = TRUE
    /\ Works
    /\ UNCHANGED <<grantHeld, grants, issuing, grantJobs, syncPlan>>

-----------------------------------------------------------------------------

\* planForMember, of this one role.
PlanFor ==
    CASE ~grantDriven \/ (grantHeld <=> InForce(now)) -> "nothing"
      [] grantDriven /\ InForce(now) /\ ~grantHeld -> "add"
      [] grantDriven /\ ~InForce(now) /\ grantHeld -> "remove"

\* A synchronizer, or the sweep, plans from what is in force now.
PlanGrant(w) ==
    /\ \/ Idle(w) /\ w # Sweeper /\ grantJobs > 0 /\ grantJobs' = grantJobs - 1
       \/ syncPlan[w] = "begun" /\ UNCHANGED grantJobs
    /\ syncPlan' = [syncPlan EXCEPT ![w] = PlanFor]
    /\ grantsUnsure' = \E v \in DOMAIN syncPlan \ {w} : syncPlan[v] \notin {"idle", "begun"}
    /\ Works
    /\ UNCHANGED <<grantHeld, grantDriven, grants, issuing>>

\* It applies the plan, whatever has become of the grants meanwhile.  A call
\* that fails is recorded as an issue.
ApplyGrant(w) ==
    /\ syncPlan[w] \in {"add", "remove", "nothing"}
    /\ \/ Works /\ UNCHANGED grantsUnsure
          /\ grantHeld' = CASE syncPlan[w] = "add" -> TRUE
                            [] syncPlan[w] = "remove" -> FALSE
                            [] syncPlan[w] = "nothing" -> grantHeld
       \/ Fails /\ grantsUnsure' = TRUE /\ UNCHANGED grantHeld
    /\ syncPlan' = [syncPlan EXCEPT ![w] = "idle"]
    /\ UNCHANGED <<grantDriven, grants, issuing, grantJobs>>

\* runScheduledReconciliation begins with expireGrants: if any grant has ever
\* expired unrevoked, the member is queued, at every sweep.  A failure is
\* logged, and the reconciliation follows.
ExpireGrants ==
    /\ Idle(Sweeper)
    /\ IF \E i \in DOMAIN grants : Expiring(i)
       THEN \/ grantJobs = MaxGrantJobs /\ Works /\ UNCHANGED <<grantJobs, grantsUnsure>>
            \/ QueueSync
       ELSE Works /\ UNCHANGED <<grantJobs, grantsUnsure>>
    /\ syncPlan' = [syncPlan EXCEPT ![Sweeper] = "begun"]
    /\ UNCHANGED <<grantHeld, grantDriven, grants, issuing>>

\* Time passes, and a grant may run out without anything being queued.
GrantsTick ==
    /\ Tick
    /\ grantsUnsure' = (grantsUnsure \/ InForce(now) # InForce(now + 1))
    /\ UNCHANGED <<grantHeld, grantDriven, grants, issuing, grantJobs, syncPlan>>

-----------------------------------------------------------------------------

Synchronize(w) == PlanGrant(w) \/ ApplyGrant(w)

\* The scheduled sweep begins, plans and applies.
Reconciliation == ExpireGrants \/ Synchronize(Sweeper)

GrantsNext ==
    \/ \E i \in Issuer : IssueGrant(i) \/ \E length \in GrantLength : CheckGrant(i, length)
    \/ \E g \in DOMAIN grants : RevokeGrant(g)
    \/ \E driven \in BOOLEAN : UpsertManagedRole(driven)
    \/ \E w \in Synchronizer : Synchronize(w)
    \/ Reconciliation
    \/ GrantsTick


-----------------------------------------------------------------------------

\* With nothing queued or being applied, and nothing that waits for the next
\* sweep, the member has the role exactly while a grant is in force, however
\* many grants there are and in whatever order they came and went.
SettledGrantsAreRight ==
    (grantDriven /\ ~grantsUnsure /\ grantJobs = 0 /\ \A w \in DOMAIN syncPlan : Idle(w))
        => (grantHeld <=> InForce(now))

\* The member has the role without a grant for it.
OverdueGrant == grantHeld /\ grantDriven /\ ~InForce(now)
=============================================================================
