------------------------------ MODULE RoleSync ------------------------------
(***************************************************************************)
(* Role synchronization end to end: Discord, the bot that handles its role *)
(* events, the sync queue, the workers that plan and apply jobs, and the   *)
(* Redis markers and member locks between them.                            *)
(*                                                                         *)
(* A member is one Discord account, a role one (guild, role) pair.  Every  *)
(* await at which another process can run separates two actions.  What     *)
(* fails (a call to Discord, Redis, PostgreSQL, a process) spends one of a *)
(* bounded number of faults, what people do one of a bounded number of     *)
(* interventions.  Definitions whose names begin with Faulty are seeded    *)
(* faults.                                                                 *)
(***************************************************************************)
EXTENDS RoleEngine

CONSTANTS
    Member,             \* Discord accounts
    ContextOf,          \* the reconciliation context of each account
    PlanOf,             \* the engine's plan for what was read of an account
    Worker,             \* slots of the worker processes that can run a sync job
    Sweeper,            \* the maintenance worker, when it is one of Worker
    Nobody,             \* no worker, no member
    Threshold,          \* sync.maxRemovalsThreshold
    MaxRelock,          \* MAX_RELOCK_ATTEMPTS
    MaxInterventions,   \* bound: role changes and resync commands by people
    MaxFaults,          \* bound: failures of any kind
    LockOutlivesWork    \* whether no lock expires while its holder still works

ASSUME SyncConstants ==
    /\ ContextOf \in [Member -> SoundContexts]
    /\ PlanOf = [m \in Member |-> [held \in SUBSET Role |-> [read \in SUBSET Guild |->
                    PlanForMember(ContextOf[m], held, read)]]]
    /\ IsFiniteSet(Member) /\ IsFiniteSet(Role)
    /\ Nobody \notin Worker \cup Member
    /\ Threshold \in Nat
    /\ MaxRelock \in Nat
    /\ MaxInterventions \in Nat
    /\ MaxFaults \in Nat
    /\ LockOutlivesWork \in BOOLEAN

Action == {"ADD_ROLE", "REMOVE_ROLE"}
Change == [who : Member, role : Role, action : Action]

\* A SyncJob row: its targets, payload.relockAttempt and dryRun.  preview says
\* whether the job at the root of its parentJobId chain was a dry run.
Job == [who : SUBSET Member, relockAttempt : 0 .. MaxRelock,
        dryRun : BOOLEAN, preview : BOOLEAN]

Plan == [add : SUBSET Role, remove : SUBSET Role]
Call == [role : Role, action : Action, ok : BOOLEAN]

NoPlan == [m \in Member |-> [add |-> {}, remove |-> {}]]
NoJob == [who |-> {}, relockAttempt |-> 0, dryRun |-> FALSE, preview |-> FALSE]
NoCall == [role |-> Nobody, action |-> "none", ok |-> FALSE]

VARIABLES
    roles,          \* Discord: the roles of each account
    events,         \* Discord: how many of each role event are on their way to the bot
    markers,        \* Redis: role changes marked as the platform's own
    lock,           \* Redis: the worker whose token is stored for each account
    queue,          \* BullMQ: how many of each job wait
    pc,             \* workers: where each is
    job,            \* workers: the job each runs
    todo,           \* workers: targets still to plan, or to apply
    plan,           \* workers: the planned changes not made yet
    member,         \* workers: the account each holds the critical section of
    call,           \* workers: the role change being made
    contended,      \* workers: accounts skipped because they were locked
    interventions,  \* how often people may still intervene
    faults          \* how often something may still fail

discord == <<roles, events>>
redis == <<markers, lock>>
execution == <<pc, job, todo, plan, member, call, contended>>
budgets == <<interventions, faults>>
vars == <<discord, redis, queue, execution, budgets>>

TypeOK ==
    /\ roles \in [Member -> SUBSET Role]
    /\ events \in [Change -> Nat]
    /\ markers \subseteq Change
    /\ lock \in [Member -> Worker \cup {Nobody}]
    /\ queue \in [Job -> Nat]
    /\ pc \in [Worker -> {"idle", "planning", "applying", "inside", "marked", "called"}]
    /\ job \in [Worker -> Job]
    /\ todo \in [Worker -> SUBSET Member]
    /\ plan \in [Worker -> [Member -> Plan]]
    /\ member \in [Worker -> Member \cup {Nobody}]
    /\ call \in [Worker -> Call \cup {NoCall}]
    /\ contended \in [Worker -> SUBSET Member]
    /\ interventions \in 0 .. MaxInterventions
    /\ faults \in 0 .. MaxFaults

\* Inside the critical section there is an account, during a call a role change.
CriticalSections ==
    \A w \in Worker :
        /\ pc[w] \in {"inside", "marked", "called"} => member[w] \in Member
        /\ pc[w] \in {"marked", "called"} => call[w] \in Call

Init ==
    /\ roles \in [Member -> SUBSET Role]
    /\ events = [c \in Change |-> 0]
    /\ markers = {}
    /\ lock = [m \in Member |-> Nobody]
    /\ queue = [j \in Job |-> 0]
    /\ pc = [w \in Worker |-> "idle"]
    /\ job = [w \in Worker |-> NoJob]
    /\ todo = [w \in Worker |-> {}]
    /\ plan = [w \in Worker |-> NoPlan]
    /\ member = [w \in Worker |-> Nobody]
    /\ call = [w \in Worker |-> NoCall]
    /\ contended = [w \in Worker |-> {}]
    /\ interventions = MaxInterventions
    /\ faults = MaxFaults

-----------------------------------------------------------------------------
(* Discord and the people in it.                                           *)

\* One role more or less, the others as they are.
FaultyChangedRoles(held, c) ==
    IF c.action = "ADD_ROLE" THEN {c.role} ELSE held \ {c.role}
ChangedRoles(held, c) ==
    IF c.action = "ADD_ROLE" THEN held \cup {c.role} ELSE held \ {c.role}

\* A role change is made; Discord reports it only when it changed something.
MakeChange(c) ==
    /\ roles' = [roles EXCEPT ![c.who] = ChangedRoles(@, c)]
    /\ events' = IF roles'[c.who] = roles[c.who] THEN events
                 ELSE [events EXCEPT ![c] = @ + 1]

Fails == faults > 0 /\ faults' = faults - 1

\* Somebody edits an account's roles by hand.
PersonChange(c) ==
    /\ interventions > 0
    /\ (c.action = "ADD_ROLE") <=> (c.role \notin roles[c.who])
    /\ interventions' = interventions - 1
    /\ MakeChange(c)
    /\ UNCHANGED <<redis, queue, execution, faults>>

-----------------------------------------------------------------------------
(* The bot: handleMemberRoleChange for one changed role.                   *)

Enqueue(j) == queue' = [queue EXCEPT ![j] = @ + 1]
Arrives(c) == events[c] > 0 /\ events' = [events EXCEPT ![c] = @ - 1]

\* A role that is platform managed or part of an enabled mapping.
Relevant(c) ==
    \/ c.role \in GrantRole
    \/ \E m \in ContextOf[c.who].mappings : c.role \in {m.source, m.target}

ReconcileJob(m) == [NoJob EXCEPT !.who = {m}]

\* The claim finds a marker: the change is taken for the platform's own.
IgnoreMarked(c) ==
    /\ Arrives(c)
    /\ c \in markers
    /\ markers' = markers \ {c}
    /\ UNCHANGED <<roles, lock, queue, execution, budgets>>

\* No marker: the change is a person's, and a relevant one queues a reconcile.
HandleUnmarked(c) ==
    /\ Arrives(c)
    /\ c \notin markers
    /\ IF Relevant(c) THEN Enqueue(ReconcileJob(c.who)) ELSE UNCHANGED queue
    /\ UNCHANGED <<roles, redis, execution, budgets>>

\* The event never reaches the bot, the marker lookup fails, or the job could
\* not be created or queued.
LoseEvent(c) ==
    /\ Fails
    /\ Arrives(c)
    /\ UNCHANGED <<roles, redis, queue, execution, interventions>>

HandleEvent(c) == IgnoreMarked(c) \/ HandleUnmarked(c)

\* /resync member, guild or all, for real or as a preview.
RequestResync(who, dryRun) ==
    /\ interventions > 0
    /\ interventions' = interventions - 1
    /\ Enqueue([who |-> who, relockAttempt |-> 0, dryRun |-> dryRun, preview |-> dryRun])
    /\ UNCHANGED <<discord, redis, execution, faults>>

-----------------------------------------------------------------------------
(* The workers: runSyncJob.                                                *)

Goto(w, label) == pc' = [pc EXCEPT ![w] = label]

StartRun(w, j) ==
    /\ Goto(w, "planning")
    /\ job' = [job EXCEPT ![w] = j]
    /\ todo' = [todo EXCEPT ![w] = j.who]
    /\ UNCHANGED <<plan, member, call, contended>>

EndRun(w) ==
    /\ Goto(w, "idle")
    /\ job' = [job EXCEPT ![w] = NoJob]
    /\ todo' = [todo EXCEPT ![w] = {}]
    /\ plan' = [plan EXCEPT ![w] = NoPlan]
    /\ member' = [member EXCEPT ![w] = Nobody]
    /\ call' = [call EXCEPT ![w] = NoCall]
    /\ contended' = [contended EXCEPT ![w] = {}]

FaultyTakeJob(w, j) ==
    /\ w # Sweeper
    /\ pc[w] = "idle"
    /\ queue' = [queue EXCEPT ![j] = @ - 1]
    /\ StartRun(w, j)
    /\ UNCHANGED <<discord, redis, budgets>>

FaultyTakeJobAgain(w, j) ==
    /\ w # Sweeper
    /\ pc[w] = "idle"
    /\ queue[j] > 0
    /\ StartRun(w, j)
    /\ UNCHANGED <<discord, redis, queue, budgets>>

\* BullMQ hands a job to a free slot.
TakeJob(w, j) ==
    /\ w # Sweeper
    /\ pc[w] = "idle"
    /\ queue[j] > 0
    /\ queue' = [queue EXCEPT ![j] = @ - 1]
    /\ StartRun(w, j)
    /\ UNCHANGED <<discord, redis, budgets>>

\* Sweeps are hours apart, the delay of a re-queued job is seconds: the bound on
\* how many of those can be waiting.
RelocksAreTaken == \A j \in Job : j.relockAttempt > 0 => queue[j] = 0

\* runScheduledReconciliation: a job over everybody, run in place.
StartSweep(w) ==
    /\ w = Sweeper
    /\ pc[w] = "idle"
    /\ RelocksAreTaken
    /\ StartRun(w, [NoJob EXCEPT !.who = Member])
    /\ UNCHANGED <<discord, redis, queue, budgets>>

\* planTarget: the account's live roles are read, without its lock; a guild may
\* not answer.
PlanMember(w, m, read) ==
    /\ pc[w] = "planning"
    /\ m \in todo[w]
    /\ IF ContextOf[m].guilds \subseteq read THEN UNCHANGED faults ELSE Fails
    /\ plan' = [plan EXCEPT ![w][m] = PlanOf[m][roles[m]][read]]
    /\ todo' = [todo EXCEPT ![w] = @ \ {m}]
    /\ UNCHANGED <<discord, redis, queue, pc, job, member, call, contended, interventions>>

Actions(p) == (p.add \X {"ADD_ROLE"}) \cup (p.remove \X {"REMOVE_ROLE"})
Removals(w) == {mr \in Member \X Role : mr[2] \in plan[w][mr[1]].remove}
FaultyExceedsThreshold(w) == ~job[w].dryRun /\ Cardinality(Removals(w)) > Threshold + 1
ExceedsThreshold(w) == ~job[w].dryRun /\ Cardinality(Removals(w)) > Threshold

\* pauseForThreshold: too many removals, nothing is applied.
PauseForThreshold(w) ==
    /\ pc[w] = "planning"
    /\ todo[w] = {}
    /\ ExceedsThreshold(w)
    /\ EndRun(w)
    /\ UNCHANGED <<discord, redis, queue, budgets>>

\* applyPlans begins; accounts without a planned change are not locked.
StartApplying(w) ==
    /\ pc[w] = "planning"
    /\ todo[w] = {}
    /\ ~ExceedsThreshold(w)
    /\ Goto(w, "applying")
    /\ todo' = [todo EXCEPT ![w] = {m \in job[w].who : Actions(plan[w][m]) # {}}]
    /\ UNCHANGED <<discord, redis, queue, job, plan, member, call, contended, budgets>>

FaultyLockMember(w, m) ==
    /\ pc[w] = "applying"
    /\ m \in todo[w]
    /\ lock' = [lock EXCEPT ![m] = w]
    /\ todo' = [todo EXCEPT ![w] = @ \ {m}]
    /\ member' = [member EXCEPT ![w] = m]
    /\ Goto(w, "inside")
    /\ UNCHANGED <<discord, markers, queue, job, plan, call, contended, budgets>>

LockMember(w, m) ==
    /\ pc[w] = "applying"
    /\ m \in todo[w]
    /\ lock[m] = Nobody
    /\ lock' = [lock EXCEPT ![m] = w]
    /\ todo' = [todo EXCEPT ![w] = @ \ {m}]
    /\ member' = [member EXCEPT ![w] = m]
    /\ Goto(w, "inside")
    /\ UNCHANGED <<discord, markers, queue, job, plan, call, contended, budgets>>

\* The lock was held for as long as the worker polled for it.
SkipMember(w, m) ==
    /\ pc[w] = "applying"
    /\ m \in todo[w]
    /\ lock[m] # Nobody
    /\ todo' = [todo EXCEPT ![w] = @ \ {m}]
    /\ contended' = [contended EXCEPT ![w] = @ \cup {m}]
    /\ UNCHANGED <<discord, redis, queue, pc, job, plan, member, call, budgets>>

-----------------------------------------------------------------------------
(* applyAction, for the changes planned for the locked account.            *)

Pending(w) == Actions(plan[w][member[w]])
CalledChange(w) == [who |-> member[w], role |-> call[w].role, action |-> call[w].action]

\* The planned change is dealt with, whatever came of it.
Drop(w, role) ==
    plan' = [plan EXCEPT ![w][member[w]] =
                [add |-> @.add \ {role}, remove |-> @.remove \ {role}]]

\* Nothing is called: a dry run records the change, and otherwise the guild is
\* no longer synchronized or the pre-flight check refused it.
RecordOnly(w) ==
    /\ pc[w] = "inside"
    /\ \E a \in Pending(w) : Drop(w, a[1])
    /\ IF job[w].dryRun THEN UNCHANGED faults ELSE Fails
    /\ UNCHANGED <<discord, redis, queue, pc, job, todo, member, call, contended, interventions>>

\* The marker comes first; the change is made even if it could not be written.
MarkChange(w) ==
    /\ pc[w] = "inside"
    /\ ~job[w].dryRun
    /\ \E a \in Pending(w) :
          /\ call' = [call EXCEPT ![w] = [role |-> a[1], action |-> a[2], ok |-> FALSE]]
          /\ \/ /\ markers' = markers \cup
                     {[who |-> member[w], role |-> a[1], action |-> a[2]]}
                /\ UNCHANGED faults
             \/ UNCHANGED markers /\ Fails
    /\ Goto(w, "marked")
    /\ UNCHANGED <<discord, lock, queue, job, todo, plan, member, contended, interventions>>

\* Discord makes the change, unless the call fails.
CallDiscord(w) ==
    /\ pc[w] = "marked"
    /\ \/ /\ MakeChange(CalledChange(w))
          /\ call' = [call EXCEPT ![w].ok = TRUE]
          /\ UNCHANGED faults
       \/ Fails /\ UNCHANGED <<discord, call>>
    /\ Goto(w, "called")
    /\ UNCHANGED <<redis, queue, job, todo, plan, member, contended, interventions>>

\* The outcome is recorded.  A failure discards the marker, and a failure to
\* record a success is handled as if the call had failed.
RecordOutcome(w) ==
    /\ pc[w] = "called"
    /\ \/ call[w].ok /\ UNCHANGED <<markers, faults>>
       \/ call[w].ok /\ Fails /\ markers' = markers \ {CalledChange(w)}
       \/ ~call[w].ok /\ markers' = markers \ {CalledChange(w)} /\ UNCHANGED faults
    /\ Drop(w, call[w].role)
    /\ call' = [call EXCEPT ![w] = NoCall]
    /\ Goto(w, "inside")
    /\ UNCHANGED <<discord, lock, queue, job, todo, member, contended, interventions>>

\* The lock is given back only if it still holds this worker's token.
Released(w) == [lock EXCEPT ![member[w]] = IF @ = w THEN Nobody ELSE @]

UnlockMember(w) ==
    /\ pc[w] = "inside"
    /\ Pending(w) = {}
    /\ lock' = Released(w)
    /\ member' = [member EXCEPT ![w] = Nobody]
    /\ Goto(w, "applying")
    /\ UNCHANGED <<discord, markers, queue, job, todo, plan, call, contended, budgets>>

FaultyRelocksEarlyLimit(w) ==
    IF job[w].relockAttempt + 1 >= MaxRelock THEN {}
    ELSE {[who |-> {m}, relockAttempt |-> job[w].relockAttempt + 1,
           dryRun |-> FALSE, preview |-> job[w].preview] : m \in contended[w]}

\* requeueContendedMembers: each skipped account gets a job of its own, a real
\* one, until the chain of attempts is at its limit.
Relocks(w) ==
    IF job[w].relockAttempt >= MaxRelock THEN {}
    ELSE {[who |-> {m}, relockAttempt |-> job[w].relockAttempt + 1,
           dryRun |-> FALSE, preview |-> job[w].preview] : m \in contended[w]}

\* Each may fail to be created or queued, which is logged or becomes an issue.
FinishJob(w) ==
    /\ pc[w] = "applying"
    /\ todo[w] = {}
    /\ \E queued \in SUBSET Relocks(w) :
          /\ IF queued = Relocks(w) THEN UNCHANGED faults ELSE Fails
          /\ queue' = [j \in Job |-> IF j \in queued THEN queue[j] + 1 ELSE queue[j]]
    /\ EndRun(w)
    /\ UNCHANGED <<discord, redis, interventions>>

-----------------------------------------------------------------------------
(* Failures and time.                                                      *)

\* An error outside applyAction's own handling: the job is FAILED for good, the
\* lock is given back, and accounts skipped so far are not queued again.
FailJob(w) ==
    /\ pc[w] \in {"planning", "applying", "inside"}
    /\ Fails
    /\ lock' = IF pc[w] = "inside" THEN Released(w) ELSE lock
    /\ EndRun(w)
    /\ UNCHANGED <<discord, markers, queue, interventions>>

\* The process dies.  BullMQ delivers the job again, and as it is RUNNING it is
\* run again; a sweep waits for the next schedule.  Locks and markers stay.
Crash(w) ==
    /\ pc[w] # "idle"
    /\ Fails
    /\ IF w = Sweeper THEN UNCHANGED queue ELSE Enqueue(job[w])
    /\ EndRun(w)
    /\ UNCHANGED <<discord, redis, interventions>>

InCriticalSection(w, m) == pc[w] \in {"inside", "marked", "called"} /\ member[w] = m

FaultyLockExpires(m) ==
    /\ lock[m] # Nobody
    /\ InCriticalSection(lock[m], m)
    /\ ~LockOutlivesWork
    /\ lock' = [lock EXCEPT ![m] = Nobody]
    /\ UNCHANGED <<discord, markers, queue, execution, budgets>>

LockExpires(m) ==
    /\ lock[m] # Nobody
    /\ LockOutlivesWork => ~InCriticalSection(lock[m], m)
    /\ lock' = [lock EXCEPT ![m] = Nobody]
    /\ UNCHANGED <<discord, markers, queue, execution, budgets>>

MarkerExpires(c) ==
    /\ c \in markers
    /\ markers' = markers \ {c}
    /\ UNCHANGED <<discord, lock, queue, execution, budgets>>

-----------------------------------------------------------------------------

Apply(w) ==
    \/ RecordOnly(w) \/ MarkChange(w) \/ CallDiscord(w) \/ RecordOutcome(w)
    \/ UnlockMember(w)

RunJob(w) ==
    \/ \E m \in Member, read \in SUBSET Guild : PlanMember(w, m, read)
    \/ PauseForThreshold(w) \/ StartApplying(w)
    \/ \E m \in Member : LockMember(w, m) \/ SkipMember(w, m)
    \/ Apply(w)
    \/ FinishJob(w)

StartJob(w) == (\E j \in Job : TakeJob(w, j)) \/ StartSweep(w)

Next ==
    \/ \E c \in Change : PersonChange(c) \/ HandleEvent(c) \/ LoseEvent(c) \/ MarkerExpires(c)
    \/ \E who \in (SUBSET Member) \ {{}}, dryRun \in BOOLEAN : RequestResync(who, dryRun)
    \/ \E w \in Worker : StartJob(w) \/ RunJob(w) \/ FailJob(w) \/ Crash(w)
    \/ \E m \in Member : LockExpires(m)

Spec == Init /\ [][Next]_vars

\* The bot and the workers keep running, events are delivered, sweeps keep being
\* scheduled and locks run out.  Nobody has to intervene and nothing has to fail.
Fairness ==
    /\ WF_vars(\E c \in Change : HandleEvent(c))
    /\ \A w \in Worker : WF_vars(StartJob(w) \/ RunJob(w))
    /\ \A m \in Member : WF_vars(LockExpires(m))

FairSpec == Spec /\ Fairness

-----------------------------------------------------------------------------
(* Safety.                                                                 *)

\* Two workers never write to the same account at the same time, as long as no
\* lock runs out under its holder (locks.js; applyPlans).
OneWriter ==
    LockOutlivesWork =>
      \A v, w \in Worker, m \in Member :
          InCriticalSection(v, m) /\ InCriticalSection(w, m) => v = w

\* The token in Redis is the writer's own while it writes: what makes OneWriter
\* inductive.
WriterHoldsLock ==
    LockOutlivesWork =>
      \A w \in Worker, m \in Member : InCriticalSection(w, m) => lock[m] = w

\* Once a job writes, what it planned to remove is within the threshold, also
\* for the accounts it has not reached (rule 2 of the runner).
WithinThreshold ==
    \A w \in Worker :
        (pc[w] \notin {"idle", "planning"} /\ ~job[w].dryRun)
          => Cardinality(Removals(w)) <= Threshold

\* The critical sections, as what the lock module promises of those who hold it.
Exclusion == INSTANCE MemberExclusion
    WITH Client <- Worker \X Member,
         KeyOf  <- [wm \in Worker \X Member |-> wm[2]],
         inside <- {wm \in Worker \X Member : InCriticalSection(wm[1], wm[2])}

\* The roles the engine may ever plan to take from an account, and to give to it.
TakableRoles ==
    [m \in Member |-> Computable(ContextOf[m]) \ ActiveGrants(ContextOf[m])]
GivableRoles ==
    [m \in Member |-> ActiveGrants(ContextOf[m]) \cup {e.to : e \in Copying(ContextOf[m])}]

Policy == INSTANCE RolePolicy WITH Takable <- TakableRoles, Givable <- GivableRoles

\* However old a plan is when it is applied, whoever runs it again, and whether or
\* not locks hold: the platform takes only roles it computes and never one that is
\* granted, gives only roles that are granted or copied, and one role at a time
\* (diff.js, and applyAction in sync-runner.js).
ImplementsPolicy == Policy!Spec

-----------------------------------------------------------------------------
(* Liveness.                                                               *)

InSync(m) == Actions(PlanOf[m][roles[m]][Guild]) = {}

\* Once people stop editing and failures stop, every account ends up as its
\* mappings and grants say and stays so: whatever event, marker or job was lost
\* on the way, scheduled reconciliation repairs it (docs/architecture.md).
Converges == <>[](\A m \in Member : InSync(m))

\* The platform's own writes never keep it busy: in the end no role event is on
\* its way and no job waits, so mappings cannot ping-pong (event-service.js).
Quiesces == <>[](/\ \A c \in Change : events[c] = 0
                 /\ \A j \in Job : queue[j] = 0)

\* Once failures stop, an account a job had to skip and may queue again is planned
\* again from what it holds by then, without waiting for the next sweep
\* (sync-runner.js, requeueContendedMembers).
SkippedMembersAreReplanned ==
    \A m \in Member :
        (faults = 0 /\ \E w \in Worker : m \in contended[w] /\ job[w].relockAttempt < MaxRelock)
          ~> \E w \in Worker \ {Sweeper} : pc[w] = "planning" /\ m \in todo[w]

-----------------------------------------------------------------------------
(* What the code's comments and documentation say and the code does not do.*)

\* docs/architecture.md:177: "Dry run.  The same code path as a real run, with the
\* Discord write skipped".  Nothing a preview sets off changes Discord.
PreviewChangesNothing ==
    [][\A w \in Worker : CallDiscord(w) => ~job[w].preview]_vars
=============================================================================
