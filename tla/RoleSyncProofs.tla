--------------------------- MODULE RoleSyncProofs ---------------------------
(***************************************************************************)
(* Proofs about role synchronization, for any accounts, roles, workers,    *)
(* reconciliation contexts and bounds.  Of EngineProofs, whose theorems are *)
(* about an account that nobody else changes, only the lemmas about one    *)
(* computation are used, for every plan a worker makes.                    *)
(***************************************************************************)
EXTENDS RoleSync, EngineProofs

\* Whatever the mappings compute, a plan consists of roles.
LEMMA PlansAreTyped ==
    ASSUME NEW m \in Member, NEW held \in SUBSET Role, NEW read \in SUBSET Guild
    PROVE  PlanOf[m][held][read] \in Plan
<1>1. PlanOf[m][held][read] = PlanForMember(ContextOf[m], held, read)
  BY SyncConstants
<1>2. RolesIn(read) \subseteq Role
  BY DEF RolesIn
<1> DEFINE state == ComputeDesiredState(ContextOf[m], held, read)
           add == (DOMAIN state.desired \ held) \cap RolesIn(read)
           remove == (state.controlled \cap held \cap RolesIn(read)) \ DOMAIN state.desired
<1>3. PlanOf[m][held][read] = [add |-> add, remove |-> remove]
  BY <1>1, Zenon DEF PlanForMember, DiffMemberState
<1>4. add \subseteq Role /\ remove \subseteq Role
  BY <1>2
<1> HIDE DEF add, remove
<1> QED
  BY <1>3, <1>4 DEF Plan

\* The jobs the system creates are jobs.
LEMMA JobsAreTyped ==
    /\ NoJob \in Job
    /\ [NoJob EXCEPT !.who = Member] \in Job
    /\ \A m \in Member : ReconcileJob(m) \in Job
    /\ \A who \in SUBSET Member, dryRun \in BOOLEAN :
          [who |-> who, relockAttempt |-> 0, dryRun |-> dryRun, preview |-> dryRun] \in Job
<1>1. 0 \in 0 .. MaxRelock
  BY SyncConstants
<1>2. NoJob \in Job
  BY <1>1 DEF NoJob, Job
<1>3. ASSUME NEW who \in SUBSET Member PROVE [NoJob EXCEPT !.who = who] \in Job
  BY <1>1 DEF NoJob, Job
<1>4. ASSUME NEW who \in SUBSET Member, NEW dryRun \in BOOLEAN
      PROVE  [who |-> who, relockAttempt |-> 0, dryRun |-> dryRun, preview |-> dryRun] \in Job
  BY <1>1 DEF Job
<1> QED
  BY <1>2, <1>3, <1>4 DEF ReconcileJob

LEMMA NoPlanTyped == NoPlan \in [Member -> Plan]
BY DEF NoPlan, Plan

-----------------------------------------------------------------------------
(* Type correctness.                                                       *)

LEMMA InitTyped == Init => TypeOK
<1> SUFFICES ASSUME Init PROVE TypeOK
  OBVIOUS
<1> USE DEF Init
<1>1. roles \in [Member -> SUBSET Role] /\ events \in [Change -> Nat] /\ queue \in [Job -> Nat]
  OBVIOUS
<1>2. markers \subseteq Change /\ lock \in [Member -> Worker \cup {Nobody}]
  OBVIOUS
<1>3. job \in [Worker -> Job] /\ plan \in [Worker -> [Member -> Plan]]
  BY JobsAreTyped, NoPlanTyped
<1>4. /\ pc \in [Worker -> {"idle", "planning", "applying", "inside", "marked", "called"}]
      /\ todo \in [Worker -> SUBSET Member] /\ contended \in [Worker -> SUBSET Member]
      /\ member \in [Worker -> Member \cup {Nobody}]
  OBVIOUS
<1>5. call \in [Worker -> Call \cup {NoCall}]
  OBVIOUS
<1>6. interventions \in 0 .. MaxInterventions /\ faults \in 0 .. MaxFaults
  BY SyncConstants
<1> QED
  BY <1>1, <1>2, <1>3, <1>4, <1>5, <1>6 DEF TypeOK

\* A change of one account's roles keeps Discord's part of the state typed.
LEMMA MakeChangeTyped ==
    ASSUME TypeOK, NEW c \in Change, MakeChange(c)
    PROVE  roles' \in [Member -> SUBSET Role] /\ events' \in [Change -> Nat]
<1>1. c.who \in Member /\ c.role \in Role
  BY DEF Change
<1> QED
  BY <1>1 DEF TypeOK, MakeChange, ChangedRoles

\* A run that ends leaves the worker's variables typed.
LEMMA EndRunTyped ==
    ASSUME TypeOK, NEW w \in Worker, EndRun(w)
    PROVE  /\ pc' \in [Worker -> {"idle", "planning", "applying", "inside", "marked", "called"}]
           /\ job' \in [Worker -> Job]
           /\ todo' \in [Worker -> SUBSET Member]
           /\ plan' \in [Worker -> [Member -> Plan]]
           /\ member' \in [Worker -> Member \cup {Nobody}]
           /\ call' \in [Worker -> Call \cup {NoCall}]
           /\ contended' \in [Worker -> SUBSET Member]
<1> USE DEF TypeOK, EndRun, Goto
<1>1. job' \in [Worker -> Job]
  BY JobsAreTyped
<1>2. plan' \in [Worker -> [Member -> Plan]]
  BY NoPlanTyped
<1> QED
  BY <1>1, <1>2

\* A run that starts does too.
LEMMA StartRunTyped ==
    ASSUME TypeOK, NEW w \in Worker, NEW j \in Job, StartRun(w, j)
    PROVE  /\ pc' \in [Worker -> {"idle", "planning", "applying", "inside", "marked", "called"}]
           /\ job' \in [Worker -> Job]
           /\ todo' \in [Worker -> SUBSET Member]
           /\ UNCHANGED <<plan, member, call, contended>>
BY DEF TypeOK, StartRun, Goto, Job

LEMMA FailsTyped ==
    ASSUME TypeOK, Fails
    PROVE  faults' \in 0 .. MaxFaults
BY SyncConstants DEF TypeOK, Fails

\* Dropping a planned change keeps the plans typed and plans nothing new.
LEMMA DropShrinks ==
    ASSUME TypeOK, NEW w \in Worker, member[w] \in Member, NEW r, Drop(w, r)
    PROVE  /\ plan' \in [Worker -> [Member -> Plan]]
           /\ \A v \in Worker, m \in Member :
                /\ plan'[v][m].add \subseteq plan[v][m].add
                /\ plan'[v][m].remove \subseteq plan[v][m].remove
<1> DEFINE mine == plan[w][member[w]]
           left == [add |-> mine.add \ {r}, remove |-> mine.remove \ {r}]
<1>1. plan' = [plan EXCEPT ![w] = [plan[w] EXCEPT ![member[w]] = left]]
  BY DEF Drop, TypeOK
<1>2. plan[w] \in [Member -> Plan] /\ mine \in Plan
  BY DEF TypeOK
<1>3. left \in Plan /\ left.add \subseteq mine.add /\ left.remove \subseteq mine.remove
  BY <1>2 DEF Plan
<1>4. [plan[w] EXCEPT ![member[w]] = left] \in [Member -> Plan]
  BY <1>2, <1>3
<1>5. plan' \in [Worker -> [Member -> Plan]]
  BY <1>1, <1>4 DEF TypeOK
<1>6. ASSUME NEW v \in Worker, NEW m \in Member
      PROVE  /\ plan'[v][m].add \subseteq plan[v][m].add
             /\ plan'[v][m].remove \subseteq plan[v][m].remove
  <2>1. CASE v = w /\ m = member[w]
    BY <1>1, <1>2, <1>3, <2>1 DEF TypeOK
  <2>2. CASE ~(v = w /\ m = member[w])
    BY <1>1, <1>2, <2>2 DEF TypeOK
  <2> QED
    BY <2>1, <2>2
<1> QED
  BY <1>5, <1>6

Typed == TypeOK /\ CriticalSections

LEMMA InitCritical == Init => CriticalSections
BY DEF Init, CriticalSections

\* Adding a job to the queue keeps it typed.
LEMMA EnqueueTyped ==
    ASSUME TypeOK, NEW j \in Job, Enqueue(j)
    PROVE  queue' \in [Job -> Nat]
BY DEF TypeOK, Enqueue

LEMMA ArrivesTyped ==
    ASSUME TypeOK, NEW c \in Change, Arrives(c)
    PROVE  events' \in [Change -> Nat]
BY DEF TypeOK, Arrives

\* The change a worker is calling is a role change.
LEMMA CalledChangeTyped ==
    ASSUME Typed, NEW w \in Worker, pc[w] \in {"marked", "called"}
    PROVE  CalledChange(w) \in Change
BY DEF Typed, CriticalSections, CalledChange, Change, Call

LEMMA ReleasedTyped ==
    ASSUME TypeOK, NEW w \in Worker
    PROVE  Released(w) \in [Member -> Worker \cup {Nobody}]
BY DEF TypeOK, Released

\* What people, Discord and the bot do keeps the types.
LEMMA TypedOutside ==
    ASSUME Typed,
           \/ \E c \in Change : PersonChange(c) \/ HandleEvent(c) \/ LoseEvent(c) \/ MarkerExpires(c)
           \/ \E who \in (SUBSET Member) \ {{}}, dryRun \in BOOLEAN : RequestResync(who, dryRun)
           \/ \E m \in Member : LockExpires(m)
    PROVE  Typed'
<1> USE SyncConstants DEF Typed, TypeOK, CriticalSections, vars, discord, redis, execution, budgets
<1>1. ASSUME NEW c \in Change, PersonChange(c) PROVE Typed'
  <2>1. roles' \in [Member -> SUBSET Role] /\ events' \in [Change -> Nat]
    BY <1>1, MakeChangeTyped DEF PersonChange
  <2>2. interventions' \in 0 .. MaxInterventions
    BY <1>1 DEF PersonChange
  <2> QED
    BY <1>1, <2>1, <2>2 DEF PersonChange
<1>2. ASSUME NEW c \in Change, MarkerExpires(c) PROVE Typed'
  BY <1>2 DEF MarkerExpires
<1>3. ASSUME NEW c \in Change, IgnoreMarked(c) PROVE Typed'
  BY <1>3, ArrivesTyped DEF IgnoreMarked
<1>4. ASSUME NEW c \in Change, HandleUnmarked(c) PROVE Typed'
  <2>1. c.who \in Member
    BY DEF Change
  <2>2. queue' \in [Job -> Nat]
    BY <1>4, <2>1, JobsAreTyped, EnqueueTyped DEF HandleUnmarked
  <2> QED
    BY <1>4, <2>2, ArrivesTyped DEF HandleUnmarked
<1>5. ASSUME NEW c \in Change, LoseEvent(c) PROVE Typed'
  BY <1>5, ArrivesTyped, FailsTyped DEF LoseEvent
<1>6. ASSUME NEW who \in SUBSET Member, NEW dryRun \in BOOLEAN, RequestResync(who, dryRun)
      PROVE  Typed'
  <2>1. queue' \in [Job -> Nat]
    BY <1>6, JobsAreTyped, EnqueueTyped DEF RequestResync
  <2>2. interventions' \in 0 .. MaxInterventions
    BY <1>6 DEF RequestResync
  <2> QED
    BY <1>6, <2>1, <2>2 DEF RequestResync
<1>7. ASSUME NEW m \in Member, LockExpires(m) PROVE Typed'
  BY <1>7 DEF LockExpires
<1> HIDE DEF Typed
<1> QED
  BY <1>1, <1>2, <1>3, <1>4, <1>5, <1>6, <1>7, Zenon DEF HandleEvent

\* Taking, planning and finishing jobs keeps the types.
LEMMA TypedRun ==
    ASSUME Typed, NEW w \in Worker,
           \/ \E j \in Job : TakeJob(w, j)
           \/ StartSweep(w)
           \/ \E m \in Member, read \in SUBSET Guild : PlanMember(w, m, read)
           \/ PauseForThreshold(w) \/ StartApplying(w)
           \/ \E m \in Member : LockMember(w, m) \/ SkipMember(w, m)
           \/ FinishJob(w) \/ FailJob(w) \/ Crash(w)
    PROVE  Typed'
<1> USE SyncConstants DEF Typed, TypeOK, CriticalSections, vars, discord, redis, execution, budgets
<1>1. ASSUME NEW j \in Job, TakeJob(w, j) PROVE Typed'
  <2>1. StartRun(w, j) /\ queue' \in [Job -> Nat]
    BY <1>1 DEF TakeJob
  <2>2. CriticalSections'
    BY <2>1, StartRunTyped DEF StartRun, Goto
  <2> QED
    BY <1>1, <2>1, <2>2, StartRunTyped DEF TakeJob
<1>2. ASSUME StartSweep(w) PROVE Typed'
  <2>1. StartRun(w, [NoJob EXCEPT !.who = Member]) /\ [NoJob EXCEPT !.who = Member] \in Job
    BY <1>2, JobsAreTyped DEF StartSweep
  <2>2. CriticalSections'
    BY <2>1, StartRunTyped DEF StartRun, Goto
  <2> QED
    BY <1>2, <2>1, <2>2, StartRunTyped DEF StartSweep
<1>3. ASSUME NEW m \in Member, NEW read \in SUBSET Guild, PlanMember(w, m, read) PROVE Typed'
  <2>1. PlanOf[m][roles[m]][read] \in Plan
    BY PlansAreTyped
  <2>2. plan' \in [Worker -> [Member -> Plan]]
    BY <1>3, <2>1 DEF PlanMember
  <2>3. faults' \in 0 .. MaxFaults
    BY <1>3, FailsTyped DEF PlanMember
  <2> QED
    BY <1>3, <2>2, <2>3 DEF PlanMember
<1>4. ASSUME PauseForThreshold(w) PROVE Typed'
  <2>1. EndRun(w)
    BY <1>4 DEF PauseForThreshold
  <2>2. CriticalSections'
    BY <2>1 DEF EndRun, Goto
  <2> QED
    BY <1>4, <2>1, <2>2, EndRunTyped DEF PauseForThreshold
<1>5. ASSUME StartApplying(w) PROVE Typed'
  <2>1. job[w].who \subseteq Member
    BY DEF Job
  <2> QED
    BY <1>5, <2>1 DEF StartApplying, Goto
<1>6. ASSUME NEW m \in Member, LockMember(w, m) PROVE Typed'
  BY <1>6 DEF LockMember, Goto
<1>7. ASSUME NEW m \in Member, SkipMember(w, m) PROVE Typed'
  BY <1>7 DEF SkipMember
<1>8. ASSUME FinishJob(w) PROVE Typed'
  <2>1. EndRun(w) /\ queue' \in [Job -> Nat] /\ faults' \in 0 .. MaxFaults
    BY <1>8, FailsTyped DEF FinishJob
  <2>2. CriticalSections'
    BY <2>1 DEF EndRun, Goto
  <2> QED
    BY <1>8, <2>1, <2>2, EndRunTyped DEF FinishJob
<1>9. ASSUME FailJob(w) PROVE Typed'
  <2>1. EndRun(w) /\ lock' \in [Member -> Worker \cup {Nobody}]
    BY <1>9, ReleasedTyped DEF FailJob
  <2>2. CriticalSections'
    BY <2>1 DEF EndRun, Goto
  <2> QED
    BY <1>9, <2>1, <2>2, EndRunTyped, FailsTyped DEF FailJob
<1>10. ASSUME Crash(w) PROVE Typed'
  <2>1. EndRun(w) /\ queue' \in [Job -> Nat]
    BY <1>10, EnqueueTyped DEF Crash
  <2>2. CriticalSections'
    BY <2>1 DEF EndRun, Goto
  <2> QED
    BY <1>10, <2>1, <2>2, EndRunTyped, FailsTyped DEF Crash
<1> QED
  BY <1>1, <1>2, <1>3, <1>4, <1>5, <1>6, <1>7, <1>8, <1>9, <1>10

\* An action planned for an account is a role change of that plan.
LEMMA PendingTyped ==
    ASSUME Typed, NEW w \in Worker, pc[w] \in {"inside", "marked", "called"}
    PROVE  \A a \in Pending(w) : a[1] \in Role /\ a[2] \in Action
<1>1. plan[w][member[w]] \in Plan
  BY DEF Typed, TypeOK, CriticalSections
<1> QED
  BY <1>1 DEF Pending, Actions, Plan, Action

\* Every step of applyAction keeps the types.
LEMMA TypedApply ==
    ASSUME Typed, NEW w \in Worker, Apply(w)
    PROVE  Typed'
<1> USE SyncConstants DEF Typed, TypeOK, CriticalSections, vars, discord, redis, execution, budgets
<1>1. ASSUME RecordOnly(w) PROVE Typed'
  <2>1. PICK a \in Pending(w) : Drop(w, a[1])
    BY <1>1 DEF RecordOnly
  <2>2. plan' \in [Worker -> [Member -> Plan]]
    BY <1>1, <2>1, DropShrinks DEF RecordOnly
  <2>3. faults' \in 0 .. MaxFaults
    BY <1>1, FailsTyped DEF RecordOnly
  <2> QED
    BY <1>1, <2>2, <2>3 DEF RecordOnly
<1>2. ASSUME MarkChange(w) PROVE Typed'
  <2>1. pc[w] = "inside" /\ member[w] \in Member
    BY <1>2 DEF MarkChange
  <2>2. PICK a \in Pending(w) :
           /\ call' = [call EXCEPT ![w] = [role |-> a[1], action |-> a[2], ok |-> FALSE]]
           /\ \/ /\ markers' = markers \cup
                      {[who |-> member[w], role |-> a[1], action |-> a[2]]}
                 /\ UNCHANGED faults
              \/ UNCHANGED markers /\ Fails
    BY <1>2 DEF MarkChange
  <2>3. a[1] \in Role /\ a[2] \in Action
    BY <2>1, PendingTyped
  <2>4. [role |-> a[1], action |-> a[2], ok |-> FALSE] \in Call
    BY <2>3 DEF Call
  <2>5. markers' \subseteq Change /\ faults' \in 0 .. MaxFaults
    BY <2>1, <2>2, <2>3, FailsTyped DEF Change
  <2>6. /\ pc' = [pc EXCEPT ![w] = "marked"]
        /\ UNCHANGED <<roles, events, lock, queue, job, todo, plan, member, contended,
                       interventions>>
    BY <1>2 DEF MarkChange, Goto
  <2>7. call' = [call EXCEPT ![w] = [role |-> a[1], action |-> a[2], ok |-> FALSE]]
    BY <2>2
  <2>8. call' \in [Worker -> Call \cup {NoCall}] /\ call'[w] \in Call
    BY <2>4, <2>7
  <2>9. CriticalSections'
    BY <2>1, <2>6, <2>7, <2>8
  <2> QED
    BY <2>5, <2>6, <2>8, <2>9
<1>3. ASSUME CallDiscord(w) PROVE Typed'
  <2>1. call[w] \in Call /\ CalledChange(w) \in Change
    BY <1>3, CalledChangeTyped DEF CallDiscord
  <2>2. roles' \in [Member -> SUBSET Role] /\ events' \in [Change -> Nat]
    BY <1>3, <2>1, MakeChangeTyped DEF CallDiscord
  <2>3. [call[w] EXCEPT !.ok = TRUE] \in Call
    BY <2>1 DEF Call
  <2>4. faults' \in 0 .. MaxFaults
    BY <1>3, FailsTyped DEF CallDiscord
  <2>5. call' \in [Worker -> Call \cup {NoCall}]
    BY <1>3, <2>3 DEF CallDiscord
  <2>6. call'[w] \in Call /\ \A v \in Worker : v # w => call'[v] = call[v]
    BY <1>3, <2>1, <2>3 DEF CallDiscord
  <2>7. CriticalSections'
    BY <1>3, <2>6 DEF CallDiscord, Goto
  <2> QED
    BY <1>3, <2>2, <2>4, <2>5, <2>7 DEF CallDiscord, Goto
<1>4. ASSUME RecordOutcome(w) PROVE Typed'
  <2>1. plan' \in [Worker -> [Member -> Plan]]
    BY <1>4, DropShrinks DEF RecordOutcome
  <2>2. markers' \subseteq Change /\ faults' \in 0 .. MaxFaults
    BY <1>4, FailsTyped DEF RecordOutcome
  <2> QED
    BY <1>4, <2>1, <2>2 DEF RecordOutcome, Goto
<1>5. ASSUME UnlockMember(w) PROVE Typed'
  BY <1>5, ReleasedTyped DEF UnlockMember, Goto
<1> QED
  BY <1>1, <1>2, <1>3, <1>4, <1>5 DEF Apply

LEMMA TypedStep ==
    ASSUME Typed, [Next]_vars
    PROVE  Typed'
<1>1. CASE Next
  BY <1>1, TypedOutside, TypedRun, TypedApply, Zenon DEF Next, StartJob, RunJob
<1>2. CASE UNCHANGED vars
  BY <1>2 DEF Typed, TypeOK, CriticalSections, vars, discord, redis, execution, budgets
<1> QED
  BY <1>1, <1>2

LEMMA InitialTypes == Init => Typed
BY InitTyped, InitCritical DEF Typed

\* The variables keep their types, whatever people, faults and schedules do.
THEOREM TypeCorrect == Spec => []TypeOK
<1>1. Typed => TypeOK
  BY DEF Typed
<1> QED
  BY <1>1, InitialTypes, TypedStep, PTL DEF Spec

-----------------------------------------------------------------------------
(* One writer per account.                                                 *)

\* A step of worker w that neither enters nor leaves a critical section.
StaysPut(w) ==
    /\ UNCHANGED <<lock, member>>
    /\ \E label \in {"planning", "applying", "inside", "marked", "called"} :
          pc' = [pc EXCEPT ![w] = label]
    /\ pc[w] \in {"inside", "marked", "called"} <=> pc'[w] \in {"inside", "marked", "called"}

LEMMA StaysPutKeeps ==
    ASSUME Typed, WriterHoldsLock, NEW w \in Worker, StaysPut(w)
    PROVE  WriterHoldsLock'
BY DEF Typed, TypeOK, StaysPut, WriterHoldsLock, InCriticalSection

\* A worker that leaves its critical section and gives back only its own lock
\* leaves the locks of the others.
LEMMA LeavingKeeps ==
    ASSUME Typed, WriterHoldsLock, NEW w \in Worker,
           pc' \in {[pc EXCEPT ![w] = "idle"], [pc EXCEPT ![w] = "applying"]},
           member' = [member EXCEPT ![w] = Nobody],
           lock' = lock \/ (pc[w] = "inside" /\ lock' = Released(w))
    PROVE  WriterHoldsLock'
<1> SUFFICES ASSUME LockOutlivesWork, NEW v \in Worker, NEW m \in Member,
                    InCriticalSection(v, m)'
             PROVE  lock'[m] = v
  BY DEF WriterHoldsLock
<1>1. v # w /\ InCriticalSection(v, m)
  BY DEF Typed, TypeOK, InCriticalSection
<1>2. lock[m] = v
  BY <1>1 DEF WriterHoldsLock
<1> QED
  BY <1>1, <1>2 DEF Released, Typed, TypeOK

LEMMA WriterHoldsLockStep ==
    ASSUME Typed, WriterHoldsLock, [Next]_vars
    PROVE  WriterHoldsLock'
<1> USE DEF discord, redis, execution, budgets
<1>1. ASSUME UNCHANGED <<pc, member, lock>> PROVE WriterHoldsLock'
  BY <1>1 DEF WriterHoldsLock, InCriticalSection
<1>2. ASSUME NEW m \in Member, LockExpires(m) PROVE WriterHoldsLock'
  <2> SUFFICES ASSUME LockOutlivesWork, NEW v \in Worker, NEW n \in Member,
                      InCriticalSection(v, n)
               PROVE  lock'[n] = v
    BY <1>2 DEF LockExpires, WriterHoldsLock, InCriticalSection
  <2>1. lock[n] = v
    BY DEF WriterHoldsLock
  <2>2. n # m
    BY <1>2, <2>1 DEF LockExpires
  <2> QED
    BY <1>2, <2>1, <2>2 DEF LockExpires, Typed, TypeOK
<1>3. ASSUME NEW w \in Worker, NEW m \in Member, LockMember(w, m) PROVE WriterHoldsLock'
  <2> SUFFICES ASSUME LockOutlivesWork, NEW v \in Worker, NEW n \in Member,
                      InCriticalSection(v, n)'
               PROVE  lock'[n] = v
    BY DEF WriterHoldsLock
  <2>1. CASE v = w
    BY <1>3, <2>1 DEF LockMember, Goto, InCriticalSection, Typed, TypeOK
  <2>2. CASE v # w
    \* v's token is stored, so n is not the unlocked account w takes.
    <3>1. InCriticalSection(v, n)
      BY <1>3, <2>2 DEF LockMember, Goto, InCriticalSection, Typed, TypeOK
    <3>2. lock[n] = v /\ n # m
      BY <1>3, <3>1, SyncConstants DEF LockMember, WriterHoldsLock
    <3> QED
      BY <1>3, <3>2 DEF LockMember, Typed, TypeOK
  <2> QED
    BY <2>1, <2>2
<1>4. ASSUME NEW w \in Worker,
             \/ UnlockMember(w) \/ FinishJob(w) \/ FailJob(w) \/ Crash(w) \/ PauseForThreshold(w)
      PROVE  WriterHoldsLock'
  <2>1. /\ pc' \in {[pc EXCEPT ![w] = "idle"], [pc EXCEPT ![w] = "applying"]}
        /\ member' = [member EXCEPT ![w] = Nobody]
        /\ lock' = lock \/ (pc[w] = "inside" /\ lock' = Released(w))
    BY <1>4 DEF UnlockMember, FinishJob, FailJob, Crash, PauseForThreshold, EndRun, Goto
  <2> QED
    BY <2>1, LeavingKeeps
<1>5. ASSUME NEW w \in Worker,
             \/ \E j \in Job : TakeJob(w, j)
             \/ StartSweep(w) \/ StartApplying(w)
             \/ MarkChange(w) \/ CallDiscord(w) \/ RecordOutcome(w)
      PROVE  WriterHoldsLock'
  <2>1. StaysPut(w)
    BY <1>5 DEF StaysPut, TakeJob, StartSweep, StartRun, StartApplying, MarkChange, CallDiscord,
                RecordOutcome, Goto, Typed, TypeOK
  <2> QED
    BY <2>1, StaysPutKeeps
<1>6. ASSUME NEW w \in Worker,
             \/ \E m \in Member, read \in SUBSET Guild : PlanMember(w, m, read)
             \/ \E m \in Member : SkipMember(w, m)
             \/ RecordOnly(w)
      PROVE  WriterHoldsLock'
  BY <1>6, <1>1 DEF PlanMember, SkipMember, RecordOnly
<1>7. ASSUME \/ \E c \in Change : PersonChange(c) \/ HandleEvent(c) \/ LoseEvent(c) \/ MarkerExpires(c)
             \/ \E who \in (SUBSET Member) \ {{}}, dryRun \in BOOLEAN : RequestResync(who, dryRun)
             \/ UNCHANGED vars
      PROVE  WriterHoldsLock'
  <2>1. UNCHANGED <<pc, member, lock>>
    BY <1>7 DEF PersonChange, MarkerExpires, HandleEvent, IgnoreMarked, HandleUnmarked, LoseEvent,
                RequestResync, vars
  <2> QED
    BY <1>1, <2>1
<1> QED
  BY <1>2, <1>3, <1>4, <1>5, <1>6, <1>7, Zenon DEF Next, StartJob, RunJob, Apply

\* Every writer's token is in Redis while it writes, if no lock runs out first.
THEOREM WritersHoldTheirLocks == Spec => []WriterHoldsLock
<1>1. Init => WriterHoldsLock
  BY DEF Init, WriterHoldsLock, InCriticalSection
<1>2. (Typed /\ WriterHoldsLock) /\ [Next]_vars => (Typed /\ WriterHoldsLock)'
  BY TypedStep, WriterHoldsLockStep
<1> QED
  BY <1>1, <1>2, InitialTypes, PTL DEF Spec

\* No two workers ever write to one account at once, if no lock runs out under
\* its holder.
THEOREM OneWriterPerAccount == Spec => []OneWriter
<1>1. WriterHoldsLock => OneWriter
  BY DEF WriterHoldsLock, OneWriter
<1> QED
  BY <1>1, WritersHoldTheirLocks, PTL

-----------------------------------------------------------------------------
(* The critical sections are those of MemberExclusion.                     *)

Inside == {wm \in Worker \X Member : InCriticalSection(wm[1], wm[2])}

\* Only a worker that takes a lock enters, and then nobody is in that account's
\* critical section; all others stay where they are or leave.
LEMMA ExclusionStep ==
    ASSUME Typed, WriterHoldsLock, LockOutlivesWork, [Next]_vars
    PROVE  [Exclusion!Next]_Inside
<1> USE DEF discord, redis, execution, budgets
<1>1. ASSUME Inside' \subseteq Inside PROVE [Exclusion!Next]_Inside
  BY <1>1 DEF Exclusion!Next, Exclusion!Leave, Inside
<1>2. ASSUME NEW w \in Worker, NEW m \in Member, LockMember(w, m) PROVE [Exclusion!Next]_Inside
  <2> DEFINE new == <<w, m>>
  <2>1. \A v \in Worker, n \in Member :
            InCriticalSection(v, n)' <=> InCriticalSection(v, n) \/ (v = w /\ n = m)
    BY <1>2 DEF LockMember, Goto, InCriticalSection, Typed, TypeOK
  <2>2. \A v \in Worker : ~InCriticalSection(v, m)
    BY <1>2, SyncConstants DEF WriterHoldsLock, LockMember
  <2>3. new \in Worker \X Member /\ new \notin Inside /\ Inside' = Inside \cup {new}
    BY <2>1, <2>2 DEF Inside
  <2>4. \A d \in Inside : d \in Worker \X Member /\ d[2] # m
    BY <2>2 DEF Inside
  <2>5. Exclusion!Enter(new)
    BY <2>3, <2>4 DEF Exclusion!Enter, Inside
  <2> QED
    BY <2>3, <2>5 DEF Exclusion!Next
<1>3. ASSUME NEW w \in Worker,
             UNCHANGED member \/ member' = [member EXCEPT ![w] = Nobody],
             \E label \in {"idle", "planning", "applying", "inside", "marked", "called"} :
                 /\ pc' = [pc EXCEPT ![w] = label]
                 /\ label \in {"inside", "marked", "called"} => pc[w] \in {"inside", "marked", "called"}
      PROVE  [Exclusion!Next]_Inside
  <2>1. \A v \in Worker, n \in Member : InCriticalSection(v, n)' => InCriticalSection(v, n)
    BY <1>3, SyncConstants DEF InCriticalSection, Typed, TypeOK
  <2> QED
    BY <1>1, <2>1 DEF Inside
<1>4. ASSUME NEW w \in Worker,
             \/ \E j \in Job : TakeJob(w, j)
             \/ StartSweep(w) \/ StartApplying(w) \/ UnlockMember(w)
             \/ MarkChange(w) \/ CallDiscord(w) \/ RecordOutcome(w)
             \/ FinishJob(w) \/ FailJob(w) \/ Crash(w) \/ PauseForThreshold(w)
      PROVE  [Exclusion!Next]_Inside
  <2>1. /\ UNCHANGED member \/ member' = [member EXCEPT ![w] = Nobody]
        /\ \E label \in {"idle", "planning", "applying", "inside", "marked", "called"} :
              /\ pc' = [pc EXCEPT ![w] = label]
              /\ label \in {"inside", "marked", "called"} => pc[w] \in {"inside", "marked", "called"}
    BY <1>4 DEF TakeJob, StartSweep, StartRun, StartApplying, UnlockMember, MarkChange, CallDiscord,
                RecordOutcome, FinishJob, FailJob, Crash, PauseForThreshold, EndRun, Goto
  <2> QED
    BY <1>3, <2>1
<1>5. ASSUME UNCHANGED <<pc, member>> PROVE [Exclusion!Next]_Inside
  BY <1>1, <1>5 DEF Inside, InCriticalSection
<1>6. ASSUME NEW w \in Worker,
             \/ \E m \in Member, read \in SUBSET Guild : PlanMember(w, m, read)
             \/ \E m \in Member : SkipMember(w, m)
             \/ RecordOnly(w)
      PROVE  [Exclusion!Next]_Inside
  BY <1>6, <1>5 DEF PlanMember, SkipMember, RecordOnly
<1>7. ASSUME \/ \E c \in Change : PersonChange(c) \/ HandleEvent(c) \/ LoseEvent(c) \/ MarkerExpires(c)
             \/ \E who \in (SUBSET Member) \ {{}}, dryRun \in BOOLEAN : RequestResync(who, dryRun)
             \/ \E m \in Member : LockExpires(m)
             \/ UNCHANGED vars
      PROVE  [Exclusion!Next]_Inside
  <2>1. UNCHANGED <<pc, member>>
    BY <1>7 DEF PersonChange, MarkerExpires, HandleEvent, IgnoreMarked, HandleUnmarked, LoseEvent,
                RequestResync, LockExpires, vars
  <2> QED
    BY <1>5, <2>1
<1> QED
  BY <1>2, <1>4, <1>6, <1>7, Zenon DEF Next, StartJob, RunJob, Apply

\* What MemberLock is shown to implement is what the workers get: the critical
\* sections they are in at any moment are of different accounts.
THEOREM SyncImplementsExclusion ==
    ASSUME LockOutlivesWork
    PROVE  Spec => Exclusion!Spec
<1>1. Init => Exclusion!Init
  BY DEF Init, InCriticalSection, Exclusion!Init
<1>2. Typed /\ [Next]_vars /\ WriterHoldsLock => [Exclusion!Next]_Inside
  BY ExclusionStep
<1>3. Spec => []Typed
  BY InitialTypes, TypedStep, PTL DEF Spec
<1> QED
  BY <1>1, <1>2, <1>3, WritersHoldTheirLocks, PTL DEF Spec, Exclusion!Spec, Inside

-----------------------------------------------------------------------------
(* The removal threshold.                                                  *)

Applying == {"applying", "inside", "marked", "called"}

\* A worker that is applying was applying already or has just been allowed to,
\* still runs the same job, and plans no removal it did not plan before.
OnlyShrinks(v) ==
    pc'[v] \in Applying =>
        /\ pc[v] \in Applying \/ ~ExceedsThreshold(v)
        /\ job'[v] = job[v]
        /\ \A m \in Member : plan'[v][m].remove \subseteq plan[v][m].remove

LEMMA PlansOnlyShrink ==
    ASSUME Typed, [Next]_vars, NEW v \in Worker
    PROVE  OnlyShrinks(v)
<1> USE DEF discord, redis, execution, budgets, OnlyShrinks, Applying
<1>1. ASSUME UNCHANGED <<pc, job, plan>> PROVE OnlyShrinks(v)
  BY <1>1
<1>2. ASSUME NEW w \in Worker,
             \/ EndRun(w)
             \/ \E j \in Job : StartRun(w, j)
             \/ \E m \in Member, read \in SUBSET Guild : PlanMember(w, m, read)
      PROVE  OnlyShrinks(v)
  BY <1>2 DEF EndRun, StartRun, PlanMember, Goto, Typed, TypeOK
<1>3. ASSUME NEW w \in Worker,
             \/ StartApplying(w)
             \/ \E m \in Member : LockMember(w, m) \/ SkipMember(w, m)
             \/ MarkChange(w) \/ CallDiscord(w) \/ UnlockMember(w)
      PROVE  OnlyShrinks(v)
  BY <1>3 DEF StartApplying, LockMember, SkipMember, MarkChange, CallDiscord, UnlockMember, Goto,
              Typed, TypeOK
<1>4. ASSUME NEW w \in Worker, RecordOnly(w) \/ RecordOutcome(w) PROVE OnlyShrinks(v)
  <2>1. member[w] \in Member /\ \E r : Drop(w, r)
    BY <1>4 DEF RecordOnly, RecordOutcome, Typed, CriticalSections
  <2>2. \A m \in Member : plan'[v][m].remove \subseteq plan[v][m].remove
    BY <2>1, DropShrinks DEF Typed
  <2> QED
    BY <1>4, <2>2 DEF RecordOnly, RecordOutcome, Goto, Typed, TypeOK
<1>5. ASSUME \/ \E c \in Change : PersonChange(c) \/ HandleEvent(c) \/ LoseEvent(c) \/ MarkerExpires(c)
             \/ \E who \in (SUBSET Member) \ {{}}, dryRun \in BOOLEAN : RequestResync(who, dryRun)
             \/ \E m \in Member : LockExpires(m)
             \/ UNCHANGED vars
      PROVE  OnlyShrinks(v)
  <2>1. UNCHANGED <<pc, job, plan>>
    BY <1>5 DEF PersonChange, MarkerExpires, HandleEvent, IgnoreMarked, HandleUnmarked, LoseEvent,
                RequestResync, LockExpires, vars
  <2> QED
    BY <1>1, <2>1
<1>6. ASSUME NEW w \in Worker,
             \/ \E j \in Job : TakeJob(w, j)
             \/ StartSweep(w)
             \/ PauseForThreshold(w) \/ FinishJob(w) \/ FailJob(w) \/ Crash(w)
      PROVE  OnlyShrinks(v)
  <2>1. EndRun(w) \/ \E j \in Job : StartRun(w, j)
    BY <1>6, JobsAreTyped DEF TakeJob, StartSweep, PauseForThreshold, FinishJob, FailJob, Crash
  <2> QED
    BY <1>2, <2>1
<1> HIDE DEF OnlyShrinks
<1> QED
  BY <1>2, <1>3, <1>4, <1>5, <1>6, Zenon DEF Next, StartJob, RunJob, Apply

LEMMA WithinThresholdStep ==
    ASSUME Typed, WithinThreshold, [Next]_vars
    PROVE  WithinThreshold'
<1> SUFFICES ASSUME NEW v \in Worker, pc'[v] \notin {"idle", "planning"}, ~job'[v].dryRun
             PROVE  Cardinality(Removals(v)') <= Threshold
  BY DEF WithinThreshold, Removals
<1>1. pc'[v] \in Applying
  BY TypedStep DEF Typed, TypeOK, Applying
<1>2. /\ pc[v] \in Applying \/ ~ExceedsThreshold(v)
      /\ job'[v] = job[v]
      /\ \A m \in Member : plan'[v][m].remove \subseteq plan[v][m].remove
  BY <1>1, PlansOnlyShrink DEF OnlyShrinks
<1>3. IsFiniteSet(Removals(v))
  <2>1. IsFiniteSet(Member \X Role)
    BY SyncConstants, FS_Product
  <2> QED
    BY <2>1, FS_Subset DEF Removals
<1>4. Cardinality(Removals(v)) <= Threshold
  <2>1. CASE pc[v] \in Applying
    BY <1>2, <2>1 DEF WithinThreshold, Applying
  <2>2. CASE ~ExceedsThreshold(v)
    BY <1>2, <1>3, <2>2, FS_CardinalityType, SyncConstants DEF ExceedsThreshold
  <2> QED
    BY <1>2, <2>1, <2>2
<1>5. Removals(v)' \subseteq Removals(v)
  BY <1>2 DEF Removals
<1>6. Cardinality(Removals(v)') <= Cardinality(Removals(v)) /\ IsFiniteSet(Removals(v)')
  BY <1>3, <1>5, FS_Subset
<1>7. Cardinality(Removals(v)') \in Nat /\ Cardinality(Removals(v)) \in Nat
  BY <1>3, <1>6, FS_CardinalityType
<1> QED
  BY <1>4, <1>6, <1>7, SyncConstants

\* A job that writes never has more removals planned than the threshold allows,
\* for any number of accounts and whatever happened since it planned.
THEOREM RemovalsStayWithinThreshold == Spec => []WithinThreshold
<1>1. Init => WithinThreshold
  BY DEF Init, WithinThreshold
<1>2. (Typed /\ WithinThreshold) /\ [Next]_vars => (Typed /\ WithinThreshold)'
  BY TypedStep, WithinThresholdStep
<1> QED
  BY <1>1, <1>2, InitialTypes, PTL DEF Spec

-----------------------------------------------------------------------------
(* What the platform may change.  Plans are made within some bounds and     *)
(* then only shrink, so what is called stays within them, however late.    *)

\* What a worker still plans, and what it is about to call, is within bounds.
PlansWithin(take, give) ==
    \A w \in Worker, m \in Member :
        plan[w][m].remove \subseteq take[m] /\ plan[w][m].add \subseteq give[m]

CallsWithin(take, give) ==
    \A w \in Worker : pc[w] = "marked" =>
        /\ call[w].action = "REMOVE_ROLE" => call[w].role \in take[member[w]]
        /\ call[w].action = "ADD_ROLE" => call[w].role \in give[member[w]]

Within(take, give) == PlansWithin(take, give) /\ CallsWithin(take, give)

\* Everything an account that holds these roles may be planned is within bounds.
PlannedWithin(take, give) ==
    \A m \in Member, read \in SUBSET Guild :
        /\ PlanOf[m][roles[m]][read].remove \subseteq take[m]
        /\ PlanOf[m][roles[m]][read].add \subseteq give[m]

\* Calls stay within bounds where plans are, and no worker but one that marks a
\* change turns to a call.
LEMMA CallsStayWithin ==
    ASSUME NEW take, NEW give, Typed, Within(take, give), NEW w \in Worker,
           UNCHANGED call \/ \E x : call' = [call EXCEPT ![w] = x],
           UNCHANGED member \/ \E x : member' = [member EXCEPT ![w] = x],
           \E label \in {"idle", "planning", "applying", "inside", "called"} :
               pc' = [pc EXCEPT ![w] = label]
    PROVE  CallsWithin(take, give)'
<1> SUFFICES ASSUME NEW v \in Worker, pc'[v] = "marked"
             PROVE  /\ call'[v].action = "REMOVE_ROLE" => call'[v].role \in take[member'[v]]
                    /\ call'[v].action = "ADD_ROLE" => call'[v].role \in give[member'[v]]
  BY DEF CallsWithin
<1>1. v # w /\ pc[v] = "marked"
  BY DEF Typed, TypeOK
<1>2. call'[v] = call[v] /\ member'[v] = member[v]
  BY <1>1 DEF Typed, TypeOK
<1> QED
  BY <1>1, <1>2 DEF Within, CallsWithin

LEMMA WithinStep ==
    ASSUME NEW take, NEW give, Typed, Within(take, give), PlannedWithin(take, give), [Next]_vars
    PROVE  Within(take, give)'
<1> USE DEF discord, redis, execution, budgets
<1>1. ASSUME UNCHANGED <<pc, plan, call, member>> PROVE Within(take, give)'
  BY <1>1 DEF Within, PlansWithin, CallsWithin
<1>2. ASSUME \/ \E c \in Change : PersonChange(c) \/ HandleEvent(c) \/ LoseEvent(c) \/ MarkerExpires(c)
             \/ \E who \in (SUBSET Member) \ {{}}, dryRun \in BOOLEAN : RequestResync(who, dryRun)
             \/ \E m \in Member : LockExpires(m)
             \/ UNCHANGED vars
      PROVE  Within(take, give)'
  <2>1. UNCHANGED <<pc, plan, call, member>>
    BY <1>2 DEF PersonChange, MarkerExpires, HandleEvent, IgnoreMarked, HandleUnmarked, LoseEvent,
                RequestResync, LockExpires, vars
  <2> QED
    BY <1>1, <2>1
<1>3. ASSUME NEW w \in Worker,
             \/ \E j \in Job : TakeJob(w, j)
             \/ StartSweep(w) \/ StartApplying(w)
             \/ \E m \in Member : LockMember(w, m) \/ SkipMember(w, m)
             \/ CallDiscord(w) \/ UnlockMember(w)
      PROVE  Within(take, give)'
  <2>1. UNCHANGED plan
    BY <1>3 DEF TakeJob, StartSweep, StartRun, StartApplying, LockMember, SkipMember, CallDiscord,
                UnlockMember
  <2>2. /\ UNCHANGED call \/ \E x : call' = [call EXCEPT ![w] = x]
        /\ UNCHANGED member \/ \E x : member' = [member EXCEPT ![w] = x]
    BY <1>3 DEF TakeJob, StartSweep, StartRun, StartApplying, LockMember, SkipMember, CallDiscord,
                UnlockMember
  <2>3. \E label \in {"idle", "planning", "applying", "inside", "called"} :
            pc' = [pc EXCEPT ![w] = label]
    BY <1>3 DEF TakeJob, StartSweep, StartRun, StartApplying, LockMember, SkipMember, CallDiscord,
                UnlockMember, Goto, Typed, TypeOK
  <2> QED
    BY <2>1, <2>2, <2>3, CallsStayWithin DEF Within, PlansWithin
<1>4. ASSUME NEW w \in Worker, PauseForThreshold(w) \/ FinishJob(w) \/ FailJob(w) \/ Crash(w)
      PROVE  Within(take, give)'
  <2>1. EndRun(w)
    BY <1>4 DEF PauseForThreshold, FinishJob, FailJob, Crash
  <2>2. CallsWithin(take, give)'
    BY <2>1, CallsStayWithin DEF EndRun, Goto
  <2>3. PlansWithin(take, give)'
    BY <2>1 DEF EndRun, NoPlan, Within, PlansWithin, Typed, TypeOK
  <2> QED
    BY <2>2, <2>3 DEF Within
<1>5. ASSUME NEW w \in Worker, NEW m \in Member, NEW read \in SUBSET Guild, PlanMember(w, m, read)
      PROVE  Within(take, give)'
  <2>1. plan' = [plan EXCEPT ![w] = [plan[w] EXCEPT ![m] = PlanOf[m][roles[m]][read]]]
        /\ UNCHANGED <<pc, call, member>>
    BY <1>5 DEF PlanMember, Typed, TypeOK
  <2>2. \A v \in Worker, n \in Member :
            plan'[v][n] = IF v = w /\ n = m THEN PlanOf[m][roles[m]][read] ELSE plan[v][n]
    BY <2>1 DEF Typed, TypeOK
  <2>3. PlansWithin(take, give)'
    BY <2>2 DEF Within, PlansWithin, PlannedWithin
  <2> QED
    BY <2>1, <2>3 DEF Within, CallsWithin
<1>6. ASSUME NEW w \in Worker, RecordOnly(w) \/ RecordOutcome(w) PROVE Within(take, give)'
  <2>1. member[w] \in Member /\ \E r : Drop(w, r)
    BY <1>6 DEF RecordOnly, RecordOutcome, Typed, CriticalSections
  <2>2. PlansWithin(take, give)'
    BY <2>1, DropShrinks DEF Typed, Within, PlansWithin
  <2>3. /\ UNCHANGED call \/ \E x : call' = [call EXCEPT ![w] = x]
        /\ UNCHANGED member
        /\ pc' = [pc EXCEPT ![w] = "inside"]
    BY <1>6 DEF RecordOnly, RecordOutcome, Goto, Typed, TypeOK
  <2> QED
    BY <2>2, <2>3, CallsStayWithin DEF Within
<1>7. ASSUME NEW w \in Worker, MarkChange(w) PROVE Within(take, give)'
  <2>1. PICK a \in Pending(w) :
            call' = [call EXCEPT ![w] = [role |-> a[1], action |-> a[2], ok |-> FALSE]]
    BY <1>7 DEF MarkChange
  <2>2. /\ pc' = [pc EXCEPT ![w] = "marked"]
        /\ UNCHANGED <<plan, member>> /\ member[w] \in Member
    BY <1>7 DEF MarkChange, Goto, Typed, CriticalSections
  <2>3. \/ a[2] = "ADD_ROLE" /\ a[1] \in plan[w][member[w]].add
        \/ a[2] = "REMOVE_ROLE" /\ a[1] \in plan[w][member[w]].remove
    BY <2>1 DEF Pending, Actions
  <2>4. /\ a[2] = "REMOVE_ROLE" => a[1] \in take[member[w]]
        /\ a[2] = "ADD_ROLE" => a[1] \in give[member[w]]
    BY <2>2, <2>3 DEF Within, PlansWithin
  <2>5. call'[w] = [role |-> a[1], action |-> a[2], ok |-> FALSE]
    BY <2>1 DEF Typed, TypeOK
  <2>6. \A v \in Worker : v # w => call'[v] = call[v] /\ pc'[v] = pc[v]
    BY <2>1, <2>2 DEF Typed, TypeOK
  <2>7. CallsWithin(take, give)'
    BY <2>2, <2>4, <2>5, <2>6 DEF Within, CallsWithin
  <2> QED
    BY <2>2, <2>7 DEF Within, PlansWithin
<1> QED
  BY <1>2, <1>3, <1>4, <1>5, <1>6, <1>7, Zenon DEF Next, StartJob, RunJob, Apply

LEMMA InitWithin ==
    ASSUME NEW take, NEW give, Init
    PROVE  Within(take, give)
BY DEF Init, NoPlan, Within, PlansWithin, CallsWithin

\* Only people and the call a worker has marked change roles, one at a time.
LEMMA RolesChange ==
    ASSUME Typed, [Next]_vars
    PROVE  \/ UNCHANGED roles
           \/ \E c \in Change : PersonChange(c)
           \/ \E w \in Worker : /\ pc[w] = "marked"
                                /\ MakeChange(CalledChange(w)) /\ UNCHANGED interventions
<1> USE DEF discord, redis, execution, budgets
<1>1. ASSUME NEW w \in Worker, CallDiscord(w)
      PROVE  \/ UNCHANGED roles
             \/ pc[w] = "marked" /\ MakeChange(CalledChange(w)) /\ UNCHANGED interventions
  BY <1>1 DEF CallDiscord
<1>2. ASSUME NEW w \in Worker, StartJob(w) \/ FailJob(w) \/ Crash(w) \/ RunJob(w), ~CallDiscord(w)
      PROVE  UNCHANGED roles
  BY <1>2 DEF StartJob, RunJob, Apply, TakeJob, StartSweep, PlanMember, PauseForThreshold,
              StartApplying, LockMember, SkipMember, RecordOnly, MarkChange, RecordOutcome,
              UnlockMember, FinishJob, FailJob, Crash
<1>3. ASSUME \/ \E c \in Change : HandleEvent(c) \/ LoseEvent(c) \/ MarkerExpires(c)
             \/ \E who \in (SUBSET Member) \ {{}}, dryRun \in BOOLEAN : RequestResync(who, dryRun)
             \/ \E m \in Member : LockExpires(m)
             \/ UNCHANGED vars
      PROVE  UNCHANGED roles
  BY <1>3 DEF MarkerExpires, HandleEvent, IgnoreMarked, HandleUnmarked, LoseEvent, RequestResync,
              LockExpires, vars
<1> QED
  BY <1>1, <1>2, <1>3, Zenon DEF Next

LEMMA ContextsAre ==
    ASSUME NEW m \in Member
    PROVE  /\ ContextOf[m] \in SoundContexts
           /\ \A held \in SUBSET Role, read \in SUBSET Guild :
                 PlanOf[m][held][read] = PlanForMember(ContextOf[m], held, read)
BY SyncConstants

\* A plan takes only what is computed and not granted, and gives only what is
\* granted or copied: what is copied, with what was held, makes a closed set.
LEMMA PlansKeepPolicy ==
    ASSUME TypeOK
    PROVE  PlannedWithin(TakableRoles, GivableRoles)
<1> SUFFICES ASSUME NEW m \in Member, NEW read \in SUBSET Guild
             PROVE  /\ PlanOf[m][roles[m]][read].remove \subseteq TakableRoles[m]
                    /\ PlanOf[m][roles[m]][read].add \subseteq GivableRoles[m]
  BY DEF PlannedWithin
<1> DEFINE c == ContextOf[m]
           held == roles[m]
           new == PlanForMember(c, held, read)
           copied == {e.to : e \in Copying(c)}
           from == Seen(held, read) \cup ActiveGrants(c)
<1>1. c \in SoundContexts /\ held \in SUBSET Role /\ PlanOf[m][roles[m]][read] = new
  BY ContextsAre DEF TypeOK
<1>2. new.add \cap held = {}
  BY Zenon DEF PlanForMember, DiffMemberState
<1> HIDE DEF new
<1>3. /\ new.remove \subseteq Computable(c) /\ new.remove \cap ActiveGrants(c) = {}
      /\ new.add \subseteq Reachable(c, from)
  BY <1>1, PlanIs DEF new
<1>4. copied \subseteq Role
  BY <1>1, LiveEdges DEF Copying, Edge
<1>5. from \in SUBSET Role /\ Seen(held, read) \subseteq held
  BY <1>1, BeginningsAre DEF Seen
<1>6. Reachable(c, from) \subseteq from \cup copied
  <2>1. ClosedUnderCopying(c, from \cup copied)
    BY DEF ClosedUnderCopying
  <2> HIDE DEF c, from, copied
  <2> QED
    BY <1>1, <1>4, <1>5, <2>1, ReachableIs
<1>7. TakableRoles[m] = Computable(c) \ ActiveGrants(c) /\ GivableRoles[m] = ActiveGrants(c) \cup copied
  BY DEF TakableRoles, GivableRoles
<1> HIDE DEF c, held, copied
<1> QED
  BY <1>1, <1>2, <1>3, <1>5, <1>6, <1>7 DEF held

\* Each step changes the roles the way the policy has it.
LEMMA PolicyStep ==
    ASSUME Typed, Within(TakableRoles, GivableRoles), [Next]_vars
    PROVE  [Policy!Next]_<<roles, interventions>>
<1> USE DEF discord, redis, execution, budgets
<1>1. ASSUME NEW c \in Change, PersonChange(c) PROVE Policy!Next
  <2>1. c.who \in Member /\ c.role \in Role /\ c.action \in {"ADD_ROLE", "REMOVE_ROLE"}
    BY DEF Change, Action
  <2>2. /\ Policy!Intervene
        /\ roles' = [roles EXCEPT ![c.who] = ChangedRoles(@, c)]
    BY <1>1 DEF PersonChange, MakeChange, Policy!Intervene
  <2>3. Policy!PersonGives(c.who, c.role) \/ Policy!PersonTakes(c.who, c.role)
    BY <2>1, <2>2 DEF ChangedRoles, Policy!PersonGives, Policy!PersonTakes
  <2> QED
    BY <2>1, <2>3 DEF Policy!Next
<1>2. ASSUME NEW w \in Worker, pc[w] = "marked", MakeChange(CalledChange(w)), UNCHANGED interventions
      PROVE  Policy!Next
  <2> DEFINE m == member[w]
             r == call[w].role
  <2>1. m \in Member /\ call[w] \in Call /\ r \in Role
    BY <1>2 DEF Typed, CriticalSections, Call
  <2>2. roles' = [roles EXCEPT ![m] = IF call[w].action = "ADD_ROLE" THEN @ \cup {r} ELSE @ \ {r}]
    BY <1>2 DEF MakeChange, CalledChange, ChangedRoles
  <2>3. /\ call[w].action \in {"ADD_ROLE", "REMOVE_ROLE"}
        /\ call[w].action = "REMOVE_ROLE" => r \in TakableRoles[m]
        /\ call[w].action = "ADD_ROLE" => r \in GivableRoles[m]
    BY <1>2, <2>1 DEF Within, CallsWithin, Call, Action
  <2> HIDE DEF m, r
  <2>4. Policy!PlatformGives(m, r) \/ Policy!PlatformTakes(m, r)
    BY <1>2, <2>2, <2>3 DEF Policy!PlatformGives, Policy!PlatformTakes
  <2> QED
    BY <2>1, <2>4 DEF Policy!Next
<1>3. ASSUME UNCHANGED roles PROVE [Policy!Next]_<<roles, interventions>>
  <2>1. UNCHANGED interventions \/ Policy!Intervene
    BY <1>3 DEF Next, PersonChange, MarkerExpires, HandleEvent, IgnoreMarked, HandleUnmarked,
                LoseEvent, RequestResync, LockExpires, vars, StartJob, RunJob, Apply, TakeJob,
                StartSweep, PlanMember, PauseForThreshold, StartApplying, LockMember, SkipMember,
                RecordOnly, MarkChange, CallDiscord, RecordOutcome, UnlockMember, FinishJob, FailJob,
                Crash, Policy!Intervene
  <2> QED
    BY <1>3, <2>1 DEF Policy!Next, Policy!PersonAsks
<1> QED
  BY <1>1, <1>2, <1>3, RolesChange

\* Whatever the workers, the queue, locks, faults and crashes do, and however old a
\* plan is: the platform takes only roles it computes and never a granted one, and
\* gives only granted or copied ones.
THEOREM SyncImplementsPolicy == Spec => ImplementsPolicy
<1>1. Init => Policy!Init /\ Typed /\ Within(TakableRoles, GivableRoles)
  BY InitialTypes, InitWithin DEF Init, Policy!Init
<1>2. (Typed /\ Within(TakableRoles, GivableRoles)) /\ [Next]_vars
        => (Typed /\ Within(TakableRoles, GivableRoles))' /\ [Policy!Next]_<<roles, interventions>>
  BY TypedStep, WithinStep, PolicyStep, PlansKeepPolicy DEF Typed
<1> QED
  BY <1>1, <1>2, PTL DEF Spec, ImplementsPolicy, Policy!Spec

-----------------------------------------------------------------------------
(* Where roles come from.                                                  *)

\* Of what an account holds to begin with, and people give it, nothing but given.
GivenAtFirst(given) == \A m \in Member : roles[m] \subseteq given[m]
PeopleGive(given) ==
    \A c \in Change : PersonChange(c) /\ c.action = "ADD_ROLE" => c.role \in given[c.who]

\* What can be traced back: to what was given or is granted, along adding mappings.
Traced(given) ==
    [m \in Member |-> Reachable(ContextOf[m], given[m] \cup ActiveGrants(ContextOf[m]))]
HeldTracesBack(given) == \A m \in Member : roles[m] \subseteq Traced(given)[m]

LEMMA TracedIs ==
    ASSUME NEW given \in [Member -> SUBSET Role], NEW m \in Member
    PROVE  /\ given[m] \subseteq Traced(given)[m] /\ ActiveGrants(ContextOf[m]) \subseteq Traced(given)[m]
           /\ Traced(given)[m] \in SUBSET Role
           /\ ClosedUnderCopying(ContextOf[m], Traced(given)[m])
<1> DEFINE c == ContextOf[m]
           from == given[m] \cup ActiveGrants(c)
<1>1. c \in SoundContexts /\ from \in SUBSET Role
  BY ContextsAre, BeginningsAre
<1>2. Traced(given)[m] = Reachable(c, from)
  BY DEF Traced
<1>3. given[m] \subseteq from /\ ActiveGrants(c) \subseteq from
  OBVIOUS
<1> HIDE DEF from
<1>4. from \subseteq Reachable(c, from) /\ Reachable(c, from) \in SUBSET Role
      /\ ClosedUnderCopying(c, Reachable(c, from))
  BY <1>1, ReachableIs
<1> QED
  BY <1>2, <1>3, <1>4

\* A plan for an account whose roles trace back gives only roles that do.
LEMMA PlansTraceBack ==
    ASSUME NEW given \in [Member -> SUBSET Role], TypeOK, HeldTracesBack(given)
    PROVE  PlannedWithin([m \in Member |-> Role], Traced(given))
<1> SUFFICES ASSUME NEW m \in Member, NEW read \in SUBSET Guild
             PROVE  /\ PlanOf[m][roles[m]][read].remove \subseteq Role
                    /\ PlanOf[m][roles[m]][read].add \subseteq Traced(given)[m]
  BY DEF PlannedWithin
<1> DEFINE c == ContextOf[m]
           held == roles[m]
           from == Seen(held, read) \cup ActiveGrants(c)
<1>1. c \in SoundContexts /\ held \in SUBSET Role /\ from \in SUBSET Role
      /\ PlanOf[m][roles[m]][read] = PlanForMember(c, held, read)
  BY ContextsAre, BeginningsAre DEF TypeOK
<1>2. PlanOf[m][roles[m]][read].add \subseteq Reachable(c, from)
  BY <1>1, PlanIs
<1>3. from \subseteq Traced(given)[m]
  BY TracedIs DEF HeldTracesBack, Seen
<1>4. Reachable(c, from) \subseteq Traced(given)[m]
  BY <1>1, <1>3, TracedIs, ReachableIs
<1>5. PlanOf[m][roles[m]][read].remove \subseteq Role
  BY <1>1, PlansAreTyped DEF Plan
<1> QED
  BY <1>2, <1>4, <1>5

LEMMA TracesBackStep ==
    ASSUME NEW given \in [Member -> SUBSET Role], Typed, HeldTracesBack(given),
           Within([m \in Member |-> Role], Traced(given)), [Next]_vars, PeopleGive(given)
    PROVE  HeldTracesBack(given)'
<1> SUFFICES ASSUME NEW m \in Member, NEW r \in roles'[m], r \notin roles[m]
             PROVE  r \in Traced(given)[m]
  BY DEF HeldTracesBack
<1>1. ASSUME NEW c \in Change, MakeChange(c)
      PROVE  c.who = m /\ c.role = r /\ c.action = "ADD_ROLE"
  BY <1>1 DEF MakeChange, ChangedRoles, Typed, TypeOK, Change
<1>2. ASSUME NEW c \in Change, PersonChange(c) PROVE r \in Traced(given)[m]
  <2>1. c.who = m /\ c.role = r /\ c.action = "ADD_ROLE"
    BY <1>1, <1>2 DEF PersonChange
  <2> QED
    BY <1>2, <2>1, TracedIs DEF PeopleGive
<1>3. ASSUME NEW w \in Worker, pc[w] = "marked", MakeChange(CalledChange(w))
      PROVE  r \in Traced(given)[m]
  <2>1. CalledChange(w) \in Change
    BY <1>3, CalledChangeTyped
  <2>2. member[w] = m /\ call[w].role = r /\ call[w].action = "ADD_ROLE"
    BY <1>1, <1>3, <2>1 DEF CalledChange
  <2> QED
    BY <1>3, <2>2 DEF Within, CallsWithin
<1> QED
  BY <1>2, <1>3, RolesChange

\* No role comes from nowhere: whatever an account ever holds, it had to begin
\* with or was given by a person, or is granted, or adding mappings lead to it from
\* these, in any number of steps and over any number of jobs.
THEOREM RolesTraceBack ==
    ASSUME NEW CONSTANT given, given \in [Member -> SUBSET Role]
    PROVE  Spec /\ GivenAtFirst(given) /\ [][PeopleGive(given)]_vars => []HeldTracesBack(given)
<1> DEFINE Inv == /\ Typed /\ HeldTracesBack(given)
                  /\ Within([m \in Member |-> Role], Traced(given))
<1>1. Init /\ GivenAtFirst(given) => Inv
  BY InitialTypes, InitWithin, TracedIs DEF GivenAtFirst, HeldTracesBack
<1>2. Inv /\ [Next]_vars /\ [PeopleGive(given)]_vars => Inv'
  <2> SUFFICES ASSUME Inv, [Next]_vars, [PeopleGive(given)]_vars PROVE Inv'
    OBVIOUS
  <2>1. Typed' /\ Within([m \in Member |-> Role], Traced(given))'
    BY TypedStep, WithinStep, PlansTraceBack DEF Typed
  <2>2. CASE PeopleGive(given)
    BY <2>1, <2>2, TracesBackStep
  <2>3. CASE UNCHANGED vars
    BY <2>1, <2>3 DEF HeldTracesBack, vars, discord
  <2> QED
    BY <2>2, <2>3
<1>3. Inv => HeldTracesBack(given)
  OBVIOUS
<1> HIDE DEF Inv
<1> QED
  BY <1>1, <1>2, <1>3, PTL DEF Spec
=============================================================================
