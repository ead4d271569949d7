# Verification of the Florida Roleplay Manager

TLA+ modules for the Florida Roleplay Manager, TLC configurations that check them on small
instances, and TLAPS proofs of the main safety properties: of role synchronization, its
core; of mappings and delegated rights; of what is given for a time (temporary roles, bans,
grants); of role rules, accounts and rosters.
Paths are relative to the repository.

## 1. The system

Three processes share one library (`packages/core`) and three stores.

    Discord events, commands --> apps/bot ----+
    dashboard ---------------->  apps/api ----+--> packages/core --> PostgreSQL
                                 apps/worker -+                  --> Redis, BullMQ
                                    |  reads members, changes roles
                                    +--> Discord

A role is a (guild, role) pair. **Mappings** make a role of one guild follow a role of
another, **manual grants** give a role to a linked member for a time. The
*reconciliation engine* computes from both which roles one Discord account should hold,
and a *sync job* carries the difference out.

### Components

| Component | State | Operations | Interacts through |
| --- | --- | --- | --- |
| Reconciliation engine (`packages/reconciliation`) | none | `computeDesiredState`, `diffMemberState`, `planForDiscordUser` | called by the sync runner with live roles |
| Sync runner (`core/sync-runner.js`) | a job's plans, in memory | plan all targets, check the threshold, apply member by member, re-queue, finalize | engine, member lock, markers, Discord, job row |
| Job service (`core/sync-service.js`), processors (`apps/worker`) | `SyncJob` rows, BullMQ entries of the same id | create, enqueue, run, retry, discard, cancel, resync commands | PostgreSQL and BullMQ, in separate steps |
| Member lock (`queue/locks.js`) | Redis key with token and expiry | take, poll, release by compare-and-delete | sync jobs and roster jobs |
| Sync markers (`queue/markers.js`) | Redis keys with expiry | write, claim, discard | written by the worker, claimed by the bot |
| Event service (`core/event-service.js`) | none | role, nickname, join, leave and role-deletion events | markers, sync jobs, roster jobs, website access |
| Maintenance (`core/maintenance-service.js`) | schedules in BullMQ | scheduled reconciliation, validation, expiry sweeps | runs sync jobs in place |
| Grants (`core/grant-service.js`) | `ManualRoleGrant` | issue, revoke, expire | a sync job for each change |
| Mappings, cycles, approvals | `RoleMapping`, `PendingApproval`, votes | create, edit, enable, delete; approve, reject | the engine reads the enabled ones |
| Rosters (`core/roster-*.js`) | memberships, ranks, callsigns, nickname prefixes | resolve rank, plan, apply; edits by hand; sweep | own queue, member lock, nickname markers |
| Names (`core/event-service.js`, `nickname-service.js`, `roster-nickname.js`) | nicknames in Discord, their markers | spread a name, format it, set it everywhere | events, roster jobs |
| Transfers, temporary roles, timed bans | job data, timer rows | add and remove roles or bans; expiry sweeps | Discord directly, without lock or marker |
| Role rules (`core/role-grant-service.js`) | `RoleGrantRule` | give and take a role that a rule lets the caller give | Discord directly, behind the preflight |
| Authorization (`packages/authorization`, `permission-service.js`) | capability assignments, levels | evaluate, grant, revoke | every service call |
| Members, access tiers (`member-service.js`, `access-service.js`) | identities, primary accounts, tier rules, `websiteAccess` | link, unlink; recompute access by command, event and sweep | grants, authorization |
| Whitelist (`whitelist-service.js`, `bot/interactions.js`) | `WhitelistSubmission`, the review message | submit, post, decide | Discord: role, message, direct message |
| Server setup (`setup-service.js`, `templates/*`) | none of its own | plan, create, enter in the platform, reset permissions | Discord lists and creations; allowlist, managed roles, mappings |
| Guild allowlist, managed roles | rows | register, remove, protect | the engine and jobs read them |
| Audit, notifications, logs, health, settings | append-only rows, messages | record, report | read by people |
| Bot commands, HTTP API, validation, Discord gateways | sessions | translate requests into service calls | all of the above |

### What is hard here

* *Reads before awaits.* A job plans every member from live roles without a lock and
  applies the plans later, one at a time; several jobs can hold plans for one account.
* *Two systems, no common transaction.* A job is a row in PostgreSQL and an entry in
  BullMQ, a role change is a marker in Redis, a call to Discord and a row.
* *Echoes.* Each change the platform makes returns as an event to another process.
* *Expiry.* Locks and markers run out by the clock, whoever still relies on them.
* *Failure.* A call, a database operation, a Redis operation or a process can fail at any
  step, and many failures are logged and passed over in favour of a later sweep.
* *The engine itself*: a fixpoint over mappings that are not monotone, several of which can
  name the same role.

`PROJECT.json` lists these as hazards, each at the line where it bites, with the
properties that would notice.

### What makes the components correct

| Component | Properties |
| --- | --- |
| Engine | Removes only what it can compute, adds only what a grant or a chain of mappings justifies, lets grants win, is idempotent, and settles when run again. |
| Member lock | Nobody else is inside for as long as the lock lives; nobody frees another's lock; polls end and locks go away. |
| Job row and entry | One execution at a time; what ended stays ended; a completed entry has a settled row; a queued job ends. |
| Role synchronization | One writer per account; only roles the platform may change are changed, one at a time; removals within the threshold; the roles converge and the system comes to rest; skipped members are planned again; a preview changes nothing. |
| Grants, timers | Nothing is taken back before its time, and everything that was given for a time is taken back; a settled account has what its grants say. |
| Transfers, whitelist, setup | What is reported as done is done; nothing is created twice. |
| Role rules | Nobody gives a role outside the closure of the rules over his own roles. |
| Rosters | A member's rank follows the roles; callsigns settle in their blocks; a failed read moves nobody. |
| Names | The platform's renames end, and leave one name in each server's form. |
| Mappings, approvals | Enabled mappings have no cycle; nothing sensitive is enabled without a second person; a mapping that lost a role or guild is disabled in the end. |
| Authorization, members, access | Every right was its granter's to give; primary accounts are in order; access by a tier follows the roles. |

## 2. Modules

| Module | Models | Extends |
| --- | --- | --- |
| `RoleEngine` | the engine as pure operators | |
| `EngineRuns` | consecutive reconciliations of one account, any guild unreadable in any of them | `RoleEngine` |
| `MemberExclusion` | abstract specification: mutual exclusion with leaving | |
| `RolePolicy` | abstract specification: who may change which role of which account | |
| `MemberLock` | `withMemberLock` over Redis, in ticks | instantiates `MemberExclusion` |
| `JobLifecycle` | a job's row, its entry, BullMQ's deliveries, a cancelling user | |
| `RoleSync` | Discord, bot, queue, workers, markers and locks together | `RoleEngine`; instantiates `RolePolicy`, `MemberExclusion` |
| `Surroundings` | the clock, what may fail, and what a sweep may read of the rows that are due | |
| `Preflight` | the checks before a change in Discord, Discord's answers, the hierarchy rules | |
| `TempRoles`, `TimedBans` | commands with their timer rows, and the sweeps | `Surroundings`; `Preflight` |
| `Grants` | grants, expiry, the jobs they queue, reconciliation | `Surroundings` |
| `Transfers` | requests, side roles, jobs with retries, calls, reports | `Surroundings`, `Preflight` |
| `SelfService` | rules and their closure, giving and taking, edits meanwhile | `Surroundings`, `Preflight` |
| `Whitelist` | submissions, reviewers, the review message | `Surroundings`, `Preflight` |
| `Templates` | the two server templates as data | |
| `Provision` | setups and resets of a server by several administrators | `Surroundings`, `Templates` |
| `Rosters` | one roster: ranks, callsigns, jobs, edits, events, sweep | `Surroundings` |
| `NameMirror` | one member's name in all servers | `Surroundings` |
| `Mappings` | the mapping graph, approvals, what switches mappings off | `Surroundings` |
| `Members` | accounts, primary accounts, website access | `Surroundings` |
| `Permissions` | rights, scopes, ceilings and delegation | `Surroundings` |
| `MCDirect` | composes the services that change Discord directly | the seven of them |
| `MCCommunity` | composes what follows the community | the five of them |
| `MC...` | constants for TLC | each its module |
| `...Proofs` | theorems | each its module, `TLAPS` |

`RoleSync` is the composition: the engine is used as it is in `RoleEngine`, the member lock
as the atomic form of `MemberLock` (take, release, expire; both are shown to implement
`MemberExclusion`), a job as its targets while
`JobLifecycle` looks at one job's bookkeeping closely.

`MCDirect` and `MCCommunity` put the other components in one specification each. The
components of one share no variable but the clock and the count of failures, so that a
behaviour of two is an interleaving of a behaviour of each, and no property relates them;
`focus` therefore chooses the one a behaviour is about. Where components do act on each
other, the effect is modelled in the one it reaches: the deletion of a Discord role unbinds a
rank in `Rosters` and disables a mapping in `Mappings`; a rank that changes is an input of
`NameMirror`; the roles of an access tier are an input of `Permissions` and the subject of
`Members`; the roles that all of them write are what `RoleSync` has people change.

A definition whose name begins with
`Faulty` is a seeded fault: the operator after it as a plausible bug would have it. No
other definition uses one; `PROJECT.json` says which property notices which fault.

### State and code

* `RoleEngine`: `desired` and `controlled` are the two maps of `computeDesiredState`;
  `Drops`, `Adds` and `Controls` are the branches of `applyMappingEdge`; `Seen` is what
  `readActualState` could read. Manual grants apply to linked accounts, as `mappingOnly`
  has it. Reasons, warnings and conflicts are left out.
* `MemberLock`: `pc` is an execution's place in `withMemberLock`; `store` and `ttl` are the
  Redis keys; a client's name stands for its random token. `Tick` is time for all.
* `JobLifecycle`: `status` and `issues` are in PostgreSQL, `entry`, `attempts`, `stalls` and
  `holder` are BullMQ's; `at` is an execution's place in `processSyncJob` and `runSyncJob`.
  BullMQ is external: it delivers waiting entries, retries failed ones that were not
  discarded, and takes back an active entry whose worker no longer renews its lock,
  dead or not.
* `RoleSync`: `roles` and `events` are Discord's, `markers` and `lock` Redis's, `queue` is a
  multiset of jobs. A worker reads one member (`PlanMember`), checks the threshold, and then
  per member takes the lock or skips, and per change writes the marker, calls, and records.
  Each of these is a step of its own: other workers, the bot and people act in between.
  A crash delivers the job again. The sweep (`Sweeper`) creates and runs its job in place.
* `Surroundings`: `Works` and `Fails` are the two outcomes of a step that calls out; `Fails`
  spends one of `MaxFaults`. `Tick` moves `now`. `Readings` are the lists a query of due rows with a limit
  can return.
* `TempRoles`, `TimedBans`: the step of a command is in `tempAt`, `banAt`; a sweep is the list
  it read (`due`) and where it is in it. A row is closed although the call failed, as the
  code does; a crash leaves whatever has been done.
* `Grants`: a job is its member; `Synchronize` reads the active grants and acts on them a step
  later, `Reconciliation` is the scheduled one. An issue or revocation reads, then writes.
* `Transfers`: `ProceedTransfer` are the steps of the processor: read both memberships, take
  the department's roles, give the others, report; each may be the one that fails.
* `SelfService`: the caller's roles, the rules and the preflight are read before the call.
  `Closure` is the least set of roles that has what the rules give its members; the property
  is about it, the code computes one turn of it (`GrantableRoleIds`).
* `Whitelist`: a reviewer's click is `Press`, `ReadSubmission`, `AssignWhitelistRole`,
  `WriteDecision`, `EditReview`, `Tell`, the awaits of `decideWhitelist` and its handler.
* `Provision`: `things` is what Discord has, `setup[a]` the plan and place of one
  `/setup`; its `todo` are the places of `Wanted` that are still to create, the first of them
  next. `Matches` is `planProvision`'s search, `CreateNext` one turn of
  `createStructure`'s loops, with its warning in place of an exception. `Templates` is all of
  both templates; the assumption `TemplatesAreSound` (keys unique, nothing wanted twice,
  every overwrite names a role) is evaluated on the whole of them, `ServersInOrder` too (a
  channel comes after its category, a template's roles come first and in its order, a server's
  channels are under categories it has).
* `Rosters`: `PlanAll` is `planMemberChanges` with its callsign allocator, `PlanOne` the
  single-member form; a job reads the configuration, then Discord and the rows, then
  applies member after member. `Allocations` are the callsigns the allocator can give when
  the members come in one of `ReadOrders`; a job's `todo` is a function from the places of
  its plan, of which it has done those that are gone. `RosterServices` are the handlers and edits
  that have begun.
* `NameMirror`: a nickname is a name in a form (a roster's or plain). `markers` are those of
  `queue/markers.js`; an event whose marker is found ends there.
* `Mappings`: a command is `Begin...`, which reads and validates, and `CommitMapping`, its
  transaction; a vote is `BeginVote` and `CommitVote`; the loop search is over the enabled mappings the command read.
* `Members`: `links` are the account rows, the oldest first; `deciding` is a recomputation of website
  access between its reads and its write; `linking` is what an administrator's command has read: a
  linking, an unlinking, or a grant, whose user `issueGrant` looks up before its transaction and by
  id alone if it is asked to. `grantees` are the users with a grant in force.
* `Permissions`: `actors` are the snapshots commands work with, `writing` the transactions not
  yet made; a row is unique per holder, capability and scope, as in the schema.

### Abstractions

* An event with several changed roles is handled one role at a time.
* `RoleSync` leaves out the roster, website and nickname work that hangs off the same event;
  it is in `Rosters`, `Members` and `NameMirror`, each with its own events.
* A delayed job is a waiting one; a poll of the lock ends in success or in a skip.
* Writes by commands outside the queue (role menus, temporary roles, transfers, bans) are,
  to `RoleSync`, changes by people.
* `preview` in a `RoleSync` job says whether the job its `parentJobId`s lead back to was a
  dry run; only `PreviewChangesNothing` looks at it.
* Contexts do not change during a `RoleSync` behaviour: mappings and grants are fixed.
* A sweep starts only when no re-queued job waits (`RelocksAreTaken`): those are seconds
  old, sweeps hours apart.

## 3. Runs

| Run | Question | Instance |
| --- | --- | --- |
| `MCEngine` | Does the engine keep its promises and settle, for every kind of mapping? | three guilds with a role each; no mapping or two, every pair of shapes, switches and orders that forms a chain or a cycle; a visitor, a member, a member with a grant; any roles held, any guilds unreadable |
| `EngineUnread` | Is a role removed that nobody could compute? (violated) | a chain of two mirrors |
| `MemberLock` | Does the lock exclude, and is it freed? | three executions on one key, lock of 2 ticks, work of up to 3 |
| `RoleSync` | Do interleaved jobs keep apart, within the threshold and to the policy? | one account, two mirrored roles, two workers, threshold 1, two interventions, one fault, one re-queue |
| `SyncConverges` | Do the roles end up right, and does the system rest? | one account and mirror, a worker and the sweep, one intervention, one fault |
| `SyncRequeue` | Is a skipped member planned again? | two workers, two interventions, attempt limit 2, no faults |
| `SyncPreview` | Does a dry run change Discord? (violated) | two workers, two interventions |
| `JobLifecycle` | Do row and entry agree, and does every queued job end? | two slots, three attempts, one allowed stall, two crashes, one stall, two database faults, one Redis fault |
| `JobRetry` | Does a retry run the job? (violated) | the same without faults |
| `Direct` | Is everything that was given for a time taken back, and not early? Are reports true? Is nothing given beyond the rules, or created twice? | clock to 2, one fault; two operators, one target, two timers; two guilds, two bans, no Sonoran product (nothing checked reads what is banned there); two issuers, two grants; two departments with a role each, two transfers of two attempts, one edit; three roles, two members, two edits of rules; one application, two reviewers, one change by others; two administrators, two setups of a cut template (one role, one category, its first channel), one thing made or deleted by hand |
| `Community` | Do rosters, names, mappings, accounts and rights keep their rules, and agree with Discord in the end? | one fault; two members and ranks, with blocks of one and two numbers, two edits; three rosters in two guilds, two names, one edit; three mappings in a circle, a request, two administrators, two commands and one upset; two accounts and users, two edits, one role move, one command; three persons, three capabilities, one guild scope, three commands |
| `RosterCallsigns` | Do two members share a callsign? (violated) | two ranks, one of which has no block; no faults |

**Bounds.** Interference between accounts exists only through the threshold, whose sum is
over all accounts and is proved in general; one account with several jobs is where the
interleavings are. Two workers and one fault reach every pair of a step and a failure;
`MaxWork > TTL` makes locks lapse under their holder; two mappings are the least that form a
chain, a cycle or a disagreement. Interventions and faults are budgets: each is spent at
any step. `LockOutlivesWork` is TRUE in the `RoleSync` runs: what happens when a lock lapses
is `MemberLock`'s question (the policy holds either way, as its proof shows). The runs with budgets switch deadlock checking off, because when
the budgets are spent and nothing waits the system has nothing left to do; so does
`JobLifecycle`, where a job ends. In `RoleSync` and its siblings the engine's plans come
from a table in closed form (`PlanOf`), which the assumption `SyncConstants` compares with
`PlanForMember` at the start of each run.

In `Direct` and `Community` two of each actor and one fault at any step reach every pair of
overlapping commands, every command that overlaps a sweep, and every step that fails or is cut
off in between. `Batch = 1` makes a sweep leave a due row for the next one. The circle of three
mappings is the least that needs the search to follow a path, and two commands are what can
close it behind each other's checks. Setups of the cut templates meet every branch of the plan
(found, under another category, missing; role, category, channel); the full ones differ in
length only. `Direct` checks deadlock: applications and setups, which no clock drives, may be
over (`AtRest`), everything else must always go on. `Community` does not, as rights and
accounts stop when their budgets are spent. Its `MaxTime` is 0: nothing in it reads a clock.

**Fairness.** Weak fairness only. `MemberLock`: time passes (`Tick`) and a running process
takes its next step (`Proceed`); asking for the lock and crashing are free.
`JobLifecycle`: BullMQ delivers waiting entries, looks for stalled ones, and a live
execution goes on. `RoleSync`: the bot handles events that arrived, each worker slot starts
and runs jobs (its next event loop turn always comes), locks expire. `StartJob` is in that
fairness for the sweep because `scheduleMaintenanceJobs` registers a repeating job. People,
faults, crashes, cancellation and the expiry of markers are never assumed to happen.
`Direct`: the commands that have begun go on, the sweeps that BullMQ repeats every minute run,
job workers take what is queued; commands, edits and time are free, except that nothing else
is left to do when time stands still. `Community`: the roster worker takes waiting jobs and
ends them, the roster, name, validation and access sweeps run (`scheduleMaintenanceJobs`), the
bot handles the nickname events that arrived and ends what it has begun. `RosterJobsEnd`,
`RenamingEnds`, `NameJobTaken` and `ValidationEnds` say of a worker in the middle of a job that it
is at its beginning again and again, which is what fairness of its steps gives; a repeated
`[]<>` of a state predicate is cheaper to check than fairness of steps with large plans.
The access sweep is three steps under one fairness, with nobody else able to disable them.
`Converges`, `Quiesces` and `QueuedJobsSettle` are about what holds in the end: the budgets run
out, so the disturbances do.

## 4. Proofs

All for every value of the constants, under the modules' named assumptions
(`...Constants`: the shape of the parameters; for `EngineRuns`, in `SoundContexts`, that a
context's mappings are finitely many, have distinct ids, a primary key, and do not lead from a
role to itself, which `schemas.js:127` refuses; for `RoleSync` that accounts' contexts are as sound, that `PlanOf` is the engine's
and accounts and roles are finitely many, for `Rosters` that members and ranks are, for
`NameMirror` that rosters are and have no two the same height, for
`Members` that no account is linked twice to begin with, for `Provision` that what is wanted is
in the order of a template and administrators are finitely many, for `TempRoles`, `TimedBans` and
`Grants` that operators, moderators and issuers are, whose commands the bounds count).
`SignaturesAtFirst` and
`UntangledAtFirst` say of the mappings a behaviour begins with that they were signed and
searched by the same rules.

| Module | Theorem | Argument |
| --- | --- | --- |
| `MemberLockProofs` | `TypeCorrect`, `LockIsHeld`, `OverlapsAreOverruns`, `NeverFreesAnothersLock`, `LockImplementsExclusion` | `OnlyOverrunsOverlap` is not inductive: it says nothing of Redis. `LockHeld` is: a protected execution's token is stored, and its time inside plus the key's remaining time is the lifetime. Two protected executions of one key would be the same token. The refinement follows because only `Acquire` adds a protected execution, and then its key was free. |
| `JobLifecycleProofs` | `TypeCorrect`, `OneExecutionLives`, `CompletedJobsAreSettled`, `FinishedJobsStayFinished` | `IInv` adds what an execution knows at each step (`Progress`: between the check and the end nobody else finishes the row), that an entry that can be delivered has attempts left, and that nothing precedes the row. The four parts need each other. |
| `RoleSyncProofs` | `TypeCorrect`, `WritersHoldTheirLocks`, `OneWriterPerAccount`, `SyncImplementsExclusion`, `RemovalsStayWithinThreshold`, `SyncImplementsPolicy`, `RolesTraceBack` | Types need `CriticalSections` (inside there is an account, in a call a change) and that plans consist of roles (`PlansAreTyped`). `WriterHoldsLock` is the inductive form of `OneWriter`. The threshold is inductive because after the check plans only shrink (`PlansOnlyShrink`), and cardinality is monotone on finite sets. For the policy, what a worker plans and is about to call is `Within` bounds: a plan is made within them, by `PlanIs` of `EngineProofs`, and only shrinks, however late it is applied and whoever runs the job again (`WithinStep`); roles change only by people and by such calls (`RolesChange`). `RolesTraceBack` has the same invariant with other bounds, what adding mappings lead to from what was given: that is closed under copying, so a plan made for roles within it stays within it. |
| `EngineProofs` | `OnlyComputableIsRemoved`, `AdditionsAreJustified`, `GrantsAlwaysWin`, `OneRunIsEnough`, `ConsecutiveRunsSettle`, `SettledRolesAreMirrored` | The invariant is of a computation's state, not of the account: what every edge keeps (`EdgeKeeps`), every mapping, pass and computation keeps (`MappingKeeps`, `PassKeeps`, `PassesFollow`). In `SoundStates` grants stand, every other claim is that of a mapping leading to its role, what is under control is `Computable`, and claims stay within a set closed under copying; for the second theorem that set is `Reachable`. `OneRunIsEnough` needs `SettledStates`: edges already evaluated have copied what there is to copy and control what they may remove. In the first pass one more edge is settled at each place, as all that feed its mapping come first (`OriginsAreKnown`, `EdgeSettles`); no claim is ever overridden, as each role has one edge (`NothingDropped`). Later passes keep it (`SettledStays`), and the next run, which sees what this one has brought about, comes to the same roles (`OneRunSettles`). The induction over places and passes is `StepByStep`, in sets of states; `PassStatesAre` and `PassesAre` show that the recursive functions exist. `RanksAre` and `OrderIs` are about the evaluation order: priority, then id, is strict, so ranks number the mappings. `ConsecutiveRunsSettle` compares two runs, whatever the order of mappings: two computations that see the same of what feeds some roles treat these roles alike at every edge (`ComputedAlike`), so roles on which two runs agree stay agreed on, and the next run adds a role all of whose origins are among them (`OneRoleMore`); without a circle there is one, and there are no more receiving roles than mappings. `SettledRolesAreMirrored` rests on passes that have come to rest: then no edge would change anything any more (`PassRests`), so a mirrored role has what its origin has. Passes do come to rest with few mappings: the first brings everything under control (`PassRules`), and each later one that changes something claims one more receiving role (`PassClaims`). Where no mapping leads to a granted role, everything held is claimed in the first (`ApartComesToRest`). |
| `AuthorityProofs` | `SensitiveMappingsAreSigned`, `NoLoopsAreEnabled`, `RightsAreDelegated` | `IInv` adds that a signature stems from the vote of somebody who did not ask (`SignaturesAreVotes`), and what the checks of a command have left in it (`CommandsAreSound`). `StepKeeps` says what one step has to show; requests only grow. For loops, `LoopInv` adds `CommandsHaveSearched`: a command whose reading is not outdated would close no way with what it is about to write. `SearchIsEnough` is about graphs: a way through two or more mappings that the new one closes leads back from its target to its source without it, and that is what the search looks for. `MappingsInv` adds the types of what a command carries, kind by kind (`KindsAreTyped`), and of Discord's side (`PlacesAreTyped`). For rights: `NothingBeyondDelegation` looks only at rows. A row is written from a snapshot taken earlier, so `RightsInv` adds that `held` is history, and that each snapshot and each transaction not yet made is backed by what was held. `PermissionsAreTyped`: the same invariant keeps the types, as keys and rights in snapshots and transactions are proper ones. |
| `ServicesProofs` | (lemmas: `SweptInTime`, `LiftedInTime`, `GrantsSettle`, `MovedIsMoved`, `AnswersAreTrue` and the preservation of each invariant) | What a sweep may take depends on rows it read earlier. `TempInv` and `BanInv` therefore say of a role or ban nothing has disturbed that one command works on it, that a command about to record has closed the other timers, that an open timer is the last promise, and that a sweep has what it read to itself and its time is over; of a ban also that its timer is that of the last command, or of one a permanent ban followed (`TimersKnown`). `GrantInv` says that no two jobs act on a reading of the grants at once, unless `grantsUnsure` has noted that or a failure, and that with nothing queued what is about to be done is right, or has been. `TransferInv` says what a running job has done so far: of the roles it asked for, those it has dealt with without a miss are taken or given (`MovesAreMade`), those still to come are as it saw them, and at most one job of a transfer runs (`RunsAreActive`). `WhitelistInv` says of an application that one reviewer alone had open that the role it gave is that of an approval made or about to be written (`GivenWhenApproved`), and that what is about to be shown is what was written (`ShownAsDecided`). |
| `DirectProofs` | `SweepsKeepPromises`, `GrantsSettleRight`, `ServiceStaysInClosure`, `NothingIsCreatedTwice`, `ReportsAreKept`, `DirectIsTyped` | `DirectInv` is the invariant of the component in `focus`; the steps of the others leave its variables alone. For role rules it adds what commands know: the rules they read have been rules, what they may hand out is reachable. As a least closed set, `Closure` needs no induction over passes. For setups, `SetupInv` adds that what a setup has still to create is not there (`MissingIsMissing`: nothing stands for it under any category the setup knows) and that before a channel comes its category (`CategoriesFirst`). A list that has nothing of an item has nothing that stands for it (`Unmatched`); a thing made for one item stands for no other (`OtherThing`), and its number is new (`NextIsNew`, from the cardinality of what is known), so that it is under no category there was. `PromiseInv` says what a setup or a reset without a warning has done by the step it is at: a thing for each item dealt with, all of them in place unless somebody deleted something, the categories opened, the baseline set, every role with permissions seen. As a template's roles come first, the member role a setup maps is one it found or made. `ReportsAreKept` follows from these three invariants at the step that reports; on every other step the report has been made or is not yet. `PlacesInv` adds for the types that a command which will write a row holds a place for it (`Places`: rows and places together stay within the bound, as a place is given up when the row is written), that a sweep reads no more than a batch, that guilds still to do are guilds (`FirstIsOneOfThem`), and that a component out of `focus` is as it began. |
| `CommunityProofs` | `AccountsStayInOrder`, `NobodyLosesHisPlace`, `MappingsAndRightsHold`, `CommunityIsTyped` | `AccountsInv`: owners of accounts and users with a grant are known, no command takes off what it read as the last account of a user with a grant, and the oldest row of a user is his primary account; each step's lemma adds that it leaves a user with a grant an account if he had one, as an unlinking finds the accounts and the grants it read or marks the user (`outdated`); lemmas on the first row of a sequence after an append and a removal carry it. `RosterInv`: whom a job is about to take off has not kept a rank it knows since it began (`RemovalsAreDue`), and edits are of rows there are. `HighestOf`: a finite set of ranks has a highest one. `NamesInv` types what each actor is at; that an authority's guild is one of the guilds needs a highest roster in any finite set (`HighestIs`). `CommunityInv` adds `MappingsInv` and `RightsInv`, so that those two results hold in the composition, and what can still fail: a step of any component works or uses up one fault (`RostersAtWork` to `PermissionsAtWork`). |

The exceptions in the statements are the code's, not the proofs': roles, bans and grants
disturbed by overlapping work, failed writes or a crash (`tempDisturbed`, `banDisturbed`,
`grantsUnsure`), an application two reviewers had open or whose decision broke off (`contested`), a mapping written on an outdated reading (`staleLoops`, `staleSigns`), a user two
changes of whose accounts, or an unlinking and a grant, overlapped (`outdated`), and a lock that has lapsed: theorems about
the lock and about one writer say what holds until then.

Only model-checked:

* liveness, as the prover has neither fairness nor ENABLED;
* `RunsConverge` with two-way mappings, which make a circle each: the argument counts roles all of
  whose origins are settled, and a circle has none to begin with. For rings of different mappings
  it is false, and `MCEngine` has none: see the rotating roles in section 5;
* `SettlesMirrored` where neither premise of the theorem holds. It is false there: see the limit
  of ten passes in section 5.

## 5. Where documentation and code part

Shown by a run:

1. `README.md:37`, "it never removes a role whose correct value it cannot compute": a guild
   that cannot be read counts as one where the account holds nothing (`engine.js:41-48`,
   `desired-state.js:301-305`), so what it decides elsewhere is removed. (`EngineUnread`)
2. `docs/architecture.md:177`, "Dry run. The same code path as a real run, with the Discord
   write skipped": a locked member is re-queued with `dryRun: false`
   (`sync-runner.js:410`). (`SyncPreview`)
3. `docs/architecture.md:166`, "Marked retryable; BullMQ exponential backoff": the row is
   FAILED before the retry, which skips a FAILED job (`sync-runner.js:60`, `:119`).
   (`JobRetry`)
4. `roster-resolve.js:336-337`, "the first holder of a number keeps it, later holders are
   reissued a free one": only numbers in a rank's block are claimed, so a member whose rank has
   none shares his with the next one. (`RosterCallsigns`)

Met while modelling, without a run:

* `docs/architecture.md:112`: chains settle in a single pass. They do when feeding mappings
  come first (`SettlesInOneRun` has that premise); otherwise it takes more runs.
* `desired-state.js:125`, cycles are rejected, "so this terminates; the cap is a belt-and-braces
  guard": roles that grants decide are under control from the start, so what the account holds of
  them counts for nothing. Where eleven mappings lead from a held role through eleven of them,
  none granted, and are evaluated against their direction, every pass carries the role one
  mapping further only, the cap ends each run at the tenth (the warning at `:158`), and the next
  one begins at the same place: runs settle on roles that are not mirrored.
* The same comment, and the purpose of `cycle-detection.js`: its graph (`:63-66`) goes by a mapping's
  direction, the engine's edges (`edgesFor`, `desired-state.js:188-206`) by its authority. A mapping
  of target authority leads the other way, so 1 -> 2 -> 3 and a mapping with source 1 and target 3
  of that authority are a ring that is not refused. Rings may rotate roles for ever: let adding
  mappings lead 3 to 4, 2 to 3, 1 to 2 and (target authority) 4 to 1, evaluated in this order,
  and a removing one lead from a role nobody holds to each of 4, 3, 2, 1, evaluated before the
  adding one into it. A removing mapping drops what the previous pass claimed, the next one claims
  the role if its origin is held, and as passes never come to rest the cap decides: an account
  holding 1 alone holds 2 after a run, then 3, then 1 and 4, then 2 again. TLC shows it for
  `EngineRuns` with these eight mappings, under priorities 8 to 1, as the only context.
* `docs/architecture.md:105`: TWO_WAY with SYSTEM authority never removes; `edgesFor` gives it
  an authoritative forward edge.
* `packages/shared/src/enums.js:50`: only roles with a `ManagedRole` record may be removed; the
  engine controls every receiving role of a removing mapping.
* `sync-runner.js:333`, two jobs cannot fight over one person: a lock lapses after its
  expiry, as `extendLock` is never called, and roster jobs lock another key
  (`roster-runner.js:190`).
* `sync-service.js:404`, "Cancels a job that has not started yet": the status is read before
  the transaction, so one that started can be cancelled and runs on.
* `sync-service.js:10`, "nothing is silently lost": a crash between the commit and the
  enqueueing leaves a PENDING row that nothing queues and no issue mentions.
* `sync-runner.js:108` and `:112` return promises without `await`: a database error in them is
  not caught by the surrounding block and the row stays RUNNING.
* Nothing resumes a PAUSED job.

Timers, grants, transfers:

* A permanent ban does not close the timer of an earlier timed one (`moderation-service.js:129`),
  whose expiry lifts it. `NothingTakenBackEarly` and its theorem do not exclude this: their
  statement names it (`PermanentBanOnTimer`), beside the timed ban that is over. A guild taken off the allowlist keeps the ban.
* The sweeps of temporary roles and bans close a row though the removal failed, and work from
  rows read before: a role given again meanwhile is taken off.
* `processors.js:181-183` says transfers are never retried; the queue's default options retry
  them. A completed transfer may have moved nothing if its configuration was emptied.
* `setTransferRoles` clears a side that is not given. `removeTempRole` has no hierarchy check.
* Two managers who issue the same grant at once leave two active ones, and revoking one
  leaves the role. `runGrantExpiry` queues jobs for every grant that ever expired.
* A mapping is disabled on a transient failure to read its guild (`maintenance-service.js:58`).

Rosters and names:

* `planMemberChanges` starts with an empty allocator: standing members' numbers go to others,
  although the comment near `roster-resolve.js:92` says a number in the block is kept; in a block
  with fewer numbers than members the number goes round. A departed row keeps its callsign and
  can bring a duplicate back; concurrent edits by hand can make one.
* Members whose rank lost its role are removed by the next sweep though `event-service.js:881-884`
  and `:963-965` say they keep their place.
* A removal whose rename fails is never tried again; members skipped for a lock are not counted;
  a change of `requiresRoleId` alone queues no sync; a member who leaves queues no roster job; the
  platform's own role changes skip rosters and access (`event-service.js:119-122`).
* A member whom a single-member job cannot read is treated as one who left.
* Two spreadings of a name at once leave an outdated name or form; an edit whose marker lookup
  fails is not repaired in other guilds that have a roster; `setGlobalNickname` leaves no markers.

Mappings, rights, members:

* A request outlives the deletion of its mapping and, once approved, signs the mapping created
  since; an approval and a rejection can both go through (`approval-service.js:89`). Raising the
  protection of a role asks nobody again about the mappings enabled on it.
* Two administrators can close a cycle past the check (`mapping-service.js:513`); two two-way
  mappings of one role count as one. A disabled guild's mappings stay enabled until the sweep, and
  those of a guild with `syncEnabled` off are never looked at.
* A stored authority level is changed by nothing but the bootstrap, so ordinary accounts can only
  be granted what takes level 0, although the error says "Raise their authority level first".
* A right that ran out but was not revoked blocks a new grant of it; the bootstrap clears
  `revokedAt` but not `expiresAt`; a caller's snapshot is used minutes later, after its confirmation.
* `reconcileWebsiteAccess` takes a member list that could not be read for an empty one and revokes
  everybody's access by tier, and does nothing once no rule or main guild is left. It looks at the
  primary account, commands at the acting one. `reconcileGlobalAdmins` leaves `accessFromTier` set.
* A grant can go to a user without an account: `issueGrant` finds him by his id alone, or reads him
  before his last account is unlinked (`grant-service.js:45`). `unlinkMember` refuses to make that
  state (`member-service.js:209-211`: "the grant would sit there doing nothing"), so `AccountsInOrder`
  says of its refusal only that no step takes the last account from a user with a grant.
* `linkMember` leaves the account of a user it creates non-primary in its own row; the checks of
  linking and unlinking are outside their transactions. A deleted tier's name cannot be used again.

Applications and setups:

* Two reviewers who read PENDING at once both decide (`whitelist-service.js:213`): the last write
  wins, a role may go with a DENIED row, and the applicant is told both. After a restart between role
  and row, the application can still be denied. One whose review message could not be posted
  cannot be decided; one decided before its message id was stored keeps live buttons.
* A category whose overwrites lacked a role (its creation had failed) is never opened to it by a
  later setup, which only creates what is missing. Overlapping setups, or one that lists from a
  stale cache, create things twice. A reset clears the roles even if @everyone's baseline failed,
  though the comment (`setup-service.js:364-365`) counts on it.

## 6. Plan

The components are modelled, and every safety property the runs check is proved, `RunsConverge` and
`SettlesMirrored` under the premises of their theorems. Left to prove: that runs settle where the
only circles are those of two-way mappings.

Still to model: retries of sync issues, the hierarchy rules of roster administration, and the
delivery of a join's resync.

## 7. Not modelled

Output that no component reads back: audit, notifications, log webhooks, health, and the
key-value settings. Translation of requests into the service calls modelled here: commands,
routes, validation schemas, formatting. External: Discord and the Sonoran service beyond "a
call succeeds, is refused or fails, and may have been carried out"; BullMQ, Redis and PostgreSQL
beyond what the modules' external definitions say. Staff requests and the chat bridge, which
touch none of the above; migrations. Of modelled components: `retrySyncIssue`, roster creation
and display, department scopes, conflicts and warnings of the engine, and read-only queries.
