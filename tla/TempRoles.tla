----------------------------- MODULE TempRoles ------------------------------
(***************************************************************************)
(* Temporary roles: /temprole adds a role and records a timer, a sweep     *)
(* takes the role back when the timer is due.  The role is in Discord, the *)
(* timer in PostgreSQL, and each step of a command or of the sweep can     *)
(* come between two steps of another.                                      *)
(*                                                                         *)
(* A target is a member with a role of a guild.  Timers are numbered in    *)
(* the order of their rows.  tempPromise and tempDisturbed are history,    *)
(* read by properties only.  Definitions whose names begin with Faulty are *)
(* seeded faults.                                                          *)
(***************************************************************************)
EXTENDS Surroundings, Preflight, SequencesExt

CONSTANTS
    Target,         \* (guild, member, role) triples
    Operator,       \* people with grant.issue
    Duration,       \* durations of temporary roles, in ticks
    StandingOf,     \* what the hierarchy check reads of an operator and a target
    Batch,          \* rows a sweep takes at a time (take: 50)
    MaxTimers       \* bound: timers ever recorded

ASSUME TempRoleConstants ==
    /\ Duration \subseteq Nat
    /\ StandingOf \in [Operator \X Target -> Standing]
    /\ IsFiniteSet(Operator)
    /\ Batch \in Nat \ {0}
    /\ MaxTimers \in Nat

VARIABLES
    tempHeld,       \* Discord: targets whose member has the role
    tempRows,       \* TempRole rows
    tempAt,         \* where each operator's command is
    tempSweep,      \* the sweep: rows it read as due, and whether the first's role is off
    tempPromise,    \* history: until when the last recorded command gave each role (0: none)
    tempDisturbed   \* history: targets of overlapping or failed work

tempVars == <<tempHeld, tempRows, tempAt, tempSweep, tempPromise, tempDisturbed>>

Timer == [target : Target, until : Nat, active : BOOLEAN]
Command == [step : {"add", "supersede", "record", "take"}, target : Target, until : Nat]
NoCommand == [step |-> "none"]
NoSweep == [due |-> <<>>, taken |-> FALSE]

TempRolesTypeOK ==
    /\ tempHeld \subseteq Target
    /\ tempRows \in Seq(Timer) /\ Len(tempRows) <= MaxTimers
    /\ tempAt \in [Operator -> Command \cup {NoCommand}]
    /\ tempSweep.due \in Seq(DOMAIN tempRows) /\ Len(tempSweep.due) <= Batch
    /\ tempSweep.taken \in BOOLEAN
    /\ tempPromise \in [Target -> Nat]
    /\ tempDisturbed \subseteq Target

TempRolesInit ==
    /\ tempHeld = {}
    /\ tempRows = <<>>
    /\ tempAt = [o \in Operator |-> NoCommand]
    /\ tempSweep = NoSweep
    /\ tempPromise = [t \in Target |-> 0]
    /\ tempDisturbed = {}

-----------------------------------------------------------------------------

Working(t) == \E o \in Operator : tempAt[o] # NoCommand /\ tempAt[o].target = t
Swept(t) == \E i \in 1 .. Len(tempSweep.due) : tempRows[tempSweep.due[i]].target = t
Adding == {o \in Operator : tempAt[o] # NoCommand /\ tempAt[o].step # "take"}

\* The updateMany that closes the open timers of a target.
CloseTimers(t) ==
    tempRows' = [i \in DOMAIN tempRows |->
        IF tempRows[i].target = t THEN [tempRows[i] EXCEPT !.active = FALSE] ELSE tempRows[i]]

\* Work on a target that begins while other work on it is under way.
NoteOverlap(t) ==
    tempDisturbed' = IF Working(t) \/ Swept(t) THEN tempDisturbed \cup {t} ELSE tempDisturbed

Disturb(t) == tempDisturbed' = tempDisturbed \cup {t}

\* /temprole add: the expiry is set before anything is done.
AddTempRole(o, t, d) ==
    /\ tempAt[o] = NoCommand
    /\ Len(tempRows) + Cardinality(Adding) < MaxTimers
    /\ d > 0
    /\ ActorAboveRole(StandingOf[o, t])
    /\ tempAt' = [tempAt EXCEPT ![o] = [step |-> "add", target |-> t, until |-> now + d]]
    /\ NoteOverlap(t)
    /\ Works
    /\ UNCHANGED <<tempHeld, tempRows, tempSweep, tempPromise>>

\* gateway.addRole; a refusal ends the command before a timer is written.
PutRole(o) ==
    /\ tempAt[o] # NoCommand /\ tempAt[o].step = "add"
    /\ \/ /\ Works
          /\ tempHeld' = tempHeld \cup {tempAt[o].target}
          /\ tempAt' = [tempAt EXCEPT ![o].step = "supersede"]
       \/ /\ Fails
          /\ tempAt' = [tempAt EXCEPT ![o] = NoCommand]
          /\ UNCHANGED tempHeld
    /\ UNCHANGED <<tempRows, tempSweep, tempPromise, tempDisturbed>>

FaultySupersede(o) ==
    /\ tempAt[o] # NoCommand /\ tempAt[o].step = "supersede"
    /\ tempAt' = [tempAt EXCEPT ![o].step = "record"]
    /\ Works
    /\ UNCHANGED <<tempHeld, tempRows, tempSweep, tempPromise, tempDisturbed>>

\* Closing the earlier timers; a failure is swallowed.
Supersede(o) ==
    /\ tempAt[o] # NoCommand /\ tempAt[o].step = "supersede"
    /\ tempAt' = [tempAt EXCEPT ![o].step = "record"]
    /\ \/ Works /\ CloseTimers(tempAt[o].target) /\ UNCHANGED tempDisturbed
       \/ Fails /\ Disturb(tempAt[o].target) /\ UNCHANGED tempRows
    /\ UNCHANGED <<tempHeld, tempSweep, tempPromise>>

\* Recording the timer; a failure is logged, and the role stays without one.
RecordTimer(o) ==
    /\ tempAt[o] # NoCommand /\ tempAt[o].step = "record"
    /\ LET t == tempAt[o].target
           row == [target |-> t, until |-> tempAt[o].until, active |-> TRUE]
       IN  \/ /\ Works
              /\ tempRows' = Append(tempRows, row)
              /\ tempPromise' = [tempPromise EXCEPT ![t] = row.until]
              /\ UNCHANGED tempDisturbed
           \/ Fails /\ Disturb(t) /\ UNCHANGED <<tempRows, tempPromise>>
    /\ tempAt' = [tempAt EXCEPT ![o] = NoCommand]
    /\ UNCHANGED <<tempHeld, tempSweep>>

-----------------------------------------------------------------------------

\* /temprole remove: the timers are closed first; a failure to do so ends it.
RemoveTempRole(o, t) ==
    /\ tempAt[o] = NoCommand
    /\ Works
    /\ tempAt' = [tempAt EXCEPT ![o] = [step |-> "take", target |-> t, until |-> 0]]
    /\ CloseTimers(t)
    /\ tempPromise' = [tempPromise EXCEPT ![t] = 0]
    /\ NoteOverlap(t)
    /\ UNCHANGED <<tempHeld, tempSweep>>

\* gateway.removeRole; a failure is reported and nothing else is done.
TakeOff(o) ==
    /\ tempAt[o] # NoCommand /\ tempAt[o].step = "take"
    /\ \/ Works /\ tempHeld' = tempHeld \ {tempAt[o].target}
       \/ Fails /\ UNCHANGED tempHeld
    /\ tempAt' = [tempAt EXCEPT ![o] = NoCommand]
    /\ UNCHANGED <<tempRows, tempSweep, tempPromise, tempDisturbed>>

\* The bot stops in the middle of a command, and nothing takes it up again.
BotStops(o) ==
    /\ tempAt[o] # NoCommand
    /\ Fails
    /\ Disturb(tempAt[o].target)
    /\ tempAt' = [tempAt EXCEPT ![o] = NoCommand]
    /\ UNCHANGED <<tempHeld, tempRows, tempSweep, tempPromise>>

-----------------------------------------------------------------------------

Due(i) == tempRows[i].active /\ tempRows[i].until <= now

DueTimers == {i \in DOMAIN tempRows : Due(i)}

FaultyDueRows == Readings(tempRows, DueTimers, Len(tempRows))

\* The rows a sweep reads: those due, the earliest first, no more than a batch.
DueRows == Readings(tempRows, DueTimers, Batch)

\* runTempRoleExpiry begins; maintenance jobs run one at a time.
SweepTempRoles ==
    /\ tempSweep = NoSweep
    /\ DueTimers # {}
    /\ \E due \in DueRows :
           /\ tempSweep' = [due |-> due, taken |-> FALSE]
           /\ tempDisturbed' = tempDisturbed \cup
                  {t \in Target : Working(t) /\ \E i \in DOMAIN due : tempRows[due[i]].target = t}
    /\ Works
    /\ UNCHANGED <<tempHeld, tempRows, tempAt, tempPromise>>

FaultyTakeExpired ==
    /\ tempSweep.due # <<>> /\ ~tempSweep.taken
    /\ tempSweep' = [tempSweep EXCEPT !.taken = TRUE]
    /\ Works
    /\ UNCHANGED <<tempHeld, tempRows, tempAt, tempPromise, tempDisturbed>>

\* The role of the first row is taken off; a failure is noted, and the row is
\* closed all the same.
TakeExpired ==
    /\ tempSweep.due # <<>> /\ ~tempSweep.taken
    /\ LET t == tempRows[Head(tempSweep.due)].target
       IN  \/ Works /\ tempHeld' = tempHeld \ {t} /\ UNCHANGED tempDisturbed
           \/ Fails /\ Disturb(t) /\ UNCHANGED tempHeld
    /\ tempSweep' = [tempSweep EXCEPT !.taken = TRUE]
    /\ UNCHANGED <<tempRows, tempAt, tempPromise>>

\* The row is closed; if that fails it is still open for the next sweep.
CloseExpired ==
    /\ tempSweep.taken
    /\ \/ Works /\ tempRows' = [tempRows EXCEPT ![Head(tempSweep.due)].active = FALSE]
                /\ UNCHANGED tempDisturbed
       \/ Fails /\ Disturb(tempRows[Head(tempSweep.due)].target) /\ UNCHANGED tempRows
    /\ tempSweep' = [due |-> Tail(tempSweep.due), taken |-> FALSE]
    /\ UNCHANGED <<tempHeld, tempAt, tempPromise>>

\* The worker stops in the middle of a sweep.
SweepStops ==
    /\ tempSweep # NoSweep
    /\ Fails
    /\ tempSweep' = NoSweep
    /\ UNCHANGED <<tempHeld, tempRows, tempAt, tempPromise, tempDisturbed>>

-----------------------------------------------------------------------------

\* The next step of a command that has begun.
ProceedTemp(o) == PutRole(o) \/ Supersede(o) \/ RecordTimer(o) \/ TakeOff(o)

\* The sweep, every minute, and its steps.
SweepStep == SweepTempRoles \/ TakeExpired \/ CloseExpired

TempRolesNext ==
    \/ \E o \in Operator, t \in Target, d \in Duration : AddTempRole(o, t, d)
    \/ \E o \in Operator, t \in Target : RemoveTempRole(o, t)
    \/ \E o \in Operator : ProceedTemp(o) \/ BotStops(o)
    \/ SweepStep
    \/ SweepStops
    \/ Tick /\ UNCHANGED tempVars


-----------------------------------------------------------------------------

\* A sweep takes a role off only when the last command that put it on gave it
\* until now at the latest.
SweepKeepsTempRoles ==
    \A t \in Target :
        t \in tempHeld /\ t \notin tempHeld' /\ tempSweep' # tempSweep
            => t \in tempDisturbed \/ tempPromise[t] <= now

\* The time of a role is up, and nothing is under way that may end or renew it.
OverdueTempRole(t) ==
    /\ t \in tempHeld /\ t \notin tempDisturbed
    /\ tempPromise[t] \in 1 .. now
    /\ ~Working(t)
=============================================================================
