--------------------------- MODULE ServicesProofs ---------------------------
(* The services that work on their own rows, for any numbers of people, roles *)
(* and guilds: a sweep takes a temporary role or lifts a timed ban only when   *)
(* the last command gave it until now; a member whose synchronizations are     *)
(* done has a granted role exactly while a grant is in force; a transfer that  *)
(* says it is completed has made the whole move; and the decision on a         *)
(* whitelist application is what is shown and told of it.                      *)
EXTENDS TempRoles, TimedBans, Grants, Transfers, Whitelist, SequenceTheorems, FiniteSetTheorems, TLAPS

Busy(o) == tempAt[o] # NoCommand

TempRolesTyped ==
    /\ tempHeld \subseteq Target
    /\ tempRows \in Seq(Timer)
    /\ tempAt \in [Operator -> Command \cup {NoCommand}]
    /\ tempSweep \in [due : Seq(Nat), taken : BOOLEAN]
    /\ \A n \in DOMAIN tempSweep.due : tempSweep.due[n] \in DOMAIN tempRows
    /\ tempSweep.taken => tempSweep.due # <<>>
    /\ tempPromise \in [Target -> Nat]
    /\ tempDisturbed \subseteq Target
    /\ now \in Nat

\* Commands that nothing has disturbed work on different roles.
OneCommand ==
    \A o, p \in Operator :
        o # p /\ Busy(o) /\ Busy(p) /\ tempAt[o].target = tempAt[p].target => tempAt[o].target \in tempDisturbed

\* A command that is about to record its timer has closed all others.
TimersSuperseded ==
    \A o \in Operator, i \in DOMAIN tempRows :
        Busy(o) /\ tempAt[o].step = "record" /\ tempRows[i].target = tempAt[o].target /\ tempRows[i].active
            => tempAt[o].target \in tempDisturbed

\* An open timer is the last promise.
OpenTimersPromised ==
    \A i \in DOMAIN tempRows :
        tempRows[i].active =>
            tempRows[i].target \in tempDisturbed \/ tempPromise[tempRows[i].target] = tempRows[i].until

\* The sweep has a role to itself, whose promised time is over.
SweptAlone ==
    \A n \in DOMAIN tempSweep.due :
        LET t == tempRows[tempSweep.due[n]].target
        IN  \/ t \in tempDisturbed
            \/ /\ tempPromise[t] <= now
               /\ \A o \in Operator : Busy(o) => tempAt[o].target # t

TempInv == TempRolesTyped /\ OneCommand /\ TimersSuperseded /\ OpenTimersPromised /\ SweptAlone

LEMMA SweepIsTyped ==
  ASSUME TempRolesTyped, NEW n \in DOMAIN tempSweep.due
  PROVE  tempSweep.due[n] \in DOMAIN tempRows /\ tempRows[tempSweep.due[n]] \in Timer
  BY DEF TempRolesTyped

LEMMA RowsAreTimers ==
  ASSUME TempRolesTyped
  PROVE  \A i \in DOMAIN tempRows : /\ tempRows[i] \in Timer /\ tempRows[i].target \in Target
                                    /\ tempRows[i].until \in Nat /\ tempRows[i].active \in BOOLEAN
<1>1. \A i \in DOMAIN tempRows : tempRows[i] \in Timer BY DEF TempRolesTyped
<1>2. QED BY <1>1 DEF Timer

\* What a reading of the rows that are due consists of.
LEMMA ReadingsRead ==
  ASSUME NEW rows, NEW due \in SUBSET Nat, NEW limit \in Nat, NEW read \in Readings(rows, due, limit)
  PROVE  read \in Seq(Nat) /\ \A n \in DOMAIN read : read[n] \in due
<1>1. PICK n \in 0 .. limit : read \in [1 .. n -> due] BY DEF Readings
<1>2. read \in Seq(due) BY <1>1, SeqDef
<1>3. QED BY <1>1, <1>2, SeqMonotonic

LEMMA ClosingTimers ==
  ASSUME TempRolesTyped, NEW t, CloseTimers(t)
  PROVE  /\ tempRows' \in Seq(Timer) /\ DOMAIN tempRows' = DOMAIN tempRows
         /\ \A i \in DOMAIN tempRows :
                /\ tempRows'[i].target = tempRows[i].target /\ tempRows'[i].until = tempRows[i].until
                /\ tempRows'[i].active => tempRows[i].active /\ tempRows[i].target # t
<1>1. /\ Len(tempRows) \in Nat /\ DOMAIN tempRows = 1 .. Len(tempRows)
      /\ \A i \in DOMAIN tempRows : tempRows[i] \in Timer
  BY DEF TempRolesTyped
<1>2. \A i \in DOMAIN tempRows : tempRows'[i] \in Timer BY <1>1 DEF CloseTimers, Timer
<1>3. tempRows' \in [1 .. Len(tempRows) -> Timer] BY <1>1, <1>2 DEF CloseTimers
<1>4. tempRows' \in Seq(Timer) BY <1>1, <1>3, SeqDef
<1>5. \A i \in DOMAIN tempRows :
          /\ tempRows'[i].target = tempRows[i].target /\ tempRows'[i].until = tempRows[i].until
          /\ tempRows'[i].active => tempRows[i].active /\ tempRows[i].target # t
  BY <1>1 DEF CloseTimers, Timer
<1>6. QED BY <1>1, <1>3, <1>4, <1>5

LEMMA TempInit == SurroundingsInit /\ TempRolesInit => TempInv
<1> SUFFICES ASSUME SurroundingsInit, TempRolesInit PROVE TempInv
  OBVIOUS
<1> USE DEF SurroundingsInit, TempRolesInit
<1>1. TempRolesTyped BY DEF TempRolesTyped, NoSweep
<1>2. OneCommand /\ TimersSuperseded BY DEF OneCommand, TimersSuperseded, Busy
<1>3. OpenTimersPromised /\ SweptAlone BY DEF OpenTimersPromised, SweptAlone, NoSweep
<1>4. QED BY <1>1, <1>2, <1>3 DEF TempInv

\* Commands that go on or end, timers that are closed and sweeps that go on.
LEMMA TempGoesOn ==
  ASSUME TempInv, TempRolesTyped', tempDisturbed \subseteq tempDisturbed', now <= now',
         UNCHANGED tempPromise, DOMAIN tempRows' = DOMAIN tempRows,
         \A i \in DOMAIN tempRows :
             /\ tempRows'[i].target = tempRows[i].target /\ tempRows'[i].until = tempRows[i].until
             /\ tempRows'[i].active => tempRows[i].active,
         \A o \in Operator : Busy(o)' =>
             /\ Busy(o) /\ tempAt'[o].target = tempAt[o].target
             /\ tempAt'[o].step = "record" =>
                    \/ tempAt[o].step = "record" \/ tempAt[o].target \in tempDisturbed'
                    \/ \A i \in DOMAIN tempRows : tempRows[i].target = tempAt[o].target => ~tempRows'[i].active,
         \A n \in DOMAIN tempSweep'.due : \E m \in DOMAIN tempSweep.due : tempSweep'.due[n] = tempSweep.due[m]
  PROVE  TempInv'
<1>1. OneCommand' BY DEF TempInv, OneCommand
<1>2. TimersSuperseded' BY DEF TempInv, TimersSuperseded
<1>3. OpenTimersPromised' BY DEF TempInv, OpenTimersPromised
<1>4. SweptAlone'
  <2> SUFFICES ASSUME NEW n \in DOMAIN tempSweep'.due,
                      tempRows'[tempSweep'.due[n]].target \notin tempDisturbed'
               PROVE  /\ tempPromise'[tempRows'[tempSweep'.due[n]].target] <= now'
                      /\ \A o \in Operator : Busy(o)' => tempAt'[o].target # tempRows'[tempSweep'.due[n]].target
    BY DEF SweptAlone
  <2>1. PICK m \in DOMAIN tempSweep.due : tempSweep'.due[n] = tempSweep.due[m] OBVIOUS
  <2>2. tempSweep.due[m] \in DOMAIN tempRows BY DEF TempInv, TempRolesTyped
  <2> DEFINE t == tempRows[tempSweep.due[m]].target
  <2>3. tempRows'[tempSweep'.due[n]].target = t BY <2>1, <2>2
  <2>4. tempPromise[t] \in Nat /\ now \in Nat /\ now' \in Nat
    <3>1. tempRows[tempSweep.due[m]] \in Timer BY <2>2 DEF TempInv, TempRolesTyped
    <3>2. t \in Target BY <3>1 DEF Timer
    <3>3. QED BY <3>2 DEF TempInv, TempRolesTyped
  <2>5. tempPromise[t] <= now /\ \A o \in Operator : Busy(o) => tempAt[o].target # t
    BY <2>3 DEF TempInv, SweptAlone
  <2> HIDE DEF t
  <2>6. tempPromise'[t] <= now' BY <2>4, <2>5
  <2>7. QED BY <2>3, <2>5, <2>6
<1>5. QED BY <1>1, <1>2, <1>3, <1>4 DEF TempInv

LEMMA AddKeeps ==
  ASSUME TempInv, NEW o \in Operator, NEW t \in Target, NEW d \in Duration, AddTempRole(o, t, d)
  PROVE  TempInv'
<1>1. /\ tempAt' = [tempAt EXCEPT ![o] = [step |-> "add", target |-> t, until |-> now + d]]
      /\ NoteOverlap(t)
      /\ UNCHANGED <<now, tempHeld, tempRows, tempSweep, tempPromise>>
  BY Zenon DEF AddTempRole, Works, surroundings
<1>2. TempRolesTyped'
  <2>1. now \in Nat /\ d \in Nat BY TempRoleConstants DEF TempInv, TempRolesTyped
  <2>2. now + d \in Nat BY <2>1
  <2>3. [step |-> "add", target |-> t, until |-> now + d] \in Command BY <2>2 DEF Command
  <2>4. QED BY <1>1, <2>3 DEF TempInv, TempRolesTyped, NoteOverlap
<1>3. /\ tempAt'[o].step = "add" /\ tempAt'[o].target = t
      /\ \A p \in Operator \ {o} : tempAt'[p] = tempAt[p]
      /\ tempDisturbed \subseteq tempDisturbed'
      /\ Working(t) \/ Swept(t) => t \in tempDisturbed'
  BY <1>1 DEF TempInv, TempRolesTyped, NoteOverlap
<1>4. OneCommand' BY <1>1, <1>3 DEF TempInv, OneCommand, Working, Busy
<1>5. TimersSuperseded' BY <1>1, <1>3 DEF TempInv, TimersSuperseded, Busy
<1>6. OpenTimersPromised' BY <1>1, <1>3 DEF TempInv, OpenTimersPromised
<1>7. SweptAlone' BY <1>1, <1>3 DEF TempInv, TempRolesTyped, SweptAlone, Swept, Busy
<1>8. QED BY <1>2, <1>4, <1>5, <1>6, <1>7 DEF TempInv

LEMMA RemoveKeeps ==
  ASSUME TempInv, NEW o \in Operator, NEW t \in Target, RemoveTempRole(o, t)
  PROVE  TempInv'
<1> USE DEF RemoveTempRole, Works, surroundings
<1>1. /\ tempRows' \in Seq(Timer) /\ DOMAIN tempRows' = DOMAIN tempRows
      /\ \A i \in DOMAIN tempRows :
             /\ tempRows'[i].target = tempRows[i].target /\ tempRows'[i].until = tempRows[i].until
             /\ tempRows'[i].active => tempRows[i].active /\ tempRows[i].target # t
  BY ClosingTimers DEF TempInv
<1>2. TempRolesTyped'
  <2>1. [step |-> "take", target |-> t, until |-> 0] \in Command BY DEF Command
  <2>2. QED BY <1>1, <2>1 DEF TempInv, TempRolesTyped, NoteOverlap
<1>3. /\ tempAt'[o].step = "take" /\ tempAt'[o].target = t
      /\ \A p \in Operator \ {o} : tempAt'[p] = tempAt[p]
      /\ tempDisturbed \subseteq tempDisturbed'
      /\ Working(t) \/ Swept(t) => t \in tempDisturbed'
      /\ tempPromise'[t] = 0 /\ \A u \in Target \ {t} : tempPromise'[u] = tempPromise[u]
  BY DEF TempInv, TempRolesTyped, NoteOverlap
<1>4. OneCommand' BY <1>3 DEF TempInv, OneCommand, Working, Busy
<1>5. TimersSuperseded' BY <1>1, <1>3 DEF TempInv, TimersSuperseded, Busy
<1>6. OpenTimersPromised'
  <2>1. \A i \in DOMAIN tempRows : tempRows[i].target \in Target BY RowsAreTimers DEF TempInv
  <2>2. QED BY <1>1, <1>3, <2>1 DEF TempInv, OpenTimersPromised
<1>7. SweptAlone'
  <2> SUFFICES ASSUME NEW n \in DOMAIN tempSweep.due, NEW u, u = tempRows[tempSweep.due[n]].target,
                      u \notin tempDisturbed'
               PROVE  /\ tempPromise'[u] <= now
                      /\ \A p \in Operator : Busy(p)' => tempAt'[p].target # u
    BY <1>1, SweepIsTyped DEF TempInv, SweptAlone
  <2>1. DOMAIN tempSweep.due = 1 .. Len(tempSweep.due) BY DEF TempInv, TempRolesTyped
  <2>2. u # t BY <1>3, <2>1 DEF Swept
  <2>3. u \in Target BY SweepIsTyped DEF TempInv, Timer
  <2>4. QED BY <1>3, <2>2, <2>3 DEF TempInv, SweptAlone, Busy
<1>8. QED BY <1>2, <1>4, <1>5, <1>6, <1>7 DEF TempInv

LEMMA RecordKeeps ==
  ASSUME TempInv, NEW o \in Operator, RecordTimer(o)
  PROVE  TempInv'
<1> DEFINE t == tempAt[o].target
           row == [target |-> t, until |-> tempAt[o].until, active |-> TRUE]
<1>1. t \in Target /\ row \in Timer /\ tempAt[o].until \in Nat
  <2>1. tempAt[o] \in Command BY DEF RecordTimer, TempInv, TempRolesTyped
  <2>2. QED BY <2>1 DEF Command, Timer
<1>2. /\ ~Busy(o)' /\ \A p \in Operator \ {o} : tempAt'[p] = tempAt[p]
      /\ tempAt' \in [Operator -> Command \cup {NoCommand}]
      /\ Busy(o) /\ tempAt[o].step = "record"
      /\ tempDisturbed \subseteq tempDisturbed' /\ tempDisturbed' \subseteq Target
      /\ now' = now /\ tempSweep' = tempSweep /\ tempHeld' = tempHeld
  BY <1>1 DEF TempInv, TempRolesTyped, RecordTimer, Busy, Disturb, Works, Fails, surroundings
<1>3. CASE tempRows' = Append(tempRows, row) /\ tempPromise' = [tempPromise EXCEPT ![t] = row.until]
  <2>1. /\ DOMAIN tempRows' = DOMAIN tempRows \cup {Len(tempRows) + 1}
        /\ \A i \in DOMAIN tempRows : tempRows'[i] = tempRows[i]
        /\ tempRows'[Len(tempRows) + 1] = row
        /\ tempRows' \in Seq(Timer)
    BY <1>1, <1>3 DEF TempInv, TempRolesTyped
  <2>2. /\ tempPromise'[t] = row.until /\ \A u \in Target \ {t} : tempPromise'[u] = tempPromise[u]
        /\ tempPromise' \in [Target -> Nat]
    BY <1>1, <1>3 DEF TempInv, TempRolesTyped
  <2>3. row.target = t /\ row.until = tempAt[o].until /\ row.active OBVIOUS
  <2>4. \A i \in DOMAIN tempRows : tempRows[i].target \in Target BY RowsAreTimers DEF TempInv
  <2> HIDE DEF row
  <2>5. TempRolesTyped' BY <1>2, <2>1, <2>2 DEF TempInv, TempRolesTyped
  <2>6. OneCommand' BY <1>2 DEF TempInv, OneCommand, Busy
  <2>7. TimersSuperseded' BY <1>2, <2>1, <2>3 DEF TempInv, OneCommand, TimersSuperseded, Busy
  <2>8. OpenTimersPromised' BY <1>2, <2>1, <2>2, <2>3, <2>4 DEF TempInv, TimersSuperseded, OpenTimersPromised
  <2>9. SweptAlone'
    <3> SUFFICES ASSUME NEW n \in DOMAIN tempSweep.due, NEW u, u = tempRows[tempSweep.due[n]].target,
                        u \notin tempDisturbed'
                 PROVE  /\ tempPromise'[u] <= now
                        /\ \A p \in Operator : Busy(p)' => tempAt'[p].target # u
      BY <1>2, <2>1, SweepIsTyped DEF TempInv, SweptAlone
    <3>1. u \in Target BY <2>4, SweepIsTyped DEF TempInv
    <3>2. u # t BY <1>2 DEF TempInv, SweptAlone
    <3>3. QED BY <1>2, <2>2, <3>1, <3>2 DEF TempInv, SweptAlone, Busy
  <2>10. QED BY <2>5, <2>6, <2>7, <2>8, <2>9 DEF TempInv
<1>4. CASE UNCHANGED <<tempRows, tempPromise>>
  <2>1. TempRolesTyped' BY <1>2, <1>4 DEF TempInv, TempRolesTyped
  <2>2. now <= now' BY <1>2 DEF TempInv, TempRolesTyped
  <2>3. \A p \in Operator : Busy(p)' => /\ Busy(p) /\ tempAt'[p].target = tempAt[p].target
                                        /\ tempAt'[p].step = "record" => tempAt[p].step = "record"
    BY <1>2 DEF Busy
  <2>4. QED BY <1>2, <1>4, <2>1, <2>2, <2>3, TempGoesOn
<1>5. QED BY <1>3, <1>4 DEF RecordTimer

LEMMA SweepKeeps ==
  ASSUME TempInv, SweepTempRoles
  PROVE  TempInv'
<1>1. PICK due \in DueRows :
          /\ tempSweep' = [due |-> due, taken |-> FALSE]
          /\ tempDisturbed' = tempDisturbed \cup
                 {t \in Target : Working(t) /\ \E i \in DOMAIN due : tempRows[due[i]].target = t}
  BY DEF SweepTempRoles
<1>2. due \in Seq(Nat) /\ \A n \in DOMAIN due : due[n] \in DueTimers
  <2>1. DueTimers \in SUBSET Nat BY DEF DueTimers, TempInv, TempRolesTyped
  <2>2. QED BY <1>1, <2>1, ReadingsRead, TempRoleConstants DEF DueRows
<1>3. \A n \in DOMAIN due : /\ due[n] \in DOMAIN tempRows
                            /\ tempRows[due[n]].active /\ tempRows[due[n]].until <= now
  BY <1>2 DEF DueTimers, Due
<1>4. UNCHANGED <<tempHeld, tempRows, tempAt, tempPromise, now>>
  BY DEF SweepTempRoles, Works, surroundings
<1>5. TempRolesTyped' BY <1>1, <1>2, <1>3, <1>4 DEF TempInv, TempRolesTyped
<1>6. OneCommand' /\ TimersSuperseded' /\ OpenTimersPromised'
  BY <1>1, <1>4 DEF TempInv, OneCommand, TimersSuperseded, OpenTimersPromised, Busy
<1>7. SweptAlone'
  <2> SUFFICES ASSUME NEW n \in DOMAIN due, NEW u, u = tempRows[due[n]].target, u \notin tempDisturbed'
               PROVE  tempPromise[u] <= now /\ \A o \in Operator : Busy(o) => tempAt[o].target # u
    BY <1>1, <1>4 DEF SweptAlone, Busy
  <2>1. u \in Target BY <1>3, RowsAreTimers DEF TempInv
  <2>2. tempPromise[u] = tempRows[due[n]].until BY <1>1, <1>3 DEF TempInv, OpenTimersPromised
  <2>3. ~Working(u) BY <1>1, <2>1
  <2>4. QED BY <1>3, <2>2, <2>3 DEF Working, Busy
<1>8. QED BY <1>5, <1>6, <1>7 DEF TempInv

LEMMA RestKeeps ==
  ASSUME TempInv,
         \/ \E o \in Operator : PutRole(o) \/ Supersede(o) \/ TakeOff(o) \/ BotStops(o)
         \/ TakeExpired \/ CloseExpired \/ SweepStops
         \/ UNCHANGED tempVars /\ (Tick \/ UNCHANGED surroundings)
  PROVE  TempInv'
<1> USE DEF Works, Fails, Disturb, surroundings, tempVars
<1>1. ASSUME NEW o \in Operator, PutRole(o) \/ TakeOff(o) \/ BotStops(o) PROVE TempInv'
  <2>1. tempAt[o] \in Command BY <1>1 DEF PutRole, TakeOff, BotStops, TempInv, TempRolesTyped
  <2>2. tempAt[o].target \in Target BY <2>1 DEF Command
  <2>3. [tempAt[o] EXCEPT !.step = "supersede"] \in Command BY <2>1 DEF Command
  <2>4. /\ tempAt'[o] \in {NoCommand, [tempAt[o] EXCEPT !.step = "supersede"]}
        /\ \A p \in Operator \ {o} : tempAt'[p] = tempAt[p]
        /\ DOMAIN tempAt' = DOMAIN tempAt /\ tempAt' \in [Operator -> Command \cup {NoCommand}]
    BY <1>1, <2>3 DEF PutRole, TakeOff, BotStops, TempInv, TempRolesTyped
  <2>5. tempHeld' \subseteq Target /\ tempDisturbed \subseteq tempDisturbed' /\ tempDisturbed' \subseteq Target
    BY <1>1, <2>2 DEF PutRole, TakeOff, BotStops, TempInv, TempRolesTyped
  <2>6. UNCHANGED <<tempRows, tempSweep, tempPromise, now>> BY <1>1 DEF PutRole, TakeOff, BotStops
  <2>7. TempRolesTyped' BY <2>4, <2>5, <2>6 DEF TempInv, TempRolesTyped
  <2>8. \A p \in Operator : Busy(p)' => /\ Busy(p) /\ tempAt'[p].target = tempAt[p].target
                                        /\ tempAt'[p].step = "record" => tempAt[p].step = "record"
    BY <1>1, <2>1, <2>4 DEF Busy, PutRole, TakeOff, BotStops, Command
  <2>9. now <= now' BY <2>6 DEF TempInv, TempRolesTyped
  <2>10. QED BY <2>5, <2>6, <2>7, <2>8, <2>9, TempGoesOn
<1>2. ASSUME NEW o \in Operator, Supersede(o) PROVE TempInv'
  <2> DEFINE t == tempAt[o].target
  <2>1. tempAt[o] \in Command BY <1>2 DEF Supersede, TempInv, TempRolesTyped
  <2>2. t \in Target BY <2>1 DEF Command
  <2>3. [tempAt[o] EXCEPT !.step = "record"] \in Command BY <2>1 DEF Command
  <2>4. /\ tempAt'[o] = [tempAt[o] EXCEPT !.step = "record"]
        /\ \A p \in Operator \ {o} : tempAt'[p] = tempAt[p]
        /\ DOMAIN tempAt' = DOMAIN tempAt /\ tempAt' \in [Operator -> Command \cup {NoCommand}]
    BY <1>2, <2>3 DEF Supersede, TempInv, TempRolesTyped
  <2>5. tempDisturbed \subseteq tempDisturbed' /\ tempDisturbed' \subseteq Target
    BY <1>2, <2>2 DEF Supersede, TempInv, TempRolesTyped
  <2>6. UNCHANGED <<tempHeld, tempSweep, tempPromise, now>> BY <1>2 DEF Supersede
  <2>7. /\ tempRows' \in Seq(Timer) /\ DOMAIN tempRows' = DOMAIN tempRows
        /\ \A i \in DOMAIN tempRows :
               /\ tempRows'[i].target = tempRows[i].target /\ tempRows'[i].until = tempRows[i].until
               /\ tempRows'[i].active => tempRows[i].active
        /\ t \in tempDisturbed' \/ \A i \in DOMAIN tempRows : tempRows[i].target = t => ~tempRows'[i].active
    <3>1. CASE CloseTimers(t) BY <3>1, ClosingTimers DEF TempInv
    <3>2. CASE UNCHANGED tempRows /\ t \in tempDisturbed' BY <3>2 DEF TempInv, TempRolesTyped
    <3>3. QED BY <1>2, <3>1, <3>2 DEF Supersede
  <2>8. TempRolesTyped' BY <2>4, <2>5, <2>6, <2>7 DEF TempInv, TempRolesTyped
  <2>9. \A p \in Operator : Busy(p)' =>
            /\ Busy(p) /\ tempAt'[p].target = tempAt[p].target
            /\ tempAt'[p].step = "record" =>
                   \/ tempAt[p].step = "record" \/ tempAt[p].target \in tempDisturbed'
                   \/ \A i \in DOMAIN tempRows : tempRows[i].target = tempAt[p].target => ~tempRows'[i].active
    <3>1. Busy(o) /\ tempAt'[o].target = t BY <1>2, <2>1, <2>4 DEF Busy, Supersede, Command
    <3>2. QED BY <2>4, <2>7, <3>1 DEF Busy
  <2>10. now <= now' BY <2>6 DEF TempInv, TempRolesTyped
  <2>11. QED BY <2>5, <2>6, <2>7, <2>8, <2>9, <2>10, TempGoesOn
<1>3. ASSUME TakeExpired \/ CloseExpired \/ SweepStops PROVE TempInv'
  <2>1. tempSweep.due # <<>> => /\ 1 \in DOMAIN tempSweep.due /\ Head(tempSweep.due) = tempSweep.due[1]
    BY DEF TempInv, TempRolesTyped
  <2>2. TakeExpired \/ CloseExpired => Head(tempSweep.due) \in DOMAIN tempRows
                                       /\ tempRows[Head(tempSweep.due)] \in Timer
    BY <2>1, SweepIsTyped DEF TempInv, TempRolesTyped, TakeExpired, CloseExpired
  <2>3. /\ tempRows' \in Seq(Timer) /\ DOMAIN tempRows' = DOMAIN tempRows
        /\ \A i \in DOMAIN tempRows :
               /\ tempRows'[i].target = tempRows[i].target /\ tempRows'[i].until = tempRows[i].until
               /\ tempRows'[i].active => tempRows[i].active
    <3>1. CASE UNCHANGED tempRows BY <3>1 DEF TempInv, TempRolesTyped
    <3>2. CASE CloseExpired /\ tempRows' = [tempRows EXCEPT ![Head(tempSweep.due)].active = FALSE]
      <4>1. [tempRows[Head(tempSweep.due)] EXCEPT !.active = FALSE] \in Timer BY <2>2, <3>2 DEF Timer
      <4>2. tempRows' \in Seq(Timer) /\ DOMAIN tempRows' = DOMAIN tempRows
        BY <2>2, <3>2, <4>1, ExceptSeq DEF TempInv, TempRolesTyped
      <4>3. QED BY <2>2, <3>2, <4>2 DEF TempInv, TempRolesTyped, Timer
    <3>3. QED BY <1>3, <3>1, <3>2 DEF TakeExpired, CloseExpired, SweepStops
  <2>4. /\ UNCHANGED <<tempAt, tempPromise, now>>
        /\ tempHeld' \subseteq Target /\ tempDisturbed \subseteq tempDisturbed' /\ tempDisturbed' \subseteq Target
    BY <1>3, <2>2 DEF TakeExpired, CloseExpired, SweepStops, TempInv, TempRolesTyped, Timer
  <2>5. /\ tempSweep' \in [due : Seq(Nat), taken : BOOLEAN]
        /\ \A n \in DOMAIN tempSweep'.due : \E m \in DOMAIN tempSweep.due : tempSweep'.due[n] = tempSweep.due[m]
        /\ tempSweep'.taken => tempSweep'.due # <<>>
    <3>1. CASE TakeExpired BY <3>1 DEF TakeExpired, TempInv, TempRolesTyped
    <3>2. CASE CloseExpired
      <4>1. tempSweep.due # <<>> BY <3>2 DEF CloseExpired, TempInv, TempRolesTyped
      <4>2. /\ Tail(tempSweep.due) \in Seq(Nat)
            /\ \A n \in DOMAIN Tail(tempSweep.due) :
                   n + 1 \in DOMAIN tempSweep.due /\ Tail(tempSweep.due)[n] = tempSweep.due[n + 1]
        BY <4>1 DEF TempInv, TempRolesTyped
      <4>3. QED BY <3>2, <4>2 DEF CloseExpired
    <3>3. CASE SweepStops BY <3>3 DEF SweepStops, NoSweep
    <3>4. QED BY <1>3, <3>1, <3>2, <3>3
  <2>6. TempRolesTyped' BY <2>3, <2>4, <2>5 DEF TempInv, TempRolesTyped
  <2>7. now <= now' BY <2>4 DEF TempInv, TempRolesTyped
  <2>8. QED BY <2>3, <2>4, <2>5, <2>6, <2>7, TempGoesOn DEF Busy
<1>4. ASSUME UNCHANGED tempVars, Tick \/ UNCHANGED surroundings PROVE TempInv'
  <2>1. now' \in Nat /\ now <= now' BY <1>4 DEF Tick, TempInv, TempRolesTyped
  <2>2. TempRolesTyped' BY <1>4, <2>1 DEF TempInv, TempRolesTyped
  <2>3. QED BY <1>4, <2>1, <2>2, TempGoesOn DEF Busy
<1>5. QED BY <1>1, <1>2, <1>3, <1>4

LEMMA TempNext == TempInv /\ [TempRolesNext]_<<surroundings, tempVars>> => TempInv'
  BY AddKeeps, RemoveKeeps, RecordKeeps, SweepKeeps, RestKeeps DEF surroundings, TempRolesNext, ProceedTemp, SweepStep

LEMMA SweptInTime == TempInv /\ [TempRolesNext]_<<surroundings, tempVars>> => SweepKeepsTempRoles
<1> SUFFICES ASSUME TempInv, TempRolesNext \/ UNCHANGED tempVars,
                    NEW t \in Target, t \in tempHeld, t \notin tempHeld', tempSweep' # tempSweep
             PROVE  t \in tempDisturbed \/ tempPromise[t] <= now
  BY DEF SweepKeepsTempRoles
<1>1. TakeExpired
  BY Zenon DEF surroundings, TempRolesNext, ProceedTemp, SweepStep, tempVars, AddTempRole, RemoveTempRole, PutRole, Supersede,
         RecordTimer, TakeOff, BotStops, SweepTempRoles, CloseExpired, SweepStops
<1>2. 1 \in DOMAIN tempSweep.due /\ Head(tempSweep.due) = tempSweep.due[1]
  BY <1>1 DEF TakeExpired, TempInv, TempRolesTyped
<1>3. t = tempRows[tempSweep.due[1]].target BY <1>1, <1>2 DEF TakeExpired
<1>4. QED BY <1>2, <1>3 DEF TempInv, SweptAlone

-----------------------------------------------------------------------------

Banning(o) == banAt[o] # NoBanCommand

BanRow == [until : Nat \ {0}, active : BOOLEAN]

CommandIsTyped(c) ==
    /\ DOMAIN c = {"step", "kind", "todo", "until"}
    /\ c.step \in {"guilds", "supersede", "record", "close", "sonoran"} /\ c.kind \in BanKind
    /\ c.until \in Nat
    /\ c.kind = "timed" => c.until > 0
    /\ c.step \in {"supersede", "record"} => c.kind = "timed"

TimedBansTyped ==
    /\ banRows \in Seq(BanRow)
    /\ banAt = [o \in Moderator |-> banAt[o]]
    /\ \A o \in Moderator : Banning(o) => CommandIsTyped(banAt[o])
    /\ DOMAIN banSweep = {"due", "guilds", "todo"}
    /\ banSweep.due \in Seq(Nat)
    /\ \A n \in DOMAIN banSweep.due : banSweep.due[n] \in DOMAIN banRows
    /\ banTimer \in Nat
    /\ banDisturbed \in BOOLEAN
    /\ now \in Nat

\* One command at a time.
OneBanCommand == ~banDisturbed => \A o, p \in Moderator : Banning(o) /\ Banning(p) => o = p

\* A command that is about to record its timer has closed all others.
BansSuperseded ==
    ~banDisturbed => \A o \in Moderator : Banning(o) /\ banAt[o].step = "record"
                                            => \A i \in DOMAIN banRows : ~banRows[i].active

\* An open timer is the last timed ban.
OpenBansLast == ~banDisturbed => \A i \in DOMAIN banRows : banRows[i].active => banTimer = banRows[i].until

\* A sweep that still has a row to do runs without commands, after the last
\* timed ban has run out.
BansSweptAlone ==
    banSweep.due # <<>> /\ ~banDisturbed => banTimer \in 1 .. now /\ \A o \in Moderator : ~Banning(o)

TimersInv == TimedBansTyped /\ OneBanCommand /\ BansSuperseded /\ OpenBansLast /\ BansSweptAlone

LEMMA TimersInit == SurroundingsInit /\ TimedBansInit => TimersInv
<1> SUFFICES ASSUME SurroundingsInit, TimedBansInit PROVE TimersInv
  OBVIOUS
<1> USE DEF SurroundingsInit, TimedBansInit
<1>1. TimedBansTyped
  <2>1. \A o \in Moderator : ~Banning(o) BY DEF Banning
  <2>2. DOMAIN banSweep = {"due", "guilds", "todo"} /\ banSweep.due = <<>> BY DEF NoBanSweep
  <2>3. <<>> \in Seq(Nat) /\ ~ \E n \in DOMAIN <<>> : TRUE OBVIOUS
  <2>4. banSweep.due \in Seq(Nat) /\ \A n \in DOMAIN banSweep.due : banSweep.due[n] \in DOMAIN banRows BY <2>2, <2>3
  <2>5. banAt = [o \in Moderator |-> banAt[o]] OBVIOUS
  <2>6. banRows \in Seq(BanRow) OBVIOUS
  <2>7. banTimer \in Nat /\ banDisturbed \in BOOLEAN /\ now \in Nat OBVIOUS
  <2>8. QED BY ONLY <2>1, <2>2, <2>5, <2>6, <2>4, <2>7 DEF TimedBansTyped
<1>2. OneBanCommand /\ BansSuperseded /\ OpenBansLast /\ BansSweptAlone
  BY DEF OneBanCommand, BansSuperseded, OpenBansLast, BansSweptAlone, NoBanSweep, Banning
<1>3. QED BY <1>1, <1>2 DEF TimersInv

LEMMA RowsAreBans ==
  ASSUME TimedBansTyped
  PROVE  /\ Len(banRows) \in Nat /\ DOMAIN banRows = 1 .. Len(banRows)
         /\ \A i \in DOMAIN banRows : /\ banRows[i] \in BanRow
                                      /\ banRows[i].until \in Nat \ {0} /\ banRows[i].active \in BOOLEAN
<1>1. /\ Len(banRows) \in Nat /\ DOMAIN banRows = 1 .. Len(banRows)
      /\ \A i \in DOMAIN banRows : banRows[i] \in BanRow
  BY DEF TimedBansTyped
<1>2. QED BY <1>1 DEF BanRow

LEMMA ClosingBans ==
  ASSUME TimedBansTyped, CloseOpenBans
  PROVE  /\ banRows' \in Seq(BanRow) /\ DOMAIN banRows' = DOMAIN banRows
         /\ \A i \in DOMAIN banRows : ~banRows'[i].active
<1>1. \A i \in DOMAIN banRows : banRows'[i] \in BanRow /\ ~banRows'[i].active
  BY RowsAreBans DEF CloseOpenBans, BanRow
<1>2. banRows' \in [1 .. Len(banRows) -> BanRow] /\ DOMAIN banRows' = DOMAIN banRows
  BY <1>1, RowsAreBans DEF CloseOpenBans
<1>3. QED BY <1>1, <1>2, RowsAreBans, SeqDef

\* Steps that record nothing, begin no command and begin no sweep.
LEMMA BansGoOn ==
  ASSUME TimersInv, TimedBansTyped', banDisturbed => banDisturbed', now <= now',
         DOMAIN banRows' = DOMAIN banRows,
         \A i \in DOMAIN banRows :
             banRows'[i].active => banRows[i].active /\ banRows'[i].until = banRows[i].until,
         \/ banTimer' = banTimer \/ banDisturbed'
         \/ /\ \E o \in Moderator : Banning(o)
            /\ \A i \in DOMAIN banRows : ~banRows'[i].active,
         \A o \in Moderator : Banning(o)' =>
             /\ Banning(o)
             /\ banAt'[o].step = "record" =>
                    banAt[o].step = "record" \/ banDisturbed' \/ \A i \in DOMAIN banRows : ~banRows'[i].active,
         banSweep'.due # <<>> => banSweep.due # <<>>
  PROVE  TimersInv'
<1>1. OneBanCommand' BY DEF TimersInv, OneBanCommand
<1>2. BansSuperseded' BY DEF TimersInv, BansSuperseded
<1>3. OpenBansLast' BY DEF TimersInv, OpenBansLast
<1>4. BansSweptAlone'
  <2>1. now \in Nat /\ now' \in Nat /\ banTimer \in Nat BY DEF TimersInv, TimedBansTyped
  <2>2. QED BY <2>1 DEF TimersInv, BansSweptAlone
<1>5. QED BY <1>1, <1>2, <1>3, <1>4 DEF TimersInv

LEMMA StartKeeps ==
  ASSUME TimersInv, NEW o \in Moderator, NEW kind \in BanKind, NEW length \in BanLength,
         StartBanCommand(o, kind, length)
  PROVE  TimersInv'
<1> DEFINE command == [step |-> "guilds", kind |-> kind, todo |-> registered,
                       until |-> IF kind = "timed" THEN now + length ELSE 0]
<1>1. /\ banAt' = [banAt EXCEPT ![o] = command]
      /\ banDisturbed' = (banDisturbed \/ CommandsUnderWay \/ SweepUnderWay)
      /\ UNCHANGED <<now, banRows, banSweep, banTimer>>
  BY DEF StartBanCommand, Works, surroundings
<1>2. banDisturbed' \in BOOLEAN /\ (banDisturbed => banDisturbed')
  BY <1>1 DEF TimersInv, TimedBansTyped
<1>3. ~banDisturbed' => ~CommandsUnderWay /\ ~SweepUnderWay BY <1>1
<1>4. CommandIsTyped(command) /\ command.step = "guilds"
  <2>1. length \in Nat \ {0} /\ now \in Nat BY TimedBanConstants DEF TimersInv, TimedBansTyped
  <2>2. now + length \in Nat /\ now + length > 0 BY <2>1
  <2>3. QED BY <2>2 DEF CommandIsTyped
<1> HIDE DEF command
<1>5. /\ banAt'[o] = command /\ \A p \in Moderator \ {o} : banAt'[p] = banAt[p]
      /\ banAt' = [p \in Moderator |-> banAt'[p]]
  BY <1>1, <1>4 DEF TimersInv, TimedBansTyped
<1>6. TimedBansTyped' BY <1>1, <1>2, <1>4, <1>5 DEF TimersInv, TimedBansTyped, Banning
<1>7. OneBanCommand' BY <1>3, <1>5 DEF OneBanCommand, CommandsUnderWay, Banning
<1>8. BansSuperseded' BY <1>1, <1>2, <1>4, <1>5 DEF TimersInv, BansSuperseded, Banning
<1>9. OpenBansLast' BY <1>1, <1>2 DEF TimersInv, OpenBansLast
<1>10. BansSweptAlone' BY <1>1, <1>3 DEF BansSweptAlone, SweepUnderWay, NoBanSweep
<1>11. QED BY <1>6, <1>7, <1>8, <1>9, <1>10 DEF TimersInv

LEMMA RecordBanKeeps ==
  ASSUME TimersInv, NEW o \in Moderator, RecordBan(o)
  PROVE  TimersInv'
<1> DEFINE row == [until |-> banAt[o].until, active |-> TRUE]
<1>1. /\ Banning(o) /\ banAt[o].step = "record" /\ CommandIsTyped(banAt[o])
      /\ banAt' = [banAt EXCEPT ![o] = NoBanCommand]
      /\ UNCHANGED <<now, banSweep>>
  BY DEF RecordBan, Step, Banning, TimersInv, TimedBansTyped, Works, Fails, surroundings
<1>2. row \in BanRow
  <2>1. banAt[o].until \in Nat /\ banAt[o].until > 0 BY <1>1 DEF CommandIsTyped
  <2>2. QED BY <2>1 DEF BanRow
<1>3. /\ ~Banning(o)' /\ \A p \in Moderator \ {o} : banAt'[p] = banAt[p]
      /\ banAt' = [p \in Moderator |-> banAt'[p]]
  BY <1>1 DEF Banning, TimersInv, TimedBansTyped
<1>4. CASE banRows' = Append(banRows, row) /\ banTimer' = banAt[o].until /\ banDisturbed' = banDisturbed
  <2>1. /\ DOMAIN banRows' = DOMAIN banRows \cup {Len(banRows) + 1}
        /\ \A i \in DOMAIN banRows : banRows'[i] = banRows[i]
        /\ banRows'[Len(banRows) + 1] = row
        /\ banRows' \in Seq(BanRow)
    BY <1>2, <1>4 DEF TimersInv, TimedBansTyped
  <2>2. banTimer' = row.until /\ row.until \in Nat BY <1>2, <1>4 DEF BanRow
  <2> HIDE DEF row
  <2>3. TimedBansTyped' BY <1>1, <1>3, <1>4, <2>1, <2>2 DEF TimersInv, TimedBansTyped, Banning
  <2>4. ~banDisturbed' => (\A p \in Moderator : ~Banning(p)') /\ \A i \in DOMAIN banRows : ~banRows[i].active
    BY <1>1, <1>3, <1>4 DEF TimersInv, OneBanCommand, BansSuperseded, Banning
  <2>5. OneBanCommand' /\ BansSuperseded' BY <2>4 DEF OneBanCommand, BansSuperseded
  <2>6. OpenBansLast' BY <2>1, <2>2, <2>4 DEF OpenBansLast
  <2>7. BansSweptAlone' BY <1>1, <1>4 DEF TimersInv, BansSweptAlone
  <2>8. QED BY <2>3, <2>5, <2>6, <2>7 DEF TimersInv
<1>5. CASE banDisturbed' = TRUE /\ UNCHANGED <<banRows, banTimer>>
  <2>1. TimedBansTyped' BY <1>1, <1>3, <1>5 DEF TimersInv, TimedBansTyped, Banning
  <2>2. QED BY <1>5, <2>1 DEF TimersInv, OneBanCommand, BansSuperseded, OpenBansLast, BansSweptAlone
<1>6. QED BY <1>4, <1>5 DEF RecordBan

\* The other steps of a command.
LEMMA ProceedKeeps ==
  ASSUME TimersInv, NEW o \in Moderator,
         NextGuild(o) \/ GuildsDone(o) \/ SupersedeBan(o) \/ CloseByUnban(o) \/ ApplySonoranBan(o) \/ BanStops(o)
  PROVE  TimersInv'
<1> USE DEF NextGuild, GuildsDone, SupersedeBan, CloseByUnban, ApplySonoranBan, BanStops, Step, Goto
<1>1. Banning(o) /\ CommandIsTyped(banAt[o]) /\ UNCHANGED <<banSweep, now>>
  BY DEF TimersInv, TimedBansTyped, Banning, Works, Fails, surroundings
<1>2. /\ banAt' = [p \in Moderator |-> banAt'[p]]
      /\ \A p \in Moderator \ {o} : banAt'[p] = banAt[p]
      /\ Banning(o)' => CommandIsTyped(banAt'[o]) /\ (banAt'[o].step = "record" => SupersedeBan(o))
  <2>1. CASE banAt' = [banAt EXCEPT ![o] = NoBanCommand]
    BY <2>1 DEF Banning, TimersInv, TimedBansTyped
  <2>2. CASE NextGuild(o)
    <3> DEFINE left == banAt[o].todo \ {FirstByName(banAt[o].todo)}
    <3>1. banAt' = [banAt EXCEPT ![o] = [banAt[o] EXCEPT !.todo = left]] BY <2>2
    <3>2. banAt'[o] = [banAt[o] EXCEPT !.todo = left] BY <3>1 DEF TimersInv, TimedBansTyped
    <3>3. CommandIsTyped(banAt'[o]) /\ banAt'[o].step = "guilds" BY <1>1, <2>2, <3>2 DEF CommandIsTyped
    <3>4. QED BY <3>1, <3>3 DEF TimersInv, TimedBansTyped
  <2>3. CASE GuildsDone(o) \/ SupersedeBan(o) \/ CloseByUnban(o)
    <3>1. PICK step \in {"supersede", "record", "close", "sonoran"} :
              /\ banAt' = [banAt EXCEPT ![o] = [banAt[o] EXCEPT !.step = step]]
              /\ step \in {"supersede", "record"} => banAt[o].kind = "timed"
              /\ step = "record" => SupersedeBan(o)
      <4>1. CASE GuildsDone(o) BY <1>1, <4>1 DEF CommandIsTyped, BanKind
      <4>2. CASE SupersedeBan(o) BY <1>1, <4>2 DEF CommandIsTyped
      <4>3. CASE CloseByUnban(o) BY <4>3
      <4>4. QED BY <2>3, <4>1, <4>2, <4>3
    <3>2. banAt'[o] = [banAt[o] EXCEPT !.step = step] BY <3>1 DEF TimersInv, TimedBansTyped
    <3>3. CommandIsTyped(banAt'[o]) /\ banAt'[o].step = step BY <1>1, <3>1, <3>2 DEF CommandIsTyped
    <3>4. QED BY <3>1, <3>3 DEF TimersInv, TimedBansTyped
  <2>4. QED BY <2>1, <2>2, <2>3
<1>3. banDisturbed' \in BOOLEAN /\ (banDisturbed => banDisturbed')
  BY DEF TimersInv, TimedBansTyped
<1>4. /\ banRows' \in Seq(BanRow) /\ DOMAIN banRows' = DOMAIN banRows
      /\ \A i \in DOMAIN banRows : banRows'[i].active => banRows[i].active /\ banRows'[i].until = banRows[i].until
      /\ SupersedeBan(o) => banDisturbed' \/ \A i \in DOMAIN banRows : ~banRows'[i].active
      /\ \/ banTimer' = banTimer \/ banDisturbed'
         \/ banTimer' = 0 /\ \A i \in DOMAIN banRows : ~banRows'[i].active
  <2>1. CASE CloseOpenBans /\ (banTimer' = banTimer \/ banTimer' = 0) BY <2>1, ClosingBans DEF TimersInv
  <2>2. CASE UNCHANGED <<banRows, banTimer>> /\ (SupersedeBan(o) => banDisturbed')
    BY <2>2 DEF TimersInv, TimedBansTyped
  <2>3. QED BY <2>1, <2>2
<1>5. banTimer' \in Nat BY DEF TimersInv, TimedBansTyped
<1>6. TimedBansTyped' BY <1>1, <1>2, <1>3, <1>4, <1>5 DEF TimersInv, TimedBansTyped, Banning
<1>7. now <= now' BY <1>1 DEF TimersInv, TimedBansTyped
<1>8. \A p \in Moderator : Banning(p)' =>
          /\ Banning(p)
          /\ banAt'[p].step = "record" =>
                 banAt[p].step = "record" \/ banDisturbed' \/ \A i \in DOMAIN banRows : ~banRows'[i].active
  BY <1>1, <1>2, <1>4 DEF Banning
<1>9. QED BY <1>1, <1>3, <1>4, <1>6, <1>7, <1>8, BansGoOn

LEMMA SweepBansKeeps ==
  ASSUME TimersInv, SweepBans
  PROVE  TimersInv'
<1>1. PICK due \in Readings(banRows, DueBans, Cardinality(DueBans)) :
          banSweep' = [due |-> due, guilds |-> registered, todo |-> registered]
  BY DEF SweepBans
<1>2. /\ UNCHANGED <<banRows, banAt, banTimer, now>>
      /\ banDisturbed' = (banDisturbed \/ CommandsUnderWay)
  BY DEF SweepBans, Works, surroundings
<1>3. banDisturbed' \in BOOLEAN /\ (banDisturbed => banDisturbed')
      /\ (~banDisturbed' => \A o \in Moderator : ~Banning(o))
  BY <1>2 DEF CommandsUnderWay, Banning, TimersInv, TimedBansTyped
<1>4. due \in Seq(Nat) /\ \A n \in DOMAIN due : due[n] \in DueBans
  <2>1. DueBans \in SUBSET (1 .. Len(banRows)) BY RowsAreBans DEF DueBans, TimersInv
  <2>2. IsFiniteSet(DueBans)
    <3>1. IsFiniteSet(1 .. Len(banRows)) BY RowsAreBans, FS_Interval DEF TimersInv
    <3>2. QED BY <2>1, <3>1, FS_Subset
  <2>3. Cardinality(DueBans) \in Nat BY <2>2, FS_CardinalityType
  <2>4. DueBans \in SUBSET Nat BY <2>1, RowsAreBans DEF TimersInv
  <2>5. PICK n \in 0 .. Cardinality(DueBans) : due \in [1 .. n -> DueBans] BY <1>1 DEF Readings
  <2>6. due \in Seq(DueBans) BY <2>3, <2>5, SeqDef
  <2>7. QED BY <2>4, <2>5, <2>6, SeqMonotonic
<1>5. \A n \in DOMAIN due : /\ due[n] \in DOMAIN banRows
                            /\ banRows[due[n]].active /\ banRows[due[n]].until <= now
  BY <1>4 DEF DueBans, DueBan
<1>6. TimedBansTyped' BY <1>1, <1>2, <1>3, <1>4, <1>5 DEF TimersInv, TimedBansTyped, Banning
<1>7. OneBanCommand' /\ BansSuperseded' /\ OpenBansLast'
  BY <1>2, <1>3 DEF TimersInv, OneBanCommand, BansSuperseded, OpenBansLast, Banning
<1>8. BansSweptAlone'
  <2> SUFFICES ASSUME due # <<>>, ~banDisturbed' PROVE banTimer \in 1 .. now /\ \A o \in Moderator : ~Banning(o)
    BY <1>1, <1>2 DEF BansSweptAlone, Banning
  <2>1. 1 \in DOMAIN due BY <1>4
  <2>2. banTimer = banRows[due[1]].until BY <1>3, <1>5, <2>1 DEF TimersInv, OpenBansLast
  <2>3. banTimer \in Nat \ {0} /\ now \in Nat BY <1>5, <2>1, <2>2, RowsAreBans DEF TimersInv, TimedBansTyped
  <2>4. QED BY <1>3, <1>5, <2>1, <2>2, <2>3
<1>9. QED BY <1>6, <1>7, <1>8 DEF TimersInv

\* The steps of the sweep, a guild that leaves, time that passes.
LEMMA SweepGoesOn ==
  ASSUME TimersInv,
         \/ LiftNext \/ CloseBan \/ BanSweepStops \/ \E g \in BanGuild : DropGuild(g)
         \/ UNCHANGED banVars /\ (Tick \/ UNCHANGED surroundings)
  PROVE  TimersInv'
<1> USE DEF LiftNext, CloseBan, BanSweepStops, DropGuild, banVars, surroundings
<1>1. UNCHANGED <<banAt, banTimer>> OBVIOUS
<1>2. now' \in Nat /\ now <= now' BY DEF TimersInv, TimedBansTyped, Works, Fails, Tick
<1>3. banDisturbed' \in BOOLEAN /\ (banDisturbed => banDisturbed') BY DEF TimersInv, TimedBansTyped
<1>4. /\ banRows' \in Seq(BanRow) /\ DOMAIN banRows' = DOMAIN banRows
      /\ \A i \in DOMAIN banRows : banRows'[i].active => banRows[i].active /\ banRows'[i].until = banRows[i].until
  <2>1. CASE UNCHANGED banRows BY <2>1 DEF TimersInv, TimedBansTyped
  <2>2. CASE CloseBan /\ banRows' = [banRows EXCEPT ![Head(banSweep.due)].active = FALSE]
    <3>1. Head(banSweep.due) \in DOMAIN banRows BY <2>2 DEF TimersInv, TimedBansTyped
    <3>2. [banRows[Head(banSweep.due)] EXCEPT !.active = FALSE] \in BanRow
      BY <3>1, RowsAreBans DEF TimersInv, BanRow
    <3>3. banRows' = [banRows EXCEPT ![Head(banSweep.due)] = [banRows[Head(banSweep.due)] EXCEPT !.active = FALSE]]
      BY <2>2
    <3>4. banRows' \in Seq(BanRow) /\ DOMAIN banRows' = DOMAIN banRows
      BY <3>1, <3>2, <3>3, RowsAreBans, ExceptSeq DEF TimersInv, TimedBansTyped
    <3>5. QED BY <3>1, <3>3, <3>4, RowsAreBans DEF TimersInv, BanRow
  <2>3. QED BY <2>1, <2>2
<1>5. /\ DOMAIN banSweep' = {"due", "guilds", "todo"} /\ banSweep'.due \in Seq(Nat)
      /\ \A n \in DOMAIN banSweep'.due : banSweep'.due[n] \in DOMAIN banRows
      /\ banSweep'.due # <<>> => banSweep.due # <<>>
  <2> DEFINE guilds == banSweep.guilds
  <2> DEFINE left == banSweep.todo \ {FirstByName(banSweep.todo)}
  <2>1. CASE banSweep' = banSweep \/ banSweep' = [banSweep EXCEPT !.todo = left]
    BY <2>1 DEF TimersInv, TimedBansTyped
  <2>2. CASE banSweep' = NoBanSweep BY <2>2 DEF NoBanSweep
  <2>3. CASE /\ banSweep' = [banSweep EXCEPT !.due = Tail(banSweep.due), !.todo = guilds]
             /\ banSweep.due # <<>>
    <3>1. /\ Tail(banSweep.due) \in Seq(Nat)
          /\ \A n \in DOMAIN Tail(banSweep.due) :
                 n + 1 \in DOMAIN banSweep.due /\ Tail(banSweep.due)[n] = banSweep.due[n + 1]
      BY <2>3 DEF TimersInv, TimedBansTyped
    <3>2. QED BY <2>3, <3>1 DEF TimersInv, TimedBansTyped
  <2>4. QED BY <2>1, <2>2, <2>3
<1>6. TimedBansTyped' BY <1>1, <1>2, <1>3, <1>4, <1>5 DEF TimersInv, TimedBansTyped, Banning
<1>7. QED BY <1>1, <1>2, <1>3, <1>4, <1>5, <1>6, BansGoOn DEF Banning

\* A timer there has been is that of the last command or of one before a
\* permanent ban; an unban that has come to Sonoran has closed it.
TimersKnown ==
    ~banDisturbed =>
        /\ banTimer # 0 => banLast \in {"timed", "permanent"}
        /\ \A o \in Moderator : Banning(o) /\ banAt[o].kind = "unban" /\ banAt[o].step = "sonoran" => banTimer = 0

BanInv == TimersInv /\ TimersKnown

LEMMA BanInit == SurroundingsInit /\ TimedBansInit => BanInv
<1>1. TimedBansInit => TimersKnown BY DEF TimedBansInit, TimersKnown, Banning
<1>2. QED BY <1>1, TimersInit DEF BanInv

LEMMA TimersStayKnown ==
  ASSUME TimersInv, TimersKnown, TimedBansNext \/ UNCHANGED <<surroundings, banVars>>
  PROVE  TimersKnown'
<1> USE DEF TimersKnown
<1>1. ASSUME banDisturbed => banDisturbed', UNCHANGED <<banTimer, banLast>>,
             \A o \in Moderator : Banning(o)' /\ banAt'[o].step = "sonoran" /\ banAt'[o].kind = "unban"
                 => Banning(o) /\ banAt[o].step = "sonoran" /\ banAt[o].kind = "unban"
      PROVE  TimersKnown'
  BY <1>1
<1>2. banDisturbed \in BOOLEAN /\ banAt = [o \in Moderator |-> banAt[o]] BY DEF TimersInv, TimedBansTyped
<1>3. ASSUME NEW o \in Moderator, NEW c, banAt' = [banAt EXCEPT ![o] = c]
      PROVE  banAt'[o] = c /\ \A p \in Moderator \ {o} : banAt'[p] = banAt[p]
  BY <1>2, <1>3
<1>4. ASSUME NEW o \in Moderator, NEW kind \in BanKind, NEW length \in BanLength, StartBanCommand(o, kind, length)
      PROVE  TimersKnown'
  <2> DEFINE command == [step |-> "guilds", kind |-> kind, todo |-> registered,
                         until |-> IF kind = "timed" THEN now + length ELSE 0]
  <2>1. banAt' = [banAt EXCEPT ![o] = command] /\ UNCHANGED <<banTimer, banLast>> /\ (banDisturbed => banDisturbed')
    BY <1>4 DEF StartBanCommand
  <2>2. command.step = "guilds" OBVIOUS
  <2> HIDE DEF command
  <2>3. QED BY <1>1, <1>3, <2>1, <2>2 DEF Banning
<1>5. ASSUME NEW o \in Moderator, NextGuild(o) PROVE TimersKnown'
  <2> DEFINE c == [banAt[o] EXCEPT !.todo = @ \ {FirstByName(banAt[o].todo)}]
  <2>1. /\ Banning(o) /\ banAt[o].step = "guilds" /\ CommandIsTyped(banAt[o])
        /\ banAt' = [banAt EXCEPT ![o] = c] /\ UNCHANGED <<banTimer, banLast>>
        /\ banDisturbed => banDisturbed'
    BY <1>5 DEF NextGuild, Step, Banning, TimersInv, TimedBansTyped
  <2>2. c.step = "guilds" BY <2>1 DEF CommandIsTyped
  <2> HIDE DEF c
  <2>3. QED BY <1>1, <1>3, <2>1, <2>2 DEF Banning
<1>6. ASSUME NEW o \in Moderator, GuildsDone(o) \/ SupersedeBan(o) \/ CloseByUnban(o) PROVE TimersKnown'
  <2>1. Banning(o) /\ CommandIsTyped(banAt[o])
    BY <1>6 DEF GuildsDone, SupersedeBan, CloseByUnban, Step, Banning, TimersInv, TimedBansTyped
  <2>2. PICK step \in {"supersede", "record", "close", "sonoran"} :
            /\ banAt' = [banAt EXCEPT ![o] = [banAt[o] EXCEPT !.step = step]]
            /\ step = "sonoran" => banAt[o].kind = "permanent" \/ CloseByUnban(o)
    <3>1. CASE GuildsDone(o) BY <2>1, <3>1 DEF GuildsDone, Goto, CommandIsTyped, BanKind
    <3>2. CASE SupersedeBan(o) BY <3>2 DEF SupersedeBan, Goto
    <3>3. CASE CloseByUnban(o) BY <3>3 DEF CloseByUnban, Goto
    <3>4. QED BY <1>6, <3>1, <3>2, <3>3
  <2> DEFINE c == [banAt[o] EXCEPT !.step = step]
  <2>3. c.step = step /\ c.kind = banAt[o].kind BY <2>1 DEF CommandIsTyped
  <2>4. banAt'[o] = c /\ \A p \in Moderator \ {o} : banAt'[p] = banAt[p] BY <1>3, <2>2
  <2> HIDE DEF c
  <2>5. banLast' = banLast /\ (banDisturbed => banDisturbed')
    BY <1>6 DEF GuildsDone, SupersedeBan, CloseByUnban
  <2>6. CASE CloseByUnban(o) BY <2>5, <2>6 DEF CloseByUnban
  <2>7. CASE ~CloseByUnban(o)
    <3>1. banTimer' = banTimer BY <1>6, <2>7 DEF GuildsDone, SupersedeBan
    <3>2. QED BY <1>1, <2>2, <2>3, <2>4, <2>5, <2>7, <3>1 DEF Banning
  <2>8. QED BY <2>6, <2>7
<1>7. ASSUME NEW o \in Moderator, RecordBan(o) \/ ApplySonoranBan(o) \/ BanStops(o) PROVE TimersKnown'
  <2>1. /\ Banning(o) /\ CommandIsTyped(banAt[o]) /\ banAt' = [banAt EXCEPT ![o] = NoBanCommand]
        /\ banDisturbed => banDisturbed'
    BY <1>7 DEF RecordBan, ApplySonoranBan, BanStops, Step, Banning, TimersInv, TimedBansTyped
  <2>2. ~Banning(o)' /\ \A p \in Moderator \ {o} : banAt'[p] = banAt[p] BY <1>3, <2>1 DEF Banning
  <2>3. ~banDisturbed => \A p \in Moderator \ {o} : ~Banning(p)
    BY <2>1 DEF TimersInv, OneBanCommand
  <2>4. ~banDisturbed' => \A p \in Moderator : ~Banning(p)' BY <2>1, <2>2, <2>3 DEF Banning
  <2>5. CASE RecordBan(o) BY <2>4, <2>5 DEF RecordBan
  <2>6. CASE ApplySonoranBan(o)
    <3>1. /\ banAt[o].step = "sonoran" /\ banLast' = banAt[o].kind /\ banTimer' = banTimer
          /\ banAt[o].kind \in BanKind /\ banDisturbed' = banDisturbed
      BY <2>1, <2>6 DEF ApplySonoranBan, Step, CommandIsTyped
    <3>2. QED BY <2>1, <2>4, <3>1 DEF BanKind
  <2>7. CASE BanStops(o) BY <2>7 DEF BanStops
  <2>8. QED BY <1>7, <2>5, <2>6, <2>7
<1>8. ASSUME \/ SweepBans \/ LiftNext \/ CloseBan \/ BanSweepStops \/ UNCHANGED banVars
             \/ \E g \in BanGuild : DropGuild(g)
      PROVE  TimersKnown'
  <2>1. UNCHANGED <<banAt, banTimer, banLast>> /\ (banDisturbed => banDisturbed')
    BY <1>2, <1>8 DEF SweepBans, LiftNext, CloseBan, BanSweepStops, banVars, DropGuild
  <2>2. QED BY <1>1, <2>1 DEF Banning
<1>9. QED BY <1>4, <1>5, <1>6, <1>7, <1>8 DEF TimedBansNext, ProceedBan, BanSweepStep, banVars

LEMMA BanNext == BanInv /\ [TimedBansNext]_<<surroundings, banVars>> => BanInv'
<1>1. TimersInv /\ [TimedBansNext]_<<surroundings, banVars>> => TimersInv'
  BY StartKeeps, RecordBanKeeps, ProceedKeeps, SweepBansKeeps, SweepGoesOn
  DEF surroundings, TimedBansNext, ProceedBan, BanSweepStep
<1>2. QED BY <1>1, TimersStayKnown DEF BanInv

LEMMA LiftedInTime == BanInv /\ [TimedBansNext]_<<surroundings, banVars>> => SweepKeepsBans
<1> SUFFICES ASSUME BanInv, TimedBansNext \/ UNCHANGED banVars, banSweep' # banSweep, bannedIn' # bannedIn
             PROVE  banDisturbed \/ TimedBanOver \/ PermanentBanOnTimer
  BY DEF SweepKeepsBans
<1>1. LiftNext
  BY DEF surroundings, TimedBansNext, ProceedBan, BanSweepStep, banVars, StartBanCommand, NextGuild, GuildsDone, SupersedeBan,
         RecordBan, CloseByUnban, ApplySonoranBan, BanStops, DropGuild, SweepBans, CloseBan, BanSweepStops
<1>2. banDisturbed \/ banTimer \in 1 .. now BY <1>1 DEF LiftNext, BanInv, TimersInv, BansSweptAlone
<1>3. banDisturbed \/ banTimer = 0 \/ banLast \in {"timed", "permanent"} BY DEF BanInv, TimersKnown
<1>4. banDisturbed \/ banTimer # 0
  <2>1. banTimer \in Nat /\ now \in Nat BY DEF BanInv, TimersInv, TimedBansTyped
  <2>2. QED BY <1>2, <2>1
<1>5. QED BY <1>2, <1>3, <1>4 DEF TimedBanOver, PermanentBanOnTimer

-----------------------------------------------------------------------------

Planner == Synchronizer \cup {Sweeper}
HasPlan(w) == syncPlan[w] \in {"add", "remove", "nothing"}

\* Applying the plan leaves the member as the grants that are in force want it.
PlanIsRight(w) ==
    /\ syncPlan[w] = "add" => InForce(now)
    /\ syncPlan[w] = "remove" => ~InForce(now)
    /\ syncPlan[w] = "nothing" => (grantHeld <=> InForce(now))

GrantsTyped ==
    /\ grantHeld \in BOOLEAN /\ grantDriven \in BOOLEAN /\ grantsUnsure \in BOOLEAN
    /\ grantJobs \in Nat
    /\ syncPlan \in [Planner -> {"idle", "begun", "add", "remove", "nothing"}]

OnePlan == ~grantsUnsure => \A v, w \in Planner : HasPlan(v) /\ HasPlan(w) => v = w

\* With nothing queued, what is about to be applied is right, or what has been is.
PlansAreRight ==
    ~grantsUnsure /\ grantDriven /\ grantJobs = 0 =>
        /\ \A w \in Planner : HasPlan(w) => PlanIsRight(w)
        /\ (\A w \in Planner : ~HasPlan(w)) => (grantHeld <=> InForce(now))

GrantInv == GrantsTyped /\ OnePlan /\ PlansAreRight

LEMMA GrantInit == GrantsInit => GrantInv
<1> SUFFICES ASSUME GrantsInit PROVE GrantInv
  OBVIOUS
<1>1. GrantsTyped BY DEF GrantsInit, GrantsTyped, Planner
<1>2. \A w \in Planner : ~HasPlan(w) BY DEF GrantsInit, HasPlan, Planner
<1>3. ~InForce(now) /\ grantHeld = FALSE BY DEF GrantsInit, InForce
<1>4. QED BY <1>1, <1>2, <1>3 DEF GrantInv, OnePlan, PlansAreRight

LEMMA QueueIsTyped == GrantsTyped /\ QueueSync => grantJobs' \in Nat /\ grantsUnsure' \in BOOLEAN
<1> SUFFICES ASSUME GrantsTyped, QueueSync PROVE grantJobs' \in Nat /\ grantsUnsure' \in BOOLEAN
  OBVIOUS
<1>1. grantJobs \in Nat /\ grantsUnsure \in BOOLEAN BY DEF GrantsTyped
<1>2. \/ grantJobs' = grantJobs + 1 /\ grantsUnsure' = grantsUnsure
      \/ grantJobs' = grantJobs /\ grantsUnsure' = TRUE
  BY DEF QueueSync
<1>3. grantJobs' \in Nat BY <1>1, <1>2
<1>4. grantsUnsure' \in BOOLEAN BY <1>1, <1>2
<1>5. QED BY <1>3, <1>4

\* What is in force changes only by steps that queue a synchronization or say
\* that the next one is needed.
LEMMA Queued ==
  ASSUME GrantInv, QueueSync, UNCHANGED <<grantHeld, grantDriven>>,
         \A w \in Planner : HasPlan(w)' <=> HasPlan(w), GrantsTyped'
  PROVE  GrantInv'
<1>1. grantsUnsure' \/ (grantJobs' # 0 /\ grantsUnsure' = grantsUnsure) BY DEF QueueSync, GrantInv, GrantsTyped
<1>2. OnePlan' BY <1>1 DEF GrantInv, OnePlan
<1>3. PlansAreRight' BY <1>1 DEF PlansAreRight
<1>4. QED BY <1>2, <1>3 DEF GrantInv

LEMMA GrantNext == GrantInv /\ [GrantsNext]_<<surroundings, grantVars>> => GrantInv'
<1> SUFFICES ASSUME GrantInv, GrantsNext \/ UNCHANGED <<surroundings, grantVars>> PROVE GrantInv'
  OBVIOUS
<1> USE DEF GrantInv
<1>1. ASSUME UNCHANGED <<grantHeld, grantDriven, grants, grantJobs, syncPlan, grantsUnsure, now>> PROVE GrantInv'
  BY <1>1 DEF GrantsTyped, OnePlan, PlansAreRight, HasPlan, PlanIsRight, InForce
<1>2. ASSUME NEW i \in Issuer, NEW length \in GrantLength, CheckGrant(i, length) PROVE GrantInv'
  BY <1>1, <1>2 DEF CheckGrant, Works, surroundings
<1>3. ASSUME QueueSync, UNCHANGED <<grantHeld, grantDriven, syncPlan>> PROVE GrantInv'
  <2>1. GrantsTyped' BY <1>3, QueueIsTyped DEF GrantsTyped
  <2>2. QED BY <1>3, <2>1, Queued DEF HasPlan
<1>4. ASSUME NEW driven \in BOOLEAN, UpsertManagedRole(driven) PROVE GrantInv'
  BY <1>4 DEF UpsertManagedRole, GrantsTyped, OnePlan, PlansAreRight
<1>5. ASSUME NEW w \in Planner, PlanGrant(w) PROVE GrantInv'
  <2>1. PlanFor \in {"add", "remove", "nothing"} /\ (grantDriven =>
            /\ PlanFor = "add" => InForce(now)
            /\ PlanFor = "remove" => ~InForce(now)
            /\ PlanFor = "nothing" => (grantHeld <=> InForce(now)))
    <3> DEFINE in == InForce(now)
    <3>1. in \in BOOLEAN BY DEF InForce
    <3>2. PlanFor = CASE ~grantDriven \/ (grantHeld <=> in) -> "nothing"
                      [] grantDriven /\ in /\ ~grantHeld -> "add"
                      [] grantDriven /\ ~in /\ grantHeld -> "remove"
      BY DEF PlanFor
    <3>3. grantHeld \in BOOLEAN /\ grantDriven \in BOOLEAN BY DEF GrantsTyped
    <3> HIDE DEF in
    <3>4. ~grantDriven \/ (grantHeld <=> in) => PlanFor = "nothing" BY <3>1, <3>2, <3>3
    <3>5. grantDriven /\ in /\ ~grantHeld => PlanFor = "add" BY <3>1, <3>2, <3>3
    <3>6. grantDriven /\ ~in /\ grantHeld => PlanFor = "remove" BY <3>1, <3>2, <3>3
    <3>7. /\ PlanFor \in {"add", "remove", "nothing"}
          /\ PlanFor = "add" => ~grantDriven \/ in
          /\ PlanFor = "remove" => ~grantDriven \/ ~in
          /\ PlanFor = "nothing" => ~grantDriven \/ (grantHeld <=> in)
      BY <3>1, <3>3, <3>4, <3>5, <3>6
    <3>8. QED BY <3>3, <3>7 DEF in
  <2>2. /\ syncPlan'[w] = PlanFor /\ \A v \in Planner \ {w} : syncPlan'[v] = syncPlan[v]
        /\ syncPlan' \in [Planner -> {"idle", "begun", "add", "remove", "nothing"}]
    BY <1>5, <2>1 DEF PlanGrant, GrantsTyped
  <2>3. grantsUnsure' = \E v \in Planner \ {w} : HasPlan(v)
    BY <1>5 DEF PlanGrant, GrantsTyped, HasPlan
  <2>4. UNCHANGED <<grantHeld, grantDriven, grants, now>> BY <1>5 DEF PlanGrant, Works, surroundings
  <2>5. grantJobs' \in Nat BY <1>5 DEF PlanGrant, GrantsTyped
  <2>6. GrantsTyped' BY <2>2, <2>3, <2>4, <2>5 DEF GrantsTyped
  <2>7. OnePlan' BY <2>2, <2>3 DEF OnePlan, HasPlan
  <2>8. PlansAreRight' BY <2>1, <2>2, <2>3, <2>4 DEF PlansAreRight, HasPlan, PlanIsRight, InForce
  <2>9. QED BY <2>6, <2>7, <2>8
<1>6. ASSUME NEW w \in Planner, ApplyGrant(w) PROVE GrantInv'
  <2>1. /\ HasPlan(w) /\ syncPlan'[w] = "idle" /\ \A v \in Planner \ {w} : syncPlan'[v] = syncPlan[v]
        /\ syncPlan' \in [Planner -> {"idle", "begun", "add", "remove", "nothing"}]
        /\ UNCHANGED <<grantDriven, grants, grantJobs, now>>
    BY <1>6 DEF ApplyGrant, GrantsTyped, HasPlan, Works, Fails, surroundings
  <2>2. \/ grantsUnsure' = TRUE /\ grantHeld' = grantHeld
        \/ /\ grantsUnsure' = grantsUnsure
           /\ syncPlan[w] = "add" => grantHeld' = TRUE
           /\ syncPlan[w] = "remove" => grantHeld' = FALSE
           /\ syncPlan[w] = "nothing" => grantHeld' = grantHeld
    BY <1>6 DEF ApplyGrant
  <2>3. GrantsTyped' BY <2>1, <2>2 DEF GrantsTyped, HasPlan
  <2>4. OnePlan' BY <2>1, <2>2 DEF OnePlan, HasPlan
  <2>5. PlansAreRight'
    <3> SUFFICES ASSUME ~grantsUnsure', grantDriven', grantJobs' = 0
                 PROVE  (\A v \in Planner : ~HasPlan(v)') /\ (grantHeld' <=> InForce(now)')
      BY DEF PlansAreRight
    <3>1. \A v \in Planner : ~HasPlan(v)' BY <2>1, <2>2 DEF OnePlan, HasPlan
    <3>2. PlanIsRight(w) BY <2>1, <2>2 DEF PlansAreRight
    <3>3. InForce(now)' <=> InForce(now) BY <2>1 DEF InForce
    <3>4. QED BY <2>1, <2>2, <3>1, <3>2, <3>3 DEF HasPlan, PlanIsRight
  <2>6. QED BY <2>3, <2>4, <2>5
<1>7. ASSUME ExpireGrants PROVE GrantInv'
  <2>1. /\ syncPlan' \in [Planner -> {"idle", "begun", "add", "remove", "nothing"}]
        /\ \A v \in Planner : HasPlan(v)' <=> HasPlan(v)
        /\ \A v \in Planner : HasPlan(v) => syncPlan'[v] = syncPlan[v]
        /\ UNCHANGED <<grantHeld, grantDriven, grants, now>>
    BY <1>7 DEF ExpireGrants, Idle, GrantsTyped, HasPlan, Planner, QueueSync, Works, Fails, surroundings
  <2>2. CASE QueueSync
    <3>1. GrantsTyped' BY <2>1, <2>2, QueueIsTyped DEF GrantsTyped
    <3>2. QED BY <2>1, <2>2, <3>1, Queued
  <2>3. CASE UNCHANGED <<grantJobs, grantsUnsure>>
    BY <2>1, <2>3 DEF GrantsTyped, OnePlan, PlansAreRight, PlanIsRight, InForce
  <2>4. QED BY <1>7, <2>2, <2>3 DEF ExpireGrants
<1>8. ASSUME GrantsTick PROVE GrantInv'
  <2>1. InForce(now)' <=> InForce(now + 1) BY <1>8 DEF GrantsTick, Tick, InForce
  <2>2. /\ grantsUnsure' \in BOOLEAN /\ (~grantsUnsure' => ~grantsUnsure /\ (InForce(now)' <=> InForce(now)))
    BY <1>8, <2>1 DEF GrantsTick, GrantsTyped
  <2>3. UNCHANGED <<grantHeld, grantDriven, grantJobs, syncPlan>> BY <1>8 DEF GrantsTick
  <2>4. QED BY <2>2, <2>3 DEF GrantsTyped, OnePlan, PlansAreRight, HasPlan, PlanIsRight
<1>9. CASE GrantsNext
  BY <1>9, <1>2, <1>3, <1>4, <1>5, <1>6, <1>7, <1>8
     DEF GrantsNext, IssueGrant, RevokeGrant, Synchronize, Reconciliation, Planner
<1>10. QED BY <1>1, <1>9 DEF grantVars, surroundings

LEMMA GrantsSettle == GrantInv => SettledGrantsAreRight
  BY DEF GrantInv, GrantsTyped, PlansAreRight, HasPlan, SettledGrantsAreRight, Idle

-----------------------------------------------------------------------------
\* Transfers.

Running(w) == transferAt[w] # NoRun

\* A department's roles are its own.
SidesAreOwn ==
    \A d \in Department :
        transferConfig[d].strip \cup transferConfig[d].grant \cup transferConfig[d].legacy \subseteq Roles(d)

\* A job moves from one department to another, and has attempts left when it waits.
JobsAreMoves ==
    \A j \in DOMAIN transfers :
        LET job == transfers[j]
        IN  /\ job.from # job.to
            /\ job.roles["strip"] \subseteq Roles(job.from) /\ job.roles["grant"] \subseteq Roles(job.to)
            /\ job.state = "waiting" => job.attempts < TransferAttempts
            /\ job.state = "active" => job.attempts > 0

\* Every running worker has an active job to itself, of whose roles it has what
\* is still configured.
RunsAreActive ==
    /\ \A w \in TransferWorker : Running(w) =>
           /\ transferAt[w].job \in DOMAIN transfers /\ JobOf(w).state = "active"
           /\ \A side \in Side : /\ transferAt[w].asked[side] \subseteq JobOf(w).roles[side]
                                 /\ transferAt[w].todo[side] \subseteq transferAt[w].asked[side]
           /\ ~At(w, "apply") => transferAt[w].todo = transferAt[w].asked /\ ~transferAt[w].missed
    /\ \A v, w \in TransferWorker :
           Running(v) /\ Running(w) /\ transferAt[v].job = transferAt[w].job => v = w

\* What a worker knows of the roles nobody else has changed.
MovesAreMade ==
    \A w \in TransferWorker, r \in DeptRole :
        LET run == transferAt[w]
        IN  (At(w, "apply") /\ r \notin transferTouched[w]) =>
                /\ r \in run.asked["strip"] \ run.todo["strip"] /\ ~run.missed => r \notin transferHeld
                /\ r \in run.asked["grant"] \ run.todo["grant"] /\ ~run.missed => r \in transferHeld
                /\ r \in run.todo["strip"] \cup run.todo["grant"] /\ DepartmentOf[r] \in run.present =>
                       (r \in run.seen <=> r \in transferHeld)

TransferInv ==
    TransfersTypeOK /\ SidesAreOwn /\ JobsAreMoves /\ RunsAreActive /\ MovesAreMade

\* The two sides of a move.
LEMMA TwoSides ==
  ASSUME NEW strip \in SUBSET DeptRole, NEW grant \in SUBSET DeptRole,
         NEW sets, sets = [strip |-> strip, grant |-> grant]
  PROVE  sets \in RoleSets /\ sets["strip"] = strip /\ sets["grant"] = grant
  BY DEF RoleSets, Side

LEMMA SetsAre ==
  ASSUME NEW sets \in RoleSets
  PROVE  /\ sets["strip"] \in SUBSET DeptRole /\ sets["grant"] \in SUBSET DeptRole
         /\ sets.strip = sets["strip"] /\ sets.grant = sets["grant"]
         /\ DOMAIN sets = Side
  BY DEF RoleSets, Side

LEMMA WorkersAre ==
  ASSUME TransfersTypeOK, NEW w \in TransferWorker
  PROVE  /\ Running(w) <=> transferAt[w].step # "none"
         /\ ~Running(w) => transferAt[w] = NoRun
         /\ Running(w) => /\ transferAt[w] \in Run
                          /\ transferAt[w].step \in {"config", "read", "apply"}
                          /\ transferAt[w].asked \in RoleSets /\ transferAt[w].todo \in RoleSets
                          /\ transferAt[w].missed \in BOOLEAN /\ transferAt[w].moved \in BOOLEAN
                          /\ transferAt[w].job \in Nat
<1>1. transferAt[w] \in Run \cup {NoRun} BY DEF TransfersTypeOK
<1>2. CASE transferAt[w] \in Run BY <1>2 DEF Run, NoRun, Running
<1>3. CASE transferAt[w] = NoRun BY <1>3 DEF NoRun, Running
<1>4. QED BY <1>1, <1>2, <1>3

LEMMA JobsAre ==
  ASSUME TransfersTypeOK
  PROVE  /\ DOMAIN transfers = 1 .. Len(transfers) /\ Len(transfers) \in Nat
         /\ \A j \in DOMAIN transfers :
                /\ transfers[j] \in TransferJob /\ transfers[j].roles \in RoleSets
                /\ transfers[j].from \in Department /\ transfers[j].to \in Department
                /\ transfers[j].attempts \in 0 .. TransferAttempts
<1> DEFINE J == TransferJob
<1>1. transfers \in Seq(J) BY DEF TransfersTypeOK
<1> HIDE DEF J
<1>2. /\ DOMAIN transfers = 1 .. Len(transfers) /\ Len(transfers) \in Nat
      /\ \A j \in DOMAIN transfers : transfers[j] \in J
  BY <1>1
<1>3. QED BY <1>2 DEF J, TransferJob

LEMMA JobChanged ==
  ASSUME TransfersTypeOK, NEW j \in DOMAIN transfers, NEW job \in TransferJob,
         transfers' = [transfers EXCEPT ![j] = job]
  PROVE  /\ transfers' \in Seq(TransferJob) /\ Len(transfers') = Len(transfers)
         /\ DOMAIN transfers' = DOMAIN transfers /\ transfers'[j] = job
         /\ \A i \in DOMAIN transfers \ {j} : transfers'[i] = transfers[i]
<1> DEFINE J == TransferJob
<1>1. transfers \in Seq(J) BY DEF TransfersTypeOK
<1> HIDE DEF J
<1>2. job \in J BY DEF J
<1>3. /\ transfers' \in Seq(J) /\ Len(transfers') = Len(transfers)
      /\ DOMAIN transfers' = DOMAIN transfers /\ transfers'[j] = job
      /\ \A i \in DOMAIN transfers \ {j} : transfers'[i] = transfers[i]
  BY <1>1, <1>2
<1>4. QED BY <1>3 DEF J

LEMMA JobAdded ==
  ASSUME TransfersTypeOK, NEW job \in TransferJob, transfers' = Append(transfers, job)
  PROVE  /\ transfers' \in Seq(TransferJob) /\ Len(transfers') = Len(transfers) + 1
         /\ DOMAIN transfers \subseteq DOMAIN transfers'
         /\ \A j \in DOMAIN transfers : transfers'[j] = transfers[j]
         /\ \A j \in DOMAIN transfers' \ DOMAIN transfers : transfers'[j] = job
<1> DEFINE J == TransferJob
<1>1. transfers \in Seq(J) BY DEF TransfersTypeOK
<1> HIDE DEF J
<1>2. job \in J BY DEF J
<1>3. /\ transfers' \in Seq(J) /\ Len(transfers') = Len(transfers) + 1
      /\ Len(transfers) \in Nat /\ DOMAIN transfers = 1 .. Len(transfers)
      /\ DOMAIN transfers' = 1 .. Len(transfers) + 1
      /\ \A j \in 1 .. Len(transfers) : transfers'[j] = transfers[j]
      /\ transfers'[Len(transfers) + 1] = job
  BY <1>1, <1>2
<1>4. QED BY <1>3 DEF J

LEMMA RunChanged ==
  ASSUME TransfersTypeOK, NEW w \in TransferWorker, NEW run \in Run \cup {NoRun},
         transferAt' = [transferAt EXCEPT ![w] = run]
  PROVE  /\ transferAt' \in [TransferWorker -> Run \cup {NoRun}] /\ transferAt'[w] = run
         /\ \A v \in TransferWorker \ {w} : transferAt'[v] = transferAt[v]
  BY DEF TransfersTypeOK

LEMMA TransferInit == TransfersInit => TransferInv
<1> SUFFICES ASSUME TransfersInit PROVE TransferInv
  OBVIOUS
<1>1. transfers = <<>> /\ transfers \in Seq(TransferJob) /\ Len(transfers) = 0 /\ DOMAIN transfers = {}
  BY DEF TransfersInit
<1>2. \A w \in TransferWorker : transferAt[w] = NoRun /\ transferAt[w].step = "none"
  BY DEF TransfersInit, NoRun
<1>3. /\ transferConfig \in [Department -> [strip : SUBSET DeptRole, grant : SUBSET DeptRole, legacy : SUBSET DeptRole]]
      /\ SidesAreOwn
  BY DEF TransfersInit, SidesAreOwn, Roles
<1>4. TransfersTypeOK BY <1>1, <1>3, TransferConstants DEF TransfersInit, TransfersTypeOK
<1>5. QED BY <1>1, <1>2, <1>3, <1>4
          DEF TransferInv, JobsAreMoves, RunsAreActive, MovesAreMade, Running, At

\* The end of an execution.
LEMMA RunEnds ==
  ASSUME TransferInv, UNCHANGED <<transferHeld, transferConfig, transferEdits, transferTouched>>,
         NEW w \in TransferWorker, Running(w), NEW job \in TransferJob,
         job.from = JobOf(w).from, job.to = JobOf(w).to, job.roles = JobOf(w).roles,
         job.state # "active", job.state = "waiting" => job.attempts < TransferAttempts,
         transfers' = [transfers EXCEPT ![transferAt[w].job] = job],
         transferAt' = [transferAt EXCEPT ![w] = NoRun]
  PROVE  TransferInv'
<1> DEFINE j == transferAt[w].job
<1>1. TransfersTypeOK /\ SidesAreOwn /\ JobsAreMoves /\ RunsAreActive /\ MovesAreMade BY DEF TransferInv
<1>2. j \in DOMAIN transfers BY <1>1 DEF RunsAreActive
<1>3. /\ transfers' \in Seq(TransferJob) /\ Len(transfers') = Len(transfers)
      /\ DOMAIN transfers' = DOMAIN transfers /\ transfers'[j] = job
      /\ \A i \in DOMAIN transfers \ {j} : transfers'[i] = transfers[i]
  BY <1>1, <1>2, JobChanged
<1>4. /\ transferAt' \in [TransferWorker -> Run \cup {NoRun}] /\ transferAt'[w] = NoRun
      /\ \A v \in TransferWorker \ {w} : transferAt'[v] = transferAt[v]
  BY <1>1, RunChanged
<1>5. \A v \in TransferWorker : Running(v)' => v # w /\ Running(v) /\ transferAt[v].job # j
  BY <1>1, <1>4 DEF Running, RunsAreActive
<1>6. TransfersTypeOK' BY <1>1, <1>3, <1>4 DEF TransfersTypeOK
<1>7. SidesAreOwn' BY <1>1 DEF SidesAreOwn
<1>8. JobsAreMoves' BY <1>1, <1>2, <1>3 DEF JobsAreMoves, JobOf
<1>9. RunsAreActive'
  <2>1. \A v \in TransferWorker : Running(v)' =>
            /\ transferAt'[v] = transferAt[v] /\ transferAt[v].job \in DOMAIN transfers
            /\ transfers'[transferAt[v].job] = transfers[transferAt[v].job]
    BY <1>1, <1>3, <1>4, <1>5 DEF RunsAreActive
  <2>2. QED BY <1>1, <1>3, <1>5, <2>1 DEF RunsAreActive, JobOf, At
<1>10. MovesAreMade'
  <2>1. \A v \in TransferWorker : transferAt'[v].step = "apply" => transferAt'[v] = transferAt[v]
    BY <1>4 DEF NoRun
  <2>2. QED BY <1>1, <2>1 DEF MovesAreMade, At
<1>11. QED BY <1>6, <1>7, <1>8, <1>9, <1>10 DEF TransferInv

\* An execution that throws, that is stopped, and that reports.
LEMMA EndsKeep ==
  ASSUME TransferInv, NEW w \in TransferWorker, Running(w), UNCHANGED <<transferConfig, transferEdits>>,
         ThrowTransfer(w) \/ TransferStalls(w) \/ ReportTransfer(w)
  PROVE  TransferInv'
<1> DEFINE j == transferAt[w].job
           old == transfers[j]
<1>1. TransfersTypeOK /\ SidesAreOwn /\ JobsAreMoves /\ RunsAreActive /\ MovesAreMade BY DEF TransferInv
<1>2. /\ j \in DOMAIN transfers /\ old \in TransferJob /\ old.state = "active"
      /\ old.attempts \in 1 .. TransferAttempts
  <2>1. j \in DOMAIN transfers /\ old.state = "active" BY <1>1 DEF RunsAreActive, JobOf
  <2>2. old \in TransferJob /\ old.attempts \in 0 .. TransferAttempts /\ old.attempts > 0
    BY <1>1, <2>1, JobsAre DEF JobsAreMoves
  <2>3. QED BY <2>1, <2>2, TransferConstants
<1>3. transfers \in Seq(TransferJob) BY <1>1 DEF TransfersTypeOK
<1>4. UNCHANGED <<transferHeld, transferTouched>> /\ transferAt' = [transferAt EXCEPT ![w] = NoRun]
  BY DEF ThrowTransfer, TransferStalls, ReportTransfer
<1> DEFINE Becomes(job) == /\ job \in TransferJob /\ job.from = old.from /\ job.to = old.to /\ job.roles = old.roles
                           /\ job.state # "active" /\ (job.state = "waiting" => job.attempts < TransferAttempts)
                           /\ transfers' = [transfers EXCEPT ![j] = job]
<1>5. CASE ThrowTransfer(w)
  <2> DEFINE state == IF old.attempts < TransferAttempts THEN "waiting" ELSE "thrown"
             job == [old EXCEPT !.state = state]
  <2>1. transfers' = [transfers EXCEPT ![j] = job]
    <3>1. transfers' = [transfers EXCEPT ![j].state = state] BY <1>5 DEF ThrowTransfer
    <3> HIDE DEF state
    <3>2. QED BY <1>2, <1>3, <3>1
  <2>2. state \in {"waiting", "thrown"} /\ (state = "waiting" => old.attempts < TransferAttempts) OBVIOUS
  <2> HIDE DEF state
  <2>3. /\ job \in TransferJob /\ job.from = old.from /\ job.to = old.to /\ job.roles = old.roles
        /\ job.state = state /\ job.attempts = old.attempts
    BY <1>2, <2>2 DEF TransferJob
  <2> HIDE DEF job
  <2>4. Becomes(job) BY <2>1, <2>2, <2>3
  <2>5. QED BY <1>4, <2>4, RunEnds DEF JobOf
<1>6. CASE TransferStalls(w)
  <2>1. PICK state \in {"waiting", "thrown"} :
            transfers' = [transfers EXCEPT ![j].state = state, ![j].attempts = @ - 1]
    BY <1>6 DEF TransferStalls
  <2> DEFINE job == [old EXCEPT !.state = state, !.attempts = @ - 1]
  <2>2. transfers' = [transfers EXCEPT ![j] = job] BY <1>2, <1>3, <2>1
  <2>3. old.attempts - 1 \in 0 .. TransferAttempts /\ old.attempts - 1 < TransferAttempts
    BY <1>2, TransferConstants
  <2>4. /\ job \in TransferJob /\ job.from = old.from /\ job.to = old.to /\ job.roles = old.roles
        /\ job.state = state /\ job.attempts = old.attempts - 1
    BY <1>2, <2>3 DEF TransferJob
  <2> HIDE DEF job
  <2>5. Becomes(job) BY <2>2, <2>3, <2>4
  <2>6. QED BY <1>4, <2>5, RunEnds DEF JobOf
<1>7. CASE ReportTransfer(w)
  <2> DEFINE job == [old EXCEPT !.state = ReportOf(w)]
  <2>1. transfers' = [transfers EXCEPT ![j] = job] BY <1>2, <1>3, <1>7 DEF ReportTransfer
  <2>2. ReportOf(w) \in Report BY DEF ReportOf, Report
  <2>3. /\ job \in TransferJob /\ job.from = old.from /\ job.to = old.to /\ job.roles = old.roles
        /\ job.state = ReportOf(w)
    BY <1>2, <2>2 DEF TransferJob
  <2> HIDE DEF job
  <2>4. Becomes(job) BY <2>1, <2>2, <2>3 DEF Report
  <2>5. QED BY <1>4, <2>4, RunEnds DEF JobOf
<1>8. QED BY <1>5, <1>6, <1>7

\* Who is not in the way of any worker.
LEMMA BesideTheRuns ==
  ASSUME TransferInv,
         \/ \E d \in Department, sides \in SidesOffered :
                sides[1] \cup sides[2] \subseteq Roles(d) /\ SetTransferRoles(d, sides[1], sides[2])
         \/ \E from, to \in Department : RequestTransfer(from, to)
         \/ \E r \in DeptRole : OthersChange(r)
  PROVE  TransferInv'
<1>1. TransfersTypeOK /\ SidesAreOwn /\ JobsAreMoves /\ RunsAreActive /\ MovesAreMade BY DEF TransferInv
<1>2. ASSUME NEW d \in Department, NEW sides \in SidesOffered, sides[1] \cup sides[2] \subseteq Roles(d),
             SetTransferRoles(d, sides[1], sides[2])
      PROVE  TransferInv'
  <2> DEFINE C == [strip : SUBSET DeptRole, grant : SUBSET DeptRole, legacy : SUBSET DeptRole]
             new == [strip |-> sides[1], grant |-> sides[2], legacy |-> {}]
  <2>1. new \in C /\ new.strip = sides[1] /\ new.grant = sides[2] /\ new.legacy = {}
    BY <1>2 DEF Roles
  <2>2. transferConfig \in [Department -> C] BY <1>1 DEF TransfersTypeOK
  <2>3. transferConfig' = [transferConfig EXCEPT ![d] = new] BY <1>2 DEF SetTransferRoles
  <2> HIDE DEF C, new
  <2>4. transferConfig' \in [Department -> C] BY <2>1, <2>2, <2>3
  <2>5. UNCHANGED <<transferHeld, transfers, transferAt, transferEdits, transferTouched>>
    BY <1>2 DEF SetTransferRoles
  <2>6. SidesAreOwn' BY <1>1, <1>2, <2>1, <2>2, <2>3 DEF SidesAreOwn, Roles
  <2>7. TransfersTypeOK' BY <1>1, <2>4, <2>5 DEF TransfersTypeOK, C
  <2>8. QED BY <1>1, <2>5, <2>6, <2>7 DEF TransferInv, JobsAreMoves, RunsAreActive, MovesAreMade, JobOf, At, Running
<1>3. ASSUME NEW from \in Department, NEW to \in Department, RequestTransfer(from, to) PROVE TransferInv'
  <2> DEFINE sets == [strip |-> StripRolesOf(from), grant |-> GrantRolesOf(to)]
             job == [from |-> from, to |-> to, attempts |-> 0, state |-> "waiting", roles |-> sets]
  <2>1. StripRolesOf(from) \subseteq Roles(from) /\ GrantRolesOf(to) \subseteq Roles(to)
    BY <1>1 DEF SidesAreOwn, StripRolesOf, GrantRolesOf
  <2>2. sets \in RoleSets /\ sets["strip"] = StripRolesOf(from) /\ sets["grant"] = GrantRolesOf(to)
    BY <2>1, TwoSides DEF Roles
  <2>3. transfers' = Append(transfers, job) /\ Len(transfers) < MaxTransfers /\ from # to
    BY <1>3 DEF RequestTransfer
  <2> HIDE DEF sets
  <2>4. /\ job \in TransferJob /\ job.from = from /\ job.to = to /\ job.roles = sets
        /\ job.state = "waiting" /\ job.attempts = 0
    BY <2>2, TransferConstants DEF TransferJob
  <2> HIDE DEF job
  <2>5. /\ transfers' \in Seq(TransferJob) /\ Len(transfers') = Len(transfers) + 1
        /\ DOMAIN transfers \subseteq DOMAIN transfers'
        /\ \A j \in DOMAIN transfers : transfers'[j] = transfers[j]
        /\ \A j \in DOMAIN transfers' \ DOMAIN transfers : transfers'[j] = job
    BY <1>1, <2>3, <2>4, JobAdded
  <2>6. UNCHANGED <<transferHeld, transferConfig, transferAt, transferEdits, transferTouched>>
    BY <1>3 DEF RequestTransfer
  <2>7. Len(transfers') <= MaxTransfers BY <1>1, <2>3, <2>5, JobsAre, TransferConstants
  <2>8. TransfersTypeOK' BY <1>1, <2>5, <2>6, <2>7 DEF TransfersTypeOK
  <2>9. JobsAreMoves'
    <3>1. 0 < TransferAttempts BY TransferConstants
    <3>2. \A j \in DOMAIN transfers' : \/ transfers'[j] = job
                                       \/ (j \in DOMAIN transfers /\ transfers'[j] = transfers[j])
      BY <2>5
    <3>3. QED BY <1>1, <2>1, <2>2, <2>3, <2>4, <3>1, <3>2 DEF JobsAreMoves
  <2>10. RunsAreActive' BY <1>1, <2>5, <2>6 DEF RunsAreActive, JobOf, At, Running
  <2>11. QED BY <1>1, <2>6, <2>8, <2>9, <2>10 DEF TransferInv, SidesAreOwn, MovesAreMade, At
<1>4. ASSUME NEW r \in DeptRole, OthersChange(r) PROVE TransferInv'
  <2>1. /\ UNCHANGED <<transferConfig, transfers, transferAt>>
        /\ transferTouched' = [w \in TransferWorker |-> transferTouched[w] \cup {r}]
        /\ transferHeld' = IF r \in transferHeld THEN transferHeld \ {r} ELSE transferHeld \cup {r}
    BY <1>4 DEF OthersChange
  <2>2. transferEdits' \in 0 .. MaxTransferEdits
    BY <1>1, <1>4, TransferConstants DEF OthersChange, TransfersTypeOK
  <2>3. TransfersTypeOK' BY <1>1, <2>1, <2>2 DEF TransfersTypeOK
  <2>4. \A s \in DeptRole \ {r} : s \in transferHeld' <=> s \in transferHeld BY <2>1
  <2>5. MovesAreMade' BY <1>1, <2>1, <2>4 DEF MovesAreMade, At
  <2>6. QED BY <1>1, <2>1, <2>3, <2>5 DEF TransferInv, SidesAreOwn, JobsAreMoves, RunsAreActive, JobOf, At, Running
<1>5. QED BY <1>2, <1>3, <1>4

LEMMA TakeKeeps ==
  ASSUME TransferInv, NEW w \in TransferWorker, NEW j \in DOMAIN transfers, TakeTransfer(w, j)
  PROVE  TransferInv'
<1> DEFINE old == transfers[j]
           job == [old EXCEPT !.state = "active", !.attempts = @ + 1]
           run == [job |-> j, step |-> "config", asked |-> old.roles, todo |-> old.roles,
                   present |-> {}, seen |-> {}, moved |-> FALSE, missed |-> FALSE]
<1>1. TransfersTypeOK /\ SidesAreOwn /\ JobsAreMoves /\ RunsAreActive /\ MovesAreMade BY DEF TransferInv
<1>2. /\ ~Running(w) /\ old.state = "waiting" /\ j \in Nat
      /\ old \in TransferJob /\ old.roles \in RoleSets
      /\ old.attempts \in 0 .. TransferAttempts /\ old.attempts < TransferAttempts
  BY <1>1, WorkersAre, JobsAre DEF TakeTransfer, At, JobsAreMoves
<1>3. UNCHANGED <<transferHeld, transferConfig, transferEdits, transferTouched>> BY DEF TakeTransfer
<1>4. transfers' = [transfers EXCEPT ![j] = job] BY <1>1 DEF TakeTransfer, TransfersTypeOK
<1>5. /\ job \in TransferJob /\ job.from = old.from /\ job.to = old.to /\ job.roles = old.roles
      /\ job.state = "active" /\ job.attempts = old.attempts + 1 /\ job.attempts > 0
  <2>1. old.attempts + 1 \in 0 .. TransferAttempts /\ old.attempts + 1 > 0 BY <1>2, TransferConstants
  <2>2. QED BY <1>2, <2>1 DEF TransferJob
<1>6. /\ run \in Run /\ run.job = j /\ run.asked = old.roles /\ run.todo = old.roles
      /\ run.step = "config" /\ run.missed = FALSE
  BY <1>2 DEF Run
<1>7. transferAt' = [transferAt EXCEPT ![w] = run] BY DEF TakeTransfer
<1> HIDE DEF job, run
<1>8. /\ transfers' \in Seq(TransferJob) /\ Len(transfers') = Len(transfers)
      /\ DOMAIN transfers' = DOMAIN transfers /\ transfers'[j] = job
      /\ \A i \in DOMAIN transfers \ {j} : transfers'[i] = transfers[i]
  BY <1>1, <1>4, <1>5, JobChanged
<1>9. /\ transferAt' \in [TransferWorker -> Run \cup {NoRun}] /\ transferAt'[w] = run
      /\ \A v \in TransferWorker \ {w} : transferAt'[v] = transferAt[v]
  BY <1>1, <1>6, <1>7, RunChanged
<1>10. \A v \in TransferWorker \ {w} : Running(v)' =>
           /\ Running(v) /\ transferAt[v].job \in DOMAIN transfers /\ transferAt[v].job # j
           /\ transfers'[transferAt[v].job] = transfers[transferAt[v].job]
  BY <1>1, <1>2, <1>8, <1>9 DEF Running, RunsAreActive, JobOf
<1>11. TransfersTypeOK' BY <1>1, <1>3, <1>8, <1>9 DEF TransfersTypeOK
<1>12. SidesAreOwn' BY <1>1, <1>3 DEF SidesAreOwn
<1>13. JobsAreMoves' BY <1>1, <1>5, <1>8 DEF JobsAreMoves
<1>14. RunsAreActive'
  <2>1. ASSUME NEW v \in TransferWorker, transferAt'[v] # NoRun
        PROVE  /\ transferAt'[v].job \in DOMAIN transfers' /\ transfers'[transferAt'[v].job].state = "active"
               /\ \A side \in Side :
                      /\ transferAt'[v].asked[side] \subseteq transfers'[transferAt'[v].job].roles[side]
                      /\ transferAt'[v].todo[side] \subseteq transferAt'[v].asked[side]
               /\ transferAt'[v].step # "apply" =>
                      transferAt'[v].todo = transferAt'[v].asked /\ ~transferAt'[v].missed
    <3>1. CASE v = w BY <1>5, <1>6, <1>8, <1>9, <3>1
    <3>2. CASE v # w
      <4>1. transferAt'[v] = transferAt[v] /\ Running(v) /\ transferAt[v].job \in DOMAIN transfers
            /\ transfers'[transferAt[v].job] = transfers[transferAt[v].job]
        BY <1>9, <1>10, <2>1, <3>2 DEF Running
      <4>2. QED BY <1>1, <1>8, <4>1 DEF RunsAreActive, JobOf, At
    <3>3. QED BY <3>1, <3>2
  <2>2. ASSUME NEW u \in TransferWorker, NEW v \in TransferWorker, transferAt'[u] # NoRun, transferAt'[v] # NoRun,
               transferAt'[u].job = transferAt'[v].job
        PROVE  u = v
    BY <1>1, <1>6, <1>9, <1>10, <2>2 DEF RunsAreActive, Running
  <2>3. QED BY <2>1, <2>2 DEF RunsAreActive, Running, JobOf, At
<1>15. MovesAreMade'
  <2>1. \A v \in TransferWorker : transferAt'[v].step = "apply" => transferAt'[v] = transferAt[v]
    BY <1>6, <1>9
  <2>2. QED BY <1>1, <1>3, <2>1 DEF MovesAreMade, At
<1>16. QED BY <1>11, <1>12, <1>13, <1>14, <1>15 DEF TransferInv

\* An execution gets on with its job.
LEMMA RunGoesOn ==
  ASSUME TransferInv, NEW w \in TransferWorker, Running(w), UNCHANGED <<transferConfig, transfers, transferEdits>>,
         transferHeld' \subseteq DeptRole, transferTouched' \in [TransferWorker -> SUBSET DeptRole],
         NEW run \in Run, transferAt' = [transferAt EXCEPT ![w] = run], run.job = transferAt[w].job,
         \A side \in Side : /\ run.asked[side] \subseteq JobOf(w).roles[side]
                            /\ run.todo[side] \subseteq run.asked[side],
         run.step # "apply" => run.todo = run.asked /\ ~run.missed,
         \A v \in TransferWorker \ {w} :
             /\ transferTouched[v] \subseteq transferTouched'[v]
             /\ \A r \in DeptRole : At(v, "apply") /\ r \notin transferTouched'[v] =>
                    (r \in transferHeld' <=> r \in transferHeld),
         run.step = "apply" => \A r \in DeptRole \ transferTouched'[w] :
             /\ r \in run.asked["strip"] \ run.todo["strip"] /\ ~run.missed => r \notin transferHeld'
             /\ r \in run.asked["grant"] \ run.todo["grant"] /\ ~run.missed => r \in transferHeld'
             /\ r \in run.todo["strip"] \cup run.todo["grant"] /\ DepartmentOf[r] \in run.present =>
                    (r \in run.seen <=> r \in transferHeld')
  PROVE  TransferInv'
<1>1. TransfersTypeOK /\ SidesAreOwn /\ JobsAreMoves /\ RunsAreActive /\ MovesAreMade BY DEF TransferInv
<1>2. /\ transferAt' \in [TransferWorker -> Run \cup {NoRun}] /\ transferAt'[w] = run
      /\ \A v \in TransferWorker \ {w} : transferAt'[v] = transferAt[v]
  BY <1>1, RunChanged
<1>3. TransfersTypeOK' BY <1>1, <1>2 DEF TransfersTypeOK
<1>4. RunsAreActive'
  <2>1. ASSUME NEW v \in TransferWorker, transferAt'[v] # NoRun
        PROVE  /\ transferAt'[v].job \in DOMAIN transfers' /\ transfers'[transferAt'[v].job].state = "active"
               /\ \A side \in Side :
                      /\ transferAt'[v].asked[side] \subseteq transfers'[transferAt'[v].job].roles[side]
                      /\ transferAt'[v].todo[side] \subseteq transferAt'[v].asked[side]
               /\ transferAt'[v].step # "apply" =>
                      transferAt'[v].todo = transferAt'[v].asked /\ ~transferAt'[v].missed
    <3>1. CASE v = w BY <1>1, <1>2, <3>1 DEF RunsAreActive, JobOf
    <3>2. CASE v # w BY <1>1, <1>2, <2>1, <3>2 DEF RunsAreActive, JobOf, At, Running
    <3>3. QED BY <3>1, <3>2
  <2>2. \A v \in TransferWorker : transferAt'[v] # NoRun => Running(v) /\ transferAt'[v].job = transferAt[v].job
    BY <1>2 DEF Running
  <2>3. QED BY <1>1, <2>1, <2>2 DEF RunsAreActive, Running, JobOf, At
<1>5. MovesAreMade'
  <2> SUFFICES ASSUME NEW v \in TransferWorker, NEW r \in DeptRole,
                      transferAt'[v].step = "apply", r \notin transferTouched'[v]
               PROVE  LET now1 == transferAt'[v]
                      IN  /\ r \in now1.asked["strip"] \ now1.todo["strip"] /\ ~now1.missed => r \notin transferHeld'
                          /\ r \in now1.asked["grant"] \ now1.todo["grant"] /\ ~now1.missed => r \in transferHeld'
                          /\ r \in now1.todo["strip"] \cup now1.todo["grant"] /\ DepartmentOf[r] \in now1.present =>
                                 (r \in now1.seen <=> r \in transferHeld')
    BY DEF MovesAreMade, At
  <2>1. CASE v = w BY <1>2, <2>1
  <2>2. CASE v # w
    <3>1. transferAt'[v] = transferAt[v] /\ At(v, "apply") /\ r \notin transferTouched[v]
          /\ (r \in transferHeld' <=> r \in transferHeld)
      BY <1>2, <2>2 DEF At
    <3>2. QED BY <1>1, <3>1 DEF MovesAreMade
  <2>3. QED BY <2>1, <2>2
<1>6. QED BY <1>1, <1>3, <1>4, <1>5 DEF TransferInv, SidesAreOwn, JobsAreMoves

\* The steps of one execution.
LEMMA ResolveKeeps ==
  ASSUME TransferInv, NEW w \in TransferWorker, ResolveTransfer(w)
  PROVE  TransferInv'
<1> DEFINE old == transferAt[w]
           asked == [strip |-> JobOf(w).roles.strip \cap StripRolesOf(JobOf(w).from),
                     grant |-> JobOf(w).roles.grant \cap GrantRolesOf(JobOf(w).to)]
           run == [old EXCEPT !.step = "read", !.asked = asked, !.todo = asked]
<1>1. TransfersTypeOK /\ SidesAreOwn /\ JobsAreMoves /\ RunsAreActive /\ MovesAreMade BY DEF TransferInv
<1>2. Running(w) /\ old \in Run /\ old.step = "config" BY <1>1, WorkersAre DEF ResolveTransfer, At
<1>3. UNCHANGED <<transferConfig, transferEdits>> BY DEF ResolveTransfer
<1>4. CASE ThrowTransfer(w) BY <1>2, <1>3, <1>4, EndsKeep
<1>5. CASE /\ transferAt' = [transferAt EXCEPT ![w].step = "read", ![w].asked = asked, ![w].todo = asked]
           /\ UNCHANGED <<transferHeld, transfers, transferTouched>>
  <2>1. /\ old.job \in DOMAIN transfers /\ JobOf(w).roles \in RoleSets
        /\ \A side \in Side : old.asked[side] \subseteq JobOf(w).roles[side]
        /\ old.todo = old.asked /\ old.missed = FALSE
    BY <1>1, <1>2, WorkersAre, JobsAre DEF RunsAreActive, JobOf, At
  <2>2. /\ asked \in RoleSets
        /\ \A side \in Side : asked[side] \subseteq JobOf(w).roles[side]
    <3>1. /\ JobOf(w).roles.strip \in SUBSET DeptRole /\ JobOf(w).roles.strip = JobOf(w).roles["strip"]
          /\ JobOf(w).roles.grant \in SUBSET DeptRole /\ JobOf(w).roles.grant = JobOf(w).roles["grant"]
      BY <2>1, SetsAre
    <3>2. /\ asked \in RoleSets /\ asked["strip"] = JobOf(w).roles.strip \cap StripRolesOf(JobOf(w).from)
          /\ asked["grant"] = JobOf(w).roles.grant \cap GrantRolesOf(JobOf(w).to)
      BY <3>1, TwoSides
    <3>3. QED BY <3>1, <3>2 DEF Side
  <2> HIDE DEF asked
  <2>3. /\ run \in Run /\ run.job = old.job /\ run.asked = asked /\ run.todo = asked
        /\ run.step = "read" /\ run.missed = FALSE
    BY <1>2, <2>1, <2>2 DEF Run
  <2>4. transferAt' = [transferAt EXCEPT ![w] = run] BY <1>1, <1>5 DEF TransfersTypeOK
  <2> HIDE DEF run
  <2>5. /\ transferHeld' \subseteq DeptRole /\ transferTouched' \in [TransferWorker -> SUBSET DeptRole]
        /\ UNCHANGED <<transferHeld, transfers, transferTouched>>
    BY <1>1, <1>5 DEF TransfersTypeOK
  <2>6. \A side \in Side : /\ run.asked[side] \subseteq JobOf(w).roles[side]
                           /\ run.todo[side] \subseteq run.asked[side]
    BY <2>2, <2>3
  <2>7. QED BY <1>2, <1>3, <2>3, <2>4, <2>5, <2>6, RunGoesOn
<1>6. QED BY <1>4, <1>5 DEF ResolveTransfer

LEMMA ReadKeepsMoves ==
  ASSUME TransferInv, NEW w \in TransferWorker, ReadMember(w)
  PROVE  TransferInv'
<1> DEFINE old == transferAt[w]
           both == {JobOf(w).from, JobOf(w).to}
<1>1. TransfersTypeOK /\ SidesAreOwn /\ JobsAreMoves /\ RunsAreActive /\ MovesAreMade BY DEF TransferInv
<1>2. Running(w) /\ old \in Run /\ old.step = "read" BY <1>1, WorkersAre DEF ReadMember, At
<1>3. /\ UNCHANGED <<transferHeld, transferConfig, transfers, transferEdits>>
      /\ transferTouched' = [transferTouched EXCEPT ![w] = {}]
  BY DEF ReadMember
<1>4. /\ old.job \in DOMAIN transfers /\ both \subseteq Department
      /\ \A side \in Side : old.asked[side] \subseteq JobOf(w).roles[side]
      /\ old.asked \in RoleSets /\ old.todo = old.asked /\ old.missed = FALSE
  BY <1>1, <1>2, WorkersAre, JobsAre DEF RunsAreActive, JobOf, At
<1>5. PICK present \in SUBSET Department, seen \in SUBSET DeptRole :
          /\ transferAt' = [transferAt EXCEPT ![w].step = "apply", ![w].seen = seen, ![w].present = present]
          /\ \A r \in DeptRole : DepartmentOf[r] \in present => (r \in seen <=> r \in transferHeld)
  <2>1. CASE transferAt' = [transferAt EXCEPT ![w].step = "apply", ![w].seen = transferHeld,
                                              ![w].present = both]
    <3>1. transferHeld \in SUBSET DeptRole BY <1>1 DEF TransfersTypeOK
    <3>2. QED BY <1>4, <2>1, <3>1
  <2>2. ASSUME NEW d \in both,
               transferAt' = [transferAt EXCEPT ![w].step = "apply", ![w].seen = transferHeld \ Roles(d),
                                                ![w].present = both \ {d}]
        PROVE  \E present \in SUBSET Department, seen \in SUBSET DeptRole :
                   /\ transferAt' = [transferAt EXCEPT ![w].step = "apply", ![w].seen = seen, ![w].present = present]
                   /\ \A r \in DeptRole : DepartmentOf[r] \in present => (r \in seen <=> r \in transferHeld)
    <3>1. /\ transferHeld \ Roles(d) \in SUBSET DeptRole /\ both \ {d} \in SUBSET Department
          /\ \A r \in DeptRole : DepartmentOf[r] \in both \ {d} =>
                 (r \in transferHeld \ Roles(d) <=> r \in transferHeld)
      BY <1>1, <1>4 DEF TransfersTypeOK, Roles
    <3>2. QED BY <2>2, <3>1
  <2>3. QED BY <2>1, <2>2 DEF ReadMember
<1> DEFINE run == [old EXCEPT !.step = "apply", !.seen = seen, !.present = present]
<1>6. /\ run \in Run /\ run.job = old.job /\ run.asked = old.asked /\ run.todo = old.asked
      /\ run.step = "apply" /\ run.missed = FALSE /\ run.present = present /\ run.seen = seen
  BY <1>2, <1>4 DEF Run
<1>7. transferAt' = [transferAt EXCEPT ![w] = run] BY <1>1, <1>5 DEF TransfersTypeOK
<1> HIDE DEF run
<1>8. /\ transferHeld' \subseteq DeptRole /\ transferTouched' \in [TransferWorker -> SUBSET DeptRole]
      /\ \A v \in TransferWorker \ {w} : transferTouched'[v] = transferTouched[v]
  BY <1>1, <1>3 DEF TransfersTypeOK
<1>9. \A side \in Side : /\ run.asked[side] \subseteq JobOf(w).roles[side]
                         /\ run.todo[side] \subseteq run.asked[side]
  BY <1>4, <1>6
<1>10. \A r \in DeptRole :
           /\ r \notin run.asked["strip"] \ run.todo["strip"]
           /\ r \notin run.asked["grant"] \ run.todo["grant"]
           /\ DepartmentOf[r] \in run.present => (r \in run.seen <=> r \in transferHeld')
  BY <1>3, <1>5, <1>6
<1>11. QED BY <1>2, <1>3, <1>6, <1>7, <1>8, <1>9, <1>10, RunGoesOn

LEMMA RoleKeeps ==
  ASSUME TransferInv, NEW w \in TransferWorker, NEW side \in Side, NEW r \in DeptRole, TransferRole(w, side, r)
  PROVE  TransferInv'
<1> DEFINE old == transferAt[w]
           other == IF side = "strip" THEN "grant" ELSE "strip"
<1>1. TransfersTypeOK /\ SidesAreOwn /\ JobsAreMoves /\ RunsAreActive /\ MovesAreMade BY DEF TransferInv
<1>2. Running(w) /\ old \in Run /\ old.step = "apply" /\ old.asked \in RoleSets /\ old.todo \in RoleSets
      /\ old.missed \in BOOLEAN /\ old.moved \in BOOLEAN
  BY <1>1, WorkersAre DEF TransferRole, At
<1>3. UNCHANGED <<transferConfig, transferEdits>> BY DEF TransferRole
<1>4. CASE ThrowTransfer(w) BY <1>2, <1>3, <1>4, EndsKeep
<1>5. /\ r \in old.todo[side] /\ r \in old.asked[side]
      /\ \A s \in Side : old.asked[s] \subseteq JobOf(w).roles[s] /\ old.todo[s] \subseteq old.asked[s]
      /\ other \in Side /\ Side = {side, other} /\ side # other
      /\ r \notin old.asked[other] /\ r \notin old.todo[other]
  <2>1. r \in old.todo[side] BY DEF TransferRole, Upcoming, Side
  <2>2. \A s \in Side : old.asked[s] \subseteq JobOf(w).roles[s] /\ old.todo[s] \subseteq old.asked[s]
    BY <1>1, <1>2 DEF RunsAreActive
  <2>3. JobOf(w).roles["strip"] \cap JobOf(w).roles["grant"] = {}
    <3>1. old.job \in DOMAIN transfers BY <1>1, <1>2 DEF RunsAreActive
    <3>2. QED BY <1>1, <3>1 DEF JobsAreMoves, JobOf, Roles
  <2>4. other \in Side /\ Side = {side, other} /\ side # other BY DEF Side
  <2>5. JobOf(w).roles[side] \cap JobOf(w).roles[other] = {} BY <2>3 DEF Side
  <2>6. QED BY <2>1, <2>2, <2>4, <2>5
<1>6. ASSUME NEW outcome \in {"moved", "skip", "missed"}, Outcome(w, side, r, outcome), UNCHANGED transfers,
             \/ outcome = "moved" /\ Change(w, side, r)
             \/ outcome # "moved" /\ UNCHANGED <<transferHeld, transferTouched>>,
             outcome = "skip" => ReadAs(w, side, r) = "skip"
      PROVE  TransferInv'
  <2> DEFINE todo == [old.todo EXCEPT ![side] = @ \ {r}]
             missed == old.missed \/ outcome = "missed"
             moved == old.moved \/ outcome = "moved"
             run == [old EXCEPT !.todo = todo, !.moved = moved, !.missed = missed]
  <2>1. /\ todo \in RoleSets /\ todo[side] = old.todo[side] \ {r} /\ todo[other] = old.todo[other]
    BY <1>2, <1>5 DEF RoleSets
  <2>2. transferAt' = [transferAt EXCEPT ![w] = run] BY <1>1, <1>6 DEF Outcome, TransfersTypeOK
  <2>3. /\ missed \in BOOLEAN /\ moved \in BOOLEAN
        /\ missed <=> (old.missed \/ outcome = "missed")
    OBVIOUS
  <2> HIDE DEF todo, missed, moved
  <2>4. /\ run \in Run /\ run.job = old.job /\ run.asked = old.asked /\ run.todo = todo
        /\ run.step = "apply" /\ run.missed = missed /\ run.present = old.present /\ run.seen = old.seen
    BY <1>2, <2>1, <2>3 DEF Run
  <2> HIDE DEF run
  <2>5. \A s \in Side : /\ run.asked[s] \subseteq JobOf(w).roles[s]
                        /\ run.todo[s] \subseteq run.asked[s]
    BY <1>5, <2>1, <2>4
  <2>6. /\ transferHeld' \subseteq DeptRole /\ transferTouched' \in [TransferWorker -> SUBSET DeptRole]
        /\ \A v \in TransferWorker \ {w} :
               /\ transferTouched[v] \subseteq transferTouched'[v]
               /\ \A s \in DeptRole : (At(v, "apply") /\ s \notin transferTouched'[v]) =>
                      (s \in transferHeld' <=> s \in transferHeld)
        /\ transferTouched'[w] = transferTouched[w]
        /\ \A s \in DeptRole \ {r} : s \in transferHeld' <=> s \in transferHeld
    BY <1>1, <1>6 DEF Change, TransfersTypeOK
  <2>7. r \notin transferTouched[w] =>
            /\ (outcome = "moved" \/ outcome = "skip") => (r \in transferHeld' <=> side = "grant")
    <3>1. CASE outcome = "moved" BY <1>6, <3>1 DEF Change, Side
    <3>2. CASE outcome = "skip"
      <4>1. /\ DepartmentOf[r] \in old.present /\ (r \in old.seen) = (side = "grant")
        BY <1>6, <3>2 DEF ReadAs, CheckRoleOperation, OK
      <4>2. r \notin transferTouched[w] => (r \in old.seen <=> r \in transferHeld)
        BY <1>1, <1>2, <1>5, <4>1 DEF MovesAreMade, At, Side
      <4>3. QED BY <1>6, <3>2, <4>1, <4>2
    <3>3. QED BY <3>1, <3>2
  <2>8. ASSUME NEW s \in DeptRole \ transferTouched'[w]
        PROVE  /\ (s \in run.asked["strip"] \ run.todo["strip"] /\ ~run.missed) => s \notin transferHeld'
               /\ (s \in run.asked["grant"] \ run.todo["grant"] /\ ~run.missed) => s \in transferHeld'
               /\ (s \in run.todo["strip"] \cup run.todo["grant"] /\ DepartmentOf[s] \in run.present) =>
                      (s \in run.seen <=> s \in transferHeld')
    <3>1. CASE s = r
      <4>1. s \notin run.todo["strip"] \cup run.todo["grant"] BY <1>5, <2>1, <2>4, <3>1 DEF Side
      <4>2. ~run.missed => (outcome = "moved" \/ outcome = "skip") BY <2>3, <2>4, <1>6
      <4>3. ~run.missed => (s \in transferHeld' <=> side = "grant") BY <2>6, <2>7, <2>8, <3>1, <4>2
      <4>4. s \notin run.asked[other] BY <1>5, <2>4, <3>1
      <4>5. QED BY <1>5, <4>1, <4>3, <4>4 DEF Side
    <3>2. CASE s # r
      <4>1. \A x \in Side : s \in run.todo[x] <=> s \in old.todo[x] BY <1>5, <2>1, <2>4, <3>2
      <4>2. (s \in transferHeld' <=> s \in transferHeld) /\ s \notin transferTouched[w]
        BY <2>6, <2>8, <3>2
      <4>3. ~run.missed => ~old.missed BY <2>3, <2>4
      <4>4. /\ (s \in old.asked["strip"] \ old.todo["strip"] /\ ~old.missed) => s \notin transferHeld
            /\ (s \in old.asked["grant"] \ old.todo["grant"] /\ ~old.missed) => s \in transferHeld
            /\ (s \in old.todo["strip"] \cup old.todo["grant"] /\ DepartmentOf[s] \in old.present) =>
                   (s \in old.seen <=> s \in transferHeld)
        BY <1>1, <1>2, <4>2 DEF MovesAreMade, At
      <4>5. QED BY <2>4, <4>1, <4>2, <4>3, <4>4 DEF Side
    <3>3. QED BY <3>1, <3>2
  <2>9. QED BY <1>2, <1>3, <1>6, <2>2, <2>4, <2>5, <2>6, <2>8, RunGoesOn
<1>7. CASE ~ThrowTransfer(w)
  <2> DEFINE reading == ReadAs(w, side, r)
  <2>1. CASE Outcome(w, side, r, "moved") /\ Change(w, side, r) /\ UNCHANGED transfers
    BY <1>6, <2>1
  <2>2. CASE /\ IF reading = "change" THEN Outcome(w, side, r, "missed") ELSE Outcome(w, side, r, reading)
             /\ UNCHANGED <<transferHeld, transfers, transferTouched>>
    <3>1. reading \in {"missed", "skip", "change"} BY DEF ReadAs
    <3>2. CASE reading = "skip" BY <1>6, <2>2, <3>2
    <3>3. CASE reading # "skip"
      <4>1. Outcome(w, side, r, "missed") BY <2>2, <3>1, <3>3
      <4>2. QED BY <1>6, <2>2, <4>1
    <3>4. QED BY <3>2, <3>3
  <2>3. QED BY <1>7, <2>1, <2>2 DEF TransferRole
<1>8. QED BY <1>4, <1>7

LEMMA TransferStays == TransferInv /\ UNCHANGED transferVars => TransferInv'
BY DEF TransferInv, TransfersTypeOK, SidesAreOwn, JobsAreMoves, RunsAreActive, MovesAreMade, transferVars,
       JobOf, At, Running

LEMMA TransferSteps == TransferInv /\ TransfersNext => TransferInv'
<1> SUFFICES ASSUME TransferInv, TransfersNext PROVE TransferInv'
  OBVIOUS
<1>1. ASSUME NEW w \in TransferWorker, ProceedTransfer(w) PROVE TransferInv'
  <2>1. CASE ReportTransfer(w)
    <3>1. Running(w) /\ UNCHANGED <<transferConfig, transferEdits>>
      BY <2>1, WorkersAre DEF ReportTransfer, At, TransferInv
    <3>2. QED BY <2>1, <3>1, EndsKeep
  <2>2. QED BY <1>1, <2>1, ResolveKeeps, ReadKeepsMoves, TakeKeeps, RoleKeeps DEF ProceedTransfer
<1>2. ASSUME NEW w \in TransferWorker, TransferStalls(w) PROVE TransferInv'
  <2>1. Running(w) /\ UNCHANGED <<transferConfig, transferEdits>>
    BY <1>2, WorkersAre DEF TransferStalls, At, TransferInv
  <2>2. QED BY <1>2, <2>1, EndsKeep
<1>3. QED BY <1>1, <1>2, BesideTheRuns DEF TransfersNext

\* A report of "completed" is true.
LEMMA MovedIsMoved == TransferInv /\ TransfersNext => MovedWhenCompleted
<1> SUFFICES ASSUME TransferInv, TransfersNext, NEW v \in TransferWorker, ~At(v, "none"),
                    transfers[transferAt[v].job].state = "active",
                    transfers'[transferAt[v].job].state = "completed"
             PROVE  /\ transferHeld' \cap transferAt[v].asked["strip"] \subseteq transferTouched[v]
                    /\ transferAt[v].asked["grant"] \ transferHeld' \subseteq transferTouched[v]
  BY DEF MovedWhenCompleted
<1>1. TransfersTypeOK /\ JobsAreMoves /\ RunsAreActive /\ MovesAreMade BY DEF TransferInv
<1> DEFINE j == transferAt[v].job
<1>2. Running(v) /\ j \in DOMAIN transfers /\ DOMAIN transfers = 1 .. Len(transfers)
  BY <1>1, WorkersAre, JobsAre DEF RunsAreActive, At
<1>3. PICK w \in TransferWorker : ReportTransfer(w) /\ transferAt[w].job = j
  <2>1. transfers' # transfers /\ transfers'[j] # transfers[j] OBVIOUS
  <2>2. ~ \E d \in Department, sides \in SidesOffered : SetTransferRoles(d, sides[1], sides[2])
    BY <2>1 DEF SetTransferRoles
  <2>3. ~ \E r \in DeptRole : OthersChange(r) BY <2>1 DEF OthersChange
  <2>4. ~ \E from, to \in Department : RequestTransfer(from, to)
    <3> SUFFICES ASSUME NEW from \in Department, NEW to \in Department, RequestTransfer(from, to) PROVE FALSE
      OBVIOUS
    <3>1. PICK job : transfers' = Append(transfers, job) BY DEF RequestTransfer
    <3>2. transfers'[j] = transfers[j] BY <1>1, <1>2, <3>1 DEF TransfersTypeOK
    <3>3. QED BY <2>1, <3>2
  <2>5. ASSUME NEW w \in TransferWorker, NEW i \in DOMAIN transfers PROVE ~TakeTransfer(w, i)
    <3> SUFFICES ASSUME TakeTransfer(w, i) PROVE FALSE
      OBVIOUS
    <3>1. i # j BY DEF TakeTransfer
    <3>2. transfers'[j] = transfers[j] BY <1>1, <1>2, <3>1 DEF TakeTransfer, TransfersTypeOK
    <3>3. QED BY <2>1, <3>2
  <2>6. ASSUME NEW w \in TransferWorker, ThrowTransfer(w) \/ TransferStalls(w) PROVE FALSE
    <3> DEFINE i == transferAt[w].job
    <3>1. transfers[j] \in TransferJob /\ transfers \in Seq(TransferJob) BY <1>1, <1>2, JobsAre DEF TransfersTypeOK
    <3>2. PICK job : /\ transfers' = [transfers EXCEPT ![i] = job]
                     /\ i = j => job.state \in {"waiting", "thrown"}
      <4>1. CASE ThrowTransfer(w)
        <5> DEFINE state == IF transfers[i].attempts < TransferAttempts THEN "waiting" ELSE "thrown"
                   job == [transfers[i] EXCEPT !.state = state]
        <5>1. transfers' = [transfers EXCEPT ![i].state = state] BY <4>1 DEF ThrowTransfer
        <5>2. state \in {"waiting", "thrown"} OBVIOUS
        <5> HIDE DEF state
        <5>3. transfers' = [transfers EXCEPT ![i] = job] BY <3>1, <5>1
        <5>4. i = j => job.state = state BY <3>1 DEF TransferJob
        <5>5. QED BY <5>2, <5>3, <5>4
      <4>2. CASE TransferStalls(w)
        <5>1. PICK state \in {"waiting", "thrown"} :
                  transfers' = [transfers EXCEPT ![i].state = state, ![i].attempts = @ - 1]
          BY <4>2 DEF TransferStalls
        <5> DEFINE job == [transfers[i] EXCEPT !.state = state, !.attempts = @ - 1]
        <5>2. transfers' = [transfers EXCEPT ![i] = job] BY <3>1, <5>1
        <5>3. i = j => job.state = state BY <3>1 DEF TransferJob
        <5>4. QED BY <5>1, <5>2, <5>3
      <4>3. QED BY <2>6, <4>1, <4>2
    <3>3. i # j => transfers'[j] = transfers[j] BY <1>2, <3>1, <3>2
    <3>4. i = j => transfers'[j].state \in {"waiting", "thrown"} BY <1>2, <3>1, <3>2
    <3>5. QED BY <2>1, <3>3, <3>4
  <2>7. ~ \E w \in TransferWorker : ResolveTransfer(w) \/ ReadMember(w)
    BY <2>1, <2>6 DEF ResolveTransfer, ReadMember
  <2>8. ~ \E w \in TransferWorker, side \in Side, r \in DeptRole : TransferRole(w, side, r)
    BY <2>1, <2>6 DEF TransferRole
  <2>9. PICK w \in TransferWorker : ReportTransfer(w)
    BY <2>2, <2>3, <2>4, <2>5, <2>6, <2>7, <2>8 DEF TransfersNext, ProceedTransfer
  <2>10. transferAt[w].job = j
    <3>1. SUFFICES ASSUME transferAt[w].job # j PROVE FALSE
      OBVIOUS
    <3>2. transfers'[j] = transfers[j] BY <1>1, <1>2, <2>9, <3>1 DEF ReportTransfer, TransfersTypeOK
    <3>3. QED BY <2>1, <3>2
  <2>11. QED BY <2>9, <2>10
<1>4. w = v
  <2>1. Running(w) BY <1>1, <1>3, WorkersAre DEF ReportTransfer, At
  <2>2. QED BY <1>1, <1>2, <1>3, <2>1 DEF RunsAreActive
<1>5. /\ At(v, "apply") /\ transferAt[v].todo["strip"] = {} /\ transferAt[v].todo["grant"] = {}
  <2> DEFINE strip == transferAt[v].todo["strip"]
             grant == transferAt[v].todo["grant"]
  <2>1. At(v, "apply") /\ (IF strip # {} THEN {"strip"} \X strip ELSE {"grant"} \X grant) = {}
    BY <1>3, <1>4 DEF ReportTransfer, Upcoming
  <2> HIDE DEF strip, grant
  <2>2. strip = {}
    <3>1. SUFFICES ASSUME NEW r \in strip PROVE FALSE
      OBVIOUS
    <3>2. <<"strip", r>> \in {"strip"} \X strip OBVIOUS
    <3>3. QED BY <2>1, <3>2
  <2>3. grant = {}
    <3>1. SUFFICES ASSUME NEW r \in grant PROVE FALSE
      OBVIOUS
    <3>2. <<"grant", r>> \in {"grant"} \X grant OBVIOUS
    <3>3. QED BY <2>1, <2>2, <3>2
  <2>4. QED BY <2>1, <2>2, <2>3 DEF strip, grant
<1>6. ~transferAt[v].missed
  <2>1. transfers[j] \in TransferJob /\ transfers \in Seq(TransferJob) BY <1>1, <1>2, JobsAre DEF TransfersTypeOK
  <2>2. transfers' = [transfers EXCEPT ![j].state = ReportOf(v)] BY <1>3, <1>4 DEF ReportTransfer
  <2> DEFINE state == ReportOf(v)
             job == [transfers[j] EXCEPT !.state = state]
  <2> HIDE DEF state
  <2>3. transfers' = [transfers EXCEPT ![j] = job] BY <2>1, <2>2 DEF state
  <2>4. job.state = state BY <2>1 DEF TransferJob
  <2>5. transfers'[j].state = ReportOf(v) BY <1>2, <2>1, <2>3, <2>4 DEF state
  <2>6. QED BY <2>5 DEF ReportOf
<1>7. /\ transferHeld' = transferHeld
      /\ transferAt[v].asked["strip"] \in SUBSET DeptRole /\ transferAt[v].asked["grant"] \in SUBSET DeptRole
  BY <1>1, <1>2, <1>3, WorkersAre, SetsAre DEF ReportTransfer
<1>8. QED BY <1>1, <1>5, <1>6, <1>7 DEF MovesAreMade

-----------------------------------------------------------------------------
\* Whitelist applications.

Clicking(r) == deciding[r] # NoClick
Deciding(r) == deciding[r].step \in {"assign", "write"}

\* What a click is about, and what it knows.
ClicksAreSound ==
    \A r \in Reviewer : Clicking(r) =>
        /\ deciding[r].id \in DOMAIN submissions
        /\ deciding[r].step = "assign" => deciding[r].decision = "APPROVED"
        /\ deciding[r].assigned => deciding[r].id \in granted

\* Who decides an application that is not contested does so alone, and first.
DecidedAlone ==
    \A r \in Reviewer : Deciding(r) /\ deciding[r].id \notin contested =>
        /\ submissions[deciding[r].id].status = "PENDING"
        /\ \A q \in Reviewer \ {r} : Deciding(q) => deciding[q].id # deciding[r].id

\* The role has been given to who is approved, or about to be.
GivenWhenApproved ==
    \A id \in granted \ contested :
        \/ submissions[id].status = "APPROVED"
        \/ /\ submissions[id].status = "PENDING"
           /\ \E r \in Reviewer : deciding[r].step = "write" /\ deciding[r].id = id
                                  /\ deciding[r].decision = "APPROVED"

\* What is about to be shown, and what is shown.
ShownAsDecided ==
    /\ \A r \in Reviewer : ClickAt(r, "edit") /\ deciding[r].id \notin contested =>
           submissions[deciding[r].id].status = deciding[r].decision
    /\ \A id \in DOMAIN submissions \ contested :
           submissions[id].message \in Decision => submissions[id].message = submissions[id].status

GivenIsNoted == \A id \in granted : submissions[id].by \in whitelisted \cup takenSince

WhitelistInv ==
    /\ WhitelistTypeOK /\ ClicksAreSound /\ DecidedAlone
    /\ GivenWhenApproved /\ ShownAsDecided /\ GivenIsNoted

LEMMA WhiteInit == WhitelistInit => WhitelistInv
<1> SUFFICES ASSUME WhitelistInit PROVE WhitelistInv
  OBVIOUS
<1>1. submissions = <<>> /\ submissions \in Seq(Submission) /\ Len(submissions) = 0 /\ DOMAIN submissions = {}
  BY DEF WhitelistInit
<1>2. \A r \in Reviewer : deciding[r] = NoClick /\ deciding[r].step = "none" BY DEF WhitelistInit, NoClick
<1>3. contested = {} /\ granted = {} /\ takenSince = {} BY DEF WhitelistInit
<1>4. WhitelistTypeOK BY <1>1, WhitelistConstants DEF WhitelistInit, WhitelistTypeOK
<1>5. QED BY <1>1, <1>2, <1>3, <1>4
          DEF WhitelistInv, ClicksAreSound, DecidedAlone, GivenWhenApproved, ShownAsDecided, GivenIsNoted,
              Clicking, Deciding, ClickAt

LEMMA ClicksAre ==
  ASSUME WhitelistTypeOK, NEW r \in Reviewer
  PROVE  /\ Clicking(r) <=> deciding[r].step # "none"
         /\ deciding[r].step \in {"none", "read", "assign", "write", "edit", "tell"}
         /\ Clicking(r) => /\ deciding[r] \in Click
                           /\ deciding[r].decision \in Decision
                           /\ deciding[r].assigned \in BOOLEAN /\ deciding[r].linked \in BOOLEAN
<1>1. deciding[r] \in Click \cup {NoClick} BY DEF WhitelistTypeOK
<1>2. CASE deciding[r] \in Click BY <1>2 DEF Click, NoClick, Clicking
<1>3. CASE deciding[r] = NoClick BY <1>3 DEF NoClick, Clicking
<1>4. QED BY <1>1, <1>2, <1>3

LEMMA RowsAre ==
  ASSUME WhitelistTypeOK
  PROVE  /\ DOMAIN submissions = 1 .. Len(submissions) /\ Len(submissions) \in Nat
         /\ DOMAIN submissions \subseteq 1 .. MaxSubmissions
         /\ \A id \in DOMAIN submissions :
                /\ submissions[id] \in Submission
                /\ submissions[id].by \in Applicant
                /\ submissions[id].status \in {"PENDING", "APPROVED", "DENIED"}
<1>1. submissions \in Seq(Submission) /\ Len(submissions) <= MaxSubmissions BY DEF WhitelistTypeOK
<1> DEFINE S == Submission
<1>2. \A id \in DOMAIN submissions : submissions[id] \in Submission
  <2> HIDE DEF S
  <2>1. submissions \in Seq(S) BY <1>1 DEF S
  <2>2. \A id \in DOMAIN submissions : submissions[id] \in S BY <2>1
  <2>3. QED BY <2>2 DEF S
<1>3. DOMAIN submissions = 1 .. Len(submissions) /\ Len(submissions) \in Nat BY <1>1
<1>4. QED BY <1>1, <1>2, <1>3, WhitelistConstants DEF Submission, Decision

\* A row is changed.
LEMMA RowChanged ==
  ASSUME WhitelistTypeOK, NEW id \in DOMAIN submissions, NEW row \in Submission,
         submissions' = [submissions EXCEPT ![id] = row]
  PROVE  /\ submissions' \in Seq(Submission) /\ Len(submissions') = Len(submissions)
         /\ DOMAIN submissions' = DOMAIN submissions /\ submissions'[id] = row
         /\ \A j \in DOMAIN submissions \ {id} : submissions'[j] = submissions[j]
<1> DEFINE S == Submission
<1>1. submissions \in Seq(S) BY DEF WhitelistTypeOK
<1> HIDE DEF S
<1>2. row \in S BY DEF S
<1>3. /\ submissions' \in Seq(S) /\ Len(submissions') = Len(submissions)
      /\ DOMAIN submissions' = DOMAIN submissions /\ submissions'[id] = row
      /\ \A j \in DOMAIN submissions \ {id} : submissions'[j] = submissions[j]
  BY <1>1, <1>2
<1>4. QED BY <1>3 DEF S

\* One that is added.
LEMMA RowAdded ==
  ASSUME WhitelistTypeOK, NEW row \in Submission, submissions' = Append(submissions, row)
  PROVE  /\ submissions' \in Seq(Submission) /\ Len(submissions') = Len(submissions) + 1
         /\ DOMAIN submissions \subseteq DOMAIN submissions'
         /\ \A j \in DOMAIN submissions : submissions'[j] = submissions[j]
         /\ \A j \in DOMAIN submissions' \ DOMAIN submissions : submissions'[j] = row
<1> DEFINE S == Submission
<1>1. submissions \in Seq(S) BY DEF WhitelistTypeOK
<1> HIDE DEF S
<1>2. row \in S BY DEF S
<1>3. /\ submissions' \in Seq(S) /\ Len(submissions') = Len(submissions) + 1
      /\ Len(submissions) \in Nat /\ DOMAIN submissions = 1 .. Len(submissions)
      /\ DOMAIN submissions' = 1 .. Len(submissions) + 1
      /\ \A j \in 1 .. Len(submissions) : submissions'[j] = submissions[j]
      /\ submissions'[Len(submissions) + 1] = row
  BY <1>1, <1>2
<1>4. QED BY <1>3 DEF S

\* What a step may do to the rows when no decision is written.
LEMMA RowsGoOn ==
  ASSUME WhitelistInv, UNCHANGED <<whitelisted, departed, contested, granted, takenSince>>,
         whitelistEdits' \in 0 .. MaxWhitelistEdits, hubEnabled' \in BOOLEAN,
         submissions' \in Seq(Submission), Len(submissions') <= MaxSubmissions,
         DOMAIN submissions \subseteq DOMAIN submissions',
         \A id \in DOMAIN submissions : /\ submissions'[id].by = submissions[id].by
                                        /\ submissions'[id].status = submissions[id].status,
         \A id \in DOMAIN submissions' \ contested :
             submissions'[id].message \in Decision => submissions'[id].message = submissions'[id].status,
         deciding' \in [Reviewer -> Click \cup {NoClick}],
         \A r \in Reviewer : \/ deciding'[r] = deciding[r]
                             \/ deciding'[r] = NoClick /\ deciding[r].step \notin {"assign", "write"}
                             \/ /\ deciding[r].step \notin {"assign", "write"}
                                /\ deciding'[r].step \in {"read", "tell"}
                                /\ deciding'[r].id \in DOMAIN submissions
                                /\ deciding'[r].assigned => deciding'[r].id \in granted
  PROVE  WhitelistInv'
<1>1. WhitelistTypeOK' BY DEF WhitelistInv, WhitelistTypeOK
<1>2. \A r \in Reviewer : deciding'[r].step \in {"assign", "write", "edit"} => deciding'[r] = deciding[r]
  BY DEF NoClick
<1>3. \A r \in Reviewer : deciding[r].step \in {"assign", "write"} => deciding'[r] = deciding[r]
  BY DEF NoClick
<1>4. \A r \in Reviewer : Clicking(r)' => /\ deciding'[r].id \in DOMAIN submissions
                                          /\ deciding'[r].step = "assign" => deciding'[r].decision = "APPROVED"
                                          /\ deciding'[r].assigned => deciding'[r].id \in granted
  <2> SUFFICES ASSUME NEW r \in Reviewer, deciding'[r] # NoClick
               PROVE  /\ deciding'[r].id \in DOMAIN submissions
                      /\ deciding'[r].step = "assign" => deciding'[r].decision = "APPROVED"
                      /\ deciding'[r].assigned => deciding'[r].id \in granted
    BY DEF Clicking
  <2>1. CASE deciding'[r] = deciding[r] BY <2>1 DEF WhitelistInv, ClicksAreSound, Clicking
  <2>2. CASE deciding'[r] # deciding[r] BY <2>2
  <2>3. QED BY <2>1, <2>2
<1>5. ClicksAreSound' BY <1>4 DEF ClicksAreSound
<1>6. DecidedAlone'
  <2> SUFFICES ASSUME NEW r \in Reviewer, deciding'[r].step \in {"assign", "write"}, deciding'[r].id \notin contested
               PROVE  /\ submissions'[deciding'[r].id].status = "PENDING"
                      /\ \A q \in Reviewer \ {r} : deciding'[q].step \in {"assign", "write"} =>
                                                       deciding'[q].id # deciding'[r].id
    BY DEF DecidedAlone, Deciding
  <2>1. deciding'[r] = deciding[r] /\ deciding[r].id \in DOMAIN submissions
    BY <1>2 DEF WhitelistInv, ClicksAreSound, Clicking, NoClick
  <2>2. submissions'[deciding'[r].id].status = "PENDING" BY <2>1 DEF WhitelistInv, DecidedAlone, Deciding
  <2>3. \A q \in Reviewer \ {r} : deciding'[q].step \in {"assign", "write"} => deciding'[q].id # deciding'[r].id
    BY <1>2, <2>1 DEF WhitelistInv, DecidedAlone, Deciding
  <2>4. QED BY <2>2, <2>3
<1>7. GivenWhenApproved'
  <2> SUFFICES ASSUME NEW id \in granted \ contested
               PROVE  \/ submissions'[id].status = "APPROVED"
                      \/ /\ submissions'[id].status = "PENDING"
                         /\ \E r \in Reviewer : deciding'[r].step = "write" /\ deciding'[r].id = id
                                                /\ deciding'[r].decision = "APPROVED"
    BY DEF GivenWhenApproved
  <2>1. id \in DOMAIN submissions BY DEF WhitelistInv, WhitelistTypeOK
  <2>2. QED BY <1>3, <2>1 DEF WhitelistInv, GivenWhenApproved
<1>8. ShownAsDecided'
  <2>1. \A r \in Reviewer : deciding'[r].step = "edit" /\ deciding'[r].id \notin contested =>
            submissions'[deciding'[r].id].status = deciding'[r].decision
    BY <1>2 DEF WhitelistInv, ShownAsDecided, ClickAt, ClicksAreSound, Clicking, NoClick
  <2>2. QED BY <2>1 DEF ShownAsDecided, ClickAt
<1>9. GivenIsNoted' BY DEF WhitelistInv, WhitelistTypeOK, GivenIsNoted
<1>10. QED BY <1>1, <1>5, <1>6, <1>7, <1>8, <1>9 DEF WhitelistInv

\* The steps that decide nothing.
LEMMA PlainSteps ==
  ASSUME WhitelistInv,
         \/ \E p \in Applicant : Submit(p)
         \/ \E id \in DOMAIN submissions :
                \/ PostReview(id) \/ StoreMessageId(id)
                \/ \E r \in Reviewer, decision \in Decision : Press(r, id, decision)
         \/ \E r \in Reviewer : CloseModal(r) \/ Tell(r) \/ EditReview(r)
  PROVE  WhitelistInv'
<1>1. WhitelistTypeOK /\ ShownAsDecided /\ ClicksAreSound BY DEF WhitelistInv
<1>2. /\ submissions \in Seq(Submission) /\ Len(submissions) <= MaxSubmissions
      /\ deciding \in [Reviewer -> Click \cup {NoClick}]
      /\ whitelistEdits \in 0 .. MaxWhitelistEdits /\ hubEnabled \in BOOLEAN
  BY <1>1 DEF WhitelistTypeOK
<1>3. \A id \in DOMAIN submissions \ contested :
          submissions[id].message \in Decision => submissions[id].message = submissions[id].status
  BY <1>1 DEF ShownAsDecided
<1>4. \A id \in DOMAIN submissions : submissions[id] \in Submission BY <1>1, RowsAre
<1>5. ASSUME NEW p \in Applicant, Submit(p) PROVE WhitelistInv'
  <2> DEFINE row == [by |-> p, status |-> "PENDING", posting |-> "post", linked |-> FALSE, message |-> "none"]
  <2>1. row \in Submission /\ row.status = "PENDING" /\ row.message \notin Decision BY DEF Submission, Decision
  <2>2. submissions' = Append(submissions, row) /\ Len(submissions) < MaxSubmissions BY <1>5 DEF Submit
  <2> HIDE DEF row
  <2>3. /\ submissions' \in Seq(Submission) /\ Len(submissions') = Len(submissions) + 1
        /\ DOMAIN submissions \subseteq DOMAIN submissions'
        /\ \A j \in DOMAIN submissions : submissions'[j] = submissions[j]
        /\ \A j \in DOMAIN submissions' \ DOMAIN submissions : submissions'[j] = row
    BY <1>1, <2>1, <2>2, RowAdded
  <2>4. Len(submissions') <= MaxSubmissions BY <1>1, <2>2, <2>3, RowsAre, WhitelistConstants
  <2>5. \A id \in DOMAIN submissions' \ contested :
            submissions'[id].message \in Decision => submissions'[id].message = submissions'[id].status
    BY <1>3, <2>1, <2>3
  <2>6. QED BY <1>2, <1>5, <2>3, <2>4, <2>5, RowsGoOn DEF Submit, histories
<1>6. ASSUME NEW id \in DOMAIN submissions, NEW row \in Submission, submissions' = [submissions EXCEPT ![id] = row],
             row.by = submissions[id].by, row.status = submissions[id].status,
             id \notin contested /\ row.message \in Decision => row.message = row.status
      PROVE  /\ submissions' \in Seq(Submission) /\ Len(submissions') <= MaxSubmissions
             /\ DOMAIN submissions \subseteq DOMAIN submissions'
             /\ \A j \in DOMAIN submissions : /\ submissions'[j].by = submissions[j].by
                                              /\ submissions'[j].status = submissions[j].status
             /\ \A j \in DOMAIN submissions' \ contested :
                    submissions'[j].message \in Decision => submissions'[j].message = submissions'[j].status
  <2>1. /\ submissions' \in Seq(Submission) /\ Len(submissions') = Len(submissions)
        /\ DOMAIN submissions' = DOMAIN submissions /\ submissions'[id] = row
        /\ \A j \in DOMAIN submissions \ {id} : submissions'[j] = submissions[j]
    BY <1>1, <1>6, RowChanged
  <2>2. QED BY <1>2, <1>3, <1>6, <2>1
<1>7. ASSUME NEW id \in DOMAIN submissions, PostReview(id) \/ StoreMessageId(id) PROVE WhitelistInv'
  <2> DEFINE old == submissions[id]
             Becomes(row) == /\ row \in Submission /\ row.by = old.by /\ row.status = old.status
                             /\ row.message \in {"none", "buttons", old.message}
                             /\ submissions' = [submissions EXCEPT ![id] = row]
  <2>1. old \in Submission BY <1>4
  <2>2. \E row : Becomes(row)
    <3>1. CASE submissions' = [submissions EXCEPT ![id].posting = "store", ![id].message = "buttons"]
      <4> DEFINE row == [old EXCEPT !.posting = "store", !.message = "buttons"]
      <4>1. submissions' = [submissions EXCEPT ![id] = row] BY <1>2, <3>1
      <4>2. row \in Submission /\ row.by = old.by /\ row.status = old.status /\ row.message = "buttons"
        BY <2>1 DEF Submission
      <4> HIDE DEF row
      <4>3. QED BY <4>1, <4>2
    <3>2. ASSUME NEW shown \in {"none", "buttons"},
                 submissions' = [submissions EXCEPT ![id].posting = "over", ![id].message = shown]
          PROVE  \E row : Becomes(row)
      <4> DEFINE row == [old EXCEPT !.posting = "over", !.message = shown]
      <4>1. submissions' = [submissions EXCEPT ![id] = row] BY <1>2, <3>2
      <4>2. row \in Submission /\ row.by = old.by /\ row.status = old.status /\ row.message = shown
        BY <2>1 DEF Submission
      <4> HIDE DEF row
      <4>3. QED BY <4>1, <4>2
    <3>3. CASE submissions' = [submissions EXCEPT ![id].posting = "over", ![id].linked = TRUE]
      <4> DEFINE row == [old EXCEPT !.posting = "over", !.linked = TRUE]
      <4>1. submissions' = [submissions EXCEPT ![id] = row] BY <1>2, <3>3
      <4>2. row \in Submission /\ row.by = old.by /\ row.status = old.status /\ row.message = old.message
        BY <2>1 DEF Submission
      <4> HIDE DEF row
      <4>3. QED BY <4>1, <4>2
    <3>4. CASE submissions' = [submissions EXCEPT ![id].posting = "over"]
      <4> DEFINE row == [old EXCEPT !.posting = "over"]
      <4>1. submissions' = [submissions EXCEPT ![id] = row] BY <1>2, <3>4
      <4>2. row \in Submission /\ row.by = old.by /\ row.status = old.status /\ row.message = old.message
        BY <2>1 DEF Submission
      <4> HIDE DEF row
      <4>3. QED BY <4>1, <4>2
    <3> HIDE DEF Becomes
    <3>5. QED BY <1>7, <3>1, <3>2, <3>3, <3>4 DEF PostReview, StoreMessageId
  <2>3. PICK row : Becomes(row) BY <2>2
  <2>4. submissions' = [submissions EXCEPT ![id] = row] /\ row \in Submission /\ row.by = submissions[id].by
        /\ row.status = submissions[id].status /\ row.message \in {"none", "buttons", submissions[id].message}
    BY <2>3
  <2>5. id \notin contested /\ row.message \in Decision => row.message = row.status
    BY <1>3, <2>4 DEF Decision
  <2>6. UNCHANGED <<deciding, whitelisted, departed, hubEnabled, whitelistEdits, contested, granted, takenSince>>
    BY <1>7 DEF PostReview, StoreMessageId, histories
  <2> HIDE DEF Becomes
  <2>7. QED BY <1>2, <1>6, <2>4, <2>5, <2>6, RowsGoOn
<1>8. ASSUME NEW r \in Reviewer, NEW click \in Click \cup {NoClick}, deciding' = [deciding EXCEPT ![r] = click]
      PROVE  /\ deciding' \in [Reviewer -> Click \cup {NoClick}] /\ deciding'[r] = click
             /\ \A q \in Reviewer \ {r} : deciding'[q] = deciding[q]
  BY <1>2, <1>8
<1>9. ASSUME NEW id \in DOMAIN submissions, NEW r \in Reviewer, NEW decision \in Decision, Press(r, id, decision)
      PROVE  WhitelistInv'
  <2> DEFINE click == [step |-> "read", id |-> id, decision |-> decision, assigned |-> FALSE, linked |-> FALSE]
  <2>1. click \in Click \cup {NoClick} /\ click.step = "read" /\ click.id = id /\ click.assigned = FALSE
    BY <1>1, RowsAre DEF Click
  <2>2. deciding' = [deciding EXCEPT ![r] = click] /\ deciding[r].step = "none" BY <1>9 DEF Press, ClickAt
  <2> HIDE DEF click
  <2>3. /\ deciding' \in [Reviewer -> Click \cup {NoClick}] /\ deciding'[r] = click
        /\ \A q \in Reviewer \ {r} : deciding'[q] = deciding[q]
    BY <1>8, <2>1, <2>2
  <2>4. QED BY <1>2, <1>3, <1>9, <2>1, <2>2, <2>3, RowsGoOn DEF Press, histories
<1>10. ASSUME NEW r \in Reviewer, CloseModal(r) \/ Tell(r) PROVE WhitelistInv'
  <2>1. deciding' = [deciding EXCEPT ![r] = NoClick] /\ deciding[r].step \in {"read", "tell"}
    BY <1>10 DEF CloseModal, Tell, Leave, ClickAt
  <2>2. /\ deciding' \in [Reviewer -> Click \cup {NoClick}] /\ deciding'[r] = NoClick
        /\ \A q \in Reviewer \ {r} : deciding'[q] = deciding[q]
    BY <1>8, <2>1
  <2>3. QED BY <1>2, <1>3, <1>10, <2>1, <2>2, RowsGoOn DEF CloseModal, Tell, histories
<1>11. ASSUME NEW r \in Reviewer, EditReview(r) PROVE WhitelistInv'
  <2>1. deciding[r].step = "edit" /\ Clicking(r) /\ deciding[r].id \in DOMAIN submissions
        /\ deciding[r] \in Click /\ deciding[r].decision \in Decision
        /\ (deciding[r].assigned => deciding[r].id \in granted)
    BY <1>1, <1>11, ClicksAre DEF EditReview, ClickAt, ClicksAreSound
  <2> DEFINE told == [deciding[r] EXCEPT !.step = "tell"]
             id == deciding[r].id
             row == [submissions[id] EXCEPT !.message = deciding[r].decision]
  <2>2. told \in Click /\ told.step = "tell" /\ told.id = deciding[r].id /\ told.assigned = deciding[r].assigned
    BY <2>1 DEF Click
  <2>3. deciding' = [deciding EXCEPT ![r] = NoClick] \/ deciding' = [deciding EXCEPT ![r] = told]
    BY <1>11 DEF EditReview, Leave, Move
  <2> HIDE DEF told
  <2>4. /\ deciding' \in [Reviewer -> Click \cup {NoClick}] /\ deciding'[r] \in {told, NoClick}
        /\ \A q \in Reviewer \ {r} : deciding'[q] = deciding[q]
    BY <1>8, <2>2, <2>3
  <2>5. row \in Submission /\ row.by = submissions[id].by /\ row.status = submissions[id].status
        /\ row.message = deciding[r].decision
    <3>1. submissions[id] \in Submission /\ deciding[r].decision \in Decision BY <1>4, <2>1
    <3>2. QED BY <3>1 DEF Submission
  <2>6. UNCHANGED submissions \/ submissions' = [submissions EXCEPT ![id] = row]
    BY <1>11 DEF EditReview
  <2>7. id \notin contested => row.message = row.status BY <1>1, <2>1, <2>5 DEF ShownAsDecided, ClickAt
  <2> HIDE DEF row
  <2>8. /\ submissions' \in Seq(Submission) /\ Len(submissions') <= MaxSubmissions
        /\ DOMAIN submissions \subseteq DOMAIN submissions'
        /\ \A j \in DOMAIN submissions : /\ submissions'[j].by = submissions[j].by
                                         /\ submissions'[j].status = submissions[j].status
        /\ \A j \in DOMAIN submissions' \ contested :
               submissions'[j].message \in Decision => submissions'[j].message = submissions'[j].status
    BY <1>2, <1>3, <1>6, <2>1, <2>5, <2>6, <2>7
  <2>9. UNCHANGED <<whitelisted, departed, hubEnabled, whitelistEdits, contested, granted, takenSince>>
    BY <1>11 DEF EditReview, histories
  <2>10. \A q \in Reviewer : \/ deciding'[q] = deciding[q]
                             \/ deciding'[q] = NoClick /\ deciding[q].step \notin {"assign", "write"}
                             \/ /\ deciding[q].step \notin {"assign", "write"}
                                /\ deciding'[q].step \in {"read", "tell"}
                                /\ deciding'[q].id \in DOMAIN submissions
                                /\ deciding'[q].assigned => deciding'[q].id \in granted
    BY <2>1, <2>2, <2>4
  <2>11. QED BY <1>2, <2>4, <2>8, <2>9, <2>10, RowsGoOn
<1>12. QED BY <1>5, <1>7, <1>9, <1>10, <1>11

\* A click gets on.
LEMMA ClickGoesOn ==
  ASSUME WhitelistTypeOK, NEW r \in Reviewer, NEW click \in Click \cup {NoClick},
         deciding' = [deciding EXCEPT ![r] = click]
  PROVE  /\ deciding' \in [Reviewer -> Click \cup {NoClick}] /\ deciding'[r] = click
         /\ \A q \in Reviewer \ {r} : deciding'[q] = deciding[q]
  BY DEF WhitelistTypeOK

LEMMA StepOfClick ==
  ASSUME NEW click \in Click, NEW step \in {"read", "assign", "write", "edit", "tell"}
  PROVE  LET next == [click EXCEPT !.step = step]
         IN  /\ next \in Click /\ next.step = step /\ next.id = click.id
             /\ next.decision = click.decision /\ next.assigned = click.assigned
  BY DEF Click

LEMMA ReadKeeps ==
  ASSUME WhitelistInv, NEW r \in Reviewer, ReadSubmission(r)
  PROVE  WhitelistInv'
<1> DEFINE id == deciding[r].id
           step == IF deciding[r].decision = "APPROVED" THEN "assign" ELSE "write"
           next == [deciding[r] EXCEPT !.step = step]
           rivals == {q \in Reviewer \ {r} : /\ deciding[q].step \in {"assign", "write"}
                                             /\ deciding[q].id = deciding[r].id}
<1>1. WhitelistTypeOK /\ ClicksAreSound /\ DecidedAlone /\ GivenWhenApproved /\ ShownAsDecided /\ GivenIsNoted
  BY DEF WhitelistInv
<1>2. deciding[r].step = "read" /\ Clicking(r) /\ deciding[r] \in Click /\ id \in DOMAIN submissions
      /\ (deciding[r].assigned => id \in granted)
  BY <1>1, ClicksAre DEF ReadSubmission, ClickAt, ClicksAreSound
<1>3. UNCHANGED <<submissions, whitelisted, departed, hubEnabled, whitelistEdits, granted, takenSince>>
  BY DEF ReadSubmission
<1>4. CASE deciding' = [deciding EXCEPT ![r] = NoClick] /\ UNCHANGED contested
  <2>1. /\ deciding' \in [Reviewer -> Click \cup {NoClick}] /\ deciding'[r] = NoClick
        /\ \A q \in Reviewer \ {r} : deciding'[q] = deciding[q]
    BY <1>1, <1>4, ClickGoesOn
  <2>2. QED BY <1>1, <1>2, <1>3, <1>4, <2>1, RowsGoOn DEF WhitelistTypeOK, ShownAsDecided
<1>5. CASE /\ Of(r).status = "PENDING" /\ deciding' = [deciding EXCEPT ![r] = next]
           /\ contested' = IF rivals = {} THEN contested ELSE contested \cup {id}
  <2>1. next \in Click /\ next.step = step /\ next.id = id /\ next.decision = deciding[r].decision
        /\ next.assigned = deciding[r].assigned
    <3>1. step \in {"read", "assign", "write", "edit", "tell"} OBVIOUS
    <3> HIDE DEF step
    <3>2. QED BY <1>2, <3>1, StepOfClick
  <2> HIDE DEF next
  <2>2. /\ deciding' \in [Reviewer -> Click \cup {NoClick}] /\ deciding'[r] = next
        /\ \A q \in Reviewer \ {r} : deciding'[q] = deciding[q]
    BY <1>1, <1>5, <2>1, ClickGoesOn
  <2>3. contested \subseteq contested' /\ contested' \subseteq DOMAIN submissions
    BY <1>1, <1>2, <1>5 DEF WhitelistTypeOK
  <2>4. WhitelistTypeOK' BY <1>1, <1>3, <2>2, <2>3 DEF WhitelistTypeOK
  <2>5. ClicksAreSound' BY <1>1, <1>2, <1>3, <2>1, <2>2 DEF ClicksAreSound, Clicking
  <2>6. DecidedAlone'
    <3> SUFFICES ASSUME NEW q \in Reviewer, Deciding(q)', deciding'[q].id \notin contested'
                 PROVE  /\ submissions[deciding'[q].id].status = "PENDING"
                        /\ \A o \in Reviewer \ {q} : Deciding(o)' => deciding'[o].id # deciding'[q].id
      BY <1>3 DEF DecidedAlone
    <3>1. CASE q = r
      <4>1. rivals = {} BY <1>5, <2>1, <2>2, <3>1
      <4>2. QED BY <1>5, <2>1, <2>2, <3>1, <4>1 DEF Deciding, Of
    <3>2. CASE q # r
      <4>1. deciding'[q] = deciding[q] /\ Deciding(q) /\ deciding[q].id \notin contested
        BY <2>2, <2>3, <3>2 DEF Deciding
      <4>2. deciding[q].id # id BY <1>5, <2>2, <3>2, <4>1 DEF Deciding
      <4>3. QED BY <1>1, <2>1, <2>2, <3>2, <4>1, <4>2 DEF DecidedAlone, Deciding
    <3>3. QED BY <3>1, <3>2
  <2>7. GivenWhenApproved' BY <1>1, <1>2, <1>3, <2>2, <2>3 DEF GivenWhenApproved
  <2>8. ShownAsDecided' BY <1>1, <1>3, <2>1, <2>2, <2>3 DEF ShownAsDecided, ClickAt
  <2>9. GivenIsNoted' BY <1>1, <1>3 DEF GivenIsNoted
  <2>10. QED BY <2>4, <2>5, <2>6, <2>7, <2>8, <2>9 DEF WhitelistInv
<1>6. QED BY <1>4, <1>5 DEF ReadSubmission, Leave, Move

\* Who has left gets no role.
LEMMA NoRoleForWhoLeft == CheckRoleOperation({"left"}, TRUE) # OK
<1> DEFINE met == {i \in DOMAIN RoleChecks : RoleChecks[i][1] \in {"left"} \ {"protected"}}
<1>1. 5 \in DOMAIN RoleChecks /\ RoleChecks[5] = <<"left", "MEMBER_NOT_IN_GUILD">> BY DEF RoleChecks
<1>2. \A i \in DOMAIN RoleChecks : i = 5 \/ RoleChecks[i][1] # "left"
  <2>1. DOMAIN RoleChecks = 1 .. 10 BY DEF RoleChecks
  <2>2. \A i \in 1 .. 10 : i = 5 \/ RoleChecks[i][1] # "left" BY DEF RoleChecks
  <2>3. QED BY <2>1, <2>2
<1>3. met = {5} BY <1>1, <1>2
<1>4. (CHOOSE i \in met : \A j \in met : i <= j) = 5 BY <1>3
<1> HIDE DEF met
<1>5. CheckRoleOperation({"left"}, TRUE) = RoleChecks[5][2]
  BY <1>3, <1>4 DEF CheckRoleOperation, FirstIssue, met
<1>6. RoleChecks[5][2] = "MEMBER_NOT_IN_GUILD" BY <1>1
<1>7. QED BY <1>5, <1>6 DEF OK

LEMMA AssignKeeps ==
  ASSUME WhitelistInv, NEW r \in Reviewer, AssignWhitelistRole(r)
  PROVE  WhitelistInv'
<1> DEFINE id == deciding[r].id
           p == Of(r).by
           Given == /\ whitelisted' = whitelisted \cup {p} /\ granted' = granted \cup {id}
                    /\ takenSince' = takenSince \ {p}
           Kept == UNCHANGED <<whitelisted, granted, takenSince>>
           next == [deciding[r] EXCEPT !.step = "write"]
           sure == [deciding[r] EXCEPT !.step = "write", !.assigned = TRUE]
<1>1. WhitelistTypeOK /\ ClicksAreSound /\ DecidedAlone /\ GivenWhenApproved /\ ShownAsDecided /\ GivenIsNoted
  BY DEF WhitelistInv
<1>2. deciding[r].step = "assign" /\ Clicking(r) /\ deciding[r] \in Click /\ id \in DOMAIN submissions
      /\ (deciding[r].assigned => id \in granted) /\ deciding[r].decision = "APPROVED" /\ Deciding(r)
  BY <1>1, ClicksAre DEF AssignWhitelistRole, ClickAt, ClicksAreSound, Deciding
<1>3. UNCHANGED <<submissions, departed, hubEnabled, whitelistEdits, contested>>
  BY DEF AssignWhitelistRole
<1>4. p \in Applicant /\ \A j \in DOMAIN submissions : submissions[j].by \in Applicant
  BY <1>1, <1>2, RowsAre DEF Of
<1>5. /\ next \in Click /\ next.step = "write" /\ next.id = id /\ next.decision = "APPROVED"
      /\ next.assigned = deciding[r].assigned
  BY <1>2, StepOfClick
<1>6. sure \in Click /\ sure.step = "write" /\ sure.id = id /\ sure.decision = "APPROVED"
  BY <1>2 DEF Click
<1>7. \/ Given /\ p \notin departed /\ deciding' = [deciding EXCEPT ![r] = sure]
      \/ Kept /\ deciding' = [deciding EXCEPT ![r] = next]
      \/ Given /\ p \notin departed /\ deciding' = [deciding EXCEPT ![r] = next]
      \/ Kept /\ deciding' = [deciding EXCEPT ![r] = NoClick]
  <2>1. deciding' = [deciding EXCEPT ![r].step = "write", ![r].assigned = TRUE]
            => deciding' = [deciding EXCEPT ![r] = sure]
    BY <1>1 DEF WhitelistTypeOK
  <2>2. CheckRoleOperation(IF p \in departed THEN {"left"} ELSE {}, TRUE) = OK => p \notin departed
    BY NoRoleForWhoLeft
  <2> HIDE DEF sure
  <2>3. QED BY <2>1, <2>2 DEF AssignWhitelistRole, Move, Leave
<1> HIDE DEF next, sure
<1>8. PICK then \in {next, sure, NoClick} : deciding' = [deciding EXCEPT ![r] = then] BY <1>7
<1>9. then \in Click \cup {NoClick} BY <1>5, <1>6
<1>10. /\ deciding' \in [Reviewer -> Click \cup {NoClick}] /\ deciding'[r] = then
       /\ \A q \in Reviewer \ {r} : deciding'[q] = deciding[q]
  BY <1>1, <1>8, <1>9, ClickGoesOn
<1>11. \/ Given /\ p \notin departed /\ then \in {next, sure}
       \/ Kept /\ then \in {next, NoClick}
  BY <1>5, <1>6, <1>7, <1>10 DEF NoClick, WhitelistTypeOK
<1>12. granted \subseteq granted' /\ granted' \subseteq granted \cup {id}
  BY <1>11
<1>13. WhitelistTypeOK'
  <2>1. whitelisted' \subseteq Applicant \ departed /\ takenSince' \subseteq Applicant
    BY <1>1, <1>4, <1>11 DEF WhitelistTypeOK
  <2>2. granted' \subseteq DOMAIN submissions BY <1>1, <1>2, <1>12 DEF WhitelistTypeOK
  <2>3. QED BY <1>1, <1>3, <1>10, <2>1, <2>2 DEF WhitelistTypeOK
<1>14. ClicksAreSound'
  <2> SUFFICES ASSUME NEW q \in Reviewer, deciding'[q] # NoClick
               PROVE  /\ deciding'[q].id \in DOMAIN submissions
                      /\ deciding'[q].step = "assign" => deciding'[q].decision = "APPROVED"
                      /\ deciding'[q].assigned => deciding'[q].id \in granted'
    BY <1>3 DEF ClicksAreSound, Clicking
  <2>1. CASE q # r BY <1>1, <1>10, <1>12, <2>1 DEF ClicksAreSound, Clicking
  <2>2. CASE q = r /\ then = next BY <1>2, <1>5, <1>10, <1>12, <2>2
  <2>3. CASE q = r /\ then = sure BY <1>2, <1>5, <1>6, <1>10, <1>11, <1>12, <2>3
  <2>4. QED BY <1>10, <2>1, <2>2, <2>3
<1>15. DecidedAlone'
  <2> SUFFICES ASSUME NEW q \in Reviewer, Deciding(q)', deciding'[q].id \notin contested
               PROVE  /\ submissions[deciding'[q].id].status = "PENDING"
                      /\ \A o \in Reviewer \ {q} : Deciding(o)' => deciding'[o].id # deciding'[q].id
    BY <1>3 DEF DecidedAlone
  <2>1. \A o \in Reviewer : Deciding(o)' => Deciding(o) /\ deciding'[o].id = deciding[o].id
    BY <1>2, <1>5, <1>6, <1>10 DEF Deciding, NoClick
  <2>2. QED BY <1>1, <2>1 DEF DecidedAlone
<1>16. GivenWhenApproved'
  <2> SUFFICES ASSUME NEW i \in granted' \ contested
               PROVE  \/ submissions[i].status = "APPROVED"
                      \/ /\ submissions[i].status = "PENDING"
                         /\ \E q \in Reviewer : deciding'[q].step = "write" /\ deciding'[q].id = i
                                                /\ deciding'[q].decision = "APPROVED"
    BY <1>3 DEF GivenWhenApproved
  <2>1. CASE i = id
    <3>1. submissions[id].status = "PENDING" BY <1>1, <1>2, <2>1 DEF DecidedAlone
    <3>2. CASE then \in {next, sure} BY <1>5, <1>6, <1>10, <2>1, <3>1, <3>2
    <3>3. CASE then \notin {next, sure}
      <4>1. id \in granted \ contested BY <1>11, <2>1, <3>3
      <4>2. PICK q \in Reviewer : deciding[q].step = "write" /\ deciding[q].id = id
        BY <3>1, <1>1, <4>1 DEF GivenWhenApproved
      <4>3. q # r /\ Deciding(q) BY <1>2, <4>2 DEF Deciding
      <4>4. QED BY <1>1, <1>2, <4>1, <4>2, <4>3 DEF DecidedAlone
    <3>4. QED BY <3>2, <3>3
  <2>2. CASE i # id
    <3>1. i \in granted \ contested BY <1>12, <2>2
    <3>2. QED BY <1>1, <1>2, <1>10, <3>1 DEF GivenWhenApproved
  <2>3. QED BY <2>1, <2>2
<1>17. ShownAsDecided'
  <2>1. \A q \in Reviewer : deciding'[q].step = "edit" => deciding'[q] = deciding[q]
    BY <1>5, <1>6, <1>10, <1>8 DEF NoClick
  <2>2. QED BY <1>1, <1>3, <2>1 DEF ShownAsDecided, ClickAt
<1>18. GivenIsNoted'
  <2>1. submissions[id].by = p BY DEF Of
  <2>2. QED BY <1>1, <1>3, <1>11, <2>1 DEF GivenIsNoted
<1>19. QED BY <1>13, <1>14, <1>15, <1>16, <1>17, <1>18 DEF WhitelistInv

LEMMA WriteKeeps ==
  ASSUME WhitelistInv, NEW r \in Reviewer, WriteDecision(r)
  PROVE  /\ WhitelistInv'
         /\ \A id \in DOMAIN submissions \ contested' :
                submissions[id].status # "PENDING" => submissions'[id].status = submissions[id].status
<1> DEFINE id == deciding[r].id
           row == [submissions[id] EXCEPT !.status = deciding[r].decision]
           next == [deciding[r] EXCEPT !.step = "edit", !.linked = Of(r).linked]
<1>1. WhitelistTypeOK /\ ClicksAreSound /\ DecidedAlone /\ GivenWhenApproved /\ ShownAsDecided /\ GivenIsNoted
  BY DEF WhitelistInv
<1>2. deciding[r].step = "write" /\ Clicking(r) /\ deciding[r] \in Click /\ id \in DOMAIN submissions
      /\ (deciding[r].assigned => id \in granted) /\ deciding[r].decision \in Decision /\ Deciding(r)
  BY <1>1, ClicksAre DEF WriteDecision, ClickAt, ClicksAreSound, Deciding
<1>3. UNCHANGED <<whitelisted, departed, hubEnabled, whitelistEdits, granted, takenSince>>
  BY DEF WriteDecision
<1>4. submissions[id] \in Submission BY <1>1, <1>2, RowsAre
<1>5. CASE /\ submissions' = [submissions EXCEPT ![id].status = deciding[r].decision]
           /\ deciding' = [deciding EXCEPT ![r].step = "edit", ![r].linked = Of(r).linked]
           /\ UNCHANGED contested
  <2>1. row \in Submission /\ row.by = submissions[id].by /\ row.status = deciding[r].decision
        /\ row.message = submissions[id].message
    BY <1>2, <1>4 DEF Submission
  <2>2. submissions' = [submissions EXCEPT ![id] = row] BY <1>1, <1>5 DEF WhitelistTypeOK
  <2>3. next \in Click /\ next.step = "edit" /\ next.id = id /\ next.decision = deciding[r].decision
        /\ next.assigned = deciding[r].assigned
    BY <1>2, <1>4 DEF Click, Submission, Of
  <2>4. deciding' = [deciding EXCEPT ![r] = next] BY <1>1, <1>5 DEF WhitelistTypeOK
  <2> HIDE DEF row, next
  <2>5. /\ submissions' \in Seq(Submission) /\ Len(submissions') = Len(submissions)
        /\ DOMAIN submissions' = DOMAIN submissions /\ submissions'[id] = row
        /\ \A j \in DOMAIN submissions \ {id} : submissions'[j] = submissions[j]
    BY <1>1, <1>2, <2>1, <2>2, RowChanged
  <2>6. /\ deciding' \in [Reviewer -> Click \cup {NoClick}] /\ deciding'[r] = next
        /\ \A q \in Reviewer \ {r} : deciding'[q] = deciding[q]
    BY <1>1, <2>3, <2>4, ClickGoesOn
  <2>7. id \notin contested => /\ submissions[id].status = "PENDING"
                               /\ \A q \in Reviewer \ {r} : Deciding(q) => deciding[q].id # id
    BY <1>1, <1>2 DEF DecidedAlone
  <2>8. WhitelistTypeOK' BY <1>1, <1>3, <1>5, <2>5, <2>6 DEF WhitelistTypeOK
  <2>9. ClicksAreSound' BY <1>1, <1>2, <1>3, <2>3, <2>5, <2>6 DEF ClicksAreSound, Clicking
  <2>10. DecidedAlone'
    <3> SUFFICES ASSUME NEW q \in Reviewer, Deciding(q)', deciding'[q].id \notin contested
                 PROVE  /\ submissions'[deciding'[q].id].status = "PENDING"
                        /\ \A o \in Reviewer \ {q} : Deciding(o)' => deciding'[o].id # deciding'[q].id
      BY <1>5 DEF DecidedAlone
    <3>1. q # r /\ deciding'[q] = deciding[q] /\ Deciding(q) BY <2>3, <2>6 DEF Deciding
    <3>2. deciding[q].id # id BY <1>1, <1>2, <3>1 DEF DecidedAlone
    <3>3. \A o \in Reviewer : Deciding(o)' => o # r /\ deciding'[o] = deciding[o] /\ Deciding(o)
      BY <2>3, <2>6 DEF Deciding
    <3>4. deciding[q].id \in DOMAIN submissions BY <1>1, <3>1, ClicksAre DEF ClicksAreSound, Deciding
    <3>5. QED BY <1>1, <2>5, <3>1, <3>2, <3>3, <3>4 DEF DecidedAlone
  <2>11. GivenWhenApproved'
    <3> SUFFICES ASSUME NEW i \in granted \ contested
                 PROVE  \/ submissions'[i].status = "APPROVED"
                        \/ /\ submissions'[i].status = "PENDING"
                           /\ \E q \in Reviewer : deciding'[q].step = "write" /\ deciding'[q].id = i
                                                  /\ deciding'[q].decision = "APPROVED"
      BY <1>3, <1>5 DEF GivenWhenApproved
    <3>1. CASE i = id
      <4>1. PICK q \in Reviewer : deciding[q].step = "write" /\ deciding[q].id = id
                                  /\ deciding[q].decision = "APPROVED"
        BY <1>1, <2>7, <3>1 DEF GivenWhenApproved
      <4>2. q = r BY <2>7, <3>1, <4>1 DEF Deciding
      <4>3. QED BY <2>1, <2>5, <3>1, <4>1, <4>2
    <3>2. CASE i # id
      <4>1. i \in DOMAIN submissions BY <1>1 DEF WhitelistTypeOK
      <4>2. submissions'[i] = submissions[i] BY <2>5, <3>2, <4>1
      <4>3. QED BY <1>1, <2>6, <3>2, <4>2 DEF GivenWhenApproved
    <3>3. QED BY <3>1, <3>2
  <2>12. ShownAsDecided'
    <3>1. ASSUME NEW q \in Reviewer, deciding'[q].step = "edit", deciding'[q].id \notin contested
          PROVE  submissions'[deciding'[q].id].status = deciding'[q].decision
      <4>1. CASE q = r BY <2>1, <2>3, <2>5, <2>6, <4>1
      <4>2. CASE q # r
        <5>1. deciding'[q] = deciding[q] /\ deciding[q].id \in DOMAIN submissions /\ deciding[q].decision \in Decision
          BY <1>1, <2>6, <3>1, <4>2, ClicksAre DEF ClicksAreSound
        <5>2. submissions[deciding[q].id].status = deciding[q].decision
          BY <1>1, <3>1, <5>1 DEF ShownAsDecided, ClickAt
        <5>3. deciding[q].id # id BY <2>7, <3>1, <5>1, <5>2 DEF Decision
        <5>4. QED BY <2>5, <5>1, <5>2, <5>3
      <4>3. QED BY <4>1, <4>2
    <3>2. ASSUME NEW i \in DOMAIN submissions \ contested, submissions'[i].message \in Decision
          PROVE  submissions'[i].message = submissions'[i].status
      <4>1. CASE i = id BY <1>1, <2>1, <2>5, <2>7, <3>2, <4>1 DEF ShownAsDecided, Decision
      <4>2. CASE i # id BY <1>1, <2>5, <3>2, <4>2 DEF ShownAsDecided
      <4>3. QED BY <4>1, <4>2
    <3>3. QED BY <1>5, <2>5, <3>1, <3>2 DEF ShownAsDecided, ClickAt
  <2>13. GivenIsNoted'
    <3>1. \A j \in DOMAIN submissions : submissions'[j].by = submissions[j].by BY <2>1, <2>5
    <3>2. granted \subseteq DOMAIN submissions BY <1>1 DEF WhitelistTypeOK
    <3>3. QED BY <1>1, <1>3, <3>1, <3>2 DEF GivenIsNoted
  <2>14. \A j \in DOMAIN submissions \ contested' :
             submissions[j].status # "PENDING" => submissions'[j].status = submissions[j].status
    BY <1>5, <2>5, <2>7
  <2>15. QED BY <2>8, <2>9, <2>10, <2>11, <2>12, <2>13, <2>14 DEF WhitelistInv
<1>6. CASE /\ deciding' = [deciding EXCEPT ![r] = NoClick] /\ contested' = contested \cup Dropped({r})
           /\ UNCHANGED submissions
  <2>1. /\ deciding' \in [Reviewer -> Click \cup {NoClick}] /\ deciding'[r] = NoClick
        /\ \A q \in Reviewer \ {r} : deciding'[q] = deciding[q]
    BY <1>1, <1>6, ClickGoesOn
  <2>2. contested \subseteq contested' /\ contested' \subseteq DOMAIN submissions
        /\ (id \in granted => id \in contested')
    BY <1>1, <1>2, <1>6 DEF WhitelistTypeOK, Dropped, ClickAt
  <2>3. \A q \in Reviewer : deciding'[q] # NoClick => deciding'[q] = deciding[q] BY <2>1
  <2>4. \A q \in Reviewer : deciding'[q].step # "none" => deciding'[q] = deciding[q] BY <2>1 DEF NoClick
  <2>5. WhitelistTypeOK' BY <1>1, <1>3, <1>6, <2>1, <2>2 DEF WhitelistTypeOK
  <2>6. ClicksAreSound' BY <1>1, <1>3, <1>6, <2>3 DEF ClicksAreSound, Clicking
  <2>7. DecidedAlone' BY <1>1, <1>6, <2>2, <2>4 DEF DecidedAlone, Deciding
  <2>8. GivenWhenApproved' BY <1>1, <1>3, <1>6, <2>1, <2>2 DEF GivenWhenApproved
  <2>9. ShownAsDecided' BY <1>1, <1>6, <2>2, <2>4 DEF ShownAsDecided, ClickAt
  <2>10. GivenIsNoted' BY <1>1, <1>3, <1>6 DEF GivenIsNoted
  <2>11. QED BY <1>6, <2>5, <2>6, <2>7, <2>8, <2>9, <2>10 DEF WhitelistInv
<1>7. QED BY <1>5, <1>6 DEF WriteDecision, Leave

LEMMA ReviewsCrash ==
  ASSUME WhitelistInv, CrashReviews
  PROVE  WhitelistInv'
<1>1. WhitelistTypeOK /\ ClicksAreSound /\ DecidedAlone /\ GivenWhenApproved /\ ShownAsDecided /\ GivenIsNoted
  BY DEF WhitelistInv
<1>2. /\ UNCHANGED <<submissions, whitelisted, departed, hubEnabled, whitelistEdits, granted, takenSince>>
      /\ deciding' = [r \in Reviewer |-> IF ClickAt(r, "read") THEN deciding[r] ELSE NoClick]
      /\ contested' = contested \cup Dropped(Reviewer)
  BY DEF CrashReviews
<1>3. deciding' \in [Reviewer -> Click \cup {NoClick}] BY <1>1, <1>2 DEF WhitelistTypeOK
<1>4. \A q \in Reviewer : deciding'[q].step \in {"none", "read"}
                          /\ (deciding'[q] # NoClick => deciding'[q] = deciding[q])
  BY <1>2 DEF ClickAt, NoClick
<1>5. contested \subseteq contested' /\ contested' \subseteq DOMAIN submissions
  BY <1>1, <1>2, ClicksAre DEF Dropped, WhitelistTypeOK
<1>6. \A i \in granted \ contested' : submissions[i].status = "APPROVED"
  BY <1>1, <1>2 DEF GivenWhenApproved, Dropped, ClickAt
<1>7. WhitelistTypeOK' BY <1>1, <1>2, <1>3, <1>5 DEF WhitelistTypeOK
<1>8. ClicksAreSound' BY <1>1, <1>2, <1>4 DEF ClicksAreSound, Clicking
<1>9. DecidedAlone' BY <1>4 DEF DecidedAlone, Deciding
<1>10. GivenWhenApproved' BY <1>2, <1>6 DEF GivenWhenApproved
<1>11. ShownAsDecided' BY <1>1, <1>2, <1>4, <1>5 DEF ShownAsDecided, ClickAt
<1>12. GivenIsNoted' BY <1>1, <1>2 DEF GivenIsNoted
<1>13. QED BY <1>7, <1>8, <1>9, <1>10, <1>11, <1>12 DEF WhitelistInv

LEMMA OthersEdit ==
  ASSUME WhitelistInv, NEW p \in Applicant, WhitelistEdit(p)
  PROVE  WhitelistInv'
<1>1. WhitelistTypeOK /\ ClicksAreSound /\ DecidedAlone /\ GivenWhenApproved /\ ShownAsDecided /\ GivenIsNoted
  BY DEF WhitelistInv
<1>2. UNCHANGED <<submissions, deciding, contested, granted>> BY DEF WhitelistEdit
<1>3. WhitelistTypeOK'
  <2>1. whitelisted' \subseteq Applicant \ departed' /\ departed' \subseteq Applicant
        /\ takenSince' \subseteq Applicant /\ hubEnabled' \in BOOLEAN
    <3>1. whitelisted \subseteq Applicant \ departed /\ departed \subseteq Applicant
          /\ takenSince \subseteq Applicant /\ hubEnabled \in BOOLEAN
      BY <1>1 DEF WhitelistTypeOK
    <3>2. CASE hubEnabled' = ~hubEnabled /\ UNCHANGED <<departed, whitelisted, takenSince>> BY <3>1, <3>2
    <3>3. CASE UNCHANGED hubEnabled /\ whitelisted' = whitelisted \ {p}
               /\ departed' \in {departed, departed \cup {p}} /\ takenSince' \subseteq takenSince \cup {p}
      BY <3>1, <3>3
    <3>4. QED BY <3>2, <3>3 DEF WhitelistEdit
  <2>2. whitelistEdits' \in 0 .. MaxWhitelistEdits
    <3>1. whitelistEdits \in 0 .. MaxWhitelistEdits /\ MaxWhitelistEdits \in Nat
      BY <1>1, WhitelistConstants DEF WhitelistTypeOK
    <3>2. whitelistEdits > 0 /\ whitelistEdits' = whitelistEdits - 1 BY DEF WhitelistEdit
    <3>3. QED BY <3>1, <3>2
  <2>3. QED BY <1>1, <1>2, <2>1, <2>2 DEF WhitelistTypeOK
<1>4. GivenIsNoted' BY <1>1, <1>2 DEF WhitelistEdit, GivenIsNoted
<1>5. QED BY <1>1, <1>2, <1>3, <1>4
          DEF WhitelistInv, ClicksAreSound, DecidedAlone, GivenWhenApproved, ShownAsDecided, Clicking, Deciding, ClickAt

LEMMA WhiteStays == WhitelistInv /\ UNCHANGED whitelistVars => WhitelistInv'
<1> SUFFICES ASSUME WhitelistInv, UNCHANGED whitelistVars PROVE WhitelistInv'
  OBVIOUS
<1>1. UNCHANGED <<submissions, deciding, whitelisted, departed, hubEnabled, whitelistEdits, contested, granted, takenSince>>
  BY DEF whitelistVars
<1>2. WhitelistTypeOK' BY <1>1 DEF WhitelistInv, WhitelistTypeOK
<1>3. QED BY <1>1, <1>2
          DEF WhitelistInv, ClicksAreSound, DecidedAlone, GivenWhenApproved, ShownAsDecided, GivenIsNoted,
              Clicking, Deciding, ClickAt

LEMMA WhiteSteps ==
  ASSUME WhitelistInv, WhitelistNext
  PROVE  WhitelistInv'
  BY PlainSteps, ReadKeeps, AssignKeeps, WriteKeeps, ReviewsCrash, OthersEdit DEF WhitelistNext

\* What the applicants are told and shown is so.
LEMMA AnswersAreTrue ==
  ASSUME WhitelistInv, WhitelistNext
  PROVE  WhitelistAnswersTrue
<1>1. WhitelistInv' BY WhiteSteps
<1>2. contested \subseteq contested'
  BY DEF WhitelistNext, Submit, PostReview, StoreMessageId, Press, CloseModal, ReadSubmission,
         AssignWhitelistRole, WriteDecision, EditReview, Tell, CrashReviews, WhitelistEdit, histories
<1>3. WhitelistTypeOK /\ ClicksAreSound BY DEF WhitelistInv
<1>4. /\ DOMAIN submissions \subseteq DOMAIN submissions'
      /\ \A id \in DOMAIN submissions \ contested' :
             submissions[id].status # "PENDING" => submissions'[id].status = submissions[id].status
  <2>1. CASE UNCHANGED submissions BY <2>1
  <2>2. ASSUME NEW p \in Applicant, Submit(p)
        PROVE  \A id \in DOMAIN submissions : submissions'[id] = submissions[id] /\ id \in DOMAIN submissions'
    <3> DEFINE row == [by |-> p, status |-> "PENDING", posting |-> "post", linked |-> FALSE, message |-> "none"]
    <3>1. row \in Submission /\ submissions' = Append(submissions, row) BY <2>2 DEF Submit, Submission
    <3> HIDE DEF row
    <3>2. QED BY <1>3, <3>1, RowAdded
  <2>3. ASSUME NEW id \in DOMAIN submissions, PostReview(id) \/ StoreMessageId(id)
        PROVE  /\ DOMAIN submissions' = DOMAIN submissions
               /\ \A j \in DOMAIN submissions : submissions'[j].status = submissions[j].status
    <3>1. \A j \in DOMAIN submissions : submissions[j] \in Submission BY <1>3, RowsAre
    <3>2. QED BY <2>3, <3>1 DEF PostReview, StoreMessageId, Submission
  <2>4. ASSUME NEW r \in Reviewer, EditReview(r)
        PROVE  /\ DOMAIN submissions' = DOMAIN submissions
               /\ \A j \in DOMAIN submissions : submissions'[j].status = submissions[j].status
    <3>1. \A j \in DOMAIN submissions : submissions[j] \in Submission BY <1>3, RowsAre
    <3>2. QED BY <2>4, <3>1 DEF EditReview, Submission
  <2>5. ASSUME NEW r \in Reviewer, WriteDecision(r)
        PROVE  /\ DOMAIN submissions \subseteq DOMAIN submissions'
               /\ \A j \in DOMAIN submissions \ contested' :
                      submissions[j].status # "PENDING" => submissions'[j].status = submissions[j].status
    <3>1. DOMAIN submissions' = DOMAIN submissions BY <2>5 DEF WriteDecision
    <3>2. QED BY <2>5, <3>1, WriteKeeps
  <2>6. \/ UNCHANGED submissions
        \/ \E p \in Applicant : Submit(p)
        \/ \E id \in DOMAIN submissions : PostReview(id) \/ StoreMessageId(id)
        \/ \E r \in Reviewer : EditReview(r) \/ WriteDecision(r)
    BY DEF WhitelistNext, Press, CloseModal, ReadSubmission, AssignWhitelistRole, Tell, CrashReviews, WhitelistEdit
  <2>7. QED BY <2>1, <2>2, <2>3, <2>4, <2>5, <2>6
<1>5. \A id \in DOMAIN submissions \ contested' :
          /\ submissions'[id].status = "DENIED" => id \notin granted'
          /\ submissions'[id].message \in Decision => submissions'[id].message = submissions'[id].status
  <2>1. GivenWhenApproved' /\ ShownAsDecided' BY <1>1 DEF WhitelistInv
  <2>2. \A id \in granted' \ contested' : submissions'[id].status \in {"APPROVED", "PENDING"}
    BY <2>1 DEF GivenWhenApproved
  <2>3. \A id \in DOMAIN submissions' \ contested' :
            submissions'[id].message \in Decision => submissions'[id].message = submissions'[id].status
    BY <2>1 DEF ShownAsDecided
  <2>4. QED BY <1>4, <2>2, <2>3
<1>6. ASSUME NEW r \in Reviewer, ClickAt(r, "edit"), deciding'[r].step = "tell", deciding[r].id \notin contested'
      PROVE  /\ submissions'[deciding[r].id].status = deciding[r].decision
             /\ deciding[r].decision = "APPROVED" => Of(r).by \in whitelisted' \cup takenSince'
  <2>1. deciding[r].id \in DOMAIN submissions /\ deciding[r].decision \in Decision
    BY <1>3, <1>6, ClicksAre DEF ClicksAreSound, ClickAt
  <2>2. submissions[deciding[r].id].status = deciding[r].decision
    BY <1>2, <1>6 DEF WhitelistInv, ShownAsDecided
  <2>3. submissions'[deciding[r].id].status = deciding[r].decision
    BY <1>4, <1>6, <2>1, <2>2 DEF Decision
  <2>4. EditReview(r)
    <3>1. deciding[r].step = "edit" /\ deciding'[r].step = "tell" /\ deciding \in [Reviewer -> Click \cup {NoClick}]
      BY <1>3, <1>6 DEF ClickAt, WhitelistTypeOK
    <3>2. ASSUME NEW q \in Reviewer, NEW id, NEW decision, Press(q, id, decision) PROVE FALSE
      BY <3>1, <3>2 DEF Press, ClickAt
    <3>3. ASSUME NEW q \in Reviewer, CloseModal(q) \/ Tell(q) PROVE FALSE
      BY <3>1, <3>3 DEF CloseModal, Tell, Leave, ClickAt, NoClick
    <3>4. ASSUME NEW q \in Reviewer, ReadSubmission(q) PROVE FALSE
      BY <3>1, <3>4 DEF ReadSubmission, Leave, Move, ClickAt, NoClick
    <3>5. ASSUME NEW q \in Reviewer, AssignWhitelistRole(q) PROVE FALSE
      BY <3>1, <3>5 DEF AssignWhitelistRole, Leave, Move, ClickAt, NoClick
    <3>6. ASSUME NEW q \in Reviewer, WriteDecision(q) PROVE FALSE
      BY <3>1, <3>6 DEF WriteDecision, Leave, ClickAt, NoClick
    <3>7. ASSUME NEW q \in Reviewer, EditReview(q) PROVE q = r
      BY <3>1, <3>7 DEF EditReview, Leave, Move, ClickAt, NoClick
    <3>8. ASSUME UNCHANGED deciding \/ CrashReviews PROVE FALSE
      BY <3>1, <3>8 DEF CrashReviews, ClickAt, NoClick
    <3>9. QED BY <3>2, <3>3, <3>4, <3>5, <3>6, <3>7, <3>8
              DEF WhitelistNext, Submit, WhitelistEdit, PostReview, StoreMessageId
  <2>5. deciding[r].decision = "APPROVED" => deciding[r].assigned
    <3>1. deciding \in [Reviewer -> Click \cup {NoClick}] BY <1>3 DEF WhitelistTypeOK
    <3>2. ~(deciding' = [deciding EXCEPT ![r] = NoClick]) BY <1>6, <3>1 DEF NoClick
    <3>3. deciding[r].decision = "DENIED" \/ deciding[r].assigned BY <2>4, <3>2 DEF EditReview, Leave
    <3>4. QED BY <3>3
  <2>6. deciding[r].assigned => Of(r).by \in whitelisted \cup takenSince
    BY <1>3, <1>6, ClicksAre DEF ClicksAreSound, ClickAt, WhitelistInv, GivenIsNoted, Of
  <2>7. UNCHANGED <<whitelisted, takenSince>> BY <2>4 DEF EditReview, histories
  <2>8. QED BY <2>3, <2>5, <2>6, <2>7
<1>7. QED BY <1>4, <1>5, <1>6 DEF WhitelistAnswersTrue
LEMMA AnswersRest ==
  ASSUME WhitelistInv, UNCHANGED whitelistVars
  PROVE  WhitelistAnswersTrue
<1>1. UNCHANGED <<submissions, deciding, whitelisted, contested, granted, takenSince>>
  BY DEF whitelistVars
<1>2. \A id \in granted \ contested : submissions[id].status \in {"APPROVED", "PENDING"}
  BY DEF WhitelistInv, GivenWhenApproved
<1>3. \A id \in DOMAIN submissions \ contested :
          submissions[id].message \in Decision => submissions[id].message = submissions[id].status
  BY DEF WhitelistInv, ShownAsDecided
<1>4. \A r \in Reviewer : ~(ClickAt(r, "edit") /\ deciding'[r].step = "tell")
  BY <1>1 DEF ClickAt
<1>5. QED BY <1>1, <1>2, <1>3, <1>4 DEF WhitelistAnswersTrue
==============================================================================
