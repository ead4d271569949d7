----------------------------- MODULE TimedBans ------------------------------
(***************************************************************************)
(* Global bans of one user: /globalban and /globalunban go through the     *)
(* registered guilds one at a time, a timed ban leaves a timer, and a      *)
(* sweep lifts it in every registered guild when it is due.  A permanent   *)
(* ban and an unban are carried over to Sonoran.                           *)
(*                                                                         *)
(* banTimer, banLast and banDisturbed are history, read by properties      *)
(* only.                                                                   *)
(***************************************************************************)
EXTENDS Surroundings, SequencesExt

CONSTANTS
    BanGuild,       \* guilds that can be registered
    ByName,         \* the same as a sequence, in the order of their names
    Moderator,      \* people with system.manage
    BanLength,      \* lengths of timed bans, in ticks
    Sonoran,        \* the Sonoran products that are configured: cms, cad
    MaxBans         \* bound: timers ever recorded

ASSUME TimedBanConstants ==
    /\ ByName \in Seq(BanGuild) /\ \A g \in BanGuild : \E i \in DOMAIN ByName : ByName[i] = g
    /\ BanLength \subseteq Nat \ {0}
    /\ IsFiniteSet(Moderator)
    /\ Sonoran \subseteq {"cms", "cad"}
    /\ MaxBans \in Nat

VARIABLES
    registered,     \* approved and enabled guilds
    bannedIn,       \* Discord: guilds the user is banned from
    bannedSonoran,  \* Sonoran products the user is banned from
    banRows,        \* TimedBan rows of the user
    banAt,          \* where each moderator's command is
    banSweep,       \* the sweep: the rows it read as due, its guilds, those still to do
    banTimer,       \* history: until when the last timed ban lasts (0: none since an unban)
    banLast,        \* history: the last ban completed
    banDisturbed    \* history: whether work overlapped, failed, or lost a guild

banVars == <<registered, bannedIn, bannedSonoran, banRows, banAt, banSweep,
             banTimer, banLast, banDisturbed>>

BanKind == {"timed", "permanent", "unban"}
BanCommand == [step : {"guilds", "supersede", "record", "close", "sonoran"}, kind : BanKind,
               todo : SUBSET BanGuild, until : Nat]
NoBanCommand == [step |-> "none"]
NoBanSweep == [due |-> <<>>, guilds |-> {}, todo |-> {}]

TimedBansTypeOK ==
    /\ registered \subseteq BanGuild
    /\ bannedIn \subseteq BanGuild
    /\ bannedSonoran \subseteq Sonoran
    /\ banRows \in Seq([until : Nat, active : BOOLEAN]) /\ Len(banRows) <= MaxBans
    /\ banAt \in [Moderator -> BanCommand \cup {NoBanCommand}]
    /\ banSweep \in [due : Seq(DOMAIN banRows), guilds : SUBSET BanGuild, todo : SUBSET BanGuild]
    /\ banTimer \in Nat
    /\ banLast \in {"none"} \cup BanKind
    /\ banDisturbed \in BOOLEAN

TimedBansInit ==
    /\ registered = BanGuild
    /\ bannedIn = {} /\ bannedSonoran = {}
    /\ banRows = <<>>
    /\ banAt = [o \in Moderator |-> NoBanCommand]
    /\ banSweep = NoBanSweep
    /\ banTimer = 0 /\ banLast = "none" /\ banDisturbed = FALSE

-----------------------------------------------------------------------------

\* approvedGuilds: read once, and gone through by name.
FirstByName(guilds) == ByName[Min({i \in DOMAIN ByName : ByName[i] \in guilds})]

CommandsUnderWay == \E o \in Moderator : banAt[o] # NoBanCommand
SweepUnderWay == banSweep # NoBanSweep

CloseOpenBans == banRows' = [i \in DOMAIN banRows |-> [banRows[i] EXCEPT !.active = FALSE]]

Step(o, step) == banAt[o] # NoBanCommand /\ banAt[o].step = step
Goto(o, step) == banAt' = [banAt EXCEPT ![o].step = step]

\* /globalban, timed or permanent, and /globalunban read the guilds.
StartBanCommand(o, kind, length) ==
    /\ banAt[o] = NoBanCommand
    /\ kind = "timed" =>
           Len(banRows) + Cardinality({p \in Moderator : banAt[p] # NoBanCommand
                                                      /\ banAt[p].kind = "timed"}) < MaxBans
    /\ banAt' = [banAt EXCEPT ![o] = [step |-> "guilds", kind |-> kind, todo |-> registered,
                                      until |-> IF kind = "timed" THEN now + length ELSE 0]]
    /\ banDisturbed' = (banDisturbed \/ CommandsUnderWay \/ SweepUnderWay)
    /\ Works
    /\ UNCHANGED <<registered, bannedIn, bannedSonoran, banRows, banSweep, banTimer, banLast>>

\* banAcross and unbanAcross, one guild: whatever goes wrong is a line of the
\* result, and the next guild follows.
NextGuild(o) ==
    /\ Step(o, "guilds") /\ banAt[o].todo # {}
    /\ LET g == FirstByName(banAt[o].todo)
       IN  /\ \/ /\ Works
                 /\ bannedIn' = IF banAt[o].kind = "unban" THEN bannedIn \ {g} ELSE bannedIn \cup {g}
                 /\ UNCHANGED banDisturbed
              \/ Fails /\ banDisturbed' = TRUE /\ UNCHANGED bannedIn
           /\ banAt' = [banAt EXCEPT ![o].todo = @ \ {g}]
    /\ UNCHANGED <<registered, bannedSonoran, banRows, banSweep, banTimer, banLast>>

\* The guilds are done: a timed ban goes on to its timer, an unban to closing
\* them, a permanent ban straight to Sonoran.
GuildsDone(o) ==
    /\ Step(o, "guilds") /\ banAt[o].todo = {}
    /\ Goto(o, CASE banAt[o].kind = "timed" -> "supersede"
                 [] banAt[o].kind = "unban" -> "close"
                 [] banAt[o].kind = "permanent" -> "sonoran")
    /\ Works
    /\ UNCHANGED <<registered, bannedIn, bannedSonoran, banRows, banSweep,
                   banTimer, banLast, banDisturbed>>

\* The earlier timers are closed; a failure is swallowed.
SupersedeBan(o) ==
    /\ Step(o, "supersede")
    /\ Goto(o, "record")
    /\ \/ Works /\ CloseOpenBans /\ UNCHANGED banDisturbed
       \/ Fails /\ banDisturbed' = TRUE /\ UNCHANGED banRows
    /\ UNCHANGED <<registered, bannedIn, bannedSonoran, banSweep, banTimer, banLast>>

\* The timer is recorded; a failure is logged.
RecordBan(o) ==
    /\ Step(o, "record")
    /\ \/ /\ Works
          /\ banRows' = Append(banRows, [until |-> banAt[o].until, active |-> TRUE])
          /\ banTimer' = banAt[o].until
          /\ UNCHANGED banDisturbed
       \/ Fails /\ banDisturbed' = TRUE /\ UNCHANGED <<banRows, banTimer>>
    /\ banAt' = [banAt EXCEPT ![o] = NoBanCommand]
    /\ banLast' = "timed"
    /\ UNCHANGED <<registered, bannedIn, bannedSonoran, banSweep>>

\* An unban closes the timers; a failure is swallowed.
CloseByUnban(o) ==
    /\ Step(o, "close")
    /\ Goto(o, "sonoran")
    /\ \/ Works /\ CloseOpenBans /\ banTimer' = 0 /\ UNCHANGED banDisturbed
       \/ Fails /\ banDisturbed' = TRUE /\ UNCHANGED <<banRows, banTimer>>
    /\ UNCHANGED <<registered, bannedIn, bannedSonoran, banSweep, banLast>>

\* applySonoranBan: each product on its own, what fails is reported; the CMS
\* cannot unban.
ApplySonoranBan(o) ==
    /\ Step(o, "sonoran")
    /\ \E done \in SUBSET Sonoran :
           bannedSonoran' = IF banAt[o].kind = "permanent" THEN bannedSonoran \cup done
                            ELSE bannedSonoran \ (done \ {"cms"})
    /\ banAt' = [banAt EXCEPT ![o] = NoBanCommand]
    /\ banLast' = banAt[o].kind
    /\ Works
    /\ UNCHANGED <<registered, bannedIn, banRows, banSweep, banTimer, banDisturbed>>

\* The bot stops in the middle of a command.
BanStops(o) ==
    /\ banAt[o] # NoBanCommand
    /\ Fails
    /\ banAt' = [banAt EXCEPT ![o] = NoBanCommand]
    /\ banDisturbed' = TRUE
    /\ UNCHANGED <<registered, bannedIn, bannedSonoran, banRows, banSweep, banTimer, banLast>>

\* A guild leaves the allowlist; what was banned there stays banned.
DropGuild(g) ==
    /\ g \in registered
    /\ registered' = registered \ {g}
    /\ banDisturbed' = (banDisturbed \/ g \in bannedIn \/ CommandsUnderWay \/ SweepUnderWay)
    /\ Works
    /\ UNCHANGED <<bannedIn, bannedSonoran, banRows, banAt, banSweep, banTimer, banLast>>

-----------------------------------------------------------------------------

\* A row the sweep takes up.
DueBan(i) == banRows[i].active /\ banRows[i].until <= now

DueBans == {i \in DOMAIN banRows : DueBan(i)}

\* runTimedBanExpiry reads what is due, then the guilds.
SweepBans ==
    /\ ~SweepUnderWay
    /\ DueBans # {}
    /\ \E due \in Readings(banRows, DueBans, Cardinality(DueBans)) :
           banSweep' = [due |-> due, guilds |-> registered, todo |-> registered]
    /\ banDisturbed' = (banDisturbed \/ CommandsUnderWay)
    /\ Works
    /\ UNCHANGED <<registered, bannedIn, bannedSonoran, banRows, banAt, banTimer, banLast>>

\* The ban is lifted in the next guild; a failure is a line of the result.
LiftNext ==
    /\ banSweep.due # <<>> /\ banSweep.todo # {}
    /\ LET g == FirstByName(banSweep.todo)
       IN  /\ \/ Works /\ bannedIn' = bannedIn \ {g} /\ UNCHANGED banDisturbed
              \/ Fails /\ banDisturbed' = TRUE /\ UNCHANGED bannedIn
           /\ banSweep' = [banSweep EXCEPT !.todo = @ \ {g}]
    /\ UNCHANGED <<registered, bannedSonoran, banRows, banAt, banTimer, banLast>>

\* The row is closed, whatever happened in the guilds, and the next one follows.
CloseBan ==
    /\ banSweep.due # <<>> /\ banSweep.todo = {}
    /\ \/ Works /\ banRows' = [banRows EXCEPT ![Head(banSweep.due)].active = FALSE]
                /\ UNCHANGED banDisturbed
       \/ Fails /\ banDisturbed' = TRUE /\ UNCHANGED banRows
    /\ banSweep' = IF Len(banSweep.due) = 1 THEN NoBanSweep
                   ELSE [banSweep EXCEPT !.due = Tail(@), !.todo = banSweep.guilds]
    /\ UNCHANGED <<registered, bannedIn, bannedSonoran, banAt, banTimer, banLast>>

\* The worker stops in the middle of a sweep.
BanSweepStops ==
    /\ SweepUnderWay
    /\ Fails
    /\ banSweep' = NoBanSweep
    /\ UNCHANGED <<registered, bannedIn, bannedSonoran, banRows, banAt, banTimer,
                   banLast, banDisturbed>>

-----------------------------------------------------------------------------

ProceedBan(o) == \/ NextGuild(o) \/ GuildsDone(o) \/ SupersedeBan(o) \/ RecordBan(o)
                 \/ CloseByUnban(o) \/ ApplySonoranBan(o)
BanSweepStep == SweepBans \/ LiftNext \/ CloseBan

TimedBansNext ==
    \/ \E o \in Moderator, kind \in BanKind, length \in BanLength : StartBanCommand(o, kind, length)
    \/ \E o \in Moderator : ProceedBan(o) \/ BanStops(o)
    \/ \E g \in BanGuild : DropGuild(g)
    \/ BanSweepStep
    \/ BanSweepStops
    \/ Tick /\ UNCHANGED banVars


-----------------------------------------------------------------------------

\* The last ban was a timed one, and its time is up.
TimedBanOver == banLast = "timed" /\ banTimer \in 1 .. now

\* A permanent ban was given over a timed one: it leaves the timer open, which
\* lifts it when the timed ban is over.
PermanentBanOnTimer == banLast = "permanent" /\ banTimer \in 1 .. now

\* A sweep lifts a ban only in these two cases: never one whose timer an unban
\* has closed, nor one before the last timed ban is over.
SweepKeepsBans ==
    (banSweep' # banSweep /\ bannedIn' # bannedIn)
        => banDisturbed \/ TimedBanOver \/ PermanentBanOnTimer

\* The last ban was a timed one and is over, nothing is under way that may end or
\* renew it, and the user is still banned.
OverdueBan ==
    /\ bannedIn \cap registered # {} /\ ~banDisturbed
    /\ TimedBanOver
    /\ ~CommandsUnderWay
=============================================================================
