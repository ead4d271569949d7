----------------------------- MODULE NameMirror -----------------------------
(***************************************************************************)
(* The name of one member in every guild.  One guild is the authority; the *)
(* bot spreads its name when a nickname or a rank changes, the roster      *)
(* worker gives the nickname the roster's form and mirrors the result to   *)
(* guilds without a roster, and an operator may set it everywhere at once. *)
(* A marker tells the bot's handler of the events that the platform caused.*)
(*                                                                         *)
(* A nickname is a name in the form of a roster, or plain.  pristine is    *)
(* history: the authority's nickname has been the same, and no nickname    *)
(* was written from an older one, since a spreading began.  Definitions    *)
(* whose names begin with Faulty are seeded faults.                        *)
(***************************************************************************)
EXTENDS Surroundings, FiniteSets

CONSTANTS
    NameGuild,          \* enabled approved guilds that have the member
    MainGuild,          \* the one of type MAIN_COMMUNITY
    NameRoster,         \* rosters
    GuildOf,            \* the guild of each roster
    RosterOrder,        \* the rosters' order by position and slug
    FormatsNames,       \* rosters with nicknameSyncEnabled
    Yielding,           \* rosters on which the member's rank has yieldNickname
    NamePriority,       \* nicknamePriority of the member's rank on each roster
    RankHeight,         \* position of the member's rank on each roster
    RankedAtFirst,      \* the sets of rosters the member may be on in the beginning
    Name,               \* what the member may be called
    NameAtFirst,        \* what he is called everywhere in the beginning
    NameHandler,        \* executions of event handlers and commands in the bot
    MaxNameEdits        \* bound: changes by people

NoGuild == "no guild"
NoRoster == "plain"
NoName == "no name"

ASSUME NameConstants ==
    /\ MainGuild \in NameGuild /\ NoGuild \notin NameGuild
    /\ GuildOf \in [NameRoster -> NameGuild] /\ NoRoster \notin NameRoster
    /\ RosterOrder \in [NameRoster -> Nat] /\ RankHeight \in [NameRoster -> Nat]
    /\ \A r, s \in NameRoster : RosterOrder[r] = RosterOrder[s] \/ RankHeight[r] = RankHeight[s] => r = s
    /\ FormatsNames \subseteq NameRoster /\ Yielding \subseteq NameRoster
    /\ NamePriority \in [NameRoster -> {"MAIN", "DEPARTMENT", "NONE"}]
    /\ RankedAtFirst \subseteq SUBSET NameRoster
    /\ NoName \notin Name /\ NameAtFirst \in Name /\ MaxNameEdits \in Nat
    /\ IsFiniteSet(NameRoster)

VARIABLES
    nick,           \* Discord: the member's nickname in each guild
    ranked,         \* Discord: rosters whose rank roles the member holds
    listed,         \* rosters on which the member's row is active
    syncedName,     \* syncedName of the member's rows
    nickMarkers,    \* guilds with a marker
    nickEvents,     \* events of changed nicknames on their way, per guild
    nameJobs,       \* rosters with a job for the member waiting
    naming,         \* what each handler and the roster worker ("worker") is doing
    nameEdits,      \* changes left
    pristine        \* history: see above

nameVars == <<nick, ranked, listed, syncedName, nickMarkers, nickEvents, nameJobs, naming,
              nameEdits, pristine>>

Nickname == [form : NameRoster \cup {NoRoster}, name : Name]
Plain(name) == [form |-> NoRoster, name |-> name]
Actor == NameHandler \cup {"worker"}
Resting == [task |-> "none"]

NamesTypeOK ==
    /\ nick \in [NameGuild -> Nickname]
    /\ ranked \subseteq NameRoster /\ listed \subseteq NameRoster
    /\ syncedName \in [NameRoster -> Name \cup {NoName}]
    /\ nickMarkers \subseteq NameGuild
    /\ nickEvents \in [NameGuild -> Nat]
    /\ nameJobs \subseteq NameRoster
    /\ \A a \in Actor :
           \/ naming[a] = Resting
           \/ /\ naming[a].task = "spread" /\ naming[a].from \in NameGuild
              /\ naming[a].full \in Nickname /\ naming[a].listed \subseteq NameRoster
              /\ naming[a].todo \subseteq NameGuild /\ naming[a].queue \in BOOLEAN
              /\ naming[a].at \in NameGuild \cup {NoGuild}
           \/ naming[a] = [task |-> "mirror"]
           \/ naming[a].task = "rename" /\ naming[a].roster \in NameRoster /\ naming[a].built \in Nickname
           \/ naming[a].task = "global" /\ naming[a].name \in Name /\ naming[a].todo \subseteq NameGuild
    /\ DOMAIN naming = Actor
    /\ nameEdits \in 0 .. MaxNameEdits
    /\ pristine \in BOOLEAN

NamesInit ==
    /\ nick = [g \in NameGuild |-> Plain(NameAtFirst)]
    /\ ranked \in RankedAtFirst /\ listed = ranked
    /\ syncedName = [r \in NameRoster |-> NoName]
    /\ nickMarkers = {} /\ nickEvents = [g \in NameGuild |-> 0]
    /\ nameJobs = {} /\ naming = [a \in Actor |-> Resting]
    /\ nameEdits = MaxNameEdits
    /\ pristine = FALSE

-----------------------------------------------------------------------------

Highest(rosters) == CHOOSE r \in rosters : \A s \in rosters : RankHeight[s] <= RankHeight[r]

\* resolveNameAuthorityGuild
Authority(rosters) ==
    LET inMain == {r \in rosters : GuildOf[r] = MainGuild}
        department == {r \in rosters : NamePriority[r] = "DEPARTMENT"}
    IN  IF rosters = {} THEN NoGuild
        ELSE IF inMain # {} /\ \E r \in rosters : NamePriority[r] = "MAIN" THEN MainGuild
        ELSE IF department # {} THEN GuildOf[Highest(department)]
        ELSE IF inMain # {} THEN MainGuild
        ELSE GuildOf[Highest(rosters)]

\* The rosters that keep their own form in a guild, and guilds kept by hand.
OwnForms(rosters, g) == {r \in rosters : GuildOf[r] = g /\ r \in FormatsNames \ Yielding}
ByHandOnly(rosters, g) == \E r \in rosters \ FormatsNames : GuildOf[r] = g

\* resolveNicknameOwners: whether another roster of the guild owns the nickname.
Outranked(rosters, r) ==
    \E other \in OwnForms(rosters \ {r}, GuildOf[r]) : RosterOrder[other] < RosterOrder[r]

\* A nickname changes in Discord, which tells the bot.
Renamed(g, nickname) ==
    /\ nick' = [nick EXCEPT ![g] = nickname]
    /\ nickEvents' = [nickEvents EXCEPT ![g] = IF nick[g] # nickname THEN @ + 1 ELSE @]

\* writeNicknameMarker and setNickname.  A nickname that is not written leaves
\* no marker, and none for anybody else's write either.
Write(g, nickname) ==
    \/ Renamed(g, nickname) /\ nickMarkers' = nickMarkers \cup {g} /\ Works
    \/ nickMarkers' = nickMarkers \ {g} /\ UNCHANGED <<nick, nickEvents>> /\ Fails

\* Who has read the authority's nickname to write it elsewhere.
Spreading == {a \in Actor : naming[a].task = "spread"}

\* A spreading that begins where none is under way starts the history anew, and
\* it ends with any change of the authority or its nickname, or a spreading
\* that fails.
Passing(begins, breaks) == pristine' = IF breaks THEN FALSE ELSE pristine \/ begins

AuthorityNick(rosters, nicks) == LET g == Authority(rosters) IN IF g = NoGuild THEN Plain(NoName) ELSE nicks[g]
Shifts ==
    \/ Authority(listed') # Authority(listed)
    \/ AuthorityNick(listed', nick').name # AuthorityNick(listed, nick).name

-----------------------------------------------------------------------------

\* propagateMemberName and mirrorNameToNonRosterGuilds: the authority's nickname
\* and the member's rows are read; only the former writes names into rows and
\* queues their rosters.
Spread(from, queue, at) ==
    [task |-> "spread", from |-> from, full |-> nick[from], listed |-> listed,
     todo |-> NameGuild \ {from}, queue |-> queue, at |-> at]

\* handleMemberNicknameChange: an event whose marker can be claimed is the
\* platform's own, and so is every event while markers cannot be looked up.
NicknameEvent(h, g) ==
    /\ nickEvents[g] > 0 /\ naming[h] = Resting
    /\ nickEvents' = [nickEvents EXCEPT ![g] = @ - 1]
    /\ \/ /\ g \in nickMarkers
          /\ nickMarkers' = nickMarkers \ {g}
          /\ UNCHANGED naming /\ Passing(FALSE, FALSE) /\ Works
       \/ /\ g \notin nickMarkers
          /\ naming' = IF Authority(listed) = NoGuild THEN naming
                       ELSE [naming EXCEPT ![h] = Spread(Authority(listed), TRUE, g)]
          /\ UNCHANGED nickMarkers /\ Passing(Spreading = {}, FALSE) /\ Works
       \/ UNCHANGED <<nickMarkers, naming>> /\ Passing(FALSE, TRUE) /\ Fails
    /\ UNCHANGED <<nick, ranked, listed, syncedName, nameJobs, nameEdits>>

\* One guild of a spreading.
SpreadTo(a, g) ==
    LET s == naming[a]
        forms == OwnForms(s.listed, g)
    IN  /\ s.task = "spread" /\ g \in s.todo
        /\ naming' = [naming EXCEPT ![a].todo = @ \ {g}]
        /\ IF ByHandOnly(s.listed, g) \/ (IF forms = {} THEN nick[g] = s.full ELSE ~s.queue)
           THEN Works /\ UNCHANGED <<nick, nickEvents, nickMarkers, syncedName, nameJobs>>
           ELSE IF forms # {}
           THEN /\ syncedName' = [r \in NameRoster |-> IF r \in forms THEN s.full.name ELSE syncedName[r]]
                /\ nameJobs' = nameJobs \cup forms
                /\ Works /\ UNCHANGED <<nick, nickEvents, nickMarkers>>
           ELSE Write(g, s.full) /\ UNCHANGED <<syncedName, nameJobs>>
        /\ UNCHANGED <<ranked, listed, nameEdits>>
        /\ Passing(FALSE, Shifts \/ faults' < faults)

\* The authority's rows carry no synced name, and the rosters of the guild where
\* the nickname was edited are to restore its form.
SpreadEnds(a) ==
    LET s == naming[a]
    IN  /\ s.task = "spread" /\ s.todo = {}
        /\ naming' = [naming EXCEPT ![a] = Resting]
        /\ IF s.queue
           THEN /\ syncedName' = [r \in NameRoster |->
                       IF r \in listed /\ GuildOf[r] = s.from THEN NoName ELSE syncedName[r]]
                /\ nameJobs' = nameJobs \cup {r \in listed \cap FormatsNames : GuildOf[r] = s.at}
           ELSE UNCHANGED <<syncedName, nameJobs>>
        /\ Passing(FALSE, FALSE) /\ Works
        /\ UNCHANGED <<nick, ranked, listed, nickMarkers, nickEvents, nameEdits>>

FaultyTakeNameJob(r) ==
    LET name == nick[GuildOf[r]].name
        built == IF r \in ranked THEN [form |-> r, name |-> name] ELSE Plain(name)
        rename == /\ r \in FormatsNames /\ ~Outranked(listed, r)
                  /\ IF r \in ranked THEN r \notin Yielding /\ built # nick[GuildOf[r]] ELSE r \in listed
    IN  /\ naming["worker"] = Resting /\ r \in nameJobs
        /\ nameJobs' = nameJobs \ {r}
        /\ listed' = IF r \in ranked THEN listed \cup {r} ELSE listed \ {r}
        /\ naming' = IF rename THEN [naming EXCEPT !["worker"] =
                                        [task |-> "rename", roster |-> r, built |-> built]]
                     ELSE naming
        /\ Works
        /\ UNCHANGED <<nick, ranked, syncedName, nickMarkers, nickEvents, nameEdits>>
        /\ Passing(FALSE, Authority(listed') # Authority(listed))

\* The roster worker takes a job for the member: his row follows his roles, and
\* the nickname is built from the synced name or the one he has here.
TakeNameJob(r) ==
    LET name == IF syncedName[r] # NoName THEN syncedName[r] ELSE nick[GuildOf[r]].name
        built == IF r \in ranked THEN [form |-> r, name |-> name] ELSE Plain(name)
        rename == /\ r \in FormatsNames /\ ~Outranked(listed, r)
                  /\ IF r \in ranked THEN r \notin Yielding /\ built # nick[GuildOf[r]] ELSE r \in listed
    IN  /\ naming["worker"] = Resting /\ r \in nameJobs
        /\ nameJobs' = nameJobs \ {r}
        /\ listed' = IF r \in ranked THEN listed \cup {r} ELSE listed \ {r}
        /\ naming' = IF rename THEN [naming EXCEPT !["worker"] =
                                        [task |-> "rename", roster |-> r, built |-> built]]
                     ELSE naming
        /\ Works
        /\ UNCHANGED <<nick, ranked, syncedName, nickMarkers, nickEvents, nameEdits>>
        /\ Passing(FALSE, Authority(listed') # Authority(listed))

\* The nickname is written and then mirrored.
RenameByRoster ==
    LET s == naming["worker"]
    IN  /\ s.task = "rename"
        /\ Write(GuildOf[s.roster], s.built)
        /\ naming' = [naming EXCEPT !["worker"] = [task |-> IF faults' < faults THEN "none" ELSE "mirror"]]
        /\ UNCHANGED <<ranked, listed, syncedName, nameJobs, nameEdits>>
        /\ Passing(FALSE, Shifts \/ faults' < faults)

BeginMirror ==
    /\ naming["worker"].task = "mirror"
    /\ naming' = [naming EXCEPT !["worker"] =
           IF Authority(listed) = NoGuild THEN Resting ELSE Spread(Authority(listed), FALSE, NoGuild)]
    /\ Passing(FALSE, FALSE) /\ Works
    /\ UNCHANGED <<nick, ranked, listed, syncedName, nickMarkers, nickEvents, nameJobs, nameEdits>>

\* runScheduledRosterSweep; the job of a roster he has no part in finds nothing to do.
SweepNames ==
    /\ ~(ranked \cup listed \subseteq nameJobs)
    /\ nameJobs' = nameJobs \cup ranked \cup listed
    /\ Passing(FALSE, FALSE) /\ Works
    /\ UNCHANGED <<nick, ranked, listed, syncedName, nickMarkers, nickEvents, naming, nameEdits>>

-----------------------------------------------------------------------------

NameEdit == nameEdits > 0 /\ nameEdits' = nameEdits - 1 /\ Works

\* Somebody edits the nickname in a guild.
EditNickname(g, name) ==
    /\ nick[g] # Plain(name)
    /\ Renamed(g, Plain(name)) /\ NameEdit
    /\ UNCHANGED <<ranked, listed, syncedName, nickMarkers, nameJobs, naming>>
    /\ Passing(FALSE, Shifts)

\* A rank role changes: the roster is queued, and if the role is managed or
\* mapped too, the name is spread, with the rows as they still are.
RankChanges(r, h) ==
    /\ ranked' = IF r \in ranked THEN ranked \ {r} ELSE ranked \cup {r}
    /\ nameJobs' = nameJobs \cup {r}
    /\ \/ UNCHANGED naming /\ Passing(FALSE, FALSE)
       \/ /\ naming[h] = Resting /\ Authority(listed) # NoGuild
          /\ naming' = [naming EXCEPT ![h] = Spread(Authority(listed), TRUE, NoGuild)]
          /\ Passing(Spreading = {}, FALSE)
    /\ NameEdit
    /\ UNCHANGED <<nick, listed, syncedName, nickMarkers, nickEvents>>

\* setGlobalNickname writes one guild after the other and leaves no marker.
SetGlobalNickname(h, name) ==
    /\ naming[h] = Resting
    /\ naming' = [naming EXCEPT ![h] = [task |-> "global", name |-> name, todo |-> NameGuild]]
    /\ NameEdit /\ Passing(FALSE, FALSE)
    /\ UNCHANGED <<nick, ranked, listed, syncedName, nickMarkers, nickEvents, nameJobs>>

SetNicknameIn(h, g) ==
    LET s == naming[h]
    IN  /\ s.task = "global" /\ g \in s.todo
        /\ naming' = [naming EXCEPT ![h] = IF s.todo = {g} THEN Resting ELSE [s EXCEPT !.todo = @ \ {g}]]
        /\ \/ Renamed(g, Plain(s.name)) /\ Works
           \/ UNCHANGED <<nick, nickEvents>> /\ Fails
        /\ UNCHANGED <<ranked, listed, syncedName, nickMarkers, nameJobs, nameEdits>>
        /\ Passing(FALSE, Shifts)

-----------------------------------------------------------------------------

HandleName(h) ==
    \E g \in NameGuild : NicknameEvent(h, g) \/ SpreadTo(h, g) \/ SetNicknameIn(h, g) \/ SpreadEnds(h)

NameWorker ==
    \/ \E g \in NameGuild : SpreadTo("worker", g)
    \/ SpreadEnds("worker") \/ RenameByRoster \/ BeginMirror

HandleAnyNickname(h) == \E g \in NameGuild : NicknameEvent(h, g)

\* The fairness of what has begun, as for rosters: it has finitely many steps.
\* The queue is first in, first out, so that every job has its turn.
RenamingEnds(a) == []<>(naming[a] = Resting)
NameJobTaken(r) == []<>(r \notin nameJobs)

NamesNext ==
    \/ NameWorker \/ SweepNames \/ \E r \in NameRoster : TakeNameJob(r)
    \/ \E h \in NameHandler : \/ HandleName(h)
                              \/ \E r \in NameRoster : RankChanges(r, h)
                              \/ \E name \in Name : SetGlobalNickname(h, name)
    \/ \E g \in NameGuild, name \in Name : EditNickname(g, name)

-----------------------------------------------------------------------------

\* What each guild shows follows from the authority's name.
NamesAgree ==
    LET a == Authority(listed)
    IN  a # NoGuild =>
            \A g \in NameGuild :
                LET owner == {r \in OwnForms(listed, g) : ~Outranked(listed, r)}
                IN  ByHandOnly(listed, g) \/
                        IF owner # {} THEN \A r \in owner : nick[g] = [form |-> r, name |-> nick[a].name]
                        ELSE nick[g].name = nick[a].name
=============================================================================
