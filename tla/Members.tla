------------------------------ MODULE Members -------------------------------
(***************************************************************************)
(* The platform's accounts: which Discord accounts belong to which user,   *)
(* and website access, which follows the access-tier roles of the main     *)
(* guild.  Access is cached in the user's row, because the website cannot  *)
(* read Discord; a command, a role event and a sweep each recompute it,    *)
(* from a row and from roles they have read before they write.             *)
(*                                                                         *)
(* A tier's capabilities are left out: a role confers access or does not.  *)
(* outdated is history: users whose accounts were changed on outdated      *)
(* reading.  Definitions whose names begin with Faulty are seeded faults.  *)
(***************************************************************************)
EXTENDS Surroundings, Sequences, SequencesExt, FiniteSets

CONSTANTS
    Account,            \* Discord accounts
    User,               \* users there may be
    LinkedAtFirst,      \* the accounts linked in the beginning, in their order
    TierRole,           \* roles of the main guild that may be mapped to access
    Tier,               \* named access tiers there may be
    RootAccount,        \* accounts named in GLOBAL_ADMIN_DISCORD_IDS
    Linker,             \* administrators with member.link and grant.issue
    MaxMemberEdits,     \* bound: edits of accounts, grants, rules, tiers and guild
    MaxRoleMoves,       \* bound: roles given or taken in Discord
    MaxAccessCommands   \* bound: commands

NoAccount == "no account"
NoRule == "no rule"
ByLevel == "level"
Link == [account : Account, user : User]

ASSUME MembersConstants ==
    /\ LinkedAtFirst \in Seq(Link)
    /\ \A i, j \in DOMAIN LinkedAtFirst : LinkedAtFirst[i].account = LinkedAtFirst[j].account => i = j
    /\ RootAccount \subseteq Account
    /\ NoAccount \notin Account /\ {NoRule, ByLevel} \cap Tier = {}
    /\ MaxMemberEdits \in Nat /\ MaxRoleMoves \in Nat /\ MaxAccessCommands \in Nat

VARIABLES
    links,          \* DiscordIdentity rows by linkedAt
    primary,        \* primaryDiscordId of each user
    known,          \* users there are
    access,         \* users with websiteAccess
    fromTier,       \* users with accessFromTier
    grantees,       \* users with a manual grant in force
    tiers,          \* named tiers not deleted
    accessRules,    \* what each role is mapped to
    mainEnabled,    \* whether the main guild is approved and enabled
    tierHolders,    \* Discord: who has each role
    tierEvents,     \* Discord: role changes on their way to the bot
    deciding,       \* what a command, the event handler and the sweep have read
    linking,        \* what each administrator's command has read
    memberEdits, roleMoves, accessCommands, \* what is left of the bounds
    outdated        \* history: see above

memberVars == <<links, primary, known, access, fromTier, grantees, tiers, accessRules, mainEnabled,
                tierHolders, tierEvents, deciding, linking, memberEdits, roleMoves, accessCommands,
                outdated>>

accounts == <<links, primary, known, grantees, linking, outdated>>
mapped == <<tiers, accessRules, mainEnabled>>
discord == <<tierHolders, tierEvents, roleMoves>>

Recomputer == {"command", "handler", "sweep"}
Nothing == [step |-> "none"]

\* A row read for the decision, and the roles read for it.
Decision == [user : User, had : BOOLEAN, byTier : BOOLEAN, should : BOOLEAN]

\* What a command, the event handler and the sweep have read at each step.
AccessReading ==
    {Nothing}
    \cup [step : {"access"}, account : Account, user : User, had : BOOLEAN, byTier : BOOLEAN]
    \cup [step : {"rows"}, holders : SUBSET Account]
    \cup [step : {"rows"}, holders : SUBSET Account, account : Account]
    \cup [step : {"write"}, todo : SUBSET Decision]

\* What an administrator's command has read.
LinkCommand ==
    {Nothing}
    \cup [step : {"link"}, account : Account, user : User, new : BOOLEAN, primary : Account \cup {NoAccount}]
    \cup [step : {"unlink"}, account : Account, user : User, seen : SUBSET Account, granted : BOOLEAN]
    \cup [step : {"grant"}, user : User]

MembersTypeOK ==
    /\ links \in Seq(Link)
    /\ \A i, j \in DOMAIN links : links[i].account = links[j].account => i = j
    /\ primary \in [User -> Account \cup {NoAccount}]
    /\ access \subseteq known /\ known \subseteq User /\ fromTier \subseteq known
    /\ grantees \subseteq known
    /\ tiers \subseteq Tier /\ accessRules \in [TierRole -> Tier \cup {NoRule, ByLevel}]
    /\ mainEnabled \in BOOLEAN
    /\ tierHolders \in [TierRole -> SUBSET Account] /\ tierEvents \subseteq Account \X TierRole
    /\ deciding \in [Recomputer -> AccessReading]
    /\ linking \in [Linker -> LinkCommand]
    /\ memberEdits \in 0 .. MaxMemberEdits /\ roleMoves \in 0 .. MaxRoleMoves
    /\ accessCommands \in 0 .. MaxAccessCommands
    /\ outdated \subseteq User

RowsOf(ls, u) == {i \in DOMAIN ls : ls[i].user = u}
AccountsIn(ls, u) == {ls[i].account : i \in RowsOf(ls, u)}
First(ls, u) == IF RowsOf(ls, u) = {} THEN NoAccount ELSE ls[Min(RowsOf(ls, u))].account
OwnersOf(a) == {links[i].user : i \in {j \in DOMAIN links : links[j].account = a}}

MembersInit ==
    /\ links = LinkedAtFirst
    /\ known = {LinkedAtFirst[i].user : i \in DOMAIN LinkedAtFirst}
    /\ primary = [u \in User |-> First(LinkedAtFirst, u)]
    /\ access = {} /\ fromTier = {} /\ grantees = {}
    /\ tiers = Tier /\ accessRules = [r \in TierRole |-> NoRule]
    /\ mainEnabled = TRUE
    /\ tierHolders = [r \in TierRole |-> {}] /\ tierEvents = {}
    /\ deciding = [r \in Recomputer |-> Nothing]
    /\ linking = [o \in Linker |-> Nothing]
    /\ memberEdits = MaxMemberEdits /\ roleMoves = MaxRoleMoves /\ accessCommands = MaxAccessCommands
    /\ outdated = {}

-----------------------------------------------------------------------------

\* resolveTierAccess: a mapping to a tier that is deleted confers nothing.
Confers(r) == accessRules[r] \in tiers \cup {ByLevel}
Mapped == {r \in TierRole : accessRules[r] # NoRule}
HasTier(a) == mainEnabled /\ \E r \in TierRole : a \in tierHolders[r] /\ Confers(r)

\* resolveTierAccessForMember: whatever fails counts as no access.
ReadsAccess(a, should) == (should = HasTier(a) /\ Works) \/ (should = FALSE /\ Fails)

\* A row that is written while its user is new, with an account as the primary one.
CreateUser(u, a) ==
    /\ u \notin known /\ known' = known \cup {u}
    /\ links' = Append(links, [account |-> a, user |-> u])
    /\ primary' = [primary EXCEPT ![u] = a]

RowOf(u, should) ==
    [user |-> u, had |-> u \in access, byTier |-> u \in fromTier, should |-> should]

FaultySyncWebsiteAccess(d) ==
    IF d.had = d.should \/ ~d.byTier THEN UNCHANGED <<access, fromTier>>
    ELSE access' = access \ {d.user} /\ fromTier' = fromTier \ {d.user}

\* syncWebsiteAccess, on the row as it was read: only what a tier has given is
\* taken back.
SyncWebsiteAccess(d) ==
    IF d.had = d.should \/ (~d.should /\ ~d.byTier) THEN UNCHANGED <<access, fromTier>>
    ELSE IF d.should THEN access' = access \cup {d.user} /\ fromTier' = fromTier \cup {d.user}
    ELSE access' = access \ {d.user} /\ fromTier' = fromTier \ {d.user}

\* resolveDiscordActor, which every command goes through: the access first,
\* then the account, which is created for a holder who has none.
StartCommand(a) ==
    /\ deciding["command"] = Nothing
    /\ accessCommands > 0 /\ accessCommands' = accessCommands - 1
    /\ \E should \in BOOLEAN :
           /\ ReadsAccess(a, should)
           /\ deciding' = [deciding EXCEPT !["command"] =
                  [step |-> "rows", holders |-> IF should THEN {a} ELSE {}, account |-> a]]
    /\ UNCHANGED <<accounts, mapped, discord, access, fromTier, memberEdits>>

LoadActor ==
    LET c == deciding["command"]
        should == c.account \in c.holders
    IN  /\ c.step = "rows"
        /\ \/ \E u \in OwnersOf(c.account) :
                  /\ deciding' = [deciding EXCEPT !["command"] =
                         [step |-> "write", todo |-> {RowOf(u, should)}]]
                  /\ UNCHANGED <<links, primary, known>>
           \/ /\ OwnersOf(c.account) = {} /\ should
              /\ \E u \in User : /\ CreateUser(u, c.account)
                                 /\ deciding' = [deciding EXCEPT !["command"] =
                                        [step |-> "write", todo |-> {RowOf(u, TRUE)}]]
           \/ /\ OwnersOf(c.account) = {} /\ ~should
              /\ deciding' = [deciding EXCEPT !["command"] = Nothing]
              /\ UNCHANGED <<links, primary, known>>
        /\ Works
        /\ UNCHANGED <<access, fromTier, grantees, mapped, discord, linking, memberEdits, accessCommands,
                       outdated>>

\* syncWebsiteAccessForRoleChange: a role that is mapped to anything, of a
\* linked account; here the row is read first.
HandleTierEvent(a, r) ==
    /\ <<a, r>> \in tierEvents /\ deciding["handler"] = Nothing
    /\ tierEvents' = tierEvents \ {<<a, r>>}
    /\ deciding' = [deciding EXCEPT !["handler"] =
           IF r \in Mapped /\ OwnersOf(a) # {}
           THEN LET u == CHOOSE v \in OwnersOf(a) : TRUE
                IN  [step |-> "access", account |-> a, user |-> u, had |-> u \in access, byTier |-> u \in fromTier]
           ELSE Nothing]
    /\ Works
    /\ UNCHANGED <<accounts, mapped, access, fromTier, tierHolders, roleMoves, memberEdits, accessCommands>>

ReadTierOfChange ==
    LET h == deciding["handler"]
    IN  /\ h.step = "access"
        /\ \E should \in BOOLEAN :
               /\ ReadsAccess(h.account, should)
               /\ deciding' = [deciding EXCEPT !["handler"] = [step |-> "write", todo |->
                      {[user |-> h.user, had |-> h.had, byTier |-> h.byTier, should |-> should]}]]
        /\ UNCHANGED <<accounts, mapped, discord, access, fromTier, memberEdits, accessCommands>>

\* reconcileWebsiteAccess: the rules and all members, then the users, then one
\* write after the other.  It does nothing without a rule or a main guild, and
\* takes members it cannot list for none.
BeginAccessSweep ==
    /\ deciding["sweep"] = Nothing /\ mainEnabled /\ Mapped # {}
    /\ \E holders \in SUBSET Account :
           /\ deciding' = [deciding EXCEPT !["sweep"] = [step |-> "rows", holders |-> holders]]
           /\ (holders = {a \in Account : HasTier(a)} /\ Works) \/ (holders = {} /\ Fails)
    /\ UNCHANGED <<accounts, mapped, discord, access, fromTier, memberEdits, accessCommands>>

SweepReadsUsers ==
    LET s == deciding["sweep"]
        todo == {RowOf(u, primary[u] \in s.holders) : u \in known}
    IN  /\ s.step = "rows"
        /\ deciding' = [deciding EXCEPT !["sweep"] =
               IF todo = {} THEN Nothing ELSE [step |-> "write", todo |-> todo]]
        /\ Works
        /\ UNCHANGED <<accounts, mapped, discord, access, fromTier, memberEdits, accessCommands>>

\* What is left to write after a decision.
After(d, x) ==
    IF deciding[x].todo = {d} THEN Nothing ELSE [step |-> "write", todo |-> deciding[x].todo \ {d}]

WriteAccess(x) ==
    /\ deciding[x].step = "write"
    /\ \E d \in deciding[x].todo :
           /\ deciding' = [deciding EXCEPT ![x] = After(d, x)]
           /\ SyncWebsiteAccess(d)
    /\ Works
    /\ UNCHANGED <<accounts, mapped, discord, memberEdits, accessCommands>>

-----------------------------------------------------------------------------

MemberEdit == memberEdits > 0 /\ memberEdits' = memberEdits - 1 /\ UNCHANGED <<deciding, accessCommands>>

\* reconcileGlobalAdmins, when the bot starts; the tier flag is left as it is.
ReconcileGlobalAdmin(a) ==
    /\ a \in RootAccount
    /\ \/ \E u \in OwnersOf(a) : access' = access \cup {u} /\ UNCHANGED <<links, primary, known>>
       \/ OwnersOf(a) = {} /\ \E u \in User : CreateUser(u, a) /\ access' = access \cup {u}
    /\ MemberEdit /\ Works
    /\ UNCHANGED <<fromTier, grantees, mapped, discord, linking, outdated>>

\* linkMember reads first: the account is free, and the user as he is (or a new one).
BeginLink(o, a, u) ==
    /\ linking[o] = Nothing
    /\ OwnersOf(a) = {}
    /\ linking' = [linking EXCEPT ![o] = [step |-> "link", account |-> a, user |-> u,
                                          new |-> u \notin known, primary |-> primary[u]]]
    /\ MemberEdit /\ Works
    /\ UNCHANGED <<links, primary, known, grantees, access, fromTier, mapped, discord, outdated>>

FaultyCommitLink(o) ==
    LET c == linking[o]
    IN  /\ c.step = "link"
        /\ linking' = [linking EXCEPT ![o] = Nothing]
        /\ links' = Append(links, [account |-> c.account, user |-> c.user])
        /\ known' = known \cup {c.user}
        /\ primary' = IF c.primary = NoAccount THEN [primary EXCEPT ![c.user] = c.account] ELSE primary
        /\ Works
        /\ UNCHANGED <<outdated, grantees, access, fromTier, mapped, discord, deciding, memberEdits,
                       accessCommands>>

\* The transaction fails if the account has been linked meanwhile.
CommitLink(o) ==
    LET c == linking[o]
        free == OwnersOf(c.account) = {} /\ (c.new => c.user \notin known)
    IN  /\ c.step = "link"
        /\ linking' = [linking EXCEPT ![o] = Nothing]
        /\ IF ~free THEN UNCHANGED <<links, primary, known, outdated>>
           ELSE /\ links' = Append(links, [account |-> c.account, user |-> c.user])
                /\ known' = known \cup {c.user}
                /\ primary' = IF c.primary = NoAccount THEN [primary EXCEPT ![c.user] = c.account] ELSE primary
                /\ outdated' = IF primary[c.user] # c.primary THEN outdated \cup {c.user} ELSE outdated
        /\ Works
        /\ UNCHANGED <<grantees, access, fromTier, mapped, discord, deciding, memberEdits, accessCommands>>

FaultyBeginUnlink(o, a) ==
    /\ linking[o] = Nothing
    /\ \E u \in OwnersOf(a) :
           linking' = [linking EXCEPT ![o] = [step |-> "unlink", account |-> a, user |-> u,
                                              seen |-> AccountsIn(links, u), granted |-> u \in grantees]]
    /\ MemberEdit /\ Works
    /\ UNCHANGED <<links, primary, known, grantees, access, fromTier, mapped, discord, outdated>>

\* unlinkMember reads the identity and refuses to take the last account of a
\* user with grants.
BeginUnlink(o, a) ==
    /\ linking[o] = Nothing
    /\ \E u \in OwnersOf(a) :
           /\ ~(AccountsIn(links, u) = {a} /\ u \in grantees)
           /\ linking' = [linking EXCEPT ![o] = [step |-> "unlink", account |-> a, user |-> u,
                                                 seen |-> AccountsIn(links, u), granted |-> u \in grantees]]
    /\ MemberEdit /\ Works
    /\ UNCHANGED <<links, primary, known, grantees, access, fromTier, mapped, discord, outdated>>

\* The transaction deletes the row, and the oldest of the remaining accounts
\* becomes the primary one; it fails if the row is gone.
CommitUnlink(o) ==
    LET c == linking[o]
        row == [account |-> c.account, user |-> c.user]
    IN  /\ c.step = "unlink"
        /\ linking' = [linking EXCEPT ![o] = Nothing]
        /\ \/ \E i \in DOMAIN links :
                  /\ links[i] = row /\ links' = RemoveAt(links, i)
                  /\ primary' = [primary EXCEPT ![c.user] = First(links', c.user)]
                  /\ outdated' = IF c.seen # AccountsIn(links, c.user) \/ c.granted # (c.user \in grantees)
                                 THEN outdated \cup {c.user} ELSE outdated
           \/ row \notin {links[i] : i \in DOMAIN links} /\ UNCHANGED <<links, primary, outdated>>
        /\ Works
        /\ UNCHANGED <<known, grantees, access, fromTier, mapped, discord, deciding, memberEdits, accessCommands>>

\* issueGrant reads the user, by an account or by his id (resolveUser): whom it
\* finds by id need not have an account.
ReadGrantee(o, u) ==
    /\ linking[o] = Nothing
    /\ u \in known
    /\ linking' = [linking EXCEPT ![o] = [step |-> "grant", user |-> u]]
    /\ MemberEdit /\ Works
    /\ UNCHANGED <<links, primary, known, grantees, access, fromTier, mapped, discord, outdated>>

\* The transaction does not look at the accounts again.
IssueGrant(o) ==
    /\ linking[o].step = "grant"
    /\ linking' = [linking EXCEPT ![o] = Nothing]
    /\ grantees' = grantees \cup {linking[o].user}
    /\ Works
    /\ UNCHANGED <<links, primary, known, access, fromTier, mapped, discord, deciding, memberEdits,
                   accessCommands, outdated>>

\* The last grant of a user in force is revoked or runs out.
EndGrants(u) ==
    /\ u \in grantees /\ grantees' = grantees \ {u}
    /\ MemberEdit /\ Works
    /\ UNCHANGED <<links, primary, known, access, fromTier, mapped, discord, linking, outdated>>

\* resyncMember creates the user of an account that is new (resolveOrCreateUser).
ResyncMember(a) ==
    /\ OwnersOf(a) = {} /\ \E u \in User : CreateUser(u, a)
    /\ MemberEdit /\ Works
    /\ UNCHANGED <<grantees, access, fromTier, mapped, discord, linking, outdated>>

\* setAccessTier maps a role to a tier there is or to a level, one in the place
\* of the other; removeAccessTier ends the mapping.
SetAccessRule(r, rule) ==
    /\ rule \in tiers \cup {ByLevel, NoRule}
    /\ accessRules' = [accessRules EXCEPT ![r] = rule]
    /\ MemberEdit /\ Works
    /\ UNCHANGED <<accounts, tiers, access, fromTier, mainEnabled, discord>>

CreateTier(t) ==
    /\ t \notin tiers /\ tiers' = tiers \cup {t}
    /\ MemberEdit /\ Works
    /\ UNCHANGED <<accounts, accessRules, access, fromTier, mainEnabled, discord>>

\* deleteTier ends the mappings to the tier in the same transaction.
DeleteTier(t) ==
    /\ t \in tiers /\ tiers' = tiers \ {t}
    /\ accessRules' = [r \in TierRole |-> IF accessRules[r] = t THEN NoRule ELSE accessRules[r]]
    /\ MemberEdit /\ Works
    /\ UNCHANGED <<accounts, access, fromTier, mainEnabled, discord>>

ToggleMainGuild ==
    /\ mainEnabled' = ~mainEnabled
    /\ MemberEdit /\ Works
    /\ UNCHANGED <<accounts, access, fromTier, tiers, accessRules, discord>>

\* A role changes hands; the event of a change that the platform itself made
\* is taken for an echo, and one may be lost.
TierRoleMoves(a, r) ==
    /\ roleMoves > 0 /\ roleMoves' = roleMoves - 1
    /\ tierHolders' = [tierHolders EXCEPT ![r] = IF a \in @ THEN @ \ {a} ELSE @ \cup {a}]
    /\ tierEvents' \in {tierEvents, tierEvents \cup {<<a, r>>}}
    /\ Works
    /\ UNCHANGED <<accounts, mapped, access, fromTier, deciding, memberEdits, accessCommands>>

-----------------------------------------------------------------------------

AccessSweep == BeginAccessSweep \/ SweepReadsUsers \/ WriteAccess("sweep")

MembersNext ==
    \/ AccessSweep \/ LoadActor \/ ReadTierOfChange \/ WriteAccess("command") \/ WriteAccess("handler")
    \/ ToggleMainGuild
    \/ \E t \in Tier : CreateTier(t) \/ DeleteTier(t)
    \/ \E r \in TierRole, rule \in Tier \cup {ByLevel, NoRule} : SetAccessRule(r, rule)
    \/ \E a \in Account : \/ StartCommand(a) \/ ReconcileGlobalAdmin(a) \/ ResyncMember(a)
                          \/ \E r \in TierRole : HandleTierEvent(a, r) \/ TierRoleMoves(a, r)
    \/ \E u \in User : EndGrants(u)
    \/ \E o \in Linker : \/ CommitLink(o) \/ CommitUnlink(o) \/ IssueGrant(o)
                         \/ \E u \in User : ReadGrantee(o, u)
                         \/ \E a \in Account : BeginUnlink(o, a) \/ \E u \in User : BeginLink(o, a, u)

-----------------------------------------------------------------------------

\* While a role is mapped and the main guild is enabled, a user has access by a
\* tier exactly when his primary account has a role that confers it.
AccessFollowsRoles ==
    mainEnabled /\ Mapped # {} =>
        \A u \in known : IF primary[u] # NoAccount /\ HasTier(primary[u]) THEN u \in access
                         ELSE u \in access => u \notin fromTier

PrimaryIsOldest == \A u \in known \ outdated : primary[u] = First(links, u)
LastAccountStays ==
    \A u \in grantees \ outdated' : AccountsIn(links, u) # {} => AccountsIn(links', u) # {}

\* A user's primary account is the oldest linked to him, and no step takes the
\* last account of a user with a grant, unless two changes of his accounts or an
\* unlinking and a grant overlapped.  That a user with a grant has an account is
\* not so: one may be issued when the last account has gone (grant-service.js).
AccountsInOrder == []PrimaryIsOldest /\ [][LastAccountStays]_memberVars
=============================================================================
