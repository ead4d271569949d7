----------------------------- MODULE Templates ------------------------------
(***************************************************************************)
(* The server templates of /setup: which roles and channels a server has.  *)
(* A template is the sequence of its roles, each a key and a name, the     *)
(* sequence of its categories, each with the keys of the roles that see it *)
(* and the channels in it, and the key of the role the platform manages,   *)
(* <<>> if there is none.                                                  *)
(*                                                                         *)
(* Names are in lower case, as the program compares them.  Left out are    *)
(* the prefix that the tag, or FLRP, puts before a name, which cannot make *)
(* two names one, colours and hoisting, and "own-" stands for the tag in   *)
(* the name of a channel.  A category without overwrites, or with nothing  *)
(* but a ban on writing, is seen by everyone.                              *)
(***************************************************************************)
EXTENDS Naturals, Sequences, FiniteSets, SequencesExt

ChannelType == {"text", "voice", "forum"}

Channels(type, names) == [i \in DOMAIN names |-> [type |-> type, name |-> names[i]]]
Text(names) == Channels("text", names)
Voice(names) == Channels("voice", names)
Forum(names) == Channels("forum", names)

Everyone == {"everyone"}

-----------------------------------------------------------------------------

\* The department template.

DepartmentTag == {"HCSO", "FHP", "TPD"}

\* The titles of an agency; the fourth ones are there or not.
AgencyProfile(tag) ==
    CASE tag = "HCSO" ->
            [agencyHead |-> "sheriff", secondInCommand |-> "undersheriff",
             thirdInCommand |-> "chief deputy", fourthInCommand |-> <<"colonel">>,
             seniorMember |-> "master deputy", memberThree |-> "deputy iii",
             memberTwo |-> "deputy ii", memberOne |-> "deputy i", entryRank |-> "cadet",
             headOffice |-> "sheriff's office", secondOffice |-> "undersheriff's office",
             thirdOffice |-> "chief deputy's office", fourthOffice |-> <<"colonel's office">>]
      [] tag = "FHP" ->
            [agencyHead |-> "colonel", secondInCommand |-> "lieutenant colonel",
             thirdInCommand |-> "chief major", fourthInCommand |-> <<>>,
             seniorMember |-> "master trooper", memberThree |-> "trooper iii",
             memberTwo |-> "trooper ii", memberOne |-> "trooper i",
             entryRank |-> "probationary trooper",
             headOffice |-> "colonel's office", secondOffice |-> "lieutenant colonel's office",
             thirdOffice |-> "chief major's office", fourthOffice |-> <<>>]
      [] tag = "TPD" ->
            [agencyHead |-> "chief of police", secondInCommand |-> "assistant chief of police",
             thirdInCommand |-> "deputy chief", fourthInCommand |-> <<>>,
             seniorMember |-> "master police officer", memberThree |-> "police officer iii",
             memberTwo |-> "police officer ii", memberOne |-> "police officer i",
             entryRank |-> "cadet",
             headOffice |-> "chief's office", secondOffice |-> "assistant chief's office",
             thirdOffice |-> "deputy chief's office", fourthOffice |-> <<>>]

CommandAccess == {"command", "department-head"}
SupervisorAccess == {"supervisor"} \cup CommandAccess
MemberAccess == {"member"} \cup SupervisorAccess
SupportServicesAccess ==
    {"support-services-division", "training-division", "recruiting-division",
     "academy-instructor", "senior-fto", "fto"} \cup CommandAccess
InternalAffairsAccess == {"internal-affairs", "internal-affairs-lead", "department-head"}
ScuAccess == {"street-crimes-unit", "street-crimes-leadership"} \cup CommandAccess
CidAccess == {"cid", "cid-leadership"} \cup CommandAccess
K9Access == {"canine-unit", "canine-leadership"} \cup CommandAccess

HeadRoles(p) ==
    << <<"department-head", "department head">>, <<"agency-head", p.agencyHead>>,
      <<"second-in-command", p.secondInCommand>>,
      <<"third-in-command", p.thirdInCommand>> >>
    \o [i \in DOMAIN p.fourthInCommand |-> <<"fourth-in-command", p.fourthInCommand[i]>>]

RankRoles(p) ==
    << <<"major", "major">>, <<"captain", "captain">>, <<"lieutenant", "lieutenant">>,
      <<"sergeant", "sergeant">>, <<"corporal", "corporal">>,
      <<"senior-member", p.seniorMember>>, <<"member-three", p.memberThree>>,
      <<"member-two", p.memberTwo>>, <<"member-one", p.memberOne>>,
      <<"cadet", p.entryRank>>, <<"applicant", "applicant">> >>

StaffRoles ==
    << <<"command", "command staff">>, <<"supervisor", "supervisor">>,
      <<"member", "department member">>, <<"patrol-officers", "patrol officers">>,
      <<"subdivision-head", "subdivision head">>,
      <<"operations-division", "operations division">>,
      <<"special-operations-division", "special operations division">>,
      <<"support-services-division", "support services division">>,
      <<"administrative-division", "administrative division">>,
      <<"training-division", "training division">>,
      <<"patrol-division", "patrol division">>,
      <<"recruiting-division", "recruiting division">>,
      <<"internal-affairs-lead", "internal affairs lead">>,
      <<"internal-affairs", "internal affairs">>,
      <<"leave-of-absence", "leave of absence">>,
      <<"department-pto", "department pto">>, <<"probation", "probation">>,
      <<"recruitment-team", "recruitment team">>,
      <<"pio", "public information officer">> >>

UnitRoles ==
    << <<"academy-instructor", "academy instructor">>,
      <<"senior-fto", "senior field training officer">>,
      <<"fto", "field training officer">>, <<"swat-commander", "swat commander">>,
      <<"swat-executive-commander", "swat executive commander">>,
      <<"swat-executive-officer", "swat executive officer">>,
      <<"swat-supervisory-operator", "swat supervisory operator">>,
      <<"swat-operator", "swat operator">>, <<"swat-recruit", "swat recruit">>,
      <<"swat", "special weapons & tactics">>,
      <<"street-crimes-leadership", "street crimes leadership">>,
      <<"street-crimes-unit", "street crimes unit">>,
      <<"cid-leadership", "cid leadership">>,
      <<"cid", "criminal investigations division">>,
      <<"canine-leadership", "canine leadership">>, <<"canine-unit", "canine unit">> >>

PublicCategories ==
    <<[name |-> "support center", sees |-> Everyone, channels |->
           Text(<<"web-tickets">>)],
      [name |-> "recruitment center", sees |-> Everyone, channels |->
           Text(<<"join-us">>)
        \o Forum(<<"public-bulletins">>)
        \o Text(<<"official-media", "name-request", "visitor-chat">>)],
      [name |-> "information", sees |-> Everyone, channels |->
           Text(<<"rules", "announcements", "own-information", "policy-updates",
                  "promotions", "subdivisions">>)]>>

MemberCategories ==
    <<[name |-> "general", sees |-> MemberAccess, channels |->
           Text(<<"main-chat", "pictures", "own-unfiltered">>)
        \o Forum(<<"dept-suggestions">>)
        \o Text(<<"phone-numbers", "commendations">>)
        \o Voice(<<"on duty", "on duty 2", "general", "lounge", "conference room">>)],
      [name |-> "requests", sees |-> MemberAccess, channels |->
           Text(<<"request-interview">>)
        \o Forum(<<"request-training">>)
        \o Text(<<"request-supervisor", "request-command", "report-corrections">>)]>>

PatrolCategory ==
    <<[name |-> "patrol services", sees |-> MemberAccess, channels |->
           Text(<<"patrol-reminders", "patrol-zones", "division-one", "division-two",
                  "division-three", "division-four", "division-five",
                  "tsd-announcements", "traffic-division", "traffic-division-reports",
                  "tsd-applications", "activity-check">>)
        \o Voice(<<"tsd | general">>)]>>

SupportCategories ==
    <<[name |-> "support services division", sees |-> SupportServicesAccess, channels |->
           Text(<<"training-announcements", "training-info", "recruiting-info",
                  "fto-chat", "cadet-announcements", "support-reports">>)
        \o Voice(<<"training office", "field training - 1", "field training - 2",
                   "field training - 3", "field training - 4", "interview room - 1",
                   "interview room - 2", "waiting for support services">>)]>>

UnitCategories ==
    <<[name |-> "street crimes unit", sees |-> ScuAccess, channels |->
           Text(<<"scu-announcements", "scu-information", "scu-leadership",
                  "scu-chat">>)
        \o Forum(<<"scu-database">>)
        \o Text(<<"scu-applications", "scu-reports">>)
        \o Forum(<<"investigations-cases">>)
        \o Voice(<<"scu command office", "scu lounge">>)],
      [name |-> "cid", sees |-> CidAccess, channels |->
           Text(<<"cid-announcements", "cid-information", "cid-chat", "cid-request",
                  "cid-leadership", "cid-applications">>)
        \o Voice(<<"cid commander office">>)],
      [name |-> "canine unit", sees |-> K9Access, channels |->
           Text(<<"k9-announcements", "k9-information", "k9-chat", "k9-request",
                  "k9-training-request", "k9-leadership", "k9-applications">>)
        \o Voice(<<"k9 commander office", "k9 lounge">>)]>>

CommandCategories ==
    <<[name |-> "supervisors", sees |-> SupervisorAccess, channels |->
           Text(<<"supervisor-announcements", "supervisor-information",
                  "supervisor-chat", "bot-commands">>)
        \o Voice(<<"supervisor's room", "supervisor meeting room",
                   "waiting for supervisors">>)],
      [name |-> "division command center", sees |-> CommandAccess, channels |->
           Text(<<"homeland-division", "training-division", "outreach-division",
                  "patrol-division", "admin-division">>)],
      [name |-> "administrative logs", sees |-> CommandAccess, channels |->
           Text(<<"work-orders", "fto-logbook", "interview-logbook", "coaching-da",
                  "nonverbal-da", "admin-logs">>)]>>

CommandStaffCategory(p) ==
    <<[name |-> "command staff", sees |-> CommandAccess, channels |->
           Text(<<"command-announcements", "command-information", "command-chat",
                  "senior-command-chat", "high-command-chat", "department-head-chat",
                  "welcome-leave", "duty-logs", "bot-cmds", "own-applications",
                  "admin-tasks", "transfer-requests", "fdle-cases">>)
        \o Voice(<<p.headOffice, p.secondOffice, p.thirdOffice>> \o p.fourthOffice \o
                 <<"major's office", "captain's office", "lieutenant's office",
                   "command meeting room", "command lounge", "waiting for command">>)]>>

AffairsCategories ==
    <<[name |-> "internal affairs", sees |-> InternalAffairsAccess, channels |->
           Text(<<"internal-affairs">>)
        \o Forum(<<"ia-cases">>)
        \o Text(<<"ia-requests">>)
        \o Voice(<<"ia office", "ia waiting room">>)],
      [name |-> "disciplinary logs archive", sees |-> CommandAccess, channels |->
           Text(<<"da-logbook-archive">>)],
      [name |-> "logs", sees |-> CommandAccess, channels |->
           Text(<<"ticket-transcripts", "vortex-logs">>)]>>

\* buildDepartmentTemplate; a tag without a profile is refused before.
DepartmentTemplate(tag) ==
    LET p == AgencyProfile(tag)
    IN  [roles |-> HeadRoles(p) \o RankRoles(p) \o StaffRoles \o UnitRoles,
         categories |-> PublicCategories \o MemberCategories \o PatrolCategory
                        \o SupportCategories \o UnitCategories \o CommandCategories
                        \o CommandStaffCategory(p) \o AffairsCategories,
         managed |-> <<"member">>]

-----------------------------------------------------------------------------

\* The community template.

OwnershipAccess == {"ownership"}
DirectorAccess == {"community-director"} \cup OwnershipAccess
StaffAccess == {"server-staff"} \cup DirectorAccess
DepartmentHeadAccess == {"department-head"} \cup DirectorAccess
EmergencyServicesAccess == {"law-enforcement"} \cup DirectorAccess
DonatorAccess == {"donator", "diamond-supporter", "platinum-supporter"} \cup DirectorAccess

CommunityRoles ==
    << <<"ownership", "ownership">>, <<"community-director", "community director">>,
      <<"server-staff", "server staff team">>, <<"department-head", "department head">>,
      <<"es-subdivision-head", "es subdivision head">>,
      <<"law-enforcement", "law enforcement">>,
      <<"officer-of-the-month", "officer of the month">>,
      <<"civilian-director", "civilian director">>,
      <<"civilian-supervisor", "civilian supervisor">>,
      <<"certified-civilian-plus", "certified civilian+">>,
      <<"certified-civilian", "certified civilian">>,
      <<"gangs-administration", "gangs administration">>,
      <<"assistant-gangs-administration", "asst. gangs administration">>,
      <<"diamond-le-supporter", "diamond tier (le) supporter">>,
      <<"diamond-civ-supporter", "diamond tier (civ) supporter">>,
      <<"diamond-supporter", "diamond tier supporter">>,
      <<"platinum-supporter", "platinum tier supporter">>,
      <<"gold-le-supporter", "gold tier (le) supporter">>,
      <<"gold-civ-supporter", "gold tier (civ) supporter">>, <<"donator", "donator">>,
      <<"retired-director", "retired director">>,
      <<"retired-server-staff", "retired server staff">>,
      <<"retired-department-head", "retired department head">>,
      <<"whitelisted-member", "whitelisted member">>, <<"member", "community member">> >>

OwnershipCategories ==
    <<[name |-> "server information", sees |-> Everyone, channels |->
           Voice(<<"members: loading...">>)],
      [name |-> "ownership team", sees |-> OwnershipAccess, channels |->
           Text(<<"senior-ownership-chat", "ownership-chat", "ownership-to-do",
                  "bot-testing", "all-duty-logs", "bot-error-logs",
                  "irl-verification-logs", "all-logs", "security-logs">>)
        \o Voice(<<"owner's office", "deputy owner's office",
                   "assistant owner's office", "ownership | lounge",
                   "ownership | waiting room">>)]>>

DirectorCategories ==
    <<[name |-> "director team", sees |-> DirectorAccess, channels |->
           Text(<<"director-announcements", "director-information",
                  "ownership-transcripts", "director-vehicles", "director-voting",
                  "senior-director-chat", "director-chat", "director-logs",
                  "clout-level-logs">>)
        \o Voice(<<"staff director's office", "development director's office",
                   "es director's office", "civilian director's office",
                   "asst. staff director's office",
                   "asst. development director's office", "asst. es director's office",
                   "asst. civilian director's office", "director | lounge",
                   "director | waiting room">>)]>>

ServerStaffCategories ==
    <<[name |-> "server staff team", sees |-> StaffAccess, channels |->
           Text(<<"staff-announcements", "staff-information", "staff-activity",
                  "head-admin-chat", "senior-admin-chat", "admin-chat",
                  "staff-main-chat", "ingame-staff-chat", "staff-bot-cmds",
                  "administrative-logs", "request-interview", "exam-notifications",
                  "ban-requests", "whitelisted-da-requests", "whitelisted-apps">>)
        \o Voice(<<"staff | head admin office", "staff | sr. admin office",
                   "staff | admin office", "staff | review office", "staff | office",
                   "staff | office ii", "staff | office iii", "staff | office iv",
                   "staff | office v", "staff | watch", "staff | lounge",
                   "staff | interview room", "staff | exam room",
                   "staff | waiting room">>)]>>

LogCategories ==
    <<[name |-> "web logs", sees |-> StaffAccess, channels |->
           Text(<<"ftp-logs", "ftp-admin-logs", "live-map-logs",
                  "support-portal-leadership-tickets", "support-portal-messages",
                  "calendar-logs", "status-alerts", "ia-web-logs",
                  "internal-records-logs", "external-records-logs",
                  "support-portal-logins", "support-bot-logs">>)],
      [name |-> "discord logs", sees |-> StaffAccess, channels |->
           Text(<<"wick-logs", "wick-admin-logs", "beemo-logs", "dono-logs",
                  "giftcard-logs", "general-logs", "chatclear-logs", "timeout-logs",
                  "role-logs", "aux-bot-logs", "voice-channel-logs", "globalban-logs",
                  "vortex-logs", "sonoran-cad-updates", "sonoran-cad-logs",
                  "sonoran-cms-logs", "ticket-logs", "email-check-logs">>)]>>

InGameLogCategories ==
    <<[name |-> "in-game logs", sees |-> StaffAccess, channels |->
           Text(<<"join-logs", "leave-logs", "death-logs", "shooting-logs",
                  "namechange-logs", "damage-logs", "chatfilter-logs", "chat-logs",
                  "aop-logs", "blocked-connection-logs", "nex-ui-logs", "winch-logs",
                  "staff-blip-logs", "staff-jail-logs", "tx-discipline-logs",
                  "personal-vehicle-logs", "staff-reports", "revive-logs",
                  "jail-hospital-logs", "menu-logs", "undercover-logs", "taser-logs",
                  "thermal-logs", "ingame-msg-logs", "spectate-logs", "money-logs",
                  "temp-id-logs", "grab-logs", "trucker-logs", "time-weather-logs",
                  "music-logs", "repair-logs", "hitch-logs", "staff-vest-logs",
                  "trustscore-alerts", "bomb-logs">>)]>>

DonatorCategories ==
    <<[name |-> "anticheat logs", sees |-> StaffAccess, channels |->
           Text(<<"warn-logs", "kick-logs">>)],
      [name |-> "phone logs", sees |-> StaffAccess, channels |->
           Text(<<"call-logs", "message-logs", "instagram-logs", "twitter-logs",
                  "yellowpages-logs", "marketplace-logs", "darkchat-logs",
                  "media-logs">>)],
      [name |-> "donator section", sees |-> DonatorAccess, channels |->
           Text(<<"donator-information", "personal-vehicle-request",
                  "donator-only-chat", "archive-list", "tebex-support">>)
        \o Voice(<<"donator | lounge", "donator | waiting room">>)]>>

InformationCategories ==
    <<[name |-> "information", sees |-> Everyone, channels |->
           Text(<<"announcements", "internal-announcements", "server-information",
                  "server-commands", "server-status", "queue-status", "cad-access",
                  "broken-lights-fix", "dept-information", "money-leaderboard",
                  "leadership-directory", "server-change-log", "server-updates",
                  "rule-updates", "live-bans">>)]>>

GeneralCategories ==
    <<[name |-> "general", sees |-> Everyone, channels |->
           Text(<<"support", "main-chat", "main-chat-unhinged", "whitelisted-chat",
                  "ingame-chat", "ingame-content", "going-live">>)
        \o Forum(<<"server-suggestions", "report-server-bugs", "new-cad-topics">>)
        \o Text(<<"phone-twitter", "phone-instagram", "commendations", "minecraft",
                  "truth-social">>)
        \o Voice(<<"public voice", "civilian", "minecraft", "community town hall",
                   "court room">>)]>>

DepartmentHeadCategories ==
    <<[name |-> "department heads", sees |-> DepartmentHeadAccess, channels |->
           Text(<<"dept-head-announcements", "dept-head-information",
                  "es-administrative-logs", "email-database", "es-statistics",
                  "es-numbers", "hcso-statistics", "tpd-statistics", "fhp-statistics",
                  "hcfr-statistics", "department-heads", "dept-head-requests",
                  "approval-requests">>)
        \o Voice(<<"dept. head | meeting room">>)]>>

EmergencyCategories ==
    <<[name |-> "emergency services", sees |-> EmergencyServicesAccess, channels |->
           Text(<<"es-announcements", "es-information", "es-radio-info", "es-commands",
                  "es-chat", "es-supervisors", "es-command-staff",
                  "es-subdivision-heads">>)
        \o Forum(<<"penal-code-suggestions">>)
        \o Text(<<"in-game-911-logs", "warrant-requests", "major-gun-crimes",
                  "es-bot-commands", "dispatch-chat", "es-training-schedule">>)
        \o Voice(<<"es | command staff", "es | relaxation room", "es | meeting hall",
                   "es | supervisor room">>)]>>

CommunityTemplate ==
    [roles |-> CommunityRoles,
     categories |-> OwnershipCategories \o DirectorCategories \o ServerStaffCategories
                    \o LogCategories \o InGameLogCategories \o DonatorCategories
                    \o InformationCategories \o GeneralCategories
                    \o DepartmentHeadCategories \o EmergencyCategories,
     managed |-> <<>>]

-----------------------------------------------------------------------------

Distinct(s) == IsInjective(s)
RoleKeys(t) == {t.roles[i][1] : i \in DOMAIN t.roles}

\* What makes matching by name safe and overwrites complete: no name is used
\* twice where it is looked for, every role an overwrite or the wire-in names is
\* there, and every category is seen by somebody.
SoundTemplate(t) ==
    /\ Distinct([i \in DOMAIN t.roles |-> t.roles[i][1]])
    /\ Distinct([i \in DOMAIN t.roles |-> t.roles[i][2]])
    /\ Distinct([i \in DOMAIN t.categories |-> t.categories[i].name])
    /\ \A i \in DOMAIN t.categories :
           /\ Distinct(t.categories[i].channels)
           /\ t.categories[i].sees # {}
           /\ t.categories[i].sees \subseteq RoleKeys(t) \cup Everyone
    /\ ToSet(t.managed) \subseteq RoleKeys(t)

ASSUME TemplatesAreSound ==
    /\ \A tag \in DepartmentTag : SoundTemplate(DepartmentTemplate(tag))
    /\ SoundTemplate(CommunityTemplate)
=============================================================================
