----------------------------- MODULE Provision ------------------------------
(***************************************************************************)
(* /setup department, /setup community and /setup permissions in one       *)
(* server.  A setup lists what is there once, plans from the list what is  *)
(* missing of its template, and creates that one call at a time; it then   *)
(* enters the server in the platform.  A reset takes the permissions off   *)
(* every role the bot can manage.  Meanwhile people change the server.     *)
(*                                                                         *)
(* overlooked and undisturbed are history, read by properties only.        *)
(* Definitions whose names begin with Faulty are seeded faults.            *)
(***************************************************************************)
EXTENDS Surroundings, Templates

CONSTANTS
    Admin,           \* those who run /setup
    Blueprints,      \* the template of each kind of server
    FoundAtFirst,    \* what may be in the server before
    Unmanageable,    \* names of the roles not below the bot
    Wirings,         \* how far a setup is asked to enter the server in the platform
    Touched,         \* names of what people create or delete
    MaxSetups,       \* bound: runs of a setup or a reset
    MaxHandmade      \* bound: things created or deleted by people

ASSUME ProvisionConstants ==
    /\ \A kind \in DOMAIN Blueprints : SoundTemplate(Blueprints[kind])
    /\ Wirings \subseteq {"none", "register", "mapping"}
    /\ MaxSetups \in Nat /\ MaxHandmade \in Nat

VARIABLES
    serverKind,   \* the kind of server this is
    things,       \* Discord: the roles, categories and channels
    empowered,    \* Discord: the roles with permissions of their own
    baseline,     \* Discord: whether @everyone has the baseline
    allowlisted,   \* ApprovedGuild: whether the server is on the allowlist
    declared,     \* ManagedRole: roles of the server the platform manages
    mapped,       \* RoleMapping: roles the main community's role is mapped to
    setup,        \* where each administrator's command is
    setupsLeft,   \* commands left
    handLeft,     \* changes by people left
    lastByHand,   \* the last of them, which a cache may not have got
    overlooked    \* history: whether a plan was made or carried out from a list
                  \* that had missed a change

provisionVars == <<serverKind, things, empowered, baseline, allowlisted, declared, mapped,
                   setup, setupsLeft, handLeft, lastByHand, overlooked>>
platform == <<allowlisted, declared, mapped>>
permissions == <<empowered, baseline>>

\* One thing of the server: parent is the name and copy of the category it is
\* under; copy tells things of one name apart; seenBy is what a category was
\* created with.
Thing(kind, name, parent, copy, seenBy) ==
    [kind |-> kind, name |-> name, parent |-> parent, copy |-> copy, seenBy |-> seenBy]
NoThing == Thing("none", "", <<>>, 0, {})
IdleSetup == [step |-> "idle"]

blueprint == Blueprints[serverKind]

-----------------------------------------------------------------------------

\* What a template wants is a sequence of items; a channel's has the name of its
\* category with it.
Item(kind, name, parent) == [kind |-> kind, name |-> name, parent |-> parent]

WantedBy(t) ==
    [i \in DOMAIN t.roles |-> Item("role", t.roles[i][2], "")]
    \o FlattenSeq([i \in DOMAIN t.categories |->
           <<Item("category", t.categories[i].name, "")>>
           \o [j \in DOMAIN t.categories[i].channels |->
                  LET c == t.categories[i].channels[j]
                  IN  Item(c.type, c.name, t.categories[i].name)]])

WantedIn == [kind \in DOMAIN Blueprints |-> WantedBy(Blueprints[kind])]
Wanted == WantedIn[serverKind]

\* Nothing is wanted twice, and a category comes before its channels.
InOrder(items) ==
    /\ items \in Seq([kind : STRING, name : STRING, parent : STRING])
    /\ IsInjective(items)
    /\ \A i \in DOMAIN items :
           /\ items[i].kind = "category" => items[i].name # "" /\ items[i].parent = ""
           /\ items[i].parent # "" =>
                  \E j \in 1 .. i - 1 : items[j] = Item("category", items[i].parent, "")

\* Its roles come first, in the order of the template.
RolesFirst(t) ==
    \A i \in DOMAIN t.roles :
        /\ i \in DOMAIN WantedBy(t) /\ WantedBy(t)[i] = Item("role", t.roles[i][2], "")
        /\ \A j \in 1 .. i : WantedBy(t)[j].kind = "role"

\* The server has finitely many things, each in a category that is there or in none.
WellFounded(found) ==
    /\ IsFiniteSet(found)
    /\ \A x \in found :
           /\ x.copy \in Nat
           /\ x.kind = "category" => x.parent = <<>>
           /\ x.parent # <<>> => \E c \in found : c.kind = "category" /\ <<c.name, c.copy>> = x.parent

ASSUME ServersInOrder ==
    /\ \A kind \in DOMAIN Blueprints : InOrder(WantedIn[kind]) /\ RolesFirst(Blueprints[kind])
    /\ \A tag \in DepartmentTag :
           InOrder(WantedBy(DepartmentTemplate(tag))) /\ RolesFirst(DepartmentTemplate(tag))
    /\ InOrder(WantedBy(CommunityTemplate)) /\ RolesFirst(CommunityTemplate)
    /\ \A found \in FoundAtFirst : WellFounded(found)
    /\ IsFiniteSet(Admin)

Named(kind, name, seen) == {x \in seen : x.kind = kind /\ x.name = name}

\* Of several of one name the oldest is found.
Oldest(candidates) == {x \in candidates : \A y \in candidates : x.copy <= y.copy}

\* planProvision: what of a list an item stands for, if anything; a channel only
\* under the category that is found.
Matches(item, seen) ==
    Oldest({x \in Named(item.kind, item.name, seen) :
                item.parent # "" => \E c \in Oldest(Named("category", item.parent, seen)) :
                                        x.parent = <<c.name, c.copy>>})

\* The places of what is missing.
FaultyToCreate(seen) ==
    {i \in DOMAIN Wanted : Wanted[i].parent # "" \/ Matches(Wanted[i], seen) = {}}

ToCreate(seen) == {i \in DOMAIN Wanted : Matches(Wanted[i], seen) = {}}

Existing(seen) == UNION {Matches(item, seen) : item \in ToSet(Wanted)}

-----------------------------------------------------------------------------

ProvisionInit ==
    /\ serverKind \in DOMAIN Blueprints
    /\ things \in FoundAtFirst
    /\ empowered = {x \in things : x.kind = "role"}
    /\ baseline = FALSE /\ allowlisted = FALSE
    /\ declared = {} /\ mapped = {}
    /\ setup = [a \in Admin |-> IdleSetup]
    /\ setupsLeft = MaxSetups /\ handLeft = MaxHandmade
    /\ lastByHand = NoThing
    /\ overlooked = FALSE

SetupAt(a, step) == setup[a].step = step
Put(a, record) == setup' = [setup EXCEPT ![a] = record]
Warned(record) == [record EXCEPT !.warned = TRUE]
Told(record) ==
    [step |-> "told", made |-> record.made, wire |-> record.wire, warned |-> record.warned,
     undisturbed |-> record.undisturbed]

\* Everything anybody still holds the id of.
Known == things \cup declared \cup mapped \cup {lastByHand}
         \cup UNION {setup[a].found \cup setup[a].made :
                         a \in {b \in Admin : setup[b].step \notin {"idle", "told"}}}

NextCopy(kind, name) ==
    CHOOSE n \in 1 .. Cardinality(Known) + 1 :
        /\ \A x \in Named(kind, name, Known) : x.copy # n
        /\ \A m \in 1 .. n - 1 : \E x \in Named(kind, name, Known) : x.copy = m

\* What listRoles and listChannels answer: when the call fails, the cache, which
\* may not have got the last change by a person.
Lagging == (things \ {lastByHand}) \cup ({lastByHand} \ (things \cup {NoThing}))
Lists(seen) ==
    \/ Works /\ seen = things
    \/ Fails /\ seen = Lagging

Ready(a) ==
    /\ setup[a].step \in {"idle", "told"}
    /\ setupsLeft > 0 /\ setupsLeft' = setupsLeft - 1
    /\ UNCHANGED <<serverKind, things, permissions, platform, handLeft, lastByHand>>

\* provisionDepartment and provisionCommunity, as far as the plan.  Nothing comes
\* of a setup that is refused because the bot is not there or lacks a permission,
\* and nothing but the plan of a dry run.  wire says how far the server is then
\* entered in the platform: not at all, without or with a role of the main
\* community to map.
PlanSetup(a, wire) ==
    /\ Ready(a)
    /\ \E seen \in {things, Lagging} :
           /\ Lists(seen)
           /\ Put(a, [step |-> "create", todo |-> ToCreate(seen),
                      found |-> Existing(seen), made |-> {}, wire |-> wire,
                      warned |-> FALSE, undisturbed |-> seen = things])
           /\ overlooked' = (overlooked \/ ~(things \subseteq seen))

-----------------------------------------------------------------------------

\* createStructure, from the plan on.

RoleOf(t, key) == CHOOSE i \in DOMAIN t.roles : t.roles[i][1] = key
IdsOf(a) == setup[a].found \cup setup[a].made

\* resolveOverwrites: roles without an id are left out.
ResolveOverwrites(a, name) ==
    LET category == CHOOSE c \in ToSet(blueprint.categories) : c.name = name
    IN  {key \in category.sees :
            \/ key \in Everyone
            \/ Named("role", blueprint.roles[RoleOf(blueprint, key)][2], IdsOf(a)) # {}}

\* The thing an item becomes when a creates it.
Created(a, item) ==
    LET under == Named("category", item.parent, IdsOf(a))
    IN  Thing(item.kind, item.name,
              IF item.parent = "" THEN <<>>
              ELSE LET c == CHOOSE x \in under : TRUE IN <<c.name, c.copy>>,
              NextCopy(item.kind, item.name),
              IF item.kind = "category" THEN ResolveOverwrites(a, item.name) ELSE {})

HasParent(x) == x.parent # <<>> => \E c \in things : c.kind = "category" /\ <<c.name, c.copy>> = x.parent

\* A category that could not be created takes its channels with it.
Skipping(item) == {i \in DOMAIN Wanted : item.kind = "category" /\ Wanted[i].parent = item.name}

\* Some of these administrators' setups are going to create it.
Planned(admins, item) ==
    \E b \in admins : SetupAt(b, "create") /\ \E i \in setup[b].todo : Wanted[i] = item

\* The next role, category or channel: created, or a warning.  A call that failed
\* may have been carried out.
CreateNext(a) ==
    /\ SetupAt(a, "create") /\ setup[a].todo # {}
    /\ LET next == Min(setup[a].todo)
           item == Wanted[next]
           new == Created(a, item)
           done == /\ HasParent(new)
                   /\ things' = things \cup {new}
                   /\ overlooked' = (overlooked \/ Planned(Admin \ {a}, item))
           undone == UNCHANGED <<things, overlooked>>
           warn == Put(a, Warned([setup[a] EXCEPT !.todo = @ \ ({next} \cup Skipping(item))]))
       IN  \/ done /\ Works
              /\ Put(a, [setup[a] EXCEPT !.todo = @ \ {next}, !.made = @ \cup {new}])
           \/ ~HasParent(new) /\ Works /\ undone /\ warn
           \/ Fails /\ (done \/ undone) /\ warn
    /\ UNCHANGED <<serverKind, permissions, platform, setupsLeft, handLeft, lastByHand>>

\* Everything has been tried.
StructureDone(a) ==
    /\ SetupAt(a, "create") /\ setup[a].todo = {}
    /\ Put(a, IF setup[a].wire = "none" THEN Told(setup[a]) ELSE [setup[a] EXCEPT !.step = "register"])
    /\ Works
    /\ UNCHANGED <<serverKind, things, permissions, platform, setupsLeft, handLeft, lastByHand, overlooked>>

-----------------------------------------------------------------------------

\* wireCommunity and wireDepartment: a server that is on the allowlist already is
\* as good as registered; nothing follows if it cannot be, and nothing for the
\* community, which has no role to manage.
Register(a) ==
    /\ SetupAt(a, "register")
    /\ \/ /\ Works /\ allowlisted' = TRUE
          /\ Put(a, IF blueprint.managed = <<>> THEN Told(setup[a]) ELSE [setup[a] EXCEPT !.step = "declare"])
       \/ Fails /\ UNCHANGED allowlisted /\ Put(a, Told(Warned(setup[a])))
    /\ UNCHANGED <<serverKind, things, permissions, declared, mapped, setupsLeft, handLeft, lastByHand, overlooked>>

\* The role the setup found or made for the managed one: none if it could not.
MemberRole(a) ==
    Named("role", blueprint.roles[RoleOf(blueprint, blueprint.managed[1])][2], IdsOf(a))

\* The role is declared managed, if it is there.
Declare(a) ==
    /\ SetupAt(a, "declare")
    /\ LET next == [setup[a] EXCEPT !.step = "map"]
           there == MemberRole(a) # {} /\ MemberRole(a) \subseteq things
       IN  \/ there /\ Works /\ declared' = declared \cup MemberRole(a) /\ Put(a, next)
           \/ ~there /\ Works /\ UNCHANGED declared /\ Put(a, Warned(next))
           \/ Fails /\ UNCHANGED declared /\ Put(a, Warned(next))
    /\ UNCHANGED <<serverKind, things, permissions, allowlisted, mapped, setupsLeft, handLeft, lastByHand, overlooked>>

\* The role is mapped to, if a role of the main community is given and both are
\* there; a mapping that exists is as good.
MapRole(a) ==
    /\ SetupAt(a, "map")
    /\ LET possible == setup[a].wire = "mapping" /\ MemberRole(a) # {} /\ MemberRole(a) \subseteq things
       IN  \/ possible /\ Works /\ mapped' = mapped \cup MemberRole(a) /\ Put(a, Told(setup[a]))
           \/ ~possible /\ Works /\ UNCHANGED mapped /\ Put(a, Told(Warned(setup[a])))
           \/ Fails /\ UNCHANGED mapped /\ Put(a, Told(Warned(setup[a])))
    /\ UNCHANGED <<serverKind, things, permissions, allowlisted, declared, setupsLeft, handLeft, lastByHand, overlooked>>

-----------------------------------------------------------------------------

\* resetGuildPermissions: found are the roles to clear.
PlanReset(a) ==
    /\ Ready(a)
    /\ \E seen \in {things, Lagging} :
           /\ Lists(seen)
           /\ Put(a, [step |-> "everyone", todo |-> {},
                      found |-> {x \in seen : x.kind = "role" /\ x.name \notin Unmanageable},
                      made |-> {}, wire |-> "reset",
                      warned |-> FALSE, undisturbed |-> seen = things])
    /\ UNCHANGED overlooked

\* @everyone first.
SetBaseline(a) ==
    /\ SetupAt(a, "everyone")
    /\ LET next == [setup[a] EXCEPT !.step = "clear"]
       IN  \/ Works /\ baseline' = TRUE /\ Put(a, next)
           \/ Fails /\ UNCHANGED baseline /\ Put(a, Warned(next))
    /\ UNCHANGED <<serverKind, things, empowered, platform, setupsLeft, handLeft, lastByHand, overlooked>>

\* One role: cleared, or a warning.
ClearRole(a) ==
    /\ SetupAt(a, "clear")
    /\ \E r \in setup[a].found :
       LET next == [setup[a] EXCEPT !.found = @ \ {r}]
       IN  \/ r \in things /\ Works /\ empowered' = empowered \ {r} /\ Put(a, next)
           \/ r \notin things /\ Works /\ UNCHANGED empowered /\ Put(a, Warned(next))
           \/ Fails /\ UNCHANGED empowered /\ Put(a, Warned(next))
    /\ UNCHANGED <<serverKind, things, baseline, platform, setupsLeft, handLeft, lastByHand, overlooked>>

ResetDone(a) ==
    /\ SetupAt(a, "clear") /\ setup[a].found = {}
    /\ Put(a, Told(setup[a]))
    /\ Works
    /\ UNCHANGED <<serverKind, things, permissions, platform, setupsLeft, handLeft, lastByHand, overlooked>>

-----------------------------------------------------------------------------

\* A person creates something of the template that is not there: a role has
\* permissions then.
MakeByHand(item) ==
    /\ handLeft > 0 /\ handLeft' = handLeft - 1
    /\ Matches(item, things) = {}
    /\ \E parent \in IF item.parent = "" THEN {<<>>}
                     ELSE {<<c.name, c.copy>> : c \in Oldest(Named("category", item.parent, things))} :
           LET new == Thing(item.kind, item.name, parent, NextCopy(item.kind, item.name),
                            IF item.kind = "category" THEN Everyone ELSE {})
           IN  /\ things' = things \cup {new}
               /\ empowered' = IF item.kind = "role" THEN empowered \cup {new} ELSE empowered
               /\ lastByHand' = new
    /\ overlooked' = (overlooked \/ Planned(Admin, item))
    /\ setup' = [a \in Admin |-> IF setup[a].step \in {"everyone", "clear"}
                                 THEN [setup[a] EXCEPT !.undisturbed = FALSE] ELSE setup[a]]
    /\ Works
    /\ UNCHANGED <<serverKind, baseline, platform, setupsLeft>>

\* A person deletes something; what was under a category is under none then,
\* where nobody looks for it.
DeleteByHand(x) ==
    /\ handLeft > 0 /\ handLeft' = handLeft - 1
    /\ x \in things
    /\ things' = {y \in things \ {x} : x.kind # "category" \/ y.parent # <<x.name, x.copy>>}
    /\ empowered' = empowered \cap things'
    /\ lastByHand' = x
    /\ setup' = [a \in Admin |-> IF setup[a].step \in {"idle", "told"}
                                 THEN setup[a] ELSE [setup[a] EXCEPT !.undisturbed = FALSE]]
    /\ Works
    /\ UNCHANGED <<serverKind, baseline, platform, setupsLeft, overlooked>>

\* The bot restarts.
CrashSetups ==
    /\ Fails
    /\ \E a \in Admin : setup[a].step \notin {"idle", "told"}
    /\ setup' = [a \in Admin |-> IdleSetup]
    /\ UNCHANGED <<serverKind, things, permissions, platform, setupsLeft, handLeft, lastByHand, overlooked>>

ProvisionNext ==
    \/ \E a \in Admin :
           \/ \E wire \in Wirings : PlanSetup(a, wire)
           \/ CreateNext(a) \/ StructureDone(a)
           \/ Register(a) \/ Declare(a) \/ MapRole(a)
           \/ PlanReset(a) \/ SetBaseline(a) \/ ClearRole(a) \/ ResetDone(a)
    \/ \E item \in {i \in ToSet(Wanted) : i.name \in Touched} : MakeByHand(item)
    \/ \E x \in {y \in things : y.name \in Touched} : DeleteByHand(x)
    \/ CrashSetups

-----------------------------------------------------------------------------

ProvisionTypeOK ==
    /\ serverKind \in DOMAIN Blueprints
    /\ empowered \subseteq {x \in things : x.kind = "role"}
    /\ WellFounded(things)
    /\ baseline \in BOOLEAN /\ allowlisted \in BOOLEAN /\ overlooked \in BOOLEAN
    /\ \A x \in declared \cup mapped : x.kind = "role"
    /\ \A a \in Admin : setup[a].step \in {"idle", "create", "register", "declare", "map",
                                           "everyone", "clear", "told"}
    /\ setupsLeft \in 0 .. MaxSetups /\ handLeft \in 0 .. MaxHandmade

\* Whatever runs, fails and is run again, no setup creates anything of its
\* template a second time, as the header of setup-service.js promises; excepted
\* is what a setup could not know, what somebody else created after it had listed
\* the server or a cached list had missed, and what was there twice at first.
NothingDuplicated ==
    overlooked \/ \A x, y \in things :
        (x.kind = y.kind /\ x.name = y.name /\ x.parent = y.parent) =>
            x = y \/ \E found \in FoundAtFirst : {x, y} \subseteq found

InPlace(item) ==
    \E x \in Named(item.kind, item.name, things') :
        item.parent # "" => \E c \in Named("category", item.parent, things') : x.parent = <<c.name, c.copy>>

\* A setup or reset that ends without a warning, while nobody deleted anything,
\* has left what it promised: everything of the template is there, each category
\* it created is open to all the roles it is for, the server is registered and
\* its member role declared and mapped as far as asked; or @everyone has the
\* baseline and no manageable role has permissions.
ProvisionedWhenTold ==
    \A a \in Admin :
        LET told == setup'[a]
            t == blueprint
        IN  (setup[a].step # "told" /\ told.step = "told" /\ ~told.warned /\ told.undisturbed) =>
            /\ told.wire # "reset" =>
                   /\ \A item \in ToSet(Wanted) : InPlace(item)
                   /\ \A c \in told.made, i \in DOMAIN t.categories :
                          (c.kind = "category" /\ c.name = t.categories[i].name) =>
                              c.seenBy = t.categories[i].sees
            /\ told.wire \in {"register", "mapping"} => allowlisted'
            /\ (told.wire = "mapping" /\ t.managed # <<>>) =>
                   \E r \in declared' \cap mapped' \cap things' :
                       r.name = t.roles[RoleOf(t, t.managed[1])][2]
            /\ told.wire = "reset" =>
                   baseline' /\ \A r \in empowered' : r.name \in Unmanageable
=============================================================================
