---------------------------- MODULE DirectProofs -----------------------------
(* What the services that change Discord directly promise together, for any   *)
(* people, roles, guilds and rules: nothing is taken back early, settled      *)
(* grants are right, self-service stays within what the rules lead to, and    *)
(* no setup of a server creates anything twice.                               *)
EXTENDS MCDirect, ServicesProofs, WellFoundedInduction

\* All the roles somebody had in the beginning.
Beginning == UNION {HeldAtFirst[q] : q \in Person}

Reachable == Closure(Beginning, rulesEver)

ServiceTyped ==
    /\ roleRules \subseteq rulesEver /\ rulesEver \subseteq Rule
    /\ serviceHeld \in [Person -> SUBSET ServiceRole]
    /\ assigning \in [Caller -> Assignment \cup {NoAssignment}]

\* The rules a command has read have been rules, and what it may hand out can be
\* reached, whatever has become of rules and roles since.
CommandsAreAllowed ==
    \A p \in Caller : assigning[p] # NoAssignment =>
        /\ assigning[p].rules \subseteq rulesEver
        /\ assigning[p].step # "caller" => assigning[p].roles \subseteq Reachable

ServiceInv == ServiceTyped /\ CommandsAreAllowed /\ SelfServiceStaysInClosure

LEMMA ClosureHas ==
  ASSUME NEW roles \in SUBSET ServiceRole, NEW rules
  PROVE  roles \subseteq Closure(roles, rules) /\ Closure(roles, rules) \subseteq ServiceRole
  BY DEF Closure

\* A closure contains what the rules let its members hand out.
LEMMA ClosureIsClosed ==
  ASSUME NEW roles \in SUBSET ServiceRole, NEW rules \in SUBSET Rule,
         NEW some \in SUBSET rules, NEW held \in SUBSET Closure(roles, rules)
  PROVE  GrantableRoleIds(some, held) \subseteq Closure(roles, rules)
<1> SUFFICES ASSUME NEW rule \in some, rule[1] \in held PROVE rule[2] \in Closure(roles, rules)
  BY DEF GrantableRoleIds
<1>1. rule \in rules /\ rule[2] \in ServiceRole BY DEF Rule
<1> SUFFICES ASSUME NEW closed \in SUBSET ServiceRole, roles \subseteq closed,
                    GrantableRoleIds(rules, closed) \subseteq closed
             PROVE  rule[2] \in closed
  BY <1>1 DEF Closure
<1>2. rule[1] \in closed BY DEF Closure
<1>3. QED BY <1>1, <1>2 DEF GrantableRoleIds

LEMMA ClosureGrows ==
  ASSUME NEW roles \in SUBSET ServiceRole, NEW fewer, NEW more, fewer \subseteq more
  PROVE  Closure(roles, fewer) \subseteq Closure(roles, more)
<1> SUFFICES ASSUME NEW r \in Closure(roles, fewer), NEW closed \in SUBSET ServiceRole,
                    roles \subseteq closed, GrantableRoleIds(more, closed) \subseteq closed
             PROVE  r \in closed
  BY DEF Closure
<1>1. GrantableRoleIds(fewer, closed) \subseteq closed BY DEF GrantableRoleIds
<1>2. QED BY <1>1 DEF Closure

LEMMA Begins == Beginning \in SUBSET ServiceRole
  BY SelfServiceConstants DEF Beginning

LEMMA ServiceInit == SelfServiceInit => ServiceInv
<1> SUFFICES ASSUME SelfServiceInit PROVE ServiceInv
  OBVIOUS
<1>1. ServiceTyped BY SelfServiceConstants DEF SelfServiceInit, ServiceTyped
<1>2. CommandsAreAllowed BY DEF SelfServiceInit, CommandsAreAllowed
<1>3. SelfServiceStaysInClosure
  <2>1. Beginning \subseteq Closure(Beginning, rulesEver) BY Begins, ClosureHas
  <2>2. QED BY <2>1 DEF SelfServiceInit, SelfServiceStaysInClosure, Beginning
<1>4. QED BY <1>1, <1>2, <1>3 DEF ServiceInv

\* Rules are added and nobody gets a role; commands go on as they were allowed.
LEMMA ServiceGoesOn ==
  ASSUME ServiceInv, ServiceTyped', rulesEver \subseteq rulesEver',
         \A p \in Person : serviceHeld'[p] \subseteq serviceHeld[p] \cup Reachable,
         \A p \in Caller : assigning'[p] # NoAssignment =>
             /\ assigning'[p].rules \subseteq rulesEver'
             /\ assigning'[p].step # "caller" => assigning'[p].roles \subseteq Reachable
  PROVE  ServiceInv'
<1>1. Reachable \subseteq Reachable' BY Begins, ClosureGrows DEF Reachable, ServiceTyped
<1>2. CommandsAreAllowed' BY <1>1 DEF CommandsAreAllowed
<1>3. \A p \in Person : serviceHeld'[p] \subseteq Reachable'
  BY <1>1 DEF ServiceInv, SelfServiceStaysInClosure, Reachable, Beginning
<1>4. SelfServiceStaysInClosure' BY <1>3 DEF SelfServiceStaysInClosure, Reachable, Beginning
<1>5. QED BY <1>2, <1>4 DEF ServiceInv

LEMMA RuleEdits ==
  ASSUME ServiceInv, NEW grantor \in ServiceRole, NEW grantables \in SUBSET ServiceRole,
         AddGrantRule(grantor, grantables) \/ RemoveGrantRule(grantor, grantables)
  PROVE  ServiceInv'
<1>1. rulesEver \subseteq rulesEver' /\ UNCHANGED <<serviceHeld, assigning>>
  BY DEF AddGrantRule, RemoveGrantRule
<1>2. roleRules' \subseteq rulesEver' /\ rulesEver' \subseteq Rule
  BY DEF AddGrantRule, RemoveGrantRule, ServiceInv, ServiceTyped, Rule
<1>3. ServiceTyped' BY <1>1, <1>2 DEF ServiceInv, ServiceTyped
<1>4. QED BY <1>1, <1>3, ServiceGoesOn DEF ServiceInv, CommandsAreAllowed

\* The check of the caller is what makes a command allowed.
LEMMA Authorizing ==
  ASSUME ServiceInv, NEW p \in Caller, Assigning(p, "caller"), assigning[p] \in Assignment,
         assigning[p].roles \subseteq GrantableRoleIds(assigning[p].rules, serviceHeld[p])
  PROVE  assigning[p].roles \subseteq Reachable
<1>1. serviceHeld[p] \subseteq Reachable
  BY SelfServiceConstants DEF ServiceInv, SelfServiceStaysInClosure, Reachable, Beginning
<1>2. assigning[p].rules \subseteq rulesEver
  BY DEF ServiceInv, CommandsAreAllowed, Assigning, NoAssignment
<1>3. GrantableRoleIds(assigning[p].rules, serviceHeld[p]) \subseteq Reachable
  BY <1>1, <1>2, Begins, ClosureIsClosed DEF Reachable, ServiceInv, ServiceTyped
<1>4. QED BY <1>3

LEMMA CommandSteps ==
  ASSUME ServiceInv, NEW p \in Caller,
         \/ \E target \in Person, roles \in SUBSET ServiceRole, remove \in BOOLEAN :
                Assign(p, target, roles, remove)
         \/ AuthorizeCaller(p) \/ ReadTarget(p)
  PROVE  ServiceInv'
<1>1. UNCHANGED <<roleRules, serviceHeld, rulesEver>> BY DEF Assign, AuthorizeCaller, ReadTarget
<1>2. ASSUME NEW c \in Assignment \cup {NoAssignment}, assigning' = [assigning EXCEPT ![p] = c],
             c # NoAssignment => /\ c.rules \subseteq rulesEver
                                 /\ c.step # "caller" => c.roles \subseteq Reachable
      PROVE  ServiceInv'
  <2>1. /\ assigning'[p] = c /\ \A q \in Caller \ {p} : assigning'[q] = assigning[q]
        /\ assigning' \in [Caller -> Assignment \cup {NoAssignment}]
    BY <1>2 DEF ServiceInv, ServiceTyped
  <2>2. ServiceTyped' BY <1>1, <2>1 DEF ServiceInv, ServiceTyped
  <2>3. QED BY <1>1, <1>2, <2>1, <2>2, ServiceGoesOn DEF ServiceInv, CommandsAreAllowed
<1>3. ASSUME Refuse(p) PROVE ServiceInv'
  BY <1>2, <1>3 DEF Refuse
<1>4. ASSUME NEW target \in Person, NEW roles \in SUBSET ServiceRole, NEW remove \in BOOLEAN,
             Assign(p, target, roles, remove)
      PROVE  ServiceInv'
  <2> DEFINE c == [step |-> "caller", rules |-> roleRules, target |-> target, roles |-> roles,
                   remove |-> remove, seen |-> {}]
  <2>1. c \in Assignment /\ c.rules \subseteq rulesEver /\ c.step = "caller"
    BY DEF Assignment, ServiceInv, ServiceTyped
  <2>2. assigning' = [assigning EXCEPT ![p] = c] BY <1>4 DEF Assign
  <2> HIDE DEF c
  <2>3. QED BY <1>2, <2>1, <2>2
<1>5. ASSUME AuthorizeCaller(p) PROVE ServiceInv'
  <2>1. Assigning(p, "caller") /\ assigning[p] \in Assignment
    BY <1>5 DEF AuthorizeCaller, Assigning, NoAssignment, ServiceInv, ServiceTyped
  <2> DEFINE c == [assigning[p] EXCEPT !.step = "target"]
  <2>2. /\ c \in Assignment /\ c.step = "target" /\ c.rules = assigning[p].rules
        /\ c.roles = assigning[p].roles
    BY <2>1 DEF Assignment
  <2>3. \/ Refuse(p)
        \/ /\ assigning' = [assigning EXCEPT ![p] = c]
           /\ assigning[p].roles \subseteq GrantableRoleIds(assigning[p].rules, serviceHeld[p])
    BY <1>5 DEF AuthorizeCaller
  <2>4. assigning[p].rules \subseteq rulesEver
    BY <2>1 DEF ServiceInv, CommandsAreAllowed, Assigning, NoAssignment
  <2> HIDE DEF c
  <2>5. QED BY <1>2, <1>3, <2>1, <2>2, <2>3, <2>4, Authorizing
<1>6. ASSUME ReadTarget(p) PROVE ServiceInv'
  <2>1. Assigning(p, "target") /\ assigning[p] \in Assignment
    BY <1>6 DEF ReadTarget, Assigning, NoAssignment, ServiceInv, ServiceTyped
  <2> DEFINE c == [assigning[p] EXCEPT !.step = "apply", !.seen = serviceHeld[assigning[p].target]]
  <2>2. assigning[p].target \in Person BY <2>1 DEF Assignment
  <2>3. serviceHeld[assigning[p].target] \in SUBSET ServiceRole BY <2>2 DEF ServiceInv, ServiceTyped
  <2>4. /\ c \in Assignment /\ c.rules = assigning[p].rules /\ c.roles = assigning[p].roles
    BY <2>1, <2>3 DEF Assignment
  <2>5. Refuse(p) \/ assigning' = [assigning EXCEPT ![p] = c] BY <1>6 DEF ReadTarget
  <2>6. assigning[p].rules \subseteq rulesEver /\ assigning[p].roles \subseteq Reachable
    BY <2>1 DEF ServiceInv, CommandsAreAllowed, Assigning, NoAssignment
  <2> HIDE DEF c
  <2>7. QED BY <1>2, <1>3, <2>4, <2>5, <2>6
<1>7. QED BY <1>4, <1>5, <1>6

LEMMA RolesChange ==
  ASSUME ServiceInv, NEW r \in ServiceRole,
         (\E p \in Caller : AssignRole(p, r)) \/ (\E p \in Person : TakenByHand(p, r))
  PROVE  ServiceInv'
<1>1. UNCHANGED <<roleRules, rulesEver>> BY DEF AssignRole, TakenByHand
<1>2. ASSUME NEW p \in Caller, AssignRole(p, r) PROVE ServiceInv'
  <2> DEFINE a == assigning[p]
  <2>1. /\ a.step = "apply" /\ r \in a.roles /\ a \in Assignment
        /\ a.rules \subseteq rulesEver /\ a.roles \subseteq Reachable
    <3>1. a.step = "apply" /\ r \in a.roles BY <1>2 DEF AssignRole, Assigning
    <3>2. a # NoAssignment BY <3>1 DEF NoAssignment
    <3>3. a \in Assignment BY <3>2 DEF ServiceInv, ServiceTyped
    <3>4. QED BY <3>1, <3>2, <3>3 DEF ServiceInv, CommandsAreAllowed
  <2>2. Without(r, a) \in Assignment \cup {NoAssignment}
        /\ (Without(r, a) # NoAssignment =>
                /\ Without(r, a).rules = a.rules /\ Without(r, a).roles \subseteq a.roles)
    BY <2>1 DEF Without, Assignment
  <2>3. \/ assigning' = [assigning EXCEPT ![p] = Without(r, a)]
        \/ assigning' = [assigning EXCEPT ![p] = NoAssignment]
    BY <1>2 DEF AssignRole, Refuse
  <2> DEFINE c == assigning'[p]
  <2>4. /\ assigning' \in [Caller -> Assignment \cup {NoAssignment}]
        /\ \A q \in Caller \ {p} : assigning'[q] = assigning[q]
        /\ c \in {NoAssignment, Without(r, a)}
    BY <2>2, <2>3 DEF ServiceInv, ServiceTyped
  <2>5. \/ UNCHANGED serviceHeld
        \/ serviceHeld' = [serviceHeld EXCEPT ![a.target] = IF a.remove THEN @ \ {r} ELSE @ \cup {r}]
    BY <1>2 DEF AssignRole
  <2>6. a.target \in Person BY <2>1 DEF Assignment
  <2>7. /\ serviceHeld' \in [Person -> SUBSET ServiceRole]
        /\ \A q \in Person : serviceHeld'[q] \subseteq serviceHeld[q] \cup {r}
    BY <2>5, <2>6 DEF ServiceInv, ServiceTyped
  <2>8. ServiceTyped' BY <1>1, <2>4, <2>7 DEF ServiceInv, ServiceTyped
  <2>9. \A q \in Caller : assigning'[q] # NoAssignment =>
            /\ assigning'[q].rules \subseteq rulesEver'
            /\ assigning'[q].step # "caller" => assigning'[q].roles \subseteq Reachable
    BY <1>1, <2>1, <2>2, <2>4 DEF ServiceInv, CommandsAreAllowed
  <2>10. \A q \in Person : serviceHeld'[q] \subseteq serviceHeld[q] \cup Reachable BY <2>1, <2>7
  <2>11. QED BY <1>1, <2>8, <2>9, <2>10, ServiceGoesOn
<1>3. ASSUME NEW p \in Person, TakenByHand(p, r) PROVE ServiceInv'
  <2>1. /\ serviceHeld' \in [Person -> SUBSET ServiceRole]
        /\ \A q \in Person : serviceHeld'[q] \subseteq serviceHeld[q]
        /\ UNCHANGED assigning
    BY <1>3 DEF TakenByHand, ServiceInv, ServiceTyped
  <2>2. ServiceTyped' BY <1>1, <2>1 DEF ServiceInv, ServiceTyped
  <2>3. QED BY <1>1, <2>1, <2>2, ServiceGoesOn DEF ServiceInv, CommandsAreAllowed
<1>4. QED BY <1>2, <1>3

LEMMA ServiceStays == ServiceInv /\ UNCHANGED serviceVars => ServiceInv'
<1> SUFFICES ASSUME ServiceInv, UNCHANGED serviceVars PROVE ServiceInv'
  OBVIOUS
<1>1. UNCHANGED <<roleRules, serviceHeld, assigning, rulesEver>> BY DEF serviceVars
<1>2. ServiceTyped' BY <1>1 DEF ServiceInv, ServiceTyped
<1>3. QED BY <1>1, <1>2, ServiceGoesOn DEF ServiceInv, CommandsAreAllowed

LEMMA ServiceNext == ServiceInv /\ [SelfServiceNext]_<<surroundings, serviceVars>> => ServiceInv'
  BY ServiceStays, RuleEdits, CommandSteps, RolesChange DEF SelfServiceNext

-----------------------------------------------------------------------------
\* Server setup.

\* A record of a setup or reset that is under way.
Proceeding(r) ==
    /\ {"step", "todo", "found", "made", "wire", "warned", "undisturbed"} \subseteq DOMAIN r
    /\ IsFiniteSet(r.found) /\ IsFiniteSet(r.made)

\* The server, and what the setups hold.
ServerTyped ==
    /\ serverKind \in DOMAIN Blueprints /\ overlooked \in BOOLEAN
    /\ WellFounded(things) /\ lastByHand.copy \in Nat
    /\ IsFiniteSet(declared) /\ IsFiniteSet(mapped)
    /\ DOMAIN setup = Admin
    /\ \A a \in Admin : setup[a].step \notin {"idle", "told"} => Proceeding(setup[a])
    /\ \A a \in Admin : SetupAt(a, "create") => setup[a].todo \subseteq DOMAIN Wanted

\* A thing is what an item would become among what a setup knows.
StandsFor(x, item, known) ==
    /\ x.kind = item.kind /\ x.name = item.name
    /\ item.parent = "" => x.parent = <<>>
    /\ item.parent # "" => \E c \in Named("category", item.parent, known) : x.parent = <<c.name, c.copy>>

\* What a setup has still to create is not there.
MissingIsMissing ==
    overlooked \/ \A a \in Admin : SetupAt(a, "create") =>
        \A i \in setup[a].todo, x \in things : ~StandsFor(x, Wanted[i], IdsOf(a))

\* Before a channel comes its category.
CategoriesFirst ==
    \A a \in Admin : SetupAt(a, "create") =>
        \A i \in setup[a].todo : Wanted[i].parent # "" =>
            \/ Named("category", Wanted[i].parent, IdsOf(a)) # {}
            \/ \E j \in setup[a].todo : j < i /\ Wanted[j] = Item("category", Wanted[i].parent, "")

SetupInv == ServerTyped /\ MissingIsMissing /\ CategoriesFirst /\ NothingDuplicated

\* Among some natural numbers there is a least one.
LEMMA Smallest ==
  ASSUME NEW S \in SUBSET Nat, S # {}
  PROVE  Min(S) \in S /\ \A j \in S : Min(S) <= j
<1> DEFINE R == {pair \in Nat \X Nat : pair[1] < pair[2]}
<1>1. IsWellFoundedOn(R, Nat)
  <2>1. OpToRel(<, Nat) = R BY DEF OpToRel
  <2>2. QED BY <2>1, NatLessThanWellFounded
<1>2. PICK i \in S : \A j \in S : <<j, i>> \notin R
  <2> HIDE DEF R
  <2>1. QED BY <1>1, WFMin
<1>3. \A j \in S : i <= j
  <2> SUFFICES ASSUME NEW j \in S, j < i PROVE FALSE
    OBVIOUS
  <2>1. <<j, i>> \in R OBVIOUS
  <2>2. QED BY <1>2, <2>1
<1>4. QED BY <1>3 DEF Min

LEMMA CategoryItem ==
  ASSUME NEW item, NEW name, item = Item("category", name, "")
  PROVE  item.kind = "category" /\ item.name = name /\ item.parent = ""
  BY DEF Item

\* Something is the oldest.
LEMMA SomeOldest ==
  ASSUME NEW S, S # {}, \A x \in S : x.copy \in Nat
  PROVE  Oldest(S) # {}
<1> DEFINE copies == {x.copy : x \in S}
<1>1. copies \in SUBSET Nat /\ copies # {} OBVIOUS
<1> HIDE DEF copies
<1>2. Min(copies) \in copies /\ \A n \in copies : Min(copies) <= n BY <1>1, Smallest
<1>3. PICK x \in S : x.copy = Min(copies) BY <1>2 DEF copies
<1>4. \A y \in S : x.copy <= y.copy BY <1>2, <1>3 DEF copies
<1>5. QED BY <1>4 DEF Oldest

\* A number that nobody known of this kind and name has is found.
LEMMA NextIsNew ==
  ASSUME NEW kind, NEW name, IsFiniteSet(Known)
  PROVE  /\ NextCopy(kind, name) \in Nat
         /\ \A x \in Named(kind, name, Known) : x.copy # NextCopy(kind, name)
<1> DEFINE N == Named(kind, name, Known)
           copies == {x.copy : x \in N}
           top == Cardinality(Known) + 1
           open == (1 .. top) \ copies
<1>1. N \in SUBSET Known BY DEF Named
<1>2. IsFiniteSet(N) /\ Cardinality(N) <= Cardinality(Known) /\ Cardinality(N) \in Nat /\ Cardinality(Known) \in Nat
  <2> HIDE DEF N
  <2>1. QED BY <1>1, FS_Subset, FS_CardinalityType
<1>3. IsFiniteSet(copies) /\ Cardinality(copies) <= Cardinality(N) /\ Cardinality(copies) \in Nat
  <2> HIDE DEF N
  <2> DEFINE f == [x \in N |-> x.copy]
  <2>1. f \in Surjection(N, copies) BY DEF Surjection
  <2> HIDE DEF f, copies
  <2>2. QED BY <1>2, <2>1, FS_Surjection, FS_CardinalityType
<1>4. open # {}
  <2> HIDE DEF copies, N
  <2>1. SUFFICES ASSUME 1 .. top \subseteq copies PROVE FALSE OBVIOUS
  <2>5. top \in Int /\ top \in Nat /\ ~(1 > top) /\ top - 1 + 1 = top BY <1>2
  <2>2. Cardinality(1 .. top) = top /\ top \in Nat
    <3> HIDE DEF top
    <3>1. QED BY <2>5, FS_Interval
  <2>3. Cardinality(1 .. top) <= Cardinality(copies)
    <3> HIDE DEF top
    <3>1. QED BY <1>3, <2>1, FS_Subset
  <2>4. QED BY <1>2, <1>3, <2>2, <2>3
<1>5. open \in SUBSET Nat BY <1>2
<1> DEFINE n == Min(open)
<1>6. n \in open /\ \A m \in open : n <= m
  <2> HIDE DEF open
  <2>1. QED BY <1>4, <1>5, Smallest
<1> HIDE DEF n
<1>7. n \in 1 .. top /\ \A x \in N : x.copy # n BY <1>6
<1>8. \A m \in 1 .. n - 1 : \E x \in N : x.copy = m
  <2> SUFFICES ASSUME NEW m \in 1 .. n - 1, m \notin copies PROVE FALSE
    OBVIOUS
  <2>1. m \in open
    <3> HIDE DEF copies
    <3>1. QED BY <1>2, <1>7
  <2>2. n <= m BY <1>6, <2>1
  <2>3. QED BY <1>2, <1>7, <2>2
<1>9. \E k \in 1 .. top : /\ \A x \in N : x.copy # k
                          /\ \A m \in 1 .. k - 1 : \E x \in N : x.copy = m
  BY <1>7, <1>8
<1>10. NextCopy(kind, name) \in 1 .. top /\ \A x \in N : x.copy # NextCopy(kind, name)
  <2> HIDE DEF N
  <2>1. QED BY <1>9 DEF NextCopy, N
<1>11. QED BY <1>2, <1>10

LEMMA KnownIsFinite ==
  ASSUME ServerTyped
  PROVE  IsFiniteSet(Known)
<1> DEFINE busy == {b \in Admin : setup[b].step \notin {"idle", "told"}}
           held == {setup[b].found \cup setup[b].made : b \in busy}
<1>1. IsFiniteSet(busy) BY ServersInOrder, FS_Subset
<1>2. IsFiniteSet(held)
  <2> DEFINE f == [b \in busy |-> setup[b].found \cup setup[b].made]
  <2>1. f \in Surjection(busy, held) BY DEF Surjection
  <2> HIDE DEF f, held, busy
  <2>2. QED BY <1>1, <2>1, FS_Surjection
<1>3. \A S \in held : IsFiniteSet(S)
  <2>1. ASSUME NEW b \in busy PROVE IsFiniteSet(setup[b].found \cup setup[b].made)
    <3>1. IsFiniteSet(setup[b].found) /\ IsFiniteSet(setup[b].made) BY DEF ServerTyped, Proceeding
    <3>2. QED BY <3>1, FS_Union
  <2>2. QED BY <2>1
<1>4. IsFiniteSet(UNION held)
  <2> HIDE DEF held
  <2>1. QED BY <1>2, <1>3, FS_UNION
<1>5. IsFiniteSet(things \cup declared \cup mapped \cup {lastByHand})
  BY FS_Union, FS_Singleton DEF ServerTyped, WellFounded
<1>6. Known = (things \cup declared \cup mapped \cup {lastByHand}) \cup UNION held BY DEF Known
<1> HIDE DEF held
<1>7. QED BY <1>4, <1>5, <1>6, FS_Union

\* What is wanted.
LEMMA WantedIsInOrder ==
  ASSUME ServerTyped
  PROVE  /\ Wanted \in Seq([kind : STRING, name : STRING, parent : STRING])
         /\ \A i, j \in DOMAIN Wanted : Wanted[i] = Wanted[j] => i = j
         /\ \A i \in DOMAIN Wanted :
                /\ i \in Nat /\ Wanted[i] = Item(Wanted[i].kind, Wanted[i].name, Wanted[i].parent)
                /\ Wanted[i].kind = "category" => Wanted[i].name # "" /\ Wanted[i].parent = ""
                /\ Wanted[i].parent # "" =>
                       \E j \in DOMAIN Wanted : j < i /\ Wanted[j] = Item("category", Wanted[i].parent, "")
<1>1. InOrder(Wanted) BY ServersInOrder DEF ServerTyped, Wanted
<1> HIDE DEF Wanted
<1>2. /\ Wanted \in Seq([kind : STRING, name : STRING, parent : STRING])
      /\ \A i, j \in DOMAIN Wanted : Wanted[i] = Wanted[j] => i = j
  BY <1>1 DEF InOrder, IsInjective
<1>3. /\ DOMAIN Wanted = 1 .. Len(Wanted) /\ Len(Wanted) \in Nat
      /\ \A i \in DOMAIN Wanted : Wanted[i] \in [kind : STRING, name : STRING, parent : STRING]
  <2> DEFINE Items == [kind : STRING, name : STRING, parent : STRING]
  <2>1. Wanted \in Seq(Items) BY <1>2
  <2> HIDE DEF Items
  <2>2. /\ DOMAIN Wanted = 1 .. Len(Wanted) /\ Len(Wanted) \in Nat
        /\ \A i \in DOMAIN Wanted : Wanted[i] \in Items
    BY <2>1
  <2>3. QED BY <2>2 DEF Items
<1>4. ASSUME NEW i \in DOMAIN Wanted
      PROVE  /\ i \in Nat /\ Wanted[i] = Item(Wanted[i].kind, Wanted[i].name, Wanted[i].parent)
             /\ Wanted[i].kind = "category" => Wanted[i].name # "" /\ Wanted[i].parent = ""
             /\ Wanted[i].parent # "" =>
                    \E j \in DOMAIN Wanted : j < i /\ Wanted[j] = Item("category", Wanted[i].parent, "")
  <2>1. i \in Nat /\ Wanted[i] = Item(Wanted[i].kind, Wanted[i].name, Wanted[i].parent)
    BY <1>3 DEF Item
  <2>2. Wanted[i].kind = "category" => Wanted[i].name # "" /\ Wanted[i].parent = "" BY <1>1 DEF InOrder
  <2>3. ASSUME Wanted[i].parent # ""
        PROVE  \E j \in DOMAIN Wanted : j < i /\ Wanted[j] = Item("category", Wanted[i].parent, "")
    <3>1. PICK j \in 1 .. i - 1 : Wanted[j] = Item("category", Wanted[i].parent, "")
      BY <1>1, <2>3 DEF InOrder
    <3>2. j \in DOMAIN Wanted /\ j < i BY <1>3, <2>1
    <3>3. QED BY <3>1, <3>2
  <2>4. QED BY <2>1, <2>2, <2>3
<1>5. QED BY <1>2, <1>4

-----------------------------------------------------------------------------

\* A thing made for one item is in nobody's way who wants another.
LEMMA OtherThing ==
  ASSUME ServerTyped, NEW i \in DOMAIN Wanted, NEW j \in DOMAIN Wanted, Wanted[i] # Wanted[j],
         NEW x, NEW these, NEW those, StandsFor(x, Wanted[i], these)
  PROVE  ~StandsFor(x, Wanted[j], those)
<1> SUFFICES ASSUME StandsFor(x, Wanted[j], those) PROVE FALSE
  OBVIOUS
<1>1. Wanted[i].kind = Wanted[j].kind /\ Wanted[i].name = Wanted[j].name BY DEF StandsFor
<1>2. /\ Wanted[i] = Item(Wanted[i].kind, Wanted[i].name, Wanted[i].parent)
      /\ Wanted[j] = Item(Wanted[j].kind, Wanted[j].name, Wanted[j].parent)
  BY WantedIsInOrder
<1>3. Wanted[i].parent # Wanted[j].parent BY <1>1, <1>2
<1>4. \A c : <<c.name, c.copy>> # <<>> OBVIOUS
<1>6. CASE Wanted[i].parent = "" BY <1>3, <1>4, <1>6 DEF StandsFor
<1>7. CASE Wanted[j].parent = "" BY <1>3, <1>4, <1>7 DEF StandsFor
<1>8. CASE Wanted[i].parent # "" /\ Wanted[j].parent # ""
  <2>1. PICK c : c.name = Wanted[i].parent /\ x.parent = <<c.name, c.copy>> BY <1>8 DEF StandsFor, Named
  <2>2. PICK d : d.name = Wanted[j].parent /\ x.parent = <<d.name, d.copy>> BY <1>8 DEF StandsFor, Named
  <2>3. QED BY <1>3, <2>1, <2>2
<1>9. QED BY <1>6, <1>7, <1>8

\* What a list has nothing of, no thing of the list stands for.
LEMMA Unmatched ==
  ASSUME NEW item, NEW seen, \A x \in seen : x.copy \in Nat, Matches(item, seen) = {}, NEW x \in seen
  PROVE  ~StandsFor(x, item, Oldest(Named("category", item.parent, seen)))
<1> DEFINE found == {y \in Named(item.kind, item.name, seen) :
                item.parent # "" => \E c \in Oldest(Named("category", item.parent, seen)) :
                                        y.parent = <<c.name, c.copy>>}
<1>1. Oldest(found) = {} BY DEF Matches
<1>2. found = {}
  <2>1. \A y \in found : y.copy \in Nat BY DEF Named
  <2> HIDE DEF found
  <2>2. QED BY <1>1, <2>1, SomeOldest
<1>3. QED BY <1>2 DEF StandsFor, Named

LEMMA Meaning ==
  MissingIsMissing' <=>
      \/ overlooked'
      \/ \A a \in Admin : SetupAt(a, "create")' =>
             \A i \in setup'[a].todo, x \in things' : ~StandsFor(x, Wanted'[i], IdsOf(a)')
  BY DEF MissingIsMissing, StandsFor, Named

LEMMA Ordering ==
  CategoriesFirst' <=>
      \A a \in Admin : SetupAt(a, "create")' =>
          \A i \in setup'[a].todo : Wanted'[i].parent # "" =>
              \/ Named("category", Wanted'[i].parent, IdsOf(a)') # {}
              \/ \E j \in setup'[a].todo : j < i /\ Wanted'[j] = Item("category", Wanted'[i].parent, "")
  BY DEF CategoriesFirst, Named

\* A new thing in its place.
LEMMA ThingAdded ==
  ASSUME SetupInv, UNCHANGED serverKind, overlooked' \in BOOLEAN, overlooked => overlooked',
         NEW k \in DOMAIN Wanted, NEW new, NEW known, StandsFor(new, Wanted[k], known),
         new.copy = NextCopy(Wanted[k].kind, Wanted[k].name), HasParent(new),
         things' = things \cup {new},
         overlooked' \/ \A x \in things : ~StandsFor(x, Wanted[k], known),
         \A b \in Admin : SetupAt(b, "create")' =>
             /\ SetupAt(b, "create") /\ setup'[b].todo \subseteq setup[b].todo
             /\ IdsOf(b)' \subseteq IdsOf(b) \cup {new}
             /\ overlooked' \/ \A i \in setup'[b].todo : Wanted[i] # Wanted[k]
  PROVE  WellFounded(things)' /\ NothingDuplicated' /\ MissingIsMissing'
<1>1. ServerTyped BY DEF SetupInv
<1>2. NextCopy(Wanted[k].kind, Wanted[k].name) \in Nat
      /\ \A x \in Named(Wanted[k].kind, Wanted[k].name, Known) : x.copy # NextCopy(Wanted[k].kind, Wanted[k].name)
  BY <1>1, KnownIsFinite, NextIsNew
<1>3. new.kind = Wanted[k].kind /\ new.name = Wanted[k].name BY DEF StandsFor
<1>4. new.copy \in Nat /\ \A x \in things : x.kind = new.kind /\ x.name = new.name => x.copy # new.copy
  BY <1>2, <1>3 DEF Named, Known
<1>5. WellFounded(things)'
  <2>1. IsFiniteSet(things \cup {new}) BY <1>1, FS_AddElement DEF ServerTyped, WellFounded
  <2>2. new.kind = "category" => new.parent = <<>> BY <1>1, <1>3, WantedIsInOrder DEF StandsFor
  <2>3. new.parent # <<>> => \E c \in things' : c.kind = "category" /\ <<c.name, c.copy>> = new.parent
    BY DEF HasParent
  <2>4. \A x \in things : /\ x.copy \in Nat
                          /\ x.kind = "category" => x.parent = <<>>
                          /\ x.parent # <<>> =>
                                 \E c \in things' : c.kind = "category" /\ <<c.name, c.copy>> = x.parent
    BY <1>1 DEF ServerTyped, WellFounded
  <2>5. QED BY <1>4, <2>1, <2>2, <2>3, <2>4 DEF WellFounded
<1>6. NothingDuplicated'
  <2> SUFFICES ASSUME ~overlooked', NEW x \in things', NEW y \in things',
                      x.kind = y.kind, x.name = y.name, x.parent = y.parent, x # y
               PROVE  \E found \in FoundAtFirst : {x, y} \subseteq found
    BY DEF NothingDuplicated
  <2>1. \A z \in things : ~(z.kind = new.kind /\ z.name = new.name /\ z.parent = new.parent) BY DEF StandsFor
  <2>2. x \in things /\ y \in things BY <2>1
  <2>3. QED BY <2>2 DEF NothingDuplicated, SetupInv
<1>7. MissingIsMissing'
  <2>1. Wanted' = Wanted BY DEF Wanted
  <2> SUFFICES ASSUME ~overlooked', NEW b \in Admin, SetupAt(b, "create")',
                      NEW i \in setup'[b].todo, NEW x \in things'
               PROVE  ~StandsFor(x, Wanted[i], IdsOf(b)')
    BY <2>1, Meaning
  <2>2. SetupAt(b, "create") /\ i \in setup[b].todo /\ IdsOf(b)' \subseteq IdsOf(b) \cup {new}
        /\ Wanted[i] # Wanted[k]
    OBVIOUS
  <2>3. i \in DOMAIN Wanted BY <1>1, <2>2 DEF ServerTyped
  <2>4. CASE x = new BY <1>1, <2>2, <2>3, <2>4, OtherThing
  <2>5. CASE x \in things
    <3>1. ~StandsFor(x, Wanted[i], IdsOf(b)) BY <2>2, <2>5 DEF SetupInv, MissingIsMissing
    <3>2. new.kind = "category" => x.parent # <<new.name, new.copy>>
      <4>1. SUFFICES ASSUME new.kind = "category", x.parent = <<new.name, new.copy>> PROVE FALSE
        OBVIOUS
      <4>2. PICK c \in things : c.kind = "category" /\ <<c.name, c.copy>> = x.parent
        <5>1. x.parent # <<>> BY <4>1
        <5>2. QED BY <1>1, <2>5, <5>1 DEF ServerTyped, WellFounded
      <4>3. c.name = new.name /\ c.copy = new.copy BY <4>1, <4>2
      <4>4. QED BY <1>4, <4>1, <4>2, <4>3
    <3>3. QED BY <2>2, <3>1, <3>2 DEF StandsFor, Named
  <2>6. QED BY <2>4, <2>5
<1>8. QED BY <1>5, <1>6, <1>7

\* Nothing new, and no setup with more to do.
LEMMA NothingAdded ==
  ASSUME MissingIsMissing, NothingDuplicated, UNCHANGED serverKind, overlooked => overlooked',
         things' \subseteq things,
         \A b \in Admin : SetupAt(b, "create")' =>
             SetupAt(b, "create") /\ setup'[b].todo \subseteq setup[b].todo /\ IdsOf(b)' = IdsOf(b)
  PROVE  NothingDuplicated' /\ MissingIsMissing'
<1>1. NothingDuplicated' BY DEF NothingDuplicated
<1>2. Wanted' = Wanted BY DEF Wanted
<1>3. MissingIsMissing'
  <2> SUFFICES ASSUME ~overlooked', NEW b \in Admin, SetupAt(b, "create")',
                      NEW i \in setup'[b].todo, NEW x \in things'
               PROVE  ~StandsFor(x, Wanted[i], IdsOf(b)')
    BY <1>2 DEF MissingIsMissing, StandsFor, Named
  <2>1. QED BY DEF MissingIsMissing
<1>4. QED BY <1>1, <1>3

LEMMA OrderStays ==
  ASSUME CategoriesFirst, UNCHANGED serverKind,
         \A b \in Admin : SetupAt(b, "create")' =>
             SetupAt(b, "create") /\ setup'[b].todo = setup[b].todo /\ IdsOf(b)' = IdsOf(b)
  PROVE  CategoriesFirst'
<1>1. Wanted' = Wanted BY DEF Wanted
<1>2. QED BY <1>1 DEF CategoriesFirst, Named

\* What becomes of a setup when an item is created, or not.
ItemMade(r, todo, made) == [r EXCEPT !.todo = todo, !.made = made]
ItemMissed(r, todo) == Warned([r EXCEPT !.todo = todo])

LEMMA WorkGoesOn ==
  ASSUME NEW r, Proceeding(r), NEW t, NEW m, IsFiniteSet(m)
  PROVE  /\ Proceeding(ItemMade(r, t, m)) /\ ItemMade(r, t, m).todo = t /\ ItemMade(r, t, m).made = m
         /\ ItemMade(r, t, m).found = r.found /\ ItemMade(r, t, m).step = r.step
         /\ Proceeding(ItemMissed(r, t)) /\ ItemMissed(r, t).todo = t
         /\ ItemMissed(r, t).found = r.found /\ ItemMissed(r, t).made = r.made /\ ItemMissed(r, t).step = r.step
<1>1. /\ Proceeding(ItemMade(r, t, m)) /\ ItemMade(r, t, m).todo = t /\ ItemMade(r, t, m).made = m
      /\ ItemMade(r, t, m).found = r.found /\ ItemMade(r, t, m).step = r.step
  BY DEF Proceeding, ItemMade
<1>2. /\ Proceeding(ItemMissed(r, t)) /\ ItemMissed(r, t).todo = t
      /\ ItemMissed(r, t).found = r.found /\ ItemMissed(r, t).made = r.made /\ ItemMissed(r, t).step = r.step
  BY DEF Proceeding, Warned, ItemMissed
<1>3. QED BY <1>1, <1>2

LEMMA SetupGoesOn ==
  ASSUME SetupInv, UNCHANGED <<serverKind, things, lastByHand, overlooked>>,
         IsFiniteSet(declared'), IsFiniteSet(mapped'),
         NEW a \in Admin, NEW r, Put(a, r), r.step # "create",
         r.step \notin {"idle", "told"} => Proceeding(r)
  PROVE  SetupInv'
<1>1. /\ DOMAIN setup' = Admin /\ setup'[a] = r
      /\ \A b \in Admin \ {a} : setup'[b] = setup[b]
  BY DEF SetupInv, ServerTyped, Put
<1>2. \A b \in Admin : SetupAt(b, "create")' =>
          SetupAt(b, "create") /\ setup'[b].todo = setup[b].todo /\ IdsOf(b)' = IdsOf(b)
  BY <1>1 DEF SetupAt, IdsOf
<1>3. ServerTyped'
  <2>1. Wanted' = Wanted BY DEF Wanted
  <2>2. WellFounded(things)' BY DEF SetupInv, ServerTyped, WellFounded
  <2>3. \A b \in Admin : setup'[b].step \notin {"idle", "told"} => Proceeding(setup'[b])
    BY <1>1 DEF SetupInv, ServerTyped
  <2>4. \A b \in Admin : setup'[b].step = "create" => setup'[b].todo \subseteq DOMAIN Wanted
    BY <1>1, <1>2 DEF SetupInv, ServerTyped, SetupAt
  <2>5. QED BY <1>1, <2>1, <2>2, <2>3, <2>4 DEF SetupInv, ServerTyped, Proceeding, SetupAt
<1>4. QED BY <1>2, <1>3, NothingAdded, OrderStays DEF SetupInv

\* What follows the creation, and a reset.
LEMMA LaterSteps ==
  ASSUME SetupInv, NEW a \in Admin,
         StructureDone(a) \/ Register(a) \/ Declare(a) \/ MapRole(a)
            \/ PlanReset(a) \/ SetBaseline(a) \/ ClearRole(a) \/ ResetDone(a)
  PROVE  SetupInv'
<1> DEFINE r == setup[a]
           Ends(q) == Put(a, q) /\ q.step # "create" /\ (q.step \notin {"idle", "told"} => Proceeding(q))
<1>1. IsFiniteSet(declared) /\ IsFiniteSet(mapped) /\ IsFiniteSet(things)
  BY DEF SetupInv, ServerTyped, WellFounded
<1>2. ASSUME r.step \notin {"idle", "told"} PROVE Proceeding(r) /\ IsFiniteSet(MemberRole(a))
  <2>1. Proceeding(r) BY <1>2 DEF SetupInv, ServerTyped
  <2>2. IsFiniteSet(IdsOf(a)) BY <2>1, FS_Union DEF IdsOf, Proceeding
  <2>3. MemberRole(a) \subseteq IdsOf(a) BY DEF MemberRole, Named
  <2>4. QED BY <2>1, <2>2, <2>3, FS_Subset
<1>3. \A q : Told(q).step = "told" BY DEF Told
<1>4. \A q, s : Proceeding(q) => /\ Proceeding([q EXCEPT !.step = s]) /\ [q EXCEPT !.step = s].step = s
                              /\ Proceeding(Warned([q EXCEPT !.step = s]))
                              /\ Warned([q EXCEPT !.step = s]).step = s
                              /\ Proceeding(Warned(q)) /\ Warned(q).step = q.step
  <2> SUFFICES ASSUME NEW q, NEW s, Proceeding(q)
               PROVE  /\ Proceeding([q EXCEPT !.step = s]) /\ [q EXCEPT !.step = s].step = s
                      /\ Proceeding(Warned([q EXCEPT !.step = s]))
                      /\ Warned([q EXCEPT !.step = s]).step = s
                      /\ Proceeding(Warned(q)) /\ Warned(q).step = q.step
    OBVIOUS
  <2>1. Proceeding([q EXCEPT !.step = s]) /\ [q EXCEPT !.step = s].step = s
        /\ Proceeding(Warned(q)) /\ Warned(q).step = q.step
    BY DEF Proceeding, Warned
  <2>2. Proceeding(Warned([q EXCEPT !.step = s])) /\ Warned([q EXCEPT !.step = s]).step = s
    BY DEF Proceeding, Warned
  <2>3. QED BY <2>1, <2>2
<1>5. CASE StructureDone(a)
  <2>1. Proceeding(r) BY <1>2, <1>5 DEF StructureDone, SetupAt
  <2>2. CASE r.wire = "none" BY <1>1, <1>3, <1>5, <2>2, SetupGoesOn DEF StructureDone, platform
  <2>3. CASE r.wire # "none"
    <3> DEFINE q == [r EXCEPT !.step = "register"]
    <3>1. Put(a, q) BY <1>5, <2>3 DEF StructureDone
    <3>2. q.step = "register" /\ Proceeding(q) BY <1>4, <2>1
    <3> HIDE DEF q
    <3>3. QED BY <1>1, <1>5, <3>1, <3>2, SetupGoesOn DEF StructureDone, platform
  <2>4. QED BY <2>2, <2>3
<1>6. CASE Register(a)
  <2>1. Proceeding(r) BY <1>2, <1>6 DEF Register, SetupAt
  <2>2. \E q : Ends(q)
    <3>1. CASE Put(a, Told(r)) \/ Put(a, Told(Warned(r))) BY <1>3, <3>1
    <3>2. CASE Put(a, [r EXCEPT !.step = "declare"])
      <4> DEFINE q == [r EXCEPT !.step = "declare"]
      <4>1. Put(a, q) BY <3>2
      <4>2. q.step = "declare" /\ Proceeding(q) BY <1>4, <2>1
      <4> HIDE DEF q
      <4>3. QED BY <4>1, <4>2
    <3>3. QED BY <1>6, <3>1, <3>2 DEF Register
  <2>3. QED BY <1>1, <1>6, <2>2, SetupGoesOn DEF Register
<1>7. CASE Declare(a)
  <2>1. Proceeding(r) /\ IsFiniteSet(MemberRole(a)) BY <1>2, <1>7 DEF Declare, SetupAt
  <2>2. \E q : Ends(q)
    <3> DEFINE q == [r EXCEPT !.step = "map"]
    <3>1. q.step = "map" /\ Proceeding(q) /\ Warned(q).step = "map" /\ Proceeding(Warned(q)) BY <1>4, <2>1
    <3>2. Put(a, q) \/ Put(a, Warned(q)) BY <1>7 DEF Declare
    <3> HIDE DEF q
    <3>3. QED BY <3>1, <3>2
  <2>3. IsFiniteSet(declared') BY <1>1, <1>7, <2>1, FS_Union DEF Declare
  <2>4. QED BY <1>1, <1>7, <2>2, <2>3, SetupGoesOn DEF Declare
<1>8. CASE MapRole(a)
  <2>1. Proceeding(r) /\ IsFiniteSet(MemberRole(a)) BY <1>2, <1>8 DEF MapRole, SetupAt
  <2>2. \E q : Ends(q) BY <1>3, <1>8 DEF MapRole
  <2>3. IsFiniteSet(mapped') BY <1>1, <1>8, <2>1, FS_Union DEF MapRole
  <2>4. QED BY <1>1, <1>8, <2>2, <2>3, SetupGoesOn DEF MapRole
<1>9. CASE PlanReset(a)
  <2>1. PICK seen \in {things, Lagging} :
            Put(a, [step |-> "everyone", todo |-> {},
                    found |-> {x \in seen : x.kind = "role" /\ x.name \notin Unmanageable},
                    made |-> {}, wire |-> "reset", warned |-> FALSE, undisturbed |-> seen = things])
    BY <1>9 DEF PlanReset
  <2> DEFINE found == {x \in seen : x.kind = "role" /\ x.name \notin Unmanageable}
             q == [step |-> "everyone", todo |-> {}, found |-> found, made |-> {}, wire |-> "reset",
                   warned |-> FALSE, undisturbed |-> seen = things]
  <2>2. IsFiniteSet(seen)
    <3>1. seen \subseteq things \cup {lastByHand} BY DEF Lagging
    <3>2. QED BY <1>1, <3>1, FS_AddElement, FS_Subset
  <2>3. IsFiniteSet(found) BY <2>2, FS_Subset
  <2>4. Put(a, q) BY <2>1
  <2> HIDE DEF found
  <2>5. q.step = "everyone" /\ Proceeding(q) BY <2>3, FS_EmptySet DEF Proceeding
  <2> HIDE DEF q
  <2>6. QED BY <1>1, <1>9, <2>4, <2>5, SetupGoesOn DEF PlanReset, Ready, platform
<1>10. CASE SetBaseline(a)
  <2>1. Proceeding(r) BY <1>2, <1>10 DEF SetBaseline, SetupAt
  <2>2. \E q : Ends(q)
    <3> DEFINE q == [r EXCEPT !.step = "clear"]
    <3>1. q.step = "clear" /\ Proceeding(q) /\ Warned(q).step = "clear" /\ Proceeding(Warned(q)) BY <1>4, <2>1
    <3>2. Put(a, q) \/ Put(a, Warned(q)) BY <1>10 DEF SetBaseline
    <3> HIDE DEF q
    <3>3. QED BY <3>1, <3>2
  <2>3. QED BY <1>1, <1>10, <2>2, SetupGoesOn DEF SetBaseline, platform
<1>11. CASE ClearRole(a)
  <2>1. Proceeding(r) /\ r.step = "clear" BY <1>2, <1>11 DEF ClearRole, SetupAt
  <2>2. PICK x \in r.found : LET next == [r EXCEPT !.found = @ \ {x}] IN Put(a, next) \/ Put(a, Warned(next))
    BY <1>11 DEF ClearRole
  <2> DEFINE rest == r.found \ {x}
             q == [r EXCEPT !.found = rest]
  <2>3. Put(a, q) \/ Put(a, Warned(q)) BY <2>2
  <2>4. IsFiniteSet(rest) BY <2>1, FS_Subset DEF Proceeding
  <2> HIDE DEF rest
  <2>5. Proceeding(q) /\ q.step = "clear" BY <2>1, <2>4 DEF Proceeding
  <2> HIDE DEF q
  <2>6. Proceeding(Warned(q)) /\ Warned(q).step = "clear" BY <1>4, <2>5
  <2>7. \E p : Ends(p) BY <2>3, <2>5, <2>6
  <2>8. QED BY <1>1, <1>11, <2>7, SetupGoesOn DEF ClearRole, platform
<1>12. CASE ResetDone(a) BY <1>1, <1>3, <1>12, SetupGoesOn DEF ResetDone, platform
<1>13. QED BY <1>5, <1>6, <1>7, <1>8, <1>9, <1>10, <1>11, <1>12

LEMMA CrashKeeps ==
  ASSUME SetupInv, CrashSetups
  PROVE  SetupInv'
<1>1. \A b \in Admin : setup'[b].step = "idle" BY DEF CrashSetups, IdleSetup
<1>2. \A b \in Admin : ~SetupAt(b, "create")' BY <1>1 DEF SetupAt
<1>3. ServerTyped'
  <2>1. WellFounded(things)' BY DEF CrashSetups, SetupInv, ServerTyped, WellFounded
  <2>2. DOMAIN setup' = Admin BY DEF CrashSetups
  <2>3. QED BY <1>1, <1>2, <2>1, <2>2 DEF CrashSetups, SetupInv, ServerTyped, platform
<1>4. MissingIsMissing' /\ NothingDuplicated' /\ CategoriesFirst'
  BY <1>2, NothingAdded, OrderStays DEF CrashSetups, SetupInv
<1>5. QED BY <1>3, <1>4 DEF SetupInv

-----------------------------------------------------------------------------

\* The list a setup plans from.
LEMMA ListsAre ==
  ASSUME ServerTyped, NEW seen \in {things, Lagging}
  PROVE  IsFiniteSet(seen) /\ \A x \in seen : x.copy \in Nat
<1>1. seen \subseteq things \cup {lastByHand} BY DEF Lagging
<1>2. IsFiniteSet(things) /\ \A x \in things \cup {lastByHand} : x.copy \in Nat
  BY DEF ServerTyped, WellFounded
<1>3. QED BY <1>1, <1>2, FS_AddElement, FS_Subset

\* A category is found as the oldest of its name.
LEMMA FoundCategories ==
  ASSUME ServerTyped, NEW seen, NEW name
  PROVE  Named("category", name, Existing(seen)) \subseteq Oldest(Named("category", name, seen))
<1> SUFFICES ASSUME NEW c \in Named("category", name, Existing(seen))
             PROVE  c \in Oldest(Named("category", name, seen))
  OBVIOUS
<1>1. PICK i \in DOMAIN Wanted : c \in Matches(Wanted[i], seen) BY DEF Named, Existing, ToSet
<1>2. c.kind = Wanted[i].kind /\ c.name = Wanted[i].name BY <1>1 DEF Matches, Oldest, Named
<1>3. c.kind = "category" /\ c.name = name BY DEF Named
<1>4. Wanted[i].parent = "" BY <1>2, <1>3, WantedIsInOrder
<1>5. Matches(Wanted[i], seen) = Oldest(Named(Wanted[i].kind, Wanted[i].name, seen)) BY <1>4 DEF Matches
<1>6. QED BY <1>1, <1>2, <1>3, <1>5

LEMMA PlanSetupKeeps ==
  ASSUME SetupInv, NEW a \in Admin, NEW wire, PlanSetup(a, wire)
  PROVE  SetupInv'
<1>1. ServerTyped BY DEF SetupInv
<1>2. PICK seen \in {things, Lagging} :
          /\ Put(a, [step |-> "create", todo |-> ToCreate(seen), found |-> Existing(seen), made |-> {},
                     wire |-> wire, warned |-> FALSE, undisturbed |-> seen = things])
          /\ overlooked' = (overlooked \/ ~(things \subseteq seen))
  BY DEF PlanSetup
<1>3. IsFiniteSet(seen) /\ \A x \in seen : x.copy \in Nat BY <1>1, ListsAre
<1>4. UNCHANGED <<serverKind, things, declared, mapped, lastByHand>> BY DEF PlanSetup, Ready, platform
<1>5. Wanted' = Wanted BY <1>4 DEF Wanted
<1>6. /\ DOMAIN setup' = Admin /\ \A b \in Admin \ {a} : setup'[b] = setup[b]
      /\ setup'[a].step = "create" /\ setup'[a].todo = ToCreate(seen) /\ setup'[a].found = Existing(seen)
      /\ setup'[a].made = {}
      /\ {"step", "todo", "found", "made", "wire", "warned", "undisturbed"} \subseteq DOMAIN setup'[a]
  BY <1>1, <1>2 DEF Put, ServerTyped
<1>7. \A b \in Admin \ {a} : SetupAt(b, "create")' =>
          SetupAt(b, "create") /\ setup'[b].todo = setup[b].todo /\ IdsOf(b)' = IdsOf(b)
  BY <1>6 DEF SetupAt, IdsOf
<1>8. IdsOf(a)' = Existing(seen) BY <1>6 DEF IdsOf
<1>9. ToCreate(seen) \subseteq DOMAIN Wanted BY DEF ToCreate
<1>10. ServerTyped'
  <2>1. Existing(seen) \subseteq seen BY DEF Existing, Matches, Oldest, Named
  <2>2. IsFiniteSet(Existing(seen)) /\ IsFiniteSet({}) BY <1>3, <2>1, FS_Subset, FS_EmptySet
  <2>3. Proceeding(setup'[a]) BY <1>6, <2>2 DEF Proceeding
  <2>4. WellFounded(things)' BY <1>1, <1>4 DEF ServerTyped, WellFounded
  <2>5. \A b \in Admin : setup'[b].step \notin {"idle", "told"} => Proceeding(setup'[b])
    BY <1>1, <1>6, <2>3 DEF ServerTyped
  <2>6. \A b \in Admin : setup'[b].step = "create" => setup'[b].todo \subseteq DOMAIN Wanted
    BY <1>1, <1>6, <1>9 DEF ServerTyped, SetupAt
  <2>7. overlooked' \in BOOLEAN BY <1>2
  <2>8. QED BY <1>1, <1>4, <1>5, <1>6, <2>4, <2>5, <2>6, <2>7 DEF ServerTyped, SetupAt, Proceeding
<1>11. NothingDuplicated' BY <1>2, <1>4 DEF NothingDuplicated, SetupInv
<1>12. MissingIsMissing'
  <2> SUFFICES ASSUME ~overlooked', NEW b \in Admin, SetupAt(b, "create")',
                      NEW i \in setup'[b].todo, NEW x \in things'
               PROVE  ~StandsFor(x, Wanted[i], IdsOf(b)')
    BY <1>5, Meaning
  <2>1. x \in things /\ x \in seen BY <1>2, <1>4
  <2>2. CASE b # a
    <3>1. SetupAt(b, "create") /\ i \in setup[b].todo /\ IdsOf(b)' = IdsOf(b) BY <1>7, <2>2
    <3>2. ~overlooked BY <1>2
    <3>3. QED BY <2>1, <3>1, <3>2 DEF SetupInv, MissingIsMissing
  <2>3. CASE b = a
    <3>1. Matches(Wanted[i], seen) = {} BY <1>6, <2>3 DEF ToCreate
    <3>2. ~StandsFor(x, Wanted[i], Oldest(Named("category", Wanted[i].parent, seen)))
      BY <1>3, <2>1, <3>1, Unmatched
    <3>3. \A c \in Named("category", Wanted[i].parent, Existing(seen)) :
              c \in Oldest(Named("category", Wanted[i].parent, seen))
              /\ c.kind = "category" /\ c.name = Wanted[i].parent
      BY <1>1, FoundCategories DEF Named
    <3>4. QED BY <1>8, <2>3, <3>2, <3>3 DEF StandsFor, Named
  <2>4. QED BY <2>2, <2>3
<1>13. CategoriesFirst'
  <2> SUFFICES ASSUME NEW i \in setup'[a].todo, Wanted[i].parent # ""
               PROVE  \/ Named("category", Wanted[i].parent, IdsOf(a)') # {}
                      \/ \E j \in setup'[a].todo : j < i /\ Wanted[j] = Item("category", Wanted[i].parent, "")
    <3>1. \A b \in Admin \ {a} : SetupAt(b, "create")' =>
              \A i \in setup'[b].todo : Wanted[i].parent # "" =>
                  \/ Named("category", Wanted[i].parent, IdsOf(b)') # {}
                  \/ \E j \in setup'[b].todo : j < i /\ Wanted[j] = Item("category", Wanted[i].parent, "")
      BY <1>7 DEF SetupInv, CategoriesFirst
    <3>2. QED BY <1>5, <3>1, Ordering
  <2>1. PICK j \in DOMAIN Wanted : j < i /\ Wanted[j] = Item("category", Wanted[i].parent, "")
    BY <1>1, <1>6, <1>9, WantedIsInOrder
  <2>5. Wanted[j].kind = "category" /\ Wanted[j].name = Wanted[i].parent BY <2>1, CategoryItem
  <2>2. CASE Matches(Wanted[j], seen) = {} BY <1>6, <2>1, <2>2 DEF ToCreate
  <2>3. ASSUME NEW c \in Matches(Wanted[j], seen) PROVE c \in Named("category", Wanted[i].parent, Existing(seen))
    <3>1. c \in Existing(seen) BY DEF Existing, ToSet
    <3>2. c.kind = Wanted[j].kind /\ c.name = Wanted[j].name BY DEF Matches, Oldest, Named
    <3>4. c.kind = "category" /\ c.name = Wanted[i].parent BY <2>5, <3>2
    <3>3. QED BY <3>1, <3>4 DEF Named
  <2>4. QED BY <1>8, <2>2, <2>3
<1>14. QED BY <1>10, <1>11, <1>12, <1>13 DEF SetupInv

-----------------------------------------------------------------------------

\* What the next item becomes.
LEMMA CreatedInPlace ==
  ASSUME SetupInv, NEW a \in Admin, SetupAt(a, "create"), NEW k \in setup[a].todo,
         \A j \in setup[a].todo : k <= j
  PROVE  /\ StandsFor(Created(a, Wanted[k]), Wanted[k], IdsOf(a))
         /\ Created(a, Wanted[k]).copy = NextCopy(Wanted[k].kind, Wanted[k].name)
<1> DEFINE item == Wanted[k]
           under == Named("category", item.parent, IdsOf(a))
           c == CHOOSE x \in under : TRUE
           new == Created(a, item)
<1>1. setup[a].todo \subseteq DOMAIN Wanted /\ k \in DOMAIN Wanted /\ ServerTyped
  BY DEF SetupInv, ServerTyped
<1>2. new.kind = item.kind /\ new.name = item.name /\ new.copy = NextCopy(item.kind, item.name)
  BY DEF Created, Thing
<1>3. item.parent = "" => new.parent = <<>> BY DEF Created, Thing
<1>4. ASSUME item.parent # "" PROVE c \in under /\ new.parent = <<c.name, c.copy>>
  <2>1. ASSUME NEW j \in setup[a].todo PROVE ~(j < k)
    <3>1. j \in Nat /\ k \in Nat /\ k <= j BY <1>1, WantedIsInOrder
    <3>2. QED BY <3>1
  <2>2. under # {} BY <1>4, <2>1 DEF SetupInv, CategoriesFirst
  <2>3. new.parent = <<c.name, c.copy>> BY <1>4 DEF Created, Thing
  <2>4. QED BY <2>2, <2>3
<1>5. QED BY <1>2, <1>3, <1>4 DEF StandsFor

LEMMA CreateNextKeeps ==
  ASSUME SetupInv, NEW a \in Admin, CreateNext(a)
  PROVE  SetupInv'
<1> DEFINE todo == setup[a].todo
           next == Min(todo)
           item == Wanted[next]
           new == Created(a, item)
           done == ItemMade(setup[a], todo \ {next}, setup[a].made \cup {new})
           less == todo \ ({next} \cup Skipping(item))
           warned == ItemMissed(setup[a], less)
<1>1. ServerTyped /\ SetupAt(a, "create") /\ todo # {} /\ todo \subseteq DOMAIN Wanted
  BY DEF SetupInv, ServerTyped, CreateNext
<1>2. next \in todo /\ \A j \in todo : next <= j
  <2>1. todo \in SUBSET Nat BY <1>1, WantedIsInOrder
  <2>2. QED BY <1>1, <2>1, Smallest
<1>3. UNCHANGED <<serverKind, declared, mapped, lastByHand>> BY DEF CreateNext, platform
<1>4. Wanted' = Wanted BY <1>3 DEF Wanted
<1>5. /\ \/ Put(a, done) /\ HasParent(new) /\ things' = things \cup {new}
         \/ Put(a, warned) /\ HasParent(new) /\ things' = things \cup {new}
         \/ Put(a, warned) /\ UNCHANGED things
      /\ overlooked' = overlooked
         \/ overlooked' = (overlooked \/ Planned(Admin \ {a}, item))
      /\ things' # things => overlooked' = (overlooked \/ Planned(Admin \ {a}, item))
  BY DEF CreateNext, ItemMade, ItemMissed
<1> HIDE DEF next, new
<1>6. StandsFor(new, item, IdsOf(a)) /\ new.copy = NextCopy(item.kind, item.name)
  BY <1>1, <1>2, CreatedInPlace DEF new
<1>7. Proceeding(setup[a]) BY <1>1 DEF ServerTyped, SetupAt
<1>8. /\ Proceeding(done) /\ done.step = "create" /\ done.todo = todo \ {next}
      /\ done.found = setup[a].found /\ done.made = setup[a].made \cup {new}
  <2> DEFINE rest == todo \ {next}
             made == setup[a].made \cup {new}
  <2>1. IsFiniteSet(made) BY <1>7, FS_AddElement DEF Proceeding
  <2>2. done = ItemMade(setup[a], rest, made) OBVIOUS
  <2> HIDE DEF rest, made, done
  <2>3. /\ Proceeding(done) /\ done.step = setup[a].step /\ done.todo = rest
        /\ done.found = setup[a].found /\ done.made = made
    BY <1>7, <2>1, <2>2, WorkGoesOn
  <2>4. setup[a].step = "create" BY <1>1 DEF SetupAt
  <2>5. QED BY <2>3, <2>4 DEF rest, made
<1>9. /\ Proceeding(warned) /\ warned.step = "create" /\ warned.todo = less
      /\ warned.found = setup[a].found /\ warned.made = setup[a].made
  BY <1>1, <1>7, FS_EmptySet, WorkGoesOn DEF SetupAt
<1> HIDE DEF done, warned
<1>10. /\ DOMAIN setup' = Admin /\ \A b \in Admin \ {a} : setup'[b] = setup[b]
       /\ setup'[a] = done \/ setup'[a] = warned
  BY <1>1, <1>5 DEF Put, ServerTyped
<1>11. /\ setup'[a].step = "create" /\ Proceeding(setup'[a]) /\ next \notin setup'[a].todo
       /\ setup'[a].todo \subseteq todo /\ IdsOf(a)' \subseteq IdsOf(a) \cup {new}
       /\ IdsOf(a) \subseteq IdsOf(a)'
  BY <1>8, <1>9, <1>10 DEF IdsOf
<1>12. \A b \in Admin \ {a} : SetupAt(b, "create")' =>
           SetupAt(b, "create") /\ setup'[b].todo = setup[b].todo /\ IdsOf(b)' = IdsOf(b)
  BY <1>10 DEF SetupAt, IdsOf
<1>13. overlooked' \in BOOLEAN /\ (overlooked => overlooked')
  <2>1. overlooked \in BOOLEAN BY <1>1 DEF ServerTyped
  <2>2. overlooked' = overlooked \/ overlooked' = (overlooked \/ Planned(Admin \ {a}, item)) BY <1>5
  <2> HIDE DEF item
  <2>3. QED BY <2>1, <2>2
<1>14. WellFounded(things)' /\ NothingDuplicated' /\ MissingIsMissing'
  <2>1. CASE things' = things /\ Put(a, warned)
    <3>1. setup'[a] = warned BY <1>1, <2>1 DEF Put, ServerTyped
    <3>2. IdsOf(a)' = IdsOf(a) BY <1>9, <3>1 DEF IdsOf
    <3>3. \A b \in Admin : SetupAt(b, "create")' =>
              SetupAt(b, "create") /\ setup'[b].todo \subseteq setup[b].todo /\ IdsOf(b)' = IdsOf(b)
      BY <1>1, <1>11, <1>12, <3>2
    <3>4. WellFounded(things)' BY <1>1, <2>1 DEF ServerTyped, WellFounded
    <3>5. QED BY <1>3, <1>13, <2>1, <3>3, <3>4, NothingAdded DEF SetupInv
  <2>2. CASE HasParent(new) /\ things' = things \cup {new} /\ things' # things
    <3>1. overlooked' = (overlooked \/ Planned(Admin \ {a}, item)) BY <1>5, <2>2
    <3>2. next \in DOMAIN Wanted BY <1>1, <1>2
    <3>3. overlooked' \/ \A x \in things : ~StandsFor(x, item, IdsOf(a))
      BY <1>1, <1>2, <1>13 DEF SetupInv, MissingIsMissing
    <3>4. ASSUME NEW b \in Admin, SetupAt(b, "create")'
          PROVE  /\ SetupAt(b, "create") /\ setup'[b].todo \subseteq setup[b].todo
                 /\ IdsOf(b)' \subseteq IdsOf(b) \cup {new}
                 /\ overlooked' \/ \A i \in setup'[b].todo : Wanted[i] # item
      <4>1. CASE b = a
        <5>1. \A i \in setup'[a].todo : Wanted[i] # item BY <1>1, <1>11, <3>2, WantedIsInOrder
        <5>2. QED BY <1>1, <1>11, <4>1, <5>1
      <4>2. CASE b # a
        <5>1. SetupAt(b, "create") /\ setup'[b].todo = setup[b].todo /\ IdsOf(b)' = IdsOf(b)
          BY <1>12, <3>4, <4>2
        <5>2. overlooked' \/ \A i \in setup[b].todo : Wanted[i] # item
          BY <3>1, <4>2, <5>1 DEF Planned
        <5>3. QED BY <5>1, <5>2
      <4>3. QED BY <4>1, <4>2
    <3>5. QED BY <1>3, <1>6, <1>13, <2>2, <3>2, <3>3, <3>4, ThingAdded
  <2>3. CASE HasParent(new) /\ things' = things \cup {new} /\ things' = things
    \* It was there already, which cannot be.
    <3>1. new \in things BY <2>3
    <3>2. \A x \in Named(item.kind, item.name, Known) : x.copy # new.copy
      BY <1>1, <1>6, KnownIsFinite, NextIsNew
    <3>3. new \in Named(item.kind, item.name, Known) BY <1>6, <3>1 DEF StandsFor, Named, Known
    <3>4. QED BY <3>2, <3>3
  <2>4. QED BY <1>5, <2>1, <2>2, <2>3
<1>15. CategoriesFirst'
  <2> SUFFICES ASSUME NEW i \in setup'[a].todo, Wanted[i].parent # ""
               PROVE  \/ Named("category", Wanted[i].parent, IdsOf(a)') # {}
                      \/ \E j \in setup'[a].todo : j < i /\ Wanted[j] = Item("category", Wanted[i].parent, "")
    <3>1. \A b \in Admin \ {a} : SetupAt(b, "create")' =>
              \A i \in setup'[b].todo : Wanted[i].parent # "" =>
                  \/ Named("category", Wanted[i].parent, IdsOf(b)') # {}
                  \/ \E j \in setup'[b].todo : j < i /\ Wanted[j] = Item("category", Wanted[i].parent, "")
      BY <1>12 DEF SetupInv, CategoriesFirst
    <3>2. QED BY <1>4, <3>1, Ordering
  <2>1. i \in todo BY <1>11
  <2>2. CASE Named("category", Wanted[i].parent, IdsOf(a)) # {} BY <1>11, <2>2 DEF Named
  <2>3. ASSUME NEW j \in todo, j < i, Wanted[j] = Item("category", Wanted[i].parent, "")
        PROVE  \/ Named("category", Wanted[i].parent, IdsOf(a)') # {}
               \/ j \in setup'[a].todo
    <3>1. Wanted[j].kind = "category" /\ Wanted[j].name = Wanted[i].parent /\ Wanted[j].parent = ""
      BY <2>3, CategoryItem
    <3>2. CASE setup'[a] = done
      <4>1. j = next => new \in Named("category", Wanted[i].parent, IdsOf(a)')
        BY <1>6, <1>8, <3>1, <3>2 DEF StandsFor, Named, IdsOf
      <4>2. QED BY <1>8, <2>3, <3>2, <4>1
    <3>3. CASE setup'[a] = warned
      <4>1. i \in less BY <1>9, <3>3
      <4>2. i \in DOMAIN Wanted /\ next \in DOMAIN Wanted BY <1>1, <1>2, <2>1
      <4>3. j # next BY <3>1, <4>1, <4>2 DEF Skipping
      <4>4. j \notin Skipping(item)
        <5>1. SUFFICES ASSUME item.kind = "category", item.name = "" PROVE FALSE
          BY <3>1 DEF Skipping
        <5>2. QED BY <1>1, <4>2, <5>1, WantedIsInOrder
      <4>5. QED BY <1>9, <2>3, <3>3, <4>3, <4>4
    <3>4. QED BY <1>10, <3>2, <3>3
  <2>4. QED BY <1>1, <2>1, <2>2, <2>3 DEF SetupInv, CategoriesFirst
<1>16. ServerTyped'
  <2>1. \A b \in Admin : setup'[b].step \notin {"idle", "told"} => Proceeding(setup'[b])
    BY <1>1, <1>10, <1>11 DEF ServerTyped
  <2>2. \A b \in Admin : setup'[b].step = "create" => setup'[b].todo \subseteq DOMAIN Wanted
    BY <1>1, <1>10, <1>11 DEF ServerTyped, SetupAt
  <2>3. QED BY <1>1, <1>3, <1>4, <1>10, <1>13, <1>14, <2>1, <2>2 DEF ServerTyped, SetupAt, Proceeding
<1>17. QED BY <1>14, <1>15, <1>16 DEF SetupInv

-----------------------------------------------------------------------------

\* What a person does to a setup that is running.
NowDisturbed(r) == [r EXCEPT !.undisturbed = FALSE]

LEMMA Disturbed ==
  ASSUME NEW r, Proceeding(r)
  PROVE  /\ Proceeding(NowDisturbed(r)) /\ NowDisturbed(r).step = r.step /\ NowDisturbed(r).todo = r.todo
         /\ NowDisturbed(r).found = r.found /\ NowDisturbed(r).made = r.made
  BY DEF Proceeding, NowDisturbed

\* Only whether a setup is undisturbed has changed.
LEMMA WorkIsKept ==
  ASSUME ServerTyped, UNCHANGED <<serverKind, declared, mapped>>, WellFounded(things)',
         overlooked' \in BOOLEAN, lastByHand'.copy \in Nat, DOMAIN setup' = Admin,
         \A a \in Admin : setup'[a] = setup[a]
             \/ (setup[a].step \notin {"idle", "told"} /\ setup'[a] = NowDisturbed(setup[a]))
  PROVE  /\ ServerTyped'
         /\ \A a \in Admin : SetupAt(a, "create")' =>
                SetupAt(a, "create") /\ setup'[a].todo = setup[a].todo /\ IdsOf(a)' = IdsOf(a)
<1>1. Wanted' = Wanted BY DEF Wanted
<1>2. ASSUME NEW a \in Admin
      PROVE  /\ setup'[a].step = setup[a].step
             /\ setup'[a].step \notin {"idle", "told"} =>
                    Proceeding(setup'[a]) /\ setup'[a].todo = setup[a].todo
                    /\ setup'[a].found = setup[a].found /\ setup'[a].made = setup[a].made
  <2>1. CASE setup'[a] = setup[a] BY <2>1 DEF ServerTyped
  <2>2. CASE setup[a].step \notin {"idle", "told"} /\ setup'[a] = NowDisturbed(setup[a])
    <3>1. Proceeding(setup[a]) BY <2>2 DEF ServerTyped
    <3>2. QED BY <2>2, <3>1, Disturbed
  <2>3. QED BY <2>1, <2>2
<1>3. \A a \in Admin : SetupAt(a, "create")' =>
          SetupAt(a, "create") /\ setup'[a].todo = setup[a].todo /\ IdsOf(a)' = IdsOf(a)
  BY <1>2 DEF SetupAt, IdsOf
<1>4. \A a \in Admin : setup'[a].step \notin {"idle", "told"} => Proceeding(setup'[a]) BY <1>2
<1>5. \A a \in Admin : setup'[a].step = "create" => setup'[a].todo \subseteq DOMAIN Wanted
  BY <1>3 DEF ServerTyped, SetupAt
<1>6. ServerTyped' BY <1>1, <1>4, <1>5 DEF ServerTyped, SetupAt, Proceeding
<1>7. QED BY <1>3, <1>6

LEMMA MakeByHandKeeps ==
  ASSUME SetupInv, NEW item \in ToSet(Wanted), MakeByHand(item)
  PROVE  SetupInv'
<1> DEFINE under == Oldest(Named("category", item.parent, things))
           copy == NextCopy(item.kind, item.name)
<1>1. ServerTyped /\ CategoriesFirst BY DEF SetupInv
<1>2. PICK k \in DOMAIN Wanted : item = Wanted[k] BY DEF ToSet
<1>3. UNCHANGED <<serverKind, declared, mapped>> BY DEF MakeByHand, platform
<1>4. PICK parent \in IF item.parent = "" THEN {<<>>} ELSE {<<c.name, c.copy>> : c \in under} :
          LET new == Thing(item.kind, item.name, parent, copy, IF item.kind = "category" THEN Everyone ELSE {})
          IN  things' = things \cup {new} /\ lastByHand' = new
  BY DEF MakeByHand
<1>5. /\ Matches(item, things) = {} /\ overlooked' = (overlooked \/ Planned(Admin, item))
      /\ setup' = [a \in Admin |-> IF setup[a].step \in {"everyone", "clear"}
                                   THEN NowDisturbed(setup[a]) ELSE setup[a]]
  BY DEF MakeByHand, NowDisturbed
<1> DEFINE new == Thing(item.kind, item.name, parent, copy, IF item.kind = "category" THEN Everyone ELSE {})
<1>6. things' = things \cup {new} /\ lastByHand' = new BY <1>4
<1>7. new.kind = item.kind /\ new.name = item.name /\ new.copy = copy /\ new.parent = parent BY DEF Thing
<1> HIDE DEF new
<1>8. StandsFor(new, item, under)
  <2>1. CASE item.parent = "" BY <1>4, <1>7, <2>1 DEF StandsFor
  <2>2. CASE item.parent # ""
    <3>1. PICK c \in under : parent = <<c.name, c.copy>> BY <1>4, <2>2
    <3>2. c \in Named("category", item.parent, under) BY <3>1 DEF Oldest, Named
    <3>3. QED BY <1>7, <2>2, <3>1, <3>2 DEF StandsFor
  <2>3. QED BY <2>1, <2>2
<1>9. HasParent(new)
  <2>1. CASE item.parent = "" BY <1>4, <1>7, <2>1 DEF HasParent
  <2>2. CASE item.parent # ""
    <3>1. PICK c \in under : parent = <<c.name, c.copy>> BY <1>4, <2>2
    <3>2. c \in things /\ c.kind = "category" BY <3>1 DEF Oldest, Named
    <3>3. QED BY <1>7, <3>1, <3>2 DEF HasParent
  <2>3. QED BY <2>1, <2>2
<1>10. \A x \in things : ~StandsFor(x, item, under)
  <2>1. \A x \in things : x.copy \in Nat BY <1>1 DEF ServerTyped, WellFounded
  <2>2. QED BY <1>5, <2>1, Unmatched
<1>11. overlooked' \in BOOLEAN /\ (overlooked => overlooked')
  <2>1. overlooked \in BOOLEAN BY <1>1 DEF ServerTyped
  <2>2. QED BY <1>5, <2>1
<1>12. copy \in Nat BY <1>1, KnownIsFinite, NextIsNew
<1>13. /\ DOMAIN setup' = Admin
       /\ \A a \in Admin : setup'[a] = setup[a]
             \/ (setup[a].step \notin {"idle", "told"} /\ setup'[a] = NowDisturbed(setup[a]))
       /\ \A a \in Admin : setup'[a].step = "create" => setup'[a] = setup[a]
  <2>1. DOMAIN setup' = Admin BY <1>5
  <2>2. ASSUME NEW a \in Admin, setup[a].step \in {"everyone", "clear"}
        PROVE  setup'[a] = NowDisturbed(setup[a]) /\ setup'[a].step = setup[a].step
    <3>1. setup'[a] = NowDisturbed(setup[a]) BY <1>5, <2>2
    <3>2. Proceeding(setup[a]) BY <1>1, <2>2 DEF ServerTyped
    <3>3. QED BY <3>1, <3>2, Disturbed
  <2>3. \A a \in Admin : setup[a].step \notin {"everyone", "clear"} => setup'[a] = setup[a] BY <1>5
  <2>4. \A a \in Admin : setup'[a] = setup[a]
            \/ (setup[a].step \notin {"idle", "told"} /\ setup'[a] = NowDisturbed(setup[a]))
    BY <2>2, <2>3
  <2>5. \A a \in Admin : setup'[a].step = "create" => setup'[a] = setup[a]
    <3>1. ASSUME NEW a \in Admin, setup'[a].step = "create", setup[a].step \in {"everyone", "clear"} PROVE FALSE
      BY <2>2, <3>1
    <3>2. QED BY <2>3, <3>1
  <2>6. QED BY <2>1, <2>4, <2>5
<1>14. \A b \in Admin : SetupAt(b, "create")' =>
           /\ SetupAt(b, "create") /\ setup'[b].todo \subseteq setup[b].todo
           /\ IdsOf(b)' \subseteq IdsOf(b) \cup {new}
           /\ overlooked' \/ \A i \in setup'[b].todo : Wanted[i] # item
  <2> SUFFICES ASSUME NEW b \in Admin, SetupAt(b, "create")'
               PROVE  /\ SetupAt(b, "create") /\ setup'[b].todo \subseteq setup[b].todo
                      /\ IdsOf(b)' \subseteq IdsOf(b) \cup {new}
                      /\ overlooked' \/ \A i \in setup'[b].todo : Wanted[i] # item
    OBVIOUS
  <2>1. setup'[b] = setup[b] BY <1>13 DEF SetupAt
  <2>2. overlooked' \/ \A i \in setup[b].todo : Wanted[i] # item BY <1>5, <2>1 DEF Planned, SetupAt
  <2>3. QED BY <2>1, <2>2 DEF SetupAt, IdsOf
<1>15. WellFounded(things)' /\ NothingDuplicated' /\ MissingIsMissing'
  <2> HIDE DEF under, copy
  <2>1. new.copy = NextCopy(item.kind, item.name) BY <1>7 DEF copy
  <2>2. QED BY <1>2, <1>3, <1>6, <1>8, <1>9, <1>10, <1>11, <1>14, <2>1, ThingAdded
<1>16. ServerTyped' /\ \A a \in Admin : SetupAt(a, "create")' =>
           SetupAt(a, "create") /\ setup'[a].todo = setup[a].todo /\ IdsOf(a)' = IdsOf(a)
  BY <1>1, <1>3, <1>6, <1>7, <1>11, <1>12, <1>13, <1>15, WorkIsKept
<1>17. QED BY <1>1, <1>3, <1>15, <1>16, OrderStays DEF SetupInv

LEMMA DeleteByHandKeeps ==
  ASSUME SetupInv, NEW x \in things, DeleteByHand(x)
  PROVE  SetupInv'
<1>1. ServerTyped /\ CategoriesFirst BY DEF SetupInv
<1>2. UNCHANGED <<serverKind, declared, mapped, overlooked>> BY DEF DeleteByHand, platform
<1>3. things' = {y \in things \ {x} : x.kind # "category" \/ y.parent # <<x.name, x.copy>>} /\ lastByHand' = x
  BY DEF DeleteByHand
<1>4. things' \subseteq things /\ IsFiniteSet(things')
  <2>1. things' \subseteq things BY <1>3
  <2>2. QED BY <1>1, <2>1, FS_Subset DEF ServerTyped, WellFounded
<1>5. WellFounded(things)'
  <2>1. ASSUME NEW y \in things', y.parent # <<>>
        PROVE  \E c \in things' : c.kind = "category" /\ <<c.name, c.copy>> = y.parent
    <3>1. y \in things BY <1>4
    <3>2. PICK c \in things : c.kind = "category" /\ <<c.name, c.copy>> = y.parent
      BY <1>1, <2>1, <3>1 DEF ServerTyped, WellFounded
    <3>3. c # x BY <1>3, <3>2
    <3>4. c.parent = <<>> /\ <<x.name, x.copy>> # <<>> BY <1>1, <3>2 DEF ServerTyped, WellFounded
    <3>5. c \in things' BY <1>3, <3>3, <3>4
    <3>6. QED BY <3>2, <3>5
  <2>2. \A y \in things' : y.copy \in Nat /\ (y.kind = "category" => y.parent = <<>>)
    BY <1>1, <1>4 DEF ServerTyped, WellFounded
  <2>3. QED BY <1>4, <2>1, <2>2 DEF WellFounded
<1>6. /\ DOMAIN setup' = Admin
      /\ \A a \in Admin : setup'[a] = setup[a]
             \/ (setup[a].step \notin {"idle", "told"} /\ setup'[a] = NowDisturbed(setup[a]))
  <2>1. setup' = [a \in Admin |-> IF setup[a].step \in {"idle", "told"}
                                  THEN setup[a] ELSE NowDisturbed(setup[a])]
    BY DEF DeleteByHand, NowDisturbed
  <2>2. \A a \in Admin : setup[a].step \in {"idle", "told"} => setup'[a] = setup[a] BY <2>1
  <2>3. \A a \in Admin : setup[a].step \notin {"idle", "told"} =>
            setup'[a] = NowDisturbed(setup[a])
    BY <2>1
  <2>4. DOMAIN setup' = Admin BY <2>1
  <2>5. QED BY <2>2, <2>3, <2>4
<1>7. x.copy \in Nat /\ overlooked \in BOOLEAN BY <1>1 DEF ServerTyped, WellFounded
<1>8. ServerTyped' /\ \A a \in Admin : SetupAt(a, "create")' =>
          SetupAt(a, "create") /\ setup'[a].todo = setup[a].todo /\ IdsOf(a)' = IdsOf(a)
  BY <1>1, <1>2, <1>3, <1>5, <1>6, <1>7, WorkIsKept
<1>9. QED BY <1>1, <1>2, <1>4, <1>8, NothingAdded, OrderStays DEF SetupInv

LEMMA SetupInit == ProvisionInit => SetupInv
<1> SUFFICES ASSUME ProvisionInit PROVE SetupInv
  OBVIOUS
<1>1. \A a \in Admin : setup[a].step = "idle" BY DEF ProvisionInit, IdleSetup
<1>2. things \in FoundAtFirst /\ WellFounded(things) BY ServersInOrder DEF ProvisionInit
<1>3. lastByHand.copy = 0 BY DEF ProvisionInit, NoThing, Thing
<1>4. ServerTyped
  <2>1. serverKind \in DOMAIN Blueprints /\ overlooked = FALSE /\ declared = {} /\ mapped = {}
        /\ DOMAIN setup = Admin
    BY DEF ProvisionInit
  <2>2. IsFiniteSet(declared) /\ IsFiniteSet(mapped) /\ overlooked \in BOOLEAN BY <2>1, FS_EmptySet
  <2>3. lastByHand.copy \in Nat BY <1>3
  <2>4. \A a \in Admin : setup[a].step \in {"idle", "told"} /\ ~SetupAt(a, "create") BY <1>1 DEF SetupAt
  <2>5. QED BY <1>2, <2>1, <2>2, <2>3, <2>4 DEF ServerTyped
<1>5. NothingDuplicated BY <1>2 DEF NothingDuplicated
<1>6. MissingIsMissing /\ CategoriesFirst BY <1>1 DEF MissingIsMissing, CategoriesFirst, SetupAt
<1>7. QED BY <1>4, <1>5, <1>6 DEF SetupInv

LEMMA SetupSteps ==
  ASSUME SetupInv, ProvisionNext
  PROVE  SetupInv'
<1>1. ASSUME NEW a \in Admin, NEW wire \in Wirings, PlanSetup(a, wire) PROVE SetupInv' BY <1>1, PlanSetupKeeps
<1>2. ASSUME NEW a \in Admin, CreateNext(a) PROVE SetupInv' BY <1>2, CreateNextKeeps
<1>3. ASSUME NEW a \in Admin,
             StructureDone(a) \/ Register(a) \/ Declare(a) \/ MapRole(a)
                \/ PlanReset(a) \/ SetBaseline(a) \/ ClearRole(a) \/ ResetDone(a)
      PROVE  SetupInv'
  BY <1>3, LaterSteps
<1>4. ASSUME NEW item \in ToSet(Wanted), MakeByHand(item) PROVE SetupInv' BY <1>4, MakeByHandKeeps
<1>5. ASSUME NEW x \in things, DeleteByHand(x) PROVE SetupInv' BY <1>5, DeleteByHandKeeps
<1>6. ASSUME CrashSetups PROVE SetupInv' BY <1>6, CrashKeeps
<1>7. QED BY <1>1, <1>2, <1>3, <1>4, <1>5, <1>6 DEF ProvisionNext

LEMMA SetupStays == SetupInv /\ UNCHANGED provisionVars => SetupInv'
<1> SUFFICES ASSUME SetupInv, UNCHANGED provisionVars PROVE SetupInv'
  OBVIOUS
<1>1. UNCHANGED <<serverKind, things, setup, lastByHand, overlooked, declared, mapped>>
  BY DEF provisionVars, platform
<1>2. Wanted' = Wanted BY <1>1 DEF Wanted
<1>3. ServerTyped' BY <1>1, <1>2 DEF SetupInv, ServerTyped, WellFounded, SetupAt, Proceeding
<1>4. \A a \in Admin : SetupAt(a, "create")' =>
          SetupAt(a, "create") /\ setup'[a].todo = setup[a].todo /\ IdsOf(a)' = IdsOf(a)
  BY <1>1 DEF SetupAt, IdsOf
<1>5. QED BY <1>1, <1>3, <1>4, NothingAdded, OrderStays DEF SetupInv

-----------------------------------------------------------------------------
\* What a setup may report.

SettingUp(r) == r.step \in {"create", "register", "declare", "map"}
Resetting(r) == r.step \in {"everyone", "clear"}

\* The server has what an item asks for.
Placed(item, have) ==
    \E x \in Named(item.kind, item.name, have) :
        item.parent # "" => \E c \in Named("category", item.parent, have) : x.parent = <<c.name, c.copy>>

\* Each category that was made is open to all it is for.
Open(made, t) ==
    \A c \in made, i \in DOMAIN t.categories :
        (c.kind = "category" /\ c.name = t.categories[i].name) => c.seenBy = t.categories[i].sees

\* The role of the members among these things.
MemberAmong(known, t) == Named("role", t.roles[RoleOf(t, t.managed[1])][2], known)

\* A setup that has nothing to warn of knows a thing for every item it has dealt
\* with, has opened its categories, and has entered what it is past; what nobody
\* has deleted is there.
SetupPromises(r, kind, have, managed, listed) ==
    LET items == WantedIn[kind]
    IN  /\ r.wire \in Wirings
        /\ r.step # "create" => r.todo = {}
        /\ r.step \in {"declare", "map"} => listed
        /\ ~r.warned =>
               /\ \A i \in DOMAIN items \ r.todo : Named(items[i].kind, items[i].name, r.found \cup r.made) # {}
               /\ Open(r.made, Blueprints[kind])
               /\ r.undisturbed => \A i \in DOMAIN items \ r.todo : Placed(items[i], have)
               /\ r.step = "map" => MemberAmong(r.found \cup r.made, Blueprints[kind]) \subseteq managed

\* A reset that has nothing to warn of still has to clear every role with permissions.
ResetPromises(r, able, base) ==
    /\ r.wire = "reset"
    /\ ~r.warned => /\ r.undisturbed => \A x \in able : x.name \in Unmanageable \/ x \in r.found
                    /\ r.step = "clear" => base

PromisesMade ==
    \A a \in Admin :
        /\ SettingUp(setup[a]) => SetupPromises(setup[a], serverKind, things, declared, allowlisted)
        /\ Resetting(setup[a]) => ResetPromises(setup[a], empowered, baseline)

PromiseInv == SetupInv /\ ProvisionTypeOK /\ PromisesMade

LEMMA SetupStillPromises ==
  ASSUME NEW r, NEW kind, NEW have, NEW managed, NEW listed, NEW have2, NEW managed2, NEW listed2,
         have \subseteq have2, managed \subseteq managed2, listed => listed2,
         SetupPromises(r, kind, have, managed, listed)
  PROVE  SetupPromises(r, kind, have2, managed2, listed2)
<1>1. \A item : Placed(item, have) => Placed(item, have2) BY DEF Placed, Named
<1>2. QED BY <1>1 DEF SetupPromises

LEMMA ResetStillPromises ==
  ASSUME NEW r, NEW able, NEW base, NEW able2, NEW base2, able2 \subseteq able, base => base2,
         ResetPromises(r, able, base)
  PROVE  ResetPromises(r, able2, base2)
  BY DEF ResetPromises

LEMMA DisturbedPromises ==
  ASSUME NEW r, Proceeding(r), NEW kind, NEW have, NEW have2, NEW managed, NEW listed, NEW able, NEW able2, NEW base
  PROVE  /\ SetupPromises(r, kind, have, managed, listed) => SetupPromises(NowDisturbed(r), kind, have2, managed, listed)
         /\ ResetPromises(r, able, base) => ResetPromises(NowDisturbed(r), able2, base)
         /\ SettingUp(NowDisturbed(r)) <=> SettingUp(r)
         /\ Resetting(NowDisturbed(r)) <=> Resetting(r)
<1> DEFINE d == NowDisturbed(r)
<1>1. /\ d.wire = r.wire /\ d.step = r.step /\ d.todo = r.todo /\ d.warned = r.warned /\ d.found = r.found
      /\ d.made = r.made /\ d.undisturbed = FALSE
  BY DEF NowDisturbed, Proceeding
<1> HIDE DEF d
<1>2. SetupPromises(r, kind, have, managed, listed) => SetupPromises(d, kind, have2, managed, listed)
  BY <1>1 DEF SetupPromises
<1>3. ResetPromises(r, able, base) => ResetPromises(d, able2, base) BY <1>1 DEF ResetPromises
<1>4. (SettingUp(d) <=> SettingUp(r)) /\ (Resetting(d) <=> Resetting(r)) BY <1>1 DEF SettingUp, Resetting
<1>5. QED BY <1>2, <1>3, <1>4 DEF d

\* One command goes on, and takes from no other what it has.
LEMMA PromisesStay ==
  ASSUME PromiseInv, UNCHANGED serverKind, things \subseteq things', declared \subseteq declared',
         allowlisted => allowlisted', empowered' \subseteq empowered, baseline => baseline',
         NEW a \in Admin, DOMAIN setup = Admin, NEW q, Put(a, q),
         SettingUp(q) => SetupPromises(q, serverKind, things', declared', allowlisted'),
         Resetting(q) => ResetPromises(q, empowered', baseline')
  PROVE  PromisesMade'
<1>1. setup'[a] = q /\ \A b \in Admin \ {a} : setup'[b] = setup[b] BY DEF Put
<1>2. ASSUME NEW b \in Admin
      PROVE  /\ SettingUp(setup'[b]) => SetupPromises(setup'[b], serverKind', things', declared', allowlisted')
             /\ Resetting(setup'[b]) => ResetPromises(setup'[b], empowered', baseline')
  <2>1. CASE b = a BY <1>1, <2>1
  <2>2. CASE b # a
    <3>1. setup'[b] = setup[b] BY <1>1, <2>2
    <3>2. SettingUp(setup[b]) => SetupPromises(setup[b], serverKind, things', declared', allowlisted')
      <4>1. SettingUp(setup[b]) => SetupPromises(setup[b], serverKind, things, declared, allowlisted)
        BY DEF PromiseInv, PromisesMade
      <4>2. QED BY <4>1, SetupStillPromises
    <3>3. Resetting(setup[b]) => ResetPromises(setup[b], empowered', baseline')
      <4>1. Resetting(setup[b]) => ResetPromises(setup[b], empowered, baseline) BY DEF PromiseInv, PromisesMade
      <4>2. QED BY <4>1, ResetStillPromises
    <3>4. QED BY <3>1, <3>2, <3>3
  <2>3. QED BY <2>1, <2>2
<1>3. QED BY <1>2 DEF PromisesMade, SettingUp, Resetting, SetupPromises, ResetPromises, Placed, Named, Open, MemberAmong

\* What a setup plans, and a reset.
LEMMA PlannedPromises ==
  ASSUME PromiseInv, NEW a \in Admin, NEW wire \in Wirings, PlanSetup(a, wire)
  PROVE  PromiseInv'
<1>1. ServerTyped /\ SetupInv BY DEF PromiseInv, SetupInv
<1>2. PICK seen \in {things, Lagging} :
          Put(a, [step |-> "create", todo |-> ToCreate(seen), found |-> Existing(seen), made |-> {},
                  wire |-> wire, warned |-> FALSE, undisturbed |-> seen = things])
  BY DEF PlanSetup
<1> DEFINE q == [step |-> "create", todo |-> ToCreate(seen), found |-> Existing(seen), made |-> {},
                 wire |-> wire, warned |-> FALSE, undisturbed |-> seen = things]
<1>3. /\ q.step = "create" /\ q.todo = ToCreate(seen) /\ q.found = Existing(seen) /\ q.made = {}
      /\ q.wire = wire /\ (q.undisturbed => seen = things)
  OBVIOUS
<1>4. Put(a, q) BY <1>2
<1> HIDE DEF q
<1>5. /\ UNCHANGED <<serverKind, things, empowered, baseline, allowlisted, declared, mapped, handLeft>>
      /\ setupsLeft' \in 0 .. MaxSetups
  <2>1. setupsLeft \in 0 .. MaxSetups BY DEF PromiseInv, ProvisionTypeOK
  <2>2. QED BY <2>1, ProvisionConstants DEF PlanSetup, Ready, permissions, platform
<1>6. ASSUME NEW i \in DOMAIN Wanted \ q.todo
      PROVE  /\ Named(Wanted[i].kind, Wanted[i].name, q.found) # {}
             /\ Placed(Wanted[i], seen)
  <2>1. PICK x \in Matches(Wanted[i], seen) : TRUE BY <1>3, <1>6 DEF ToCreate
  <2>2. x \in Existing(seen) BY DEF Existing, ToSet
  <2>3. /\ x \in Named(Wanted[i].kind, Wanted[i].name, seen)
        /\ Wanted[i].parent # "" => \E c \in Oldest(Named("category", Wanted[i].parent, seen)) :
                                        x.parent = <<c.name, c.copy>>
    BY DEF Matches, Oldest
  <2>4. QED BY <1>3, <2>2, <2>3 DEF Placed, Named, Oldest
<1>7. SetupPromises(q, serverKind, things', declared', allowlisted')
  BY <1>3, <1>5, <1>6 DEF SetupPromises, Open, Wanted
<1>8. /\ ~Resetting(q) /\ DOMAIN setup = Admin BY <1>1, <1>3 DEF Resetting, ServerTyped
<1>9. PromisesMade' BY <1>4, <1>5, <1>7, <1>8, PromisesStay DEF PromiseInv
<1>10. SetupInv' BY <1>1, PlanSetupKeeps
<1>11. ProvisionTypeOK'
  <2>1. \A b \in Admin : setup'[b].step \in {"idle", "create", "register", "declare", "map",
                                             "everyone", "clear", "told"}
    BY <1>3, <1>4, <1>8 DEF Put, PromiseInv, ProvisionTypeOK
  <2>2. WellFounded(things)' /\ overlooked' \in BOOLEAN BY <1>10 DEF SetupInv, ServerTyped
  <2>3. QED BY <1>5, <2>1, <2>2 DEF PromiseInv, ProvisionTypeOK
<1>12. QED BY <1>9, <1>10, <1>11 DEF PromiseInv

\* What is typed goes on to be.
LEMMA ProvisionTyped ==
  ASSUME ProvisionTypeOK, SetupInv', UNCHANGED <<serverKind, handLeft>>,
         setupsLeft' \in 0 .. MaxSetups, empowered' \subseteq empowered, things \subseteq things',
         baseline' \in BOOLEAN, allowlisted' \in BOOLEAN,
         \A x \in declared' \cup mapped' : x.kind = "role",
         NEW a \in Admin, DOMAIN setup = Admin, NEW q, Put(a, q),
         q.step \in {"idle", "create", "register", "declare", "map", "everyone", "clear", "told"}
  PROVE  ProvisionTypeOK'
<1>1. \A b \in Admin : setup'[b].step \in {"idle", "create", "register", "declare", "map",
                                           "everyone", "clear", "told"}
  BY DEF Put, ProvisionTypeOK
<1>2. WellFounded(things)' /\ overlooked' \in BOOLEAN BY DEF SetupInv, ServerTyped
<1>3. QED BY <1>1, <1>2 DEF ProvisionTypeOK

\* A step that leaves the server as it is.
LEMMA NothingChanges ==
  ASSUME PromiseInv, SetupInv', UNCHANGED <<serverKind, things, handLeft>>,
         setupsLeft' \in 0 .. MaxSetups, declared \subseteq declared',
         allowlisted => allowlisted', empowered' \subseteq empowered, baseline => baseline',
         baseline' \in BOOLEAN, allowlisted' \in BOOLEAN,
         \A x \in declared' \cup mapped' : x.kind = "role",
         NEW a \in Admin, NEW q, Put(a, q),
         q.step \in {"idle", "create", "register", "declare", "map", "everyone", "clear", "told"},
         SettingUp(q) => SetupPromises(q, serverKind, things, declared', allowlisted'),
         Resetting(q) => ResetPromises(q, empowered', baseline')
  PROVE  PromiseInv'
<1>1. DOMAIN setup = Admin BY DEF PromiseInv, SetupInv, ServerTyped
<1>2. PromisesMade' BY <1>1, PromisesStay
<1>3. ProvisionTypeOK' BY <1>1, ProvisionTyped DEF PromiseInv
<1>4. QED BY <1>2, <1>3 DEF PromiseInv

LEMMA StructurePromises ==
  ASSUME PromiseInv, NEW a \in Admin, StructureDone(a)
  PROVE  PromiseInv'
<1> DEFINE r == setup[a]
           q == IF r.wire = "none" THEN Told(r) ELSE [r EXCEPT !.step = "register"]
<1>1. SetupInv' BY LaterSteps DEF PromiseInv
<1>2. Proceeding(r) /\ r.step = "create" /\ r.todo = {} BY DEF StructureDone, SetupAt, PromiseInv, SetupInv, ServerTyped
<1>3. SetupPromises(r, serverKind, things, declared, allowlisted)
  BY <1>2 DEF PromiseInv, PromisesMade, SettingUp
<1>4. Put(a, q) BY DEF StructureDone
<1>5. \/ q.step = "told"
      \/ /\ q.step = "register" /\ q.todo = r.todo /\ q.wire = r.wire /\ q.warned = r.warned
         /\ q.undisturbed = r.undisturbed /\ q.found = r.found /\ q.made = r.made
  BY <1>2 DEF Told, Proceeding
<1> HIDE DEF q
<1>6. SettingUp(q) => SetupPromises(q, serverKind, things, declared, allowlisted)
  BY <1>2, <1>3, <1>5 DEF SetupPromises, SettingUp
<1>7. ~Resetting(q) BY <1>5 DEF Resetting
<1>8. UNCHANGED <<serverKind, things, empowered, baseline, allowlisted, declared, mapped, setupsLeft, handLeft>>
  BY DEF StructureDone, permissions, platform
<1>9. /\ setupsLeft \in 0 .. MaxSetups /\ baseline \in BOOLEAN /\ allowlisted \in BOOLEAN
      /\ \A x \in declared \cup mapped : x.kind = "role"
  BY DEF PromiseInv, ProvisionTypeOK
<1>10. QED BY <1>1, <1>4, <1>5, <1>6, <1>7, <1>8, <1>9, NothingChanges

LEMMA RegisterPromises ==
  ASSUME PromiseInv, NEW a \in Admin, Register(a)
  PROVE  PromiseInv'
<1> DEFINE r == setup[a]
<1>1. SetupInv' BY LaterSteps DEF PromiseInv
<1>2. Proceeding(r) /\ r.step = "register" BY DEF Register, SetupAt, PromiseInv, SetupInv, ServerTyped
<1>3. SetupPromises(r, serverKind, things, declared, allowlisted)
  BY <1>2 DEF PromiseInv, PromisesMade, SettingUp
<1>4. UNCHANGED <<serverKind, things, empowered, baseline, declared, mapped, setupsLeft, handLeft>>
  BY DEF Register, permissions
<1>5. /\ setupsLeft \in 0 .. MaxSetups /\ baseline \in BOOLEAN /\ allowlisted \in BOOLEAN
      /\ \A x \in declared \cup mapped : x.kind = "role"
  BY DEF PromiseInv, ProvisionTypeOK
<1>6. allowlisted' \in BOOLEAN /\ (allowlisted => allowlisted') BY <1>5 DEF Register
<1>7. CASE Put(a, Told(r)) \/ Put(a, Told(Warned(r)))
  <2>1. PICK p : Put(a, Told(p)) BY <1>7
  <2> DEFINE q == Told(p)
  <2>2. q.step = "told" /\ Put(a, q) BY <2>1 DEF Told
  <2> HIDE DEF q
  <2>3. ~SettingUp(q) /\ ~Resetting(q) BY <2>2 DEF SettingUp, Resetting
  <2>4. QED BY <1>1, <1>4, <1>5, <1>6, <2>2, <2>3, NothingChanges
<1>8. CASE Put(a, [r EXCEPT !.step = "declare"]) /\ allowlisted' = TRUE
  <2> DEFINE q == [r EXCEPT !.step = "declare"]
  <2>1. /\ q.step = "declare" /\ q.todo = r.todo /\ q.wire = r.wire /\ q.warned = r.warned
        /\ q.undisturbed = r.undisturbed /\ q.found = r.found /\ q.made = r.made
    BY <1>2 DEF Proceeding
  <2>2. Put(a, q) BY <1>8
  <2> HIDE DEF q
  <2>3. SetupPromises(q, serverKind, things, declared', allowlisted')
    BY <1>2, <1>3, <1>4, <1>8, <2>1 DEF SetupPromises
  <2>4. ~Resetting(q) BY <2>1 DEF Resetting
  <2>5. QED BY <1>1, <1>4, <1>5, <1>6, <2>1, <2>2, <2>3, <2>4, NothingChanges
<1>9. QED BY <1>7, <1>8 DEF Register

LEMMA DeclarePromises ==
  ASSUME PromiseInv, NEW a \in Admin, Declare(a)
  PROVE  PromiseInv'
<1> DEFINE r == setup[a]
           next == [r EXCEPT !.step = "map"]
<1>1. SetupInv' BY LaterSteps DEF PromiseInv
<1>2. Proceeding(r) /\ r.step = "declare" BY DEF Declare, SetupAt, PromiseInv, SetupInv, ServerTyped
<1>3. SetupPromises(r, serverKind, things, declared, allowlisted)
  BY <1>2 DEF PromiseInv, PromisesMade, SettingUp
<1>4. UNCHANGED <<serverKind, things, empowered, baseline, allowlisted, mapped, setupsLeft, handLeft>>
  BY DEF Declare, permissions
<1>5. /\ setupsLeft \in 0 .. MaxSetups /\ baseline \in BOOLEAN /\ allowlisted \in BOOLEAN
      /\ \A x \in declared \cup mapped : x.kind = "role"
  BY DEF PromiseInv, ProvisionTypeOK
<1>6. MemberRole(a) = MemberAmong(r.found \cup r.made, blueprint) /\ \A x \in MemberRole(a) : x.kind = "role"
  BY DEF MemberRole, MemberAmong, IdsOf, Named
<1>7. /\ declared \subseteq declared' /\ \A x \in declared' : x.kind = "role"
      /\ \/ Put(a, next) /\ MemberRole(a) \subseteq declared'
         \/ Put(a, Warned(next))
  BY <1>5, <1>6 DEF Declare
<1>8. /\ next.step = "map" /\ next.todo = r.todo /\ next.wire = r.wire /\ next.warned = r.warned
      /\ next.undisturbed = r.undisturbed /\ next.found = r.found /\ next.made = r.made
      /\ Warned(next).step = "map" /\ Warned(next).todo = r.todo /\ Warned(next).wire = r.wire
      /\ Warned(next).warned = TRUE
  BY <1>2 DEF Proceeding, Warned
<1> HIDE DEF next
<1>9. CASE Put(a, next) /\ MemberRole(a) \subseteq declared'
  <2>1. SetupPromises(next, serverKind, things, declared', allowlisted')
    BY <1>2, <1>3, <1>4, <1>6, <1>8, <1>9 DEF SetupPromises, blueprint
  <2>2. ~Resetting(next) BY <1>8 DEF Resetting
  <2>3. QED BY <1>1, <1>4, <1>5, <1>7, <1>8, <1>9, <2>1, <2>2, NothingChanges
<1>10. CASE Put(a, Warned(next))
  <2> DEFINE q == Warned(next)
  <2>1. q.step = "map" /\ q.todo = r.todo /\ q.wire = r.wire /\ q.warned = TRUE /\ Put(a, q) BY <1>8, <1>10
  <2> HIDE DEF q
  <2>2. SetupPromises(q, serverKind, things, declared', allowlisted')
    BY <1>2, <1>3, <1>4, <2>1 DEF SetupPromises
  <2>3. ~Resetting(q) BY <2>1 DEF Resetting
  <2>4. QED BY <1>1, <1>4, <1>5, <1>7, <2>1, <2>2, <2>3, NothingChanges
<1>11. QED BY <1>7, <1>9, <1>10

LEMMA MapPromises ==
  ASSUME PromiseInv, NEW a \in Admin, MapRole(a) \/ ResetDone(a)
  PROVE  PromiseInv'
<1>1. SetupInv' BY LaterSteps DEF PromiseInv
<1>2. UNCHANGED <<serverKind, things, empowered, baseline, allowlisted, declared, setupsLeft, handLeft>>
  BY DEF MapRole, ResetDone, permissions, platform
<1>3. /\ setupsLeft \in 0 .. MaxSetups /\ baseline \in BOOLEAN /\ allowlisted \in BOOLEAN
      /\ \A x \in declared \cup mapped : x.kind = "role"
  BY DEF PromiseInv, ProvisionTypeOK
<1>4. \A x \in MemberRole(a) : x.kind = "role" BY DEF MemberRole, Named
<1>5. \A x \in mapped' : x.kind = "role" BY <1>3, <1>4 DEF MapRole, ResetDone, platform
<1>6. PICK p : Put(a, Told(p)) BY DEF MapRole, ResetDone
<1> DEFINE q == Told(p)
<1>7. q.step = "told" /\ Put(a, q) BY <1>6 DEF Told
<1> HIDE DEF q
<1>8. ~SettingUp(q) /\ ~Resetting(q) BY <1>7 DEF SettingUp, Resetting
<1>9. QED BY <1>1, <1>2, <1>3, <1>5, <1>7, <1>8, NothingChanges

LEMMA ResetPlanned ==
  ASSUME PromiseInv, NEW a \in Admin, PlanReset(a)
  PROVE  PromiseInv'
<1>1. SetupInv' BY LaterSteps DEF PromiseInv
<1>2. PICK seen \in {things, Lagging} :
          Put(a, [step |-> "everyone", todo |-> {},
                  found |-> {x \in seen : x.kind = "role" /\ x.name \notin Unmanageable},
                  made |-> {}, wire |-> "reset", warned |-> FALSE, undisturbed |-> seen = things])
  BY DEF PlanReset
<1> DEFINE q == [step |-> "everyone", todo |-> {},
                 found |-> {x \in seen : x.kind = "role" /\ x.name \notin Unmanageable},
                 made |-> {}, wire |-> "reset", warned |-> FALSE, undisturbed |-> seen = things]
<1>3. /\ q.step = "everyone" /\ q.wire = "reset" /\ (q.undisturbed => seen = things)
      /\ q.found = {x \in seen : x.kind = "role" /\ x.name \notin Unmanageable} /\ Put(a, q)
  BY <1>2
<1> HIDE DEF q
<1>4. UNCHANGED <<serverKind, things, empowered, baseline, allowlisted, declared, mapped, handLeft>>
  BY DEF PlanReset, Ready, permissions, platform
<1>5. /\ setupsLeft \in 0 .. MaxSetups /\ baseline \in BOOLEAN /\ allowlisted \in BOOLEAN
      /\ \A x \in declared \cup mapped : x.kind = "role"
      /\ empowered \subseteq {x \in things : x.kind = "role"}
  BY DEF PromiseInv, ProvisionTypeOK
<1>6. setupsLeft' \in 0 .. MaxSetups BY <1>5, ProvisionConstants DEF PlanReset, Ready
<1>7. ResetPromises(q, empowered', baseline') BY <1>3, <1>4, <1>5 DEF ResetPromises
<1>8. ~SettingUp(q) BY <1>3 DEF SettingUp
<1>9. QED BY <1>1, <1>3, <1>4, <1>5, <1>6, <1>7, <1>8, NothingChanges

LEMMA BaselinePromises ==
  ASSUME PromiseInv, NEW a \in Admin, SetBaseline(a)
  PROVE  PromiseInv'
<1> DEFINE r == setup[a]
           next == [r EXCEPT !.step = "clear"]
<1>1. SetupInv' BY LaterSteps DEF PromiseInv
<1>2. Proceeding(r) /\ r.step = "everyone" BY DEF SetBaseline, SetupAt, PromiseInv, SetupInv, ServerTyped
<1>3. ResetPromises(r, empowered, baseline) BY <1>2 DEF PromiseInv, PromisesMade, Resetting
<1>4. UNCHANGED <<serverKind, things, empowered, allowlisted, declared, mapped, setupsLeft, handLeft>>
  BY DEF SetBaseline, platform
<1>5. /\ setupsLeft \in 0 .. MaxSetups /\ baseline \in BOOLEAN /\ allowlisted \in BOOLEAN
      /\ \A x \in declared \cup mapped : x.kind = "role"
  BY DEF PromiseInv, ProvisionTypeOK
<1>6. /\ next.step = "clear" /\ next.wire = r.wire /\ next.warned = r.warned
      /\ next.undisturbed = r.undisturbed /\ next.found = r.found
      /\ Warned(next).step = "clear" /\ Warned(next).wire = r.wire /\ Warned(next).warned = TRUE
  BY <1>2 DEF Proceeding, Warned
<1>7. /\ baseline' \in BOOLEAN /\ (baseline => baseline')
      /\ (Put(a, next) /\ baseline' = TRUE) \/ Put(a, Warned(next))
  BY <1>5 DEF SetBaseline
<1> HIDE DEF next
<1>8. PICK q \in {next, Warned(next)} : Put(a, q) /\ ((q = next /\ baseline' = TRUE) \/ q = Warned(next)) BY <1>7
<1>9. ResetPromises(q, empowered', baseline') BY <1>3, <1>4, <1>6, <1>8 DEF ResetPromises
<1>10. q.step = "clear" /\ ~SettingUp(q) BY <1>6, <1>8 DEF SettingUp
<1>11. QED BY <1>1, <1>4, <1>5, <1>7, <1>8, <1>9, <1>10, NothingChanges

LEMMA ClearPromises ==
  ASSUME PromiseInv, NEW a \in Admin, ClearRole(a)
  PROVE  PromiseInv'
<1> DEFINE r == setup[a]
<1>1. SetupInv' BY LaterSteps DEF PromiseInv
<1>2. Proceeding(r) /\ r.step = "clear" BY DEF ClearRole, SetupAt, PromiseInv, SetupInv, ServerTyped
<1>3. ResetPromises(r, empowered, baseline) BY <1>2 DEF PromiseInv, PromisesMade, Resetting
<1>4. UNCHANGED <<serverKind, things, baseline, allowlisted, declared, mapped, setupsLeft, handLeft>>
  BY DEF ClearRole, platform
<1>5. /\ setupsLeft \in 0 .. MaxSetups /\ baseline \in BOOLEAN /\ allowlisted \in BOOLEAN
      /\ \A x \in declared \cup mapped : x.kind = "role"
  BY DEF PromiseInv, ProvisionTypeOK
<1>6. PICK x \in r.found : LET next == [r EXCEPT !.found = @ \ {x}]
                          IN  \/ empowered' = empowered \ {x} /\ Put(a, next)
                              \/ UNCHANGED empowered /\ Put(a, Warned(next))
  BY DEF ClearRole
<1> DEFINE rest == r.found \ {x}
           next == [r EXCEPT !.found = rest]
<1>7. \/ empowered' = empowered \ {x} /\ Put(a, next)
      \/ UNCHANGED empowered /\ Put(a, Warned(next))
  BY <1>6
<1> HIDE DEF rest
<1>8. /\ next.step = "clear" /\ next.wire = r.wire /\ next.warned = r.warned
      /\ next.undisturbed = r.undisturbed /\ next.found = rest
      /\ Warned(next).step = "clear" /\ Warned(next).wire = r.wire /\ Warned(next).warned = TRUE
  BY <1>2 DEF Proceeding, Warned
<1> HIDE DEF next
<1>9. PICK q \in {next, Warned(next)} : Put(a, q) /\ ((q = next /\ empowered' = empowered \ {x}) \/ q = Warned(next))
  BY <1>7
<1>10. ResetPromises(q, empowered', baseline') BY <1>3, <1>4, <1>2, <1>8, <1>9 DEF ResetPromises, rest
<1>11. q.step = "clear" /\ ~SettingUp(q) BY <1>8, <1>9 DEF SettingUp
<1>12. empowered' \subseteq empowered BY <1>7
<1>13. QED BY <1>1, <1>4, <1>5, <1>9, <1>10, <1>11, <1>12, NothingChanges

LEMMA RoleItem ==
  ASSUME NEW item, NEW name, item = Item("role", name, "")
  PROVE  item.kind = "role" /\ item.name = name
  BY DEF Item

\* Roles come before categories, so that a category that is made in time is open
\* to every role it is for.
LEMMA CategoryOpened ==
  ASSUME PromiseInv, NEW a \in Admin, SetupAt(a, "create"), ~setup[a].warned,
         NEW k \in setup[a].todo, \A j \in setup[a].todo : k <= j, Wanted[k].kind = "category",
         NEW i \in DOMAIN blueprint.categories, Wanted[k].name = blueprint.categories[i].name
  PROVE  Created(a, Wanted[k]).seenBy = blueprint.categories[i].sees
<1> DEFINE t == blueprint
           r == setup[a]
           category == CHOOSE c \in ToSet(t.categories) : c.name = Wanted[k].name
<1>1. ServerTyped BY DEF PromiseInv, SetupInv
<1>2. SoundTemplate(t) /\ RolesFirst(t) /\ Wanted = WantedBy(t)
  BY <1>1, ProvisionConstants, ServersInOrder DEF ServerTyped, blueprint, Wanted, WantedIn
<1>3. k \in DOMAIN Wanted /\ k \in Nat /\ r.todo \subseteq DOMAIN Wanted
  <2>1. r.todo \subseteq DOMAIN Wanted BY <1>1 DEF ServerTyped
  <2>2. QED BY <1>1, <2>1, WantedIsInOrder
<1>4. category = t.categories[i]
  <2>1. t.categories[i] \in ToSet(t.categories) BY DEF ToSet
  <2>2. category \in ToSet(t.categories) /\ category.name = Wanted[k].name BY <2>1
  <2> HIDE DEF category
  <2>3. PICK j \in DOMAIN t.categories : category = t.categories[j] BY <2>2 DEF ToSet
  <2> DEFINE names == [n \in DOMAIN t.categories |-> t.categories[n].name]
  <2>4. IsInjective(names) BY <1>2 DEF SoundTemplate, Distinct
  <2>5. names[i] = names[j] BY <2>2, <2>3
  <2>6. i = j BY <2>3, <2>4, <2>5 DEF IsInjective
  <2>7. QED BY <2>3, <2>6
<1>5. \A key \in t.categories[i].sees \ Everyone :
          Named("role", t.roles[RoleOf(t, key)][2], IdsOf(a)) # {}
  <2> SUFFICES ASSUME NEW key \in t.categories[i].sees, key \notin Everyone
               PROVE  Named("role", t.roles[RoleOf(t, key)][2], IdsOf(a)) # {}
    OBVIOUS
  <2> DEFINE n == RoleOf(t, key)
  <2>1. key \in RoleKeys(t) BY <1>2 DEF SoundTemplate
  <2>2. n \in DOMAIN t.roles BY <2>1 DEF RoleKeys, RoleOf
  <2> HIDE DEF n
  <2>3. /\ n \in DOMAIN Wanted /\ Wanted[n] = Item("role", t.roles[n][2], "")
        /\ \A j \in 1 .. n : Wanted[j].kind = "role"
    BY <1>2, <2>2 DEF RolesFirst
  <2>4. n \in Nat /\ k \in 1 .. Len(Wanted)
    <3> DEFINE Items == [kind : STRING, name : STRING, parent : STRING]
    <3>1. Wanted \in Seq(Items) BY <1>1, WantedIsInOrder
    <3> HIDE DEF Items
    <3>2. DOMAIN Wanted = 1 .. Len(Wanted) /\ Len(Wanted) \in Nat BY <3>1
    <3>3. n \in DOMAIN Wanted BY <2>3
    <3>4. QED BY <1>3, <3>2, <3>3
  <2>5. n \notin r.todo
    <3>1. SUFFICES ASSUME n \in r.todo PROVE FALSE
      OBVIOUS
    <3>2. k <= n /\ k >= 1 BY <2>4, <3>1
    <3>3. k \in 1 .. n BY <1>3, <2>4, <3>2
    <3>4. QED BY <2>3, <3>3
  <2>6. Named(Wanted[n].kind, Wanted[n].name, r.found \cup r.made) # {}
    <3>1. SetupPromises(r, serverKind, things, declared, allowlisted)
      BY DEF PromiseInv, PromisesMade, SettingUp, SetupAt
    <3>2. \A m \in DOMAIN Wanted \ r.todo : Named(Wanted[m].kind, Wanted[m].name, r.found \cup r.made) # {}
      BY <3>1 DEF SetupPromises, Wanted
    <3>3. QED BY <2>3, <2>5, <3>2
  <2>7. Wanted[n].kind = "role" /\ Wanted[n].name = t.roles[n][2]
    <3> DEFINE item == Wanted[n]
               name == t.roles[n][2]
    <3>1. item = Item("role", name, "") BY <2>3
    <3> HIDE DEF item, name
    <3>2. item.kind = "role" /\ item.name = name BY <3>1, RoleItem
    <3>3. QED BY <3>2 DEF item, name
  <2>8. QED BY <2>6, <2>7 DEF n, IdsOf
<1>6. ResolveOverwrites(a, Wanted[k].name) = t.categories[i].sees
  <2> HIDE DEF category
  <2>1. ResolveOverwrites(a, Wanted[k].name) =
            {key \in category.sees :
                \/ key \in Everyone
                \/ Named("role", t.roles[RoleOf(t, key)][2], IdsOf(a)) # {}}
    BY DEF ResolveOverwrites, category
  <2>2. QED BY <1>4, <1>5, <2>1
<1>7. QED BY <1>6 DEF Created, Thing

LEMMA ItemPromises ==
  ASSUME PromiseInv, NEW a \in Admin, CreateNext(a)
  PROVE  PromiseInv'
<1> DEFINE r == setup[a]
           next == Min(r.todo)
           item == Wanted[next]
           new == Created(a, item)
           rest == r.todo \ {next}
           more == r.made \cup {new}
           less == r.todo \ ({next} \cup Skipping(item))
           done == ItemMade(r, rest, more)
           warned == ItemMissed(r, less)
<1>1. /\ SetupInv /\ SetupInv' /\ ServerTyped /\ DOMAIN setup = Admin
      /\ SetupAt(a, "create") /\ r.step = "create" /\ r.todo # {} /\ Proceeding(r)
      /\ r.todo \subseteq DOMAIN Wanted
  BY CreateNextKeeps DEF PromiseInv, SetupInv, ServerTyped, CreateNext, SetupAt
<1>2. next \in r.todo /\ \A j \in r.todo : next <= j
  <2>1. r.todo \in SUBSET Nat BY <1>1, WantedIsInOrder
  <2>2. QED BY <1>1, <2>1, Smallest
<1>3. SetupPromises(r, serverKind, things, declared, allowlisted)
  BY <1>1 DEF PromiseInv, PromisesMade, SettingUp
<1>4. UNCHANGED <<serverKind, empowered, baseline, allowlisted, declared, mapped, setupsLeft, handLeft>>
  BY DEF CreateNext, permissions, platform
<1>5. /\ setupsLeft \in 0 .. MaxSetups /\ baseline \in BOOLEAN /\ allowlisted \in BOOLEAN
      /\ \A x \in declared \cup mapped : x.kind = "role"
  BY DEF PromiseInv, ProvisionTypeOK
<1>6. /\ things \subseteq things'
      /\ \/ Put(a, done) /\ HasParent(new) /\ things' = things \cup {new}
         \/ Put(a, warned)
  BY DEF CreateNext, ItemMade, ItemMissed
<1> HIDE DEF next, new
<1>7. StandsFor(new, item, IdsOf(a)) BY <1>1, <1>2, CreatedInPlace DEF new
<1>8. /\ done.step = "create" /\ done.todo = rest /\ done.found = r.found /\ done.made = more
      /\ done.wire = r.wire /\ done.warned = r.warned /\ done.undisturbed = r.undisturbed
      /\ warned.step = "create" /\ warned.wire = r.wire /\ warned.warned = TRUE
  <2> HIDE DEF rest, more, less
  <2>1. QED BY <1>1 DEF Proceeding, ItemMade, ItemMissed, Warned
<1> HIDE DEF done, warned
<1>9. CASE Put(a, warned)
  <2>1. SetupPromises(warned, serverKind, things', declared', allowlisted') /\ ~Resetting(warned)
    BY <1>3, <1>8 DEF SetupPromises, Resetting
  <2>2. PromisesMade' BY <1>1, <1>4, <1>6, <1>9, <2>1, PromisesStay
  <2>3. ProvisionTypeOK' BY <1>1, <1>4, <1>5, <1>6, <1>8, <1>9, ProvisionTyped DEF PromiseInv
  <2>4. QED BY <1>1, <2>2, <2>3 DEF PromiseInv
<1>10. CASE Put(a, done) /\ HasParent(new) /\ things' = things \cup {new}
  <2>1. SetupPromises(done, serverKind, things', declared', allowlisted')
    <3>1. ASSUME ~r.warned, NEW i \in DOMAIN Wanted, i \notin rest
          PROVE  Named(Wanted[i].kind, Wanted[i].name, r.found \cup more) # {}
      <4>1. CASE i = next BY <1>7, <4>1 DEF StandsFor, Named
      <4>2. CASE i # next
        <5>1. Named(Wanted[i].kind, Wanted[i].name, r.found \cup r.made) # {}
          BY <1>3, <3>1, <4>2 DEF SetupPromises, Wanted
        <5>2. QED BY <5>1 DEF Named
      <4>3. QED BY <4>1, <4>2
    <3>2. ASSUME ~r.warned PROVE Open(more, blueprint)
      <4>1. Open(r.made, blueprint) BY <1>3, <3>2 DEF SetupPromises, blueprint
      <4>2. ASSUME NEW i \in DOMAIN blueprint.categories, new.kind = "category",
                   new.name = blueprint.categories[i].name
            PROVE  new.seenBy = blueprint.categories[i].sees
        <5>1. item.kind = "category" /\ item.name = blueprint.categories[i].name BY <1>7, <4>2 DEF StandsFor
        <5>2. QED BY <1>1, <1>2, <3>2, <5>1, CategoryOpened DEF new
      <4>3. QED BY <4>1, <4>2 DEF Open
    <3>3. ASSUME ~r.warned, r.undisturbed, NEW i \in DOMAIN Wanted, i \notin rest
          PROVE  Placed(Wanted[i], things')
      <4>1. CASE i = next
        <5>1. new \in Named(item.kind, item.name, things') BY <1>7, <1>10 DEF StandsFor, Named
        <5>2. ASSUME item.parent # ""
              PROVE  \E c \in Named("category", item.parent, things') : new.parent = <<c.name, c.copy>>
          <6>1. PICK c : c.name = item.parent /\ new.parent = <<c.name, c.copy>>
            BY <1>7, <5>2 DEF StandsFor, Named
          <6>2. new.parent # <<>> BY <6>1
          <6>3. PICK d \in things : d.kind = "category" /\ <<d.name, d.copy>> = new.parent
            BY <1>10, <6>2 DEF HasParent
          <6>4. d.name = item.parent BY <6>1, <6>3
          <6>5. d \in Named("category", item.parent, things') BY <1>10, <6>3, <6>4 DEF Named
          <6>6. QED BY <6>3, <6>5
        <5>3. QED BY <4>1, <5>1, <5>2 DEF Placed
      <4>2. CASE i # next
        <5>1. Placed(Wanted[i], things) BY <1>3, <3>3, <4>2 DEF SetupPromises, Wanted
        <5>2. QED BY <1>6, <5>1 DEF Placed, Named
      <4>3. QED BY <4>1, <4>2
    <3>4. QED BY <1>3, <1>8, <3>1, <3>2, <3>3 DEF SetupPromises, Wanted, blueprint
  <2>2. ~Resetting(done) BY <1>8 DEF Resetting
  <2>3. PromisesMade' BY <1>1, <1>4, <1>6, <1>10, <2>1, <2>2, PromisesStay
  <2>4. ProvisionTypeOK' BY <1>1, <1>4, <1>5, <1>6, <1>8, <1>10, ProvisionTyped DEF PromiseInv
  <2>5. QED BY <1>1, <2>3, <2>4 DEF PromiseInv
<1>11. QED BY <1>6, <1>9, <1>10

\* What a person does.
LEMMA OthersKeepPromises ==
  ASSUME PromiseInv, SetupInv', UNCHANGED <<serverKind, baseline, allowlisted, declared, mapped, setupsLeft>>,
         handLeft' \in 0 .. MaxHandmade, empowered' \subseteq {x \in things' : x.kind = "role"},
         \A b \in Admin :
             \/ /\ setup'[b] = setup[b]
                /\ SettingUp(setup[b]) => things \subseteq things'
                /\ ~Resetting(setup[b])
             \/ Proceeding(setup[b]) /\ setup'[b] = NowDisturbed(setup[b])
  PROVE  PromiseInv'
<1>1. PromisesMade /\ ProvisionTypeOK BY DEF PromiseInv
<1>2. ASSUME NEW b \in Admin
      PROVE  /\ SettingUp(setup'[b]) => SetupPromises(setup'[b], serverKind', things', declared', allowlisted')
             /\ Resetting(setup'[b]) => ResetPromises(setup'[b], empowered', baseline')
             /\ setup'[b].step = setup[b].step
  <2>1. /\ SettingUp(setup[b]) => SetupPromises(setup[b], serverKind, things, declared, allowlisted)
        /\ Resetting(setup[b]) => ResetPromises(setup[b], empowered, baseline)
    BY <1>1 DEF PromisesMade
  <2>2. CASE /\ setup'[b] = setup[b]
             /\ SettingUp(setup[b]) => things \subseteq things'
             /\ ~Resetting(setup[b])
    BY <2>1, <2>2, SetupStillPromises
  <2>3. CASE Proceeding(setup[b]) /\ setup'[b] = NowDisturbed(setup[b])
    <3>1. setup'[b].step = setup[b].step BY <2>3, Disturbed
    <3>2. QED BY <2>1, <2>3, <3>1, DisturbedPromises
  <2>4. QED BY <2>2, <2>3
<1>3. PromisesMade'
  BY <1>2 DEF PromisesMade, SettingUp, Resetting, SetupPromises, ResetPromises, Placed, Named, Open, MemberAmong
<1>4. WellFounded(things)' /\ overlooked' \in BOOLEAN BY DEF SetupInv, ServerTyped
<1>5. ProvisionTypeOK' BY <1>1, <1>2, <1>4 DEF ProvisionTypeOK
<1>6. QED BY <1>3, <1>5 DEF PromiseInv

LEMMA HandmadePromises ==
  ASSUME PromiseInv, NEW item \in ToSet(Wanted), MakeByHand(item)
  PROVE  PromiseInv'
<1>1. SetupInv' /\ ServerTyped BY MakeByHandKeeps DEF PromiseInv, SetupInv
<1>2. PICK new : /\ things' = things \cup {new} /\ new.kind = item.kind
                 /\ empowered' = IF item.kind = "role" THEN empowered \cup {new} ELSE empowered
  BY DEF MakeByHand, Thing
<1>3. /\ UNCHANGED <<serverKind, baseline, allowlisted, declared, mapped, setupsLeft>>
      /\ setup' = [a \in Admin |-> IF setup[a].step \in {"everyone", "clear"}
                                   THEN NowDisturbed(setup[a]) ELSE setup[a]]
  BY DEF MakeByHand, NowDisturbed, platform
<1>4. handLeft' \in 0 .. MaxHandmade
  <2>1. handLeft > 0 /\ handLeft' = handLeft - 1 BY DEF MakeByHand
  <2>2. handLeft \in 0 .. MaxHandmade BY DEF PromiseInv, ProvisionTypeOK
  <2>3. QED BY <2>1, <2>2, ProvisionConstants
<1>5. empowered' \subseteq {x \in things' : x.kind = "role"}
  BY <1>2 DEF PromiseInv, ProvisionTypeOK
<1>6. ASSUME NEW b \in Admin
      PROVE  \/ setup'[b] = setup[b] /\ things \subseteq things' /\ ~Resetting(setup[b])
             \/ Proceeding(setup[b]) /\ setup'[b] = NowDisturbed(setup[b])
  <2>1. CASE Resetting(setup[b])
    <3>1. setup'[b] = NowDisturbed(setup[b]) BY <1>3, <2>1 DEF Resetting
    <3>2. Proceeding(setup[b]) BY <1>1, <2>1 DEF Resetting, ServerTyped
    <3>3. QED BY <3>1, <3>2
  <2>2. CASE ~Resetting(setup[b])
    <3>1. setup'[b] = setup[b] BY <1>3, <2>2 DEF Resetting
    <3>2. QED BY <1>2, <2>2, <3>1
  <2>3. QED BY <2>1, <2>2
<1>7. QED BY <1>1, <1>3, <1>4, <1>5, <1>6, OthersKeepPromises

LEMMA DeletedPromises ==
  ASSUME PromiseInv, NEW x \in things, DeleteByHand(x)
  PROVE  PromiseInv'
<1>1. SetupInv' /\ ServerTyped BY DeleteByHandKeeps DEF PromiseInv, SetupInv
<1>2. empowered' = empowered \cap things' BY DEF DeleteByHand
<1>3. /\ UNCHANGED <<serverKind, baseline, allowlisted, declared, mapped, setupsLeft>>
      /\ setup' = [a \in Admin |-> IF setup[a].step \in {"idle", "told"}
                                   THEN setup[a] ELSE NowDisturbed(setup[a])]
  BY DEF DeleteByHand, NowDisturbed, platform
<1>4. handLeft' \in 0 .. MaxHandmade
  <2>1. handLeft > 0 /\ handLeft' = handLeft - 1 BY DEF DeleteByHand
  <2>2. handLeft \in 0 .. MaxHandmade BY DEF PromiseInv, ProvisionTypeOK
  <2>3. QED BY <2>1, <2>2, ProvisionConstants
<1>5. empowered' \subseteq {y \in things' : y.kind = "role"}
  BY <1>2 DEF PromiseInv, ProvisionTypeOK
<1>6. ASSUME NEW b \in Admin
      PROVE  \/ setup'[b] = setup[b] /\ ~SettingUp(setup[b]) /\ ~Resetting(setup[b])
             \/ Proceeding(setup[b]) /\ setup'[b] = NowDisturbed(setup[b])
  <2>1. CASE setup[b].step \notin {"idle", "told"}
    <3>1. setup'[b] = NowDisturbed(setup[b]) BY <1>3, <2>1
    <3>2. QED BY <1>1, <2>1, <3>1 DEF ServerTyped
  <2>2. CASE setup[b].step \in {"idle", "told"}
    <3>1. setup'[b] = setup[b] BY <1>3, <2>2
    <3>2. QED BY <2>2, <3>1 DEF SettingUp, Resetting
  <2>3. QED BY <2>1, <2>2
<1>7. QED BY <1>1, <1>3, <1>4, <1>5, <1>6, OthersKeepPromises

LEMMA PromiseInit == ProvisionInit => PromiseInv
<1> SUFFICES ASSUME ProvisionInit PROVE PromiseInv
  OBVIOUS
<1>1. SetupInv BY SetupInit
<1>2. \A a \in Admin : setup[a].step = "idle" BY DEF ProvisionInit, IdleSetup
<1>3. PromisesMade BY <1>2 DEF PromisesMade, SettingUp, Resetting
<1>4. WellFounded(things) /\ overlooked \in BOOLEAN BY <1>1 DEF SetupInv, ServerTyped
<1>5. /\ serverKind \in DOMAIN Blueprints /\ empowered = {x \in things : x.kind = "role"}
      /\ baseline = FALSE /\ allowlisted = FALSE /\ declared = {} /\ mapped = {}
      /\ setupsLeft = MaxSetups /\ handLeft = MaxHandmade
  BY DEF ProvisionInit
<1>7. setupsLeft \in 0 .. MaxSetups /\ handLeft \in 0 .. MaxHandmade BY <1>5, ProvisionConstants
<1>8. ProvisionTypeOK BY <1>2, <1>4, <1>5, <1>7 DEF ProvisionTypeOK
<1>9. QED BY <1>1, <1>3, <1>8 DEF PromiseInv

LEMMA PromiseSteps ==
  ASSUME PromiseInv, ProvisionNext
  PROVE  PromiseInv'
<1>1. ASSUME NEW a \in Admin, NEW wire \in Wirings, PlanSetup(a, wire) PROVE PromiseInv' BY <1>1, PlannedPromises
<1>2. ASSUME NEW a \in Admin,
             CreateNext(a) \/ StructureDone(a) \/ Register(a) \/ Declare(a) \/ MapRole(a)
                \/ PlanReset(a) \/ SetBaseline(a) \/ ClearRole(a) \/ ResetDone(a)
      PROVE  PromiseInv'
  BY <1>2, ItemPromises, StructurePromises, RegisterPromises, DeclarePromises, MapPromises, ResetPlanned,
     BaselinePromises, ClearPromises
<1>3. ASSUME NEW item \in ToSet(Wanted), MakeByHand(item) PROVE PromiseInv' BY <1>3, HandmadePromises
<1>4. ASSUME NEW x \in things, DeleteByHand(x) PROVE PromiseInv' BY <1>4, DeletedPromises
<1>5. ASSUME CrashSetups PROVE PromiseInv'
  <2>1. \A a \in Admin : setup'[a].step = "idle" BY <1>5 DEF CrashSetups, IdleSetup
  <2>2. PromisesMade' BY <2>1 DEF PromisesMade, SettingUp, Resetting
  <2>3. SetupInv' BY <1>5, CrashKeeps DEF PromiseInv
  <2>4. WellFounded(things)' /\ overlooked' \in BOOLEAN BY <2>3 DEF SetupInv, ServerTyped
  <2>5. ProvisionTypeOK' BY <1>5, <2>1, <2>4 DEF CrashSetups, permissions, platform, PromiseInv, ProvisionTypeOK
  <2>6. QED BY <2>2, <2>3, <2>5 DEF PromiseInv
<1>6. QED BY <1>1, <1>2, <1>3, <1>4, <1>5 DEF ProvisionNext

LEMMA PromiseStays == PromiseInv /\ UNCHANGED provisionVars => PromiseInv'
<1> SUFFICES ASSUME PromiseInv, UNCHANGED provisionVars PROVE PromiseInv'
  OBVIOUS
<1>1. SetupInv' BY SetupStays DEF PromiseInv
<1>2. UNCHANGED <<serverKind, things, empowered, baseline, allowlisted, declared, mapped,
                  setup, setupsLeft, handLeft, overlooked>>
  BY DEF provisionVars, permissions, platform
<1>3. ProvisionTypeOK' BY <1>2 DEF PromiseInv, ProvisionTypeOK, WellFounded
<1>4. PromisesMade'
  <2>1. \A a \in Admin :
            /\ SettingUp(setup'[a]) => SetupPromises(setup'[a], serverKind', things', declared', allowlisted')
            /\ Resetting(setup'[a]) => ResetPromises(setup'[a], empowered', baseline')
    BY <1>2 DEF PromiseInv, PromisesMade
  <2>2. QED
  BY <2>1 DEF PromisesMade, SettingUp, Resetting, SetupPromises, ResetPromises, Placed, Named, Open,
              MemberAmong
<1>5. QED BY <1>1, <1>3, <1>4 DEF PromiseInv

\* What is told without a warning is so.
LEMMA ToldIsKept == PromiseInv /\ ProvisionNext => ProvisionedWhenTold
<1> SUFFICES ASSUME PromiseInv, ProvisionNext, NEW a \in Admin,
                    setup[a].step # "told", setup'[a].step = "told",
                    ~setup'[a].warned, setup'[a].undisturbed
             PROVE  LET told == setup'[a]
                        t == blueprint
                    IN  /\ told.wire # "reset" =>
                               /\ \A item \in ToSet(Wanted) : InPlace(item)
                               /\ Open(told.made, t)
                        /\ told.wire \in {"register", "mapping"} => allowlisted'
                        /\ (told.wire = "mapping" /\ t.managed # <<>>) =>
                               \E r \in declared' \cap mapped' \cap things' :
                                   r.name = t.roles[RoleOf(t, t.managed[1])][2]
                        /\ told.wire = "reset" => baseline' /\ \A r \in empowered' : r.name \in Unmanageable
  BY DEF ProvisionedWhenTold, Open
<1> DEFINE r == setup[a]
<1>1. SetupInv /\ ServerTyped /\ DOMAIN setup = Admin BY DEF PromiseInv, SetupInv, ServerTyped
<1>2. r.step # "idle" => Proceeding(r) BY <1>1 DEF ServerTyped
<1>3. /\ SettingUp(r) => SetupPromises(r, serverKind, things, declared, allowlisted)
      /\ Resetting(r) => ResetPromises(r, empowered, baseline)
  BY DEF PromiseInv, PromisesMade
<1>4. Proceeding(r) => LET told == Told(r) IN
          /\ told.made = r.made /\ told.wire = r.wire /\ told.warned = r.warned /\ told.undisturbed = r.undisturbed
          /\ Told(Warned(r)).warned = TRUE
  BY DEF Proceeding, Told, Warned
<1>5. ASSUME SettingUp(r), things' = things, Put(a, Told(r)), r.todo = {}
      PROVE  /\ setup'[a] = Told(r) /\ ~r.warned /\ r.undisturbed
             /\ setup'[a].made = r.made /\ setup'[a].wire = r.wire /\ r.wire \in Wirings
             /\ \A item \in ToSet(Wanted) : InPlace(item)
             /\ Open(r.made, blueprint)
  <2>1. setup'[a] = Told(r) BY <1>1, <1>5 DEF Put
  <2>2. Proceeding(r) BY <1>2, <1>5 DEF SettingUp
  <2>3. ~r.warned /\ r.undisturbed /\ setup'[a].made = r.made /\ setup'[a].wire = r.wire BY <1>4, <2>1, <2>2
  <2>4. /\ r.wire \in Wirings /\ Open(r.made, blueprint)
        /\ \A i \in DOMAIN Wanted : Placed(Wanted[i], things)
    BY <1>3, <1>5, <2>3 DEF SetupPromises, Wanted, blueprint
  <2>5. \A item \in ToSet(Wanted) : InPlace(item)
    <3> SUFFICES ASSUME NEW i \in DOMAIN Wanted PROVE InPlace(Wanted[i])
      BY DEF ToSet
    <3>1. Placed(Wanted[i], things') BY <1>5, <2>4
    <3>2. QED BY <3>1 DEF Placed, InPlace
  <2>6. QED BY <2>1, <2>3, <2>4, <2>5
<1>7. ASSUME NEW b \in Admin, b # a, NEW q, Put(b, q) PROVE FALSE BY <1>1, <1>7 DEF Put
<1>8. ASSUME StructureDone(a) PROVE r.wire = "none" /\ Put(a, Told(r)) /\ things' = things /\ r.todo = {} /\ SettingUp(r)
  <2>1. r.todo = {} /\ r.step = "create" /\ things' = things BY <1>8 DEF StructureDone, SetupAt
  <2>2. ASSUME r.wire # "none" PROVE FALSE
    <3>1. Put(a, [r EXCEPT !.step = "register"]) BY <1>8, <2>2 DEF StructureDone
    <3>2. setup'[a] = [r EXCEPT !.step = "register"] BY <1>1, <3>1 DEF Put
    <3>3. Proceeding(r) BY <1>2, <2>1
    <3>4. setup'[a].step = "register" BY <3>2, <3>3 DEF Proceeding
    <3>5. QED BY <3>4
  <2>3. QED BY <1>8, <2>1, <2>2 DEF StructureDone, SettingUp
<1>9. CASE StructureDone(a)
  <2>1. r.wire = "none" /\ setup'[a].wire = r.wire BY <1>5, <1>8, <1>9
  <2>2. QED BY <1>5, <1>8, <1>9, <2>1
<1>10. CASE Register(a)
  <2>1. r.step = "register" /\ things' = things BY <1>10 DEF Register, SetupAt
  <2>2. Proceeding(r) /\ SettingUp(r) /\ r.todo = {} BY <1>2, <1>3, <2>1 DEF SettingUp, SetupPromises
  <2>3. ~Put(a, Told(Warned(r)))
    <3>1. Put(a, Told(Warned(r))) => setup'[a].warned = TRUE BY <1>1, <1>4, <2>2 DEF Put
    <3>2. QED BY <3>1
  <2>4. ~Put(a, [r EXCEPT !.step = "declare"])
    <3>1. Put(a, [r EXCEPT !.step = "declare"]) => setup'[a].step = "declare" BY <1>1, <2>2 DEF Put, Proceeding
    <3>2. QED BY <3>1
  <2>5. allowlisted' = TRUE /\ Put(a, Told(r)) /\ blueprint.managed = <<>> BY <1>10, <2>3, <2>4 DEF Register
  <2>6. QED BY <1>5, <2>1, <2>2, <2>5, ProvisionConstants
<1>11. CASE MapRole(a)
  <2>1. r.step = "map" /\ UNCHANGED <<things, allowlisted, declared>> BY <1>11 DEF MapRole, SetupAt
  <2>2. Proceeding(r) /\ SettingUp(r) /\ r.todo = {} /\ allowlisted
    BY <1>2, <1>3, <2>1 DEF SettingUp, SetupPromises
  <2>3. ~Put(a, Told(Warned(r)))
    <3>1. Put(a, Told(Warned(r))) => setup'[a].warned = TRUE BY <1>1, <1>4, <2>2 DEF Put
    <3>2. QED BY <3>1
  <2>4. /\ Put(a, Told(r)) /\ mapped' = mapped \cup MemberRole(a)
        /\ MemberRole(a) # {} /\ MemberRole(a) \subseteq things
    BY <1>11, <2>3 DEF MapRole
  <2>5. MemberRole(a) \subseteq declared
    <3>1. ~r.warned BY <1>5, <2>1, <2>2, <2>4
    <3>2. MemberRole(a) = MemberAmong(r.found \cup r.made, blueprint) BY DEF MemberRole, MemberAmong, IdsOf
    <3>3. QED BY <1>3, <2>1, <2>2, <3>1, <3>2 DEF SetupPromises, blueprint
  <2>6. \A x \in MemberRole(a) : x.name = blueprint.roles[RoleOf(blueprint, blueprint.managed[1])][2]
    BY DEF MemberRole, Named
  <2>7. \E x \in declared' \cap mapped' \cap things' :
            x.name = blueprint.roles[RoleOf(blueprint, blueprint.managed[1])][2]
    BY <2>1, <2>4, <2>5, <2>6
  <2>8. QED BY <1>5, <2>1, <2>2, <2>4, <2>7, ProvisionConstants
<1>12. CASE ResetDone(a)
  <2>1. r.step = "clear" /\ r.found = {} /\ UNCHANGED <<empowered, baseline>> /\ Put(a, Told(r))
    BY <1>12 DEF ResetDone, SetupAt, permissions
  <2>2. Proceeding(r) /\ Resetting(r) BY <1>2, <2>1 DEF Resetting
  <2>3. setup'[a] = Told(r) BY <1>1, <2>1 DEF Put
  <2>4. setup'[a].wire = r.wire /\ ~r.warned /\ r.undisturbed BY <1>4, <2>2, <2>3
  <2>5. r.wire = "reset" /\ baseline /\ \A x \in empowered : x.name \in Unmanageable
    BY <1>3, <2>1, <2>2, <2>4 DEF ResetPromises
  <2>6. QED BY <2>1, <2>4, <2>5
<1>13. CASE \/ \E wire \in Wirings : PlanSetup(a, wire)
            \/ CreateNext(a) \/ Declare(a) \/ PlanReset(a) \/ SetBaseline(a) \/ ClearRole(a)
  <2>1. PICK q : Put(a, q) /\ q.step # "told"
    <3>1. ASSUME NEW wire \in Wirings, PlanSetup(a, wire) PROVE \E q : Put(a, q) /\ q.step # "told"
      BY <3>1 DEF PlanSetup
    <3>2. CASE PlanReset(a) BY <3>2 DEF PlanReset
    <3>3. ASSUME r.step \in {"create", "declare", "everyone", "clear"} PROVE Proceeding(r) BY <1>2, <3>3
    <3>4. CASE CreateNext(a)
      <4>1. r.step = "create" /\ Proceeding(r) BY <3>3, <3>4 DEF CreateNext, SetupAt
      <4>2. \E todo, made : Put(a, ItemMade(r, todo, made)) \/ Put(a, ItemMissed(r, todo))
        BY <3>4 DEF CreateNext, ItemMade, ItemMissed
      <4>3. PICK todo, made : Put(a, ItemMade(r, todo, made)) \/ Put(a, ItemMissed(r, todo)) BY <4>2
      <4>4. ItemMade(r, todo, made).step = r.step /\ ItemMissed(r, todo).step = r.step
        BY <4>1 DEF Proceeding, ItemMade, ItemMissed, Warned
      <4>5. QED BY <4>1, <4>3, <4>4
    <3>5. CASE Declare(a) \/ SetBaseline(a)
      <4>1. Proceeding(r) BY <3>3, <3>5 DEF Declare, SetBaseline, SetupAt
      <4>2. PICK s \in {"map", "clear"} : Put(a, [r EXCEPT !.step = s]) \/ Put(a, Warned([r EXCEPT !.step = s]))
        BY <3>5 DEF Declare, SetBaseline
      <4>3. [r EXCEPT !.step = s].step = s /\ Warned([r EXCEPT !.step = s]).step = s BY <4>1 DEF Proceeding, Warned
      <4>4. QED BY <4>2, <4>3
    <3>6. CASE ClearRole(a)
      <4>1. r.step = "clear" /\ Proceeding(r) BY <3>3, <3>6 DEF ClearRole, SetupAt
      <4>2. PICK rest : Put(a, [r EXCEPT !.found = rest]) \/ Put(a, Warned([r EXCEPT !.found = rest]))
        BY <3>6 DEF ClearRole
      <4>3. [r EXCEPT !.found = rest].step = r.step /\ Warned([r EXCEPT !.found = rest]).step = r.step
        BY <4>1 DEF Proceeding, Warned
      <4>4. QED BY <4>1, <4>2, <4>3
    <3>7. QED BY <1>13, <3>1, <3>2, <3>4, <3>5, <3>6
  <2>2. setup'[a] = q BY <1>1, <2>1 DEF Put
  <2>3. QED BY <2>1, <2>2
<1>14. ASSUME NEW b \in Admin, b # a,
              \/ \E wire \in Wirings : PlanSetup(b, wire)
              \/ CreateNext(b) \/ StructureDone(b) \/ Register(b) \/ Declare(b) \/ MapRole(b)
              \/ PlanReset(b) \/ SetBaseline(b) \/ ClearRole(b) \/ ResetDone(b)
       PROVE  FALSE
  <2>1. PICK q : Put(b, q)
    BY <1>14 DEF PlanSetup, CreateNext, StructureDone, Register, Declare, MapRole, PlanReset, SetBaseline,
                 ClearRole, ResetDone
  <2>2. QED BY <1>7, <1>14, <2>1
<1>15. ASSUME \/ \E item \in ToSet(Wanted) : MakeByHand(item)
              \/ \E x \in things : DeleteByHand(x)
              \/ CrashSetups
       PROVE  FALSE
  <2>1. CASE \E item \in ToSet(Wanted) : MakeByHand(item)
    <3>1. setup'[a] = setup[a] \/ (r.step \in {"everyone", "clear"} /\ setup'[a] = NowDisturbed(r))
      BY <2>1 DEF MakeByHand, NowDisturbed
    <3>2. r.step \in {"everyone", "clear"} => NowDisturbed(r).step = r.step BY <1>2, Disturbed
    <3>3. QED BY <3>1, <3>2
  <2>2. CASE \E x \in things : DeleteByHand(x)
    <3>1. setup'[a] = setup[a] \/ (r.step \notin {"idle", "told"} /\ setup'[a] = NowDisturbed(r))
      BY <2>2 DEF DeleteByHand, NowDisturbed
    <3>2. r.step \notin {"idle", "told"} => NowDisturbed(r).step = r.step BY <1>2, Disturbed
    <3>3. QED BY <3>1, <3>2
  <2>3. CASE CrashSetups BY <2>3 DEF CrashSetups, IdleSetup
  <2>4. QED BY <1>15, <2>1, <2>2, <2>3
<1>16. QED BY <1>9, <1>10, <1>11, <1>12, <1>13, <1>14, <1>15 DEF ProvisionNext

-----------------------------------------------------------------------------

\* What the services have kept, each in the behaviours that are about it.
DirectInv ==
    /\ focus = "temp" => TempInv
    /\ focus = "bans" => BanInv
    /\ focus = "grants" => GrantInv
    /\ focus # "grants" => grants = <<>> /\ grantHeld = FALSE
    /\ TransferInv
    /\ ServiceInv
    /\ WhitelistInv
    /\ PromiseInv

LEMMA DirectInit == Init => DirectInv
  BY TempInit, BanInit, GrantInit, TransferInit, ServiceInit, WhiteInit, PromiseInit DEF Init, DirectInv, GrantsInit

LEMMA DirectSteps ==
  ASSUME [Next \/ AtRest]_vars
  PROVE  /\ UNCHANGED focus
         /\ IF focus = "temp" THEN [TempRolesNext]_<<surroundings, tempVars>> ELSE UNCHANGED tempVars
         /\ IF focus = "bans" THEN [TimedBansNext]_<<surroundings, banVars>> ELSE UNCHANGED banVars
         /\ IF focus = "grants" THEN [GrantsNext]_<<surroundings, grantVars>> ELSE UNCHANGED grantVars
         /\ TransfersNext \/ UNCHANGED transferVars
         /\ [SelfServiceNext]_<<surroundings, serviceVars>> \/ UNCHANGED serviceVars
         /\ WhitelistNext \/ UNCHANGED whitelistVars
         /\ ProvisionNext \/ UNCHANGED provisionVars
<1>1. CASE Next BY <1>1 DEF Next
<1>2. CASE UNCHANGED vars BY <1>2 DEF vars, others
<1>3. QED BY <1>1, <1>2 DEF AtRest

LEMMA DirectNext == DirectInv /\ [Next \/ AtRest]_vars => DirectInv'
<1> SUFFICES ASSUME DirectInv, [Next \/ AtRest]_vars PROVE DirectInv'
  OBVIOUS
<1>1. UNCHANGED focus BY DirectSteps
<1>2. (focus = "temp" => TempInv)' BY <1>1, DirectSteps, TempNext DEF DirectInv
<1>3. (focus = "bans" => BanInv)' BY <1>1, DirectSteps, BanNext DEF DirectInv
<1>4. (focus = "grants" => GrantInv)' BY <1>1, DirectSteps, GrantNext DEF DirectInv
<1>5. (focus # "grants" => grants = <<>> /\ grantHeld = FALSE)'
  BY <1>1, DirectSteps DEF DirectInv, grantVars
<1>6. ServiceInv' BY DirectSteps, ServiceNext, ServiceStays DEF DirectInv
<1>7. TransferInv' BY DirectSteps, TransferSteps, TransferStays DEF DirectInv
<1>8. WhitelistInv' BY DirectSteps, WhiteSteps, WhiteStays DEF DirectInv
<1>9. PromiseInv' BY DirectSteps, PromiseSteps, PromiseStays DEF DirectInv
<1>10. QED BY <1>2, <1>3, <1>4, <1>5, <1>6, <1>7, <1>8, <1>9 DEF DirectInv

LEMMA DirectAlways == Spec => []DirectInv
  BY DirectInit, DirectNext, PTL DEF Spec

\* No sweep takes a temporary role off before the last command that gave it wants
\* it over, or lifts a ban before the last timed ban is over or after an unban; a
\* permanent ban over a timed one goes when the timed one is over, and what
\* overlaps, fails or crashes is excepted (temp-role-service.js, moderation-service.js).
THEOREM SweepsKeepPromises == Spec => NothingTakenBackEarly
<1>1. DirectInv /\ [Next \/ AtRest]_vars => SweepKeepsTempRoles
  <2> SUFFICES ASSUME DirectInv, [Next \/ AtRest]_vars PROVE SweepKeepsTempRoles
    OBVIOUS
  <2>1. CASE focus = "temp" BY <2>1, DirectSteps, SweptInTime DEF DirectInv
  <2>2. CASE UNCHANGED tempVars BY <2>2 DEF tempVars, SweepKeepsTempRoles
  <2>3. QED BY <2>1, <2>2, DirectSteps
<1>2. DirectInv /\ [Next \/ AtRest]_vars => SweepKeepsBans
  <2> SUFFICES ASSUME DirectInv, [Next \/ AtRest]_vars PROVE SweepKeepsBans
    OBVIOUS
  <2>1. CASE focus = "bans" BY <2>1, DirectSteps, LiftedInTime DEF DirectInv
  <2>2. CASE UNCHANGED banVars BY <2>2 DEF banVars, SweepKeepsBans
  <2>3. QED BY <2>1, <2>2, DirectSteps
<1>3. QED BY <1>1, <1>2, DirectAlways, PTL DEF Spec, NothingTakenBackEarly

\* With no synchronization of a member queued or under way, and nothing left to
\* the next sweep, the member has a granted role exactly while a grant of it is
\* in force (grant-service.js).
THEOREM GrantsSettleRight == Spec => []SettledGrantsAreRight
<1>1. DirectInv => SettledGrantsAreRight
  <2> SUFFICES ASSUME DirectInv PROVE SettledGrantsAreRight
    OBVIOUS
  <2>1. CASE focus = "grants" BY <2>1, GrantsSettle DEF DirectInv
  <2>2. CASE focus # "grants" BY <2>2 DEF DirectInv, SettledGrantsAreRight, InForce
  <2>3. QED BY <2>1, <2>2
<1>2. QED BY <1>1, DirectAlways, PTL

\* Nobody comes by self-service to a role to which the rules there have been do
\* not lead from the roles somebody had (role-grant-service.js).
THEOREM ServiceStaysInClosure == Spec => []SelfServiceStaysInClosure
<1>1. DirectInv => SelfServiceStaysInClosure BY DEF DirectInv, ServiceInv
<1>2. QED BY <1>1, DirectAlways, PTL

\* Whatever fails, restarts or runs at the same time, no setup creates anything
\* of its template a second time, but for what it could not know (setup-service.js).
THEOREM NothingIsCreatedTwice == Spec => []NothingDuplicated
<1>1. DirectInv => NothingDuplicated BY DEF DirectInv, PromiseInv, SetupInv
<1>2. QED BY <1>1, DirectAlways, PTL

\* A transfer reported as completed has made the whole move, a decided whitelist
\* application is what is shown and told of it, and a setup or a reset without
\* warnings has left the server as asked; each but for what others changed
\* meanwhile (transfer-service.js, whitelist-service.js, setup-service.js).
THEOREM ReportsAreKept == Spec => ReportsAreTrue
<1>1. DirectInv /\ [Next \/ AtRest]_vars => MovedWhenCompleted
  <2> SUFFICES ASSUME DirectInv, [Next \/ AtRest]_vars PROVE MovedWhenCompleted
    OBVIOUS
  <2>1. CASE TransfersNext BY <2>1, MovedIsMoved DEF DirectInv
  <2>2. CASE UNCHANGED transferVars BY <2>2 DEF transferVars, MovedWhenCompleted
  <2>3. QED BY <2>1, <2>2, DirectSteps
<1>2. DirectInv /\ [Next \/ AtRest]_vars => WhitelistAnswersTrue
  <2> SUFFICES ASSUME DirectInv, [Next \/ AtRest]_vars PROVE WhitelistAnswersTrue
    OBVIOUS
  <2>1. CASE WhitelistNext BY <2>1, AnswersAreTrue DEF DirectInv
  <2>2. CASE UNCHANGED whitelistVars BY <2>2, AnswersRest DEF DirectInv
  <2>3. QED BY <2>1, <2>2, DirectSteps
<1>3. DirectInv /\ [Next \/ AtRest]_vars => ProvisionedWhenTold
  <2> SUFFICES ASSUME DirectInv, [Next \/ AtRest]_vars PROVE ProvisionedWhenTold
    OBVIOUS
  <2>1. CASE ProvisionNext BY <2>1, ToldIsKept DEF DirectInv
  <2>2. CASE UNCHANGED provisionVars BY <2>2 DEF provisionVars, ProvisionedWhenTold
  <2>3. QED BY <2>1, <2>2, DirectSteps
<1>4. QED BY <1>1, <1>2, <1>3, DirectAlways, PTL DEF Spec, ReportsAreTrue

-----------------------------------------------------------------------------
\* Surroundings: a step works, uses up one of the faults, or lets time pass.

Continues == Works \/ Fails \/ Tick

LEMMA TempRolesContinue == TempRolesNext => Continues
<1>1. \A o, t, d : AddTempRole(o, t, d) => Works BY DEF AddTempRole
<1>2. \A o, t : RemoveTempRole(o, t) => Works BY DEF RemoveTempRole
<1>3. \A o : ProceedTemp(o) \/ BotStops(o) => Works \/ Fails
  BY DEF ProceedTemp, PutRole, Supersede, RecordTimer, TakeOff, BotStops
<1>4. SweepStep \/ SweepStops => Works \/ Fails
  BY DEF SweepStep, SweepTempRoles, TakeExpired, CloseExpired, SweepStops
<1>5. QED BY <1>1, <1>2, <1>3, <1>4 DEF TempRolesNext, Continues

LEMMA TimedBansContinue == TimedBansNext => Continues
<1>1. \A o, kind, length : StartBanCommand(o, kind, length) => Works BY DEF StartBanCommand
<1>2. \A o : ProceedBan(o) \/ BanStops(o) => Works \/ Fails
  BY DEF ProceedBan, NextGuild, GuildsDone, SupersedeBan, RecordBan, CloseByUnban, ApplySonoranBan, BanStops
<1>3. \A g : DropGuild(g) => Works BY DEF DropGuild
<1>4. BanSweepStep \/ BanSweepStops => Works \/ Fails
  BY DEF BanSweepStep, SweepBans, LiftNext, CloseBan, BanSweepStops
<1>5. QED BY <1>1, <1>2, <1>3, <1>4 DEF TimedBansNext, Continues

LEMMA GrantsContinue == GrantsNext => Continues
<1> USE DEF QueueSync
<1>1. \A i, length : IssueGrant(i) \/ CheckGrant(i, length) => Works \/ Fails BY DEF IssueGrant, CheckGrant
<1>2. \A g, driven : RevokeGrant(g) \/ UpsertManagedRole(driven) => Works \/ Fails
  BY DEF RevokeGrant, UpsertManagedRole
<1>3. \A w : Synchronize(w) => Works \/ Fails BY DEF Synchronize, PlanGrant, ApplyGrant
<1>4. Reconciliation => Works \/ Fails BY <1>3 DEF Reconciliation, ExpireGrants
<1>5. GrantsTick => Tick BY DEF GrantsTick
<1>6. QED BY <1>1, <1>2, <1>3, <1>4, <1>5 DEF GrantsNext, Continues

LEMMA TransfersContinue == TransfersNext => Continues
<1> USE DEF ThrowTransfer
<1>1. \A d, strip, grant : SetTransferRoles(d, strip, grant) => Works BY DEF SetTransferRoles
<1>2. \A from, to, r : RequestTransfer(from, to) \/ OthersChange(r) => Works BY DEF RequestTransfer, OthersChange
<1>3. \A w, j, side, r :
          ResolveTransfer(w) \/ ReadMember(w) \/ ReportTransfer(w) \/ TakeTransfer(w, j) \/ TransferRole(w, side, r)
              => Works \/ Fails
  BY DEF ResolveTransfer, ReadMember, ReportTransfer, TakeTransfer, TransferRole
<1>4. \A w : ProceedTransfer(w) \/ TransferStalls(w) => Works \/ Fails
  BY <1>3 DEF ProceedTransfer, TransferStalls
<1>5. QED BY <1>1, <1>2, <1>4 DEF TransfersNext, Continues

LEMMA SelfServiceContinues == SelfServiceNext => Continues
<1>1. \A grantor, grantables : AddGrantRule(grantor, grantables) \/ RemoveGrantRule(grantor, grantables) => Works
  BY DEF AddGrantRule, RemoveGrantRule
<1>2. \A p, target, roles, remove : Assign(p, target, roles, remove) => Works BY DEF Assign
<1>3. \A p, r : AuthorizeCaller(p) \/ ReadTarget(p) \/ AssignRole(p, r) => Works \/ Fails
  BY DEF AuthorizeCaller, ReadTarget, AssignRole
<1>4. \A p, r : TakenByHand(p, r) => Works BY DEF TakenByHand
<1>5. QED BY <1>1, <1>2, <1>3, <1>4 DEF SelfServiceNext, Continues

LEMMA WhitelistContinues == WhitelistNext => Continues
<1>1. \A p : Submit(p) \/ WhitelistEdit(p) => Works BY DEF Submit, WhitelistEdit
<1>2. \A id, r, decision : PostReview(id) \/ StoreMessageId(id) \/ Press(r, id, decision) => Works \/ Fails
  BY DEF PostReview, StoreMessageId, Press
<1>3. \A r : CloseModal(r) \/ ReadSubmission(r) \/ AssignWhitelistRole(r) => Works \/ Fails
  BY DEF CloseModal, ReadSubmission, AssignWhitelistRole
<1>4. \A r : WriteDecision(r) \/ EditReview(r) \/ Tell(r) => Works \/ Fails BY DEF WriteDecision, EditReview, Tell
<1>5. CrashReviews => Fails BY DEF CrashReviews
<1>6. QED BY <1>1, <1>2, <1>3, <1>4, <1>5 DEF WhitelistNext, Continues

LEMMA ProvisionContinues == ProvisionNext => Continues
<1>1. \A a, wire : PlanSetup(a, wire) \/ PlanReset(a) => Works \/ Fails BY DEF PlanSetup, PlanReset, Lists
<1>2. \A a : CreateNext(a) \/ StructureDone(a) => Works \/ Fails BY DEF CreateNext, StructureDone
<1>3. \A a : Register(a) \/ Declare(a) \/ MapRole(a) => Works \/ Fails BY DEF Register, Declare, MapRole
<1>4. \A a : SetBaseline(a) \/ ClearRole(a) \/ ResetDone(a) => Works \/ Fails
  BY DEF SetBaseline, ClearRole, ResetDone
<1>5. \A x : MakeByHand(x) \/ DeleteByHand(x) => Works BY DEF MakeByHand, DeleteByHand
<1>6. CrashSetups => Fails BY DEF CrashSetups
<1>7. QED BY <1>1, <1>2, <1>3, <1>4, <1>5, <1>6 DEF ProvisionNext, Continues

LEMMA TimeGoesOn == SurroundingsTypeOK /\ [Next \/ AtRest]_vars => SurroundingsTypeOK'
<1> SUFFICES ASSUME SurroundingsTypeOK, [Next \/ AtRest]_vars PROVE SurroundingsTypeOK'
  OBVIOUS
<1>1. Continues => SurroundingsTypeOK'
  BY SurroundingsConstants DEF Continues, Works, Fails, Tick, surroundings, SurroundingsTypeOK
<1>2. CASE Next
  BY <1>1, <1>2, TempRolesContinue, TimedBansContinue, GrantsContinue, TransfersContinue, SelfServiceContinues,
     WhitelistContinues, ProvisionContinues
  DEF Next
<1>3. UNCHANGED vars => Works BY DEF vars, Works
<1>4. QED BY <1>1, <1>2, <1>3 DEF AtRest, Continues

-----------------------------------------------------------------------------
\* Bounds: a command takes a place for the row it may write, and gives it up
\* when it has written it.

LEMMA Places ==
  ASSUME NEW S, IsFiniteSet(S), NEW T, NEW n \in Nat, NEW m \in Nat, NEW max \in Nat,
         n + Cardinality(S) <= max,
         \/ T \subseteq S /\ m = n
         \/ \E x : T \subseteq S \cup {x} /\ m = n /\ n + Cardinality(S) < max
         \/ \E x \in S : T \subseteq S \ {x} /\ m <= n + 1
  PROVE  m + Cardinality(T) <= max
<1>1. Cardinality(S) \in Nat BY FS_CardinalityType
<1>2. CASE T \subseteq S /\ m = n
  <2>1. IsFiniteSet(T) /\ Cardinality(T) <= Cardinality(S) BY <1>2, FS_Subset
  <2>2. Cardinality(T) \in Nat BY <2>1, FS_CardinalityType
  <2>3. QED BY <1>1, <1>2, <2>1, <2>2
<1>3. ASSUME NEW x, T \subseteq S \cup {x}, m = n, n + Cardinality(S) < max PROVE m + Cardinality(T) <= max
  <2>1. /\ IsFiniteSet(S \cup {x})
        /\ Cardinality(S \cup {x}) = Cardinality(S) \/ Cardinality(S \cup {x}) = Cardinality(S) + 1
    BY FS_AddElement
  <2>2. IsFiniteSet(T) /\ Cardinality(T) <= Cardinality(S \cup {x}) BY <1>3, <2>1, FS_Subset
  <2>3. Cardinality(T) \in Nat BY <2>2, FS_CardinalityType
  <2>4. QED BY <1>1, <1>3, <2>1, <2>2, <2>3
<1>4. ASSUME NEW x \in S, T \subseteq S \ {x}, m <= n + 1 PROVE m + Cardinality(T) <= max
  <2>1. IsFiniteSet(S \ {x}) /\ Cardinality(S \ {x}) = Cardinality(S) - 1 BY FS_RemoveElement
  <2>2. IsFiniteSet(T) /\ Cardinality(T) <= Cardinality(S \ {x}) BY <1>4, <2>1, FS_Subset
  <2>3. Cardinality(T) \in Nat BY <2>2, FS_CardinalityType
  <2>4. QED BY <1>1, <1>4, <2>1, <2>2, <2>3
<1>5. QED BY <1>2, <1>3, <1>4

LEMMA RowsAsMany ==
  ASSUME NEW S, NEW T, NEW s \in Seq(S), NEW t \in Seq(T), DOMAIN t = DOMAIN s
  PROVE  Len(t) = Len(s)
<1>1. DOMAIN s = 1 .. Len(s) /\ DOMAIN t = 1 .. Len(t) /\ Len(s) \in Nat /\ Len(t) \in Nat OBVIOUS
<1>2. \A m, n \in Nat : 1 .. m = 1 .. n => m = n
  <2> SUFFICES ASSUME NEW m \in Nat, NEW n \in Nat, 1 .. m = 1 .. n PROVE m = n
    OBVIOUS
  <2>1. m > 0 => m \in 1 .. n OBVIOUS
  <2>2. n > 0 => n \in 1 .. m OBVIOUS
  <2>3. QED BY <2>1, <2>2
<1>3. QED BY <1>1, <1>2

LEMMA AsLongAsRead ==
  ASSUME NEW rows, NEW due \in SUBSET Nat, NEW limit \in Nat, NEW read \in Readings(rows, due, limit)
  PROVE  Len(read) <= limit
<1>1. PICK n \in 0 .. limit : read \in [1 .. n -> due] BY DEF Readings
<1>2. read \in Seq(due) /\ Len(read) = n BY <1>1, SeqDef, LenProperties
<1>3. QED BY <1>1, <1>2

TempPlaces ==
    /\ Len(tempRows) + Cardinality(Adding) <= MaxTimers
    /\ Len(tempSweep.due) <= Batch

LEMMA TempTyped == TempInv /\ TempPlaces => TempRolesTypeOK
<1> SUFFICES ASSUME TempInv, TempPlaces PROVE TempRolesTypeOK
  OBVIOUS
<1>1. TempRolesTyped BY DEF TempInv
<1>2. Len(tempRows) <= MaxTimers
  <2>1. IsFiniteSet(Adding) BY FS_Subset, TempRoleConstants DEF Adding
  <2>2. Cardinality(Adding) \in Nat BY <2>1, FS_CardinalityType
  <2>3. Len(tempRows) \in Nat /\ MaxTimers \in Nat BY <1>1, TempRoleConstants DEF TempRolesTyped
  <2>4. QED BY <2>2, <2>3 DEF TempPlaces
<1>3. tempSweep.due \in Seq(DOMAIN tempRows)
  <2>1. tempSweep.due \in [1 .. Len(tempSweep.due) -> DOMAIN tempRows] /\ Len(tempSweep.due) \in Nat
    BY <1>1 DEF TempRolesTyped
  <2>2. QED BY <2>1, SeqDef
<1>4. QED BY <1>1, <1>2, <1>3 DEF TempRolesTyped, TempRolesTypeOK, TempPlaces

LEMMA TempPlacesAtFirst == TempRolesInit => TempPlaces
<1> SUFFICES ASSUME TempRolesInit PROVE TempPlaces
  OBVIOUS
<1>1. Adding = {} BY DEF TempRolesInit, Adding
<1>2. Cardinality(Adding) = 0 BY <1>1, FS_EmptySet
<1>3. Len(tempRows) = 0 /\ Len(tempSweep.due) = 0 BY DEF TempRolesInit, NoSweep
<1>4. QED BY <1>2, <1>3, TempRoleConstants DEF TempPlaces

LEMMA TempPlacesKept ==
  ASSUME TempInv, TempPlaces, [TempRolesNext]_<<surroundings, tempVars>>
  PROVE  TempPlaces'
<1>1. TempRolesTyped /\ TempRolesTyped' BY TempNext DEF TempInv
<1>2. IsFiniteSet(Adding) BY FS_Subset, TempRoleConstants DEF Adding
<1>3. Len(tempRows) \in Nat /\ Len(tempRows') \in Nat /\ MaxTimers \in Nat /\ Batch \in Nat
  BY <1>1, TempRoleConstants DEF TempRolesTyped
<1>4. ASSUME \/ Adding' \subseteq Adding /\ Len(tempRows') = Len(tempRows)
             \/ \E o : /\ Adding' \subseteq Adding \cup {o} /\ Len(tempRows') = Len(tempRows)
                       /\ Len(tempRows) + Cardinality(Adding) < MaxTimers
             \/ \E o \in Adding : Adding' \subseteq Adding \ {o} /\ Len(tempRows') <= Len(tempRows) + 1
      PROVE  Len(tempRows') + Cardinality(Adding') <= MaxTimers
  BY <1>2, <1>3, <1>4, Places DEF TempPlaces
<1>5. \A o \in Operator : tempAt[o] # NoCommand => tempAt[o] \in Command BY <1>1 DEF TempRolesTyped
<1>7. ASSUME NEW t, CloseTimers(t) PROVE Len(tempRows') = Len(tempRows)
  BY <1>1, <1>7, ClosingTimers, RowsAsMany DEF TempRolesTyped
<1>8. ASSUME NEW o \in Operator, NEW t \in Target, NEW d \in Duration, AddTempRole(o, t, d) PROVE TempPlaces'
  <2>1. /\ tempAt' = [tempAt EXCEPT ![o] = [step |-> "add", target |-> t, until |-> now + d]]
        /\ UNCHANGED <<tempRows, tempSweep>>
        /\ Len(tempRows) + Cardinality(Adding) < MaxTimers
    BY <1>8 DEF AddTempRole
  <2>2. Adding' \subseteq Adding \cup {o} BY <1>1, <2>1 DEF TempRolesTyped, Adding
  <2>3. QED BY <1>4, <2>1, <2>2 DEF TempPlaces
<1>9. ASSUME NEW o \in Operator, NEW t \in Target, RemoveTempRole(o, t) PROVE TempPlaces'
  <2>1. /\ tempAt' = [tempAt EXCEPT ![o] = [step |-> "take", target |-> t, until |-> 0]]
        /\ tempSweep' = tempSweep /\ CloseTimers(t)
    BY <1>9 DEF RemoveTempRole
  <2>2. Adding' \subseteq Adding BY <1>1, <2>1 DEF TempRolesTyped, Adding
  <2>3. QED BY <1>4, <1>7, <2>1, <2>2 DEF TempPlaces
<1>10. ASSUME NEW o \in Operator, PutRole(o) \/ Supersede(o) \/ TakeOff(o) \/ BotStops(o) PROVE TempPlaces'
  <2>1. tempSweep' = tempSweep BY <1>10 DEF PutRole, Supersede, TakeOff, BotStops
  <2>2. Len(tempRows') = Len(tempRows) BY <1>7, <1>10 DEF PutRole, Supersede, TakeOff, BotStops
  <2>3. /\ tempAt[o] # NoCommand
        /\ \/ tempAt' = [tempAt EXCEPT ![o] = NoCommand]
           \/ tempAt[o].step # "take" /\ \E s : tempAt' = [tempAt EXCEPT ![o].step = s]
    BY <1>10 DEF PutRole, Supersede, TakeOff, BotStops
  <2>4. o \in Adding \/ o \notin Adding' BY <1>1, <2>3 DEF TempRolesTyped, Adding
  <2>5. \A p \in Operator \ {o} : tempAt'[p] = tempAt[p] BY <1>1, <2>3 DEF TempRolesTyped
  <2>6. Adding' \subseteq Adding BY <2>4, <2>5 DEF Adding
  <2>7. QED BY <1>4, <2>1, <2>2, <2>6 DEF TempPlaces
<1>11. ASSUME NEW o \in Operator, RecordTimer(o) PROVE TempPlaces'
  <2>1. /\ tempSweep' = tempSweep /\ tempAt' = [tempAt EXCEPT ![o] = NoCommand]
        /\ tempAt[o] # NoCommand /\ tempAt[o].step = "record"
        /\ tempRows' = tempRows \/ \E row : tempRows' = Append(tempRows, row)
    BY <1>11 DEF RecordTimer
  <2>2. o \in Adding /\ Adding' \subseteq Adding \ {o} BY <1>1, <2>1 DEF TempRolesTyped, Adding
  <2>3. Len(tempRows') <= Len(tempRows) + 1
    <3>1. ASSUME NEW row, tempRows' = Append(tempRows, row) PROVE Len(tempRows') = Len(tempRows) + 1
      BY <1>1, <3>1, AppendProperties DEF TempRolesTyped
    <3>2. QED BY <1>3, <2>1, <3>1
  <2>4. QED BY <1>4, <2>1, <2>2, <2>3 DEF TempPlaces
<1>12. ASSUME SweepStep \/ SweepStops PROVE TempPlaces'
  <2>1. UNCHANGED tempAt
    BY <1>12 DEF SweepStep, SweepTempRoles, TakeExpired, CloseExpired, SweepStops
  <2>2. Adding' = Adding BY <2>1 DEF Adding
  <2>3. Len(tempRows') = Len(tempRows)
    <3>1. DOMAIN tempRows' = DOMAIN tempRows
      BY <1>12 DEF SweepStep, SweepTempRoles, TakeExpired, CloseExpired, SweepStops
    <3>2. QED BY <1>1, <3>1, RowsAsMany DEF TempRolesTyped
  <2>4. Len(tempSweep'.due) <= Batch
    <3>1. CASE SweepTempRoles
      <4>1. PICK due \in DueRows : tempSweep' = [due |-> due, taken |-> FALSE] BY <3>1 DEF SweepTempRoles
      <4>2. DueTimers \in SUBSET Nat BY <1>1 DEF DueTimers, TempRolesTyped
      <4>3. QED BY <1>3, <4>1, <4>2, AsLongAsRead DEF DueRows
    <3>2. CASE TakeExpired BY <3>2 DEF TakeExpired, TempPlaces
    <3>3. CASE CloseExpired
      <4>1. tempSweep.due \in Seq(Nat) /\ tempSweep.due # <<>> /\ tempSweep'.due = Tail(tempSweep.due)
        BY <1>1, <3>3 DEF CloseExpired, TempRolesTyped
      <4>2. Len(Tail(tempSweep.due)) = Len(tempSweep.due) - 1 /\ Len(tempSweep.due) \in Nat BY <4>1
      <4>3. QED BY <1>3, <4>1, <4>2 DEF TempPlaces
    <3>4. CASE SweepStops
      <4>1. tempSweep'.due = <<>> BY <3>4 DEF SweepStops, NoSweep
      <4>2. QED BY <1>3, <4>1
    <3>5. QED BY <1>12, <3>1, <3>2, <3>3, <3>4 DEF SweepStep
  <2>5. QED BY <1>4, <2>2, <2>3, <2>4 DEF TempPlaces
<1>13. CASE UNCHANGED tempVars
  <2>1. Adding' = Adding BY <1>13 DEF Adding, tempVars
  <2>2. QED BY <1>13, <2>1 DEF tempVars, TempPlaces
<1>14. QED BY <1>8, <1>9, <1>10, <1>11, <1>12, <1>13 DEF TempRolesNext, ProceedTemp

-----------------------------------------------------------------------------
\* Among some places of the list of guilds there is a first one.

LEMMA FirstIsOneOfThem ==
  ASSUME NEW guilds \in SUBSET BanGuild, guilds # {}
  PROVE  FirstByName(guilds) \in guilds
<1> DEFINE S == {i \in DOMAIN ByName : ByName[i] \in guilds}
           R == {pair \in Nat \X Nat : pair[1] < pair[2]}
<1>1. S \subseteq Nat /\ S # {} BY TimedBanConstants
<1>2. IsWellFoundedOn(R, Nat)
  <2>1. OpToRel(<, Nat) = R BY DEF OpToRel
  <2>2. QED BY <2>1, NatLessThanWellFounded
<1>3. PICK i \in S : \A j \in S : <<j, i>> \notin R
  <2> HIDE DEF R, S
  <2>1. QED BY <1>1, <1>2, WFMin
<1>4. \A j \in S : i <= j
  <2> SUFFICES ASSUME NEW j \in S, j < i PROVE FALSE
    BY <1>1
  <2>1. <<j, i>> \in R BY <1>1
  <2>2. QED BY <1>3, <2>1
<1>5. Min(S) \in S
  <2> HIDE DEF R, S
  <2>1. QED BY <1>4 DEF Min
<1>6. QED BY <1>5 DEF FirstByName

Timing(o) == Banning(o) /\ banAt[o].kind = "timed"
TimedByHand == {o \in Moderator : Timing(o)}

BanPlaces ==
    /\ registered \subseteq BanGuild /\ bannedIn \subseteq BanGuild /\ bannedSonoran \subseteq Sonoran
    /\ \A o \in Moderator : Banning(o) => banAt[o] \in BanCommand
    /\ banSweep \in [due : Seq(Nat), guilds : SUBSET BanGuild, todo : SUBSET BanGuild]
    /\ banLast \in {"none"} \cup BanKind
    /\ Len(banRows) + Cardinality(TimedByHand) <= MaxBans

LEMMA BansAreTyped == BanInv /\ BanPlaces => TimedBansTypeOK
<1> SUFFICES ASSUME BanInv, BanPlaces PROVE TimedBansTypeOK
  OBVIOUS
<1>1. TimedBansTyped BY DEF BanInv, TimersInv
<1>2. banRows \in Seq([until : Nat, active : BOOLEAN])
  <2>1. BanRow \subseteq [until : Nat, active : BOOLEAN] BY DEF BanRow
  <2>2. QED BY <1>1, <2>1, SeqMonotonic DEF TimedBansTyped
<1>3. Len(banRows) <= MaxBans
  <2>1. IsFiniteSet(TimedByHand) BY FS_Subset, TimedBanConstants DEF TimedByHand
  <2>2. Cardinality(TimedByHand) \in Nat BY <2>1, FS_CardinalityType
  <2>3. Len(banRows) \in Nat /\ MaxBans \in Nat BY <1>2, TimedBanConstants
  <2>4. QED BY <2>2, <2>3 DEF BanPlaces
<1>4. banAt \in [Moderator -> BanCommand \cup {NoBanCommand}]
  <2>1. banAt = [o \in Moderator |-> banAt[o]] BY <1>1 DEF TimedBansTyped
  <2>2. QED BY <2>1 DEF Banning, BanPlaces
<1>5. banSweep \in [due : Seq(DOMAIN banRows), guilds : SUBSET BanGuild, todo : SUBSET BanGuild]
  <2>1. banSweep.due \in Seq(DOMAIN banRows)
    <3>1. banSweep.due \in [1 .. Len(banSweep.due) -> DOMAIN banRows] /\ Len(banSweep.due) \in Nat
      BY <1>1 DEF TimedBansTyped
    <3>2. QED BY <3>1, SeqDef
  <2>2. QED BY <2>1 DEF BanPlaces
<1>6. QED BY <1>1, <1>2, <1>3, <1>4, <1>5 DEF TimedBansTyped, TimedBansTypeOK, BanPlaces

LEMMA BanPlacesAtFirst == TimedBansInit => BanPlaces
<1> SUFFICES ASSUME TimedBansInit PROVE BanPlaces
  OBVIOUS
<1>1. \A o \in Moderator : ~Banning(o) BY DEF TimedBansInit, Banning
<1>2. TimedByHand = {} BY <1>1 DEF TimedByHand, Timing
<1>3. Cardinality(TimedByHand) = 0 BY <1>2, FS_EmptySet
<1>4. Len(banRows) = 0 BY DEF TimedBansInit
<1>5. banSweep \in [due : Seq(Nat), guilds : SUBSET BanGuild, todo : SUBSET BanGuild]
  BY DEF TimedBansInit, NoBanSweep
<1>6. QED BY <1>1, <1>3, <1>4, <1>5, TimedBanConstants DEF BanPlaces, TimedBansInit

LEMMA BanPlacesKept ==
  ASSUME BanInv, BanPlaces, [TimedBansNext]_<<surroundings, banVars>>
  PROVE  BanPlaces'
<1>1. TimedBansTyped /\ TimedBansTyped' BY BanNext DEF BanInv, TimersInv
<1>2. IsFiniteSet(TimedByHand) BY FS_Subset, TimedBanConstants DEF TimedByHand
<1>3. Len(banRows) \in Nat /\ Len(banRows') \in Nat /\ MaxBans \in Nat
  BY <1>1, TimedBanConstants DEF TimedBansTyped
<1>4. ASSUME \/ TimedByHand' \subseteq TimedByHand /\ Len(banRows') = Len(banRows)
             \/ \E o : /\ TimedByHand' \subseteq TimedByHand \cup {o} /\ Len(banRows') = Len(banRows)
                       /\ Len(banRows) + Cardinality(TimedByHand) < MaxBans
             \/ \E o \in TimedByHand : /\ TimedByHand' \subseteq TimedByHand \ {o}
                                       /\ Len(banRows') <= Len(banRows) + 1
      PROVE  Len(banRows') + Cardinality(TimedByHand') <= MaxBans
  BY <1>2, <1>3, <1>4, Places DEF BanPlaces
<1>5. ASSUME NEW o \in Moderator, NEW c, banAt' = [banAt EXCEPT ![o] = c]
      PROVE  banAt'[o] = c /\ \A p \in Moderator \ {o} : banAt'[p] = banAt[p]
  <2>1. DOMAIN banAt = Moderator BY <1>1 DEF TimedBansTyped
  <2>2. QED BY <1>5, <2>1
<1>6. ASSUME DOMAIN banRows' = DOMAIN banRows PROVE Len(banRows') = Len(banRows)
  BY <1>1, <1>6, RowsAsMany DEF TimedBansTyped
<1>7. \A o \in Moderator : Banning(o) => CommandIsTyped(banAt[o]) /\ banAt[o] \in BanCommand
  BY <1>1 DEF TimedBansTyped, BanPlaces
<1>8. ASSUME NEW o \in Moderator, NEW kind \in BanKind, NEW length \in BanLength, StartBanCommand(o, kind, length)
      PROVE  BanPlaces'
  <2> DEFINE c == [step |-> "guilds", kind |-> kind, todo |-> registered,
                   until |-> IF kind = "timed" THEN now + length ELSE 0]
  <2>1. c.kind = kind /\ c \in BanCommand
    <3>1. (IF kind = "timed" THEN now + length ELSE 0) \in Nat
      BY <1>1, TimedBanConstants DEF TimedBansTyped
    <3>2. QED BY <3>1 DEF BanCommand, BanPlaces
  <2>2. /\ banAt' = [banAt EXCEPT ![o] = c]
        /\ kind = "timed" => Len(banRows) + Cardinality(TimedByHand) < MaxBans
        /\ UNCHANGED <<registered, bannedIn, bannedSonoran, banRows, banSweep, banLast>>
    BY <1>8 DEF StartBanCommand, TimedByHand, Timing, Banning
  <2> HIDE DEF c
  <2>3. banAt'[o] = c /\ \A p \in Moderator \ {o} : banAt'[p] = banAt[p] BY <1>5, <2>2
  <2>4. TimedByHand' \subseteq IF kind = "timed" THEN TimedByHand \cup {o} ELSE TimedByHand
    BY <2>1, <2>3 DEF TimedByHand, Timing, Banning
  <2>5. \A p \in Moderator : Banning(p)' => banAt'[p] \in BanCommand
    BY <2>1, <2>3 DEF BanPlaces, Banning
  <2>6. Len(banRows') + Cardinality(TimedByHand') <= MaxBans BY <1>4, <2>2, <2>4
  <2>7. QED BY <2>2, <2>5, <2>6 DEF BanPlaces
<1>9. ASSUME NEW o \in Moderator, Banning(o),
             \/ banAt' = [banAt EXCEPT ![o] = NoBanCommand]
             \/ \E s \in {"guilds", "supersede", "record", "close", "sonoran"} :
                    banAt' = [banAt EXCEPT ![o] = [banAt[o] EXCEPT !.step = s]]
             \/ \E left \in SUBSET BanGuild : banAt' = [banAt EXCEPT ![o] = [banAt[o] EXCEPT !.todo = left]]
      PROVE  /\ \A p \in Moderator : Banning(p)' => banAt'[p] \in BanCommand
             /\ TimedByHand' \subseteq TimedByHand
  <2>1. \/ banAt'[o] = NoBanCommand
        \/ banAt'[o].kind = banAt[o].kind /\ banAt'[o] \in BanCommand
    <3>1. CASE banAt' = [banAt EXCEPT ![o] = NoBanCommand] BY <1>5, <3>1
    <3>2. ASSUME NEW s \in {"guilds", "supersede", "record", "close", "sonoran"},
                 banAt' = [banAt EXCEPT ![o] = [banAt[o] EXCEPT !.step = s]]
          PROVE  banAt'[o].kind = banAt[o].kind /\ banAt'[o] \in BanCommand
      <4>1. banAt'[o] = [banAt[o] EXCEPT !.step = s] BY <1>5, <3>2
      <4>2. QED BY <1>7, <1>9, <4>1 DEF BanCommand
    <3>3. ASSUME NEW left \in SUBSET BanGuild, banAt' = [banAt EXCEPT ![o] = [banAt[o] EXCEPT !.todo = left]]
          PROVE  banAt'[o].kind = banAt[o].kind /\ banAt'[o] \in BanCommand
      <4>1. banAt'[o] = [banAt[o] EXCEPT !.todo = left] BY <1>5, <3>3
      <4>2. QED BY <1>7, <1>9, <4>1 DEF BanCommand
    <3>4. QED BY <1>9, <3>1, <3>2, <3>3
  <2>2. \A p \in Moderator \ {o} : banAt'[p] = banAt[p] BY <1>5, <1>9
  <2>3. QED BY <1>7, <1>9, <2>1, <2>2 DEF TimedByHand, Timing, Banning
<1>10. ASSUME NEW o \in Moderator, NextGuild(o) PROVE BanPlaces'
  <2> DEFINE g == FirstByName(banAt[o].todo)
             left == banAt[o].todo \ {g}
  <2>1. /\ Banning(o) /\ banAt[o].todo # {}
        /\ banAt' = [banAt EXCEPT ![o] = [banAt[o] EXCEPT !.todo = left]]
        /\ bannedIn' \subseteq bannedIn \cup {g}
        /\ UNCHANGED <<registered, bannedSonoran, banRows, banSweep, banLast>>
    BY <1>10 DEF NextGuild, Step, Banning
  <2>2. g \in BanGuild /\ left \subseteq BanGuild BY <1>7, <2>1, FirstIsOneOfThem DEF BanCommand
  <2> HIDE DEF g, left
  <2>3. /\ \A p \in Moderator : Banning(p)' => banAt'[p] \in BanCommand
        /\ TimedByHand' \subseteq TimedByHand
    BY <1>9, <2>1, <2>2
  <2>4. QED BY <1>4, <2>1, <2>2, <2>3 DEF BanPlaces
<1>11. ASSUME NEW o \in Moderator, GuildsDone(o) \/ SupersedeBan(o) \/ CloseByUnban(o) PROVE BanPlaces'
  <2>1. /\ Banning(o)
        /\ \E s \in {"guilds", "supersede", "record", "close", "sonoran"} :
               banAt' = [banAt EXCEPT ![o] = [banAt[o] EXCEPT !.step = s]]
        /\ UNCHANGED <<registered, bannedIn, bannedSonoran, banSweep, banLast>>
    <3>1. CASE GuildsDone(o)
      <4>1. Banning(o) /\ banAt[o].kind \in BanKind BY <1>7, <3>1 DEF GuildsDone, Step, Banning, CommandIsTyped
      <4>2. QED BY <3>1, <4>1 DEF GuildsDone, Goto, BanKind
    <3>2. CASE SupersedeBan(o) \/ CloseByUnban(o) BY <3>2 DEF SupersedeBan, CloseByUnban, Step, Goto, Banning
    <3>3. QED BY <1>11, <3>1, <3>2
  <2>2. DOMAIN banRows' = DOMAIN banRows
    BY <1>11 DEF GuildsDone, SupersedeBan, CloseByUnban, CloseOpenBans
  <2>3. /\ \A p \in Moderator : Banning(p)' => banAt'[p] \in BanCommand
        /\ TimedByHand' \subseteq TimedByHand
    BY <1>9, <2>1
  <2>4. QED BY <1>4, <1>6, <2>1, <2>2, <2>3 DEF BanPlaces
<1>12. ASSUME NEW o \in Moderator, ApplySonoranBan(o) \/ BanStops(o) PROVE BanPlaces'
  <2>1. /\ Banning(o)
        /\ banAt' = [banAt EXCEPT ![o] = NoBanCommand]
        /\ UNCHANGED <<registered, bannedIn, banRows, banSweep>>
    BY <1>12 DEF ApplySonoranBan, BanStops, Step, Banning
  <2>2. bannedSonoran' \subseteq Sonoran BY <1>12 DEF ApplySonoranBan, BanStops, BanPlaces
  <2>3. banLast' \in {"none"} \cup BanKind
    BY <1>7, <1>12, <2>1 DEF ApplySonoranBan, BanStops, BanPlaces, CommandIsTyped
  <2>4. /\ \A p \in Moderator : Banning(p)' => banAt'[p] \in BanCommand
        /\ TimedByHand' \subseteq TimedByHand
    BY <1>9, <2>1
  <2>5. QED BY <1>4, <2>1, <2>2, <2>3, <2>4 DEF BanPlaces
<1>13. ASSUME NEW o \in Moderator, RecordBan(o) PROVE BanPlaces'
  <2>1. /\ Banning(o) /\ banAt[o].step = "record"
        /\ banAt' = [banAt EXCEPT ![o] = NoBanCommand]
        /\ banRows' = banRows \/ \E row : banRows' = Append(banRows, row)
        /\ banLast' = "timed"
        /\ UNCHANGED <<registered, bannedIn, bannedSonoran, banSweep>>
    BY <1>13 DEF RecordBan, Step, Banning
  <2>2. /\ \A p \in Moderator : Banning(p)' => banAt'[p] \in BanCommand
        /\ TimedByHand' \subseteq TimedByHand
    BY <1>9, <2>1
  <2>3. o \in TimedByHand BY <1>7, <2>1 DEF CommandIsTyped, TimedByHand, Timing
  <2>4. o \notin TimedByHand' BY <1>5, <2>1 DEF TimedByHand, Timing, Banning
  <2>5. Len(banRows') <= Len(banRows) + 1
    <3>1. ASSUME NEW row, banRows' = Append(banRows, row) PROVE Len(banRows') = Len(banRows) + 1
      BY <1>1, <3>1, AppendProperties DEF TimedBansTyped
    <3>2. QED BY <1>3, <2>1, <3>1
  <2>6. Len(banRows') + Cardinality(TimedByHand') <= MaxBans BY <1>4, <2>2, <2>3, <2>4, <2>5
  <2>7. QED BY <2>1, <2>2, <2>6 DEF BanPlaces, BanKind
<1>14. ASSUME \/ \E g \in BanGuild : DropGuild(g)
              \/ BanSweepStep \/ BanSweepStops \/ UNCHANGED banVars
       PROVE  BanPlaces'
  <2>1. UNCHANGED <<bannedSonoran, banAt, banLast>> /\ registered' \subseteq registered
    BY <1>14 DEF DropGuild, BanSweepStep, BanSweepStops, SweepBans, LiftNext, CloseBan, banVars
  <2>2. DOMAIN banRows' = DOMAIN banRows
    BY <1>14 DEF DropGuild, BanSweepStep, BanSweepStops, SweepBans, LiftNext, CloseBan, banVars
  <2>3. TimedByHand' = TimedByHand BY <2>1 DEF TimedByHand, Timing, Banning
  <2>4. bannedIn' \subseteq bannedIn
    BY <1>14 DEF DropGuild, BanSweepStep, BanSweepStops, SweepBans, LiftNext, CloseBan, banVars
  <2>5. banSweep' \in [due : Seq(Nat), guilds : SUBSET BanGuild, todo : SUBSET BanGuild]
    <3> DEFINE left == banSweep.todo \ {FirstByName(banSweep.todo)}
               done == Tail(banSweep.due)
               guilds == banSweep.guilds
    <3>1. \/ banSweep' = banSweep \/ banSweep' = NoBanSweep
          \/ \E due : banSweep' = [due |-> due, guilds |-> registered, todo |-> registered]
          \/ banSweep' = [banSweep EXCEPT !.todo = left]
          \/ banSweep' = [banSweep EXCEPT !.due = done, !.todo = guilds] /\ banSweep.due # <<>>
      BY <1>14 DEF DropGuild, BanSweepStep, BanSweepStops, SweepBans, LiftNext, CloseBan, banVars
    <3>2. banSweep'.due \in Seq(Nat) BY <1>1 DEF TimedBansTyped
    <3>3. left \subseteq BanGuild /\ guilds \subseteq BanGuild /\ (banSweep.due # <<>> => done \in Seq(Nat))
      BY DEF BanPlaces
    <3> HIDE DEF left, done, guilds
    <3>4. ASSUME NEW due, banSweep' = [due |-> due, guilds |-> registered, todo |-> registered]
          PROVE  banSweep' \in [due : Seq(Nat), guilds : SUBSET BanGuild, todo : SUBSET BanGuild]
      <4>1. due \in Seq(Nat) BY <3>2, <3>4
      <4>2. QED BY <3>4, <4>1 DEF BanPlaces
    <3>5. CASE banSweep' = [banSweep EXCEPT !.todo = left] BY <3>3, <3>5 DEF BanPlaces
    <3>6. CASE banSweep' = [banSweep EXCEPT !.due = done, !.todo = guilds] /\ banSweep.due # <<>>
      <4>1. done \in Seq(Nat) BY <3>3, <3>6
      <4>2. QED BY <3>3, <3>6, <4>1 DEF BanPlaces
    <3>7. NoBanSweep \in [due : Seq(Nat), guilds : SUBSET BanGuild, todo : SUBSET BanGuild] BY DEF NoBanSweep
    <3>8. QED BY <3>1, <3>4, <3>5, <3>6, <3>7 DEF BanPlaces
  <2>6. QED BY <1>4, <1>6, <2>1, <2>2, <2>3, <2>4, <2>5 DEF BanPlaces, Banning
<1>15. QED BY <1>8, <1>10, <1>11, <1>12, <1>13, <1>14 DEF TimedBansNext, ProceedBan

-----------------------------------------------------------------------------
GrantRow == [until : Nat, revoked : BOOLEAN]
AboutToIssue == {j \in Issuer : issuing[j] # NotIssuing}

GrantPlaces ==
    /\ grants \in Seq(GrantRow)
    /\ issuing \in [Issuer -> Nat \cup {NotIssuing}]
    /\ Len(grants) + Cardinality(AboutToIssue) <= MaxGrants
    /\ grantJobs <= MaxGrantJobs

LEMMA GrantsAreTyped == GrantInv /\ GrantPlaces => GrantsTypeOK
<1> SUFFICES ASSUME GrantInv, GrantPlaces PROVE GrantsTypeOK
  OBVIOUS
<1>1. Len(grants) <= MaxGrants
  <2>1. IsFiniteSet(AboutToIssue) BY FS_Subset, GrantConstants DEF AboutToIssue
  <2>2. Cardinality(AboutToIssue) \in Nat BY <2>1, FS_CardinalityType
  <2>3. Len(grants) \in Nat /\ MaxGrants \in Nat BY GrantConstants DEF GrantPlaces
  <2>4. QED BY <2>2, <2>3 DEF GrantPlaces
<1>2. grantJobs \in 0 .. MaxGrantJobs BY GrantConstants DEF GrantPlaces, GrantInv, GrantsTyped
<1>3. QED BY <1>1, <1>2 DEF GrantInv, GrantsTyped, GrantsTypeOK, GrantPlaces, GrantRow, Planner

LEMMA GrantPlacesAtFirst == GrantsInit => GrantPlaces
<1> SUFFICES ASSUME GrantsInit PROVE GrantPlaces
  OBVIOUS
<1>1. AboutToIssue = {} BY DEF GrantsInit, AboutToIssue
<1>2. Cardinality(AboutToIssue) = 0 BY <1>1, FS_EmptySet
<1>3. Len(grants) = 0 BY DEF GrantsInit
<1>4. QED BY <1>2, <1>3, GrantConstants DEF GrantPlaces, GrantsInit

LEMMA GrantPlacesKept ==
  ASSUME GrantInv, GrantPlaces, now \in Nat, [GrantsNext]_<<surroundings, grantVars>>
  PROVE  GrantPlaces'
<1>1. IsFiniteSet(AboutToIssue) BY FS_Subset, GrantConstants DEF AboutToIssue
<1>2. /\ Len(grants) \in Nat /\ MaxGrants \in Nat /\ MaxGrantJobs \in Nat /\ grantJobs \in Nat
      /\ grantJobs <= MaxGrantJobs
  BY GrantConstants DEF GrantPlaces, GrantInv, GrantsTyped
<1>3. QueueSync => grantJobs' <= MaxGrantJobs BY <1>2 DEF QueueSync
<1>4. ASSUME UNCHANGED issuing, grants' \in Seq(GrantRow), Len(grants') = Len(grants), grantJobs' <= MaxGrantJobs
      PROVE  GrantPlaces'
  BY <1>4 DEF GrantPlaces, AboutToIssue
<1>5. ASSUME NEW i \in Issuer, NEW length \in GrantLength, CheckGrant(i, length) PROVE GrantPlaces'
  <2> DEFINE until == IF length = 0 THEN Forever ELSE now + length
  <2>1. until \in Nat BY GrantConstants DEF Forever
  <2>2. /\ issuing' = [issuing EXCEPT ![i] = until]
        /\ Len(grants) + Cardinality(AboutToIssue) < MaxGrants
        /\ UNCHANGED <<grants, grantJobs>>
    BY <1>5 DEF CheckGrant, AboutToIssue
  <2> HIDE DEF until
  <2>3. issuing' \in [Issuer -> Nat \cup {NotIssuing}] BY <2>1, <2>2 DEF GrantPlaces
  <2>4. AboutToIssue' \subseteq AboutToIssue \cup {i} BY <2>2 DEF GrantPlaces, AboutToIssue
  <2>5. Len(grants') + Cardinality(AboutToIssue') <= MaxGrants
    BY <1>1, <1>2, <2>2, <2>4, Places DEF GrantPlaces
  <2>6. QED BY <2>2, <2>3, <2>5 DEF GrantPlaces
<1>6. ASSUME NEW i \in Issuer, IssueGrant(i) PROVE GrantPlaces'
  <2> DEFINE row == [until |-> issuing[i], revoked |-> FALSE]
  <2>1. /\ issuing[i] # NotIssuing /\ issuing' = [issuing EXCEPT ![i] = NotIssuing]
        /\ grants' = Append(grants, row) /\ QueueSync
    BY <1>6 DEF IssueGrant
  <2>2. row \in GrantRow BY <2>1 DEF GrantPlaces, GrantRow
  <2> HIDE DEF row
  <2>3. grants' \in Seq(GrantRow) /\ Len(grants') = Len(grants) + 1
    BY <2>1, <2>2, AppendProperties DEF GrantPlaces
  <2>4. issuing' \in [Issuer -> Nat \cup {NotIssuing}] BY <2>1 DEF GrantPlaces
  <2>5. i \in AboutToIssue /\ AboutToIssue' \subseteq AboutToIssue \ {i}
    BY <2>1 DEF GrantPlaces, AboutToIssue
  <2>6. Len(grants') + Cardinality(AboutToIssue') <= MaxGrants
    BY <1>1, <1>2, <2>3, <2>5, Places DEF GrantPlaces
  <2>7. QED BY <1>3, <2>1, <2>3, <2>4, <2>6 DEF GrantPlaces
<1>7. ASSUME NEW g \in DOMAIN grants, RevokeGrant(g) PROVE GrantPlaces'
  <2>1. grants' = [grants EXCEPT ![g].revoked = TRUE] /\ UNCHANGED issuing /\ QueueSync BY <1>7 DEF RevokeGrant
  <2>2. grants' \in Seq(GrantRow) /\ Len(grants') = Len(grants)
    <3> DEFINE row == [grants[g] EXCEPT !.revoked = TRUE]
    <3>1. grants[g] \in GrantRow BY DEF GrantPlaces
    <3>2. row \in GrantRow BY <3>1 DEF GrantRow
    <3>3. grants' = [grants EXCEPT ![g] = row] BY <2>1
    <3> HIDE DEF row
    <3>4. grants' \in Seq(GrantRow) /\ DOMAIN grants' = DOMAIN grants BY <3>2, <3>3 DEF GrantPlaces
    <3>5. QED BY <3>4, RowsAsMany DEF GrantPlaces
  <2>3. QED BY <1>3, <1>4, <2>1, <2>2
<1>8. ASSUME \/ \E driven \in BOOLEAN : UpsertManagedRole(driven)
             \/ \E w \in Planner : Synchronize(w)
             \/ ExpireGrants \/ GrantsTick \/ UNCHANGED grantVars
      PROVE  GrantPlaces'
  <2>1. UNCHANGED <<grants, issuing>>
    BY <1>8 DEF UpsertManagedRole, Synchronize, PlanGrant, ApplyGrant, ExpireGrants, GrantsTick, grantVars
  <2>2. grantJobs' = grantJobs \/ (grantJobs > 0 /\ grantJobs' = grantJobs - 1) \/ QueueSync
    BY <1>8 DEF UpsertManagedRole, Synchronize, PlanGrant, ApplyGrant, ExpireGrants, GrantsTick, grantVars
  <2>3. grantJobs' <= MaxGrantJobs BY <1>2, <1>3, <2>2
  <2>4. QED BY <1>4, <2>1, <2>3 DEF GrantPlaces
<1>9. QED BY <1>5, <1>6, <1>7, <1>8 DEF GrantsNext, Reconciliation, Planner

-----------------------------------------------------------------------------

LEMMA ServiceEditsLeft ==
  ASSUME serviceEdits \in 0 .. MaxServiceEdits, SelfServiceNext \/ UNCHANGED serviceVars
  PROVE  serviceEdits' \in 0 .. MaxServiceEdits
<1>1. \/ serviceEdits' = serviceEdits
      \/ serviceEdits > 0 /\ serviceEdits' = serviceEdits - 1
  BY DEF SelfServiceNext, AddGrantRule, RemoveGrantRule, Assign, AuthorizeCaller, ReadTarget, AssignRole,
         TakenByHand, serviceVars
<1>2. QED BY <1>1, SelfServiceConstants

\* What is not about a service has it as it began.
PlacesInv ==
    /\ SurroundingsTypeOK
    /\ IF focus = "temp" THEN TempPlaces ELSE TempRolesInit
    /\ IF focus = "bans" THEN BanPlaces ELSE TimedBansInit
    /\ IF focus = "grants" THEN GrantPlaces ELSE GrantsInit
    /\ serviceEdits \in 0 .. MaxServiceEdits

LEMMA PlacesAtFirst == Init => PlacesInv
  BY TempPlacesAtFirst, BanPlacesAtFirst, GrantPlacesAtFirst, SurroundingsConstants, SelfServiceConstants
  DEF Init, PlacesInv, SurroundingsInit, SurroundingsTypeOK, SelfServiceInit

LEMMA PlacesKept == DirectInv /\ PlacesInv /\ [Next \/ AtRest]_vars => PlacesInv'
<1> SUFFICES ASSUME DirectInv, PlacesInv, [Next \/ AtRest]_vars PROVE PlacesInv'
  OBVIOUS
<1>1. UNCHANGED focus BY DirectSteps
<1>2. SurroundingsTypeOK' BY TimeGoesOn DEF PlacesInv
<1>3. now \in Nat BY SurroundingsConstants DEF PlacesInv, SurroundingsTypeOK
<1>4. (IF focus = "temp" THEN TempPlaces ELSE TempRolesInit)'
  <2>1. CASE focus = "temp" BY <1>1, <2>1, DirectSteps, TempPlacesKept DEF DirectInv, PlacesInv
  <2>2. CASE focus # "temp"
    <3>1. UNCHANGED tempVars BY <2>2, DirectSteps
    <3>2. QED BY <1>1, <2>2, <3>1 DEF tempVars, TempRolesInit, PlacesInv
  <2>3. QED BY <2>1, <2>2
<1>5. (IF focus = "bans" THEN BanPlaces ELSE TimedBansInit)'
  <2>1. CASE focus = "bans" BY <1>1, <2>1, DirectSteps, BanPlacesKept DEF DirectInv, PlacesInv
  <2>2. CASE focus # "bans"
    <3>1. UNCHANGED banVars BY <2>2, DirectSteps
    <3>2. QED BY <1>1, <2>2, <3>1 DEF banVars, TimedBansInit, PlacesInv
  <2>3. QED BY <2>1, <2>2
<1>6. (IF focus = "grants" THEN GrantPlaces ELSE GrantsInit)'
  <2>1. CASE focus = "grants" BY <1>1, <1>3, <2>1, DirectSteps, GrantPlacesKept DEF DirectInv, PlacesInv
  <2>2. CASE focus # "grants"
    <3>1. UNCHANGED grantVars BY <2>2, DirectSteps
    <3>2. QED BY <1>1, <2>2, <3>1 DEF grantVars, GrantsInit, PlacesInv
  <2>3. QED BY <2>1, <2>2
<1>7. serviceEdits' \in 0 .. MaxServiceEdits
  <2>1. SelfServiceNext \/ UNCHANGED serviceVars BY DirectSteps
  <2>2. QED BY <2>1, ServiceEditsLeft DEF PlacesInv
<1>8. QED BY <1>2, <1>4, <1>5, <1>6, <1>7 DEF PlacesInv

\* Whatever the services do, in whatever order and with whatever failures, their
\* rows, their commands and what they have changed in Discord stay what they can
\* be, within the bounds (temp-role-service.js, moderation-service.js,
\* grant-service.js, transfer-service.js, role-grant-service.js,
\* whitelist-service.js, setup-service.js).
THEOREM DirectIsTyped == Spec => []TypeOK
<1>1. DirectInv /\ PlacesInv => TypeOK
  <2> SUFFICES ASSUME DirectInv, PlacesInv PROVE TypeOK
    OBVIOUS
  <2>1. TempRolesTypeOK
    <3>1. CASE focus = "temp" BY <3>1, TempTyped DEF DirectInv, PlacesInv
    <3>2. CASE focus # "temp"
      <4>1. SurroundingsTypeOK /\ TempRolesInit BY <3>2 DEF PlacesInv
      <4>2. QED BY <4>1, TempRoleConstants DEF TempRolesInit, TempRolesTypeOK, NoSweep
    <3>3. QED BY <3>1, <3>2
  <2>2. TimedBansTypeOK
    <3>1. CASE focus = "bans" BY <3>1, BansAreTyped DEF DirectInv, PlacesInv
    <3>2. CASE focus # "bans"
      <4>1. TimedBansInit BY <3>2 DEF PlacesInv
      <4>2. banSweep \in [due : Seq(DOMAIN banRows), guilds : SUBSET BanGuild, todo : SUBSET BanGuild]
        BY <4>1 DEF TimedBansInit, NoBanSweep
      <4>3. banRows \in Seq([until : Nat, active : BOOLEAN]) /\ Len(banRows) <= MaxBans
        BY <4>1, TimedBanConstants DEF TimedBansInit
      <4>4. banAt \in [Moderator -> BanCommand \cup {NoBanCommand}] BY <4>1 DEF TimedBansInit
      <4>5. QED BY <4>1, <4>2, <4>3, <4>4 DEF TimedBansInit, TimedBansTypeOK
    <3>3. QED BY <3>1, <3>2
  <2>3. GrantsTypeOK
    <3>1. CASE focus = "grants" BY <3>1, GrantsAreTyped DEF DirectInv, PlacesInv
    <3>2. CASE focus # "grants"
      <4>1. GrantsInit BY <3>2 DEF PlacesInv
      <4>2. QED BY <4>1, GrantInit, GrantPlacesAtFirst, GrantsAreTyped
    <3>3. QED BY <3>1, <3>2
  <2>4. TransfersTypeOK BY DEF DirectInv, TransferInv
  <2>5. SelfServiceTypeOK BY DEF DirectInv, ServiceInv, ServiceTyped, PlacesInv, SelfServiceTypeOK
  <2>6. WhitelistTypeOK BY DEF DirectInv, WhitelistInv
  <2>7. ProvisionTypeOK BY DEF DirectInv, PromiseInv
  <2>8. QED BY <2>1, <2>2, <2>3, <2>4, <2>5, <2>6, <2>7 DEF TypeOK, PlacesInv
<1>2. QED BY <1>1, DirectInit, DirectNext, PlacesAtFirst, PlacesKept, PTL DEF Spec
==============================================================================
