-------------------------- MODULE CommunityProofs ---------------------------
(***************************************************************************)
(* The components of MCCommunity together, for any of them and any focus:  *)
(* each keeps its own inductive invariant. Those of accounts, rosters and  *)
(* names are here, those of mappings and permissions in AuthorityProofs;   *)
(* what may still fail is common to all of them.                           *)
(***************************************************************************)
EXTENDS MCCommunity, AuthorityProofs, SequenceTheorems, FiniteSetTheorems,
        WellFoundedInduction, TLAPS

-----------------------------------------------------------------------------
\* Accounts and website access.

\* Who has an account is known, and who is not known has none.
OwnersKnown ==
    /\ \A i \in DOMAIN links : links[i].user \in known
    /\ \A u \in User \ known : primary[u] = NoAccount

\* Nobody takes what he read as the last account of a user with a grant.
UnlinksAllowed ==
    \A o \in Linker :
        linking[o].step = "unlink" => ~(linking[o].seen = {linking[o].account} /\ linking[o].granted)

AccountsTyped ==
    /\ links \in Seq(Link)
    /\ \A i, j \in DOMAIN links : links[i].account = links[j].account => i = j
    /\ primary \in [User -> Account \cup {NoAccount}]
    /\ known \subseteq User /\ grantees \subseteq known /\ outdated \subseteq User
    /\ linking \in [Linker -> LinkCommand]

\* A grant about to be issued is for a user there is.
GranteesKnown == \A o \in Linker : linking[o].step = "grant" => linking[o].user \in known

AccountsInv == AccountsTyped /\ OwnersKnown /\ UnlinksAllowed /\ GranteesKnown /\ PrimaryIsOldest

\* What is read is read of users there are.
ReadersKnow ==
    \A r \in Recomputer :
        /\ deciding[r].step = "access" => deciding[r].user \in known
        /\ deciding[r].step = "write" => \A d \in deciding[r].todo : d.user \in known

\* A command reads the row of an account.
CommandsHaveAccounts ==
    deciding["command"].step = "rows" => deciding["command"].account \in Account

AccessTyped ==
    /\ access \subseteq known /\ fromTier \subseteq known
    /\ tiers \subseteq Tier /\ accessRules \in [TierRole -> Tier \cup {NoRule, ByLevel}]
    /\ mainEnabled \in BOOLEAN
    /\ tierHolders \in [TierRole -> SUBSET Account] /\ tierEvents \subseteq Account \X TierRole
    /\ deciding \in [Recomputer -> AccessReading]

AccessInv == AccessTyped /\ ReadersKnow /\ CommandsHaveAccounts

BoundsTyped ==
    /\ memberEdits \in 0 .. MaxMemberEdits /\ roleMoves \in 0 .. MaxRoleMoves
    /\ accessCommands \in 0 .. MaxAccessCommands

MembersInv == AccountsInv /\ AccessInv /\ BoundsTyped

\* Among some natural numbers there is a least one.
LEMMA Least ==
  ASSUME NEW S \in SUBSET Nat, S # {}
  PROVE  Min(S) \in S /\ \A j \in S : Min(S) <= j
<1> DEFINE R == {pair \in Nat \X Nat : pair[1] < pair[2]}
<1>1. IsWellFoundedOn(R, Nat)
  <2>1. OpToRel(<, Nat) = R BY DEF OpToRel
  <2>2. QED BY <2>1, NatLessThanWellFounded
<1>2. PICK i \in S : \A j \in S : <<j, i>> \notin R
  <2> HIDE DEF R
  <2>1. QED BY <1>1, WFMin
<1>3. \A j \in S : i <= j
  <2> SUFFICES ASSUME NEW j \in S, j < i PROVE FALSE
    OBVIOUS
  <2>1. <<j, i>> \in R OBVIOUS
  <2>2. QED BY <1>2, <2>1
<1>4. QED BY <1>3 DEF Min

LEMMA LeastIs ==
  ASSUME NEW S \in SUBSET Nat, NEW i \in S, \A j \in S : i <= j
  PROVE  Min(S) = i
<1>1. Min(S) \in S /\ Min(S) <= i BY Least
<1>2. Min(S) \in Nat /\ i \in Nat /\ i <= Min(S) BY <1>1
<1>3. QED BY <1>1, <1>2

LEMMA RowsAreIndices ==
  ASSUME NEW ls \in Seq(Link), NEW u
  PROVE  /\ RowsOf(ls, u) \in SUBSET (1 .. Len(ls)) /\ RowsOf(ls, u) \in SUBSET Nat
         /\ \A i \in RowsOf(ls, u) : i \in DOMAIN ls /\ ls[i] \in Link /\ ls[i].account \in Account
<1>1. DOMAIN ls = 1 .. Len(ls) /\ Len(ls) \in Nat /\ \A i \in DOMAIN ls : ls[i] \in Link
  OBVIOUS
<1>2. \A i \in RowsOf(ls, u) : i \in DOMAIN ls /\ ls[i] \in Link BY <1>1 DEF RowsOf
<1>3. \A l \in Link : l.account \in Account BY DEF Link
<1>4. QED BY <1>1, <1>2, <1>3

\* The first account is that of a row with no earlier one.
LEMMA FirstIs ==
  ASSUME NEW ls \in Seq(Link), NEW u, NEW i \in RowsOf(ls, u), \A j \in RowsOf(ls, u) : i <= j
  PROVE  First(ls, u) = ls[i].account
  BY RowsAreIndices, LeastIs DEF First

LEMMA SomeFirst ==
  ASSUME NEW ls \in Seq(Link), NEW u, RowsOf(ls, u) # {}
  PROVE  /\ \E i \in RowsOf(ls, u) : First(ls, u) = ls[i].account /\ \A j \in RowsOf(ls, u) : i <= j
         /\ First(ls, u) \in Account
<1>1. /\ Min(RowsOf(ls, u)) \in RowsOf(ls, u) /\ \A j \in RowsOf(ls, u) : Min(RowsOf(ls, u)) <= j
  BY RowsAreIndices, Least
<1>2. First(ls, u) = ls[Min(RowsOf(ls, u))].account BY DEF First
<1>3. QED BY <1>1, <1>2, RowsAreIndices

\* A new row leaves the first accounts there are.
LEMMA FirstAfterAppend ==
  ASSUME NEW ls \in Seq(Link), NEW x \in Link, NEW u
  PROVE  First(Append(ls, x), u) = IF RowsOf(ls, u) # {} THEN First(ls, u)
                                   ELSE IF x.user = u THEN x.account ELSE NoAccount
<1> DEFINE n == Len(ls)
           more == Append(ls, x)
<1>1. /\ n \in Nat /\ more \in Seq(Link) /\ DOMAIN more = 1 .. n + 1 /\ DOMAIN ls = 1 .. n
      /\ more[n + 1] = x /\ \A i \in 1 .. n : more[i] = ls[i]
  OBVIOUS
<1> HIDE DEF n, more
<1>2. RowsOf(more, u) = RowsOf(ls, u) \cup (IF x.user = u THEN {n + 1} ELSE {}) BY <1>1 DEF RowsOf
<1>3. CASE RowsOf(ls, u) # {}
  <2>1. PICK i \in RowsOf(ls, u) : First(ls, u) = ls[i].account /\ \A j \in RowsOf(ls, u) : i <= j
    BY <1>3, SomeFirst
  <2>2. i \in 1 .. n BY <1>1 DEF RowsOf
  <2>3. i \in RowsOf(more, u) /\ \A j \in RowsOf(more, u) : i <= j BY <1>1, <1>2, <2>1, <2>2
  <2>4. First(more, u) = more[i].account BY <1>1, <2>3, FirstIs
  <2>5. QED BY <1>1, <1>3, <2>1, <2>2, <2>4 DEF more
<1>4. CASE RowsOf(ls, u) = {} /\ x.user = u
  <2>1. n + 1 \in RowsOf(more, u) /\ \A j \in RowsOf(more, u) : n + 1 <= j BY <1>1, <1>2, <1>4
  <2>2. First(more, u) = more[n + 1].account BY <1>1, <2>1, FirstIs
  <2>3. QED BY <1>1, <1>4, <2>2 DEF more
<1>5. CASE RowsOf(ls, u) = {} /\ x.user # u
  <2>1. RowsOf(more, u) = {} BY <1>2, <1>5
  <2>2. First(more, u) = NoAccount BY <2>1 DEF First
  <2>3. QED BY <1>5, <2>2 DEF more
<1>6. QED BY <1>3, <1>4, <1>5

LEMMA Removed ==
  ASSUME NEW ls \in Seq(Link), NEW i \in DOMAIN ls
  PROVE  /\ RemoveAt(ls, i) \in Seq(Link) /\ DOMAIN RemoveAt(ls, i) = 1 .. Len(ls) - 1
         /\ \A j \in 1 .. Len(ls) - 1 : RemoveAt(ls, i)[j] = ls[IF j < i THEN j ELSE j + 1]
<1> DEFINE n == Len(ls)
           before == SubSeq(ls, 1, i - 1)
           behind == SubSeq(ls, i + 1, n)
<1>1. n \in Nat /\ i \in 1 .. n /\ \A j \in 1 .. n : ls[j] \in Link
  OBVIOUS
<1>2. /\ before \in Seq(Link) /\ Len(before) = i - 1 /\ \A j \in 1 .. i - 1 : before[j] = ls[j]
  <2>1. \A j \in 1 .. i - 1 : ls[j] \in Link BY <1>1
  <2>2. 1 \in Int /\ i - 1 \in Int BY <1>1
  <2> HIDE DEF n
  <2>3. QED BY <1>1, <2>1, <2>2, SubSeqProperties
<1>3. /\ behind \in Seq(Link) /\ Len(behind) = n - i /\ \A j \in 1 .. n - i : behind[j] = ls[j + i]
  <2>1. \A j \in i + 1 .. n : ls[j] \in Link BY <1>1
  <2>2. i + 1 \in Int /\ n \in Int BY <1>1
  <2> HIDE DEF n
  <2>3. /\ behind \in Seq(Link) /\ Len(behind) = IF i + 1 <= n THEN n - (i + 1) + 1 ELSE 0
        /\ \A j \in 1 .. n - (i + 1) + 1 : behind[j] = ls[(i + 1) + j - 1]
    BY <2>1, <2>2, SubSeqProperties
  <2> HIDE DEF behind
  <2>4. Len(behind) = n - i BY <1>1, <2>3
  <2>5. ASSUME NEW j \in 1 .. n - i PROVE behind[j] = ls[j + i]
    <3>1. j \in 1 .. n - (i + 1) + 1 /\ (i + 1) + j - 1 = j + i BY <1>1
    <3>2. QED BY <2>3, <3>1
  <2>6. QED BY <2>3, <2>4, <2>5
<1> HIDE DEF n, before, behind
<1>4. /\ before \o behind \in Seq(Link) /\ Len(before \o behind) = n - 1
      /\ \A j \in 1 .. n - 1 : (before \o behind)[j] = IF j <= i - 1 THEN before[j] ELSE behind[j - (i - 1)]
  <2>1. /\ before \o behind \in Seq(Link) /\ Len(before \o behind) = Len(before) + Len(behind)
        /\ \A j \in 1 .. Len(before) + Len(behind) :
               (before \o behind)[j] = IF j <= Len(before) THEN before[j] ELSE behind[j - Len(before)]
    BY <1>2, <1>3, ConcatProperties
  <2>2. Len(before) + Len(behind) = n - 1 BY <1>1, <1>2, <1>3
  <2>3. QED BY <1>2, <2>1, <2>2
<1>5. RemoveAt(ls, i) = before \o behind BY DEF RemoveAt, before, behind, n
<1>6. ASSUME NEW j \in 1 .. n - 1
      PROVE  (before \o behind)[j] = ls[IF j < i THEN j ELSE j + 1]
  <2>1. CASE j < i
    <3>1. j \in 1 .. i - 1 /\ j <= i - 1 BY <1>1, <2>1
    <3>2. QED BY <1>2, <1>4, <2>1, <3>1
  <2>2. CASE ~(j < i)
    <3>1. /\ ~(j <= i - 1) /\ j - (i - 1) \in 1 .. n - i /\ (j - (i - 1)) + i = j + 1 BY <1>1, <2>2
    <3>2. QED BY <1>3, <1>4, <2>2, <3>1
  <2>3. QED BY <2>1, <2>2
<1>7. QED BY <1>4, <1>5, <1>6 DEF n

\* A row that goes leaves the first account of everybody else, and an account to
\* its user if there was another one.
LEMMA FirstAfterRemoval ==
  ASSUME NEW ls \in Seq(Link), NEW i \in DOMAIN ls, NEW u
  PROVE  /\ ls[i].user # u => First(RemoveAt(ls, i), u) = First(ls, u)
         /\ \A j \in RowsOf(ls, u) : j # i => RowsOf(RemoveAt(ls, i), u) # {}
<1> DEFINE n == Len(ls)
           less == RemoveAt(ls, i)
           At(j) == IF j < i THEN j ELSE j - 1
<1>1. n \in Nat /\ DOMAIN ls = 1 .. n /\ i \in 1 .. n
  OBVIOUS
<1>2. /\ less \in Seq(Link) /\ DOMAIN less = 1 .. n - 1
      /\ \A j \in 1 .. n - 1 : less[j] = ls[IF j < i THEN j ELSE j + 1]
  BY Removed
<1> HIDE DEF n, less
<1>3. ASSUME NEW j \in 1 .. n, j # i
      PROVE  At(j) \in 1 .. n - 1 /\ less[At(j)] = ls[j]
  <2>1. At(j) \in 1 .. n - 1 /\ (IF At(j) < i THEN At(j) ELSE At(j) + 1) = j BY <1>1, <1>3
  <2> HIDE DEF At
  <2>2. QED BY <1>2, <2>1
<1>4. \A j \in RowsOf(ls, u) : j # i => At(j) \in RowsOf(less, u)
  <2> HIDE DEF At
  <2>1. QED BY <1>1, <1>2, <1>3 DEF RowsOf
<1>5. ASSUME ls[i].user # u PROVE First(less, u) = First(ls, u)
  <2>1. ASSUME NEW k \in RowsOf(less, u)
        PROVE  \E j \in RowsOf(ls, u) : j # i /\ At(j) = k
    <3>1. k \in 1 .. n - 1 /\ less[k].user = u BY <1>2 DEF RowsOf
    <3> DEFINE j == IF k < i THEN k ELSE k + 1
    <3>2. j \in 1 .. n /\ j # i /\ At(j) = k BY <1>1, <3>1
    <3>3. less[k] = ls[j] BY <1>2, <3>1
    <3> HIDE DEF j, At
    <3>4. j \in RowsOf(ls, u) BY <1>1, <3>1, <3>2, <3>3 DEF RowsOf
    <3>5. QED BY <3>2, <3>4
  <2>2. CASE RowsOf(ls, u) = {}
    <3>1. RowsOf(less, u) = {} BY <2>1, <2>2
    <3>2. QED BY <2>2, <3>1 DEF First
  <2>3. CASE RowsOf(ls, u) # {}
    <3>1. PICK m \in RowsOf(ls, u) : First(ls, u) = ls[m].account /\ \A j \in RowsOf(ls, u) : m <= j
      BY <2>3, SomeFirst
    <3>2. m \in 1 .. n /\ m # i BY <1>1, <1>5 DEF RowsOf
    <3>3. At(m) \in RowsOf(less, u) BY <1>4, <3>2
    <3>4. ASSUME NEW k \in RowsOf(less, u) PROVE At(m) <= k
      <4>1. PICK j \in RowsOf(ls, u) : j # i /\ At(j) = k BY <2>1
      <4>2. j \in 1 .. n /\ m <= j BY <1>1, <3>1 DEF RowsOf
      <4>3. QED BY <1>1, <3>2, <4>1, <4>2
    <3>5. First(less, u) = less[At(m)].account
      <4> HIDE DEF At
      <4>1. QED BY <1>2, <3>3, <3>4, FirstIs
    <3>6. less[At(m)] = ls[m]
      <4> HIDE DEF At
      <4>1. QED BY <1>3, <3>2
    <3>7. QED BY <3>1, <3>5, <3>6
  <2>4. QED BY <2>2, <2>3
<1>6. QED BY <1>4, <1>5 DEF less

LEMMA OwnersAre ==
  ASSUME NEW a
  PROVE  /\ \A u \in OwnersOf(a) : \E i \in DOMAIN links : links[i].account = a /\ links[i].user = u
         /\ \A i \in DOMAIN links : links[i].account = a => links[i].user \in OwnersOf(a)
  BY DEF OwnersOf

LEMMA LinkedUsers ==
  ASSUME AccountsInv, NEW a, NEW u \in OwnersOf(a)
  PROVE  a \in Account /\ u \in known /\ u \in User /\ RowsOf(links, u) # {}
<1>1. PICK i \in DOMAIN links : links[i].account = a /\ links[i].user = u BY OwnersAre
<1>2. links[i] \in Link BY <1>1 DEF AccountsInv, AccountsTyped
<1>3. u \in known BY <1>1 DEF AccountsInv, OwnersKnown
<1>4. i \in RowsOf(links, u) BY <1>1 DEF RowsOf
<1>5. QED BY <1>1, <1>2, <1>3, <1>4 DEF Link, AccountsInv, AccountsTyped

\* One more account, for a user there is or a new one.
LEMMA AccountAdded ==
  ASSUME AccountsInv, NEW u \in User, NEW a \in Account, OwnersOf(a) = {},
         links' = Append(links, [account |-> a, user |-> u]), known' = known \cup {u},
         primary' \in [User -> Account \cup {NoAccount}],
         \A v \in User \ {u} : primary'[v] = primary[v],
         u \notin outdated' => primary'[u] = IF primary[u] = NoAccount THEN a ELSE primary[u],
         outdated \subseteq outdated', outdated' \subseteq User,
         grantees' \subseteq grantees \cup {u},
         \A o \in Linker : linking'[o] = linking[o] \/ linking'[o] = Nothing,
         linking' \in [Linker -> LinkCommand]
  PROVE  AccountsInv' /\ LastAccountStays
<1> DEFINE x == [account |-> a, user |-> u]
           n == Len(links)
<1>1. x \in Link /\ x.account = a /\ x.user = u BY DEF Link
<1>2. links \in Seq(Link) BY DEF AccountsInv, AccountsTyped
<1> HIDE DEF x
<1>3. links' = Append(links, x) BY DEF x
<1>4. /\ n \in Nat /\ DOMAIN links = 1 .. n /\ links' \in Seq(Link) /\ DOMAIN links' = 1 .. n + 1
      /\ links'[n + 1] = x /\ \A i \in 1 .. n : links'[i] = links[i]
  BY <1>1, <1>2, <1>3
<1> HIDE DEF n
<1>5. \A i \in 1 .. n : links[i].account # a BY <1>4, OwnersAre
<1>6. \A i, j \in DOMAIN links' : links'[i].account = links'[j].account => i = j
  <2> SUFFICES ASSUME NEW i \in 1 .. n + 1, NEW j \in 1 .. n + 1, links'[i].account = links'[j].account
               PROVE  i = j
    BY <1>4
  <2>1. CASE i \in 1 .. n /\ j \in 1 .. n BY <1>4, <2>1 DEF AccountsInv, AccountsTyped
  <2>2. CASE i = n + 1 /\ j \in 1 .. n BY <1>1, <1>4, <1>5, <2>2
  <2>3. CASE i \in 1 .. n /\ j = n + 1 BY <1>1, <1>4, <1>5, <2>3
  <2>4. CASE i = n + 1 /\ j = n + 1 BY <2>4
  <2>5. QED BY <1>4, <2>1, <2>2, <2>3, <2>4
<1>7. AccountsTyped' BY <1>4, <1>6 DEF AccountsInv, AccountsTyped
<1>8. OwnersKnown'
  <2>1. ASSUME NEW i \in 1 .. n + 1 PROVE links'[i].user \in known'
    <3>1. CASE i = n + 1 BY <1>1, <1>4, <3>1
    <3>2. CASE i \in 1 .. n BY <1>4, <3>2 DEF AccountsInv, OwnersKnown
    <3>3. QED BY <1>4, <3>1, <3>2
  <2>2. QED BY <1>4, <2>1 DEF AccountsInv, OwnersKnown
<1>9. UnlinksAllowed' /\ GranteesKnown' BY DEF AccountsInv, UnlinksAllowed, GranteesKnown, Nothing
<1>10. ASSUME NEW v \in known' \ outdated'
       PROVE  primary'[v] = First(links', v)
  <2>1. First(links', v) = IF RowsOf(links, v) # {} THEN First(links, v)
                           ELSE IF u = v THEN a ELSE NoAccount
    BY <1>1, <1>2, <1>3, FirstAfterAppend
  <2>2. v \in User /\ NoAccount \notin Account BY MembersConstants DEF AccountsInv, AccountsTyped
  <2>3. CASE v # u
    <3>1. v \in known \ outdated /\ primary'[v] = primary[v] BY <2>2, <2>3
    <3>2. primary[v] = First(links, v) BY <3>1 DEF AccountsInv, PrimaryIsOldest
    <3>3. First(links', v) = First(links, v) BY <2>1, <2>3 DEF First
    <3>4. QED BY <3>1, <3>2, <3>3
  <2>4. CASE v = u
    <3>1. primary[u] = First(links, u)
      <4>1. CASE u \in known BY <2>4, <4>1 DEF AccountsInv, PrimaryIsOldest
      <4>2. CASE u \notin known
        <5>1. RowsOf(links, u) = {} BY <4>2 DEF AccountsInv, OwnersKnown, RowsOf
        <5>2. QED BY <4>2, <5>1 DEF AccountsInv, OwnersKnown, First
      <4>3. QED BY <4>1, <4>2
    <3>2. CASE RowsOf(links, u) # {}
      <4>1. First(links, u) \in Account BY <1>2, <3>2, SomeFirst
      <4>2. QED BY <2>1, <2>2, <2>4, <3>1, <3>2, <4>1
    <3>3. CASE RowsOf(links, u) = {}
      <4>1. primary[u] = NoAccount BY <3>1, <3>3 DEF First
      <4>2. QED BY <2>1, <2>2, <2>4, <3>3, <4>1
    <3>4. QED BY <3>2, <3>3
  <2>5. QED BY <2>3, <2>4
<1>11. PrimaryIsOldest' BY <1>10 DEF PrimaryIsOldest
<1>12. \A v : AccountsIn(links, v) # {} => AccountsIn(links', v) # {}
  BY <1>4 DEF AccountsIn, RowsOf
<1>13. QED BY <1>7, <1>8, <1>9, <1>11, <1>12 DEF AccountsInv, LastAccountStays

LEMMA UserCreated ==
  ASSUME AccountsInv, NEW u \in User, NEW a \in Account, OwnersOf(a) = {}, CreateUser(u, a),
         UNCHANGED <<linking, outdated>>, grantees' \subseteq grantees \cup {u}
  PROVE  AccountsInv' /\ LastAccountStays
<1>1. primary \in [User -> Account \cup {NoAccount}] /\ linking \in [Linker -> LinkCommand]
      /\ outdated \subseteq User
  BY DEF AccountsInv, AccountsTyped
<1>2. /\ u \notin known /\ known' = known \cup {u}
      /\ links' = Append(links, [account |-> a, user |-> u])
      /\ primary' = [primary EXCEPT ![u] = a]
  BY DEF CreateUser
<1>3. primary[u] = NoAccount BY <1>2 DEF AccountsInv, OwnersKnown
<1>4. QED BY <1>1, <1>2, <1>3, AccountAdded

LEMMA Linking ==
  ASSUME AccountsInv, NEW o \in Linker
  PROVE  /\ linking[o] \in LinkCommand /\ DOMAIN linking = Linker
         /\ linking[o].step = "link" => /\ linking[o].account \in Account /\ linking[o].user \in User
                                        /\ linking[o].primary \in Account \cup {NoAccount}
         /\ linking[o].step = "unlink" => /\ linking[o].account \in Account /\ linking[o].user \in User
                                          /\ linking[o].seen \subseteq Account
                                          /\ linking[o].granted \in BOOLEAN
         /\ linking[o].step = "grant" => linking[o].user \in User
<1>1. linking[o] \in LinkCommand /\ DOMAIN linking = Linker BY DEF AccountsInv, AccountsTyped
<1>2. QED BY <1>1 DEF LinkCommand, Nothing

LEMMA CommandEnds ==
  ASSUME AccountsInv, NEW o \in Linker, linking' = [linking EXCEPT ![o] = Nothing]
  PROVE  /\ linking' \in [Linker -> LinkCommand]
         /\ \A p \in Linker : linking'[p] = linking[p] \/ linking'[p] = Nothing
<1>1. linking \in [Linker -> LinkCommand] BY DEF AccountsInv, AccountsTyped
<1>2. Nothing \in LinkCommand BY DEF LinkCommand
<1>3. QED BY <1>1, <1>2

\* What an administrator's command may have read.
Allowed(c) ==
    /\ c.step = "unlink" => ~(c.seen = {c.account} /\ c.granted)
    /\ c.step = "grant" => c.user \in known

\* The accounts do not change, and only users there are get grants.
LEMMA OnlyCommands ==
  ASSUME AccountsInv, UNCHANGED <<links, primary, known, outdated>>, grantees' \subseteq known,
         linking' \in [Linker -> LinkCommand],
         \A o \in Linker : \/ linking'[o] = linking[o] \/ linking'[o] = Nothing
                           \/ Allowed(linking'[o])
  PROVE  AccountsInv' /\ LastAccountStays
<1>1. UnlinksAllowed' /\ GranteesKnown'
  BY DEF AccountsInv, UnlinksAllowed, GranteesKnown, Allowed, Nothing
<1>2. AccountsTyped' /\ OwnersKnown' BY DEF AccountsInv, AccountsTyped, OwnersKnown
<1>3. PrimaryIsOldest' BY DEF AccountsInv, PrimaryIsOldest
<1>4. LastAccountStays BY DEF LastAccountStays, AccountsIn, RowsOf
<1>5. QED BY <1>1, <1>2, <1>3, <1>4 DEF AccountsInv

LEMMA CommitLinkKeeps ==
  ASSUME AccountsInv, NEW o \in Linker, CommitLink(o)
  PROVE  AccountsInv' /\ LastAccountStays
<1> DEFINE u == linking[o].user
           a == linking[o].account
           read == linking[o].primary
<1>1. /\ linking[o].step = "link" /\ linking' = [linking EXCEPT ![o] = Nothing] /\ UNCHANGED grantees
      /\ \/ UNCHANGED <<links, primary, known, outdated>>
         \/ /\ OwnersOf(a) = {}
            /\ links' = Append(links, [account |-> a, user |-> u])
            /\ known' = known \cup {u}
            /\ primary' = IF read = NoAccount THEN [primary EXCEPT ![u] = a] ELSE primary
            /\ outdated' = IF primary[u] # read THEN outdated \cup {u} ELSE outdated
  BY DEF CommitLink
<1>2. u \in User /\ a \in Account /\ read \in Account \cup {NoAccount} BY <1>1, Linking
<1> HIDE DEF u, a, read
<1>3. CASE UNCHANGED <<links, primary, known, outdated>>
  BY <1>1, <1>3, CommandEnds, OnlyCommands DEF AccountsInv, AccountsTyped
<1>4. CASE /\ OwnersOf(a) = {}
           /\ links' = Append(links, [account |-> a, user |-> u])
           /\ known' = known \cup {u}
           /\ primary' = IF read = NoAccount THEN [primary EXCEPT ![u] = a] ELSE primary
           /\ outdated' = IF primary[u] # read THEN outdated \cup {u} ELSE outdated
  <2>1. primary \in [User -> Account \cup {NoAccount}] /\ outdated \subseteq User
    BY DEF AccountsInv, AccountsTyped
  <2>2. /\ primary' \in [User -> Account \cup {NoAccount}]
        /\ \A v \in User \ {u} : primary'[v] = primary[v]
        /\ primary'[u] = IF read = NoAccount THEN a ELSE primary[u]
    BY <1>2, <1>4, <2>1
  <2>3. /\ outdated \subseteq outdated' /\ outdated' \subseteq User
        /\ u \notin outdated' => read = primary[u]
    BY <1>2, <1>4, <2>1
  <2>4. QED BY <1>1, <1>2, <1>4, <2>2, <2>3, CommandEnds, AccountAdded
<1>5. QED BY <1>1, <1>3, <1>4

LEMMA CommitUnlinkKeeps ==
  ASSUME AccountsInv, NEW o \in Linker, CommitUnlink(o)
  PROVE  AccountsInv' /\ LastAccountStays
<1> DEFINE u == linking[o].user
           a == linking[o].account
           seen == linking[o].seen
           granted == linking[o].granted
<1>1. /\ linking[o].step = "unlink" /\ linking' = [linking EXCEPT ![o] = Nothing]
      /\ UNCHANGED <<known, grantees>>
      /\ \/ UNCHANGED <<links, primary, outdated>>
         \/ \E i \in DOMAIN links :
                /\ links[i] = [account |-> a, user |-> u] /\ links' = RemoveAt(links, i)
                /\ primary' = [primary EXCEPT ![u] = First(links', u)]
                /\ outdated' = IF seen # AccountsIn(links, u) \/ granted # (u \in grantees)
                               THEN outdated \cup {u} ELSE outdated
  BY DEF CommitUnlink
<1>2. /\ u \in User /\ a \in Account /\ seen \subseteq Account /\ granted \in BOOLEAN
      /\ ~(seen = {a} /\ granted)
  BY <1>1, Linking DEF AccountsInv, UnlinksAllowed
<1> HIDE DEF u, a, seen, granted
<1>3. CASE UNCHANGED <<links, primary, outdated>>
  BY <1>1, <1>3, CommandEnds, OnlyCommands DEF AccountsInv, AccountsTyped
<1>4. CASE \E i \in DOMAIN links :
                /\ links[i] = [account |-> a, user |-> u] /\ links' = RemoveAt(links, i)
                /\ primary' = [primary EXCEPT ![u] = First(links', u)]
                /\ outdated' = IF seen # AccountsIn(links, u) \/ granted # (u \in grantees)
                               THEN outdated \cup {u} ELSE outdated
  <2>1. PICK i \in DOMAIN links :
                /\ links[i].account = a /\ links[i].user = u /\ links' = RemoveAt(links, i)
                /\ primary' = [primary EXCEPT ![u] = First(links', u)]
                /\ outdated' = IF seen # AccountsIn(links, u) \/ granted # (u \in grantees)
                               THEN outdated \cup {u} ELSE outdated
    BY <1>4
  <2>2. /\ links \in Seq(Link) /\ primary \in [User -> Account \cup {NoAccount}]
        /\ known \subseteq User /\ grantees \subseteq known /\ outdated \subseteq User
        /\ \A j, k \in DOMAIN links : links[j].account = links[k].account => j = k
    BY DEF AccountsInv, AccountsTyped
  <2> DEFINE n == Len(links)
  <2>3. n \in Nat /\ DOMAIN links = 1 .. n BY <2>2
  <2>4. /\ links' \in Seq(Link) /\ DOMAIN links' = 1 .. n - 1
        /\ \A j \in 1 .. n - 1 : links'[j] = links[IF j < i THEN j ELSE j + 1]
    BY <2>1, <2>2, Removed
  <2> HIDE DEF n
  <2>5. \A j \in 1 .. n - 1 : (IF j < i THEN j ELSE j + 1) \in 1 .. n BY <2>3
  <2>6. \A j, k \in DOMAIN links' : links'[j].account = links'[k].account => j = k
    <3> SUFFICES ASSUME NEW j \in 1 .. n - 1, NEW k \in 1 .. n - 1, links'[j].account = links'[k].account
                 PROVE  j = k
      BY <2>4
    <3>1. PICK p \in 1 .. n : p = IF j < i THEN j ELSE j + 1 BY <2>5
    <3>2. PICK q \in 1 .. n : q = IF k < i THEN k ELSE k + 1 BY <2>5
    <3>3. links'[j] = links[p] /\ links'[k] = links[q] BY <2>4, <3>1, <3>2
    <3>4. p = q BY <2>2, <2>3, <3>3
    <3>5. QED BY <2>3, <3>1, <3>2, <3>4
  <2>7. First(links', u) \in Account \cup {NoAccount} BY <2>4, SomeFirst DEF First
  <2>8. /\ primary' \in [User -> Account \cup {NoAccount}] /\ primary'[u] = First(links', u)
        /\ \A v \in User \ {u} : primary'[v] = primary[v]
    BY <1>2, <2>1, <2>2, <2>7
  <2>9. AccountsTyped' BY <1>1, <1>2, <2>1, <2>2, <2>4, <2>6, <2>8, CommandEnds DEF AccountsTyped
  <2>10. OwnersKnown'
    <3>1. \A j \in 1 .. n - 1 : links'[j].user \in known
      BY <2>3, <2>4, <2>5 DEF AccountsInv, OwnersKnown
    <3>2. u \in known BY <2>1 DEF AccountsInv, OwnersKnown
    <3>3. QED BY <1>1, <2>4, <2>8, <3>1, <3>2 DEF AccountsInv, OwnersKnown
  <2>11. UnlinksAllowed' /\ GranteesKnown'
    BY <1>1, CommandEnds DEF AccountsInv, UnlinksAllowed, GranteesKnown, Nothing
  <2>12. ASSUME NEW v \in known \ outdated'
         PROVE  primary'[v] = First(links', v)
    <3>1. v \in User /\ v \notin outdated BY <2>1, <2>2
    <3>2. primary[v] = First(links, v) BY <3>1 DEF AccountsInv, PrimaryIsOldest
    <3>3. CASE v # u
      <4>1. First(links', v) = First(links, v) BY <2>1, <2>2, <3>3, FirstAfterRemoval
      <4>2. QED BY <2>8, <3>1, <3>2, <3>3, <4>1
    <3>4. CASE v = u BY <2>8, <3>4
    <3>5. QED BY <3>3, <3>4
  <2>13. PrimaryIsOldest' BY <1>1, <2>12 DEF PrimaryIsOldest
  <2>14. ASSUME NEW v \in grantees \ outdated', AccountsIn(links, v) # {}
         PROVE  AccountsIn(links', v) # {}
    <3>1. \E j \in RowsOf(links, v) : j # i
      <4>1. CASE v # u BY <2>1, <2>14, <4>1 DEF AccountsIn, RowsOf
      <4>2. CASE v = u
        <5>1. seen = AccountsIn(links, u) /\ granted = TRUE BY <1>2, <2>1, <2>14, <4>2
        <5>2. AccountsIn(links, u) # {a} BY <1>2, <5>1
        <5>3. i \in RowsOf(links, u) BY <2>1 DEF RowsOf
        <5>4. PICK j \in RowsOf(links, u) : links[j].account # a BY <2>1, <5>2, <5>3 DEF AccountsIn
        <5>5. QED BY <2>1, <4>2, <5>4
      <4>3. QED BY <4>1, <4>2
    <3>2. RowsOf(links', v) # {} BY <2>1, <2>2, <3>1, FirstAfterRemoval
    <3>3. QED BY <3>2 DEF AccountsIn
  <2>15. QED BY <2>9, <2>10, <2>11, <2>13, <2>14 DEF AccountsInv, LastAccountStays
<1>5. QED BY <1>1, <1>3, <1>4

\* A command reads what it is about to do and refuses what is not allowed.
LEMMA CommandBegins ==
  ASSUME AccountsInv, UNCHANGED <<links, primary, known, grantees, outdated>>, NEW o \in Linker,
         NEW c \in LinkCommand, linking' = [linking EXCEPT ![o] = c], Allowed(c)
  PROVE  AccountsInv' /\ LastAccountStays
<1>1. /\ linking' \in [Linker -> LinkCommand] /\ linking'[o] = c
      /\ \A p \in Linker \ {o} : linking'[p] = linking[p]
  BY DEF AccountsInv, AccountsTyped
<1>2. grantees' \subseteq known BY DEF AccountsInv, AccountsTyped
<1>3. \A p \in Linker : linking'[p] = linking[p] \/ Allowed(linking'[p]) BY <1>1
<1>4. QED BY <1>1, <1>2, <1>3, OnlyCommands

LEMMA CommandsBegin ==
  ASSUME AccountsInv, NEW o \in Linker, NEW a \in Account,
         BeginUnlink(o, a) \/ \E u \in User : BeginLink(o, a, u)
  PROVE  AccountsInv' /\ LastAccountStays
<1>1. UNCHANGED <<links, primary, known, grantees, outdated>> BY DEF BeginUnlink, BeginLink
<1>2. ASSUME NEW u \in User, BeginLink(o, a, u) PROVE AccountsInv' /\ LastAccountStays
  <2> DEFINE c == [step |-> "link", account |-> a, user |-> u, new |-> u \notin known, primary |-> primary[u]]
  <2>1. primary[u] \in Account \cup {NoAccount} BY DEF AccountsInv, AccountsTyped
  <2>2. c \in LinkCommand /\ Allowed(c) BY <2>1 DEF LinkCommand, Allowed
  <2>3. linking' = [linking EXCEPT ![o] = c] BY <1>2 DEF BeginLink
  <2> HIDE DEF c
  <2>4. QED BY <1>1, <2>2, <2>3, CommandBegins
<1>3. ASSUME BeginUnlink(o, a) PROVE AccountsInv' /\ LastAccountStays
  <2>1. PICK u \in OwnersOf(a) :
            /\ ~(AccountsIn(links, u) = {a} /\ u \in grantees)
            /\ linking' = [linking EXCEPT ![o] = [step |-> "unlink", account |-> a, user |-> u,
                                                  seen |-> AccountsIn(links, u), granted |-> u \in grantees]]
    BY <1>3 DEF BeginUnlink
  <2> DEFINE c == [step |-> "unlink", account |-> a, user |-> u,
                   seen |-> AccountsIn(links, u), granted |-> u \in grantees]
  <2>2. u \in User BY LinkedUsers
  <2>3. AccountsIn(links, u) \subseteq Account
    BY RowsAreIndices DEF AccountsInv, AccountsTyped, AccountsIn
  <2>4. /\ c \in LinkCommand /\ c.step = "unlink"
        /\ c.seen = AccountsIn(links, u) /\ c.account = a /\ c.granted = (u \in grantees)
    BY <2>2, <2>3 DEF LinkCommand
  <2>5. linking' = [linking EXCEPT ![o] = c] BY <2>1
  <2> HIDE DEF c
  <2>6. Allowed(c) BY <2>1, <2>4 DEF Allowed
  <2>7. QED BY <1>1, <2>4, <2>5, <2>6, CommandBegins
<1>4. QED BY <1>2, <1>3

LEMMA GranteeRead ==
  ASSUME AccountsInv, NEW o \in Linker, NEW u \in User, ReadGrantee(o, u)
  PROVE  AccountsInv' /\ LastAccountStays
<1> DEFINE c == [step |-> "grant", user |-> u]
<1>1. u \in known /\ linking' = [linking EXCEPT ![o] = c] BY DEF ReadGrantee
<1>2. c \in LinkCommand /\ Allowed(c) BY <1>1 DEF LinkCommand, Allowed
<1>3. UNCHANGED <<links, primary, known, grantees, outdated>> BY DEF ReadGrantee
<1> HIDE DEF c
<1>4. QED BY <1>1, <1>2, <1>3, CommandBegins

LEMMA AccountsStay ==
  ASSUME AccountsInv, UNCHANGED accounts
  PROVE  AccountsInv' /\ LastAccountStays
<1>1. UNCHANGED <<links, primary, known, grantees, linking, outdated>> BY DEF accounts
<1>2. linking' \in [Linker -> LinkCommand] /\ grantees' \subseteq known
  BY <1>1 DEF AccountsInv, AccountsTyped
<1>3. QED BY <1>1, <1>2, OnlyCommands

\* Grants come and go, and the accounts stay.
LEMMA GrantsKeep ==
  ASSUME AccountsInv,
         (\E o \in Linker : IssueGrant(o)) \/ (\E u \in User : EndGrants(u))
  PROVE  AccountsInv' /\ LastAccountStays
<1>1. UNCHANGED <<links, primary, known, outdated>> BY DEF IssueGrant, EndGrants
<1>2. ASSUME NEW o \in Linker, IssueGrant(o) PROVE AccountsInv' /\ LastAccountStays
  <2>1. /\ linking[o].step = "grant" /\ linking' = [linking EXCEPT ![o] = Nothing]
        /\ grantees' = grantees \cup {linking[o].user}
    BY <1>2 DEF IssueGrant
  <2>2. grantees' \subseteq known BY <2>1 DEF AccountsInv, AccountsTyped, GranteesKnown
  <2>3. QED BY <1>1, <2>1, <2>2, CommandEnds, OnlyCommands
<1>3. ASSUME NEW u \in User, EndGrants(u) PROVE AccountsInv' /\ LastAccountStays
  <2>1. grantees' \subseteq known /\ UNCHANGED linking BY <1>3 DEF EndGrants, AccountsInv, AccountsTyped
  <2>2. linking' \in [Linker -> LinkCommand] BY <2>1 DEF AccountsInv, AccountsTyped
  <2>3. QED BY <1>1, <2>1, <2>2, OnlyCommands
<1>4. QED BY <1>2, <1>3

LEMMA ResyncKeeps ==
  ASSUME AccountsInv, NEW a \in Account, ResyncMember(a)
  PROVE  AccountsInv' /\ LastAccountStays
<1>1. UNCHANGED <<linking, outdated, grantees>> /\ OwnersOf(a) = {} /\ \E u \in User : CreateUser(u, a)
  BY DEF ResyncMember
<1>2. QED BY <1>1, UserCreated

LEMMA RootsKeep ==
  ASSUME AccountsInv, NEW a \in Account, ReconcileGlobalAdmin(a)
  PROVE  AccountsInv' /\ LastAccountStays
<1>1. UNCHANGED <<linking, outdated, grantees>> BY DEF ReconcileGlobalAdmin
<1>2. CASE \E u \in OwnersOf(a) : UNCHANGED <<links, primary, known>>
  BY <1>1, <1>2, AccountsStay DEF accounts
<1>3. CASE OwnersOf(a) = {} /\ \E u \in User : CreateUser(u, a) BY <1>1, <1>3, UserCreated
<1>4. QED BY <1>2, <1>3 DEF ReconcileGlobalAdmin

LEMMA LoadActorKeepsAccounts ==
  ASSUME AccountsInv, CommandsHaveAccounts, LoadActor
  PROVE  AccountsInv' /\ LastAccountStays
<1>1. deciding["command"].account \in Account BY DEF CommandsHaveAccounts, LoadActor
<1>2. UNCHANGED <<linking, outdated, grantees>> BY DEF LoadActor
<1>3. CASE UNCHANGED <<links, primary, known>> BY <1>2, <1>3, AccountsStay DEF accounts
<1>4. CASE /\ OwnersOf(deciding["command"].account) = {}
           /\ \E u \in User : CreateUser(u, deciding["command"].account)
  BY <1>1, <1>2, <1>4, UserCreated
<1>5. QED BY <1>3, <1>4 DEF LoadActor

LEMMA AccountsNext ==
  ASSUME AccountsInv, CommandsHaveAccounts, [MembersNext]_memberVars
  PROVE  AccountsInv' /\ LastAccountStays
<1>1. CASE \/ AccessSweep \/ ReadTierOfChange \/ WriteAccess("command") \/ WriteAccess("handler")
           \/ ToggleMainGuild
           \/ \E t \in Tier : CreateTier(t) \/ DeleteTier(t)
           \/ \E r \in TierRole, rule \in Tier \cup {ByLevel, NoRule} : SetAccessRule(r, rule)
           \/ \E a \in Account : \/ StartCommand(a)
                                 \/ \E r \in TierRole : HandleTierEvent(a, r) \/ TierRoleMoves(a, r)
           \/ UNCHANGED memberVars
  <2>1. UNCHANGED accounts
    BY <1>1 DEF AccessSweep, BeginAccessSweep, SweepReadsUsers, WriteAccess, ReadTierOfChange,
                ToggleMainGuild, CreateTier, DeleteTier, SetAccessRule, StartCommand, HandleTierEvent, TierRoleMoves,
                memberVars,
                accounts
  <2>2. QED BY <2>1, AccountsStay
<1>2. CASE LoadActor BY <1>2, LoadActorKeepsAccounts
<1>3. CASE \E a \in Account : ReconcileGlobalAdmin(a) \/ ResyncMember(a)
  BY <1>3, RootsKeep, ResyncKeeps
<1>4. CASE \E o \in Linker : \/ CommitLink(o) \/ CommitUnlink(o)
                             \/ \E a \in Account : BeginUnlink(o, a) \/ \E u \in User : BeginLink(o, a, u)
  BY <1>4, CommitLinkKeeps, CommitUnlinkKeeps, CommandsBegin
<1>5. CASE \E o \in Linker, u \in User : ReadGrantee(o, u) BY <1>5, GranteeRead
<1>6. CASE (\E o \in Linker : IssueGrant(o)) \/ (\E u \in User : EndGrants(u)) BY <1>6, GrantsKeep
<1>7. QED BY <1>1, <1>2, <1>3, <1>4, <1>5, <1>6 DEF MembersNext

-----------------------------------------------------------------------------

LEMMA ReadingsAre ==
  ASSUME AccessInv, NEW r \in Recomputer
  PROVE  /\ deciding[r] \in AccessReading
         /\ deciding[r].step = "access" => /\ deciding[r].account \in Account /\ deciding[r].user \in User
                                           /\ deciding[r].had \in BOOLEAN /\ deciding[r].byTier \in BOOLEAN
         /\ deciding[r].step = "rows" => deciding[r].holders \subseteq Account
         /\ deciding[r].step = "write" => deciding[r].todo \subseteq Decision
<1>1. deciding[r] \in AccessReading BY DEF AccessInv, AccessTyped
<1>2. QED BY <1>1 DEF AccessReading, Nothing

\* What is known of what r has read of some users.
Proper(r, c, users) ==
    /\ c \in AccessReading
    /\ c.step = "access" => c.user \in users
    /\ c.step = "write" => \A d \in c.todo : d.user \in users
    /\ r = "command" /\ c.step = "rows" => c.account \in Account

AccessIsTyped ==
    /\ access \subseteq known /\ fromTier \subseteq known
    /\ tiers \subseteq Tier /\ accessRules \in [TierRole -> Tier \cup {NoRule, ByLevel}]
    /\ mainEnabled \in BOOLEAN
    /\ tierHolders \in [TierRole -> SUBSET Account] /\ tierEvents \subseteq Account \X TierRole

LEMMA AccessParts ==
  AccessInv <=> /\ AccessIsTyped /\ deciding \in [Recomputer -> AccessReading]
                /\ \A r \in Recomputer : Proper(r, deciding[r], known)
  BY DEF AccessInv, AccessTyped, AccessIsTyped, ReadersKnow, CommandsHaveAccounts, Proper, Recomputer

LEMMA ProperStays ==
  ASSUME NEW r, NEW c, NEW fewer, NEW more, Proper(r, c, fewer), fewer \subseteq more
  PROVE  Proper(r, c, more)
  BY DEF Proper

LEMMA ReadingGoesOn ==
  ASSUME AccessInv, AccessIsTyped', known \subseteq known', NEW r \in Recomputer, NEW c,
         deciding' = [deciding EXCEPT ![r] = c], Proper(r, c, known')
  PROVE  AccessInv'
<1>1. deciding \in [Recomputer -> AccessReading] /\ \A x \in Recomputer : Proper(x, deciding[x], known)
  BY AccessParts
<1>2. c \in AccessReading BY DEF Proper
<1>3. /\ deciding' \in [Recomputer -> AccessReading] /\ deciding'[r] = c
      /\ \A x \in Recomputer \ {r} : deciding'[x] = deciding[x]
  BY <1>1, <1>2
<1>4. ASSUME NEW x \in Recomputer PROVE Proper(x, deciding'[x], known')
  BY <1>1, <1>3, ProperStays
<1>5. QED BY <1>3, <1>4 DEF AccessInv, AccessTyped, AccessIsTyped, ReadersKnow, CommandsHaveAccounts, Proper,
                            Recomputer

LEMMA ReadingsStay ==
  ASSUME AccessInv, AccessIsTyped', known \subseteq known', UNCHANGED deciding
  PROVE  AccessInv'
<1>1. deciding \in [Recomputer -> AccessReading] /\ \A x \in Recomputer : Proper(x, deciding[x], known)
  BY AccessParts
<1>2. \A x \in Recomputer : Proper(x, deciding[x], known') BY <1>1, ProperStays
<1>3. QED BY <1>1, <1>2 DEF AccessInv, AccessTyped, AccessIsTyped, ReadersKnow, CommandsHaveAccounts, Proper,
                            Recomputer

\* What a reading of a user's row is.
LEMMA RowIsRead ==
  ASSUME NEW u \in User, NEW should \in BOOLEAN
  PROVE  RowOf(u, should) \in Decision /\ RowOf(u, should).user = u
  BY DEF RowOf, Decision

LEMMA NothingIsProper == \A r, users : Proper(r, Nothing, users)
  BY DEF Proper, Nothing, AccessReading

LEMMA WritesAreProper ==
  ASSUME NEW r, NEW users, NEW todo \in SUBSET Decision, \A d \in todo : d.user \in users
  PROVE  Proper(r, [step |-> "write", todo |-> todo], users)
<1> DEFINE c == [step |-> "write", todo |-> todo]
<1>1. c \in AccessReading /\ c.step = "write" /\ c.todo = todo BY DEF AccessReading
<1> HIDE DEF c
<1>2. Proper(r, c, users) BY <1>1 DEF Proper
<1>3. QED BY <1>2 DEF c

\* Rules, tiers, roles and events do not disturb what is read.
LEMMA EditsKeepAccess ==
  ASSUME AccessInv, AccountsInv,
         \/ ToggleMainGuild
         \/ \E t \in Tier : CreateTier(t) \/ DeleteTier(t)
         \/ \E r \in TierRole, rule \in Tier \cup {ByLevel, NoRule} : SetAccessRule(r, rule)
         \/ \E a \in Account, r \in TierRole : TierRoleMoves(a, r)
         \/ \E o \in Linker : \/ CommitLink(o) \/ CommitUnlink(o)
                              \/ \E a \in Account : BeginUnlink(o, a) \/ \E u \in User : BeginLink(o, a, u)
         \/ \E o \in Linker : IssueGrant(o) \/ \E u \in User : ReadGrantee(o, u)
         \/ \E u \in User : EndGrants(u)
         \/ \E a \in Account : ReconcileGlobalAdmin(a) \/ ResyncMember(a)
         \/ UNCHANGED memberVars
  PROVE  AccessInv'
<1>1. UNCHANGED deciding
  BY DEF ToggleMainGuild, CreateTier, DeleteTier, SetAccessRule, TierRoleMoves, CommitLink, CommitUnlink,
         BeginUnlink, BeginLink, ReconcileGlobalAdmin, ResyncMember, ReadGrantee, IssueGrant, EndGrants,
         MemberEdit, memberVars
<1> USE DEF AccessInv, AccessTyped
<1>2. CASE ToggleMainGuild
  <2>1. AccessIsTyped' /\ known \subseteq known'
    BY <1>2 DEF AccessIsTyped, ToggleMainGuild, accounts, discord
  <2>2. QED BY <1>1, <2>1, ReadingsStay
<1>3. CASE \E t \in Tier : CreateTier(t) \/ DeleteTier(t)
  <2>1. AccessIsTyped' /\ known \subseteq known'
    BY <1>3 DEF AccessIsTyped, CreateTier, DeleteTier, accounts, discord
  <2>2. QED BY <1>1, <2>1, ReadingsStay
<1>4. CASE \E r \in TierRole, rule \in Tier \cup {ByLevel, NoRule} : SetAccessRule(r, rule)
  <2>1. AccessIsTyped' /\ known \subseteq known'
    BY <1>4 DEF AccessIsTyped, SetAccessRule, accounts, discord
  <2>2. QED BY <1>1, <2>1, ReadingsStay
<1>5. CASE \E a \in Account, r \in TierRole : TierRoleMoves(a, r)
  <2>1. PICK a \in Account, r \in TierRole : TierRoleMoves(a, r) BY <1>5
  <2>2. /\ tierHolders' = [tierHolders EXCEPT ![r] = IF a \in @ THEN @ \ {a} ELSE @ \cup {a}]
        /\ tierEvents' \subseteq tierEvents \cup {<<a, r>>}
        /\ UNCHANGED <<known, access, fromTier, tiers, accessRules, mainEnabled>>
    BY <2>1 DEF TierRoleMoves, accounts, mapped
  <2>3. AccessIsTyped' /\ known \subseteq known' BY <2>2 DEF AccessIsTyped
  <2>4. QED BY <1>1, <2>3, ReadingsStay
<1>6. CASE \E o \in Linker : \/ CommitLink(o) \/ CommitUnlink(o)
                             \/ \E a \in Account : BeginUnlink(o, a) \/ \E u \in User : BeginLink(o, a, u)
  <2>1. UNCHANGED <<access, fromTier, mapped, discord>> /\ known \subseteq known'
    BY <1>6 DEF CommitLink, CommitUnlink, BeginUnlink, BeginLink
  <2>2. AccessIsTyped' BY <2>1 DEF AccessIsTyped, mapped, discord
  <2>3. QED BY <1>1, <2>1, <2>2, ReadingsStay
<1>7. CASE \E a \in Account : ReconcileGlobalAdmin(a) \/ ResyncMember(a)
  <2>1. UNCHANGED <<fromTier, mapped, discord>> /\ known \subseteq known' /\ access' \subseteq known'
    BY <1>7, LinkedUsers DEF ReconcileGlobalAdmin, ResyncMember, CreateUser
  <2>2. AccessIsTyped' BY <2>1 DEF AccessIsTyped, mapped, discord
  <2>3. QED BY <1>1, <2>1, <2>2, ReadingsStay
<1>8. CASE UNCHANGED memberVars
  <2>1. AccessIsTyped' /\ known \subseteq known' BY <1>8 DEF memberVars, AccessIsTyped
  <2>2. QED BY <1>1, <2>1, ReadingsStay
<1>9. CASE \/ \E o \in Linker : IssueGrant(o) \/ \E u \in User : ReadGrantee(o, u)
           \/ \E u \in User : EndGrants(u)
  <2>1. UNCHANGED <<access, fromTier, mapped, discord, known>>
    BY <1>9 DEF IssueGrant, ReadGrantee, EndGrants
  <2>2. AccessIsTyped' BY <2>1 DEF AccessIsTyped, mapped, discord
  <2>3. QED BY <1>1, <2>1, <2>2, ReadingsStay
<1>10. QED BY <1>2, <1>3, <1>4, <1>5, <1>6, <1>7, <1>8, <1>9

LEMMA StartCommandKeeps ==
  ASSUME AccessInv, AccountsInv, NEW a \in Account, StartCommand(a)
  PROVE  AccessInv'
<1>1. PICK should \in BOOLEAN :
          deciding' = [deciding EXCEPT !["command"] =
                           [step |-> "rows", holders |-> IF should THEN {a} ELSE {}, account |-> a]]
  BY DEF StartCommand
<1> DEFINE c == [step |-> "rows", holders |-> IF should THEN {a} ELSE {}, account |-> a]
<1>2. c \in AccessReading /\ c.step = "rows" /\ c.account = a BY DEF AccessReading
<1> HIDE DEF c
<1>3. Proper("command", c, known) BY <1>2 DEF Proper
<1>4. AccessIsTyped' /\ UNCHANGED known
  BY DEF StartCommand, AccessInv, AccessTyped, AccessIsTyped, accounts, mapped, discord
<1>5. QED BY <1>1, <1>3, <1>4, ReadingGoesOn DEF Recomputer, c

LEMMA LoadActorKeepsAccess ==
  ASSUME AccessInv, AccountsInv, LoadActor
  PROVE  AccessInv'
<1> DEFINE c == deciding["command"]
           should == c.account \in c.holders
<1>1. UNCHANGED <<access, fromTier, mapped, discord>> /\ known \subseteq known' /\ known' \subseteq User
  BY DEF LoadActor, CreateUser, AccountsInv, AccountsTyped
<1>2. AccessIsTyped' BY <1>1 DEF AccessInv, AccessTyped, AccessIsTyped, mapped, discord
<1>3. \/ deciding' = [deciding EXCEPT !["command"] = Nothing]
      \/ \E u \in known', has \in BOOLEAN :
             deciding' = [deciding EXCEPT !["command"] = [step |-> "write", todo |-> {RowOf(u, has)}]]
  <2>1. \A u \in OwnersOf(c.account) : u \in known BY LinkedUsers
  <2>2. should \in BOOLEAN OBVIOUS
  <2> HIDE DEF should
  <2>3. \/ \E u \in OwnersOf(c.account) :
               deciding' = [deciding EXCEPT !["command"] = [step |-> "write", todo |-> {RowOf(u, should)}]]
        \/ \E u \in User :
               /\ CreateUser(u, c.account)
               /\ deciding' = [deciding EXCEPT !["command"] = [step |-> "write", todo |-> {RowOf(u, TRUE)}]]
        \/ deciding' = [deciding EXCEPT !["command"] = Nothing]
    BY DEF LoadActor, should
  <2>4. QED BY <1>1, <2>1, <2>2, <2>3 DEF CreateUser
<1>4. CASE deciding' = [deciding EXCEPT !["command"] = Nothing]
  BY <1>1, <1>2, <1>4, NothingIsProper, ReadingGoesOn DEF Recomputer
<1>5. CASE \E u \in known', has \in BOOLEAN :
               deciding' = [deciding EXCEPT !["command"] = [step |-> "write", todo |-> {RowOf(u, has)}]]
  <2>1. PICK u \in known', has \in BOOLEAN :
            deciding' = [deciding EXCEPT !["command"] = [step |-> "write", todo |-> {RowOf(u, has)}]]
    BY <1>5
  <2>2. RowOf(u, has) \in Decision /\ RowOf(u, has).user = u BY <1>1, RowIsRead
  <2>3. {RowOf(u, has)} \subseteq Decision /\ \A d \in {RowOf(u, has)} : d.user \in known' BY <2>2
  <2>4. Proper("command", [step |-> "write", todo |-> {RowOf(u, has)}], known') BY <2>3, WritesAreProper
  <2>5. QED BY <1>1, <1>2, <2>1, <2>4, ReadingGoesOn DEF Recomputer
<1>6. QED BY <1>3, <1>4, <1>5

LEMMA HandleTierEventKeeps ==
  ASSUME AccessInv, AccountsInv, NEW a \in Account, NEW r \in TierRole, HandleTierEvent(a, r)
  PROVE  AccessInv'
<1>1. AccessIsTyped' /\ UNCHANGED known
  BY DEF HandleTierEvent, AccessInv, AccessTyped, AccessIsTyped, accounts, mapped
<1>2. CASE deciding' = [deciding EXCEPT !["handler"] = Nothing]
  BY <1>1, <1>2, NothingIsProper, ReadingGoesOn DEF Recomputer
<1>3. CASE OwnersOf(a) # {} /\ ~(deciding' = [deciding EXCEPT !["handler"] = Nothing])
  <2> DEFINE u == CHOOSE v \in OwnersOf(a) : TRUE
             c == [step |-> "access", account |-> a, user |-> u, had |-> u \in access,
                   byTier |-> u \in fromTier]
  <2>1. u \in OwnersOf(a) BY <1>3
  <2>2. u \in known /\ u \in User BY <2>1, LinkedUsers
  <2>3. deciding' = [deciding EXCEPT !["handler"] = c] BY <1>3 DEF HandleTierEvent
  <2> HIDE DEF u
  <2>4. c \in AccessReading /\ c.step = "access" /\ c.user = u BY <2>2 DEF AccessReading
  <2> HIDE DEF c
  <2>5. Proper("handler", c, known) BY <2>2, <2>4 DEF Proper
  <2>6. QED BY <1>1, <2>3, <2>5, ReadingGoesOn DEF Recomputer
<1>4. QED BY <1>2, <1>3 DEF HandleTierEvent

LEMMA ReadTierOfChangeKeeps ==
  ASSUME AccessInv, AccountsInv, ReadTierOfChange
  PROVE  AccessInv'
<1> DEFINE h == deciding["handler"]
<1>1. AccessIsTyped' /\ UNCHANGED known
  BY DEF ReadTierOfChange, AccessInv, AccessTyped, AccessIsTyped, accounts, mapped, discord
<1>2. h.step = "access" BY DEF ReadTierOfChange
<1>3. PICK should \in BOOLEAN :
          deciding' = [deciding EXCEPT !["handler"] = [step |-> "write", todo |->
                           {[user |-> h.user, had |-> h.had, byTier |-> h.byTier, should |-> should]}]]
  BY DEF ReadTierOfChange
<1>4. "handler" \in Recomputer BY DEF Recomputer
<1>5. /\ h.user \in User /\ h.user \in known /\ h.had \in BOOLEAN /\ h.byTier \in BOOLEAN
  BY <1>2, <1>4, ReadingsAre DEF AccessInv, ReadersKnow
<1> DEFINE d == [user |-> h.user, had |-> h.had, byTier |-> h.byTier, should |-> should]
<1>6. d \in Decision /\ d.user \in known BY <1>5 DEF Decision
<1> HIDE DEF h, d
<1>7. Proper("handler", [step |-> "write", todo |-> {d}], known) BY <1>6, WritesAreProper
<1>8. deciding' = [deciding EXCEPT !["handler"] = [step |-> "write", todo |-> {d}]] BY <1>3 DEF d
<1>9. QED BY <1>1, <1>4, <1>7, <1>8, ReadingGoesOn

LEMMA SweepReadsKeeps ==
  ASSUME AccessInv, AccountsInv, BeginAccessSweep \/ SweepReadsUsers
  PROVE  AccessInv'
<1>1. AccessIsTyped' /\ UNCHANGED known
  BY DEF BeginAccessSweep, SweepReadsUsers, AccessInv, AccessTyped, AccessIsTyped, accounts, mapped, discord
<1>2. "sweep" \in Recomputer BY DEF Recomputer
<1>3. CASE BeginAccessSweep
  <2>1. PICK holders \in SUBSET Account :
            deciding' = [deciding EXCEPT !["sweep"] = [step |-> "rows", holders |-> holders]]
    BY <1>3 DEF BeginAccessSweep
  <2> DEFINE c == [step |-> "rows", holders |-> holders]
  <2>2. c \in AccessReading /\ c.step = "rows" BY DEF AccessReading
  <2> HIDE DEF c
  <2>3. Proper("sweep", c, known) BY <2>2 DEF Proper
  <2>4. QED BY <1>1, <1>2, <2>1, <2>3, ReadingGoesOn DEF c
<1>4. CASE SweepReadsUsers
  <2> DEFINE todo == {RowOf(u, primary[u] \in deciding["sweep"].holders) : u \in known}
  <2>1. deciding' = [deciding EXCEPT !["sweep"] =
                         IF todo = {} THEN Nothing ELSE [step |-> "write", todo |-> todo]]
    BY <1>4 DEF SweepReadsUsers
  <2>2. ASSUME NEW u \in known
        PROVE  LET d == RowOf(u, primary[u] \in deciding["sweep"].holders)
               IN  d \in Decision /\ d.user \in known
    <3>1. u \in User /\ (primary[u] \in deciding["sweep"].holders) \in BOOLEAN
      BY DEF AccountsInv, AccountsTyped
    <3>2. QED BY <3>1, RowIsRead
  <2>3. \A d \in todo : d \in Decision /\ d.user \in known BY <2>2
  <2> HIDE DEF todo
  <2>4. /\ Proper("sweep", Nothing, known)
        /\ Proper("sweep", [step |-> "write", todo |-> todo], known)
    BY <2>3, NothingIsProper, WritesAreProper
  <2>5. QED BY <1>1, <1>2, <2>1, <2>4, ReadingGoesOn
<1>5. QED BY <1>3, <1>4

LEMMA WriteAccessKeeps ==
  ASSUME AccessInv, AccountsInv, NEW x \in Recomputer, WriteAccess(x)
  PROVE  AccessInv'
<1>1. PICK d \in deciding[x].todo : deciding' = [deciding EXCEPT ![x] = After(d, x)] /\ SyncWebsiteAccess(d)
  BY DEF WriteAccess
<1>2. deciding[x].step = "write" /\ UNCHANGED <<accounts, mapped, discord>> BY DEF WriteAccess
<1>3. /\ deciding[x].todo \subseteq Decision /\ \A e \in deciding[x].todo : e.user \in known
  BY <1>2, ReadingsAre DEF AccessInv, ReadersKnow
<1>4. access' \subseteq known /\ fromTier' \subseteq known
  BY <1>1, <1>3 DEF SyncWebsiteAccess, AccessInv, AccessTyped
<1>5. AccessIsTyped' /\ UNCHANGED known
  BY <1>2, <1>4 DEF AccessInv, AccessTyped, AccessIsTyped, accounts, mapped, discord
<1>6. Proper(x, After(d, x), known)
  <2>1. /\ Proper(x, Nothing, known)
        /\ Proper(x, [step |-> "write", todo |-> deciding[x].todo \ {d}], known)
    BY <1>3, NothingIsProper, WritesAreProper
  <2>2. QED BY <2>1 DEF After
<1>7. QED BY <1>1, <1>5, <1>6, ReadingGoesOn

LEMMA AccessNext ==
  ASSUME AccessInv, AccountsInv, [MembersNext]_memberVars
  PROVE  AccessInv'
<1>1. CASE \/ ToggleMainGuild
           \/ \E t \in Tier : CreateTier(t) \/ DeleteTier(t)
           \/ \E r \in TierRole, rule \in Tier \cup {ByLevel, NoRule} : SetAccessRule(r, rule)
           \/ \E a \in Account, r \in TierRole : TierRoleMoves(a, r)
           \/ \E o \in Linker : \/ CommitLink(o) \/ CommitUnlink(o)
                                \/ \E a \in Account : BeginUnlink(o, a) \/ \E u \in User : BeginLink(o, a, u)
           \/ \E o \in Linker : IssueGrant(o) \/ \E u \in User : ReadGrantee(o, u)
           \/ \E u \in User : EndGrants(u)
           \/ \E a \in Account : ReconcileGlobalAdmin(a) \/ ResyncMember(a)
           \/ UNCHANGED memberVars
  BY <1>1, EditsKeepAccess
<1>2. CASE \E a \in Account : StartCommand(a) BY <1>2, StartCommandKeeps
<1>3. CASE LoadActor BY <1>3, LoadActorKeepsAccess
<1>4. CASE \E a \in Account : \E r \in TierRole : HandleTierEvent(a, r) BY <1>4, HandleTierEventKeeps
<1>5. CASE ReadTierOfChange BY <1>5, ReadTierOfChangeKeeps
<1>6. CASE BeginAccessSweep \/ SweepReadsUsers BY <1>6, SweepReadsKeeps
<1>7. CASE WriteAccess("command") \/ WriteAccess("handler") \/ WriteAccess("sweep")
  BY <1>7, WriteAccessKeeps DEF Recomputer
<1>8. QED BY <1>1, <1>2, <1>3, <1>4, <1>5, <1>6, <1>7 DEF MembersNext, AccessSweep

LEMMA BoundsNext ==
  ASSUME BoundsTyped, [MembersNext]_memberVars
  PROVE  BoundsTyped'
<1>1. CASE \/ AccessSweep \/ LoadActor \/ ReadTierOfChange \/ WriteAccess("command") \/ WriteAccess("handler")
           \/ \E o \in Linker : CommitLink(o) \/ CommitUnlink(o) \/ IssueGrant(o)
           \/ \E a \in Account, r \in TierRole : HandleTierEvent(a, r)
           \/ UNCHANGED memberVars
  <2>1. UNCHANGED <<memberEdits, accessCommands>>
    BY <1>1 DEF AccessSweep, BeginAccessSweep, SweepReadsUsers, WriteAccess, LoadActor, ReadTierOfChange,
                CommitLink, CommitUnlink, IssueGrant, HandleTierEvent, memberVars
  <2>2. UNCHANGED roleMoves
    BY <1>1 DEF AccessSweep, BeginAccessSweep, SweepReadsUsers, WriteAccess, LoadActor, ReadTierOfChange,
                CommitLink, CommitUnlink, IssueGrant, HandleTierEvent, memberVars, discord
  <2>3. QED BY <2>1, <2>2 DEF BoundsTyped
<1>2. CASE \E a \in Account : StartCommand(a)
  <2>1. accessCommands > 0 /\ accessCommands' = accessCommands - 1 /\ UNCHANGED <<memberEdits, roleMoves>>
    BY <1>2 DEF StartCommand, discord
  <2>2. QED BY <2>1, MembersConstants DEF BoundsTyped
<1>3. CASE \E a \in Account, r \in TierRole : TierRoleMoves(a, r)
  <2>1. roleMoves > 0 /\ roleMoves' = roleMoves - 1 /\ UNCHANGED <<memberEdits, accessCommands>>
    BY <1>3 DEF TierRoleMoves
  <2>2. QED BY <2>1, MembersConstants DEF BoundsTyped
<1>4. CASE \/ ToggleMainGuild
           \/ \E t \in Tier : CreateTier(t) \/ DeleteTier(t)
           \/ \E r \in TierRole, rule \in Tier \cup {ByLevel, NoRule} : SetAccessRule(r, rule)
           \/ \E a \in Account : ReconcileGlobalAdmin(a) \/ ResyncMember(a)
           \/ \E u \in User : EndGrants(u) \/ \E o \in Linker : ReadGrantee(o, u)
           \/ \E o \in Linker : \E a \in Account : BeginUnlink(o, a) \/ \E u \in User : BeginLink(o, a, u)
  <2>1. MemberEdit /\ UNCHANGED discord
    BY <1>4 DEF ToggleMainGuild, CreateTier, DeleteTier, SetAccessRule, BeginUnlink, BeginLink,
                ReconcileGlobalAdmin, ResyncMember, EndGrants, ReadGrantee
  <2>2. memberEdits > 0 /\ memberEdits' = memberEdits - 1 /\ UNCHANGED <<roleMoves, accessCommands>>
    BY <2>1 DEF MemberEdit, discord
  <2>3. QED BY <2>2, MembersConstants DEF BoundsTyped
<1>5. QED BY <1>1, <1>2, <1>3, <1>4 DEF MembersNext

LEMMA MembersNextKeeps ==
  MembersInv /\ [MembersNext]_memberVars => MembersInv'
  BY AccountsNext, AccessNext, BoundsNext DEF MembersInv, AccessInv

LEMMA MembersInitInv == MembersInit => MembersInv
<1> SUFFICES ASSUME MembersInit PROVE MembersInv
  OBVIOUS
<1>1. /\ links \in Seq(Link) /\ NoAccount \notin Account
      /\ \A i, j \in DOMAIN links : links[i].account = links[j].account => i = j
  BY MembersConstants DEF MembersInit
<1>2. /\ known = {links[i].user : i \in DOMAIN links} /\ known \subseteq User
      /\ primary = [u \in User |-> First(links, u)]
  <2>1. known = {links[i].user : i \in DOMAIN links} /\ primary = [u \in User |-> First(links, u)]
    BY DEF MembersInit
  <2>2. \A i \in DOMAIN links : links[i] \in Link BY <1>1
  <2>3. \A i \in DOMAIN links : links[i].user \in User BY <2>2 DEF Link
  <2>4. QED BY <2>1, <2>3
<1>3. AccountsInv
  <2>1. \A u \in User : First(links, u) \in Account \cup {NoAccount} BY <1>1, SomeFirst DEF First
  <2>2. grantees = {} /\ outdated = {} /\ linking = [o \in Linker |-> Nothing] BY DEF MembersInit
  <2>3. linking \in [Linker -> LinkCommand] BY <2>2 DEF LinkCommand
  <2>4. AccountsTyped BY <1>1, <1>2, <2>1, <2>2, <2>3 DEF AccountsTyped
  <2>5. OwnersKnown
    <3>1. \A u \in User \ known : RowsOf(links, u) = {} BY <1>2 DEF RowsOf
    <3>2. QED BY <1>2, <3>1 DEF OwnersKnown, First
  <2>6. UnlinksAllowed /\ GranteesKnown BY <2>2 DEF UnlinksAllowed, GranteesKnown, Nothing
  <2>7. PrimaryIsOldest BY <1>2, <2>2 DEF PrimaryIsOldest
  <2>8. QED BY <2>4, <2>5, <2>6, <2>7 DEF AccountsInv
<1>4. AccessInv
  <2>1. deciding = [r \in Recomputer |-> Nothing] BY DEF MembersInit
  <2>2. \A r \in Recomputer : deciding[r].step = "none" BY <2>1 DEF Nothing
  <2>3. "command" \in Recomputer BY DEF Recomputer
  <2>4. deciding \in [Recomputer -> AccessReading] BY <2>1 DEF AccessReading
  <2>5. AccessTyped BY <2>4 DEF AccessTyped, MembersInit
  <2>6. QED BY <2>2, <2>3, <2>5 DEF AccessInv, ReadersKnow, CommandsHaveAccounts
<1>5. BoundsTyped BY MembersConstants DEF BoundsTyped, MembersInit
<1>6. QED BY <1>3, <1>4, <1>5 DEF MembersInv

LEMMA MembersAreTyped == MembersInv => MembersTypeOK
  BY DEF MembersInv, AccountsInv, AccountsTyped, AccessInv, AccessTyped, BoundsTyped, MembersTypeOK

-----------------------------------------------------------------------------
\* Rosters.

Agenda == UNION {[places -> RosterChange] : places \in SUBSET Nat}

Execution ==
    [step : {"plan", "apply"}, scope : RosterMember \cup {Whole}, ranks : SUBSET Rank, todo : Agenda,
     applied : BOOLEAN, failed : BOOLEAN, unread : BOOLEAN]

RosterTyped ==
    /\ rosterHeld \in [RosterMember -> SUBSET RankRole]
    /\ rosterHere \subseteq RosterMember
    /\ prefix \in [RosterMember -> Shown]
    /\ deletedRoles \subseteq RankRole
    /\ open \in BOOLEAN /\ bound \subseteq Rank
    /\ rows \in [RosterMember -> Row]
    /\ rosterQueue \subseteq RosterMember \cup {Whole}
    /\ rosterJob \in {Idle(s) : s \in JobStatus} \cup Execution
    /\ editing \in [Editor -> [member : RosterMember, callsign : CallsignsByHand \cup {NoCallsign}]
                              \cup {NoEdit}]
    /\ rosterEdits \in 0 .. MaxRosterEdits
    /\ steady \subseteq RosterMember

\* Whom a job is about to take off has not kept a rank that the job knows.
RemovalsAreDue ==
    rosterJob.step = "apply" =>
        \A i \in DOMAIN rosterJob.todo :
            rosterJob.todo[i].type = "REMOVE" => rosterJob.todo[i].member \notin steady \/ rosterJob.unread

\* Who has a callsign checked for him has a row.
EditsHaveRows == \A e \in Editor : editing[e] # NoEdit => rows[editing[e].member] # NoRow

RosterInv == RosterTyped /\ RemovalsAreDue /\ EditsHaveRows

\* Among finitely many things there is a highest one.
LEMMA HighestOf ==
  ASSUME NEW S, IsFiniteSet(S), S # {}, NEW height \in [S -> Nat]
  PROVE  \E r \in S : \A s \in S : height[s] <= height[r]
<1>1. PICK n \in Nat : ExistsBijection(1 .. n, S) BY FS_NatBijection
<1>2. PICK f \in [1 .. n -> S] : \A s \in S : \E i \in 1 .. n : f[i] = s
  BY <1>1 DEF ExistsBijection, Bijection, Surjection
<1>3. n >= 1 BY <1>2
<1> DEFINE Tops(k) == \E i \in 1 .. k : \A j \in 1 .. k : height[f[j]] <= height[f[i]]
           odd == {k \in 1 .. n : ~Tops(k)}
<1>4. odd = {}
  <2>1. SUFFICES ASSUME odd # {} PROVE FALSE OBVIOUS
  <2> DEFINE k == Min(odd)
  <2>2. odd \in SUBSET Nat BY <1>1
  <2> HIDE DEF odd
  <2>3. k \in odd /\ \A j \in odd : k <= j BY <2>1, <2>2, Least
  <2> HIDE DEF k
  <2>4. k \in 1 .. n /\ ~Tops(k) BY <2>3 DEF odd
  <2> HIDE DEF Tops
  <2>5. k # 1
    <3>1. Tops(1)
      <4>1. f[1] \in S BY <1>2, <1>3
      <4>2. height[f[1]] \in Nat BY <4>1
      <4>3. QED BY <4>2 DEF Tops
    <3>2. QED BY <2>4, <3>1
  <2>6. Tops(k - 1)
    <3>1. k - 1 \in 1 .. n /\ k - 1 \notin odd
      <4>1. k \in Int /\ k - 1 \in Int /\ ~(k <= k - 1) BY <2>4
      <4>2. QED BY <2>3, <2>4, <2>5, <4>1
    <3>2. QED BY <3>1 DEF odd
  <2>7. PICK i \in 1 .. k - 1 : \A j \in 1 .. k - 1 : height[f[j]] <= height[f[i]] BY <2>6 DEF Tops
  <2>8. i \in 1 .. k /\ k \in 1 .. k /\ i \in 1 .. n /\ k \in 1 .. n
        /\ \A j \in 1 .. k : j \in 1 .. k - 1 \/ j = k
    BY <2>4, <2>7
  <2>9. f[i] \in S /\ f[k] \in S BY <1>2, <2>8
  <2>10. height[f[i]] \in Nat /\ height[f[k]] \in Nat BY <2>9
  <2>11. CASE height[f[k]] <= height[f[i]]
    <3>1. \A j \in 1 .. k : height[f[j]] <= height[f[i]] BY <2>7, <2>8, <2>11
    <3>2. QED BY <2>4, <2>8, <3>1 DEF Tops
  <2>12. CASE height[f[i]] <= height[f[k]]
    <3>1. ASSUME NEW j \in 1 .. k PROVE height[f[j]] <= height[f[k]]
      <4>1. CASE j = k BY <2>10, <4>1
      <4>2. CASE j \in 1 .. k - 1
        <5>1. f[j] \in S BY <1>2, <2>4, <4>2
        <5>2. height[f[j]] \in Nat /\ height[f[j]] <= height[f[i]] BY <2>7, <4>2, <5>1
        <5>3. QED BY <2>10, <2>12, <5>2
      <4>3. QED BY <2>8, <4>1, <4>2
    <3>2. QED BY <2>4, <2>8, <3>1 DEF Tops
  <2>13. QED BY <2>10, <2>11, <2>12
<1>5. Tops(n)
  <2>1. n \in 1 .. n BY <1>1, <1>3
  <2> HIDE DEF Tops
  <2>2. QED BY <1>4, <2>1
<1>6. QED BY <1>2, <1>5

LEMMA HighestRank ==
  ASSUME NEW some \in SUBSET Rank, some # {}
  PROVE  \E r \in some : \A other \in some : Position[other] <= Position[r]
<1> DEFINE height == [r \in some |-> Position[r]]
<1>1. height \in [some -> Nat] BY RosterConstants
<1>2. IsFiniteSet(some) BY FS_Subset, RosterConstants
<1> HIDE DEF height
<1>3. \E r \in some : \A other \in some : height[other] <= height[r] BY <1>1, <1>2, HighestOf
<1>4. QED BY <1>3 DEF height

LEMMA RankIsResolved ==
  ASSUME NEW ranks \in SUBSET Rank, NEW roles
  PROVE  /\ ResolveRank(ranks, roles) \in ranks \cup {NoRank}
         /\ ResolveRank(ranks, roles) = NoRank <=>
                {r \in ranks : RoleOf[r] \in roles /\ Gate[r] \subseteq roles} = {}
<1> DEFINE fitting == {r \in ranks : RoleOf[r] \in roles /\ Gate[r] \subseteq roles}
<1>1. CASE fitting = {} BY <1>1 DEF ResolveRank
<1>2. CASE fitting # {}
  <2>1. \E r \in fitting : \A other \in fitting : Position[other] <= Position[r] BY <1>2, HighestRank
  <2>2. ResolveRank(ranks, roles) =
          CHOOSE r \in fitting : \A other \in fitting : Position[other] <= Position[r]
    BY <1>2 DEF ResolveRank
  <2> HIDE DEF fitting
  <2>3. ResolveRank(ranks, roles) \in fitting BY <2>1, <2>2
  <2>4. QED BY <1>2, <2>3, RosterConstants DEF fitting
<1>3. QED BY <1>1, <1>2

\* Who has a rank of some ranks has one of more ranks.
LEMMA MoreRanks ==
  ASSUME NEW ranks \in SUBSET Rank, NEW fewer \in SUBSET ranks, NEW roles,
         ResolveRank(fewer, roles) # NoRank
  PROVE  ResolveRank(ranks, roles) # NoRank
  BY RankIsResolved

LEMMA CallsignIsTyped ==
  ASSUME NEW rank \in Rank \cup {NoRank}, NEW current \in Callsigns, NEW taken
  PROVE  CallsignFor(rank, current, taken) \in Callsigns
<1>1. FullBlock \in Callsigns BY DEF Callsigns
<1>2. ASSUME rank \in Rank, Block[rank] \ taken # {} PROVE Min(Block[rank] \ taken) \in Callsigns
  <2>1. Block[rank] \ taken \in SUBSET Nat BY <1>2, RosterConstants
  <2>2. Min(Block[rank] \ taken) \in Block[rank] BY <1>2, <2>1, Least
  <2>3. QED BY <1>2, <2>2 DEF Callsigns
<1>3. QED BY <1>1, <1>2 DEF CallsignFor

LEMMA RowIsTyped ==
  ASSUME RosterTyped, NEW m \in RosterMember
  PROVE  /\ rows[m] \in Row /\ rows[m].status \in {"ACTIVE", "DEPARTED", "none"}
         /\ rows[m].rank \in Rank \cup {NoRank} /\ rows[m].callsign \in Callsigns
         /\ DOMAIN rows = RosterMember
<1>1. rows[m] \in Row /\ DOMAIN rows = RosterMember BY DEF RosterTyped
<1>2. NoCallsign \in Callsigns BY DEF Callsigns
<1>3. QED BY <1>1, <1>2 DEF Row, NoRow

LEMMA ChangeIsTyped ==
  ASSUME RosterTyped, NEW m \in RosterMember, NEW ranks \in SUBSET Rank, NEW present,
         NEW callsign \in Callsigns
  PROVE  LET change == PlanMemberChange(m, ranks, present, callsign)
         IN  /\ change \in RosterChange /\ change.member = m
             /\ change.type = "REMOVE" => RankNow(m, ranks, present) = NoRank
<1> DEFINE rank == RankNow(m, ranks, present)
           built == [rank |-> rank, callsign |-> IF rank = NoRank THEN NoCallsign ELSE callsign]
<1>1. rank \in Rank \cup {NoRank} BY RankIsResolved DEF RankNow
<1>2. built \in Shown BY <1>1 DEF Shown, Callsigns
<1>3. rows[m].callsign \in Callsigns BY RowIsTyped
<1> HIDE DEF rank, built
<1>4. PlanMemberChange(m, ranks, present, callsign).prefix \in Shown \cup {Untouched}
  BY <1>2 DEF PlanMemberChange, built, rank
<1>5. QED BY <1>1, <1>2, <1>4 DEF PlanMemberChange, RosterChange, built, rank

LEMMA OrderIsTyped ==
  ASSUME NEW present \in SUBSET RosterMember, NEW order \in ReadOrders(present)
  PROVE  order \in Seq(RosterMember)
<1>1. PICK some \in SUBSET RosterMember : order \in SetToSeqs(some)
  <2> DEFINE withRow == {m \in RosterMember : rows[m] # NoRow}
  <2>1. present \cup withRow \in SUBSET RosterMember OBVIOUS
  <2>2. order \in SetToSeqs(present \cup withRow) BY DEF ReadOrders
  <2>3. QED BY <2>1, <2>2
<1>2. Cardinality(some) \in Nat BY FS_CardinalityType, FS_Subset, RosterConstants
<1>3. order \in [1 .. Cardinality(some) -> RosterMember] BY <1>1 DEF SetToSeqs
<1>4. QED BY <1>2, <1>3

\* A plan takes off whom it read without a rank.
LEMMA PlanIsTyped ==
  ASSUME RosterTyped, NEW order \in Seq(RosterMember), NEW ranks \in SUBSET Rank, NEW present,
         NEW given \in [DOMAIN order -> Callsigns]
  PROVE  LET todo == PlanRosterChanges(order, ranks, present, given)
         IN  /\ todo \in Agenda
             /\ \A i \in DOMAIN todo :
                    todo[i].type = "REMOVE" => RankNow(todo[i].member, ranks, present) = NoRank
<1> DEFINE change(i) == PlanMemberChange(order[i], ranks, present, given[i])
           places == {j \in DOMAIN order : Actionable(change(j))}
<1>1. ASSUME NEW i \in DOMAIN order
      PROVE  /\ change(i) \in RosterChange
             /\ change(i).type = "REMOVE" => RankNow(change(i).member, ranks, present) = NoRank
  <2>1. order[i] \in RosterMember /\ given[i] \in Callsigns OBVIOUS
  <2>2. QED BY <2>1, ChangeIsTyped
<1>2. places \in SUBSET Nat /\ places \subseteq DOMAIN order OBVIOUS
<1>3. PlanRosterChanges(order, ranks, present, given) = [i \in places |-> change(i)]
  BY DEF PlanRosterChanges
<1> HIDE DEF change, places
<1>4. [i \in places |-> change(i)] \in [places -> RosterChange] BY <1>1, <1>2
<1>5. [i \in places |-> change(i)] \in Agenda BY <1>2, <1>4 DEF Agenda
<1>6. QED BY <1>1, <1>2, <1>3, <1>5

LEMMA LessToDo ==
  ASSUME NEW todo \in Agenda, NEW next
  PROVE  LET rest == Restrict(todo, DOMAIN todo \ {next})
         IN  /\ rest \in Agenda /\ DOMAIN rest \subseteq DOMAIN todo
             /\ \A i \in DOMAIN rest : rest[i] = todo[i]
<1>1. PICK places \in SUBSET Nat : todo \in [places -> RosterChange] BY DEF Agenda
<1> DEFINE left == DOMAIN todo \ {next}
<1>2. left \in SUBSET Nat /\ left \subseteq places BY <1>1
<1>3. Restrict(todo, left) = [i \in left |-> todo[i]] BY DEF Restrict
<1> HIDE DEF left
<1>4. [i \in left |-> todo[i]] \in [left -> RosterChange] BY <1>1, <1>2
<1>5. [i \in left |-> todo[i]] \in Agenda BY <1>2, <1>4 DEF Agenda
<1>6. QED BY <1>2, <1>3, <1>5 DEF left

LEMMA NextIsTyped ==
  ASSUME NEW todo \in Agenda, DOMAIN todo # {}
  PROVE  Min(DOMAIN todo) \in DOMAIN todo /\ todo[Min(DOMAIN todo)] \in RosterChange
<1>1. PICK places \in SUBSET Nat : todo \in [places -> RosterChange] BY DEF Agenda
<1>2. DOMAIN todo = places BY <1>1
<1>3. Min(places) \in places BY <1>2, Least
<1>4. QED BY <1>1, <1>2, <1>3

LEMMA JobIsTyped ==
  ASSUME RosterTyped
  PROVE  /\ rosterJob.step # "idle" => rosterJob \in Execution
         /\ \A s : Idle(s).step = "idle"
  BY DEF RosterTyped, Idle

-----------------------------------------------------------------------------
\* The steps.

LEMMA SteadyTyped ==
  ASSUME RosterTyped, Passes
  PROVE  steady' \subseteq RosterMember /\ (rosterJob'.step # "idle" => steady' \subseteq steady)
  BY DEF RosterTyped, Passes

LEMMA StatusIsTyped ==
  /\ "COMPLETED" \in JobStatus /\ "PAUSED" \in JobStatus
  /\ "PARTIAL" \in JobStatus /\ "FAILED" \in JobStatus
  BY DEF JobStatus

LEMMA TakeKeeps ==
  ASSUME RosterInv, TakeAnyRosterJob
  PROVE  RosterInv' /\ PlacesKept
<1>1. PICK scope \in RosterMember \cup {Whole} : TakeRosterJob(scope) BY DEF TakeAnyRosterJob
<1> USE DEF RosterInv
<1>2. rosterJob' \in {Idle(s) : s \in JobStatus} \cup Execution
  <2>1. CASE open /\ bound # {}
    <3>1. <<>> \in Agenda
      <4>1. <<>> \in [{} -> RosterChange] /\ {} \in SUBSET Nat OBVIOUS
      <4>2. QED BY <4>1 DEF Agenda
    <3>2. rosterJob' = [step |-> "plan", scope |-> scope, ranks |-> bound, todo |-> <<>>,
                        applied |-> FALSE, failed |-> FALSE, unread |-> FALSE]
      BY <1>1, <2>1 DEF TakeRosterJob
    <3>3. bound \in SUBSET Rank BY DEF RosterTyped
    <3> DEFINE nothing == <<>>
    <3> HIDE DEF nothing
    <3>4. nothing \in Agenda BY <3>1 DEF nothing
    <3>5. rosterJob' \in Execution BY <3>2, <3>3, <3>4 DEF Execution, nothing
    <3>6. QED BY <3>5
  <2>2. CASE ~(open /\ bound # {}) BY <1>1, <2>2, StatusIsTyped DEF TakeRosterJob, EndJob
  <2>3. QED BY <2>1, <2>2
<1>3. RosterTyped' BY <1>1, <1>2 DEF TakeRosterJob, RosterTyped, discordRoster
<1>4. RemovalsAreDue' BY <1>1 DEF TakeRosterJob, RemovalsAreDue, EndJob, Idle
<1>5. EditsHaveRows' BY <1>1 DEF TakeRosterJob, EditsHaveRows
<1>6. PlacesKept BY <1>1 DEF TakeRosterJob, PlacesKept
<1>7. QED BY <1>3, <1>4, <1>5, <1>6

LEMMA UsePlanKeeps ==
  ASSUME RosterInv, rosterJob.step = "plan", Passes,
         UNCHANGED <<discordRoster, prefix, open, bound, rows, rosterQueue, editing, rosterEdits>>,
         NEW todo, DOMAIN todo = {} \/ todo \in Agenda, NEW unread \in BOOLEAN, UsePlan(todo, unread),
         NEW present, unread \/ present = rosterHere,
         \A i \in DOMAIN todo :
             todo[i].type = "REMOVE" => RankNow(todo[i].member, rosterJob.ranks, present) = NoRank
  PROVE  RosterInv'
<1> USE DEF RosterInv
<1>1. rosterJob \in Execution BY JobIsTyped
<1>2. CASE \E s \in JobStatus : rosterJob' = Idle(s)
  <2>1. RosterTyped' BY <1>2, SteadyTyped DEF RosterTyped, discordRoster
  <2>2. RemovalsAreDue' BY <1>2 DEF RemovalsAreDue, Idle
  <2>3. EditsHaveRows' BY DEF EditsHaveRows
  <2>4. QED BY <2>1, <2>2, <2>3
<1>3. CASE /\ todo \in Agenda
           /\ rosterJob' = [rosterJob EXCEPT !.step = "apply", !.todo = todo, !.unread = unread]
  <2>1. rosterJob' \in Execution BY <1>1, <1>3 DEF Execution
  <2>2. /\ rosterJob'.step = "apply" /\ rosterJob'.todo = todo /\ rosterJob'.unread = unread
        /\ rosterJob'.ranks = rosterJob.ranks
    BY <1>1, <1>3 DEF Execution
  <2>3. RosterTyped' BY <2>1, SteadyTyped DEF RosterTyped, discordRoster
  <2>4. ASSUME NEW i \in DOMAIN todo, todo[i].type = "REMOVE", ~unread
        PROVE  todo[i].member \notin steady'
    <3>1. SUFFICES ASSUME NEW m, m = todo[i].member, m \in steady' PROVE FALSE OBVIOUS
    <3>2. /\ m \in rosterHere
          /\ ResolveRank(rosterJob.ranks \cap bound, rosterHeld[m]) # NoRank
      BY <2>2, <3>1 DEF Passes, discordRoster
    <3>3. ResolveRank(rosterJob.ranks, rosterHeld[m]) # NoRank
      <4>1. rosterJob.ranks \in SUBSET Rank BY <1>1 DEF Execution
      <4>2. QED BY <3>2, <4>1, MoreRanks
    <3>4. QED BY <2>4, <3>1, <3>2, <3>3 DEF RankNow
  <2>5. RemovalsAreDue' BY <2>2, <2>4 DEF RemovalsAreDue
  <2>6. EditsHaveRows' BY DEF EditsHaveRows
  <2>7. QED BY <2>3, <2>5, <2>6
<1>4. QED BY <1>2, <1>3, StatusIsTyped DEF UsePlan, EndJob

LEMMA PlanKeeps ==
  ASSUME RosterInv, PlanRoster, Passes
  PROVE  RosterInv' /\ PlacesKept
<1> USE DEF RosterInv
<1>1. PlacesKept BY DEF PlanRoster, PlacesKept
<1>2. /\ rosterJob \in Execution /\ rosterJob.step = "plan"
      /\ UNCHANGED <<discordRoster, prefix, open, bound, rows, rosterQueue, editing, rosterEdits>>
  BY JobIsTyped DEF PlanRoster
<1>3. rosterJob.ranks \in SUBSET Rank /\ rosterJob.scope \in RosterMember \cup {Whole}
  BY <1>2 DEF Execution
<1>4. CASE rosterJob.scope # Whole
  <2> DEFINE m == rosterJob.scope
             callsign(present) ==
                 CallsignFor(RankNow(m, rosterJob.ranks, present), rows[m].callsign, WornByOthers(m))
             plan(present) ==
                 IF m \in present \/ rows[m] # NoRow
                 THEN PlanRosterChanges(<<m>>, rosterJob.ranks, present, <<callsign(present)>>)
                 ELSE <<>>
  <2>1. m \in RosterMember BY <1>3, <1>4
  <2>2. ASSUME NEW present
        PROVE  /\ DOMAIN plan(present) = {} \/ plan(present) \in Agenda
               /\ \A i \in DOMAIN plan(present) : plan(present)[i].type = "REMOVE" =>
                      RankNow(plan(present)[i].member, rosterJob.ranks, present) = NoRank
    <3>1. RankNow(m, rosterJob.ranks, present) \in Rank \cup {NoRank}
      BY <1>3, RankIsResolved DEF RankNow
    <3>2. callsign(present) \in Callsigns BY <2>1, <3>1, CallsignIsTyped, RowIsTyped
    <3> HIDE DEF m, callsign
    <3>3. <<m>> \in Seq(RosterMember) /\ <<callsign(present)>> \in [DOMAIN <<m>> -> Callsigns]
      BY <2>1, <3>2
    <3>4. CASE m \in present \/ rows[m] # NoRow
      BY <1>3, <3>3, <3>4, PlanIsTyped
    <3>5. CASE ~(m \in present \/ rows[m] # NoRow) BY <3>5
    <3>6. QED BY <3>4, <3>5
  <2>3. UsePlan(plan(rosterHere), FALSE) \/ UsePlan(plan({}), TRUE)
    BY <1>4 DEF PlanRoster, PlanOne
  <2> HIDE DEF plan
  <2>4. CASE UsePlan(plan(rosterHere), FALSE)
    <3>1. PICK todo : todo = plan(rosterHere) OBVIOUS
    <3>2. /\ UsePlan(todo, FALSE)
          /\ DOMAIN todo = {} \/ todo \in Agenda
          /\ \A i \in DOMAIN todo : todo[i].type = "REMOVE" =>
                 RankNow(todo[i].member, rosterJob.ranks, rosterHere) = NoRank
      BY <2>2, <2>4, <3>1
    <3>3. QED BY <1>1, <1>2, <3>2, UsePlanKeeps
  <2>5. CASE UsePlan(plan({}), TRUE)
    <3>1. PICK todo : todo = plan({}) OBVIOUS
    <3>2. /\ UsePlan(todo, TRUE)
          /\ DOMAIN todo = {} \/ todo \in Agenda
          /\ \A i \in DOMAIN todo : todo[i].type = "REMOVE" =>
                 RankNow(todo[i].member, rosterJob.ranks, {}) = NoRank
      BY <2>2, <2>5, <3>1
    <3>3. QED BY <1>1, <1>2, <3>2, UsePlanKeeps
  <2>6. QED BY <1>1, <2>3, <2>4, <2>5
<1>5. CASE PlanMembers(rosterHere)
  <2>1. PICK order \in ReadOrders(rosterHere) :
          \E given \in Allocations(order, rosterJob.ranks, rosterHere) :
              UsePlan(PlanRosterChanges(order, rosterJob.ranks, rosterHere, given), FALSE)
    BY <1>5 DEF PlanMembers
  <2>2. PICK given \in Allocations(order, rosterJob.ranks, rosterHere) :
          UsePlan(PlanRosterChanges(order, rosterJob.ranks, rosterHere, given), FALSE)
    BY <2>1
  <2>3. order \in Seq(RosterMember)
    <3>1. rosterHere \in SUBSET RosterMember BY DEF RosterTyped
    <3>2. QED BY <3>1, OrderIsTyped
  <2>4. given \in [DOMAIN order -> Callsigns] BY DEF Allocations
  <2> DEFINE todo == PlanRosterChanges(order, rosterJob.ranks, rosterHere, given)
  <2>5. /\ todo \in Agenda
        /\ \A i \in DOMAIN todo : todo[i].type = "REMOVE" =>
               RankNow(todo[i].member, rosterJob.ranks, rosterHere) = NoRank
    BY <1>3, <2>3, <2>4, PlanIsTyped
  <2>6. UsePlan(todo, FALSE) BY <2>2
  <2> HIDE DEF todo
  <2>7. QED BY <1>1, <1>2, <2>5, <2>6, UsePlanKeeps
<1>6. CASE EndJob("COMPLETED")
  <2>1. \E s \in JobStatus : rosterJob' = Idle(s) BY <1>6, StatusIsTyped DEF EndJob
  <2>2. RosterTyped' BY <1>2, <2>1, SteadyTyped DEF RosterTyped, discordRoster
  <2>3. RemovalsAreDue' BY <2>1 DEF RemovalsAreDue, Idle
  <2>4. EditsHaveRows' BY <1>2 DEF EditsHaveRows
  <2>5. QED BY <1>1, <2>2, <2>3, <2>4
<1>7. QED BY <1>4, <1>5, <1>6 DEF PlanRoster, PlanAll

LEMMA EditIsTyped ==
  ASSUME RosterTyped, NEW e \in Editor, editing[e] # NoEdit
  PROVE  editing[e].member \in RosterMember
<1>1. editing[e] \in [member : RosterMember, callsign : CallsignsByHand \cup {NoCallsign}]
  BY DEF RosterTyped
<1>2. QED BY <1>1

\* A change makes a row what its member's row may be.
LEMMA PersistIsTyped ==
  ASSUME RosterTyped, NEW change \in RosterChange, PersistChange(change)
  PROVE  /\ rows' \in [RosterMember -> Row]
         /\ \A m \in RosterMember : rows[m] # NoRow => rows'[m] # NoRow
         /\ \A m \in RosterMember :
                rows[m].status = "ACTIVE" /\ rows'[m].status = "DEPARTED" =>
                    m = change.member /\ change.type = "REMOVE"
<1>1. /\ change.member \in RosterMember /\ change.rank \in Rank \cup {NoRank}
      /\ change.callsign \in Callsigns
  BY DEF RosterChange
<1> DEFINE m == change.member
           row == rows[m]
           new == IF change.type = "REMOVE" THEN [row EXCEPT !.status = "DEPARTED", !.rank = NoRank]
                  ELSE [status |-> "ACTIVE", rank |-> change.rank,
                        callsign |-> IF change.reissued THEN change.callsign ELSE row.callsign]
<1>2. rows' = [rows EXCEPT ![m] = new] BY DEF PersistChange
<1>3. row \in Row /\ row.callsign \in Callsigns /\ rows \in [RosterMember -> Row]
  BY <1>1, RowIsTyped DEF RosterTyped
<1>4. new \in Row /\ new # NoRow /\ (new.status = "DEPARTED" => change.type = "REMOVE")
  <2>1. CASE change.type = "REMOVE"
    <3>1. new = [status |-> "DEPARTED", rank |-> NoRank, callsign |-> row.callsign]
      BY <1>3, <2>1 DEF Row, NoRow
    <3>2. QED BY <1>3, <2>1, <3>1 DEF Row, NoRow
  <2>2. CASE change.type # "REMOVE" BY <1>1, <1>3, <2>2 DEF Row, NoRow
  <2>3. QED BY <2>1, <2>2
<1> HIDE DEF new, row
<1>5. /\ rows' \in [RosterMember -> Row]
      /\ \A o \in RosterMember : rows'[o] = IF o = m THEN new ELSE rows[o]
  BY <1>1, <1>2, <1>3, <1>4
<1>6. \A o \in RosterMember : ~(rows[o].status = "ACTIVE" /\ rows[o].status = "DEPARTED")
  OBVIOUS
<1>7. QED BY <1>4, <1>5, <1>6

LEMMA ApplyKeeps ==
  ASSUME RosterInv, ApplyChange, Passes
  PROVE  RosterInv' /\ PlacesKept
<1> USE DEF RosterInv
<1>1. rosterJob \in Execution /\ rosterJob.step = "apply" /\ DOMAIN rosterJob.todo # {}
  BY JobIsTyped DEF ApplyChange
<1> DEFINE next == Min(DOMAIN rosterJob.todo)
           change == rosterJob.todo[next]
           less == Restrict(rosterJob.todo, DOMAIN rosterJob.todo \ {next})
           rest == [rosterJob EXCEPT !.todo = Restrict(@, DOMAIN @ \ {next})]
<1>2. rosterJob.todo \in Agenda BY <1>1 DEF Execution
<1>3. next \in DOMAIN rosterJob.todo /\ change \in RosterChange BY <1>1, <1>2, NextIsTyped
<1>4. /\ less \in Agenda /\ DOMAIN less \subseteq DOMAIN rosterJob.todo
      /\ \A i \in DOMAIN less : less[i] = rosterJob.todo[i]
  BY <1>2, LessToDo
<1>5. rest = [rosterJob EXCEPT !.todo = less] BY <1>1 DEF Execution
<1>6. /\ UNCHANGED <<discordRoster, open, bound, rosterQueue, editing, rosterEdits>>
      /\ PersistChange(change) \/ UNCHANGED rows
      /\ \/ UNCHANGED prefix
         \/ change.prefix # Untouched /\ prefix' = [prefix EXCEPT ![change.member] = change.prefix]
      /\ \/ rosterJob' = rest \/ rosterJob' = [rest EXCEPT !.applied = TRUE]
         \/ rosterJob' = [rest EXCEPT !.failed = TRUE]
  BY DEF ApplyChange
<1> HIDE DEF next, change, less, rest
<1>7. /\ rosterJob' \in Execution /\ rosterJob'.todo = less /\ rosterJob'.step = "apply"
      /\ rosterJob'.unread = rosterJob.unread
  BY <1>1, <1>4, <1>5, <1>6 DEF Execution
<1>8. prefix' \in [RosterMember -> Shown]
  <2>1. change.prefix \in Shown \cup {Untouched} BY <1>3 DEF RosterChange
  <2>2. prefix \in [RosterMember -> Shown] BY DEF RosterTyped
  <2>3. QED BY <1>6, <2>1, <2>2
<1>9. /\ rows' \in [RosterMember -> Row]
      /\ \A m \in RosterMember : rows[m] # NoRow => rows'[m] # NoRow
  <2>1. CASE PersistChange(change) BY <1>3, <2>1, PersistIsTyped
  <2>2. CASE UNCHANGED rows BY <2>2 DEF RosterTyped
  <2>3. QED BY <1>6, <2>1, <2>2
<1>10. RosterTyped' BY <1>6, <1>7, <1>8, <1>9, SteadyTyped DEF RosterTyped, discordRoster
<1>11. RemovalsAreDue'
  <2>1. steady' \subseteq steady BY <1>7, SteadyTyped
  <2>2. QED BY <1>1, <1>4, <1>7, <2>1 DEF RemovalsAreDue
<1>12. EditsHaveRows' BY <1>6, <1>9, EditIsTyped DEF EditsHaveRows
<1>13. PlacesKept
  <2>1. SUFFICES ASSUME NEW m \in RosterMember, rows[m].status = "ACTIVE", rows'[m].status = "DEPARTED"
                 PROVE  m \notin steady \/ rosterJob.unread
    BY DEF PlacesKept
  <2>2. PersistChange(change) BY <1>6, <2>1
  <2>3. m = change.member /\ change.type = "REMOVE" BY <1>3, <2>1, <2>2, PersistIsTyped
  <2>4. QED BY <1>1, <1>3, <2>3 DEF RemovalsAreDue, change
<1>14. QED BY <1>10, <1>11, <1>12, <1>13

\* The other steps end the job or leave it alone, and nobody's place changes.
LEMMA OthersKeep ==
  ASSUME RosterInv, Passes, rosterJob' = rosterJob \/ \E s \in JobStatus : rosterJob' = Idle(s),
         RosterTyped', EditsHaveRows', \A m \in RosterMember : rows'[m].status = rows[m].status
  PROVE  RosterInv' /\ PlacesKept
<1>1. RemovalsAreDue'
  <2>1. CASE rosterJob' = rosterJob
    <3>1. rosterJob.step = "apply" => steady' \subseteq steady BY <2>1, SteadyTyped DEF RosterInv
    <3>2. QED BY <2>1, <3>1 DEF RosterInv, RemovalsAreDue
  <2>2. CASE \E s \in JobStatus : rosterJob' = Idle(s) BY <2>2 DEF RemovalsAreDue, Idle
  <2>3. QED BY <2>1, <2>2
<1>2. PlacesKept BY DEF PlacesKept
<1>3. QED BY <1>1, <1>2 DEF RosterInv

\* Most of them leave the rows and the edits by hand alone, too.
LEMMA PlainStepsKeep ==
  ASSUME RosterInv, Passes, rosterJob' = rosterJob \/ \E s \in JobStatus : rosterJob' = Idle(s),
         UNCHANGED <<rows, editing>>,
         rosterHeld' \in [RosterMember -> SUBSET RankRole], rosterHere' \subseteq RosterMember,
         prefix' \in [RosterMember -> Shown], deletedRoles' \subseteq RankRole,
         open' \in BOOLEAN, bound' \subseteq Rank, rosterQueue' \subseteq RosterMember \cup {Whole},
         rosterEdits' \in 0 .. MaxRosterEdits
  PROVE  RosterInv' /\ PlacesKept
<1>1. RosterTyped' BY SteadyTyped DEF RosterInv, RosterTyped
<1>2. EditsHaveRows' BY DEF RosterInv, EditsHaveRows
<1>3. QED BY <1>1, <1>2, OthersKeep

LEMMA WorkerKeeps ==
  ASSUME RosterInv, RosterWorker
  PROVE  RosterInv' /\ PlacesKept
<1>1. CASE TakeAnyRosterJob BY <1>1, TakeKeeps
<1>2. CASE PlanRoster /\ Passes BY <1>2, PlanKeeps
<1>3. CASE ApplyChange /\ Passes BY <1>3, ApplyKeeps
<1>4. CASE FinishRosterJob /\ Passes
  <2>1. \E s \in JobStatus : rosterJob' = Idle(s) BY <1>4, StatusIsTyped DEF FinishRosterJob, EndJob
  <2>2. QED BY <1>4, <2>1, PlainStepsKeep DEF FinishRosterJob, RosterInv, RosterTyped, discordRoster
<1>5. QED BY <1>1, <1>2, <1>3, <1>4 DEF RosterWorker

LEMMA QueueKeeps ==
  ASSUME RosterInv, RosterJobThrown \/ SweepRosters, Passes
  PROVE  RosterInv' /\ PlacesKept
<1>1. CASE RosterJobThrown
  <2>1. \E s \in JobStatus : rosterJob' = Idle(s) BY <1>1, StatusIsTyped DEF RosterJobThrown, EndJob
  <2>2. rosterQueue' \subseteq RosterMember \cup {Whole}
    <3>1. rosterJob.scope \in RosterMember \cup {Whole}
      BY <1>1, JobIsTyped DEF RosterJobThrown, RosterInv, Execution
    <3>2. QED BY <1>1, <3>1 DEF RosterJobThrown, RosterInv, RosterTyped
  <2>3. QED BY <1>1, <2>1, <2>2, PlainStepsKeep DEF RosterJobThrown, RosterInv, RosterTyped, discordRoster
<1>2. CASE SweepRosters
  BY <1>2, PlainStepsKeep DEF SweepRosters, RosterInv, RosterTyped, discordRoster
<1>3. QED BY <1>1, <1>2

\* Ranks that go take nobody's place.
LEMMA UnboundKeeps ==
  ASSUME RosterInv, NEW ranks, Unbound(ranks)
  PROVE  /\ bound' \subseteq Rank /\ rows' \in [RosterMember -> Row]
         /\ \A m \in RosterMember : rows'[m].status = rows[m].status /\ (rows[m] # NoRow => rows'[m] # NoRow)
<1>1. \A m \in RosterMember :
          rows'[m] = IF rows[m].rank \in ranks THEN [rows[m] EXCEPT !.rank = NoRank] ELSE rows[m]
  BY DEF Unbound
<1>2. \A m \in RosterMember : rows[m] \in Row BY RowIsTyped DEF RosterInv
<1>3. ASSUME NEW m \in RosterMember
      PROVE  /\ rows'[m] \in Row /\ rows'[m].status = rows[m].status
             /\ rows[m] # NoRow => rows'[m] # NoRow
  <2>1. CASE rows[m] = NoRow
    <3>1. [NoRow EXCEPT !.rank = NoRank] = NoRow BY DEF NoRow
    <3>2. QED BY <1>1, <2>1, <3>1 DEF Row
  <2>2. CASE rows[m] # NoRow
    <3>1. PICK row \in [status : {"ACTIVE", "DEPARTED"}, rank : Rank \cup {NoRank}, callsign : Callsigns] :
            row = rows[m]
      BY <1>2, <2>2 DEF Row
    <3>2. /\ [row EXCEPT !.rank = NoRank] \in Row /\ [row EXCEPT !.rank = NoRank].status = row.status
          /\ row.status # "none"
      BY DEF Row
    <3>3. NoRow.status = "none" BY DEF NoRow
    <3>4. rows'[m] = row \/ rows'[m] = [row EXCEPT !.rank = NoRank] BY <1>1, <3>1
    <3>5. rows'[m] \in Row /\ rows'[m].status = row.status BY <1>2, <3>1, <3>2, <3>4
    <3>6. QED BY <3>1, <3>2, <3>3, <3>5
  <2>3. QED BY <2>1, <2>2
<1>4. rows' \in [RosterMember -> Row] BY <1>3 DEF Unbound
<1>5. bound' \subseteq Rank BY DEF Unbound, RosterInv, RosterTyped
<1>6. QED BY <1>3, <1>4, <1>5

LEMMA RowStepsKeep ==
  ASSUME RosterInv, Passes, UNCHANGED <<rosterJob, editing>>, NEW ranks,
         Unbound(ranks) \/ UNCHANGED <<bound, rows>>,
         UNCHANGED <<rosterHeld, rosterHere, prefix, open, rosterQueue>>,
         deletedRoles' \subseteq RankRole, rosterEdits' \in 0 .. MaxRosterEdits
  PROVE  RosterInv' /\ PlacesKept
<1>1. /\ bound' \subseteq Rank /\ rows' \in [RosterMember -> Row]
      /\ \A m \in RosterMember : rows'[m].status = rows[m].status /\ (rows[m] # NoRow => rows'[m] # NoRow)
  <2>1. CASE Unbound(ranks) BY <2>1, UnboundKeeps
  <2>2. CASE UNCHANGED <<bound, rows>> BY <2>2 DEF RosterInv, RosterTyped
  <2>3. QED BY <2>1, <2>2
<1>2. RosterTyped' BY <1>1, SteadyTyped DEF RosterInv, RosterTyped
<1>3. EditsHaveRows' BY <1>1, EditIsTyped DEF RosterInv, EditsHaveRows
<1>4. QED BY <1>1, <1>2, <1>3, OthersKeep

LEMMA ServicesKeep ==
  ASSUME RosterInv, RosterServices
  PROVE  RosterInv' /\ PlacesKept
<1>1. CASE \E role \in RankRole : HandleRoleDeleted(role)
  <2>1. PICK role \in RankRole : HandleRoleDeleted(role) BY <1>1
  <2> DEFINE ranks == {r \in bound : RoleOf[r] = role}
  <2>2. Unbound(ranks) \/ UNCHANGED <<bound, rows>> BY <2>1 DEF HandleRoleDeleted
  <2> HIDE DEF ranks
  <2>3. PICK gone : Unbound(gone) \/ UNCHANGED <<bound, rows>> BY <2>2
  <2>4. deletedRoles' \subseteq RankRole /\ rosterEdits' \in 0 .. MaxRosterEdits
    BY <2>1 DEF HandleRoleDeleted, RosterInv, RosterTyped
  <2>5. QED BY <2>1, <2>3, <2>4, RowStepsKeep DEF HandleRoleDeleted, RosterServices
<1>2. CASE \E e \in Editor : WriteCallsign(e)
  <2>1. PICK e \in Editor : WriteCallsign(e) BY <1>2
  <2> DEFINE m == editing[e].member
             callsign == editing[e].callsign
  <2>2. m \in RosterMember /\ callsign \in Callsigns /\ rows[m] # NoRow
    <3>1. editing[e] # NoEdit BY <2>1 DEF WriteCallsign
    <3>2. editing[e] \in [member : RosterMember, callsign : CallsignsByHand \cup {NoCallsign}]
      BY <3>1 DEF RosterInv, RosterTyped
    <3>3. m \in RosterMember /\ callsign \in CallsignsByHand \cup {NoCallsign} BY <3>2
    <3>4. QED BY <3>1, <3>3 DEF RosterInv, EditsHaveRows, Callsigns
  <2>3. rows' = [rows EXCEPT ![m].callsign = callsign] BY <2>1 DEF WriteCallsign
  <2>4. /\ \A o \in RosterMember : rows[o] \in Row
        /\ rows \in [RosterMember -> Row]
    BY RowIsTyped DEF RosterInv, RosterTyped
  <2>5. editing' = [editing EXCEPT ![e] = NoEdit] /\ rosterQueue' = rosterQueue \cup {m}
    BY <2>1 DEF WriteCallsign
  <2> HIDE DEF m, callsign
  <2>6. [rows[m] EXCEPT !.callsign = callsign] \in Row /\ [rows[m] EXCEPT !.callsign = callsign] # NoRow
        /\ [rows[m] EXCEPT !.callsign = callsign].status = rows[m].status
    BY <2>2, <2>4 DEF Row, NoRow
  <2>7. \A o \in RosterMember : rows'[o] = IF o = m THEN [rows[m] EXCEPT !.callsign = callsign] ELSE rows[o]
    BY <2>2, <2>3, <2>4
  <2>8. rows' \in [RosterMember -> Row] BY <2>3, <2>4, <2>6
  <2>9. /\ editing' \in [Editor -> [member : RosterMember, callsign : CallsignsByHand \cup {NoCallsign}]
                                \cup {NoEdit}]
        /\ \A x \in Editor : editing'[x] # NoEdit => editing'[x] = editing[x]
    BY <2>5 DEF RosterInv, RosterTyped
  <2>10. RosterTyped'
    BY <2>1, <2>2, <2>5, <2>8, <2>9, SteadyTyped
    DEF WriteCallsign, RosterServices, RosterInv, RosterTyped, discordRoster
  <2>11. EditsHaveRows' BY <2>6, <2>7, <2>9, EditIsTyped DEF RosterInv, EditsHaveRows
  <2>12. \A o \in RosterMember : rows'[o].status = rows[o].status BY <2>6, <2>7
  <2>13. QED BY <2>1, <2>10, <2>11, <2>12, OthersKeep DEF WriteCallsign, RosterServices
<1>3. QED BY <1>1, <1>2 DEF RosterServices

LEMMA EditsKeep ==
  ASSUME RosterInv, RosterEdited
  PROVE  RosterInv' /\ PlacesKept
<1> DEFINE Typed ==
        /\ rosterHeld \in [RosterMember -> SUBSET RankRole] /\ rosterHere \subseteq RosterMember
        /\ prefix \in [RosterMember -> Shown] /\ deletedRoles \subseteq RankRole
        /\ open \in BOOLEAN /\ bound \subseteq Rank
        /\ rosterQueue \subseteq RosterMember \cup {Whole} /\ rosterEdits \in 0 .. MaxRosterEdits
<1>1. Typed BY DEF RosterInv, RosterTyped
<1>2. NoPrefix \in Shown BY DEF NoPrefix, Shown, Callsigns
<1>3. RosterEdit => rosterEdits' \in 0 .. MaxRosterEdits
  BY <1>1, RosterConstants DEF RosterEdit
<1>4. Passes BY DEF RosterEdited
<1>5. Typed' /\ UNCHANGED <<rosterJob, rows, editing>> => RosterInv' /\ PlacesKept
  BY <1>4, PlainStepsKeep
<1>6. CASE DeleteOrReviveRoster
  BY <1>1, <1>3, <1>5, <1>6 DEF DeleteOrReviveRoster, discordRoster
<1>7. ASSUME NEW role \in RankRole, RoleDeleted(role) PROVE RosterInv' /\ PlacesKept
  BY <1>1, <1>3, <1>5, <1>7 DEF RoleDeleted
<1>8. ASSUME NEW m \in RosterMember, LeavesOrJoins(m) PROVE RosterInv' /\ PlacesKept
  BY <1>1, <1>2, <1>3, <1>5, <1>8 DEF LeavesOrJoins
<1>9. ASSUME NEW m \in RosterMember, NicknameEdited(m, NoPrefix) PROVE RosterInv' /\ PlacesKept
  BY <1>1, <1>2, <1>3, <1>5, <1>9 DEF NicknameEdited, discordRoster
<1>10. ASSUME NEW m \in RosterMember, NEW role \in RankRole, RoleChanges(m, role)
       PROVE  RosterInv' /\ PlacesKept
  <2>1. rosterHeld' \in [RosterMember -> SUBSET RankRole]
    <3>1. rosterHeld[m] \in SUBSET RankRole BY <1>1
    <3>2. rosterHeld' = [rosterHeld EXCEPT ![m] =
              IF role \in rosterHeld[m] THEN rosterHeld[m] \ {role} ELSE rosterHeld[m] \cup {role}]
      BY <1>10 DEF RoleChanges
    <3>3. QED BY <1>1, <3>1, <3>2
  <2>2. Typed' /\ UNCHANGED <<rosterJob, rows, editing>>
    BY <1>1, <1>3, <1>10, <2>1 DEF RoleChanges
  <2>3. QED BY <1>5, <2>2
<1>11. ASSUME NEW r \in Rank, BindRosterRank(r) PROVE RosterInv' /\ PlacesKept
  BY <1>1, <1>3, <1>5, <1>11 DEF BindRosterRank, discordRoster
<1>12. ASSUME NEW r \in Rank, UnbindRosterRank(r) PROVE RosterInv' /\ PlacesKept
  <2>1. UNCHANGED <<rosterJob, editing, rosterHeld, rosterHere, prefix, open, rosterQueue, deletedRoles>>
    BY <1>12 DEF UnbindRosterRank, discordRoster
  <2>2. Unbound({r}) /\ rosterEdits' \in 0 .. MaxRosterEdits BY <1>3, <1>12 DEF UnbindRosterRank
  <2>3. PICK ranks : Unbound(ranks) BY <2>2
  <2>4. QED BY <1>1, <1>4, <2>1, <2>2, <2>3, RowStepsKeep
<1>13. ASSUME NEW e \in Editor, NEW m \in RosterMember, NEW c \in CallsignsByHand \cup {NoCallsign},
              CheckCallsign(e, m, c)
       PROVE  RosterInv' /\ PlacesKept
  <2> DEFINE new == [member |-> m, callsign |-> c]
  <2>1. /\ rows[m] # NoRow /\ editing' = [editing EXCEPT ![e] = new] /\ rosterEdits' \in 0 .. MaxRosterEdits
        /\ UNCHANGED <<discordRoster, prefix, open, bound, rows, rosterQueue, rosterJob>>
    BY <1>3, <1>13 DEF CheckCallsign
  <2>2. new \in [member : RosterMember, callsign : CallsignsByHand \cup {NoCallsign}] /\ new.member = m
    OBVIOUS
  <2> HIDE DEF new
  <2>3. /\ editing' \in [Editor -> [member : RosterMember, callsign : CallsignsByHand \cup {NoCallsign}]
                                \cup {NoEdit}]
        /\ \A x \in Editor : editing'[x] = IF x = e THEN new ELSE editing[x]
    BY <2>1, <2>2 DEF RosterInv, RosterTyped
  <2>4. RosterTyped' BY <1>4, <2>1, <2>3, SteadyTyped DEF RosterInv, RosterTyped, discordRoster
  <2>5. EditsHaveRows' BY <2>1, <2>2, <2>3 DEF RosterInv, EditsHaveRows
  <2>6. QED BY <1>4, <2>1, <2>4, <2>5, OthersKeep
<1> HIDE DEF Typed
<1>14. QED BY <1>6, <1>7, <1>8, <1>9, <1>10, <1>11, <1>12, <1>13 DEF RosterEdited

LEMMA RostersNextKeeps ==
  RosterInv /\ [RostersNext]_rosterVars => RosterInv' /\ (PlacesKept \/ UNCHANGED rosterVars)
<1>1. CASE UNCHANGED rosterVars
  <2>1. UNCHANGED <<rosterHeld, rosterHere, prefix, deletedRoles, open, bound, rows, rosterQueue,
                    rosterJob, editing, rosterEdits, steady>>
    BY <1>1 DEF rosterVars
  <2>2. RosterInv => RosterInv' BY <2>1 DEF RosterInv, RosterTyped, RemovalsAreDue, EditsHaveRows
  <2>3. QED BY <1>1, <2>2
<1>2. CASE RostersNext
  BY <1>2, WorkerKeeps, ServicesKeep, EditsKeep, QueueKeeps DEF RostersNext
<1>3. QED BY <1>1, <1>2

LEMMA RostersInitInv == RostersInit => RosterInv
<1> SUFFICES ASSUME RostersInit PROVE RosterInv OBVIOUS
<1> USE RosterConstants DEF RostersInit
<1>1. NoPrefix \in Shown BY DEF NoPrefix, Shown, Callsigns
<1>2. RosterTyped BY <1>1, StatusIsTyped DEF RosterTyped, Row
<1>3. RemovalsAreDue BY DEF RemovalsAreDue, Idle
<1>4. EditsHaveRows BY DEF EditsHaveRows
<1>5. QED BY <1>2, <1>3, <1>4 DEF RosterInv

LEMMA RostersAreTyped == RosterInv => RostersTypeOK
<1> SUFFICES ASSUME RosterInv PROVE RostersTypeOK OBVIOUS
<1>1. RosterTyped BY DEF RosterInv
<1>2. \/ rosterJob \in {Idle(s) : s \in JobStatus}
      \/ /\ rosterJob.step \in {"plan", "apply"} /\ rosterJob.scope \in RosterMember \cup {Whole}
         /\ rosterJob.ranks \subseteq Rank /\ DOMAIN rosterJob.todo \subseteq Nat
         /\ \A i \in DOMAIN rosterJob.todo : rosterJob.todo[i] \in RosterChange
         /\ {rosterJob.applied, rosterJob.failed, rosterJob.unread} \subseteq BOOLEAN
  <2>1. CASE rosterJob \in Execution
    <3>1. rosterJob.todo \in Agenda /\ rosterJob.ranks \subseteq Rank BY <2>1 DEF Execution
    <3>2. PICK places \in SUBSET Nat : rosterJob.todo \in [places -> RosterChange]
      BY <3>1 DEF Agenda
    <3>3. /\ DOMAIN rosterJob.todo \subseteq Nat
          /\ \A i \in DOMAIN rosterJob.todo : rosterJob.todo[i] \in RosterChange
      BY <3>2
    <3>4. QED BY <2>1, <3>1, <3>3 DEF Execution
  <2>2. QED BY <1>1, <2>1 DEF RosterTyped
<1>3. QED BY <1>1, <1>2 DEF RosterTyped, RostersTypeOK

-----------------------------------------------------------------------------
\* Names.

Spreads == [task : {"spread"}, from : NameGuild, full : Nickname, listed : SUBSET NameRoster,
            todo : SUBSET NameGuild, queue : BOOLEAN, at : NameGuild \cup {NoGuild}]
Rename == [task : {"rename"}, roster : NameRoster, built : Nickname]
Globals == [task : {"global"}, name : Name, todo : SUBSET NameGuild]
NameTask == {Resting, [task |-> "mirror"]} \cup Spreads \cup Rename \cup Globals

ShownTyped ==
    /\ nick \in [NameGuild -> Nickname]
    /\ nickMarkers \subseteq NameGuild
    /\ nickEvents \in [NameGuild -> Nat]

NameRowsTyped ==
    /\ ranked \subseteq NameRoster /\ listed \subseteq NameRoster
    /\ syncedName \in [NameRoster -> Name \cup {NoName}]
    /\ nameJobs \subseteq NameRoster

NamesInv ==
    /\ ShownTyped /\ NameRowsTyped
    /\ naming \in [Actor -> NameTask]
    /\ nameEdits \in 0 .. MaxNameEdits
    /\ pristine \in BOOLEAN

\* A task is of the kind it says.
LEMMA TasksAre ==
  ASSUME NEW t \in NameTask
  PROVE  /\ t.task = "spread" => t \in Spreads
         /\ t.task = "rename" => t \in Rename
         /\ t.task = "global" => t \in Globals
  BY DEF NameTask, Spreads, Rename, Globals, Resting

LEMMA HighestIs ==
  ASSUME NEW rosters \in SUBSET NameRoster, rosters # {}
  PROVE  Highest(rosters) \in rosters
<1>1. IsFiniteSet(rosters) BY NameConstants, FS_Subset
<1>2. DEFINE height == [r \in rosters |-> RankHeight[r]]
<1>3. height \in [rosters -> Nat] BY NameConstants
<1>4. \E r \in rosters : \A t \in rosters : height[t] <= height[r]
  <2> HIDE DEF height
  <2>1. QED BY <1>1, <1>3, HighestOf
<1>5. \E r \in rosters : \A t \in rosters : RankHeight[t] <= RankHeight[r] BY <1>4
<1>6. QED BY <1>5 DEF Highest

LEMMA AuthorityIs ==
  ASSUME NEW rosters \in SUBSET NameRoster
  PROVE  Authority(rosters) \in NameGuild \cup {NoGuild}
<1> DEFINE department == {r \in rosters : NamePriority[r] = "DEPARTMENT"}
<1>1. \A some \in SUBSET NameRoster : some # {} => GuildOf[Highest(some)] \in NameGuild
  BY HighestIs, NameConstants
<1>2. department \in SUBSET NameRoster OBVIOUS
<1>3. MainGuild \in NameGuild BY NameConstants
<1>4. \/ Authority(rosters) \in {NoGuild, MainGuild}
      \/ department # {} /\ Authority(rosters) = GuildOf[Highest(department)]
      \/ rosters # {} /\ Authority(rosters) = GuildOf[Highest(rosters)]
  BY DEF Authority
<1>5. QED BY <1>1, <1>2, <1>3, <1>4

LEMMA SpreadIs ==
  ASSUME NamesInv, NEW queue \in BOOLEAN, NEW at \in NameGuild \cup {NoGuild},
         Authority(listed) # NoGuild
  PROVE  Spread(Authority(listed), queue, at) \in NameTask
<1>1. Authority(listed) \in NameGuild BY AuthorityIs DEF NamesInv, NameRowsTyped
<1>2. nick[Authority(listed)] \in Nickname /\ listed \subseteq NameRoster
  BY <1>1 DEF NamesInv, ShownTyped, NameRowsTyped
<1>3. Spread(Authority(listed), queue, at) \in Spreads BY <1>1, <1>2 DEF Spread, Spreads
<1>4. QED BY <1>3 DEF NameTask

LEMMA PassingIs ==
  ASSUME NEW begins \in BOOLEAN, NEW breaks, Passing(begins, breaks), pristine \in BOOLEAN
  PROVE  pristine' \in BOOLEAN
  BY DEF Passing

LEMMA RenamedIs ==
  ASSUME ShownTyped, NEW g \in NameGuild, NEW nickname \in Nickname, Renamed(g, nickname)
  PROVE  nick' \in [NameGuild -> Nickname] /\ nickEvents' \in [NameGuild -> Nat]
<1>1. nickEvents' \in {[nickEvents EXCEPT ![g] = nickEvents[g] + 1], [nickEvents EXCEPT ![g] = nickEvents[g]]}
  BY DEF Renamed
<1>2. nickEvents[g] \in Nat BY DEF ShownTyped
<1>3. nickEvents' \in [NameGuild -> Nat] BY <1>1, <1>2 DEF ShownTyped
<1>4. QED BY <1>3 DEF Renamed, ShownTyped

LEMMA WriteIs ==
  ASSUME ShownTyped, NEW g \in NameGuild, NEW nickname \in Nickname, Write(g, nickname)
  PROVE  ShownTyped'
<1>1. CASE Renamed(g, nickname) /\ nickMarkers' = nickMarkers \cup {g}
  BY <1>1, RenamedIs DEF ShownTyped
<1>2. CASE nickMarkers' = nickMarkers \ {g} /\ UNCHANGED <<nick, nickEvents>>
  BY <1>2 DEF ShownTyped
<1>3. QED BY <1>1, <1>2 DEF Write

LEMMA TaskGiven ==
  ASSUME NamesInv, NEW a \in Actor, NEW t \in NameTask, naming' = [naming EXCEPT ![a] = t]
  PROVE  naming' \in [Actor -> NameTask]
  BY DEF NamesInv

LEMMA NicknameEventKeeps ==
  ASSUME NamesInv, NEW h \in NameHandler, NEW g \in NameGuild, NicknameEvent(h, g)
  PROVE  NamesInv'
<1>1. nickEvents' = [nickEvents EXCEPT ![g] = nickEvents[g] - 1] /\ nickEvents[g] > 0 BY DEF NicknameEvent
<1>2. nickEvents[g] - 1 \in Nat BY <1>1 DEF NamesInv, ShownTyped
<1>3. nickMarkers' \in {nickMarkers, nickMarkers \ {g}} BY DEF NicknameEvent
<1>4. UNCHANGED <<nick, ranked, listed, syncedName, nameJobs, nameEdits>> BY DEF NicknameEvent
<1>5. ShownTyped' BY <1>1, <1>2, <1>3, <1>4 DEF NamesInv, ShownTyped
<1>6. \/ naming' = naming
      \/ Authority(listed) # NoGuild /\ naming' = [naming EXCEPT ![h] = Spread(Authority(listed), TRUE, g)]
  BY DEF NicknameEvent
<1>7. h \in Actor BY DEF Actor
<1>8. naming' \in [Actor -> NameTask] BY <1>6, <1>7, SpreadIs, TaskGiven DEF NamesInv
<1>9. \E begins \in BOOLEAN, breaks \in BOOLEAN : Passing(begins, breaks) BY DEF NicknameEvent
<1>10. pristine' \in BOOLEAN BY <1>9, PassingIs DEF NamesInv
<1>11. QED BY <1>4, <1>5, <1>8, <1>10 DEF NamesInv, NameRowsTyped

LEMMA SpreadToKeeps ==
  ASSUME NamesInv, NEW a \in Actor, NEW g \in NameGuild, SpreadTo(a, g)
  PROVE  NamesInv'
<1> DEFINE s == naming[a]
           less == [s EXCEPT !.todo = s.todo \ {g}]
           forms == OwnForms(s.listed, g)
<1>1. s \in Spreads BY TasksAre DEF SpreadTo, NamesInv
<1>2. less \in NameTask BY <1>1 DEF Spreads, NameTask
<1>3. naming' = [naming EXCEPT ![a] = less] BY DEF SpreadTo
<1>4. naming' \in [Actor -> NameTask]
  <2> HIDE DEF less
  <2>1. QED BY <1>2, <1>3, TaskGiven
<1>5. s.full \in Nickname /\ s.full.name \in Name BY <1>1 DEF Spreads, Nickname
<1>6. ShownTyped'
  <2>1. UNCHANGED <<nick, nickEvents, nickMarkers>> \/ Write(g, s.full) BY DEF SpreadTo
  <2>2. CASE UNCHANGED <<nick, nickEvents, nickMarkers>> BY <2>2 DEF NamesInv, ShownTyped
  <2>3. CASE Write(g, s.full) BY <1>5, <2>3, WriteIs DEF NamesInv
  <2>4. QED BY <2>1, <2>2, <2>3
<1>7. NameRowsTyped'
  <2>1. forms \subseteq NameRoster BY NameConstants DEF OwnForms
  <2>2. \/ UNCHANGED <<syncedName, nameJobs>>
        \/ /\ syncedName' = [r \in NameRoster |-> IF r \in forms THEN s.full.name ELSE syncedName[r]]
           /\ nameJobs' = nameJobs \cup forms
    BY DEF SpreadTo
  <2>3. UNCHANGED <<ranked, listed>> BY DEF SpreadTo
  <2>4. syncedName \in [NameRoster -> Name \cup {NoName}] /\ nameJobs \subseteq NameRoster
    BY DEF NamesInv, NameRowsTyped
  <2>5. syncedName' \in [NameRoster -> Name \cup {NoName}] /\ nameJobs' \subseteq NameRoster
    <3> HIDE DEF forms, s
    <3>1. QED BY <1>5, <2>1, <2>2, <2>4
  <2>6. QED BY <2>3, <2>5 DEF NamesInv, NameRowsTyped
<1>8. \E breaks : Passing(FALSE, breaks) BY DEF SpreadTo
<1>9. pristine' \in BOOLEAN BY <1>8, PassingIs DEF NamesInv
<1>10. UNCHANGED nameEdits BY DEF SpreadTo
<1>11. QED BY <1>4, <1>6, <1>7, <1>9, <1>10 DEF NamesInv

LEMMA SpreadEndsKeeps ==
  ASSUME NamesInv, NEW a \in Actor, SpreadEnds(a)
  PROVE  NamesInv'
<1> DEFINE ended == [r \in NameRoster |->
                        IF r \in listed /\ GuildOf[r] = naming[a].from THEN NoName ELSE syncedName[r]]
           more == {r \in listed \cap FormatsNames : GuildOf[r] = naming[a].at}
<1>1. Resting \in NameTask BY DEF NameTask
<1>2. naming' \in [Actor -> NameTask] BY <1>1, TaskGiven DEF SpreadEnds
<1>3. syncedName' \in {syncedName, ended} /\ nameJobs' \in {nameJobs, nameJobs \cup more} BY DEF SpreadEnds
<1>4. ended \in [NameRoster -> Name \cup {NoName}] /\ more \subseteq NameRoster
  BY DEF NamesInv, NameRowsTyped
<1> HIDE DEF ended, more
<1>5. UNCHANGED <<nick, ranked, listed, nickMarkers, nickEvents, nameEdits>> BY DEF SpreadEnds
<1>6. NameRowsTyped' BY <1>3, <1>4, <1>5 DEF NamesInv, NameRowsTyped
<1>7. ShownTyped' BY <1>5 DEF NamesInv, ShownTyped
<1>8. pristine' \in BOOLEAN BY PassingIs DEF SpreadEnds, NamesInv
<1>9. QED BY <1>2, <1>5, <1>6, <1>7, <1>8 DEF NamesInv

LEMMA TakeNameJobKeeps ==
  ASSUME NamesInv, NEW r \in NameRoster, TakeNameJob(r)
  PROVE  NamesInv'
<1> DEFINE name == IF syncedName[r] # NoName THEN syncedName[r] ELSE nick[GuildOf[r]].name
           built == IF r \in ranked THEN [form |-> r, name |-> name] ELSE Plain(name)
           task == [task |-> "rename", roster |-> r, built |-> built]
<1>1. name \in Name
  <2>1. GuildOf[r] \in NameGuild BY NameConstants
  <2>2. nick[GuildOf[r]] \in Nickname BY <2>1 DEF NamesInv, ShownTyped
  <2>3. nick[GuildOf[r]].name \in Name BY <2>2 DEF Nickname
  <2>4. syncedName[r] \in Name \cup {NoName} BY DEF NamesInv, NameRowsTyped
  <2>5. QED BY <2>3, <2>4
<1>2. built \in Nickname
  <2> HIDE DEF name
  <2>1. QED BY <1>1 DEF Plain, Nickname
<1>3. task \in NameTask
  <2> HIDE DEF built
  <2>1. QED BY <1>2 DEF Rename, NameTask
<1>4. naming' \in {naming, [naming EXCEPT !["worker"] = task]} BY DEF TakeNameJob
<1> HIDE DEF task
<1>5. naming' \in [Actor -> NameTask] BY <1>3, <1>4, TaskGiven DEF NamesInv, Actor
<1>6. nameJobs' \subseteq NameRoster /\ listed' \subseteq NameRoster
  BY DEF TakeNameJob, NamesInv, NameRowsTyped
<1>7. UNCHANGED <<nick, ranked, syncedName, nickMarkers, nickEvents, nameEdits>> BY DEF TakeNameJob
<1>8. \E breaks : Passing(FALSE, breaks) BY DEF TakeNameJob
<1>9. pristine' \in BOOLEAN BY <1>8, PassingIs DEF NamesInv
<1>10. QED BY <1>5, <1>6, <1>7, <1>9 DEF NamesInv, NameRowsTyped, ShownTyped

LEMMA RenameKeeps ==
  ASSUME NamesInv, RenameByRoster
  PROVE  NamesInv'
<1> DEFINE s == naming["worker"]
           next == [task |-> IF faults' < faults THEN "none" ELSE "mirror"]
<1>1. "worker" \in Actor BY DEF Actor
<1>2. s \in Rename BY <1>1, TasksAre DEF RenameByRoster, NamesInv
<1>3. GuildOf[s.roster] \in NameGuild /\ s.built \in Nickname BY <1>2, NameConstants DEF Rename
<1>4. ShownTyped' BY <1>3, WriteIs DEF RenameByRoster, NamesInv
<1>5. next \in NameTask BY DEF NameTask, Resting
<1>6. naming' = [naming EXCEPT !["worker"] = next] BY DEF RenameByRoster
<1>7. naming' \in [Actor -> NameTask]
  <2> HIDE DEF next
  <2>1. QED BY <1>1, <1>5, <1>6, TaskGiven
<1>8. UNCHANGED <<ranked, listed, syncedName, nameJobs, nameEdits>> BY DEF RenameByRoster
<1>9. \E breaks : Passing(FALSE, breaks) BY DEF RenameByRoster
<1>10. pristine' \in BOOLEAN BY <1>9, PassingIs DEF NamesInv
<1>11. QED BY <1>4, <1>7, <1>8, <1>10 DEF NamesInv, NameRowsTyped

LEMMA MirrorKeeps ==
  ASSUME NamesInv, BeginMirror \/ SweepNames
  PROVE  NamesInv'
<1>1. UNCHANGED <<nick, ranked, listed, syncedName, nickMarkers, nickEvents, nameEdits>>
  BY DEF BeginMirror, SweepNames
<1>2. ShownTyped' BY <1>1 DEF NamesInv, ShownTyped
<1>3. nameJobs' \subseteq NameRoster BY DEF BeginMirror, SweepNames, NamesInv, NameRowsTyped
<1>4. NameRowsTyped' BY <1>1, <1>3 DEF NamesInv, NameRowsTyped
<1>5. naming' \in [Actor -> NameTask]
  <2>1. CASE SweepNames BY <2>1 DEF SweepNames, NamesInv
  <2>2. CASE BeginMirror
    <3>1. \/ naming' = [naming EXCEPT !["worker"] = Resting]
          \/ /\ Authority(listed) # NoGuild
             /\ naming' = [naming EXCEPT !["worker"] = Spread(Authority(listed), FALSE, NoGuild)]
      BY <2>2 DEF BeginMirror
    <3>2. Resting \in NameTask BY DEF NameTask
    <3>3. QED BY <3>1, <3>2, SpreadIs, TaskGiven DEF Actor
  <2>3. QED BY <2>1, <2>2
<1>6. pristine' \in BOOLEAN BY PassingIs DEF BeginMirror, SweepNames, NamesInv
<1>7. QED BY <1>1, <1>2, <1>4, <1>5, <1>6 DEF NamesInv

LEMMA NameEditsKeep ==
  ASSUME NamesInv,
         \/ \E g \in NameGuild, name \in Name : EditNickname(g, name)
         \/ \E h \in NameHandler : \/ \E r \in NameRoster : RankChanges(r, h)
                                   \/ \E name \in Name : SetGlobalNickname(h, name)
  PROVE  NamesInv'
<1>1. ASSUME NameEdit PROVE nameEdits' \in 0 .. MaxNameEdits
  BY <1>1, NameConstants DEF NameEdit, NamesInv
<1>2. \A name \in Name : Plain(name) \in Nickname BY DEF Plain, Nickname
<1>3. ASSUME NEW g \in NameGuild, NEW name \in Name, EditNickname(g, name) PROVE NamesInv'
  <2>1. nick' \in [NameGuild -> Nickname] /\ nickEvents' \in [NameGuild -> Nat]
    BY <1>2, <1>3, RenamedIs DEF EditNickname, NamesInv
  <2>2. UNCHANGED <<ranked, listed, syncedName, nickMarkers, nameJobs, naming>> BY <1>3 DEF EditNickname
  <2>3. \E breaks : Passing(FALSE, breaks) BY <1>3 DEF EditNickname
  <2>4. pristine' \in BOOLEAN BY <2>3, PassingIs DEF NamesInv
  <2>5. nameEdits' \in 0 .. MaxNameEdits BY <1>1, <1>3 DEF EditNickname
  <2>6. QED BY <2>1, <2>2, <2>4, <2>5 DEF NamesInv, ShownTyped, NameRowsTyped
<1>4. ASSUME NEW h \in NameHandler, NEW r \in NameRoster, RankChanges(r, h) PROVE NamesInv'
  <2>1. ranked' \subseteq NameRoster /\ nameJobs' \subseteq NameRoster
    BY <1>4 DEF RankChanges, NamesInv, NameRowsTyped
  <2>2. UNCHANGED <<nick, listed, syncedName, nickMarkers, nickEvents>> BY <1>4 DEF RankChanges
  <2>3. \/ naming' = naming
        \/ Authority(listed) # NoGuild /\ naming' = [naming EXCEPT ![h] = Spread(Authority(listed), TRUE, NoGuild)]
    BY <1>4 DEF RankChanges
  <2>4. naming' \in [Actor -> NameTask] BY <2>3, SpreadIs, TaskGiven DEF NamesInv, Actor
  <2>5. \E begins \in BOOLEAN, breaks \in BOOLEAN : Passing(begins, breaks) BY <1>4 DEF RankChanges
  <2>6. pristine' \in BOOLEAN BY <2>5, PassingIs DEF NamesInv
  <2>7. nameEdits' \in 0 .. MaxNameEdits BY <1>1, <1>4 DEF RankChanges
  <2>8. QED BY <2>1, <2>2, <2>4, <2>6, <2>7 DEF NamesInv, ShownTyped, NameRowsTyped
<1>5. ASSUME NEW h \in NameHandler, NEW name \in Name, SetGlobalNickname(h, name) PROVE NamesInv'
  <2> DEFINE task == [task |-> "global", name |-> name, todo |-> NameGuild]
  <2>1. task \in NameTask BY DEF NameTask, Globals
  <2>2. naming' = [naming EXCEPT ![h] = task] BY <1>5 DEF SetGlobalNickname
  <2> HIDE DEF task
  <2>3. naming' \in [Actor -> NameTask] BY <2>1, <2>2, TaskGiven DEF Actor
  <2>4. UNCHANGED <<nick, ranked, listed, syncedName, nickMarkers, nickEvents, nameJobs>>
    BY <1>5 DEF SetGlobalNickname
  <2>5. pristine' \in BOOLEAN BY <1>5, PassingIs DEF SetGlobalNickname, NamesInv
  <2>6. nameEdits' \in 0 .. MaxNameEdits BY <1>1, <1>5 DEF SetGlobalNickname
  <2>7. QED BY <2>3, <2>4, <2>5, <2>6 DEF NamesInv, ShownTyped, NameRowsTyped
<1>6. QED BY <1>3, <1>4, <1>5

LEMMA SetNicknameKeeps ==
  ASSUME NamesInv, NEW h \in NameHandler, NEW g \in NameGuild, SetNicknameIn(h, g)
  PROVE  NamesInv'
<1> DEFINE s == naming[h]
           less == [s EXCEPT !.todo = s.todo \ {g}]
<1>1. h \in Actor BY DEF Actor
<1>2. s \in Globals BY <1>1, TasksAre DEF SetNicknameIn, NamesInv
<1>3. less \in NameTask /\ Resting \in NameTask BY <1>2 DEF Globals, NameTask
<1>4. naming' \in {[naming EXCEPT ![h] = Resting], [naming EXCEPT ![h] = less]}
  <2>1. naming' = [naming EXCEPT ![h] = IF s.todo = {g} THEN Resting ELSE less] BY DEF SetNicknameIn
  <2> HIDE DEF less
  <2>2. QED BY <2>1
<1>5. naming' \in [Actor -> NameTask]
  <2> HIDE DEF less
  <2>1. QED BY <1>1, <1>3, <1>4, TaskGiven
<1>6. Plain(s.name) \in Nickname BY <1>2 DEF Globals, Plain, Nickname
<1>7. nick' \in [NameGuild -> Nickname] /\ nickEvents' \in [NameGuild -> Nat]
  <2>1. CASE Renamed(g, Plain(s.name)) BY <1>6, <2>1, RenamedIs DEF NamesInv
  <2>2. CASE UNCHANGED <<nick, nickEvents>> BY <2>2 DEF NamesInv, ShownTyped
  <2>3. QED BY <2>1, <2>2 DEF SetNicknameIn
<1>8. UNCHANGED <<ranked, listed, syncedName, nickMarkers, nameJobs, nameEdits>> BY DEF SetNicknameIn
<1>9. \E breaks : Passing(FALSE, breaks) BY DEF SetNicknameIn
<1>10. pristine' \in BOOLEAN BY <1>9, PassingIs DEF NamesInv
<1>11. QED BY <1>5, <1>7, <1>8, <1>10 DEF NamesInv, ShownTyped, NameRowsTyped

LEMMA NamesInitInv == NamesInit => NamesInv
<1> SUFFICES ASSUME NamesInit PROVE NamesInv OBVIOUS
<1> USE NameConstants DEF NamesInit
<1>1. Plain(NameAtFirst) \in Nickname BY DEF Plain, Nickname
<1>2. Resting \in NameTask BY DEF NameTask
<1>3. ShownTyped BY <1>1 DEF ShownTyped
<1>4. NameRowsTyped BY DEF NameRowsTyped
<1>5. naming \in [Actor -> NameTask] BY <1>2
<1>6. nameEdits \in 0 .. MaxNameEdits OBVIOUS
<1>7. pristine \in BOOLEAN OBVIOUS
<1>8. QED BY <1>3, <1>4, <1>5, <1>6, <1>7 DEF NamesInv

LEMMA NamesNextKeeps == NamesInv /\ [NamesNext]_nameVars => NamesInv'
<1> SUFFICES ASSUME NamesInv, [NamesNext]_nameVars PROVE NamesInv' OBVIOUS
<1>1. CASE NamesNext
  BY <1>1, NicknameEventKeeps, SpreadToKeeps, SpreadEndsKeeps, TakeNameJobKeeps, RenameKeeps, MirrorKeeps,
     NameEditsKeep, SetNicknameKeeps
  DEF NamesNext, NameWorker, HandleName, Actor
<1>2. CASE UNCHANGED nameVars BY <1>2 DEF nameVars, NamesInv, ShownTyped, NameRowsTyped
<1>3. QED BY <1>1, <1>2

LEMMA NamesAreTyped == NamesInv => NamesTypeOK
<1> SUFFICES ASSUME NamesInv PROVE NamesTypeOK OBVIOUS
<1>1. \A a \in Actor :
          \/ naming[a] = Resting
          \/ /\ naming[a].task = "spread" /\ naming[a].from \in NameGuild
             /\ naming[a].full \in Nickname /\ naming[a].listed \subseteq NameRoster
             /\ naming[a].todo \subseteq NameGuild /\ naming[a].queue \in BOOLEAN
             /\ naming[a].at \in NameGuild \cup {NoGuild}
          \/ naming[a] = [task |-> "mirror"]
          \/ naming[a].task = "rename" /\ naming[a].roster \in NameRoster /\ naming[a].built \in Nickname
          \/ naming[a].task = "global" /\ naming[a].name \in Name /\ naming[a].todo \subseteq NameGuild
  <2> SUFFICES ASSUME NEW a \in Actor, NEW t \in NameTask, naming[a] = t
               PROVE  \/ t = Resting
                      \/ /\ t.task = "spread" /\ t.from \in NameGuild
                         /\ t.full \in Nickname /\ t.listed \subseteq NameRoster
                         /\ t.todo \subseteq NameGuild /\ t.queue \in BOOLEAN
                         /\ t.at \in NameGuild \cup {NoGuild}
                      \/ t = [task |-> "mirror"]
                      \/ t.task = "rename" /\ t.roster \in NameRoster /\ t.built \in Nickname
                      \/ t.task = "global" /\ t.name \in Name /\ t.todo \subseteq NameGuild
    BY DEF NamesInv
  <2>1. QED BY DEF NameTask, Spreads, Rename, Globals
<1>2. QED BY <1>1 DEF NamesInv, ShownTyped, NameRowsTyped, NamesTypeOK

-----------------------------------------------------------------------------
\* Surroundings: a step either works or uses up one of the faults.

LEMMA RostersAtWork == RostersNext => Works \/ Fails
<1>1. TakeAnyRosterJob => Works BY DEF TakeAnyRosterJob, TakeRosterJob
<1>2. PlanRoster => Works \/ Fails BY DEF PlanRoster, PlanAll, PlanOne
<1>3. ApplyChange => Works \/ Fails BY DEF ApplyChange
<1>4. FinishRosterJob => Works BY DEF FinishRosterJob
<1>5. RosterServices => Works BY DEF RosterServices, HandleRoleDeleted, WriteCallsign
<1>6. RosterEdited => Works \/ Fails
  BY DEF RosterEdited, DeleteOrReviveRoster, RoleDeleted, LeavesOrJoins, NicknameEdited, RoleChanges,
         BindRosterRank, UnbindRosterRank, CheckCallsign
<1>7. RosterJobThrown \/ SweepRosters => Works \/ Fails BY DEF RosterJobThrown, SweepRosters
<1>8. QED BY <1>1, <1>2, <1>3, <1>4, <1>5, <1>6, <1>7 DEF RostersNext, RosterWorker

LEMMA NamesAtWork == NamesNext => Works \/ Fails
<1>1. \A g, nickname : Write(g, nickname) => Works \/ Fails BY DEF Write
<1>2. \A a, g : NicknameEvent(a, g) => Works \/ Fails BY DEF NicknameEvent
<1>3. \A a, g : SpreadTo(a, g) => Works \/ Fails BY <1>1 DEF SpreadTo
<1>4. \A a : SpreadEnds(a) => Works BY DEF SpreadEnds
<1>5. \A a, g : SetNicknameIn(a, g) => Works \/ Fails BY DEF SetNicknameIn
<1>6. NameWorker => Works \/ Fails BY <1>1, <1>3, <1>4 DEF NameWorker, RenameByRoster, BeginMirror
<1>7. \A h : HandleName(h) => Works \/ Fails BY <1>2, <1>3, <1>4, <1>5 DEF HandleName
<1>8. SweepNames \/ (\E r \in NameRoster : TakeNameJob(r)) => Works BY DEF SweepNames, TakeNameJob
<1>9. NameEdit => Works BY DEF NameEdit
<1>10. /\ \A r, h : RankChanges(r, h) => Works
       /\ \A h, name : SetGlobalNickname(h, name) => Works
       /\ \A g, name : EditNickname(g, name) => Works
  BY <1>9 DEF RankChanges, SetGlobalNickname, EditNickname
<1>11. QED BY <1>6, <1>7, <1>8, <1>10 DEF NamesNext

LEMMA MappingsAtWork == MappingsNext => Works \/ Fails
<1>1. \A a, command : Begins(a, command) => Works BY DEF Begins
<1>2. \A a : Command(a) => Works
  <2>1. \A a, k : BeginEnable(a, k) \/ BeginDisable(a, k) \/ BeginDelete(a, k) => Works
    BY <1>1 DEF BeginEnable, BeginDisable, BeginDelete
  <2>2. \A a, k, twoWay, live : BeginUpdate(a, k, twoWay, live) => Works BY <1>1 DEF BeginUpdate
  <2>3. \A a, k, twoWay, live, wanted : BeginCreate(a, k, twoWay, live, wanted) => Works
    BY <1>1 DEF BeginCreate
  <2>4. \A a, i, approve : BeginVote(a, i, approve) => Works BY <1>1 DEF BeginVote
  <2>5. \A a : CommitMapping(a) \/ CommitVote(a) => Works BY DEF CommitMapping, CommitVote
  <2>6. QED BY <2>1, <2>2, <2>3, <2>4, <2>5 DEF Command
<1>3. \A i : RequestExpires(i) => Works BY DEF RequestExpires
<1>4. \A r : DeleteRole(r) => Works \/ Fails BY DEF DeleteRole
<1>5. \A r, upset : DisableMappingsOf(r) \/ Protect(r, upset) => Works BY DEF DisableMappingsOf, Protect
<1>6. \A g, live : RemoveGuild(g) \/ ChangeGuild(g) \/ RegisterGuild(g, live) => Works
  BY DEF RemoveGuild, ChangeGuild, RegisterGuild
<1>7. Validation => Works \/ Fails BY DEF Validation, BeginValidation, CheckMapping
<1>8. QED BY <1>2, <1>3, <1>4, <1>5, <1>6, <1>7 DEF MappingsNext

LEMMA MembersAtWork == MembersNext => Works \/ Fails
<1>1. \A a, should : ReadsAccess(a, should) => Works \/ Fails BY DEF ReadsAccess
<1>2. \A a : StartCommand(a) => Works \/ Fails BY <1>1 DEF StartCommand
<1>3. ReadTierOfChange => Works \/ Fails BY <1>1 DEF ReadTierOfChange
<1>4. BeginAccessSweep => Works \/ Fails BY DEF BeginAccessSweep
<1>5. \A x : WriteAccess(x) => Works BY DEF WriteAccess
<1>6. LoadActor \/ SweepReadsUsers \/ ToggleMainGuild => Works
  BY DEF LoadActor, SweepReadsUsers, ToggleMainGuild
<1>7. \A t, r, rule : CreateTier(t) \/ DeleteTier(t) \/ SetAccessRule(r, rule) => Works
  BY DEF CreateTier, DeleteTier, SetAccessRule
<1>8. \A a, r : HandleTierEvent(a, r) \/ TierRoleMoves(a, r) => Works BY DEF HandleTierEvent, TierRoleMoves
<1>9. /\ \A o : CommitLink(o) \/ CommitUnlink(o) \/ IssueGrant(o) => Works
      /\ \A o, a : BeginUnlink(o, a) => Works
      /\ \A o, u : ReadGrantee(o, u) => Works
      /\ \A o, a, u : BeginLink(o, a, u) => Works
      /\ \A u : EndGrants(u) => Works
      /\ \A a : ReconcileGlobalAdmin(a) \/ ResyncMember(a) => Works
  BY DEF CommitLink, CommitUnlink, BeginUnlink, BeginLink, ReadGrantee, IssueGrant, EndGrants,
         ReconcileGlobalAdmin, ResyncMember, MemberEdit
<1>10. QED BY <1>2, <1>3, <1>4, <1>5, <1>6, <1>7, <1>8, <1>9 DEF MembersNext, AccessSweep

LEMMA PermissionsAtWork == PermissionsNext => Works \/ Fails
<1>1. \A p : LoadActorOf(p) => Works \/ Fails BY DEF LoadActorOf
<1>2. \A p : CommitGrant(p) \/ CommitRevoke(p) \/ ReconcileRoot(p) \/ TierRoleChanges(p) => Works
  BY DEF CommitGrant, CommitRevoke, ReconcileRoot, TierRoleChanges
<1>3. \A p, target, right, k : BeginGrant(p, target, right) \/ BeginRevoke(p, k) \/ Lapse(k) => Works
  BY DEF BeginGrant, BeginRevoke, Lapse
<1>4. QED BY <1>1, <1>2, <1>3 DEF PermissionsNext

LEMMA SurroundingsStay == SurroundingsTypeOK /\ [Next]_vars => SurroundingsTypeOK'
<1> SUFFICES ASSUME SurroundingsTypeOK, [Next]_vars PROVE SurroundingsTypeOK'
  OBVIOUS
<1>1. (Works \/ Fails) => SurroundingsTypeOK'
  BY SurroundingsConstants DEF Works, Fails, surroundings, SurroundingsTypeOK
<1>2. CASE Next
  BY <1>1, <1>2, RostersAtWork, NamesAtWork, MappingsAtWork, MembersAtWork, PermissionsAtWork DEF Next
<1>3. CASE UNCHANGED vars BY <1>1, <1>3 DEF vars, Works
<1>4. QED BY <1>2, <1>3

-----------------------------------------------------------------------------
\* Together.

\* What the components have kept, each of them in every behaviour.
CommunityInv ==
    /\ MembersInv /\ MappingsInv /\ RightsInv /\ RosterInv /\ NamesInv
    /\ SurroundingsTypeOK

LEMMA CommunityInit == Init => CommunityInv
<1>1. Init => SurroundingsTypeOK
  BY SurroundingsConstants DEF Init, SurroundingsInit, SurroundingsTypeOK
<1>2. QED
  BY <1>1, MembersInitInv, InitMappings, InitRights, RostersInitInv, NamesInitInv DEF Init, CommunityInv

LEMMA CommunitySteps ==
  ASSUME [Next]_vars
  PROVE  /\ [MembersNext]_memberVars
         /\ [MappingsNext]_mappingVars
         /\ [PermissionsNext]_permissionVars
         /\ [RostersNext]_rosterVars
         /\ [NamesNext]_nameVars
<1>1. CASE Next BY <1>1 DEF Next
<1>2. CASE UNCHANGED vars BY <1>2 DEF vars
<1>3. QED BY <1>1, <1>2

LEMMA CommunityNext == CommunityInv /\ [Next]_vars => CommunityInv'
  BY CommunitySteps, MembersNextKeeps, NextMappings, NextRights, RostersNextKeeps, NamesNextKeeps,
     SurroundingsStay
  DEF CommunityInv

LEMMA CommunityAlways == Spec => []CommunityInv
  BY CommunityInit, CommunityNext, PTL DEF Spec

\* A user's primary account is the oldest linked to him, and no step takes the
\* last account of a user with a grant, for any accounts, users and numbers of
\* commands, except for users two changes of whose accounts, or an unlinking and
\* a grant, overlapped (member-service.js, grant-service.js).
THEOREM AccountsStayInOrder == Spec => AccountsInOrder
<1>1. CommunityInv => PrimaryIsOldest BY DEF CommunityInv, MembersInv, AccountsInv
<1>2. CommunityInv /\ [Next]_vars => [LastAccountStays]_memberVars
  BY CommunitySteps, AccountsNext DEF CommunityInv, MembersInv, AccessInv
<1>3. QED BY <1>1, <1>2, CommunityAlways, PTL DEF Spec, AccountsInOrder

\* No job takes a member off a roster who has held one of the ranks the job knows
\* ever since it began, unless it could not read him: for any members, ranks,
\* positions, blocks and thresholds, whatever jobs, events and edits interleave
\* (roster-runner.js).
THEOREM NobodyLosesHisPlace == Spec => RosterPlacesKept
<1>1. CommunityInv /\ [Next]_vars => [PlacesKept]_vars
  <2> SUFFICES ASSUME CommunityInv, [Next]_vars PROVE PlacesKept
    OBVIOUS
  <2>1. PlacesKept \/ UNCHANGED rosterVars
    BY CommunitySteps, RostersNextKeeps DEF CommunityInv
  <2>2. UNCHANGED rosterVars => PlacesKept BY DEF rosterVars, PlacesKept
  <2>3. QED BY <2>1, <2>2
<1>2. QED BY <1>1, CommunityAlways, PTL DEF Spec, RosterPlacesKept

\* Mappings and delegation keep their promises beside the other components, too:
\* what is enabled runs in no circle, what is sensitive is signed, and no right
\* goes beyond its grantor's (mapping-service.js, permission-service.js).
THEOREM MappingsAndRightsHold == Spec => [](EnabledUntangled /\ SensitiveSigned /\ NothingBeyondDelegation)
<1>1. CommunityInv => EnabledUntangled /\ SensitiveSigned BY DEF CommunityInv, MappingsInv, LoopInv, IInv
<1>2. CommunityInv => NothingBeyondDelegation
  BY DEF CommunityInv, RightsInv, RowsAreBacked, MayBack, NothingBeyondDelegation
<1>3. QED BY <1>1, <1>2, CommunityAlways, PTL

\* Rosters, names, mappings, accounts and rights keep the types of their
\* variables, whichever of them a behaviour is about: no job, command, event or
\* failure leaves a row, a plan, a count or a reading of another kind, for any
\* members, roles, guilds and bounds.
THEOREM CommunityIsTyped == Spec => []TypeOK
<1>1. CommunityInv => TypeOK
  BY MembersAreTyped, MappingsAreTyped, PermissionsAreTyped, RostersAreTyped, NamesAreTyped
  DEF CommunityInv, TypeOK
<1>2. QED BY <1>1, CommunityAlways, PTL
=============================================================================
