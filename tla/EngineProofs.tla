---------------------------- MODULE EngineProofs -----------------------------
(***************************************************************************)
(* What the engine promises, for any guilds, roles, mappings and grants:   *)
(* theorems about EngineRuns.                                              *)
(*                                                                         *)
(* What each edge keeps of a computation's state, every pass keeps, and so *)
(* every computation (PassKeeps, PassesFollow).  It is stated of           *)
(* SoundStates, which no premise is needed for, and of SettledStates, for  *)
(* mappings with one edge into each role and those that feed others first: *)
(* of a settled computation's plan nothing is left for the next run.       *)
(*                                                                         *)
(* Consecutive runs settle because two computations that see the same of   *)
(* what feeds some roles treat those roles alike (ComputedAlike), so that  *)
(* every run settles one receiving role more.  Where they have settled,    *)
(* mirrored roles agree if the passes came to rest (AtRest).               *)
(***************************************************************************)
EXTENDS EngineRuns, FiniteSetTheorems, WellFoundedInduction, TLAPS

\* What is known of the contexts there are.
LEMMA SoundContextsAre ==
  \A c \in SoundContexts :
     /\ c \in [guilds : SUBSET Guild, mappings : SUBSET Mapping, grants : SUBSET Role, linked : BOOLEAN]
     /\ IsFiniteSet(c.mappings)
     /\ \A m, n \in c.mappings : m.id = n.id => m = n
     /\ \A m \in c.mappings : m.source # m.target
BY DEF SoundContexts

(***************************************************************************)
(* The passes.  What is shown step by step holds at the end; the steps are *)
(* in sets of states, one for each place.                                  *)
(***************************************************************************)

LEMMA StepByStep ==
  ASSUME NEW N \in Nat, NEW P, 0 \in P, \A i \in 1 .. N : i - 1 \in P => i \in P
  PROVE  \A i \in 0 .. N : i \in P
<1> DEFINE R == {pair \in Nat \X Nat : pair[1] < pair[2]}
           F == {i \in 0 .. N : i \notin P}
<1>1. IsWellFoundedOn(R, Nat)
  <2>1. OpToRel(<, Nat) = R BY DEF OpToRel
  <2>2. QED BY <2>1, NatLessThanWellFounded
<1> SUFFICES ASSUME F # {} PROVE FALSE
  OBVIOUS
<1>2. F \subseteq Nat OBVIOUS
<1>3. PICK i \in F : \A j \in F : <<j, i>> \notin R
  <2> HIDE DEF R, F
  <2>1. QED BY <1>1, <1>2, WFMin
<1>4. i \in 1 .. N /\ i - 1 \in 0 .. N OBVIOUS
<1>5. <<i - 1, i>> \in R BY <1>4
<1>6. i - 1 \notin F BY <1>3, <1>5
<1>7. i - 1 \in P BY <1>4, <1>6
<1>8. QED BY <1>3, <1>4, <1>7

\* The functions a pass and a computation are defined by exist.
LEMMA PassStatesAre ==
  ASSUME NEW st, NEW mappings, NEW seen, Len(mappings) \in Nat
  PROVE  PassStates(st, mappings, seen) =
           [i \in 0 .. Len(mappings) |->
              IF i = 0 THEN [st EXCEPT !.changed = FALSE]
              ELSE ApplyMapping(PassStates(st, mappings, seen)[i - 1], mappings[i], seen)]
<1> DEFINE N == Len(mappings)
           Value(i, g) == IF i = 0 THEN [st EXCEPT !.changed = FALSE]
                          ELSE ApplyMapping(g[i - 1], mappings[i], seen)
           P == {n \in 0 .. N : \E g : \A i \in 0 .. n : g[i] = Value(i, g)}
<1>1. 0 \in P
  <2> DEFINE g == [i \in 0 .. 0 |-> [st EXCEPT !.changed = FALSE]]
  <2>1. \A i \in 0 .. 0 : g[i] = Value(i, g) OBVIOUS
  <2> HIDE DEF g, Value
  <2>2. QED BY <2>1
<1>2. ASSUME NEW n \in 1 .. N, n - 1 \in P PROVE n \in P
  <2>1. PICK g : \A i \in 0 .. n - 1 : g[i] = Value(i, g)
    <3> HIDE DEF Value
    <3>1. QED BY <1>2
  <2> DEFINE h == [i \in 0 .. n |-> Value(i, g)]
  <2> HIDE DEF Value
  <2>2. \A i \in 0 .. n - 1 : h[i] = g[i] BY <2>1
  <2>3. \A i \in 0 .. n : h[i] = Value(i, g) OBVIOUS
  <2> HIDE DEF h
  <2>4. \A i \in 0 .. n : Value(i, h) = Value(i, g)
    <3> SUFFICES ASSUME NEW i \in 0 .. n PROVE Value(i, h) = Value(i, g)
      OBVIOUS
    <3>1. CASE i = 0 BY <3>1 DEF Value
    <3>2. CASE i # 0
      <4>1. h[i - 1] = g[i - 1] BY <2>2, <3>2
      <4>2. QED BY <3>2, <4>1 DEF Value
    <3>3. QED BY <3>1, <3>2
  <2>5. \A i \in 0 .. n : h[i] = Value(i, h) BY <2>3, <2>4
  <2>6. QED BY <2>5
<1>3. N \in P
  <2> HIDE DEF P
  <2>1. \A n \in 1 .. N : n - 1 \in P => n \in P BY <1>2
  <2>2. \A n \in 0 .. N : n \in P BY <1>1, <2>1, StepByStep
  <2>3. QED BY <2>2
<1>4. PICK g : \A i \in 0 .. N : g[i] = Value(i, g)
  <2> HIDE DEF Value
  <2>1. QED BY <1>3
<1> DEFINE h == [i \in 0 .. N |-> g[i]]
<1>5. h = [i \in 0 .. N |-> IF i = 0 THEN [st EXCEPT !.changed = FALSE]
                           ELSE ApplyMapping(h[i - 1], mappings[i], seen)]
  <2>1. \A i \in 0 .. N : h[i] = IF i = 0 THEN [st EXCEPT !.changed = FALSE]
                                  ELSE ApplyMapping(h[i - 1], mappings[i], seen)
    <3> SUFFICES ASSUME NEW i \in 0 .. N
                 PROVE  g[i] = IF i = 0 THEN [st EXCEPT !.changed = FALSE]
                               ELSE ApplyMapping(h[i - 1], mappings[i], seen)
      OBVIOUS
    <3>1. CASE i = 0 BY <1>4, <3>1
    <3>2. CASE i # 0
      <4>1. h[i - 1] = g[i - 1] BY <3>2
      <4> HIDE DEF h
      <4>2. QED BY <1>4, <3>2, <4>1
    <3>3. QED BY <3>1, <3>2
  <2>2. QED BY <2>1
<1> HIDE DEF h
<1>6. \E f : f = [i \in 0 .. N |-> IF i = 0 THEN [st EXCEPT !.changed = FALSE]
                                  ELSE ApplyMapping(f[i - 1], mappings[i], seen)]
  BY <1>5
<1>7. QED BY <1>6 DEF PassStates

\* What each mapping of a pass keeps, from place to place.
LEMMA PassFollows ==
  ASSUME NEW st, NEW mappings, NEW seen, Len(mappings) \in Nat,
         NEW J, [st EXCEPT !.changed = FALSE] \in J[0],
         \A i \in 1 .. Len(mappings) : \A s \in J[i - 1] : ApplyMapping(s, mappings[i], seen) \in J[i]
  PROVE  MappingPass(st, mappings, seen) \in J[Len(mappings)]
<1> DEFINE after == PassStates(st, mappings, seen)
           P == {i \in 0 .. Len(mappings) : after[i] \in J[i]}
<1>0. after = [i \in 0 .. Len(mappings) |->
                 IF i = 0 THEN [st EXCEPT !.changed = FALSE]
                 ELSE ApplyMapping(after[i - 1], mappings[i], seen)]
  BY PassStatesAre
<1> HIDE DEF after
<1>1. /\ after[0] = [st EXCEPT !.changed = FALSE]
      /\ \A i \in 1 .. Len(mappings) : after[i] = ApplyMapping(after[i - 1], mappings[i], seen)
  <2> DEFINE started == [st EXCEPT !.changed = FALSE]
  <2>1. after = [i \in 0 .. Len(mappings) |->
                   IF i = 0 THEN started ELSE ApplyMapping(after[i - 1], mappings[i], seen)]
    BY <1>0
  <2> HIDE DEF started
  <2>2. \A i \in 0 .. Len(mappings) :
            after[i] = IF i = 0 THEN started ELSE ApplyMapping(after[i - 1], mappings[i], seen)
    BY <2>1
  <2>3. after[0] = started BY <2>2
  <2>4. \A i \in 1 .. Len(mappings) : after[i] = ApplyMapping(after[i - 1], mappings[i], seen)
    BY <2>2
  <2>5. QED BY <2>3, <2>4 DEF started
<1>2. 0 \in P BY <1>1
<1>3. \A i \in 1 .. Len(mappings) : i - 1 \in P => i \in P BY <1>1
<1> HIDE DEF P
<1>4. Len(mappings) \in P BY <1>2, <1>3, StepByStep
<1>5. QED BY <1>4 DEF P, MappingPass, after

LEMMA PassesAre ==
  ASSUME NEW start, NEW mappings, NEW seen
  PROVE  Passes(start, mappings, seen) =
           [i \in 0 .. MaxMappingPasses |->
              IF i = 0 THEN start
              ELSE NextPass(Passes(start, mappings, seen)[i - 1], mappings, seen)]
<1> DEFINE N == MaxMappingPasses
           Value(i, g) == IF i = 0 THEN start
                          ELSE NextPass(g[i - 1], mappings, seen)
           P == {n \in 0 .. N : \E g : \A i \in 0 .. n : g[i] = Value(i, g)}
<1>0. N \in Nat BY DEF MaxMappingPasses
<1>1. 0 \in P
  <2> DEFINE g == [i \in 0 .. 0 |-> start]
  <2>1. \A i \in 0 .. 0 : g[i] = Value(i, g) OBVIOUS
  <2> HIDE DEF g, Value
  <2>2. QED BY <1>0, <2>1
<1>2. ASSUME NEW n \in 1 .. N, n - 1 \in P PROVE n \in P
  <2>1. PICK g : \A i \in 0 .. n - 1 : g[i] = Value(i, g)
    <3> HIDE DEF Value
    <3>1. QED BY <1>2
  <2> DEFINE h == [i \in 0 .. n |-> Value(i, g)]
  <2> HIDE DEF Value
  <2>2. \A i \in 0 .. n - 1 : h[i] = g[i] BY <2>1
  <2>3. \A i \in 0 .. n : h[i] = Value(i, g) OBVIOUS
  <2> HIDE DEF h
  <2>4. \A i \in 0 .. n : Value(i, h) = Value(i, g)
    <3> SUFFICES ASSUME NEW i \in 0 .. n PROVE Value(i, h) = Value(i, g)
      OBVIOUS
    <3>1. CASE i = 0 BY <3>1 DEF Value
    <3>2. CASE i # 0
      <4>1. h[i - 1] = g[i - 1] BY <2>2, <3>2
      <4>2. QED BY <3>2, <4>1 DEF Value
    <3>3. QED BY <3>1, <3>2
  <2>5. \A i \in 0 .. n : h[i] = Value(i, h) BY <2>3, <2>4
  <2>6. QED BY <2>5
<1>3. N \in P
  <2> HIDE DEF P
  <2>1. \A n \in 1 .. N : n - 1 \in P => n \in P BY <1>2
  <2>2. \A n \in 0 .. N : n \in P BY <1>0, <1>1, <2>1, StepByStep
  <2>3. QED BY <1>0, <2>2
<1>4. PICK g : \A i \in 0 .. N : g[i] = Value(i, g)
  <2> HIDE DEF Value
  <2>1. QED BY <1>3
<1> DEFINE h == [i \in 0 .. N |-> g[i]]
<1>5. h = [i \in 0 .. N |-> IF i = 0 THEN start
                           ELSE NextPass(h[i - 1], mappings, seen)]
  <2>1. \A i \in 0 .. N : h[i] = IF i = 0 THEN start
                                  ELSE NextPass(h[i - 1], mappings, seen)
    <3> SUFFICES ASSUME NEW i \in 0 .. N
                 PROVE  g[i] = IF i = 0 THEN start
                               ELSE NextPass(h[i - 1], mappings, seen)
      OBVIOUS
    <3>1. CASE i = 0 BY <1>4, <3>1
    <3>2. CASE i # 0
      <4>1. h[i - 1] = g[i - 1] BY <1>0, <3>2
      <4> HIDE DEF h
      <4>2. g[i] = NextPass(g[i - 1], mappings, seen) BY <1>4, <3>2
      <4>3. QED BY <3>2, <4>1, <4>2
    <3>3. QED BY <3>1, <3>2
  <2>2. QED BY <2>1
<1> HIDE DEF h
<1>6. \E f : f = [i \in 0 .. N |-> IF i = 0 THEN start
                                  ELSE NextPass(f[i - 1], mappings, seen)]
  BY <1>5
<1>7. QED BY <1>6 DEF Passes

\* What each pass keeps.
LEMMA PassesFollow ==
  ASSUME NEW start, NEW mappings, NEW seen,
         NEW K, start \in K[0],
         \A n \in 1 .. MaxMappingPasses : \A s \in K[n - 1] : NextPass(s, mappings, seen) \in K[n]
  PROVE  ApplyMappings(start, mappings, seen) \in K[MaxMappingPasses]
<1> DEFINE after == Passes(start, mappings, seen)
           P == {n \in 0 .. MaxMappingPasses : after[n] \in K[n]}
<1>0. MaxMappingPasses \in Nat BY DEF MaxMappingPasses
<1>1. /\ after[0] = start
      /\ \A n \in 1 .. MaxMappingPasses :
             after[n] = NextPass(after[n - 1], mappings, seen)
  BY <1>0, PassesAre
<1> HIDE DEF after
<1>2. 0 \in P BY <1>0, <1>1
<1>3. \A n \in 1 .. MaxMappingPasses : n - 1 \in P => n \in P BY <1>0, <1>1
<1> HIDE DEF P
<1>4. MaxMappingPasses \in P BY <1>0, <1>2, <1>3, StepByStep
<1>5. QED BY <1>4 DEF P, ApplyMappings, after

-----------------------------------------------------------------------------
(* The evaluation order: every live mapping has a place, and what is before *)
(* another is evaluated earlier.                                           *)

\* What is known of a context's mappings.
LEMMA LiveAre ==
  ASSUME NEW c \in SoundContexts
  PROVE  /\ LiveMappings(c) \subseteq Mapping /\ IsFiniteSet(LiveMappings(c))
         /\ \A m, n \in LiveMappings(c) : m.id = n.id => m = n
         /\ \A m \in LiveMappings(c) : /\ m.source # m.target
                                       /\ {m.source, m.target} \subseteq RolesIn(c.guilds)
<1>1. c.mappings \subseteq Mapping BY SoundContextsAre
<1>2. LiveMappings(c) \in SUBSET c.mappings BY DEF LiveMappings
<1>3. QED BY <1>1, <1>2, SoundContextsAre, FS_Subset DEF LiveMappings

LEMMA MappingFields ==
  ASSUME NEW m \in Mapping
  PROVE  /\ m.id \in Nat /\ m.source \in Role /\ m.target \in Role /\ m.direction \in Direction
         /\ m.authority \in Authority /\ m.syncAdd \in BOOLEAN /\ m.syncRemove \in BOOLEAN
         /\ m.priority \in Nat /\ m.priority < MaxPriority
  BY EngineConstants DEF Mapping

\* Priority, then id, is a strict order of the mappings.
LEMMA BeforeIsStrict ==
  ASSUME NEW c \in SoundContexts
  PROVE  /\ \A m \in LiveMappings(c) : ~Before(m, m)
         /\ \A m, n \in LiveMappings(c) : m # n => Before(m, n) \/ Before(n, m)
         /\ \A k, m, n \in LiveMappings(c) : Before(k, m) /\ Before(m, n) => Before(k, n)
<1>1. \A m \in LiveMappings(c) : m.id \in Nat /\ m.priority \in Nat BY LiveAre, MappingFields
<1>2. \A m, n \in LiveMappings(c) : m.id = n.id => m = n BY LiveAre
<1>3. QED BY <1>1, <1>2 DEF Before

\* A mapping is earlier than another exactly when fewer come before it.
LEMMA RanksAre ==
  ASSUME NEW c \in SoundContexts
  PROVE  /\ Cardinality(LiveMappings(c)) \in Nat
         /\ \A m \in LiveMappings(c) : Rank(LiveMappings(c), m) \in 0 .. Cardinality(LiveMappings(c)) - 1
         /\ \A m, n \in LiveMappings(c) :
                Before(m, n) <=> Rank(LiveMappings(c), m) < Rank(LiveMappings(c), n)
<1> DEFINE live == LiveMappings(c)
           Earlier(m) == {n \in live : Before(n, m)}
<1>1. IsFiniteSet(live) /\ Cardinality(live) \in Nat BY LiveAre, FS_CardinalityType
<1>2. ASSUME NEW m \in live
      PROVE  IsFiniteSet(Earlier(m)) /\ Cardinality(Earlier(m)) \in Nat
             /\ Cardinality(Earlier(m)) < Cardinality(live)
  <2>1. Earlier(m) \in SUBSET live /\ m \notin Earlier(m) BY <1>2, BeforeIsStrict
  <2>2. /\ IsFiniteSet(Earlier(m)) /\ Cardinality(Earlier(m)) <= Cardinality(live)
        /\ Cardinality(Earlier(m)) # Cardinality(live)
    <3> HIDE DEF live, Earlier
    <3>1. Earlier(m) # live BY <1>2, <2>1
    <3>2. QED BY <1>1, <2>1, <3>1, FS_Subset
  <2> HIDE DEF live, Earlier
  <2>3. QED BY <1>1, <2>2, FS_CardinalityType
<1>3. ASSUME NEW m \in live, NEW n \in live, Before(m, n)
      PROVE  Cardinality(Earlier(m)) < Cardinality(Earlier(n))
  <2>1. Earlier(m) \in SUBSET Earlier(n) /\ m \in Earlier(n) /\ m \notin Earlier(m)
    BY <1>3, BeforeIsStrict
  <2> HIDE DEF live, Earlier
  <2>2. Earlier(m) # Earlier(n) BY <2>1
  <2>3. QED BY <1>2, <2>1, <2>2, FS_Subset
<1>4. \A m \in live : Rank(live, m) = Cardinality(Earlier(m)) BY DEF Rank
<1>5. ASSUME NEW m \in live, NEW n \in live, Cardinality(Earlier(m)) < Cardinality(Earlier(n))
      PROVE  Before(m, n)
  <2>1. m # n BY <1>2, <1>5
  <2>2. ~Before(n, m)
    <3> HIDE DEF live, Earlier
    <3>1. QED BY <1>2, <1>3, <1>5
  <2>3. QED BY <2>1, <2>2, BeforeIsStrict
<1> HIDE DEF live, Earlier
<1>6. \A m, n \in live : Before(m, n) <=> Rank(live, m) < Rank(live, n) BY <1>3, <1>4, <1>5
<1>7. \A m \in live : Rank(live, m) \in 0 .. Cardinality(live) - 1 BY <1>1, <1>2, <1>4
<1>8. QED BY <1>1, <1>6, <1>7 DEF live

\* The evaluation order has every live mapping once, the earlier first.
LEMMA OrderIs ==
  ASSUME NEW c \in SoundContexts, NEW ms, ms = OrderedMappings(c)
  PROVE  /\ Len(ms) \in Nat /\ DOMAIN ms = 1 .. Len(ms)
         /\ \A i \in 1 .. Len(ms) : ms[i] \in LiveMappings(c)
         /\ \A m \in LiveMappings(c) : \E i \in 1 .. Len(ms) : ms[i] = m
         /\ \A i, j \in 1 .. Len(ms) : Before(ms[i], ms[j]) => i < j
<1> DEFINE live == LiveMappings(c)
           N == Cardinality(live)
           rank == [m \in live |-> Rank(live, m)]
<1>1. IsFiniteSet(live) /\ N \in Nat BY LiveAre, RanksAre
<1>2. rank \in [live -> 0 .. N - 1] BY RanksAre
<1>3. \A m, n \in live : rank[m] = rank[n] => m = n
  <2> SUFFICES ASSUME NEW m \in live, NEW n \in live, rank[m] = rank[n], m # n PROVE FALSE
    OBVIOUS
  <2>1. Before(m, n) \/ Before(n, m) BY BeforeIsStrict
  <2>2. rank[m] < rank[n] \/ rank[n] < rank[m] BY <2>1, RanksAre
  <2> HIDE DEF rank, N, live
  <2>3. rank[m] \in Nat /\ rank[n] \in Nat BY <1>1, <1>2
  <2>4. QED BY <2>2, <2>3
<1>4. \A i \in 0 .. N - 1 : \E m \in live : rank[m] = i
  <2> HIDE DEF rank, live
  <2>1. rank \in Injection(live, 0 .. N - 1) BY <1>2, <1>3 DEF Injection, IsInjective
  <2>2. IsFiniteSet(0 .. N - 1) /\ Cardinality(0 .. N - 1) = N
    <3> HIDE DEF N
    <3>1. QED BY <1>1, FS_Interval
  <2>3. rank \in Surjection(live, 0 .. N - 1) BY <2>1, <2>2, FS_Injection
  <2>4. QED BY <2>3 DEF Surjection
<1>5. ms = [i \in 1 .. N |-> CHOOSE m \in live : Rank(live, m) = i - 1] BY DEF OrderedMappings
<1>6. \A i \in 1 .. N : ms[i] \in live /\ rank[ms[i]] = i - 1
  <2> SUFFICES ASSUME NEW i \in 1 .. N PROVE ms[i] \in live /\ rank[ms[i]] = i - 1
    OBVIOUS
  <2>1. i - 1 \in 0 .. N - 1 BY <1>1
  <2>2. PICK m \in live : rank[m] = i - 1 BY <1>4, <2>1
  <2>3. \E k \in live : Rank(live, k) = i - 1 BY <2>2
  <2>4. ms[i] = CHOOSE k \in live : Rank(live, k) = i - 1 BY <1>5
  <2>5. ms[i] \in live /\ Rank(live, ms[i]) = i - 1
    <3> HIDE DEF live
    <3>1. QED BY <2>3, <2>4
  <2>6. QED BY <2>5
<1>7. Len(ms) = N /\ DOMAIN ms = 1 .. N
  <2> HIDE DEF N, live
  <2>1. QED BY <1>1, <1>5
<1>8. \A m \in live : \E i \in 1 .. N : ms[i] = m
  <2> SUFFICES ASSUME NEW m \in live PROVE \E i \in 1 .. N : ms[i] = m
    OBVIOUS
  <2> HIDE DEF rank, live, N
  <2>1. rank[m] + 1 \in 1 .. N /\ rank[m] = (rank[m] + 1) - 1 BY <1>1, <1>2
  <2>2. ms[rank[m] + 1] \in live /\ rank[ms[rank[m] + 1]] = rank[m] BY <1>6, <2>1
  <2>3. QED BY <1>3, <2>1, <2>2
<1>9. \A i, j \in 1 .. N : Before(ms[i], ms[j]) => i < j
  <2> SUFFICES ASSUME NEW i \in 1 .. N, NEW j \in 1 .. N, Before(ms[i], ms[j]) PROVE i < j
    OBVIOUS
  <2>1. ms[i] \in live /\ ms[j] \in live /\ rank[ms[i]] = i - 1 /\ rank[ms[j]] = j - 1 BY <1>6
  <2>2. rank[ms[i]] < rank[ms[j]] BY <2>1, RanksAre
  <2>3. QED BY <1>1, <2>1, <2>2
<1> HIDE DEF N
<1>10. QED BY <1>1, <1>6, <1>7, <1>8, <1>9

-----------------------------------------------------------------------------
(* One edge.                                                               *)

Edge == [from : Role, to : Role, authoritative : BOOLEAN]
Entry == [source : Authority, mapping : Nat, priority : 0 .. MaxPriority]
Claims == UNION {[roles -> Entry] : roles \in SUBSET Role}
State == [desired : Claims, controlled : SUBSET Role, changed : BOOLEAN]

LEMMA ClaimsAre ==
  ASSUME NEW f \in Claims
  PROVE  DOMAIN f \subseteq Role /\ \A r \in DOMAIN f : f[r] \in Entry
<1>1. PICK roles \in SUBSET Role : f \in [roles -> Entry] BY DEF Claims
<1> HIDE DEF Claims
<1>2. DOMAIN f = roles BY <1>1
<1>3. QED BY <1>1, <1>2

LEMMA AreClaims ==
  ASSUME NEW roles \in SUBSET Role, NEW f \in [roles -> Entry]
  PROVE  f \in Claims
  BY DEF Claims

\* A mapping has one edge, or two of which neither decides.
LEMMA EdgesAre ==
  ASSUME NEW m \in Mapping, m.source # m.target, NEW edges, edges = EdgesFor(m)
  PROVE  /\ Len(edges) \in {1, 2}
         /\ edges[1] \in MappingEdges(m) /\ (Len(edges) = 2 => edges[2] \in MappingEdges(m))
         /\ \A e \in MappingEdges(m) :
                /\ e \in Edge /\ e.from # e.to /\ {e.from, e.to} \subseteq {m.source, m.target}
                /\ e = edges[1] \/ (Len(edges) = 2 /\ e = edges[2])
                /\ Len(edges) = 2 => ~e.authoritative
<1> DEFINE forth == [from |-> m.source, to |-> m.target, authoritative |-> TRUE]
           back == [from |-> m.target, to |-> m.source, authoritative |-> TRUE]
           copied == [from |-> m.source, to |-> m.target, authoritative |-> FALSE]
           copiedBack == [from |-> m.target, to |-> m.source, authoritative |-> FALSE]
<1>1. m.source \in Role /\ m.target \in Role BY MappingFields
<1>2. edges \in {<<back>>, <<forth>>, <<copied>>, <<copied, copiedBack>>}
  BY DEF EdgesFor
<1> DEFINE Proper(e) == e \in Edge /\ e.from # e.to /\ {e.from, e.to} \subseteq {m.source, m.target}
<1>3. Proper(back) /\ Proper(forth) /\ Proper(copied) /\ Proper(copiedBack)
  BY <1>1 DEF Edge
<1>4. ~copied.authoritative /\ ~copiedBack.authoritative OBVIOUS
<1> HIDE DEF forth, back, copied, copiedBack, Proper
<1>5. MappingEdges(m) = {edges[i] : i \in DOMAIN edges} BY DEF MappingEdges, Range
<1>6. ASSUME NEW x, edges = <<x>>, x \in {back, forth, copied}
      PROVE  MappingEdges(m) = {x} /\ Len(edges) = 1 /\ edges[1] = x
  BY <1>5, <1>6
<1>7. CASE edges = <<copied, copiedBack>>
  <2>1. /\ Len(edges) = 2 /\ DOMAIN edges = {1, 2}
        /\ edges[1] = copied /\ edges[2] = copiedBack
    BY <1>7
  <2>2. MappingEdges(m) = {copied, copiedBack} BY <1>5, <2>1
  <2>3. \A e \in MappingEdges(m) : Proper(e) BY <1>3, <2>2
  <2>4. QED BY <1>4, <2>1, <2>2, <2>3 DEF Proper
<1>8. CASE \E x \in {back, forth, copied} : edges = <<x>>
  <2>1. PICK x \in {back, forth, copied} : edges = <<x>> BY <1>8
  <2>2. MappingEdges(m) = {x} /\ Len(edges) = 1 /\ edges[1] = x BY <1>6, <2>1
  <2>3. \A e \in MappingEdges(m) : Proper(e) BY <1>3, <2>1, <2>2
  <2>4. QED BY <2>2, <2>3 DEF Proper
<1>9. QED BY <1>2, <1>7, <1>8

\* What an edge does to the two maps.
LEMMA EdgeApplied ==
  ASSUME NEW st \in State, NEW m \in Mapping, NEW e \in Edge, NEW seen,
         NEW t, t = ApplyMappingEdge(st, m, e, seen)
  PROVE  /\ t \in State
         /\ DOMAIN t.desired = (DOMAIN st.desired \ (IF Drops(st, m, e, seen) THEN {e.to} ELSE {}))
                               \cup (IF Adds(st, m, e, seen) THEN {e.to} ELSE {})
         /\ \A r \in DOMAIN t.desired : r \in DOMAIN st.desired \ (IF Drops(st, m, e, seen) THEN {e.to} ELSE {})
                                            => t.desired[r] = st.desired[r]
         /\ e.to \notin DOMAIN st.desired /\ e.to \in DOMAIN t.desired => t.desired[e.to] = MappingEntry(m)
         /\ t.controlled = st.controlled \cup (IF Controls(st, m, e, seen) THEN {e.to} ELSE {})
<1> DEFINE adds == Adds(st, m, e, seen)
           drops == Drops(st, m, e, seen)
           controls == Controls(st, m, e, seen)
           kept == DOMAIN st.desired \ (IF drops THEN {e.to} ELSE {})
           wanted == kept \cup (IF adds THEN {e.to} ELSE {})
           claims == [r \in wanted |-> IF r \in kept THEN st.desired[r] ELSE MappingEntry(m)]
<1>1. t = [desired |-> claims,
           controlled |-> st.controlled \cup (IF controls THEN {e.to} ELSE {}),
           changed |-> st.changed \/ adds \/ drops \/ controls]
  BY DEF ApplyMappingEdge
<1>2. e.to \in Role BY DEF Edge
<1>3. MappingEntry(m) \in Entry BY EngineConstants, MappingFields DEF MappingEntry, Entry
<1>4. /\ st.desired \in Claims /\ st.controlled \in SUBSET Role /\ st.changed \in BOOLEAN
  BY DEF State
<1>5. /\ DOMAIN st.desired \subseteq Role /\ \A r \in DOMAIN st.desired : st.desired[r] \in Entry
  BY <1>4, ClaimsAre
<1>6. adds \in BOOLEAN /\ drops \in BOOLEAN /\ controls \in BOOLEAN
  BY MappingFields DEF Adds, Drops, Controls, Edge, Removable
<1> HIDE DEF adds, drops, controls
<1>7. wanted \in SUBSET Role BY <1>2, <1>5
<1>8. claims \in [wanted -> Entry] BY <1>3, <1>5
<1>9. claims \in Claims
  <2> HIDE DEF claims, wanted
  <2>1. QED BY <1>7, <1>8, AreClaims
<1>10. t \in State
  <2> HIDE DEF claims
  <2>1. QED BY <1>1, <1>2, <1>4, <1>6, <1>9 DEF State
<1>11. t.desired = claims /\ t.controlled = st.controlled \cup (IF controls THEN {e.to} ELSE {})
  <2> HIDE DEF claims
  <2>1. QED BY <1>1
<1>12. QED BY <1>10, <1>11 DEF adds, drops, controls

-----------------------------------------------------------------------------
(* What holds in every state of a computation, whatever the order: grants  *)
(* stand, every other claim is a mapping's, what comes under control is    *)
(* computable, and claims stay in a set closed under copying.              *)

Grantable(c) == IF c.linked THEN GrantRole \cap RolesIn(c.guilds) ELSE {}

GrantsStand(c, st) == \A r \in ActiveGrants(c) : r \in DOMAIN st.desired /\ st.desired[r] = GrantEntry

ClaimedBy(c, st, r) ==
    \E m \in LiveMappings(c) : \E e \in MappingEdges(m) : e.to = r /\ st.desired[r] = MappingEntry(m)

SoundStates(c, within) ==
    {st \in State :
        /\ GrantsStand(c, st)
        /\ \A r \in DOMAIN st.desired \ ActiveGrants(c) : ClaimedBy(c, st, r)
        /\ DOMAIN st.desired \subseteq RolesIn(c.guilds) \cap within
        /\ Grantable(c) \subseteq st.controlled /\ st.controlled \subseteq Computable(c)}

\* An edge of a live mapping stays within the guilds of the context.
LEMMA LiveEdges ==
  ASSUME NEW c \in SoundContexts, NEW m \in LiveMappings(c), NEW e \in MappingEdges(m)
  PROVE  /\ m \in Mapping /\ m.source # m.target /\ e \in Edge /\ e.from # e.to
         /\ e.from \in RolesIn(c.guilds) /\ e.to \in RolesIn(c.guilds)
         /\ m.syncAdd => e \in Copying(c)
         /\ Removable(m, e) => e.to \in Computable(c)
<1>1. m \in Mapping /\ m.source # m.target /\ {m.source, m.target} \subseteq RolesIn(c.guilds) BY LiveAre
<1>2. e \in Edge /\ e.from # e.to /\ {e.from, e.to} \subseteq {m.source, m.target} BY <1>1, EdgesAre
<1>3. m.syncAdd => e \in Copying(c) BY DEF Copying
<1>4. Removable(m, e) => e.to \in Computable(c) BY DEF Removable, Computable
<1>5. QED BY <1>1, <1>2, <1>3, <1>4

\* An edge keeps a state sound, if what it copies is in the closed set.
LEMMA EdgeKeeps ==
  ASSUME NEW c \in SoundContexts, NEW m \in LiveMappings(c), NEW e \in MappingEdges(m), NEW seen,
         NEW within, ClosedUnderCopying(c, within),
         NEW st \in SoundStates(c, within), EffectiveHas(st, seen, e.from) => e.from \in within,
         NEW t, t = ApplyMappingEdge(st, m, e, seen)
  PROVE  t \in SoundStates(c, within)
<1>1. m \in Mapping /\ e \in Edge /\ e.to \in RolesIn(c.guilds) BY LiveEdges
<1>2. st \in State BY DEF SoundStates
<1> DEFINE dropped == IF Drops(st, m, e, seen) THEN {e.to} ELSE {}
           added == IF Adds(st, m, e, seen) THEN {e.to} ELSE {}
<1>3. /\ t \in State /\ DOMAIN t.desired = (DOMAIN st.desired \ dropped) \cup added
      /\ \A r \in DOMAIN t.desired : r \in DOMAIN st.desired \ dropped => t.desired[r] = st.desired[r]
      /\ e.to \notin DOMAIN st.desired /\ e.to \in DOMAIN t.desired => t.desired[e.to] = MappingEntry(m)
      /\ t.controlled = st.controlled \cup (IF Controls(st, m, e, seen) THEN {e.to} ELSE {})
  BY <1>1, <1>2, EdgeApplied
<1>4. \A r \in dropped : r \in DOMAIN st.desired \ ActiveGrants(c)
  <2>1. IsGrant(GrantEntry) BY DEF IsGrant, GrantEntry
  <2>2. QED BY <2>1 DEF SoundStates, GrantsStand, Drops
<1>5. \A r \in added : r \in within /\ r \notin DOMAIN st.desired
  BY LiveEdges DEF Adds, ClosedUnderCopying
<1>6. \A r \in dropped \cup added : r = e.to OBVIOUS
<1>7. Controls(st, m, e, seen) => e.to \in Computable(c) BY LiveEdges DEF Controls
<1> HIDE DEF dropped, added
<1>8. GrantsStand(c, t) BY <1>3, <1>4 DEF SoundStates, GrantsStand
<1>9. ASSUME NEW r \in DOMAIN t.desired \ ActiveGrants(c) PROVE ClaimedBy(c, t, r)
  <2>1. CASE r \in DOMAIN st.desired \ dropped
    <3>1. ClaimedBy(c, st, r) BY <1>9, <2>1 DEF SoundStates
    <3>2. QED BY <1>3, <2>1, <3>1 DEF ClaimedBy
  <2>2. CASE r \notin DOMAIN st.desired \ dropped
    <3>1. r \in added /\ r = e.to /\ r \notin DOMAIN st.desired BY <1>3, <1>5, <1>6, <1>9, <2>2
    <3>2. t.desired[r] = MappingEntry(m) BY <1>3, <3>1
    <3>3. QED BY <3>1, <3>2 DEF ClaimedBy
  <2>3. QED BY <2>1, <2>2
<1>10. DOMAIN t.desired \subseteq RolesIn(c.guilds) \cap within
  BY <1>1, <1>3, <1>5, <1>6 DEF SoundStates
<1>11. Grantable(c) \subseteq t.controlled /\ t.controlled \subseteq Computable(c)
  BY <1>3, <1>7 DEF SoundStates
<1>12. QED BY <1>3, <1>8, <1>9, <1>10, <1>11 DEF SoundStates

\* With one edge into each role no claim is ever overridden.
LEMMA NothingDropped ==
  ASSUME NEW c \in SoundContexts, OneEdgePerTarget(c), NEW m \in LiveMappings(c), NEW e \in MappingEdges(m),
         NEW seen, NEW within, NEW st \in SoundStates(c, within)
  PROVE  ~Drops(st, m, e, seen)
<1> SUFFICES ASSUME Drops(st, m, e, seen) PROVE FALSE
  OBVIOUS
<1>1. e.to \in DOMAIN st.desired /\ ~IsGrant(st.desired[e.to]) /\ st.desired[e.to].priority < m.priority
  BY DEF Drops
<1>2. e.to \notin ActiveGrants(c)
  <2>1. IsGrant(GrantEntry) BY DEF IsGrant, GrantEntry
  <2>2. QED BY <1>1, <2>1 DEF SoundStates, GrantsStand
<1>3. ClaimedBy(c, st, e.to) BY <1>1, <1>2 DEF SoundStates
<1>4. PICK n \in LiveMappings(c) : \E f \in MappingEdges(n) : f.to = e.to /\ st.desired[e.to] = MappingEntry(n)
  BY <1>3 DEF ClaimedBy
<1>5. PICK f \in MappingEdges(n) : f.to = e.to BY <1>4
<1>6. <<m, e>> \in EdgesInto(c, e.to) /\ <<n, f>> \in EdgesInto(c, e.to) BY <1>5 DEF EdgesInto
<1>7. e.to \in Role BY LiveEdges DEF Edge
<1>8. <<m, e>> = <<n, f>> BY <1>6, <1>7 DEF OneEdgePerTarget
<1>9. st.desired[e.to] = MappingEntry(m) BY <1>4, <1>8
<1>10. st.desired[e.to].priority = m.priority BY <1>9 DEF MappingEntry
<1>11. m.priority \in Nat BY LiveEdges, MappingFields
<1>12. QED BY <1>1, <1>10, <1>11

-----------------------------------------------------------------------------
(* A whole computation.                                                    *)

\* What the edges of a mapping keep, the mapping keeps.
LEMMA MappingKeeps ==
  ASSUME NEW c \in SoundContexts, NEW m \in LiveMappings(c), NEW seen, NEW kept,
         \A s \in kept : \A e \in MappingEdges(m) : ApplyMappingEdge(s, m, e, seen) \in kept,
         NEW st \in kept
  PROVE  ApplyMapping(st, m, seen) \in kept
<1> DEFINE edges == EdgesFor(m)
<1>1. /\ Len(edges) \in {1, 2} /\ edges[1] \in MappingEdges(m)
      /\ Len(edges) = 2 => edges[2] \in MappingEdges(m)
  BY LiveAre, EdgesAre
<1>2. ApplyMapping(st, m, seen) =
        LET first == ApplyMappingEdge(st, m, edges[1], seen)
        IN  IF Len(edges) = 1 THEN first ELSE ApplyMappingEdge(first, m, edges[2], seen)
  BY DEF ApplyMapping
<1> HIDE DEF edges
<1>3. QED BY <1>1, <1>2

LEMMA UnchangedState ==
  ASSUME NEW st \in State
  PROVE  LET t == [st EXCEPT !.changed = FALSE]
         IN  t \in State /\ t.desired = st.desired /\ t.controlled = st.controlled /\ t.changed = FALSE
<1>1. ASSUME NEW C, NEW S, NEW x \in [desired : C, controlled : S, changed : BOOLEAN]
      PROVE  LET y == [x EXCEPT !.changed = FALSE]
             IN  /\ y \in [desired : C, controlled : S, changed : BOOLEAN]
                 /\ y.desired = x.desired /\ y.controlled = x.controlled /\ y.changed = FALSE
  OBVIOUS
<1>2. QED BY <1>1 DEF State

\* Whether the latest pass has changed anything does not matter.
LEMMA ChangedIsFree ==
  ASSUME NEW c, NEW within, NEW st \in SoundStates(c, within)
  PROVE  LET t == [st EXCEPT !.changed = FALSE]
         IN  /\ t \in SoundStates(c, within) /\ t \in State
             /\ t.desired = st.desired /\ t.controlled = st.controlled
<1> DEFINE t == [st EXCEPT !.changed = FALSE]
<1>1. st \in State BY DEF SoundStates
<1>2. t \in State /\ t.desired = st.desired /\ t.controlled = st.controlled BY <1>1, UnchangedState
<1> HIDE DEF t
<1>3. t \in SoundStates(c, within) BY <1>2 DEF SoundStates, GrantsStand, ClaimedBy
<1>4. QED BY <1>2, <1>3 DEF t

\* What every edge keeps a pass keeps.
LEMMA PassCarries ==
  ASSUME NEW c \in SoundContexts, NEW seen, NEW kept,
         \A m \in LiveMappings(c) : \A s \in kept : \A e \in MappingEdges(m) :
             ApplyMappingEdge(s, m, e, seen) \in kept,
         NEW st, [st EXCEPT !.changed = FALSE] \in kept
  PROVE  MappingPass(st, OrderedMappings(c), seen) \in kept
<1> DEFINE ms == OrderedMappings(c)
           J == [i \in 0 .. Len(ms) |-> kept]
<1>1. Len(ms) \in Nat /\ \A i \in 1 .. Len(ms) : ms[i] \in LiveMappings(c) BY OrderIs
<1> HIDE DEF ms
<1>2. \A i \in 0 .. Len(ms) : J[i] = kept OBVIOUS
<1>3. \A i \in 1 .. Len(ms) : i \in 0 .. Len(ms) /\ i - 1 \in 0 .. Len(ms) BY <1>1
<1> HIDE DEF J
<1>4. \A i \in 1 .. Len(ms) : \A s \in kept : ApplyMapping(s, ms[i], seen) \in kept
  BY <1>1, MappingKeeps
<1>5. \A i \in 1 .. Len(ms) : \A s \in J[i - 1] : ApplyMapping(s, ms[i], seen) \in J[i]
  BY <1>2, <1>3, <1>4
<1>6. [st EXCEPT !.changed = FALSE] \in J[0] BY <1>1, <1>2
<1>7. MappingPass(st, ms, seen) \in J[Len(ms)] BY <1>1, <1>5, <1>6, PassFollows
<1>8. QED BY <1>1, <1>2, <1>7 DEF ms

LEMMA PassKeeps ==
  ASSUME NEW c \in SoundContexts, NEW seen, NEW kept,
         \A s \in kept : [s EXCEPT !.changed = FALSE] \in kept,
         \A m \in LiveMappings(c) : \A s \in kept : \A e \in MappingEdges(m) :
             ApplyMappingEdge(s, m, e, seen) \in kept,
         NEW st \in kept
  PROVE  MappingPass(st, OrderedMappings(c), seen) \in kept
<1>1. [st EXCEPT !.changed = FALSE] \in kept OBVIOUS
<1>2. QED BY <1>1, PassCarries

\* A computation begins with the grants alone.
LEMMA StartIsSound ==
  ASSUME NEW c \in SoundContexts, NEW within, ActiveGrants(c) \subseteq within
  PROVE  /\ ApplyManualGrants(c) \in SoundStates(c, within)
         /\ ApplyManualGrants(c).changed = TRUE
         /\ DOMAIN ApplyManualGrants(c).desired = ActiveGrants(c)
         /\ ApplyManualGrants(c).controlled = Grantable(c)
<1> DEFINE st == ApplyManualGrants(c)
           claims == [r \in ActiveGrants(c) |-> GrantEntry]
<1>1. c.grants \subseteq Role /\ c.linked \in BOOLEAN BY SoundContextsAre
<1>2. Grantable(c) \cap c.grants = ActiveGrants(c) BY DEF Grantable, ActiveGrants
<1>3. st = [desired |-> claims, controlled |-> Grantable(c), changed |-> TRUE]
  BY <1>2 DEF ApplyManualGrants, Grantable
<1>4. /\ Grantable(c) \subseteq Role /\ ActiveGrants(c) \subseteq Role
      /\ Grantable(c) \subseteq RolesIn(c.guilds) /\ ActiveGrants(c) \subseteq RolesIn(c.guilds)
      /\ Grantable(c) \subseteq Computable(c)
  BY DEF Grantable, ActiveGrants, RolesIn, Computable
<1>5. GrantEntry \in Entry BY EngineConstants DEF GrantEntry, Entry, Authority
<1>6. claims \in [ActiveGrants(c) -> Entry] BY <1>5
<1>7. claims \in Claims
  <2> HIDE DEF claims
  <2>1. QED BY <1>4, <1>6, AreClaims
<1>8. DOMAIN claims = ActiveGrants(c) /\ \A r \in ActiveGrants(c) : claims[r] = GrantEntry OBVIOUS
<1> HIDE DEF claims, st
<1>9. st \in State BY <1>3, <1>4, <1>7 DEF State
<1>10. st.desired = claims /\ st.controlled = Grantable(c) /\ st.changed = TRUE BY <1>3
<1>11. st \in SoundStates(c, within)
  BY <1>4, <1>8, <1>9, <1>10 DEF SoundStates, GrantsStand
<1>12. QED BY <1>8, <1>10, <1>11 DEF st

\* What a computation comes to is sound, for any order of mappings.
LEMMA ComputedIsSound ==
  ASSUME NEW c \in SoundContexts, NEW held, NEW read,
         NEW within, Seen(held, read) \cup ActiveGrants(c) \subseteq within, ClosedUnderCopying(c, within)
  PROVE  ComputeDesiredState(c, held, read) \in SoundStates(c, within)
<1> DEFINE seen == Seen(held, read)
           sound == SoundStates(c, within)
           ms == OrderedMappings(c)
           K == [n \in 0 .. MaxMappingPasses |-> sound]
<1>1. ASSUME NEW m \in LiveMappings(c), NEW s \in sound, NEW e \in MappingEdges(m)
      PROVE  ApplyMappingEdge(s, m, e, seen) \in sound
  <2>1. EffectiveHas(s, seen, e.from) => e.from \in within BY DEF EffectiveHas, SoundStates
  <2>2. QED BY <2>1, EdgeKeeps
<1>2. \A s \in sound : [s EXCEPT !.changed = FALSE] \in sound BY ChangedIsFree
<1> HIDE DEF sound, seen, ms
<1>3. \A s \in sound : MappingPass(s, ms, seen) \in sound BY <1>1, <1>2, PassKeeps DEF ms
<1>4. \A s \in sound : NextPass(s, ms, seen) \in sound BY <1>3 DEF NextPass
<1>5. ApplyManualGrants(c) \in sound BY StartIsSound DEF sound
<1>6. MaxMappingPasses \in Nat BY DEF MaxMappingPasses
<1>7. \A n \in 0 .. MaxMappingPasses : K[n] = sound OBVIOUS
<1> HIDE DEF K
<1>8. /\ ApplyManualGrants(c) \in K[0]
      /\ \A n \in 1 .. MaxMappingPasses : \A s \in K[n - 1] : NextPass(s, ms, seen) \in K[n]
  BY <1>4, <1>5, <1>6, <1>7
<1>9. ApplyMappings(ApplyManualGrants(c), ms, seen) \in K[MaxMappingPasses] BY <1>8, PassesFollow
<1>10. QED BY <1>6, <1>7, <1>9 DEF ComputeDesiredState, ms, seen, sound

-----------------------------------------------------------------------------
(* What one run may do.                                                    *)

\* What can be reached by copying is the least closed set.
LEMMA ReachableIs ==
  ASSUME NEW c \in SoundContexts, NEW held \in SUBSET Role
  PROVE  /\ held \subseteq Reachable(c, held) /\ Reachable(c, held) \in SUBSET Role
         /\ ClosedUnderCopying(c, Reachable(c, held))
         /\ \A roles \in SUBSET Role :
                held \subseteq roles /\ ClosedUnderCopying(c, roles) => Reachable(c, held) \subseteq roles
<1>1. \A e \in Copying(c) : e.to \in Role
  BY LiveEdges DEF Copying, Edge
<1>2. ASSUME NEW e \in Copying(c), e.from \in Reachable(c, held) PROVE e.to \in Reachable(c, held)
  <2> SUFFICES ASSUME NEW roles \in SUBSET Role, held \subseteq roles, ClosedUnderCopying(c, roles)
               PROVE  e.to \in roles
    BY <1>1 DEF Reachable
  <2>1. e.from \in roles BY <1>2 DEF Reachable
  <2>2. QED BY <2>1 DEF ClosedUnderCopying
<1>3. ClosedUnderCopying(c, Reachable(c, held)) BY <1>2 DEF ClosedUnderCopying
<1>4. QED BY <1>3 DEF Reachable

LEMMA BeginningsAre ==
  ASSUME NEW c \in SoundContexts, NEW held \in SUBSET Role, NEW read
  PROVE  Seen(held, read) \in SUBSET Role /\ ActiveGrants(c) \in SUBSET Role
  BY DEF Seen, ActiveGrants, RolesIn

\* The plan of a run, from what its computation has come to.
LEMMA PlanIs ==
  ASSUME NEW c \in SoundContexts, NEW held \in SUBSET Role, NEW read
  PROVE  LET plan == PlanForMember(c, held, read)
         IN  /\ plan.remove \subseteq Computable(c) /\ plan.remove \cap ActiveGrants(c) = {}
             /\ plan.add \subseteq Reachable(c, Seen(held, read) \cup ActiveGrants(c))
             /\ \A r \in ActiveGrants(c) : GuildOf[r] \in read => r \in held \cup plan.add
<1> DEFINE from == Seen(held, read) \cup ActiveGrants(c)
           within == Reachable(c, from)
           state == ComputeDesiredState(c, held, read)
<1>1. from \in SUBSET Role BY BeginningsAre
<1>2. from \subseteq within /\ ClosedUnderCopying(c, within) BY <1>1, ReachableIs
<1>3. state \in SoundStates(c, within) BY <1>2, ComputedIsSound
<1> HIDE DEF within, state
<1>4. /\ ActiveGrants(c) \subseteq DOMAIN state.desired /\ DOMAIN state.desired \subseteq within
      /\ state.controlled \subseteq Computable(c)
  BY <1>3 DEF SoundStates, GrantsStand
<1>5. PlanForMember(c, held, read) =
        [add |-> (DOMAIN state.desired \ held) \cap RolesIn(read),
         remove |-> (state.controlled \cap held \cap RolesIn(read)) \ DOMAIN state.desired]
  BY DEF PlanForMember, DiffMemberState, state
<1>6. \A r \in ActiveGrants(c) : GuildOf[r] \in read => r \in RolesIn(read)
  BY BeginningsAre DEF RolesIn
<1> DEFINE plan == PlanForMember(c, held, read)
<1>7. /\ plan.add = (DOMAIN state.desired \ held) \cap RolesIn(read)
      /\ plan.remove = (state.controlled \cap held \cap RolesIn(read)) \ DOMAIN state.desired
  BY <1>5
<1> HIDE DEF plan, from
<1>8. plan.remove \subseteq Computable(c) /\ plan.remove \cap ActiveGrants(c) = {} BY <1>4, <1>7
<1>9. plan.add \subseteq within BY <1>4, <1>7
<1>10. \A r \in ActiveGrants(c) : GuildOf[r] \in read => r \in held \cup plan.add BY <1>4, <1>6, <1>7
<1>11. QED BY <1>8, <1>9, <1>10 DEF within, plan, from

Run == ctx \in SoundContexts /\ actual \in SUBSET Role

LEMMA AppliedIs ==
  ASSUME NEW plan, NEW held, NEW now, now = Applied(plan, held)
  PROVE  /\ held \ now \subseteq plan.remove /\ now \ held \subseteq plan.add
         /\ \A r \in held \cup plan.add : r \notin plan.remove => r \in now
  BY DEF Applied

LEMMA RunsAre == RunsSpec => []Run
<1>1. RunsInit => Run BY ContextsAreSound DEF RunsInit, Run
<1>2. Run /\ [RunsNext]_runsVars => Run'
  <2> SUFFICES ASSUME Run, [RunsNext]_runsVars PROVE Run'
    OBVIOUS
  <2>1. ASSUME NEW read \in SUBSET ctx.guilds, Reconcile(read) PROVE Run'
    <3>1. PlanForMember(ctx, actual, read).add
             \subseteq Reachable(ctx, Seen(actual, read) \cup ActiveGrants(ctx))
      BY PlanIs DEF Run
    <3>2. PlanForMember(ctx, actual, read).add \subseteq Role BY <3>1 DEF Reachable
    <3>3. actual' \subseteq Role BY <2>1, <3>2 DEF Reconcile, Applied, Run
    <3>4. QED BY <2>1, <3>3 DEF Reconcile, Run
  <2>2. UNCHANGED runsVars => Run' BY DEF Run, runsVars
  <2>3. QED BY <2>1, <2>2 DEF RunsNext
<1>3. QED BY <1>1, <1>2, PTL DEF RunsSpec

\* A run takes away only roles whose value the platform computes (diff.js).
THEOREM OnlyComputableIsRemoved == RunsSpec => RemovesOnlyComputable
<1>1. Run /\ [RunsNext]_runsVars => [actual \ actual' \subseteq Computable(ctx)]_runsVars
  <2> SUFFICES ASSUME Run, NEW read \in SUBSET ctx.guilds, Reconcile(read)
               PROVE  actual \ actual' \subseteq Computable(ctx)
    BY DEF RunsNext
  <2>1. actual' = Applied(PlanForMember(ctx, actual, read), actual) BY DEF Reconcile
  <2>2. actual \ actual' \subseteq PlanForMember(ctx, actual, read).remove BY <2>1, AppliedIs
  <2>3. QED BY <2>2, PlanIs DEF Run
<1>2. QED BY <1>1, RunsAre, PTL DEF RunsSpec, RemovesOnlyComputable

\* A run gives only roles that are granted, or copied from a granted role or one
\* that was seen, in any number of steps (desired-state.js).
THEOREM AdditionsAreJustified == RunsSpec => AddsAreJustified
<1>1. Run /\ [RunsNext]_runsVars =>
        [actual' \ actual \subseteq Reachable(ctx, Seen(actual, readable') \cup ActiveGrants(ctx))]_runsVars
  <2> SUFFICES ASSUME Run, NEW read \in SUBSET ctx.guilds, Reconcile(read)
               PROVE  actual' \ actual \subseteq Reachable(ctx, Seen(actual, readable') \cup ActiveGrants(ctx))
    BY DEF RunsNext
  <2>1. readable' = read /\ actual' = Applied(PlanForMember(ctx, actual, read), actual) BY DEF Reconcile
  <2>2. actual' \ actual \subseteq PlanForMember(ctx, actual, read).add BY <2>1, AppliedIs
  <2>3. QED BY <2>1, <2>2, PlanIs DEF Run
<1>2. QED BY <1>1, RunsAre, PTL DEF RunsSpec, AddsAreJustified

\* No mapping of whatever priority keeps a granted role from its holder
\* (manual grants outrank every mapping, desired-state.js).
THEOREM GrantsAlwaysWin == RunsSpec => GrantsWin
<1>1. Run /\ [RunsNext]_runsVars =>
        [\A r \in ActiveGrants(ctx) : /\ r \in actual => r \in actual'
                                      /\ GuildOf[r] \in readable' => r \in actual']_runsVars
  <2> SUFFICES ASSUME Run, NEW read \in SUBSET ctx.guilds, Reconcile(read), NEW r \in ActiveGrants(ctx)
               PROVE  /\ r \in actual => r \in actual'
                      /\ GuildOf[r] \in readable' => r \in actual'
    BY DEF RunsNext
  <2>1. readable' = read /\ actual' = Applied(PlanForMember(ctx, actual, read), actual) BY DEF Reconcile
  <2>2. \A x \in actual \cup PlanForMember(ctx, actual, read).add :
            x \notin PlanForMember(ctx, actual, read).remove => x \in actual'
    BY <2>1, AppliedIs
  <2>3. /\ r \notin PlanForMember(ctx, actual, read).remove
        /\ GuildOf[r] \in read => r \in actual \cup PlanForMember(ctx, actual, read).add
    BY PlanIs DEF Run
  <2>4. QED BY <2>1, <2>2, <2>3
<1>2. QED BY <1>1, RunsAre, PTL DEF RunsSpec, GrantsWin

-----------------------------------------------------------------------------
(* Where mappings that feed others are evaluated first.  An edge is settled *)
(* when what it removes is under control and what it copies has arrived.   *)

Pairs(c) == UNION {{<<m, e>> : e \in MappingEdges(m)} : m \in LiveMappings(c)}

CopyArrived(st, seen, m, e) ==
    m.syncAdd /\ EffectiveHas(st, seen, e.from) => EffectiveHas(st, seen, e.to)

SettledStates(c, within, seen, done) ==
    {st \in SoundStates(c, within) :
        \A pair \in done : /\ Removable(pair[1], pair[2]) => pair[2].to \in st.controlled
                           /\ CopyArrived(st, seen, pair[1], pair[2])}

LEMMA PairsAre ==
  ASSUME NEW c, NEW pair \in Pairs(c)
  PROVE  /\ pair[1] \in LiveMappings(c) /\ pair[2] \in MappingEdges(pair[1])
         /\ pair = <<pair[1], pair[2]>> /\ pair \in EdgesInto(c, pair[2].to)
<1>1. PICK m \in LiveMappings(c) : pair \in {<<m, e>> : e \in MappingEdges(m)} BY DEF Pairs
<1>2. PICK e \in MappingEdges(m) : pair = <<m, e>> BY <1>1
<1>3. <<m, e>> \in EdgesInto(c, e.to) BY DEF EdgesInto
<1>4. QED BY <1>2, <1>3

\* A role read in Discord that is not under control yet, when all edges that
\* feed a mapping have been evaluated, never comes under it.
LEMMA OriginsAreKnown ==
  ASSUME NEW c \in SoundContexts, NEW m \in LiveMappings(c), NEW e \in MappingEdges(m),
         NEW seen, NEW within, seen \ Computable(c) \subseteq within,
         NEW done, NEW st \in SettledStates(c, within, seen, done),
         \A n \in LiveMappings(c) : \A f \in MappingEdges(n) : n # m /\ f.to = e.from => <<n, f>> \in done,
         EffectiveHas(st, seen, e.from)
  PROVE  e.from \in within
<1>1. st \in SoundStates(c, within) BY DEF SettledStates
<1>2. CASE e.from \in DOMAIN st.desired BY <1>1, <1>2 DEF SoundStates
<1>3. CASE e.from \notin DOMAIN st.desired
  <2>1. e.from \notin st.controlled /\ e.from \in seen BY <1>3 DEF EffectiveHas
  <2>2. e.from \notin Grantable(c) BY <1>1, <2>1 DEF SoundStates
  <2>3. ASSUME NEW n \in LiveMappings(c), NEW f \in MappingEdges(n),
               f.authoritative, n.syncRemove, f.to = e.from
        PROVE  FALSE
    <3>1. CASE n = m
      <4>1. e = f
        <5>1. /\ m \in Mapping /\ m.source # m.target /\ e \in MappingEdges(m) /\ f \in MappingEdges(m)
          BY <3>1, LiveEdges
        <5>2. QED BY <2>3, <5>1, EdgesAre
      <4>2. QED BY <2>3, <4>1, LiveEdges
    <3>2. CASE n # m
      <4>1. <<n, f>> \in done /\ Removable(n, f) BY <2>3, <3>2 DEF Removable
      <4>2. f.to \in st.controlled BY <4>1 DEF SettledStates
      <4>3. QED BY <2>1, <2>3, <4>2
    <3>3. QED BY <3>1, <3>2
  <2>4. e.from \notin Computable(c) BY <2>2, <2>3 DEF Computable, Grantable
  <2>5. QED BY <2>1, <2>4
<1>4. QED BY <1>2, <1>3

\* An edge changes nothing but the role it leads to.
LEMMA OnlyTargetsChange ==
  ASSUME NEW c \in SoundContexts, OneEdgePerTarget(c), NEW m \in LiveMappings(c), NEW e \in MappingEdges(m),
         NEW seen, NEW within, NEW st \in SoundStates(c, within),
         NEW t, t = ApplyMappingEdge(st, m, e, seen)
  PROVE  /\ \A r : r # e.to => (EffectiveHas(t, seen, r) <=> EffectiveHas(st, seen, r))
         /\ Adds(st, m, e, seen) => EffectiveHas(t, seen, e.to)
         /\ EffectiveHas(t, seen, e.to) => EffectiveHas(st, seen, e.to) \/ Adds(st, m, e, seen)
         /\ EffectiveHas(st, seen, e.to) /\ e.to \in st.controlled => EffectiveHas(t, seen, e.to)
         /\ EffectiveHas(st, seen, e.to) /\ ~Removable(m, e) => EffectiveHas(t, seen, e.to)
         /\ DOMAIN t.desired = DOMAIN st.desired \cup (IF Adds(st, m, e, seen) THEN {e.to} ELSE {})
         /\ t.controlled = st.controlled \cup (IF Controls(st, m, e, seen) THEN {e.to} ELSE {})
<1>1. m \in Mapping /\ e \in Edge BY LiveEdges
<1>2. st \in State BY DEF SoundStates
<1>3. ~Drops(st, m, e, seen) BY NothingDropped
<1>4. /\ DOMAIN t.desired = DOMAIN st.desired \cup (IF Adds(st, m, e, seen) THEN {e.to} ELSE {})
      /\ t.controlled = st.controlled \cup (IF Controls(st, m, e, seen) THEN {e.to} ELSE {})
  BY <1>1, <1>2, <1>3, EdgeApplied
<1>5. Controls(st, m, e, seen) => Removable(m, e) /\ e.to \notin st.controlled BY DEF Controls
<1>6. QED BY <1>4, <1>5 DEF EffectiveHas

\* In the first pass an edge is settled when it is evaluated, after all that
\* feed its mapping and before all that its mapping feeds.
LEMMA EdgeSettles ==
  ASSUME NEW c \in SoundContexts, OneEdgePerTarget(c), EvaluatedUpstreamFirst(c),
         NEW m \in LiveMappings(c), NEW e \in MappingEdges(m), NEW seen,
         NEW within, seen \ Computable(c) \subseteq within, ClosedUnderCopying(c, within),
         NEW done \in SUBSET Pairs(c),
         \A n \in LiveMappings(c) : \A f \in MappingEdges(n) : Before(n, m) => <<n, f>> \in done,
         \A pair \in done : ~Before(m, pair[1]),
         NEW st \in SettledStates(c, within, seen, done),
         NEW t, t = ApplyMappingEdge(st, m, e, seen)
  PROVE  t \in SettledStates(c, within, seen, done \cup {<<m, e>>})
<1>1. st \in SoundStates(c, within) BY DEF SettledStates
<1>2. e.from # e.to /\ e.to \in Role BY LiveEdges DEF Edge
<1>3. \A n \in LiveMappings(c) : \A f \in MappingEdges(n) : n # m /\ f.to = e.from => <<n, f>> \in done
  BY DEF EvaluatedUpstreamFirst
<1>4. EffectiveHas(st, seen, e.from) => e.from \in within BY <1>3, OriginsAreKnown
<1>5. t \in SoundStates(c, within) BY <1>1, <1>4, EdgeKeeps
<1>6. /\ \A r : r # e.to => (EffectiveHas(t, seen, r) <=> EffectiveHas(st, seen, r))
      /\ Adds(st, m, e, seen) => EffectiveHas(t, seen, e.to)
      /\ EffectiveHas(t, seen, e.to) => EffectiveHas(st, seen, e.to) \/ Adds(st, m, e, seen)
      /\ DOMAIN t.desired = DOMAIN st.desired \cup (IF Adds(st, m, e, seen) THEN {e.to} ELSE {})
      /\ t.controlled = st.controlled \cup (IF Controls(st, m, e, seen) THEN {e.to} ELSE {})
  BY <1>1, OnlyTargetsChange
<1>7. CopyArrived(t, seen, m, e)
  <2> SUFFICES ASSUME m.syncAdd, EffectiveHas(t, seen, e.from) PROVE EffectiveHas(t, seen, e.to)
    BY DEF CopyArrived
  <2>1. EffectiveHas(st, seen, e.from) BY <1>2, <1>6
  <2>2. CASE e.to \in DOMAIN st.desired BY <1>6, <2>2 DEF EffectiveHas
  <2>3. CASE e.to \notin DOMAIN st.desired BY <1>6, <2>1, <2>3 DEF Adds
  <2>4. QED BY <2>2, <2>3
<1>8. Removable(m, e) => e.to \in t.controlled BY <1>6 DEF Controls
<1>9. ASSUME NEW pair \in done, pair # <<m, e>>
      PROVE  /\ Removable(pair[1], pair[2]) => pair[2].to \in t.controlled
             /\ CopyArrived(t, seen, pair[1], pair[2])
  <2> DEFINE n == pair[1]
             f == pair[2]
  <2>1. n \in LiveMappings(c) /\ f \in MappingEdges(n) /\ pair = <<n, f>> /\ pair \in EdgesInto(c, f.to)
    BY PairsAre
  <2>2. /\ Removable(n, f) => f.to \in st.controlled
        /\ CopyArrived(st, seen, n, f)
    BY DEF SettledStates
  <2>3. <<m, e>> \in EdgesInto(c, e.to) BY DEF EdgesInto
  <2> HIDE DEF n, f
  <2>4. f.to # e.to BY <1>2, <1>9, <2>1, <2>3 DEF OneEdgePerTarget
  <2>5. Removable(n, f) => f.to \in t.controlled BY <1>6, <2>2
  <2>6. ASSUME n.syncAdd, EffectiveHas(t, seen, f.from) PROVE EffectiveHas(t, seen, f.to)
    <3>1. CASE f.from # e.to BY <1>6, <2>2, <2>4, <2>6, <3>1 DEF CopyArrived
    <3>2. CASE f.from = e.to
      <4>1. ~Before(m, n) BY DEF n
      <4>2. n = m BY <2>1, <3>2, <4>1 DEF EvaluatedUpstreamFirst
      <4>3. f.to = e.from
        <5>1. m \in Mapping /\ m.source # m.target /\ f \in MappingEdges(m) BY <2>1, <4>2, LiveEdges
        <5>2. /\ f.from # f.to /\ {f.from, f.to} \subseteq {m.source, m.target}
              /\ e.from # e.to /\ {e.from, e.to} \subseteq {m.source, m.target}
          BY <5>1, EdgesAre
        <5>3. QED BY <3>2, <5>2
      <4>4. EffectiveHas(st, seen, f.to) BY <1>6, <2>2, <2>6, <3>2, <4>3 DEF CopyArrived, Adds
      <4>5. QED BY <1>6, <2>4, <4>4
    <3>3. QED BY <3>1, <3>2
  <2>7. QED BY <2>5, <2>6 DEF CopyArrived, n, f
<1>10. \A pair \in done \cup {<<m, e>>} :
           /\ Removable(pair[1], pair[2]) => pair[2].to \in t.controlled
           /\ CopyArrived(t, seen, pair[1], pair[2])
  BY <1>7, <1>8, <1>9
<1>11. QED BY <1>5, <1>10 DEF SettledStates

\* When everything is settled, everything computable is under control.
LEMMA AllControlled ==
  ASSUME NEW c, NEW within, NEW seen, NEW st \in SettledStates(c, within, seen, Pairs(c))
  PROVE  st.controlled = Computable(c)
<1>1. Grantable(c) \subseteq st.controlled /\ st.controlled \subseteq Computable(c)
  BY DEF SettledStates, SoundStates
<1>2. ASSUME NEW m \in LiveMappings(c), NEW e \in MappingEdges(m), e.authoritative, m.syncRemove
      PROVE  e.to \in st.controlled
  <2>1. <<m, e>> \in Pairs(c) /\ Removable(m, e) BY <1>2 DEF Pairs, Removable
  <2>2. QED BY <2>1 DEF SettledStates
<1>3. QED BY <1>1, <1>2 DEF Computable, Grantable

\* After that every edge leaves it so.
LEMMA SettledStays ==
  ASSUME NEW c \in SoundContexts, OneEdgePerTarget(c), NEW m \in LiveMappings(c), NEW e \in MappingEdges(m),
         NEW seen, NEW within, seen \ Computable(c) \subseteq within, ClosedUnderCopying(c, within),
         NEW st \in SettledStates(c, within, seen, Pairs(c)),
         NEW t, t = ApplyMappingEdge(st, m, e, seen)
  PROVE  t \in SettledStates(c, within, seen, Pairs(c))
<1>1. st \in SoundStates(c, within) BY DEF SettledStates
<1>2. \A n \in LiveMappings(c) : \A f \in MappingEdges(n) : <<n, f>> \in Pairs(c) BY DEF Pairs
<1>3. EffectiveHas(st, seen, e.from) => e.from \in within BY <1>2, OriginsAreKnown
<1>4. t \in SoundStates(c, within) BY <1>1, <1>3, EdgeKeeps
<1>5. /\ \A r : r # e.to => (EffectiveHas(t, seen, r) <=> EffectiveHas(st, seen, r))
      /\ EffectiveHas(t, seen, e.to) => EffectiveHas(st, seen, e.to) \/ Adds(st, m, e, seen)
      /\ EffectiveHas(st, seen, e.to) /\ e.to \in st.controlled => EffectiveHas(t, seen, e.to)
      /\ EffectiveHas(st, seen, e.to) /\ ~Removable(m, e) => EffectiveHas(t, seen, e.to)
      /\ t.controlled = st.controlled \cup (IF Controls(st, m, e, seen) THEN {e.to} ELSE {})
  BY <1>1, OnlyTargetsChange
<1>6. /\ CopyArrived(st, seen, m, e)
      /\ Removable(m, e) => e.to \in st.controlled
  BY <1>2 DEF SettledStates
<1>7. \A r : EffectiveHas(t, seen, r) <=> EffectiveHas(st, seen, r)
  BY <1>5, <1>6 DEF CopyArrived, Adds
<1>8. \A pair \in Pairs(c) : /\ Removable(pair[1], pair[2]) => pair[2].to \in t.controlled
                             /\ CopyArrived(t, seen, pair[1], pair[2])
  BY <1>5, <1>7 DEF SettledStates, CopyArrived
<1>9. QED BY <1>4, <1>8 DEF SettledStates

\* The first pass settles everything.
LEMMA FirstPassSettles ==
  ASSUME NEW c \in SoundContexts, OneEdgePerTarget(c), EvaluatedUpstreamFirst(c), NEW seen,
         NEW within, seen \ Computable(c) \subseteq within, ClosedUnderCopying(c, within),
         NEW st \in SoundStates(c, within)
  PROVE  MappingPass(st, OrderedMappings(c), seen) \in SettledStates(c, within, seen, Pairs(c))
<1> DEFINE ms == OrderedMappings(c)
           N == Len(ms)
           Upto(i) == {pair \in Pairs(c) : \E j \in 1 .. i : pair[1] = ms[j]}
           J == [i \in 0 .. N |-> SettledStates(c, within, seen, Upto(i))]
<1>1. /\ N \in Nat
      /\ \A i \in 1 .. N : ms[i] \in LiveMappings(c)
      /\ \A m \in LiveMappings(c) : \E i \in 1 .. N : ms[i] = m
      /\ \A i, j \in 1 .. N : Before(ms[i], ms[j]) => i < j
  BY OrderIs
<1> HIDE DEF ms, N
<1>2. ASSUME NEW i \in 1 .. N, NEW s \in SettledStates(c, within, seen, Upto(i - 1))
      PROVE  ApplyMapping(s, ms[i], seen) \in SettledStates(c, within, seen, Upto(i))
  <2> DEFINE m == ms[i]
             edges == EdgesFor(m)
             first == ApplyMappingEdge(s, m, edges[1], seen)
  <2>1. m \in LiveMappings(c) BY <1>1
  <2>2. i \in Nat /\ i - 1 \in Nat /\ i - 1 < i /\ 1 .. i - 1 \subseteq 1 .. N /\ 1 .. i \subseteq 1 .. N
    BY <1>1
  <2>3. \A n \in LiveMappings(c) : \A f \in MappingEdges(n) : Before(n, m) => <<n, f>> \in Upto(i - 1)
    <3> SUFFICES ASSUME NEW n \in LiveMappings(c), NEW f \in MappingEdges(n), Before(n, m)
                 PROVE  <<n, f>> \in Upto(i - 1)
      OBVIOUS
    <3>1. PICK j \in 1 .. N : ms[j] = n BY <1>1
    <3>2. j < i BY <1>1, <3>1
    <3>3. j \in 1 .. i - 1 BY <1>1, <3>2
    <3>4. <<n, f>> \in Pairs(c) BY DEF Pairs
    <3>5. QED BY <3>1, <3>3, <3>4
  <2>4. \A pair \in Pairs(c) : (\E j \in 1 .. i : pair[1] = ms[j]) => ~Before(m, pair[1])
    <3> SUFFICES ASSUME NEW j \in 1 .. i, Before(ms[i], ms[j]) PROVE FALSE
      OBVIOUS
    <3>1. j \in 1 .. N /\ j <= i BY <2>2
    <3>2. i < j BY <1>1, <3>1
    <3>3. QED BY <2>2, <3>1, <3>2
  <2>5. /\ Len(edges) \in {1, 2} /\ edges[1] \in MappingEdges(m)
        /\ Len(edges) = 2 => edges[2] \in MappingEdges(m)
        /\ \A e \in MappingEdges(m) : e = edges[1] \/ (Len(edges) = 2 /\ e = edges[2])
    BY <2>1, LiveAre, EdgesAre
  <2>6. Upto(i - 1) \subseteq Upto(i) /\ Upto(i) \in SUBSET Pairs(c)
        /\ \A e \in MappingEdges(m) : <<m, e>> \in Upto(i)
    <3>1. \A e \in MappingEdges(m) : <<m, e>> \in Pairs(c) BY <2>1 DEF Pairs
    <3>2. QED BY <2>2, <3>1
  <2>7. Upto(i) \subseteq Upto(i - 1) \cup {<<m, e>> : e \in MappingEdges(m)}
    <3> SUFFICES ASSUME NEW pair \in Pairs(c), NEW j \in 1 .. i, pair[1] = ms[j], j \notin 1 .. i - 1
                 PROVE  pair \in {<<m, e>> : e \in MappingEdges(m)}
      OBVIOUS
    <3>1. j = i BY <2>2
    <3>2. QED BY <3>1, PairsAre
  <2>8. \A pair \in Upto(i) : ~Before(m, pair[1]) BY <2>4
  <2>9. ApplyMapping(s, m, seen) =
          IF Len(edges) = 1 THEN first ELSE ApplyMappingEdge(first, m, edges[2], seen)
    BY DEF ApplyMapping
  <2> HIDE DEF m, edges, Upto
  <2>10. first \in SettledStates(c, within, seen, Upto(i - 1) \cup {<<m, edges[1]>>})
    <3>1. Upto(i - 1) \in SUBSET Pairs(c) /\ \A pair \in Upto(i - 1) : ~Before(m, pair[1]) BY <2>6, <2>8
    <3>2. QED BY <2>1, <2>3, <2>5, <3>1, EdgeSettles
  <2>11. CASE Len(edges) = 1
    <3>1. Upto(i - 1) \cup {<<m, edges[1]>>} = Upto(i) BY <2>5, <2>6, <2>7, <2>11
    <3>2. QED BY <2>9, <2>10, <2>11, <3>1 DEF m
  <2>12. CASE Len(edges) = 2
    <3> DEFINE done == Upto(i - 1) \cup {<<m, edges[1]>>}
    <3>1. /\ done \in SUBSET Pairs(c) /\ \A pair \in done : ~Before(m, pair[1])
          /\ \A n \in LiveMappings(c) : \A f \in MappingEdges(n) : Before(n, m) => <<n, f>> \in done
      BY <2>3, <2>5, <2>6, <2>8
    <3>2. done \cup {<<m, edges[2]>>} = Upto(i) BY <2>5, <2>6, <2>7, <2>12
    <3> HIDE DEF done
    <3>3. ApplyMappingEdge(first, m, edges[2], seen)
             \in SettledStates(c, within, seen, done \cup {<<m, edges[2]>>})
      <4>1. first \in SettledStates(c, within, seen, done) BY <2>10 DEF done
      <4> HIDE DEF first
      <4>2. QED BY <2>1, <2>5, <2>12, <3>1, <4>1, EdgeSettles
    <3>4. ApplyMapping(s, m, seen) = ApplyMappingEdge(first, m, edges[2], seen)
      <4> HIDE DEF first
      <4>1. QED BY <2>9, <2>12
    <3> HIDE DEF first
    <3>5. ApplyMapping(s, m, seen) \in SettledStates(c, within, seen, Upto(i)) BY <3>2, <3>3, <3>4
    <3>6. QED BY <3>5 DEF m
  <2>13. QED BY <2>5, <2>11, <2>12
<1>3. \A i \in 1 .. N : i \in 0 .. N /\ i - 1 \in 0 .. N BY <1>1
<1>4. \A i \in 0 .. N : J[i] = SettledStates(c, within, seen, Upto(i)) OBVIOUS
<1>5. Upto(0) = {} OBVIOUS
<1>6. Upto(N) = Pairs(c)
  <2> SUFFICES ASSUME NEW pair \in Pairs(c) PROVE \E j \in 1 .. N : pair[1] = ms[j]
    OBVIOUS
  <2>1. QED BY <1>1, PairsAre
<1> HIDE DEF J, Upto
<1>7. [st EXCEPT !.changed = FALSE] \in J[0]
  <2>1. [st EXCEPT !.changed = FALSE] \in SoundStates(c, within) BY ChangedIsFree
  <2>2. 0 \in 0 .. N BY <1>1
  <2>3. QED BY <1>4, <1>5, <2>1, <2>2 DEF SettledStates
<1>8. \A i \in 1 .. N : \A s \in J[i - 1] : ApplyMapping(s, ms[i], seen) \in J[i]
  BY <1>2, <1>3, <1>4
<1>9. MappingPass(st, ms, seen) \in J[N] BY <1>1, <1>7, <1>8, PassFollows DEF N
<1>10. N \in 0 .. N BY <1>1
<1>11. QED BY <1>4, <1>6, <1>9, <1>10 DEF ms

\* All later passes keep what the first has settled.
LEMMA ComputedIsSettled ==
  ASSUME NEW c \in SoundContexts, OneEdgePerTarget(c), EvaluatedUpstreamFirst(c),
         NEW held, NEW read, NEW seen, seen = Seen(held, read),
         NEW within, (seen \ Computable(c)) \cup ActiveGrants(c) \subseteq within,
         ClosedUnderCopying(c, within)
  PROVE  ComputeDesiredState(c, held, read) \in SettledStates(c, within, seen, Pairs(c))
<1> DEFINE settled == SettledStates(c, within, seen, Pairs(c))
           ms == OrderedMappings(c)
           start == ApplyManualGrants(c)
           K == [n \in 0 .. MaxMappingPasses |-> IF n = 0 THEN {start} ELSE settled]
<1>1. start \in SoundStates(c, within) /\ start.changed BY StartIsSound
<1>2. NextPass(start, ms, seen) \in settled BY <1>1, FirstPassSettles DEF NextPass
<1>3. ASSUME NEW m \in LiveMappings(c), NEW s \in settled, NEW e \in MappingEdges(m)
      PROVE  ApplyMappingEdge(s, m, e, seen) \in settled
  BY SettledStays
<1>4. ASSUME NEW s \in settled PROVE [s EXCEPT !.changed = FALSE] \in settled
  <2> DEFINE t == [s EXCEPT !.changed = FALSE]
  <2>1. s \in SoundStates(c, within) BY DEF SettledStates
  <2>2. t \in SoundStates(c, within) /\ t.desired = s.desired /\ t.controlled = s.controlled
    BY <2>1, ChangedIsFree
  <2> HIDE DEF t
  <2>3. t \in settled BY <2>2 DEF SettledStates, CopyArrived, EffectiveHas
  <2>4. QED BY <2>3 DEF t
<1> HIDE DEF settled, start
<1>5. \A s \in settled : MappingPass(s, ms, seen) \in settled
  <2>1. \A s \in settled : [s EXCEPT !.changed = FALSE] \in settled BY <1>4
  <2>2. \A m \in LiveMappings(c) : \A s \in settled : \A e \in MappingEdges(m) :
            ApplyMappingEdge(s, m, e, seen) \in settled
    BY <1>3
  <2>3. QED BY <2>1, <2>2, PassKeeps
<1> HIDE DEF ms
<1>6. \A s \in settled : NextPass(s, ms, seen) \in settled BY <1>5 DEF NextPass
<1>7. MaxMappingPasses \in Nat \ {0} BY DEF MaxMappingPasses
<1>8. \A n \in 0 .. MaxMappingPasses : K[n] = IF n = 0 THEN {start} ELSE settled OBVIOUS
<1> HIDE DEF K
<1>9. start \in K[0] BY <1>7, <1>8
<1>10. ASSUME NEW n \in 1 .. MaxMappingPasses, NEW s \in K[n - 1] PROVE NextPass(s, ms, seen) \in K[n]
  <2>1. n \in 0 .. MaxMappingPasses /\ n - 1 \in 0 .. MaxMappingPasses /\ n # 0 BY <1>7
  <2>2. s \in settled \/ s = start BY <1>8, <2>1
  <2>3. QED BY <1>2, <1>6, <1>8, <2>1, <2>2
<1>11. ApplyMappings(start, ms, seen) \in K[MaxMappingPasses] BY <1>9, <1>10, PassesFollow
<1>12. QED BY <1>7, <1>8, <1>11 DEF ComputeDesiredState, ms, start, settled

\* What the account will hold, of a settled state, is closed under copying.
LEMMA SettledIsClosed ==
  ASSUME NEW c \in SoundContexts, NEW within, NEW seen, NEW st \in SettledStates(c, within, seen, Pairs(c)),
         NEW roles, \A r \in Role : r \in roles <=> EffectiveHas(st, seen, r)
  PROVE  ClosedUnderCopying(c, roles)
<1> SUFFICES ASSUME NEW e \in Copying(c), e.from \in roles PROVE e.to \in roles
  BY DEF ClosedUnderCopying
<1>1. PICK m \in LiveMappings(c) : e \in MappingEdges(m) /\ m.syncAdd BY DEF Copying
<1>2. e.from \in Role /\ e.to \in Role BY <1>1, LiveEdges DEF Edge
<1>3. <<m, e>> \in Pairs(c) BY <1>1 DEF Pairs
<1>4. CopyArrived(st, seen, m, e) BY <1>3 DEF SettledStates
<1>5. QED BY <1>1, <1>2, <1>4 DEF CopyArrived

\* Hence a second plan, made for what the first has brought about, is empty.
LEMMA OneRunSettles ==
  ASSUME NEW c \in SoundContexts, OneEdgePerTarget(c), EvaluatedUpstreamFirst(c), NEW held \in SUBSET Role,
         NEW now, now = Applied(PlanForMember(c, held, c.guilds), held)
  PROVE  Applied(PlanForMember(c, now, c.guilds), now) = now
<1> DEFINE seen == Seen(held, c.guilds)
           decided == (seen \ Computable(c)) \cup ActiveGrants(c)
           first == ComputeDesiredState(c, held, c.guilds)
           again == Seen(now, c.guilds)
           second == ComputeDesiredState(c, now, c.guilds)
<1>1. seen \in SUBSET Role /\ decided \in SUBSET Role /\ seen \subseteq RolesIn(c.guilds)
  BY BeginningsAre DEF Seen
<1>2. first \in SettledStates(c, Reachable(c, decided), seen, Pairs(c))
  <2>1. decided \subseteq Reachable(c, decided) /\ ClosedUnderCopying(c, Reachable(c, decided))
    BY <1>1, ReachableIs
  <2> HIDE DEF seen
  <2>2. seen = Seen(held, c.guilds) BY DEF seen
  <2>3. QED BY <2>1, <2>2, ComputedIsSettled
<1> HIDE DEF first, decided
<1>3. /\ DOMAIN first.desired \subseteq Reachable(c, decided) /\ DOMAIN first.desired \subseteq RolesIn(c.guilds)
      /\ ActiveGrants(c) \subseteq DOMAIN first.desired
      /\ first.controlled = Computable(c)
  <2>1. first \in SoundStates(c, Reachable(c, decided)) BY <1>2 DEF SettledStates
  <2>2. first.controlled = Computable(c) BY <1>2, AllControlled
  <2>3. QED BY <2>1, <2>2 DEF SoundStates, GrantsStand
<1>4. now = (held \cup ((DOMAIN first.desired \ held) \cap RolesIn(c.guilds)))
              \ ((Computable(c) \cap held \cap RolesIn(c.guilds)) \ DOMAIN first.desired)
  BY <1>3 DEF Applied, PlanForMember, DiffMemberState, first
<1>5. \A r \in Role : r \in again <=> r \in DOMAIN first.desired \/ r \in seen \ Computable(c)
  BY <1>3, <1>4 DEF Seen
<1>6. again \in SUBSET Role BY DEF Seen, RolesIn
<1>7. \A r \in Role : r \in again <=> EffectiveHas(first, seen, r)
  BY <1>3, <1>5 DEF EffectiveHas
<1>8. ClosedUnderCopying(c, again) BY <1>2, <1>7, SettledIsClosed
<1>9. ActiveGrants(c) \subseteq again BY <1>3, <1>5, BeginningsAre
<1>10. second \in SettledStates(c, again, again, Pairs(c))
  <2>1. (again \ Computable(c)) \cup ActiveGrants(c) \subseteq again BY <1>9
  <2> HIDE DEF again
  <2>2. again = Seen(now, c.guilds) BY DEF again
  <2>3. QED BY <1>8, <2>1, <2>2, ComputedIsSettled
<1> HIDE DEF second
<1>11. /\ DOMAIN second.desired \subseteq again /\ ActiveGrants(c) \subseteq DOMAIN second.desired
       /\ second.controlled = Computable(c)
  <2>1. second \in SoundStates(c, again) BY <1>10 DEF SettledStates
  <2>2. second.controlled = Computable(c) BY <1>10, AllControlled
  <2> HIDE DEF again
  <2>3. QED BY <2>1, <2>2 DEF SoundStates, GrantsStand
<1> DEFINE lasting == {r \in Role : EffectiveHas(second, again, r)}
<1>12. ClosedUnderCopying(c, lasting)
  <2>1. \A r \in Role : r \in lasting <=> EffectiveHas(second, again, r) OBVIOUS
  <2> HIDE DEF lasting, again
  <2>2. QED BY <1>10, <2>1, SettledIsClosed
<1>13. decided \subseteq lasting
  <2>1. seen \ Computable(c) \subseteq again BY <1>1, <1>5
  <2> HIDE DEF again, seen
  <2>2. QED BY <1>1, <1>11, <2>1 DEF EffectiveHas, decided
<1> HIDE DEF lasting
<1>14. lasting \in SUBSET Role BY DEF lasting
<1>15. Reachable(c, decided) \subseteq lasting BY <1>1, <1>12, <1>13, <1>14, ReachableIs
<1>16. \A r \in DOMAIN first.desired : r \in Computable(c) => r \in DOMAIN second.desired
  BY <1>3, <1>11, <1>15 DEF lasting, EffectiveHas
<1>17. DOMAIN second.desired \subseteq now BY <1>11 DEF Seen
<1>18. (Computable(c) \cap now \cap RolesIn(c.guilds)) \ DOMAIN second.desired = {}
  <2> SUFFICES ASSUME NEW r \in Computable(c), r \in now, r \in RolesIn(c.guilds)
               PROVE  r \in DOMAIN second.desired
    OBVIOUS
  <2>1. r \in again /\ r \in Role BY DEF Seen, RolesIn
  <2>2. r \in DOMAIN first.desired BY <1>5, <2>1
  <2>3. QED BY <1>16, <2>2
<1>19. PlanForMember(c, now, c.guilds) =
         [add |-> (DOMAIN second.desired \ now) \cap RolesIn(c.guilds),
          remove |-> (Computable(c) \cap now \cap RolesIn(c.guilds)) \ DOMAIN second.desired]
  BY <1>11 DEF PlanForMember, DiffMemberState, second
<1>20. PlanForMember(c, now, c.guilds).add = {} /\ PlanForMember(c, now, c.guilds).remove = {}
  BY <1>17, <1>18, <1>19
<1>21. QED BY <1>20 DEF Applied

\* When mappings that feed others are evaluated first and no two edges lead to
\* one role, a complete run leaves nothing for the next one.
THEOREM OneRunIsEnough == RunsSpec => SettlesInOneRun
<1>1. Run /\ [RunsNext]_runsVars =>
        [(readable' = ctx.guilds /\ EvaluatedUpstreamFirst(ctx) /\ OneEdgePerTarget(ctx))
           => actual' = Applied(PlanForMember(ctx, actual', ctx.guilds), actual')]_runsVars
  <2> SUFFICES ASSUME Run, NEW read \in SUBSET ctx.guilds, Reconcile(read), readable' = ctx.guilds,
                      EvaluatedUpstreamFirst(ctx), OneEdgePerTarget(ctx)
               PROVE  actual' = Applied(PlanForMember(ctx, actual', ctx.guilds), actual')
    BY DEF RunsNext
  <2>1. actual' = Applied(PlanForMember(ctx, actual, ctx.guilds), actual) BY DEF Reconcile
  <2>2. QED BY <2>1, OneRunSettles DEF Run
<1>2. QED BY <1>1, RunsAre, PTL DEF RunsSpec, SettlesInOneRun

-----------------------------------------------------------------------------
(* Consecutive runs.  Once what the mappings into a role are fed by has     *)
(* settled, the role settles with the next run: two computations that see   *)
(* the same of some roles and all that feed them treat these roles alike.   *)

\* Two states of computations treat these roles alike.
Alike(s, t, among) ==
    \A r \in among :
        /\ r \in DOMAIN s.desired <=> r \in DOMAIN t.desired
        /\ r \in DOMAIN s.desired => s.desired[r] = t.desired[r]
        /\ r \in s.controlled <=> r \in t.controlled

\* What feeds some roles is among others, and is seen or not seen in both.
Fed(c, among, by) == \A m \in LiveMappings(c) : \A e \in MappingEdges(m) : e.to \in among => e.from \in by
Same(held, again, among) == \A r \in among : r \in held <=> r \in again

LEMMA EdgeAlike ==
  ASSUME NEW c \in SoundContexts, NEW m \in LiveMappings(c), NEW e \in MappingEdges(m),
         NEW s \in State, NEW t \in State, NEW among, Alike(s, t, among),
         NEW seen, NEW again, e.to \in among => e.from \in among /\ (e.from \in seen <=> e.from \in again),
         NEW u, u = ApplyMappingEdge(s, m, e, seen), NEW v, v = ApplyMappingEdge(t, m, e, again)
  PROVE  u \in State /\ v \in State /\ Alike(u, v, among)
<1>1. m \in Mapping /\ e \in Edge BY LiveEdges
<1> DEFINE dropped == IF Drops(s, m, e, seen) THEN {e.to} ELSE {}
           added == IF Adds(s, m, e, seen) THEN {e.to} ELSE {}
           ruled == IF Controls(s, m, e, seen) THEN {e.to} ELSE {}
           dropped2 == IF Drops(t, m, e, again) THEN {e.to} ELSE {}
           added2 == IF Adds(t, m, e, again) THEN {e.to} ELSE {}
           ruled2 == IF Controls(t, m, e, again) THEN {e.to} ELSE {}
<1>2. /\ u \in State /\ DOMAIN u.desired = (DOMAIN s.desired \ dropped) \cup added
      /\ \A r \in DOMAIN u.desired : r \in DOMAIN s.desired \ dropped => u.desired[r] = s.desired[r]
      /\ e.to \notin DOMAIN s.desired /\ e.to \in DOMAIN u.desired => u.desired[e.to] = MappingEntry(m)
      /\ u.controlled = s.controlled \cup ruled
  BY <1>1, EdgeApplied
<1>3. /\ v \in State /\ DOMAIN v.desired = (DOMAIN t.desired \ dropped2) \cup added2
      /\ \A r \in DOMAIN v.desired : r \in DOMAIN t.desired \ dropped2 => v.desired[r] = t.desired[r]
      /\ e.to \notin DOMAIN t.desired /\ e.to \in DOMAIN v.desired => v.desired[e.to] = MappingEntry(m)
      /\ v.controlled = t.controlled \cup ruled2
  BY <1>1, EdgeApplied
<1>4. e.to \in among => dropped = dropped2 /\ added = added2 /\ ruled = ruled2
  <2> SUFFICES ASSUME e.to \in among PROVE dropped = dropped2 /\ added = added2 /\ ruled = ruled2
    OBVIOUS
  <2>1. EffectiveHas(s, seen, e.from) <=> EffectiveHas(t, again, e.from) BY DEF EffectiveHas, Alike
  <2>2. Adds(s, m, e, seen) <=> Adds(t, m, e, again) BY <2>1 DEF Adds, Alike
  <2>3. Drops(s, m, e, seen) <=> Drops(t, m, e, again) BY <2>1 DEF Drops, Alike
  <2>4. Controls(s, m, e, seen) <=> Controls(t, m, e, again) BY DEF Controls, Alike
  <2>5. QED BY <2>2, <2>3, <2>4
<1>5. /\ dropped \subseteq {e.to} /\ added \subseteq {e.to} /\ ruled \subseteq {e.to}
      /\ dropped2 \subseteq {e.to} /\ added2 \subseteq {e.to} /\ ruled2 \subseteq {e.to}
  OBVIOUS
<1>6. (e.to \in added => e.to \notin DOMAIN s.desired) /\ (e.to \in added2 => e.to \notin DOMAIN t.desired)
  BY DEF Adds
<1> HIDE DEF dropped, added, ruled, dropped2, added2, ruled2
<1>7. ASSUME NEW r \in among
      PROVE  /\ r \in DOMAIN u.desired <=> r \in DOMAIN v.desired
             /\ r \in DOMAIN u.desired => u.desired[r] = v.desired[r]
             /\ r \in u.controlled <=> r \in v.controlled
  <2>1. /\ r \in DOMAIN s.desired <=> r \in DOMAIN t.desired
        /\ r \in DOMAIN s.desired => s.desired[r] = t.desired[r]
        /\ r \in s.controlled <=> r \in t.controlled
    BY DEF Alike
  <2>2. CASE r = e.to BY <1>2, <1>3, <1>4, <1>6, <2>1, <2>2
  <2>3. CASE r # e.to BY <1>2, <1>3, <1>5, <2>1, <2>3
  <2>4. QED BY <2>2, <2>3
<1>8. QED BY <1>2, <1>3, <1>7 DEF Alike

LEMMA MappingAlike ==
  ASSUME NEW c \in SoundContexts, NEW m \in LiveMappings(c), NEW among, Fed(c, among, among),
         NEW seen, NEW again, NEW by, Fed(c, among, by), Same(seen, again, by),
         NEW s \in State, NEW t \in State, Alike(s, t, among)
  PROVE  /\ ApplyMapping(s, m, seen) \in State /\ ApplyMapping(t, m, again) \in State
         /\ Alike(ApplyMapping(s, m, seen), ApplyMapping(t, m, again), among)
<1> DEFINE edges == EdgesFor(m)
           After(st, look) ==
             LET first == ApplyMappingEdge(st, m, edges[1], look)
             IN  IF Len(edges) = 1 THEN first ELSE ApplyMappingEdge(first, m, edges[2], look)
<1>1. /\ Len(edges) \in {1, 2} /\ edges[1] \in MappingEdges(m)
      /\ Len(edges) = 2 => edges[2] \in MappingEdges(m)
  BY LiveAre, EdgesAre
<1>2. ApplyMapping(s, m, seen) = After(s, seen) /\ ApplyMapping(t, m, again) = After(t, again)
  BY DEF ApplyMapping
<1>3. \A e \in MappingEdges(m) :
          e.to \in among => e.from \in among /\ (e.from \in seen <=> e.from \in again)
  BY DEF Fed, Same
<1> HIDE DEF edges
<1>4. /\ ApplyMappingEdge(s, m, edges[1], seen) \in State
      /\ ApplyMappingEdge(t, m, edges[1], again) \in State
      /\ Alike(ApplyMappingEdge(s, m, edges[1], seen), ApplyMappingEdge(t, m, edges[1], again), among)
  BY <1>1, <1>3, EdgeAlike
<1> DEFINE u == ApplyMappingEdge(s, m, edges[1], seen)
           v == ApplyMappingEdge(t, m, edges[1], again)
<1>5. /\ After(s, seen) = IF Len(edges) = 1 THEN u ELSE ApplyMappingEdge(u, m, edges[2], seen)
      /\ After(t, again) = IF Len(edges) = 1 THEN v ELSE ApplyMappingEdge(v, m, edges[2], again)
  OBVIOUS
<1>6. u \in State /\ v \in State /\ Alike(u, v, among) BY <1>4
<1> HIDE DEF u, v, After
<1>7. CASE Len(edges) = 1 BY <1>2, <1>5, <1>6, <1>7
<1>8. CASE Len(edges) = 2
  <2>1. /\ ApplyMappingEdge(u, m, edges[2], seen) \in State
        /\ ApplyMappingEdge(v, m, edges[2], again) \in State
        /\ Alike(ApplyMappingEdge(u, m, edges[2], seen), ApplyMappingEdge(v, m, edges[2], again), among)
    <3>1. edges[2] \in MappingEdges(m) BY <1>1, <1>8
    <3>2. edges[2].to \in among =>
            edges[2].from \in among /\ (edges[2].from \in seen <=> edges[2].from \in again)
      BY <1>3, <3>1
    <3>3. QED BY <1>6, <3>1, <3>2, EdgeAlike
  <2>2. QED BY <1>2, <1>5, <1>8, <2>1
<1>9. QED BY <1>1, <1>7, <1>8

\* The states of a pass, one after the other.
LEMMA PassStateAt ==
  ASSUME NEW st, NEW mappings, NEW seen, Len(mappings) \in Nat
  PROVE  /\ PassStates(st, mappings, seen)[0] = [st EXCEPT !.changed = FALSE]
         /\ \A i \in 1 .. Len(mappings) : PassStates(st, mappings, seen)[i] =
                ApplyMapping(PassStates(st, mappings, seen)[i - 1], mappings[i], seen)
<1> DEFINE after == PassStates(st, mappings, seen)
           started == [st EXCEPT !.changed = FALSE]
<1>1. after = [i \in 0 .. Len(mappings) |->
                 IF i = 0 THEN started ELSE ApplyMapping(after[i - 1], mappings[i], seen)]
  BY PassStatesAre
<1> HIDE DEF after, started
<1>2. \A i \in 0 .. Len(mappings) :
          after[i] = IF i = 0 THEN started ELSE ApplyMapping(after[i - 1], mappings[i], seen)
  BY <1>1
<1>3. after[0] = started BY <1>2
<1>4. \A i \in 1 .. Len(mappings) : after[i] = ApplyMapping(after[i - 1], mappings[i], seen) BY <1>2
<1>5. QED BY <1>3, <1>4 DEF after, started

LEMMA PassAlike ==
  ASSUME NEW c \in SoundContexts, NEW among, Fed(c, among, among),
         NEW seen, NEW again, NEW by, Fed(c, among, by), Same(seen, again, by),
         NEW s \in State, NEW t \in State, Alike(s, t, among)
  PROVE  LET u == MappingPass(s, OrderedMappings(c), seen)
             v == MappingPass(t, OrderedMappings(c), again)
         IN  u \in State /\ v \in State /\ Alike(u, v, among)
<1> DEFINE ms == OrderedMappings(c)
           u == PassStates(s, ms, seen)
           v == PassStates(t, ms, again)
           P == {i \in 0 .. Len(ms) : u[i] \in State /\ v[i] \in State /\ Alike(u[i], v[i], among)}
<1>1. Len(ms) \in Nat /\ \A i \in 1 .. Len(ms) : ms[i] \in LiveMappings(c) BY OrderIs
<1> HIDE DEF ms
<1>2. /\ u[0] = [s EXCEPT !.changed = FALSE] /\ v[0] = [t EXCEPT !.changed = FALSE]
      /\ \A i \in 1 .. Len(ms) : /\ u[i] = ApplyMapping(u[i - 1], ms[i], seen)
                                  /\ v[i] = ApplyMapping(v[i - 1], ms[i], again)
  BY <1>1, PassStateAt
<1> HIDE DEF u, v
<1>3. 0 \in P
  <2>1. [s EXCEPT !.changed = FALSE] \in State /\ [s EXCEPT !.changed = FALSE].desired = s.desired
        /\ [s EXCEPT !.changed = FALSE].controlled = s.controlled
    BY UnchangedState
  <2>2. [t EXCEPT !.changed = FALSE] \in State /\ [t EXCEPT !.changed = FALSE].desired = t.desired
        /\ [t EXCEPT !.changed = FALSE].controlled = t.controlled
    BY UnchangedState
  <2>3. u[0] \in State /\ u[0].desired = s.desired /\ u[0].controlled = s.controlled BY <1>2, <2>1
  <2>4. v[0] \in State /\ v[0].desired = t.desired /\ v[0].controlled = t.controlled BY <1>2, <2>2
  <2>5. Alike(u[0], v[0], among) BY <2>3, <2>4 DEF Alike
  <2>6. QED BY <1>1, <2>3, <2>4, <2>5
<1>4. ASSUME NEW i \in 1 .. Len(ms), i - 1 \in P PROVE i \in P
  <2>1. u[i - 1] \in State /\ v[i - 1] \in State /\ Alike(u[i - 1], v[i - 1], among) BY <1>4
  <2>2. ms[i] \in LiveMappings(c) BY <1>1
  <2>3. /\ ApplyMapping(u[i - 1], ms[i], seen) \in State /\ ApplyMapping(v[i - 1], ms[i], again) \in State
        /\ Alike(ApplyMapping(u[i - 1], ms[i], seen), ApplyMapping(v[i - 1], ms[i], again), among)
    BY <2>1, <2>2, MappingAlike
  <2>4. u[i] \in State /\ v[i] \in State /\ Alike(u[i], v[i], among) BY <1>2, <2>3
  <2>5. QED BY <2>4
<1> HIDE DEF P
<1>5. Len(ms) \in P
  <2>1. \A i \in 1 .. Len(ms) : i - 1 \in P => i \in P BY <1>4
  <2>2. \A i \in 0 .. Len(ms) : i \in P BY <1>1, <1>3, <2>1, StepByStep
  <2>3. QED BY <1>1, <2>2
<1>6. u[Len(ms)] \in State /\ v[Len(ms)] \in State /\ Alike(u[Len(ms)], v[Len(ms)], among)
  BY <1>5 DEF P
<1>7. MappingPass(s, ms, seen) = u[Len(ms)] /\ MappingPass(t, ms, again) = v[Len(ms)]
  BY DEF MappingPass, u, v
<1>8. QED BY <1>6, <1>7 DEF ms

\* A pass that changes nothing leaves nothing to change.
LEMMA IdlePass ==
  ASSUME NEW c \in SoundContexts, NEW seen, NEW s \in State
  PROVE  LET t == MappingPass(s, OrderedMappings(c), seen)
         IN  /\ t \in State
             /\ t.changed = FALSE => MappingPass(t, OrderedMappings(c), seen) = t
<1> DEFINE ms == OrderedMappings(c)
           start == [s EXCEPT !.changed = FALSE]
           t == MappingPass(s, ms, seen)
           idle == {x \in State : x.changed = FALSE => x = start}
<1>1. Len(ms) \in Nat /\ \A i \in 1 .. Len(ms) : ms[i] \in LiveMappings(c) BY OrderIs
<1>2. start \in State /\ start.changed = FALSE BY UnchangedState
<1>3. ASSUME NEW m \in LiveMappings(c), NEW x \in idle, NEW e \in MappingEdges(m)
      PROVE  ApplyMappingEdge(x, m, e, seen) \in idle
  <2> DEFINE y == ApplyMappingEdge(x, m, e, seen)
             adds == Adds(x, m, e, seen)
             drops == Drops(x, m, e, seen)
             controls == Controls(x, m, e, seen)
  <2>1. x \in State /\ y \in State BY LiveEdges, EdgeApplied
  <2>2. y.changed = FALSE => y = x
    <3> DEFINE kept == DOMAIN x.desired \ (IF drops THEN {e.to} ELSE {})
               wanted == kept \cup (IF adds THEN {e.to} ELSE {})
               claims == [r \in wanted |-> IF r \in kept THEN x.desired[r] ELSE MappingEntry(m)]
    <3>1. y = [desired |-> claims,
               controlled |-> x.controlled \cup (IF controls THEN {e.to} ELSE {}),
               changed |-> x.changed \/ adds \/ drops \/ controls]
      BY DEF ApplyMappingEdge
    <3>2. ASSUME y.changed = FALSE PROVE x.changed = FALSE /\ ~adds /\ ~drops /\ ~controls
      <4> HIDE DEF claims, adds, drops, controls
      <4>1. y.changed = (x.changed \/ adds \/ drops \/ controls) BY <3>1
      <4>2. ~(x.changed \/ adds \/ drops \/ controls) BY <3>2, <4>1
      <4>3. x.changed \in BOOLEAN BY <2>1 DEF State
      <4>4. QED BY <4>2, <4>3
    <3>3. x = [desired |-> x.desired, controlled |-> x.controlled, changed |-> x.changed]
      BY <2>1 DEF State
    <3>4. x.desired = [r \in DOMAIN x.desired |-> x.desired[r]]
      <4>1. x.desired \in Claims BY <2>1 DEF State
      <4>2. PICK roles \in SUBSET Role : x.desired \in [roles -> Entry] BY <4>1 DEF Claims
      <4>3. QED BY <4>2
    <3>5. ASSUME ~adds, ~drops PROVE claims = x.desired
      <4> HIDE DEF adds, drops
      <4>1. kept = DOMAIN x.desired /\ wanted = DOMAIN x.desired BY <3>5
      <4>2. claims = [r \in DOMAIN x.desired |-> x.desired[r]] BY <4>1
      <4>3. QED BY <3>4, <4>2
    <3> HIDE DEF claims, adds, drops, controls, y
    <3>6. ASSUME y.changed = FALSE PROVE y = x
      <4>1. x.changed = FALSE /\ claims = x.desired BY <3>2, <3>5, <3>6
      <4>2. x.controlled \cup (IF controls THEN {e.to} ELSE {}) = x.controlled BY <3>2, <3>6
      <4>3. (x.changed \/ adds \/ drops \/ controls) = FALSE BY <3>2, <3>6, <4>1
      <4>4. QED BY <3>1, <3>3, <4>1, <4>2, <4>3
    <3>7. QED BY <3>6
  <2> HIDE DEF y
  <2>3. y \in idle BY <2>1, <2>2
  <2>4. QED BY <2>3 DEF y
<1>4. start \in idle BY <1>2
<1> HIDE DEF ms
<1>5. t \in idle
  <2> DEFINE J == [i \in 0 .. Len(ms) |-> idle]
  <2> HIDE DEF idle, start
  <2>1. \A i \in 0 .. Len(ms) : J[i] = idle OBVIOUS
  <2>2. \A i \in 1 .. Len(ms) : i \in 0 .. Len(ms) /\ i - 1 \in 0 .. Len(ms) BY <1>1
  <2> HIDE DEF J
  <2>3. \A i \in 1 .. Len(ms) : \A x \in idle : ApplyMapping(x, ms[i], seen) \in idle
    BY <1>1, <1>3, MappingKeeps
  <2>4. \A i \in 1 .. Len(ms) : \A x \in J[i - 1] : ApplyMapping(x, ms[i], seen) \in J[i]
    BY <2>1, <2>2, <2>3
  <2>5. [s EXCEPT !.changed = FALSE] \in J[0] BY <1>1, <1>4, <2>1 DEF start
  <2>6. MappingPass(s, ms, seen) \in J[Len(ms)] BY <1>1, <2>4, <2>5, PassFollows
  <2>7. QED BY <1>1, <2>1, <2>6
<1>6. t \in State BY <1>5
<1>7. ASSUME t.changed = FALSE PROVE MappingPass(t, ms, seen) = t
  <2>1. t = start BY <1>5, <1>7
  <2>2. [t EXCEPT !.changed = FALSE] = start
    <3>1. start.changed = FALSE BY <1>2
    <3>2. [start EXCEPT !.changed = FALSE] = start BY <1>2 DEF State
    <3> HIDE DEF start, t
    <3>3. QED BY <2>1, <3>2
  <2> DEFINE v == PassStates(s, ms, seen)
             J == [i \in 0 .. Len(ms) |-> {v[i]}]
  <2>3. /\ v[0] = start
        /\ \A i \in 1 .. Len(ms) : v[i] = ApplyMapping(v[i - 1], ms[i], seen)
    BY <1>1, PassStateAt
  <2>4. t = v[Len(ms)] BY DEF MappingPass
  <2> HIDE DEF v, t, start
  <2>5. \A i \in 0 .. Len(ms) : J[i] = {v[i]} OBVIOUS
  <2>6. \A i \in 1 .. Len(ms) : i \in 0 .. Len(ms) /\ i - 1 \in 0 .. Len(ms) BY <1>1
  <2> HIDE DEF J
  <2>7. \A i \in 1 .. Len(ms) : \A x \in J[i - 1] : ApplyMapping(x, ms[i], seen) \in J[i]
    BY <2>3, <2>5, <2>6
  <2>8. [t EXCEPT !.changed = FALSE] \in J[0]
    <3>1. J[0] = {start} BY <1>1, <2>3, <2>5
    <3>2. start \in J[0] BY <3>1
    <3>3. QED BY <2>2, <3>2, Zenon
  <2>9. MappingPass(t, ms, seen) \in J[Len(ms)] BY <1>1, <2>7, <2>8, PassFollows
  <2>10. QED BY <1>1, <2>4, <2>5, <2>9
<1>8. QED BY <1>6, <1>7 DEF ms, t

\* States a pass is made for, or would leave as they are.
Ending(c, seen) ==
    {s \in State : s.changed = FALSE => MappingPass(s, OrderedMappings(c), seen) = s}

\* So it does not matter that the passes end once one has changed nothing.
LEMMA NextIsPass ==
  ASSUME NEW c \in SoundContexts, NEW seen, NEW s \in Ending(c, seen)
  PROVE  /\ NextPass(s, OrderedMappings(c), seen) = MappingPass(s, OrderedMappings(c), seen)
         /\ NextPass(s, OrderedMappings(c), seen) \in Ending(c, seen)
<1> DEFINE ms == OrderedMappings(c)
<1>1. s \in State /\ (s.changed = FALSE => MappingPass(s, ms, seen) = s) BY DEF Ending
<1>2. s.changed \in BOOLEAN BY <1>1 DEF State
<1>3. /\ MappingPass(s, ms, seen) \in State
      /\ MappingPass(s, ms, seen).changed = FALSE
           => MappingPass(MappingPass(s, ms, seen), ms, seen) = MappingPass(s, ms, seen)
  BY <1>1, IdlePass
<1> HIDE DEF ms
<1>4. NextPass(s, ms, seen) = MappingPass(s, ms, seen) BY <1>1, <1>2 DEF NextPass
<1>5. QED BY <1>3, <1>4 DEF Ending, ms

LEMMA ComputedAlike ==
  ASSUME NEW c \in SoundContexts, NEW among, Fed(c, among, among),
         NEW seen, NEW again, NEW by, Fed(c, among, by), Same(seen, again, by),
         NEW start \in State, start.changed = TRUE
  PROVE  LET u == ApplyMappings(start, OrderedMappings(c), seen)
             v == ApplyMappings(start, OrderedMappings(c), again)
         IN  u \in State /\ v \in State /\ Alike(u, v, among)
<1> DEFINE ms == OrderedMappings(c)
           N == MaxMappingPasses
           u == Passes(start, ms, seen)
           v == Passes(start, ms, again)
           P == {n \in 0 .. N : /\ u[n] \in Ending(c, seen) /\ v[n] \in Ending(c, again)
                                /\ Alike(u[n], v[n], among)}
<1>0. N \in Nat BY DEF MaxMappingPasses
<1>1. /\ u[0] = start /\ v[0] = start
      /\ \A n \in 1 .. N : u[n] = NextPass(u[n - 1], ms, seen) /\ v[n] = NextPass(v[n - 1], ms, again)
  BY <1>0, PassesAre
<1> HIDE DEF u, v, N
<1>2. 0 \in P
  <2>1. start \in Ending(c, seen) /\ start \in Ending(c, again) BY DEF Ending
  <2>2. Alike(start, start, among) BY DEF Alike
  <2>3. QED BY <1>0, <1>1, <2>1, <2>2
<1>3. ASSUME NEW n \in 1 .. N, n - 1 \in P PROVE n \in P
  <2>1. u[n - 1] \in Ending(c, seen) /\ v[n - 1] \in Ending(c, again) /\ Alike(u[n - 1], v[n - 1], among)
    BY <1>3
  <2>2. /\ u[n] = MappingPass(u[n - 1], ms, seen) /\ u[n] \in Ending(c, seen)
        /\ v[n] = MappingPass(v[n - 1], ms, again) /\ v[n] \in Ending(c, again)
    BY <1>1, <2>1, NextIsPass
  <2>3. u[n - 1] \in State /\ v[n - 1] \in State BY <2>1 DEF Ending
  <2>4. Alike(MappingPass(u[n - 1], ms, seen), MappingPass(v[n - 1], ms, again), among)
    BY <2>1, <2>3, PassAlike
  <2>5. Alike(u[n], v[n], among) BY <2>2, <2>4
  <2>6. QED BY <2>2, <2>5
<1> HIDE DEF P
<1>4. \A n \in 1 .. N : n - 1 \in P => n \in P BY <1>3
<1>5. \A n \in 0 .. N : n \in P BY <1>0, <1>2, <1>4, StepByStep
<1>6. N \in P BY <1>0, <1>5
<1>7. u[N] \in State /\ v[N] \in State /\ Alike(u[N], v[N], among) BY <1>6 DEF P, Ending
<1>8. ApplyMappings(start, ms, seen) = u[N] /\ ApplyMappings(start, ms, again) = v[N]
  BY DEF ApplyMappings, u, v, N
<1>9. QED BY <1>7, <1>8 DEF ms

\* What a complete run makes of the roles held.
LEMMA RunIs ==
  ASSUME NEW c \in SoundContexts, NEW held \in SUBSET Role,
         NEW now, now = Applied(PlanForMember(c, held, c.guilds), held),
         NEW st, st = ComputeDesiredState(c, held, c.guilds)
  PROVE  /\ now \in SUBSET Role
         /\ \A r \in Role : r \in now <=>
                IF r \in RolesIn(c.guilds) THEN r \in DOMAIN st.desired \/ (r \in held /\ r \notin st.controlled)
                ELSE r \in held
<1>1. now = (held \cup ((DOMAIN st.desired \ held) \cap RolesIn(c.guilds)))
              \ ((st.controlled \cap held \cap RolesIn(c.guilds)) \ DOMAIN st.desired)
  BY DEF Applied, PlanForMember, DiffMemberState
<1>2. RolesIn(c.guilds) \subseteq Role BY DEF RolesIn
<1>3. QED BY <1>1, <1>2

LEMMA OneRunMore ==
  ASSUME NEW c \in SoundContexts, NEW held \in SUBSET Role,
         NEW now, now = Applied(PlanForMember(c, held, c.guilds), held),
         NEW next, next = Applied(PlanForMember(c, now, c.guilds), now),
         NEW among \in SUBSET Role, Fed(c, among, among),
         NEW by \in SUBSET Role, Fed(c, among, by), Same(held, now, by)
  PROVE  Same(now, next, among)
<1> DEFINE first == ComputeDesiredState(c, held, c.guilds)
           second == ComputeDesiredState(c, now, c.guilds)
<1>1. now \in SUBSET Role BY RunIs
<1>2. Same(Seen(held, c.guilds), Seen(now, c.guilds), by) BY DEF Same, Seen
<1>3. ApplyManualGrants(c) \in State /\ ApplyManualGrants(c).changed = TRUE
  BY StartIsSound DEF SoundStates
<1>4. Alike(first, second, among) BY <1>2, <1>3, ComputedAlike DEF ComputeDesiredState
<1> HIDE DEF first, second
<1>5. \A r \in Role : r \in now <=>
          IF r \in RolesIn(c.guilds) THEN r \in DOMAIN first.desired \/ (r \in held /\ r \notin first.controlled)
          ELSE r \in held
  BY RunIs DEF first
<1>6. \A r \in Role : r \in next <=>
          IF r \in RolesIn(c.guilds) THEN r \in DOMAIN second.desired \/ (r \in now /\ r \notin second.controlled)
          ELSE r \in now
  <2>1. second = ComputeDesiredState(c, now, c.guilds) BY DEF second
  <2>2. ASSUME NEW x \in SUBSET Role, NEW y, y = Applied(PlanForMember(c, x, c.guilds), x),
               NEW st, st = ComputeDesiredState(c, x, c.guilds)
        PROVE  \A r \in Role : r \in y <=>
                 IF r \in RolesIn(c.guilds) THEN r \in DOMAIN st.desired \/ (r \in x /\ r \notin st.controlled)
                 ELSE r \in x
    BY <2>2, RunIs
  <2>3. QED BY <1>1, <2>1, <2>2
<1>7. \A r \in among : /\ r \in DOMAIN first.desired <=> r \in DOMAIN second.desired
                       /\ r \in first.controlled <=> r \in second.controlled
  BY <1>4 DEF Alike
<1>8. QED BY <1>5, <1>6, <1>7 DEF Same

-----------------------------------------------------------------------------
(* So with every run at least one more receiving role has settled, unless   *)
(* they all have.                                                          *)

\* The function that AfterRuns looks at exists, and does not depend on how far it goes.
LEMMA RunsFromAre ==
  ASSUME NEW N \in Nat
  PROVE  /\ RunsFrom(N)[0] = actual
         /\ \A k \in 1 .. N : RunsFrom(N)[k] = NextRun(RunsFrom(N)[k - 1])
<1> DEFINE Value(i, g) == IF i = 0 THEN actual ELSE NextRun(g[i - 1])
           P == {n \in 0 .. N : \E g : \A i \in 0 .. n : g[i] = Value(i, g)}
<1>1. 0 \in P
  <2> DEFINE g == [i \in 0 .. 0 |-> actual]
  <2>1. \A i \in 0 .. 0 : g[i] = Value(i, g) OBVIOUS
  <2> HIDE DEF g, Value
  <2>2. QED BY <2>1
<1>2. ASSUME NEW n \in 1 .. N, n - 1 \in P PROVE n \in P
  <2>1. PICK g : \A i \in 0 .. n - 1 : g[i] = Value(i, g)
    <3> HIDE DEF Value
    <3>1. QED BY <1>2
  <2> DEFINE h == [i \in 0 .. n |-> Value(i, g)]
  <2> HIDE DEF Value
  <2>2. \A i \in 0 .. n - 1 : h[i] = g[i] BY <2>1
  <2>3. \A i \in 0 .. n : h[i] = Value(i, g) OBVIOUS
  <2> HIDE DEF h
  <2>4. ASSUME NEW i \in 0 .. n PROVE Value(i, h) = Value(i, g)
    <3>1. CASE i = 0 BY <3>1 DEF Value
    <3>2. CASE i # 0
      <4>1. h[i - 1] = g[i - 1] BY <2>2, <3>2
      <4>2. QED BY <3>2, <4>1 DEF Value
    <3>3. QED BY <3>1, <3>2
  <2>5. \A i \in 0 .. n : h[i] = Value(i, h) BY <2>3, <2>4
  <2>6. QED BY <2>5
<1>3. N \in P
  <2> HIDE DEF P
  <2>1. \A n \in 1 .. N : n - 1 \in P => n \in P BY <1>2
  <2>2. \A n \in 0 .. N : n \in P BY <1>1, <2>1, StepByStep
  <2>3. QED BY <2>2
<1>4. PICK g : \A i \in 0 .. N : g[i] = Value(i, g)
  <2> HIDE DEF Value
  <2>1. QED BY <1>3
<1> DEFINE h == [i \in 0 .. N |-> g[i]]
<1>5. h = [i \in 0 .. N |-> IF i = 0 THEN actual ELSE NextRun(h[i - 1])]
  <2>1. \A i \in 0 .. N : h[i] = IF i = 0 THEN actual ELSE NextRun(h[i - 1])
    <3> SUFFICES ASSUME NEW i \in 0 .. N PROVE g[i] = IF i = 0 THEN actual ELSE NextRun(h[i - 1])
      OBVIOUS
    <3>1. CASE i = 0 BY <1>4, <3>1
    <3>2. CASE i # 0
      <4>1. h[i - 1] = g[i - 1] BY <3>2
      <4> HIDE DEF h
      <4>2. QED BY <1>4, <3>2, <4>1
    <3>3. QED BY <3>1, <3>2
  <2>2. QED BY <2>1
<1> HIDE DEF h
<1> DEFINE runs == RunsFrom(N)
<1>6. \E f : f = [i \in 0 .. N |-> IF i = 0 THEN actual ELSE NextRun(f[i - 1])] BY <1>5
<1>7. runs = [i \in 0 .. N |-> IF i = 0 THEN actual ELSE NextRun(runs[i - 1])] BY <1>6 DEF RunsFrom
<1> HIDE DEF runs
<1>8. \A i \in 0 .. N : runs[i] = IF i = 0 THEN actual ELSE NextRun(runs[i - 1]) BY <1>7
<1>9. runs[0] = actual BY <1>8
<1>10. \A i \in 1 .. N : runs[i] = NextRun(runs[i - 1]) BY <1>8
<1>11. QED BY <1>9, <1>10 DEF runs

LEMMA AfterRunsAre ==
  ASSUME NEW N \in Nat
  PROVE  AfterRuns(0) = actual /\ AfterRuns(N + 1) = NextRun(AfterRuns(N))
<1>1. AfterRuns(0) = actual BY RunsFromAre DEF AfterRuns
<1> DEFINE f == RunsFrom(N)
           g == RunsFrom(N + 1)
           P == {k \in 0 .. N : f[k] = g[k]}
<1>2. f[0] = actual /\ \A k \in 1 .. N : f[k] = NextRun(f[k - 1]) BY RunsFromAre
<1>3. g[0] = actual /\ \A k \in 1 .. N + 1 : g[k] = NextRun(g[k - 1]) BY RunsFromAre
<1> HIDE DEF f, g
<1>4. 0 \in P BY <1>2, <1>3
<1>5. \A k \in 1 .. N : k - 1 \in P => k \in P BY <1>2, <1>3
<1> HIDE DEF P
<1>6. \A k \in 0 .. N : k \in P BY <1>4, <1>5, StepByStep
<1>7. f[N] = g[N] BY <1>6 DEF P
<1>8. g[N + 1] = NextRun(g[N]) BY <1>3
<1>9. AfterRuns(N) = f[N] /\ AfterRuns(N + 1) = g[N + 1] BY DEF AfterRuns, f, g
<1>10. QED BY <1>1, <1>7, <1>8, <1>9

\* Roles some mapping leads to.
Receiving(c) == {e.to : e \in UNION {MappingEdges(m) : m \in LiveMappings(c)}}

\* The edges of each mapping lead to one role, as they do without circles.
OneEnd(c) == \A m \in LiveMappings(c) : \A e, f \in MappingEdges(m) : e.to = f.to

LEMMA NoCirclesOneEnd ==
  ASSUME NEW c \in SoundContexts, NoCircles(c)
  PROVE  OneEnd(c)
<1> SUFFICES ASSUME NEW m \in LiveMappings(c), NEW e \in MappingEdges(m), NEW f \in MappingEdges(m),
                    e.to # f.to
             PROVE  FALSE
  BY DEF OneEnd
<1>1. \A d \in MappingEdges(m) : d \in Edge /\ d.from # d.to /\ {d.from, d.to} \subseteq {m.source, m.target}
  BY LiveAre, EdgesAre
<1>2. f.from = e.to /\ e.from = f.to /\ e.to \in Role /\ f.to \in Role BY <1>1 DEF Edge
<1>3. {e.to, f.to} \in (SUBSET Role) \ {{}} BY <1>2
<1>4. PICK r \in {e.to, f.to} :
         \A n \in LiveMappings(c) : \A d \in MappingEdges(n) : d.to = r => d.from \notin {e.to, f.to}
  BY <1>3 DEF NoCircles
<1>5. QED BY <1>2, <1>4

\* So at most as many roles receive as there are mappings.
LEMMA FewReceive ==
  ASSUME NEW c \in SoundContexts, OneEnd(c)
  PROVE  /\ IsFiniteSet(Receiving(c)) /\ Receiving(c) \in SUBSET Role
         /\ Cardinality(Receiving(c)) \in Nat /\ Cardinality(c.mappings) \in Nat
         /\ Cardinality(Receiving(c)) <= Cardinality(c.mappings)
<1> DEFINE live == LiveMappings(c)
           receiver == [m \in live |-> EdgesFor(m)[1].to]
<1>1. IsFiniteSet(c.mappings) /\ live \in SUBSET c.mappings BY SoundContextsAre DEF LiveMappings
<1>2. ASSUME NEW m \in live, NEW e \in MappingEdges(m)
      PROVE  e.to = receiver[m] /\ e.to \in Role
  <2>1. EdgesFor(m)[1] \in MappingEdges(m) /\ e \in Edge BY LiveAre, EdgesAre
  <2>2. QED BY <2>1 DEF OneEnd, Edge
<1>3. \A m \in live : \E e \in MappingEdges(m) : e.to = receiver[m]
  BY LiveAre, EdgesAre
<1>4. \A r \in Receiving(c) : \E m \in live : receiver[m] = r BY <1>2 DEF Receiving
<1>5. \A m \in live : receiver[m] \in Receiving(c) BY <1>3 DEF Receiving
<1>6. receiver \in Surjection(live, Receiving(c)) BY <1>4, <1>5 DEF Surjection
<1>7. Receiving(c) \in SUBSET Role BY <1>2 DEF Receiving
<1> HIDE DEF live, receiver
<1>8. /\ IsFiniteSet(live) /\ Cardinality(live) <= Cardinality(c.mappings)
      /\ Cardinality(live) \in Nat /\ Cardinality(c.mappings) \in Nat
  BY <1>1, FS_Subset, FS_CardinalityType
<1>9. IsFiniteSet(Receiving(c)) /\ Cardinality(Receiving(c)) <= Cardinality(live)
  BY <1>6, <1>8, FS_Surjection
<1>10. Cardinality(Receiving(c)) \in Nat BY <1>9, FS_CardinalityType
<1>11. QED BY <1>7, <1>8, <1>9, <1>10

\* Before a run and after it some roles are held alike, among them all that feed
\* them and all but so many.
Settled(c, held, now, rest) ==
    \E among \in SUBSET Role :
        /\ Fed(c, among, among) /\ Same(held, now, among)
        /\ Role \ Receiving(c) \subseteq among
        /\ Cardinality(Receiving(c) \ among) <= rest

LEMMA FirstRun ==
  ASSUME NEW c \in SoundContexts, NoCircles(c), NEW held \in SUBSET Role,
         NEW now, now = Applied(PlanForMember(c, held, c.guilds), held),
         NEW next, next = Applied(PlanForMember(c, now, c.guilds), now)
  PROVE  Settled(c, now, next, Cardinality(c.mappings))
<1> DEFINE among == Role \ Receiving(c)
<1>1. \A m \in LiveMappings(c) : \A e \in MappingEdges(m) : e.to \notin among BY DEF Receiving
<1>2. Fed(c, among, among) /\ Fed(c, among, {}) BY <1>1 DEF Fed
<1>3. Same(held, now, {}) BY DEF Same
<1>4. Same(now, next, among)
  <2>1. among \in SUBSET Role /\ {} \in SUBSET Role OBVIOUS
  <2> HIDE DEF among
  <2>2. QED BY <1>2, <1>3, <2>1, OneRunMore
<1>5. Receiving(c) \ among = Receiving(c) BY NoCirclesOneEnd, FewReceive
<1>6. QED BY <1>2, <1>4, <1>5, NoCirclesOneEnd, FewReceive DEF Settled

LEMMA OneRoleMore ==
  ASSUME NEW c \in SoundContexts, NoCircles(c), NEW held \in SUBSET Role,
         NEW now, now = Applied(PlanForMember(c, held, c.guilds), held),
         NEW next, next = Applied(PlanForMember(c, now, c.guilds), now),
         NEW rest \in Nat, Settled(c, held, now, rest + 1)
  PROVE  Settled(c, now, next, rest)
<1>1. PICK by \in SUBSET Role :
        /\ Fed(c, by, by) /\ Same(held, now, by)
        /\ Role \ Receiving(c) \subseteq by
        /\ Cardinality(Receiving(c) \ by) <= rest + 1
  BY DEF Settled
<1> DEFINE among == {r \in Role : \A m \in LiveMappings(c) : \A e \in MappingEdges(m) :
                                     e.to = r => e.from \in by}
           waiting == Receiving(c) \ by
           left == Receiving(c) \ among
<1>2. by \subseteq among BY <1>1 DEF Fed
<1>3. Fed(c, among, by) BY DEF Fed
<1>4. Fed(c, among, among) BY <1>2, <1>3 DEF Fed
<1>5. among \in SUBSET Role OBVIOUS
<1>6. Same(now, next, among)
  <2> HIDE DEF among
  <2>1. QED BY <1>1, <1>3, <1>4, <1>5, OneRunMore
<1>7. IsFiniteSet(waiting) /\ Cardinality(waiting) \in Nat
  BY NoCirclesOneEnd, FewReceive, FS_Subset, FS_CardinalityType
<1>8. Cardinality(left) <= rest
  <2>1. CASE waiting = {}
    <3>1. left = {} BY <1>2, <2>1
    <3>2. QED BY <3>1, FS_EmptySet
  <2>2. CASE waiting # {}
    <3>1. waiting \in (SUBSET Role) \ {{}} BY <2>2, NoCirclesOneEnd, FewReceive
    <3>2. PICK r \in waiting :
            \A m \in LiveMappings(c) : \A e \in MappingEdges(m) : e.to = r => e.from \notin waiting
      BY <3>1 DEF NoCircles
    <3>3. r \in among
      <4>1. ASSUME NEW m \in LiveMappings(c), NEW e \in MappingEdges(m), e.to = r PROVE e.from \in by
        <5>1. e.from \in Role /\ e.from \notin waiting BY <3>2, <4>1, LiveEdges DEF Edge
        <5>2. QED BY <1>1, <5>1
      <4>2. r \in Role BY <3>1
      <4>3. QED BY <4>1, <4>2
    <3>4. left \in SUBSET (waiting \ {r}) BY <1>2, <3>3
    <3> HIDE DEF left, waiting
    <3>5. IsFiniteSet(waiting \ {r}) /\ Cardinality(waiting \ {r}) = Cardinality(waiting) - 1
      BY <1>7, <3>2, FS_RemoveElement
    <3>6. /\ IsFiniteSet(left) /\ Cardinality(left) <= Cardinality(waiting) - 1 /\ Cardinality(left) \in Nat
      BY <3>4, <3>5, FS_Subset, FS_CardinalityType
    <3>7. Cardinality(waiting) <= rest + 1 BY <1>1 DEF waiting
    <3>8. QED BY <1>7, <3>6, <3>7
  <2>3. QED BY <2>1, <2>2
<1>9. Role \ Receiving(c) \subseteq among BY <1>1, <1>2
<1> HIDE DEF among
<1>10. QED BY <1>4, <1>5, <1>6, <1>8, <1>9 DEF Settled

LEMMA RunsSettle ==
  ASSUME Run, NoCircles(ctx)
  PROVE  /\ AfterRuns(EnoughRuns) \in SUBSET Role
         /\ AfterRuns(EnoughRuns + 1) = AfterRuns(EnoughRuns)
         /\ NextRun(AfterRuns(EnoughRuns)) = AfterRuns(EnoughRuns)
<1> DEFINE N == Cardinality(ctx.mappings)
           x == [k \in Nat |-> AfterRuns(k)]
<1>1. ctx \in SoundContexts /\ actual \in SUBSET Role BY DEF Run
<1>2. N \in Nat BY <1>1, NoCirclesOneEnd, FewReceive
<1>3. x[0] = actual /\ \A k \in Nat : x[k + 1] = NextRun(x[k]) BY AfterRunsAre
<1> HIDE DEF x, N
<1>4. ASSUME NEW held \in SUBSET Role PROVE NextRun(held) \in SUBSET Role
  BY <1>1, RunIs DEF NextRun
<1> DEFINE P == {k \in 0 .. N : x[k] \in SUBSET Role /\ Settled(ctx, x[k + 1], x[k + 2], N - k)}
<1>5. 0 \in P
  <2>1. Settled(ctx, NextRun(actual), NextRun(NextRun(actual)), N) BY <1>1, FirstRun DEF NextRun, N
  <2>2. x[1] = NextRun(actual) /\ x[2] = NextRun(NextRun(actual)) BY <1>3
  <2>3. QED BY <1>1, <1>2, <1>3, <2>1, <2>2
<1>6. ASSUME NEW k \in 1 .. N, k - 1 \in P PROVE k \in P
  <2>1. x[k - 1] \in SUBSET Role /\ Settled(ctx, x[k], x[k + 1], N - (k - 1)) BY <1>2, <1>6
  <2>2. x[k] = NextRun(x[k - 1]) /\ x[k + 1] = NextRun(x[k]) /\ x[k + 2] = NextRun(x[k + 1])
    <3>1. k - 1 \in Nat /\ k \in Nat /\ k + 1 \in Nat BY <1>2
    <3>2. x[(k - 1) + 1] = NextRun(x[k - 1]) /\ x[(k + 1) + 1] = NextRun(x[k + 1]) BY <1>3, <3>1
    <3>3. QED BY <1>3, <3>1, <3>2
  <2>3. x[k] \in SUBSET Role BY <1>4, <2>1, <2>2
  <2>4. N - k \in Nat /\ N - (k - 1) = (N - k) + 1 BY <1>2
  <2>5. Settled(ctx, x[k], x[k + 1], (N - k) + 1) BY <2>1, <2>4
  <2>6. Settled(ctx, x[k + 1], x[k + 2], N - k)
    <3>1. /\ x[k + 1] = Applied(PlanForMember(ctx, x[k], ctx.guilds), x[k])
          /\ x[k + 2] = Applied(PlanForMember(ctx, x[k + 1], ctx.guilds), x[k + 1])
      BY <2>2 DEF NextRun
    <3>2. QED BY <1>1, <2>3, <2>4, <2>5, <3>1, OneRoleMore
  <2>7. QED BY <2>3, <2>6
<1> HIDE DEF P
<1>7. \A k \in 1 .. N : k - 1 \in P => k \in P BY <1>6
<1>8. \A k \in 0 .. N : k \in P BY <1>2, <1>5, <1>7, StepByStep
<1>9. x[N] \in SUBSET Role /\ Settled(ctx, x[N + 1], x[N + 2], N - N) BY <1>2, <1>8 DEF P
<1>10. x[N + 1] = NextRun(x[N]) /\ x[N + 2] = NextRun(x[N + 1])
  <2>1. N + 1 \in Nat /\ (N + 1) + 1 = N + 2 BY <1>2
  <2>2. QED BY <1>2, <1>3, <2>1
<1>11. x[N + 1] \in SUBSET Role /\ x[N + 2] \in SUBSET Role BY <1>4, <1>9, <1>10
<1>12. PICK among \in SUBSET Role :
         /\ Same(x[N + 1], x[N + 2], among) /\ Role \ Receiving(ctx) \subseteq among
         /\ Cardinality(Receiving(ctx) \ among) <= 0
  <2>1. N - N = 0 BY <1>2
  <2>2. QED BY <1>9, <2>1 DEF Settled
<1>13. Receiving(ctx) \ among = {}
  <2> DEFINE left == Receiving(ctx) \ among
  <2>1. IsFiniteSet(left) /\ Cardinality(left) \in Nat
    BY <1>1, NoCirclesOneEnd, FewReceive, FS_Subset, FS_CardinalityType
  <2>2. Cardinality(left) = 0 BY <1>12, <2>1
  <2> HIDE DEF left
  <2>3. left = {} BY <2>1, <2>2, FS_EmptySet
  <2>4. QED BY <2>3 DEF left
<1>14. x[N + 2] = x[N + 1] BY <1>11, <1>12, <1>13 DEF Same
<1>15. x[EnoughRuns] = AfterRuns(EnoughRuns) /\ x[EnoughRuns + 1] = AfterRuns(EnoughRuns + 1)
       /\ EnoughRuns = N + 1 /\ EnoughRuns + 1 = N + 2
  BY <1>2 DEF x, EnoughRuns, N
<1>16. QED BY <1>10, <1>11, <1>14, <1>15

\* Where mappings form no circle, consecutive complete runs settle, whatever the
\* priorities and conflicts, and within one run more than there are mappings.
THEOREM ConsecutiveRunsSettle == RunsSpec => [](NoCircles(ctx) => RunsConverge)
<1>1. Run => (NoCircles(ctx) => RunsConverge) BY RunsSettle DEF RunsConverge
<1>2. QED BY <1>1, RunsAre, PTL

-----------------------------------------------------------------------------
(* Where consecutive runs settle, mirrored roles agree, if the last run's   *)
(* passes came to rest: then no edge would change anything any more.  They  *)
(* may not where mappings feed one another, lead to roles of manual grants  *)
(* and are more than the passes: such roles are under control from the      *)
(* start, so every pass may carry a role one mapping further only.          *)

\* The latest pass has changed nothing so far.
Quiet(st) == st.changed = FALSE

\* An edge that changes nothing about the state.
Still(st, m, e, seen) == ~Adds(st, m, e, seen) /\ ~Drops(st, m, e, seen) /\ ~Controls(st, m, e, seen)

\* Unless the latest pass changed something, no edge would.
AtRest(c, seen) ==
    {s \in State : Quiet(s) =>
        \A m \in LiveMappings(c) : \A e \in MappingEdges(m) : Still(s, m, e, seen)}

\* An edge leaves a state as it is, or the state is marked as changed.
LEMMA EdgeMarks ==
  ASSUME NEW s \in State, NEW m \in Mapping, NEW e \in Edge, NEW seen,
         NEW t, t = ApplyMappingEdge(s, m, e, seen)
  PROVE  t \in State /\ (Quiet(t) =>
           /\ Still(s, m, e, seen) /\ Quiet(s)
           /\ DOMAIN t.desired = DOMAIN s.desired /\ t.controlled = s.controlled
           /\ \A r \in DOMAIN s.desired : t.desired[r] = s.desired[r])
<1> DEFINE adds == Adds(s, m, e, seen)
           drops == Drops(s, m, e, seen)
           controls == Controls(s, m, e, seen)
<1>1. t.changed = (s.changed \/ adds \/ drops \/ controls) BY DEF ApplyMappingEdge
<1>2. s.changed \in BOOLEAN BY DEF State
<1>3. /\ t \in State
      /\ DOMAIN t.desired = (DOMAIN s.desired \ (IF drops THEN {e.to} ELSE {})) \cup (IF adds THEN {e.to} ELSE {})
      /\ \A r \in DOMAIN t.desired : r \in DOMAIN s.desired \ (IF drops THEN {e.to} ELSE {})
                                         => t.desired[r] = s.desired[r]
      /\ t.controlled = s.controlled \cup (IF controls THEN {e.to} ELSE {})
  BY EdgeApplied
<1> HIDE DEF adds, drops, controls
<1>4. ASSUME Quiet(t) PROVE ~adds /\ ~drops /\ ~controls /\ Quiet(s)
  <2>1. ~(s.changed \/ adds \/ drops \/ controls) BY <1>1, <1>4 DEF Quiet
  <2>2. QED BY <1>2, <2>1 DEF Quiet
<1>5. QED BY <1>3, <1>4 DEF adds, drops, controls, Still

\* Two states with the same claims and the same control treat an edge alike.
LEMMA StillAlike ==
  ASSUME NEW s, NEW t, NEW m, NEW e, NEW seen, DOMAIN s.desired = DOMAIN t.desired,
         \A r \in DOMAIN s.desired : t.desired[r] = s.desired[r], s.controlled = t.controlled,
         Still(s, m, e, seen)
  PROVE  Still(t, m, e, seen)
<1>1. \A r : EffectiveHas(t, seen, r) <=> EffectiveHas(s, seen, r) BY DEF EffectiveHas
<1>2. QED BY <1>1 DEF Still, Adds, Drops, Controls

\* What each edge brings about, and every edge keeps, holds of all edges after a pass.
LEMMA PassTouches ==
  ASSUME NEW c \in SoundContexts, NEW seen, NEW kept, NEW Touched,
         \A s \in kept : [s EXCEPT !.changed = FALSE] \in kept,
         \A m \in LiveMappings(c) : \A e \in MappingEdges(m) : \A s \in kept :
             /\ ApplyMappingEdge(s, m, e, seen) \in kept \cap Touched[<<m, e>>]
             /\ \A pair \in Pairs(c) : s \in Touched[pair] => ApplyMappingEdge(s, m, e, seen) \in Touched[pair],
         NEW st \in kept
  PROVE  LET t == MappingPass(st, OrderedMappings(c), seen)
         IN  t \in kept /\ \A pair \in Pairs(c) : t \in Touched[pair]
<1> DEFINE ms == OrderedMappings(c)
           N == Len(ms)
           Upto(i) == {pair \in Pairs(c) : \E j \in 1 .. i : pair[1] = ms[j]}
           Far(i) == {s \in kept : \A pair \in Upto(i) : s \in Touched[pair]}
           J == [i \in 0 .. N |-> Far(i)]
<1>1. /\ N \in Nat /\ \A i \in 1 .. N : ms[i] \in LiveMappings(c)
      /\ \A m \in LiveMappings(c) : \E i \in 1 .. N : ms[i] = m
  BY OrderIs
<1> HIDE DEF ms, N
<1>2. ASSUME NEW i \in 1 .. N, NEW s \in Far(i - 1) PROVE ApplyMapping(s, ms[i], seen) \in Far(i)
  <2> DEFINE m == ms[i]
             edges == EdgesFor(m)
             first == ApplyMappingEdge(s, m, edges[1], seen)
             last == ApplyMapping(s, m, seen)
  <2>1. m \in LiveMappings(c) BY <1>1
  <2>2. /\ Len(edges) \in {1, 2} /\ edges[1] \in MappingEdges(m)
        /\ Len(edges) = 2 => edges[2] \in MappingEdges(m)
        /\ \A e \in MappingEdges(m) : e = edges[1] \/ (Len(edges) = 2 /\ e = edges[2])
    BY <2>1, LiveAre, EdgesAre
  <2>3. s \in kept /\ \A pair \in Upto(i - 1) : s \in Touched[pair] OBVIOUS
  <2>4. last = IF Len(edges) = 1 THEN first ELSE ApplyMappingEdge(first, m, edges[2], seen)
    BY DEF ApplyMapping
  <2>5. \A pair \in Upto(i) : pair \in Upto(i - 1) \/ (pair[1] = m /\ pair = <<m, pair[2]>> /\ pair[2] \in MappingEdges(m))
    <3> SUFFICES ASSUME NEW pair \in Pairs(c), NEW j \in 1 .. i, pair[1] = ms[j], j \notin 1 .. i - 1
                 PROVE  pair[1] = m /\ pair = <<m, pair[2]>> /\ pair[2] \in MappingEdges(m)
      OBVIOUS
    <3>1. j = i BY <1>1
    <3>2. QED BY <3>1, PairsAre
  <2>6. Upto(i - 1) \subseteq Pairs(c) /\ Upto(i) \subseteq Pairs(c) OBVIOUS
  <2>7. \A e \in MappingEdges(m) : <<m, e>> \in Pairs(c) BY <2>1 DEF Pairs
  <2> HIDE DEF m, edges, Upto
  <2>8. /\ first \in kept /\ first \in Touched[<<m, edges[1]>>]
        /\ \A pair \in Upto(i - 1) : first \in Touched[pair]
    BY <2>1, <2>2, <2>3, <2>6
  <2> HIDE DEF first, last
  <2>9. CASE Len(edges) = 1
    <3>1. last = first /\ \A e \in MappingEdges(m) : e = edges[1] BY <2>2, <2>4, <2>9
    <3>2. QED BY <2>5, <2>8, <3>1 DEF last, m
  <2>10. CASE Len(edges) = 2
    <3>1. last = ApplyMappingEdge(first, m, edges[2], seen) /\ edges[2] \in MappingEdges(m) BY <2>2, <2>4, <2>10
    <3>2. /\ last \in kept /\ last \in Touched[<<m, edges[2]>>]
          /\ \A pair \in Pairs(c) : first \in Touched[pair] => last \in Touched[pair]
      BY <2>1, <2>8, <3>1
    <3>3. last \in Touched[<<m, edges[1]>>] BY <2>2, <2>7, <2>8, <3>2
    <3>4. \A pair \in Upto(i - 1) : last \in Touched[pair] BY <2>6, <2>8, <3>2
    <3>5. \A pair \in Upto(i) : last \in Touched[pair] BY <2>2, <2>5, <3>2, <3>3, <3>4
    <3>6. QED BY <3>2, <3>5 DEF last, m
  <2>11. QED BY <2>2, <2>9, <2>10
<1>3. [st EXCEPT !.changed = FALSE] \in Far(0) OBVIOUS
<1>4. \A s \in Far(N) : s \in kept /\ \A pair \in Pairs(c) : s \in Touched[pair]
  <2>1. \A pair \in Pairs(c) : pair \in Upto(N) BY <1>1, PairsAre
  <2> HIDE DEF Upto
  <2>2. QED BY <2>1
<1>5. \A i \in 0 .. N : J[i] = Far(i) OBVIOUS
<1>6. \A i \in 1 .. N : i \in 0 .. N /\ i - 1 \in 0 .. N BY <1>1
<1> HIDE DEF J, Far
<1>7. [st EXCEPT !.changed = FALSE] \in J[0] BY <1>1, <1>3, <1>5
<1>8. \A i \in 1 .. N : \A s \in J[i - 1] : ApplyMapping(s, ms[i], seen) \in J[i] BY <1>2, <1>5, <1>6
<1>9. MappingPass(st, ms, seen) \in J[N] BY <1>1, <1>7, <1>8, PassFollows DEF N
<1>10. N \in 0 .. N BY <1>1
<1>11. QED BY <1>4, <1>5, <1>9, <1>10 DEF ms

\* A pass that changes nothing has found every edge still.
LEMMA PassRests ==
  ASSUME NEW c \in SoundContexts, NEW seen, NEW st \in State
  PROVE  MappingPass(st, OrderedMappings(c), seen) \in AtRest(c, seen)
<1> DEFINE Touched == [pair \in Pairs(c) |-> {s \in State : Quiet(s) => Still(s, pair[1], pair[2], seen)}]
           t == MappingPass(st, OrderedMappings(c), seen)
<1>1. \A pair \in Pairs(c) : Touched[pair] = {s \in State : Quiet(s) => Still(s, pair[1], pair[2], seen)}
  OBVIOUS
<1>2. \A m \in LiveMappings(c) : \A e \in MappingEdges(m) : <<m, e>> \in Pairs(c) BY DEF Pairs
<1> HIDE DEF Touched, t
<1>3. \A s \in State : [s EXCEPT !.changed = FALSE] \in State BY UnchangedState
<1>4. ASSUME NEW m \in LiveMappings(c), NEW e \in MappingEdges(m), NEW s \in State
      PROVE  /\ ApplyMappingEdge(s, m, e, seen) \in State \cap Touched[<<m, e>>]
             /\ \A pair \in Pairs(c) : s \in Touched[pair] => ApplyMappingEdge(s, m, e, seen) \in Touched[pair]
  <2> DEFINE u == ApplyMappingEdge(s, m, e, seen)
  <2>1. m \in Mapping /\ e \in Edge BY LiveEdges
  <2>2. u \in State /\ (Quiet(u) =>
           /\ Still(s, m, e, seen) /\ Quiet(s)
           /\ DOMAIN u.desired = DOMAIN s.desired /\ u.controlled = s.controlled
           /\ \A r \in DOMAIN s.desired : u.desired[r] = s.desired[r])
    BY <2>1, EdgeMarks
  <2> HIDE DEF u
  <2>3. ASSUME NEW n, NEW f, Quiet(u), Still(s, n, f, seen) PROVE Still(u, n, f, seen)
    BY <2>2, <2>3, StillAlike
  <2>4. u \in Touched[<<m, e>>] BY <1>1, <1>2, <2>2, <2>3
  <2>5. ASSUME NEW pair \in Pairs(c), s \in Touched[pair] PROVE u \in Touched[pair]
    <3>1. Quiet(s) => Still(s, pair[1], pair[2], seen) BY <1>1, <2>5
    <3>2. Quiet(u) => Still(u, pair[1], pair[2], seen) BY <2>2, <2>3, <3>1
    <3>3. QED BY <1>1, <2>2, <3>2
  <2>6. QED BY <2>2, <2>4, <2>5 DEF u
<1>5. t \in State /\ \A pair \in Pairs(c) : t \in Touched[pair] BY <1>3, <1>4, PassTouches DEF t
<1>6. ASSUME Quiet(t), NEW m \in LiveMappings(c), NEW e \in MappingEdges(m) PROVE Still(t, m, e, seen)
  BY <1>1, <1>2, <1>5, <1>6
<1>7. t \in AtRest(c, seen) BY <1>5, <1>6 DEF AtRest
<1>8. QED BY <1>7 DEF t

\* What every pass keeps a whole computation keeps.
LEMMA ComputationKeeps ==
  ASSUME NEW c \in SoundContexts, NEW held, NEW read, NEW kept, ApplyManualGrants(c) \in kept,
         \A s \in kept : MappingPass(s, OrderedMappings(c), Seen(held, read)) \in kept
  PROVE  ComputeDesiredState(c, held, read) \in kept
<1> DEFINE ms == OrderedMappings(c)
           seen == Seen(held, read)
           K == [n \in 0 .. MaxMappingPasses |-> kept]
<1>1. MaxMappingPasses \in Nat BY DEF MaxMappingPasses
<1>2. \A n \in 0 .. MaxMappingPasses : K[n] = kept OBVIOUS
<1>3. \A s \in kept : NextPass(s, ms, seen) \in kept BY DEF NextPass
<1> HIDE DEF K, ms, seen
<1>4. /\ ApplyManualGrants(c) \in K[0]
      /\ \A n \in 1 .. MaxMappingPasses : \A s \in K[n - 1] : NextPass(s, ms, seen) \in K[n]
  BY <1>1, <1>2, <1>3
<1>5. ApplyMappings(ApplyManualGrants(c), ms, seen) \in K[MaxMappingPasses] BY <1>4, PassesFollow
<1>6. QED BY <1>1, <1>2, <1>5 DEF ComputeDesiredState, ms, seen

LEMMA ComputedRests ==
  ASSUME NEW c \in SoundContexts, NEW held, NEW read
  PROVE  ComputeDesiredState(c, held, read) \in AtRest(c, Seen(held, read))
<1> DEFINE rest == AtRest(c, Seen(held, read))
<1>1. ApplyManualGrants(c) \in rest BY StartIsSound DEF SoundStates, AtRest, Quiet
<1>2. \A s \in rest : s \in State BY DEF AtRest
<1> HIDE DEF rest
<1>3. \A s \in rest : MappingPass(s, OrderedMappings(c), Seen(held, read)) \in rest
  BY <1>2, PassRests DEF rest
<1>4. QED BY <1>1, <1>3, ComputationKeeps DEF rest

\* A mapping's claim has come along an edge, from a claimed role or one that was seen.
CameAlong(c, seen) ==
    {st \in SoundStates(c, Role) : \A r \in DOMAIN st.desired \ ActiveGrants(c) :
        \E m \in LiveMappings(c) : \E e \in MappingEdges(m) :
            e.to = r /\ e.from \in DOMAIN st.desired \cup seen}

LEMMA ComputedCameAlong ==
  ASSUME NEW c \in SoundContexts, OneEdgePerTarget(c), NEW held \in SUBSET Role, NEW read
  PROVE  ComputeDesiredState(c, held, read) \in CameAlong(c, Seen(held, read))
<1> DEFINE seen == Seen(held, read)
           along == CameAlong(c, seen)
<1>1. ClosedUnderCopying(c, Role) BY LiveEdges DEF ClosedUnderCopying, Copying, Edge
<1>2. seen \in SUBSET Role /\ ActiveGrants(c) \in SUBSET Role BY BeginningsAre
<1> HIDE DEF seen
<1>3. ASSUME NEW m \in LiveMappings(c), NEW s \in along, NEW e \in MappingEdges(m)
      PROVE  ApplyMappingEdge(s, m, e, seen) \in along
  <2> DEFINE t == ApplyMappingEdge(s, m, e, seen)
  <2>1. s \in SoundStates(c, Role) BY DEF CameAlong
  <2>2. e.from \in Role /\ e.to \in Role BY LiveEdges DEF Edge
  <2>3. t \in SoundStates(c, Role) BY <1>1, <2>1, <2>2, EdgeKeeps
  <2>4. DOMAIN t.desired = DOMAIN s.desired \cup (IF Adds(s, m, e, seen) THEN {e.to} ELSE {})
    BY <2>1, OnlyTargetsChange
  <2>5. Adds(s, m, e, seen) => e.from \in DOMAIN s.desired \cup seen BY DEF Adds, EffectiveHas
  <2> HIDE DEF t
  <2>6. ASSUME NEW r \in DOMAIN t.desired \ ActiveGrants(c)
        PROVE  \E n \in LiveMappings(c) : \E f \in MappingEdges(n) :
                   f.to = r /\ f.from \in DOMAIN t.desired \cup seen
    <3>1. CASE r \in DOMAIN s.desired
      <4>1. PICK n \in LiveMappings(c) : \E f \in MappingEdges(n) :
               f.to = r /\ f.from \in DOMAIN s.desired \cup seen
        BY <2>6, <3>1 DEF CameAlong
      <4>2. QED BY <2>4, <4>1
    <3>2. CASE r \notin DOMAIN s.desired
      <4>1. Adds(s, m, e, seen) /\ r = e.to BY <2>4, <2>6, <3>2
      <4>2. QED BY <2>4, <2>5, <4>1
    <3>3. QED BY <3>1, <3>2
  <2>7. t \in along BY <2>3, <2>6 DEF CameAlong
  <2>8. QED BY <2>7 DEF t
<1>4. \A s \in along : [s EXCEPT !.changed = FALSE] \in along
  <2> SUFFICES ASSUME NEW s \in along PROVE [s EXCEPT !.changed = FALSE] \in along
    OBVIOUS
  <2> DEFINE t == [s EXCEPT !.changed = FALSE]
  <2>1. t \in SoundStates(c, Role) /\ t.desired = s.desired BY ChangedIsFree DEF CameAlong
  <2> HIDE DEF t
  <2>2. t \in along BY <2>1 DEF CameAlong
  <2>3. QED BY <2>2 DEF t
<1>5. ApplyManualGrants(c) \in along BY <1>2, StartIsSound DEF CameAlong
<1> HIDE DEF along
<1>6. \A m \in LiveMappings(c) : \A s \in along : \A e \in MappingEdges(m) :
          ApplyMappingEdge(s, m, e, seen) \in along
  BY <1>3
<1>7. \A s \in along : MappingPass(s, OrderedMappings(c), seen) \in along BY <1>4, <1>6, PassKeeps
<1>8. QED BY <1>5, <1>7, ComputationKeeps DEF along, seen

\* Everything removing mappings lead to is under control.
Ruled(c, st) ==
    \A m \in LiveMappings(c) : \A e \in MappingEdges(m) : Removable(m, e) => e.to \in st.controlled

\* What one edge does to a sound state, with one edge into each role.
LEMMA EdgeGrows ==
  ASSUME NEW c \in SoundContexts, OneEdgePerTarget(c), NEW m \in LiveMappings(c), NEW e \in MappingEdges(m),
         NEW seen, NEW s \in SoundStates(c, Role), NEW t, t = ApplyMappingEdge(s, m, e, seen)
  PROVE  /\ t \in SoundStates(c, Role)
         /\ DOMAIN t.desired = DOMAIN s.desired \cup (IF Adds(s, m, e, seen) THEN {e.to} ELSE {})
         /\ t.controlled = s.controlled \cup (IF Controls(s, m, e, seen) THEN {e.to} ELSE {})
         /\ Removable(m, e) => e.to \in t.controlled
         /\ Quiet(t) <=> Quiet(s) /\ ~Adds(s, m, e, seen) /\ ~Controls(s, m, e, seen)
<1>1. ClosedUnderCopying(c, Role) BY LiveEdges DEF ClosedUnderCopying, Copying, Edge
<1>2. e.from \in Role BY LiveEdges DEF Edge
<1>3. t \in SoundStates(c, Role) BY <1>1, <1>2, EdgeKeeps
<1>4. /\ DOMAIN t.desired = DOMAIN s.desired \cup (IF Adds(s, m, e, seen) THEN {e.to} ELSE {})
      /\ t.controlled = s.controlled \cup (IF Controls(s, m, e, seen) THEN {e.to} ELSE {})
  BY OnlyTargetsChange
<1>5. Removable(m, e) => e.to \in t.controlled BY <1>4 DEF Controls
<1> DEFINE adds == Adds(s, m, e, seen)
           drops == Drops(s, m, e, seen)
           controls == Controls(s, m, e, seen)
<1>6. t.changed = (s.changed \/ adds \/ drops \/ controls) BY DEF ApplyMappingEdge
<1>7. s.changed \in BOOLEAN /\ ~drops BY NothingDropped DEF SoundStates, State
<1> HIDE DEF adds, drops, controls
<1>8. Quiet(t) <=> Quiet(s) /\ ~adds /\ ~controls
  <2>1. Quiet(t) <=> ~(s.changed \/ adds \/ drops \/ controls) BY <1>6 DEF Quiet
  <2>2. QED BY <1>7, <2>1 DEF Quiet
<1>9. QED BY <1>3, <1>4, <1>5, <1>8 DEF adds, controls

LEMMA SoundUnchanged ==
  ASSUME NEW c, NEW s \in SoundStates(c, Role)
  PROVE  LET t == [s EXCEPT !.changed = FALSE]
         IN  t \in SoundStates(c, Role) /\ t.desired = s.desired /\ t.controlled = s.controlled /\ Quiet(t)
<1>1. s \in State BY DEF SoundStates
<1>2. [s EXCEPT !.changed = FALSE].changed = FALSE BY <1>1, UnchangedState
<1>3. QED BY <1>2, ChangedIsFree DEF Quiet

\* The first pass brings under control what ever will be.
LEMMA PassRules ==
  ASSUME NEW c \in SoundContexts, OneEdgePerTarget(c), NEW seen, NEW s \in SoundStates(c, Role)
  PROVE  LET t == MappingPass(s, OrderedMappings(c), seen) IN t \in SoundStates(c, Role) /\ Ruled(c, t)
<1> DEFINE sound == SoundStates(c, Role)
           Touched == [pair \in Pairs(c) |->
                         {x \in sound : Removable(pair[1], pair[2]) => pair[2].to \in x.controlled}]
           t == MappingPass(s, OrderedMappings(c), seen)
<1>1. \A pair \in Pairs(c) : Touched[pair] =
          {x \in sound : Removable(pair[1], pair[2]) => pair[2].to \in x.controlled}
  OBVIOUS
<1>2. \A m \in LiveMappings(c) : \A e \in MappingEdges(m) : <<m, e>> \in Pairs(c) BY DEF Pairs
<1> HIDE DEF Touched, t
<1>3. \A x \in sound : [x EXCEPT !.changed = FALSE] \in sound BY SoundUnchanged
<1>4. ASSUME NEW m \in LiveMappings(c), NEW e \in MappingEdges(m), NEW x \in sound
      PROVE  /\ ApplyMappingEdge(x, m, e, seen) \in sound \cap Touched[<<m, e>>]
             /\ \A pair \in Pairs(c) : x \in Touched[pair] => ApplyMappingEdge(x, m, e, seen) \in Touched[pair]
  <2> DEFINE u == ApplyMappingEdge(x, m, e, seen)
  <2>1. u \in sound /\ x.controlled \subseteq u.controlled /\ (Removable(m, e) => e.to \in u.controlled)
    BY EdgeGrows
  <2> HIDE DEF u, sound
  <2>2. u \in Touched[<<m, e>>] BY <1>1, <1>2, <2>1
  <2>3. \A pair \in Pairs(c) : x \in Touched[pair] => u \in Touched[pair] BY <1>1, <2>1
  <2>4. QED BY <2>1, <2>2, <2>3 DEF u
<1> HIDE DEF sound
<1>5. s \in sound BY DEF sound
<1>6. t \in sound /\ \A pair \in Pairs(c) : t \in Touched[pair] BY <1>3, <1>4, <1>5, PassTouches DEF t
<1>7. Ruled(c, t) BY <1>1, <1>2, <1>6 DEF Ruled
<1>8. QED BY <1>6, <1>7 DEF t, sound

\* Every later pass that changes something claims one more of the receiving roles.
LEMMA PassClaims ==
  ASSUME NEW c \in SoundContexts, OneEdgePerTarget(c), NEW seen, NEW s \in SoundStates(c, Role), Ruled(c, s),
         NEW t, t = MappingPass(s, OrderedMappings(c), seen)
  PROVE  /\ t \in SoundStates(c, Role) /\ Ruled(c, t) /\ DOMAIN s.desired \subseteq DOMAIN t.desired
         /\ Quiet(t) \/ \E r \in Receiving(c) : r \in DOMAIN t.desired \ DOMAIN s.desired
<1> DEFINE Claimed(x) == \E r \in Receiving(c) : r \in DOMAIN x.desired \ DOMAIN s.desired
           Good(x) == /\ x \in SoundStates(c, Role) /\ Ruled(c, x)
                      /\ DOMAIN s.desired \subseteq DOMAIN x.desired
                      /\ Quiet(x) \/ Claimed(x)
           kept == {x \in SoundStates(c, Role) : Good(x)}
<1>1. \A x : x \in kept <=> Good(x) OBVIOUS
<1> HIDE DEF kept
<1>2. ASSUME NEW m \in LiveMappings(c), NEW e \in MappingEdges(m), NEW x \in kept
      PROVE  ApplyMappingEdge(x, m, e, seen) \in kept
  <2> DEFINE u == ApplyMappingEdge(x, m, e, seen)
  <2>1. Good(x) BY <1>1, <1>2
  <2>2. /\ u \in SoundStates(c, Role)
        /\ DOMAIN u.desired = DOMAIN x.desired \cup (IF Adds(x, m, e, seen) THEN {e.to} ELSE {})
        /\ u.controlled = x.controlled \cup (IF Controls(x, m, e, seen) THEN {e.to} ELSE {})
        /\ Quiet(u) <=> Quiet(x) /\ ~Adds(x, m, e, seen) /\ ~Controls(x, m, e, seen)
    BY <2>1, EdgeGrows
  <2> HIDE DEF u
  <2>3. ~Controls(x, m, e, seen) BY <2>1 DEF Ruled, Controls
  <2>4. Ruled(c, u) BY <2>1, <2>2 DEF Ruled
  <2>5. Adds(x, m, e, seen) => e.to \in Receiving(c) /\ e.to \notin DOMAIN x.desired
    BY DEF Adds, Receiving
  <2>6. Quiet(u) \/ Claimed(u) BY <2>1, <2>2, <2>3, <2>5
  <2>7. u \in kept BY <1>1, <2>1, <2>2, <2>4, <2>6
  <2>8. QED BY <2>7 DEF u
<1>3. [s EXCEPT !.changed = FALSE] \in kept
  <2> DEFINE u == [s EXCEPT !.changed = FALSE]
  <2>1. u \in SoundStates(c, Role) /\ u.desired = s.desired /\ u.controlled = s.controlled /\ Quiet(u)
    BY SoundUnchanged
  <2> HIDE DEF u
  <2>2. u \in kept BY <1>1, <2>1 DEF Ruled
  <2>3. QED BY <2>2 DEF u
<1>4. \A m \in LiveMappings(c) : \A x \in kept : \A e \in MappingEdges(m) :
          ApplyMappingEdge(x, m, e, seen) \in kept
  BY <1>2
<1>5. t \in kept BY <1>3, <1>4, PassCarries
<1>6. QED BY <1>1, <1>5

\* A set that gains a member gains in size.
LEMMA OneMore ==
  ASSUME NEW R, IsFiniteSet(R), NEW A \in SUBSET R, NEW B \in SUBSET R, A \subseteq B, NEW r \in B, r \notin A
  PROVE  /\ Cardinality(A) \in Nat /\ Cardinality(B) \in Nat /\ Cardinality(B) <= Cardinality(R)
         /\ Cardinality(A) + 1 <= Cardinality(B)
<1>1. IsFiniteSet(A) /\ IsFiniteSet(B) /\ Cardinality(B) <= Cardinality(R) BY FS_Subset
<1>2. Cardinality(A) \in Nat /\ Cardinality(B) \in Nat BY <1>1, FS_CardinalityType
<1>3. A # B OBVIOUS
<1>4. Cardinality(A) <= Cardinality(B) /\ Cardinality(A) # Cardinality(B) BY <1>1, <1>3, FS_Subset
<1>5. QED BY <1>1, <1>2, <1>4

\* With few mappings the passes come to rest before their limit.
LEMMA FewComeToRest ==
  ASSUME NEW c \in SoundContexts, OneEdgePerTarget(c), OneEnd(c), FewMappings(c), NEW held \in SUBSET Role
  PROVE  ReachesFixpoint(c, held)
<1> DEFINE ms == OrderedMappings(c)
           seen == Seen(held, c.guilds)
           start == ApplyManualGrants(c)
           N == MaxMappingPasses
           Got(s) == DOMAIN s.desired \cap Receiving(c)
           Far(n) == {s \in SoundStates(c, Role) : Ruled(c, s) /\ (Quiet(s) \/ n - 1 <= Cardinality(Got(s)))}
           K == [n \in 0 .. N |-> IF n = 0 THEN {start} ELSE Far(n)]
<1>1. N \in Nat \ {0} BY DEF MaxMappingPasses
<1>2. start \in SoundStates(c, Role) /\ start.changed = TRUE
  <2>1. ActiveGrants(c) \subseteq Role BY DEF ActiveGrants, RolesIn
  <2>2. QED BY <2>1, StartIsSound
<1>3. /\ IsFiniteSet(Receiving(c)) /\ Cardinality(Receiving(c)) \in Nat /\ Cardinality(c.mappings) \in Nat
      /\ Cardinality(Receiving(c)) <= Cardinality(c.mappings)
  BY FewReceive
<1>4. \A n \in 0 .. N : K[n] = IF n = 0 THEN {start} ELSE Far(n) OBVIOUS
<1>5. \A s : IsFiniteSet(Got(s)) /\ Cardinality(Got(s)) \in Nat /\ Cardinality(Got(s)) <= Cardinality(Receiving(c))
  <2> SUFFICES ASSUME NEW s
               PROVE  IsFiniteSet(Got(s)) /\ Cardinality(Got(s)) \in Nat /\ Cardinality(Got(s)) <= Cardinality(Receiving(c))
    OBVIOUS
  <2>1. Got(s) \in SUBSET Receiving(c) OBVIOUS
  <2> HIDE DEF Got
  <2>2. QED BY <1>3, <2>1, FS_Subset, FS_CardinalityType
<1> HIDE DEF K, start, ms, seen, N
<1>6. ASSUME NEW n \in 1 .. N, NEW s \in K[n - 1] PROVE NextPass(s, ms, seen) \in K[n]
  <2> DEFINE t == NextPass(s, ms, seen)
  <2>1. n \in 0 .. N /\ n - 1 \in 0 .. N /\ n # 0 BY <1>1
  <2>2. CASE n = 1
    <3>1. s = start
      <4>1. n - 1 = 0 BY <2>2
      <4>2. K[n - 1] = {start} BY <1>4, <2>1, <4>1
      <4>3. QED BY <1>6, <4>2
    <3>2. t = MappingPass(s, ms, seen) BY <1>2, <3>1 DEF NextPass
    <3>3. t \in SoundStates(c, Role) /\ Ruled(c, t) BY <1>2, <3>1, <3>2, PassRules DEF ms
    <3> HIDE DEF t, Got
    <3>4. n - 1 <= Cardinality(Got(t)) BY <1>5, <2>2
    <3>5. t \in Far(n) BY <3>3, <3>4
    <3>6. QED BY <1>4, <2>1, <3>5 DEF t
  <2>3. CASE n # 1
    <3>1. s \in Far(n - 1)
      <4>1. n - 1 # 0 BY <1>1, <2>3
      <4>2. QED BY <1>4, <1>6, <2>1, <4>1
    <3>2. s \in SoundStates(c, Role) /\ Ruled(c, s) /\ (Quiet(s) \/ (n - 1) - 1 <= Cardinality(Got(s)))
      BY <3>1
    <3>3. s.changed \in BOOLEAN BY <3>2 DEF SoundStates, State
    <3>4. CASE Quiet(s)
      <4>1. t = s BY <3>4 DEF NextPass, Quiet
      <4> HIDE DEF t, Got
      <4>2. t \in Far(n) BY <3>2, <3>4, <4>1
      <4>3. QED BY <1>4, <2>1, <4>2 DEF t
    <3>5. CASE ~Quiet(s)
      <4>1. t = MappingPass(s, ms, seen) BY <3>3, <3>5 DEF NextPass, Quiet
      <4>2. /\ t \in SoundStates(c, Role) /\ Ruled(c, t) /\ DOMAIN s.desired \subseteq DOMAIN t.desired
            /\ Quiet(t) \/ \E r \in Receiving(c) : r \in DOMAIN t.desired \ DOMAIN s.desired
        BY <3>2, <4>1, PassClaims DEF ms
      <4> HIDE DEF t
      <4>3. ASSUME ~Quiet(t) PROVE n - 1 <= Cardinality(Got(t))
        <5>1. PICK r \in Receiving(c) : r \in DOMAIN t.desired \ DOMAIN s.desired BY <4>2, <4>3
        <5>2. /\ Got(s) \in SUBSET Receiving(c) /\ Got(t) \in SUBSET Receiving(c) /\ Got(s) \subseteq Got(t)
              /\ r \in Got(t) /\ r \notin Got(s)
          BY <4>2, <5>1
        <5> HIDE DEF Got
        <5>3. Cardinality(Got(s)) + 1 <= Cardinality(Got(t)) BY <1>3, <5>2, OneMore
        <5>4. QED BY <1>5, <3>2, <3>5, <5>3
      <4> HIDE DEF Got
      <4>4. t \in Far(n) BY <4>2, <4>3
      <4>5. QED BY <1>4, <2>1, <4>4 DEF t
    <3>6. QED BY <3>4, <3>5
  <2>4. QED BY <2>2, <2>3
<1>7. K[0] = {start} /\ K[N] = Far(N)
  <2>1. 0 \in 0 .. N /\ N \in 0 .. N /\ N # 0 BY <1>1
  <2> HIDE DEF Far
  <2>2. QED BY <1>4, <2>1
<1> DEFINE last == ApplyMappings(start, ms, seen)
<1>8. last \in K[N]
  <2>1. start \in K[0] BY <1>7
  <2>2. QED BY <1>6, <2>1, PassesFollow DEF N
<1>9. last = ComputeDesiredState(c, held, c.guilds) BY DEF ComputeDesiredState, start, ms, seen
<1> HIDE DEF last, Got
<1>10. last \in Far(N) BY <1>7, <1>8
<1>11. Quiet(last)
  <2>1. Quiet(last) \/ N - 1 <= Cardinality(Got(last)) BY <1>10
  <2>2. Cardinality(c.mappings) < N - 1 BY DEF FewMappings, N
  <2>3. QED BY <1>1, <1>3, <1>5, <2>1, <2>2
<1>12. QED BY <1>9, <1>11 DEF ReachesFixpoint, Quiet

\* What holds after the first pass, and every pass keeps, holds in the end.
LEMMA LaterPassesKeep ==
  ASSUME NEW c \in SoundContexts, NEW held, NEW read, NEW seen, seen = Seen(held, read), NEW kept,
         MappingPass(ApplyManualGrants(c), OrderedMappings(c), seen) \in kept,
         \A s \in kept : NextPass(s, OrderedMappings(c), seen) \in kept
  PROVE  ComputeDesiredState(c, held, read) \in kept
<1> DEFINE ms == OrderedMappings(c)
           start == ApplyManualGrants(c)
           K == [n \in 0 .. MaxMappingPasses |-> IF n = 0 THEN {start} ELSE kept]
<1>1. MaxMappingPasses \in Nat \ {0} BY DEF MaxMappingPasses
<1>2. \A n \in 0 .. MaxMappingPasses : K[n] = IF n = 0 THEN {start} ELSE kept OBVIOUS
<1>3. start.changed = TRUE BY DEF ApplyManualGrants
<1>4. NextPass(start, ms, seen) \in kept BY <1>3 DEF NextPass
<1> HIDE DEF K, ms, start
<1>5. start \in K[0] BY <1>1, <1>2
<1>6. ASSUME NEW n \in 1 .. MaxMappingPasses, NEW s \in K[n - 1] PROVE NextPass(s, ms, seen) \in K[n]
  <2>1. n \in 0 .. MaxMappingPasses /\ n - 1 \in 0 .. MaxMappingPasses /\ n # 0 BY <1>1
  <2>2. s \in kept \/ s = start BY <1>2, <1>6, <2>1
  <2>3. NextPass(s, ms, seen) \in kept BY <1>4, <2>2 DEF ms
  <2>4. QED BY <1>2, <2>1, <2>3
<1>7. ApplyMappings(start, ms, seen) \in K[MaxMappingPasses] BY <1>5, <1>6, PassesFollow
<1>8. QED BY <1>1, <1>2, <1>7 DEF ComputeDesiredState, ms, start

LEMMA ComputedRuled ==
  ASSUME NEW c \in SoundContexts, OneEdgePerTarget(c), NEW held, NEW read
  PROVE  Ruled(c, ComputeDesiredState(c, held, read))
<1> DEFINE seen == Seen(held, read)
           ruled == {s \in SoundStates(c, Role) : Ruled(c, s)}
<1>1. ApplyManualGrants(c) \in SoundStates(c, Role)
  <2>1. ActiveGrants(c) \subseteq Role BY DEF ActiveGrants, RolesIn
  <2>2. QED BY <2>1, StartIsSound
<1> HIDE DEF seen
<1>2. \A s \in SoundStates(c, Role) : MappingPass(s, OrderedMappings(c), seen) \in ruled BY PassRules
<1>3. \A s \in ruled : NextPass(s, OrderedMappings(c), seen) \in ruled BY <1>2 DEF NextPass
<1>4. MappingPass(ApplyManualGrants(c), OrderedMappings(c), seen) \in ruled BY <1>1, <1>2
<1>5. \A s \in ruled : Ruled(c, s) OBVIOUS
<1> HIDE DEF ruled
<1>6. ComputeDesiredState(c, held, read) \in ruled BY <1>3, <1>4, LaterPassesKeep DEF seen
<1>7. QED BY <1>5, <1>6

\* In what a complete run leaves alone, the receiving end of a mirroring edge is held
\* only with the authoritative end.
LEMMA HeldCameAlong ==
  ASSUME NEW c \in SoundContexts, OneEdgePerTarget(c), FullyMirrored(c),
         NEW held \in SUBSET Role, Applied(PlanForMember(c, held, c.guilds), held) = held,
         NEW st, st = ComputeDesiredState(c, held, c.guilds)
  PROVE  /\ st \in SoundStates(c, Role) /\ Ruled(c, st) /\ DOMAIN st.desired \subseteq held
         /\ \A r \in RolesIn(c.guilds) :
                /\ r \in Seen(held, c.guilds) <=> r \in held
                /\ r \in held /\ r \in st.controlled => r \in DOMAIN st.desired
         /\ \A r \in DOMAIN st.desired \ ActiveGrants(c) : r \in Receiving(c)
         /\ \A m \in LiveMappings(c) : \A e \in MappingEdges(m) :
                /\ m.syncAdd /\ Removable(m, e)
                /\ e.to \in held /\ e.to \notin ActiveGrants(c) => e.from \in held
<1> DEFINE seen == Seen(held, c.guilds)
<1>1. st \in CameAlong(c, seen) /\ Ruled(c, st) BY ComputedCameAlong, ComputedRuled
<1>2. \A r \in RolesIn(c.guilds) :
         /\ r \in seen <=> r \in held
         /\ r \in held <=> r \in DOMAIN st.desired \/ (r \in held /\ r \notin st.controlled)
  <2>1. \A r \in Role : r \in held <=>
           IF r \in RolesIn(c.guilds) THEN r \in DOMAIN st.desired \/ (r \in held /\ r \notin st.controlled)
           ELSE r \in held
    BY RunIs
  <2>2. QED BY <2>1 DEF RolesIn, Seen
<1> HIDE DEF seen
<1>3. st \in SoundStates(c, Role) /\ DOMAIN st.desired \subseteq RolesIn(c.guilds)
  BY <1>1 DEF CameAlong, SoundStates
<1>4. DOMAIN st.desired \subseteq held BY <1>2, <1>3
<1>5. \A r \in DOMAIN st.desired \ ActiveGrants(c) : r \in Receiving(c) BY <1>1 DEF CameAlong, Receiving
<1>6. ASSUME NEW m \in LiveMappings(c), NEW e \in MappingEdges(m) PROVE m.syncAdd /\ Removable(m, e)
  BY DEF FullyMirrored, Removable
<1>7. ASSUME NEW m \in LiveMappings(c), NEW e \in MappingEdges(m), e.to \in held, e.to \notin ActiveGrants(c)
      PROVE  e.from \in held
  <2>1. e.from \in RolesIn(c.guilds) /\ e.to \in RolesIn(c.guilds) BY LiveEdges
  <2>2. e.to \in st.controlled BY <1>1, <1>6 DEF Ruled
  <2>3. e.to \in DOMAIN st.desired \ ActiveGrants(c) BY <1>2, <1>7, <2>1, <2>2
  <2>4. PICK n \in LiveMappings(c) : \E f \in MappingEdges(n) :
           f.to = e.to /\ f.from \in DOMAIN st.desired \cup seen
    BY <1>1, <2>3 DEF CameAlong
  <2>5. PICK f \in MappingEdges(n) : f.to = e.to /\ f.from \in DOMAIN st.desired \cup seen BY <2>4
  <2>6. <<m, e>> \in EdgesInto(c, e.to) /\ <<n, f>> \in EdgesInto(c, e.to) BY <2>5 DEF EdgesInto
  <2>7. e.to \in Role BY <2>1 DEF RolesIn
  <2>8. <<m, e>> = <<n, f>> BY <2>6, <2>7 DEF OneEdgePerTarget
  <2>9. e.from \in DOMAIN st.desired \cup seen BY <2>5, <2>8
  <2>10. QED BY <1>2, <2>1, <2>9
<1>8. QED BY <1>1, <1>2, <1>3, <1>4, <1>5, <1>6, <1>7 DEF seen

\* Roles a complete run leaves alone agree along every mirroring edge, if the run's
\* passes have come to rest.
LEMMA MirrorsAgree ==
  ASSUME NEW c \in SoundContexts, OneEdgePerTarget(c), FullyMirrored(c),
         NEW held \in SUBSET Role, Applied(PlanForMember(c, held, c.guilds), held) = held,
         ReachesFixpoint(c, held),
         NEW m \in LiveMappings(c), NEW e \in MappingEdges(m), e.to \notin ActiveGrants(c)
  PROVE  e.to \in held <=> e.from \in held
<1> DEFINE st == ComputeDesiredState(c, held, c.guilds)
           seen == Seen(held, c.guilds)
<1>1. /\ st \in SoundStates(c, Role) /\ DOMAIN st.desired \subseteq held
      /\ \A r \in RolesIn(c.guilds) : /\ r \in seen <=> r \in held
                                      /\ r \in held /\ r \in st.controlled => r \in DOMAIN st.desired
      /\ m.syncAdd
      /\ e.to \in held /\ e.to \notin ActiveGrants(c) => e.from \in held
  BY HeldCameAlong
<1>2. st \in AtRest(c, seen) BY ComputedRests
<1>3. ~st.changed BY DEF ReachesFixpoint
<1> HIDE DEF st, seen
<1>4. Quiet(st) BY <1>1, <1>3 DEF SoundStates, Quiet, State
<1>5. Still(st, m, e, seen) BY <1>2, <1>4 DEF AtRest
<1>6. e.from \in RolesIn(c.guilds) BY LiveEdges
<1>7. e.from \in held => EffectiveHas(st, seen, e.from) BY <1>1, <1>6 DEF EffectiveHas
<1>8. EffectiveHas(st, seen, e.from) => e.to \in DOMAIN st.desired BY <1>1, <1>5 DEF Still, Adds
<1>9. QED BY <1>1, <1>7, <1>8

\* So do the passes where no mapping leads to a role that grants decide: what the
\* account holds is claimed in the first pass, and nothing is left for the second.
LEMMA ApartComesToRest ==
  ASSUME NEW c \in SoundContexts, OneEdgePerTarget(c), FullyMirrored(c), GrantsApart(c),
         NEW held \in SUBSET Role, Applied(PlanForMember(c, held, c.guilds), held) = held
  PROVE  ReachesFixpoint(c, held)
<1> DEFINE seen == Seen(held, c.guilds)
           ms == OrderedMappings(c)
           start == ApplyManualGrants(c)
           st == ComputeDesiredState(c, held, c.guilds)
           Claimed(x) == \A r \in RolesIn(c.guilds) : r \in held /\ r \in x.controlled => r \in DOMAIN x.desired
           Arrived(x, e) == e.from \in held => e.to \in DOMAIN x.desired
           Over(x) == \E r \in DOMAIN x.desired : r \notin held
           First(x) == x \in SoundStates(c, Role) /\ (Over(x) \/ Claimed(x))
           Later(x) == /\ x \in SoundStates(c, Role) /\ Ruled(c, x)
                       /\ Over(x) \/ \A m \in LiveMappings(c) : \A e \in MappingEdges(m) : Arrived(x, e)
<1>1. /\ st \in SoundStates(c, Role) /\ DOMAIN st.desired \subseteq held
      /\ \A r \in RolesIn(c.guilds) : /\ r \in seen <=> r \in held
                                      /\ r \in held /\ r \in st.controlled => r \in DOMAIN st.desired
      /\ \A r \in DOMAIN st.desired \ ActiveGrants(c) : r \in Receiving(c)
      /\ \A m \in LiveMappings(c) : \A e \in MappingEdges(m) :
             /\ m.syncAdd
             /\ e.to \in held /\ e.to \notin ActiveGrants(c) => e.from \in held
  BY HeldCameAlong
<1>2. \A r \in Receiving(c) : r \notin Grantable(c) /\ r \notin ActiveGrants(c)
  BY DEF Receiving, GrantsApart, Grantable, ActiveGrants
<1>3. \A r \in Grantable(c) : r \in held => r \in ActiveGrants(c)
  <2> SUFFICES ASSUME NEW r \in Grantable(c), r \in held PROVE r \in ActiveGrants(c)
    OBVIOUS
  <2>1. r \in RolesIn(c.guilds) BY DEF Grantable
  <2>2. r \in st.controlled BY <1>1 DEF SoundStates
  <2>3. r \in DOMAIN st.desired
    <3> HIDE DEF st, seen
    <3>1. QED BY <1>1, <2>1, <2>2
  <2>4. QED BY <1>1, <1>2, <2>3
<1>4. start \in SoundStates(c, Role) /\ DOMAIN start.desired = ActiveGrants(c) /\ start.controlled = Grantable(c)
  <2>1. ActiveGrants(c) \subseteq Role BY DEF ActiveGrants, RolesIn
  <2>2. QED BY <2>1, StartIsSound
<1> HIDE DEF seen, ms, start, st
<1>5. First(start) BY <1>3, <1>4
\* what an edge of the first pass does
<1>6. ASSUME NEW m \in LiveMappings(c), NEW e \in MappingEdges(m), NEW x, First(x),
             NEW u, u = ApplyMappingEdge(x, m, e, seen)
      PROVE  /\ First(u) /\ (Over(u) \/ Arrived(u, e)) /\ (Over(x) => Over(u))
             /\ DOMAIN x.desired \subseteq DOMAIN u.desired
  <2>1. /\ u \in SoundStates(c, Role)
        /\ DOMAIN u.desired = DOMAIN x.desired \cup (IF Adds(x, m, e, seen) THEN {e.to} ELSE {})
        /\ u.controlled = x.controlled \cup (IF Controls(x, m, e, seen) THEN {e.to} ELSE {})
    BY <1>6, EdgeGrows
  <2>2. Over(x) => Over(u) BY <2>1
  <2>3. CASE Over(x) BY <2>1, <2>2, <2>3
  <2>4. CASE Claimed(x)
    <3>1. e.from \in RolesIn(c.guilds) /\ e.to \in RolesIn(c.guilds) BY LiveEdges
    <3>2. e.from \in held => EffectiveHas(x, seen, e.from) BY <1>1, <2>4, <3>1 DEF EffectiveHas
    <3>3. e.from \in held => e.to \in DOMAIN u.desired BY <1>1, <2>1, <3>2 DEF Adds
    <3>4. e.to \in held => e.from \in held
      <4>1. e.to \in Receiving(c) BY DEF Receiving
      <4>2. QED BY <1>1, <1>2, <4>1
    <3>5. Claimed(u) BY <2>1, <2>4, <3>3, <3>4
    <3>6. QED BY <2>1, <2>2, <3>3, <3>5
  <2>5. QED BY <1>6, <2>3, <2>4
<1>7. Later(MappingPass(start, ms, seen))
  <2> DEFINE t == MappingPass(start, ms, seen)
             kept == {x \in SoundStates(c, Role) : First(x)}
             Touched == [pair \in Pairs(c) |-> {x \in SoundStates(c, Role) : Over(x) \/ Arrived(x, pair[2])}]
  <2>1. \A pair \in Pairs(c) : Touched[pair] = {x \in SoundStates(c, Role) : Over(x) \/ Arrived(x, pair[2])}
    OBVIOUS
  <2>2. \A x : x \in kept <=> First(x) OBVIOUS
  <2>3. \A m \in LiveMappings(c) : \A e \in MappingEdges(m) : <<m, e>> \in Pairs(c) BY DEF Pairs
  <2> HIDE DEF t, kept, Touched
  <2>4. \A x \in kept : [x EXCEPT !.changed = FALSE] \in kept
    <3> SUFFICES ASSUME NEW x \in kept PROVE [x EXCEPT !.changed = FALSE] \in kept
      OBVIOUS
    <3> DEFINE u == [x EXCEPT !.changed = FALSE]
    <3>1. First(x) BY <2>2
    <3>2. u \in SoundStates(c, Role) /\ u.desired = x.desired /\ u.controlled = x.controlled
      BY <3>1, SoundUnchanged
    <3> HIDE DEF u
    <3>3. First(u) BY <3>1, <3>2
    <3>4. QED BY <2>2, <3>3 DEF u
  <2>5. ASSUME NEW m \in LiveMappings(c), NEW e \in MappingEdges(m), NEW x \in kept
        PROVE  /\ ApplyMappingEdge(x, m, e, seen) \in kept \cap Touched[<<m, e>>]
               /\ \A pair \in Pairs(c) : x \in Touched[pair] => ApplyMappingEdge(x, m, e, seen) \in Touched[pair]
    <3> DEFINE u == ApplyMappingEdge(x, m, e, seen)
    <3>1. First(x) BY <2>2
    <3>2. /\ First(u) /\ (Over(u) \/ Arrived(u, e)) /\ (Over(x) => Over(u))
          /\ DOMAIN x.desired \subseteq DOMAIN u.desired
      <4> HIDE DEF First, Over, Arrived
      <4>1. QED BY <1>6, <3>1
    <3> HIDE DEF u
    <3>3. u \in kept BY <2>2, <3>2
    <3>4. u \in Touched[<<m, e>>]
      <4>1. <<m, e>> \in Pairs(c) /\ <<m, e>>[2] = e BY <2>3
      <4>2. QED BY <2>1, <3>2, <4>1
    <3>5. ASSUME NEW pair \in Pairs(c), x \in Touched[pair] PROVE u \in Touched[pair]
      <4>1. Over(x) \/ Arrived(x, pair[2]) BY <2>1, <3>5
      <4>2. Over(u) \/ Arrived(u, pair[2]) BY <3>2, <4>1
      <4>3. u \in SoundStates(c, Role) BY <3>2
      <4>4. QED BY <2>1, <4>2, <4>3
    <3>6. QED BY <3>3, <3>4, <3>5 DEF u
  <2>6. start \in kept BY <1>5, <2>2
  <2>7. t \in kept /\ \A pair \in Pairs(c) : t \in Touched[pair]
    BY <2>4, <2>5, <2>6, PassTouches DEF t, ms
  <2>8. t \in SoundStates(c, Role) /\ Ruled(c, t) BY <1>4, PassRules DEF t, ms
  <2>9. Over(t) \/ \A m \in LiveMappings(c) : \A e \in MappingEdges(m) : Arrived(t, e)
    <3> SUFFICES ASSUME ~Over(t), NEW m \in LiveMappings(c), NEW e \in MappingEdges(m) PROVE Arrived(t, e)
      OBVIOUS
    <3>1. <<m, e>> \in Pairs(c) /\ <<m, e>>[2] = e BY <2>3
    <3>2. t \in Touched[<<m, e>>] BY <2>7, <3>1
    <3>3. QED BY <2>1, <3>1, <3>2
  <2>10. Later(t) BY <2>8, <2>9
  <2>11. QED BY <2>10 DEF t
\* what a later pass does
<1> DEFINE kept == {x \in SoundStates(c, Role) : Later(x) /\ (Over(x) \/ Quiet(x))}
<1>8. \A x : x \in kept <=> Later(x) /\ (Over(x) \/ Quiet(x)) OBVIOUS
<1> HIDE DEF kept
<1>9. ASSUME NEW x, Later(x) PROVE MappingPass(x, ms, seen) \in kept
  <2>1. [x EXCEPT !.changed = FALSE] \in kept
    <3> DEFINE u == [x EXCEPT !.changed = FALSE]
    <3>1. u \in SoundStates(c, Role) /\ u.desired = x.desired /\ u.controlled = x.controlled /\ Quiet(u)
      BY <1>9, SoundUnchanged
    <3> HIDE DEF u
    <3>2. Later(u) BY <1>9, <3>1 DEF Ruled
    <3>3. QED BY <1>8, <3>1, <3>2 DEF u
  <2>2. ASSUME NEW m \in LiveMappings(c), NEW y \in kept, NEW e \in MappingEdges(m)
        PROVE  ApplyMappingEdge(y, m, e, seen) \in kept
    <3> DEFINE u == ApplyMappingEdge(y, m, e, seen)
    <3>1. Later(y) /\ (Over(y) \/ Quiet(y)) BY <1>8, <2>2
    <3>2. /\ u \in SoundStates(c, Role)
          /\ DOMAIN u.desired = DOMAIN y.desired \cup (IF Adds(y, m, e, seen) THEN {e.to} ELSE {})
          /\ u.controlled = y.controlled \cup (IF Controls(y, m, e, seen) THEN {e.to} ELSE {})
          /\ Quiet(u) <=> Quiet(y) /\ ~Adds(y, m, e, seen) /\ ~Controls(y, m, e, seen)
      BY <3>1, EdgeGrows
    <3> HIDE DEF u
    <3>3. Ruled(c, u) BY <3>1, <3>2 DEF Ruled
    <3>4. CASE Over(y)
      <4>1. Over(u) BY <3>2, <3>4
      <4>2. QED BY <1>8, <3>2, <3>3, <4>1 DEF u
    <3>5. CASE ~Over(y)
      <4>1. ~Controls(y, m, e, seen) BY <3>1 DEF Ruled, Controls
      <4>2. EffectiveHas(y, seen, e.from) => e.from \in held
        <5>1. e.from \in RolesIn(c.guilds) BY LiveEdges
        <5>2. QED BY <1>1, <3>5, <5>1 DEF EffectiveHas
      <4>3. ~Adds(y, m, e, seen) BY <3>1, <3>5, <4>2 DEF Adds
      <4>4. Quiet(u) /\ DOMAIN u.desired = DOMAIN y.desired BY <3>1, <3>2, <3>5, <4>1, <4>3
      <4>5. Later(u) BY <3>1, <3>2, <3>3, <3>5, <4>4
      <4>6. QED BY <1>8, <4>4, <4>5 DEF u
    <3>6. QED BY <3>4, <3>5
  <2>3. QED BY <2>1, <2>2, PassCarries DEF ms
<1> DEFINE later == {x \in SoundStates(c, Role) : Later(x)}
<1>10. \A x : x \in later <=> Later(x) OBVIOUS
<1> HIDE DEF later, Later, Over
<1>11. ASSUME NEW x, Later(x) PROVE NextPass(x, ms, seen) \in kept
  <2>1. x \in SoundStates(c, Role) BY <1>11 DEF Later
  <2>2. x.changed \in BOOLEAN BY <2>1 DEF SoundStates, State
  <2>3. CASE x.changed BY <1>9, <1>11, <2>3 DEF NextPass
  <2>4. CASE ~x.changed BY <1>8, <1>11, <2>2, <2>4 DEF NextPass, Quiet
  <2>5. QED BY <2>2, <2>3, <2>4
<1>12. st \in kept
  <2> DEFINE K == [n \in 0 .. MaxMappingPasses |->
                     IF n = 0 THEN {start} ELSE IF n = 1 THEN later ELSE kept]
  <2>1. MaxMappingPasses \in Nat /\ MaxMappingPasses > 1 BY DEF MaxMappingPasses
  <2>2. \A n \in 0 .. MaxMappingPasses : K[n] = IF n = 0 THEN {start} ELSE IF n = 1 THEN later ELSE kept
    OBVIOUS
  <2> HIDE DEF K
  <2>3. NextPass(start, ms, seen) \in later
    <3>1. start.changed = TRUE BY DEF start, ApplyManualGrants
    <3>2. QED BY <1>7, <1>10, <3>1 DEF NextPass
  <2>4. ASSUME NEW n \in 1 .. MaxMappingPasses, NEW s \in K[n - 1] PROVE NextPass(s, ms, seen) \in K[n]
    <3>1. n \in 0 .. MaxMappingPasses /\ n - 1 \in 0 .. MaxMappingPasses /\ n # 0 BY <2>1
    <3>2. CASE n = 1
      <4>1. K[n - 1] = {start} /\ K[n] = later
        <5>1. n - 1 = 0 BY <3>2
        <5>2. QED BY <2>2, <3>1, <3>2, <5>1
      <4>2. QED BY <2>3, <2>4, <4>1
    <3>3. CASE n # 1
      <4>1. n - 1 # 0 BY <3>1, <3>3
      <4>2. (s \in later \/ s \in kept) /\ K[n] = kept BY <2>2, <2>4, <3>1, <3>3, <4>1
      <4>3. Later(s) BY <1>8, <1>10, <4>2
      <4>4. QED BY <1>11, <4>2, <4>3
    <3>4. QED BY <3>2, <3>3
  <2>5. start \in K[0] BY <2>1, <2>2
  <2>6. ApplyMappings(start, ms, seen) \in K[MaxMappingPasses] BY <2>4, <2>5, PassesFollow
  <2>7. K[MaxMappingPasses] = kept
    <3>1. MaxMappingPasses \in 0 .. MaxMappingPasses /\ MaxMappingPasses # 0 /\ MaxMappingPasses # 1 BY <2>1
    <3>2. QED BY <2>2, <3>1
  <2>8. QED BY <2>6, <2>7 DEF ComputeDesiredState, st, start, ms, seen
<1>13. Quiet(st) BY <1>1, <1>8, <1>12 DEF Over
<1>14. QED BY <1>13 DEF ReachesFixpoint, Quiet, st

LEMMA AfterRunsRoles ==
  ASSUME Run, NEW N \in Nat
  PROVE  AfterRuns(N) \in SUBSET Role
<1> DEFINE x == [k \in Nat |-> AfterRuns(k)]
           P == {k \in 0 .. N : x[k] \in SUBSET Role}
<1>1. x[0] = actual /\ \A k \in Nat : x[k + 1] = NextRun(x[k]) BY AfterRunsAre
<1>2. x[N] = AfterRuns(N) OBVIOUS
<1> HIDE DEF x
<1>3. \A held \in SUBSET Role : NextRun(held) \in SUBSET Role BY RunIs DEF NextRun, Run
<1>4. 0 \in P BY <1>1 DEF Run
<1>5. ASSUME NEW k \in 1 .. N, k - 1 \in P PROVE k \in P
  <2>1. k - 1 \in Nat /\ (k - 1) + 1 = k OBVIOUS
  <2>2. x[k] = NextRun(x[k - 1]) BY <1>1, <2>1
  <2>3. QED BY <1>3, <1>5, <2>2
<1> HIDE DEF P
<1>6. \A k \in 1 .. N : k - 1 \in P => k \in P BY <1>5
<1>7. N \in P BY <1>4, <1>6, StepByStep
<1>8. QED BY <1>2, <1>7 DEF P

LEMMA SettledMirrors ==
  ASSUME Run, RunsConverge
  PROVE  /\ ReachesFixpoint(ctx, AfterRuns(EnoughRuns)) => SettlesMirrored
         /\ FewMappings(ctx) => SettlesMirrored
         /\ GrantsApart(ctx) => SettlesMirrored
<1> DEFINE held == AfterRuns(EnoughRuns)
<1>1. EnoughRuns \in Nat /\ ctx \in SoundContexts
  <2>1. Cardinality(ctx.mappings) \in Nat BY SoundContextsAre, FS_CardinalityType DEF Run
  <2>2. QED BY <2>1 DEF EnoughRuns, Run
<1>2. held \in SUBSET Role BY <1>1, AfterRunsRoles
<1>3. NextRun(held) = held
  <2>1. AfterRuns(EnoughRuns + 1) = NextRun(held) BY <1>1, AfterRunsAre
  <2>2. QED BY <2>1 DEF RunsConverge
<1> HIDE DEF held
<1>4. Applied(PlanForMember(ctx, held, ctx.guilds), held) = held BY <1>3 DEF NextRun
<1>5. ASSUME FullyMirrored(ctx), OneEdgePerTarget(ctx), ReachesFixpoint(ctx, held),
             NEW m \in LiveMappings(ctx), NEW e \in MappingEdges(m), e.to \notin ActiveGrants(ctx)
      PROVE  e.to \in held <=> e.from \in held
  BY <1>1, <1>2, <1>4, <1>5, MirrorsAgree
<1>6. ReachesFixpoint(ctx, held) => SettlesMirrored BY <1>5 DEF SettlesMirrored, held
<1>7. ASSUME FullyMirrored(ctx), OneEdgePerTarget(ctx), FewMappings(ctx) \/ GrantsApart(ctx)
      PROVE  ReachesFixpoint(ctx, held)
  <2>1. OneEnd(ctx)
    <3> SUFFICES ASSUME NEW m \in LiveMappings(ctx), NEW e \in MappingEdges(m), NEW f \in MappingEdges(m)
                 PROVE  e.to = f.to
      BY DEF OneEnd
    <3>1. e.authoritative /\ f.authoritative BY <1>7 DEF FullyMirrored
    <3>2. QED BY <1>1, <3>1, LiveAre, EdgesAre
  <2>2. CASE FewMappings(ctx) BY <1>1, <1>2, <1>7, <2>1, <2>2, FewComeToRest
  <2>3. CASE GrantsApart(ctx) BY <1>1, <1>2, <1>4, <1>7, <2>3, ApartComesToRest
  <2>4. QED BY <1>7, <2>2, <2>3
<1>8. FewMappings(ctx) \/ GrantsApart(ctx) => SettlesMirrored BY <1>6, <1>7 DEF SettlesMirrored
<1>9. QED BY <1>6, <1>8 DEF held

\* Where the runs have settled and the last one's passes came to rest, mirrored roles
\* agree with their authoritative side; and so they do with fewer mappings than passes
\* but one, or where no mapping leads to a role grants decide.
THEOREM SettledRolesAreMirrored ==
  RunsSpec => [](RunsConverge /\ (\/ ReachesFixpoint(ctx, AfterRuns(EnoughRuns))
                           \/ FewMappings(ctx)
                           \/ GrantsApart(ctx))
               => SettlesMirrored)
<1>1. Run => (RunsConverge /\ (\/ ReachesFixpoint(ctx, AfterRuns(EnoughRuns))
                            \/ FewMappings(ctx)
                            \/ GrantsApart(ctx))
                => SettlesMirrored)
  BY SettledMirrors
<1>2. QED BY <1>1, RunsAre, PTL
=============================================================================
