-------------------------- MODULE MemberLockProofs --------------------------
(***************************************************************************)
(* Proofs about the member lock, for any number of executions and keys.    *)
(***************************************************************************)
EXTENDS MemberLock, TLAPS

\* Every variable keeps its type.
THEOREM TypeCorrect == Spec => []TypeOK
<1> USE LockConstants DEF TypeOK
<1>1. Init => TypeOK
  BY DEF Init
<1>2. TypeOK /\ [Next]_vars => TypeOK'
  <2> SUFFICES ASSUME TypeOK, [Next]_vars PROVE TypeOK'
    OBVIOUS
  <2>1. ASSUME NEW c \in Client, Request(c) PROVE TypeOK'
    BY <2>1 DEF Request
  <2>2. ASSUME NEW c \in Client, Acquire(c) PROVE TypeOK'
    BY <2>2 DEF Acquire
  <2>3. ASSUME NEW c \in Client, GiveUp(c) PROVE TypeOK'
    BY <2>3 DEF GiveUp
  <2>4. ASSUME NEW c \in Client, Finish(c) PROVE TypeOK'
    BY <2>4 DEF Finish
  <2>5. ASSUME NEW c \in Client, Release(c) PROVE TypeOK'
    BY <2>5 DEF Release
  <2>6. ASSUME NEW c \in Client, Crash(c) PROVE TypeOK'
    BY <2>6 DEF Crash
  <2>7. ASSUME Tick PROVE TypeOK'
    <3>1. ttl' \in [LockKey -> 0 .. TTL]
      BY <2>7 DEF Tick, Expire
    <3>2. store' \in [LockKey -> Client \cup {Nobody}]
      BY <2>7 DEF Tick, Expire
    <3>3. spent' \in [Client -> 0 .. MaxWork]
      BY <2>7 DEF Tick, Expire
    <3>4. waited' \in [Client -> 0 .. MaxWait]
      BY <2>7 DEF Tick, Expire
    <3> QED
      BY <2>7, <3>1, <3>2, <3>3, <3>4 DEF Tick, Expire
  <2>8. CASE UNCHANGED vars
    BY <2>8 DEF vars
  <2> QED
    BY <2>1, <2>2, <2>3, <2>4, <2>5, <2>6, <2>7, <2>8 DEF Next, Proceed
<1> QED
  BY <1>1, <1>2, PTL DEF Spec

-----------------------------------------------------------------------------

\* Every step keeps the protected executions' tokens stored.
LEMMA LockHeldStep ==
    ASSUME TypeOK, LockHeld, [Next]_vars
    PROVE  LockHeld'
<1> USE LockConstants DEF LockHeld, Protected, TypeOK
<1>1. ASSUME NEW c \in Client, Request(c) PROVE LockHeld'
  BY <1>1 DEF Request
<1>2. ASSUME NEW c \in Client, Acquire(c) PROVE LockHeld'
  <2> SUFFICES ASSUME NEW d \in Client, pc'[d] = "inside", spent'[d] < TTL
               PROVE  store'[KeyOf[d]] = d /\ spent'[d] + ttl'[KeyOf[d]] = TTL
    OBVIOUS
  <2>1. CASE d = c
    BY <1>2, <2>1 DEF Acquire
  <2>2. CASE d # c
    \* d's token is stored, so its key is not the free one c takes.
    <3>1. pc[d] = "inside" /\ store[KeyOf[d]] = d
      BY <1>2, <2>2 DEF Acquire
    <3>2. KeyOf[d] # KeyOf[c]
      BY <1>2, <3>1 DEF Acquire
    <3> QED
      BY <1>2, <2>2, <3>1, <3>2 DEF Acquire
  <2> QED
    BY <2>1, <2>2
<1>3. ASSUME NEW c \in Client, GiveUp(c) PROVE LockHeld'
  BY <1>3 DEF GiveUp
<1>4. ASSUME NEW c \in Client, Finish(c) PROVE LockHeld'
  BY <1>4 DEF Finish
<1>5. ASSUME NEW c \in Client, Release(c) PROVE LockHeld'
  <2> SUFFICES ASSUME NEW d \in Client, pc'[d] = "inside", spent'[d] < TTL
               PROVE  store'[KeyOf[d]] = d /\ spent'[d] + ttl'[KeyOf[d]] = TTL
    OBVIOUS
  <2>1. d # c /\ pc[d] = "inside" /\ spent[d] < TTL /\ store[KeyOf[d]] = d
    BY <1>5 DEF Release
  <2>2. store'[KeyOf[d]] = d
    BY <1>5, <2>1 DEF Release
  <2> QED
    BY <1>5, <2>1, <2>2 DEF Release
<1>6. ASSUME NEW c \in Client, Crash(c) PROVE LockHeld'
  BY <1>6 DEF Crash
<1>7. ASSUME Tick PROVE LockHeld'
  <2> SUFFICES ASSUME NEW d \in Client, pc'[d] = "inside", spent'[d] < TTL
               PROVE  store'[KeyOf[d]] = d /\ spent'[d] + ttl'[KeyOf[d]] = TTL
    OBVIOUS
  <2>1. pc[d] = "inside" /\ spent'[d] = spent[d] + 1
    BY <1>7 DEF Tick, Expire
  <2>2. store[KeyOf[d]] = d /\ spent[d] + ttl[KeyOf[d]] = TTL
    BY <2>1
  <2>3. ttl[KeyOf[d]] > 1
    BY <2>1, <2>2
  <2> QED
    BY <1>7, <2>1, <2>2, <2>3 DEF Tick, Expire
<1>8. CASE UNCHANGED vars
  BY <1>8 DEF vars
<1> QED
  BY <1>1, <1>2, <1>3, <1>4, <1>5, <1>6, <1>7, <1>8 DEF Next, Proceed

\* The token of an execution is stored for as long as its lock lives.
THEOREM LockIsHeld == Spec => []LockHeld
<1>1. Init => LockHeld
  BY DEF Init, LockHeld, Protected
<1>2. TypeOK /\ LockHeld /\ [Next]_vars => LockHeld'
  BY LockHeldStep
<1> QED
  BY <1>1, <1>2, TypeCorrect, PTL DEF Spec

\* Two executions are inside one key's critical section together only when one
\* of them has outstayed its lock's expiry, for any durations.
THEOREM OverlapsAreOverruns == Spec => []OnlyOverrunsOverlap
<1>1. LockHeld => OnlyOverrunsOverlap
  BY DEF LockHeld, OnlyOverrunsOverlap, Protected
<1> QED
  BY <1>1, LockIsHeld, PTL

-----------------------------------------------------------------------------

\* The lock implements mutual exclusion: taking it is the abstract entering,
\* leaving the critical section or outstaying the expiry the abstract leaving.
THEOREM LockImplementsExclusion == Spec => ImplementsExclusion
<1> SUFFICES Spec => Exclusion!Spec
  BY DEF ImplementsExclusion
<1>1. Init => Exclusion!Init
  BY DEF Init, Exclusion!Init, Protected
<1>2. TypeOK /\ LockHeld /\ [Next]_vars => [Exclusion!Next]_Protected
  <2> SUFFICES ASSUME TypeOK, LockHeld, [Next]_vars
               PROVE  Exclusion!Next \/ UNCHANGED Protected
    OBVIOUS
  <2> USE LockConstants DEF TypeOK, Protected
  <2>1. ASSUME NEW c \in Client, Acquire(c) PROVE Exclusion!Enter(c)
    <3>1. c \notin Protected /\ Protected' = Protected \cup {c}
      BY <2>1 DEF Acquire
    <3>2. ASSUME NEW d \in Protected PROVE KeyOf[d] # KeyOf[c]
      BY <2>1, <3>2 DEF Acquire, LockHeld
    <3> QED
      BY <3>1, <3>2 DEF Exclusion!Enter
  <2>2. ASSUME NEW c \in Client, Finish(c) \/ Crash(c) PROVE Exclusion!Leave
    BY <2>2 DEF Finish, Crash, Exclusion!Leave
  <2>3. ASSUME NEW c \in Client, Request(c) \/ GiveUp(c) \/ Release(c)
        PROVE  UNCHANGED Protected
    BY <2>3 DEF Request, GiveUp, Release
  <2>4. ASSUME Tick PROVE Exclusion!Leave
    BY <2>4 DEF Tick, Expire, Exclusion!Leave
  <2>5. CASE UNCHANGED vars
    BY <2>5 DEF vars
  <2> QED
    BY <2>1, <2>2, <2>3, <2>4, <2>5 DEF Next, Proceed, Exclusion!Next
<1> QED
  BY <1>1, <1>2, TypeCorrect, LockIsHeld, PTL DEF Spec, Exclusion!Spec

\* Whatever the timing, an execution never deletes a lock it does not own.
THEOREM NeverFreesAnothersLock == Spec => FreedOnlyByOwnerOrExpiry
<1> DEFINE Freed == \A k \in LockKey : (store[k] # Nobody /\ store'[k] # store[k])
                       => ttl[k] <= 1 \/ pc[store[k]] = "leaving"
<1>1. TypeOK /\ [Next]_vars => [Freed]_vars
  <2> SUFFICES ASSUME TypeOK, Next PROVE Freed
    OBVIOUS
  <2> USE LockConstants DEF TypeOK
  <2>1. ASSUME NEW c \in Client, Acquire(c) PROVE Freed
    BY <2>1 DEF Acquire
  <2>2. ASSUME NEW c \in Client, Release(c) PROVE Freed
    BY <2>2 DEF Release
  <2>3. ASSUME NEW c \in Client, Request(c) \/ GiveUp(c) \/ Finish(c) \/ Crash(c)
        PROVE  Freed
    BY <2>3 DEF Request, GiveUp, Finish, Crash
  <2>4. ASSUME Tick PROVE Freed
    BY <2>4 DEF Tick, Expire
  <2> QED
    BY <2>1, <2>2, <2>3, <2>4 DEF Next, Proceed
<1> QED
  BY <1>1, TypeCorrect, PTL DEF Spec, FreedOnlyByOwnerOrExpiry
=============================================================================
