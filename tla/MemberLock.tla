----------------------------- MODULE MemberLock -----------------------------
(***************************************************************************)
(* withMemberLock: the Redis lock around one member's role writes.  SET NX *)
(* with an expiry takes it, a compare-and-delete of the caller's own token *)
(* gives it back, and nothing ever extends it.  An execution that cannot   *)
(* take it polls for a while, then gives up and reports "skipped".         *)
(*                                                                         *)
(* A client is one execution of a job against one member; its name stands  *)
(* for the random token of the lock it takes, which is fresh every time.   *)
(* Definitions whose names begin with Faulty are seeded faults.            *)
(***************************************************************************)
EXTENDS Integers

CONSTANTS
    Client,     \* executions of withMemberLock
    LockKey,    \* Redis lock keys
    KeyOf,      \* the key each execution locks
    Nobody,     \* no lock held
    TTL,        \* ticks until a lock expires (SYNC_LOCK_TTL_SECONDS)
    MaxWork,    \* longest time the critical section takes: a bound, not below TTL
    MaxWait     \* how long an execution polls for a held lock (waitMs)

ASSUME LockConstants ==
    /\ KeyOf \in [Client -> LockKey]
    /\ Nobody \notin Client
    /\ TTL \in Nat \ {0}
    /\ MaxWork \in Nat
    /\ MaxWait \in Nat

VARIABLES
    pc,         \* where each execution is
    store,      \* the token stored under each key
    ttl,        \* ticks left before the key expires
    spent,      \* time an execution has been inside its critical section
    waited      \* time an execution has been polling

vars == <<pc, store, ttl, spent, waited>>

TypeOK ==
    /\ pc \in [Client -> {"idle", "waiting", "inside", "leaving"}]
    /\ store \in [LockKey -> Client \cup {Nobody}]
    /\ ttl \in [LockKey -> 0 .. TTL]
    /\ spent \in [Client -> 0 .. MaxWork]
    /\ waited \in [Client -> 0 .. MaxWait]

Init ==
    /\ pc = [c \in Client |-> "idle"]
    /\ store = [k \in LockKey |-> Nobody]
    /\ ttl = [k \in LockKey |-> 0]
    /\ spent = [c \in Client |-> 0]
    /\ waited = [c \in Client |-> 0]

-----------------------------------------------------------------------------

\* A job reaches a member and starts polling, with a new deadline.
Request(c) ==
    /\ pc[c] = "idle"
    /\ pc' = [pc EXCEPT ![c] = "waiting"]
    /\ waited' = [waited EXCEPT ![c] = 0]
    /\ UNCHANGED <<store, ttl, spent>>

FaultyAcquireAnyway(c) ==
    /\ pc[c] = "waiting"
    /\ pc' = [pc EXCEPT ![c] = "inside"]
    /\ store' = [store EXCEPT ![KeyOf[c]] = c]
    /\ ttl' = [ttl EXCEPT ![KeyOf[c]] = TTL]
    /\ spent' = [spent EXCEPT ![c] = 0]
    /\ UNCHANGED waited

FaultyAcquireOldExpiry(c) ==
    /\ pc[c] = "waiting"
    /\ store[KeyOf[c]] = Nobody
    /\ pc' = [pc EXCEPT ![c] = "inside"]
    /\ store' = [store EXCEPT ![KeyOf[c]] = c]
    /\ spent' = [spent EXCEPT ![c] = 0]
    /\ UNCHANGED <<ttl, waited>>

\* acquireMemberLock succeeds: SET key token PX ttl NX.
Acquire(c) ==
    /\ pc[c] = "waiting"
    /\ store[KeyOf[c]] = Nobody
    /\ pc' = [pc EXCEPT ![c] = "inside"]
    /\ store' = [store EXCEPT ![KeyOf[c]] = c]
    /\ ttl' = [ttl EXCEPT ![KeyOf[c]] = TTL]
    /\ spent' = [spent EXCEPT ![c] = 0]
    /\ UNCHANGED waited

FaultyGiveUp(c) ==
    /\ pc[c] = "waiting"
    /\ waited[c] > MaxWait
    /\ store[KeyOf[c]] # Nobody
    /\ pc' = [pc EXCEPT ![c] = "idle"]
    /\ UNCHANGED <<store, ttl, spent, waited>>

\* A poll after the deadline still finds the lock held: { skipped: true }.
GiveUp(c) ==
    /\ pc[c] = "waiting"
    /\ waited[c] = MaxWait
    /\ store[KeyOf[c]] # Nobody
    /\ pc' = [pc EXCEPT ![c] = "idle"]
    /\ UNCHANGED <<store, ttl, spent, waited>>

\* The callback returns or throws; the finally block comes next.
Finish(c) ==
    /\ pc[c] = "inside"
    /\ pc' = [pc EXCEPT ![c] = "leaving"]
    /\ UNCHANGED <<store, ttl, spent, waited>>

FaultyRelease(c) ==
    /\ pc[c] = "leaving"
    /\ pc' = [pc EXCEPT ![c] = "idle"]
    /\ store' = [store EXCEPT ![KeyOf[c]] = Nobody]
    /\ UNCHANGED <<ttl, spent, waited>>

\* The compare-and-delete script; a Redis error in it is swallowed.
Release(c) ==
    /\ pc[c] = "leaving"
    /\ pc' = [pc EXCEPT ![c] = "idle"]
    /\ \/ store' = [store EXCEPT ![KeyOf[c]] = IF @ = c THEN Nobody ELSE @]
       \/ UNCHANGED store
    /\ UNCHANGED <<ttl, spent, waited>>

\* The process dies: nothing is released.
Crash(c) ==
    /\ pc[c] # "idle"
    /\ pc' = [pc EXCEPT ![c] = "idle"]
    /\ UNCHANGED <<store, ttl, spent, waited>>

\* A key whose time is up disappears.
FaultyExpire ==
    /\ ttl' = [k \in LockKey |-> IF ttl[k] > 0 THEN ttl[k] - 1 ELSE 0]
    /\ UNCHANGED store

Expire ==
    /\ ttl' = [k \in LockKey |-> IF ttl[k] > 0 THEN ttl[k] - 1 ELSE 0]
    /\ store' = [k \in LockKey |-> IF ttl[k] <= 1 THEN Nobody ELSE store[k]]

\* Time passes for everybody at once.  MaxWork bounds how long a critical section
\* takes; it may be more than TTL.
Tick ==
    /\ \A c \in Client : pc[c] = "inside" => spent[c] < MaxWork
    /\ Expire
    /\ spent' = [c \in Client |-> IF pc[c] = "inside" THEN spent[c] + 1 ELSE spent[c]]
    /\ waited' = [c \in Client |-> IF pc[c] = "waiting" /\ waited[c] < MaxWait
                                   THEN waited[c] + 1 ELSE waited[c]]
    /\ UNCHANGED pc

Proceed(c) == Acquire(c) \/ GiveUp(c) \/ Finish(c) \/ Release(c)

Next == Tick \/ \E c \in Client : Request(c) \/ Proceed(c) \/ Crash(c)

Spec == Init /\ [][Next]_vars

\* Time never stops and a running process keeps running; nobody has to ask for
\* the lock, and nobody has to crash.
FairSpec == Spec /\ WF_vars(Tick) /\ \A c \in Client : WF_vars(Proceed(c))

-----------------------------------------------------------------------------
(* Safety.                                                                 *)

\* Inside the critical section, and not yet for longer than a lock lives.
Protected == {c \in Client : pc[c] = "inside" /\ spent[c] < TTL}

\* Two executions are inside the critical section of one key together only when
\* one of them has outstayed its lock's expiry: nothing ever extends a lock
\* (sync-runner.js: "two jobs cannot fight over the same person").
OnlyOverrunsOverlap ==
    \A c, d \in Client :
        (c # d /\ pc[c] = "inside" /\ pc[d] = "inside" /\ KeyOf[c] = KeyOf[d])
          => c \notin Protected \/ d \notin Protected

\* The token of a protected execution is stored and its time is accounted for:
\* this is what makes OnlyOverrunsOverlap inductive.
LockHeld ==
    \A c \in Protected : store[KeyOf[c]] = c /\ spent[c] + ttl[KeyOf[c]] = TTL

\* A stored lock goes away only because its time is up or because the very
\* execution that stored it is releasing it; an execution that overran its
\* expiry never deletes the lock of a successor (the compare-and-delete script).
FreedOnlyByOwnerOrExpiry ==
    [][\A k \in LockKey : (store[k] # Nobody /\ store'[k] # store[k])
          => ttl[k] <= 1 \/ pc[store[k]] = "leaving"]_vars

\* For as long as a lock lives it implements mutual exclusion.
Exclusion == INSTANCE MemberExclusion WITH inside <- Protected
ImplementsExclusion == Exclusion!Spec

-----------------------------------------------------------------------------
(* Liveness.                                                               *)

\* Polling ends: the lock is taken or the member is skipped (withMemberLock).
PollingEnds == \A c \in Client : pc[c] = "waiting" ~> pc[c] # "waiting"

\* No lock is held for ever, even when its holder crashed or Redis lost the
\* release (acquireMemberLock's expiry).
LocksAreFreed ==
    \A k \in LockKey, c \in Client : store[k] = c ~> store[k] # c
=============================================================================
