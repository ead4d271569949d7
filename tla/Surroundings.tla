---------------------------- MODULE Surroundings ----------------------------
(***************************************************************************)
(* What the services that write to Discord directly have around them: a    *)
(* clock, and calls and writes that can fail.  Time is in ticks, and how   *)
(* often something fails is bounded.                                       *)
(***************************************************************************)
EXTENDS Naturals

CONSTANTS
    MaxTime,    \* bound: the last tick
    MaxFaults   \* bound: how often a call, a write or a process may fail

ASSUME SurroundingsConstants == MaxTime \in Nat /\ MaxFaults \in Nat

VARIABLES
    now,        \* the time
    faults      \* how often something may still fail

surroundings == <<now, faults>>

SurroundingsTypeOK == now \in 0 .. MaxTime /\ faults \in 0 .. MaxFaults

SurroundingsInit == now = 0 /\ faults = MaxFaults

Tick == now < MaxTime /\ now' = now + 1 /\ UNCHANGED faults

Works == UNCHANGED surroundings

Fails == faults > 0 /\ faults' = faults - 1 /\ UNCHANGED now

\* What a sweep may read of the rows that are due, limit at most: the earliest
\* ones, in the order of their times.
Readings(rows, due, limit) ==
    {read \in UNION {[1 .. n -> due] : n \in 0 .. limit} :
        /\ \A m, n \in DOMAIN read :
               m < n => read[m] # read[n] /\ rows[read[m]].until <= rows[read[n]].until
        /\ \A i \in due \ {read[n] : n \in DOMAIN read} :
               /\ DOMAIN read = 1 .. limit
               /\ \A n \in DOMAIN read : rows[read[n]].until <= rows[i].until}
=============================================================================
