----------------------------- MODULE MCRoleSync -----------------------------
(* A main guild whose role is mirrored into up to two department roles.     *)
EXTENDS RoleSync, TLC

CONSTANTS gMain, gDept, rMain, rDept, rUnit, ann, w1, w2, sweeper

MCGuildOf == [r \in Role |-> IF r = rMain THEN gMain ELSE gDept]

\* One mapping from the main role to each department role.
Mirror(r) ==
    [id |-> IF r = rDept THEN 1 ELSE 2, source |-> rMain, target |-> r, direction |-> "ONE_WAY",
     authority |-> "SOURCE_DISCORD", syncAdd |-> TRUE, syncRemove |-> TRUE, priority |-> 1]

MirrorContext ==
    [m \in Member |-> [guilds |-> Guild, grants |-> {}, linked |-> FALSE,
                        mappings |-> {Mirror(r) : r \in Role \ {rMain}}]]

\* Workers are interchangeable.
Symmetry == Permutations(Worker)

\* What the engine plans in these contexts, in closed form: TLC looks plans up
\* here, and SyncConstants has it compare the table with the engine's.
MirrorPlan ==
    [m \in Member |-> [held \in SUBSET Role |-> [read \in SUBSET Guild |->
        LET mirrored == gMain \in read /\ rMain \in held
            writable == IF gDept \in read THEN Role \ {rMain} ELSE {}
        IN  [add    |-> IF mirrored THEN writable \ held ELSE {},
             remove |-> IF mirrored THEN {} ELSE writable \cap held]]]]
=============================================================================
