---------------------------- MODULE SelfService -----------------------------
(***************************************************************************)
(* Self-service role delegation in one guild: a rule lets the holders of a *)
(* grantor role hand out, and take back, a grantable role.  An assignment  *)
(* reads the rules, then the caller's roles, then the target's, and goes   *)
(* through the roles one at a time, while rules and roles change.          *)
(*                                                                         *)
(* rulesEver is history, read by properties only.  Definitions whose names *)
(* begin with Faulty are seeded faults.                                    *)
(***************************************************************************)
EXTENDS Surroundings, Preflight

CONSTANTS
    Person,             \* members of the guild
    Caller,             \* those of them who use /rolemanager
    ServiceRole,        \* roles of the guild
    HeldAtFirst,        \* the roles each member has in the beginning
    ObstaclesTo,        \* what is in the way of changing each role
    MaxServiceEdits        \* bound: edits of the rules, and roles taken by hand

ASSUME SelfServiceConstants ==
    /\ Caller \subseteq Person
    /\ HeldAtFirst \in [Person -> SUBSET ServiceRole]
    /\ ObstaclesTo \in [ServiceRole -> SUBSET Obstacle]
    /\ MaxServiceEdits \in Nat

VARIABLES
    roleRules,      \* RoleGrantRule rows not deleted: <<grantor, grantable>>
    serviceHeld,    \* Discord: the roles of each member
    assigning,      \* where each caller's command is
    serviceEdits,      \* edits and roles taken by hand left
    rulesEver       \* history: the rules there have ever been

serviceVars == <<roleRules, serviceHeld, assigning, serviceEdits, rulesEver>>

Rule == ServiceRole \X ServiceRole
Assignment == [step : {"caller", "target", "apply"}, rules : SUBSET Rule, target : Person,
               roles : SUBSET ServiceRole, remove : BOOLEAN, seen : SUBSET ServiceRole]
NoAssignment == [step |-> "none"]

SelfServiceTypeOK ==
    /\ roleRules \subseteq Rule
    /\ serviceHeld \in [Person -> SUBSET ServiceRole]
    /\ assigning \in [Caller -> Assignment \cup {NoAssignment}]
    /\ serviceEdits \in 0 .. MaxServiceEdits
    /\ roleRules \subseteq rulesEver /\ rulesEver \subseteq Rule

SelfServiceInit ==
    /\ roleRules = {}
    /\ serviceHeld = HeldAtFirst
    /\ assigning = [p \in Caller |-> NoAssignment]
    /\ serviceEdits = MaxServiceEdits
    /\ rulesEver = {}

-----------------------------------------------------------------------------

\* addGrantRule: a role never hands out itself; a rule that is there is left,
\* a deleted one restored.  The rows are written one at a time; that some of
\* them are not is the same as adding fewer.
AddGrantRule(grantor, grantables) ==
    /\ serviceEdits > 0 /\ serviceEdits' = serviceEdits - 1
    /\ roleRules' = roleRules \cup ({grantor} \X (grantables \ {grantor}))
    /\ rulesEver' = rulesEver \cup roleRules'
    /\ Works
    /\ UNCHANGED <<serviceHeld, assigning>>

\* removeGrantRule: the roles handed out stay where they are.
RemoveGrantRule(grantor, grantables) ==
    /\ serviceEdits > 0 /\ serviceEdits' = serviceEdits - 1
    /\ roleRules' = roleRules \ ({grantor} \X grantables)
    /\ Works
    /\ UNCHANGED <<serviceHeld, assigning, rulesEver>>

\* resolveGrantableRoleIds.
GrantableRoleIds(rules, held) == {rule[2] : rule \in {x \in rules : x[1] \in held}}

-----------------------------------------------------------------------------

Assigning(p, step) == assigning[p].step = step
Refuse(p) == assigning' = [assigning EXCEPT ![p] = NoAssignment]

\* applyRoleAssignment reads the rules.
Assign(p, target, roles, remove) ==
    /\ Assigning(p, "none")
    /\ roles # {}
    /\ assigning' = [assigning EXCEPT ![p] =
           [step |-> "caller", rules |-> roleRules, target |-> target, roles |-> roles,
            remove |-> remove, seen |-> {}]]
    /\ Works
    /\ UNCHANGED <<roleRules, serviceHeld, serviceEdits, rulesEver>>

FaultyAuthorizeCaller(p) ==
    /\ Assigning(p, "caller")
    /\ \/ /\ Works
          /\ IF GrantableRoleIds(assigning[p].rules, serviceHeld[p]) # {}
             THEN assigning' = [assigning EXCEPT ![p].step = "target"]
             ELSE Refuse(p)
       \/ Fails /\ Refuse(p)
    /\ UNCHANGED <<roleRules, serviceHeld, serviceEdits, rulesEver>>

\* The caller's live roles decide; a caller who cannot be read may nothing.
AuthorizeCaller(p) ==
    /\ Assigning(p, "caller")
    /\ \/ /\ Works
          /\ IF assigning[p].roles \subseteq GrantableRoleIds(assigning[p].rules, serviceHeld[p])
             THEN assigning' = [assigning EXCEPT ![p].step = "target"]
             ELSE Refuse(p)
       \/ Fails /\ Refuse(p)
    /\ UNCHANGED <<roleRules, serviceHeld, serviceEdits, rulesEver>>

\* The target's roles are read once.
ReadTarget(p) ==
    /\ Assigning(p, "target")
    /\ \/ /\ Works
          /\ assigning' = [assigning EXCEPT ![p].step = "apply",
                                            ![p].seen = serviceHeld[assigning[p].target]]
       \/ Fails /\ Refuse(p)
    /\ UNCHANGED <<roleRules, serviceHeld, serviceEdits, rulesEver>>

\* What is left of a command after a role.
Without(r, a) == IF a.roles = {r} THEN NoAssignment ELSE [a EXCEPT !.roles = @ \ {r}]

\* One role: skipped if it is as wanted, not changed if the preflight or the
\* call fails; the next role follows, unless the preflight itself goes wrong.
AssignRole(p, r) ==
    /\ Assigning(p, "apply") /\ r \in assigning[p].roles
    /\ LET wanted == (r \in assigning[p].seen <=> assigning[p].remove)
                     /\ CheckRoleOperation(ObstaclesTo[r], TRUE) = OK
           next == assigning' = [assigning EXCEPT ![p] = Without(r, assigning[p])]
       IN  \/ wanted /\ Works /\ next
              /\ serviceHeld' = [serviceHeld EXCEPT ![assigning[p].target] =
                     IF assigning[p].remove THEN @ \ {r} ELSE @ \cup {r}]
           \/ ~wanted /\ Works /\ next /\ UNCHANGED serviceHeld
           \/ Fails /\ (next \/ Refuse(p)) /\ UNCHANGED serviceHeld
    /\ UNCHANGED <<roleRules, serviceEdits, rulesEver>>

\* Somebody with the permission takes a role off in Discord.
TakenByHand(p, r) ==
    /\ r \in serviceHeld[p]
    /\ serviceEdits > 0 /\ serviceEdits' = serviceEdits - 1
    /\ serviceHeld' = [serviceHeld EXCEPT ![p] = @ \ {r}]
    /\ Works
    /\ UNCHANGED <<roleRules, assigning, rulesEver>>

SelfServiceNext ==
    \/ \E grantor \in ServiceRole, grantables \in SUBSET ServiceRole :
           AddGrantRule(grantor, grantables) \/ RemoveGrantRule(grantor, grantables)
    \/ \E p \in Caller, target \in Person, roles \in SUBSET ServiceRole, remove \in BOOLEAN :
           Assign(p, target, roles, remove)
    \/ \E p \in Caller : AuthorizeCaller(p) \/ ReadTarget(p) \/ \E r \in ServiceRole : AssignRole(p, r)
    \/ \E p \in Person, r \in ServiceRole : TakenByHand(p, r)

-----------------------------------------------------------------------------

\* What can be reached from some roles by rules, in any number of steps: what is
\* in every set that has the roles and all that its members may hand out.
Closure(roles, rules) ==
    LET closed == {c \in SUBSET ServiceRole : roles \subseteq c /\ GrantableRoleIds(rules, c) \subseteq c}
    IN  {r \in ServiceRole : \A c \in closed : r \in c}

\* Through self-service nobody comes to a role that the rules there have been
\* do not lead to from the roles somebody had.
SelfServiceStaysInClosure ==
    LET reachable == Closure(UNION {HeldAtFirst[q] : q \in Person}, rulesEver)
    IN  \A p \in Person : serviceHeld[p] \subseteq reachable
=============================================================================
