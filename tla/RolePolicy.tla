----------------------------- MODULE RolePolicy -----------------------------
(***************************************************************************)
(* What role synchronization promises about the roles of Discord accounts, *)
(* whatever its queue, workers, locks and failures do: between what people *)
(* do, the platform changes one role of one account at a time, and only    *)
(* roles it may take from this account or may give to it.                  *)
(***************************************************************************)
EXTENDS Naturals

CONSTANTS
    Member,             \* Discord accounts
    Role,               \* Discord roles
    Takable,            \* the roles the platform may take from each account
    Givable,            \* the roles it may give to each
    MaxInterventions    \* bound: what people do

VARIABLES
    roles,              \* the roles of each account
    interventions       \* how often people may still do something

Init ==
    /\ roles \in [Member -> SUBSET Role]
    /\ interventions = MaxInterventions

Intervene == interventions > 0 /\ interventions' = interventions - 1

\* A person gives or takes any role, or only asks the platform to look.
PersonGives(m, r) == Intervene /\ roles' = [roles EXCEPT ![m] = @ \cup {r}]
PersonTakes(m, r) == Intervene /\ roles' = [roles EXCEPT ![m] = @ \ {r}]
PersonAsks == Intervene /\ UNCHANGED roles

PlatformGives(m, r) ==
    /\ r \in Givable[m]
    /\ roles' = [roles EXCEPT ![m] = @ \cup {r}]
    /\ UNCHANGED interventions

PlatformTakes(m, r) ==
    /\ r \in Takable[m]
    /\ roles' = [roles EXCEPT ![m] = @ \ {r}]
    /\ UNCHANGED interventions

Next ==
    \/ PersonAsks
    \/ \E m \in Member, r \in Role :
          \/ PersonGives(m, r) \/ PersonTakes(m, r)
          \/ PlatformGives(m, r) \/ PlatformTakes(m, r)

Spec == Init /\ [][Next]_<<roles, interventions>>
=============================================================================
