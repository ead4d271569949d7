------------------------------ MODULE MCDirect ------------------------------
(***************************************************************************)
(* The services that change Discord beside the synchronization, on a small *)
(* instance.  They share no state but the clock, so that an interleaving   *)
(* of two of them is a run of each; focus chooses the one that a behaviour *)
(* is about.                                                               *)
(***************************************************************************)
EXTENDS TempRoles, TimedBans, Grants, Transfers, SelfService, Whitelist, Provision

VARIABLE focus

others == <<tempVars, banVars, grantVars, transferVars, serviceVars, whitelistVars, provisionVars>>
vars == <<surroundings, others, focus>>

Above == [actor |-> TRUE, owner |-> FALSE, rolesRead |-> TRUE, member |-> TRUE,
          highest |-> 2, position |-> 1]

\* One operator is above the role and the others are not.
MCStandingOf == [pair \in Operator \X Target |->
                    IF pair[1] = CHOOSE o \in Operator : TRUE THEN Above ELSE [Above EXCEPT !.position = 2]]
MCByName == SetToSeq(BanGuild)
MCDepartmentOf == [r \in DeptRole |-> IF r \in DeptHeldAtFirst THEN CHOOSE d \in Department : TRUE
                                      ELSE CHOOSE d \in Department : d # CHOOSE e \in Department : TRUE]
MCSidesOffered == UNION {{<<{r}, {r}>>, <<{}, {r}>>} : r \in DeptRole}
MCObstaclesAt == [r \in DeptRole |-> {}]
MCHeldAtFirst == [p \in Person |-> IF p = CHOOSE q \in Person : TRUE THEN {CHOOSE r \in ServiceRole : TRUE} ELSE {}]
MCObstaclesTo == [r \in ServiceRole |-> {}]

\* Some roles and categories of a template, with the first of the channels.
Cut(t, keys, names) ==
    LET kept == SelectSeq(t.categories, LAMBDA c : c.name \in names)
    IN  [t EXCEPT !.roles = SelectSeq(@, LAMBDA r : r[1] \in keys),
                  !.categories = [i \in DOMAIN kept |->
                      [kept[i] EXCEPT !.sees = @ \cap (keys \cup Everyone), !.channels = SubSeq(@, 1, 1)]]]
MCBlueprints == [department |-> Cut(DepartmentTemplate("TPD"), {"member"}, {"requests"}),
                 community |-> Cut(CommunityTemplate, {"ownership"}, {"general"})]

\* A server is empty, or has a role of the template and a channel of the same
\* name under another category, of which there are two.
MCFoundAtFirst ==
    {{}, {Thing("role", "department member", <<>>, 1, {}),
          Thing("category", "general", <<>>, 1, Everyone),
          Thing("category", "general", <<>>, 2, Everyone),
          Thing("text", "request-interview", <<"general", 1>>, 1, {})}}

\* What the preflight lets through, Discord does not refuse as things are; what
\* it refuses after a preflight has changed in between.  An unprotected role
\* that was mappable can be changed, but for what a member or an outage adds.
ASSUME PreflightCoversDiscord ==
    \A facts \in SUBSET Obstacle :
        /\ CheckRoleOperation(facts, TRUE) = OK => RoleCallIssue(facts) = OK
        /\ AssertRoleMappable(facts, FALSE) = OK /\ facts \cap {"left", "unavailable"} = {}
               => CheckRoleOperation(facts, FALSE) = OK
        /\ Retryable(RoleCallIssue(facts)) => "unavailable" \in facts


TypeOK ==
    /\ SurroundingsTypeOK
    /\ TempRolesTypeOK
    /\ TimedBansTypeOK
    /\ GrantsTypeOK
    /\ TransfersTypeOK
    /\ SelfServiceTypeOK
    /\ WhitelistTypeOK
    /\ ProvisionTypeOK

Init ==
    /\ focus \in {"temp", "bans", "grants", "transfers", "service", "whitelist", "setup"}
    /\ SurroundingsInit
    /\ TempRolesInit
    /\ TimedBansInit
    /\ GrantsInit
    /\ TransfersInit
    /\ SelfServiceInit
    /\ WhitelistInit
    /\ ProvisionInit
    /\ focus # "setup" => serverKind = "community" /\ things = {}

Next ==
    /\ UNCHANGED focus
    /\ \/ focus = "temp" /\ TempRolesNext
          /\ UNCHANGED <<banVars, grantVars, transferVars, serviceVars, whitelistVars, provisionVars>>
       \/ focus = "bans" /\ TimedBansNext
          /\ UNCHANGED <<tempVars, grantVars, transferVars, serviceVars, whitelistVars, provisionVars>>
       \/ focus = "grants" /\ GrantsNext
          /\ UNCHANGED <<tempVars, banVars, transferVars, serviceVars, whitelistVars, provisionVars>>
       \/ focus = "transfers" /\ TransfersNext
          /\ UNCHANGED <<tempVars, banVars, grantVars, serviceVars, whitelistVars, provisionVars>>
       \/ focus = "service" /\ SelfServiceNext
          /\ UNCHANGED <<tempVars, banVars, grantVars, transferVars, whitelistVars, provisionVars>>
       \/ focus = "whitelist" /\ WhitelistNext
          /\ UNCHANGED <<tempVars, banVars, grantVars, transferVars, serviceVars, provisionVars>>
       \/ focus = "setup" /\ ProvisionNext
          /\ UNCHANGED <<tempVars, banVars, grantVars, transferVars, serviceVars, whitelistVars>>

\* Applications and setups, which no clock drives, may be over for good; nothing
\* else may stop, and they may not before every command has come to its end.
AtRest ==
    /\ \/ focus = "whitelist" /\ \A r \in Reviewer : ClickAt(r, "none")
       \/ focus = "setup" /\ \A a \in Admin : setup[a].step \in {"idle", "told"}
    /\ UNCHANGED vars

\* The fairness of the component that acts.
Fairness ==
    /\ \A o \in Operator : WF_<<surroundings, tempVars>>(focus = "temp" /\ ProceedTemp(o))
    /\ WF_<<surroundings, tempVars>>(focus = "temp" /\ SweepStep)
    /\ \A o \in Moderator : WF_<<surroundings, banVars>>(focus = "bans" /\ ProceedBan(o))
    /\ WF_<<surroundings, banVars>>(focus = "bans" /\ BanSweepStep)
    /\ \A w \in Synchronizer : WF_<<surroundings, grantVars>>(focus = "grants" /\ Synchronize(w))
    /\ WF_<<surroundings, grantVars>>(focus = "grants" /\ Reconciliation)
    /\ \A w \in TransferWorker :
           WF_<<surroundings, transferVars>>(focus = "transfers" /\ ProceedTransfer(w))

Spec == Init /\ [][Next \/ AtRest]_vars /\ Fairness

-----------------------------------------------------------------------------

\* A sweep takes nothing back before its time: a temporary role only when the
\* last command that gave it gave it until now, a ban only when the last timed
\* ban is over and no unban has followed.  A permanent ban given over a timed one
\* is lifted with it, as its timer stays open.  Excepted is what overlapping
\* commands, failed writes and crashes have left with a wrong timer
\* (temp-role-service.js, moderation-service.js).
NothingTakenBackEarly == [][SweepKeepsTempRoles /\ SweepKeepsBans]_vars

\* What is reported is so: a completed transfer has made the whole move that was
\* still configured when it ran (transfer-service.js), a decided whitelist
\* application is what its message and its applicant are told (whitelist-service.js),
\* and a setup or a reset without warnings has left the server as its template
\* and its mode ask (setup-service.js); each but for what others changed meanwhile.
ReportsAreTrue == [][MovedWhenCompleted /\ WhitelistAnswersTrue /\ ProvisionedWhenTold]_vars

\* What is to be done sooner or later, as far as the code promises it.
Outstanding(t) ==
    \/ focus = "temp" /\ OverdueTempRole(t)
    \/ focus = "bans" /\ OverdueBan
    \/ focus = "grants" /\ OverdueGrant
    \/ focus = "transfers" /\ \E j \in DOMAIN transfers : PendingTransfer(j)

\* A temporary role and a timed ban end when their time is up, a role without
\* a grant that is in force goes away whatever failed, and every transfer
\* comes to an end.
EverythingTakenBack == \A t \in Target : Outstanding(t) ~> ~Outstanding(t)
=============================================================================
