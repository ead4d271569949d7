----------------------------- MODULE Whitelist ------------------------------
(***************************************************************************)
(* Whitelist applications: the website stores one and posts it with two    *)
(* buttons in the review channel; a reviewer's click reads the row, gives  *)
(* the role if it approves, writes the decision, edits the message and     *)
(* tells the applicant, each in a call of its own.                         *)
(*                                                                         *)
(* contested, granted and takenSince are history, read by properties only. *)
(***************************************************************************)
EXTENDS Surroundings, Preflight

CONSTANTS
    Applicant,          \* who applies
    Reviewer,           \* who decides
    MaxSubmissions,     \* bound: applications
    MaxWhitelistEdits   \* bound: changes by others

ASSUME WhitelistConstants == MaxSubmissions \in Nat /\ MaxWhitelistEdits \in Nat

VARIABLES
    submissions,      \* WhitelistSubmission rows, each with where its posting is,
                      \* and what the message in the review channel shows
    deciding,         \* where each reviewer's click is
    whitelisted,      \* Discord: who has the whitelist role
    departed,         \* Discord: who is not in the main server
    hubEnabled,       \* whether an enabled main community is registered
    whitelistEdits,   \* changes by others left
    contested,        \* history: submissions two reviewers had read as pending at once, or
                      \* whose decision broke off after the role
    granted,          \* history: submissions whose approval gave the role
    takenSince        \* history: who lost the role after it was given

whitelistVars == <<submissions, deciding, whitelisted, departed, hubEnabled,
                   whitelistEdits, contested, granted, takenSince>>
histories == <<contested, granted, takenSince>>

Decision == {"APPROVED", "DENIED"}
Submission == [by : Applicant, status : {"PENDING"} \cup Decision, posting : {"post", "store", "over"},
               linked : BOOLEAN, message : {"none", "buttons"} \cup Decision]
Click == [step : {"read", "assign", "write", "edit", "tell"}, id : 1 .. MaxSubmissions,
          decision : Decision, assigned : BOOLEAN, linked : BOOLEAN]
NoClick == [step |-> "none"]

WhitelistTypeOK ==
    /\ submissions \in Seq(Submission) /\ Len(submissions) <= MaxSubmissions
    /\ deciding \in [Reviewer -> Click \cup {NoClick}]
    /\ whitelisted \subseteq Applicant \ departed /\ departed \subseteq Applicant
    /\ hubEnabled \in BOOLEAN /\ whitelistEdits \in 0 .. MaxWhitelistEdits
    /\ contested \subseteq DOMAIN submissions /\ granted \subseteq DOMAIN submissions
    /\ takenSince \subseteq Applicant

WhitelistInit ==
    /\ submissions = <<>>
    /\ deciding = [r \in Reviewer |-> NoClick]
    /\ whitelisted = {} /\ departed = {}
    /\ hubEnabled = TRUE
    /\ whitelistEdits = MaxWhitelistEdits
    /\ contested = {} /\ granted = {} /\ takenSince = {}

-----------------------------------------------------------------------------

\* submitWhitelist stores the answers; nobody looks for an earlier application.
Submit(p) ==
    /\ Len(submissions) < MaxSubmissions
    /\ submissions' = Append(submissions, [by |-> p, status |-> "PENDING", posting |-> "post",
                                           linked |-> FALSE, message |-> "none"])
    /\ Works
    /\ UNCHANGED <<deciding, whitelisted, departed, hubEnabled, whitelistEdits, histories>>

\* The message is posted, its buttons live from then on.  A call that failed may
\* have posted it; the application stays where it is either way.
PostReview(id) ==
    /\ submissions[id].posting = "post"
    /\ \/ Works /\ submissions' = [submissions EXCEPT ![id].posting = "store", ![id].message = "buttons"]
       \/ Fails /\ \E shown \in {"none", "buttons"} :
              submissions' = [submissions EXCEPT ![id].posting = "over", ![id].message = shown]
    /\ UNCHANGED <<deciding, whitelisted, departed, hubEnabled, whitelistEdits, histories>>

\* The row gets to know its message.
StoreMessageId(id) ==
    /\ submissions[id].posting = "store"
    /\ \/ Works /\ submissions' = [submissions EXCEPT ![id].posting = "over", ![id].linked = TRUE]
       \/ Fails /\ submissions' = [submissions EXCEPT ![id].posting = "over"]
    /\ UNCHANGED <<deciding, whitelisted, departed, hubEnabled, whitelistEdits, histories>>

-----------------------------------------------------------------------------

ClickAt(r, step) == deciding[r].step = step
Of(r) == submissions[deciding[r].id]
Leave(r) == deciding' = [deciding EXCEPT ![r] = NoClick]
Move(r, step) == deciding' = [deciding EXCEPT ![r].step = step]

\* A button is pressed; a denial asks for its reason first, for as long as it takes.
Press(r, id, decision) ==
    /\ ClickAt(r, "none")
    /\ submissions[id].message = "buttons"
    /\ deciding' = [deciding EXCEPT ![r] = [step |-> "read", id |-> id, decision |-> decision,
                                            assigned |-> FALSE, linked |-> FALSE]]
    /\ Works
    /\ UNCHANGED <<submissions, whitelisted, departed, hubEnabled, whitelistEdits, histories>>

\* The reviewer closes the window for the reason.
CloseModal(r) ==
    /\ ClickAt(r, "read") /\ deciding[r].decision = "DENIED"
    /\ Leave(r)
    /\ Works
    /\ UNCHANGED <<submissions, whitelisted, departed, hubEnabled, whitelistEdits, histories>>

\* decideWhitelist reads the row: one that is decided is left alone.
ReadSubmission(r) ==
    /\ ClickAt(r, "read")
    /\ LET rivals == {q \in Reviewer \ {r} : /\ deciding[q].step \in {"assign", "write"}
                                            /\ deciding[q].id = deciding[r].id}
       IN  \/ /\ Of(r).status = "PENDING" /\ Works
              /\ Move(r, IF deciding[r].decision = "APPROVED" THEN "assign" ELSE "write")
              /\ contested' = IF rivals = {} THEN contested ELSE contested \cup {deciding[r].id}
           \/ Of(r).status # "PENDING" /\ Works /\ Leave(r) /\ UNCHANGED contested
           \/ Fails /\ Leave(r) /\ UNCHANGED contested
    /\ UNCHANGED <<submissions, whitelisted, departed, hubEnabled, whitelistEdits, granted, takenSince>>

\* assignWhitelistRole: without a main community, or past the preflight, the
\* application is approved all the same.  A call that failed may have been
\* carried out, and what goes wrong before it ends the decision.
AssignWhitelistRole(r) ==
    /\ ClickAt(r, "assign")
    /\ LET p == Of(r).by
           possible == /\ hubEnabled
                       /\ CheckRoleOperation(IF p \in departed THEN {"left"} ELSE {}, TRUE) = OK
           give == /\ whitelisted' = whitelisted \cup {p}
                   /\ granted' = granted \cup {deciding[r].id}
                   /\ takenSince' = takenSince \ {p}
           keep == UNCHANGED <<whitelisted, granted, takenSince>>
       IN  \/ possible /\ Works /\ give
              /\ deciding' = [deciding EXCEPT ![r].step = "write", ![r].assigned = TRUE]
           \/ ~possible /\ Works /\ keep /\ Move(r, "write")
           \/ possible /\ Fails /\ (give \/ keep) /\ Move(r, "write")
           \/ Fails /\ keep /\ Leave(r)
    /\ UNCHANGED <<submissions, departed, hubEnabled, whitelistEdits, contested>>

\* What is lost when a decision ends before it is written.
Dropped(clicks) ==
    {deciding[r].id : r \in {q \in clicks : ClickAt(q, "write") /\ deciding[q].id \in granted}}

\* The decision is written over whatever is there by now.
WriteDecision(r) ==
    /\ ClickAt(r, "write")
    /\ \/ /\ Works
          /\ submissions' = [submissions EXCEPT ![deciding[r].id].status = deciding[r].decision]
          /\ deciding' = [deciding EXCEPT ![r].step = "edit", ![r].linked = Of(r).linked]
          /\ UNCHANGED contested
       \/ Fails /\ Leave(r) /\ contested' = contested \cup Dropped({r}) /\ UNCHANGED submissions
    /\ UNCHANGED <<whitelisted, departed, hubEnabled, whitelistEdits, granted, takenSince>>

\* The message is edited if the row knew it then; a failure is logged.  An
\* approval without the role is not announced.
EditReview(r) ==
    /\ ClickAt(r, "edit")
    /\ IF deciding[r].decision = "DENIED" \/ deciding[r].assigned THEN Move(r, "tell") ELSE Leave(r)
    /\ \/ deciding[r].linked /\ Works
          /\ submissions' = [submissions EXCEPT ![deciding[r].id].message = deciding[r].decision]
       \/ ~deciding[r].linked /\ Works /\ UNCHANGED submissions
       \/ deciding[r].linked /\ Fails /\ UNCHANGED submissions
    /\ UNCHANGED <<whitelisted, departed, hubEnabled, whitelistEdits, histories>>

\* dmApplicant; whether the message arrives changes nothing here.
Tell(r) ==
    /\ ClickAt(r, "tell")
    /\ Leave(r)
    /\ Works
    /\ UNCHANGED <<submissions, whitelisted, departed, hubEnabled, whitelistEdits, histories>>

\* The bot restarts; a window that asks for a reason stays open.
CrashReviews ==
    /\ Fails
    /\ \E r \in Reviewer : deciding[r].step \notin {"none", "read"}
    /\ deciding' = [r \in Reviewer |-> IF ClickAt(r, "read") THEN deciding[r] ELSE NoClick]
    /\ contested' = contested \cup Dropped(Reviewer)
    /\ UNCHANGED <<submissions, whitelisted, departed, hubEnabled, whitelistEdits, granted, takenSince>>

\* Somebody takes the role away, an applicant leaves the server, and an
\* administrator switches the main community off or on.
WhitelistEdit(p) ==
    /\ whitelistEdits > 0 /\ whitelistEdits' = whitelistEdits - 1
    /\ \/ p \in whitelisted /\ UNCHANGED <<departed, hubEnabled>>
          /\ whitelisted' = whitelisted \ {p} /\ takenSince' = takenSince \cup {p}
       \/ p \notin departed /\ departed' = departed \cup {p} /\ UNCHANGED hubEnabled
          /\ whitelisted' = whitelisted \ {p} /\ takenSince' = takenSince \cup (whitelisted \cap {p})
       \/ hubEnabled' = ~hubEnabled /\ UNCHANGED <<departed, whitelisted, takenSince>>
    /\ Works
    /\ UNCHANGED <<submissions, deciding, contested, granted>>

WhitelistNext ==
    \/ \E p \in Applicant : Submit(p) \/ WhitelistEdit(p)
    \/ \E id \in DOMAIN submissions :
           \/ PostReview(id) \/ StoreMessageId(id)
           \/ \E r \in Reviewer, decision \in Decision : Press(r, id, decision)
    \/ \E r \in Reviewer :
           \/ CloseModal(r) \/ ReadSubmission(r) \/ AssignWhitelistRole(r)
           \/ WriteDecision(r) \/ EditReview(r) \/ Tell(r)
    \/ CrashReviews

-----------------------------------------------------------------------------

\* A decision on an application stands, a denied application has not given the
\* role, the message shows the decision once it shows one, and what the applicant
\* is told is what was decided, with the role if it was an approval; all but for
\* applications two reviewers had open at once, or whose decision broke off
\* between the role and the row (whitelist-service.js).
WhitelistAnswersTrue ==
    /\ \A id \in DOMAIN submissions \ contested' :
           /\ submissions[id].status # "PENDING" => submissions'[id].status = submissions[id].status
           /\ submissions'[id].status = "DENIED" => id \notin granted'
           /\ submissions'[id].message \in Decision => submissions'[id].message = submissions'[id].status
    /\ \A r \in Reviewer :
           (ClickAt(r, "edit") /\ deciding'[r].step = "tell" /\ deciding[r].id \notin contested') =>
               /\ submissions'[deciding[r].id].status = deciding[r].decision
               /\ deciding[r].decision = "APPROVED" => Of(r).by \in whitelisted' \cup takenSince'
=============================================================================
