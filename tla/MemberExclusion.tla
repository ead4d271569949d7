--------------------------- MODULE MemberExclusion --------------------------
(***************************************************************************)
(* What the member lock promises its callers: the executions it protects   *)
(* at any moment all hold different keys.  They enter one at a time; the   *)
(* protection of several can end at once, when their time is up.           *)
(***************************************************************************)
CONSTANTS Client, KeyOf

VARIABLE inside     \* the protected executions

Init == inside = {}

Enter(c) ==
    /\ c \notin inside
    /\ \A d \in inside : KeyOf[d] # KeyOf[c]
    /\ inside' = inside \cup {c}

Leave == inside' \in SUBSET inside

Next == Leave \/ \E c \in Client : Enter(c)

Spec == Init /\ [][Next]_inside
=============================================================================
