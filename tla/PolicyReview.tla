---------------------------- MODULE PolicyReview ----------------------------
(***************************************************************************)
(* What the policy workflow promises, without rows, locks or jobs: a text  *)
(* is in force only after somebody other than its submitter has reviewed   *)
(* that very text.                                                         *)
(***************************************************************************)
EXTENDS Naturals

CONSTANTS Users, SuperAdmins, NoUser

VARIABLES
    stage,   \* "editing", "reviewed", "inForce" or "withdrawn"
    text,    \* the number of the current text
    review   \* the last review: which text, submitted and reviewed by whom

vars == <<stage, text, review>>

NoReview == [text |-> 0, by |-> NoUser, reviewer |-> NoUser]

Init ==
    /\ stage = "editing"
    /\ text = 1
    /\ review = NoReview

\* A new text takes the document out of force until it is reviewed again.
Edit ==
    /\ stage' = "editing"
    /\ text' = text + 1
    /\ UNCHANGED review

Review(by, reviewer) ==
    /\ stage = "editing"
    /\ by # reviewer \/ reviewer \in SuperAdmins
    /\ stage' = "reviewed"
    /\ review' = [text |-> text, by |-> by, reviewer |-> reviewer]
    /\ UNCHANGED text

Enforce ==
    /\ stage = "reviewed"
    /\ stage' = "inForce"
    /\ UNCHANGED <<text, review>>

Suspend ==
    /\ stage = "inForce"
    /\ stage' = "reviewed"
    /\ UNCHANGED <<text, review>>

Withdraw ==
    /\ stage' = "withdrawn"
    /\ UNCHANGED <<text, review>>

Reopen ==
    /\ stage = "withdrawn"
    /\ stage' = "editing"
    /\ UNCHANGED <<text, review>>

Next ==
    \/ Edit \/ Enforce \/ Suspend \/ Withdraw \/ Reopen
    \/ \E by, reviewer \in Users : Review(by, reviewer)

Spec == Init /\ [][Next]_vars
=============================================================================
