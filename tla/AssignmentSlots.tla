---------------------------- MODULE AssignmentSlots ----------------------------
(***************************************************************************)
(* What the distribution queue promises to the CRM: a row changes a lead   *)
(* at most once, and only while it alone holds the lead and the group.     *)
(***************************************************************************)
CONSTANTS Row, Lead, Group, LeadOf, GroupOf, NoRow

VARIABLES
    leadHolder,   \* the row that holds a lead, or NoRow
    groupHolder,  \* the row that holds a group, or NoRow
    touched       \* the rows that have changed their lead

slotVars == <<leadHolder, groupHolder, touched>>

Init ==
    /\ leadHolder = [l \in Lead |-> NoRow]
    /\ groupHolder = [g \in Group |-> NoRow]
    /\ touched = {}

Holds(r) == leadHolder[LeadOf[r]] = r /\ groupHolder[GroupOf[r]] = r

Acquire(r) ==
    /\ leadHolder[LeadOf[r]] = NoRow /\ groupHolder[GroupOf[r]] = NoRow
    /\ r \notin touched
    /\ leadHolder' = [leadHolder EXCEPT ![LeadOf[r]] = r]
    /\ groupHolder' = [groupHolder EXCEPT ![GroupOf[r]] = r]
    /\ UNCHANGED touched

Touch(r) ==
    /\ Holds(r) /\ r \notin touched
    /\ touched' = touched \cup {r}
    /\ UNCHANGED <<leadHolder, groupHolder>>

Release(r) ==
    /\ Holds(r)
    /\ leadHolder' = [leadHolder EXCEPT ![LeadOf[r]] = NoRow]
    /\ groupHolder' = [groupHolder EXCEPT ![GroupOf[r]] = NoRow]
    /\ UNCHANGED touched

Next == \E r \in Row : Acquire(r) \/ Touch(r) \/ Release(r)

Spec == Init /\ [][Next]_slotVars
================================================================================
