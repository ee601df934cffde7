---------------------------- MODULE ObservedEntries ----------------------------
(***************************************************************************)
(* What the assignment queue relies on when it reads the observed entries  *)
(* of one lead: an entry is one stay of the lead in a stage, at most one   *)
(* entry is not cancelled, and a cancelled entry never comes back.  The    *)
(* steps are those of DistributionQueue with the same names.               *)
(***************************************************************************)
CONSTANT Entry

VARIABLE entry

Init == entry = [e \in Entry |-> "unseen"]

EntryObserved(e, st) ==
    /\ entry[e] = "unseen"
    /\ entry' = [f \in Entry |->
                    IF f = e THEN st
                    ELSE IF entry[f] # "unseen" THEN "cancelled" ELSE "unseen"]

CancelDistributionObservedEntry(e) ==
    /\ entry[e] \notin {"unseen", "cancelled"}
    /\ entry' = [entry EXCEPT ![e] = "cancelled"]

PauseDistributionObservedEntry(e) ==
    /\ entry[e] \in {"checking", "unproven"}
    /\ entry' = [entry EXCEPT ![e] = "ambiguous"]

Next ==
    \E e \in Entry :
        \/ \E st \in {"checking", "unproven"} : EntryObserved(e, st)
        \/ CancelDistributionObservedEntry(e)
        \/ PauseDistributionObservedEntry(e)

Spec == Init /\ [][Next]_entry
================================================================================
