------------------------- MODULE DistributionQueueLive -------------------------
(***************************************************************************)
(* Progress of the distribution queue.  The loops of RunDistributionDelivery *)
(* keep running, time passes, and Core finishes what it has admitted; it   *)
(* is not assumed that a transmitted request ever arrives.                 *)
(***************************************************************************)
EXTENDS DistributionQueue

CoreNext(r, n) ==
    \/ CoreStart(r, n) \/ CorePatch(r, n)
    \/ \E st \in NoAttempt : CoreClose(r, n, st)
    \/ \E st \in Attempted : CoreResolve(r, n, st)

\* ProcessDistributionQueue runs ExpireUndispatched before every claim, so it
\* cannot be postponed forever by passes that claim the row in between.
Fairness ==
    /\ \A w \in Worker : WF_vars(PassNext(w))
    /\ \A r \in Row :
        /\ WF_vars(BecomesDue(r)) /\ WF_vars(LeaseExpires(r))
        /\ WF_vars(DeadlinePasses(r)) /\ WF_vars(ValidityPasses(r))
        /\ WF_vars(RequestExpiredCancellation(r)) /\ SF_vars(ExpireUndispatched(r))
    /\ \A r \in Row, n \in Decision :
        WF_vars(CoreNext(r, n)) /\ WF_vars(ApplyOperationResult(r, n))

\* A crash, an unanswered query, or a pass that outlives its lease of 30 s.
Fault ==
    \/ \E w \in Worker : PassFault(w)
    \/ \E r \in Row : LeaseExpires(r) /\ \E w \in Worker : wrow[w] = r /\ Leased(w)

\* Faults may happen any number of times, but not forever.
FaultsStop == <>[][~Fault]_vars

LiveSpec == Spec /\ Fairness /\ FaultsStop

\* Every queue row is settled for good: no order of lost requests, expired
\* leases, crashes, cancellations, pauses and retries leaves a deal waiting or
\* its lead and group claimed forever.
RowsSettle == \A r \in Row : state[r] # "absent" ~> [](r \in settled)
================================================================================
