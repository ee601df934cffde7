---------------------- MODULE DistributionDelivery_proofs ----------------------
(***************************************************************************)
(* The inbox and the lead head for any number of messages, events,         *)
(* replicas, stages and bindings.                                          *)
(***************************************************************************)
EXTENDS DistributionDelivery, TLAPS

--------------------------------------------------------------------------------
(***************************************************************************)
(* Types.                                                                  *)
(***************************************************************************)

\* A pass that ends leaves the local variables of its worker typed.
LEMMA EndPassType ==
    ASSUME DeliveryTypeOK, NEW w \in Worker, EndPass(w)
    PROVE  DeliveryWorkerType'
BY DEF DeliveryTypeOK, DeliveryWorkerType, EndPass

\* Finishing a row leaves inbox and worker typed.
LEMMA FinishType ==
    ASSUME DeliveryTypeOK, NEW w \in Worker, pc[w] # "idle",
           NEW end \in {"applied", "ignored"}, NEW reason \in Reason,
           Finish(w, end, reason)
    PROVE  InboxType' /\ DeliveryWorkerType'
<1>1. row[w] \in Message
  BY DEF DeliveryTypeOK, DeliveryWorkerType
<1>2. InboxType'
  BY <1>1 DEF DeliveryTypeOK, InboxType, Finish
<1>3. EndPass(w)
  BY DEF Finish
<1> QED
  BY <1>2, <1>3, EndPassType

\* A failed pass leaves everything typed.
LEMMA FailType ==
    ASSUME DeliveryTypeOK, NEW w \in Worker, pc[w] # "idle", Fail(w)
    PROVE  DeliveryTypeOK'
<1>1. row[w] \in Message
  BY DEF DeliveryTypeOK, DeliveryWorkerType
<1>2. InboxType'
  BY <1>1 DEF DeliveryTypeOK, InboxType, Fail
<1>3. DeliveryWorkerType'
  BY EndPassType DEF Fail
<1>4. HeadType' /\ CrmType'
  BY DEF DeliveryTypeOK, HeadType, CrmType, Fail, headVars, entryVars, bindingVars, crmVars
<1> QED
  BY <1>2, <1>3, <1>4 DEF DeliveryTypeOK

\* An observation opens a new entry, closes the current one, or leaves the lead
\* where it is.
Opens(w, a) ==
    /\ stage[w] \in Stage /\ sequence + 1 \in EntryId
    /\ \E st \in {"checking", "unproven"} :
        entry' = [Leave(current, a, TRUE) EXCEPT ![sequence + 1] = st]
    /\ entryStage' = [entryStage EXCEPT ![sequence + 1] = stage[w]]
    /\ sequence' = sequence + 1 /\ current' = sequence + 1

Closes(w, a) ==
    /\ stage[w] \notin Stage
    /\ entry' = Leave(current, a, TRUE) /\ current' = 0
    /\ UNCHANGED <<sequence, entryStage>>

Stays(w, a) ==
    /\ stage[w] = headStage
    /\ entry' = Leave(current, a, FALSE) /\ UNCHANGED <<sequence, current, entryStage>>

LEMMA ObservationCases ==
    ASSUME NEW w \in Worker, ApplyObservation(w)
    PROVE  \E a \in BOOLEAN : Opens(w, a) \/ Closes(w, a) \/ Stays(w, a)
<1>1. PICK reentry \in BOOLEAN, ambiguous \in BOOLEAN :
        LET changed == Changed(w, reentry)
            opens == changed /\ stage[w] \in Stage
            next == sequence + 1
        IN
        IF opens
        THEN /\ next \in EntryId
             /\ \E st \in NewStates(w, reentry) :
                 entry' = [Leave(current, ambiguous, changed) EXCEPT ![next] = st]
             /\ entryStage' = [entryStage EXCEPT ![next] = stage[w]]
             /\ sequence' = next /\ current' = next
        ELSE /\ entry' = Leave(current, ambiguous, changed)
             /\ current' = IF changed THEN 0 ELSE current
             /\ UNCHANGED <<sequence, entryStage>>
  BY DEF ApplyObservation
<1>2. CASE Changed(w, reentry) /\ stage[w] \in Stage
  <2>1. Changed(w, reentry) = TRUE
    BY <1>2 DEF Changed
  <2>2. NewStates(w, reentry) \subseteq {"checking", "unproven"}
    BY DEF NewStates
  <2>3. Opens(w, ambiguous)
    BY <1>1, <1>2, <2>1, <2>2 DEF Opens
  <2> QED
    BY <2>3
<1>3. CASE Changed(w, reentry) /\ stage[w] \notin Stage
  <2>1. Changed(w, reentry) = TRUE
    BY <1>3 DEF Changed
  <2>2. Closes(w, ambiguous)
    BY <1>1, <1>3, <2>1 DEF Closes
  <2> QED
    BY <2>2
<1>4. CASE ~Changed(w, reentry)
  <2>1. Changed(w, reentry) = FALSE /\ stage[w] = headStage
    BY <1>4 DEF Changed
  <2>2. Stays(w, ambiguous)
    BY <1>1, <2>1 DEF Stays
  <2> QED
    BY <2>2
<1> QED
  BY <1>2, <1>3, <1>4

\* An observation leaves everything typed.
LEMMA AppliedType ==
    ASSUME DeliveryTypeOK, NEW w \in Worker, ApplyObservation(w)
    PROVE  DeliveryTypeOK'
<1>1. /\ row[w] \in Message /\ pc[w] # "idle"
      /\ gen[w] \in Nat /\ rev[w] \in Nat /\ ver[w] \in Nat /\ stage[w] \in Stage \cup {Gone}
  BY DEF DeliveryTypeOK, DeliveryWorkerType, ApplyObservation
<1>2. InboxType' /\ DeliveryWorkerType'
  BY <1>1, FinishType DEF ApplyObservation, Reason
<1>3. CrmType'
  BY DEF DeliveryTypeOK, CrmType, ApplyObservation, bindingVars, crmVars
<1>4. scope[EventOf[row[w]]] \in Nat
  BY <1>1, DeliveryAssumption DEF DeliveryTypeOK, CrmType
<1>5. \A a, c \in BOOLEAN : Leave(current, a, c) \in [EntryId -> EntryState]
  BY DEF DeliveryTypeOK, HeadType, Leave, EntryState
<1>6. PICK a \in BOOLEAN : Opens(w, a) \/ Closes(w, a) \/ Stays(w, a)
  BY ObservationCases
<1>7. /\ sequence' \in 0 .. MaxEntries /\ current' \in 0 .. MaxEntries
      /\ entryStage' \in [EntryId -> Stage \cup {Unseen}]
      /\ entry' \in [EntryId -> EntryState]
  <2>1. CASE Opens(w, a)
    <3>1. sequence' \in 0 .. MaxEntries /\ current' \in 0 .. MaxEntries
      BY <2>1, DeliveryAssumption DEF Opens, EntryId
    <3>2. entryStage' \in [EntryId -> Stage \cup {Unseen}]
      BY <2>1 DEF Opens, DeliveryTypeOK, HeadType
    <3>3. entry' \in [EntryId -> EntryState]
      BY <1>5, <2>1 DEF Opens, EntryState
    <3> QED
      BY <3>1, <3>2, <3>3
  <2>2. CASE Closes(w, a)
    <3>1. 0 \in 0 .. MaxEntries
      BY DeliveryAssumption
    <3> QED
      BY <1>5, <2>2, <3>1 DEF Closes, DeliveryTypeOK, HeadType
  <2>3. CASE Stays(w, a)
    BY <1>5, <2>3 DEF Stays, DeliveryTypeOK, HeadType
  <2> QED
    BY <1>6, <2>1, <2>2, <2>3
<1>8. /\ nextGen' \in Nat /\ appliedGen' \in Nat /\ headRev' \in Nat /\ headVersion' \in Int
      /\ headStage' \in Stage \cup {Gone, Unseen} /\ headScope' \in Nat
  <2>1. /\ appliedGen' = gen[w] /\ headRev' = rev[w] /\ headStage' = stage[w]
        /\ headScope' = scope[EventOf[row[w]]] /\ headVersion' = ver[w] /\ nextGen' = nextGen
    BY DEF ApplyObservation
  <2> QED
    BY <1>1, <1>4, <2>1 DEF DeliveryTypeOK, HeadType
<1> QED
  BY <1>2, <1>3, <1>7, <1>8 DEF DeliveryTypeOK, HeadType

LEMMA TypeInit ==
    ASSUME Init
    PROVE  DeliveryTypeOK
<1>1. InboxType
  BY DEF Init, InboxType, Reason
<1>2. HeadType
  <2>1. 0 \in 0 .. MaxEntries
    BY DeliveryAssumption
  <2>2. /\ nextGen = 0 /\ appliedGen = 0 /\ headRev = 0 /\ headVersion = -1
        /\ sequence = 0 /\ current = 0 /\ headStage = Unseen /\ headScope = binding /\ binding = 1
    BY DEF Init
  <2>3. entry \in [EntryId -> EntryState] /\ entryStage \in [EntryId -> Stage \cup {Unseen}]
    BY DEF Init, EntryState
  <2> QED
    BY <2>1, <2>2, <2>3 DEF HeadType
<1>3. CrmType
  <2>1. binding = 1 /\ bound = "active" /\ confirmed = {1} /\ crm \in Stage
    BY DEF Init
  <2>2. version \in Nat /\ reads \in Nat /\ born \in [Event -> Nat \cup {-1}]
    BY DEF Init
  <2>3. scope = [e \in Event |-> binding]
    BY DEF Init
  <2> QED
    BY <2>1, <2>2, <2>3 DEF CrmType
<1>4. DeliveryWorkerType
  BY DEF Init, DeliveryWorkerType
<1> QED
  BY <1>1, <1>2, <1>3, <1>4 DEF DeliveryTypeOK

LEMMA TypeNext ==
    ASSUME DeliveryTypeOK, [Next]_vars
    PROVE  DeliveryTypeOK'
<1> USE DEF DeliveryTypeOK
<1>1. ASSUME NEW e \in Event, NEW s \in Stage \cup {Gone}, CrmEvent(e, s)
      PROVE  DeliveryTypeOK'
  <2>1. CrmType'
    BY <1>1 DEF CrmType, CrmEvent, bindingVars
  <2>2. InboxType' /\ HeadType' /\ DeliveryWorkerType'
    BY <1>1 DEF InboxType, HeadType, DeliveryWorkerType, CrmEvent, inboxVars, headVars,
                entryVars, workerVars
  <2> QED
    BY <2>1, <2>2
<1>2. CASE LinkDistributionConnection \/ ActivateDistributionBinding \/ RevokeDistributionConnection
  <2>1. CrmType'
    <3>1. CASE LinkDistributionConnection
      BY <3>1 DEF CrmType, LinkDistributionConnection, crmVars
    <3>2. CASE ActivateDistributionBinding
      BY <3>2 DEF CrmType, ActivateDistributionBinding, crmVars
    <3>3. CASE RevokeDistributionConnection
      BY <3>3 DEF CrmType, RevokeDistributionConnection, crmVars
    <3> QED
      BY <1>2, <3>1, <3>2, <3>3
  <2>2. InboxType' /\ HeadType' /\ DeliveryWorkerType'
    BY <1>2 DEF InboxType, HeadType, DeliveryWorkerType, LinkDistributionConnection,
                ActivateDistributionBinding, RevokeDistributionConnection, inboxVars,
                headVars, entryVars, workerVars
  <2> QED
    BY <2>1, <2>2
<1>3. ASSUME NEW m \in Message, ReceiveDelivery(m) \/ LeaseExpires(m)
      PROVE  DeliveryTypeOK'
  <2>1. InboxType'
    <3>1. CASE ReceiveDelivery(m)
      <4>1. EventOf[m] \in Event
        BY DeliveryAssumption
      <4>2. CASE receipt[EventOf[m]] = NoMessage
        BY <3>1, <4>1, <4>2 DEF InboxType, ReceiveDelivery
      <4>3. CASE receipt[EventOf[m]] # NoMessage
        BY <3>1, <4>3 DEF InboxType, ReceiveDelivery, Reason
      <4> QED
        BY <4>2, <4>3
    <3>2. CASE LeaseExpires(m)
      BY <3>2 DEF InboxType, LeaseExpires
    <3> QED
      BY <1>3, <3>1, <3>2
  <2>2. HeadType' /\ CrmType' /\ DeliveryWorkerType'
    BY <1>3 DEF HeadType, CrmType, DeliveryWorkerType, ReceiveDelivery, LeaseExpires,
                headVars, entryVars, bindingVars, crmVars, workerVars
  <2> QED
    BY <2>1, <2>2
<1>4. ASSUME NEW w \in Worker, NEW m \in Message, ClaimDistributionDelivery(w, m)
      PROVE  DeliveryTypeOK'
  <2>1. InboxType'
    BY <1>4 DEF InboxType, ClaimDistributionDelivery
  <2>2. DeliveryWorkerType'
    BY <1>4 DEF DeliveryWorkerType, ClaimDistributionDelivery
  <2>3. HeadType' /\ CrmType'
    BY <1>4 DEF HeadType, CrmType, ClaimDistributionDelivery, headVars, entryVars,
                bindingVars, crmVars
  <2> QED
    BY <2>1, <2>2, <2>3
<1>5. ASSUME NEW w \in Worker, LeaseLost(w) \/ PassFails(w)
      PROVE  DeliveryTypeOK'
  <2>1. pc[w] # "idle" /\ Fail(w)
    BY <1>5 DEF LeaseLost, PassFails
  <2> QED
    BY <2>1, FailType
<1>6. ASSUME NEW w \in Worker, BeginHistorical(w) \/ ApplyHistorical(w) \/ ApplyStale(w)
      PROVE  DeliveryTypeOK'
  <2>1. InboxType' /\ DeliveryWorkerType'
    BY <1>6, FinishType DEF BeginHistorical, ApplyHistorical, ApplyStale, Reason
  <2>2. HeadType' /\ CrmType'
    BY <1>6 DEF HeadType, CrmType, BeginHistorical, ApplyHistorical, ApplyStale, headVars,
                entryVars, bindingVars, crmVars
  <2> QED
    BY <2>1, <2>2
<1>7. ASSUME NEW w \in Worker, BeginObservation(w)
      PROVE  DeliveryTypeOK'
  <2>1. row[w] \in Message
    BY <1>7 DEF DeliveryWorkerType, BeginObservation
  <2>2. scope[EventOf[row[w]]] \in Nat
    BY <2>1, DeliveryAssumption DEF CrmType
  <2>3. HeadType'
    BY <1>7, <2>2 DEF HeadType, BeginObservation, entryVars
  <2>4. DeliveryWorkerType'
    BY <1>7 DEF HeadType, DeliveryWorkerType, BeginObservation
  <2>5. InboxType' /\ CrmType'
    BY <1>7 DEF InboxType, CrmType, BeginObservation, inboxVars, bindingVars, crmVars
  <2> QED
    BY <2>3, <2>4, <2>5
<1>8. ASSUME NEW w \in Worker, ReadLead(w)
      PROVE  DeliveryTypeOK'
  <2>1. DeliveryWorkerType'
    <3>1. crm # Unseen /\ crm \in Stage \cup {Gone, Unseen}
      BY DeliveryAssumption DEF CrmType
    <3>2. reads + 1 \in Nat /\ version \in Nat
      BY DEF CrmType
    <3> QED
      BY <1>8, <3>1, <3>2 DEF DeliveryWorkerType, ReadLead
  <2>2. InboxType' /\ HeadType' /\ CrmType'
    BY <1>8 DEF InboxType, HeadType, CrmType, ReadLead, inboxVars, headVars, entryVars,
                bindingVars, crmVars
  <2> QED
    BY <2>1, <2>2
<1>9. ASSUME NEW w \in Worker, ApplyObservation(w)
      PROVE  DeliveryTypeOK'
  BY <1>9, AppliedType
<1>10. ASSUME NEW w \in Worker, Crash(w)
      PROVE  DeliveryTypeOK'
  <2>1. DeliveryWorkerType'
    BY <1>10, EndPassType DEF Crash
  <2>2. InboxType' /\ HeadType' /\ CrmType'
    BY <1>10 DEF InboxType, HeadType, CrmType, Crash, inboxVars, headVars, entryVars,
                 bindingVars, crmVars
  <2> QED
    BY <2>1, <2>2
<1>11. CASE UNCHANGED vars
  BY <1>11 DEF vars, InboxType, HeadType, CrmType, DeliveryWorkerType, inboxVars, headVars,
               entryVars, bindingVars, crmVars, workerVars
<1> QED
  BY <1>1, <1>2, <1>3, <1>4, <1>5, <1>6, <1>7, <1>8, <1>9, <1>10, <1>11 DEF Next, PassNext

\* Every variable of the inbox, the head and the workers keeps its type.
THEOREM DeliveryTypeCorrect == Spec => []DeliveryTypeOK
<1>1. Init => DeliveryTypeOK
  BY TypeInit
<1>2. DeliveryTypeOK /\ [Next]_vars => DeliveryTypeOK'
  BY TypeNext
<1> QED
  BY <1>1, <1>2, PTL DEF Spec
================================================================================
