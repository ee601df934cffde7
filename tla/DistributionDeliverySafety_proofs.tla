------------------- MODULE DistributionDeliverySafety_proofs -------------------
(***************************************************************************)
(* The inductive invariant of the inbox and the lead head, and what it     *)
(* implies.                                                                *)
(***************************************************************************)
EXTENDS DistributionDelivery_proofs

--------------------------------------------------------------------------------
(***************************************************************************)
(* Receipts and leases.                                                    *)
(***************************************************************************)

\* Facts about a worker in a pass that hold in every state.
LEMMA InPass ==
    ASSUME DeliveryInv, NEW w \in Worker, pc[w] # "idle"
    PROVE  /\ row[w] \in Message /\ EventOf[row[w]] \in Event
           /\ inbox[row[w]] # "absent" /\ born[EventOf[row[w]]] # -1
<1>1. row[w] \in Message
  BY DEF DeliveryInv, DeliveryTypeOK, DeliveryWorkerType
<1> QED
  BY <1>1, DeliveryAssumption DEF DeliveryInv, InboxConsistent

\* A row that is leased is in processing and has no reason yet.
LEMMA InLease ==
    ASSUME DeliveryInv, NEW w \in Worker, pc[w] # "idle", LeaseLocked(w)
    PROVE  inbox[row[w]] = "processing" /\ why[row[w]] = "" /\ ~Done(row[w])
<1>1. row[w] \in Message
  BY InPass
<1>2. inbox[row[w]] = "processing"
  BY DEF LeaseLocked
<1>3. why[row[w]] = ""
  BY <1>1, <1>2 DEF DeliveryInv, InboxConsistent
<1> QED
  BY <1>2, <1>3 DEF Done

\* A row that is finished keeps receipts and leases consistent.
LEMMA FinishInbox ==
    ASSUME DeliveryInv, NEW w \in Worker, pc[w] # "idle", LeaseLocked(w),
           NEW end, NEW reason \in Reason,
           end = "ignored" \/ (end = "applied" /\ reason = ""),
           Finish(w, end, reason), UNCHANGED born
    PROVE  InboxConsistent'
<1>1. row[w] \in Message /\ EventOf[row[w]] \in Event /\ born[EventOf[row[w]]] # -1
  BY InPass
<1>2. inbox[row[w]] = "processing" /\ why[row[w]] = ""
  BY InLease
<1>3. InboxType /\ DeliveryWorkerType /\ InboxConsistent
  BY DEF DeliveryInv, DeliveryTypeOK
<1>4. receipt[EventOf[row[w]]] = row[w]
  BY <1>1, <1>2, <1>3 DEF InboxConsistent
<1>5. \A m \in Message : inbox'[m] # "absent" => born'[EventOf[m]] # -1
  BY <1>1, <1>3 DEF InboxConsistent, Finish, InboxType
<1>6. \A m \in Message : token'[m] # NoWorker <=> inbox'[m] = "processing"
  BY <1>3 DEF InboxConsistent, Finish, InboxType
<1>7. \A m \in Message : why'[m] # "" => inbox'[m] = "ignored"
  BY <1>3 DEF InboxConsistent, Finish, InboxType
<1>8. \A m \in Message :
        inbox'[m] # "absent" /\ why'[m] # "duplicate_business_event" => receipt'[EventOf[m]] = m
  BY <1>3, <1>4 DEF InboxConsistent, Finish, InboxType
<1>9. \A x \in Worker : pc'[x] # "idle" => inbox'[row'[x]] # "absent"
  BY <1>3 DEF InboxConsistent, Finish, EndPass, InboxType, DeliveryWorkerType
<1> QED
  BY <1>5, <1>6, <1>7, <1>8, <1>9 DEF InboxConsistent

\* A pass that fails or ends early keeps them consistent.
LEMMA FailInbox ==
    ASSUME DeliveryInv, NEW w \in Worker, pc[w] # "idle", Fail(w)
    PROVE  InboxConsistent'
<1>1. row[w] \in Message /\ inbox[row[w]] # "absent"
  BY InPass
<1>2. InboxType /\ DeliveryWorkerType /\ InboxConsistent
  BY DEF DeliveryInv, DeliveryTypeOK
<1>3. UNCHANGED <<why, receipt, born>> /\ EndPass(w)
  BY DEF Fail, crmVars
<1>4. CASE token[row[w]] = w
  <2>1. /\ inbox' = [inbox EXCEPT ![row[w]] = "pending"]
        /\ token' = [token EXCEPT ![row[w]] = NoWorker]
    BY <1>4 DEF Fail
  <2>2. inbox[row[w]] = "processing"
    BY <1>1, <1>2, <1>4, DeliveryAssumption DEF InboxConsistent
  <2>3. why[row[w]] = ""
    BY <1>1, <1>2, <2>2 DEF InboxConsistent
  <2>4. \A m \in Message : /\ inbox'[m] # "absent" <=> inbox[m] # "absent"
                           /\ token'[m] # NoWorker <=> inbox'[m] = "processing"
                           /\ why'[m] # "" => inbox'[m] = "ignored"
    BY <1>2, <1>3, <2>1, <2>2, <2>3 DEF InboxConsistent, InboxType
  <2>5. \A x \in Worker : pc'[x] # "idle" => inbox'[row'[x]] # "absent"
    BY <1>2, <1>3, <2>1 DEF InboxConsistent, InboxType, EndPass, DeliveryWorkerType
  <2> QED
    BY <1>2, <1>3, <2>4, <2>5 DEF InboxConsistent
<1>5. CASE token[row[w]] # w
  <2>1. UNCHANGED <<inbox, token>>
    BY <1>5 DEF Fail
  <2>2. \A x \in Worker : pc'[x] # "idle" => inbox'[row'[x]] # "absent"
    BY <1>2, <1>3, <2>1 DEF InboxConsistent, EndPass, DeliveryWorkerType
  <2> QED
    BY <1>2, <1>3, <2>1, <2>2 DEF InboxConsistent
<1> QED
  BY <1>4, <1>5

\* Receipts, leases and reasons stay consistent in every step.
LEMMA InboxNext ==
    ASSUME DeliveryInv, [Next]_vars
    PROVE  InboxConsistent'
<1> DEFINE UseInv == InboxType /\ DeliveryWorkerType /\ CrmType /\ InboxConsistent
<1>0. UseInv
  BY DEF DeliveryInv, DeliveryTypeOK
<1>1. ASSUME NEW e \in Event, NEW s \in Stage \cup {Gone}, CrmEvent(e, s)
      PROVE  InboxConsistent'
  <2>1. /\ \A f \in Event : born[f] # -1 => born'[f] # -1
        /\ UNCHANGED <<inbox, token, why, receipt, pc, row>>
    <3>1. version' \in Nat
      BY <1>0, <1>1 DEF CrmEvent, CrmType
    <3>2. born' = [born EXCEPT ![e] = version'] /\ UNCHANGED <<inbox, token, why, receipt, pc, row>>
      BY <1>1 DEF CrmEvent, inboxVars, workerVars
    <3> QED
      BY <1>0, <3>1, <3>2 DEF CrmType
  <2> QED
    BY <1>0, <2>1, DeliveryAssumption DEF InboxConsistent
<1>2. CASE LinkDistributionConnection \/ ActivateDistributionBinding \/ RevokeDistributionConnection
  BY <1>0, <1>2 DEF InboxConsistent, LinkDistributionConnection, ActivateDistributionBinding,
     RevokeDistributionConnection, inboxVars, crmVars, workerVars
<1>3. ASSUME NEW m \in Message, ReceiveDelivery(m)
      PROVE  InboxConsistent'
  <2>1. EventOf[m] \in Event /\ inbox[m] = "absent" /\ born[EventOf[m]] # -1 /\ why[m] = ""
    BY <1>0, <1>3, DeliveryAssumption DEF ReceiveDelivery, InboxConsistent
  <2>2. UNCHANGED <<token, born, pc, row>>
    BY <1>3 DEF ReceiveDelivery, crmVars, workerVars
  <2>3. token[m] = NoWorker
    BY <1>0, <2>1 DEF InboxConsistent
  <2>4. CASE receipt[EventOf[m]] = NoMessage
    <3>1. /\ inbox' = [inbox EXCEPT ![m] = "pending"]
          /\ receipt' = [receipt EXCEPT ![EventOf[m]] = m] /\ UNCHANGED why
      BY <1>3, <2>4 DEF ReceiveDelivery
    <3>2. \A n \in Message : n # m /\ EventOf[n] = EventOf[m] =>
            inbox[n] = "absent" \/ why[n] = "duplicate_business_event"
      BY <1>0, <2>4, DeliveryAssumption DEF InboxConsistent
    <3>3. \A n \in Message :
            inbox'[n] # "absent" /\ why'[n] # "duplicate_business_event" => receipt'[EventOf[n]] = n
      BY <1>0, <2>1, <3>1, <3>2, DeliveryAssumption DEF InboxConsistent, InboxType
    <3>4. /\ \A n \in Message : inbox'[n] # "absent" => born'[EventOf[n]] # -1
          /\ \A n \in Message : token'[n] # NoWorker <=> inbox'[n] = "processing"
          /\ \A n \in Message : why'[n] # "" => inbox'[n] = "ignored"
      BY <1>0, <2>1, <2>2, <2>3, <3>1 DEF InboxConsistent, InboxType
    <3>5. \A w \in Worker : pc'[w] # "idle" => inbox'[row'[w]] # "absent"
      BY <1>0, <2>2, <3>1 DEF InboxConsistent, InboxType, DeliveryWorkerType
    <3> QED
      BY <3>3, <3>4, <3>5 DEF InboxConsistent
  <2>5. CASE receipt[EventOf[m]] # NoMessage
    <3>1. /\ inbox' = [inbox EXCEPT ![m] = "ignored"]
          /\ why' = [why EXCEPT ![m] = "duplicate_business_event"] /\ UNCHANGED receipt
      BY <1>3, <2>5 DEF ReceiveDelivery
    <3>2. /\ \A n \in Message : inbox'[n] # "absent" => born'[EventOf[n]] # -1
          /\ \A n \in Message : token'[n] # NoWorker <=> inbox'[n] = "processing"
          /\ \A n \in Message : why'[n] # "" => inbox'[n] = "ignored"
          /\ \A n \in Message :
              inbox'[n] # "absent" /\ why'[n] # "duplicate_business_event" => receipt'[EventOf[n]] = n
      BY <1>0, <2>1, <2>2, <2>3, <3>1 DEF InboxConsistent, InboxType
    <3>3. \A w \in Worker : pc'[w] # "idle" => inbox'[row'[w]] # "absent"
      BY <1>0, <2>2, <3>1 DEF InboxConsistent, InboxType, DeliveryWorkerType
    <3> QED
      BY <3>2, <3>3 DEF InboxConsistent
  <2> QED
    BY <2>4, <2>5
<1>4. ASSUME NEW m \in Message, LeaseExpires(m)
      PROVE  InboxConsistent'
  BY <1>0, <1>4 DEF InboxConsistent, LeaseExpires, crmVars, workerVars
<1>5. ASSUME NEW w \in Worker, NEW m \in Message, ClaimDistributionDelivery(w, m)
      PROVE  InboxConsistent'
  <2>1. /\ inbox[m] \in {"pending", "processing"}
        /\ inbox' = [inbox EXCEPT ![m] = "processing"] /\ token' = [token EXCEPT ![m] = w]
        /\ pc' = [pc EXCEPT ![w] = "begin"] /\ row' = [row EXCEPT ![w] = m]
        /\ UNCHANGED <<why, receipt, born>>
    BY <1>5 DEF ClaimDistributionDelivery, crmVars
  <2>2. why[m] = ""
    BY <1>0, <2>1 DEF InboxConsistent
  <2>3. /\ \A n \in Message : inbox'[n] # "absent" <=> inbox[n] # "absent"
        /\ \A n \in Message : token'[n] # NoWorker <=> inbox'[n] = "processing"
        /\ \A n \in Message : why'[n] # "" => inbox'[n] = "ignored"
    BY <1>0, <2>1, <2>2, DeliveryAssumption DEF InboxConsistent, InboxType
  <2>4. \A x \in Worker : pc'[x] # "idle" => inbox'[row'[x]] # "absent"
    BY <1>0, <2>1 DEF InboxConsistent, InboxType, DeliveryWorkerType
  <2> QED
    BY <1>0, <2>1, <2>3, <2>4 DEF InboxConsistent
<1>6. ASSUME NEW w \in Worker, LeaseLost(w) \/ PassFails(w)
      PROVE  InboxConsistent'
  <2>1. pc[w] # "idle" /\ Fail(w)
    BY <1>6 DEF LeaseLost, PassFails
  <2> QED
    BY <2>1, FailInbox
<1>7. ASSUME NEW w \in Worker,
             BeginHistorical(w) \/ ApplyHistorical(w) \/ ApplyStale(w) \/ ApplyObservation(w)
      PROVE  InboxConsistent'
  <2>1. /\ pc[w] # "idle" /\ LeaseLocked(w) /\ UNCHANGED born
        /\ \/ Finish(w, "ignored", "historical_binding_event")
           \/ Finish(w, "ignored", "stale_observation")
           \/ Finish(w, "applied", "")
    BY <1>7 DEF BeginHistorical, ApplyHistorical, ApplyStale, ApplyObservation, crmVars
  <2> QED
    BY <2>1, FinishInbox DEF Reason
<1>8. ASSUME NEW w \in Worker, BeginObservation(w) \/ ReadLead(w)
      PROVE  InboxConsistent'
  <2>1. /\ UNCHANGED <<inbox, token, why, receipt, born, row>>
        /\ \A x \in Worker : pc'[x] # "idle" => pc[x] # "idle"
    BY <1>0, <1>8 DEF BeginObservation, ReadLead, inboxVars, crmVars, DeliveryWorkerType
  <2> QED
    BY <1>0, <2>1 DEF InboxConsistent
<1>9. ASSUME NEW w \in Worker, Crash(w)
      PROVE  InboxConsistent'
  <2>1. /\ UNCHANGED <<inbox, token, why, receipt, born>>
        /\ \A x \in Worker : pc'[x] # "idle" => pc[x] # "idle" /\ row'[x] = row[x]
    BY <1>0, <1>9 DEF Crash, EndPass, inboxVars, crmVars, DeliveryWorkerType
  <2> QED
    BY <1>0, <2>1 DEF InboxConsistent
<1>10. CASE UNCHANGED vars
  BY <1>0, <1>10 DEF InboxConsistent, vars, inboxVars, crmVars, workerVars
<1> QED
  BY <1>1, <1>2, <1>3, <1>4, <1>5, <1>6, <1>7, <1>8, <1>9, <1>10 DEF Next, PassNext

--------------------------------------------------------------------------------
(***************************************************************************)
(* Generations, revisions and what the head reflects.                      *)
(***************************************************************************)

\* The types that the arithmetic below needs.
LEMMA Numbers ==
    ASSUME DeliveryInv
    PROVE  /\ nextGen \in Nat /\ appliedGen \in Nat /\ headRev \in Nat /\ headVersion \in Int
           /\ version \in Nat /\ reads \in Nat
           /\ \A e \in Event : born[e] \in Int
           /\ \A w \in Worker : gen[w] \in Nat /\ rev[w] \in Nat /\ ver[w] \in Nat
BY DEF DeliveryInv, DeliveryTypeOK, HeadType, CrmType, DeliveryWorkerType

\* The end of a pass disturbs nobody else.
LEMMA PassEnds ==
    ASSUME DeliveryInv, NEW w \in Worker, EndPass(w),
           UNCHANGED <<nextGen, appliedGen, headRev, headVersion, version, born, reads>>
    PROVE  CountersLead' /\ ObservationsOrdered'
<1>1. \A x \in Worker :
        /\ pc'[x] # "idle" => /\ x # w /\ pc'[x] = pc[x] /\ row'[x] = row[x]
                              /\ gen'[x] = gen[x] /\ rev'[x] = rev[x] /\ ver'[x] = ver[x]
  BY DEF EndPass, DeliveryInv, DeliveryTypeOK, DeliveryWorkerType
<1>2. CountersLead'
  BY <1>1 DEF DeliveryInv, CountersLead
<1>3. ObservationsOrdered'
  BY <1>1 DEF DeliveryInv, ObservationsOrdered
<1> QED
  BY <1>2, <1>3

\* Steps that touch neither the observations nor the done rows.
LEMMA ObservationsStill ==
    ASSUME DeliveryInv,
           UNCHANGED <<nextGen, appliedGen, headRev, headVersion, version, born, reads>>,
           \A x \in Worker :
               pc'[x] \in {"read", "apply"} =>
                   /\ pc'[x] = pc[x] /\ row'[x] = row[x]
                   /\ gen'[x] = gen[x] /\ rev'[x] = rev[x] /\ ver'[x] = ver[x]
    PROVE  CountersLead' /\ ObservationsOrdered'
<1>1. CountersLead'
  BY DEF DeliveryInv, CountersLead
<1>2. ObservationsOrdered'
  BY DEF DeliveryInv, ObservationsOrdered
<1> QED
  BY <1>1, <1>2

\* No row becomes done.
LEMMA NoneDone ==
    ASSUME DeliveryInv, UNCHANGED <<headVersion, born>>,
           \A m \in Message : Done(m)' => Done(m)
    PROVE  NoMissedMove'
BY DEF DeliveryInv, NoMissedMove

\* A row that is written with another end than applied or overtaken is not done.
LEMMA WrittenUndone ==
    ASSUME DeliveryInv, NEW m \in Message,
           NEW end \in {"pending", "processing", "ignored"}, NEW reason \in Reason,
           reason # "stale_observation",
           inbox' = [inbox EXCEPT ![m] = end], why' = [why EXCEPT ![m] = reason]
    PROVE  \A n \in Message : Done(n)' => Done(n)
BY DEF DeliveryInv, DeliveryTypeOK, InboxType, Done

\* A new event is newer than everything that was read or applied before.
LEMMA EventAnnounced ==
    ASSUME DeliveryInv, NEW e \in Event, NEW s \in Stage \cup {Gone}, CrmEvent(e, s)
    PROVE  CountersLead' /\ ObservationsOrdered' /\ NoMissedMove'
<1>1. /\ nextGen \in Nat /\ appliedGen \in Nat /\ headRev \in Nat /\ headVersion \in Int
      /\ version \in Nat /\ reads \in Nat
      /\ \A f \in Event : born[f] \in Int
      /\ \A w \in Worker : gen[w] \in Nat /\ rev[w] \in Nat /\ ver[w] \in Nat
  BY Numbers
<1>2. /\ born[e] = -1 /\ born' = [born EXCEPT ![e] = version']
      /\ version' = version \/ version' = version + 1
      /\ UNCHANGED <<nextGen, appliedGen, headRev, headVersion, reads, inbox, why, workerVars>>
  BY DEF CrmEvent, headVars, inboxVars
<1>3. version <= version' /\ version' \in Nat
  BY <1>1, <1>2
<1>4. \A f \in Event : f # e => born'[f] = born[f]
  BY <1>2 DEF DeliveryInv, DeliveryTypeOK, CrmType
<1>5. born'[e] = version'
  BY <1>2 DEF DeliveryInv, DeliveryTypeOK, CrmType
<1>6. \A w \in Worker : pc[w] # "idle" => born'[EventOf[row[w]]] = born[EventOf[row[w]]]
  BY <1>2, <1>4, InPass
<1>7. CountersLead'
  <2>1. \A f \in Event : born'[f] <= version'
    BY <1>1, <1>3, <1>4, <1>5 DEF DeliveryInv, CountersLead
  <2>2. headVersion' <= version' /\ \A w \in Worker : pc'[w] = "apply" => ver'[w] <= version'
    BY <1>1, <1>2, <1>3 DEF DeliveryInv, CountersLead, workerVars
  <2> QED
    BY <1>2, <2>1, <2>2 DEF DeliveryInv, CountersLead, workerVars
<1>8. ObservationsOrdered'
  BY <1>2, <1>6 DEF DeliveryInv, ObservationsOrdered, workerVars
<1>9. NoMissedMove'
  <2>1. \A m \in Message : Done(m) => born'[EventOf[m]] = born[EventOf[m]]
    <3>1. \A m \in Message : Done(m) => inbox[m] # "absent"
      BY DEF DeliveryInv, InboxConsistent, Done
    <3>2. \A m \in Message : inbox[m] # "absent" => born[EventOf[m]] # -1
      BY DEF DeliveryInv, InboxConsistent
    <3>3. \A m \in Message : EventOf[m] \in Event
      BY DeliveryAssumption
    <3> QED
      BY <1>2, <1>4, <3>1, <3>2, <3>3
  <2>2. \A m \in Message : Done(m)' <=> Done(m)
    BY <1>2 DEF Done
  <2> QED
    BY <1>2, <2>1, <2>2 DEF DeliveryInv, NoMissedMove
<1> QED
  BY <1>7, <1>8, <1>9

\* A new generation is newer than all others.
LEMMA GenerationTaken ==
    ASSUME DeliveryInv, NEW w \in Worker, BeginObservation(w)
    PROVE  CountersLead' /\ ObservationsOrdered' /\ NoMissedMove'
<1>1. /\ nextGen \in Nat /\ appliedGen \in Nat
      /\ \A x \in Worker : gen[x] \in Nat
  BY Numbers
<1>2. /\ nextGen' = nextGen + 1 /\ gen' = [gen EXCEPT ![w] = nextGen + 1]
      /\ pc' = [pc EXCEPT ![w] = "read"]
      /\ UNCHANGED <<appliedGen, headRev, headVersion, version, born, reads, inbox, why>>
      /\ UNCHANGED <<row, rev, ver>>
  BY DEF BeginObservation, inboxVars, crmVars
<1>3. /\ pc'[w] = "read" /\ gen'[w] = nextGen + 1
      /\ \A x \in Worker : x # w => pc'[x] = pc[x] /\ gen'[x] = gen[x]
  BY <1>2 DEF DeliveryInv, DeliveryTypeOK, DeliveryWorkerType
<1>4. /\ appliedGen < gen'[w]
      /\ \A x \in Worker : pc[x] \in {"read", "apply"} => gen[x] < gen'[w]
  BY <1>1, <1>3 DEF DeliveryInv, CountersLead
<1>5. CountersLead'
  BY <1>1, <1>2, <1>3 DEF DeliveryInv, CountersLead
<1>6. ObservationsOrdered'
  <2>1. \A x \in Worker : pc'[x] = "apply" =>
          \A y \in Worker :
            /\ (pc'[y] \in {"read", "apply"} /\ gen'[y] <= gen'[x]) =>
                    born'[EventOf[row'[y]]] <= ver'[x]
            /\ (pc'[y] = "apply" /\ rev'[y] <= rev'[x]) => ver'[y] <= ver'[x]
    BY <1>1, <1>2, <1>3, <1>4 DEF DeliveryInv, ObservationsOrdered
  <2>2. \A x \in Worker : pc'[x] = "apply" =>
          /\ rev'[x] <= headRev' => ver'[x] <= headVersion'
          /\ headRev' <= rev'[x] => headVersion' <= ver'[x]
    BY <1>2, <1>3 DEF DeliveryInv, ObservationsOrdered
  <2>3. \A x \in Worker : (pc'[x] \in {"read", "apply"} /\ gen'[x] <= appliedGen') =>
            born'[EventOf[row'[x]]] <= headVersion'
    BY <1>1, <1>2, <1>3, <1>4 DEF DeliveryInv, ObservationsOrdered
  <2> QED
    BY <2>1, <2>2, <2>3 DEF ObservationsOrdered
<1>7. NoMissedMove'
  BY <1>2, NoneDone DEF Done
<1> QED
  BY <1>5, <1>6, <1>7

\* A read sees everything that was announced before it.
LEMMA LeadRead ==
    ASSUME DeliveryInv, NEW w \in Worker, ReadLead(w)
    PROVE  CountersLead' /\ ObservationsOrdered' /\ NoMissedMove'
<1>1. /\ headRev \in Nat /\ headVersion \in Int /\ version \in Nat /\ reads \in Nat
      /\ \A e \in Event : born[e] \in Int
      /\ \A x \in Worker : rev[x] \in Nat /\ ver[x] \in Nat
  BY Numbers
<1>2. /\ pc[w] = "read" /\ reads' = reads + 1
      /\ rev' = [rev EXCEPT ![w] = reads + 1] /\ ver' = [ver EXCEPT ![w] = version]
      /\ pc' = [pc EXCEPT ![w] = "apply"]
      /\ UNCHANGED <<nextGen, appliedGen, headRev, headVersion, version, born, inbox, why>>
      /\ UNCHANGED <<row, gen>>
  BY DEF ReadLead, inboxVars, headVars, crmVars
<1>3. /\ pc'[w] = "apply" /\ rev'[w] = reads + 1 /\ ver'[w] = version
      /\ \A x \in Worker : x # w => pc'[x] = pc[x] /\ rev'[x] = rev[x] /\ ver'[x] = ver[x]
  BY <1>2 DEF DeliveryInv, DeliveryTypeOK, DeliveryWorkerType
<1>4. /\ headRev < rev'[w] /\ headVersion <= ver'[w]
      /\ \A x \in Worker : pc[x] = "apply" => rev[x] < rev'[w] /\ ver[x] <= ver'[w]
      /\ \A x \in Worker : pc[x] # "idle" => born[EventOf[row[x]]] <= ver'[w]
  BY <1>1, <1>3, InPass DEF DeliveryInv, CountersLead
<1>5. CountersLead'
  BY <1>1, <1>2, <1>3 DEF DeliveryInv, CountersLead
<1>6. ObservationsOrdered'
  <2>1. ASSUME NEW x \in Worker, pc'[x] = "apply", NEW y \in Worker
        PROVE  /\ (pc'[y] \in {"read", "apply"} /\ gen'[y] <= gen'[x]) =>
                    born'[EventOf[row'[y]]] <= ver'[x]
               /\ (pc'[y] = "apply" /\ rev'[y] <= rev'[x]) => ver'[y] <= ver'[x]
    <3>1. CASE x = w
      BY <1>1, <1>2, <1>3, <1>4, <3>1
    <3>2. CASE x # w /\ y = w
      <4>1. pc[x] = "apply" /\ ver'[x] = ver[x] /\ rev'[x] = rev[x]
        BY <1>3, <2>1, <3>2
      <4>2. ~(rev'[w] <= rev[x])
        BY <1>1, <1>3, <1>4, <4>1
      <4>3. gen[w] <= gen[x] => born[EventOf[row[w]]] <= ver[x]
        BY <1>2, <4>1 DEF DeliveryInv, ObservationsOrdered
      <4> QED
        BY <1>2, <3>2, <4>1, <4>2, <4>3
    <3>3. CASE x # w /\ y # w
      BY <1>2, <1>3, <2>1, <3>3 DEF DeliveryInv, ObservationsOrdered
    <3> QED
      BY <3>1, <3>2, <3>3
  <2>2. \A x \in Worker : pc'[x] = "apply" =>
          /\ rev'[x] <= headRev' => ver'[x] <= headVersion'
          /\ headRev' <= rev'[x] => headVersion' <= ver'[x]
    BY <1>1, <1>2, <1>3, <1>4 DEF DeliveryInv, ObservationsOrdered
  <2>3. \A x \in Worker : (pc'[x] \in {"read", "apply"} /\ gen'[x] <= appliedGen') =>
            born'[EventOf[row'[x]]] <= headVersion'
    BY <1>2, <1>3 DEF DeliveryInv, ObservationsOrdered
  <2> QED
    BY <2>1, <2>2, <2>3 DEF ObservationsOrdered
<1>7. NoMissedMove'
  BY <1>2, NoneDone DEF Done
<1> QED
  BY <1>5, <1>6, <1>7

\* An overtaken observation is covered by what the head reflects.
LEMMA Overtaken ==
    ASSUME DeliveryInv, NEW w \in Worker, ApplyStale(w)
    PROVE  CountersLead' /\ ObservationsOrdered' /\ NoMissedMove'
<1>1. /\ pc[w] = "apply" /\ Stale(w) /\ Finish(w, "ignored", "stale_observation")
      /\ UNCHANGED <<nextGen, appliedGen, headRev, headVersion, version, born, reads>>
  BY DEF ApplyStale, headVars, crmVars
<1>2. CountersLead' /\ ObservationsOrdered'
  BY <1>1, PassEnds DEF Finish
<1>3. row[w] \in Message /\ EventOf[row[w]] \in Event
  BY <1>1, InPass
<1>4. born[EventOf[row[w]]] <= headVersion
  <2>1. /\ born[EventOf[row[w]]] \in Int /\ ver[w] \in Int /\ headVersion \in Int
        /\ gen[w] \in Nat /\ appliedGen \in Nat
    BY <1>3, Numbers
  <2>2. CASE appliedGen >= gen[w]
    BY <1>1, <2>1, <2>2 DEF DeliveryInv, ObservationsOrdered
  <2>3. CASE rev[w] <= headRev
    <3>1. ver[w] <= headVersion
      BY <1>1, <2>3 DEF DeliveryInv, ObservationsOrdered
    <3>2. born[EventOf[row[w]]] <= ver[w]
      BY <1>1, <2>1 DEF DeliveryInv, ObservationsOrdered
    <3> QED
      BY <2>1, <3>1, <3>2
  <2> QED
    BY <1>1, <2>2, <2>3 DEF Stale
<1>5. \A m \in Message : Done(m)' => Done(m) \/ m = row[w]
  BY <1>1 DEF Finish, Done, DeliveryInv, DeliveryTypeOK, InboxType
<1>6. NoMissedMove'
  BY <1>1, <1>4, <1>5 DEF DeliveryInv, NoMissedMove
<1> QED
  BY <1>2, <1>6

\* An applied observation is newer than the head and than every pass that it
\* overtakes.
LEMMA ObservationApplied ==
    ASSUME DeliveryInv, NEW w \in Worker, ApplyObservation(w)
    PROVE  /\ CountersLead' /\ ObservationsOrdered' /\ NoMissedMove'
           /\ headVersion <= headVersion' /\ appliedGen <= appliedGen' /\ headRev <= headRev'
<1>1. /\ pc[w] = "apply" /\ ~Stale(w) /\ Finish(w, "applied", "")
      /\ appliedGen' = gen[w] /\ headRev' = rev[w] /\ headVersion' = ver[w]
      /\ UNCHANGED <<nextGen, version, born, reads>>
  BY DEF ApplyObservation, crmVars
<1>2. /\ nextGen \in Nat /\ appliedGen \in Nat /\ headRev \in Nat /\ headVersion \in Int
      /\ \A e \in Event : born[e] \in Int
      /\ \A x \in Worker : gen[x] \in Nat /\ rev[x] \in Nat /\ ver[x] \in Nat
  BY Numbers
<1>3. appliedGen < gen[w] /\ headRev < rev[w]
  <2>1. gen[w] \in Nat /\ rev[w] \in Nat
    BY <1>2
  <2>2. ~(appliedGen >= gen[w]) /\ ~(rev[w] <= headRev)
    BY <1>1 DEF Stale
  <2> QED
    BY <1>2, <2>1, <2>2
<1>4. headVersion <= ver[w]
  <2>1. headRev <= rev[w] => headVersion <= ver[w]
    BY <1>1 DEF DeliveryInv, ObservationsOrdered
  <2>2. rev[w] \in Nat
    BY <1>2
  <2> QED
    BY <1>2, <1>3, <2>1, <2>2
<1>5. \A x \in Worker :
        /\ pc'[x] # "idle" => /\ x # w /\ pc'[x] = pc[x] /\ row'[x] = row[x]
                              /\ gen'[x] = gen[x] /\ rev'[x] = rev[x] /\ ver'[x] = ver[x]
  BY <1>1 DEF Finish, EndPass, DeliveryInv, DeliveryTypeOK, DeliveryWorkerType
<1>6. CountersLead'
  BY <1>1, <1>5 DEF DeliveryInv, CountersLead
<1>7. ObservationsOrdered'
  <2>1. \A x \in Worker : pc'[x] = "apply" =>
          \A y \in Worker :
            /\ (pc'[y] \in {"read", "apply"} /\ gen'[y] <= gen'[x]) =>
                    born'[EventOf[row'[y]]] <= ver'[x]
            /\ (pc'[y] = "apply" /\ rev'[y] <= rev'[x]) => ver'[y] <= ver'[x]
    BY <1>1, <1>5 DEF DeliveryInv, ObservationsOrdered
  <2>2. \A x \in Worker : pc'[x] = "apply" =>
          /\ rev'[x] <= headRev' => ver'[x] <= headVersion'
          /\ headRev' <= rev'[x] => headVersion' <= ver'[x]
    BY <1>1, <1>5 DEF DeliveryInv, ObservationsOrdered
  <2>3. \A x \in Worker : (pc'[x] \in {"read", "apply"} /\ gen'[x] <= appliedGen') =>
            born'[EventOf[row'[x]]] <= headVersion'
    BY <1>1, <1>5 DEF DeliveryInv, ObservationsOrdered
  <2> QED
    BY <2>1, <2>2, <2>3 DEF ObservationsOrdered
<1>8. NoMissedMove'
  <2>1. row[w] \in Message /\ EventOf[row[w]] \in Event
    BY <1>1, InPass
  <2>2. born[EventOf[row[w]]] <= ver[w]
    <3>1. gen[w] <= gen[w] => born[EventOf[row[w]]] <= ver[w]
      BY <1>1 DEF DeliveryInv, ObservationsOrdered
    <3>2. gen[w] \in Nat
      BY <1>2
    <3> QED
      BY <3>1, <3>2
  <2>3. \A m \in Message : Done(m)' => Done(m) \/ m = row[w]
    BY <1>1 DEF Finish, Done, DeliveryInv, DeliveryTypeOK, InboxType
  <2>4. \A m \in Message : Done(m) => born[EventOf[m]] <= ver[w]
    BY <1>2, <1>4, DeliveryAssumption DEF DeliveryInv, NoMissedMove
  <2> QED
    BY <1>1, <2>2, <2>3, <2>4 DEF NoMissedMove
<1>9. appliedGen <= gen[w] /\ headRev <= rev[w]
  <2>1. gen[w] \in Nat /\ rev[w] \in Nat
    BY <1>2
  <2> QED
    BY <1>2, <1>3, <2>1
<1> QED
  BY <1>1, <1>4, <1>6, <1>7, <1>8, <1>9

--------------------------------------------------------------------------------
(***************************************************************************)
(* Entries.                                                                *)
(***************************************************************************)

\* What pausing or cancelling the current entry leaves.
LEMMA LeaveEntries ==
    ASSUME DeliveryInv, NEW a \in BOOLEAN
    PROVE  /\ \A i \in EntryId :
                /\ Leave(current, a, TRUE)[i] = "unseen" <=> i > sequence
                /\ Leave(current, a, TRUE)[i] \in {"unseen", "cancelled"}
           /\ \A i \in EntryId :
                /\ Leave(current, a, FALSE)[i] = "unseen" <=> i > sequence
                /\ Leave(current, a, FALSE)[i] \notin {"unseen", "cancelled"} <=> i = current
<1>1. EntriesNumbered /\ OneCurrentEntry
  BY DEF DeliveryInv
<1>2. sequence \in Nat /\ current \in Nat /\ \A i \in EntryId : i \in Nat
  BY DEF DeliveryInv, DeliveryTypeOK, HeadType, EntryId
<1> QED
  BY <1>1, <1>2 DEF EntriesNumbered, OneCurrentEntry, Leave

LEMMA EntriesApplied ==
    ASSUME DeliveryInv, NEW w \in Worker, ApplyObservation(w)
    PROVE  EntriesNumbered' /\ OneCurrentEntry' /\ sequence <= sequence'
<1>1. PICK a \in BOOLEAN : Opens(w, a) \/ Closes(w, a) \/ Stays(w, a)
  BY ObservationCases
<1>2. /\ sequence \in Nat /\ current \in Nat /\ \A i \in EntryId : i \in Nat /\ i # 0
      /\ entry \in [EntryId -> EntryState] /\ entryStage \in [EntryId -> Stage \cup {Unseen}]
  BY DEF DeliveryInv, DeliveryTypeOK, HeadType, EntryId
<1>3. headStage' = stage[w]
  BY DEF ApplyObservation
<1>4. EntriesNumbered /\ OneCurrentEntry
  BY DEF DeliveryInv
<1> DEFINE left == Leave(current, a, TRUE)
           kept == Leave(current, a, FALSE)
<1>5. /\ \A i \in EntryId : (left[i] = "unseen" <=> i > sequence) /\ left[i] \in {"unseen", "cancelled"}
      /\ \A i \in EntryId : /\ kept[i] = "unseen" <=> i > sequence
                            /\ kept[i] \notin {"unseen", "cancelled"} <=> i = current
  BY LeaveEntries
<1>6. DOMAIN left = EntryId
  BY DEF Leave
<1> HIDE DEF left, kept
<1>7. CASE Opens(w, a)
  <2>1. PICK st \in {"checking", "unproven"} : entry' = [left EXCEPT ![sequence + 1] = st]
    BY <1>7 DEF Opens, left
  <2>2. /\ sequence + 1 \in EntryId /\ sequence' = sequence + 1 /\ current' = sequence + 1
        /\ entryStage' = [entryStage EXCEPT ![sequence + 1] = stage[w]]
    BY <1>7 DEF Opens
  <2>3. entry'[sequence + 1] = st /\ \A i \in EntryId : i # sequence + 1 => entry'[i] = left[i]
    BY <1>6, <2>1, <2>2
  <2>4. \A i \in EntryId : i > sequence + 1 <=> i > sequence /\ i # sequence + 1
    BY <1>2
  <2>5. \A i \in EntryId : entry'[i] = "unseen" <=> i > sequence + 1
    <3>1. ~(sequence + 1 > sequence + 1)
      BY <1>2
    <3> QED
      BY <1>5, <2>3, <2>4, <3>1
  <2>6. \A i \in EntryId : entry'[i] \notin {"unseen", "cancelled"} <=> i = sequence + 1
    BY <1>5, <2>3
  <2>7. entryStage'[sequence + 1] = stage[w]
    BY <1>2, <2>2
  <2> QED
    BY <1>2, <1>3, <2>2, <2>5, <2>6, <2>7 DEF EntriesNumbered, OneCurrentEntry
<1>8. CASE Closes(w, a)
  <2>1. entry' = left /\ current' = 0 /\ sequence' = sequence
    BY <1>8 DEF Closes, left
  <2>2. \A i \in EntryId : (entry'[i] = "unseen" <=> i > sequence) /\ entry'[i] \in {"unseen", "cancelled"}
    BY <1>5, <2>1
  <2>3. OneCurrentEntry'
    BY <1>2, <2>1, <2>2 DEF OneCurrentEntry
  <2>4. EntriesNumbered'
    <3>1. current' <= sequence'
      BY <1>2, <2>1
    <3> QED
      BY <2>1, <2>2, <3>1 DEF EntriesNumbered
  <2> QED
    BY <1>2, <2>1, <2>3, <2>4
<1>9. CASE Stays(w, a)
  <2>1. /\ entry' = kept /\ current' = current /\ sequence' = sequence
        /\ entryStage' = entryStage /\ headStage' = headStage
    BY <1>3, <1>9 DEF Stays, kept
  <2>2. \A i \in EntryId :
          /\ entry'[i] = "unseen" <=> i > sequence
          /\ entry'[i] \notin {"unseen", "cancelled"} <=> i = current
    BY <1>5, <2>1
  <2>3. OneCurrentEntry'
    BY <1>4, <2>1, <2>2 DEF OneCurrentEntry
  <2>4. EntriesNumbered'
    <3>1. current' <= sequence'
      BY <1>4, <2>1 DEF EntriesNumbered
    <3> QED
      BY <2>1, <2>2, <3>1 DEF EntriesNumbered
  <2> QED
    BY <1>2, <2>1, <2>3, <2>4
<1> QED
  BY <1>1, <1>7, <1>8, <1>9

--------------------------------------------------------------------------------
(***************************************************************************)
(* The invariant.                                                          *)
(***************************************************************************)

\* Every other step leaves the entries and the progress of the head alone.
Unapplied ==
    UNCHANGED <<entry, entryStage, sequence, current, headStage, appliedGen, headRev,
                headVersion>>

\* What a step other than ApplyObservation leaves of the invariant.
LEMMA OtherSteps ==
    ASSUME DeliveryInv, [Next]_vars, ~ \E w \in Worker : ApplyObservation(w)
    PROVE  CountersLead' /\ ObservationsOrdered' /\ NoMissedMove' /\ Unapplied
<1> USE DEF Unapplied
<1>1. ASSUME NEW e \in Event, NEW s \in Stage \cup {Gone}, CrmEvent(e, s)
      PROVE  CountersLead' /\ ObservationsOrdered' /\ NoMissedMove' /\ Unapplied
  BY <1>1, EventAnnounced DEF CrmEvent, headVars, entryVars
<1>2. CASE LinkDistributionConnection \/ ActivateDistributionBinding \/ RevokeDistributionConnection
  <2>1. UNCHANGED <<inboxVars, headVars, entryVars, crmVars, reads, workerVars>>
    BY <1>2 DEF LinkDistributionConnection, ActivateDistributionBinding,
                RevokeDistributionConnection
  <2>2. CountersLead' /\ ObservationsOrdered'
    BY <2>1, ObservationsStill DEF headVars, crmVars, workerVars
  <2>3. NoMissedMove'
    BY <2>1, NoneDone DEF Done, inboxVars, headVars, crmVars
  <2> QED
    BY <2>1, <2>2, <2>3 DEF headVars, entryVars
<1>3. ASSUME NEW m \in Message, ReceiveDelivery(m) \/ LeaseExpires(m)
      PROVE  CountersLead' /\ ObservationsOrdered' /\ NoMissedMove' /\ Unapplied
  <2>1. UNCHANGED <<headVars, entryVars, crmVars, reads, workerVars>>
    BY <1>3 DEF ReceiveDelivery, LeaseExpires
  <2>2. CountersLead' /\ ObservationsOrdered'
    BY <2>1, ObservationsStill DEF headVars, crmVars, workerVars
  <2>3. \A n \in Message : Done(n)' => Done(n)
    <3>1. CASE LeaseExpires(m)
      BY <3>1 DEF LeaseExpires, Done
    <3>2. CASE ReceiveDelivery(m) /\ receipt[EventOf[m]] = NoMessage
      BY <3>2 DEF ReceiveDelivery, Done, DeliveryInv, DeliveryTypeOK, InboxType
    <3>3. CASE ReceiveDelivery(m) /\ receipt[EventOf[m]] # NoMessage
      BY <3>3 DEF ReceiveDelivery, Done, DeliveryInv, DeliveryTypeOK, InboxType
    <3> QED
      BY <1>3, <3>1, <3>2, <3>3
  <2>4. NoMissedMove'
    BY <2>1, <2>3, NoneDone DEF headVars, crmVars
  <2> QED
    BY <2>1, <2>2, <2>4 DEF headVars, entryVars
<1>4. ASSUME NEW w \in Worker, NEW m \in Message, ClaimDistributionDelivery(w, m)
      PROVE  CountersLead' /\ ObservationsOrdered' /\ NoMissedMove' /\ Unapplied
  <2>1. UNCHANGED <<headVars, entryVars, crmVars, reads>>
    BY <1>4 DEF ClaimDistributionDelivery
  <2>2. \A x \in Worker : pc'[x] \in {"read", "apply"} =>
            /\ pc'[x] = pc[x] /\ row'[x] = row[x]
            /\ gen'[x] = gen[x] /\ rev'[x] = rev[x] /\ ver'[x] = ver[x]
    BY <1>4 DEF ClaimDistributionDelivery, DeliveryInv, DeliveryTypeOK, DeliveryWorkerType
  <2>3. CountersLead' /\ ObservationsOrdered'
    BY <2>1, <2>2, ObservationsStill DEF headVars, crmVars
  <2>4. \A n \in Message : Done(n)' => Done(n)
    BY <1>4 DEF ClaimDistributionDelivery, Done, DeliveryInv, DeliveryTypeOK, InboxType
  <2>5. NoMissedMove'
    BY <2>1, <2>4, NoneDone DEF headVars, crmVars
  <2> QED
    BY <2>1, <2>3, <2>5 DEF headVars, entryVars
<1>5. ASSUME NEW w \in Worker, LeaseLost(w) \/ PassFails(w) \/ Crash(w)
      PROVE  CountersLead' /\ ObservationsOrdered' /\ NoMissedMove' /\ Unapplied
  <2>1. pc[w] # "idle" /\ EndPass(w) /\ UNCHANGED <<why, headVars, entryVars, crmVars, reads>>
    BY <1>5 DEF LeaseLost, PassFails, Crash, Fail, inboxVars
  <2>2. CountersLead' /\ ObservationsOrdered'
    BY <2>1, PassEnds DEF headVars, crmVars
  <2>3. \A n \in Message : Done(n)' => Done(n)
    <3>1. inbox' = inbox \/ inbox' = [inbox EXCEPT ![row[w]] = "pending"]
      BY <1>5 DEF LeaseLost, PassFails, Crash, Fail, inboxVars
    <3> QED
      BY <2>1, <3>1 DEF Done, DeliveryInv, DeliveryTypeOK, InboxType
  <2>4. NoMissedMove'
    BY <2>1, <2>3, NoneDone DEF headVars, crmVars
  <2> QED
    BY <2>1, <2>2, <2>4 DEF headVars, entryVars
<1>6. ASSUME NEW w \in Worker, BeginHistorical(w) \/ ApplyHistorical(w)
      PROVE  CountersLead' /\ ObservationsOrdered' /\ NoMissedMove' /\ Unapplied
  <2>1. /\ pc[w] # "idle" /\ Finish(w, "ignored", "historical_binding_event")
        /\ UNCHANGED <<headVars, entryVars, crmVars, reads>>
    BY <1>6 DEF BeginHistorical, ApplyHistorical
  <2>2. CountersLead' /\ ObservationsOrdered'
    BY <2>1, PassEnds DEF Finish, headVars, crmVars
  <2>3. row[w] \in Message
    BY <2>1, InPass
  <2>4. \A n \in Message : Done(n)' => Done(n)
    BY <2>1, <2>3, WrittenUndone DEF Finish, Reason
  <2>5. NoMissedMove'
    BY <2>1, <2>4, NoneDone DEF headVars, crmVars
  <2> QED
    BY <2>1, <2>2, <2>5 DEF headVars, entryVars
<1>7. ASSUME NEW w \in Worker, BeginObservation(w)
      PROVE  CountersLead' /\ ObservationsOrdered' /\ NoMissedMove' /\ Unapplied
  BY <1>7, GenerationTaken DEF BeginObservation, entryVars
<1>8. ASSUME NEW w \in Worker, ReadLead(w)
      PROVE  CountersLead' /\ ObservationsOrdered' /\ NoMissedMove' /\ Unapplied
  BY <1>8, LeadRead DEF ReadLead, headVars, entryVars
<1>9. ASSUME NEW w \in Worker, ApplyStale(w)
      PROVE  CountersLead' /\ ObservationsOrdered' /\ NoMissedMove' /\ Unapplied
  BY <1>9, Overtaken DEF ApplyStale, headVars, entryVars
<1>10. CASE UNCHANGED vars
  <2>1. CountersLead' /\ ObservationsOrdered'
    BY <1>10, ObservationsStill DEF vars, headVars, crmVars, workerVars
  <2>2. NoMissedMove'
    BY <1>10, NoneDone DEF Done, vars, inboxVars, headVars, crmVars
  <2> QED
    BY <1>10, <2>1, <2>2 DEF vars, headVars, entryVars
<1> QED
  BY <1>1, <1>2, <1>3, <1>4, <1>5, <1>6, <1>7, <1>8, <1>9, <1>10 DEF Next, PassNext

LEMMA DeliveryInvInit ==
    ASSUME Init
    PROVE  DeliveryInv
<1>1. DeliveryTypeOK
  BY TypeInit
<1>2. /\ inbox = [m \in Message |-> "absent"] /\ why = [m \in Message |-> ""]
      /\ token = [m \in Message |-> NoWorker] /\ pc = [w \in Worker |-> "idle"]
  BY DEF Init
<1>3. InboxConsistent
  BY <1>2 DEF InboxConsistent
<1>4. /\ appliedGen = 0 /\ nextGen = 0 /\ headRev = 0 /\ reads = 0 /\ headVersion = -1
      /\ version = 0 /\ born = [e \in Event |-> -1]
  BY DEF Init
<1>5. CountersLead
  <2>1. \A e \in Event : born[e] <= version
    BY <1>4
  <2>2. appliedGen <= nextGen /\ headRev <= reads /\ headVersion <= version
    BY <1>4
  <2>3. \A w \in Worker : pc[w] = "idle"
    BY <1>2
  <2> QED
    BY <2>1, <2>2, <2>3 DEF CountersLead
<1>6. ObservationsOrdered
  BY <1>2 DEF ObservationsOrdered
<1>7. NoMissedMove
  BY <1>2 DEF NoMissedMove, Done
<1>8. sequence = 0 /\ current = 0 /\ entry = [i \in EntryId |-> "unseen"]
  BY DEF Init
<1>9. EntriesNumbered /\ OneCurrentEntry
  <2>1. \A i \in EntryId : i > 0 /\ i # 0
    BY DeliveryAssumption DEF EntryId
  <2>2. EntriesNumbered
    BY <1>8, <2>1 DEF EntriesNumbered
  <2>3. OneCurrentEntry
    BY <1>8, <2>1 DEF OneCurrentEntry
  <2> QED
    BY <2>2, <2>3
<1> QED
  BY <1>1, <1>3, <1>5, <1>6, <1>7, <1>9 DEF DeliveryInv

LEMMA DeliveryInvNext ==
    ASSUME DeliveryInv, [Next]_vars
    PROVE  DeliveryInv'
<1>1. DeliveryTypeOK' /\ InboxConsistent'
  BY TypeNext, InboxNext DEF DeliveryInv
<1>2. CASE \E w \in Worker : ApplyObservation(w)
  BY <1>1, <1>2, ObservationApplied, EntriesApplied DEF DeliveryInv
<1>3. CASE ~ \E w \in Worker : ApplyObservation(w)
  <2>1. CountersLead' /\ ObservationsOrdered' /\ NoMissedMove' /\ Unapplied
    BY <1>3, OtherSteps
  <2>2. EntriesNumbered' /\ OneCurrentEntry'
    BY <2>1 DEF DeliveryInv, Unapplied, EntriesNumbered, OneCurrentEntry
  <2> QED
    BY <1>1, <2>1, <2>2 DEF DeliveryInv
<1> QED
  BY <1>2, <1>3

\* The inductive invariant holds in every reachable state.
THEOREM DeliveryConsistent == Spec => []DeliveryInv
<1>1. Init => DeliveryInv
  BY DeliveryInvInit
<1>2. DeliveryInv /\ [Next]_vars => DeliveryInv'
  BY DeliveryInvNext
<1> QED
  BY <1>1, <1>2, PTL DEF Spec

--------------------------------------------------------------------------------
(***************************************************************************)
(* What it implies.                                                        *)
(***************************************************************************)

\* A finished event is reflected by the head, in whatever order the replicas of
\* processDistributionEvent read and wrote.
THEOREM NoMissedMoveHolds == Spec => []NoMissedMove
<1>1. DeliveryInv => NoMissedMove
  BY DEF DeliveryInv
<1> QED
  BY <1>1, DeliveryConsistent, PTL

\* At most one observed entry is open, and it is the stage that the head shows.
THEOREM OneCurrentEntryHolds == Spec => []OneCurrentEntry
<1>1. DeliveryInv => OneCurrentEntry
  BY DEF DeliveryInv
<1> QED
  BY <1>1, DeliveryConsistent, PTL

\* The receipt of an event names the only message that is processed for it.
THEOREM ProcessedOnceHolds == Spec => []ProcessedOnce
<1>1. ASSUME DeliveryInv
      PROVE  ProcessedOnce
  <2>1. \A m \in Message : Done(m) => receipt[EventOf[m]] = m
    <3>1. \A m \in Message : Done(m) => inbox[m] # "absent" /\ why[m] # "duplicate_business_event"
      BY <1>1 DEF DeliveryInv, InboxConsistent, Done
    <3> QED
      BY <1>1, <3>1 DEF DeliveryInv, InboxConsistent
  <2> QED
    BY <2>1 DEF ProcessedOnce
<1> QED
  BY <1>1, DeliveryConsistent, PTL

\* The head never returns to an older observation.
THEOREM HeadMonotoneHolds == Spec => HeadMonotone
<1>1. ASSUME DeliveryInv, [Next]_vars
      PROVE  [headVersion <= headVersion' /\ appliedGen <= appliedGen' /\ headRev <= headRev'
              /\ sequence <= sequence']_vars
  <2>1. CASE \E w \in Worker : ApplyObservation(w)
    BY <1>1, <2>1, ObservationApplied, EntriesApplied
  <2>2. CASE ~ \E w \in Worker : ApplyObservation(w)
    <3>1. UNCHANGED <<sequence, appliedGen, headRev, headVersion>>
      BY <1>1, <2>2, OtherSteps DEF Unapplied
    <3>2. headVersion \in Int /\ appliedGen \in Int /\ headRev \in Int /\ sequence \in Int
      BY <1>1 DEF DeliveryInv, DeliveryTypeOK, HeadType
    <3> QED
      BY <3>1, <3>2
  <2> QED
    BY <2>1, <2>2
<1> QED
  BY <1>1, DeliveryConsistent, PTL DEF Spec, HeadMonotone

\* A row that has ended is not written again.
LEMMA EndedStays ==
    ASSUME DeliveryInv, [Next]_vars, NEW m \in Message, inbox[m] \in {"applied", "ignored"}
    PROVE  inbox'[m] = inbox[m] /\ why'[m] = why[m]
<1>0. InboxType /\ InboxConsistent
  BY DEF DeliveryInv, DeliveryTypeOK
<1>1. CASE UNCHANGED <<inbox, why>>
  BY <1>1
<1>2. ASSUME NEW n \in Message, ReceiveDelivery(n)
      PROVE  inbox'[m] = inbox[m] /\ why'[m] = why[m]
  <2>1. m # n
    BY <1>2 DEF ReceiveDelivery
  <2>2. /\ inbox' = [inbox EXCEPT ![n] = "pending"] \/ inbox' = [inbox EXCEPT ![n] = "ignored"]
        /\ why' = why \/ why' = [why EXCEPT ![n] = "duplicate_business_event"]
    BY <1>2 DEF ReceiveDelivery
  <2> QED
    BY <1>0, <2>1, <2>2 DEF InboxType
<1>3. ASSUME NEW w \in Worker, NEW n \in Message, ClaimDistributionDelivery(w, n)
      PROVE  inbox'[m] = inbox[m] /\ why'[m] = why[m]
  <2>1. m # n /\ inbox' = [inbox EXCEPT ![n] = "processing"] /\ why' = why
    BY <1>3 DEF ClaimDistributionDelivery
  <2> QED
    BY <1>0, <2>1 DEF InboxType
<1>4. ASSUME NEW w \in Worker, LeaseLost(w) \/ PassFails(w)
      PROVE  inbox'[m] = inbox[m] /\ why'[m] = why[m]
  <2>1. pc[w] # "idle" /\ Fail(w)
    BY <1>4 DEF LeaseLost, PassFails
  <2>2. row[w] \in Message
    BY <2>1, InPass
  <2>3. CASE token[row[w]] = w
    <3>1. inbox[row[w]] = "processing"
      BY <1>0, <2>2, <2>3, DeliveryAssumption DEF InboxConsistent
    <3>2. m # row[w] /\ inbox' = [inbox EXCEPT ![row[w]] = "pending"] /\ why' = why
      BY <2>1, <2>3, <3>1 DEF Fail
    <3> QED
      BY <1>0, <3>2 DEF InboxType
  <2>4. CASE token[row[w]] # w
    BY <2>1, <2>4 DEF Fail
  <2> QED
    BY <2>3, <2>4
<1>5. ASSUME NEW w \in Worker,
             BeginHistorical(w) \/ ApplyHistorical(w) \/ ApplyStale(w) \/ ApplyObservation(w)
      PROVE  inbox'[m] = inbox[m] /\ why'[m] = why[m]
  <2>1. PICK end, reason : LeaseLocked(w) /\ Finish(w, end, reason)
    BY <1>5 DEF BeginHistorical, ApplyHistorical, ApplyStale, ApplyObservation
  <2>2. m # row[w]
    BY <2>1 DEF LeaseLocked
  <2> QED
    BY <1>0, <2>1, <2>2 DEF Finish, InboxType
<1>6. ASSUME NEW e \in Event, NEW s \in Stage \cup {Gone}, CrmEvent(e, s)
      PROVE  UNCHANGED <<inbox, why>>
  BY <1>6 DEF CrmEvent, inboxVars
<1>7. CASE LinkDistributionConnection \/ ActivateDistributionBinding \/ RevokeDistributionConnection
  BY <1>7 DEF LinkDistributionConnection, ActivateDistributionBinding,
              RevokeDistributionConnection, inboxVars
<1>8. ASSUME NEW n \in Message, LeaseExpires(n)
      PROVE  UNCHANGED <<inbox, why>>
  BY <1>8 DEF LeaseExpires
<1>9. ASSUME NEW w \in Worker, BeginObservation(w) \/ ReadLead(w) \/ Crash(w)
      PROVE  UNCHANGED <<inbox, why>>
  BY <1>9 DEF BeginObservation, ReadLead, Crash, inboxVars
<1>10. CASE UNCHANGED vars
  BY <1>10 DEF vars, inboxVars
<1> QED
  BY <1>1, <1>2, <1>3, <1>4, <1>5, <1>6, <1>7, <1>8, <1>9, <1>10 DEF Next, PassNext

\* A done delivery is done for good: no late worker takes or rewrites its row.
THEOREM FinalOnceHolds == Spec => FinalOnce
<1>1. ASSUME DeliveryInv, DeliveryInv', [Next]_vars
      PROVE  [\A m \in Message : Done(m) => Done(m)' /\ token'[m] = NoWorker]_vars
  <2>1. SUFFICES ASSUME NEW m \in Message, Done(m)
                 PROVE  Done(m)' /\ token'[m] = NoWorker
    OBVIOUS
  <2>2. inbox[m] \in {"applied", "ignored"}
    BY <1>1, <2>1 DEF DeliveryInv, InboxConsistent, Done
  <2>3. inbox'[m] = inbox[m] /\ why'[m] = why[m]
    BY <1>1, <2>2, EndedStays
  <2>4. token'[m] = NoWorker
    BY <1>1, <2>2, <2>3 DEF DeliveryInv, InboxConsistent
  <2> QED
    BY <2>1, <2>3, <2>4 DEF Done
<1> QED
  BY <1>1, DeliveryConsistent, PTL DEF Spec, FinalOnce

--------------------------------------------------------------------------------
(***************************************************************************)
(* Refinement.                                                             *)
(***************************************************************************)

\* Each step of the entries is one that the assignment queue expects.
LEMMA EntriesStep ==
    ASSUME DeliveryInv, [Next]_vars
    PROVE  Entries!Next \/ UNCHANGED entry
<1>1. CASE ~ \E w \in Worker : ApplyObservation(w)
  BY <1>1, OtherSteps DEF Unapplied
<1>2. ASSUME NEW w \in Worker, ApplyObservation(w)
      PROVE  Entries!Next \/ UNCHANGED entry
  <2>1. PICK a \in BOOLEAN : Opens(w, a) \/ Closes(w, a) \/ Stays(w, a)
    BY <1>2, ObservationCases
  <2>2. /\ OneCurrentEntry /\ EntriesNumbered
        /\ entry \in [EntryId -> EntryState] /\ current \in Nat /\ sequence \in Nat
    BY DEF DeliveryInv, DeliveryTypeOK, HeadType
  <2>3. \A i \in EntryId : i # current => entry[i] \in {"unseen", "cancelled"}
    BY <2>2 DEF OneCurrentEntry
  <2>4. CASE Opens(w, a)
    <3>1. PICK st \in {"checking", "unproven"} :
            entry' = [Leave(current, a, TRUE) EXCEPT ![sequence + 1] = st]
      BY <2>4 DEF Opens
    <3>2. sequence + 1 \in EntryId /\ entry[sequence + 1] = "unseen"
      BY <2>2, <2>4 DEF Opens, EntriesNumbered
    <3>3. \A i \in EntryId :
            Leave(current, a, TRUE)[i] = IF entry[i] # "unseen" THEN "cancelled" ELSE "unseen"
      BY <2>2, <2>3 DEF Leave, OneCurrentEntry
    <3>4. Leave(current, a, TRUE)
            = [i \in EntryId |-> IF entry[i] # "unseen" THEN "cancelled" ELSE "unseen"]
      BY <3>3 DEF Leave
    <3>5. entry' = [i \in EntryId |->
                        IF i = sequence + 1 THEN st
                        ELSE IF entry[i] # "unseen" THEN "cancelled" ELSE "unseen"]
      BY <3>1, <3>4
    <3>6. Entries!EntryObserved(sequence + 1, st)
      BY <3>2, <3>5 DEF Entries!EntryObserved
    <3> QED
      BY <3>2, <3>6 DEF Entries!Next
  <2>5. CASE Closes(w, a) /\ current \in EntryId
    <3>1. entry[current] \notin {"unseen", "cancelled"}
      BY <2>2, <2>5 DEF OneCurrentEntry
    <3>2. entry' = [entry EXCEPT ![current] = "cancelled"]
      BY <2>2, <2>5 DEF Closes, Leave
    <3>3. Entries!CancelDistributionObservedEntry(current)
      BY <3>1, <3>2 DEF Entries!CancelDistributionObservedEntry
    <3> QED
      BY <2>5, <3>3 DEF Entries!Next
  <2>6. CASE Stays(w, a) /\ current \in EntryId /\ a
    <3>1. entry[current] \in {"checking", "unproven", "ambiguous"}
      BY <2>2, <2>6 DEF OneCurrentEntry, EntryState
    <3>2. entry' = [entry EXCEPT ![current] = "ambiguous"]
      BY <2>2, <2>6, <3>1 DEF Stays, Leave
    <3>3. CASE entry[current] = "ambiguous"
      BY <2>2, <3>2, <3>3
    <3>4. CASE entry[current] # "ambiguous"
      <4>1. Entries!PauseDistributionObservedEntry(current)
        BY <3>1, <3>2, <3>4 DEF Entries!PauseDistributionObservedEntry
      <4> QED
        BY <2>6, <4>1 DEF Entries!Next
    <3> QED
      BY <3>3, <3>4
  <2>7. CASE Closes(w, a) /\ current \notin EntryId
    BY <2>2, <2>7 DEF Closes, Leave
  <2>8. CASE Stays(w, a) /\ (current \notin EntryId \/ ~a)
    BY <2>2, <2>8 DEF Stays, Leave
  <2> QED
    BY <2>1, <2>4, <2>5, <2>6, <2>7, <2>8
<1> QED
  BY <1>1, <1>2

\* The delivery of CRM events implements the entries that the queue relies on.
THEOREM EntriesImplemented == Spec => ImplementsEntries
<1>1. Init => Entries!Init
  BY DEF Init, Entries!Init
<1>2. DeliveryInv /\ [Next]_vars => [Entries!Next]_entry
  BY EntriesStep
<1> QED
  BY <1>1, <1>2, DeliveryConsistent, PTL DEF Spec, ImplementsEntries, Entries!Spec
================================================================================
