---------------------------- MODULE OutboxProofs ----------------------------
(***************************************************************************)
(* Proof that the delivery engine implements Outbox with Exact = FALSE:    *)
(* it delivers at least once, for any number of messages, deliveries,      *)
(* workers and API requests and any number of faults.                      *)
(***************************************************************************)
EXTENDS DeliveryProofs

-----------------------------------------------------------------------------
(* Nothing acts on a delivery that was not accepted: jobs, sessions and the *)
(* status of a message all presuppose the rows of the push.                 *)

Born(d) == row[d].status # "ABSENT"

MessageBorn == \A d \in Deliveries : Born(d) => msg[MessageOf[d]] # "ABSENT"

JobBorn ==
  \A d \in Deliveries : ready[d] > 0 \/ deferred[d] > 0 \/ d \in posting => Born(d)

BatchBorn == \A s \in Sessions : \A d \in batch[s] : Born(d)

VerdictBorn ==
  \A s \in Sessions : verdict[s].of # {} => verdict[s].now # "ABSENT"

Births == MessageBorn /\ JobBorn /\ BatchBorn /\ VerdictBorn

\* No row is inserted or lost.
SameRows == \A d \in Deliveries : Born(d)' <=> Born(d)

\* The rows a session gives back are rows of accepted deliveries.
LEMMA ConcreteRows ==
  ASSUME NEW r \in Row, NEW result
  PROVE  /\ MarkSending(r).status = "SENDING"
         /\ Attempted(result, r).status \in {"SUCCESS", "RETRYING", "DEAD_LETTER"}
         /\ Limited(r).status = "RETRYING"
         /\ Requeued(r).status = "QUEUED"
         /\ Repaired(r).status = "QUEUED"
<1> USE DEF Row
<1>1. MarkSending(r).status = "SENDING"
  BY DEF MarkSending
<1>2. Attempted(result, r).status \in {"SUCCESS", "RETRYING", "DEAD_LETTER"}
  BY DEF Attempted, Succeeded, Rescheduled, DeadLettered
<1>3. Limited(r).status = "RETRYING"
  BY DEF Limited
<1>4. Requeued(r).status = "QUEUED"
  BY DEF Requeued
<1>5. Repaired(r).status = "QUEUED"
  BY DEF Repaired
<1> QED
  BY <1>1, <1>2, <1>3, <1>4, <1>5

\* A commit of accepted deliveries inserts and loses no row.
LEMMA SaveKeepsRows ==
  ASSUME TypeOK, BatchBorn, NEW s \in Sessions, NEW new,
         DOMAIN new \subseteq batch[s],
         \A d \in DOMAIN new : new[d].status # "ABSENT",
         Save(s, new)
  PROVE  SameRows
<1>1. \A d \in DOMAIN new : Born(d)
  BY DEF BatchBorn
<1>2. \A d \in DOMAIN new : Written(row[d], mem[s][d], new[d]).status # "ABSENT"
  BY <1>1 DEF Written, Column, Born
<1> QED
  BY <1>1, <1>2 DEF Save, SameRows, Born

\* A step that inserts no row keeps what presupposes the rows in order.
LEMMA BirthsKept ==
  ASSUME TypeOK, Births, SameRows,
         \A m \in Messages : msg[m] # "ABSENT" => msg'[m] # "ABSENT",
         \A d \in Deliveries :
           ready'[d] > 0 \/ deferred'[d] > 0 \/ d \in posting' => Born(d),
         \A s \in Sessions : \A d \in batch'[s] : d \in Deliveries /\ Born(d),
         \A s \in Sessions : verdict'[s].of # {} => verdict'[s].now # "ABSENT"
  PROVE  Births'
<1>1. MessageBorn'
  BY DeliveryAssumption DEF Births, MessageBorn, SameRows
<1>2. JobBorn'
  BY DEF JobBorn, SameRows
<1>3. BatchBorn'
  BY DEF BatchBorn, SameRows
<1>4. VerdictBorn'
  BY DEF VerdictBorn
<1> QED
  BY <1>1, <1>2, <1>3, <1>4 DEF Births

\* Every step acts on accepted deliveries only.
LEMMA BirthsStep == IInv /\ Births /\ [Next]_vars => Births'
<1> SUFFICES ASSUME IInv, Births, [Next]_vars PROVE Births'
  OBVIOUS
<1> USE DEF dbVars, queueVars, sessionVars, histVars
<1>0. TypeOK /\ MessageBorn /\ JobBorn /\ BatchBorn /\ VerdictBorn
  BY DEF IInv, Births
<1>a. Workers \subseteq Sessions /\ Apis \subseteq Sessions /\ Repair \in Sessions
  BY DEF Sessions
<1>b. UNCHANGED row => SameRows
  BY DEF SameRows, Born
<1>t. /\ \A s \in Sessions : batch[s] \subseteq Deliveries
      /\ \A d \in Deliveries : ready[d] \in Nat /\ deferred[d] \in Nat
      /\ \A s \in Sessions, d \in Deliveries : mem[s][d] \in Row
  BY <1>0 DEF TypeOK
\* Queues of a step that enqueues at most a delivery at hand.
<1>j. ASSUME NEW s \in Sessions,
             ready' = ready \/ \E d \in batch[s] : Enqueue(d),
             deferred' = deferred \/ \E d \in batch[s] : EnqueueLater(d),
             posting' \subseteq posting
      PROVE  \A d \in Deliveries :
               ready'[d] > 0 \/ deferred'[d] > 0 \/ d \in posting' => Born(d)
  BY <1>0, <1>t, <1>j DEF Enqueue, EnqueueLater, JobBorn, BatchBorn, TypeOK
\* Sessions of a step in which s keeps, shortens or drops its batch.
<1>k. ASSUME NEW s \in Sessions,
             \/ batch' = batch
             \/ \E D \in SUBSET batch[s] : batch' = [batch EXCEPT ![s] = D]
      PROVE  \A r \in Sessions : \A d \in batch'[r] : d \in Deliveries /\ Born(d)
  BY <1>0, <1>t, <1>k DEF BatchBorn, TypeOK
<1>v. ASSUME NEW s \in Sessions,
             verdict' = verdict \/ verdict' = [verdict EXCEPT ![s] = NoVerdict]
      PROVE  \A r \in Sessions : verdict'[r].of # {} => verdict'[r].now # "ABSENT"
  BY <1>0, <1>v DEF VerdictBorn, NoVerdict, TypeOK
\* Steps that write the status a session decided on.
<1>m. ASSUME NEW s \in Sessions, CommitStatus(s)
      PROVE  \A m \in Messages : msg[m] # "ABSENT" => msg'[m] # "ABSENT"
  BY <1>0, <1>m DEF CommitStatus, Column, VerdictBorn
\* Steps of s that write no status.
<1>c. ASSUME NEW s \in Sessions, SameRows, UNCHANGED msg,
             ready' = ready \/ \E d \in batch[s] : Enqueue(d),
             deferred' = deferred \/ \E d \in batch[s] : EnqueueLater(d),
             posting' \subseteq posting,
             \/ batch' = batch
             \/ \E D \in SUBSET batch[s] : batch' = [batch EXCEPT ![s] = D],
             verdict' = verdict \/ verdict' = [verdict EXCEPT ![s] = NoVerdict]
      PROVE  Births'
  BY <1>0, <1>c, <1>j, <1>k, <1>v, BirthsKept
\* Steps in which s loads the rows of accepted deliveries.
<1>l. ASSUME NEW s \in Sessions, NEW D \in SUBSET Deliveries, NEW status,
             LoadRows(s, D, status), \A d \in D : Born(d), UNCHANGED dbVars,
             \A d \in Deliveries :
               ready'[d] > 0 \/ deferred'[d] > 0 \/ d \in posting' => Born(d)
      PROVE  Births'
  <2>1. \A r \in Sessions : \A d \in batch'[r] : d \in Deliveries /\ Born(d)
    BY <1>0, <1>t, <1>l DEF LoadRows, BatchBorn, TypeOK
  <2>2. \A r \in Sessions : verdict'[r].of # {} => verdict'[r].now # "ABSENT"
    BY <1>0, <1>l DEF LoadRows, VerdictBorn
  <2> QED
    BY <1>0, <1>b, <1>l, <2>1, <2>2, BirthsKept
<1>1. ASSUME NEW m \in Messages, Accept(m) PROVE Births'
  <2>1. \A d \in Deliveries : Born(d)' <=> MessageOf[d] = m \/ Born(d)
    BY <1>1 DEF Accept, Born, NoRow
  <2>2. MessageBorn'
    BY <1>0, <1>1, <2>1, DeliveryAssumption DEF Accept, MessageBorn, TypeOK
  <2>3. JobBorn' /\ BatchBorn' /\ VerdictBorn'
    BY <1>0, <1>1, <1>t, <2>1
    DEF Accept, JobBorn, BatchBorn, VerdictBorn, DeliveriesOf
  <2> QED
    BY <2>2, <2>3 DEF Births
<1>2. ASSUME NEW d \in Deliveries, PostJob(d) PROVE Births'
  <2>1. \A e \in Deliveries :
          ready'[e] > 0 \/ deferred'[e] > 0 \/ e \in posting' => Born(e)
    BY <1>0, <1>2, <1>t DEF PostJob, Enqueue, JobBorn, TypeOK
  <2> QED
    BY <1>0, <1>2, <1>a, <1>b, <1>k, <1>v, <2>1, BirthsKept DEF PostJob
<1>3. ASSUME NEW m \in Messages, PostFails(m) PROVE Births'
  BY <1>3, <1>a, <1>b, <1>c DEF PostFails
<1>4. ASSUME NEW w \in Workers, NEW d \in Deliveries, Load(w, d) PROVE Births'
  <2>1. \A e \in Deliveries :
          ready'[e] > 0 \/ deferred'[e] > 0 \/ e \in posting' => Born(e)
    BY <1>0, <1>4, <1>t DEF Load, JobBorn, TypeOK
  <2>2. \A e \in {d} : Born(e)
    BY <1>0, <1>4 DEF Load, JobBorn
  <2> QED
    BY <1>4, <1>a, <1>l, <2>1, <2>2 DEF Load
<1>5. ASSUME NEW w \in Workers, Skip(w) PROVE Births'
  BY <1>5, <1>a, <1>b, <1>c DEF Skip
<1>6. ASSUME NEW w \in Workers, NEW d \in Deliveries, Reject(w, d) PROVE Births'
  <2>1. SameRows
    BY <1>0, <1>6, <1>a, <1>t, ConcreteRows, SaveKeepsRows DEF Reject, Deliverable
  <2> QED
    BY <1>6, <1>a, <1>c, <2>1 DEF Reject
<1>7. ASSUME NEW w \in Workers, NEW d \in Deliveries, DeferForLimit(w, d) PROVE Births'
  <2>1. SameRows
    BY <1>0, <1>7, <1>a, <1>t, ConcreteRows, SaveKeepsRows DEF DeferForLimit, Deliverable
  <2> QED
    BY <1>7, <1>a, <1>c, <2>1 DEF DeferForLimit
<1>8. ASSUME NEW w \in Workers, NEW d \in Deliveries, EnqueueDeferred(w, d) PROVE Births'
  BY <1>8, <1>a, <1>b, <1>c DEF EnqueueDeferred
<1>9. ASSUME NEW w \in Workers, NEW d \in Deliveries, StartSending(w, d) PROVE Births'
  <2>1. SameRows
    BY <1>0, <1>9, <1>a, <1>t, ConcreteRows, SaveKeepsRows DEF StartSending, Deliverable
  <2> QED
    BY <1>9, <1>a, <1>c, <2>1 DEF StartSending
<1>10. ASSUME NEW w \in Workers, NEW d \in Deliveries, Answer(w, d) PROVE Births'
  BY <1>10, <1>a, <1>b, <1>c DEF Answer
<1>11. ASSUME NEW w \in Workers, NEW d \in Deliveries, RecordAttempt(w, d) PROVE Births'
  <2>1. Attempted(outcome[w], mem[w][d]).status # "ABSENT"
    BY <1>a, <1>t, ConcreteRows
  <2>2. SameRows
    BY <1>0, <1>11, <1>a, <2>1, SaveKeepsRows DEF RecordAttempt
  <2> QED
    BY <1>11, <1>a, <1>c, <2>2 DEF RecordAttempt
<1>12. ASSUME NEW w \in Workers, NEW d \in Deliveries, Reschedule(w, d) PROVE Births'
  BY <1>12, <1>a, <1>b, <1>c DEF Reschedule
<1>13. ASSUME NEW w \in Workers, Finish(w) PROVE Births'
  BY <1>13, <1>a, <1>b, <1>c DEF Finish, Forget
<1>14. ASSUME NEW w \in Workers, Crash(w) PROVE Births'
  <2>1. \A d \in Deliveries :
          ready'[d] > 0 \/ deferred'[d] > 0 \/ d \in posting' => Born(d)
    BY <1>0, <1>14, <1>a, <1>t DEF Crash, JobBorn, BatchBorn, TypeOK
  <2> QED
    BY <1>0, <1>14, <1>a, <1>b, <1>k, <1>v, <2>1, BirthsKept DEF Crash, Forget
<1>15. ASSUME NEW w \in Workers, JobFails(w) PROVE Births'
  BY <1>15, <1>a, <1>b, <1>c DEF JobFails, Forget
<1>16. ASSUME NEW s \in Sessions, NEW m \in Messages, ReadStatus(s, m) PROVE Births'
  <2>1. Aggregate(StatusesSeen(s, m)) # "ABSENT"
    BY DEF Aggregate
  <2>2. \A r \in Sessions : verdict'[r].of # {} => verdict'[r].now # "ABSENT"
    BY <1>0, <1>16, <2>1 DEF ReadStatus, VerdictBorn, TypeOK
  <2> QED
    BY <1>0, <1>16, <1>b, <1>j, <1>k, <2>2, BirthsKept DEF ReadStatus
<1>17. ASSUME NEW w \in Workers, NEW d \in Deliveries, WriteStatus(w, d) PROVE Births'
  BY <1>0, <1>17, <1>a, <1>b, <1>j, <1>k, <1>m, <1>v, BirthsKept DEF WriteStatus
<1>18. ASSUME NEW a \in Apis, NEW d \in Deliveries, RetryLoad(a, d) PROVE Births'
  <2>1. \A e \in {d} : Born(e)
    BY <1>18 DEF RetryLoad, Failed, Born
  <2> QED
    BY <1>0, <1>18, <1>a, <1>l, <2>1 DEF RetryLoad, JobBorn
<1>19. ASSUME NEW a \in Apis, NEW d \in Deliveries, RetryCommit(a, d) PROVE Births'
  <2>1. Requeued(mem[a][d]).status # "ABSENT"
    BY <1>a, <1>t, ConcreteRows
  <2>2. SameRows
    BY <1>0, <1>19, <1>a, <2>1, SaveKeepsRows DEF RetryCommit
  <2> QED
    BY <1>19, <1>a, <1>c, <2>2 DEF RetryCommit
<1>20. ASSUME NEW a \in Apis, RetryWriteStatus(a) PROVE Births'
  BY <1>0, <1>20, <1>a, <1>b, <1>j, <1>k, <1>m, <1>v, BirthsKept DEF RetryWriteStatus
<1>21. ASSUME NEW a \in Apis, NEW d \in Deliveries, RetryEnqueue(a, d) PROVE Births'
  BY <1>21, <1>a, <1>b, <1>c DEF RetryEnqueue, Forget
<1>22. ASSUME NEW a \in Apis, ApiFails(a) PROVE Births'
  BY <1>22, <1>a, <1>b, <1>c DEF ApiFails, Forget
<1>23. ASSUME NEW D \in SUBSET Deliveries, RepairLoad(D) PROVE Births'
  <2>1. \A d \in D : Born(d)
    BY <1>23 DEF RepairLoad, Stale, Born
  <2> QED
    BY <1>0, <1>23, <1>a, <1>l, <2>1 DEF RepairLoad, JobBorn
<1>24. CASE RepairCommit
  <2>1. \A d \in batch[Repair] : Repaired(mem[Repair][d]).status # "ABSENT"
    BY <1>a, <1>t, ConcreteRows
  <2>2. SameRows
    BY <1>0, <1>24, <1>a, <2>1, SaveKeepsRows DEF RepairCommit
  <2> QED
    BY <1>24, <1>a, <1>c, <2>2 DEF RepairCommit
<1>25. ASSUME NEW d \in Deliveries, RepairEnqueue(d) PROVE Births'
  <2>1. batch[Repair] \ {d} \in SUBSET batch[Repair]
    OBVIOUS
  <2> QED
    BY <1>25, <1>a, <1>b, <1>c, <2>1 DEF RepairEnqueue
<1>26. CASE RepairWriteStatus
  BY <1>0, <1>26, <1>a, <1>b, <1>j, <1>k, <1>m, <1>v, BirthsKept
  DEF RepairWriteStatus, Forget
<1>27. CASE RepairFails
  BY <1>27, <1>a, <1>b, <1>c DEF RepairFails, Forget
<1>28. ASSUME NEW d \in Deliveries, RetryDue(d) PROVE Births'
  <2>1. SameRows
    BY <1>0, <1>28 DEF RetryDue, SameRows, Born, TypeOK, Row
  <2>2. \A e \in Deliveries :
          ready'[e] > 0 \/ deferred'[e] > 0 \/ e \in posting' => Born(e)
    BY <1>0, <1>28, <1>t DEF RetryDue, JobBorn, TypeOK
  <2> QED
    BY <1>0, <1>28, <1>a, <1>k, <1>v, <2>1, <2>2, BirthsKept DEF RetryDue
<1>29. CASE StaleElapses
  <2>1. ASSUME NEW r \in Row
        PROVE  [r EXCEPT !.updated = Aged(@), !.started = Aged(@)].status = r.status
    BY <2>1 DEF Row
  <2>2. SameRows
    BY <1>0, <1>29, <2>1 DEF StaleElapses, SameRows, Born, TypeOK
  <2> QED
    BY <1>29, <1>a, <1>c, <2>2 DEF StaleElapses
<1>30. CASE UNCHANGED vars
  BY <1>30, <1>a, <1>b, <1>c DEF vars
<1> QED
  BY <1>1, <1>2, <1>3, <1>4, <1>5, <1>6, <1>7, <1>8, <1>9, <1>10, <1>11, <1>12, <1>13,
     <1>14, <1>15, <1>16, <1>17, <1>18, <1>19, <1>20, <1>21, <1>22, <1>23, <1>24, <1>25,
     <1>26, <1>27, <1>28, <1>29, <1>30
     DEF Next, PostNext, WorkerNext, ApiNext, RepairNext, TimeNext, FaultNext, Sessions

\* At the start nothing is accepted and nobody works.
LEMMA BirthsInit == Init => Births
BY DEF Init, Births, MessageBorn, JobBorn, BatchBorn, VerdictBorn, Born, NoRow, NoVerdict

\* Nobody ever works on a delivery that was not accepted.
LEMMA BirthsAlways == Spec => []Births
<1>1. IInv /\ Births /\ [Next]_vars => Births'
  BY BirthsStep
<1> QED
  BY BirthsInit, InvAlways, <1>1, PTL DEF Spec

-----------------------------------------------------------------------------
(* Every step of the engine is a step of Outbox or none.  A row written by  *)
(* one session over the work of another still claims only what happened     *)
(* (RowsClaim), which is all that Outbox asks of Deliver and GiveUp.        *)

Mapped == [AtLeastOnce!Next]_(AtLeastOnce!vars)

\* A step that changes no status and records nothing is invisible.
LEMMA Invisible ==
  ASSUME \A d \in Deliveries : row'[d].status = row[d].status, UNCHANGED histVars
  PROVE  Mapped
<1>1. State' = State
  BY DEF State
<1> QED
  BY <1>1 DEF Mapped, histVars, AtLeastOnce!vars

\* A commit of one accepted delivery delivers it, gives it up or reopens it.
LEMMA OneRowMapped ==
  ASSUME TypeOK, TypeOK', RowsClaim', UNCHANGED histVars,
         NEW d \in Deliveries, Born(d), Born(d)',
         \A e \in Deliveries \ {d} : row'[e] = row[e]
  PROVE  Mapped
<1> USE DEF histVars
<1>1. State[d] # "absent" /\ AtLeastOnce!Open(d)
  BY DEF AtLeastOnce!Open, State, Born
<1>2. \A e \in Deliveries \ {d} : State'[e] = State[e]
  BY DEF State
<1>3. Claim(row'[d], d, tries[d], acks[d], refused)
  BY DEF RowsClaim
<1>4. CASE row'[d].status = "SUCCESS"
  <2>0. State'[d] = "delivered"
    BY <1>4 DEF State
  <2>1. State' = [State EXCEPT ![d] = "delivered"]
    BY <1>2, <2>0 DEF State
  <2>2. acks[d] > 0
    BY <1>3, <1>4 DEF Claim
  <2> QED
    BY <1>1, <2>1, <2>2 DEF Mapped, AtLeastOnce!Next, AtLeastOnce!Deliver
<1>5. CASE row'[d].status = "DEAD_LETTER"
  <2>0. State'[d] = "given up"
    BY <1>5 DEF State
  <2>1. State' = [State EXCEPT ![d] = "given up"]
    BY <1>2, <2>0 DEF State
  <2>2. d \in refused \/ tries[d] > NumDelays
    BY <1>3, <1>5 DEF Claim
  <2> QED
    BY <1>1, <2>1, <2>2 DEF Mapped, AtLeastOnce!Next, AtLeastOnce!GiveUp
<1>6. CASE row'[d].status \notin Final
  <2>1. State'[d] = "open"
    BY <1>6 DEF State, Born, Final
  <2>2. State' = [e \in Deliveries |-> IF e \in {d} THEN "open" ELSE State[e]]
    BY <1>2, <2>1 DEF State
  <2>3. AtLeastOnce!Reopen({d})
    BY <1>1, <2>2 DEF AtLeastOnce!Reopen
  <2> QED
    BY <2>3 DEF Mapped, AtLeastOnce!Next
<1> QED
  BY <1>4, <1>5, <1>6 DEF Final

\* A session's commit of its one delivery is such a step.
LEMMA SaveMapped ==
  ASSUME TypeOK, TypeOK', RowsClaim', UNCHANGED histVars, BatchBorn,
         NEW s \in Sessions, NEW d \in batch[s], NEW new, DOMAIN new = {d},
         new[d].status # "ABSENT", Save(s, new)
  PROVE  Mapped
<1>1. d \in Deliveries /\ Born(d)
  BY DEF TypeOK, BatchBorn
<1>2. Born(d)'
  BY <1>1, SaveKeepsRows DEF SameRows
<1>3. \A e \in Deliveries \ {d} : row'[e] = row[e]
  BY DEF Save
<1> QED
  BY <1>1, <1>2, <1>3, OneRowMapped

\* The initial states are initial states of Outbox.
LEMMA OutboxInit == Init => AtLeastOnce!Init
BY DEF Init, AtLeastOnce!Init, State, NoRow

\* Every step is a step of Outbox or changes nothing that Outbox sees.
LEMMA OutboxStep == IInv /\ IInv' /\ Births /\ [Next]_vars => Mapped
<1> SUFFICES ASSUME IInv, IInv', Births, [Next]_vars PROVE Mapped
  OBVIOUS
<1> USE DEF dbVars, queueVars, sessionVars, histVars
<1>0. TypeOK /\ TypeOK' /\ RowsClaim' /\ MessageBorn /\ BatchBorn
  BY DEF IInv, Births
<1>a. Workers \subseteq Sessions /\ Apis \subseteq Sessions /\ Repair \in Sessions
  BY DEF Sessions
<1>t. /\ \A s \in Sessions : batch[s] \subseteq Deliveries
      /\ \A s \in Sessions, d \in Deliveries : mem[s][d] \in Row
  BY <1>0 DEF TypeOK
<1>b. UNCHANGED <<row, histVars>> => Mapped
  BY Invisible
<1>1. ASSUME NEW m \in Messages, Accept(m) PROVE Mapped
  <2>1. \A d \in Deliveries : MessageOf[d] = m => State[d] = "absent"
    BY <1>0, <1>1 DEF Accept, MessageBorn, Born, State
  <2>2. State' = [d \in Deliveries |-> IF MessageOf[d] = m THEN "open" ELSE State[d]]
    BY <1>1 DEF Accept, State, NoRow
  <2>3. AtLeastOnce!Accept(m)
    BY <1>1, <2>1, <2>2 DEF Accept, AtLeastOnce!Accept
  <2> QED
    BY <2>3 DEF Mapped, AtLeastOnce!Next
<1>2. ASSUME NEW d \in Deliveries, PostJob(d) PROVE Mapped
  BY <1>2, <1>b DEF PostJob
<1>3. ASSUME NEW m \in Messages, PostFails(m) PROVE Mapped
  BY <1>3, <1>b DEF PostFails
<1>4. ASSUME NEW w \in Workers, NEW d \in Deliveries, Load(w, d) PROVE Mapped
  BY <1>4, <1>b DEF Load
<1>5. ASSUME NEW w \in Workers, Skip(w) PROVE Mapped
  BY <1>5, <1>b DEF Skip
<1>6. ASSUME NEW w \in Workers, NEW d \in Deliveries, Reject(w, d) PROVE Mapped
  <2>1. d \in batch[w] /\ mem[w][d] \in Row /\ mem[w][d].status \notin Final
    BY <1>6, <1>a, <1>t DEF Reject, Deliverable
  <2>2. Attempted("permanent", mem[w][d]).status = "DEAD_LETTER"
    BY <2>1 DEF Attempted, WillRetry, DeadLettered, Row
  <2>3. /\ row'[d].status = "DEAD_LETTER"
        /\ \A e \in Deliveries \ {d} : row'[e] = row[e]
    BY <1>6, <2>1, <2>2 DEF Reject, Save, Written, Column, Final
  <2>4. State' = [State EXCEPT ![d] = "given up"]
    BY <2>3 DEF State
  <2>5. AtLeastOnce!Open(d)
    BY <1>0, <1>a, <2>1 DEF AtLeastOnce!Open, State, BatchBorn, Born
  <2>6. AtLeastOnce!Reject(d)
    BY <1>6, <2>4, <2>5 DEF Reject, AtLeastOnce!Reject
  <2> QED
    BY <2>6 DEF Mapped, AtLeastOnce!Next
<1>7. ASSUME NEW w \in Workers, NEW d \in Deliveries, DeferForLimit(w, d) PROVE Mapped
  <2>1. d \in batch[w] /\ Limited(mem[w][d]).status # "ABSENT"
    BY <1>7, <1>a, <1>t, ConcreteRows DEF DeferForLimit, Deliverable
  <2> QED
    BY <1>0, <1>7, <1>a, <2>1, SaveMapped DEF DeferForLimit
<1>8. ASSUME NEW w \in Workers, NEW d \in Deliveries, EnqueueDeferred(w, d) PROVE Mapped
  BY <1>8, <1>b DEF EnqueueDeferred
<1>9. ASSUME NEW w \in Workers, NEW d \in Deliveries, StartSending(w, d) PROVE Mapped
  <2>1. d \in batch[w] /\ MarkSending(mem[w][d]).status # "ABSENT"
    BY <1>9, <1>a, <1>t, ConcreteRows DEF StartSending, Deliverable
  <2> QED
    BY <1>0, <1>9, <1>a, <2>1, SaveMapped DEF StartSending
<1>10. ASSUME NEW w \in Workers, NEW d \in Deliveries, Answer(w, d) PROVE Mapped
  <2>1. State' = State
    BY <1>10 DEF Answer, State
  <2>2. AtLeastOnce!Open(d)
    BY <1>0, <1>10, <1>a DEF Answer, AtLeastOnce!Open, State, BatchBorn, Born
  <2>3. AtLeastOnce!Attempt(d)
    BY <1>10, <2>1, <2>2 DEF Answer, AtLeastOnce!Attempt
  <2> QED
    BY <2>3 DEF Mapped, AtLeastOnce!Next
<1>11. ASSUME NEW w \in Workers, NEW d \in Deliveries, RecordAttempt(w, d) PROVE Mapped
  <2>1. d \in batch[w] /\ Attempted(outcome[w], mem[w][d]).status # "ABSENT"
    BY <1>11, <1>a, <1>t, ConcreteRows DEF RecordAttempt
  <2> QED
    BY <1>0, <1>11, <1>a, <2>1, SaveMapped DEF RecordAttempt
<1>12. ASSUME NEW w \in Workers, NEW d \in Deliveries, Reschedule(w, d) PROVE Mapped
  BY <1>12, <1>b DEF Reschedule
<1>13. ASSUME NEW w \in Workers, Finish(w) PROVE Mapped
  BY <1>13, <1>b DEF Finish
<1>14. ASSUME NEW w \in Workers, Crash(w) PROVE Mapped
  BY <1>14, <1>b DEF Crash
<1>15. ASSUME NEW w \in Workers, JobFails(w) PROVE Mapped
  BY <1>15, <1>b DEF JobFails
<1>16. ASSUME NEW s \in Sessions, NEW m \in Messages, ReadStatus(s, m) PROVE Mapped
  BY <1>16, <1>b DEF ReadStatus
<1>17. ASSUME NEW w \in Workers, NEW d \in Deliveries, WriteStatus(w, d) PROVE Mapped
  BY <1>17, <1>b DEF WriteStatus
<1>18. ASSUME NEW a \in Apis, NEW d \in Deliveries, RetryLoad(a, d) PROVE Mapped
  BY <1>18, <1>b DEF RetryLoad
<1>19. ASSUME NEW a \in Apis, NEW d \in Deliveries, RetryCommit(a, d) PROVE Mapped
  <2>1. d \in batch[a] /\ Requeued(mem[a][d]).status # "ABSENT"
    BY <1>19, <1>a, <1>t, ConcreteRows DEF RetryCommit
  <2> QED
    BY <1>0, <1>19, <1>a, <2>1, SaveMapped DEF RetryCommit
<1>20. ASSUME NEW a \in Apis, RetryWriteStatus(a) PROVE Mapped
  BY <1>20, <1>b DEF RetryWriteStatus
<1>21. ASSUME NEW a \in Apis, NEW d \in Deliveries, RetryEnqueue(a, d) PROVE Mapped
  BY <1>21, <1>b DEF RetryEnqueue
<1>22. ASSUME NEW a \in Apis, ApiFails(a) PROVE Mapped
  BY <1>22, <1>b DEF ApiFails
<1>23. ASSUME NEW D \in SUBSET Deliveries, RepairLoad(D) PROVE Mapped
  BY <1>23, <1>b DEF RepairLoad
<1>24. CASE RepairCommit
  <2> DEFINE R == {d \in batch[Repair] : row'[d].status = "QUEUED"}
  <2>1. R \subseteq Deliveries /\ \A d \in R : State[d] # "absent"
    BY <1>0, <1>a, <1>t DEF BatchBorn, Born, State
  <2>2. \A d \in Deliveries \ R : row'[d].status = row[d].status
    BY <1>24, <1>a, <1>t, ConcreteRows DEF RepairCommit, Save, Written, Column
  <2>3. State' = [d \in Deliveries |-> IF d \in R THEN "open" ELSE State[d]]
    BY <2>1, <2>2 DEF State
  <2>4. AtLeastOnce!Reopen(R)
    BY <1>24, <2>1, <2>3 DEF RepairCommit, AtLeastOnce!Reopen
  <2> QED
    BY <2>1, <2>4 DEF Mapped, AtLeastOnce!Next
<1>25. ASSUME NEW d \in Deliveries, RepairEnqueue(d) PROVE Mapped
  BY <1>25, <1>b DEF RepairEnqueue
<1>26. CASE RepairWriteStatus
  BY <1>26, <1>b DEF RepairWriteStatus
<1>27. CASE RepairFails
  BY <1>27, <1>b DEF RepairFails
<1>28. ASSUME NEW d \in Deliveries, RetryDue(d) PROVE Mapped
  BY <1>0, <1>28, Invisible DEF RetryDue, TypeOK, Row
<1>29. CASE StaleElapses
  <2>1. ASSUME NEW r \in Row
        PROVE  [r EXCEPT !.updated = Aged(@), !.started = Aged(@)].status = r.status
    BY <2>1 DEF Row
  <2>2. \A d \in Deliveries : row'[d].status = row[d].status
    BY <1>0, <1>29, <2>1 DEF StaleElapses, TypeOK
  <2> QED
    BY <1>29, <2>2, Invisible DEF StaleElapses
<1>30. CASE UNCHANGED vars
  BY <1>30, <1>b DEF vars
<1> QED
  BY <1>1, <1>2, <1>3, <1>4, <1>5, <1>6, <1>7, <1>8, <1>9, <1>10, <1>11, <1>12, <1>13,
     <1>14, <1>15, <1>16, <1>17, <1>18, <1>19, <1>20, <1>21, <1>22, <1>23, <1>24, <1>25,
     <1>26, <1>27, <1>28, <1>29, <1>30
     DEF Next, PostNext, WorkerNext, ApiNext, RepairNext, TimeNext, FaultNext, Sessions

\* Whatever crashes, failures, overruns and overwrites happen, the engine is an
\* implementation of at-least-once delivery: it calls a delivery delivered only if
\* the provider took it, and gives it up only after a refusal or a spent schedule.
THEOREM EngineDelivers == Spec => DeliversAtLeastOnce
<1>1. IInv /\ IInv' /\ Births /\ [Next]_vars => [AtLeastOnce!Next]_(AtLeastOnce!vars)
  BY OutboxStep DEF Mapped
<1> QED
  BY OutboxInit, InvAlways, BirthsAlways, <1>1, PTL
     DEF Spec, DeliversAtLeastOnce, AtLeastOnce!Spec

=============================================================================
