-------------------------- MODULE DeliveryProofs --------------------------
(***************************************************************************)
(* Proofs about the delivery engine, for any number of messages,           *)
(* deliveries, workers and API requests, any retry schedule, any repair    *)
(* limit and any number of faults.                                         *)
(***************************************************************************)
EXTENDS Delivery, TLAPS

-----------------------------------------------------------------------------
(* The row operators. *)

\* What a session does to a row in memory yields a row.
LEMMA RowOperators ==
  ASSUME NEW r \in Row, NEW result
  PROVE  /\ MarkSending(r) \in Row
         /\ Attempted(result, r) \in Row
         /\ Limited(r) \in Row
         /\ Requeued(r) \in Row
         /\ Repaired(r) \in Row
         /\ Remembered(r) \in Row
         /\ NoRow \in Row
<1> USE DEF Row, DeliveryStatus, Active, Final, Stamp
<1>1. MarkSending(r) \in Row
  BY DEF MarkSending
<1>a. r.attempts + 1 \in Nat
  OBVIOUS
<1>2. Succeeded(r) \in Row
  BY <1>a DEF Succeeded
<1>b. Rescheduled(r) \in Row
  BY <1>a DEF Rescheduled
<1>c. DeadLettered(r) \in Row
  BY <1>a DEF DeadLettered
<1>3. Attempted(result, r) \in Row
  BY <1>2, <1>b, <1>c DEF Attempted
<1>4. Limited(r) \in Row
  BY DEF Limited
<1>5. Requeued(r) \in Row
  BY DEF Requeued
<1>6. Repaired(r) \in Row
  BY DEF Repaired
<1>7. \A t \in Stamp : Recalled(t) \in Stamp
  BY DEF Recalled
<1>8. Remembered(r) \in Row
  BY <1>7 DEF Remembered
<1>9. NoRow \in Row
  BY DEF NoRow
<1> QED
  BY <1>1, <1>3, <1>4, <1>5, <1>6, <1>8, <1>9

\* A commit merges two rows into a row, column by column.
LEMMA WrittenRow ==
  ASSUME NEW stored \in Row, NEW loaded \in Row, NEW new \in Row
  PROVE  Written(stored, loaded, new) \in Row
BY DEF Row, Written, Column, Stamp

-----------------------------------------------------------------------------
(* Type correctness. *)

SessionTypes ==
  /\ pc \in [Sessions -> PC]
  /\ batch \in [Sessions -> SUBSET Deliveries]
  /\ mem \in [Sessions -> [Deliveries -> Row]]
  /\ base \in [Sessions -> MessageStatus]
  /\ outcome \in [Sessions -> Outcome]
  /\ due \in [Sessions -> SUBSET Messages]
  /\ verdict \in [Sessions -> Verdict]

\* A commit leaves the table and the memory of the session well typed.
LEMMA SaveTypes ==
  ASSUME TypeOK, NEW s \in Sessions, NEW new, DOMAIN new \subseteq Deliveries,
         \A d \in DOMAIN new : new[d] \in Row,
         Save(s, new)
  PROVE  /\ row' \in [Deliveries -> Row]
         /\ mem' \in [Sessions -> [Deliveries -> Row]]
<1>1. \A d \in DOMAIN new : Written(row[d], mem[s][d], new[d]) \in Row
  BY WrittenRow DEF TypeOK
<1>2. \A d \in DOMAIN new : Remembered(new[d]) \in Row
  BY RowOperators
<1> QED
  BY <1>1, <1>2 DEF Save, TypeOK

\* Loading rows leaves every part of the session well typed.
LEMMA LoadTypes ==
  ASSUME TypeOK, NEW s \in Sessions, NEW D \in SUBSET Deliveries,
         NEW status \in MessageStatus, LoadRows(s, D, status)
  PROVE  SessionTypes'
<1>1. \A d \in Deliveries :
        (IF d \in D THEN Remembered(row[d]) ELSE NoRow) \in Row
  BY RowOperators DEF TypeOK
<1>2. "loaded" \in PC
  BY DEF PC
<1> QED
  BY <1>1, <1>2 DEF LoadRows, TypeOK, SessionTypes

\* A session that ends leaves well-typed blanks behind.
LEMMA ForgetTypes ==
  ASSUME TypeOK, NEW s \in Sessions, Forget(s)
  PROVE  SessionTypes'
<1>1. NoRow \in Row
  BY DEF NoRow, Row, DeliveryStatus, Stamp
<1>2. /\ "idle" \in PC
      /\ "ABSENT" \in MessageStatus
      /\ "none" \in Outcome
      /\ NoVerdict \in Verdict
  BY DEF PC, MessageStatus, Outcome, NoVerdict, Verdict
<1> QED
  BY <1>1, <1>2 DEF Forget, TypeOK, SessionTypes

\* Spending a budget stays within the bounds.
LEMMA SpendTypes ==
  ASSUME TypeOK, NEW kind \in {"faults", "limited", "retries"}, Spend(kind)
  PROVE  spent' \in Budget
<1>1. CASE kind = "faults"
  BY <1>1, DeliveryAssumption DEF Spend, TypeOK, Budget
<1>2. CASE kind = "limited"
  BY <1>2, DeliveryAssumption DEF Spend, TypeOK, Budget
<1>3. CASE kind = "retries"
  BY <1>3, DeliveryAssumption DEF Spend, TypeOK, Budget
<1> QED
  BY <1>1, <1>2, <1>3

\* Writing a message's status keeps it a message status.
LEMMA CommitStatusTypes ==
  ASSUME TypeOK, NEW s \in Sessions, CommitStatus(s)
  PROVE  msg' \in [Messages -> MessageStatus]
<1>1. verdict[s].now \in MessageStatus
  BY DEF TypeOK, Verdict
<1> QED
  BY <1>1 DEF CommitStatus, TypeOK, Column

\* A session that moves on is at one of the places of PC.
LEMMA PlaceTypes ==
  /\ \A s \in Sessions, place \in PC : pc \in [Sessions -> PC] /\ GoTo(s, place)
       => pc' \in [Sessions -> PC]
  /\ {"idle", "loaded", "sending", "answered", "deferring", "requeue", "reading",
      "writing", "rescheduling", "done"} \subseteq PC
BY DEF GoTo, PC

\* Enqueueing keeps the job counts natural numbers.
LEMMA EnqueueTypes ==
  /\ \A d \in Deliveries : ready \in [Deliveries -> Nat] /\ Enqueue(d)
       => ready' \in [Deliveries -> Nat]
  /\ \A d \in Deliveries : deferred \in [Deliveries -> Nat] /\ EnqueueLater(d)
       => deferred' \in [Deliveries -> Nat]
BY DEF Enqueue, EnqueueLater

\* Time passing keeps rows rows.
LEMMA AgedRows ==
  ASSUME NEW r \in Row
  PROVE  /\ [r EXCEPT !.retry_at = IF @ = "recent" THEN "old" ELSE @] \in Row
         /\ [r EXCEPT !.updated = Aged(@), !.started = Aged(@)] \in Row
<1>1. \A t \in Stamp : Aged(t) \in Stamp /\ (IF t = "recent" THEN "old" ELSE t) \in Stamp
  BY DEF Aged, Stamp
<1>2. /\ r.retry_at \in Stamp
      /\ r.updated \in Stamp
      /\ r.started \in Stamp
  BY DEF Row
<1>3. [r EXCEPT !.retry_at = IF @ = "recent" THEN "old" ELSE @] \in Row
  BY <1>1, <1>2 DEF Row
<1>4. [r EXCEPT !.updated = Aged(@), !.started = Aged(@)] \in Row
  BY <1>1, <1>2 DEF Row
<1> QED
  BY <1>3, <1>4

\* The initial state is well typed.
LEMMA TypeInit == Init => TypeOK
<1>1. NoRow \in Row
  BY DEF NoRow, Row, DeliveryStatus, Stamp
<1> QED
  BY <1>1, DeliveryAssumption
     DEF Init, TypeOK, PC, MessageStatus, Outcome, NoVerdict, Verdict, Budget

\* Every step of the engine keeps the state well typed.
LEMMA TypeStep == TypeOK /\ [Next]_vars => TypeOK'
<1> SUFFICES ASSUME TypeOK, [Next]_vars PROVE TypeOK'
  OBVIOUS
<1> USE DEF dbVars, queueVars, sessionVars, histVars
<1>1. ASSUME NEW m \in Messages, Accept(m) PROVE TypeOK'
  <2>1. [NoRow EXCEPT !.status = "QUEUED", !.updated = "recent"] \in Row
    BY DEF NoRow, Row, DeliveryStatus, Active, Stamp
  <2>2. DeliveriesOf(m) \subseteq Deliveries
    BY DEF DeliveriesOf
  <2> QED
    BY <1>1, <2>1, <2>2 DEF Accept, TypeOK, MessageStatus
<1>2. ASSUME NEW d \in Deliveries, PostJob(d) PROVE TypeOK'
  BY <1>2 DEF PostJob, Enqueue, TypeOK
<1>3. ASSUME NEW m \in Messages, PostFails(m) PROVE TypeOK'
  BY <1>3, SpendTypes DEF PostFails, TypeOK
<1>4. ASSUME NEW w \in Workers, NEW d \in Deliveries, Load(w, d) PROVE TypeOK'
  <2>1. msg[MessageOf[d]] \in MessageStatus
    BY DeliveryAssumption DEF TypeOK
  <2>2. SessionTypes'
    BY <1>4, <2>1, LoadTypes DEF Load, Sessions
  <2> QED
    BY <1>4, <2>2 DEF Load, TypeOK, SessionTypes
<1>5. ASSUME NEW w \in Workers, Skip(w) PROVE TypeOK'
  BY <1>5 DEF Skip, GoTo, TypeOK, PC
<1>6. ASSUME NEW w \in Workers, NEW d \in Deliveries, Reject(w, d) PROVE TypeOK'
  <2>1. Attempted("permanent", mem[w][d]) \in Row
    BY RowOperators DEF TypeOK, Sessions
  <2>2. row' \in [Deliveries -> Row] /\ mem' \in [Sessions -> [Deliveries -> Row]]
    BY <1>6, <2>1, SaveTypes DEF Reject, Sessions
  <2>3. MessageOf[d] \in Messages
    BY DeliveryAssumption
  <2>4. pc' \in [Sessions -> PC]
    BY <1>6, PlaceTypes DEF Reject, TypeOK, Sessions
  <2>5. outcome' \in [Sessions -> Outcome] /\ due' \in [Sessions -> SUBSET Messages]
    BY <1>6, <2>3 DEF Reject, TypeOK, Outcome, Sessions
  <2>6. tries' \in [Deliveries -> Nat] /\ refused' \in SUBSET Deliveries
    BY <1>6 DEF Reject, TypeOK
  <2> QED
    BY <1>6, <2>2, <2>4, <2>5, <2>6 DEF Reject, TypeOK
<1>7. ASSUME NEW w \in Workers, NEW d \in Deliveries, DeferForLimit(w, d) PROVE TypeOK'
  <2>1. Limited(mem[w][d]) \in Row
    BY RowOperators DEF TypeOK, Sessions
  <2>2. row' \in [Deliveries -> Row] /\ mem' \in [Sessions -> [Deliveries -> Row]]
    BY <1>7, <2>1, SaveTypes DEF DeferForLimit, Sessions
  <2>3. spent' \in Budget
    BY <1>7, SpendTypes DEF DeferForLimit
  <2> QED
    BY <1>7, <2>2, <2>3 DEF DeferForLimit, GoTo, TypeOK, PC, Outcome
<1>8. ASSUME NEW w \in Workers, NEW d \in Deliveries, EnqueueDeferred(w, d) PROVE TypeOK'
  <2>1. MessageOf[d] \in Messages
    BY DeliveryAssumption
  <2> QED
    BY <1>8, <2>1, PlaceTypes, EnqueueTypes DEF EnqueueDeferred, TypeOK, Sessions
<1>9. ASSUME NEW w \in Workers, NEW d \in Deliveries, StartSending(w, d) PROVE TypeOK'
  <2>1. MarkSending(mem[w][d]) \in Row
    BY RowOperators DEF TypeOK, Sessions
  <2>2. row' \in [Deliveries -> Row] /\ mem' \in [Sessions -> [Deliveries -> Row]]
    BY <1>9, <2>1, SaveTypes DEF StartSending, Sessions
  <2> QED
    BY <1>9, <2>2 DEF StartSending, GoTo, TypeOK, PC
<1>10. ASSUME NEW w \in Workers, NEW d \in Deliveries, Answer(w, d) PROVE TypeOK'
  <2>1. pc' \in [Sessions -> PC]
    BY <1>10, PlaceTypes DEF Answer, TypeOK, Sessions
  <2>2. outcome' \in [Sessions -> Outcome]
    BY <1>10 DEF Answer, TypeOK, Outcome, Sessions
  <2>3. /\ acks' \in [Deliveries -> Nat]
        /\ tries' \in [Deliveries -> Nat]
        /\ refused' \in SUBSET Deliveries
    BY <1>10 DEF Answer, TypeOK
  <2> QED
    BY <1>10, <2>1, <2>2, <2>3 DEF Answer, TypeOK
<1>11. ASSUME NEW w \in Workers, NEW d \in Deliveries, RecordAttempt(w, d) PROVE TypeOK'
  <2>1. Attempted(outcome[w], mem[w][d]) \in Row
    BY RowOperators DEF TypeOK, Sessions
  <2>2. row' \in [Deliveries -> Row] /\ mem' \in [Sessions -> [Deliveries -> Row]]
    BY <1>11, <2>1, SaveTypes DEF RecordAttempt, Sessions
  <2>3. MessageOf[d] \in Messages
    BY DeliveryAssumption
  <2> QED
    BY <1>11, <2>2, <2>3 DEF RecordAttempt, GoTo, TypeOK, PC
<1>12. ASSUME NEW w \in Workers, NEW d \in Deliveries, Reschedule(w, d) PROVE TypeOK'
  BY <1>12, PlaceTypes, EnqueueTypes DEF Reschedule, TypeOK, Sessions
<1>13. ASSUME NEW w \in Workers, Finish(w) PROVE TypeOK'
  <2>1. SessionTypes'
    BY <1>13, ForgetTypes DEF Finish, Sessions
  <2> QED
    BY <1>13, <2>1 DEF Finish, TypeOK, SessionTypes
<1>14. ASSUME NEW w \in Workers, Crash(w) PROVE TypeOK'
  <2>1. SessionTypes'
    BY <1>14, ForgetTypes DEF Crash, Sessions
  <2>2. spent' \in Budget
    BY <1>14, SpendTypes DEF Crash
  <2> QED
    BY <1>14, <2>1, <2>2 DEF Crash, TypeOK, SessionTypes
<1>15. ASSUME NEW w \in Workers, JobFails(w) PROVE TypeOK'
  <2>1. SessionTypes'
    BY <1>15, ForgetTypes DEF JobFails, Sessions
  <2>2. spent' \in Budget
    BY <1>15, SpendTypes DEF JobFails
  <2> QED
    BY <1>15, <2>1, <2>2 DEF JobFails, TypeOK, SessionTypes
<1>16. ASSUME NEW s \in Sessions, NEW m \in Messages, ReadStatus(s, m) PROVE TypeOK'
  <2>1. Aggregate(StatusesSeen(s, m)) \in MessageStatus
    BY DEF Aggregate, MessageStatus
  <2>2. [of  |-> {m}, was |-> IF s = Repair THEN msg[m] ELSE base[s],
         now |-> Aggregate(StatusesSeen(s, m))] \in Verdict
    BY <2>1 DEF TypeOK, Verdict
  <2> QED
    BY <1>16, <2>2 DEF ReadStatus, GoTo, TypeOK, PC
<1>17. ASSUME NEW w \in Workers, NEW d \in Deliveries, WriteStatus(w, d) PROVE TypeOK'
  <2>1. msg' \in [Messages -> MessageStatus]
    BY <1>17, CommitStatusTypes DEF WriteStatus, Sessions
  <2> QED
    BY <1>17, <2>1 DEF WriteStatus, GoTo, TypeOK, PC
<1>18. ASSUME NEW a \in Apis, NEW d \in Deliveries, RetryLoad(a, d) PROVE TypeOK'
  <2>1. msg[MessageOf[d]] \in MessageStatus
    BY DeliveryAssumption DEF TypeOK
  <2>2. SessionTypes'
    BY <1>18, <2>1, LoadTypes DEF RetryLoad, Sessions
  <2>3. spent' \in Budget
    BY <1>18, SpendTypes DEF RetryLoad
  <2> QED
    BY <1>18, <2>2, <2>3 DEF RetryLoad, TypeOK, SessionTypes
<1>19. ASSUME NEW a \in Apis, NEW d \in Deliveries, RetryCommit(a, d) PROVE TypeOK'
  <2>1. Requeued(mem[a][d]) \in Row
    BY RowOperators DEF TypeOK, Sessions
  <2>2. row' \in [Deliveries -> Row] /\ mem' \in [Sessions -> [Deliveries -> Row]]
    BY <1>19, <2>1, SaveTypes DEF RetryCommit, Sessions
  <2>3. MessageOf[d] \in Messages
    BY DeliveryAssumption
  <2> QED
    BY <1>19, <2>2, <2>3 DEF RetryCommit, GoTo, TypeOK, PC
<1>20. ASSUME NEW a \in Apis, RetryWriteStatus(a) PROVE TypeOK'
  <2>1. msg' \in [Messages -> MessageStatus]
    BY <1>20, CommitStatusTypes DEF RetryWriteStatus, Sessions
  <2> QED
    BY <1>20, <2>1 DEF RetryWriteStatus, GoTo, TypeOK, PC
<1>21. ASSUME NEW a \in Apis, NEW d \in Deliveries, RetryEnqueue(a, d) PROVE TypeOK'
  <2>1. SessionTypes'
    BY <1>21, ForgetTypes DEF RetryEnqueue, Sessions
  <2> QED
    BY <1>21, <2>1 DEF RetryEnqueue, Enqueue, TypeOK, SessionTypes
<1>22. ASSUME NEW a \in Apis, ApiFails(a) PROVE TypeOK'
  <2>1. SessionTypes'
    BY <1>22, ForgetTypes DEF ApiFails, Sessions
  <2>2. spent' \in Budget
    BY <1>22, SpendTypes DEF ApiFails
  <2> QED
    BY <1>22, <2>1, <2>2 DEF ApiFails, TypeOK, SessionTypes
<1>23. ASSUME NEW D \in SUBSET Deliveries, RepairLoad(D) PROVE TypeOK'
  <2>1. SessionTypes'
    BY <1>23, LoadTypes DEF RepairLoad, Sessions, MessageStatus
  <2> QED
    BY <1>23, <2>1 DEF RepairLoad, TypeOK, SessionTypes
<1>24. CASE RepairCommit
  <2>1. batch[Repair] \subseteq Deliveries
    BY DEF TypeOK, Sessions
  <2>2. \A d \in batch[Repair] : Repaired(mem[Repair][d]) \in Row
    BY <2>1, RowOperators DEF TypeOK, Sessions
  <2>3. row' \in [Deliveries -> Row] /\ mem' \in [Sessions -> [Deliveries -> Row]]
    BY <1>24, <2>1, <2>2, SaveTypes DEF RepairCommit, Sessions
  <2>4. {MessageOf[d] : d \in batch[Repair]} \subseteq Messages
    BY <2>1, DeliveryAssumption
  <2> QED
    BY <1>24, <2>3, <2>4 DEF RepairCommit, GoTo, TypeOK, PC
<1>25. ASSUME NEW d \in Deliveries, RepairEnqueue(d) PROVE TypeOK'
  <2>1. pc' \in [Sessions -> PC]
    BY <1>25, PlaceTypes DEF RepairEnqueue, TypeOK, Sessions
  <2>2. ready' \in [Deliveries -> Nat]
    BY <1>25, EnqueueTypes DEF RepairEnqueue, TypeOK
  <2> QED
    BY <1>25, <2>1, <2>2 DEF RepairEnqueue, TypeOK
<1>26. CASE RepairWriteStatus
  <2>1. msg' \in [Messages -> MessageStatus]
    BY <1>26, CommitStatusTypes DEF RepairWriteStatus, Sessions
  <2>2. SessionTypes'
    <3>1. CASE due[Repair] = {}
      BY <1>26, <3>1, ForgetTypes DEF RepairWriteStatus, Sessions
    <3>2. CASE due[Repair] # {}
      BY <1>26, <3>2 DEF RepairWriteStatus, GoTo, TypeOK, SessionTypes, PC
    <3> QED
      BY <3>1, <3>2
  <2> QED
    BY <1>26, <2>1, <2>2 DEF RepairWriteStatus, TypeOK, SessionTypes
<1>27. CASE RepairFails
  <2>1. SessionTypes'
    BY <1>27, ForgetTypes DEF RepairFails, Sessions
  <2>2. spent' \in Budget
    BY <1>27, SpendTypes DEF RepairFails
  <2> QED
    BY <1>27, <2>1, <2>2 DEF RepairFails, TypeOK, SessionTypes
<1>28. ASSUME NEW d \in Deliveries, RetryDue(d) PROVE TypeOK'
  <2>1. [row[d] EXCEPT !.retry_at = IF @ = "recent" THEN "old" ELSE @] \in Row
    BY AgedRows DEF TypeOK
  <2> QED
    BY <1>28, <2>1 DEF RetryDue, TypeOK
<1>29. CASE StaleElapses
  <2>1. \A d \in Deliveries :
          [row[d] EXCEPT !.updated = Aged(@), !.started = Aged(@)] \in Row
    BY AgedRows DEF TypeOK
  <2>2. spent' \in Budget
    BY <1>29, SpendTypes DEF StaleElapses, TypeOK
  <2> QED
    BY <1>29, <2>1, <2>2 DEF StaleElapses, TypeOK
<1>30. CASE UNCHANGED vars
  BY <1>30 DEF vars, TypeOK
<1> QED
  BY <1>1, <1>2, <1>3, <1>4, <1>5, <1>6, <1>7, <1>8, <1>9, <1>10, <1>11, <1>12, <1>13,
     <1>14, <1>15, <1>16, <1>17, <1>18, <1>19, <1>20, <1>21, <1>22, <1>23, <1>24, <1>25,
     <1>26, <1>27, <1>28, <1>29, <1>30
     DEF Next, PostNext, WorkerNext, ApiNext, RepairNext, TimeNext, FaultNext, Sessions

\* Every reachable state is well typed: attempt counts, job counts and row
\* columns stay in their domains whatever sessions overwrite each other.
THEOREM TypeCorrect == Spec => []TypeOK
<1> QED
  BY TypeInit, TypeStep, PTL DEF Spec

-----------------------------------------------------------------------------
(* What a row may claim, given what really happened.  Sessions overwrite   *)
(* each other's columns, so the claim must hold of every copy of a row: in *)
(* the table, in each session's memory, and column by column.              *)

\* Row r of delivery d, after n attempts, a acknowledgements, and refusals R.
Claim(r, d, n, a, R) ==
  /\ r.attempts <= n
  /\ r.status = "SUCCESS" => a > 0
  /\ r.status = "DEAD_LETTER" => d \in R \/ n > NumDelays

RowsClaim ==
  \A d \in Deliveries : Claim(row[d], d, tries[d], acks[d], refused)

MemClaim ==
  \A s \in Sessions, d \in Deliveries :
    Claim(mem[s][d], d, tries[d], acks[d], refused)

OneDelivery == \A w \in Workers : \A d, e \in batch[w] : d = e

AnswerKnown ==
  \A w \in Workers : \A d \in batch[w] :
    pc[w] = "answered" =>
      /\ outcome[w] \in {"ok", "transient", "permanent"}
      /\ mem[w][d].attempts < tries[d]
      /\ outcome[w] = "ok" => acks[d] > 0
      /\ outcome[w] = "permanent" => d \in refused

Acknowledged(m) == \A d \in DeliveriesOf(m) : acks[d] > 0

VerdictTrue ==
  \A s \in Sessions : \A m \in verdict[s].of :
    verdict[s].now = "SUCCESS" => Acknowledged(m)

MessageTrue == \A m \in Messages : msg[m] = "SUCCESS" => Acknowledged(m)

IInv ==
  /\ TypeOK
  /\ RowsClaim /\ MemClaim
  /\ OneDelivery /\ AnswerKnown
  /\ VerdictTrue /\ MessageTrue

\* Claims survive when more happens.
LEMMA ClaimGrows ==
  ASSUME NEW r \in Row, NEW d, NEW n \in Nat, NEW a \in Nat, NEW R,
         NEW n2 \in Nat, NEW a2 \in Nat, NEW R2,
         n <= n2, a <= a2, R \subseteq R2, Claim(r, d, n, a, R)
  PROVE  Claim(r, d, n2, a2, R2)
BY DeliveryAssumption DEF Claim, Row

\* What the steps other than an attempt make of a row claims no more.
LEMMA ClaimOperators ==
  ASSUME NEW r \in Row, NEW d, NEW n \in Nat, NEW a \in Nat, NEW R, Claim(r, d, n, a, R)
  PROVE  /\ Claim(MarkSending(r), d, n, a, R)
         /\ Claim(Limited(r), d, n, a, R)
         /\ Claim(Requeued(r), d, n, a, R)
         /\ Claim(Repaired(r), d, n, a, R)
         /\ Claim(Remembered(r), d, n, a, R)
         /\ Claim(NoRow, d, n, a, R)
<1> USE DEF Claim, Row
<1>1. Claim(MarkSending(r), d, n, a, R)
  BY DEF MarkSending
<1>2. Claim(Limited(r), d, n, a, R)
  BY DEF Limited
<1>3. Claim(Requeued(r), d, n, a, R)
  BY DEF Requeued
<1>4. Claim(Repaired(r), d, n, a, R)
  BY DEF Repaired
<1>5. Claim(Remembered(r), d, n, a, R)
  BY DEF Remembered
<1>6. Claim(NoRow, d, n, a, R)
  BY DEF NoRow
<1> QED
  BY <1>1, <1>2, <1>3, <1>4, <1>5, <1>6

\* An attempt claims what its result and the schedule justify.
LEMMA ClaimAttempted ==
  ASSUME NEW r \in Row, NEW d, NEW n \in Nat, NEW a \in Nat, NEW R,
         NEW result \in {"ok", "transient", "permanent"},
         r.attempts < n, result = "ok" => a > 0, result = "permanent" => d \in R
  PROVE  Claim(Attempted(result, r), d, n, a, R)
<1> USE DeliveryAssumption DEF Claim, Row, Attempted, WillRetry
<1>1. CASE result = "ok"
  BY <1>1 DEF Succeeded
<1>2. CASE result = "permanent"
  BY <1>2 DEF DeadLettered
<1>3. CASE result = "transient" /\ r.attempts < NumDelays
  BY <1>3 DEF Rescheduled
<1>4. CASE result = "transient" /\ ~(r.attempts < NumDelays)
  BY <1>4 DEF DeadLettered
<1> QED
  BY <1>1, <1>2, <1>3, <1>4

\* A column-wise merge claims no more than the two rows it merges.
LEMMA ClaimWritten ==
  ASSUME NEW stored \in Row, NEW loaded \in Row, NEW new \in Row,
         NEW d, NEW n \in Nat, NEW a \in Nat, NEW R,
         Claim(stored, d, n, a, R), Claim(new, d, n, a, R)
  PROVE  Claim(Written(stored, loaded, new), d, n, a, R)
BY DEF Claim, Written, Column

-----------------------------------------------------------------------------
(* The invariant is inductive. *)

Happened ==
  /\ tries' \in [Deliveries -> Nat] /\ acks' \in [Deliveries -> Nat]
  /\ \A d \in Deliveries : tries[d] <= tries'[d] /\ acks[d] <= acks'[d]
  /\ refused \subseteq refused'

\* A step that records nothing leaves the histories as they were.
LEMMA NothingHappened == TypeOK /\ UNCHANGED histVars => Happened
BY DEF TypeOK, histVars, Happened

\* Claims of rows that a step leaves alone survive it.
LEMMA OldClaims ==
  ASSUME TypeOK, Happened, RowsClaim, MemClaim
  PROVE  /\ \A d \in Deliveries : Claim(row[d], d, tries'[d], acks'[d], refused')
         /\ \A s \in Sessions, d \in Deliveries :
              Claim(mem[s][d], d, tries'[d], acks'[d], refused')
<1>1. \A d \in Deliveries :
        /\ row[d] \in Row
        /\ tries[d] \in Nat /\ acks[d] \in Nat /\ tries'[d] \in Nat /\ acks'[d] \in Nat
        /\ tries[d] <= tries'[d] /\ acks[d] <= acks'[d]
  BY DEF TypeOK, Happened
<1>2. \A s \in Sessions, d \in Deliveries : mem[s][d] \in Row
  BY DEF TypeOK
<1>3. refused \subseteq refused'
  BY DEF Happened
<1>4. \A d \in Deliveries : Claim(row[d], d, tries'[d], acks'[d], refused')
  BY <1>1, <1>3, ClaimGrows DEF RowsClaim
<1>5. \A s \in Sessions, d \in Deliveries :
        Claim(mem[s][d], d, tries'[d], acks'[d], refused')
  BY <1>1, <1>2, <1>3, ClaimGrows DEF MemClaim
<1> QED
  BY <1>4, <1>5

\* A commit spreads a true claim of the new rows to the table and the memory.
LEMMA SaveClaims ==
  ASSUME TypeOK, Happened, RowsClaim, MemClaim,
         NEW s \in Sessions, NEW new, DOMAIN new \subseteq Deliveries,
         \A d \in DOMAIN new :
           new[d] \in Row /\ Claim(new[d], d, tries'[d], acks'[d], refused'),
         Save(s, new)
  PROVE  RowsClaim' /\ MemClaim'
<1>1. \A d \in Deliveries :
        /\ row[d] \in Row /\ mem[s][d] \in Row
        /\ tries'[d] \in Nat /\ acks'[d] \in Nat
  BY DEF TypeOK, Happened
<1>2. \A d \in DOMAIN new :
        Claim(Written(row[d], mem[s][d], new[d]), d, tries'[d], acks'[d], refused')
  BY <1>1, OldClaims, ClaimWritten
<1>3. \A d \in DOMAIN new : Claim(Remembered(new[d]), d, tries'[d], acks'[d], refused')
  BY <1>1, ClaimOperators
<1>4. RowsClaim'
  BY <1>2, OldClaims DEF Save, RowsClaim
<1>5. MemClaim'
  BY <1>3, OldClaims DEF Save, MemClaim, TypeOK
<1> QED
  BY <1>4, <1>5

\* Loading copies a claim, ending a session drops its claims.
LEMMA LoadClaims ==
  ASSUME TypeOK, RowsClaim, MemClaim, UNCHANGED <<row, histVars>>,
         NEW s \in Sessions, NEW D \in SUBSET Deliveries, NEW status,
         LoadRows(s, D, status)
  PROVE  RowsClaim' /\ MemClaim'
<1>1. \A d \in Deliveries :
        /\ row[d] \in Row /\ tries[d] \in Nat /\ acks[d] \in Nat
        /\ Claim(Remembered(row[d]), d, tries[d], acks[d], refused)
        /\ Claim(NoRow, d, tries[d], acks[d], refused)
  BY ClaimOperators DEF TypeOK, RowsClaim
<1>2. RowsClaim'
  BY DEF RowsClaim, histVars
<1>3. MemClaim'
  BY <1>1 DEF LoadRows, MemClaim, TypeOK, histVars
<1> QED
  BY <1>2, <1>3

\* A session that ends claims nothing any more.
LEMMA ForgetClaims ==
  ASSUME TypeOK, RowsClaim, MemClaim, UNCHANGED <<row, histVars>>,
         NEW s \in Sessions, Forget(s)
  PROVE  RowsClaim' /\ MemClaim'
<1>1. \A d \in Deliveries : Claim(NoRow, d, tries[d], acks[d], refused)
  BY ClaimOperators DEF TypeOK, RowsClaim
<1>2. RowsClaim'
  BY DEF RowsClaim, histVars
<1>3. MemClaim'
  BY <1>1 DEF Forget, MemClaim, TypeOK, histVars
<1> QED
  BY <1>2, <1>3

\* The claims hold of rows and memory after every step that leaves both alone.
LEMMA SameClaims ==
  ASSUME TypeOK, RowsClaim, MemClaim, Happened, UNCHANGED <<row, mem>>
  PROVE  RowsClaim' /\ MemClaim'
BY OldClaims DEF RowsClaim, MemClaim

\* Rows, stored or in memory, claim only attempts, dead letters and successes
\* that the histories justify, after every step.
LEMMA ClaimStep == IInv /\ [Next]_vars => RowsClaim' /\ MemClaim'
<1> SUFFICES ASSUME IInv, [Next]_vars PROVE RowsClaim' /\ MemClaim'
  OBVIOUS
<1> USE DEF dbVars, queueVars, sessionVars
<1>0. TypeOK /\ RowsClaim /\ MemClaim /\ TypeOK'
  BY TypeStep DEF IInv
<1>z. UNCHANGED histVars => Happened
  BY <1>0, NothingHappened
<1>y. \A s \in Sessions, d \in Deliveries :
        /\ mem[s][d] \in Row /\ tries[d] \in Nat /\ acks[d] \in Nat
        /\ Claim(mem[s][d], d, tries[d], acks[d], refused)
  BY <1>0 DEF TypeOK, MemClaim
<1>1. ASSUME NEW m \in Messages, Accept(m) PROVE RowsClaim' /\ MemClaim'
  <2>1. \A d \in Deliveries :
          Claim([NoRow EXCEPT !.status = "QUEUED", !.updated = "recent"],
                d, tries[d], acks[d], refused)
    BY <1>0 DEF Claim, NoRow, TypeOK
  <2>2. RowsClaim'
    BY <1>0, <1>1, <2>1 DEF Accept, RowsClaim, histVars
  <2>3. MemClaim'
    BY <1>0, <1>1 DEF Accept, MemClaim, histVars
  <2> QED
    BY <2>2, <2>3
<1>2. ASSUME NEW d \in Deliveries, PostJob(d) PROVE RowsClaim' /\ MemClaim'
  BY <1>0, <1>2, <1>z, SameClaims DEF PostJob
<1>3. ASSUME NEW m \in Messages, PostFails(m) PROVE RowsClaim' /\ MemClaim'
  BY <1>0, <1>3, <1>z, SameClaims DEF PostFails
<1>4. ASSUME NEW w \in Workers, NEW d \in Deliveries, Load(w, d)
      PROVE RowsClaim' /\ MemClaim'
  BY <1>0, <1>4, LoadClaims DEF Load, Sessions
<1>5. ASSUME NEW w \in Workers, Skip(w) PROVE RowsClaim' /\ MemClaim'
  BY <1>0, <1>5, <1>z, SameClaims DEF Skip
<1>6. ASSUME NEW w \in Workers, NEW d \in Deliveries, Reject(w, d)
      PROVE RowsClaim' /\ MemClaim'
  <2> DEFINE new == [x \in {d} |-> Attempted("permanent", mem[w][x])]
  <2>1. w \in Sessions
    BY DEF Sessions
  <2>2. Happened /\ d \in refused' /\ mem[w][d].attempts < tries'[d]
    BY <1>0, <1>y, <1>6, <2>1 DEF Reject, Happened, TypeOK, Claim, Row
  <2>3. Claim(Attempted("permanent", mem[w][d]), d, tries'[d], acks'[d], refused')
    BY <1>y, <2>1, <2>2, ClaimAttempted DEF Happened
  <2>4. Attempted("permanent", mem[w][d]) \in Row
    BY <1>y, <2>1, RowOperators
  <2>5. Save(w, new)
    BY <1>6 DEF Reject
  <2> QED
    BY <1>0, <2>1, <2>2, <2>3, <2>4, <2>5, SaveClaims
<1>7. ASSUME NEW w \in Workers, NEW d \in Deliveries, DeferForLimit(w, d)
      PROVE RowsClaim' /\ MemClaim'
  <2> DEFINE new == [x \in {d} |-> Limited(mem[w][x])]
  <2>1. w \in Sessions /\ Happened /\ UNCHANGED histVars
    BY <1>7, <1>z DEF Sessions, DeferForLimit
  <2>2. Limited(mem[w][d]) \in Row
    BY <1>y, <2>1, RowOperators
  <2>3. Claim(Limited(mem[w][d]), d, tries'[d], acks'[d], refused')
    BY <1>y, <2>1, ClaimOperators DEF histVars
  <2>4. Save(w, new)
    BY <1>7 DEF DeferForLimit
  <2> QED
    BY <1>0, <2>1, <2>2, <2>3, <2>4, SaveClaims
<1>8. ASSUME NEW w \in Workers, NEW d \in Deliveries, EnqueueDeferred(w, d)
      PROVE RowsClaim' /\ MemClaim'
  BY <1>0, <1>8, <1>z, SameClaims DEF EnqueueDeferred
<1>9. ASSUME NEW w \in Workers, NEW d \in Deliveries, StartSending(w, d)
      PROVE RowsClaim' /\ MemClaim'
  <2> DEFINE new == [x \in {d} |-> MarkSending(mem[w][x])]
  <2>1. w \in Sessions /\ Happened /\ UNCHANGED histVars
    BY <1>9, <1>z DEF Sessions, StartSending
  <2>2. MarkSending(mem[w][d]) \in Row
    BY <1>y, <2>1, RowOperators
  <2>3. Claim(MarkSending(mem[w][d]), d, tries'[d], acks'[d], refused')
    BY <1>y, <2>1, ClaimOperators DEF histVars
  <2>4. Save(w, new)
    BY <1>9 DEF StartSending
  <2> QED
    BY <1>0, <2>1, <2>2, <2>3, <2>4, SaveClaims
<1>10. ASSUME NEW w \in Workers, NEW d \in Deliveries, Answer(w, d)
       PROVE RowsClaim' /\ MemClaim'
  <2>1. Happened
    BY <1>0, <1>10 DEF Answer, Happened, TypeOK
  <2> QED
    BY <1>0, <1>10, <2>1, SameClaims DEF Answer
<1>11. ASSUME NEW w \in Workers, NEW d \in Deliveries, RecordAttempt(w, d)
       PROVE RowsClaim' /\ MemClaim'
  <2> DEFINE new == [x \in {d} |-> Attempted(outcome[w], mem[w][x])]
  <2>1. w \in Sessions /\ Happened /\ UNCHANGED histVars
    BY <1>11, <1>z DEF Sessions, RecordAttempt
  <2>2. /\ outcome[w] \in {"ok", "transient", "permanent"}
        /\ mem[w][d].attempts < tries[d]
        /\ outcome[w] = "ok" => acks[d] > 0
        /\ outcome[w] = "permanent" => d \in refused
    BY <1>11 DEF IInv, AnswerKnown, RecordAttempt
  <2>3. Attempted(outcome[w], mem[w][d]) \in Row
    BY <1>y, <2>1, RowOperators
  <2>4. Claim(Attempted(outcome[w], mem[w][d]), d, tries'[d], acks'[d], refused')
    BY <1>y, <2>1, <2>2, ClaimAttempted DEF histVars
  <2>5. Save(w, new)
    BY <1>11 DEF RecordAttempt
  <2> QED
    BY <1>0, <2>1, <2>3, <2>4, <2>5, SaveClaims
<1>12. ASSUME NEW w \in Workers, NEW d \in Deliveries, Reschedule(w, d)
       PROVE RowsClaim' /\ MemClaim'
  BY <1>0, <1>12, <1>z, SameClaims DEF Reschedule
<1>13. ASSUME NEW w \in Workers, Finish(w) PROVE RowsClaim' /\ MemClaim'
  BY <1>0, <1>13, ForgetClaims DEF Finish, Sessions
<1>14. ASSUME NEW w \in Workers, Crash(w) PROVE RowsClaim' /\ MemClaim'
  BY <1>0, <1>14, ForgetClaims DEF Crash, Sessions
<1>15. ASSUME NEW w \in Workers, JobFails(w) PROVE RowsClaim' /\ MemClaim'
  BY <1>0, <1>15, ForgetClaims DEF JobFails, Sessions
<1>16. ASSUME NEW s \in Sessions, NEW m \in Messages, ReadStatus(s, m)
       PROVE RowsClaim' /\ MemClaim'
  BY <1>0, <1>16, <1>z, SameClaims DEF ReadStatus
<1>17. ASSUME NEW w \in Workers, NEW d \in Deliveries, WriteStatus(w, d)
       PROVE RowsClaim' /\ MemClaim'
  BY <1>0, <1>17, <1>z, SameClaims DEF WriteStatus
<1>18. ASSUME NEW a \in Apis, NEW d \in Deliveries, RetryLoad(a, d)
       PROVE RowsClaim' /\ MemClaim'
  BY <1>0, <1>18, LoadClaims DEF RetryLoad, Sessions
<1>19. ASSUME NEW a \in Apis, NEW d \in Deliveries, RetryCommit(a, d)
       PROVE RowsClaim' /\ MemClaim'
  <2> DEFINE new == [x \in {d} |-> Requeued(mem[a][x])]
  <2>1. a \in Sessions /\ Happened /\ UNCHANGED histVars
    BY <1>19, <1>z DEF Sessions, RetryCommit
  <2>2. Requeued(mem[a][d]) \in Row
    BY <1>y, <2>1, RowOperators
  <2>3. Claim(Requeued(mem[a][d]), d, tries'[d], acks'[d], refused')
    BY <1>y, <2>1, ClaimOperators DEF histVars
  <2>4. Save(a, new)
    BY <1>19 DEF RetryCommit
  <2> QED
    BY <1>0, <2>1, <2>2, <2>3, <2>4, SaveClaims
<1>20. ASSUME NEW a \in Apis, RetryWriteStatus(a) PROVE RowsClaim' /\ MemClaim'
  BY <1>0, <1>20, <1>z, SameClaims DEF RetryWriteStatus
<1>21. ASSUME NEW a \in Apis, NEW d \in Deliveries, RetryEnqueue(a, d)
       PROVE RowsClaim' /\ MemClaim'
  BY <1>0, <1>21, ForgetClaims DEF RetryEnqueue, Sessions
<1>22. ASSUME NEW a \in Apis, ApiFails(a) PROVE RowsClaim' /\ MemClaim'
  BY <1>0, <1>22, ForgetClaims DEF ApiFails, Sessions
<1>23. ASSUME NEW D \in SUBSET Deliveries, RepairLoad(D) PROVE RowsClaim' /\ MemClaim'
  BY <1>0, <1>23, LoadClaims DEF RepairLoad, Sessions
<1>24. CASE RepairCommit
  <2> DEFINE new == [d \in batch[Repair] |-> Repaired(mem[Repair][d])]
  <2>1. Repair \in Sessions /\ Happened /\ UNCHANGED histVars
    BY <1>24, <1>z DEF Sessions, RepairCommit
  <2>2. batch[Repair] \subseteq Deliveries
    BY <1>0, <2>1 DEF TypeOK
  <2>3. \A d \in batch[Repair] : Repaired(mem[Repair][d]) \in Row
    BY <1>y, <2>1, <2>2, RowOperators
  <2>4. \A d \in batch[Repair] :
          Claim(Repaired(mem[Repair][d]), d, tries'[d], acks'[d], refused')
    BY <1>y, <2>1, <2>2, ClaimOperators DEF histVars
  <2>5. Save(Repair, new)
    BY <1>24 DEF RepairCommit
  <2> QED
    BY <1>0, <2>1, <2>2, <2>3, <2>4, <2>5, SaveClaims
<1>25. ASSUME NEW d \in Deliveries, RepairEnqueue(d) PROVE RowsClaim' /\ MemClaim'
  BY <1>0, <1>25, <1>z, SameClaims DEF RepairEnqueue
<1>26. CASE RepairWriteStatus
  <2>1. CASE due[Repair] = {}
    BY <1>0, <1>26, <2>1, ForgetClaims DEF RepairWriteStatus, Sessions
  <2>2. CASE due[Repair] # {}
    BY <1>0, <1>26, <2>2, <1>z, SameClaims DEF RepairWriteStatus
  <2> QED
    BY <2>1, <2>2
<1>27. CASE RepairFails
  BY <1>0, <1>27, ForgetClaims DEF RepairFails, Sessions
<1>28. ASSUME NEW d \in Deliveries, RetryDue(d) PROVE RowsClaim' /\ MemClaim'
  <2>1. RowsClaim'
    BY <1>0, <1>28 DEF RetryDue, RowsClaim, Claim, histVars, TypeOK, Row
  <2>2. MemClaim'
    BY <1>0, <1>28 DEF RetryDue, MemClaim, histVars
  <2> QED
    BY <2>1, <2>2
<1>29. CASE StaleElapses
  <2>1. RowsClaim'
    <3>1. ASSUME NEW r \in Row
          PROVE  LET aged == [r EXCEPT !.updated = Aged(@), !.started = Aged(@)]
                 IN  aged.attempts = r.attempts /\ aged.status = r.status
      BY <3>1 DEF Row
    <3> QED
      BY <1>0, <1>29, <3>1 DEF StaleElapses, RowsClaim, Claim, histVars, TypeOK
  <2>2. MemClaim'
    BY <1>0, <1>29 DEF StaleElapses, MemClaim, histVars
  <2> QED
    BY <2>1, <2>2
<1>30. CASE UNCHANGED vars
  BY <1>0, <1>30, <1>z, SameClaims DEF vars
<1> QED
  BY <1>1, <1>2, <1>3, <1>4, <1>5, <1>6, <1>7, <1>8, <1>9, <1>10, <1>11, <1>12, <1>13,
     <1>14, <1>15, <1>16, <1>17, <1>18, <1>19, <1>20, <1>21, <1>22, <1>23, <1>24, <1>25,
     <1>26, <1>27, <1>28, <1>29, <1>30
     DEF Next, PostNext, WorkerNext, ApiNext, RepairNext, TimeNext, FaultNext, Sessions

\* What a worker knows when it has an answer.
LEMMA AnswerStep == IInv /\ [Next]_vars => OneDelivery' /\ AnswerKnown'
<1> SUFFICES ASSUME IInv, [Next]_vars PROVE OneDelivery' /\ AnswerKnown'
  OBVIOUS
<1> USE DEF dbVars, queueVars, sessionVars, histVars
<1>0. TypeOK /\ OneDelivery /\ AnswerKnown /\ MemClaim
  BY DEF IInv
<1>a. Workers \subseteq Sessions /\ Apis \subseteq Sessions /\ Repair \in Sessions
      /\ Repair \notin Workers
  BY DeliveryAssumption DEF Sessions
\* Steps that leave workers' places and memory alone.
<1>b. UNCHANGED <<sessionVars, histVars>> => OneDelivery' /\ AnswerKnown'
  BY <1>0 DEF OneDelivery, AnswerKnown
\* Steps of s that neither take it to "answered" nor touch the rest.
<1>c. ASSUME NEW s \in Sessions, UNCHANGED histVars, s \in Workers => pc'[s] # "answered",
             s \in Workers => (batch'[s] = batch[s] \/ batch'[s] = {}
                               \/ \E d \in Deliveries : batch'[s] = {d}),
             \A w \in Workers \ {s} :
               /\ pc'[w] = pc[w] /\ batch'[w] = batch[w] /\ mem'[w] = mem[w]
               /\ outcome'[w] = outcome[w]
      PROVE OneDelivery' /\ AnswerKnown'
  <2>1. OneDelivery'
    BY <1>0, <1>c DEF OneDelivery
  <2>2. AnswerKnown'
    BY <1>0, <1>c DEF AnswerKnown
  <2> QED
    BY <2>1, <2>2
<1>1. ASSUME NEW m \in Messages, Accept(m) PROVE OneDelivery' /\ AnswerKnown'
  BY <1>1, <1>b DEF Accept
<1>2. ASSUME NEW d \in Deliveries, PostJob(d) PROVE OneDelivery' /\ AnswerKnown'
  BY <1>2, <1>b DEF PostJob
<1>3. ASSUME NEW m \in Messages, PostFails(m) PROVE OneDelivery' /\ AnswerKnown'
  BY <1>3, <1>b DEF PostFails
<1>4. ASSUME NEW w \in Workers, NEW d \in Deliveries, Load(w, d)
      PROVE OneDelivery' /\ AnswerKnown'
  BY <1>0, <1>a, <1>4, <1>c DEF Load, LoadRows, TypeOK
<1>5. ASSUME NEW w \in Workers, Skip(w) PROVE OneDelivery' /\ AnswerKnown'
  BY <1>0, <1>a, <1>5, <1>c DEF Skip, GoTo, TypeOK
<1>6. ASSUME NEW w \in Workers, NEW d \in Deliveries, Reject(w, d)
      PROVE OneDelivery' /\ AnswerKnown'
  <2>1. OneDelivery'
    BY <1>0, <1>6 DEF Reject, OneDelivery
  <2>2. AnswerKnown'
    BY <1>0, <1>a, <1>6 DEF Reject, Save, GoTo, AnswerKnown, TypeOK, Row
  <2> QED
    BY <2>1, <2>2
<1>7. ASSUME NEW w \in Workers, NEW d \in Deliveries, DeferForLimit(w, d)
      PROVE OneDelivery' /\ AnswerKnown'
  BY <1>0, <1>a, <1>7, <1>c DEF DeferForLimit, Save, GoTo, TypeOK
<1>8. ASSUME NEW w \in Workers, NEW d \in Deliveries, EnqueueDeferred(w, d)
      PROVE OneDelivery' /\ AnswerKnown'
  BY <1>0, <1>a, <1>8, <1>c DEF EnqueueDeferred, GoTo, TypeOK
<1>9. ASSUME NEW w \in Workers, NEW d \in Deliveries, StartSending(w, d)
      PROVE OneDelivery' /\ AnswerKnown'
  BY <1>0, <1>a, <1>9, <1>c DEF StartSending, Save, GoTo, TypeOK
<1>10. ASSUME NEW w \in Workers, NEW d \in Deliveries, Answer(w, d)
       PROVE OneDelivery' /\ AnswerKnown'
  <2>1. OneDelivery'
    BY <1>0, <1>10 DEF Answer, OneDelivery
  <2>2. \A e \in Deliveries :
          /\ tries[e] \in Nat /\ acks[e] \in Nat
          /\ tries[e] <= tries'[e] /\ acks[e] <= acks'[e]
          /\ mem[w][e].attempts \in Nat /\ mem[w][e].attempts <= tries[e]
    BY <1>0, <1>a, <1>10 DEF Answer, TypeOK, Row, MemClaim, Claim
  <2>3. refused \subseteq refused'
    BY <1>10 DEF Answer
  <2>4. /\ outcome'[w] \in {"ok", "transient", "permanent"}
        /\ mem[w][d].attempts < tries'[d]
        /\ outcome'[w] = "ok" => acks'[d] > 0
        /\ outcome'[w] = "permanent" => d \in refused'
    BY <1>0, <1>a, <1>10, <2>2 DEF Answer, TypeOK
  <2>5. ASSUME NEW v \in Workers, NEW e \in batch'[v], pc'[v] = "answered"
        PROVE /\ outcome'[v] \in {"ok", "transient", "permanent"}
              /\ mem'[v][e].attempts < tries'[e]
              /\ outcome'[v] = "ok" => acks'[e] > 0
              /\ outcome'[v] = "permanent" => e \in refused'
    <3>1. e \in Deliveries /\ mem' = mem /\ batch' = batch
      BY <1>0, <1>a, <1>10, <2>5 DEF Answer, TypeOK
    <3>2. CASE v = w
      BY <1>0, <1>10, <2>4, <2>5, <3>1, <3>2 DEF Answer, OneDelivery
    <3>3. CASE v # w
      <4>1. outcome'[v] = outcome[v] /\ pc[v] = "answered"
        BY <1>0, <1>a, <1>10, <2>5, <3>3 DEF Answer, GoTo, TypeOK
      <4>2. /\ tries[e] \in Nat /\ acks[e] \in Nat
            /\ tries'[e] \in Nat /\ acks'[e] \in Nat
            /\ tries[e] <= tries'[e] /\ acks[e] <= acks'[e]
            /\ mem[v][e].attempts \in Nat
        BY <1>0, <1>a, <1>10, <3>1 DEF Answer, TypeOK, Row
      <4>3. /\ outcome[v] \in {"ok", "transient", "permanent"}
            /\ mem[v][e].attempts < tries[e]
            /\ outcome[v] = "ok" => acks[e] > 0
            /\ outcome[v] = "permanent" => e \in refused
        BY <1>0, <2>5, <3>1, <4>1 DEF AnswerKnown
      <4> QED
        BY <2>3, <3>1, <4>1, <4>2, <4>3
    <3> QED
      BY <3>2, <3>3
  <2>6. AnswerKnown'
    BY <2>5 DEF AnswerKnown
  <2> QED
    BY <2>1, <2>6
<1>11. ASSUME NEW w \in Workers, NEW d \in Deliveries, RecordAttempt(w, d)
       PROVE OneDelivery' /\ AnswerKnown'
  BY <1>0, <1>a, <1>11, <1>c DEF RecordAttempt, Save, GoTo, TypeOK
<1>12. ASSUME NEW w \in Workers, NEW d \in Deliveries, Reschedule(w, d)
       PROVE OneDelivery' /\ AnswerKnown'
  BY <1>0, <1>a, <1>12, <1>c DEF Reschedule, GoTo, TypeOK
<1>13. ASSUME NEW w \in Workers, Finish(w) PROVE OneDelivery' /\ AnswerKnown'
  BY <1>0, <1>a, <1>13, <1>c DEF Finish, Forget, TypeOK
<1>14. ASSUME NEW w \in Workers, Crash(w) PROVE OneDelivery' /\ AnswerKnown'
  BY <1>0, <1>a, <1>14, <1>c DEF Crash, Forget, TypeOK
<1>15. ASSUME NEW w \in Workers, JobFails(w) PROVE OneDelivery' /\ AnswerKnown'
  BY <1>0, <1>a, <1>15, <1>c DEF JobFails, Forget, TypeOK
<1>16. ASSUME NEW s \in Sessions, NEW m \in Messages, ReadStatus(s, m)
       PROVE OneDelivery' /\ AnswerKnown'
  BY <1>0, <1>a, <1>16, <1>c DEF ReadStatus, GoTo, TypeOK
<1>17. ASSUME NEW w \in Workers, NEW d \in Deliveries, WriteStatus(w, d)
       PROVE OneDelivery' /\ AnswerKnown'
  BY <1>0, <1>a, <1>17, <1>c DEF WriteStatus, GoTo, TypeOK
<1>18. ASSUME NEW a \in Apis, NEW d \in Deliveries, RetryLoad(a, d)
       PROVE OneDelivery' /\ AnswerKnown'
  BY <1>0, <1>a, <1>18, <1>c DEF RetryLoad, LoadRows, TypeOK
<1>19. ASSUME NEW a \in Apis, NEW d \in Deliveries, RetryCommit(a, d)
       PROVE OneDelivery' /\ AnswerKnown'
  BY <1>0, <1>a, <1>19, <1>c DEF RetryCommit, Save, GoTo, TypeOK
<1>20. ASSUME NEW a \in Apis, RetryWriteStatus(a) PROVE OneDelivery' /\ AnswerKnown'
  BY <1>0, <1>a, <1>20, <1>c DEF RetryWriteStatus, GoTo, TypeOK
<1>21. ASSUME NEW a \in Apis, NEW d \in Deliveries, RetryEnqueue(a, d)
       PROVE OneDelivery' /\ AnswerKnown'
  BY <1>0, <1>a, <1>21, <1>c DEF RetryEnqueue, Forget, TypeOK
<1>22. ASSUME NEW a \in Apis, ApiFails(a) PROVE OneDelivery' /\ AnswerKnown'
  BY <1>0, <1>a, <1>22, <1>c DEF ApiFails, Forget, TypeOK
<1>23. ASSUME NEW D \in SUBSET Deliveries, RepairLoad(D)
       PROVE OneDelivery' /\ AnswerKnown'
  BY <1>0, <1>a, <1>23, <1>c DEF RepairLoad, LoadRows, TypeOK
<1>24. CASE RepairCommit
  BY <1>0, <1>a, <1>24, <1>c DEF RepairCommit, Save, GoTo, TypeOK
<1>25. ASSUME NEW d \in Deliveries, RepairEnqueue(d) PROVE OneDelivery' /\ AnswerKnown'
  BY <1>0, <1>a, <1>25, <1>c DEF RepairEnqueue, GoTo, TypeOK
<1>26. CASE RepairWriteStatus
  BY <1>0, <1>a, <1>26, <1>c DEF RepairWriteStatus, Forget, GoTo, TypeOK
<1>27. CASE RepairFails
  BY <1>0, <1>a, <1>27, <1>c DEF RepairFails, Forget, TypeOK
<1>28. ASSUME NEW d \in Deliveries, RetryDue(d) PROVE OneDelivery' /\ AnswerKnown'
  BY <1>28, <1>b DEF RetryDue
<1>29. CASE StaleElapses
  BY <1>29, <1>b DEF StaleElapses
<1>30. CASE UNCHANGED vars
  BY <1>30, <1>b DEF vars
<1> QED
  BY <1>1, <1>2, <1>3, <1>4, <1>5, <1>6, <1>7, <1>8, <1>9, <1>10, <1>11, <1>12, <1>13,
     <1>14, <1>15, <1>16, <1>17, <1>18, <1>19, <1>20, <1>21, <1>22, <1>23, <1>24, <1>25,
     <1>26, <1>27, <1>28, <1>29, <1>30
     DEF Next, PostNext, WorkerNext, ApiNext, RepairNext, TimeNext, FaultNext, Sessions

\* The status a session is about to write, and those written, are true of what
\* the providers acknowledged.
LEMMA VerdictStep == IInv /\ [Next]_vars => VerdictTrue' /\ MessageTrue'
<1> SUFFICES ASSUME IInv, [Next]_vars PROVE VerdictTrue' /\ MessageTrue'
  OBVIOUS
<1> USE DEF dbVars, queueVars, sessionVars, histVars
<1>0. TypeOK /\ RowsClaim /\ MemClaim /\ VerdictTrue /\ MessageTrue
  BY DEF IInv
<1>a. Workers \subseteq Sessions /\ Apis \subseteq Sessions /\ Repair \in Sessions
  BY DEF Sessions
\* Acknowledgements are never taken back.
<1>b. ASSUME \/ UNCHANGED acks
             \/ \E w \in Workers, d \in Deliveries : Answer(w, d)
      PROVE  \A m \in Messages : Acknowledged(m) => Acknowledged(m)'
  BY <1>0, <1>b DEF Answer, Acknowledged, DeliveriesOf, TypeOK
\* Steps that write no status.
<1>c. ASSUME NEW s \in Sessions,
             \/ UNCHANGED acks
             \/ \E w \in Workers, d \in Deliveries : Answer(w, d),
             UNCHANGED msg,
             verdict' = verdict \/ verdict' = [verdict EXCEPT ![s] = NoVerdict]
      PROVE  VerdictTrue' /\ MessageTrue'
  <2>1. \A r \in Sessions : verdict[r].of \subseteq Messages
    BY <1>0 DEF TypeOK, Verdict
  <2>2. ASSUME NEW r \in Sessions, NEW m \in verdict'[r].of, verdict'[r].now = "SUCCESS"
        PROVE  Acknowledged(m)'
    <3>1. verdict'[r] = verdict[r] \/ verdict'[r] = NoVerdict
      BY <1>c, <1>0 DEF TypeOK
    <3>2. verdict'[r] = verdict[r]
      BY <2>2, <3>1 DEF NoVerdict
    <3>3. m \in Messages /\ Acknowledged(m)
      BY <1>0, <2>1, <2>2, <3>2 DEF VerdictTrue
    <3> QED
      BY <1>b, <1>c, <3>3
  <2>4. VerdictTrue'
    BY <2>2 DEF VerdictTrue
  <2>3. MessageTrue'
    BY <1>0, <1>b, <1>c DEF MessageTrue
  <2> QED
    BY <2>3, <2>4
\* Steps that write the status a session decided on.
<1>d. ASSUME NEW s \in Sessions, CommitStatus(s), UNCHANGED acks,
             verdict' = verdict \/ verdict' = [verdict EXCEPT ![s] = NoVerdict]
      PROVE  VerdictTrue' /\ MessageTrue'
  <2>1. \A r \in Sessions : verdict[r].of \subseteq Messages
    BY <1>0 DEF TypeOK, Verdict
  <2>2. ASSUME NEW r \in Sessions, NEW m \in verdict'[r].of, verdict'[r].now = "SUCCESS"
        PROVE  Acknowledged(m)'
    <3>1. verdict'[r] = verdict[r] \/ verdict'[r] = NoVerdict
      BY <1>d, <1>0 DEF TypeOK
    <3>2. verdict'[r] = verdict[r]
      BY <2>2, <3>1 DEF NoVerdict
    <3>3. m \in Messages /\ Acknowledged(m)
      BY <1>0, <2>1, <2>2, <3>2 DEF VerdictTrue
    <3> QED
      BY <1>b, <1>d, <3>3
  <2>4. VerdictTrue'
    BY <2>2 DEF VerdictTrue
  <2>3. MessageTrue'
    BY <1>0, <1>b, <1>d DEF CommitStatus, Column, VerdictTrue, MessageTrue
  <2> QED
    BY <2>3, <2>4
<1>1. ASSUME NEW m \in Messages, Accept(m) PROVE VerdictTrue' /\ MessageTrue'
  <2>1. VerdictTrue'
    BY <1>0, <1>1 DEF Accept, VerdictTrue, Acknowledged, DeliveriesOf
  <2>2. MessageTrue'
    BY <1>0, <1>1 DEF Accept, MessageTrue, Acknowledged, DeliveriesOf, TypeOK
  <2> QED
    BY <2>1, <2>2
<1>2. ASSUME NEW d \in Deliveries, PostJob(d) PROVE VerdictTrue' /\ MessageTrue'
  BY <1>2, <1>a, <1>c DEF PostJob
<1>3. ASSUME NEW m \in Messages, PostFails(m) PROVE VerdictTrue' /\ MessageTrue'
  BY <1>3, <1>a, <1>c DEF PostFails
<1>4. ASSUME NEW w \in Workers, NEW d \in Deliveries, Load(w, d)
      PROVE VerdictTrue' /\ MessageTrue'
  BY <1>4, <1>a, <1>c DEF Load, LoadRows
<1>5. ASSUME NEW w \in Workers, Skip(w) PROVE VerdictTrue' /\ MessageTrue'
  BY <1>5, <1>a, <1>c DEF Skip
<1>6. ASSUME NEW w \in Workers, NEW d \in Deliveries, Reject(w, d)
      PROVE VerdictTrue' /\ MessageTrue'
  BY <1>6, <1>a, <1>c DEF Reject
<1>7. ASSUME NEW w \in Workers, NEW d \in Deliveries, DeferForLimit(w, d)
      PROVE VerdictTrue' /\ MessageTrue'
  BY <1>7, <1>a, <1>c DEF DeferForLimit
<1>8. ASSUME NEW w \in Workers, NEW d \in Deliveries, EnqueueDeferred(w, d)
      PROVE VerdictTrue' /\ MessageTrue'
  BY <1>8, <1>a, <1>c DEF EnqueueDeferred
<1>9. ASSUME NEW w \in Workers, NEW d \in Deliveries, StartSending(w, d)
      PROVE VerdictTrue' /\ MessageTrue'
  BY <1>9, <1>a, <1>c DEF StartSending
<1>10. ASSUME NEW w \in Workers, NEW d \in Deliveries, Answer(w, d)
       PROVE VerdictTrue' /\ MessageTrue'
  <2>1. UNCHANGED <<msg, verdict>>
    BY <1>10 DEF Answer
  <2> QED
    BY <1>10, <1>a, <1>c, <2>1
<1>11. ASSUME NEW w \in Workers, NEW d \in Deliveries, RecordAttempt(w, d)
       PROVE VerdictTrue' /\ MessageTrue'
  BY <1>11, <1>a, <1>c DEF RecordAttempt
<1>12. ASSUME NEW w \in Workers, NEW d \in Deliveries, Reschedule(w, d)
       PROVE VerdictTrue' /\ MessageTrue'
  BY <1>12, <1>a, <1>c DEF Reschedule
<1>13. ASSUME NEW w \in Workers, Finish(w) PROVE VerdictTrue' /\ MessageTrue'
  BY <1>13, <1>a, <1>c DEF Finish, Forget
<1>14. ASSUME NEW w \in Workers, Crash(w) PROVE VerdictTrue' /\ MessageTrue'
  BY <1>14, <1>a, <1>c DEF Crash, Forget
<1>15. ASSUME NEW w \in Workers, JobFails(w) PROVE VerdictTrue' /\ MessageTrue'
  BY <1>15, <1>a, <1>c DEF JobFails, Forget
<1>16. ASSUME NEW s \in Sessions, NEW m \in Messages, ReadStatus(s, m)
       PROVE VerdictTrue' /\ MessageTrue'
  <2>1. Aggregate(StatusesSeen(s, m)) = "SUCCESS" => Acknowledged(m)
    <3>1. SUFFICES ASSUME Aggregate(StatusesSeen(s, m)) = "SUCCESS",
                          NEW d \in DeliveriesOf(m)
                   PROVE  acks[d] > 0
      BY DEF Acknowledged
    <3>2. StatusesSeen(s, m) \subseteq {"SUCCESS"}
      BY <3>1 DEF Aggregate
    <3>3. mem[s][d].status = "SUCCESS" \/ row[d].status = "SUCCESS"
      BY <3>1, <3>2 DEF StatusesSeen
    <3>4. d \in Deliveries
      BY DEF DeliveriesOf
    <3> QED
      BY <1>0, <3>3, <3>4 DEF RowsClaim, MemClaim, Claim
  <2>2. /\ verdict'[s].of = {m}
        /\ verdict'[s].now = Aggregate(StatusesSeen(s, m))
        /\ \A r \in Sessions \ {s} : verdict'[r] = verdict[r]
        /\ acks' = acks /\ msg' = msg
    BY <1>0, <1>16 DEF ReadStatus, TypeOK
  <2>3. VerdictTrue'
    BY <1>0, <2>1, <2>2 DEF VerdictTrue, Acknowledged
  <2>4. MessageTrue'
    BY <1>0, <2>2 DEF MessageTrue, Acknowledged
  <2> QED
    BY <2>3, <2>4
<1>17. ASSUME NEW w \in Workers, NEW d \in Deliveries, WriteStatus(w, d)
       PROVE VerdictTrue' /\ MessageTrue'
  BY <1>17, <1>a, <1>d DEF WriteStatus
<1>18. ASSUME NEW a \in Apis, NEW d \in Deliveries, RetryLoad(a, d)
       PROVE VerdictTrue' /\ MessageTrue'
  BY <1>18, <1>a, <1>c DEF RetryLoad, LoadRows
<1>19. ASSUME NEW a \in Apis, NEW d \in Deliveries, RetryCommit(a, d)
       PROVE VerdictTrue' /\ MessageTrue'
  BY <1>19, <1>a, <1>c DEF RetryCommit
<1>20. ASSUME NEW a \in Apis, RetryWriteStatus(a) PROVE VerdictTrue' /\ MessageTrue'
  BY <1>20, <1>a, <1>d DEF RetryWriteStatus
<1>21. ASSUME NEW a \in Apis, NEW d \in Deliveries, RetryEnqueue(a, d)
       PROVE VerdictTrue' /\ MessageTrue'
  BY <1>21, <1>a, <1>c DEF RetryEnqueue, Forget
<1>22. ASSUME NEW a \in Apis, ApiFails(a) PROVE VerdictTrue' /\ MessageTrue'
  BY <1>22, <1>a, <1>c DEF ApiFails, Forget
<1>23. ASSUME NEW D \in SUBSET Deliveries, RepairLoad(D)
       PROVE VerdictTrue' /\ MessageTrue'
  BY <1>23, <1>a, <1>c DEF RepairLoad, LoadRows
<1>24. CASE RepairCommit
  BY <1>24, <1>a, <1>c DEF RepairCommit
<1>25. ASSUME NEW d \in Deliveries, RepairEnqueue(d) PROVE VerdictTrue' /\ MessageTrue'
  BY <1>25, <1>a, <1>c DEF RepairEnqueue
<1>26. CASE RepairWriteStatus
  BY <1>26, <1>a, <1>d DEF RepairWriteStatus, Forget
<1>27. CASE RepairFails
  BY <1>27, <1>a, <1>c DEF RepairFails, Forget
<1>28. ASSUME NEW d \in Deliveries, RetryDue(d) PROVE VerdictTrue' /\ MessageTrue'
  BY <1>28, <1>a, <1>c DEF RetryDue
<1>29. CASE StaleElapses
  BY <1>29, <1>a, <1>c DEF StaleElapses
<1>30. CASE UNCHANGED vars
  BY <1>30, <1>a, <1>c DEF vars
<1> QED
  BY <1>1, <1>2, <1>3, <1>4, <1>5, <1>6, <1>7, <1>8, <1>9, <1>10, <1>11, <1>12, <1>13,
     <1>14, <1>15, <1>16, <1>17, <1>18, <1>19, <1>20, <1>21, <1>22, <1>23, <1>24, <1>25,
     <1>26, <1>27, <1>28, <1>29, <1>30
     DEF Next, PostNext, WorkerNext, ApiNext, RepairNext, TimeNext, FaultNext, Sessions

\* The inductive invariant holds at the start.
LEMMA InvInit == Init => IInv
<1> SUFFICES ASSUME Init PROVE IInv
  OBVIOUS
<1>1. TypeOK
  BY TypeInit
<1>2. RowsClaim /\ MemClaim
  BY DEF Init, RowsClaim, MemClaim, Claim, NoRow
<1>3. OneDelivery /\ AnswerKnown
  BY DEF Init, OneDelivery, AnswerKnown, Sessions
<1>4. VerdictTrue /\ MessageTrue
  BY DEF Init, VerdictTrue, MessageTrue, NoVerdict
<1> QED
  BY <1>1, <1>2, <1>3, <1>4 DEF IInv

\* The inductive invariant is preserved by every step.
LEMMA InvStep == IInv /\ [Next]_vars => IInv'
BY TypeStep, ClaimStep, AnswerStep, VerdictStep DEF IInv

\* The inductive invariant holds in every reachable state.
LEMMA InvAlways == Spec => []IInv
<1> QED
  BY InvInit, InvStep, PTL DEF Spec

-----------------------------------------------------------------------------
(* The theorems. *)

\* attempt_count never exceeds the attempts made, for any interleaving of
\* workers, manual retries and repairs that overwrite each other's columns.
THEOREM AttemptsAreReal == Spec => []AttemptsReal
<1>1. IInv => AttemptsReal
  BY DEF IInv, RowsClaim, Claim, AttemptsReal
<1> QED
  BY <1>1, InvAlways, PTL

\* No delivery that only met passing failures is dead-lettered before the whole
\* retry schedule was used, whatever its length.
THEOREM GivenUpIsFair == Spec => []GivenUpFairly
<1>1. IInv => GivenUpFairly
  BY DEF IInv, RowsClaim, Claim, GivenUpFairly
<1> QED
  BY <1>1, InvAlways, PTL

\* A delivery or message shown as SUCCESS was acknowledged by every provider
\* concerned, although statuses are computed from rows that may be stale.
THEOREM SuccessIsAcknowledged == Spec => []SuccessAcknowledged
<1>1. IInv => SuccessAcknowledged
  <2>1. SUFFICES ASSUME IInv, NEW d \in Deliveries
                 PROVE  /\ row[d].status = "SUCCESS" => acks[d] > 0
                        /\ msg[MessageOf[d]] = "SUCCESS" => acks[d] > 0
    BY DEF SuccessAcknowledged
  <2>2. row[d].status = "SUCCESS" => acks[d] > 0
    BY <2>1 DEF IInv, RowsClaim, Claim
  <2>3. MessageOf[d] \in Messages /\ d \in DeliveriesOf(MessageOf[d])
    BY DeliveryAssumption DEF DeliveriesOf
  <2>4. msg[MessageOf[d]] = "SUCCESS" => acks[d] > 0
    BY <2>1, <2>3 DEF IInv, MessageTrue, Acknowledged
  <2> QED
    BY <2>2, <2>4
<1> QED
  BY <1>1, InvAlways, PTL

=============================================================================
