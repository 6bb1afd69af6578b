------------------------------ MODULE Delivery ------------------------------
(***************************************************************************)
(* The delivery engine of UniPush: the rows of messages and deliveries,    *)
(* the ARQ job queue, the workers that run deliver_message, the manual     *)
(* retry of the API, the stale-delivery repair of the worker's cron, and   *)
(* the time that makes rows stale.                                         *)
(*                                                                         *)
(* Every await of the code is a step boundary.  A database session keeps   *)
(* the rows it loaded (expire_on_commit is off) and a commit writes only   *)
(* the columns the session changed, with no version check: two sessions    *)
(* may overwrite each other, column by column.                             *)
(***************************************************************************)
EXTENDS Naturals, FiniteSets

CONSTANTS
  Messages,      \* messages the API accepts
  Deliveries,    \* their deliveries, one per target channel
  MessageOf,     \* the message of each delivery
  Workers,       \* coroutines that run deliver_message
  Apis,          \* API requests that retry a delivery by hand
  Repair,        \* the cron job requeue_stale_deliveries
  NumDelays,     \* len(RETRY_DELAYS), 3 in the code
  RepairLimit,   \* rows one repair takes, 200 in the code
  Stalls,        \* may the stale cutoff pass while a session is at work?
  MaxFaults,     \* bound: crashes, failing jobs and overruns of the stale cutoff
  MaxLimited,    \* bound: refusals of the channel rate limit
  MaxRetries,    \* bound: manual retries
  MaxSpent       \* bound: all of these together

ASSUME DeliveryAssumption ==
  /\ MessageOf \in [Deliveries -> Messages]
  /\ \A m \in Messages : \E d \in Deliveries : MessageOf[d] = m
  /\ Repair \notin Workers \cup Apis
  /\ Workers \cap Apis = {}
  /\ NumDelays \in Nat
  /\ RepairLimit \in Nat \ {0}
  /\ Stalls \in BOOLEAN
  /\ MaxFaults \in Nat /\ MaxLimited \in Nat /\ MaxRetries \in Nat /\ MaxSpent \in Nat

Sessions == Workers \cup Apis \cup {Repair}

DeliveriesOf(m) == {d \in Deliveries : MessageOf[d] = m}

(***************************************************************************)
(* Rows.  A timestamp is none, recent or old: old for started and updated  *)
(* is "before the stale cutoff", old for retry_at is "already past".  In a *)
(* session's memory it is none or seen, which no newly stamped value       *)
(* equals.  ABSENT is the row that is not inserted (or not loaded) yet.    *)
(***************************************************************************)
Active == {"QUEUED", "RETRYING", "SENDING"}
Failed == {"FAILED", "DEAD_LETTER"}
Final  == {"SUCCESS", "DEAD_LETTER"}
DeliveryStatus == {"ABSENT"} \cup Active \cup Final

MessageStatus ==
  {"ABSENT", "QUEUED", "PROCESSING", "SUCCESS", "PARTIAL_SUCCESS", "FAILED"}

Stamp == {"none", "recent", "old", "seen"}

Row == [status    : DeliveryStatus,
        attempts  : Nat,      \* attempt_count
        started   : Stamp,    \* processing_started_at
        retry_at  : Stamp,    \* next_retry_at
        delivered : Stamp,    \* delivered_at
        dead      : Stamp,    \* dead_lettered_at
        updated   : Stamp]    \* updated_at, set by every UPDATE

NoRow == [status |-> "ABSENT", attempts |-> 0, started |-> "none",
          retry_at |-> "none", delivered |-> "none", dead |-> "none",
          updated |-> "none"]

Outcome == {"none", "ok", "transient", "permanent", "limited"}

Verdict == [of : SUBSET Messages, was : MessageStatus, now : MessageStatus]

NoVerdict == [of |-> {}, was |-> "ABSENT", now |-> "ABSENT"]

VARIABLES
  row,       \* deliveries table
  msg,       \* messages table: status
  ready,     \* queue: jobs of each delivery that are due
  deferred,  \* queue: jobs enqueued with _defer_by that are not due yet
  posting,   \* deliveries committed by a push request that has yet to enqueue them
  pc,        \* where each session is
  batch,     \* the deliveries each session acts on
  mem,       \* each session's rows in memory
  base,      \* the message status a session loaded with its delivery
  outcome,   \* result of the worker's send
  due,       \* messages whose status the session has yet to update
  verdict,   \* the message status a session loaded and the one it will write
  spent,     \* how much of each bound is used
  acks,      \* history: acknowledged sends of each delivery
  tries,     \* history: attempts really made on each delivery, refusals included
  refused    \* history: deliveries that met a refusal that is not retryable

dbVars      == <<row, msg>>
queueVars   == <<ready, deferred, posting>>
sessionVars == <<pc, batch, mem, base, outcome, due, verdict>>
histVars    == <<acks, tries, refused>>
vars == <<dbVars, queueVars, sessionVars, spent, histVars>>

Budget == [faults : 0..MaxFaults, limited : 0..MaxLimited, retries : 0..MaxRetries]

PC == {"idle", "loaded", "sending", "answered", "deferring", "requeue",
       "reading", "writing", "rescheduling", "done"}

TypeOK ==
  /\ row \in [Deliveries -> Row]
  /\ msg \in [Messages -> MessageStatus]
  /\ ready \in [Deliveries -> Nat]
  /\ deferred \in [Deliveries -> Nat]
  /\ posting \in SUBSET Deliveries
  /\ pc \in [Sessions -> PC]
  /\ batch \in [Sessions -> SUBSET Deliveries]
  /\ mem \in [Sessions -> [Deliveries -> Row]]
  /\ base \in [Sessions -> MessageStatus]
  /\ outcome \in [Sessions -> Outcome]
  /\ due \in [Sessions -> SUBSET Messages]
  /\ verdict \in [Sessions -> Verdict]
  /\ spent \in Budget
  /\ acks \in [Deliveries -> Nat]
  /\ tries \in [Deliveries -> Nat]
  /\ refused \in SUBSET Deliveries

Init ==
  /\ row = [d \in Deliveries |-> NoRow]
  /\ msg = [m \in Messages |-> "ABSENT"]
  /\ ready = [d \in Deliveries |-> 0]
  /\ deferred = [d \in Deliveries |-> 0]
  /\ posting = {}
  /\ pc = [s \in Sessions |-> "idle"]
  /\ batch = [s \in Sessions |-> {}]
  /\ mem = [s \in Sessions |-> [d \in Deliveries |-> NoRow]]
  /\ base = [s \in Sessions |-> "ABSENT"]
  /\ outcome = [s \in Sessions |-> "none"]
  /\ due = [s \in Sessions |-> {}]
  /\ verdict = [s \in Sessions |-> NoVerdict]
  /\ spent = [faults |-> 0, limited |-> 0, retries |-> 0]
  /\ acks = [d \in Deliveries |-> 0]
  /\ tries = [d \in Deliveries |-> 0]
  /\ refused = {}

-----------------------------------------------------------------------------
(* What a session does to a row in memory. *)

\* Fault: processing_started_at is not stamped.
MarkSendingUnstamped(r) == [r EXCEPT !.status = "SENDING"]

MarkSending(r) == [r EXCEPT !.status = "SENDING", !.started = "recent"]

Succeeded(r) ==
  [r EXCEPT !.status = "SUCCESS", !.attempts = @ + 1, !.started = "none",
            !.retry_at = "none", !.delivered = "recent", !.dead = "none"]

\* Fault: a retry goes back to the column default, which no code looks for.
RescheduledPending(r) ==
  [r EXCEPT !.status = "PENDING", !.attempts = @ + 1, !.started = "none",
            !.retry_at = "recent", !.dead = "none"]

Rescheduled(r) ==
  [r EXCEPT !.status = "RETRYING", !.attempts = @ + 1, !.started = "none",
            !.retry_at = "recent", !.dead = "none"]

DeadLettered(r) ==
  [r EXCEPT !.status = "DEAD_LETTER", !.attempts = @ + 1, !.started = "none",
            !.retry_at = "none", !.dead = "recent"]

\* Fault: waiting for the channel limit counts as an attempt.
LimitedCounted(r) ==
  [r EXCEPT !.status = "RETRYING", !.attempts = @ + 1, !.started = "none",
            !.retry_at = "recent"]

Limited(r) ==
  [r EXCEPT !.status = "RETRYING", !.started = "none", !.retry_at = "recent"]

\* Fault: a manual retry leaves dead_lettered_at set.
RequeuedStillDead(r) ==
  [r EXCEPT !.status = "QUEUED", !.started = "none", !.retry_at = "none",
            !.delivered = "none"]

Requeued(r) ==
  [r EXCEPT !.status = "QUEUED", !.started = "none", !.retry_at = "none",
            !.delivered = "none", !.dead = "none"]

Repaired(r) ==
  [r EXCEPT !.status = "QUEUED", !.started = "none", !.retry_at = "none",
            !.updated = "recent"]

\* Fault: the last delay of the schedule is never used.
WillRetryOneLess(result, r) == result = "transient" /\ r.attempts + 1 < NumDelays

\* A retry is scheduled while the loaded attempt count indexes RETRY_DELAYS.
WillRetry(result, r) == result = "transient" /\ r.attempts < NumDelays

\* Fault: a provider that answers with an error in a 200 is taken at its word.
AttemptedTrusting(result, r) ==
  IF result # "transient" THEN Succeeded(r)
  ELSE IF WillRetry(result, r) THEN Rescheduled(r)
  ELSE DeadLettered(r)

Attempted(result, r) ==
  IF result = "ok" THEN Succeeded(r)
  ELSE IF WillRetry(result, r) THEN Rescheduled(r)
  ELSE DeadLettered(r)

-----------------------------------------------------------------------------
(* Sessions and the database. *)

Recalled(t) == IF t = "none" THEN "none" ELSE "seen"

\* The row as a session holds it after loading or committing it.
Remembered(r) ==
  [r EXCEPT !.started = Recalled(@), !.retry_at = Recalled(@),
            !.delivered = Recalled(@), !.dead = Recalled(@), !.updated = "seen"]

Column(stored, loaded, new) == IF new = loaded THEN stored ELSE new

\* UPDATE names the changed columns only; updated_at goes with any change.
Written(stored, loaded, new) ==
  [status    |-> Column(stored.status, loaded.status, new.status),
   attempts  |-> Column(stored.attempts, loaded.attempts, new.attempts),
   started   |-> Column(stored.started, loaded.started, new.started),
   retry_at  |-> Column(stored.retry_at, loaded.retry_at, new.retry_at),
   delivered |-> Column(stored.delivered, loaded.delivered, new.delivered),
   dead      |-> Column(stored.dead, loaded.dead, new.dead),
   updated   |-> IF new = loaded THEN stored.updated ELSE "recent"]

\* Load the rows of D into session s, and the status of their message.
LoadRows(s, D, status) ==
  /\ batch' = [batch EXCEPT ![s] = D]
  /\ mem' = [mem EXCEPT ![s] =
       [d \in Deliveries |-> IF d \in D THEN Remembered(row[d]) ELSE NoRow]]
  /\ base' = [base EXCEPT ![s] = status]
  /\ pc' = [pc EXCEPT ![s] = "loaded"]
  /\ UNCHANGED <<outcome, due, verdict>>

\* Commit the rows new of session s.
Save(s, new) ==
  /\ row' = [d \in Deliveries |->
       IF d \in DOMAIN new THEN Written(row[d], mem[s][d], new[d]) ELSE row[d]]
  /\ mem' = [mem EXCEPT ![s] = [d \in Deliveries |->
       IF d \in DOMAIN new THEN Remembered(new[d]) ELSE mem[s][d]]]

\* The session ends; its memory goes with it.
Forget(s) ==
  /\ pc' = [pc EXCEPT ![s] = "idle"]
  /\ batch' = [batch EXCEPT ![s] = {}]
  /\ mem' = [mem EXCEPT ![s] = [d \in Deliveries |-> NoRow]]
  /\ base' = [base EXCEPT ![s] = "ABSENT"]
  /\ outcome' = [outcome EXCEPT ![s] = "none"]
  /\ due' = [due EXCEPT ![s] = {}]
  /\ verdict' = [verdict EXCEPT ![s] = NoVerdict]

GoTo(s, place) == pc' = [pc EXCEPT ![s] = place]

Enqueue(d) == ready' = [ready EXCEPT ![d] = @ + 1]

EnqueueLater(d) == deferred' = [deferred EXCEPT ![d] = @ + 1]

Spend(kind) ==
  /\ spent.faults + spent.limited + spent.retries < MaxSpent
  /\ spent[kind] < (CASE kind = "faults" -> MaxFaults
                      [] kind = "limited" -> MaxLimited
                      [] kind = "retries" -> MaxRetries)
  /\ spent' = [spent EXCEPT ![kind] = @ + 1]

-----------------------------------------------------------------------------
(* enqueue_message, from its commit on. *)

Accept(m) ==
  /\ msg[m] = "ABSENT"
  /\ msg' = [msg EXCEPT ![m] = "QUEUED"]
  /\ row' = [d \in Deliveries |->
       IF MessageOf[d] = m THEN [NoRow EXCEPT !.status = "QUEUED", !.updated = "recent"]
                           ELSE row[d]]
  /\ posting' = posting \cup DeliveriesOf(m)
  /\ UNCHANGED <<ready, deferred, sessionVars, spent, histVars>>

PostJob(d) ==
  /\ d \in posting
  /\ posting' = posting \ {d}
  /\ Enqueue(d)
  /\ UNCHANGED <<dbVars, deferred, sessionVars, spent, histVars>>

\* The API dies, or Redis refuses, before every job is enqueued.
PostFails(m) ==
  /\ posting \cap DeliveriesOf(m) # {}
  /\ Spend("faults")
  /\ posting' = posting \ DeliveriesOf(m)
  /\ UNCHANGED <<dbVars, ready, deferred, sessionVars, histVars>>

-----------------------------------------------------------------------------
(* process_delivery, run by a worker for one job. *)

Load(w, d) ==
  /\ pc[w] = "idle"
  /\ ready[d] > 0
  /\ ready' = [ready EXCEPT ![d] = @ - 1]
  /\ LoadRows(w, {d}, msg[MessageOf[d]])
  /\ UNCHANGED <<dbVars, deferred, posting, spent, histVars>>

Skip(w) ==
  /\ pc[w] = "loaded"
  /\ \E d \in batch[w] : mem[w][d].status \in Final
  /\ GoTo(w, "done")
  /\ UNCHANGED <<dbVars, queueVars, batch, mem, base, outcome, due, verdict, spent, histVars>>

Deliverable(w, d) ==
  /\ pc[w] = "loaded"
  /\ d \in batch[w]
  /\ mem[w][d].status \notin Final

\* The loaded channel is disabled or deleted, or the push key is inactive.
Reject(w, d) ==
  /\ Deliverable(w, d)
  /\ Save(w, [x \in {d} |-> Attempted("permanent", mem[w][x])])
  /\ outcome' = [outcome EXCEPT ![w] = "permanent"]
  /\ due' = [due EXCEPT ![w] = {MessageOf[d]}]
  /\ GoTo(w, "reading")
  /\ tries' = [tries EXCEPT ![d] = @ + 1]
  /\ refused' = refused \cup {d}
  /\ UNCHANGED <<msg, queueVars, batch, base, verdict, spent, acks>>

\* The channel's per-minute limit is reached.
DeferForLimit(w, d) ==
  /\ Deliverable(w, d)
  /\ Spend("limited")
  /\ Save(w, [x \in {d} |-> Limited(mem[w][x])])
  /\ outcome' = [outcome EXCEPT ![w] = "limited"]
  /\ GoTo(w, "deferring")
  /\ UNCHANGED <<msg, queueVars, batch, base, due, verdict, histVars>>

EnqueueDeferred(w, d) ==
  /\ pc[w] = "deferring"
  /\ d \in batch[w]
  /\ EnqueueLater(d)
  /\ due' = [due EXCEPT ![w] = {MessageOf[d]}]
  /\ GoTo(w, "reading")
  /\ UNCHANGED <<dbVars, ready, posting, batch, mem, base, outcome, verdict, spent, histVars>>

StartSending(w, d) ==
  /\ Deliverable(w, d)
  /\ Save(w, [x \in {d} |-> MarkSending(mem[w][x])])
  /\ GoTo(w, "sending")
  /\ UNCHANGED <<msg, queueVars, batch, base, outcome, due, verdict, spent, histVars>>

\* send_via_channel returns: success, a retryable failure (timeout, network,
\* 429, 5xx) or a failure that is not retryable.
Answer(w, d) ==
  /\ pc[w] = "sending"
  /\ d \in batch[w]
  /\ \E result \in {"ok", "transient", "permanent"} :
       /\ outcome' = [outcome EXCEPT ![w] = result]
       /\ acks' = IF result = "ok" THEN [acks EXCEPT ![d] = @ + 1] ELSE acks
       /\ refused' = IF result = "permanent" THEN refused \cup {d} ELSE refused
  /\ tries' = [tries EXCEPT ![d] = @ + 1]
  /\ GoTo(w, "answered")
  /\ UNCHANGED <<dbVars, queueVars, batch, mem, base, due, verdict, spent>>

RecordAttempt(w, d) ==
  /\ pc[w] = "answered"
  /\ d \in batch[w]
  /\ Save(w, [x \in {d} |-> Attempted(outcome[w], mem[w][x])])
  /\ due' = [due EXCEPT ![w] = {MessageOf[d]}]
  /\ GoTo(w, "reading")
  /\ UNCHANGED <<msg, queueVars, batch, base, outcome, verdict, spent, histVars>>

Reschedule(w, d) ==
  /\ pc[w] = "rescheduling"
  /\ d \in batch[w]
  /\ EnqueueLater(d)
  /\ GoTo(w, "done")
  /\ UNCHANGED <<dbVars, ready, posting, batch, mem, base, outcome, due, verdict, spent, histVars>>

\* ARQ takes the finished job off its queue.
Finish(w) ==
  /\ pc[w] = "done"
  /\ Forget(w)
  /\ UNCHANGED <<dbVars, queueVars, spent, histVars>>

\* The worker process dies: ARQ still has the job and runs it again.
Crash(w) ==
  /\ pc[w] # "idle"
  /\ Spend("faults")
  /\ ready' = [d \in Deliveries |-> IF d \in batch[w] THEN ready[d] + 1 ELSE ready[d]]
  /\ Forget(w)
  /\ UNCHANGED <<dbVars, deferred, posting, histVars>>

\* An exception escapes the job: ARQ drops the job.
JobFails(w) ==
  /\ pc[w] \notin {"idle", "done"}
  /\ Spend("faults")
  /\ Forget(w)
  /\ UNCHANGED <<dbVars, queueVars, histVars>>

-----------------------------------------------------------------------------
(* update_message_status, at the end of each of the three services. *)

\* Fault: one successful delivery makes the message successful.
AggregateAny(statuses) ==
  IF "SUCCESS" \in statuses THEN "SUCCESS"
  ELSE IF statuses # {} /\ statuses \subseteq Failed THEN "FAILED"
  ELSE "PROCESSING"

Aggregate(statuses) ==
  IF statuses # {} /\ statuses \subseteq {"SUCCESS"} THEN "SUCCESS"
  ELSE IF "SUCCESS" \in statuses /\ statuses \cap Failed # {} THEN "PARTIAL_SUCCESS"
  ELSE IF statuses # {} /\ statuses \subseteq Failed THEN "FAILED"
  ELSE "PROCESSING"

\* A delivery the session has loaded keeps its value in memory.
StatusesSeen(s, m) ==
  {IF mem[s][d].status # "ABSENT" THEN mem[s][d].status ELSE row[d].status
     : d \in DeliveriesOf(m)}

ReadStatus(s, m) ==
  /\ pc[s] = "reading"
  /\ m \in due[s]
  /\ due' = [due EXCEPT ![s] = @ \ {m}]
  /\ verdict' = [verdict EXCEPT ![s] =
       [of  |-> {m},
        was |-> IF s = Repair THEN msg[m] ELSE base[s],
        now |-> Aggregate(StatusesSeen(s, m))]]
  /\ GoTo(s, "writing")
  /\ UNCHANGED <<dbVars, queueVars, batch, mem, base, outcome, spent, histVars>>

CommitStatus(s) ==
  /\ pc[s] = "writing"
  /\ msg' = [m \in Messages |->
       IF m \in verdict[s].of THEN Column(msg[m], verdict[s].was, verdict[s].now)
                              ELSE msg[m]]

\* Fault: the deferral for the channel limit falls through to the retry job.
WriteStatusTwice(w, d) ==
  /\ CommitStatus(w)
  /\ d \in batch[w]
  /\ GoTo(w, IF mem[w][d].status = "RETRYING" THEN "rescheduling" ELSE "done")
  /\ UNCHANGED <<row, queueVars, batch, mem, base, outcome, due, verdict, spent, histVars>>

\* A worker goes on to enqueue the retry it scheduled, if it scheduled one.
WriteStatus(w, d) ==
  /\ CommitStatus(w)
  /\ d \in batch[w]
  /\ GoTo(w, IF outcome[w] = "transient" /\ mem[w][d].status = "RETRYING"
             THEN "rescheduling" ELSE "done")
  /\ UNCHANGED <<row, queueVars, batch, mem, base, outcome, due, verdict, spent, histVars>>

-----------------------------------------------------------------------------
(* retry_failed_delivery, a request of the API. *)

\* Fault: any delivery that has started can be retried by hand.
RetryLoadAny(a, d) ==
  /\ pc[a] = "idle"
  /\ row[d].status \in Failed \cup {"RETRYING"}
  /\ Spend("retries")
  /\ LoadRows(a, {d}, msg[MessageOf[d]])
  /\ UNCHANGED <<dbVars, queueVars, histVars>>

\* Fault: a delivery that ended well can be retried by hand.
RetryLoadFinal(a, d) ==
  /\ pc[a] = "idle"
  /\ row[d].status \in Final
  /\ Spend("retries")
  /\ LoadRows(a, {d}, msg[MessageOf[d]])
  /\ UNCHANGED <<dbVars, queueVars, histVars>>

RetryLoad(a, d) ==
  /\ pc[a] = "idle"
  /\ row[d].status \in Failed
  /\ Spend("retries")
  /\ LoadRows(a, {d}, msg[MessageOf[d]])
  /\ UNCHANGED <<dbVars, queueVars, histVars>>

RetryCommit(a, d) ==
  /\ pc[a] = "loaded"
  /\ d \in batch[a]
  /\ Save(a, [x \in {d} |-> Requeued(mem[a][x])])
  /\ due' = [due EXCEPT ![a] = {MessageOf[d]}]
  /\ GoTo(a, "reading")
  /\ UNCHANGED <<msg, queueVars, batch, base, outcome, verdict, spent, histVars>>

RetryWriteStatus(a) ==
  /\ CommitStatus(a)
  /\ GoTo(a, "requeue")
  /\ UNCHANGED <<row, queueVars, batch, mem, base, outcome, due, verdict, spent, histVars>>

RetryEnqueue(a, d) ==
  /\ pc[a] = "requeue"
  /\ d \in batch[a]
  /\ Enqueue(d)
  /\ Forget(a)
  /\ UNCHANGED <<dbVars, deferred, posting, spent, histVars>>

\* The API dies in the request, or the request fails: nothing runs it again.
ApiFails(a) ==
  /\ pc[a] # "idle"
  /\ Spend("faults")
  /\ Forget(a)
  /\ UNCHANGED <<dbVars, queueVars, histVars>>

-----------------------------------------------------------------------------
(* repair_stale_deliveries, a cron job of the worker: one at a time. *)

\* Fault: rows that stopped in SENDING are not repaired.
StaleNotSending(r) ==
  \/ r.status = "QUEUED" /\ r.updated = "old"
  \/ r.status = "RETRYING" /\ r.retry_at = "old" /\ r.updated = "old"

Stale(r) ==
  \/ r.status = "QUEUED" /\ r.updated = "old"
  \/ r.status = "SENDING" /\ r.started = "old"
  \/ r.status = "RETRYING" /\ r.retry_at = "old" /\ r.updated = "old"

\* Which of more than RepairLimit stale rows come first is left open.
RepairLoad(D) ==
  LET stale == {d \in Deliveries : Stale(row[d])} IN
  /\ pc[Repair] = "idle"
  /\ D # {} /\ D \subseteq stale
  /\ Cardinality(D) <= RepairLimit
  /\ D = stale \/ Cardinality(D) = RepairLimit
  /\ LoadRows(Repair, D, "ABSENT")
  /\ UNCHANGED <<dbVars, queueVars, spent, histVars>>

RepairCommit ==
  /\ pc[Repair] = "loaded"
  /\ Save(Repair, [d \in batch[Repair] |-> Repaired(mem[Repair][d])])
  /\ due' = [due EXCEPT ![Repair] = {MessageOf[d] : d \in batch[Repair]}]
  /\ GoTo(Repair, "requeue")
  /\ UNCHANGED <<msg, queueVars, batch, base, outcome, verdict, spent, histVars>>

RepairEnqueue(d) ==
  /\ pc[Repair] = "requeue"
  /\ d \in batch[Repair]
  /\ Enqueue(d)
  /\ batch' = [batch EXCEPT ![Repair] = @ \ {d}]
  /\ GoTo(Repair, IF batch[Repair] = {d} THEN "reading" ELSE "requeue")
  /\ UNCHANGED <<dbVars, deferred, posting, mem, base, outcome, due, verdict, spent, histVars>>

RepairWriteStatus ==
  /\ CommitStatus(Repair)
  /\ IF due[Repair] = {}
       THEN Forget(Repair)
       ELSE /\ GoTo(Repair, "reading")
            /\ UNCHANGED <<batch, mem, base, outcome, due, verdict>>
  /\ UNCHANGED <<row, queueVars, spent, histVars>>

RepairFails ==
  /\ pc[Repair] # "idle"
  /\ Spend("faults")
  /\ Forget(Repair)
  /\ UNCHANGED <<dbVars, queueVars, histVars>>

-----------------------------------------------------------------------------
(* Time. *)

\* The delay of d's retry passes: next_retry_at is past, its job is due.
RetryDue(d) ==
  /\ deferred[d] > 0 \/ row[d].retry_at = "recent"
  /\ ready' = [ready EXCEPT ![d] = @ + deferred[d]]
  /\ deferred' = [deferred EXCEPT ![d] = 0]
  /\ row' = [row EXCEPT ![d].retry_at = IF @ = "recent" THEN "old" ELSE @]
  /\ UNCHANGED <<msg, posting, sessionVars, spent, histVars>>

Aged(t) == IF t = "recent" THEN "old" ELSE t

Resting == \A s \in Sessions : pc[s] = "idle"

\* Nobody works and no job waits: time may pass at will.
Quiet ==
  /\ Resting
  /\ \A d \in Deliveries : ready[d] = 0 /\ deferred[d] = 0
  /\ posting = {}

\* delivery_stale_after_seconds pass.  With jobs queued this is an overrun (a
\* backlog, a retry delay longer than the cutoff: 600 against 300 seconds), with
\* a session at work a stall (a paused process, a send as long as the cutoff).
StaleElapses ==
  /\ \E d \in Deliveries : "recent" \in {row[d].updated, row[d].started}
  /\ Resting \/ Stalls
  /\ IF Quiet THEN UNCHANGED spent ELSE Spend("faults")
  /\ row' = [d \in Deliveries |->
       [row[d] EXCEPT !.updated = Aged(@), !.started = Aged(@)]]
  /\ UNCHANGED <<msg, queueVars, sessionVars, histVars>>

-----------------------------------------------------------------------------
PostNext == \E d \in Deliveries : PostJob(d)

WorkerNext(w) ==
  \/ \E d \in Deliveries :
       \/ Load(w, d) \/ Reject(w, d) \/ DeferForLimit(w, d) \/ EnqueueDeferred(w, d)
       \/ StartSending(w, d) \/ Answer(w, d) \/ RecordAttempt(w, d)
       \/ WriteStatus(w, d) \/ Reschedule(w, d)
  \/ \E m \in Messages : ReadStatus(w, m)
  \/ Skip(w) \/ Finish(w)

ApiNext(a) ==
  \/ \E d \in Deliveries : RetryCommit(a, d) \/ RetryEnqueue(a, d)
  \/ \E m \in Messages : ReadStatus(a, m)
  \/ RetryWriteStatus(a)

RepairNext ==
  \/ \E D \in SUBSET Deliveries : RepairLoad(D)
  \/ RepairCommit
  \/ \E d \in Deliveries : RepairEnqueue(d)
  \/ \E m \in Messages : ReadStatus(Repair, m)
  \/ RepairWriteStatus

TimeNext == StaleElapses \/ \E d \in Deliveries : RetryDue(d)

FaultNext ==
  \/ \E m \in Messages : PostFails(m)
  \/ \E w \in Workers : Crash(w) \/ JobFails(w)
  \/ \E a \in Apis : ApiFails(a)
  \/ RepairFails

Next ==
  \/ \E m \in Messages : Accept(m)
  \/ PostNext
  \/ \E w \in Workers : WorkerNext(w)
  \/ \E a \in Apis : ApiNext(a) \/ \E d \in Deliveries : RetryLoad(a, d)
  \/ RepairNext
  \/ TimeNext
  \/ FaultNext

Spec == Init /\ [][Next]_vars

\* ARQ keeps running due jobs and cron jobs, a coroutine that started goes on,
\* and time passes.  Nothing is assumed of pushes, retries by hand or faults.
Fairness ==
  /\ WF_vars(PostNext)
  /\ \A w \in Workers : WF_vars(WorkerNext(w))
  /\ \A a \in Apis : WF_vars(ApiNext(a))
  /\ WF_vars(RepairNext)
  /\ WF_vars(Quiet /\ StaleElapses)
  /\ \A d \in Deliveries : WF_vars(RetryDue(d))

FairSpec == Spec /\ Fairness

-----------------------------------------------------------------------------
Holds(s, d) == pc[s] \notin {"idle", "done"} /\ d \in batch[s]

\* Someone will come back to the delivery without waiting for the repair.
Carried(d) ==
  \/ d \in posting
  \/ ready[d] > 0 \/ deferred[d] > 0
  \/ \E s \in Sessions : Holds(s, d)

\* The repair will take the row once it is old enough.
Repairable(r) ==
  \/ r.status = "QUEUED"
  \/ r.status = "SENDING" /\ r.started # "none"
  \/ r.status = "RETRYING" /\ r.retry_at # "none"

\* No accepted delivery is ever stranded: one that is not settled has a job, a
\* session at work on it, or a row the repair will find.  Crashes, failing jobs
\* and column-wise overwrites must not leave SENDING without
\* processing_started_at or RETRYING without next_retry_at and no job.
NothingStranded ==
  \A d \in Deliveries :
    row[d].status \in Active => Carried(d) \/ Repairable(row[d])

\* attempt_count never claims an attempt that was not made, whatever sessions
\* overwrite each other (it may miss some).  A refusal because the channel or the
\* key is disabled counts as an attempt, as in apply_delivery_attempt.
AttemptsReal == \A d \in Deliveries : row[d].attempts <= tries[d]

\* A delivery whose every attempt failed for a passing reason is given up only
\* after the whole RETRY_DELAYS schedule was used.
GivenUpFairly ==
  \A d \in Deliveries :
    row[d].status = "DEAD_LETTER" => d \in refused \/ tries[d] > NumDelays

\* SUCCESS, of a delivery or of a message, is only claimed for deliveries the
\* provider acknowledged, also when statuses are computed from stale rows.
SuccessAcknowledged ==
  /\ \A d \in Deliveries : row[d].status = "SUCCESS" => acks[d] > 0
  /\ \A d \in Deliveries : msg[MessageOf[d]] = "SUCCESS" => acks[d] > 0

\* A session that will still write the row or bring a job for it; one that only
\* has the message's status left to update is past that.
Owns(s, d) ==
  /\ Holds(s, d)
  /\ pc[s] \in {"reading", "writing"} =>
       \/ s \in Apis
       \/ outcome[s] = "transient" /\ mem[s][d].status = "RETRYING"

Owners(d) ==
  (IF d \in posting THEN 1 ELSE 0) + ready[d] + deferred[d]
    + Cardinality({s \in Sessions : Owns(s, d)})

\* Without faults, and with manual retries one after the other, a delivery has one
\* owner at a time, a job or a session, handed on from push request to job to worker
\* to retry job, and by a manual retry only once the last worker is through.  No
\* lock or claim in process_delivery enforces this.  (Two retries at the same time
\* do break it.  The same holds for the four properties below that say "likewise".)
OneOwner == \A d \in Deliveries : Owners(d) <= 1

\* Likewise a provider accepts a delivery once at most: a successful delivery is
\* never sent again.
SentOnce == \A d \in Deliveries : acks[d] <= 1

\* Likewise a delivered row never goes back.
SuccessStays ==
  [][\A d \in Deliveries : row[d].status = "SUCCESS" => row'[d].status = "SUCCESS"]_vars

\* Likewise the timestamps of a row agree with its status.
StampsAgree ==
  \A d \in Deliveries :
    /\ row[d].status = "SUCCESS" <=> row[d].delivered # "none"
    /\ row[d].status = "DEAD_LETTER" <=> row[d].dead # "none"
    /\ row[d].status = "SENDING" <=> row[d].started # "none"
    /\ row[d].status = "RETRYING" => row[d].retry_at # "none"

\* The repair never takes back a delivery that was delivered meanwhile.
RepairSparesDelivered ==
  [][pc[Repair] = "loaded" /\ pc'[Repair] = "requeue" =>
       \A d \in Deliveries :
         row[d].status = "SUCCESS" => row'[d].status = "SUCCESS"]_vars

\* Every accepted delivery is delivered or dead-lettered in the end, and again
\* after each manual retry.
Settles ==
  \A d \in Deliveries : row[d].status # "ABSENT" ~> row[d].status \in Final

\* When everything has come to rest a message's status is that of its deliveries.
MessageSettled ==
  Quiet /\ (\A d \in Deliveries : row[d].status \notin Active) =>
    \A m \in Messages :
      msg[m] # "ABSENT" => msg[m] = Aggregate({row[d].status : d \in DeliveriesOf(m)})

-----------------------------------------------------------------------------
(* The engine implements Outbox. *)

\* What a row says of its delivery.
State ==
  [d \in Deliveries |->
     CASE row[d].status = "ABSENT"      -> "absent"
       [] row[d].status = "SUCCESS"     -> "delivered"
       [] row[d].status = "DEAD_LETTER" -> "given up"
       [] OTHER                         -> "open"]

AtLeastOnce == INSTANCE Outbox WITH state <- State, Exact <- FALSE
ExactlyOnce == INSTANCE Outbox WITH state <- State, Exact <- TRUE

\* Whatever crashes, overruns and overwrites happen, the engine delivers at least
\* once: nothing is called delivered that the provider did not take, or given up
\* that it did not refuse and that has retries left.
DeliversAtLeastOnce == AtLeastOnce!Spec

\* Likewise the engine delivers exactly once: each delivery is taken at most once,
\* is never given up once taken, and is reopened by hand only.
DeliversExactlyOnce == ExactlyOnce!Spec

=============================================================================
