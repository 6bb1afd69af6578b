-------------------------- MODULE ExactlyOnceProofs --------------------------
(***************************************************************************)
(* Proofs about the delivery engine without faults, for any number of      *)
(* messages, deliveries and workers, any retry schedule, any number of     *)
(* refusals of the channel limit and any number of manual retries, one     *)
(* after the other: a delivery has one owner at a time, is taken by the    *)
(* provider once, stays delivered, and the engine implements Outbox with   *)
(* Exact = TRUE.  With two manual retries at the same time none of this is *)
(* true, and nothing in the code prevents them.                            *)
(***************************************************************************)
EXTENDS OutboxProofs, FiniteSetTheorems

\* No crash, lost job or overrun of the stale cutoff (a default overrun, 600 seconds
\* against 300, included), and one API session: no two manual retries at the same
\* time, for two of them that load one dead letter both enqueue it.
FaultFree ==
  /\ MaxFaults = 0
  /\ \A a, b \in Apis : a = b

-----------------------------------------------------------------------------
(* The invariant, delivery by delivery. *)

Job(d) == d \in posting \/ ready[d] > 0 \/ deferred[d] > 0

OneJob(d) ==
  /\ ready[d] + deferred[d] <= 1
  /\ d \in posting => ready[d] + deferred[d] = 0

\* An owner has no rival, job or session.
Alone(d) ==
  \A s \in Sessions : Owns(s, d) =>
    /\ ~Job(d)
    /\ \A t \in Sessions : Owns(t, d) => t = s

JobRow(d) == Job(d) => row[d].status \in {"QUEUED", "RETRYING"}

\* The status of a row whose owner is session s; a worker that defers a delivery
\* for the limit will not enqueue its retry job as well.
Fits(s, status) ==
  IF s \in Apis
    THEN status = IF pc[s] = "loaded" THEN "DEAD_LETTER" ELSE "QUEUED"
    ELSE CASE pc[s] = "loaded" -> status \in {"QUEUED", "RETRYING"}
           [] pc[s] \in {"sending", "answered"} -> status = "SENDING"
           [] pc[s] = "deferring" -> status = "RETRYING" /\ outcome[s] = "limited"
           [] OTHER -> status = "RETRYING"

\* What an owner has in memory is the row.
OwnerRow(d) ==
  \A s \in Sessions : Owns(s, d) =>
    /\ mem[s][d] = Remembered(row[d])
    /\ Fits(s, row[d].status)

\* Who is not settled has an owner, so the repair has nothing to do.
Attended(d) ==
  row[d].status \in Active => Job(d) \/ \E s \in Sessions : Owns(s, d)

Fresh(r) ==
  /\ r.status \in Active => r.updated = "recent"
  /\ r.status = "SENDING" => r.started = "recent"

Stamped(r) ==
  /\ r.status = "SUCCESS" <=> r.delivered # "none"
  /\ r.status = "DEAD_LETTER" <=> r.dead # "none"
  /\ r.status = "SENDING" <=> r.started # "none"
  /\ r.status = "RETRYING" => r.retry_at # "none"

\* Worker w was told that the provider took d and has yet to write it.
Told(w, d) == pc[w] = "answered" /\ outcome[w] = "ok" /\ d \in batch[w]

TakenOnce(d) ==
  /\ acks[d] <= 1
  /\ acks[d] > 0 => row[d].status = "SUCCESS" \/ \E w \in Workers : Told(w, d)

Sound(d) ==
  /\ OneJob(d) /\ Alone(d) /\ JobRow(d) /\ OwnerRow(d) /\ Attended(d)
  /\ Fresh(row[d]) /\ Stamped(row[d]) /\ TakenOnce(d)

Single == \A s \in Sessions \ {Repair} : \A d, e \in batch[s] : d = e

Calm ==
  /\ pc[Repair] = "idle"
  /\ Single
  /\ \A d \in Deliveries : Sound(d)

-----------------------------------------------------------------------------
(* Rows: a session that has the row in memory writes what it means to. *)

\* Rows with equal columns are equal.
LEMMA EqualRows ==
  ASSUME NEW r \in Row, NEW q \in Row,
         r.status = q.status, r.attempts = q.attempts, r.started = q.started,
         r.retry_at = q.retry_at, r.delivered = q.delivered, r.dead = q.dead,
         r.updated = q.updated
  PROVE  r = q
BY DEF Row

\* Loading a row: its columns, as they are remembered.
LEMMA RememberedColumns ==
  ASSUME NEW r \in Row
  PROVE  /\ Remembered(r) \in Row
         /\ Remembered(r).status = r.status
         /\ Remembered(r).attempts = r.attempts
         /\ Remembered(r).started = Recalled(r.started)
         /\ Remembered(r).retry_at = Recalled(r.retry_at)
         /\ Remembered(r).delivered = Recalled(r.delivered)
         /\ Remembered(r).dead = Recalled(r.dead)
         /\ Remembered(r).updated = "seen"
<1>1. Remembered(r) \in Row
  BY RowOperators
<1> QED
  BY <1>1 DEF Row, Remembered

\* After a commit by a session that remembered the row, it remembers the row, and
\* every column is the one it had or the one the session gave it.
LEMMA WrittenRemembered ==
  ASSUME NEW r \in Row, NEW new \in Row
  PROVE  LET w == Written(r, Remembered(r), new) IN
         /\ w \in Row
         /\ w.status = new.status
         /\ Remembered(w) = Remembered(new)
         /\ w.started = IF new.started = Recalled(r.started) THEN r.started ELSE new.started
         /\ w.retry_at = IF new.retry_at = Recalled(r.retry_at) THEN r.retry_at ELSE new.retry_at
         /\ w.delivered = IF new.delivered = Recalled(r.delivered) THEN r.delivered ELSE new.delivered
         /\ w.dead = IF new.dead = Recalled(r.dead) THEN r.dead ELSE new.dead
         /\ w.updated = IF new = Remembered(r) THEN r.updated ELSE "recent"
<1> DEFINE w == Written(r, Remembered(r), new)
<1>1. Remembered(r) \in Row /\ w \in Row
  BY RowOperators, WrittenRow
<1>2. /\ w.status = new.status
      /\ w.attempts = new.attempts
      /\ w.started = IF new.started = Recalled(r.started) THEN r.started ELSE new.started
      /\ w.retry_at = IF new.retry_at = Recalled(r.retry_at) THEN r.retry_at ELSE new.retry_at
      /\ w.delivered = IF new.delivered = Recalled(r.delivered) THEN r.delivered ELSE new.delivered
      /\ w.dead = IF new.dead = Recalled(r.dead) THEN r.dead ELSE new.dead
      /\ w.updated = IF new = Remembered(r) THEN r.updated ELSE "recent"
  BY RememberedColumns DEF Written, Column
<1>3. Remembered(w) \in Row /\ Remembered(new) \in Row
  BY <1>1, RowOperators
<1> HIDE DEF w
<1>4. /\ Recalled(w.started) = Recalled(new.started)
      /\ Recalled(w.retry_at) = Recalled(new.retry_at)
      /\ Recalled(w.delivered) = Recalled(new.delivered)
      /\ Recalled(w.dead) = Recalled(new.dead)
  BY <1>2 DEF Recalled
<1>5. Remembered(w) = Remembered(new)
  BY <1>1, <1>2, <1>3, <1>4, RememberedColumns, EqualRows
<1> QED
  BY <1>1, <1>2, <1>5 DEF w

\* A commit with a new status is an UPDATE.
LEMMA WrittenStatus ==
  ASSUME NEW r \in Row, NEW new \in Row, Stamped(r), new.status # r.status \/ new.retry_at = "recent",
         new.status = "SENDING" => new.started = "recent",
         new.status = "SENDING" <=> new.started # "none",
         new.status = "SUCCESS" <=> new.delivered # "none",
         new.status = "DEAD_LETTER" <=> new.dead # "none",
         new.status = "RETRYING" => new.retry_at # "none"
  PROVE  LET w == Written(r, Remembered(r), new) IN Fresh(w) /\ Stamped(w)
<1> DEFINE w == Written(r, Remembered(r), new)
<1>0. /\ w \in Row
      /\ w.status = new.status
      /\ w.started = IF new.started = Recalled(r.started) THEN r.started ELSE new.started
      /\ w.retry_at = IF new.retry_at = Recalled(r.retry_at) THEN r.retry_at ELSE new.retry_at
      /\ w.delivered = IF new.delivered = Recalled(r.delivered) THEN r.delivered ELSE new.delivered
      /\ w.dead = IF new.dead = Recalled(r.dead) THEN r.dead ELSE new.dead
      /\ w.updated = IF new = Remembered(r) THEN r.updated ELSE "recent"
  BY WrittenRemembered
<1> HIDE DEF w
<1>1. new # Remembered(r)
  BY RememberedColumns DEF Recalled
<1>2. Fresh(w)
  BY <1>0, <1>1 DEF Fresh, Recalled
<1>3. Stamped(w)
  BY <1>0 DEF Stamped, Recalled
<1> QED
  BY <1>2, <1>3 DEF w

\* The row w that a session commits over row r in place of its copy.
Commits(w, r, new) ==
  /\ w = Written(r, Remembered(r), new)
  /\ w \in Row
  /\ w.status = new.status
  /\ Remembered(w) = Remembered(new)
  /\ Fresh(w) /\ Stamped(w)

\* Each commit of a session that remembers the row leaves a sound row.
LEMMA CommitsRow ==
  ASSUME NEW r \in Row, Stamped(r), NEW result
  PROVE  LET m == Remembered(r) IN
         /\ r.status \in {"QUEUED", "RETRYING"} =>
              /\ Commits(Written(r, m, MarkSending(m)), r, MarkSending(m))
              /\ MarkSending(m).status = "SENDING"
         /\ r.status \in {"QUEUED", "RETRYING"} =>
              /\ Commits(Written(r, m, Limited(m)), r, Limited(m))
              /\ Limited(m).status = "RETRYING"
         /\ r.status \in Active =>
              /\ Commits(Written(r, m, Attempted(result, m)), r, Attempted(result, m))
              /\ Attempted(result, m).status =
                   IF result = "ok" THEN "SUCCESS"
                   ELSE IF WillRetry(result, m) THEN "RETRYING" ELSE "DEAD_LETTER"
         /\ r.status = "DEAD_LETTER" =>
              /\ Commits(Written(r, m, Requeued(m)), r, Requeued(m))
              /\ Requeued(m).status = "QUEUED"
<1> DEFINE m == Remembered(r)
<1>0. /\ m \in Row
      /\ m = Remembered(r)
      /\ m.status = r.status
      /\ m.started = Recalled(r.started)
      /\ m.delivered = Recalled(r.delivered)
      /\ m.dead = Recalled(r.dead)
  BY RememberedColumns
<1> HIDE DEF m
<1>a. /\ r.status = "SUCCESS" <=> m.delivered # "none"
      /\ r.status = "DEAD_LETTER" <=> m.dead # "none"
      /\ r.status = "SENDING" <=> m.started # "none"
  BY <1>0 DEF Stamped, Recalled
<1>c. ASSUME NEW new \in Row, new.status # r.status \/ new.retry_at = "recent",
             new.status = "SENDING" => new.started = "recent",
             new.status = "SENDING" <=> new.started # "none",
             new.status = "SUCCESS" <=> new.delivered # "none",
             new.status = "DEAD_LETTER" <=> new.dead # "none",
             new.status = "RETRYING" => new.retry_at # "none"
      PROVE  Commits(Written(r, m, new), r, new)
  BY <1>0, <1>c, WrittenRemembered, WrittenStatus DEF Commits
<1>1. ASSUME r.status \in {"QUEUED", "RETRYING"}
      PROVE  /\ Commits(Written(r, m, MarkSending(m)), r, MarkSending(m))
             /\ MarkSending(m).status = "SENDING"
  <2> DEFINE new == MarkSending(m)
  <2>1. new \in Row
    BY <1>0, RowOperators
  <2>2. /\ new.status = "SENDING"
        /\ new.started = "recent"
        /\ new.delivered = m.delivered
        /\ new.dead = m.dead
    BY <1>0 DEF MarkSending, Row
  <2> HIDE DEF new
  <2>3. Commits(Written(r, m, new), r, new)
    BY <1>1, <1>a, <1>c, <2>1, <2>2
  <2> QED
    BY <2>2, <2>3 DEF new
<1>2. ASSUME r.status \in {"QUEUED", "RETRYING"}
      PROVE  /\ Commits(Written(r, m, Limited(m)), r, Limited(m))
             /\ Limited(m).status = "RETRYING"
  <2> DEFINE new == Limited(m)
  <2>1. new \in Row
    BY <1>0, RowOperators
  <2>2. /\ new.status = "RETRYING"
        /\ new.started = "none"
        /\ new.retry_at = "recent"
        /\ new.delivered = m.delivered
        /\ new.dead = m.dead
    BY <1>0 DEF Limited, Row
  <2> HIDE DEF new
  <2>3. Commits(Written(r, m, new), r, new)
    BY <1>2, <1>a, <1>c, <2>1, <2>2
  <2> QED
    BY <2>2, <2>3 DEF new
<1>3. ASSUME r.status \in Active
      PROVE  /\ Commits(Written(r, m, Attempted(result, m)), r, Attempted(result, m))
             /\ Attempted(result, m).status =
                  IF result = "ok" THEN "SUCCESS"
                  ELSE IF WillRetry(result, m) THEN "RETRYING" ELSE "DEAD_LETTER"
  <2> DEFINE new == Attempted(result, m)
  <2>1. new \in Row
    BY <1>0, RowOperators
  <2>a. /\ m.delivered = "none"
        /\ m.dead = "none"
    BY <1>3, <1>a DEF Active
  <2>2. CASE result = "ok"
    <3>1. new = Succeeded(m)
      BY <2>2 DEF Attempted
    <3>2. /\ new.status = "SUCCESS"
          /\ new.started = "none"
          /\ new.delivered = "recent"
          /\ new.dead = "none"
      BY <1>0, <3>1 DEF Succeeded, Row
    <3> HIDE DEF new
    <3>3. Commits(Written(r, m, new), r, new)
      BY <1>3, <1>c, <2>1, <3>2 DEF Active
    <3> QED
      BY <2>2, <3>2, <3>3 DEF new
  <2>3. CASE result # "ok" /\ WillRetry(result, m)
    <3>1. new = Rescheduled(m)
      BY <2>3 DEF Attempted
    <3>2. /\ new.status = "RETRYING"
          /\ new.started = "none"
          /\ new.retry_at = "recent"
          /\ new.delivered = "none"
          /\ new.dead = "none"
      BY <1>0, <2>a, <3>1 DEF Rescheduled, Row
    <3> HIDE DEF new
    <3>3. Commits(Written(r, m, new), r, new)
      BY <1>c, <2>1, <3>2
    <3> QED
      BY <2>3, <3>2, <3>3 DEF new
  <2>4. CASE result # "ok" /\ ~WillRetry(result, m)
    <3>1. new = DeadLettered(m)
      BY <2>4 DEF Attempted
    <3>2. /\ new.status = "DEAD_LETTER"
          /\ new.started = "none"
          /\ new.delivered = "none"
          /\ new.dead = "recent"
      BY <1>0, <2>a, <3>1 DEF DeadLettered, Row
    <3> HIDE DEF new
    <3>3. Commits(Written(r, m, new), r, new)
      BY <1>3, <1>c, <2>1, <3>2 DEF Active
    <3> QED
      BY <2>4, <3>2, <3>3 DEF new
  <2> QED
    BY <2>2, <2>3, <2>4
<1>4. ASSUME r.status = "DEAD_LETTER"
      PROVE  /\ Commits(Written(r, m, Requeued(m)), r, Requeued(m))
             /\ Requeued(m).status = "QUEUED"
  <2> DEFINE new == Requeued(m)
  <2>1. new \in Row
    BY <1>0, RowOperators
  <2>2. /\ new.status = "QUEUED"
        /\ new.started = "none"
        /\ new.delivered = "none"
        /\ new.dead = "none"
    BY <1>0 DEF Requeued, Row
  <2> HIDE DEF new
  <2>3. Commits(Written(r, m, new), r, new)
    BY <1>4, <1>c, <2>1, <2>2
  <2> QED
    BY <2>2, <2>3 DEF new
<1> QED
  BY <1>1, <1>2, <1>3, <1>4 DEF m

-----------------------------------------------------------------------------
(* Steps, seen from one delivery. *)

\* Session t is to delivery d what it was.
Like(t, d) ==
  /\ Owns(t, d)' <=> Owns(t, d)
  /\ Owns(t, d) =>
       /\ mem'[t][d] = mem[t][d]
       /\ \A status \in DeliveryStatus : Fits(t, status) => Fits(t, status)'
  /\ Told(t, d)' <=> Told(t, d)

\* Session t stands still, or has nothing to do with d.
Untouched(t, d) ==
  \/ /\ pc'[t] = pc[t] /\ outcome'[t] = outcome[t]
     /\ d \in batch'[t] <=> d \in batch[t]
     /\ mem'[t][d] = mem[t][d]
  \/ d \notin batch[t] /\ d \notin batch'[t]

SameQueues(d) ==
  /\ ready'[d] = ready[d] /\ deferred'[d] = deferred[d]
  /\ d \in posting' <=> d \in posting

\* Whoever stands still is what he was.
LEMMA UntouchedLike ==
  ASSUME NEW t, NEW d, Untouched(t, d)
  PROVE  Like(t, d)
<1>1. CASE d \notin batch[t] /\ d \notin batch'[t]
  BY <1>1 DEF Like, Owns, Holds, Told
<1>2. CASE /\ pc'[t] = pc[t] /\ outcome'[t] = outcome[t]
           /\ d \in batch'[t] <=> d \in batch[t]
           /\ mem'[t][d] = mem[t][d]
  <2>1. Owns(t, d)' <=> Owns(t, d)
    BY <1>2 DEF Owns, Holds
  <2>2. Told(t, d)' <=> Told(t, d)
    BY <1>2 DEF Told
  <2>3. \A status \in DeliveryStatus : Fits(t, status) => Fits(t, status)'
    BY <1>2 DEF Fits
  <2> QED
    BY <1>2, <2>1, <2>2, <2>3 DEF Like
<1> QED
  BY <1>1, <1>2 DEF Untouched

\* An owner holds the delivery, and whoever was told of it owns it.
LEMMA ToldOwns ==
  ASSUME NEW t, NEW d, Told(t, d)
  PROVE  Owns(t, d)
BY DEF Told, Owns, Holds

\* A step that leaves the owners alone, and the row and the jobs nearly so: a job
\* may come due and a timestamp may pass.
LEMMA Passing ==
  ASSUME TypeOK, TypeOK', NEW d \in Deliveries, Sound(d),
         Job(d)' <=> Job(d), OneJob(d)',
         Remembered(row'[d]) = Remembered(row[d]),
         Fresh(row[d])', Stamped(row[d])',
         acks'[d] = acks[d],
         \A t \in Sessions : Like(t, d)
  PROVE  Sound(d)'
<1>0. row[d].status \in DeliveryStatus /\ row'[d].status = row[d].status
  <2>1. row[d] \in Row /\ row'[d] \in Row
    BY DEF TypeOK
  <2>2. row'[d].status = row[d].status
    BY <2>1, RememberedColumns
  <2> QED
    BY <2>1, <2>2 DEF Row
<1>1. Alone(d)'
  BY DEF Sound, Alone, Like
<1>2. JobRow(d)'
  BY <1>0 DEF Sound, JobRow
<1>3. OwnerRow(d)'
  BY <1>0 DEF Sound, OwnerRow, Like
<1>4. Attended(d)'
  BY <1>0 DEF Sound, Attended, Like
<1>5. TakenOnce(d)'
  BY <1>0 DEF Sound, TakenOnce, Like, Sessions
<1> QED
  BY <1>1, <1>2, <1>3, <1>4, <1>5 DEF Sound

\* A step that leaves row, jobs and owners alone.
LEMMA Frame ==
  ASSUME TypeOK, TypeOK', NEW d \in Deliveries, Sound(d), SameQueues(d),
         row'[d] = row[d], acks'[d] = acks[d],
         \A t \in Sessions : Like(t, d)
  PROVE  Sound(d)'
<1>1. OneJob(d)' /\ (Job(d)' <=> Job(d))
  BY DEF Sound, SameQueues, OneJob, Job
<1>2. Fresh(row[d])' /\ Stamped(row[d])'
  BY DEF Sound, Fresh, Stamped
<1> QED
  BY <1>1, <1>2, Passing

\* The owner goes on.
LEMMA Kept ==
  ASSUME NEW d \in Deliveries, Sound(d), SameQueues(d),
         NEW s \in Sessions, Owns(s, d), Owns(s, d)',
         \A t \in Sessions \ {s} : Like(t, d),
         mem'[s][d] = Remembered(row'[d]), Fits(s, row[d].status)',
         Fresh(row[d])', Stamped(row[d])', TakenOnce(d)'
  PROVE  Sound(d)'
<1>1. \A t \in Sessions : Owns(t, d) => t = s
  BY DEF Sound, Alone
<1>2. \A t \in Sessions : Owns(t, d)' => t = s
  BY <1>1 DEF Like
<1>3. ~Job(d) /\ ~Job(d)'
  BY DEF Sound, Alone, SameQueues, Job
<1>4. OneJob(d)'
  BY DEF Sound, SameQueues, OneJob
<1>5. Alone(d)' /\ OwnerRow(d)'
  BY <1>2, <1>3 DEF Alone, OwnerRow
<1>6. JobRow(d)' /\ Attended(d)'
  BY <1>3 DEF JobRow, Attended
<1> QED
  BY <1>4, <1>5, <1>6 DEF Sound

\* The owner hands over to a job, or the delivery is settled.
LEMMA Released ==
  ASSUME NEW d \in Deliveries, Sound(d),
         NEW s \in Sessions, Owns(s, d), ~Owns(s, d)',
         \A t \in Sessions \ {s} : Like(t, d),
         OneJob(d)', JobRow(d)', row'[d].status \in Active => Job(d)',
         Fresh(row[d])', Stamped(row[d])', TakenOnce(d)'
  PROVE  Sound(d)'
<1>1. \A t \in Sessions : Owns(t, d) => t = s
  BY DEF Sound, Alone
<1>2. \A t \in Sessions : ~Owns(t, d)'
  BY <1>1 DEF Like
<1>3. Alone(d)' /\ OwnerRow(d)' /\ Attended(d)'
  BY <1>2 DEF Alone, OwnerRow, Attended
<1> QED
  BY <1>3 DEF Sound

\* A session takes a delivery that no session owned, with its last job.
LEMMA Gained ==
  ASSUME TypeOK', NEW d \in Deliveries, Sound(d),
         NEW s \in Sessions, Owns(s, d)',
         \A t \in Sessions : ~Owns(t, d),
         \A t \in Sessions \ {s} : Like(t, d),
         row'[d] = row[d], acks'[d] = acks[d], ~Job(d)',
         mem'[s][d] = Remembered(row[d]), Fits(s, row[d].status)'
  PROVE  Sound(d)'
<1>1. \A t \in Sessions : Owns(t, d)' => t = s
  BY DEF Like
<1>2. Alone(d)' /\ OwnerRow(d)'
  BY <1>1 DEF Alone, OwnerRow
<1>3. OneJob(d)' /\ JobRow(d)' /\ Attended(d)'
  BY DEF OneJob, JobRow, Attended, Job, TypeOK
<1>4. Fresh(row[d])' /\ Stamped(row[d])'
  BY DEF Sound, Fresh, Stamped
<1>5. TakenOnce(d)'
  BY ToldOwns DEF Sound, TakenOnce, Sessions
<1> QED
  BY <1>2, <1>3, <1>4, <1>5 DEF Sound

-----------------------------------------------------------------------------
(* Steps of the whole engine. *)

OnlySession(s) ==
  \A t \in Sessions \ {s} :
    /\ pc'[t] = pc[t] /\ batch'[t] = batch[t]
    /\ mem'[t] = mem[t] /\ outcome'[t] = outcome[t]

OnlyDelivery(d) ==
  \A e \in Deliveries \ {d} :
    row'[e] = row[e] /\ SameQueues(e) /\ acks'[e] = acks[e]

\* What a session does is nothing to the others.
LEMMA OthersLike ==
  ASSUME NEW s \in Sessions, OnlySession(s), NEW d \in Deliveries
  PROVE  \A t \in Sessions \ {s} : Like(t, d)
<1>1. \A t \in Sessions \ {s} : Untouched(t, d)
  BY DEF OnlySession, Untouched
<1> QED
  BY <1>1, UntouchedLike

\* A step of one session on one delivery.
LEMMA OneStep ==
  ASSUME TypeOK, TypeOK', Calm,
         NEW s \in Sessions \ {Repair}, OnlySession(s),
         NEW d \in Deliveries, OnlyDelivery(d),
         \A e \in Deliveries \ {d} : Like(s, e),
         \A e, f \in batch'[s] : e = f,
         Sound(d)'
  PROVE  Calm'
<1>1. pc'[Repair] = "idle"
  BY DEF OnlySession, Calm, Sessions
<1>2. Single'
  BY DEF OnlySession, Calm, Single
<1>3. ASSUME NEW e \in Deliveries PROVE Sound(e)'
  <2>1. CASE e = d
    BY <2>1
  <2>2. CASE e # d
    <3>1. \A t \in Sessions : Like(t, e)
      BY <2>2, OthersLike
    <3> QED
      BY <2>2, <3>1, Frame DEF OnlyDelivery, Calm
  <2> QED
    BY <2>1, <2>2
<1> QED
  BY <1>1, <1>2, <1>3 DEF Calm

\* A step of a session that is no news to any delivery.
LEMMA Neutral ==
  ASSUME TypeOK, TypeOK', Calm, UNCHANGED <<row, queueVars, acks>>,
         NEW s \in Sessions \ {Repair}, OnlySession(s),
         batch'[s] \subseteq batch[s],
         \A d \in Deliveries : Like(s, d)
  PROVE  Calm'
<1>1. pc'[Repair] = "idle"
  BY DEF OnlySession, Calm, Sessions
<1>2. Single'
  BY DEF OnlySession, Calm, Single
<1>3. ASSUME NEW e \in Deliveries PROVE Sound(e)'
  <2>1. \A t \in Sessions : Like(t, e)
    BY OthersLike
  <2>2. SameQueues(e)
    BY DEF SameQueues, queueVars
  <2> QED
    BY <2>1, <2>2, Frame DEF Calm
<1> QED
  BY <1>1, <1>2, <1>3 DEF Calm

\* A step of no session.
LEMMA NoSession ==
  ASSUME Calm, UNCHANGED sessionVars,
         \A d \in Deliveries : Sound(d)'
  PROVE  Calm'
BY DEF Calm, Single, sessionVars

\* No fault without a budget.
LEMMA NoFault == TypeOK /\ FaultFree => ~Spend("faults")
BY DEF TypeOK, FaultFree, Spend, Budget

\* A commit of one delivery by a session that has its row in memory.
LEMMA SaveOne ==
  ASSUME TypeOK, NEW s \in Sessions, NEW d \in Deliveries,
         mem[s][d] = Remembered(row[d]), NEW new, Save(s, new), DOMAIN new = {d}
  PROVE  /\ row'[d] = Written(row[d], Remembered(row[d]), new[d])
         /\ mem'[s][d] = Remembered(new[d])
         /\ \A e \in Deliveries \ {d} : row'[e] = row[e] /\ mem'[s][e] = mem[s][e]
         /\ \A t \in Sessions \ {s} : mem'[t] = mem[t]
BY DEF Save, TypeOK

\* A session at work owns its delivery and has the row in memory.
LEMMA AtWork ==
  ASSUME TypeOK, Calm, NEW s \in Sessions \ {Repair}, NEW d \in batch[s],
         pc[s] \notin {"idle", "done"},
         pc[s] \in {"reading", "writing"} => s \in Apis
  PROVE  /\ d \in Deliveries /\ batch[s] = {d}
         /\ Sound(d) /\ Owns(s, d) /\ ~Job(d)
         /\ mem[s][d] = Remembered(row[d]) /\ Fits(s, row[d].status)
         /\ row[d] \in Row /\ Stamped(row[d])
         /\ ready[d] = 0 /\ deferred[d] = 0 /\ d \notin posting
<1>1. d \in Deliveries /\ batch[s] = {d}
  BY DEF TypeOK, Calm, Single
<1>2. Owns(s, d)
  BY DEF Owns, Holds
<1>3. Sound(d)
  BY <1>1 DEF Calm
<1>4. /\ ~Job(d)
      /\ mem[s][d] = Remembered(row[d]) /\ Fits(s, row[d].status)
      /\ Stamped(row[d])
  BY <1>2, <1>3 DEF Sound, Alone, OwnerRow
<1>5. row[d] \in Row /\ ready[d] \in Nat /\ deferred[d] \in Nat
  BY <1>1 DEF TypeOK
<1> QED
  BY <1>1, <1>2, <1>3, <1>4, <1>5 DEF Job

\* A worker that loads a job becomes its only owner.
LEMMA CalmLoad ==
  ASSUME TypeOK, TypeOK', Calm, NEW w \in Workers, NEW d \in Deliveries, Load(w, d)
  PROVE  Calm'
<1>0. w \in Sessions \ {Repair} /\ w \notin Apis
  BY DeliveryAssumption DEF Sessions
<1>1. /\ Sound(d) /\ Job(d)
      /\ ready[d] = 1 /\ deferred[d] = 0 /\ d \notin posting
  <2>1. Sound(d) /\ OneJob(d)
    BY DEF Calm, Sound
  <2>2. ready[d] \in Nat /\ deferred[d] \in Nat /\ ready[d] > 0
    BY DEF Load, TypeOK
  <2> QED
    BY <2>1, <2>2 DEF OneJob, Job
<1>2. \A t \in Sessions : ~Owns(t, d)
  BY <1>1 DEF Sound, Alone
<1>3. OnlySession(w)
  BY DEF Load, LoadRows, OnlySession, TypeOK
<1>4. /\ batch'[w] = {d} /\ pc'[w] = "loaded"
      /\ mem'[w][d] = Remembered(row[d])
      /\ row' = row /\ acks' = acks
  BY <1>0 DEF Load, LoadRows, TypeOK, dbVars, histVars
<1>5. OnlyDelivery(d)
  BY <1>4 DEF Load, OnlyDelivery, SameQueues, TypeOK
<1>6. \A e \in Deliveries \ {d} : Like(w, e)
  BY <1>4 DEF Load, Like, Owns, Holds, Told
<1>7. Owns(w, d)' /\ Fits(w, row[d].status)'
  BY <1>0, <1>1, <1>4 DEF Owns, Holds, Fits, Sound, JobRow
<1>8. ~Job(d)'
  BY <1>1 DEF Load, Job, TypeOK
<1>9. Sound(d)'
  BY <1>0, <1>1, <1>2, <1>3, <1>4, <1>7, <1>8, OthersLike, Gained
<1> QED
  BY <1>0, <1>3, <1>4, <1>5, <1>6, <1>9, OneStep

\* A manual retry that loads a dead letter becomes its only owner.
LEMMA CalmRetryLoad ==
  ASSUME FaultFree, TypeOK, TypeOK', Calm,
         NEW a \in Apis, NEW d \in Deliveries, RetryLoad(a, d)
  PROVE  Calm'
<1>0. a \in Sessions \ {Repair}
  BY DeliveryAssumption DEF Sessions
<1>1. /\ Sound(d) /\ row[d].status = "DEAD_LETTER" /\ ~Job(d)
  BY DEF RetryLoad, Failed, Calm, Sound, JobRow, TypeOK, Row, DeliveryStatus, Active, Final
<1>2. \A t \in Sessions : ~Owns(t, d)
  <2>1. SUFFICES ASSUME NEW t \in Sessions, Owns(t, d) PROVE FALSE
    OBVIOUS
  <2>2. Fits(t, "DEAD_LETTER")
    BY <1>1, <2>1 DEF Sound, OwnerRow
  <2>3. t \in Apis /\ pc[t] = "loaded"
    BY <2>2 DEF Fits
  <2>4. t = a
    BY <2>3 DEF FaultFree
  <2> QED
    BY <2>3, <2>4 DEF RetryLoad
<1>3. OnlySession(a)
  BY DEF RetryLoad, LoadRows, OnlySession, TypeOK
<1>4. /\ batch'[a] = {d} /\ pc'[a] = "loaded"
      /\ mem'[a][d] = Remembered(row[d])
      /\ row' = row /\ acks' = acks
  BY <1>0 DEF RetryLoad, LoadRows, TypeOK, dbVars, histVars
<1>5. OnlyDelivery(d)
  BY <1>4 DEF RetryLoad, queueVars, OnlyDelivery, SameQueues, TypeOK
<1>6. \A e \in Deliveries \ {d} : Like(a, e)
  BY <1>4 DEF RetryLoad, Like, Owns, Holds, Told
<1>7. Owns(a, d)' /\ Fits(a, row[d].status)'
  BY <1>0, <1>1, <1>4 DEF Owns, Holds, Fits
<1>8. ~Job(d)'
  BY <1>1 DEF RetryLoad, queueVars, Job
<1>9. Sound(d)'
  BY <1>0, <1>1, <1>2, <1>3, <1>4, <1>7, <1>8, OthersLike, Gained
<1> QED
  BY <1>0, <1>3, <1>4, <1>5, <1>6, <1>9, OneStep

\* Nobody took a delivery that is not delivered, unless its owner was told so.
LEMMA Untaken ==
  ASSUME TypeOK, NEW d \in Deliveries, Sound(d),
         NEW s \in Sessions, Owns(s, d), ~Told(s, d), row[d].status # "SUCCESS"
  PROVE  acks[d] = 0
<1>1. \A w \in Workers : ~Told(w, d)
  BY ToldOwns DEF Sound, Alone, Sessions
<1>2. acks[d] \in Nat
  BY DEF TypeOK
<1> QED
  BY <1>1, <1>2 DEF Sound, TakenOnce

\* The owner commits the row: it goes on, or the delivery is settled.
LEMMA CommitStep ==
  ASSUME TypeOK, TypeOK', Calm,
         NEW s \in Sessions \ {Repair}, NEW d \in batch[s],
         pc[s] \notin {"idle", "done", "reading", "writing"},
         NEW new, DOMAIN new = {d}, Save(s, new),
         Commits(Written(row[d], Remembered(row[d]), new[d]), row[d], new[d]),
         UNCHANGED <<queueVars, batch, acks>>,
         \A t \in Sessions \ {s} : pc'[t] = pc[t] /\ outcome'[t] = outcome[t],
         NEW status, new[d].status = status, Owns(s, d)' => Fits(s, status)',
         ~Owns(s, d)' => new[d].status \notin Active,
         acks[d] = 0 \/ new[d].status = "SUCCESS"
  PROVE  Calm'
<1>0. /\ d \in Deliveries /\ batch[s] = {d}
      /\ Sound(d) /\ Owns(s, d) /\ ~Job(d)
      /\ mem[s][d] = Remembered(row[d])
  BY AtWork
<1>1. /\ row'[d] = Written(row[d], Remembered(row[d]), new[d])
      /\ mem'[s][d] = Remembered(new[d])
      /\ \A e \in Deliveries \ {d} : row'[e] = row[e] /\ mem'[s][e] = mem[s][e]
      /\ \A t \in Sessions \ {s} : mem'[t] = mem[t]
  BY <1>0, SaveOne
<1>2. /\ row'[d].status = new[d].status
      /\ mem'[s][d] = Remembered(row'[d])
      /\ Fresh(row[d])' /\ Stamped(row[d])'
  BY <1>1 DEF Commits, Fresh, Stamped
<1>3. OnlySession(s)
  BY <1>1 DEF OnlySession
<1>4. \A e \in Deliveries : SameQueues(e)
  BY DEF SameQueues, queueVars
<1>5. OnlyDelivery(d)
  BY <1>1, <1>4 DEF OnlyDelivery
<1>6. \A e \in Deliveries \ {d} : Like(s, e)
  BY <1>0, UntouchedLike DEF Untouched
<1>7. TakenOnce(d)'
  BY <1>0, <1>2 DEF Sound, TakenOnce
<1>8. OneJob(d)' /\ ~Job(d)'
  BY <1>0, <1>4 DEF Sound, OneJob, Job, SameQueues
<1>9. \A t \in Sessions \ {s} : Like(t, d)
  BY <1>0, <1>3, OthersLike
<1>10. CASE Owns(s, d)'
  <2>1. Fits(s, row[d].status)'
    BY <1>2, <1>10
  <2> QED
    BY <1>0, <1>2, <1>3, <1>4, <1>5, <1>6, <1>7, <1>9, <1>10, <2>1, Kept, OneStep
       DEF Calm, Single
<1>11. CASE ~Owns(s, d)'
  <2>1. JobRow(d)' /\ row'[d].status \notin Active
    BY <1>2, <1>8, <1>11 DEF JobRow
  <2>2. Sound(d)'
    BY <1>0, <1>2, <1>7, <1>8, <1>9, <1>11, <2>1, Released
  <2> QED
    BY <1>0, <1>3, <1>5, <1>6, <2>2, OneStep DEF Calm, Single
<1> QED
  BY <1>10, <1>11

\* The owner enqueues the job of its delivery and is through with it.
LEMMA HandOver ==
  ASSUME TypeOK, TypeOK', Calm,
         NEW s \in Sessions \ {Repair}, NEW d \in batch[s],
         pc[s] \notin {"idle", "done"},
         pc[s] \in {"reading", "writing"} => s \in Apis,
         ~Told(s, d), row[d].status \in {"QUEUED", "RETRYING"},
         \/ Enqueue(d) /\ UNCHANGED deferred
         \/ EnqueueLater(d) /\ UNCHANGED ready,
         UNCHANGED <<row, posting, acks>>, OnlySession(s),
         batch'[s] \subseteq batch[s], ~Owns(s, d)', ~Told(s, d)'
  PROVE  Calm'
<1>0. /\ d \in Deliveries /\ batch[s] = {d}
      /\ Sound(d) /\ Owns(s, d)
      /\ ready[d] = 0 /\ deferred[d] = 0 /\ d \notin posting
  BY AtWork
<1>1. \A e \in Deliveries \ {d} : Like(s, e)
  BY <1>0, UntouchedLike DEF Untouched
<1>2. /\ ready'[d] + deferred'[d] = 1
      /\ ready'[d] > 0 \/ deferred'[d] > 0
      /\ d \notin posting'
      /\ \A e \in Deliveries \ {d} : ready'[e] = ready[e] /\ deferred'[e] = deferred[e]
  <2>1. CASE Enqueue(d) /\ UNCHANGED deferred
    BY <1>0, <2>1 DEF Enqueue, TypeOK
  <2>2. CASE EnqueueLater(d) /\ UNCHANGED ready
    BY <1>0, <2>2 DEF EnqueueLater, TypeOK
  <2> QED
    BY <2>1, <2>2
<1>3. OnlyDelivery(d)
  BY <1>2 DEF OnlyDelivery, SameQueues
<1>4. OneJob(d)' /\ Job(d)' /\ JobRow(d)'
  BY <1>2 DEF OneJob, Job, JobRow
<1>5. \A t \in Sessions \ {s} : Like(t, d)
  BY <1>0, OthersLike
<1>6. acks[d] = 0
  BY <1>0, Untaken
<1>7. Fresh(row[d])' /\ Stamped(row[d])' /\ TakenOnce(d)'
  BY <1>0, <1>6 DEF Sound, Fresh, Stamped, TakenOnce
<1>8. Sound(d)'
  BY <1>0, <1>4, <1>5, <1>7, Released
<1> QED
  BY <1>0, <1>1, <1>3, <1>8, OneStep

\* A session that stays owner, or stays none, as a status is derived and written.
LEMMA CalmStatus ==
  ASSUME TypeOK, TypeOK', Calm, UNCHANGED <<row, queueVars, acks, batch, mem, outcome>>,
         NEW s \in Sessions \ {Repair}, pc[s] \in {"reading", "writing"},
         \A t \in Sessions \ {s} : pc'[t] = pc[t],
         \/ pc'[s] = "writing"
         \/ s \in Apis /\ pc'[s] = "requeue"
         \/ /\ s \notin Apis
            /\ \E d \in batch[s] :
                 pc'[s] = IF outcome[s] = "transient" /\ mem[s][d].status = "RETRYING"
                          THEN "rescheduling" ELSE "done"
  PROVE  Calm'
<1>1. OnlySession(s)
  BY DEF OnlySession
<1>2. \A d, e \in batch[s] : d = e
  BY DEF Calm, Single
<1>3. ASSUME NEW d \in Deliveries PROVE Like(s, d)
  <2>1. CASE d \notin batch[s]
    BY <2>1, UntouchedLike DEF Untouched
  <2>2. CASE d \in batch[s]
    <3>1. Owns(s, d)' <=> Owns(s, d)
      BY <1>2, <2>2 DEF Owns, Holds
    <3>2. Owns(s, d) => \A status \in DeliveryStatus : Fits(s, status) => Fits(s, status)'
      BY <1>2, <2>2 DEF Fits
    <3>3. ~Told(s, d) /\ ~Told(s, d)'
      BY DEF Told
    <3> QED
      BY <3>1, <3>2, <3>3 DEF Like
  <2> QED
    BY <2>1, <2>2
<1> QED
  BY <1>1, <1>3, Neutral

\* Every step of the engine without faults keeps it calm.
LEMMA CalmStep ==
  FaultFree /\ IInv /\ IInv' /\ Births /\ Calm /\ [Next]_vars => Calm'
<1> SUFFICES ASSUME FaultFree, IInv, IInv', Births, Calm, [Next]_vars PROVE Calm'
  OBVIOUS
<1> USE DEF dbVars, queueVars, sessionVars, histVars
<1>0. TypeOK /\ TypeOK' /\ MessageBorn /\ JobBorn /\ BatchBorn /\ AnswerKnown
  BY DEF IInv, Births
<1>a. /\ Workers \subseteq Sessions \ {Repair} /\ Apis \subseteq Sessions \ {Repair}
      /\ Workers \cap Apis = {}
  BY DeliveryAssumption DEF Sessions
<1>f. ~Spend("faults") /\ pc[Repair] = "idle"
  BY <1>0, NoFault DEF Calm
<1>1. ASSUME NEW m \in Messages, Accept(m) PROVE Calm'
  <2>1. ASSUME NEW d \in Deliveries PROVE Sound(d)'
    <3>a. Sound(d) /\ \A t \in Sessions : Like(t, d)
      BY <1>1, UntouchedLike DEF Accept, Untouched, Calm
    <3>1. CASE MessageOf[d] # m
      <4>1. SameQueues(d) /\ row'[d] = row[d] /\ acks'[d] = acks[d]
        BY <1>1, <3>1 DEF Accept, SameQueues, DeliveriesOf
      <4> QED
        BY <1>0, <3>a, <4>1, Frame
    <3>2. CASE MessageOf[d] = m
      <4>1. row[d].status = "ABSENT"
        BY <1>0, <1>1, <3>2 DEF Accept, MessageBorn, Born
      <4>2. ready[d] = 0 /\ deferred[d] = 0 /\ \A t \in Sessions : ~Owns(t, d)
        BY <1>0, <4>1 DEF JobBorn, BatchBorn, Born, TypeOK, Owns, Holds
      <4>3. /\ row'[d] = [NoRow EXCEPT !.status = "QUEUED", !.updated = "recent"]
            /\ d \in posting' /\ ready'[d] = 0 /\ deferred'[d] = 0 /\ acks'[d] = acks[d]
        BY <1>1, <3>2, <4>2 DEF Accept, DeliveriesOf
      <4>4. /\ row'[d].status = "QUEUED" /\ row'[d].updated = "recent"
            /\ row'[d].started = "none" /\ row'[d].delivered = "none"
            /\ row'[d].dead = "none"
        BY <4>3 DEF NoRow
      <4>5. Fresh(row[d])' /\ Stamped(row[d])'
        BY <4>4 DEF Fresh, Stamped
      <4>6. OneJob(d)' /\ Job(d)' /\ JobRow(d)' /\ Attended(d)'
        BY <4>3, <4>4 DEF OneJob, Job, JobRow, Attended
      <4>7. Alone(d)' /\ OwnerRow(d)'
        BY <3>a, <4>2 DEF Alone, OwnerRow, Like
      <4>8. \A w \in Workers : ~Told(w, d)
        BY <1>a, <4>2, ToldOwns
      <4>9. TakenOnce(d)'
        BY <3>a, <4>1, <4>3, <4>8 DEF Sound, TakenOnce
      <4> QED
        BY <4>5, <4>6, <4>7, <4>9 DEF Sound
    <3> QED
      BY <3>1, <3>2
  <2> QED
    BY <1>1, <2>1, NoSession DEF Accept
<1>2. ASSUME NEW d \in Deliveries, PostJob(d) PROVE Calm'
  <2>1. ASSUME NEW e \in Deliveries PROVE Sound(e)'
    <3>a. Sound(e) /\ \A t \in Sessions : Like(t, e)
      BY <1>2, UntouchedLike DEF PostJob, Untouched, Calm
    <3>1. CASE e # d
      <4>1. SameQueues(e) /\ row'[e] = row[e] /\ acks'[e] = acks[e]
        BY <1>0, <1>2, <3>1 DEF PostJob, Enqueue, SameQueues, TypeOK
      <4> QED
        BY <1>0, <3>a, <4>1, Frame
    <3>2. CASE e = d
      <4>1. ready[d] = 0 /\ deferred[d] = 0 /\ d \in posting
        BY <1>0, <1>2, <3>a, <3>2 DEF PostJob, Sound, OneJob, TypeOK
      <4>2. OneJob(d)' /\ Job(d) /\ Job(d)'
        BY <1>0, <1>2, <4>1 DEF PostJob, Enqueue, OneJob, Job, TypeOK
      <4>3. Fresh(row[d])' /\ Stamped(row[d])' /\ row'[d] = row[d] /\ acks'[d] = acks[d]
        BY <1>2, <3>a, <3>2 DEF PostJob, Sound, Fresh, Stamped
      <4> QED
        BY <1>0, <3>a, <3>2, <4>2, <4>3, Passing
    <3> QED
      BY <3>1, <3>2
  <2> QED
    BY <1>2, <2>1, NoSession DEF PostJob
<1>3. ASSUME NEW m \in Messages, PostFails(m) PROVE Calm'
  BY <1>3, <1>f DEF PostFails
<1>4. ASSUME NEW w \in Workers, NEW d \in Deliveries, Load(w, d) PROVE Calm'
  BY <1>0, <1>4, CalmLoad
<1>5. ASSUME NEW w \in Workers, Skip(w) PROVE Calm'
  <2>1. PICK d \in batch[w] : mem[w][d].status \in Final
    BY <1>5 DEF Skip
  <2>2. mem[w][d] = Remembered(row[d]) /\ Fits(w, row[d].status) /\ row[d] \in Row
    BY <1>0, <1>5, <1>a, AtWork DEF Skip
  <2>3. mem[w][d].status \in {"QUEUED", "RETRYING"}
    BY <1>5, <1>a, <2>2, RememberedColumns DEF Skip, Fits
  <2> QED
    BY <2>1, <2>3 DEF Final
<1>6. ASSUME NEW w \in Workers, NEW d \in Deliveries, Reject(w, d) PROVE Calm'
  <2> DEFINE new == [x \in {d} |-> Attempted("permanent", mem[w][x])]
  <2>1. /\ d \in batch[w] /\ pc[w] = "loaded" /\ Save(w, new)
    BY <1>6 DEF Reject, Deliverable
  <2>2. /\ Sound(d) /\ Owns(w, d) /\ row[d] \in Row /\ Stamped(row[d])
        /\ mem[w][d] = Remembered(row[d]) /\ Fits(w, row[d].status)
    BY <1>0, <1>a, <2>1, AtWork
  <2>3. row[d].status \in {"QUEUED", "RETRYING"}
    BY <1>a, <2>1, <2>2 DEF Fits
  <2>4. /\ new[d] = Attempted("permanent", mem[w][d])
        /\ Commits(Written(row[d], Remembered(row[d]), new[d]), row[d], new[d])
        /\ new[d].status = "DEAD_LETTER"
    BY <2>2, <2>3, CommitsRow DEF Active, WillRetry
  <2>5. acks[d] = 0
    BY <1>0, <1>a, <2>1, <2>2, <2>3, Untaken DEF Told
  <2>6. /\ pc' = [pc EXCEPT ![w] = "reading"]
        /\ outcome' = [outcome EXCEPT ![w] = "permanent"]
        /\ UNCHANGED <<queueVars, batch, acks>>
    BY <1>6 DEF Reject, GoTo
  <2>7. ~Owns(w, d)'
    BY <1>0, <1>a, <2>6 DEF Owns, TypeOK
  <2>8. DOMAIN new = {d}
    OBVIOUS
  <2> HIDE DEF new
  <2> QED
    BY <1>0, <1>a, <2>1, <2>4, <2>5, <2>6, <2>7, <2>8, CommitStep DEF Active, TypeOK
<1>7. ASSUME NEW w \in Workers, NEW d \in Deliveries, DeferForLimit(w, d) PROVE Calm'
  <2> DEFINE new == [x \in {d} |-> Limited(mem[w][x])]
  <2>1. /\ d \in batch[w] /\ pc[w] = "loaded" /\ Save(w, new)
    BY <1>7 DEF DeferForLimit, Deliverable
  <2>2. /\ Sound(d) /\ Owns(w, d) /\ row[d] \in Row /\ Stamped(row[d])
        /\ mem[w][d] = Remembered(row[d]) /\ Fits(w, row[d].status)
    BY <1>0, <1>a, <2>1, AtWork
  <2>3. row[d].status \in {"QUEUED", "RETRYING"}
    BY <1>a, <2>1, <2>2 DEF Fits
  <2>4. /\ new[d] = Limited(mem[w][d])
        /\ Commits(Written(row[d], Remembered(row[d]), new[d]), row[d], new[d])
        /\ new[d].status = "RETRYING"
    BY <2>2, <2>3, CommitsRow
  <2>5. acks[d] = 0
    BY <1>0, <1>a, <2>1, <2>2, <2>3, Untaken DEF Told
  <2>6. /\ pc' = [pc EXCEPT ![w] = "deferring"]
        /\ outcome' = [outcome EXCEPT ![w] = "limited"]
        /\ UNCHANGED <<queueVars, batch, acks>>
    BY <1>7 DEF DeferForLimit, GoTo
  <2>7. Owns(w, d)' /\ Fits(w, "RETRYING")'
    BY <1>0, <1>7, <1>a, <2>1, <2>4, <2>6 DEF Owns, Holds, Fits, TypeOK
  <2>8. DOMAIN new = {d}
    OBVIOUS
  <2> HIDE DEF new
  <2> QED
    BY <1>0, <1>a, <2>1, <2>4, <2>5, <2>6, <2>7, <2>8, CommitStep DEF TypeOK
<1>8. ASSUME NEW w \in Workers, NEW d \in Deliveries, EnqueueDeferred(w, d) PROVE Calm'
  <2>1. d \in batch[w] /\ pc[w] = "deferring"
    BY <1>8 DEF EnqueueDeferred
  <2>2. Fits(w, row[d].status)
    BY <1>0, <1>a, <2>1, AtWork
  <2>3. row[d].status = "RETRYING"
    BY <1>a, <2>1, <2>2 DEF Fits
  <2>4. /\ pc' = [pc EXCEPT ![w] = "reading"]
        /\ EnqueueLater(d)
        /\ UNCHANGED <<row, ready, posting, acks, batch, mem, outcome>>
    BY <1>8 DEF EnqueueDeferred, GoTo
  <2>5. OnlySession(w) /\ pc'[w] = "reading"
    BY <1>0, <1>a, <2>4 DEF OnlySession, TypeOK
  <2>6. ~Told(w, d) /\ ~Told(w, d)'
    BY <2>1, <2>5 DEF Told
  <2>7. outcome[w] # "transient"
    BY <1>a, <2>1, <2>2 DEF Fits
  <2>8. ~Owns(w, d)'
    BY <1>a, <2>4, <2>5, <2>7 DEF Owns
  <2> QED
    BY <1>0, <1>a, <2>1, <2>3, <2>4, <2>5, <2>6, <2>8, HandOver
<1>9. ASSUME NEW w \in Workers, NEW d \in Deliveries, StartSending(w, d) PROVE Calm'
  <2> DEFINE new == [x \in {d} |-> MarkSending(mem[w][x])]
  <2>1. /\ d \in batch[w] /\ pc[w] = "loaded" /\ Save(w, new)
    BY <1>9 DEF StartSending, Deliverable
  <2>2. /\ Sound(d) /\ Owns(w, d) /\ row[d] \in Row /\ Stamped(row[d])
        /\ mem[w][d] = Remembered(row[d]) /\ Fits(w, row[d].status)
    BY <1>0, <1>a, <2>1, AtWork
  <2>3. row[d].status \in {"QUEUED", "RETRYING"}
    BY <1>a, <2>1, <2>2 DEF Fits
  <2>4. /\ new[d] = MarkSending(mem[w][d])
        /\ Commits(Written(row[d], Remembered(row[d]), new[d]), row[d], new[d])
        /\ new[d].status = "SENDING"
    BY <2>2, <2>3, CommitsRow
  <2>5. acks[d] = 0
    BY <1>0, <1>a, <2>1, <2>2, <2>3, Untaken DEF Told
  <2>6. /\ pc' = [pc EXCEPT ![w] = "sending"]
        /\ UNCHANGED <<outcome, queueVars, batch, acks>>
    BY <1>9 DEF StartSending, GoTo
  <2>7. Owns(w, d)' /\ Fits(w, "SENDING")'
    BY <1>0, <1>a, <2>1, <2>4, <2>6 DEF Owns, Holds, Fits, TypeOK
  <2>8. DOMAIN new = {d}
    OBVIOUS
  <2> HIDE DEF new
  <2> QED
    BY <1>0, <1>a, <2>1, <2>4, <2>5, <2>6, <2>7, <2>8, CommitStep DEF TypeOK
<1>10. ASSUME NEW w \in Workers, NEW d \in Deliveries, Answer(w, d) PROVE Calm'
  <2>1. d \in batch[w] /\ pc[w] = "sending"
    BY <1>10 DEF Answer
  <2>2. /\ Sound(d) /\ Owns(w, d) /\ batch[w] = {d}
        /\ mem[w][d] = Remembered(row[d]) /\ Fits(w, row[d].status)
    BY <1>0, <1>a, <2>1, AtWork
  <2>3. row[d].status = "SENDING"
    BY <1>a, <2>1, <2>2 DEF Fits
  <2>4. acks[d] = 0
    BY <1>0, <1>a, <2>1, <2>2, <2>3, Untaken DEF Told
  <2>5. /\ pc' = [pc EXCEPT ![w] = "answered"]
        /\ \E result \in Outcome :
             /\ outcome' = [outcome EXCEPT ![w] = result]
             /\ acks' = IF result = "ok" THEN [acks EXCEPT ![d] = @ + 1] ELSE acks
        /\ UNCHANGED <<row, queueVars, batch, mem>>
    BY <1>10 DEF Answer, GoTo, Outcome
  <2>6. /\ pc'[w] = "answered"
        /\ acks'[d] = IF outcome'[w] = "ok" THEN 1 ELSE 0
        /\ \A e \in Deliveries \ {d} : acks'[e] = acks[e]
        /\ OnlySession(w)
    BY <1>0, <1>a, <2>4, <2>5 DEF TypeOK, OnlySession
  <2>7. Owns(w, d)' /\ Fits(w, row[d].status)'
    BY <1>a, <2>1, <2>3, <2>5, <2>6 DEF Owns, Holds, Fits
  <2>8. TakenOnce(d)'
    BY <2>1, <2>5, <2>6 DEF TakenOnce, Told
  <2>9. Fresh(row[d])' /\ Stamped(row[d])' /\ mem'[w][d] = Remembered(row'[d])
    BY <2>2, <2>5 DEF Sound, Fresh, Stamped
  <2>10. /\ \A e \in Deliveries : SameQueues(e)
         /\ OnlyDelivery(d)
         /\ \A e, f \in batch'[w] : e = f
    BY <2>2, <2>5, <2>6 DEF OnlyDelivery, SameQueues
  <2>11. \A e \in Deliveries \ {d} : Like(w, e)
    BY <2>2, <2>5, UntouchedLike DEF Untouched
  <2>12. Sound(d)'
    BY <1>a, <2>2, <2>6, <2>7, <2>8, <2>9, <2>10, OthersLike, Kept
  <2> QED
    BY <1>0, <1>a, <2>6, <2>10, <2>11, <2>12, OneStep
<1>11. ASSUME NEW w \in Workers, NEW d \in Deliveries, RecordAttempt(w, d) PROVE Calm'
  <2> DEFINE new == [x \in {d} |-> Attempted(outcome[w], mem[w][x])]
  <2>1. /\ d \in batch[w] /\ pc[w] = "answered" /\ Save(w, new)
    BY <1>11 DEF RecordAttempt
  <2>2. /\ Sound(d) /\ Owns(w, d) /\ row[d] \in Row /\ Stamped(row[d])
        /\ mem[w][d] = Remembered(row[d]) /\ Fits(w, row[d].status)
    BY <1>0, <1>a, <2>1, AtWork
  <2>3. row[d].status = "SENDING"
    BY <1>a, <2>1, <2>2 DEF Fits
  <2>4. /\ new[d] = Attempted(outcome[w], mem[w][d])
        /\ Commits(Written(row[d], Remembered(row[d]), new[d]), row[d], new[d])
        /\ new[d].status = IF outcome[w] = "ok" THEN "SUCCESS"
                            ELSE IF WillRetry(outcome[w], mem[w][d])
                                   THEN "RETRYING" ELSE "DEAD_LETTER"
    BY <2>2, <2>3, CommitsRow DEF Active
  <2>5. acks[d] = 0 \/ new[d].status = "SUCCESS"
    BY <1>0, <1>a, <2>1, <2>2, <2>3, <2>4, Untaken DEF Told
  <2>6. /\ pc' = [pc EXCEPT ![w] = "reading"]
        /\ UNCHANGED <<outcome, queueVars, batch, acks>>
    BY <1>11 DEF RecordAttempt, GoTo
  <2>d. DOMAIN new = {d} /\ d \in Deliveries
    OBVIOUS
  <2>r. new[d] \in Row
    BY <2>2, <2>4, RowOperators
  <2> HIDE DEF new
  <2>m. mem'[w][d] = Remembered(new[d])
    BY <1>0, <1>a, <2>1, <2>2, <2>d, SaveOne
  <2>7. /\ mem'[w][d] = Remembered(new[d]) /\ new[d] \in Row
        /\ pc'[w] = "reading"
    BY <1>0, <1>a, <2>6, <2>m, <2>r DEF TypeOK
  <2>8. mem'[w][d].status = new[d].status
    BY <2>7, RememberedColumns
  <2>9. ~Owns(w, d)' => new[d].status \notin Active
    BY <1>a, <2>1, <2>4, <2>6, <2>7, <2>8 DEF Owns, Holds, WillRetry, Active
  <2>10. ASSUME NEW status, new[d].status = status
         PROVE  Owns(w, d)' => Fits(w, status)'
    BY <1>a, <2>6, <2>7, <2>8, <2>10 DEF Owns, Fits
  <2> QED
    BY <1>0, <1>a, <2>1, <2>4, <2>5, <2>6, <2>9, <2>10, <2>d, CommitStep DEF TypeOK
<1>12. ASSUME NEW w \in Workers, NEW d \in Deliveries, Reschedule(w, d) PROVE Calm'
  <2>1. d \in batch[w] /\ pc[w] = "rescheduling"
    BY <1>12 DEF Reschedule
  <2>2. Fits(w, row[d].status)
    BY <1>0, <1>a, <2>1, AtWork
  <2>3. row[d].status = "RETRYING"
    BY <1>a, <2>1, <2>2 DEF Fits
  <2>4. /\ pc' = [pc EXCEPT ![w] = "done"]
        /\ EnqueueLater(d)
        /\ UNCHANGED <<row, ready, posting, acks, batch, mem, outcome>>
    BY <1>12 DEF Reschedule, GoTo
  <2>5. OnlySession(w) /\ pc'[w] = "done"
    BY <1>0, <1>a, <2>4 DEF OnlySession, TypeOK
  <2>6. ~Told(w, d) /\ ~Told(w, d)' /\ ~Owns(w, d)'
    BY <2>1, <2>5 DEF Told, Owns, Holds
  <2> QED
    BY <1>0, <1>a, <2>1, <2>3, <2>4, <2>5, <2>6, HandOver
<1>13. ASSUME NEW w \in Workers, Finish(w) PROVE Calm'
  <2>1. /\ OnlySession(w) /\ pc[w] = "done" /\ pc'[w] = "idle" /\ batch'[w] = {}
        /\ UNCHANGED <<row, queueVars, acks>>
    BY <1>0, <1>13, <1>a DEF Finish, Forget, OnlySession, TypeOK
  <2>2. \A d \in Deliveries : Like(w, d)
    BY <2>1 DEF Like, Owns, Holds, Told
  <2> QED
    BY <1>0, <1>a, <2>1, <2>2, Neutral
<1>14. ASSUME NEW w \in Workers, Crash(w) PROVE Calm'
  BY <1>14, <1>f DEF Crash
<1>15. ASSUME NEW w \in Workers, JobFails(w) PROVE Calm'
  BY <1>15, <1>f DEF JobFails
<1>16. ASSUME NEW s \in Sessions, NEW m \in Messages, ReadStatus(s, m) PROVE Calm'
  <2>1. s \in Sessions \ {Repair} /\ pc[s] = "reading"
    BY <1>16, <1>f DEF ReadStatus
  <2>2. /\ pc'[s] = "writing" /\ \A t \in Sessions \ {s} : pc'[t] = pc[t]
        /\ UNCHANGED <<row, queueVars, acks, batch, mem, outcome>>
    BY <1>0, <1>16 DEF ReadStatus, GoTo, TypeOK
  <2> QED
    BY <1>0, <2>1, <2>2, CalmStatus
<1>17. ASSUME NEW w \in Workers, NEW d \in Deliveries, WriteStatus(w, d) PROVE Calm'
  <2>1. d \in batch[w] /\ pc[w] = "writing"
    BY <1>17 DEF WriteStatus, CommitStatus
  <2>2. /\ pc'[w] = IF outcome[w] = "transient" /\ mem[w][d].status = "RETRYING"
                    THEN "rescheduling" ELSE "done"
        /\ \A t \in Sessions \ {w} : pc'[t] = pc[t]
        /\ UNCHANGED <<row, queueVars, acks, batch, mem, outcome>>
    BY <1>0, <1>17, <1>a DEF WriteStatus, GoTo, TypeOK
  <2>3. w \in Sessions \ {Repair} /\ w \notin Apis
    BY <1>a
  <2> QED
    BY <1>0, <2>1, <2>2, <2>3, CalmStatus
<1>18. ASSUME NEW a \in Apis, NEW d \in Deliveries, RetryLoad(a, d) PROVE Calm'
  BY <1>0, <1>18, CalmRetryLoad
<1>19. ASSUME NEW a \in Apis, NEW d \in Deliveries, RetryCommit(a, d) PROVE Calm'
  <2> DEFINE new == [x \in {d} |-> Requeued(mem[a][x])]
  <2>1. /\ d \in batch[a] /\ pc[a] = "loaded" /\ Save(a, new)
    BY <1>19 DEF RetryCommit
  <2>2. /\ Sound(d) /\ Owns(a, d) /\ row[d] \in Row /\ Stamped(row[d])
        /\ mem[a][d] = Remembered(row[d]) /\ Fits(a, row[d].status)
    BY <1>0, <1>a, <2>1, AtWork
  <2>3. row[d].status = "DEAD_LETTER"
    BY <2>1, <2>2 DEF Fits
  <2>4. /\ new[d] = Requeued(mem[a][d])
        /\ Commits(Written(row[d], Remembered(row[d]), new[d]), row[d], new[d])
        /\ new[d].status = "QUEUED"
    BY <2>2, <2>3, CommitsRow
  <2>5. acks[d] = 0
    BY <1>0, <1>a, <2>1, <2>2, <2>3, Untaken DEF Told
  <2>6. /\ pc' = [pc EXCEPT ![a] = "reading"]
        /\ UNCHANGED <<outcome, queueVars, batch, acks>>
    BY <1>19 DEF RetryCommit, GoTo
  <2>7. Owns(a, d)' /\ Fits(a, "QUEUED")'
    BY <1>0, <1>a, <2>1, <2>4, <2>6 DEF Owns, Holds, Fits, TypeOK
  <2>8. DOMAIN new = {d}
    OBVIOUS
  <2> HIDE DEF new
  <2> QED
    BY <1>0, <1>a, <2>1, <2>4, <2>5, <2>6, <2>7, <2>8, CommitStep DEF TypeOK
<1>20. ASSUME NEW a \in Apis, RetryWriteStatus(a) PROVE Calm'
  <2>1. /\ pc[a] = "writing" /\ pc'[a] = "requeue"
        /\ \A t \in Sessions \ {a} : pc'[t] = pc[t]
        /\ UNCHANGED <<row, queueVars, acks, batch, mem, outcome>>
    BY <1>0, <1>20, <1>a DEF RetryWriteStatus, CommitStatus, GoTo, TypeOK
  <2> QED
    BY <1>0, <1>a, <2>1, CalmStatus
<1>21. ASSUME NEW a \in Apis, NEW d \in Deliveries, RetryEnqueue(a, d) PROVE Calm'
  <2>1. d \in batch[a] /\ pc[a] = "requeue"
    BY <1>21 DEF RetryEnqueue
  <2>2. Fits(a, row[d].status)
    BY <1>0, <1>a, <2>1, AtWork
  <2>3. row[d].status = "QUEUED"
    BY <2>1, <2>2 DEF Fits
  <2>4. /\ Enqueue(d)
        /\ UNCHANGED <<row, deferred, posting, acks>>
    BY <1>21 DEF RetryEnqueue
  <2>5. OnlySession(a) /\ pc'[a] = "idle" /\ batch'[a] = {}
    BY <1>0, <1>21, <1>a DEF RetryEnqueue, Forget, OnlySession, TypeOK
  <2>6. ~Told(a, d) /\ ~Told(a, d)' /\ ~Owns(a, d)'
    BY <2>1, <2>5 DEF Told, Owns, Holds
  <2> QED
    BY <1>0, <1>a, <2>1, <2>3, <2>4, <2>5, <2>6, HandOver
<1>22. ASSUME NEW a \in Apis, ApiFails(a) PROVE Calm'
  BY <1>22, <1>f DEF ApiFails
<1>23. ASSUME NEW D \in SUBSET Deliveries, RepairLoad(D) PROVE Calm'
  <2>1. PICK d \in Deliveries : Stale(row[d])
    BY <1>23 DEF RepairLoad
  <2>2. Fresh(row[d])
    BY <2>1 DEF Calm, Sound
  <2> QED
    BY <2>1, <2>2 DEF Stale, Fresh, Active
<1>24. CASE RepairCommit
  BY <1>24, <1>f DEF RepairCommit
<1>25. ASSUME NEW d \in Deliveries, RepairEnqueue(d) PROVE Calm'
  BY <1>25, <1>f DEF RepairEnqueue
<1>26. CASE RepairWriteStatus
  BY <1>26, <1>f DEF RepairWriteStatus, CommitStatus
<1>27. CASE RepairFails
  BY <1>27, <1>f DEF RepairFails
<1>28. ASSUME NEW d \in Deliveries, RetryDue(d) PROVE Calm'
  <2>1. ASSUME NEW e \in Deliveries PROVE Sound(e)'
    <3>a. Sound(e) /\ \A t \in Sessions : Like(t, e)
      BY <1>28, UntouchedLike DEF RetryDue, Untouched, Calm
    <3>1. CASE e # d
      <4>1. SameQueues(e) /\ row'[e] = row[e] /\ acks'[e] = acks[e]
        BY <1>0, <1>28, <3>1 DEF RetryDue, SameQueues, TypeOK
      <4> QED
        BY <1>0, <3>a, <4>1, Frame
    <3>2. CASE e = d
      <4>1. /\ ready'[d] = ready[d] + deferred[d] /\ deferred'[d] = 0
            /\ ready[d] \in Nat /\ deferred[d] \in Nat /\ posting' = posting
        BY <1>0, <1>28 DEF RetryDue, TypeOK
      <4>2. OneJob(d)' /\ (Job(d)' <=> Job(d))
        BY <3>a, <3>2, <4>1 DEF Sound, OneJob, Job
      <4>3. row[d] \in Row /\ row'[d] \in Row
        BY <1>0 DEF TypeOK
      <4>4. row'[d] = [row[d] EXCEPT !.retry_at = IF @ = "recent" THEN "old" ELSE @]
        BY <1>0, <1>28 DEF RetryDue, TypeOK
      <4>5. /\ row'[d].status = row[d].status /\ row'[d].attempts = row[d].attempts
            /\ row'[d].started = row[d].started /\ row'[d].delivered = row[d].delivered
            /\ row'[d].dead = row[d].dead /\ row'[d].updated = row[d].updated
            /\ row'[d].retry_at = IF row[d].retry_at = "recent" THEN "old" ELSE row[d].retry_at
        BY <4>3, <4>4 DEF Row
      <4>6. Fresh(row[d])' /\ Stamped(row[d])'
        BY <3>a, <3>2, <4>5 DEF Sound, Fresh, Stamped
      <4>7. Recalled(row'[d].retry_at) = Recalled(row[d].retry_at)
        BY <4>5 DEF Recalled
      <4>8. Remembered(row'[d]) = Remembered(row[d])
        BY <4>3, <4>5, <4>7, RememberedColumns, EqualRows
      <4> QED
        BY <1>0, <1>28, <3>a, <3>2, <4>2, <4>6, <4>8, Passing DEF RetryDue
    <3> QED
      BY <3>1, <3>2
  <2> QED
    BY <1>28, <2>1, NoSession DEF RetryDue
<1>29. CASE StaleElapses
  <2>0. Quiet
    BY <1>29, <1>f DEF StaleElapses
  <2>1. ASSUME NEW d \in Deliveries PROVE Sound(d)'
    <3>a. Sound(d) /\ SameQueues(d) /\ acks'[d] = acks[d] /\ \A t \in Sessions : Like(t, d)
      BY <1>29, UntouchedLike DEF StaleElapses, SameQueues, Untouched, Calm
    <3>1. row[d].status \notin Active
      BY <2>0, <3>a DEF Sound, Attended, Quiet, Resting, Job, Owns, Holds
    <3>2. row[d] \in Row /\ row'[d] \in Row
      BY <1>0 DEF TypeOK
    <3>3. row'[d] = [row[d] EXCEPT !.updated = Aged(@), !.started = Aged(@)]
      BY <1>29 DEF StaleElapses
    <3>4. /\ row'[d].status = row[d].status /\ row'[d].attempts = row[d].attempts
          /\ row'[d].retry_at = row[d].retry_at /\ row'[d].delivered = row[d].delivered
          /\ row'[d].dead = row[d].dead /\ row'[d].started = Aged(row[d].started)
      BY <3>2, <3>3 DEF Row
    <3>5. Fresh(row[d])' /\ Stamped(row[d])'
      BY <3>a, <3>1, <3>4 DEF Sound, Fresh, Stamped, Aged, Active
    <3>6. Recalled(row'[d].started) = Recalled(row[d].started)
      BY <3>4 DEF Recalled, Aged
    <3>7. Remembered(row'[d]) = Remembered(row[d])
      BY <3>2, <3>4, <3>6, RememberedColumns, EqualRows
    <3>8. OneJob(d)' /\ (Job(d)' <=> Job(d))
      BY <3>a DEF Sound, SameQueues, OneJob, Job
    <3> QED
      BY <1>0, <3>a, <3>5, <3>7, <3>8, Passing
  <2> QED
    BY <1>29, <2>1, NoSession DEF StaleElapses
<1>30. CASE UNCHANGED vars
  <2>1. ASSUME NEW d \in Deliveries PROVE Sound(d)'
    BY <1>0, <1>30, UntouchedLike, Frame DEF vars, SameQueues, Untouched, Calm
  <2> QED
    BY <1>30, <2>1, NoSession DEF vars
<1> QED
  BY <1>1, <1>2, <1>3, <1>4, <1>5, <1>6, <1>7, <1>8, <1>9, <1>10, <1>11, <1>12, <1>13,
     <1>14, <1>15, <1>16, <1>17, <1>18, <1>19, <1>20, <1>21, <1>22, <1>23, <1>24, <1>25,
     <1>26, <1>27, <1>28, <1>29, <1>30
     DEF Next, PostNext, WorkerNext, ApiNext, RepairNext, TimeNext, FaultNext, Sessions

\* At the start nothing is accepted and nobody works.
LEMMA CalmInit == Init => Calm
<1> SUFFICES ASSUME Init PROVE Calm
  OBVIOUS
<1>1. pc[Repair] = "idle" /\ Single
  BY DEF Init, Single, Sessions
<1>2. ASSUME NEW d \in Deliveries PROVE Sound(d)
  <2>1. row[d] = NoRow /\ ready[d] = 0 /\ deferred[d] = 0 /\ posting = {} /\ acks[d] = 0
    BY DEF Init
  <2>2. \A s \in Sessions : ~Owns(s, d)
    BY DEF Init, Owns, Holds
  <2>3. Fresh(row[d]) /\ Stamped(row[d]) /\ Attended(d)
    BY <2>1 DEF Fresh, Stamped, Attended, NoRow, Active
  <2>4. OneJob(d) /\ ~Job(d) /\ JobRow(d) /\ TakenOnce(d)
    BY <2>1 DEF OneJob, Job, JobRow, TakenOnce
  <2> QED
    BY <2>2, <2>3, <2>4 DEF Sound, Alone, OwnerRow
<1> QED
  BY <1>1, <1>2 DEF Calm

\* Without faults the engine stays calm.
LEMMA CalmAlways == ASSUME FaultFree PROVE Spec => []Calm
<1>1. IInv /\ IInv' /\ Births /\ Calm /\ [Next]_vars => Calm'
  BY CalmStep
<1> QED
  BY <1>1, CalmInit, InvAlways, BirthsAlways, PTL DEF Spec

-----------------------------------------------------------------------------
(* The theorems. *)

\* FaultFree stands in all of them: no faults, and one API session, so that manual
\* retries come one after the other.

\* Every delivery has at most one owner at any time: it is handed from the push
\* request to the job, to a worker, to its retry job, and from the last worker to a
\* manual retry, although no lock or claim enforces it.
THEOREM OwnedOnce == ASSUME FaultFree PROVE Spec => []OneOwner
<1>1. TypeOK /\ Calm => OneOwner
  <2> SUFFICES ASSUME TypeOK, Calm, NEW d \in Deliveries PROVE Owners(d) <= 1
    BY DEF OneOwner
  <2> DEFINE S == {s \in Sessions : Owns(s, d)}
  <2>1. OneJob(d) /\ Alone(d) /\ ready[d] \in Nat /\ deferred[d] \in Nat
    BY DEF Calm, Sound, TypeOK
  <2>2. CASE S = {}
    <3>1. Cardinality(S) = 0
      BY <2>2, FS_EmptySet
    <3> QED
      BY <2>1, <3>1 DEF Owners, OneJob
  <2>3. CASE S # {}
    <3>1. PICK s \in Sessions : Owns(s, d)
      BY <2>3
    <3>2. S = {s} /\ ~Job(d)
      BY <2>1, <3>1 DEF Alone
    <3>3. Cardinality(S) = 1
      BY <3>2, FS_Singleton
    <3>4. ready[d] = 0 /\ deferred[d] = 0 /\ d \notin posting
      BY <2>1, <3>2 DEF Job
    <3> QED
      BY <3>3, <3>4 DEF Owners
  <2> QED
    BY <2>2, <2>3
<1> QED
  BY <1>1, CalmAlways, TypeCorrect, PTL

\* No provider accepts a delivery twice, also when it was retried by hand, one retry
\* after the other, before.
THEOREM TakenAtMostOnce == ASSUME FaultFree PROVE Spec => []SentOnce
<1>1. Calm => SentOnce
  BY DEF Calm, Sound, TakenOnce, SentOnce
<1> QED
  BY <1>1, CalmAlways, PTL

\* The timestamps processing_started_at, next_retry_at, delivered_at and
\* dead_lettered_at agree with the status, whatever was set before.
THEOREM StampsAlwaysAgree == ASSUME FaultFree PROVE Spec => []StampsAgree
<1>1. Calm => StampsAgree
  BY DEF Calm, Sound, Stamped, StampsAgree
<1> QED
  BY <1>1, CalmAlways, PTL

\* Nothing is stranded, and nothing waits for the repair: each
\* delivery that is not settled has a job or a session that comes back to it.
THEOREM NothingLeftToRepair ==
  ASSUME FaultFree
  PROVE  Spec => []/\ NothingStranded
                   /\ \A d \in Deliveries : row[d].status \in Active => Carried(d)
<1>1. Calm => /\ NothingStranded
              /\ \A d \in Deliveries : row[d].status \in Active => Carried(d)
  BY DEF Calm, Sound, Attended, Job, Owns, Carried, NothingStranded
<1> QED
  BY <1>1, CalmAlways, PTL

-----------------------------------------------------------------------------
(* Every step of the engine without faults is a step of Outbox with Exact,  *)
(* or none.                                                                 *)

MappedExactly == [ExactlyOnce!Next]_(ExactlyOnce!vars)

\* A step that changes no status and records nothing is invisible.
LEMMA InvisibleExactly ==
  ASSUME \A d \in Deliveries : row'[d].status = row[d].status, UNCHANGED histVars
  PROVE  MappedExactly
<1>1. State' = State
  BY DEF State
<1> QED
  BY <1>1 DEF MappedExactly, histVars, ExactlyOnce!vars

\* An owner's commit, as Outbox sees it.
LEMMA CommitMapped ==
  ASSUME TypeOK, Calm,
         NEW s \in Sessions \ {Repair}, NEW d \in batch[s],
         pc[s] \notin {"idle", "done", "reading", "writing"},
         NEW new, DOMAIN new = {d}, Save(s, new),
         Commits(Written(row[d], Remembered(row[d]), new[d]), row[d], new[d]),
         UNCHANGED histVars,
         \/ row[d].status \in Active /\ new[d].status \in Active
         \/ row[d].status \in Active /\ new[d].status = "SUCCESS" /\ acks[d] > 0
         \/ /\ row[d].status \in Active /\ new[d].status = "DEAD_LETTER"
            /\ acks[d] = 0
            /\ d \in refused \/ tries[d] > NumDelays
         \/ row[d].status = "DEAD_LETTER" /\ new[d].status = "QUEUED"
  PROVE  MappedExactly
<1>0. d \in Deliveries /\ mem[s][d] = Remembered(row[d])
  BY AtWork
<1>1. /\ row'[d].status = new[d].status
      /\ \A e \in Deliveries \ {d} : row'[e] = row[e]
  BY <1>0, SaveOne DEF Commits
<1>2. \A e \in Deliveries \ {d} : State'[e] = State[e]
  BY <1>1 DEF State
<1>3. CASE row[d].status \in Active /\ new[d].status \in Active
  <2>1. State'[d] = State[d]
    BY <1>0, <1>1, <1>3 DEF State, Active
  <2>2. State' = State
    BY <1>2, <2>1 DEF State
  <2> QED
    BY <2>2 DEF MappedExactly, histVars, ExactlyOnce!vars
<1>4. CASE row[d].status \in Active /\ new[d].status = "SUCCESS" /\ acks[d] > 0
  <2>1. State[d] = "open" /\ State'[d] = "delivered"
    BY <1>0, <1>1, <1>4 DEF State, Active
  <2>2. State' = [State EXCEPT ![d] = "delivered"]
    BY <1>2, <2>1 DEF State
  <2>3. ExactlyOnce!Deliver(d)
    BY <1>4, <2>1, <2>2 DEF ExactlyOnce!Deliver, ExactlyOnce!Open, histVars
  <2> QED
    BY <1>0, <2>3 DEF MappedExactly, ExactlyOnce!Next
<1>5. CASE /\ row[d].status \in Active /\ new[d].status = "DEAD_LETTER"
           /\ acks[d] = 0
           /\ d \in refused \/ tries[d] > NumDelays
  <2>1. State[d] = "open" /\ State'[d] = "given up"
    BY <1>0, <1>1, <1>5 DEF State, Active
  <2>2. State' = [State EXCEPT ![d] = "given up"]
    BY <1>2, <2>1 DEF State
  <2>3. ExactlyOnce!GiveUp(d)
    BY <1>5, <2>1, <2>2 DEF ExactlyOnce!GiveUp, ExactlyOnce!Open, histVars
  <2> QED
    BY <1>0, <2>3 DEF MappedExactly, ExactlyOnce!Next
<1>6. CASE row[d].status = "DEAD_LETTER" /\ new[d].status = "QUEUED"
  <2>1. State[d] = "given up" /\ State'[d] = "open"
    BY <1>0, <1>1, <1>6 DEF State
  <2>2. State' = [e \in Deliveries |-> IF e \in {d} THEN "open" ELSE State[e]]
    BY <1>2, <2>1 DEF State
  <2>3. ExactlyOnce!Reopen({d})
    BY <2>1, <2>2 DEF ExactlyOnce!Reopen, histVars
  <2> QED
    BY <1>0, <2>3 DEF MappedExactly, ExactlyOnce!Next
<1> QED
  BY <1>3, <1>4, <1>5, <1>6

\* Every step without faults is a step of Outbox with Exact, or invisible to it.
LEMMA ExactStep ==
  FaultFree /\ IInv /\ IInv' /\ Births /\ Calm /\ [Next]_vars => MappedExactly
<1> SUFFICES ASSUME FaultFree, IInv, IInv', Births, Calm, [Next]_vars PROVE MappedExactly
  OBVIOUS
<1> USE DEF dbVars, queueVars, sessionVars
<1>0. TypeOK /\ TypeOK' /\ RowsClaim' /\ MessageBorn /\ AnswerKnown
  BY DEF IInv, Births
<1>a. /\ Workers \subseteq Sessions \ {Repair} /\ Apis \subseteq Sessions \ {Repair}
      /\ Workers \cap Apis = {}
  BY DeliveryAssumption DEF Sessions
<1>f. ~Spend("faults") /\ pc[Repair] = "idle"
  BY <1>0, NoFault DEF Calm
<1>b. UNCHANGED <<row, histVars>> => MappedExactly
  BY InvisibleExactly
<1>1. ASSUME NEW m \in Messages, Accept(m) PROVE MappedExactly
  <2>1. \A d \in Deliveries : MessageOf[d] = m => State[d] = "absent"
    BY <1>0, <1>1 DEF Accept, MessageBorn, Born, State
  <2>2. State' = [d \in Deliveries |-> IF MessageOf[d] = m THEN "open" ELSE State[d]]
    BY <1>1 DEF Accept, State, NoRow
  <2>3. ExactlyOnce!Accept(m)
    BY <1>1, <2>1, <2>2 DEF Accept, ExactlyOnce!Accept, histVars
  <2> QED
    BY <2>3 DEF MappedExactly, ExactlyOnce!Next
<1>2. ASSUME NEW d \in Deliveries, PostJob(d) PROVE MappedExactly
  BY <1>2, <1>b DEF PostJob
<1>3. ASSUME NEW m \in Messages, PostFails(m) PROVE MappedExactly
  BY <1>3, <1>f DEF PostFails
<1>4. ASSUME NEW w \in Workers, NEW d \in Deliveries, Load(w, d) PROVE MappedExactly
  BY <1>4, <1>b DEF Load
<1>5. ASSUME NEW w \in Workers, Skip(w) PROVE MappedExactly
  BY <1>5, <1>b DEF Skip
<1>6. ASSUME NEW w \in Workers, NEW d \in Deliveries, Reject(w, d) PROVE MappedExactly
  <2> DEFINE new == [x \in {d} |-> Attempted("permanent", mem[w][x])]
  <2>1. /\ d \in batch[w] /\ pc[w] = "loaded" /\ Save(w, new)
        /\ tries' = [tries EXCEPT ![d] = @ + 1] /\ refused' = refused \cup {d}
        /\ acks' = acks
    BY <1>6 DEF Reject, Deliverable
  <2>2. /\ Sound(d) /\ Owns(w, d) /\ row[d] \in Row /\ Stamped(row[d])
        /\ mem[w][d] = Remembered(row[d]) /\ Fits(w, row[d].status)
    BY <1>0, <1>a, <2>1, AtWork
  <2>3. row[d].status \in {"QUEUED", "RETRYING"}
    BY <1>a, <2>1, <2>2 DEF Fits
  <2>4. /\ new[d] = Attempted("permanent", mem[w][d])
        /\ Commits(Written(row[d], Remembered(row[d]), new[d]), row[d], new[d])
        /\ new[d].status = "DEAD_LETTER"
    BY <2>2, <2>3, CommitsRow DEF Active, WillRetry
  <2>5. acks[d] = 0
    BY <1>0, <1>a, <2>1, <2>2, <2>3, Untaken DEF Told
  <2>6. DOMAIN new = {d}
    OBVIOUS
  <2> HIDE DEF new
  <2>7. /\ row'[d].status = "DEAD_LETTER"
        /\ \A e \in Deliveries \ {d} : row'[e] = row[e]
    BY <1>0, <1>a, <2>1, <2>2, <2>4, <2>6, SaveOne DEF Commits
  <2>8. State' = [State EXCEPT ![d] = "given up"] /\ State[d] = "open"
    BY <2>3, <2>7 DEF State
  <2>9. ExactlyOnce!Reject(d)
    BY <2>1, <2>5, <2>8 DEF ExactlyOnce!Reject, ExactlyOnce!Open
  <2> QED
    BY <2>9 DEF MappedExactly, ExactlyOnce!Next
<1>7. ASSUME NEW w \in Workers, NEW d \in Deliveries, DeferForLimit(w, d)
      PROVE MappedExactly
  <2> DEFINE new == [x \in {d} |-> Limited(mem[w][x])]
  <2>1. d \in batch[w] /\ pc[w] = "loaded" /\ Save(w, new) /\ UNCHANGED histVars
    BY <1>7 DEF DeferForLimit, Deliverable
  <2>2. /\ row[d] \in Row /\ Stamped(row[d])
        /\ mem[w][d] = Remembered(row[d]) /\ Fits(w, row[d].status)
    BY <1>0, <1>a, <2>1, AtWork
  <2>3. row[d].status \in {"QUEUED", "RETRYING"}
    BY <1>a, <2>1, <2>2 DEF Fits
  <2>4. /\ new[d] = Limited(mem[w][d])
        /\ Commits(Written(row[d], Remembered(row[d]), new[d]), row[d], new[d])
        /\ new[d].status = "RETRYING"
    BY <2>2, <2>3, CommitsRow
  <2>5. DOMAIN new = {d}
    OBVIOUS
  <2> HIDE DEF new
  <2> QED
    BY <1>0, <1>a, <2>1, <2>3, <2>4, <2>5, CommitMapped DEF Active
<1>8. ASSUME NEW w \in Workers, NEW d \in Deliveries, EnqueueDeferred(w, d)
      PROVE MappedExactly
  BY <1>8, <1>b DEF EnqueueDeferred
<1>9. ASSUME NEW w \in Workers, NEW d \in Deliveries, StartSending(w, d)
      PROVE MappedExactly
  <2> DEFINE new == [x \in {d} |-> MarkSending(mem[w][x])]
  <2>1. d \in batch[w] /\ pc[w] = "loaded" /\ Save(w, new) /\ UNCHANGED histVars
    BY <1>9 DEF StartSending, Deliverable
  <2>2. /\ row[d] \in Row /\ Stamped(row[d])
        /\ mem[w][d] = Remembered(row[d]) /\ Fits(w, row[d].status)
    BY <1>0, <1>a, <2>1, AtWork
  <2>3. row[d].status \in {"QUEUED", "RETRYING"}
    BY <1>a, <2>1, <2>2 DEF Fits
  <2>4. /\ new[d] = MarkSending(mem[w][d])
        /\ Commits(Written(row[d], Remembered(row[d]), new[d]), row[d], new[d])
        /\ new[d].status = "SENDING"
    BY <2>2, <2>3, CommitsRow
  <2>5. DOMAIN new = {d}
    OBVIOUS
  <2> HIDE DEF new
  <2> QED
    BY <1>0, <1>a, <2>1, <2>3, <2>4, <2>5, CommitMapped DEF Active
<1>10. ASSUME NEW w \in Workers, NEW d \in Deliveries, Answer(w, d) PROVE MappedExactly
  <2>1. d \in batch[w] /\ pc[w] = "sending"
    BY <1>10 DEF Answer
  <2>2. Sound(d) /\ Owns(w, d) /\ Fits(w, row[d].status)
    BY <1>0, <1>a, <2>1, AtWork
  <2>3. row[d].status = "SENDING"
    BY <1>a, <2>1, <2>2 DEF Fits
  <2>4. acks[d] = 0
    BY <1>0, <1>a, <2>1, <2>2, <2>3, Untaken DEF Told
  <2>5. State' = State /\ State[d] = "open"
    BY <1>10, <2>3 DEF Answer, State
  <2>6. ExactlyOnce!Attempt(d)
    BY <1>10, <2>4, <2>5 DEF Answer, ExactlyOnce!Attempt, ExactlyOnce!Open
  <2> QED
    BY <2>6 DEF MappedExactly, ExactlyOnce!Next
<1>11. ASSUME NEW w \in Workers, NEW d \in Deliveries, RecordAttempt(w, d)
       PROVE MappedExactly
  <2> DEFINE new == [x \in {d} |-> Attempted(outcome[w], mem[w][x])]
  <2>1. d \in batch[w] /\ pc[w] = "answered" /\ Save(w, new) /\ UNCHANGED histVars
    BY <1>11 DEF RecordAttempt
  <2>2. /\ Sound(d) /\ Owns(w, d) /\ row[d] \in Row /\ Stamped(row[d])
        /\ mem[w][d] = Remembered(row[d]) /\ Fits(w, row[d].status)
    BY <1>0, <1>a, <2>1, AtWork
  <2>3. row[d].status = "SENDING"
    BY <1>a, <2>1, <2>2 DEF Fits
  <2>4. /\ new[d] = Attempted(outcome[w], mem[w][d])
        /\ Commits(Written(row[d], Remembered(row[d]), new[d]), row[d], new[d])
        /\ new[d].status = IF outcome[w] = "ok" THEN "SUCCESS"
                            ELSE IF WillRetry(outcome[w], mem[w][d])
                                   THEN "RETRYING" ELSE "DEAD_LETTER"
    BY <2>2, <2>3, CommitsRow DEF Active
  <2>5. /\ outcome[w] = "ok" => acks[d] > 0
        /\ outcome[w] # "ok" => acks[d] = 0
    BY <1>0, <1>a, <2>1, <2>2, <2>3, Untaken DEF AnswerKnown, Told
  <2>6. DOMAIN new = {d}
    OBVIOUS
  <2> HIDE DEF new
  <2>7. row'[d].status = new[d].status
    BY <1>0, <1>a, <2>1, <2>2, <2>4, <2>6, SaveOne DEF Commits
  <2>8. new[d].status = "DEAD_LETTER" => d \in refused \/ tries[d] > NumDelays
    BY <1>0, <2>1, <2>7 DEF RowsClaim, Claim, histVars
  <2> QED
    BY <1>0, <1>a, <2>1, <2>3, <2>4, <2>5, <2>6, <2>8, CommitMapped DEF Active
<1>12. ASSUME NEW w \in Workers, NEW d \in Deliveries, Reschedule(w, d)
       PROVE MappedExactly
  BY <1>12, <1>b DEF Reschedule
<1>13. ASSUME NEW w \in Workers, Finish(w) PROVE MappedExactly
  BY <1>13, <1>b DEF Finish
<1>14. ASSUME NEW w \in Workers, Crash(w) PROVE MappedExactly
  BY <1>14, <1>f DEF Crash
<1>15. ASSUME NEW w \in Workers, JobFails(w) PROVE MappedExactly
  BY <1>15, <1>f DEF JobFails
<1>16. ASSUME NEW s \in Sessions, NEW m \in Messages, ReadStatus(s, m)
       PROVE MappedExactly
  BY <1>16, <1>b DEF ReadStatus
<1>17. ASSUME NEW w \in Workers, NEW d \in Deliveries, WriteStatus(w, d)
       PROVE MappedExactly
  BY <1>17, <1>b DEF WriteStatus
<1>18. ASSUME NEW a \in Apis, NEW d \in Deliveries, RetryLoad(a, d) PROVE MappedExactly
  BY <1>18, <1>b DEF RetryLoad
<1>19. ASSUME NEW a \in Apis, NEW d \in Deliveries, RetryCommit(a, d)
       PROVE MappedExactly
  <2> DEFINE new == [x \in {d} |-> Requeued(mem[a][x])]
  <2>1. d \in batch[a] /\ pc[a] = "loaded" /\ Save(a, new) /\ UNCHANGED histVars
    BY <1>19 DEF RetryCommit
  <2>2. /\ row[d] \in Row /\ Stamped(row[d])
        /\ mem[a][d] = Remembered(row[d]) /\ Fits(a, row[d].status)
    BY <1>0, <1>a, <2>1, AtWork
  <2>3. row[d].status = "DEAD_LETTER"
    BY <2>1, <2>2 DEF Fits
  <2>4. /\ new[d] = Requeued(mem[a][d])
        /\ Commits(Written(row[d], Remembered(row[d]), new[d]), row[d], new[d])
        /\ new[d].status = "QUEUED"
    BY <2>2, <2>3, CommitsRow
  <2>5. DOMAIN new = {d}
    OBVIOUS
  <2> HIDE DEF new
  <2> QED
    BY <1>0, <1>a, <2>1, <2>3, <2>4, <2>5, CommitMapped
<1>20. ASSUME NEW a \in Apis, RetryWriteStatus(a) PROVE MappedExactly
  BY <1>20, <1>b DEF RetryWriteStatus
<1>21. ASSUME NEW a \in Apis, NEW d \in Deliveries, RetryEnqueue(a, d)
       PROVE MappedExactly
  BY <1>21, <1>b DEF RetryEnqueue
<1>22. ASSUME NEW a \in Apis, ApiFails(a) PROVE MappedExactly
  BY <1>22, <1>f DEF ApiFails
<1>23. ASSUME NEW D \in SUBSET Deliveries, RepairLoad(D) PROVE MappedExactly
  BY <1>23, <1>b DEF RepairLoad
<1>24. CASE RepairCommit
  BY <1>24, <1>f DEF RepairCommit
<1>25. ASSUME NEW d \in Deliveries, RepairEnqueue(d) PROVE MappedExactly
  BY <1>25, <1>b DEF RepairEnqueue
<1>26. CASE RepairWriteStatus
  BY <1>26, <1>b DEF RepairWriteStatus
<1>27. CASE RepairFails
  BY <1>27, <1>f DEF RepairFails
<1>28. ASSUME NEW d \in Deliveries, RetryDue(d) PROVE MappedExactly
  BY <1>0, <1>28, InvisibleExactly DEF RetryDue, TypeOK, Row
<1>29. CASE StaleElapses
  <2>1. ASSUME NEW r \in Row
        PROVE  [r EXCEPT !.updated = Aged(@), !.started = Aged(@)].status = r.status
    BY <2>1 DEF Row
  <2>2. \A d \in Deliveries : row'[d].status = row[d].status
    BY <1>0, <1>29, <2>1 DEF StaleElapses, TypeOK
  <2> QED
    BY <1>29, <2>2, InvisibleExactly DEF StaleElapses
<1>30. CASE UNCHANGED vars
  BY <1>30, <1>b DEF vars
<1> QED
  BY <1>1, <1>2, <1>3, <1>4, <1>5, <1>6, <1>7, <1>8, <1>9, <1>10, <1>11, <1>12, <1>13,
     <1>14, <1>15, <1>16, <1>17, <1>18, <1>19, <1>20, <1>21, <1>22, <1>23, <1>24, <1>25,
     <1>26, <1>27, <1>28, <1>29, <1>30
     DEF Next, PostNext, WorkerNext, ApiNext, RepairNext, TimeNext, FaultNext, Sessions

\* The engine, calm, is an implementation of exactly-once delivery.
THEOREM EngineDeliversOnce == ASSUME FaultFree PROVE Spec => DeliversExactlyOnce
<1>1. Init => ExactlyOnce!Init
  BY DEF Init, ExactlyOnce!Init, State, NoRow
<1>2. IInv /\ IInv' /\ Births /\ Calm /\ [Next]_vars
        => [ExactlyOnce!Next]_(ExactlyOnce!vars)
  BY ExactStep DEF MappedExactly
<1> QED
  BY <1>1, <1>2, InvAlways, BirthsAlways, CalmAlways, PTL
     DEF Spec, DeliversExactlyOnce, ExactlyOnce!Spec

\* A delivered row, when all is calm, is never reopened, given up or sent again: no
\* step of Outbox with Exact takes a delivery away from "delivered".
THEOREM DeliveredStays == ASSUME FaultFree PROVE Spec => SuccessStays
<1>1. IInv /\ IInv' /\ Births /\ Calm /\ [Next]_vars =>
        [\A d \in Deliveries : row[d].status = "SUCCESS" => row'[d].status = "SUCCESS"]_vars
  <2> SUFFICES ASSUME IInv, IInv', Births, Calm, [Next]_vars,
                      NEW d \in Deliveries, row[d].status = "SUCCESS"
               PROVE  row'[d].status = "SUCCESS"
    OBVIOUS
  <2>1. State[d] = "delivered" /\ MappedExactly
    BY ExactStep DEF State
  <2>2. ASSUME NEW m \in Messages, ExactlyOnce!Accept(m) PROVE State'[d] = "delivered"
    BY <2>1, <2>2 DEF ExactlyOnce!Accept
  <2>3. ASSUME UNCHANGED State PROVE State'[d] = "delivered"
    BY <2>1, <2>3
  <2>4. ASSUME NEW e \in Deliveries, NEW v, ExactlyOnce!Open(e),
               State' = [State EXCEPT ![e] = v]
        PROVE  State'[d] = "delivered"
    <3>1. e # d
      BY <2>1, <2>4 DEF ExactlyOnce!Open
    <3> QED
      BY <2>1, <2>4, <3>1
  <2>5. ASSUME NEW D \in SUBSET Deliveries, ExactlyOnce!Reopen(D)
        PROVE  State'[d] = "delivered"
    BY <2>1, <2>5 DEF ExactlyOnce!Reopen
  <2>6. ASSUME NEW e \in Deliveries,
               \/ ExactlyOnce!Attempt(e) \/ ExactlyOnce!Reject(e)
               \/ ExactlyOnce!Deliver(e) \/ ExactlyOnce!GiveUp(e)
        PROVE  State'[d] = "delivered"
    BY <2>3, <2>4, <2>6
       DEF ExactlyOnce!Attempt, ExactlyOnce!Reject, ExactlyOnce!Deliver, ExactlyOnce!GiveUp
  <2>7. State'[d] = "delivered"
    BY <2>1, <2>2, <2>3, <2>5, <2>6
       DEF MappedExactly, ExactlyOnce!Next, ExactlyOnce!vars
  <2> QED
    BY <2>7 DEF State
<1> QED
  BY <1>1, InvAlways, BirthsAlways, CalmAlways, PTL DEF Spec, SuccessStays

=============================================================================
