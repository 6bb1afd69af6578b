----------------------------- MODULE PushProofs -----------------------------
(***************************************************************************)
(* Proofs about Push, for any number of requests, console requests,        *)
(* channels, payloads and patches: its types, that an idempotency key      *)
(* names one message, that answers are true and, with one console request  *)
(* at a time, that the default channel stays one of the key's channels.    *)
(***************************************************************************)
EXTENDS Push, TLAPS

-----------------------------------------------------------------------------
(* Types. *)

\* What a request may be told when nothing or one message is concerned.
LEMMA Answers ==
  /\ NoAnswer \in Answer
  /\ Refused \in Answer
  /\ \A k \in {"error", "conflict"} : [kind |-> k, id |-> {}] \in Answer
  /\ \A r \in Requests : [kind |-> "accepted", id |-> {r}] \in Answer
  /\ \A r, m \in Requests : Replies(r, m) \in Answer
BY DEF NoAnswer, Refused, Answer, Replies

\* The targets of a request are channels.
LEMMA TargetTypes ==
  ASSUME NEW s \in Seen, NEW ids \in SUBSET Channels
  PROVE  Resolved(s, ids) \in SUBSET Channels
BY DEF Resolved, Seen

\* An optional field holds a value of its type.
LEMMA GivenTypes ==
  ASSUME NEW S, NEW opt \in Optional(S), NEW otherwise \in S
  PROVE  Given(opt, otherwise) \in S
BY DEF Given, Optional

\* Payloads and records of requests that nobody has sent yet.
LEMMA BlankTypes ==
  /\ Nothing \in Sent
  /\ NotSeen \in Seen
  /\ NoPatch \in Patch
  /\ NoView \in View
<1>1. Nothing \in Sent
  <2>1. (CHOOSE p \in Payloads : TRUE) \in Payloads
    BY PushAssumption
  <2> QED
    BY <2>1 DEF Nothing, Sent
<1>2. NotSeen \in Seen /\ NoPatch \in Patch /\ NoView \in View
  BY PushAssumption DEF NotSeen, Seen, NoPatch, Patch, Optional, NoView, View
<1> QED
  BY <1>1, <1>2

\* A request that is answered keeps the types of the four variables of pushes.
LEMMA ReplyTypes ==
  ASSUME TypeOK, NEW r \in Requests, NEW a \in Answer, Reply(r, a)
  PROVE  /\ pc' \in [Requests -> PC]
         /\ seen' \in [Requests -> Seen]
         /\ answer' \in [Requests -> Answer]
BY BlankTypes DEF TypeOK, Reply, Goto, PC

\* A console request that ends keeps the types of the variables of console requests.
LEMMA EndTypes ==
  ASSUME TypeOK, NEW a \in Admins, End(a)
  PROVE  /\ at' \in [Admins -> {"idle", "loaded", "checked", "listed"}]
         /\ patch' \in [Admins -> Patch]
         /\ view' \in [Admins -> View]
         /\ listed' \in [Admins -> SUBSET Requests]
BY BlankTypes DEF TypeOK, End

\* Loading the key keeps the types.
LEMMA SeeTypes ==
  ASSUME TypeOK, NEW r \in Requests, See(r)
  PROVE  pc' \in [Requests -> PC] /\ seen' \in [Requests -> Seen]
BY DEF TypeOK, See, Goto, PC, Seen, Key

\* A step of a push keeps the types.
LEMMA PushTypes ==
  ASSUME TypeOK, NEW r \in Requests, PushNext(r)
  PROVE  TypeOK'
<1> USE DEF keyVars, pushVars, adminVars
<1>1. ASSUME NEW i \in IdemKeys \cup {NoIdem}, NEW p \in Payloads, Resolve(r, i, p)
      PROVE  TypeOK'
  <2>1. CASE Reply(r, Refused) /\ UNCHANGED sent
    BY <1>1, <2>1, Answers, ReplyTypes DEF Resolve, TypeOK
  <2>2. CASE /\ sent' = [sent EXCEPT ![r] = [idem |-> i, text |-> p.text, ids |-> p.ids]]
             /\ See(r)
             /\ UNCHANGED answer
    <3>1. [idem |-> i, text |-> p.text, ids |-> p.ids] \in Sent
      BY PushAssumption DEF Sent
    <3> QED
      BY <1>1, <2>2, <3>1, SeeTypes DEF Resolve, TypeOK
  <2> QED
    BY <1>1, <2>1, <2>2 DEF Resolve
<1>2. ASSUME NEW m \in Requests, Replay(r, m)
      PROVE  TypeOK'
  <2>1. CASE key.active
    <3>1. [idem |-> NoIdem, text |-> sent[m].text, ids |-> targets[m]] \in Sent
      BY DEF TypeOK, Sent
    <3> QED
      BY <1>2, <2>1, <3>1, SeeTypes DEF Replay, TypeOK
  <2>2. CASE ~key.active
    BY <1>2, <2>2, Answers, ReplyTypes DEF Replay, TypeOK
  <2> QED
    BY <2>1, <2>2
<1>3. CASE FindExisting(r)
  <2>1. CASE Goto(r, "checked") /\ UNCHANGED <<seen, answer>>
    BY <1>3, <2>1 DEF FindExisting, Goto, PC, TypeOK
  <2>2. ASSUME NEW m \in Existing(r), Reply(r, Replies(r, m))
        PROVE  TypeOK'
    <3>1. m \in Requests
      BY <2>2 DEF Existing, Stored
    <3> QED
      BY <1>3, <2>2, <3>1, Answers, ReplyTypes DEF FindExisting, TypeOK
  <2> QED
    BY <1>3, <2>1, <2>2 DEF FindExisting
<1>4. CASE TakeSlot(r)
  <2>1. CASE Goto(r, "granted") /\ UNCHANGED <<seen, answer>>
    BY <1>4, <2>1 DEF TakeSlot, Goto, PC, TypeOK
  <2>2. CASE Reply(r, Refused)
    BY <1>4, <2>2, Answers, ReplyTypes DEF TakeSlot, TypeOK
  <2> QED
    BY <1>4, <2>1, <2>2 DEF TakeSlot
<1>5. CASE Store(r)
  <2>1. Resolved(seen[r], sent[r].ids) \in SUBSET Channels
    BY TargetTypes DEF TypeOK, Sent
  <2> QED
    BY <1>5, <2>1 DEF Store, Goto, PC, TypeOK
<1>6. CASE Clash(r)
  BY <1>6, Answers, ReplyTypes DEF Clash, TypeOK
<1>7. CASE Accepted(r)
  BY <1>7, Answers, ReplyTypes DEF Accepted, TypeOK
<1>8. CASE Dies(r)
  BY <1>8, BlankTypes DEF Dies, Goto, PC, TypeOK
<1> QED
  BY <1>1, <1>2, <1>3, <1>4, <1>5, <1>6, <1>7, <1>8 DEF PushNext

\* A step of a console request keeps the types.
LEMMA AdminTypes ==
  ASSUME TypeOK, NEW a \in Admins, AdminNext(a)
  PROVE  TypeOK'
<1> USE DEF keyVars, pushVars, adminVars
<1>1. ASSUME NEW p \in Patches, LoadKey(a, p)
      PROVE  TypeOK'
  <2>1. p \in Patch
    BY PushAssumption
  <2>2. [active |-> key.active, default |-> key.default, links |-> links] \in View
    BY DEF TypeOK, Key, View
  <2> QED
    BY <1>1, <2>1, <2>2 DEF LoadKey, TypeOK
<1>2. CASE Validate(a)
  <2>1. CASE Valid(a)
    BY <1>2, <2>1 DEF Validate, TypeOK
  <2>2. CASE ~Valid(a)
    BY <1>2, <2>2, EndTypes DEF Validate, TypeOK
  <2> QED
    BY <2>1, <2>2
<1>3. CASE CommitPatch(a)
  <2>1. patch[a] \in Patch /\ view[a] \in View
    BY DEF TypeOK
  <2>2. PatchedDefault(a) \in Channels
    BY <2>1, GivenTypes DEF PatchedDefault, Patch, View
  <2>3. PatchedActive(a) \in BOOLEAN
    BY <2>1, GivenTypes DEF PatchedActive, Patch, View
  <2>4. key' \in Key
    BY <1>3, <2>2, <2>3 DEF CommitPatch, TypeOK, Key, Column
  <2>5. links' \in SUBSET Channels
    BY <1>3, <2>1 DEF CommitPatch, TypeOK, Relinked, Patch
  <2> QED
    BY <1>3, <2>4, <2>5, EndTypes DEF CommitPatch, TypeOK
<1>4. CASE ListMessages(a)
  BY <1>4 DEF ListMessages, TypeOK, Stored
<1>5. CASE CommitDelete(a)
  <2>1. /\ key' \in Key
        /\ links' \in SUBSET Channels
        /\ targets' \in [Requests -> SUBSET Channels]
    BY <1>5 DEF CommitDelete, DeleteRows, TypeOK, Key
  <2> QED
    BY <1>5, <2>1, EndTypes DEF CommitDelete, TypeOK
<1> QED
  BY <1>1, <1>2, <1>3, <1>4, <1>5 DEF AdminNext

\* Every step keeps the types.
LEMMA StepTypes == TypeOK /\ [Next]_vars => TypeOK'
<1> SUFFICES ASSUME TypeOK, [Next]_vars PROVE TypeOK'
  OBVIOUS
<1>1. ASSUME NEW c \in Channels, Toggle(c) PROVE TypeOK'
  BY <1>1 DEF Toggle, TypeOK, keyVars, pushVars, adminVars
<1>2. CASE UNCHANGED vars
  BY <1>2 DEF vars, TypeOK, keyVars, pushVars, adminVars
<1> QED
  BY <1>1, <1>2, PushTypes, AdminTypes DEF Next

\* The initial states are well typed.
LEMMA InitTypes == Init => TypeOK
BY PushAssumption, BlankTypes, Answers DEF Init, TypeOK, Key, PC

\* Every reachable state is well typed.
THEOREM PushTypeCorrect == Spec => []TypeOK
BY InitTypes, StepTypes, PTL DEF Spec

-----------------------------------------------------------------------------
(* The inductive invariant.  A message that was ever stored stays the request it was: *)
(* its request never starts again.  Until the key is deleted it is in the table, so    *)
(* that the unique constraint compares with all messages there ever were.              *)

\* Messages in the table were kept, and all that were kept are there with their key.
TableKept == Stored \subseteq kept /\ (key.exists => kept \subseteq Stored)

\* The request of a kept message is past its commit.
KeptCommitted == \A m \in kept : pc[m] \in {"posting", "answered", "dead"}

\* A request about to answer with its own message has kept it.
PostingKept == \A r \in Requests : pc[r] = "posting" => r \in kept

\* A request that was granted a slot has a channel to send to.
GrantedTargets ==
  \A r \in Requests : pc[r] = "granted" => Resolved(seen[r], sent[r].ids) # {}

\* No two messages had one idempotency key before the key was deleted.
OnePerIdem == key.exists => \A m, n \in kept : SameIdem(m, n) => m = n

\* What r may be told in view of the messages kept.
Truth(r, a) ==
  a.kind \in {"accepted", "repeated"} =>
    \E m \in kept : a.id = {m} /\ SamePayload(r, m) /\ (m = r \/ SameIdem(r, m))

AnswersTrue ==
  \A r \in Requests :
    answer[r].kind # "none" => pc[r] = "answered" /\ Truth(r, answer[r])

Inv ==
  /\ TableKept
  /\ KeptCommitted
  /\ PostingKept
  /\ GrantedTargets
  /\ OnePerIdem
  /\ AnswersTrue

\* The answer about a kept message that has the idempotency key of r.
LEMMA RepliesTrue ==
  ASSUME TypeOK, TableKept, NEW r \in Requests, NEW m \in Existing(r)
  PROVE  Truth(r, Replies(r, m))
<1>1. m \in kept /\ SameIdem(r, m)
  BY DEF TableKept, Existing
<1>2. CASE SamePayload(r, m)
  BY <1>1, <1>2 DEF Replies, Truth
<1>3. CASE ~SamePayload(r, m)
  BY <1>1, <1>3 DEF Replies, Truth
<1> QED
  BY <1>2, <1>3

\* Answering a request truly keeps the invariant.
LEMMA ReplyKeeps ==
  ASSUME TypeOK, Inv, NEW r \in Requests, NEW a \in Answer, Reply(r, a), Truth(r, a),
         UNCHANGED <<keyVars, targets, sent, kept>>
  PROVE  Inv'
<1> USE DEF keyVars
<1>1. /\ pc' = [pc EXCEPT ![r] = "answered"]
      /\ answer' = [answer EXCEPT ![r] = a]
      /\ seen' = [seen EXCEPT ![r] = NotSeen]
  BY DEF Reply, Goto
<1>2. TableKept' /\ OnePerIdem'
  BY DEF Inv, TableKept, OnePerIdem, Stored, SameIdem
<1>3. KeptCommitted' /\ PostingKept' /\ GrantedTargets'
  BY <1>1 DEF Inv, KeptCommitted, PostingKept, GrantedTargets, Resolved, TypeOK
<1>4. AnswersTrue'
  <2> SUFFICES ASSUME NEW s \in Requests, answer'[s].kind # "none"
               PROVE  pc'[s] = "answered" /\ Truth(s, answer[s])'
    BY DEF AnswersTrue
  <2>1. CASE s = r
    BY <1>1, <2>1 DEF Truth, SamePayload, SameIdem, TypeOK
  <2>2. CASE s # r
    BY <1>1, <2>2 DEF Inv, AnswersTrue, Truth, SamePayload, SameIdem, TypeOK
  <2> QED
    BY <2>1, <2>2
<1> QED
  BY <1>2, <1>3, <1>4 DEF Inv

\* Moving on a request that is not answered, and not to where a message would be
\* expected of it, keeps the invariant.
LEMMA MoveKeeps ==
  ASSUME TypeOK, Inv, NEW r \in Requests, NEW place \in PC \ {"posting"}, Goto(r, place),
         pc[r] # "answered", r \in kept => place = "dead",
         seen' \in {seen, [seen EXCEPT ![r] = NotSeen]},
         place = "granted" => Resolved(seen'[r], sent[r].ids) # {},
         UNCHANGED <<keyVars, targets, sent, answer, kept>>
  PROVE  Inv'
<1> USE DEF keyVars, Goto
<1>1. TableKept' /\ OnePerIdem'
  BY DEF Inv, TableKept, OnePerIdem, Stored, SameIdem
<1>2. KeptCommitted' /\ PostingKept'
  BY DEF Inv, KeptCommitted, PostingKept, TypeOK
<1>3. GrantedTargets'
  BY DEF Inv, GrantedTargets, Resolved, TypeOK
<1>4. AnswersTrue'
  BY DEF Inv, AnswersTrue, Truth, SamePayload, SameIdem, TypeOK
<1> QED
  BY <1>1, <1>2, <1>3, <1>4 DEF Inv

\* Starting a request changes what it sent, and no message kept is its own.
LEMMA StartKeeps ==
  ASSUME TypeOK, Inv, NEW r \in Requests, pc[r] = "idle",
         NEW s, sent' = [sent EXCEPT ![r] = s],
         NEW k, seen' = [seen EXCEPT ![r] = k], Goto(r, "resolved"),
         UNCHANGED <<keyVars, targets, answer, kept>>
  PROVE  Inv'
<1> USE DEF keyVars, Goto
<1>1. r \notin kept /\ kept \subseteq Requests
  BY DEF Inv, KeptCommitted, TypeOK
<1>2. \A m \in kept : sent'[m] = sent[m]
  BY <1>1 DEF TypeOK
<1>3. TableKept'
  BY DEF Inv, TableKept, Stored
<1>4. OnePerIdem'
  BY <1>2 DEF Inv, OnePerIdem, SameIdem
<1>5. KeptCommitted' /\ PostingKept' /\ GrantedTargets'
  BY <1>1 DEF Inv, KeptCommitted, PostingKept, GrantedTargets, Resolved, TypeOK
<1>6. AnswersTrue'
  <2> SUFFICES ASSUME NEW q \in Requests, answer[q].kind # "none"
               PROVE  pc'[q] = "answered" /\ Truth(q, answer[q])'
    BY DEF AnswersTrue
  <2>1. q # r /\ pc[q] = "answered" /\ Truth(q, answer[q])
    BY DEF Inv, AnswersTrue
  <2>2. sent'[q] = sent[q] /\ pc'[q] = pc[q]
    BY <2>1 DEF TypeOK
  <2> QED
    BY <1>2, <2>1, <2>2 DEF Truth, SamePayload, SameIdem
<1> QED
  BY <1>3, <1>4, <1>5, <1>6 DEF Inv

\* The commit: while the key is there, the unique constraint has compared with every
\* message ever kept.
LEMMA StoreKeeps ==
  ASSUME TypeOK, Inv, NEW r \in Requests, Store(r)
  PROVE  Inv'
<1> USE DEF keyVars, Goto
<1>1. r \notin kept /\ kept \subseteq Requests
  BY DEF Inv, KeptCommitted, TypeOK, Store
<1>2. Existing(r) = {}
  BY DEF Store, Admits
<1>3. Stored' \subseteq Stored \cup {r} /\ Stored \subseteq Stored'
  BY <1>1 DEF Store, Stored, TypeOK, Inv, TableKept
<1>4. TableKept'
  <2>1. r \in Stored'
    BY DEF Inv, GrantedTargets, Store, Stored, TypeOK
  <2> QED
    BY <1>1, <1>2, <1>3, <2>1 DEF Inv, TableKept, Store
<1>5. OnePerIdem'
  <2>1. key.exists => \A m \in kept : ~SameIdem(r, m) /\ ~SameIdem(m, r)
    BY <1>2 DEF Inv, TableKept, Existing, SameIdem
  <2> QED
    BY <2>1 DEF Inv, OnePerIdem, SameIdem, Store
<1>6. KeptCommitted' /\ PostingKept' /\ GrantedTargets'
  BY <1>1 DEF Inv, KeptCommitted, PostingKept, GrantedTargets, Resolved, TypeOK, Store
<1>7. AnswersTrue'
  BY DEF Inv, AnswersTrue, Truth, SamePayload, SameIdem, TypeOK, Store
<1> QED
  BY <1>4, <1>5, <1>6, <1>7 DEF Inv

\* Every step of a push keeps the invariant.
LEMMA PushKeeps ==
  ASSUME TypeOK, Inv, NEW r \in Requests, PushNext(r)
  PROVE  Inv'
<1>1. \A k \in {"refused", "error"} : Truth(r, [kind |-> k, id |-> {}])
  BY DEF Truth
<1>2. [kind |-> "error", id |-> {}] \in Answer /\ Refused \in Answer
  BY Answers
<1>3. Truth(r, Refused)
  BY <1>1 DEF Refused
<1>4. \A p \in PC : pc[r] = p /\ r \in kept => p \in {"posting", "answered", "dead"}
  BY DEF Inv, KeptCommitted
<1>5. ASSUME NEW i \in IdemKeys \cup {NoIdem}, NEW p \in Payloads, Resolve(r, i, p)
      PROVE  Inv'
  <2>1. CASE Reply(r, Refused) /\ UNCHANGED sent
    BY <1>2, <1>3, <1>5, <2>1, ReplyKeeps DEF Resolve
  <2>2. CASE /\ sent' = [sent EXCEPT ![r] = [idem |-> i, text |-> p.text, ids |-> p.ids]]
             /\ See(r)
             /\ UNCHANGED answer
    BY <1>5, <2>2, StartKeeps DEF Resolve, See
  <2> QED
    BY <1>5, <2>1, <2>2 DEF Resolve
<1>6. ASSUME NEW m \in Requests, Replay(r, m)
      PROVE  Inv'
  <2>1. CASE key.active
    BY <1>6, <2>1, StartKeeps DEF Replay, See
  <2>2. CASE ~key.active
    BY <1>2, <1>3, <1>6, <2>2, ReplyKeeps DEF Replay
  <2> QED
    BY <2>1, <2>2
<1>7. CASE FindExisting(r)
  <2>1. CASE Goto(r, "checked") /\ UNCHANGED <<seen, answer>>
    BY <1>4, <1>7, <2>1, MoveKeeps DEF FindExisting, PC
  <2>2. ASSUME NEW m \in Existing(r), Reply(r, Replies(r, m))
        PROVE  Inv'
    <3>1. m \in Requests
      BY <2>2 DEF Existing, Stored
    <3>2. Replies(r, m) \in Answer /\ Truth(r, Replies(r, m))
      BY <2>2, <3>1, Answers, RepliesTrue DEF Inv
    <3> QED
      BY <1>7, <2>2, <3>2, ReplyKeeps DEF FindExisting
  <2> QED
    BY <1>7, <2>1, <2>2 DEF FindExisting
<1>8. CASE TakeSlot(r)
  <2>1. CASE /\ Resolved(seen[r], sent[r].ids) # {}
             /\ Goto(r, "granted")
             /\ UNCHANGED <<seen, answer>>
    BY <1>4, <1>8, <2>1, MoveKeeps DEF TakeSlot, PC
  <2>2. CASE Reply(r, Refused)
    BY <1>2, <1>3, <1>8, <2>2, ReplyKeeps DEF TakeSlot
  <2> QED
    BY <1>8, <2>1, <2>2 DEF TakeSlot
<1>9. CASE Store(r)
  BY <1>9, StoreKeeps
<1>10. CASE Clash(r)
  BY <1>1, <1>2, <1>10, ReplyKeeps DEF Clash
<1>11. CASE Accepted(r)
  <2>1. Truth(r, [kind |-> "accepted", id |-> {r}])
    BY <1>11 DEF Accepted, Inv, PostingKept, Truth, SamePayload
  <2> QED
    BY <1>11, <2>1, Answers, ReplyKeeps DEF Accepted
<1>12. CASE Dies(r)
  BY <1>12, MoveKeeps DEF Dies, PC
<1> QED
  BY <1>5, <1>6, <1>7, <1>8, <1>9, <1>10, <1>11, <1>12 DEF PushNext

\* A step that leaves the pushes, the messages and the key's existence alone.
LEMMA AsideKeeps ==
  ASSUME TypeOK, Inv, key'.exists = key.exists, UNCHANGED <<targets, pushVars, kept>>
  PROVE  Inv'
<1> USE DEF pushVars
<1>1. TableKept' /\ OnePerIdem'
  BY DEF Inv, TableKept, OnePerIdem, Stored, SameIdem
<1>2. KeptCommitted' /\ PostingKept' /\ GrantedTargets'
  BY DEF Inv, KeptCommitted, PostingKept, GrantedTargets, Resolved
<1>3. AnswersTrue'
  BY DEF Inv, AnswersTrue, Truth, SamePayload, SameIdem
<1> QED
  BY <1>1, <1>2, <1>3 DEF Inv

\* The deletion of the key takes only messages away, and ends what holds while it is
\* there.
LEMMA DeleteKeeps ==
  ASSUME TypeOK, Inv, NEW a \in Admins, CommitDelete(a)
  PROVE  Inv'
<1> USE DEF pushVars, keyVars
<1>1. CASE UNCHANGED <<keyVars, targets>>
  BY <1>1, AsideKeeps DEF CommitDelete
<1>2. CASE DeleteRows(a)
  <2>1. ~key'.exists /\ Stored' \subseteq Stored
    BY <1>2 DEF DeleteRows, Stored, TypeOK, Key
  <2>2. TableKept' /\ OnePerIdem'
    BY <2>1 DEF Inv, TableKept, OnePerIdem, CommitDelete
  <2>3. KeptCommitted' /\ PostingKept'
    BY DEF Inv, KeptCommitted, PostingKept, CommitDelete
  <2>4. GrantedTargets'
    BY DEF Inv, GrantedTargets, Resolved, CommitDelete
  <2>5. AnswersTrue'
    BY DEF Inv, AnswersTrue, Truth, SamePayload, SameIdem, CommitDelete
  <2> QED
    BY <2>2, <2>3, <2>4, <2>5 DEF Inv
<1> QED
  BY <1>1, <1>2 DEF CommitDelete

\* Every step keeps the invariant.
LEMMA StepKeeps == TypeOK /\ Inv /\ [Next]_vars => Inv'
<1> SUFFICES ASSUME TypeOK, Inv, [Next]_vars PROVE Inv'
  OBVIOUS
<1> USE DEF keyVars, adminVars
<1>1. ASSUME NEW a \in Admins, AdminNext(a) PROVE Inv'
  <2>1. ASSUME NEW p \in Patches, LoadKey(a, p) PROVE Inv'
    BY <2>1, AsideKeeps DEF LoadKey
  <2>2. CASE Validate(a)
    BY <2>2, AsideKeeps DEF Validate
  <2>3. CASE CommitPatch(a)
    BY <2>3, AsideKeeps DEF CommitPatch, TypeOK, Key
  <2>4. CASE ListMessages(a)
    BY <2>4, AsideKeeps DEF ListMessages
  <2> QED
    BY <1>1, <2>1, <2>2, <2>3, <2>4, DeleteKeeps DEF AdminNext
<1>2. ASSUME NEW c \in Channels, Toggle(c) PROVE Inv'
  BY <1>2, AsideKeeps DEF Toggle
<1>3. CASE UNCHANGED vars
  BY <1>3, AsideKeeps DEF vars
<1> QED
  BY <1>1, <1>2, <1>3, PushKeeps DEF Next

\* The invariant holds before the first request.
LEMMA InitKeeps == Init => Inv
BY DEF Init, Inv, TableKept, KeptCommitted, PostingKept, GrantedTargets, OnePerIdem,
       AnswersTrue, Stored, NoAnswer

\* Every reachable state satisfies the invariant.
LEMMA Invariant == Spec => [](TypeOK /\ Inv)
BY InitTypes, StepTypes, InitKeeps, StepKeeps, PTL DEF Spec

-----------------------------------------------------------------------------
(* What follows for those who push. *)

\* One idempotency key, one message: of any number of requests that race, repeat or die,
\* all that are answered with a message are answered with the same one.
THEOREM OneMessagePerKey == Spec => []OneMessage
<1>1. Inv => OneMessage
  <2> SUFFICES ASSUME Inv, key.exists, NEW r \in Requests, NEW s \in Requests,
                      Promised(r), Promised(s), SameIdem(r, s)
               PROVE  answer[r].id = answer[s].id
    BY DEF OneMessage
  <2>1. PICK m \in kept : answer[r].id = {m} /\ (m = r \/ SameIdem(r, m))
    BY DEF Inv, AnswersTrue, Truth, Promised
  <2>2. PICK n \in kept : answer[s].id = {n} /\ (n = s \/ SameIdem(s, n))
    BY DEF Inv, AnswersTrue, Truth, Promised
  <2>3. SameIdem(m, n)
    BY <2>1, <2>2 DEF SameIdem
  <2> QED
    BY <2>1, <2>2, <2>3 DEF Inv, OnePerIdem
<1> QED
  BY <1>1, Invariant, PTL

\* The message a request was answered with has its payload and is there with its key.
THEOREM AnswersAreTrue == Spec => []AnswerTrue
<1>1. TypeOK /\ Inv => AnswerTrue
  BY DEF Inv, TableKept, AnswersTrue, Truth, Promised, AnswerTrue
<1> QED
  BY <1>1, Invariant, PTL

-----------------------------------------------------------------------------
(* The default channel, with one console request at a time.  What the request validated *)
(* is what its commit finds, because nobody else changes the key in between.            *)

\* The changed key would have a default among its channels.
PatchBinds(a) == PatchedDefault(a) \in PatchedLinks(a)

\* A request that has loaded the key knows the key as it is, and one past its checks
\* leaves the default bound.
LoadedAsStored ==
  \A a \in Admins : at[a] \in {"loaded", "checked"} /\ key.exists =>
    /\ view[a] = [active |-> key.active, default |-> key.default, links |-> links]
    /\ at[a] = "checked" => PatchBinds(a)

DefaultInv == DefaultBound /\ LoadedAsStored

\* A step that leaves the key and the console requests alone keeps both.
LEMMA DefaultAside ==
  ASSUME DefaultInv, UNCHANGED <<keyVars, adminVars>>
  PROVE  DefaultInv'
BY DEF DefaultInv, DefaultBound, LoadedAsStored, PatchBinds, PatchedDefault, PatchedLinks,
       keyVars, adminVars

\* A console request that ends leaves no request that has loaded the key.
LEMMA EndForgets ==
  ASSUME \A a, b \in Admins : a = b, TypeOK, NEW a \in Admins, End(a), DefaultBound'
  PROVE  DefaultInv'
BY DEF DefaultInv, LoadedAsStored, End, TypeOK

\* The two checks together bind the default the key would have.
LEMMA ValidBinds ==
  ASSUME DefaultInv, key.exists, NEW a \in Admins, at[a] = "loaded", Valid(a)
  PROVE  PatchBinds(a)
<1>1. view[a].default = key.default /\ view[a].links = links /\ key.default \in links
  BY DEF DefaultInv, DefaultBound, LoadedAsStored
<1>2. CASE patch[a].ids # {}
  BY <1>2 DEF Valid, PatchBinds, PatchedLinks
<1>3. CASE patch[a].ids = {} /\ patch[a].default # {}
  BY <1>3 DEF Valid, PatchBinds
<1>4. CASE patch[a].ids = {} /\ patch[a].default = {}
  BY <1>1, <1>4 DEF PatchBinds, PatchedDefault, PatchedLinks, Given
<1> QED
  BY <1>2, <1>3, <1>4

\* The commit writes exactly what was validated.
LEMMA CommitBinds ==
  ASSUME \A a, b \in Admins : a = b, TypeOK, DefaultInv, NEW a \in Admins, CommitPatch(a)
  PROVE  DefaultInv'
<1>1. CASE key.exists /\ ~LinkClash(a)
  <2>1. /\ view[a].default = key.default
        /\ view[a].links = links
        /\ PatchBinds(a)
    BY <1>1 DEF CommitPatch, DefaultInv, LoadedAsStored
  <2>2. key'.default = PatchedDefault(a)
    BY <1>1, <2>1 DEF CommitPatch, Column, TypeOK, Key
  <2>3. links' = PatchedLinks(a)
    BY <1>1, <2>1 DEF CommitPatch, PatchedLinks, Relinked
  <2>4. DefaultBound'
    BY <2>1, <2>2, <2>3 DEF DefaultBound, PatchBinds
  <2> QED
    BY <2>4, EndForgets DEF CommitPatch
<1>2. CASE UNCHANGED keyVars
  <2>1. DefaultBound'
    BY <1>2 DEF DefaultInv, DefaultBound, keyVars
  <2> QED
    BY <2>1, EndForgets DEF CommitPatch
<1> QED
  BY <1>1, <1>2 DEF CommitPatch

\* Every step keeps the default bound, and what a request has loaded the key as it is.
LEMMA DefaultStep ==
  ASSUME \A a, b \in Admins : a = b
  PROVE  TypeOK /\ DefaultInv /\ [Next]_vars => DefaultInv'
<1> SUFFICES ASSUME TypeOK, DefaultInv, [Next]_vars PROVE DefaultInv'
  OBVIOUS
<1>1. ASSUME NEW a \in Admins, AdminNext(a) PROVE DefaultInv'
  <2>1. ASSUME NEW p \in Patches, LoadKey(a, p) PROVE DefaultInv'
    <3>1. DefaultBound'
      BY <2>1 DEF LoadKey, DefaultInv, DefaultBound, keyVars
    <3>2. LoadedAsStored'
      BY <2>1 DEF LoadKey, LoadedAsStored, TypeOK, keyVars
    <3> QED
      BY <3>1, <3>2 DEF DefaultInv
  <2>2. CASE Validate(a)
    <3>1. DefaultBound'
      BY <2>2 DEF Validate, DefaultInv, DefaultBound, keyVars
    <3>2. CASE Valid(a)
      <4>1. key.exists => PatchBinds(a)
        BY <2>2, <3>2, ValidBinds DEF Validate
      <4>2. LoadedAsStored'
        BY <2>2, <3>2, <4>1 DEF Validate, DefaultInv, LoadedAsStored, PatchBinds,
           PatchedDefault, PatchedLinks, TypeOK, keyVars
      <4> QED
        BY <3>1, <4>2 DEF DefaultInv
    <3>3. CASE ~Valid(a)
      BY <2>2, <3>1, <3>3, EndForgets DEF Validate
    <3> QED
      BY <3>2, <3>3
  <2>3. CASE CommitPatch(a)
    BY <2>3, CommitBinds
  <2>4. CASE ListMessages(a)
    <3>1. DefaultBound'
      BY <2>4 DEF ListMessages, DefaultInv, DefaultBound, keyVars
    <3>2. LoadedAsStored'
      BY <2>4 DEF ListMessages, LoadedAsStored, TypeOK
    <3> QED
      BY <3>1, <3>2 DEF DefaultInv
  <2>5. CASE CommitDelete(a)
    <3>1. DefaultBound'
      BY <2>5 DEF CommitDelete, DeleteRows, DefaultInv, DefaultBound, keyVars, TypeOK, Key
    <3> QED
      BY <2>5, <3>1, EndForgets DEF CommitDelete
  <2> QED
    BY <1>1, <2>1, <2>2, <2>3, <2>4, <2>5 DEF AdminNext
<1>2. ASSUME NEW r \in Requests, PushNext(r) PROVE DefaultInv'
  <2>1. UNCHANGED <<keyVars, adminVars>>
    BY <1>2 DEF PushNext, Resolve, Replay, FindExisting, TakeSlot, Store, Clash, Accepted,
       Dies
  <2> QED
    BY <2>1, DefaultAside
<1>3. ASSUME NEW c \in Channels, Toggle(c) PROVE DefaultInv'
  BY <1>3, DefaultAside DEF Toggle
<1>4. CASE UNCHANGED vars
  BY <1>4, DefaultAside DEF vars
<1> QED
  BY <1>1, <1>2, <1>3, <1>4 DEF Next

\* With at most one console request at a time, no series of changes of a key, among any
\* pushes and any changes of its channels, leaves a default that is not bound.
THEOREM DefaultStaysBound == ASSUME \A a, b \in Admins : a = b PROVE Spec => []DefaultBound
<1>1. Init => DefaultInv
  BY DEF Init, DefaultInv, DefaultBound, LoadedAsStored
<1>2. TypeOK /\ DefaultInv /\ [Next]_vars => DefaultInv'
  BY DefaultStep
<1>3. DefaultInv => DefaultBound
  BY DEF DefaultInv
<1> QED
  BY <1>1, <1>2, <1>3, PushTypeCorrect, PTL DEF Spec

=============================================================================
