-------------------------------- MODULE Push --------------------------------
(***************************************************************************)
(* Accepting pushes for one push key: enqueue_message up to the moment its *)
(* message is stored and answered, by the push route and by the replay of  *)
(* a message, against console requests that change or delete the key at    *)
(* the same time.                                                          *)
(*                                                                         *)
(* Pushes of different keys share nothing, so there is one key.  Every     *)
(* await is a step boundary.  A message's id is the request that wrote it. *)
(* What becomes of its deliveries is the subject of Delivery.              *)
(***************************************************************************)
EXTENDS Naturals, FiniteSets

CONSTANTS
  Requests,     \* requests that push or replay
  Admins,       \* console requests that change the key, run again and again
  Channels,
  Initial,      \* the channel the key is created with
  IdemKeys,     \* values of the header Idempotency-Key
  NoIdem,       \* no such header
  Payloads,     \* title, content and type of a push, with the channels it names
  Patches,      \* the changes a console request may ask for
  ForeignKeys   \* does the database enforce foreign keys? (SQLite does not)

Optional(S) == {{}} \cup {{x} : x \in S}

\* An absent field of a change is an empty set.
Patch == [ids : SUBSET Channels, default : Optional(Channels), active : Optional(BOOLEAN)]

ASSUME PushAssumption ==
  /\ Initial \in Channels
  /\ NoIdem \notin IdemKeys
  /\ Payloads # {}
  /\ \A p \in Payloads : p.ids \subseteq Channels
  /\ Patches \subseteq Patch
  /\ ForeignKeys \in BOOLEAN

\* A request as sent; ids is empty where channel_ids is absent or empty.
Sent == [idem : IdemKeys \cup {NoIdem},
         text : {p.text : p \in Payloads},
         ids  : SUBSET Channels]

Key == [exists : BOOLEAN, active : BOOLEAN, default : Channels]

\* What a push keeps of the key it loaded.
Seen == [default : Channels, channels : SUBSET Channels]

\* What a console request keeps of the key it loaded.
View == [active : BOOLEAN, default : Channels, links : SUBSET Channels]

NoAnswer == [kind |-> "none", id |-> {}]

Answer == [kind : {"none", "accepted", "repeated", "refused", "conflict", "error"},
           id : SUBSET Requests]

PC == {"idle", "resolved", "checked", "granted", "posting", "answered", "dead"}

VARIABLES
  key,      \* the row of push_keys
  links,    \* its rows of push_key_channels
  usable,   \* channels that are enabled and not deleted
  targets,  \* rows of messages and deliveries: the channels of each message
  pc,       \* where each push is
  sent,     \* what each push asked for
  seen,     \* the key as each push loaded it
  answer,   \* what each push was answered
  at,       \* where each console request is
  patch,    \* the change it asks for
  view,     \* the key as it loaded it
  listed,   \* the messages it found to delete
  kept      \* history: requests whose message was ever stored

keyVars   == <<key, links>>
pushVars  == <<pc, sent, seen, answer>>
adminVars == <<at, patch, view, listed>>
vars == <<keyVars, usable, targets, pushVars, adminVars, kept>>

Nothing == [idem |-> NoIdem, text |-> (CHOOSE p \in Payloads : TRUE).text, ids |-> {}]

NotSeen == [default |-> Initial, channels |-> {}]

NoPatch == [ids |-> {}, default |-> {}, active |-> {}]

NoView == [active |-> FALSE, default |-> Initial, links |-> {}]

TypeOK ==
  /\ key \in Key
  /\ links \in SUBSET Channels
  /\ usable \in SUBSET Channels
  /\ targets \in [Requests -> SUBSET Channels]
  /\ pc \in [Requests -> PC]
  /\ sent \in [Requests -> Sent]
  /\ seen \in [Requests -> Seen]
  /\ answer \in [Requests -> Answer]
  /\ at \in [Admins -> {"idle", "loaded", "checked", "listed"}]
  /\ patch \in [Admins -> Patch]
  /\ view \in [Admins -> View]
  /\ listed \in [Admins -> SUBSET Requests]
  /\ kept \in SUBSET Requests

Init ==
  /\ key = [exists |-> TRUE, active |-> TRUE, default |-> Initial]
  /\ links = {Initial}
  /\ usable = Channels
  /\ targets = [r \in Requests |-> {}]
  /\ pc = [r \in Requests |-> "idle"]
  /\ sent = [r \in Requests |-> Nothing]
  /\ seen = [r \in Requests |-> NotSeen]
  /\ answer = [r \in Requests |-> NoAnswer]
  /\ at = [a \in Admins |-> "idle"]
  /\ patch = [a \in Admins |-> NoPatch]
  /\ view = [a \in Admins |-> NoView]
  /\ listed = [a \in Admins |-> {}]
  /\ kept = {}

-----------------------------------------------------------------------------
(* Rows. *)

\* A message has at least one delivery.
Stored == {m \in Requests : targets[m] # {}}

\* idempotency_hash is the fingerprint of the payload.
SamePayload(r, m) == sent[m].text = sent[r].text /\ sent[m].ids = sent[r].ids

\* Fault: the payload is not compared.
RepliesAny(r, m) == [kind |-> "repeated", id |-> {m}]

\* The answer to r when m already has its idempotency key.
Replies(r, m) ==
  IF SamePayload(r, m)
    THEN [kind |-> "repeated", id |-> {m}]
    ELSE [kind |-> "conflict", id |-> {}]

SameIdem(r, m) == sent[r].idem # NoIdem /\ sent[m].idem = sent[r].idem

Existing(r) == {m \in Stored : SameIdem(r, m)}

\* resolve_push_targets; {} stands for its three refusals.
Resolved(s, ids) ==
  IF ids = {} THEN s.channels \cap {s.default}
  ELSE IF ids \subseteq s.channels THEN ids
  ELSE {}

-----------------------------------------------------------------------------
(* A push. *)

Goto(r, place) == pc' = [pc EXCEPT ![r] = place]

\* The request ends with its session.
Reply(r, a) ==
  /\ answer' = [answer EXCEPT ![r] = a]
  /\ seen' = [seen EXCEPT ![r] = NotSeen]
  /\ Goto(r, "answered")

Refused == [kind |-> "refused", id |-> {}]

\* The key as loaded with its links and their channels.
See(r) ==
  /\ seen' = [seen EXCEPT ![r] =
       [default |-> key.default, channels |-> links \cap usable]]
  /\ Goto(r, "resolved")

\* post_push: the token is that of an active key, or is refused.
Resolve(r, i, p) ==
  /\ pc[r] = "idle"
  /\ \/ /\ key.exists /\ key.active
        /\ sent' = [sent EXCEPT ![r] = [idem |-> i, text |-> p.text, ids |-> p.ids]]
        /\ See(r)
        /\ UNCHANGED answer
     \/ Reply(r, Refused) /\ UNCHANGED sent
  /\ UNCHANGED <<keyVars, usable, targets, adminVars, kept>>

\* replay_message: the channels of the old message, no idempotency key.
Replay(r, m) ==
  /\ pc[r] = "idle"
  /\ m \in Stored
  /\ key.exists
  /\ IF key.active
       THEN /\ sent' = [sent EXCEPT ![r] =
                 [idem |-> NoIdem, text |-> sent[m].text, ids |-> targets[m]]]
            /\ See(r)
            /\ UNCHANGED answer
       ELSE Reply(r, Refused) /\ UNCHANGED sent
  /\ UNCHANGED <<keyVars, usable, targets, adminVars, kept>>

FindExisting(r) ==
  /\ pc[r] = "resolved"
  /\ sent[r].idem # NoIdem
  /\ \/ Existing(r) = {} /\ Goto(r, "checked") /\ UNCHANGED <<seen, answer>>
     \/ \E m \in Existing(r) : Reply(r, Replies(r, m))
  /\ UNCHANGED <<keyVars, usable, targets, sent, adminVars, kept>>

\* Targets are resolved, then the key's minute has a slot left or not.
TakeSlot(r) ==
  /\ pc[r] = IF sent[r].idem = NoIdem THEN "resolved" ELSE "checked"
  /\ \/ /\ Resolved(seen[r], sent[r].ids) # {}
        /\ Goto(r, "granted")
        /\ UNCHANGED <<seen, answer>>
     \/ Reply(r, Refused)
  /\ UNCHANGED <<keyVars, usable, targets, sent, adminVars, kept>>

\* Fault: the table has no unique constraint.
AdmitsTwins(r) == key.exists \/ ~ForeignKeys

\* The constraints of messages: unique (push_key_id, idempotency_key), and the
\* foreign key to push_keys where the database enforces it.
Admits(r) == Existing(r) = {} /\ (key.exists \/ ~ForeignKeys)

Store(r) ==
  /\ pc[r] = "granted"
  /\ Admits(r)
  /\ targets' = [targets EXCEPT ![r] = Resolved(seen[r], sent[r].ids)]
  /\ kept' = kept \cup {r}
  /\ Goto(r, "posting")
  /\ UNCHANGED <<keyVars, usable, sent, seen, answer, adminVars>>

\* IntegrityError.  The rollback expires every object of the session, so that the
\* branch which is to find the stored message fails on reading push_key.id: the lost
\* race ends in an error, as does a failure without an idempotency key.
Clash(r) ==
  /\ pc[r] = "granted"
  /\ ~Admits(r)
  /\ Reply(r, [kind |-> "error", id |-> {}])
  /\ UNCHANGED <<keyVars, usable, targets, sent, adminVars, kept>>

\* The jobs are enqueued and the id is answered.
Accepted(r) ==
  /\ pc[r] = "posting"
  /\ Reply(r, [kind |-> "accepted", id |-> {r}])
  /\ UNCHANGED <<keyVars, usable, targets, sent, adminVars, kept>>

\* The API dies, or Redis refuses: no answer.
Dies(r) ==
  /\ pc[r] \notin {"idle", "answered", "dead"}
  /\ seen' = [seen EXCEPT ![r] = NotSeen]
  /\ Goto(r, "dead")
  /\ UNCHANGED <<keyVars, usable, targets, sent, answer, adminVars, kept>>

-----------------------------------------------------------------------------
(* Console requests on the key. *)

End(a) ==
  /\ at' = [at EXCEPT ![a] = "idle"]
  /\ patch' = [patch EXCEPT ![a] = NoPatch]
  /\ view' = [view EXCEPT ![a] = NoView]
  /\ listed' = [listed EXCEPT ![a] = {}]

\* patch_push_key: the key is loaded with its links.
LoadKey(a, p) ==
  /\ at[a] = "idle"
  /\ key.exists
  /\ at' = [at EXCEPT ![a] = "loaded"]
  /\ patch' = [patch EXCEPT ![a] = p]
  /\ view' = [view EXCEPT ![a] =
       [active |-> key.active, default |-> key.default, links |-> links]]
  /\ UNCHANGED <<keyVars, usable, targets, pushVars, listed, kept>>

Given(opt, otherwise) == IF opt = {} THEN otherwise ELSE CHOOSE x \in opt : TRUE

\* The links and the default channel the key would have.
PatchedLinks(a) == IF patch[a].ids = {} THEN view[a].links ELSE patch[a].ids

\* Fault: an absent default channel is written as NULL.
PatchedDefaultNull(a) == Given(patch[a].default, "NULL")

PatchedDefault(a) == Given(patch[a].default, view[a].default)

PatchedActive(a) == Given(patch[a].active, view[a].active)

\* Fault: new channels need not contain the default the key has.
ValidUnlessDefault(a) ==
  /\ patch[a].ids \subseteq usable
  /\ patch[a].default # {} => PatchedDefault(a) \in PatchedLinks(a)

\* _validate_channel_bindings when channels are given, and the check that a new
\* default channel is bound.  (Whose channels they may be is left out.)
Valid(a) ==
  /\ patch[a].ids # {} =>
       PatchedDefault(a) \in patch[a].ids /\ patch[a].ids \subseteq usable
  /\ patch[a].default # {} => PatchedDefault(a) \in PatchedLinks(a)

Validate(a) ==
  /\ at[a] = "loaded"
  /\ IF Valid(a)
       THEN at' = [at EXCEPT ![a] = "checked"] /\ UNCHANGED <<patch, view, listed>>
       ELSE End(a)
  /\ UNCHANGED <<keyVars, usable, targets, pushVars, kept>>

Column(stored, loaded, new) == IF new = loaded THEN stored ELSE new

\* The loaded links are deleted, the new ones inserted.
Relinked(a) == (links \ view[a].links) \cup patch[a].ids

\* Another request has bound one of the new channels since: the primary key clashes.
LinkClash(a) == patch[a].ids \cap (links \ view[a].links) # {}

CommitPatch(a) ==
  /\ at[a] = "checked"
  /\ IF key.exists /\ ~LinkClash(a)
       THEN /\ key' = [key EXCEPT
                 !.active  = Column(@, view[a].active, PatchedActive(a)),
                 !.default = Column(@, view[a].default, PatchedDefault(a))]
            /\ links' = IF patch[a].ids = {} THEN links ELSE Relinked(a)
       ELSE UNCHANGED keyVars
  /\ End(a)
  /\ UNCHANGED <<usable, targets, pushVars, kept>>

\* delete_push_key: the messages of the key are listed, then deleted with it.
ListMessages(a) ==
  /\ at[a] = "idle"
  /\ key.exists
  /\ at' = [at EXCEPT ![a] = "listed"]
  /\ listed' = [listed EXCEPT ![a] = Stored]
  /\ UNCHANGED <<keyVars, usable, targets, pushVars, patch, view, kept>>

\* The listed messages go, then the key and, where foreign keys are enforced, the
\* messages stored in the meantime with it.
DeleteRows(a) ==
  /\ key' = [key EXCEPT !.exists = FALSE]
  /\ links' = {}
  /\ targets' = [m \in Requests |->
       IF m \in listed[a] \/ ForeignKeys THEN {} ELSE targets[m]]

\* The flush loads the messages of the key and sets push_key_id of those that are left
\* to NULL, which the column refuses: the whole request is rolled back.  A message that
\* is stored after that load does not stop it.
CommitDelete(a) ==
  /\ at[a] = "listed"
  /\ \/ ~ (Stored \subseteq listed[a]) /\ UNCHANGED <<keyVars, targets>>
     \/ DeleteRows(a)
  /\ End(a)
  /\ UNCHANGED <<usable, pushVars, kept>>

\* A channel is disabled, deleted or enabled.
Toggle(c) ==
  /\ usable' = IF c \in usable THEN usable \ {c} ELSE usable \cup {c}
  /\ UNCHANGED <<keyVars, targets, pushVars, adminVars, kept>>

-----------------------------------------------------------------------------
PushNext(r) ==
  \/ \E i \in IdemKeys \cup {NoIdem}, p \in Payloads : Resolve(r, i, p)
  \/ \E m \in Requests : Replay(r, m)
  \/ FindExisting(r) \/ TakeSlot(r) \/ Store(r) \/ Clash(r)
  \/ Accepted(r) \/ Dies(r)

AdminNext(a) ==
  \/ \E p \in Patches : LoadKey(a, p)
  \/ Validate(a) \/ CommitPatch(a) \/ ListMessages(a) \/ CommitDelete(a)

Next ==
  \/ \E r \in Requests : PushNext(r)
  \/ \E a \in Admins : AdminNext(a)
  \/ \E c \in Channels : Toggle(c)

Spec == Init /\ [][Next]_vars

-----------------------------------------------------------------------------
Promised(r) == answer[r].kind \in {"accepted", "repeated"}

\* While the key is there, an idempotency key names one message: all requests that
\* carried it and were answered with a message were answered with the same one,
\* whichever of them stored it, found it or came after a crash.
OneMessage ==
  key.exists => \A r, s \in Requests :
    Promised(r) /\ Promised(s) /\ SameIdem(r, s) => answer[r].id = answer[s].id

\* The message a request was answered with is one with its own payload, and is
\* there until the key is deleted.
AnswerTrue ==
  \A r \in Requests : Promised(r) =>
    \A m \in answer[r].id :
      /\ SamePayload(r, m)
      /\ key.exists => m \in Stored

\* A push is not answered with an error while a message is stored under its
\* idempotency key: it is told of that message, or of the conflict.
RepeatAnswered ==
  \A r \in Requests : answer[r].kind = "error" /\ key.exists => Existing(r) = {}

\* No message outlives its key, although a push that resolved the key may store its
\* message while the key is being deleted.  Only enforced foreign keys see to it.
NoOrphan == Stored # {} => key.exists

\* The default channel of a key is one of its channels, after any series of changes of
\* channels and default.  With one console request at a time the two checks of
\* update_push_key see to it; two at a time each check what the other is changing.
DefaultBound == key.exists => key.default \in links

=============================================================================
