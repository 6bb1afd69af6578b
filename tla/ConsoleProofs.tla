--------------------------- MODULE ConsoleProofs ---------------------------
(***************************************************************************)
(* Proofs about the web console, for any number of keys, channels, users   *)
(* and groups, and any number of requests, gestures and changes by others. *)
(***************************************************************************)
EXTENDS Console, SequenceTheorems, TLAPS

-----------------------------------------------------------------------------
(* Requests.  The pages share the sequence calls and change it in four ways *)
(* only: a request is sent, answered, settled, or left behind.              *)

Shape(c) ==
  c \in [op : {c.op}, arg : {c.arg}, at : {c.at}, here : {c.here}, out : {c.out}]

CallsOK ==
  /\ \E S : calls \in Seq(S)
  /\ \A i \in DOMAIN calls : Shape(calls[i])

\* Request c has these fields.
Fields(c, op, arg, at, here, out) ==
  /\ c.op = op /\ c.arg = arg /\ c.at = at /\ c.here = here /\ c.out = out

\* The requests are numbered from 1.
LEMMA CallsDomain == CallsOK => Len(calls) \in Nat /\ DOMAIN calls = 1..Len(calls)
BY LenProperties DEF CallsOK

\* What the four changes make of a request.
LEMMA Shaped ==
  /\ \A op, arg, at, here, out :
       LET r == [op |-> op, arg |-> arg, at |-> at, here |-> here, out |-> out]
       IN  Shape(r) /\ Fields(r, op, arg, at, here, out)
  /\ \A c, at, out :
       LET r == [c EXCEPT !.at = at, !.out = out]
       IN  Shape(c) => Shape(r) /\ Fields(r, c.op, c.arg, at, c.here, out)
  /\ \A c, at, arg, out :
       LET r == [c EXCEPT !.at = at, !.arg = arg, !.out = out]
       IN  Shape(c) => Shape(r) /\ Fields(r, c.op, arg, at, c.here, out)
  /\ \A c, here :
       LET r == [c EXCEPT !.here = here]
       IN  Shape(c) => Shape(r) /\ Fields(r, c.op, c.arg, c.at, here, c.out)
<1>1. ASSUME NEW op, NEW arg, NEW at, NEW here, NEW out
      PROVE  LET r == [op |-> op, arg |-> arg, at |-> at, here |-> here, out |-> out]
             IN  Shape(r) /\ Fields(r, op, arg, at, here, out)
  BY DEF Shape, Fields
<1>2. ASSUME NEW c, NEW at, NEW out, Shape(c)
      PROVE  LET r == [c EXCEPT !.at = at, !.out = out]
             IN  Shape(r) /\ Fields(r, c.op, c.arg, at, c.here, out)
  BY <1>2 DEF Shape, Fields
<1>3. ASSUME NEW c, NEW at, NEW arg, NEW out, Shape(c)
      PROVE  LET r == [c EXCEPT !.at = at, !.arg = arg, !.out = out]
             IN  Shape(r) /\ Fields(r, c.op, arg, at, c.here, out)
  BY <1>3 DEF Shape, Fields
<1>4. ASSUME NEW c, NEW here, Shape(c)
      PROVE  LET r == [c EXCEPT !.here = here]
             IN  Shape(r) /\ Fields(r, c.op, c.arg, c.at, here, c.out)
  BY <1>4 DEF Shape, Fields
<1> QED
  BY <1>1, <1>2, <1>3, <1>4

\* A new request comes last and leaves the others alone.
LEMMA SentCall ==
  ASSUME CallsOK, NEW op, NEW arg,
         calls' = Append(calls, [op |-> op, arg |-> arg, at |-> "sent",
                                 here |-> TRUE, out |-> Null])
  PROVE  /\ CallsOK'
         /\ DOMAIN calls' = DOMAIN calls \cup {Len(calls) + 1}
         /\ \A i \in DOMAIN calls : i < Len(calls) + 1 /\ calls'[i] = calls[i]
         /\ Fields(calls'[Len(calls) + 1], op, arg, "sent", TRUE, Null)
<1> DEFINE r == [op |-> op, arg |-> arg, at |-> "sent", here |-> TRUE, out |-> Null]
<1>1. PICK S : calls \in Seq(S)
  BY DEF CallsOK
<1>2. calls \in Seq(S \cup {r}) /\ r \in S \cup {r}
  BY <1>1, SeqMonotonic
<1>3. /\ calls' \in Seq(S \cup {r})
      /\ Len(calls') = Len(calls) + 1
      /\ \A i \in 1..Len(calls) : calls'[i] = calls[i]
      /\ calls'[Len(calls) + 1] = r
  BY <1>2, AppendProperties
<1>4. Len(calls) \in Nat /\ DOMAIN calls = 1..Len(calls)
  BY CallsDomain
<1>5. DOMAIN calls' = 1..(Len(calls) + 1)
  BY <1>3, LenProperties
<1>6. DOMAIN calls' = DOMAIN calls \cup {Len(calls) + 1}
  BY <1>4, <1>5
<1>7. Shape(r) /\ Fields(r, op, arg, "sent", TRUE, Null)
  BY Shaped
<1>8. \A i \in DOMAIN calls' : Shape(calls'[i])
  BY <1>3, <1>4, <1>6, <1>7 DEF CallsOK
<1>9. CallsOK'
  BY <1>3, <1>8 DEF CallsOK, Shape
<1>10. Fields(calls'[Len(calls) + 1], op, arg, "sent", TRUE, Null)
  BY <1>3, <1>7
<1>11. \A i \in DOMAIN calls : i < Len(calls) + 1 /\ calls'[i] = calls[i]
  BY <1>3, <1>4
<1> HIDE DEF r
<1> QED
  BY <1>6, <1>9, <1>10, <1>11

\* A sequence of requests with one of them replaced is one again.
LEMMA ReplacedCall ==
  ASSUME CallsOK, NEW i \in DOMAIN calls, NEW r, Shape(r),
         calls' = [calls EXCEPT ![i] = r]
  PROVE  /\ CallsOK'
         /\ DOMAIN calls' = DOMAIN calls
         /\ \A j \in DOMAIN calls \ {i} : calls'[j] = calls[j]
         /\ calls'[i] = r
<1>1. PICK S : calls \in Seq(S)
  BY DEF CallsOK
<1>2. calls \in Seq(S \cup {r}) /\ r \in S \cup {r}
  BY <1>1, SeqMonotonic
<1>3. calls' \in Seq(S \cup {r})
  BY <1>2, CallsDomain, ExceptSeq
<1>4. /\ DOMAIN calls' = DOMAIN calls
      /\ \A j \in DOMAIN calls \ {i} : calls'[j] = calls[j]
      /\ calls'[i] = r
  BY <1>2, CallsDomain, ExceptSeq, LenProperties
<1>5. \A j \in DOMAIN calls' : Shape(calls'[j])
  BY <1>4 DEF CallsOK
<1> QED
  BY <1>3, <1>4, <1>5 DEF CallsOK, Shape

\* Changing fields of one request is replacing it.
LEMMA UpdatedCall ==
  ASSUME NEW f, NEW i \in DOMAIN f, NEW at, NEW arg, NEW out
  PROVE  /\ [f EXCEPT ![i].at = at, ![i].out = out]
              = [f EXCEPT ![i] = [f[i] EXCEPT !.at = at, !.out = out]]
         /\ [f EXCEPT ![i].at = at, ![i].arg = arg, ![i].out = out]
              = [f EXCEPT ![i] = [f[i] EXCEPT !.at = at, !.arg = arg, !.out = out]]
OBVIOUS

\* An answer changes where one request stands and what it brought.
LEMMA AnsweredCall ==
  ASSUME CallsOK, NEW i \in DOMAIN calls, NEW at, NEW out,
         calls' = [calls EXCEPT ![i].at = at, ![i].out = out]
  PROVE  /\ CallsOK'
         /\ DOMAIN calls' = DOMAIN calls
         /\ \A j \in DOMAIN calls \ {i} : calls'[j] = calls[j]
         /\ Fields(calls'[i], calls[i].op, calls[i].arg, at, calls[i].here, out)
<1> DEFINE r == [calls[i] EXCEPT !.at = at, !.out = out]
<1>1. calls' = [calls EXCEPT ![i] = r]
  BY UpdatedCall
<1>2. Shape(r) /\ Fields(r, calls[i].op, calls[i].arg, at, calls[i].here, out)
  BY Shaped DEF CallsOK
<1> HIDE DEF r
<1> QED
  BY <1>1, <1>2, ReplacedCall

\* A settled request keeps its place only.
LEMMA SettledCall ==
  ASSUME CallsOK, NEW i \in DOMAIN calls,
         calls' = [calls EXCEPT ![i].at = "done", ![i].arg = Null, ![i].out = Null]
  PROVE  /\ CallsOK'
         /\ DOMAIN calls' = DOMAIN calls
         /\ \A j \in DOMAIN calls \ {i} : calls'[j] = calls[j]
         /\ Fields(calls'[i], calls[i].op, Null, "done", calls[i].here, Null)
<1> DEFINE r == [calls[i] EXCEPT !.at = "done", !.arg = Null, !.out = Null]
<1>1. calls' = [calls EXCEPT ![i] = r]
  BY UpdatedCall
<1>2. Shape(r) /\ Fields(r, calls[i].op, Null, "done", calls[i].here, Null)
  BY Shaped DEF CallsOK
<1> HIDE DEF r
<1> QED
  BY <1>1, <1>2, ReplacedCall

\* Leaving a page disowns all its requests.
LEMMA AbandonedCalls ==
  ASSUME CallsOK,
         calls' = [i \in DOMAIN calls |-> [calls[i] EXCEPT !.here = FALSE]]
  PROVE  /\ CallsOK'
         /\ DOMAIN calls' = DOMAIN calls
         /\ \A i \in DOMAIN calls :
              Fields(calls'[i], calls[i].op, calls[i].arg, calls[i].at, FALSE,
                     calls[i].out)
<1>1. Len(calls) \in Nat /\ DOMAIN calls = 1..Len(calls)
  BY CallsDomain
<1>2. calls' \in [1..Len(calls) -> {calls'[i] : i \in DOMAIN calls}]
  BY <1>1
<1>3. calls' \in Seq({calls'[i] : i \in DOMAIN calls})
  BY <1>1, <1>2, SeqDef
<1>4. ASSUME NEW i \in DOMAIN calls
      PROVE  /\ Shape(calls'[i])
             /\ Fields(calls'[i], calls[i].op, calls[i].arg, calls[i].at, FALSE,
                       calls[i].out)
  <2>1. calls'[i] = [calls[i] EXCEPT !.here = FALSE] /\ Shape(calls[i])
    BY DEF CallsOK
  <2> QED
    BY <2>1, Shaped
<1>5. CallsOK'
  BY <1>3, <1>4 DEF CallsOK, Shape
<1> QED
  BY <1>4, <1>5

-----------------------------------------------------------------------------
(* An area is never left for another.                                      *)
LEMMA OneArea == [Next]_vars => area' = area
BY DEF Next, InKeys, InChannels, InGroups, InUsers, InMessage, InLists, InOverview,
       InSession, InLimits, vars

\* A step in one area is a step of that area's page, or none.
LEMMA StepOfArea ==
  ASSUME [Next]_vars
  PROVE  /\ area = "push-keys" => [Keys!Next]_(Keys!vars)
         /\ area = "session" => [Who!Next]_(Who!vars)
BY DEF Next, InKeys, InChannels, InGroups, InUsers, InMessage, InLists, InOverview,
       InSession, InLimits, vars, Keys!vars, Who!vars

-----------------------------------------------------------------------------
(* Push keys: one save at a time.  The button is disabled by the observer  *)
(* of the LATEST request only; that no earlier one can still be under way  *)
(* is the invariant, and it is about both kinds of saves together.         *)

IsSave(c) == c.op \in {"create", "update"} /\ c.here

OldSavesDone ==
  \A i, j \in DOMAIN calls :
    i < j /\ IsSave(calls[i]) /\ IsSave(calls[j]) => calls[i].at = "done"

KeysInv == area = "push-keys" => CallsOK /\ OldSavesDone

\* The requests go onward: none changes its kind, comes back to a page that
\* was left, or is reopened; a new one comes last, and is no save if one is
\* pending.
Onward ==
  /\ DOMAIN calls' \in {DOMAIN calls, DOMAIN calls \cup {Len(calls) + 1}}
  /\ \A i \in DOMAIN calls :
       /\ i < Len(calls) + 1
       /\ calls'[i].op = calls[i].op
       /\ calls'[i].here => calls[i].here
       /\ calls[i].at = "done" => calls'[i].at = "done"
  /\ Len(calls) + 1 \in DOMAIN calls' /\ calls'[Len(calls) + 1].op \in {"create", "update"}
       => ~Keys!Pending("create") /\ ~Keys!Pending("update")

LEMMA OnwardSent ==
  ASSUME CallsOK, NEW op, NEW arg, Keys!Send(op, arg),
         op \in {"create", "update"}
           => ~Keys!Pending("create") /\ ~Keys!Pending("update")
  PROVE  CallsOK' /\ Onward
<1>1. calls' = Append(calls, [op |-> op, arg |-> arg, at |-> "sent",
                              here |-> TRUE, out |-> Null])
  BY DEF Keys!Send, Keys!Request
<1>2. /\ CallsOK'
      /\ DOMAIN calls' = DOMAIN calls \cup {Len(calls) + 1}
      /\ \A i \in DOMAIN calls : i < Len(calls) + 1 /\ calls'[i] = calls[i]
      /\ Fields(calls'[Len(calls) + 1], op, arg, "sent", TRUE, Null)
  BY <1>1, SentCall
<1> QED
  BY <1>2 DEF Onward, Fields

\* What a step that only deals with request i shows.
LEMMA OnwardOne ==
  ASSUME CallsOK, NEW i \in DOMAIN calls, CallsOK',
         DOMAIN calls' = DOMAIN calls,
         \A j \in DOMAIN calls \ {i} : calls'[j] = calls[j],
         calls'[i].op = calls[i].op, calls'[i].here = calls[i].here,
         calls[i].at = "done" => calls'[i].at = "done"
  PROVE  Onward
<1>1. Len(calls) \in Nat /\ DOMAIN calls = 1..Len(calls)
  BY CallsDomain
<1>2. Len(calls) + 1 \notin DOMAIN calls /\ \A j \in DOMAIN calls : j < Len(calls) + 1
  BY <1>1
<1> QED
  BY <1>2 DEF Onward

LEMMA OnwardAnswered ==
  ASSUME CallsOK, NEW i \in Keys!InFlight, NEW at, NEW out, Keys!Answer(i, at, out)
  PROVE  CallsOK' /\ Onward
<1>1. i \in DOMAIN calls /\ calls[i].at # "done"
  BY DEF Keys!InFlight
<1>2. calls' = [calls EXCEPT ![i].at = at, ![i].out = out]
  BY DEF Keys!Answer
<1>3. /\ CallsOK'
      /\ DOMAIN calls' = DOMAIN calls
      /\ \A j \in DOMAIN calls \ {i} : calls'[j] = calls[j]
      /\ Fields(calls'[i], calls[i].op, calls[i].arg, at, calls[i].here, out)
  BY <1>1, <1>2, AnsweredCall
<1> QED
  BY <1>1, <1>3, OnwardOne DEF Fields

LEMMA OnwardSettled ==
  ASSUME CallsOK, NEW i \in Keys!InFlight, Keys!Settled(i)
  PROVE  CallsOK' /\ Onward
<1>1. i \in DOMAIN calls
  BY DEF Keys!InFlight
<1>2. calls' = [calls EXCEPT ![i].at = "done", ![i].arg = Null, ![i].out = Null]
  BY DEF Keys!Settled
<1>3. /\ CallsOK'
      /\ DOMAIN calls' = DOMAIN calls
      /\ \A j \in DOMAIN calls \ {i} : calls'[j] = calls[j]
      /\ Fields(calls'[i], calls[i].op, Null, "done", calls[i].here, Null)
  BY <1>1, <1>2, SettledCall
<1> QED
  BY <1>1, <1>3, OnwardOne DEF Fields

LEMMA OnwardAbandoned ==
  ASSUME CallsOK, Keys!Abandon
  PROVE  CallsOK' /\ Onward
<1>1. calls' = [i \in DOMAIN calls |-> [calls[i] EXCEPT !.here = FALSE]]
  BY DEF Keys!Abandon
<1>2. /\ CallsOK'
      /\ DOMAIN calls' = DOMAIN calls
      /\ \A i \in DOMAIN calls :
           Fields(calls'[i], calls[i].op, calls[i].arg, calls[i].at, FALSE, calls[i].out)
  BY <1>1, AbandonedCalls
<1>3. Len(calls) \in Nat /\ DOMAIN calls = 1..Len(calls)
  BY CallsDomain
<1>4. Len(calls) + 1 \notin DOMAIN calls /\ \A j \in DOMAIN calls : j < Len(calls) + 1
  BY <1>3
<1> QED
  BY <1>2, <1>4 DEF Onward, Fields

LEMMA OnwardUnchanged ==
  ASSUME CallsOK, UNCHANGED calls
  PROVE  CallsOK' /\ Onward
<1>1. Len(calls) \in Nat /\ DOMAIN calls = 1..Len(calls)
  BY CallsDomain
<1>2. Len(calls) + 1 \notin DOMAIN calls /\ \A j \in DOMAIN calls : j < Len(calls) + 1
  BY <1>1
<1>3. CallsOK'
  BY DEF CallsOK
<1> QED
  BY <1>2, <1>3 DEF Onward

LEMMA KeysOnward ==
  ASSUME CallsOK, [Keys!Next]_(Keys!vars)
  PROVE  CallsOK' /\ Onward
<1>1. CASE UNCHANGED calls
  BY <1>1, OnwardUnchanged
<1>2. CASE Keys!handleSubmit
  <2>1. \E op \in {"create", "update"} : Keys!Send(op, Keys!Payload)
    BY <1>2 DEF Keys!handleSubmit
  <2>2. ~Keys!Pending("create") /\ ~Keys!Pending("update")
    BY <1>2 DEF Keys!handleSubmit, Keys!SaveDisabled
  <2> QED
    BY <2>1, <2>2, OnwardSent
<1>3. CASE Keys!confirmRotate
  BY <1>3, OnwardSent DEF Keys!confirmRotate
<1>4. CASE Keys!confirmDelete
  BY <1>4, OnwardSent DEF Keys!confirmDelete
<1>5. CASE Keys!leave
  BY <1>5, OnwardAbandoned DEF Keys!leave
<1>6. ASSUME NEW i \in Keys!InFlight,
             \/ \E k \in PushKeys : Keys!ServeCreate(i, k)
             \/ Keys!ServeUpdate(i) \/ Keys!ServeRotate(i) \/ Keys!ServeDelete(i)
             \/ Keys!lose(i)
      PROVE  CallsOK' /\ Onward
  <2>1. \E at, out : Keys!Answer(i, at, out)
    BY <1>6 DEF Keys!ServeCreate, Keys!ServeUpdate, Keys!ServeRotate, Keys!ServeDelete,
                Keys!lose, Keys!Lose
  <2> QED
    BY <2>1, OnwardAnswered
<1>7. ASSUME NEW i \in Keys!InFlight, Keys!settle(i)
      PROVE  CallsOK' /\ Onward
  BY <1>7, OnwardSettled DEF Keys!settle
<1>8. \/ UNCHANGED calls
      \/ Keys!handleSubmit \/ Keys!confirmRotate \/ Keys!confirmDelete \/ Keys!leave
      \/ \E i \in Keys!InFlight :
           \/ \E k \in PushKeys : Keys!ServeCreate(i, k)
           \/ Keys!ServeUpdate(i) \/ Keys!ServeRotate(i) \/ Keys!ServeDelete(i)
           \/ Keys!lose(i) \/ Keys!settle(i)
  <2>1. CASE Keys!Next
    BY <2>1 DEF Keys!Next, Keys!Elsewhere, Keys!FetchKeys, Keys!FetchChannels,
        Keys!openCreate, Keys!closeForm, Keys!switchActive, Keys!openEdit,
        Keys!askRotate, Keys!askDelete, Keys!toggleChannel, Keys!pickDefault,
        Keys!cancelConfirm, Keys!closeSecret, Keys!RotatedElsewhere
  <2>2. CASE UNCHANGED Keys!vars
    BY <2>2 DEF Keys!vars
  <2> QED
    BY <2>1, <2>2
<1> QED
  BY <1>1, <1>2, <1>3, <1>4, <1>5, <1>6, <1>7, <1>8

\* If no save is pending, and old saves are done, all saves are done.
LEMMA NonePending ==
  ASSUME CallsOK, OldSavesDone,
         ~Keys!Pending("create"), ~Keys!Pending("update"),
         NEW i \in DOMAIN calls, IsSave(calls[i])
  PROVE  calls[i].at = "done"
<1> SUFFICES ASSUME calls[i].at # "done"
             PROVE  FALSE
  OBVIOUS
<1>1. i \in Keys!InFlight
  BY DEF Keys!InFlight
<1>2. \A j \in DOMAIN calls : j > i => ~IsSave(calls[j])
  <2> SUFFICES ASSUME NEW j \in DOMAIN calls, j > i, IsSave(calls[j])
               PROVE  FALSE
    OBVIOUS
  <2>1. i < j
    BY CallsDomain
  <2> QED
    BY <2>1 DEF OldSavesDone
<1>3. Keys!Pending(calls[i].op)
  BY <1>1, <1>2 DEF Keys!Pending, IsSave
<1> QED
  BY <1>3 DEF IsSave

LEMMA KeysInvInit == Init => KeysInv
<1> SUFFICES ASSUME Init, area = "push-keys"
             PROVE  CallsOK /\ OldSavesDone
  BY DEF KeysInv
<1>1. calls = <<>>
  BY DEF Init, Keys!Init
<1>2. calls \in Seq({}) /\ DOMAIN calls = {}
  BY <1>1
<1> QED
  BY <1>2 DEF CallsOK, OldSavesDone

LEMMA KeysInvStep == KeysInv /\ [Next]_vars => KeysInv'
<1> SUFFICES ASSUME KeysInv, [Next]_vars, area' = "push-keys"
             PROVE  CallsOK' /\ OldSavesDone'
  BY DEF KeysInv
<1>1. area = "push-keys" /\ CallsOK /\ OldSavesDone
  BY OneArea DEF KeysInv
<1>2. CallsOK' /\ Onward
  BY <1>1, StepOfArea, KeysOnward
<1>3. Len(calls) \in Nat /\ DOMAIN calls = 1..Len(calls)
  BY <1>1, CallsDomain
<1>4. ASSUME NEW i \in DOMAIN calls', NEW j \in DOMAIN calls',
             i < j, IsSave(calls[i])', IsSave(calls[j])'
      PROVE  calls'[i].at = "done"
  <2>1. i \in DOMAIN calls
    BY <1>2, <1>3, <1>4 DEF Onward
  <2>2. IsSave(calls[i])
    BY <1>2, <1>4, <2>1 DEF Onward, IsSave
  <2>3. CASE j \in DOMAIN calls
    <3>1. IsSave(calls[j])
      BY <1>2, <1>4, <2>3 DEF Onward, IsSave
    <3> QED
      BY <1>1, <1>2, <1>4, <2>1, <2>2, <2>3, <3>1 DEF Onward, OldSavesDone
  <2>4. CASE j = Len(calls) + 1
    <3>1. ~Keys!Pending("create") /\ ~Keys!Pending("update")
      BY <1>2, <1>4, <2>4 DEF Onward, IsSave
    <3> QED
      BY <1>1, <1>2, <2>1, <2>2, <3>1, NonePending DEF Onward
  <2> QED
    BY <1>2, <2>3, <2>4 DEF Onward
<1> QED
  BY <1>2, <1>4 DEF OldSavesDone

LEMMA KeysInvSuffices == KeysInv => OneSaveAtATime
<1> SUFFICES ASSUME KeysInv, area = "push-keys",
                    NEW i \in Keys!InFlight, NEW j \in Keys!InFlight,
                    IsSave(calls[i]), IsSave(calls[j]), i # j
             PROVE  FALSE
  BY DEF OneSaveAtATime, Keys!OneSaveAtATime, IsSave
<1>1. /\ CallsOK /\ OldSavesDone
      /\ i \in DOMAIN calls /\ calls[i].at # "done"
      /\ j \in DOMAIN calls /\ calls[j].at # "done"
  BY DEF KeysInv, Keys!InFlight
<1>2. i < j \/ j < i
  BY <1>1, CallsDomain
<1> QED
  BY <1>1, <1>2 DEF OldSavesDone

\* A page has at most one save of a push key on its way, whatever the order
\* in which requests are served and answered, however often the user clicks,
\* and however often the page is left and opened again.
THEOREM OneSave == Spec => []OneSaveAtATime
<1>1. Spec => []KeysInv
  BY KeysInvInit, KeysInvStep, PTL DEF Spec
<1> QED
  BY <1>1, KeysInvSuffices, PTL

-----------------------------------------------------------------------------
(* Who is logged in.  First the types, which say what a request carries at *)
(* each of its stages.                                                     *)

Tokens == [owner : Users, version : Nat]

\* What a save is answered: a token of its user, or none.
OwnToken(t, a) == t = Null \/ (t \in Tokens /\ t.owner = a.token.owner)

SessionCall(c) ==
  /\ c.op \in {"login", "save"}
  /\ c.op = "login" /\ c.at = "sent" => c.arg \in Users
  /\ c.op = "login" /\ c.at = "ok" => c.out \in Tokens
  /\ c.op = "save" /\ c.at \in {"sent", "read", "ok"}
       => c.arg \in [token : Tokens, password : BOOLEAN]
  /\ c.op = "save" /\ c.at = "read" => c.out \in Nat
  /\ c.op = "save" /\ c.at = "ok" => OwnToken(c.out, c.arg)

SessionCalls == CallsOK /\ \A i \in DOMAIN calls : SessionCall(calls[i])

ServerType == [version : [Users -> Nat], issued : [Users -> SUBSET Nat],
               dead : [Users -> SUBSET Nat], overlapped : SUBSET Users]
CacheType == [token : Tokens \cup {Null}, me : Users \cup {Null},
              fetch : Tokens \cup {Null}, elsewhere : Nat]
PageType == [route : {"login", "home", "profile", "admin"}, sent : Nat,
             strays : BOOLEAN, sure : BOOLEAN, gestures : Nat]

SessionTypes ==
  SessionCalls /\ server \in ServerType /\ cache \in CacheType /\ page \in PageType

LEMMA NoUser == Null \notin Users /\ Null \notin Tokens
BY ConsoleAssumption DEF Tokens

\* A tab fetches, or shows, its token's owner; a login that is to lead in has
\* a fetch with its token under way, or has data already.
Shown ==
  ~page.strays =>
    /\ cache.fetch # Null =>
         cache.token # Null /\ cache.fetch.owner = cache.token.owner
    /\ cache.fetch = Null /\ cache.me # Null =>
         cache.token # Null /\ cache.me = cache.token.owner

SureOfEntry ==
  page.sure => cache.me # Null \/ (cache.fetch # Null /\ cache.fetch = cache.token)

\* Versions only rise, and a change under way counts from the present one.
VersionsRise ==
  \A u \in Users \ server.overlapped :
    /\ \A v \in server.dead[u] : v < server.version[u]
    /\ \A v \in server.issued[u] : v <= server.version[u]
    /\ \A i \in Who!Changing(u) : calls[i].out = server.version[u]

-----------------------------------------------------------------------------
(* Types of the requests.                                                  *)

LEMMA CallSent ==
  ASSUME SessionCalls, NEW op, NEW arg, Who!Send(op, arg),
         \/ op = "login" /\ arg \in Users
         \/ op = "save" /\ arg \in [token : Tokens, password : BOOLEAN]
  PROVE  /\ SessionCalls'
         /\ DOMAIN calls' = DOMAIN calls \cup {Len(calls) + 1}
         /\ \A i \in DOMAIN calls : calls'[i] = calls[i]
         /\ calls'[Len(calls) + 1].at = "sent"
         /\ Len(calls) + 1 \in Nat
<1>1. calls' = Append(calls, [op |-> op, arg |-> arg, at |-> "sent",
                              here |-> TRUE, out |-> Null])
  BY DEF Who!Send, Who!Request
<1>2. /\ CallsOK'
      /\ DOMAIN calls' = DOMAIN calls \cup {Len(calls) + 1}
      /\ \A i \in DOMAIN calls : calls'[i] = calls[i]
      /\ Fields(calls'[Len(calls) + 1], op, arg, "sent", TRUE, Null)
  BY <1>1, SentCall DEF SessionCalls
<1>3. SessionCall(calls'[Len(calls) + 1])
  BY <1>2 DEF Fields, SessionCall
<1>4. Len(calls) + 1 \in Nat
  BY CallsDomain DEF SessionCalls
<1> QED
  BY <1>2, <1>3, <1>4 DEF SessionCalls, Fields

LEMMA CallAnswered ==
  ASSUME SessionCalls, NEW i \in Who!InFlight, NEW at, NEW out, Who!Answer(i, at, out),
         at \in {"read", "ok", "error"},
         calls[i].op = "login" /\ at = "ok" => out \in Tokens,
         calls[i].op = "save" /\ at # "error" => calls[i].at \in {"sent", "read"},
         calls[i].op = "save" /\ at = "read" => out \in Nat,
         calls[i].op = "save" /\ at = "ok" => OwnToken(out, calls[i].arg)
  PROVE  /\ SessionCalls'
         /\ DOMAIN calls' = DOMAIN calls
         /\ \A j \in DOMAIN calls \ {i} : calls'[j] = calls[j]
         /\ Fields(calls'[i], calls[i].op, calls[i].arg, at, calls[i].here, out)
<1>1. i \in DOMAIN calls /\ calls[i].at # "done" /\ SessionCall(calls[i])
  BY DEF Who!InFlight, SessionCalls
<1>2. calls' = [calls EXCEPT ![i].at = at, ![i].out = out]
  BY DEF Who!Answer
<1>3. /\ CallsOK'
      /\ DOMAIN calls' = DOMAIN calls
      /\ \A j \in DOMAIN calls \ {i} : calls'[j] = calls[j]
      /\ Fields(calls'[i], calls[i].op, calls[i].arg, at, calls[i].here, out)
  BY <1>1, <1>2, AnsweredCall DEF SessionCalls
<1>4. SessionCall(calls'[i])
  BY <1>1, <1>3 DEF Fields, SessionCall
<1> QED
  BY <1>3, <1>4 DEF SessionCalls

LEMMA CallSettled ==
  ASSUME SessionCalls, NEW i \in Who!InFlight, Who!Settled(i)
  PROVE  /\ SessionCalls'
         /\ DOMAIN calls' = DOMAIN calls
         /\ \A j \in DOMAIN calls \ {i} : calls'[j] = calls[j]
         /\ calls'[i].at = "done"
<1>1. i \in DOMAIN calls /\ SessionCall(calls[i])
  BY DEF Who!InFlight, SessionCalls
<1>2. calls' = [calls EXCEPT ![i].at = "done", ![i].arg = Null, ![i].out = Null]
  BY DEF Who!Settled
<1>3. /\ CallsOK'
      /\ DOMAIN calls' = DOMAIN calls
      /\ \A j \in DOMAIN calls \ {i} : calls'[j] = calls[j]
      /\ Fields(calls'[i], calls[i].op, Null, "done", calls[i].here, Null)
  BY <1>1, <1>2, SettledCall DEF SessionCalls
<1>4. SessionCall(calls'[i])
  BY <1>1, <1>3 DEF Fields, SessionCall
<1> QED
  BY <1>3, <1>4 DEF SessionCalls, Fields

LEMMA CallsAbandoned ==
  ASSUME SessionCalls, Who!Abandon
  PROVE  /\ SessionCalls'
         /\ DOMAIN calls' = DOMAIN calls
         /\ \A i \in DOMAIN calls :
              Fields(calls'[i], calls[i].op, calls[i].arg, calls[i].at, FALSE,
                     calls[i].out)
<1>1. calls' = [i \in DOMAIN calls |-> [calls[i] EXCEPT !.here = FALSE]]
  BY DEF Who!Abandon
<1>2. /\ CallsOK'
      /\ DOMAIN calls' = DOMAIN calls
      /\ \A i \in DOMAIN calls :
           Fields(calls'[i], calls[i].op, calls[i].arg, calls[i].at, FALSE, calls[i].out)
  BY <1>1, AbandonedCalls DEF SessionCalls
<1>3. ASSUME NEW i \in DOMAIN calls PROVE SessionCall(calls'[i])
  BY <1>2 DEF Fields, SessionCall, SessionCalls
<1> QED
  BY <1>2, <1>3 DEF SessionCalls

LEMMA CallsUnchanged ==
  SessionCalls /\ UNCHANGED calls => SessionCalls'
BY DEF SessionCalls, CallsOK

\* The kinds of steps, and which lemma about requests each one falls under.
LEMMA SessionSteps ==
  ASSUME [Who!Next]_(Who!vars)
  PROVE  \/ UNCHANGED <<server, cache, page, calls>>
         \/ \E u \in Users : Who!Elsewhere(u) \/ Who!handleLogin(u)
         \/ \E token \in {Null} \cup {Who!Token(u, server.version[u]) : u \in Users} :
              Who!OtherTab(token)
         \/ Who!Refetch \/ Who!FetchAnswered \/ Who!FetchRefusedOrLost
         \/ Who!RequireAuth \/ Who!RequireAdmin \/ Who!Reload \/ Who!logout
         \/ \E route \in {"login", "home", "profile", "admin"} : Who!Go(route)
         \/ \E password \in BOOLEAN : Who!handleSubmit(password)
         \/ \E i \in Who!InFlight :
              \/ Who!ServeLogin(i) \/ Who!ReadMe(i) \/ Who!WriteMe(i)
              \/ Who!LoginAnswered(i) \/ Who!SaveAnswered(i)
              \/ Who!Refused(i) \/ Who!lose(i)
BY DEF Who!Next, Who!vars

LEMMA TypesInit == Init /\ area = "session" => SessionTypes
<1> SUFFICES ASSUME Who!Init
             PROVE  SessionTypes
  BY DEF Init
<1>1. Who!Admin \in Users
  BY ConsoleAssumption DEF Who!Admin
<1>2. calls \in Seq({}) /\ DOMAIN calls = {}
  BY DEF Who!Init
<1>3. PICK v \in {1, 2} :
        cache = [token |-> [owner |-> Who!Admin, version |-> v], me |-> Null,
                 fetch |-> [owner |-> Who!Admin, version |-> v], elsewhere |-> 0]
  BY DEF Who!Init, Who!Token
<1>4. [owner |-> Who!Admin, version |-> v] \in Tokens
  BY <1>1 DEF Tokens
<1>5. cache \in CacheType
  BY <1>3, <1>4 DEF CacheType
<1> QED
  BY <1>2, <1>5 DEF Who!Init, Who!Blank, SessionTypes, SessionCalls, CallsOK, ServerType,
                    PageType

\* A token of the moment is a token.
LEMMA TokenNow ==
  ASSUME SessionTypes, NEW u \in Users
  PROVE  Who!Token(u, server.version[u]) \in Tokens
BY DEF SessionTypes, ServerType, Tokens, Who!Token

\* A gesture that gives the page the state p.
LEMMA GestureMade ==
  ASSUME SessionTypes, NEW p \in PageType, Who!Gesture(p)
  PROVE  /\ page' \in PageType
         /\ page'.route = p.route /\ page'.sent = p.sent
         /\ page'.strays = p.strays /\ page'.sure = p.sure
         /\ page'.gestures = page.gestures + 1
BY DEF SessionTypes, PageType, Who!Gesture

\* A change of password, field by field.
LEMMA PasswordSet ==
  ASSUME SessionTypes, NEW u \in Users, NEW w \in Nat, NEW i, Who!SetPassword(u, w, i)
  PROVE  /\ server' \in ServerType
         /\ server'.version = [server.version EXCEPT ![u] = w]
         /\ server'.issued = [server.issued EXCEPT ![u] = @ \cup {w}]
         /\ server'.dead = [server.dead EXCEPT ![u] = @ \cup server.issued[u]]
         /\ server'.overlapped = IF Who!Changing(u) \subseteq {i} THEN server.overlapped
                                 ELSE server.overlapped \cup {u}
BY DEF SessionTypes, ServerType, Who!SetPassword

LEMMA TypesStep ==
  ASSUME SessionTypes, [Who!Next]_(Who!vars)
  PROVE  SessionTypes'
<1> USE NoUser DEF CacheType, PageType
<1>0. SessionCalls /\ server \in ServerType /\ cache \in CacheType /\ page \in PageType
  BY DEF SessionTypes
<1>00. Who!Blank \in PageType
  BY DEF Who!Blank
<1>000. Who!OnMount \in Tokens \cup {Null}
  BY <1>0 DEF Who!OnMount
<1>1. CASE UNCHANGED <<server, cache, page, calls>>
  BY <1>0, <1>1, CallsUnchanged DEF SessionTypes
<1>2. ASSUME NEW u \in Users, Who!Elsewhere(u) PROVE SessionTypes'
  <2>1. server.version[u] + 1 \in Nat
    BY <1>0 DEF ServerType
  <2>2. server' \in ServerType
    BY <1>2, <2>1, PasswordSet DEF Who!Elsewhere
  <2> QED
    BY <1>0, <1>2, <2>2, CallsUnchanged DEF SessionTypes, Who!Elsewhere
<1>3. ASSUME NEW u \in Users, Who!handleLogin(u) PROVE SessionTypes'
  <2>1. SessionCalls' /\ Len(calls) + 1 \in Nat
    BY <1>0, <1>3, CallSent DEF Who!handleLogin
  <2>2. page' \in PageType
    BY <1>0, <1>3, <2>1, GestureMade DEF Who!handleLogin
  <2> QED
    BY <1>0, <1>3, <2>1, <2>2 DEF SessionTypes, Who!handleLogin
<1>4. ASSUME NEW token \in {Null} \cup {Who!Token(u, server.version[u]) : u \in Users},
             Who!OtherTab(token)
      PROVE  SessionTypes'
  <2>1. token \in Tokens \cup {Null}
    BY TokenNow
  <2>2. /\ cache' = [cache EXCEPT !.token = token, !.elsewhere = cache.elsewhere + 1]
        /\ cache.elsewhere + 1 \in Nat
    BY <1>0, <1>4 DEF Who!OtherTab
  <2>3. cache' \in CacheType
    <3> HIDE NoUser
    <3> QED
      BY <1>0, <2>1, <2>2
  <2>4. page' \in PageType
    BY <1>0, <1>4 DEF Who!OtherTab
  <2> QED
    BY <1>0, <1>4, <2>3, <2>4, CallsUnchanged DEF SessionTypes, Who!OtherTab
<1>5. CASE Who!Refetch
  <2>1. cache' \in CacheType /\ page' \in PageType
    BY <1>0, <1>5, GestureMade DEF Who!Refetch
  <2> QED
    BY <1>0, <1>5, <2>1, CallsUnchanged DEF SessionTypes, Who!Refetch
<1>6. CASE Who!FetchAnswered
  <2>1. cache.fetch.owner \in Users
    BY <1>0, <1>6 DEF Who!FetchAnswered, Who!Accepted, Tokens
  <2>2. cache' \in CacheType /\ page' \in PageType
    BY <1>0, <1>6, <2>1 DEF Who!FetchAnswered
  <2> QED
    BY <1>0, <1>6, <2>2, CallsUnchanged DEF SessionTypes, Who!FetchAnswered
<1>7. CASE Who!FetchRefusedOrLost
  <2>1. cache' \in CacheType /\ page' \in PageType
    BY <1>0, <1>7 DEF Who!FetchRefusedOrLost
  <2> QED
    BY <1>0, <1>7, <2>1, CallsUnchanged DEF SessionTypes, Who!FetchRefusedOrLost
<1>8. CASE Who!RequireAuth
  <2>1. cache' \in CacheType /\ page' \in PageType
    BY <1>0, <1>000, <1>8 DEF Who!RequireAuth
  <2> QED
    BY <1>0, <1>8, <2>1, CallsUnchanged DEF SessionTypes, Who!RequireAuth
<1>9. CASE Who!RequireAdmin
  <2>1. page' \in PageType
    BY <1>0, <1>9 DEF Who!RequireAdmin
  <2> QED
    BY <1>0, <1>9, <2>1, CallsUnchanged DEF SessionTypes, Who!RequireAdmin
<1>10. CASE Who!Reload
  <2>1. cache' \in CacheType /\ page' \in PageType
    BY <1>0, <1>00, <1>10, GestureMade DEF Who!Reload
  <2>2. SessionCalls'
    BY <1>0, <1>10, CallsAbandoned DEF Who!Reload
  <2> QED
    BY <1>0, <1>10, <2>1, <2>2 DEF SessionTypes, Who!Reload
<1>11. CASE Who!logout
  <2>1. cache' \in CacheType /\ page' \in PageType
    BY <1>0, <1>00, <1>11, GestureMade DEF Who!logout
  <2>2. SessionCalls'
    BY <1>0, <1>11, CallsAbandoned DEF Who!logout
  <2> QED
    BY <1>0, <1>11, <2>1, <2>2 DEF SessionTypes, Who!logout
<1>12. ASSUME NEW route \in {"login", "home", "profile", "admin"}, Who!Go(route)
       PROVE  SessionTypes'
  <2>1. cache' \in CacheType /\ page' \in PageType
    BY <1>0, <1>000, <1>12, GestureMade DEF Who!Go
  <2> QED
    BY <1>0, <1>12, <2>1, CallsUnchanged DEF SessionTypes, Who!Go
<1>13. ASSUME NEW password \in BOOLEAN, Who!handleSubmit(password) PROVE SessionTypes'
  <2>1. [token |-> cache.token, password |-> password]
          \in [token : Tokens, password : BOOLEAN]
    BY <1>0, <1>13 DEF Who!handleSubmit
  <2>2. SessionCalls' /\ Len(calls) + 1 \in Nat
    BY <1>0, <1>13, <2>1, CallSent DEF Who!handleSubmit
  <2>3. page' \in PageType
    BY <1>0, <1>13, <2>2, GestureMade DEF Who!handleSubmit
  <2> QED
    BY <1>0, <1>13, <2>2, <2>3 DEF SessionTypes, Who!handleSubmit
<1>14. ASSUME NEW i \in Who!InFlight, Who!ServeLogin(i) PROVE SessionTypes'
  <2>1. calls[i].op = "login" /\ calls[i].arg \in Users
    BY <1>0, <1>14 DEF Who!ServeLogin, SessionCalls, SessionCall, Who!InFlight
  <2>2. SessionCalls'
    BY <1>0, <1>14, <2>1, TokenNow, CallAnswered DEF Who!ServeLogin
  <2> QED
    BY <1>0, <1>14, <2>2 DEF SessionTypes, Who!ServeLogin
<1>15. ASSUME NEW i \in Who!InFlight, Who!ReadMe(i) PROVE SessionTypes'
  <2>1. /\ calls[i].op = "save" /\ calls[i].at = "sent"
        /\ calls[i].arg.token \in Tokens
    BY <1>0, <1>15 DEF Who!ReadMe, SessionCalls, SessionCall, Who!InFlight
  <2>2. calls[i].arg.token.version \in Nat
    BY <2>1 DEF Tokens
  <2>3. SessionCalls'
    BY <1>0, <1>15, <2>1, <2>2, CallAnswered DEF Who!ReadMe
  <2> QED
    BY <1>0, <1>15, <2>3 DEF SessionTypes, Who!ReadMe
<1>16. ASSUME NEW i \in Who!InFlight, Who!WriteMe(i) PROVE SessionTypes'
  <2>1. /\ calls[i].op = "save" /\ calls[i].at = "read"
        /\ calls[i].arg.token.owner \in Users
        /\ Who!NextVersion(calls[i].out) \in Nat
    BY <1>0, <1>16 DEF Who!WriteMe, SessionCalls, SessionCall, Who!InFlight, Tokens,
                       Who!NextVersion
  <2>2. OwnToken(Who!Token(calls[i].arg.token.owner, Who!NextVersion(calls[i].out)),
                 calls[i].arg)
        /\ OwnToken(Null, calls[i].arg)
    BY <2>1 DEF Who!Token, Tokens, OwnToken
  <2>3. SessionCalls'
    BY <1>0, <1>16, <2>1, <2>2, CallAnswered DEF Who!WriteMe
  <2>4. server' \in ServerType
    BY <1>0, <1>16, <2>1, PasswordSet DEF Who!WriteMe
  <2> QED
    BY <1>0, <1>16, <2>3, <2>4 DEF SessionTypes, Who!WriteMe
<1>17. ASSUME NEW i \in Who!InFlight, Who!LoginAnswered(i) PROVE SessionTypes'
  <2>1. calls[i].out \in Tokens
    BY <1>0, <1>17 DEF Who!LoginAnswered, SessionCalls, SessionCall, Who!InFlight
  <2>2. Who!Invalidated(calls[i].out) \in Tokens \cup {Null}
    BY <1>0, <2>1 DEF Who!Invalidated
  <2>3. cache' \in CacheType
    BY <1>0, <1>17, <2>1, <2>2 DEF Who!LoginAnswered
  <2>4. page' \in PageType
    <3> DEFINE first == Who!FirstFetch
    <3>1. \/ UNCHANGED page
          \/ page' = [page EXCEPT !.route = "home", !.sent = 0, !.strays = first,
                                  !.sure = ~first]
      BY <1>17 DEF Who!LoginAnswered
    <3>2. first \in BOOLEAN
      BY DEF Who!FirstFetch
    <3>3. ASSUME NEW s \in BOOLEAN
          PROVE  [page EXCEPT !.route = "home", !.sent = 0, !.strays = s,
                              !.sure = ~s] \in PageType
      BY <1>0
    <3>4. [page EXCEPT !.route = "home", !.sent = 0, !.strays = first, !.sure = ~first]
            \in PageType
      <4> HIDE DEF first, PageType
      <4> QED
        BY <3>2, <3>3
    <3> HIDE DEF first, PageType
    <3> QED
      BY <1>0, <3>1, <3>4
  <2>5. SessionCalls'
    BY <1>0, <1>17, CallSettled DEF Who!LoginAnswered
  <2> QED
    BY <1>0, <1>17, <2>3, <2>4, <2>5 DEF SessionTypes, Who!LoginAnswered
<1>18. ASSUME NEW i \in Who!InFlight, Who!SaveAnswered(i) PROVE SessionTypes'
  <2>1. calls[i].arg.token.owner \in Users /\ calls[i].out \in Tokens \cup {Null}
    BY <1>0, <1>18 DEF Who!SaveAnswered, SessionCalls, SessionCall, Who!InFlight, Tokens,
                       OwnToken
  <2>2. cache' \in CacheType
    BY <1>0, <1>18, <2>1 DEF Who!SaveAnswered
  <2>5. page' \in PageType
    <3> DEFINE late == cache.token = Null \/ cache.token.owner # calls[i].arg.token.owner
    <3>1. UNCHANGED page \/ page' = [page EXCEPT !.strays = @ \/ late]
      BY <1>18 DEF Who!SaveAnswered
    <3>2. [page EXCEPT !.strays = @ \/ late] \in PageType
      BY <1>0
    <3> QED
      BY <1>0, <3>1, <3>2
  <2>3. SessionCalls'
    BY <1>0, <1>18, CallSettled DEF Who!SaveAnswered
  <2> QED
    BY <1>0, <1>18, <2>2, <2>3, <2>5 DEF SessionTypes, Who!SaveAnswered
<1>19. ASSUME NEW i \in Who!InFlight, Who!Refused(i) PROVE SessionTypes'
  BY <1>0, <1>19, CallSettled DEF SessionTypes, Who!Refused
<1>20. ASSUME NEW i \in Who!InFlight, Who!lose(i) PROVE SessionTypes'
  BY <1>0, <1>20, CallAnswered DEF SessionTypes, Who!lose, Who!Lose
<1> QED
  BY <1>1, <1>2, <1>3, <1>4, <1>5, <1>6, <1>7, <1>8, <1>9, <1>10, <1>11, <1>12, <1>13,
     <1>14, <1>15, <1>16, <1>17, <1>18, <1>19, <1>20, SessionSteps

-----------------------------------------------------------------------------
(* What the tab shows, and where a login leads.                            *)

Enters ==
  page.sure /\ page'.gestures = page.gestures
    => ~(page.route # "login" /\ page'.route = "login")

LEMMA ScreenStep ==
  ASSUME SessionTypes, Shown, SureOfEntry, [Who!Next]_(Who!vars)
  PROVE  Shown' /\ SureOfEntry' /\ Enters
<1>0. SessionCalls /\ cache \in CacheType /\ page \in PageType
  BY DEF SessionTypes
<1>00. /\ Who!Blank \in PageType
       /\ Who!Blank.route = "home" /\ ~Who!Blank.sure
  BY DEF Who!Blank, PageType
<1>000. page.gestures + 1 # page.gestures
  BY <1>0 DEF PageType
<1>1. CASE UNCHANGED <<server, cache, page, calls>>
  BY <1>1 DEF Shown, SureOfEntry, Enters
<1>2. ASSUME NEW u \in Users, Who!Elsewhere(u) PROVE Shown' /\ SureOfEntry' /\ Enters
  <2>1. /\ cache'.fetch = cache.fetch /\ cache'.me = cache.me
        /\ cache'.token = cache.token /\ page' = page
    BY <1>0, <1>2 DEF Who!Elsewhere, CacheType
  <2> QED
    BY <2>1 DEF Shown, SureOfEntry, Enters
<1>3. ASSUME NEW u \in Users, Who!handleLogin(u) PROVE Shown' /\ SureOfEntry' /\ Enters
  <2>1. Len(calls) + 1 \in Nat
    BY <1>0, CallsDomain DEF SessionCalls
  <2>2. /\ cache' = cache /\ page'.strays = page.strays /\ page'.sure = page.sure
        /\ page'.gestures = page.gestures + 1
    BY <1>0, <1>3, <2>1, GestureMade DEF Who!handleLogin, PageType
  <2> QED
    BY <1>000, <2>2 DEF Shown, SureOfEntry, Enters
<1>4. ASSUME NEW token, Who!OtherTab(token) PROVE Shown' /\ SureOfEntry' /\ Enters
  <2>1. page'.strays /\ ~page'.sure /\ page'.route = page.route
    BY <1>0, <1>4 DEF Who!OtherTab, PageType
  <2> QED
    BY <2>1 DEF Shown, SureOfEntry, Enters
<1>5. CASE Who!Refetch
  <2>1. /\ cache'.fetch = cache.token /\ cache'.me = cache.me /\ cache'.token = cache.token
        /\ cache.token # Null
    BY <1>0, <1>5 DEF Who!Refetch, CacheType
  <2>2. /\ page'.sure = page.sure /\ page'.strays = page.strays
        /\ page'.gestures = page.gestures + 1
    BY <1>0, <1>5, GestureMade DEF Who!Refetch
  <2> QED
    BY <1>000, <2>1, <2>2 DEF Shown, SureOfEntry, Enters
<1>6. CASE Who!FetchAnswered
  <2>1. /\ cache'.fetch = Null /\ cache'.me = cache.fetch.owner
        /\ cache'.token = cache.token /\ cache.fetch \in Tokens
    BY <1>0, <1>6 DEF Who!FetchAnswered, CacheType, Who!Accepted
  <2>2. /\ page'.strays = (page.strays /\ cache.fetch # cache.token)
        /\ page'.route = page.route
    BY <1>0, <1>6 DEF Who!FetchAnswered, PageType
  <2>3. cache'.me # Null /\ cache.fetch # Null
    BY <2>1, NoUser DEF Tokens
  <2>4. Shown'
    BY <2>1, <2>2, <2>3 DEF Shown
  <2> QED
    BY <2>2, <2>3, <2>4 DEF SureOfEntry, Enters
<1>7. CASE Who!FetchRefusedOrLost
  <2>1. /\ cache'.fetch = Null /\ cache'.me = cache.me /\ cache'.token = cache.token
        /\ cache.fetch # Null
    BY <1>0, <1>7 DEF Who!FetchRefusedOrLost, CacheType
  <2>2. /\ page'.strays /\ page'.route = page.route
        /\ page'.sure => page.sure /\ cache.fetch # cache.token
    BY <1>0, <1>7 DEF Who!FetchRefusedOrLost, PageType
  <2> QED
    BY <2>1, <2>2 DEF Shown, SureOfEntry, Enters
<1>8. CASE Who!RequireAuth
  <2>1. /\ cache'.me = Null /\ cache.me = Null /\ cache.fetch = Null
        /\ cache'.fetch = cache.token /\ cache'.token = cache.token
    BY <1>0, <1>8 DEF Who!RequireAuth, Who!isLoading, Who!OnMount, CacheType
  <2>2. ~page'.sure
    BY <1>0, <1>8 DEF Who!RequireAuth, PageType
  <2>3. ~page.sure
    BY <2>1 DEF SureOfEntry
  <2> QED
    BY <2>1, <2>2, <2>3 DEF Shown, SureOfEntry, Enters
<1>9. CASE Who!RequireAdmin
  <2>1. /\ cache' = cache /\ page'.strays = page.strays /\ page'.sure = page.sure
        /\ page'.route = "home"
    BY <1>0, <1>9 DEF Who!RequireAdmin, PageType
  <2> QED
    BY <2>1 DEF Shown, SureOfEntry, Enters
<1>10. CASE Who!Reload
  <2>1. cache'.me = Null /\ cache'.fetch = cache.token /\ cache'.token = cache.token
    BY <1>0, <1>10 DEF Who!Reload, CacheType
  <2>2. ~page'.sure /\ page'.gestures = page.gestures + 1
    BY <1>00, <1>10, GestureMade DEF Who!Reload
  <2> QED
    BY <1>000, <2>1, <2>2 DEF Shown, SureOfEntry, Enters
<1>11. CASE Who!logout
  <2>1. cache'.me = Null /\ cache'.fetch = Null
    BY <1>0, <1>11 DEF Who!logout, CacheType
  <2>2. ~page'.sure /\ page'.gestures = page.gestures + 1
    BY <1>00, <1>11, GestureMade DEF Who!logout, PageType
  <2> QED
    BY <1>000, <2>1, <2>2 DEF Shown, SureOfEntry, Enters
<1>12. ASSUME NEW route \in {"login", "home", "profile", "admin"}, Who!Go(route)
       PROVE  Shown' /\ SureOfEntry' /\ Enters
  <2>1. /\ cache'.fetch = Who!OnMount /\ cache'.me = cache.me
        /\ cache'.token = cache.token
    BY <1>0, <1>12 DEF Who!Go, CacheType
  <2>2. /\ page'.strays = page.strays /\ page'.sure = page.sure
        /\ page'.gestures = page.gestures + 1
    <3>1. /\ [page EXCEPT !.route = route, !.sent = 0] \in PageType
          /\ [page EXCEPT !.route = route, !.sent = 0].strays = page.strays
          /\ [page EXCEPT !.route = route, !.sent = 0].sure = page.sure
      BY <1>0 DEF PageType
    <3> QED
      BY <1>12, <3>1, GestureMade DEF Who!Go
  <2>3. \/ cache'.fetch = cache.fetch
        \/ cache.me = Null /\ cache.fetch = Null /\ cache'.fetch = cache.token
    BY <2>1 DEF Who!OnMount
  <2> QED
    BY <1>000, <2>1, <2>2, <2>3 DEF Shown, SureOfEntry, Enters
<1>13. ASSUME NEW password \in BOOLEAN, Who!handleSubmit(password)
       PROVE  Shown' /\ SureOfEntry' /\ Enters
  <2>1. Len(calls) + 1 \in Nat
    BY <1>0, CallsDomain DEF SessionCalls
  <2>2. /\ cache' = cache /\ page'.strays = page.strays /\ page'.sure = page.sure
        /\ page'.gestures = page.gestures + 1
    BY <1>0, <1>13, <2>1, GestureMade DEF Who!handleSubmit, PageType
  <2> QED
    BY <1>000, <2>2 DEF Shown, SureOfEntry, Enters
<1>14. ASSUME NEW i \in Who!InFlight,
              \/ Who!ServeLogin(i) \/ Who!ReadMe(i) \/ Who!WriteMe(i)
              \/ Who!Refused(i) \/ Who!lose(i)
       PROVE  Shown' /\ SureOfEntry' /\ Enters
  <2>1. UNCHANGED <<cache, page>>
    BY <1>14 DEF Who!ServeLogin, Who!ReadMe, Who!WriteMe, Who!Refused, Who!lose
  <2> QED
    BY <2>1 DEF Shown, SureOfEntry, Enters
<1>15. ASSUME NEW i \in Who!InFlight, Who!LoginAnswered(i)
       PROVE  Shown' /\ SureOfEntry' /\ Enters
  <2>1. CASE ~calls[i].here
    <3>1. UNCHANGED <<cache, page>>
      BY <1>15, <2>1 DEF Who!LoginAnswered
    <3> QED
      BY <3>1 DEF Shown, SureOfEntry, Enters
  <2>2. CASE calls[i].here
    <3>1. calls[i].out \in Tokens
      BY <1>0, <1>15 DEF Who!LoginAnswered, SessionCalls, SessionCall, Who!InFlight
    <3>2. /\ cache'.fetch = Who!Invalidated(calls[i].out) /\ cache'.me = cache.me
          /\ cache'.token = calls[i].out
      BY <1>0, <1>15, <2>2 DEF Who!LoginAnswered, CacheType
    <3>3. /\ page'.sure = ~Who!FirstFetch /\ page'.strays = Who!FirstFetch
          /\ page'.route = "home"
      BY <1>0, <1>15, <2>2 DEF Who!LoginAnswered, PageType
    <3>4. cache'.fetch # Null /\ cache'.token # Null
      BY <3>1, <3>2, NoUser DEF Who!Invalidated, Who!FirstFetch
    <3>5. ~Who!FirstFetch => cache'.fetch = cache'.token
      BY <3>2 DEF Who!Invalidated
    <3> QED
      BY <3>2, <3>3, <3>4, <3>5 DEF Shown, SureOfEntry, Enters
  <2> QED
    BY <2>1, <2>2
<1>16. ASSUME NEW i \in Who!InFlight, Who!SaveAnswered(i)
       PROVE  Shown' /\ SureOfEntry' /\ Enters
  <2>1. CASE ~calls[i].here
    <3>1. UNCHANGED <<cache, page>>
      BY <1>16, <2>1 DEF Who!SaveAnswered
    <3> QED
      BY <3>1 DEF Shown, SureOfEntry, Enters
  <2>2. CASE calls[i].here
    <3> DEFINE u == calls[i].arg.token.owner
               t == IF calls[i].out = Null THEN cache.token ELSE calls[i].out
    <3>1. u # Null
      BY <1>0, <1>16, NoUser DEF Who!SaveAnswered, SessionCalls, SessionCall,
                                 Who!InFlight, Tokens
    <3>2. cache'.fetch = cache.fetch /\ cache'.me = u /\ cache'.token = t
      BY <1>0, <1>16, <2>2 DEF Who!SaveAnswered, CacheType
    <3>3. /\ page'.strays = (page.strays \/ cache.token = Null \/ cache.token.owner # u)
          /\ page'.route = page.route
      BY <1>0, <1>16, <2>2 DEF Who!SaveAnswered, PageType
    <3>4. t = cache.token \/ (t # Null /\ t.owner = u)
      BY <1>0, <1>16, NoUser DEF Who!SaveAnswered, SessionCalls, SessionCall,
                                 Who!InFlight, OwnToken
    <3> HIDE DEF u, t
    <3>5. Shown'
      BY <3>2, <3>3, <3>4 DEF Shown
    <3> QED
      BY <3>1, <3>2, <3>3, <3>5 DEF SureOfEntry, Enters
  <2> QED
    BY <2>1, <2>2
<1> QED
  BY <1>1, <1>2, <1>3, <1>4, <1>5, <1>6, <1>7, <1>8, <1>9, <1>10, <1>11, <1>12, <1>13,
     <1>14, <1>15, <1>16, SessionSteps

-----------------------------------------------------------------------------
(* Versions of tokens.                                                     *)

\* Nothing happens to versions while the server and the saves it has read
\* stay as they are.
LEMMA QuietStep ==
  ASSUME VersionsRise, UNCHANGED server,
         \A i \in DOMAIN calls' :
           calls'[i].at = "read" =>
             /\ i \in DOMAIN calls /\ calls[i].at = "read"
             /\ calls'[i].op = calls[i].op /\ calls'[i].arg = calls[i].arg
             /\ calls'[i].out = calls[i].out
  PROVE  VersionsRise'
<1>1. ASSUME NEW u \in Users, NEW i \in Who!Changing(u)'
      PROVE  i \in Who!Changing(u) /\ calls'[i].out = calls[i].out
  BY <1>1 DEF Who!Changing, Who!InFlight
<1> QED
  BY <1>1 DEF VersionsRise

\* A change of u's password to a version above all of u's earlier ones.
LEMMA RaisedVersion ==
  ASSUME SessionTypes, VersionsRise, NEW u \in Users, NEW i,
         Who!SetPassword(u, server.version[u] + 1, i),
         \A x \in Users : Who!Changing(x)' = Who!Changing(x) \ {i},
         \A j \in DOMAIN calls \ {i} : calls'[j] = calls[j]
  PROVE  VersionsRise'
<1> DEFINE w == server.version[u] + 1
<1>1. server \in ServerType /\ w \in Nat
  BY DEF SessionTypes, ServerType
<1>0. Who!SetPassword(u, w, i)
  OBVIOUS
<1> HIDE DEF w
<1>2. /\ server'.version = [server.version EXCEPT ![u] = w]
      /\ server'.issued = [server.issued EXCEPT ![u] = @ \cup {w}]
      /\ server'.dead = [server.dead EXCEPT ![u] = @ \cup server.issued[u]]
      /\ server'.overlapped = IF Who!Changing(u) \subseteq {i} THEN server.overlapped
                              ELSE server.overlapped \cup {u}
  BY <1>0, <1>1, PasswordSet
<1> SUFFICES ASSUME NEW x \in Users \ server'.overlapped
             PROVE  /\ \A v \in server'.dead[x] : v < server'.version[x]
                    /\ \A v \in server'.issued[x] : v <= server'.version[x]
                    /\ \A j \in Who!Changing(x)' : calls'[j].out = server'.version[x]
  BY DEF VersionsRise
<1>3. x \notin server.overlapped
  BY <1>2
<1>4. CASE x # u
  <2>1. /\ server'.version[x] = server.version[x]
        /\ server'.issued[x] = server.issued[x]
        /\ server'.dead[x] = server.dead[x]
    BY <1>1, <1>2, <1>4 DEF ServerType
  <2>2. \A j \in Who!Changing(x)' : j \in Who!Changing(x) /\ calls'[j] = calls[j]
    BY DEF Who!Changing, Who!InFlight
  <2> QED
    BY <1>3, <2>1, <2>2 DEF VersionsRise
<1>5. CASE x = u
  <2>1. Who!Changing(u)' = {}
    BY <1>2, <1>5
  <2>2. /\ server'.version[u] = w
        /\ server'.issued[u] = server.issued[u] \cup {w}
        /\ server'.dead[u] = server.dead[u] \cup server.issued[u]
    BY <1>1, <1>2 DEF ServerType
  <2>3. /\ server.version[u] \in Nat /\ server.issued[u] \subseteq Nat
        /\ server.dead[u] \subseteq Nat
    BY <1>1 DEF ServerType
  <2>4. /\ \A v \in server.dead[u] : v < server.version[u]
        /\ \A v \in server.issued[u] : v <= server.version[u]
    BY <1>3, <1>5 DEF VersionsRise
  <2>5. \A v \in server.dead[u] \cup server.issued[u] : v < w
    BY <2>3, <2>4 DEF w
  <2> QED
    BY <1>1, <1>5, <2>1, <2>2, <2>3, <2>4, <2>5 DEF w
<1> QED
  BY <1>4, <1>5

\* After an overlap, nothing is promised of that user, and nothing changes
\* for the others.
LEMMA OverlappedVersion ==
  ASSUME SessionTypes, VersionsRise, NEW u \in Users, NEW w \in Nat, NEW i,
         Who!SetPassword(u, w, i), u \in server.overlapped,
         \A x \in Users : Who!Changing(x)' = Who!Changing(x) \ {i},
         \A j \in DOMAIN calls \ {i} : calls'[j] = calls[j]
  PROVE  VersionsRise'
<1>1. server \in ServerType
  BY DEF SessionTypes
<1>2. /\ server'.version = [server.version EXCEPT ![u] = w]
      /\ server'.issued = [server.issued EXCEPT ![u] = @ \cup {w}]
      /\ server'.dead = [server.dead EXCEPT ![u] = @ \cup server.issued[u]]
      /\ server.overlapped \subseteq server'.overlapped
  BY PasswordSet
<1>3. ASSUME NEW x \in Users \ server'.overlapped
      PROVE  /\ x \in Users \ server.overlapped
             /\ server'.version[x] = server.version[x]
             /\ server'.issued[x] = server.issued[x]
             /\ server'.dead[x] = server.dead[x]
  BY <1>1, <1>2, <1>3 DEF ServerType
<1>4. ASSUME NEW x \in Users, NEW j \in Who!Changing(x)'
      PROVE  j \in Who!Changing(x) /\ calls'[j] = calls[j]
  BY <1>4 DEF Who!Changing, Who!InFlight
<1> QED
  BY <1>3, <1>4 DEF VersionsRise

LEMMA VersionsStep ==
  ASSUME SessionTypes, VersionsRise, [Who!Next]_(Who!vars)
  PROVE  VersionsRise'
<1>0. SessionCalls /\ server \in ServerType
  BY DEF SessionTypes
<1>1. CASE UNCHANGED <<server, calls>>
  BY <1>1, QuietStep
<1>2. ASSUME NEW u \in Users, Who!Elsewhere(u) PROVE VersionsRise'
  <2>1. /\ Who!SetPassword(u, server.version[u] + 1, 0)
        /\ UNCHANGED calls
    BY <1>2 DEF Who!Elsewhere
  <2>2. 0 \notin DOMAIN calls
    BY <1>0, CallsDomain DEF SessionCalls
  <2>3. \A x \in Users : Who!Changing(x)' = Who!Changing(x) \ {0}
    BY <2>1, <2>2 DEF Who!Changing, Who!InFlight
  <2> QED
    BY <2>1, <2>3, RaisedVersion
<1>3. ASSUME UNCHANGED server, NEW op, NEW arg, Who!Send(op, arg),
             \/ op = "login" /\ arg \in Users
             \/ op = "save" /\ arg \in [token : Tokens, password : BOOLEAN]
      PROVE  VersionsRise'
  <2>1. /\ DOMAIN calls' = DOMAIN calls \cup {Len(calls) + 1}
        /\ \A i \in DOMAIN calls : calls'[i] = calls[i]
        /\ calls'[Len(calls) + 1].at = "sent"
    BY <1>0, <1>3, CallSent
  <2> QED
    BY <1>3, <2>1, QuietStep
<1>4. ASSUME UNCHANGED server, Who!Abandon PROVE VersionsRise'
  BY <1>0, <1>4, CallsAbandoned, QuietStep DEF Fields
<1>5. ASSUME NEW i \in Who!InFlight, UNCHANGED server, Who!Settled(i) PROVE VersionsRise'
  BY <1>0, <1>5, CallSettled, QuietStep
<1>6. ASSUME NEW i \in Who!InFlight, Who!ServeLogin(i) PROVE VersionsRise'
  <2>1. calls[i].op = "login" /\ calls[i].arg \in Users
    BY <1>0, <1>6 DEF Who!ServeLogin, SessionCalls, SessionCall, Who!InFlight
  <2>2. /\ DOMAIN calls' = DOMAIN calls
        /\ \A j \in DOMAIN calls \ {i} : calls'[j] = calls[j]
        /\ calls'[i].at = "ok" /\ UNCHANGED server
    BY <1>0, <1>6, <2>1, TokenNow, CallAnswered DEF Who!ServeLogin, Fields
  <2> QED
    BY <2>2, QuietStep
<1>7. ASSUME NEW i \in Who!InFlight, Who!lose(i) PROVE VersionsRise'
  <2>1. /\ DOMAIN calls' = DOMAIN calls
        /\ \A j \in DOMAIN calls \ {i} : calls'[j] = calls[j]
        /\ calls'[i].at = "error" /\ UNCHANGED server
    BY <1>0, <1>7, CallAnswered DEF Who!lose, Who!Lose, Fields
  <2> QED
    BY <2>1, QuietStep
<1>8. ASSUME NEW i \in Who!InFlight, Who!ReadMe(i) PROVE VersionsRise'
  <2> DEFINE t == calls[i].arg.token
  <2>1. /\ i \in DOMAIN calls /\ UNCHANGED server
        /\ calls[i].op = "save" /\ calls[i].at = "sent" /\ t \in Tokens
    BY <1>0, <1>8 DEF Who!ReadMe, SessionCalls, SessionCall, Who!InFlight
  <2>2. t.owner \in Users /\ t.version \in Nat
    BY <2>1 DEF Tokens
  <2>3. CASE ~Who!Accepted(t)
    <3>1. /\ DOMAIN calls' = DOMAIN calls
          /\ \A j \in DOMAIN calls \ {i} : calls'[j] = calls[j]
          /\ calls'[i].at = "error"
      BY <1>0, <1>8, <2>1, <2>3, CallAnswered DEF Who!ReadMe, Fields
    <3> QED
      BY <2>1, <3>1, QuietStep
  <2>4. CASE Who!Accepted(t)
    <3>1. server.version[t.owner] = t.version
      BY <2>4 DEF Who!Accepted
    <3>2. /\ DOMAIN calls' = DOMAIN calls
          /\ \A j \in DOMAIN calls \ {i} : calls'[j] = calls[j]
          /\ calls'[i].op = calls[i].op /\ calls'[i].arg = calls[i].arg
          /\ calls'[i].out = t.version
      BY <1>0, <1>8, <2>1, <2>2, <2>4, CallAnswered DEF Who!ReadMe, Fields
    <3>3. ASSUME NEW u \in Users, NEW j \in Who!Changing(u)'
          PROVE  \/ j \in Who!Changing(u) /\ calls'[j].out = calls[j].out
                 \/ calls'[j].out = server.version[u]
      <4>1. CASE j = i
        <5>1. calls'[i].arg.token.owner = u
          BY <3>3, <4>1 DEF Who!Changing
        <5> QED
          BY <3>1, <3>2, <4>1, <5>1
      <4>2. CASE j # i
        BY <3>2, <3>3, <4>2 DEF Who!Changing, Who!InFlight
      <4> QED
        BY <4>1, <4>2
    <3> QED
      BY <2>1, <3>3 DEF VersionsRise
  <2> QED
    BY <2>3, <2>4
<1>9. ASSUME NEW i \in Who!InFlight, Who!WriteMe(i) PROVE VersionsRise'
  <2> DEFINE a == calls[i].arg
             u == a.token.owner
  <2>1. /\ i \in DOMAIN calls /\ calls[i].op = "save" /\ calls[i].at = "read"
        /\ u \in Users /\ calls[i].out \in Nat
    BY <1>0, <1>9 DEF Who!WriteMe, SessionCalls, SessionCall, Who!InFlight, Tokens
  <2>2. OwnToken(Who!Token(u, calls[i].out + 1), a) /\ OwnToken(Null, a)
    BY <2>1 DEF Who!Token, Tokens, OwnToken
  <2>3. /\ DOMAIN calls' = DOMAIN calls
        /\ \A j \in DOMAIN calls \ {i} : calls'[j] = calls[j]
        /\ calls'[i].at = "ok"
    BY <1>0, <1>9, <2>1, <2>2, CallAnswered DEF Who!WriteMe, Who!NextVersion, Fields
  <2>4. CASE ~a.password
    <3>1. UNCHANGED server
      BY <1>9, <2>4 DEF Who!WriteMe
    <3> QED
      BY <2>3, <3>1, QuietStep
  <2>5. CASE a.password
    <3>1. Who!SetPassword(u, calls[i].out + 1, i)
      BY <1>9, <2>5 DEF Who!WriteMe, Who!NextVersion
    <3>2. i \in Who!Changing(u)
      BY <2>1, <2>5 DEF Who!Changing, Who!InFlight
    <3>3. \A x \in Users : Who!Changing(x)' = Who!Changing(x) \ {i}
      BY <2>3 DEF Who!Changing, Who!InFlight
    <3>4. CASE u \notin server.overlapped
      <4>1. calls[i].out = server.version[u]
        BY <2>1, <3>2, <3>4 DEF VersionsRise
      <4>2. Who!SetPassword(u, server.version[u] + 1, i)
        BY <3>1, <4>1
      <4> QED
        BY <2>1, <2>3, <3>3, <4>2, RaisedVersion
    <3>5. CASE u \in server.overlapped
      BY <2>1, <2>3, <3>1, <3>3, <3>5, OverlappedVersion
    <3> QED
      BY <3>4, <3>5
  <2> HIDE DEF a
  <2> QED
    BY <2>4, <2>5
<1>10. \/ UNCHANGED <<server, calls>>
       \/ \E u \in Users : Who!Elsewhere(u)
       \/ /\ UNCHANGED server
          /\ \E op, arg :
               /\ Who!Send(op, arg)
               /\ \/ op = "login" /\ arg \in Users
                  \/ op = "save" /\ arg \in [token : Tokens, password : BOOLEAN]
       \/ UNCHANGED server /\ Who!Abandon
       \/ \E i \in Who!InFlight :
            \/ UNCHANGED server /\ Who!Settled(i)
            \/ Who!ServeLogin(i) \/ Who!lose(i) \/ Who!ReadMe(i) \/ Who!WriteMe(i)
  <2>1. ASSUME NEW password \in BOOLEAN, Who!handleSubmit(password)
        PROVE  \E op, arg :
                 /\ Who!Send(op, arg)
                 /\ op = "save" /\ arg \in [token : Tokens, password : BOOLEAN]
    <3>1. cache.token \in Tokens
      BY <2>1 DEF Who!handleSubmit, SessionTypes, CacheType
    <3> QED
      BY <2>1, <3>1 DEF Who!handleSubmit
  <2> QED
    BY <2>1, SessionSteps DEF Who!handleLogin, Who!handleSubmit, Who!OtherTab, Who!Refetch,
       Who!FetchAnswered, Who!FetchRefusedOrLost, Who!RequireAuth, Who!RequireAdmin,
       Who!Reload, Who!logout, Who!Go, Who!LoginAnswered, Who!SaveAnswered, Who!Refused
<1> QED
  BY <1>1, <1>2, <1>3, <1>4, <1>5, <1>6, <1>7, <1>8, <1>9, <1>10

-----------------------------------------------------------------------------
(* The inductive invariant of the session, and what follows.               *)

SessionInv ==
  area = "session" => SessionTypes /\ Shown /\ SureOfEntry /\ VersionsRise

LEMMA SessionInit == Init => SessionInv
<1> SUFFICES ASSUME Init, area = "session"
             PROVE  SessionTypes /\ Shown /\ SureOfEntry /\ VersionsRise
  BY DEF SessionInv
<1>1. Who!Init
  BY DEF Init
<1>2. SessionTypes
  BY TypesInit
<1>3. /\ cache.me = Null /\ page.sure = FALSE
      /\ cache.fetch = cache.token
  BY <1>1 DEF Who!Init, Who!Blank
<1>4. VersionsRise
  <2>1. calls = <<>> /\ DOMAIN calls = {}
    BY <1>1 DEF Who!Init
  <2>2. /\ server.version = [u \in Users |-> 2]
        /\ server.issued = [u \in Users |-> {1, 2}]
        /\ server.dead = [u \in Users |-> {1}]
    BY <1>1 DEF Who!Init
  <2> QED
    BY <2>1, <2>2 DEF VersionsRise, Who!Changing, Who!InFlight
<1>5. ~page.sure
  BY <1>3
<1>6. Shown
  BY <1>3 DEF Shown
<1> QED
  BY <1>2, <1>3, <1>4, <1>5, <1>6 DEF SureOfEntry

LEMMA SessionStep == SessionInv /\ [Next]_vars => SessionInv'
<1> SUFFICES ASSUME SessionInv, [Next]_vars, area' = "session"
             PROVE  (SessionTypes /\ Shown /\ SureOfEntry /\ VersionsRise)'
  BY DEF SessionInv
<1>1. /\ SessionTypes /\ Shown /\ SureOfEntry /\ VersionsRise
      /\ [Who!Next]_(Who!vars)
  BY OneArea, StepOfArea DEF SessionInv
<1> QED
  BY <1>1, TypesStep, ScreenStep, VersionsStep

LEMMA SessionAlways == Spec => []SessionInv
BY SessionInit, SessionStep, PTL DEF Spec

\* With no fetch under way, a tab shows the user whose token its requests
\* carry (useAuth.ts, ProfilePage.tsx), unless, since a fetch with the token
\* at hand was answered, another tab wrote the token, a fetch failed, a save
\* was answered when the token was another's, or a login was answered over a
\* first fetch with an older token.
THEOREM TabShowsOwner == Spec => []TabShowsTokenOwner
<1>1. SessionInv => TabShowsTokenOwner
  BY DEF SessionInv, Shown, TabShowsTokenOwner, Who!TabShowsTokenOwner
<1> QED
  BY <1>1, SessionAlways, PTL

\* A change of password ends every session that existed before it, for good,
\* unless two changes of one user's password overlapped.
THEOREM PasswordEnds == Spec => []PasswordEndsSessions
<1>1. SessionInv => PasswordEndsSessions
  <2> SUFFICES ASSUME SessionInv, area = "session",
                      NEW u \in Users \ server.overlapped,
                      server.version[u] \in server.dead[u]
               PROVE  FALSE
    BY DEF PasswordEndsSessions, Who!PasswordEndsSessions
  <2>1. server.version[u] < server.version[u]
    BY DEF SessionInv, VersionsRise
  <2>2. server.version[u] \in Nat
    BY DEF SessionInv, SessionTypes, ServerType
  <2> QED
    BY <2>1, <2>2
<1> QED
  BY <1>1, SessionAlways, PTL

\* A tab that has logged in is not sent back to the login screen, unless its
\* fetch with the new token fails, another tab wrote the token, or a first
\* fetch with an older token was under way when the login was answered.
THEOREM LoginLeadsIn == Spec => LoginEnters
<1>1. SessionInv /\ [Next]_vars => [area = "session" => Who!LoginEnters]_vars
  <2> SUFFICES ASSUME SessionInv, [Next]_vars, area = "session"
               PROVE  Who!LoginEnters
    OBVIOUS
  <2>1. SessionTypes /\ Shown /\ SureOfEntry /\ [Who!Next]_(Who!vars)
    BY StepOfArea DEF SessionInv
  <2> QED
    BY <2>1, ScreenStep DEF Enters, Who!LoginEnters
<1> QED
  BY <1>1, SessionAlways, PTL DEF Spec, LoginEnters
=============================================================================
