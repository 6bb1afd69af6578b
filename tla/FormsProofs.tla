---------------------------- MODULE FormsProofs ----------------------------
(***************************************************************************)
(* Proofs about the forms of the console: what a save leaves alone, and    *)
(* what a dialog shows.                                                    *)
(***************************************************************************)
EXTENDS ConsoleProofs, FiniteSetTheorems, WellFoundedInduction

-----------------------------------------------------------------------------
(* Sets of numbers.                                                        *)

\* A set of naturals that has an element has a least one.
LEMMA LeastNat ==
  ASSUME NEW S \in SUBSET Nat, S # {}
  PROVE  \E m \in S : \A n \in S : m <= n
<1>1. \E m \in S : \A n \in S : ~(<<n, m>> \in OpToRel(<, Nat))
  BY WFMin, NatLessThanWellFounded, Zenon
<1>2. \E m \in S : \A n \in S : ~(n < m)
  BY <1>1, Zenon DEF OpToRel
<1> QED
  BY <1>2

\* Finitely many naturals have a bound.
LEMMA BoundedNats ==
  ASSUME NEW len \in Nat, NEW f \in [1..len -> Nat]
  PROVE  \E b \in Nat : \A n \in 1..len : f[n] <= b
<1> DEFINE Unbounded == {k \in 0..len : \A b \in Nat : \E n \in 1..k : ~(f[n] <= b)}
<1> SUFFICES ASSUME Unbounded # {} PROVE FALSE
  <2>1. len \in 0..len
    OBVIOUS
  <2> QED
    BY <2>1
<1>1. Unbounded \in SUBSET Nat
  OBVIOUS
<1> HIDE DEF Unbounded
<1>2. PICK k \in Unbounded : \A j \in Unbounded : k <= j
  BY <1>1, LeastNat
<1>3. k \in 1..len
  BY DEF Unbounded
<1>4. k - 1 \in 0..len /\ ~(k <= k - 1)
  BY <1>3
<1>5. k - 1 \notin Unbounded
  BY <1>2, <1>4
<1>6. PICK b \in Nat : \A n \in 1..(k - 1) : f[n] <= b
  BY <1>4, <1>5 DEF Unbounded
<1>7. f[k] \in Nat
  BY <1>3
<1>8. b + f[k] \in Nat /\ b <= b + f[k] /\ f[k] <= b + f[k]
  BY <1>7
<1>9. ASSUME NEW n \in 1..k PROVE f[n] <= b + f[k]
  <2>1. CASE n = k
    BY <1>8, <2>1
  <2>2. CASE n # k
    <3>1. n \in 1..(k - 1) /\ f[n] \in Nat
      BY <1>3, <2>2
    <3> QED
      BY <1>6, <1>7, <3>1
  <2> QED
    BY <2>1, <2>2
<1>10. ~(\E n \in 1..k : ~(f[n] <= b + f[k]))
  BY <1>9
<1> QED
  BY <1>8, <1>10, <1>2 DEF Unbounded

\* A finite set of naturals that has an element has a greatest one.
LEMMA GreatestNat ==
  ASSUME NEW S \in SUBSET Nat, S # {}, IsFiniteSet(S)
  PROVE  \E m \in S : \A n \in S : m >= n
<1>1. PICK s \in Seq(S) : \A x \in S : \E n \in 1..Len(s) : s[n] = x
  BY DEF IsFiniteSet
<1>2. Len(s) \in Nat /\ s \in [1..Len(s) -> Nat]
  BY LenProperties
<1>3. PICK b \in Nat : \A n \in 1..Len(s) : s[n] <= b
  BY <1>2, BoundedNats
<1> DEFINE Bounds == {m \in Nat : \A x \in S : x <= m}
<1>4. b \in Bounds
  BY <1>1, <1>3
<1>5. Bounds \in SUBSET Nat
  OBVIOUS
<1>6. PICK m \in Bounds : \A c \in Bounds : m <= c
  <2> HIDE DEF Bounds
  <2> QED
    BY <1>4, <1>5, LeastNat
<1>7. m \in S
  <2> SUFFICES ASSUME m \notin S PROVE FALSE
    OBVIOUS
  <2>1. PICK x \in S : TRUE
    OBVIOUS
  <2>2. m # 0 /\ m - 1 \in Nat
    BY <2>1
  <2>3. m - 1 \in Bounds
    BY <2>2
  <2> QED
    BY <1>6, <2>2, <2>3
<1> QED
  BY <1>7

-----------------------------------------------------------------------------
\* A step in one area is a step of that area's page, or none.
LEMMA StepOfForm ==
  ASSUME [Next]_vars
  PROVE  /\ area = "push-keys" => [Keys!Next]_(Keys!vars)
         /\ area = "channels" => [Chans!Next]_(Chans!vars)
         /\ area = "groups" => [Grps!Next]_(Grps!vars)
         /\ area = "users" => [Usrs!Next]_(Usrs!vars)
BY DEF Next, InKeys, InChannels, InGroups, InUsers, InMessage, InLists, InOverview,
       InSession, InLimits, vars, Keys!vars, Chans!vars, Grps!vars, Usrs!vars

-----------------------------------------------------------------------------
(* What a step does to requests: at most one is sent or dealt with.        *)

\* Request i stands where it stood, except that its page may be left.
Stands(i) ==
  /\ i \in DOMAIN calls'
  /\ calls'[i].op = calls[i].op /\ calls'[i].arg = calls[i].arg
  /\ calls'[i].at = calls[i].at /\ calls'[i].out = calls[i].out
  /\ calls'[i].here => calls[i].here

SentNow(op, arg) ==
  calls' = Append(calls, [op |-> op, arg |-> arg, at |-> "sent", here |-> TRUE,
                          out |-> Null])

AnsweredNow(i, at, out) == calls' = [calls EXCEPT ![i].at = at, ![i].out = out]

SettledNow(i) == calls' = [calls EXCEPT ![i].at = "done", ![i].arg = Null, ![i].out = Null]

LeftNow == calls' = [i \in DOMAIN calls |-> [calls[i] EXCEPT !.here = FALSE]]

\* At the start there are none.
LEMMA NoCalls == calls = <<>> => CallsOK
BY DEF CallsOK

\* What each of the changes makes of the requests.
LEMMA StandsSent ==
  ASSUME CallsOK, NEW op, NEW arg, SentNow(op, arg)
  PROVE  /\ CallsOK' /\ \A i \in DOMAIN calls : Stands(i)
         /\ \A i \in DOMAIN calls' \ DOMAIN calls :
              Fields(calls'[i], op, arg, "sent", TRUE, Null)
BY SentCall DEF SentNow, Stands

LEMMA StandsAnswered ==
  ASSUME CallsOK, NEW i \in DOMAIN calls, NEW at, NEW out, AnsweredNow(i, at, out)
  PROVE  /\ CallsOK' /\ DOMAIN calls' = DOMAIN calls
         /\ \A j \in DOMAIN calls \ {i} : Stands(j)
         /\ Fields(calls'[i], calls[i].op, calls[i].arg, at, calls[i].here, out)
BY AnsweredCall DEF AnsweredNow, Stands

LEMMA StandsSettled ==
  ASSUME CallsOK, NEW i \in DOMAIN calls, SettledNow(i)
  PROVE  /\ CallsOK' /\ DOMAIN calls' = DOMAIN calls
         /\ \A j \in DOMAIN calls \ {i} : Stands(j)
         /\ Fields(calls'[i], calls[i].op, Null, "done", calls[i].here, Null)
BY SettledCall DEF SettledNow, Stands

LEMMA StandsLeft ==
  ASSUME CallsOK, LeftNow
  PROVE  /\ CallsOK' /\ DOMAIN calls' = DOMAIN calls
         /\ \A i \in DOMAIN calls : Stands(i)
BY AbandonedCalls DEF LeftNow, Stands, Fields

LEMMA StandsStill ==
  ASSUME CallsOK, UNCHANGED calls
  PROVE  /\ CallsOK' /\ DOMAIN calls' = DOMAIN calls
         /\ \A i \in DOMAIN calls : Stands(i)
BY DEF CallsOK, Stands

\* A step that sends, answers, settles or leaves.
Requesting ==
  \/ UNCHANGED calls \/ LeftNow
  \/ \E op, arg : SentNow(op, arg)
  \/ \E i \in DOMAIN calls :
       SettledNow(i) \/ \E at, out : calls[i].at # "done" /\ AnsweredNow(i, at, out)

LEMMA RequestsGo ==
  ASSUME CallsOK, Requesting
  PROVE  /\ CallsOK'
         /\ \A i \in DOMAIN calls :
              \/ Stands(i)
              \/ SettledNow(i) /\ calls'[i].at = "done"
              \/ \E at, out :
                   /\ AnsweredNow(i, at, out)
                   /\ Fields(calls'[i], calls[i].op, calls[i].arg, at, calls[i].here, out)
<1>1. CASE UNCHANGED calls \/ LeftNow \/ \E op, arg : SentNow(op, arg)
  BY <1>1, StandsStill, StandsLeft, StandsSent
<1>2. ASSUME NEW i \in DOMAIN calls, SettledNow(i)
      PROVE  /\ CallsOK' /\ \A j \in DOMAIN calls \ {i} : Stands(j)
             /\ calls'[i].at = "done"
  BY <1>2, StandsSettled DEF Fields
<1>3. ASSUME NEW i \in DOMAIN calls, NEW at, NEW out, AnsweredNow(i, at, out)
      PROVE  /\ CallsOK' /\ \A j \in DOMAIN calls \ {i} : Stands(j)
             /\ Fields(calls'[i], calls[i].op, calls[i].arg, at, calls[i].here, out)
  BY <1>3, StandsAnswered
<1> QED
  BY <1>1, <1>2, <1>3 DEF Requesting

\* An answer that turns up now is the one thing the step did to requests.
LEMMA TurnsOk ==
  ASSUME CallsOK, NEW i \in DOMAIN calls, calls[i].at # "ok", calls'[i].at = "ok"
  PROVE  /\ ~(UNCHANGED calls) /\ ~LeftNow
         /\ \A op, arg : ~SentNow(op, arg)
         /\ \A j \in DOMAIN calls : ~SettledNow(j)
         /\ \A j \in DOMAIN calls : \A at, out :
              AnsweredNow(j, at, out) => j = i /\ at = "ok"
<1>1. ~Stands(i)
  BY DEF Stands
<1>2. ~(UNCHANGED calls) /\ ~LeftNow /\ \A op, arg : ~SentNow(op, arg)
  BY <1>1, StandsStill, StandsLeft, StandsSent
<1>3. ASSUME NEW j \in DOMAIN calls, SettledNow(j) PROVE FALSE
  BY <1>1, <1>3, StandsSettled DEF Fields
<1>4. ASSUME NEW j \in DOMAIN calls, NEW at, NEW out, AnsweredNow(j, at, out)
      PROVE  j = i /\ at = "ok"
  BY <1>1, <1>4, StandsAnswered DEF Fields
<1> QED
  BY <1>2, <1>3, <1>4

\* A request that is not dealt with was not before, or is sent now.
LEMMA StillOpen ==
  ASSUME CallsOK, Requesting, NEW i \in DOMAIN calls', calls'[i].at # "done"
  PROVE  \/ /\ i \in DOMAIN calls /\ calls[i].at # "done"
            /\ calls'[i].op = calls[i].op /\ calls'[i].arg = calls[i].arg
         \/ SentNow(calls'[i].op, calls'[i].arg)
<1>1. CASE UNCHANGED calls \/ LeftNow
  BY <1>1, StandsStill, StandsLeft DEF Stands
<1>2. ASSUME NEW op, NEW arg, SentNow(op, arg)
      PROVE  \/ i \in DOMAIN calls /\ Stands(i)
             \/ SentNow(calls'[i].op, calls'[i].arg)
  BY <1>2, StandsSent DEF Fields
<1>3. ASSUME NEW j \in DOMAIN calls, SettledNow(j)
      PROVE  i \in DOMAIN calls /\ Stands(i)
  BY <1>3, StandsSettled DEF Fields
<1>4. ASSUME NEW j \in DOMAIN calls, NEW at, NEW out, calls[j].at # "done",
             AnsweredNow(j, at, out)
      PROVE  /\ i \in DOMAIN calls
             /\ Stands(i) \/ /\ calls[i].at # "done" /\ calls'[i].op = calls[i].op
                             /\ calls'[i].arg = calls[i].arg
  BY <1>4, StandsAnswered DEF Fields
<1> QED
  BY <1>1, <1>2, <1>3, <1>4 DEF Requesting, Stands

\* A request that is sent now is the one thing the step did to requests.
LEMMA OnlySent ==
  ASSUME CallsOK, NEW op, NEW arg, SentNow(op, arg)
  PROVE  /\ ~(UNCHANGED calls) /\ ~LeftNow
         /\ \A o, a : SentNow(o, a) => o = op /\ a = arg
         /\ \A j \in DOMAIN calls :
              ~SettledNow(j) /\ \A at, out : ~AnsweredNow(j, at, out)
<1> DEFINE n == Len(calls) + 1
<1>1. n \notin DOMAIN calls
  BY CallsDomain
<1>2. ASSUME NEW o, NEW a, SentNow(o, a)
      PROVE  n \in DOMAIN calls' /\ calls'[n].op = o /\ calls'[n].arg = a
  BY <1>2, SentCall DEF SentNow, Fields
<1>3. ASSUME NEW j \in DOMAIN calls,
             SettledNow(j) \/ \E at, out : AnsweredNow(j, at, out)
      PROVE  DOMAIN calls' = DOMAIN calls
  BY <1>3 DEF SettledNow, AnsweredNow
<1>4. CASE UNCHANGED calls \/ LeftNow
  BY <1>1, <1>2, <1>4 DEF LeftNow
<1> HIDE DEF n
<1> QED
  BY <1>1, <1>2, <1>3, <1>4

-----------------------------------------------------------------------------
(* Groups.  A row is a record, and only its own save moves its switch.     *)

GroupRow(r) ==
  r \in [live : {r.live}, active : {r.active}, described : {r.described}, links : {r.links}]

GroupRows ==
  /\ server = [g \in Groups |-> server[g]]
  /\ \A g \in Groups : GroupRow(server[g])

\* One row is replaced.
LEMMA GroupReplaced ==
  ASSUME GroupRows, NEW g, NEW r, GroupRow(r), server' = [server EXCEPT ![g] = r]
  PROVE  GroupRows'
BY DEF GroupRows

LEMMA GroupRowsStep ==
  ASSUME GroupRows, [Grps!Next]_(Grps!vars)
  PROVE  GroupRows'
<1>1. CASE UNCHANGED server
  BY <1>1 DEF GroupRows
<1>2. GroupRow(Grps!Absent)
  BY DEF GroupRow, Grps!Absent
<1>3. ASSUME NEW g, NEW a, server' = [server EXCEPT ![g] = Grps!Updated(@, a)]
      PROVE  GroupRows'
  <2>1. CASE g \in Groups
    <3>1. GroupRow(Grps!Updated(server[g], a))
      BY <2>1 DEF GroupRows, GroupRow, Grps!Updated
    <3> QED
      BY <1>3, <3>1, GroupReplaced
  <2>2. CASE g \notin Groups
    BY <1>3, <2>2 DEF GroupRows
  <2> QED
    BY <2>1, <2>2
<1>4. ASSUME NEW g, NEW k, NEW x, server' = [server EXCEPT ![g].links[k] = x]
      PROVE  GroupRows'
  <2>1. CASE g \in Groups
    <3> DEFINE r == [server[g] EXCEPT !.links[k] = x]
    <3>1. GroupRow(r)
      BY <2>1 DEF GroupRows, GroupRow
    <3>2. server' = [server EXCEPT ![g] = r]
      BY <1>4
    <3> HIDE DEF r
    <3> QED
      BY <3>1, <3>2, GroupReplaced
  <2>2. CASE g \notin Groups
    BY <1>4, <2>2 DEF GroupRows
  <2> QED
    BY <2>1, <2>2
<1>5. ASSUME NEW i \in Grps!InFlight, NEW g \in Groups, Grps!ServeCreate(i, g)
      PROVE  GroupRows'
  BY <1>5, GroupReplaced DEF Grps!ServeCreate, GroupRow
<1>6. ASSUME NEW i \in Grps!InFlight, Grps!ServeUpdate(i) PROVE GroupRows'
  BY <1>1, <1>3, <1>6 DEF Grps!ServeUpdate
<1>7. ASSUME NEW i \in Grps!InFlight, Grps!ServeDelete(i) PROVE GroupRows'
  BY <1>1, <1>2, <1>7, GroupReplaced DEF Grps!ServeDelete
<1>8. ASSUME NEW i \in Grps!InFlight, Grps!WriteLink(i) PROVE GroupRows'
  <2> DEFINE a == calls[i].arg
             k == calls[i].op
             now == server[a.group].links[k]
             x == IF a.checked /\ ~calls[i].out THEN now \cup {a.what}
                  ELSE IF ~a.checked /\ calls[i].out THEN now \ {a.what} ELSE now
  <2>1. \/ UNCHANGED server
        \/ server' = [server EXCEPT ![a.group].links[k] = x]
    BY <1>8 DEF Grps!WriteLink, Grps!Live
  <2> HIDE DEF a, k, x
  <2> QED
    BY <2>1, <1>1, <1>4
<1>9. ASSUME NEW g \in Groups, NEW k \in Grps!Kinds, Grps!Elsewhere(g, k)
      PROVE  GroupRows'
  BY <1>4, <1>9 DEF Grps!Elsewhere
<1>10. ASSUME NEW g \in Groups, Grps!RowElsewhere(g) PROVE GroupRows'
  <2>1. PICK row \in {[server[g] EXCEPT !.active = ~@], Grps!Absent} :
           server' = [server EXCEPT ![g] = row]
    BY <1>10 DEF Grps!RowElsewhere
  <2>2. GroupRow(row)
    BY <1>2, <2>1 DEF GroupRows, GroupRow
  <2> QED
    BY <2>1, <2>2, GroupReplaced
<1> QED
  BY <1>1, <1>5, <1>6, <1>7, <1>8, <1>9, <1>10
     DEF Grps!Next, Grps!vars, Grps!Fetch, Grps!openCreate, Grps!switchActive,
         Grps!confirmDelete, Grps!close, Grps!leave, Grps!handleSubmit, Grps!openEdit,
         Grps!openMembers, Grps!openChannels, Grps!OpenLinks, Grps!askDelete,
         Grps!handleMemberChecked, Grps!handleChannelChecked, Grps!HandleChecked,
         Grps!ReadLink, Grps!settle, Grps!lose

\* The page is a record; its form is open on a group, on none, or closed, and
\* holds the switch of the row it was opened on until the user moves it.
GroupPage(p) ==
  p \in [dialog : {p.dialog}, group : {p.group}, active : {p.active}, picked : {p.picked},
         from : {p.from}, touched : {p.touched}, doubt : {p.doubt}, gestures : {p.gestures}]

SwitchKept(f) == "active" \notin f.touched => f.active = f.from.active

GroupForm(p) ==
  /\ GroupPage(p)
  /\ p.dialog = "none" => p.group = Null
  /\ p.dialog # "form" => p.touched = {}
  /\ p.dialog = "form" => p.group = Null \/ SwitchKept(p)

LEMMA GroupGesture ==
  ASSUME NEW p, GroupForm(p), Grps!Gesture(p)
  PROVE  GroupForm(page')
BY DEF Grps!Gesture, GroupForm, GroupPage, SwitchKept

LEMMA GroupFormStep ==
  ASSUME GroupForm(page), [Grps!Next]_(Grps!vars)
  PROVE  GroupForm(page')
<1>1. CASE UNCHANGED page
  BY <1>1
<1>2. CASE Grps!openCreate
  <2> DEFINE p == [page EXCEPT !.dialog = "form", !.active = TRUE]
  <2>1. Grps!Gesture(p) /\ page.group = Null
    BY <1>2 DEF Grps!openCreate, GroupForm
  <2>2. GroupForm(p)
    BY <2>1 DEF GroupForm, GroupPage
  <2> HIDE DEF p
  <2> QED
    BY <2>1, <2>2, GroupGesture
<1>3. ASSUME NEW g \in Groups, Grps!openEdit(g) PROVE GroupForm(page')
  <2>1. Grps!Gesture(Grps!OpenedOn(g))
    BY <1>3 DEF Grps!openEdit
  <2>2. GroupForm(Grps!OpenedOn(g))
    BY DEF GroupForm, GroupPage, SwitchKept, Grps!OpenedOn
  <2> QED
    BY <2>1, <2>2, GroupGesture
<1>4. GroupForm(Grps!Closed(page))
  BY DEF GroupForm, GroupPage, Grps!Closed
<1>5. CASE Grps!close
  BY <1>4, <1>5, GroupGesture DEF Grps!close
<1>6. CASE Grps!switchActive
  <2> DEFINE p == [page EXCEPT !.active = ~@, !.touched = @ \cup {"active"}]
  <2>1. Grps!Gesture(p) /\ page.dialog = "form"
    BY <1>6 DEF Grps!switchActive
  <2>2. GroupForm(p)
    BY <2>1 DEF GroupForm, GroupPage, SwitchKept
  <2> HIDE DEF p
  <2> QED
    BY <2>1, <2>2, GroupGesture
<1>7. CASE Grps!confirmDelete \/ \E d : Grps!handleSubmit(d)
  BY <1>7, GroupGesture DEF Grps!confirmDelete, Grps!handleSubmit
<1>9. ASSUME NEW k \in Grps!Kinds, NEW g \in Groups, Grps!OpenLinks(k, g)
      PROVE  GroupForm(page')
  <2>1. PICK P, b : /\ Grps!Gesture([page EXCEPT !.dialog = k, !.group = g,
                                                !.picked = P, !.doubt = b])
                    /\ page.dialog = "none"
    BY <1>9 DEF Grps!OpenLinks
  <2>2. k # "none" /\ k # "form"
    BY DEF Grps!Kinds
  <2>3. GroupForm([page EXCEPT !.dialog = k, !.group = g, !.picked = P, !.doubt = b])
    BY <2>1, <2>2 DEF GroupForm, GroupPage
  <2> QED
    BY <2>1, <2>3, GroupGesture
<1>10. ASSUME NEW g \in Groups, Grps!askDelete(g) PROVE GroupForm(page')
  <2> DEFINE p == [page EXCEPT !.dialog = "delete", !.group = g]
  <2>1. Grps!Gesture(p) /\ page.dialog = "none"
    BY <1>10 DEF Grps!askDelete
  <2>2. GroupForm(p)
    BY <2>1 DEF GroupForm, GroupPage
  <2> HIDE DEF p
  <2> QED
    BY <2>1, <2>2, GroupGesture
<1>11. ASSUME NEW k \in Grps!Kinds, NEW x, Grps!HandleChecked(k, x) PROVE GroupForm(page')
  <2>1. PICK P, b : Grps!Gesture([page EXCEPT !.picked = P, !.doubt = b])
    BY <1>11 DEF Grps!HandleChecked
  <2>2. GroupForm([page EXCEPT !.picked = P, !.doubt = b])
    BY DEF GroupForm, GroupPage, SwitchKept
  <2> QED
    BY <2>1, <2>2, GroupGesture
<1>12. CASE Grps!leave
  <2>1. GroupForm(Grps!Blank)
    BY DEF GroupForm, GroupPage, Grps!Blank
  <2> QED
    BY <1>12, <2>1, GroupGesture DEF Grps!leave
<1>13. ASSUME NEW b, page' = [page EXCEPT !.doubt = b] PROVE GroupForm(page')
  BY <1>13 DEF GroupForm, GroupPage, SwitchKept
<1>14. ASSUME NEW i, Grps!settle(i) PROVE GroupForm(page')
  <2>1. \/ page' = page \/ page' = Grps!Closed(page)
        \/ \E P : page' = [page EXCEPT !.picked = P]
        \/ page' = [page EXCEPT !.doubt = TRUE]
    BY <1>14 DEF Grps!settle, Grps!OnError, Grps!OnSuccess
  <2>2. ASSUME NEW P, page' = [page EXCEPT !.picked = P] PROVE GroupForm(page')
    BY <2>2 DEF GroupForm, GroupPage, SwitchKept
  <2> QED
    BY <1>4, <1>13, <2>1, <2>2
<1>15. ASSUME NEW i, Grps!lose(i) PROVE GroupForm(page')
  BY <1>13, <1>15 DEF Grps!lose
<1>16. ASSUME NEW g, NEW k, Grps!Elsewhere(g, k) PROVE GroupForm(page')
  BY <1>13, <1>16 DEF Grps!Elsewhere
<1> QED
  BY <1>1, <1>2, <1>3, <1>5, <1>6, <1>7, <1>9, <1>10, <1>11, <1>12, <1>14, <1>15, <1>16
     DEF Grps!Next, Grps!vars, Grps!Fetch, Grps!openMembers, Grps!openChannels,
         Grps!handleMemberChecked, Grps!handleChannelChecked, Grps!Kinds,
         Grps!RowElsewhere, Grps!ServeCreate, Grps!ServeUpdate, Grps!ServeDelete,
         Grps!ReadLink, Grps!WriteLink

\* A save that is sent holds the switch of its row unless the user moved it; one
\* that succeeds was served in this very step.
GroupsGo ==
  \/ UNCHANGED calls \/ LeftNow
  \/ \E op, arg : SentNow(op, arg) /\ (op = "update" => SwitchKept(arg))
  \/ \E i \in DOMAIN calls :
       \/ SettledNow(i)
       \/ \E at, out :
            /\ AnsweredNow(i, at, out) /\ calls[i].at # "done"
            /\ \/ at # "ok" \/ calls[i].op # "update"
               \/ calls[i].at # "sent" \/ Grps!ServeUpdate(i)

GroupArgs ==
  \A i \in DOMAIN calls :
    calls[i].op = "update" /\ calls[i].at # "done" => SwitchKept(calls[i].arg)

LEMMA GroupRequests ==
  ASSUME GroupForm(page), [Grps!Next]_(Grps!vars) PROVE GroupsGo
<1>1. CASE UNCHANGED calls
  BY <1>1 DEF GroupsGo
<1>2. CASE Grps!leave
  BY <1>2 DEF GroupsGo, LeftNow, Grps!leave, Grps!Abandon
<1>3. ASSUME NEW op, NEW arg, Grps!Send(op, arg), op = "update" => SwitchKept(arg)
      PROVE  GroupsGo
  BY <1>3 DEF GroupsGo, SentNow, Grps!Send, Grps!Request
<1>4. ASSUME NEW d, Grps!handleSubmit(d) PROVE GroupsGo
  <2> DEFINE arg == [group |-> page.group, active |-> page.active, described |-> d,
                     from |-> page.from, touched |-> page.touched]
             op == IF page.group = Null THEN "create" ELSE "update"
  <2>1. Grps!Send(op, arg) /\ page.dialog = "form"
    BY <1>4 DEF Grps!handleSubmit
  <2>2. op = "update" => SwitchKept(arg)
    BY <2>1 DEF GroupForm, SwitchKept
  <2> HIDE DEF arg, op
  <2> QED
    BY <1>3, <2>1, <2>2
<1>5. ASSUME NEW k \in Grps!Kinds, NEW x, Grps!HandleChecked(k, x) PROVE GroupsGo
  <2>1. \E arg : Grps!Send(k, arg)
    BY <1>5 DEF Grps!HandleChecked
  <2>2. k # "update"
    BY DEF Grps!Kinds
  <2> QED
    BY <1>3, <2>1, <2>2
<1>6. CASE Grps!confirmDelete
  BY <1>3, <1>6 DEF Grps!confirmDelete
<1>7. ASSUME NEW i \in Grps!InFlight,
             \/ \E g \in Groups : Grps!ServeCreate(i, g)
             \/ Grps!ServeUpdate(i) \/ Grps!ServeDelete(i)
             \/ Grps!ReadLink(i) \/ Grps!WriteLink(i) \/ Grps!settle(i) \/ Grps!lose(i)
      PROVE  GroupsGo
  <2>0. i \in DOMAIN calls /\ calls[i].at # "done"
    BY DEF Grps!InFlight
  <2>1. ASSUME NEW at, NEW out, Grps!Answer(i, at, out),
               \/ at # "ok" \/ calls[i].op # "update"
               \/ calls[i].at # "sent" \/ Grps!ServeUpdate(i)
        PROVE  GroupsGo
    BY <2>0, <2>1 DEF GroupsGo, AnsweredNow, Grps!Answer
  <2>2. ASSUME NEW g, Grps!ServeCreate(i, g) PROVE GroupsGo
    BY <2>1, <2>2 DEF Grps!ServeCreate
  <2>3. CASE Grps!ServeUpdate(i)
    BY <2>1, <2>3 DEF Grps!ServeUpdate
  <2>4. CASE Grps!ServeDelete(i)
    BY <2>1, <2>4 DEF Grps!ServeDelete
  <2>5. CASE Grps!ReadLink(i)
    BY <2>1, <2>5 DEF Grps!ReadLink
  <2>6. CASE Grps!WriteLink(i)
    BY <2>1, <2>6 DEF Grps!WriteLink
  <2>7. CASE Grps!settle(i)
    BY <2>0, <2>7 DEF GroupsGo, SettledNow, Grps!settle, Grps!Settled
  <2>8. CASE Grps!lose(i)
    BY <2>1, <2>8 DEF Grps!lose, Grps!Lose
  <2> QED
    BY <1>7, <2>2, <2>3, <2>4, <2>5, <2>6, <2>7, <2>8
<1> QED
  BY <1>1, <1>2, <1>4, <1>5, <1>6, <1>7
     DEF Grps!Next, Grps!vars, Grps!Fetch, Grps!openCreate, Grps!switchActive,
         Grps!close, Grps!openEdit, Grps!openMembers, Grps!openChannels, Grps!OpenLinks,
         Grps!askDelete, Grps!handleMemberChecked, Grps!handleChannelChecked, Grps!Kinds,
         Grps!Elsewhere, Grps!RowElsewhere

GroupsInv == area = "groups" => CallsOK /\ GroupRows /\ GroupForm(page) /\ GroupArgs

\* The invariant holds at the start ...
LEMMA GroupsStart == Init => GroupsInv
<1> SUFFICES ASSUME Init, area = "groups"
             PROVE  CallsOK /\ GroupRows /\ GroupForm(page) /\ GroupArgs
  BY DEF GroupsInv
<1>1. Grps!Init
  BY DEF Init
<1>2. CallsOK /\ GroupArgs
  BY <1>1, NoCalls DEF Grps!Init, GroupArgs
<1>5. GroupForm(page)
  BY <1>1 DEF Grps!Init, Grps!Blank, GroupForm, GroupPage
<1> DEFINE old == CHOOSE g \in Groups : TRUE
           row == [live |-> TRUE, active |-> TRUE, described |-> TRUE,
                   links |-> [k \in Grps!Kinds |-> {CHOOSE x \in Links[k] : TRUE}]]
<1>3. server = [g \in Groups |-> IF g = old THEN row ELSE Grps!Absent]
  BY <1>1 DEF Grps!Init
<1>4. GroupRow(row) /\ GroupRow(Grps!Absent)
  BY DEF GroupRow, Grps!Absent
<1> HIDE DEF old, row
<1> QED
  BY <1>2, <1>3, <1>4, <1>5 DEF GroupRows

\* ... and every step keeps it.
LEMMA GroupsInvStep == GroupsInv /\ [Next]_vars => GroupsInv'
<1> SUFFICES ASSUME GroupsInv, [Next]_vars, area' = "groups"
             PROVE  (CallsOK /\ GroupRows /\ GroupForm(page) /\ GroupArgs)'
  BY DEF GroupsInv
<1>1. /\ area = "groups" /\ CallsOK /\ GroupRows /\ GroupForm(page) /\ GroupArgs
      /\ [Grps!Next]_(Grps!vars)
  BY OneArea, StepOfForm DEF GroupsInv
<1>2. GroupsGo
  BY <1>1, GroupRequests
<1>3. Requesting
  BY <1>2 DEF GroupsGo, Requesting
<1>4. ASSUME NEW i \in DOMAIN calls', calls'[i].op = "update", calls'[i].at # "done"
      PROVE  SwitchKept(calls'[i].arg)
  <2>1. CASE /\ i \in DOMAIN calls /\ calls[i].at # "done"
             /\ calls'[i].op = calls[i].op /\ calls'[i].arg = calls[i].arg
    BY <1>1, <1>4, <2>1 DEF GroupArgs
  <2>2. CASE SentNow(calls'[i].op, calls'[i].arg)
    BY <1>1, <1>2, <1>4, <2>2, OnlySent DEF GroupsGo
  <2> QED
    BY <1>1, <1>3, <1>4, <2>1, <2>2, StillOpen
<1>5. GroupArgs'
  BY <1>4 DEF GroupArgs, SwitchKept
<1>6. GroupForm(page)'
  BY <1>1, GroupFormStep DEF GroupForm, GroupPage, SwitchKept
<1> QED
  BY <1>1, <1>3, <1>5, <1>6, RequestsGo, GroupRowsStep

\* What a save makes of its row.
LEMMA GroupSaved ==
  ASSUME GroupRows, NEW g, NEW a, server' = [server EXCEPT ![g] = Grps!Updated(@, a)]
  PROVE  server'[g].links = server[g].links
         /\ server'[g].active \in {server[g].active, a.active}
<1>1. CASE g \in Groups
  <2>1. GroupRow(server[g]) /\ server'[g] = Grps!Updated(server[g], a)
    BY <1>1 DEF GroupRows
  <2> QED
    BY <2>1 DEF GroupRow, Grps!Updated
<1>2. CASE g \notin Groups
  <2>1. server' = server
    BY <1>2 DEF GroupRows
  <2> QED
    BY <2>1
<1> QED
  BY <1>1, <1>2

LEMMA GroupsSaveStep ==
  GroupsInv /\ [Next]_vars => [area = "groups" => Grps!GroupSaveKeeps]_vars
<1> SUFFICES ASSUME GroupsInv, Next, area = "groups",
                    NEW i \in Grps!InFlight, calls[i].op = "update",
                    calls[i].at = "sent", calls'[i].at = "ok"
             PROVE  LET a == calls[i].arg
                        old == server[a.group]
                        new == server'[a.group]
                    IN  /\ new.links = old.links
                        /\ ("active" \notin a.touched /\ old.active = a.from.active)
                              => new.active = old.active
  BY DEF Grps!GroupSaveKeeps
<1>1. /\ CallsOK /\ GroupRows /\ GroupForm(page) /\ GroupArgs /\ [Grps!Next]_(Grps!vars)
      /\ i \in DOMAIN calls
  BY StepOfForm DEF GroupsInv, Grps!InFlight
<1>5. GroupsGo /\ SwitchKept(calls[i].arg)
  BY <1>1, GroupRequests DEF GroupArgs
<1>2. Grps!ServeUpdate(i)
  BY <1>1, <1>5, TurnsOk DEF GroupsGo
<1> DEFINE a == calls[i].arg
<1>3. \/ server' = [server EXCEPT ![a.group] = Grps!Updated(@, a)]
      \/ UNCHANGED server
  BY <1>2 DEF Grps!ServeUpdate
<1> HIDE DEF a
<1>4. /\ server'[a.group].links = server[a.group].links
      /\ server'[a.group].active \in {server[a.group].active, a.active}
  BY <1>1, <1>3, GroupSaved
<1> QED
  BY <1>4, <1>5 DEF a, SwitchKept

\* Saving a group's form leaves its links alone, and its switch too unless the user
\* moved the switch in that form or the stored one had moved since the form's row was
\* read: no earlier form, and no other request, leaves a value in it
\* (GroupsPage.tsx openEdit, handleSubmit; services/groups.py update_group).
THEOREM GroupSaveLeavesTheRest == Spec => GroupSaveKeeps
<1>1. GroupsInv /\ [Next]_vars => [area = "groups" => Grps!GroupSaveKeeps]_vars
  BY GroupsSaveStep
<1> QED
  BY <1>1, GroupsStart, GroupsInvStep, PTL DEF Spec, GroupSaveKeeps

-----------------------------------------------------------------------------
(* Groups: what the dialog of members or channels shows.                   *)

\* Call c is a click in a dialog of kind k that is not dealt with.
Click(c, k) == c.at # "done" /\ c.op = k

\* No call of kind k of a mounted page came after the i-th.
LastOf(i, k) == \A j \in DOMAIN calls : j > i => ~(calls[j].op = k /\ calls[j].here)

\* Click c is one of a dialog of group g, with S stored and P shown: the link is
\* shown as clicked, and stored as clicked exactly from the time it is answered.
ClickTrue(c, g, S, P) ==
  /\ c.here /\ c.arg.group = g
  /\ c.arg.checked <=> c.arg.what \in P
  /\ c.at = "ok" <=> (c.arg.what \in S <=> c.arg.checked)
  /\ c.at = "read" => (c.out <=> c.arg.what \in S)

\* What was shown before the latest click.
Before(a, P) == IF a.checked THEN P \ {a.what} ELSE P \cup {a.what}

\* In a dialog of kind k and group g, with S stored and P shown, every click is
\* true, a link is clicked once, the latest click knows what was shown before
\* it, and everything else is shown as it is stored.
LinksHeld(g, k, S, P) ==
  /\ \A i \in DOMAIN calls : Click(calls[i], k) =>
       /\ ClickTrue(calls[i], g, S, P)
       /\ LastOf(i, k) => calls[i].arg.previous = Before(calls[i].arg, P)
       /\ \A j \in DOMAIN calls :
            Click(calls[j], k) /\ j # i => calls[j].arg.what # calls[i].arg.what
  /\ \A x : (\A i \in DOMAIN calls : Click(calls[i], k) => calls[i].arg.what # x)
                => (x \in P <=> x \in S)

\* The clicks of kind k stay as they are.
ClicksStand(k) ==
  /\ \A i \in DOMAIN calls : /\ i \in DOMAIN calls' /\ calls'[i].op = calls[i].op
                             /\ calls'[i].here = calls[i].here
                             /\ Click(calls[i], k) => calls'[i] = calls[i]
  /\ \A i \in DOMAIN calls' : Click(calls'[i], k) => i \in DOMAIN calls /\ Click(calls[i], k)

LEMMA HeldStanding ==
  ASSUME NEW g, NEW k, NEW S, NEW P, LinksHeld(g, k, S, P), ClicksStand(k)
  PROVE  LinksHeld(g, k, S, P)'
<1>1. ASSUME NEW i \in DOMAIN calls', Click(calls'[i], k)
      PROVE  i \in DOMAIN calls /\ Click(calls[i], k) /\ calls'[i] = calls[i]
  BY <1>1 DEF ClicksStand
<1>2. ASSUME NEW i \in DOMAIN calls', Click(calls'[i], k), LastOf(i, k)'
      PROVE  LastOf(i, k)
  BY <1>2 DEF ClicksStand, LastOf
<1>3. ASSUME NEW i \in DOMAIN calls', Click(calls'[i], k)
      PROVE  /\ ClickTrue(calls'[i], g, S, P)
             /\ LastOf(i, k)' => calls'[i].arg.previous = Before(calls'[i].arg, P)
             /\ \A j \in DOMAIN calls' :
                  Click(calls'[j], k) /\ j # i => calls'[j].arg.what # calls'[i].arg.what
  BY <1>1, <1>2, <1>3 DEF LinksHeld
<1>4. ASSUME NEW x, \A i \in DOMAIN calls' : Click(calls'[i], k) => calls'[i].arg.what # x
      PROVE  x \in P <=> x \in S
  <2>1. \A i \in DOMAIN calls : Click(calls[i], k) => calls[i].arg.what # x
    BY <1>4 DEF ClicksStand, Click
  <2> QED
    BY <2>1 DEF LinksHeld
<1> QED
  BY <1>3, <1>4 DEF LinksHeld

\* A click is read, done or lost; what it is about may be stored by now.
LEMMA HeldAnswered ==
  ASSUME NEW g, NEW k, NEW S, NEW P, NEW T, LinksHeld(g, k, S, P), CallsOK,
         NEW i \in DOMAIN calls, Click(calls[i], k), NEW at, NEW out, at # "done",
         AnsweredNow(i, at, out),
         \A x : x # calls[i].arg.what => (x \in T <=> x \in S),
         at = "ok" <=> (calls[i].arg.what \in T <=> calls[i].arg.checked),
         at = "read" => (out <=> calls[i].arg.what \in T)
  PROVE  LinksHeld(g, k, T, P)'
<1>1. /\ DOMAIN calls' = DOMAIN calls
      /\ \A j \in DOMAIN calls \ {i} : calls'[j] = calls[j]
      /\ Fields(calls'[i], calls[i].op, calls[i].arg, at, calls[i].here, out)
  BY AnsweredCall DEF AnsweredNow
<1>2. \A j \in DOMAIN calls :
        /\ calls'[j].op = calls[j].op /\ calls'[j].here = calls[j].here
        /\ Click(calls'[j], k) <=> Click(calls[j], k)
        /\ calls'[j].arg = calls[j].arg
  BY <1>1 DEF Fields, Click
<1>3. \A j \in DOMAIN calls : LastOf(j, k)' <=> LastOf(j, k)
  BY <1>1, <1>2 DEF LastOf
<1>4. ASSUME NEW j \in DOMAIN calls, Click(calls[j], k) PROVE ClickTrue(calls'[j], g, T, P)
  <2>1. ClickTrue(calls[j], g, S, P)
    BY <1>4 DEF LinksHeld
  <2>2. CASE j = i
    BY <1>1, <2>1, <2>2 DEF ClickTrue, Fields
  <2>3. CASE j # i
    <3>1. calls[j].arg.what # calls[i].arg.what /\ calls'[j] = calls[j]
      BY <1>1, <1>4, <2>3 DEF LinksHeld
    <3>2. calls[j].arg.what \in T <=> calls[j].arg.what \in S
      BY <3>1
    <3> QED
      BY <2>1, <3>1, <3>2 DEF ClickTrue
  <2> QED
    BY <2>2, <2>3
<1>5. ASSUME NEW x, \A j \in DOMAIN calls' : Click(calls'[j], k) => calls'[j].arg.what # x
      PROVE  x \in P <=> x \in T
  <2>1. \A j \in DOMAIN calls : Click(calls[j], k) => calls[j].arg.what # x
    BY <1>1, <1>2, <1>5
  <2> QED
    BY <2>1 DEF LinksHeld
<1>6. ASSUME NEW j \in DOMAIN calls', Click(calls'[j], k)
      PROVE  /\ ClickTrue(calls'[j], g, T, P)
             /\ LastOf(j, k)' => calls'[j].arg.previous = Before(calls'[j].arg, P)
             /\ \A l \in DOMAIN calls' :
                  Click(calls'[l], k) /\ l # j => calls'[l].arg.what # calls'[j].arg.what
  BY <1>1, <1>2, <1>3, <1>4, <1>6 DEF LinksHeld
<1> QED
  BY <1>5, <1>6 DEF LinksHeld

\* A click is sent.
LEMMA HeldSent ==
  ASSUME NEW g, NEW k, NEW S, NEW P, NEW Q, LinksHeld(g, k, S, P), CallsOK,
         NEW a, SentNow(k, a), a.group = g, a.previous = P,
         a.checked <=> a.what \notin P,
         Q = IF a.checked THEN P \cup {a.what} ELSE P \ {a.what},
         \A i \in DOMAIN calls : Click(calls[i], k) => calls[i].arg.what # a.what
  PROVE  LinksHeld(g, k, S, Q)'
<1> DEFINE n == Len(calls) + 1
<1>1. /\ DOMAIN calls' = DOMAIN calls \cup {n}
      /\ \A i \in DOMAIN calls : i < n /\ calls'[i] = calls[i]
      /\ Fields(calls'[n], k, a, "sent", TRUE, Null)
  BY SentCall DEF SentNow
<1> HIDE DEF n
<1>2. Click(calls'[n], k) /\ calls'[n].arg = a
  BY <1>1 DEF Click, Fields
<1>3. a.what \in P <=> a.what \in S
  BY DEF LinksHeld
<1>4. \A x : x # a.what => (x \in Q <=> x \in P)
  OBVIOUS
<1>5. (a.what \in Q <=> a.checked) /\ Before(a, Q) = P
  BY DEF Before
<1>6. \A i \in DOMAIN calls : ~LastOf(i, k)'
  BY <1>1 DEF LastOf, Fields
<1>7. ClickTrue(calls'[n], g, S, Q)
  BY <1>1, <1>3, <1>5 DEF ClickTrue, Fields
<1>8. ASSUME NEW i \in DOMAIN calls, Click(calls[i], k) PROVE ClickTrue(calls[i], g, S, Q)
  <2>1. ClickTrue(calls[i], g, S, P) /\ calls[i].arg.what # a.what
    BY <1>8 DEF LinksHeld
  <2> QED
    BY <1>4, <2>1 DEF ClickTrue
<1>9. ASSUME NEW i \in DOMAIN calls', Click(calls'[i], k)
      PROVE  /\ ClickTrue(calls'[i], g, S, Q)
             /\ LastOf(i, k)' => calls'[i].arg.previous = Before(calls'[i].arg, Q)
             /\ \A j \in DOMAIN calls' :
                  Click(calls'[j], k) /\ j # i => calls'[j].arg.what # calls'[i].arg.what
  <2>1. CASE i = n
    BY <1>1, <1>2, <1>5, <1>7, <2>1
  <2>2. CASE i # n
    <3>1. i \in DOMAIN calls /\ calls'[i] = calls[i] /\ Click(calls[i], k)
      BY <1>1, <1>9, <2>2
    <3>2. ClickTrue(calls'[i], g, S, Q) /\ ~LastOf(i, k)'
      BY <1>6, <1>8, <3>1
    <3>3. ASSUME NEW j \in DOMAIN calls', Click(calls'[j], k), j # i
          PROVE  calls'[j].arg.what # calls'[i].arg.what
      <4>1. CASE j = n
        BY <1>2, <3>1, <4>1
      <4>2. CASE j # n
        <5>1. j \in DOMAIN calls /\ calls'[j] = calls[j]
          BY <1>1, <4>2
        <5> QED
          BY <3>1, <3>3, <5>1 DEF LinksHeld
      <4> QED
        BY <4>1, <4>2
    <3> QED
      BY <3>2, <3>3
  <2> QED
    BY <2>1, <2>2
<1>10. ASSUME NEW x, \A i \in DOMAIN calls' : Click(calls'[i], k) => calls'[i].arg.what # x
       PROVE  x \in Q <=> x \in S
  <2>1. x # a.what
    BY <1>1, <1>2, <1>10
  <2>2. \A i \in DOMAIN calls : Click(calls[i], k) => calls[i].arg.what # x
    BY <1>1, <1>10
  <2>3. x \in P <=> x \in S
    BY <2>2 DEF LinksHeld
  <2> QED
    BY <1>4, <2>1, <2>3
<1> QED
  BY <1>9, <1>10 DEF LinksHeld

\* A click is dealt with: one that was done is shown, and if the latest failed,
\* what was shown before it is shown again.
LEMMA HeldSettled ==
  ASSUME NEW g, NEW k, NEW S, NEW P, NEW Q, LinksHeld(g, k, S, P), CallsOK,
         NEW i \in DOMAIN calls, Click(calls[i], k), SettledNow(i),
         \/ calls[i].at = "ok" /\ Q = P
         \/ calls[i].at # "ok" /\ LastOf(i, k) /\ Q = calls[i].arg.previous
  PROVE  LinksHeld(g, k, S, Q)'
<1>1. /\ DOMAIN calls' = DOMAIN calls
      /\ \A j \in DOMAIN calls \ {i} : calls'[j] = calls[j]
      /\ Fields(calls'[i], calls[i].op, Null, "done", calls[i].here, Null)
  BY SettledCall DEF SettledNow
<1> DEFINE a == calls[i].arg
<1>2. ClickTrue(calls[i], g, S, P)
      /\ (LastOf(i, k) => a.previous = Before(a, P))
  BY DEF LinksHeld
<1> HIDE DEF a
<1>3. \A x : x # a.what => (x \in Q <=> x \in P)
  BY <1>2 DEF Before, a
<1>4. a.what \in Q <=> a.what \in S
  BY <1>2 DEF Before, ClickTrue, a
<1>5. ~Click(calls'[i], k)
  BY <1>1 DEF Click, Fields
<1>6. \A j \in DOMAIN calls : LastOf(j, k)' <=> LastOf(j, k)
  BY <1>1 DEF LastOf, Fields
<1>7. ASSUME NEW j \in DOMAIN calls, Click(calls[j], k), j # i
      PROVE  /\ ClickTrue(calls[j], g, S, Q) /\ calls[j].arg.what # a.what
             /\ LastOf(j, k) => calls[j].arg.previous = Before(calls[j].arg, Q)
  <2>1. /\ ClickTrue(calls[j], g, S, P) /\ calls[j].arg.what # a.what
        /\ LastOf(j, k) => calls[j].arg.previous = Before(calls[j].arg, P)
    BY <1>7 DEF LinksHeld, a
  <2>2. Q = P \/ ~LastOf(j, k)
    <3>1. j \in Nat /\ i \in Nat
      BY CallsDomain
    <3> QED
      BY <1>2, <1>7, <2>1, <3>1 DEF LastOf, Click, ClickTrue
  <2>3. ClickTrue(calls[j], g, S, Q)
    BY <1>3, <2>1 DEF ClickTrue
  <2> QED
    BY <2>1, <2>2, <2>3
<1>8. ASSUME NEW j \in DOMAIN calls', Click(calls'[j], k)
      PROVE  /\ ClickTrue(calls'[j], g, S, Q)
             /\ LastOf(j, k)' => calls'[j].arg.previous = Before(calls'[j].arg, Q)
             /\ \A l \in DOMAIN calls' :
                  Click(calls'[l], k) /\ l # j => calls'[l].arg.what # calls'[j].arg.what
  <2>1. /\ j \in DOMAIN calls /\ j # i /\ calls'[j] = calls[j] /\ Click(calls[j], k)
        /\ \A l \in DOMAIN calls' : Click(calls'[l], k) =>
              l \in DOMAIN calls /\ calls'[l] = calls[l] /\ Click(calls[l], k)
    BY <1>1, <1>5, <1>8
  <2> QED
    BY <1>6, <1>7, <2>1 DEF LinksHeld
<1>9. ASSUME NEW x, \A j \in DOMAIN calls' : Click(calls'[j], k) => calls'[j].arg.what # x
      PROVE  x \in Q <=> x \in S
  <2>1. CASE x = a.what
    BY <1>4, <2>1
  <2>2. CASE x # a.what
    <3>1. \A j \in DOMAIN calls : Click(calls[j], k) => calls[j].arg.what # x
      BY <1>1, <1>9, <2>2 DEF a
    <3>2. x \in P <=> x \in S
      BY <3>1 DEF LinksHeld
    <3> QED
      BY <1>3, <2>2, <3>2
  <2> QED
    BY <2>1, <2>2
<1> QED
  BY <1>8, <1>9 DEF LinksHeld

\* The record of the cache; a group's links are a function.
GroupCache(c) == c \in [groups : {c.groups}, used : {c.used}, elsewhere : {c.elsewhere}]
GroupLinks == \A g \in Groups : server[g].links = [k \in Grps!Kinds |-> server[g].links[k]]

\* A group that exists, or is shown, is one that was created once, and so is the
\* one a dialog of links is of; no other is created under its id.
GroupsUsed ==
  /\ \A g \in Groups : server[g].live \/ cache.groups[g].live => g \in cache.used
  /\ page.dialog \in Grps!Kinds => page.group \in Groups /\ page.group \in cache.used

\* A dialog of links is open, and nothing has put it in doubt.
LinksShown(p) == p.dialog \in Grps!Kinds /\ ~p.doubt

DialogHeld ==
  \A g, k, S, P :
     /\ LinksShown(page) /\ g = page.group /\ k = page.dialog /\ P = page.picked
     /\ server[g].live /\ S = server[g].links[k]
     => LinksHeld(g, k, S, P)

Linked == GroupPage(page) /\ GroupCache(cache) /\ GroupLinks /\ GroupsUsed /\ DialogHeld

\* Group g is as before, as far as a dialog of kind k shows it, or gone.
GroupStands(g, k) ==
  server'[g].live => server[g].live /\ server'[g].links[k] = server[g].links[k]

\* A dialog of links stands, its group stands, and its clicks do.
LEMMA DialogStands ==
  ASSUME DialogHeld,
         LinksShown(page') =>
           /\ LinksShown(page) /\ page'.dialog = page.dialog /\ page'.group = page.group
           /\ page'.picked = page.picked /\ GroupStands(page.group, page.dialog)
           /\ ClicksStand(page.dialog)
  PROVE  DialogHeld'
<1> SUFFICES ASSUME NEW g, NEW k, NEW S, NEW P,
                    LinksShown(page'), g = page'.group, k = page'.dialog, P = page'.picked,
                    server'[g].live, S = server'[g].links[k]
             PROVE  LinksHeld(g, k, S, P)'
  BY DEF DialogHeld
<1>1. LinksHeld(g, k, S, P) /\ ClicksStand(k)
  BY DEF DialogHeld, GroupStands
<1> QED
  BY <1>1, HeldStanding

\* Requests of which none is a click of kind k leave the clicks alone.
LEMMA StandingStill == ASSUME UNCHANGED calls, NEW k PROVE ClicksStand(k)
BY DEF ClicksStand

LEMMA StandingSent ==
  ASSUME CallsOK, NEW k, NEW op, NEW arg, op # k, SentNow(op, arg) PROVE ClicksStand(k)
<1> DEFINE n == Len(calls) + 1
<1>1. /\ DOMAIN calls' = DOMAIN calls \cup {n}
      /\ \A i \in DOMAIN calls : calls'[i] = calls[i]
      /\ calls'[n].op = op
  BY SentCall DEF SentNow, Fields
<1> HIDE DEF n
<1> QED
  BY <1>1 DEF ClicksStand, Click

LEMMA StandingAnswered ==
  ASSUME CallsOK, NEW k, NEW i \in DOMAIN calls, calls[i].op # k, NEW at, NEW out,
         AnsweredNow(i, at, out)
  PROVE  ClicksStand(k)
BY AnsweredCall DEF AnsweredNow, ClicksStand, Click, Fields

LEMMA StandingSettled ==
  ASSUME CallsOK, NEW k, NEW i \in DOMAIN calls, calls[i].op # k, SettledNow(i)
  PROVE  ClicksStand(k)
BY SettledCall DEF SettledNow, ClicksStand, Click, Fields

\* Gestures that touch no request.
LEMMA LinkGestures ==
  ASSUME Linked, UNCHANGED <<server, cache, calls>>,
         \/ Grps!openCreate \/ Grps!switchActive \/ Grps!close
         \/ \E g \in Groups : Grps!openEdit(g) \/ Grps!askDelete(g)
  PROVE  Linked'
<1>1. GroupPage(page') /\ page'.dialog \notin Grps!Kinds
  BY DEF Linked, GroupPage, Grps!openCreate, Grps!switchActive, Grps!close, Grps!openEdit,
         Grps!OpenedOn, Grps!askDelete, Grps!Gesture, Grps!Closed, Grps!Kinds
<1>2. GroupCache(cache)' /\ GroupLinks' /\ GroupsUsed'
  BY <1>1 DEF Linked, GroupCache, GroupLinks, GroupsUsed
<1>3. DialogHeld'
  BY <1>1, DialogStands DEF Linked, LinksShown
<1> QED
  BY <1>1, <1>2, <1>3 DEF Linked

\* A dialog of links is opened, on what the cache has.
LEMMA LinksOpened ==
  ASSUME Linked, NEW k \in Grps!Kinds, NEW g \in Groups, Grps!OpenLinks(k, g)
  PROVE  Linked'
<1>1. /\ UNCHANGED <<server, cache, calls>> /\ cache.groups[g].live
      /\ GroupPage(page') /\ page'.dialog = k /\ page'.group = g
      /\ page'.picked = cache.groups[g].links[k]
      /\ ~page'.doubt => /\ Grps!Toggling(k) = {}
                        /\ cache.groups[g].links[k] = server[g].links[k]
  BY DEF Linked, GroupPage, Grps!OpenLinks, Grps!Gesture, Grps!Listed
<1>2. GroupCache(cache)' /\ GroupLinks' /\ GroupsUsed'
  BY <1>1 DEF Linked, GroupCache, GroupLinks, GroupsUsed
<1>3. DialogHeld'
  <2> SUFFICES ASSUME NEW S, ~page'.doubt, S = server[g].links[k]
               PROVE  LinksHeld(g, k, S, S)'
    BY <1>1 DEF DialogHeld, LinksShown
  <2>1. \A i \in DOMAIN calls : ~Click(calls[i], k)
    BY <1>1 DEF Click, Grps!Toggling, Grps!InFlight
  <2> QED
    BY <1>1, <2>1 DEF LinksHeld
<1> QED
  BY <1>1, <1>2, <1>3 DEF Linked

\* A link is clicked.
LEMMA LinkClicked ==
  ASSUME CallsOK, Linked, NEW k \in Grps!Kinds, NEW x, Grps!HandleChecked(k, x)
  PROVE  Linked'
<1> DEFINE a == [group |-> page.group, what |-> x, checked |-> x \notin page.picked,
                 previous |-> page.picked]
           Q == IF a.checked THEN page.picked \cup {a.what} ELSE page.picked \ {a.what}
<1>1. /\ UNCHANGED <<server, cache>> /\ SentNow(k, a)
      /\ GroupPage(page') /\ page.dialog = k /\ page'.dialog = k /\ page'.group = page.group
      /\ page'.picked = Q
      /\ ~page'.doubt => ~page.doubt /\ \A i \in Grps!Toggling(k) : calls[i].arg.what # x
  BY DEF Linked, GroupPage, Grps!HandleChecked, Grps!Gesture, Grps!Send, Grps!Request,
         Grps!toggleArrayValue, SentNow
<1>2. GroupCache(cache)' /\ GroupLinks' /\ GroupsUsed'
  BY <1>1 DEF Linked, GroupCache, GroupLinks, GroupsUsed
<1>3. DialogHeld'
  <2> SUFFICES ASSUME NEW g, NEW S, NEW P, ~page'.doubt, g = page.group, P = page.picked,
                      server[g].live, S = server[g].links[k], NEW R, R = Q
               PROVE  LinksHeld(g, k, S, R)'
    BY <1>1 DEF DialogHeld, LinksShown
  <2>1. LinksHeld(g, k, S, P)
    BY <1>1 DEF Linked, DialogHeld, LinksShown
  <2>2. \A i \in DOMAIN calls : Click(calls[i], k) => calls[i].arg.what # x
    BY <1>1 DEF Click, Grps!Toggling, Grps!InFlight
  <2>3. /\ a.group = g /\ a.previous = P /\ a.what = x /\ (a.checked <=> a.what \notin P)
        /\ R = IF a.checked THEN P \cup {a.what} ELSE P \ {a.what}
    OBVIOUS
  <2> HIDE DEF a, Q
  <2> QED
    BY <1>1, <2>1, <2>2, <2>3, HeldSent
<1> QED
  BY <1>1, <1>2, <1>3 DEF Linked

\* A row is replaced.
LEMMA LinksReplaced ==
  ASSUME GroupRows, GroupLinks, NEW h \in Groups, NEW r,
         r.links = [k \in Grps!Kinds |-> r.links[k]], server' = [server EXCEPT ![h] = r]
  PROVE  GroupLinks' /\ server'[h] = r /\ \A g \in Groups \ {h} : server'[g] = server[g]
BY DEF GroupRows, GroupLinks

\* A link is set.
WithLinks(h, l, x) == [server EXCEPT ![h].links[l] = x]

LEMMA LinksSet ==
  ASSUME GroupRows, GroupLinks, NEW h, NEW l, NEW x, server' = WithLinks(h, l, x)
  PROVE  /\ GroupLinks'
         /\ \A g \in Groups : server'[g].live = server[g].live
         /\ \A g \in Groups, k \in Grps!Kinds :
              server'[g].links[k] = IF g = h /\ k = l THEN x ELSE server[g].links[k]
<1>1. CASE h \in Groups
  <2> DEFINE r == [server[h] EXCEPT !.links[l] = x]
  <2>1. /\ server[h].links = [k \in Grps!Kinds |-> server[h].links[k]]
        /\ GroupRow(server[h])
    BY <1>1 DEF GroupRows, GroupLinks
  <2>2. r.links = [server[h].links EXCEPT ![l] = x] /\ r.live = server[h].live
    BY <2>1 DEF GroupRow
  <2>3. server' = [server EXCEPT ![h] = r]
    BY DEF WithLinks
  <2> HIDE DEF r
  <2>4. /\ r.links = [k \in Grps!Kinds |-> r.links[k]]
        /\ \A k \in Grps!Kinds : r.links[k] = IF k = l THEN x ELSE server[h].links[k]
    BY <2>1, <2>2
  <2>5. GroupLinks' /\ server'[h] = r /\ \A g \in Groups \ {h} : server'[g] = server[g]
    BY <1>1, <2>3, <2>4, LinksReplaced
  <2> QED
    BY <2>2, <2>4, <2>5
<1>2. CASE h \notin Groups
  <2>1. server' = server
    BY <1>2 DEF GroupRows, WithLinks
  <2> QED
    BY <1>2, <2>1 DEF GroupLinks
<1> QED
  BY <1>1, <1>2

\* Steps that no dialog of links survives, and what others do to other groups.
LEMMA LinksBeside ==
  ASSUME CallsOK, GroupRows, Linked,
         \/ Grps!Fetch \/ Grps!confirmDelete \/ Grps!leave
         \/ \E d : Grps!handleSubmit(d)
         \/ \E g \in Groups : Grps!RowElsewhere(g) \/ \E k \in Grps!Kinds : Grps!Elsewhere(g, k)
  PROVE  Linked'
<1>1. CASE Grps!Fetch
  <2>1. /\ GroupCache(cache') /\ cache'.groups = server /\ cache'.used = cache.used
        /\ UNCHANGED <<server, page, calls>>
    BY <1>1 DEF Linked, GroupCache, Grps!Fetch
  <2>2. DialogHeld'
    BY <2>1, StandingStill, DialogStands DEF Linked, GroupStands
  <2> QED
    BY <2>1, <2>2 DEF Linked, GroupLinks, GroupsUsed
<1>2. CASE Grps!confirmDelete \/ \E d : Grps!handleSubmit(d)
  <2>1. /\ UNCHANGED <<server, cache>> /\ GroupPage(page')
        /\ page'.dialog \notin Grps!Kinds
    BY <1>2 DEF Linked, GroupPage, Grps!confirmDelete, Grps!handleSubmit, Grps!Gesture,
                Grps!Kinds
  <2>2. DialogHeld'
    BY <2>1, DialogStands DEF Linked, LinksShown
  <2> QED
    BY <2>1, <2>2 DEF Linked, GroupLinks, GroupsUsed
<1>3. CASE Grps!leave
  <2>1. /\ UNCHANGED <<server, cache>> /\ GroupPage(page')
        /\ page'.dialog \notin Grps!Kinds
    BY <1>3 DEF GroupPage, Grps!leave, Grps!Blank, Grps!Gesture, Grps!Kinds
  <2>2. DialogHeld'
    BY <2>1, DialogStands DEF Linked, LinksShown
  <2> QED
    BY <2>1, <2>2 DEF Linked, GroupLinks, GroupsUsed
<1>4. ASSUME NEW g \in Groups, NEW k \in Grps!Kinds, Grps!Elsewhere(g, k)
      PROVE  Linked'
  <2>1. PICK x : server' = WithLinks(g, k, x)
    BY <1>4 DEF Grps!Elsewhere, WithLinks
  <2>2. /\ GroupLinks' /\ \A h \in Groups : server'[h].live = server[h].live
        /\ \A h \in Groups, l \in Grps!Kinds :
             h # g => server'[h].links[l] = server[h].links[l]
    BY <2>1, LinksSet DEF Linked
  <2>3. /\ GroupCache(cache') /\ cache'.groups = cache.groups /\ cache'.used = cache.used
        /\ UNCHANGED calls
    BY <1>4 DEF Linked, GroupCache, Grps!Elsewhere
  <2>4. /\ GroupPage(page') /\ page'.dialog = page.dialog /\ page'.group = page.group
        /\ page'.picked = page.picked
        /\ ~page'.doubt => ~page.doubt /\ page.group # g
    BY <1>4 DEF Linked, GroupPage, Grps!Elsewhere
  <2>5. GroupsUsed'
    BY <2>2, <2>3, <2>4 DEF Linked, GroupsUsed
  <2>6. DialogHeld'
    BY <2>2, <2>3, <2>4, StandingStill, DialogStands
       DEF Linked, LinksShown, GroupsUsed, GroupStands
  <2> QED
    BY <2>2, <2>3, <2>4, <2>5, <2>6 DEF Linked
<1>5. ASSUME NEW h \in Groups, Grps!RowElsewhere(h) PROVE Linked'
  <2>1. PICK r \in {[server[h] EXCEPT !.active = ~@], Grps!Absent} :
           server' = [server EXCEPT ![h] = r]
    BY <1>5 DEF Grps!RowElsewhere
  <2>2. /\ GroupRow(server[h]) /\ server[h].live
        /\ server[h].links = [k \in Grps!Kinds |-> server[h].links[k]]
    BY <1>5 DEF Linked, GroupRows, GroupLinks, Grps!RowElsewhere, Grps!Live
  <2>3. /\ r.links = [k \in Grps!Kinds |-> r.links[k]]
        /\ r.live => \A k \in Grps!Kinds : r.links[k] = server[h].links[k]
    <3>1. CASE r = [server[h] EXCEPT !.active = ~@]
      <4>1. r.links = server[h].links
        BY <2>2, <3>1 DEF GroupRow
      <4> QED
        BY <2>2, <4>1
    <3>2. CASE r = Grps!Absent
      BY <3>2 DEF Grps!Absent, Grps!NoLinks
    <3> QED
      BY <2>1, <3>1, <3>2
  <2>4. GroupLinks' /\ server'[h] = r /\ \A g \in Groups \ {h} : server'[g] = server[g]
    BY <2>1, <2>3, LinksReplaced DEF Linked
  <2>5. /\ GroupCache(cache') /\ cache'.groups = cache.groups /\ cache'.used = cache.used
        /\ UNCHANGED <<page, calls>>
    BY <1>5 DEF Linked, GroupCache, Grps!RowElsewhere
  <2>6. GroupsUsed'
    BY <2>2, <2>4, <2>5 DEF Linked, GroupsUsed
  <2>7. DialogHeld'
    BY <2>2, <2>3, <2>4, <2>5, StandingStill, DialogStands
       DEF Linked, LinksShown, GroupsUsed, GroupStands
  <2> QED
    BY <2>4, <2>5, <2>6, <2>7 DEF Linked
<1> QED
  BY <1>1, <1>2, <1>3, <1>4, <1>5

\* A request to create, save or delete a group is served.
LEMMA GroupServed ==
  ASSUME CallsOK, GroupRows, Linked, NEW i \in DOMAIN calls,
         \/ \E g \in Groups : Grps!ServeCreate(i, g)
         \/ Grps!ServeUpdate(i) \/ Grps!ServeDelete(i)
  PROVE  Linked'
<1>1. /\ UNCHANGED page /\ calls[i].op \notin Grps!Kinds
      /\ \E at, out : AnsweredNow(i, at, out)
  BY DEF Grps!ServeCreate, Grps!ServeUpdate, Grps!ServeDelete, Grps!Answer, AnsweredNow,
         Grps!Kinds
<1>2. ASSUME NEW k \in Grps!Kinds PROVE ClicksStand(k)
  BY <1>1, StandingAnswered
<1>3. CASE UNCHANGED <<server, cache>>
  <2>1. DialogHeld'
    BY <1>1, <1>2, <1>3, DialogStands DEF Linked, LinksShown, GroupStands
  <2> QED
    BY <1>1, <1>3, <2>1 DEF Linked, GroupLinks, GroupsUsed
<1>4. ASSUME NEW h \in Groups, NEW r, server' = [server EXCEPT ![h] = r],
             r.links = [k \in Grps!Kinds |-> r.links[k]],
             GroupCache(cache'), cache'.groups = cache.groups,
             cache.used \subseteq cache'.used, r.live => h \in cache'.used,
             \/ ~r.live
             \/ h \notin cache.used
             \/ server[h].live /\ \A k \in Grps!Kinds : r.links[k] = server[h].links[k]
      PROVE  Linked'
  <2>1. GroupLinks' /\ server'[h] = r /\ \A g \in Groups \ {h} : server'[g] = server[g]
    BY <1>4, LinksReplaced DEF Linked
  <2>2. GroupsUsed'
    BY <1>1, <1>4, <2>1 DEF Linked, GroupsUsed
  <2>3. DialogHeld'
    BY <1>1, <1>2, <1>4, <2>1, DialogStands DEF Linked, LinksShown, GroupsUsed, GroupStands
  <2> QED
    BY <1>1, <1>4, <2>1, <2>2, <2>3 DEF Linked
<1>5. ASSUME NEW h \in Groups, Grps!ServeCreate(i, h) PROVE Linked'
  <2> DEFINE r == [live |-> TRUE, active |-> calls[i].arg.active,
                   described |-> calls[i].arg.described, links |-> Grps!NoLinks]
  <2>1. /\ server' = [server EXCEPT ![h] = r] /\ h \notin cache.used
        /\ GroupCache(cache') /\ cache'.groups = cache.groups
        /\ cache'.used = cache.used \cup {h}
    BY <1>5 DEF Linked, GroupCache, Grps!ServeCreate
  <2>2. r.links = [k \in Grps!Kinds |-> r.links[k]]
    BY DEF Grps!NoLinks
  <2> HIDE DEF r
  <2> QED
    BY <1>4, <2>1, <2>2
<1>6. CASE Grps!ServeUpdate(i)
  <2> DEFINE a == calls[i].arg
             r == Grps!Updated(server[a.group], a)
  <2>1. /\ UNCHANGED cache
        /\ \/ UNCHANGED server
           \/ server[a.group].live /\ server' = [server EXCEPT ![a.group] = r]
    BY <1>6 DEF Grps!ServeUpdate, Grps!Live
  <2>2. CASE a.group \in Groups /\ server[a.group].live /\ server' = [server EXCEPT ![a.group] = r]
    <3>1. /\ GroupRow(server[a.group])
          /\ server[a.group].links = [k \in Grps!Kinds |-> server[a.group].links[k]]
      BY <2>2 DEF Linked, GroupRows, GroupLinks
    <3>2. r.links = server[a.group].links /\ r.live = server[a.group].live
      BY <3>1 DEF GroupRow, Grps!Updated
    <3>3. /\ r.links = [k \in Grps!Kinds |-> r.links[k]]
          /\ \A k \in Grps!Kinds : r.links[k] = server[a.group].links[k]
      BY <3>1, <3>2
    <3>4. GroupCache(cache') /\ cache'.groups = cache.groups /\ cache'.used = cache.used
      BY <2>1 DEF Linked
    <3>5. a.group \in cache'.used
      BY <2>2, <3>4 DEF Linked, GroupsUsed
    <3> HIDE DEF a, r
    <3> QED
      BY <1>4, <2>2, <3>3, <3>4, <3>5
  <2>3. CASE a.group \notin Groups
    <3> HIDE DEF a, r
    <3>1. UNCHANGED server
      BY <2>1, <2>3 DEF GroupRows
    <3> QED
      BY <1>3, <2>1, <3>1
  <2> HIDE DEF a, r
  <2> QED
    BY <1>3, <2>1, <2>2, <2>3
<1>7. CASE Grps!ServeDelete(i)
  <2>1. PICK h : /\ UNCHANGED cache
                 /\ \/ UNCHANGED server
                    \/ server' = [server EXCEPT ![h] = Grps!Absent]
    BY <1>7 DEF Grps!ServeDelete
  <2>2. /\ Grps!Absent.links = [k \in Grps!Kinds |-> Grps!Absent.links[k]]
        /\ ~Grps!Absent.live
    BY DEF Grps!Absent, Grps!NoLinks
  <2>3. CASE h \notin Groups
    BY <1>3, <2>1, <2>3 DEF GroupRows
  <2>4. CASE h \in Groups
    BY <1>3, <1>4, <2>1, <2>2, <2>4 DEF Linked
  <2> QED
    BY <2>3, <2>4
<1> QED
  BY <1>5, <1>6, <1>7

\* A request about a link is read or written, or any request is lost.
LEMMA LinkServed ==
  ASSUME CallsOK, GroupRows, Linked, NEW i \in DOMAIN calls,
         Grps!ReadLink(i) \/ Grps!WriteLink(i) \/ Grps!lose(i)
  PROVE  Linked'
<1> DEFINE a == calls[i].arg
           l == calls[i].op
           Set == IF a.checked /\ ~calls[i].out THEN server[a.group].links[l] \cup {a.what}
                  ELSE IF ~a.checked /\ calls[i].out THEN server[a.group].links[l] \ {a.what}
                  ELSE server[a.group].links[l]
<1>1. /\ UNCHANGED cache /\ calls[i].at # "done" /\ GroupPage(page')
      /\ page'.dialog = page.dialog /\ page'.group = page.group /\ page'.picked = page.picked
      /\ ~page'.doubt => ~page.doubt
      /\ \E at, out : AnsweredNow(i, at, out)
  <2>1. CASE Grps!ReadLink(i) \/ Grps!WriteLink(i)
    BY <2>1 DEF Linked, Grps!ReadLink, Grps!WriteLink, Grps!Answer, AnsweredNow
  <2>2. CASE Grps!lose(i)
    BY <2>2 DEF Linked, GroupPage, Grps!lose, Grps!Lose, Grps!Answer, AnsweredNow
  <2> QED
    BY <2>1, <2>2
<1>2. \/ UNCHANGED server
      \/ Grps!WriteLink(i) /\ server' = WithLinks(a.group, l, Set)
  BY DEF Grps!ReadLink, Grps!WriteLink, Grps!lose, WithLinks
<1> HIDE DEF Set
<1>3. /\ GroupLinks' /\ \A g \in Groups : server'[g].live = server[g].live
      /\ \A g \in Groups, k \in Grps!Kinds :
           g # a.group \/ k # l => server'[g].links[k] = server[g].links[k]
      /\ ~Grps!WriteLink(i) => server' = server
      /\ server' = server \/ \A g \in Groups, k \in Grps!Kinds :
                               g = a.group /\ k = l => server'[g].links[k] = Set
  <2> HIDE DEF a, l
  <2>1. CASE UNCHANGED server
    BY <2>1 DEF Linked, GroupLinks
  <2>2. CASE Grps!WriteLink(i) /\ server' = WithLinks(a.group, l, Set)
    BY <2>2, LinksSet DEF Linked
  <2> QED
    BY <1>2, <2>1, <2>2
<1>4. GroupsUsed'
  BY <1>1, <1>3 DEF Linked, GroupsUsed
<1>5. DialogHeld'
  <2> SUFFICES ASSUME NEW g, NEW k, NEW S, NEW T, NEW P, ~page'.doubt, LinksShown(page),
                      g = page.group, k = page.dialog, P = page.picked, server[g].live,
                      g \in Groups, k \in Grps!Kinds,
                      S = server[g].links[k], T = server'[g].links[k]
               PROVE  LinksHeld(g, k, T, P)'
    BY <1>1, <1>3 DEF Linked, GroupsUsed, DialogHeld, LinksShown
  <2>1. LinksHeld(g, k, S, P)
    BY DEF Linked, DialogHeld
  <2>2. CASE l # k
    <3>1. S = T
      BY <1>3, <2>2
    <3>2. ClicksStand(k)
      BY <1>1, <2>2, StandingAnswered
    <3> QED
      BY <2>1, <3>1, <3>2, HeldStanding
  <2>3. CASE l = k
    <3>1. Click(calls[i], k) /\ ClickTrue(calls[i], g, S, P)
      BY <1>1, <2>1, <2>3 DEF Click, LinksHeld
    <3>2. a.group = g
      BY <3>1 DEF ClickTrue
    <3>3. CASE Grps!ReadLink(i)
      <4>1. AnsweredNow(i, "read", a.what \in S) /\ calls[i].at = "sent" /\ T = S
        BY <1>2, <2>3, <3>2, <3>3 DEF Grps!ReadLink, Grps!Live, Grps!Answer, AnsweredNow
      <4> QED
        BY <2>1, <3>1, <4>1, HeldAnswered DEF ClickTrue
    <3>4. CASE Grps!WriteLink(i)
      <4>1. /\ calls[i].at = "read" /\ (calls[i].out <=> a.what \in S)
            /\ (a.what \in S <=> ~a.checked)
        BY <3>1, <3>4 DEF Grps!WriteLink, ClickTrue
      <4>2. /\ AnsweredNow(i, "ok", Null)
            /\ server' = WithLinks(a.group, l, Set)
        BY <2>3, <3>2, <3>4, <4>1
           DEF Grps!WriteLink, Grps!Live, Grps!Answer, AnsweredNow, Set, WithLinks
      <4>3. T = Set
        BY <2>3, <3>2, <4>2, LinksSet DEF Linked
      <4>4. T = IF a.checked THEN S \cup {a.what} ELSE S \ {a.what}
        BY <2>3, <3>2, <4>1, <4>3 DEF Set
      <4>5. /\ \A x : x # a.what => (x \in T <=> x \in S)
            /\ a.what \in T <=> a.checked
        BY <4>4
      <4> QED
        BY <2>1, <3>1, <4>2, <4>5, HeldAnswered
    <3>5. CASE Grps!lose(i)
      <4>1. AnsweredNow(i, "error", Null) /\ T = S
        BY <1>2, <3>5 DEF Grps!lose, Grps!Lose, Grps!Answer, AnsweredNow
      <4>2. calls[i].at # "ok"
        BY <3>5 DEF Linked, GroupPage, Grps!lose
      <4> QED
        BY <2>1, <3>1, <4>1, <4>2, HeldAnswered DEF ClickTrue
    <3> QED
      BY <3>3, <3>4, <3>5
  <2> QED
    BY <2>2, <2>3
<1> QED
  BY <1>1, <1>3, <1>4, <1>5 DEF Linked

\* An answer is dealt with.
LEMMA LinkSettled ==
  ASSUME CallsOK, Linked, NEW i \in DOMAIN calls, Grps!settle(i)
  PROVE  Linked'
<1> DEFINE a == calls[i].arg
           l == calls[i].op
<1>1. /\ UNCHANGED <<server, cache>> /\ SettledNow(i)
      /\ calls[i].at \in {"ok", "error"}
  BY DEF Grps!settle, Grps!Settled, SettledNow
<1>2. /\ page'.dialog \in Grps!Kinds =>
           /\ page'.dialog = page.dialog /\ page'.group = page.group
           /\ ~page'.doubt => ~page.doubt
      /\ GroupPage(page')
  <2>1. CASE calls[i].at = "error"
    <3>1. page' = Grps!OnError(i)
      BY <2>1 DEF Grps!settle
    <3> QED
      BY <3>1 DEF Linked, GroupPage, Grps!OnError
  <2>2. CASE calls[i].at # "error"
    <3>1. page' = page \/ page' = Grps!Closed(page)
      BY <2>2 DEF Grps!settle, Grps!OnSuccess
    <3>2. CASE page' = Grps!Closed(page)
      BY <3>2 DEF Linked, GroupPage, Grps!Closed, Grps!Kinds
    <3> QED
      BY <3>1, <3>2 DEF Linked
  <2> QED
    BY <2>1, <2>2
<1>3. GroupCache(cache)' /\ GroupLinks' /\ GroupsUsed'
  BY <1>1, <1>2 DEF Linked, GroupLinks, GroupsUsed
<1>4. DialogHeld'
  <2> SUFFICES ASSUME NEW g, NEW k, NEW S, NEW P, NEW Q, LinksShown(page'),
                      LinksShown(page), g = page.group, k = page.dialog, P = page.picked,
                      Q = page'.picked, server[g].live, S = server[g].links[k]
               PROVE  LinksHeld(g, k, S, Q)'
    BY <1>1, <1>2 DEF DialogHeld, LinksShown
  <2>1. LinksHeld(g, k, S, P)
    BY DEF Linked, DialogHeld
  <2>2. CASE l # k
    <3>1. Q = P
      <4>1. CASE calls[i].at = "error"
        BY <2>2, <4>1 DEF Grps!settle, Grps!OnError
      <4>2. CASE calls[i].at = "ok"
        BY <4>2 DEF LinksShown, Grps!settle, Grps!OnSuccess, Grps!Closed, Grps!Kinds
      <4> QED
        BY <1>1, <4>1, <4>2
    <3>2. ClicksStand(k)
      BY <1>1, <2>2, StandingSettled
    <3> QED
      BY <2>1, <3>1, <3>2, HeldStanding
  <2>3. CASE l = k
    <3>1. Click(calls[i], k) /\ ClickTrue(calls[i], g, S, P)
      BY <1>1, <2>1, <2>3 DEF Click, LinksHeld
    <3>2. CASE calls[i].at = "ok"
      <4>1. Q = P
        BY <3>2 DEF LinksShown, Grps!settle, Grps!OnSuccess, Grps!Kinds
      <4> QED
        BY <1>1, <2>1, <3>1, <3>2, <4>1, HeldSettled
    <3>3. CASE calls[i].at = "error"
      <4>1. page' = IF Grps!IsLatest(i) THEN [page EXCEPT !.picked = a.previous]
                                        ELSE [page EXCEPT !.doubt = TRUE]
        BY <2>3, <3>1, <3>3 DEF LinksShown, ClickTrue, Grps!settle, Grps!OnError
      <4>2. Grps!IsLatest(i) /\ Q = a.previous
        BY <4>1 DEF Linked, GroupPage, LinksShown
      <4>3. LastOf(i, k)
        BY <2>3, <4>2 DEF Grps!IsLatest, LastOf
      <4> QED
        BY <1>1, <2>1, <3>1, <3>3, <4>2, <4>3, HeldSettled
    <3> QED
      BY <1>1, <3>2, <3>3
  <2> QED
    BY <2>2, <2>3
<1> QED
  BY <1>2, <1>3, <1>4 DEF Linked

LEMMA LinkedStep ==
  ASSUME CallsOK, GroupRows, Linked, [Grps!Next]_(Grps!vars)
  PROVE  Linked'
<1>1. CASE UNCHANGED <<server, cache, page, calls>>
  <2>1. DialogHeld'
    BY <1>1, StandingStill, DialogStands DEF Linked, GroupStands
  <2> QED
    BY <1>1, <2>1 DEF Linked, GroupLinks, GroupsUsed
<1>2. CASE \/ Grps!openCreate \/ Grps!switchActive \/ Grps!close
           \/ \E g \in Groups : Grps!openEdit(g) \/ Grps!askDelete(g)
  BY <1>2, LinkGestures DEF Grps!openCreate, Grps!switchActive, Grps!close, Grps!openEdit,
                            Grps!askDelete
<1>3. ASSUME NEW g \in Groups, Grps!openMembers(g) \/ Grps!openChannels(g) PROVE Linked'
  BY <1>3, LinksOpened DEF Grps!openMembers, Grps!openChannels, Grps!Kinds
<1>4. ASSUME NEW x, Grps!handleMemberChecked(x) \/ Grps!handleChannelChecked(x) PROVE Linked'
  BY <1>4, LinkClicked DEF Grps!handleMemberChecked, Grps!handleChannelChecked, Grps!Kinds
<1>5. ASSUME NEW i \in Grps!InFlight,
             \/ \E g \in Groups : Grps!ServeCreate(i, g)
             \/ Grps!ServeUpdate(i) \/ Grps!ServeDelete(i) \/ Grps!ReadLink(i)
             \/ Grps!WriteLink(i) \/ Grps!settle(i) \/ Grps!lose(i)
      PROVE  Linked'
  BY <1>5, GroupServed, LinkServed, LinkSettled DEF Grps!InFlight
<1> QED
  BY <1>1, <1>2, <1>3, <1>4, <1>5, LinksBeside DEF Grps!Next, Grps!vars

LinkedInv == GroupsInv /\ (area = "groups" => Linked)

LEMMA LinkedStart == Init => LinkedInv
<1> SUFFICES ASSUME Init, area = "groups" PROVE Linked
  BY GroupsStart DEF LinkedInv
<1> DEFINE old == CHOOSE g \in Groups : TRUE
           row == [live |-> TRUE, active |-> TRUE, described |-> TRUE,
                   links |-> [k \in Grps!Kinds |-> {CHOOSE x \in Links[k] : TRUE}]]
<1>1. /\ server = [g \in Groups |-> IF g = old THEN row ELSE Grps!Absent]
      /\ cache = [groups |-> [g \in Groups |-> Grps!Absent], used |-> {old}, elsewhere |-> 0]
      /\ page = Grps!Blank
  BY DEF Init, Grps!Init
<1>2. /\ row.links = [k \in Grps!Kinds |-> row.links[k]]
      /\ Grps!Absent.links = [k \in Grps!Kinds |-> Grps!Absent.links[k]]
      /\ ~Grps!Absent.live
  BY DEF Grps!Absent, Grps!NoLinks
<1>3. GroupPage(page) /\ page.dialog \notin Grps!Kinds
  BY <1>1 DEF GroupPage, Grps!Blank, Grps!Kinds
<1> HIDE DEF old, row
<1>4. GroupCache(cache) /\ GroupLinks /\ GroupsUsed
  BY <1>1, <1>2, <1>3 DEF GroupCache, GroupLinks, GroupsUsed
<1>5. DialogHeld
  BY <1>3 DEF DialogHeld, LinksShown
<1> QED
  BY <1>3, <1>4, <1>5 DEF Linked

LEMMA LinkedInvStep == LinkedInv /\ [Next]_vars => LinkedInv'
<1> SUFFICES ASSUME LinkedInv, [Next]_vars, area' = "groups" PROVE Linked'
  BY GroupsInvStep DEF LinkedInv
<1>1. area = "groups" /\ [Grps!Next]_(Grps!vars)
  BY OneArea, StepOfForm
<1> QED
  BY <1>1, LinkedStep DEF LinkedInv, GroupsInv

\* Once its clicks are answered, a dialog of members or channels shows what is
\* stored, whatever was refused, unless something it cannot know of came between
\* (GroupsPage.tsx handleMemberChecked, handleChannelChecked; services/groups.py
\* set_group_member, set_group_channel_permission).
THEOREM ShownAsStored == Spec => []ShownLinksStored
<1>1. LinkedInv => ShownLinksStored
  <2> SUFFICES ASSUME LinkedInv, area = "groups", page.dialog \in Grps!Kinds, ~page.doubt,
                      Grps!Toggling(page.dialog) = {}, server[page.group].live,
                      NEW g, NEW k, NEW S, NEW P, g = page.group, k = page.dialog,
                      P = page.picked, S = server[g].links[k]
               PROVE  P = S
    BY DEF ShownLinksStored, Grps!ShownLinksStored, Grps!Live
  <2>1. LinksHeld(g, k, S, P)
    BY DEF LinkedInv, Linked, DialogHeld, LinksShown
  <2>2. \A i \in DOMAIN calls : ~Click(calls[i], k)
    BY DEF Click, Grps!Toggling, Grps!InFlight
  <2>3. \A x : x \in P <=> x \in S
    BY <2>1, <2>2 DEF LinksHeld
  <2> QED
    BY <2>3
<1> QED
  BY <1>1, LinkedStart, LinkedInvStep, PTL DEF Spec

-----------------------------------------------------------------------------
(* Channels.  A secret is named in an update only if one was typed.        *)

ChannelRow(r) ==
  r \in [state : {r.state}, type : {r.type}, enabled : {r.enabled}, secret : {r.secret}]

ChannelRows ==
  /\ server = [c \in Channels |-> server[c]]
  /\ \A c \in Channels : ChannelRow(server[c])

\* One row is replaced.
LEMMA ChannelReplaced ==
  ASSUME ChannelRows, NEW c, NEW r, ChannelRow(r), server' = [server EXCEPT ![c] = r]
  PROVE  ChannelRows'
BY DEF ChannelRows

\* What the fields of a row may be set to one by one.
LEMMA ChannelSet ==
  ASSUME ChannelRows, NEW c, NEW x, NEW y,
         \/ server' = [server EXCEPT ![c].enabled = x]
         \/ server' = [server EXCEPT ![c].secret = x]
         \/ server' = [server EXCEPT ![c].state = x, ![c].enabled = y]
  PROVE  ChannelRows'
<1>1. CASE c \notin Channels
  BY <1>1 DEF ChannelRows
<1>2. CASE c \in Channels /\ server' = [server EXCEPT ![c].enabled = x]
  <2>1. ChannelRow([server[c] EXCEPT !.enabled = x])
    BY <1>2 DEF ChannelRows, ChannelRow
  <2> QED
    BY <1>2, <2>1, ChannelReplaced
<1>3. CASE c \in Channels /\ server' = [server EXCEPT ![c].secret = x]
  <2>1. ChannelRow([server[c] EXCEPT !.secret = x])
    BY <1>3 DEF ChannelRows, ChannelRow
  <2> QED
    BY <1>3, <2>1, ChannelReplaced
<1>4. CASE c \in Channels /\ server' = [server EXCEPT ![c].state = x, ![c].enabled = y]
  <2> DEFINE r == [server[c] EXCEPT !.state = x, !.enabled = y]
  <2>1. ChannelRow(r)
    BY <1>4 DEF ChannelRows, ChannelRow
  <2>2. server' = [server EXCEPT ![c] = r]
    BY <1>4 DEF ChannelRows
  <2> HIDE DEF r
  <2> QED
    BY <2>1, <2>2, ChannelReplaced
<1> QED
  BY <1>1, <1>2, <1>3, <1>4

\* What an update makes of a row.
LEMMA ChannelUpdated ==
  ASSUME NEW r, ChannelRow(r), NEW a
  PROVE  LET u == Chans!Updated(r, a)
         IN  /\ ChannelRow(u)
             /\ u.state = r.state /\ u.type = r.type /\ u.enabled = a.enabled
             /\ "secret" \notin a.fields => u.secret = r.secret
BY DEF ChannelRow, Chans!Updated

LEMMA ChannelRowsStep ==
  ASSUME ChannelRows, [Chans!Next]_(Chans!vars)
  PROVE  ChannelRows'
<1>1. CASE UNCHANGED server
  BY <1>1 DEF ChannelRows
<1>2. ASSUME NEW i \in Chans!InFlight, NEW c \in Channels, Chans!ServeCreate(i, c)
      PROVE  ChannelRows'
  BY <1>2, ChannelReplaced DEF Chans!ServeCreate, ChannelRow
<1>3. ASSUME NEW i \in Chans!InFlight, Chans!ServeUpdate(i) PROVE ChannelRows'
  <2> DEFINE a == calls[i].arg
  <2>1. UNCHANGED server \/ server' = [server EXCEPT ![a.id] = Chans!Updated(@, a)]
    BY <1>3 DEF Chans!ServeUpdate
  <2> HIDE DEF a
  <2>2. CASE a.id \notin Channels
    BY <1>1, <2>1, <2>2 DEF ChannelRows
  <2>3. CASE a.id \in Channels
    <3>1. ChannelRow(Chans!Updated(server[a.id], a))
      BY <2>3, ChannelUpdated DEF ChannelRows
    <3> QED
      BY <1>1, <2>1, <2>3, <3>1, ChannelReplaced
  <2> QED
    BY <2>2, <2>3
<1>4. ASSUME NEW i \in Chans!InFlight, Chans!ServeDelete(i) PROVE ChannelRows'
  BY <1>1, <1>4, ChannelSet DEF Chans!ServeDelete
<1>5. ASSUME NEW c \in Channels, Chans!Elsewhere(c) PROVE ChannelRows'
  BY <1>5, ChannelSet DEF Chans!Elsewhere
<1> QED
  BY <1>1, <1>2, <1>3, <1>4, <1>5
     DEF Chans!Next, Chans!vars, Chans!Fetch, Chans!openCreate, Chans!closeForm,
         Chans!switchEnabled, Chans!setType, Chans!handleSubmit, Chans!openEdit,
         Chans!askDelete, Chans!openTest, Chans!cancelDelete, Chans!confirmDelete,
         Chans!closeTest, Chans!leave, Chans!ServeTest, Chans!settle, Chans!lose

NamesTyped(arg) == arg.secret = Null => "secret" \notin arg.fields

\* An update that is sent names the secret only if one was typed, and one that
\* succeeds was served in this very step.
ChannelsGo ==
  \/ UNCHANGED calls \/ LeftNow
  \/ \E op, arg : SentNow(op, arg) /\ (op = "update" => NamesTyped(arg))
  \/ \E i \in DOMAIN calls :
       \/ SettledNow(i)
       \/ \E at, out :
            /\ AnsweredNow(i, at, out) /\ calls[i].at # "done"
            /\ \/ at # "ok" \/ calls[i].op # "update"
               \/ calls[i].at # "sent" \/ Chans!ServeUpdate(i)

LEMMA ChannelRequests == ASSUME [Chans!Next]_(Chans!vars) PROVE ChannelsGo
<1>1. CASE UNCHANGED calls
  BY <1>1 DEF ChannelsGo
<1>2. CASE Chans!leave
  BY <1>2 DEF ChannelsGo, LeftNow, Chans!leave, Chans!Abandon
<1>3. ASSUME NEW op, NEW arg, Chans!Send(op, arg), op = "update" => NamesTyped(arg)
      PROVE  ChannelsGo
  BY <1>3 DEF ChannelsGo, SentNow, Chans!Send, Chans!Request
<1>4. ASSUME NEW typed, Chans!handleSubmit(typed) PROVE ChannelsGo
  <2> DEFINE arg == [id |-> page.editing, type |-> page.type, enabled |-> page.enabled,
                     secret |-> typed, fields |-> Chans!NamedFields(typed),
                     from |-> page.from]
  <2>1. \E op : Chans!Send(op, arg)
    BY <1>4 DEF Chans!handleSubmit
  <2>2. NamesTyped(arg)
    BY DEF NamesTyped, Chans!NamedFields
  <2> HIDE DEF arg
  <2> QED
    BY <1>3, <2>1, <2>2
<1>5. CASE Chans!confirmDelete
  BY <1>3, <1>5 DEF Chans!confirmDelete
<1>6. ASSUME NEW c, Chans!openTest(c) PROVE ChannelsGo
  BY <1>3, <1>6 DEF Chans!openTest
<1>7. ASSUME NEW i \in Chans!InFlight,
             \/ \E c \in Channels : Chans!ServeCreate(i, c)
             \/ Chans!ServeUpdate(i) \/ Chans!ServeDelete(i) \/ Chans!ServeTest(i)
             \/ Chans!settle(i) \/ Chans!lose(i)
      PROVE  ChannelsGo
  <2>0. i \in DOMAIN calls /\ calls[i].at # "done"
    BY DEF Chans!InFlight
  <2>1. ASSUME NEW at, NEW out, Chans!Answer(i, at, out),
               \/ at # "ok" \/ calls[i].op # "update"
               \/ calls[i].at # "sent" \/ Chans!ServeUpdate(i)
        PROVE  ChannelsGo
    BY <2>0, <2>1 DEF ChannelsGo, AnsweredNow, Chans!Answer
  <2>2. ASSUME NEW c, Chans!ServeCreate(i, c) PROVE ChannelsGo
    BY <2>1, <2>2 DEF Chans!ServeCreate
  <2>3. CASE Chans!ServeUpdate(i)
    BY <2>1, <2>3 DEF Chans!ServeUpdate
  <2>4. CASE Chans!ServeDelete(i)
    BY <2>1, <2>4 DEF Chans!ServeDelete
  <2>5. CASE Chans!ServeTest(i)
    BY <2>1, <2>5 DEF Chans!ServeTest
  <2>6. CASE Chans!settle(i)
    BY <2>0, <2>6 DEF ChannelsGo, SettledNow, Chans!settle, Chans!Settled
  <2>7. CASE Chans!lose(i)
    BY <2>1, <2>7 DEF Chans!lose, Chans!Lose
  <2> QED
    BY <1>7, <2>2, <2>3, <2>4, <2>5, <2>6, <2>7
<1> QED
  BY <1>1, <1>2, <1>4, <1>5, <1>6, <1>7
     DEF Chans!Next, Chans!vars, Chans!Fetch, Chans!openCreate, Chans!closeForm,
         Chans!switchEnabled, Chans!setType, Chans!openEdit, Chans!askDelete,
         Chans!cancelDelete, Chans!closeTest, Chans!Elsewhere

\* No update on its way names a secret that was not typed.
SecretsTyped ==
  \A i \in DOMAIN calls :
    calls[i].op = "update" /\ calls[i].at # "done" => NamesTyped(calls[i].arg)

ChannelsInv == area = "channels" => CallsOK /\ ChannelRows /\ SecretsTyped

\* The invariant holds at the start ...
LEMMA ChannelsStart == Init => ChannelsInv
<1> SUFFICES ASSUME Init, area = "channels"
             PROVE  CallsOK /\ ChannelRows /\ SecretsTyped
  BY DEF ChannelsInv
<1>1. Chans!Init
  BY DEF Init
<1>2. CallsOK /\ SecretsTyped
  BY <1>1, NoCalls DEF Chans!Init, SecretsTyped
<1> DEFINE row == [state |-> "live", type |-> Chans!FirstType, enabled |-> FALSE,
                   secret |-> 1]
<1>3. \E new : server = [c \in Channels |-> IF c \in new THEN Chans!Unborn ELSE row]
  BY <1>1 DEF Chans!Init
<1>4. ChannelRow(row) /\ ChannelRow(Chans!Unborn)
  BY DEF ChannelRow, Chans!Unborn
<1> HIDE DEF row
<1> QED
  BY <1>2, <1>3, <1>4 DEF ChannelRows

\* ... and every step keeps it.
LEMMA ChannelsInvStep == ChannelsInv /\ [Next]_vars => ChannelsInv'
<1> SUFFICES ASSUME ChannelsInv, [Next]_vars, area' = "channels"
             PROVE  CallsOK' /\ ChannelRows' /\ SecretsTyped'
  BY DEF ChannelsInv
<1>1. /\ area = "channels" /\ CallsOK /\ ChannelRows /\ SecretsTyped
      /\ [Chans!Next]_(Chans!vars)
  BY OneArea, StepOfForm DEF ChannelsInv
<1>2. ChannelsGo
  BY <1>1, ChannelRequests
<1>3. Requesting
  BY <1>2 DEF ChannelsGo, Requesting
<1>4. CallsOK' /\ ChannelRows'
  BY <1>1, <1>3, RequestsGo, ChannelRowsStep
<1>5. ASSUME NEW i \in DOMAIN calls', calls'[i].op = "update", calls'[i].at # "done"
      PROVE  NamesTyped(calls'[i].arg)
  <2>1. CASE /\ i \in DOMAIN calls /\ calls[i].at # "done"
             /\ calls'[i].op = calls[i].op /\ calls'[i].arg = calls[i].arg
    BY <1>1, <1>5, <2>1 DEF SecretsTyped
  <2>2. CASE SentNow(calls'[i].op, calls'[i].arg)
    BY <1>1, <1>2, <1>5, <2>2, OnlySent DEF ChannelsGo
  <2> QED
    BY <1>1, <1>3, <1>5, <2>1, <2>2, StillOpen
<1> QED
  BY <1>4, <1>5 DEF SecretsTyped, NamesTyped

LEMMA ChannelsSaveStep ==
  ChannelsInv /\ [Next]_vars => [area = "channels" => Chans!ChannelSaveKeeps]_vars
<1> SUFFICES ASSUME ChannelsInv, Next, area = "channels",
                    NEW i \in Chans!InFlight, calls[i].op = "update",
                    calls[i].at = "sent", calls'[i].at = "ok"
             PROVE  LET a == calls[i].arg
                        old == server[a.id]
                        new == server'[a.id]
                    IN  /\ a.secret = Null => new.secret = old.secret
                        /\ (a.enabled = a.from.enabled /\ old.enabled = a.from.enabled)
                              => new.enabled = old.enabled
                        /\ new.type = old.type /\ new.state = old.state
  BY DEF Chans!ChannelSaveKeeps
<1>1. /\ CallsOK /\ ChannelRows /\ NamesTyped(calls[i].arg) /\ ChannelsGo
      /\ i \in DOMAIN calls
  BY StepOfForm, ChannelRequests DEF ChannelsInv, SecretsTyped, Chans!InFlight
<1>2. Chans!ServeUpdate(i)
  BY <1>1, TurnsOk DEF ChannelsGo
<1> DEFINE a == calls[i].arg
<1>3. \/ server' = [server EXCEPT ![a.id] = Chans!Updated(@, a)]
      \/ UNCHANGED server
  BY <1>2 DEF Chans!ServeUpdate
<1>4. NamesTyped(a)
  BY <1>1
<1> HIDE DEF a
<1> SUFFICES /\ a.secret = Null => server'[a.id].secret = server[a.id].secret
             /\ server'[a.id].enabled \in {server[a.id].enabled, a.enabled}
             /\ server'[a.id].type = server[a.id].type
             /\ server'[a.id].state = server[a.id].state
  BY DEF a
<1>5. CASE a.id \in Channels /\ server' # server
  <2>1. ChannelRow(server[a.id]) /\ server'[a.id] = Chans!Updated(server[a.id], a)
    BY <1>1, <1>3, <1>5 DEF ChannelRows
  <2> DEFINE u == Chans!Updated(server[a.id], a)
  <2>2. /\ u.state = server[a.id].state /\ u.type = server[a.id].type
        /\ u.enabled = a.enabled
        /\ "secret" \notin a.fields => u.secret = server[a.id].secret
    BY <2>1, ChannelUpdated
  <2>3. a.secret = Null => "secret" \notin a.fields
    BY <1>4 DEF NamesTyped
  <2> HIDE DEF u
  <2>4. server'[a.id] = u
    BY <2>1 DEF u
  <2> QED
    BY <2>2, <2>3, <2>4
<1>6. CASE a.id \notin Channels \/ server' = server
  <2>1. server' = server
    BY <1>1, <1>3, <1>6 DEF ChannelRows
  <2> QED
    BY <2>1
<1> QED
  BY <1>5, <1>6

\* Saving a channel leaves its secret alone unless one was typed, its switch
\* unless it was moved or the row was old, and its type and its deletion always
\* (ChannelsPage.tsx, services/channels.py update_channel).
THEOREM ChannelSaveLeavesTheRest == Spec => ChannelSaveKeeps
<1>1. ChannelsInv /\ [Next]_vars => [area = "channels" => Chans!ChannelSaveKeeps]_vars
  BY ChannelsSaveStep
<1> QED
  BY <1>1, ChannelsStart, ChannelsInvStep, PTL DEF Spec, ChannelSaveKeeps


-----------------------------------------------------------------------------
(* Users.  What the form holds untouched is what its row held, on the page *)
(* and in the saves it has sent; a save names a user there is.             *)

UserRow(r) ==
  /\ r \in [role : {r.role}, active : {r.active}, groups : {r.groups}, version : {r.version}]
  /\ r.version \in Nat

UserRows ==
  /\ server = [groups |-> server.groups, user |-> server.user]
  /\ server.user = [u \in Users |-> server.user[u]]
  /\ \A u \in Users : UserRow(server.user[u])

Untouched(f) ==
  /\ "role" \notin f.touched => f.role = f.from.role
  /\ "active" \notin f.touched => f.active = f.from.active
  /\ "groups" \notin f.touched => f.groups = f.from.groups

\* The form: its fields, and what they hold while a user is edited.
UserForm(p) ==
  /\ p \in [dialog : {p.dialog}, editing : {p.editing}, from : {p.from},
            active : {p.active}, role : {p.role}, groups : {p.groups},
            touched : {p.touched}, gestures : {p.gestures}]
  /\ p.dialog \/ p.editing = Null
  /\ p.editing = Null => p.dialog \/ p.touched = {}
  /\ p.editing # Null => p.editing \in Users /\ Untouched(p)

UserArg(a) == a.user \in Users /\ a.password \in BOOLEAN /\ Untouched(a)

LEMMA UserGesture ==
  ASSUME NEW p, UserForm(p), Usrs!Gesture(p)
  PROVE  UserForm(page)'
BY DEF Usrs!Gesture, UserForm, Untouched

LEMMA UserClosed ==
  ASSUME NEW p, UserForm(p)
  PROVE  UserForm(Usrs!Closed(p))
BY DEF Usrs!Closed, UserForm, Untouched

LEMMA UserFormStep ==
  ASSUME UserForm(page), [Usrs!Next]_(Usrs!vars)
  PROVE  UserForm(page)'
<1>1. CASE UNCHANGED page
  BY <1>1
<1>2. CASE Usrs!openCreate
  <2> DEFINE p == [page EXCEPT !.dialog = TRUE, !.active = TRUE, !.role = "user",
                               !.groups = {}]
  <2>1. Usrs!Gesture(p) /\ page.editing = Null
    BY <1>2 DEF Usrs!openCreate, UserForm
  <2>2. UserForm(p)
    BY <2>1 DEF UserForm
  <2> HIDE DEF p
  <2> QED
    BY <2>1, <2>2, UserGesture
<1>3. ASSUME NEW u \in Users, Usrs!openEdit(u) PROVE UserForm(page)'
  <2>1. Usrs!Gesture(Usrs!OpenedOn(u)) /\ ~page.dialog
    BY <1>3 DEF Usrs!openEdit
  <2>2. page.editing = Null /\ page.touched = {}
    BY <2>1 DEF UserForm
  <2>3. UserForm(Usrs!OpenedOn(u))
    BY <2>2 DEF UserForm, Usrs!OpenedOn, Untouched
  <2> QED
    BY <2>1, <2>3, UserGesture
<1>4. CASE Usrs!closeForm
  BY <1>4, UserClosed, UserGesture DEF Usrs!closeForm
<1>5. ASSUME NEW r, Usrs!Gesture([page EXCEPT !.role = r, !.touched = @ \cup {"role"}]),
             page.dialog
      PROVE  UserForm(page)'
  <2>1. UserForm([page EXCEPT !.role = r, !.touched = @ \cup {"role"}])
    BY <1>5 DEF UserForm, Untouched
  <2> QED
    BY <1>5, <2>1, UserGesture
<1>6. CASE Usrs!switchActive
  <2> DEFINE p == [page EXCEPT !.active = ~@, !.touched = @ \cup {"active"}]
  <2>1. Usrs!Gesture(p) /\ page.dialog
    BY <1>6 DEF Usrs!switchActive
  <2>2. UserForm(p)
    BY <2>1 DEF UserForm, Untouched
  <2> HIDE DEF p
  <2> QED
    BY <2>1, <2>2, UserGesture
<1>7. ASSUME NEW g, Usrs!toggleGroup(g) PROVE UserForm(page)'
  <2> DEFINE p == [page EXCEPT !.groups = Usrs!toggleArrayValue(@, g),
                               !.touched = @ \cup {"groups"}]
  <2>1. Usrs!Gesture(p) /\ page.dialog
    BY <1>7 DEF Usrs!toggleGroup
  <2>2. UserForm(p)
    BY <2>1 DEF UserForm, Untouched
  <2> HIDE DEF p
  <2> QED
    BY <2>1, <2>2, UserGesture
<1>8. ASSUME NEW w, Usrs!handleSubmit(w) PROVE UserForm(page)'
  BY <1>8, UserGesture DEF Usrs!handleSubmit
<1>9. CASE Usrs!leave
  <2>1. UserForm(Usrs!Blank)
    BY DEF UserForm, Usrs!Blank
  <2> QED
    BY <1>9, <2>1, UserGesture DEF Usrs!leave
<1>10. ASSUME NEW i, Usrs!settle(i) PROVE UserForm(page)'
  BY <1>10, UserClosed DEF Usrs!settle
<1> QED
  BY <1>1, <1>2, <1>3, <1>4, <1>5, <1>6, <1>7, <1>8, <1>9, <1>10
     DEF Usrs!Next, Usrs!vars, Usrs!Elsewhere, Usrs!FetchUsers, Usrs!FetchGroups,
         Usrs!setRole, Usrs!ServeCreate, Usrs!ReadUser, Usrs!WriteUser, Usrs!lose

\* The row of one user is replaced.
LEMMA UserReplaced ==
  ASSUME UserRows, NEW u, NEW r, UserRow(r),
         server' = [server EXCEPT !.user[u] = r]
  PROVE  /\ UserRows'
         /\ u \in Users => server'.user[u] = r
<1>1. server'.user = [server.user EXCEPT ![u] = r] /\ server'.groups = server.groups
      /\ server' = [groups |-> server'.groups, user |-> server'.user]
  BY DEF UserRows
<1> QED
  BY <1>1 DEF UserRows

LEMMA UserRowsStep ==
  ASSUME UserRows, [Usrs!Next]_(Usrs!vars),
         \A i \in DOMAIN calls :
           calls[i].op = "update" /\ calls[i].at = "read"
             => calls[i].arg.user \in Users /\ calls[i].out.version \in Nat
  PROVE  UserRows'
<1>1. CASE UNCHANGED server
  BY <1>1 DEF UserRows
<1>2. ASSUME NEW i \in Usrs!InFlight, NEW u \in Users, Usrs!ServeCreate(i, u)
      PROVE  UserRows'
  <2> DEFINE r == [role |-> calls[i].arg.role, active |-> TRUE,
                   groups |-> calls[i].arg.groups, version |-> 1]
  <2>1. UNCHANGED server \/ server' = [server EXCEPT !.user[u] = r]
    BY <1>2 DEF Usrs!ServeCreate
  <2>2. UserRow(r)
    BY DEF UserRow
  <2> HIDE DEF r
  <2> QED
    BY <1>1, <2>1, <2>2, UserReplaced
<1>3. ASSUME NEW i \in Usrs!InFlight, Usrs!WriteUser(i) PROVE UserRows'
  <2> DEFINE a == calls[i].arg
             now == server.user[a.user]
             read == calls[i].out
             r == [role |-> Usrs!Written(now.role, read.role, a.role),
                   active |-> Usrs!Written(now.active, read.active, a.active),
                   groups |-> Usrs!Synced(now.groups, read.groups, a.groups),
                   version |-> IF a.password THEN read.version + 1 ELSE now.version]
  <2>1. UNCHANGED server \/ server' = [server EXCEPT !.user[a.user] = r]
    BY <1>3 DEF Usrs!WriteUser
  <2>2. a.user \in Users /\ read.version \in Nat
    BY <1>3 DEF Usrs!WriteUser, Usrs!InFlight
  <2>3. now.version \in Nat
    BY <2>2 DEF UserRows, UserRow
  <2>4. UserRow(r)
    BY <2>2, <2>3 DEF UserRow
  <2> HIDE DEF r
  <2> QED
    BY <1>1, <2>1, <2>4, UserReplaced
<1>4. CASE Usrs!Elsewhere
  <2>1. ASSUME NEW u \in Users, NEW x,
               \/ server' = [server EXCEPT !.user[u].groups = x]
               \/ server' = [server EXCEPT !.user[u].active = x]
        PROVE  UserRows'
    <3>1. UserRow([server.user[u] EXCEPT !.groups = x])
      BY DEF UserRows, UserRow
    <3>2. UserRow([server.user[u] EXCEPT !.active = x])
      BY DEF UserRows, UserRow
    <3>3. \/ server' = [server EXCEPT !.user[u] = [server.user[u] EXCEPT !.groups = x]]
          \/ server' = [server EXCEPT !.user[u] = [server.user[u] EXCEPT !.active = x]]
      BY <2>1
    <3> QED
      BY <3>1, <3>2, <3>3, UserReplaced
  <2>2. ASSUME NEW g,
               server' = [groups |-> server.groups \ {g},
                          user |-> [u \in Users |->
                             [server.user[u] EXCEPT !.groups = @ \ {g}]]]
        PROVE  UserRows'
    <3>1. \A u \in Users : UserRow([server.user[u] EXCEPT !.groups = @ \ {g}])
      BY DEF UserRows, UserRow
    <3> QED
      BY <2>2, <3>1 DEF UserRows
  <2> QED
    BY <1>4, <2>1, <2>2 DEF Usrs!Elsewhere
<1> QED
  BY <1>1, <1>2, <1>3, <1>4
     DEF Usrs!Next, Usrs!vars, Usrs!FetchUsers, Usrs!FetchGroups, Usrs!openCreate,
         Usrs!closeForm, Usrs!setRole, Usrs!switchActive, Usrs!leave, Usrs!openEdit,
         Usrs!toggleGroup, Usrs!handleSubmit, Usrs!ReadUser, Usrs!settle, Usrs!lose


\* A save that is sent is of a user there is; one that has read the row read it
\* whole; one that succeeds was written in this very step.
UsersGo ==
  \/ UNCHANGED calls \/ LeftNow
  \/ \E op, arg : SentNow(op, arg) /\ (op = "update" => UserArg(arg))
  \/ \E i \in DOMAIN calls :
       \/ SettledNow(i)
       \/ \E at, out :
            /\ AnsweredNow(i, at, out) /\ calls[i].at # "done"
            /\ calls[i].op = "update" /\ at = "read" => out.version \in Nat
            /\ \/ at # "ok" \/ calls[i].op # "update" \/ Usrs!WriteUser(i)

UserArgs ==
  \A i \in DOMAIN calls :
    calls[i].op = "update" /\ calls[i].at # "done" => UserArg(calls[i].arg)

UserReads ==
  \A i \in DOMAIN calls :
    calls[i].op = "update" /\ calls[i].at = "read" => calls[i].out.version \in Nat

LEMMA UserRequests ==
  ASSUME UserForm(page), UserRows, UserArgs, [Usrs!Next]_(Usrs!vars)
  PROVE  UsersGo
<1>1. CASE UNCHANGED calls
  BY <1>1 DEF UsersGo
<1>2. CASE Usrs!leave
  BY <1>2 DEF UsersGo, LeftNow, Usrs!leave, Usrs!Abandon
<1>3. ASSUME NEW password \in BOOLEAN, Usrs!handleSubmit(password) PROVE UsersGo
  <2> DEFINE arg == [user |-> page.editing, role |-> page.role, active |-> page.active,
                     groups |-> page.groups, password |-> password,
                     from |-> page.from, touched |-> page.touched]
             op == IF page.editing = Null THEN "create" ELSE "update"
  <2>1. Usrs!Send(op, arg)
    BY <1>3 DEF Usrs!handleSubmit
  <2>2. op = "update" => UserArg(arg)
    BY DEF UserForm, UserArg, Untouched
  <2> HIDE DEF arg, op
  <2> QED
    BY <2>1, <2>2 DEF UsersGo, SentNow, Usrs!Send, Usrs!Request
<1>4. ASSUME NEW i \in Usrs!InFlight,
             \/ \E u \in Users : Usrs!ServeCreate(i, u)
             \/ Usrs!ReadUser(i) \/ Usrs!WriteUser(i)
             \/ Usrs!settle(i) \/ Usrs!lose(i)
      PROVE  UsersGo
  <2>0. i \in DOMAIN calls /\ calls[i].at # "done"
    BY DEF Usrs!InFlight
  <2>1. ASSUME NEW at, NEW out, Usrs!Answer(i, at, out),
               calls[i].op = "update" /\ at = "read" => out.version \in Nat,
               at # "ok" \/ calls[i].op # "update" \/ Usrs!WriteUser(i)
        PROVE  UsersGo
    BY <2>0, <2>1 DEF UsersGo, AnsweredNow, Usrs!Answer
  <2>2. ASSUME NEW u, Usrs!ServeCreate(i, u) PROVE UsersGo
    BY <2>1, <2>2 DEF Usrs!ServeCreate
  <2>3. CASE Usrs!ReadUser(i)
    <3>1. calls[i].arg.user \in Users
      BY <2>0, <2>3 DEF Usrs!ReadUser, UserArgs, UserArg
    <3>2. server.user[calls[i].arg.user].version \in Nat
      BY <3>1 DEF UserRows, UserRow
    <3> QED
      BY <2>1, <2>3, <3>2 DEF Usrs!ReadUser
  <2>4. CASE Usrs!WriteUser(i)
    BY <2>1, <2>4 DEF Usrs!WriteUser
  <2>5. CASE Usrs!settle(i)
    BY <2>0, <2>5 DEF UsersGo, SettledNow, Usrs!settle, Usrs!Settled
  <2>6. CASE Usrs!lose(i)
    BY <2>1, <2>6 DEF Usrs!lose, Usrs!Lose
  <2> QED
    BY <1>4, <2>2, <2>3, <2>4, <2>5, <2>6
<1> QED
  BY <1>1, <1>2, <1>3, <1>4
     DEF Usrs!Next, Usrs!vars, Usrs!Elsewhere, Usrs!FetchUsers, Usrs!FetchGroups,
         Usrs!openCreate, Usrs!closeForm, Usrs!setRole, Usrs!switchActive, Usrs!openEdit,
         Usrs!toggleGroup

UsersInv ==
  area = "users" => CallsOK /\ UserForm(page) /\ UserRows /\ UserArgs /\ UserReads

\* The invariant holds at the start ...
LEMMA UsersStart == Init => UsersInv
<1> SUFFICES ASSUME Init, area = "users"
             PROVE  CallsOK /\ UserForm(page) /\ UserRows /\ UserArgs /\ UserReads
  BY DEF UsersInv
<1>1. Usrs!Init
  BY DEF Init
<1>2. CallsOK /\ UserArgs /\ UserReads
  BY <1>1, NoCalls DEF Usrs!Init, UserArgs, UserReads
<1>3. UserForm(page)
  BY <1>1 DEF Usrs!Init, Usrs!Blank, UserForm
<1> DEFINE old == CHOOSE u \in Users : TRUE
           row == [role |-> "user", active |-> TRUE,
                   groups |-> {CHOOSE g \in Groups : TRUE}, version |-> 1]
<1>4. server = [groups |-> Groups,
                user |-> [u \in Users |-> IF u = old THEN row ELSE Usrs!Absent]]
  BY <1>1 DEF Usrs!Init
<1>5. UserRow(row) /\ UserRow(Usrs!Absent)
  BY DEF UserRow, Usrs!Absent
<1> HIDE DEF old, row
<1> QED
  BY <1>2, <1>3, <1>4, <1>5 DEF UserRows

\* ... and every step keeps it: first what it says of the requests.
LEMMA UserRequestsStep ==
  ASSUME CallsOK, UserArgs, UserReads, UsersGo
  PROVE  CallsOK' /\ UserArgs' /\ UserReads'
<1>1. Requesting
  BY DEF UsersGo, Requesting
<1>2. CallsOK'
  BY <1>1, RequestsGo
<1>3. ASSUME NEW i \in DOMAIN calls', calls'[i].op = "update", calls'[i].at # "done"
      PROVE  UserArg(calls'[i].arg)
  <2>1. CASE /\ i \in DOMAIN calls /\ calls[i].at # "done"
             /\ calls'[i].op = calls[i].op /\ calls'[i].arg = calls[i].arg
    BY <1>3, <2>1 DEF UserArgs
  <2>2. CASE SentNow(calls'[i].op, calls'[i].arg)
    BY <1>3, <2>2, OnlySent DEF UsersGo
  <2> QED
    BY <1>1, <1>3, <2>1, <2>2, StillOpen
<1>4. ASSUME NEW i \in DOMAIN calls', calls'[i].op = "update", calls'[i].at = "read"
      PROVE  calls'[i].out.version \in Nat
  <2>1. CASE i \in DOMAIN calls /\ Stands(i)
    BY <1>4, <2>1 DEF UserReads, Stands
  <2>2. CASE UNCHANGED calls \/ LeftNow
    BY <1>4, <2>1, <2>2, StandsStill, StandsLeft
  <2>3. ASSUME NEW op, NEW arg, SentNow(op, arg) PROVE i \in DOMAIN calls /\ Stands(i)
    BY <1>4, <2>3, StandsSent DEF Fields
  <2>4. ASSUME NEW j \in DOMAIN calls, SettledNow(j) PROVE i \in DOMAIN calls /\ Stands(i)
    BY <1>4, <2>4, StandsSettled DEF Fields
  <2>5. ASSUME NEW j \in DOMAIN calls, NEW at, NEW out, AnsweredNow(j, at, out),
               calls[j].op = "update" /\ at = "read" => out.version \in Nat
        PROVE  calls'[i].out.version \in Nat
    <3>1. /\ DOMAIN calls' = DOMAIN calls
          /\ \A k \in DOMAIN calls \ {j} : Stands(k)
          /\ Fields(calls'[j], calls[j].op, calls[j].arg, at, calls[j].here, out)
      BY <2>5, StandsAnswered
    <3> QED
      BY <1>4, <2>1, <2>5, <3>1 DEF Fields
  <2> QED
    BY <2>1, <2>2, <2>3, <2>4, <2>5 DEF UsersGo
<1> QED
  BY <1>2, <1>3, <1>4 DEF UserArgs, UserReads, UserArg, Untouched

LEMMA UsersInvStep == UsersInv /\ [Next]_vars => UsersInv'
<1> SUFFICES ASSUME UsersInv, [Next]_vars, area' = "users"
             PROVE  (CallsOK /\ UserForm(page) /\ UserRows /\ UserArgs /\ UserReads)'
  BY DEF UsersInv
<1>1. /\ area = "users" /\ CallsOK /\ UserForm(page) /\ UserRows /\ UserArgs /\ UserReads
      /\ [Usrs!Next]_(Usrs!vars)
  BY OneArea, StepOfForm DEF UsersInv
<1>2. UsersGo
  BY <1>1, UserRequests
<1>3. UserForm(page)'
  BY <1>1, UserFormStep
<1>4. \A i \in DOMAIN calls :
        calls[i].op = "update" /\ calls[i].at = "read"
          => calls[i].arg.user \in Users /\ calls[i].out.version \in Nat
  BY <1>1 DEF UserArgs, UserReads, UserArg
<1>5. UserRows'
  BY <1>1, <1>4, UserRowsStep
<1> QED
  BY <1>1, <1>2, <1>3, <1>5, UserRequestsStep

\* What a save that succeeds makes of its row.
LEMMA UserSaved ==
  ASSUME UsersInv, Next, area = "users", NEW i \in Usrs!InFlight, Usrs!Saved(i)
  PROVE  LET a == calls[i].arg
             old == server.user[a.user]
             new == server'.user[a.user]
             read == calls[i].out
         IN  /\ UserArg(a) /\ old.version \in Nat
             /\ new.role = Usrs!Written(old.role, read.role, a.role)
             /\ new.active = Usrs!Written(old.active, read.active, a.active)
             /\ new.groups = Usrs!Synced(old.groups, read.groups, a.groups)
             /\ new.version = IF a.password THEN read.version + 1 ELSE old.version
<1>1. /\ CallsOK /\ UserForm(page) /\ UserRows /\ UserArgs /\ i \in DOMAIN calls
      /\ calls[i].op = "update" /\ calls[i].at = "read" /\ calls'[i].at = "ok"
  BY DEF UsersInv, Usrs!InFlight, Usrs!Saved
<1>2. UsersGo
  BY <1>1, StepOfForm, UserRequests
<1>3. Usrs!WriteUser(i)
  BY <1>1, <1>2, TurnsOk DEF UsersGo
<1> DEFINE a == calls[i].arg
           old == server.user[a.user]
           read == calls[i].out
           r == [role |-> Usrs!Written(old.role, read.role, a.role),
                 active |-> Usrs!Written(old.active, read.active, a.active),
                 groups |-> Usrs!Synced(old.groups, read.groups, a.groups),
                 version |-> IF a.password THEN read.version + 1 ELSE old.version]
<1>4. ~Usrs!Answer(i, "error", Null)
  <2>1. ~AnsweredNow(i, "error", Null)
    BY <1>1, TurnsOk
  <2> QED
    BY <2>1 DEF AnsweredNow, Usrs!Answer
<1>5. server' = [server EXCEPT !.user[a.user] = r]
  BY <1>3, <1>4 DEF Usrs!WriteUser
<1>6. UserArg(a)
  BY <1>1 DEF UserArgs
<1>7. a.user \in Users /\ old.version \in Nat
  BY <1>1, <1>6 DEF UserArg, UserRows, UserRow
<1>8. server'.user[a.user] = r
  BY <1>1, <1>5, <1>7 DEF UserRows
<1> QED
  BY <1>6, <1>7, <1>8

\* The steps of saving that the two properties of this page are about.
LEMMA UsersSaveStep ==
  UsersInv /\ [Next]_vars =>
    /\ [area = "users" => Usrs!MembershipsAsSent]_vars
    /\ [area = "users" => Usrs!UserSaveKeeps]_vars
<1> SUFFICES ASSUME UsersInv, Next, area = "users", NEW i \in Usrs!InFlight, Usrs!Saved(i)
             PROVE  LET a == calls[i].arg
                        old == server.user[a.user]
                        new == server'.user[a.user]
                        moved == Usrs!SymDiff(old.groups, calls[i].out.groups)
                    IN  /\ Usrs!SymDiff(new.groups, a.groups) \subseteq moved
                        /\ ("role" \notin a.touched /\ old.role = a.from.role)
                             => new.role = old.role
                        /\ ("active" \notin a.touched /\ old.active = a.from.active)
                             => new.active = old.active
                        /\ ("groups" \notin a.touched /\ old.groups = a.from.groups
                            /\ calls[i].out.groups = old.groups)
                             => new.groups = old.groups
                        /\ (calls[i].out.version = old.version) =>
                             ((new.version = old.version) = ~a.password)
  BY DEF Usrs!MembershipsAsSent, Usrs!UserSaveKeeps
<1> DEFINE a == calls[i].arg
           old == server.user[a.user]
           new == server'.user[a.user]
           read == calls[i].out
<1>1. /\ UserArg(a) /\ old.version \in Nat
      /\ new.role = Usrs!Written(old.role, read.role, a.role)
      /\ new.active = Usrs!Written(old.active, read.active, a.active)
      /\ new.groups = Usrs!Synced(old.groups, read.groups, a.groups)
      /\ new.version = IF a.password THEN read.version + 1 ELSE old.version
  BY UserSaved
<1> HIDE DEF a, old, new, read
<1>2. Usrs!SymDiff(new.groups, a.groups) \subseteq Usrs!SymDiff(old.groups, read.groups)
  BY <1>1 DEF Usrs!Synced, Usrs!SymDiff
<1>3. /\ ("role" \notin a.touched /\ old.role = a.from.role) => new.role = old.role
      /\ ("active" \notin a.touched /\ old.active = a.from.active)
           => new.active = old.active
  BY <1>1 DEF UserArg, Untouched, Usrs!Written
<1>4. ("groups" \notin a.touched /\ old.groups = a.from.groups
         /\ read.groups = old.groups) => new.groups = old.groups
  BY <1>1 DEF UserArg, Untouched, Usrs!Synced
<1>5. read.version = old.version => ((new.version = old.version) = ~a.password)
  BY <1>1 DEF UserArg
<1> QED
  BY <1>2, <1>3, <1>4, <1>5 DEF a, old, new, read

\* A saved form leaves a user in the groups it lists, but for memberships that came
\* or went while the request was served (services/users.py _sync_user_groups).
THEOREM SavedInTheGroupsListed == Spec => MembershipsAsSent
<1>1. UsersInv /\ [Next]_vars => [area = "users" => Usrs!MembershipsAsSent]_vars
  BY UsersSaveStep
<1> QED
  BY <1>1, UsersStart, UsersInvStep, PTL DEF Spec, MembershipsAsSent

\* A save changes a role, a switch or memberships nobody touched only where the row
\* had changed since it was read, and ends the user's sessions exactly if a password
\* was typed (UsersPage.tsx, services/users.py update_user).
THEOREM UserSaveLeavesTheRest == Spec => UserSaveKeeps
<1>1. UsersInv /\ [Next]_vars => [area = "users" => Usrs!UserSaveKeeps]_vars
  BY UsersSaveStep
<1> QED
  BY <1>1, UsersStart, UsersInvStep, PTL DEF Spec, UserSaveKeeps


-----------------------------------------------------------------------------
(* Push keys.  A form is sent with what its row held wherever it was not   *)
(* touched; the ticked channels are those of the row in some order.        *)

\* The channels of a row, ticked in some order, are its channels.
LEMMA TickedInAnyOrder ==
  ASSUME NEW S, IsFiniteSet(S), NEW order \in Keys!SetToSeqs(S)
  PROVE  Keys!ToSet(order) = S
<1> DEFINE n == Cardinality(S)
<1>1. Keys!Cardinality(S) = n
  BY DEF Keys!Cardinality, Cardinality
<1>2. n \in Nat
  BY FS_CardinalityType
<1>3. order \in Injection(1..n, S)
  BY <1>1 DEF Keys!SetToSeqs, Injection, IsInjective
<1>4. IsFiniteSet(1..n) /\ Cardinality(1..n) = n
  BY <1>2, FS_Interval
<1>5. order \in Surjection(1..n, S)
  BY <1>3, <1>4, FS_Injection
<1> QED
  BY <1>5 DEF Surjection, Keys!ToSet

KeyRow(r) ==
  /\ r \in [active : {r.active}, channels : SUBSET Channels, default : {r.default},
            secret : Nat]
  /\ r.secret > 0 => r.default \in r.channels

KeyRows(rows) ==
  /\ rows = [k \in PushKeys |-> rows[k]]
  /\ \A k \in PushKeys : KeyRow(rows[k])

KeyServer ==
  /\ server = [key |-> server.key, used |-> server.used, listed |-> server.listed,
               disabled |-> server.disabled, elsewhere |-> server.elsewhere]
  /\ KeyRows(server.key)
  /\ server.listed \subseteq Channels

KeyCache ==
  /\ cache = [keys |-> cache.keys, channels |-> cache.channels]
  /\ KeyRows(cache.keys)

\* The form: its fields, and what they hold while a key is edited.
KeyPage(p) ==
  p \in [dialog : {p.dialog}, editing : {p.editing}, from : {p.from},
         touched : {p.touched}, selected : {p.selected}, default : {p.default},
         active : {p.active}, rotate : {p.rotate}, delete : {p.delete},
         secret : {p.secret}, raced : {p.raced}, gestures : {p.gestures}]

KeyForm(p) ==
  p.editing # Null =>
    /\ "active" \notin p.touched => p.active = p.from.active
    /\ "channels" \notin p.touched =>
         /\ Keys!ToSet(p.selected) = p.from.channels
         /\ p.default = p.from.default /\ p.from.default \in p.from.channels

KeyOps == {"create", "update", "rotate", "delete"}

\* What a save carries.
KeyArg(op, a) ==
  /\ a.default # a.shown => a.chosen \notin a.channels
  /\ op = "update" =>
       /\ "active" \notin a.touched => a.active = a.from.active
       /\ "channels" \notin a.touched /\ a.hidden = {} =>
            a.channels = a.from.channels /\ a.default = a.from.default

LEMMA KeyGesture ==
  ASSUME NEW p, KeyPage(p), KeyForm(p), Keys!Gesture(p)
  PROVE  KeyPage(page)' /\ KeyForm(page)'
BY DEF Keys!Gesture, KeyPage, KeyForm

\* Any change of other fields leaves the form as it is.
LEMMA KeyBeside ==
  ASSUME NEW p, KeyPage(p), NEW x, NEW y
  PROVE  LET Fine(q) == KeyPage(q) /\ (KeyForm(p) => KeyForm(q))
         IN  /\ Fine([p EXCEPT !.rotate = x]) /\ Fine([p EXCEPT !.delete = x])
             /\ Fine([p EXCEPT !.rotate = x, !.delete = y])
             /\ Fine([p EXCEPT !.secret = x]) /\ Fine([p EXCEPT !.raced = x])
             /\ Fine([p EXCEPT !.rotate = x, !.secret = y])
             /\ KeyPage(Keys!Closed(p)) /\ KeyForm(Keys!Closed(p))
BY DEF KeyPage, KeyForm, Keys!Closed

LEMMA KeyFormStep ==
  ASSUME KeyPage(page), KeyForm(page), KeyCache, [Keys!Next]_(Keys!vars),
         \A i \in DOMAIN calls : calls[i].op \in KeyOps
  PROVE  KeyPage(page)' /\ KeyForm(page)'
<1>1. CASE UNCHANGED page
  BY <1>1
<1>2. CASE Keys!openCreate
  <2> DEFINE p == [page EXCEPT !.dialog = TRUE, !.editing = Null, !.from = Keys!Absent,
                            !.selected = <<>>, !.default = Null, !.active = TRUE,
                            !.secret = Null, !.touched = {}]
  <2>1. Keys!Gesture(p)
    BY <1>2 DEF Keys!openCreate
  <2>2. KeyPage(p) /\ p.editing = Null
    BY DEF KeyPage
  <2> HIDE DEF p
  <2> QED
    BY <2>1, <2>2, KeyGesture DEF KeyForm
<1>3. ASSUME NEW k \in PushKeys, Keys!openEdit(k) PROVE KeyPage(page)' /\ KeyForm(page)'
  <2>1. PICK order \in Keys!SetToSeqs(cache.keys[k].channels) :
               Keys!Gesture(Keys!OpenedOn(k, order))
    BY <1>3 DEF Keys!openEdit
  <2>2. KeyRow(cache.keys[k]) /\ cache.keys[k].secret > 0
    BY <1>3 DEF Keys!openEdit, Keys!Listed, KeyCache, KeyRows
  <2>3. IsFiniteSet(cache.keys[k].channels)
    BY <2>2, FS_Subset, ConsoleAssumption DEF KeyRow
  <2>4. Keys!ToSet(order) = cache.keys[k].channels
    BY <2>3, TickedInAnyOrder
  <2> DEFINE p == Keys!OpenedOn(k, order)
  <2>5. /\ KeyPage(p) /\ p.from = cache.keys[k] /\ p.active = cache.keys[k].active
        /\ p.selected = order /\ p.default = cache.keys[k].default
    BY DEF KeyPage, Keys!OpenedOn
  <2> HIDE DEF p
  <2>6. KeyForm(p)
    BY <2>2, <2>4, <2>5 DEF KeyForm, KeyRow
  <2> QED
    BY <2>1, <2>5, <2>6, KeyGesture DEF p
<1>4. ASSUME NEW c \in Channels, Keys!toggleChannel(c)
      PROVE  KeyPage(page)' /\ KeyForm(page)'
  <2> DEFINE x == IF c \in Keys!ToSet(page.selected) THEN Keys!Remove(page.selected, c)
                  ELSE Append(page.selected, c)
             p == [page EXCEPT !.touched = @ \cup {"channels"}, !.selected = x]
  <2>1. Keys!Gesture(p)
    BY <1>4 DEF Keys!toggleChannel
  <2> HIDE DEF x
  <2>2. KeyPage(p) /\ KeyForm(p)
    BY DEF KeyPage, KeyForm
  <2> HIDE DEF p
  <2> QED
    BY <2>1, <2>2, KeyGesture
<1>5. ASSUME NEW c \in Channels, Keys!pickDefault(c)
      PROVE  KeyPage(page)' /\ KeyForm(page)'
  <2> DEFINE p == [page EXCEPT !.default = c, !.touched = @ \cup {"channels"}]
  <2>1. Keys!Gesture(p)
    BY <1>5 DEF Keys!pickDefault
  <2>2. KeyPage(p) /\ KeyForm(p)
    BY DEF KeyPage, KeyForm
  <2> HIDE DEF p
  <2> QED
    BY <2>1, <2>2, KeyGesture
<1>6. CASE Keys!switchActive
  <2> DEFINE p == [page EXCEPT !.active = ~@, !.touched = @ \cup {"active"}]
  <2>1. Keys!Gesture(p)
    BY <1>6 DEF Keys!switchActive
  <2>2. KeyPage(p) /\ KeyForm(p)
    BY DEF KeyPage, KeyForm
  <2> HIDE DEF p
  <2> QED
    BY <2>1, <2>2, KeyGesture
<1>7. CASE Keys!closeForm
  BY <1>7, KeyBeside, KeyGesture DEF Keys!closeForm
<1>8. CASE Keys!handleSubmit \/ Keys!confirmDelete
  BY <1>8, KeyGesture DEF Keys!handleSubmit, Keys!confirmDelete
<1>9. ASSUME NEW k, Keys!askRotate(k) \/ Keys!askDelete(k)
      PROVE  KeyPage(page)' /\ KeyForm(page)'
  BY <1>9, KeyBeside, KeyGesture DEF Keys!askRotate, Keys!askDelete
<1>10. CASE Keys!cancelConfirm \/ Keys!closeSecret
  BY <1>10, KeyBeside, KeyGesture DEF Keys!cancelConfirm, Keys!closeSecret
<1>11. CASE Keys!confirmRotate
  <2>1. \E x : Keys!Gesture([page EXCEPT !.raced = x])
    BY <1>11 DEF Keys!confirmRotate
  <2> QED
    BY <2>1, KeyBeside, KeyGesture
<1>12. CASE Keys!leave
  <2>1. Keys!Gesture([Keys!Blank EXCEPT !.raced = page.raced])
    BY <1>12 DEF Keys!leave
  <2>2. KeyPage(Keys!Blank) /\ KeyForm(Keys!Blank)
    BY DEF KeyPage, KeyForm, Keys!Blank
  <2> QED
    BY <2>1, <2>2, KeyBeside, KeyGesture
<1>14. ASSUME NEW k, Keys!RotatedElsewhere(k)
       PROVE  KeyPage(page)' /\ KeyForm(page)'
  <2>1. PICK x : page' = [page EXCEPT !.raced = x]
    BY <1>14 DEF Keys!RotatedElsewhere
  <2> QED
    BY <2>1 DEF KeyPage, KeyForm
<1>13. ASSUME NEW i \in Keys!InFlight, Keys!settle(i)
       PROVE  KeyPage(page)' /\ KeyForm(page)'
  <2>1. \/ page' = page \/ page' = Keys!OnSuccess(i)
    BY <1>13 DEF Keys!settle
  <2> QED
    <3>1. i \in DOMAIN calls /\ calls[i].op \in KeyOps
      BY DEF Keys!InFlight
    <3>2. CASE page' = page
      BY <3>2
    <3>3. CASE calls[i].op = "create" /\ page' = Keys!OnSuccess(i)
      BY <3>3, KeyBeside DEF Keys!OnSuccess
    <3>4. CASE calls[i].op = "update" /\ page' = Keys!OnSuccess(i)
      BY <3>4, KeyBeside DEF Keys!OnSuccess
    <3>5. CASE calls[i].op = "rotate" /\ page' = Keys!OnSuccess(i)
      BY <3>5, KeyBeside DEF Keys!OnSuccess
    <3>6. CASE calls[i].op = "delete" /\ page' = Keys!OnSuccess(i)
      BY <3>6, KeyBeside DEF Keys!OnSuccess
    <3> QED
      BY <2>1, <3>1, <3>2, <3>3, <3>4, <3>5, <3>6 DEF KeyOps
<1> QED
  BY <1>1, <1>2, <1>3, <1>4, <1>5, <1>6, <1>7, <1>8, <1>9, <1>10, <1>11, <1>12, <1>13,
     <1>14
     DEF Keys!Next, Keys!vars, Keys!Elsewhere, Keys!FetchKeys, Keys!FetchChannels,
         Keys!ServeCreate, Keys!ServeUpdate, Keys!ServeRotate, Keys!ServeDelete, Keys!lose


\* One row is replaced.
LEMMA KeyReplaced ==
  ASSUME NEW rows, NEW new, KeyRows(rows), NEW k, NEW r, k \in PushKeys => KeyRow(r),
         new = [rows EXCEPT ![k] = r]
  PROVE  KeyRows(new)
BY DEF KeyRows

\* What may be bound is there.
LEMMA BoundChannels ==
  ASSUME KeyServer, NEW a, Keys!ValidBinding(a) \/ a \in Keys!Bindings
  PROVE  \A active, secret : secret \in Nat => KeyRow(Keys!Stored(a, active, secret))
<1>1. a.channels \subseteq Channels /\ a.default \in a.channels
  BY DEF KeyServer, Keys!ValidBinding, Keys!Bindings
<1> QED
  BY <1>1 DEF KeyRow, Keys!Stored

\* What other sessions make of a key is a row, with its secret or none.
LEMMA ChangedRow ==
  ASSUME KeyServer, NEW k \in PushKeys, NEW r \in Keys!ChangedRows(k)
  PROVE  KeyRow(r) /\ r.secret \in {0, server.key[k].secret}
<1> DEFINE old == server.key[k]
<1>1. KeyRow(old)
  BY DEF KeyServer, KeyRows
<1>2. CASE r = Keys!Absent
  BY <1>2 DEF Keys!Absent, KeyRow
<1>3. CASE r = [old EXCEPT !.active = ~@]
  BY <1>1, <1>3 DEF KeyRow
<1>4. ASSUME NEW a \in Keys!Bindings, r = Keys!Stored(a, old.active, old.secret)
      PROVE  KeyRow(r) /\ r.secret \in {0, old.secret}
  <2>1. old.secret \in Nat
    BY <1>1 DEF KeyRow
  <2>2. r.secret = old.secret
    BY <1>4 DEF Keys!Stored
  <2> QED
    BY <1>4, <2>1, <2>2, BoundChannels
<1> QED
  BY <1>2, <1>3, <1>4 DEF Keys!ChangedRows

LEMMA KeyServerStep ==
  ASSUME KeyServer, [Keys!Next]_(Keys!vars)
  PROVE  KeyServer'
<1>1. CASE UNCHANGED server
  BY <1>1 DEF KeyServer
<1>2. ASSUME NEW k, NEW r, k \in PushKeys => KeyRow(r),
             \/ server' = [server EXCEPT !.key[k] = r]
             \/ \E x : server' = [server EXCEPT !.key[k] = r, !.used = x]
             \/ \E x : server' = [server EXCEPT !.key[k] = r, !.elsewhere = x]
             \/ \E x, y : server' = [server EXCEPT !.key[k] = r, !.used = x,
                                                   !.elsewhere = y]
      PROVE  KeyServer'
  <2>1. KeyRows([server.key EXCEPT ![k] = r])
    BY <1>2, KeyReplaced DEF KeyServer
  <2>2. /\ server' = [key |-> server'.key, used |-> server'.used,
                      listed |-> server'.listed, disabled |-> server'.disabled,
                      elsewhere |-> server'.elsewhere]
        /\ server'.key = [server.key EXCEPT ![k] = r] /\ server'.listed = server.listed
    BY <1>2 DEF KeyServer
  <2> QED
    BY <2>1, <2>2 DEF KeyServer
<1>3. ASSUME NEW i, NEW k \in PushKeys, Keys!ServeCreate(i, k) PROVE KeyServer'
  <2> DEFINE a == calls[i].arg
             r == Keys!Stored(a, TRUE, 1)
  <2>1. \/ UNCHANGED server
        \/ Keys!ValidBinding(a) /\ \E x : server' = [server EXCEPT !.key[k] = r, !.used = x]
    BY <1>3 DEF Keys!ServeCreate
  <2>2. Keys!ValidBinding(a) => KeyRow(r)
    BY BoundChannels
  <2> HIDE DEF a, r
  <2> QED
    BY <1>1, <1>2, <2>1, <2>2
<1>4. ASSUME NEW i, Keys!ServeUpdate(i) PROVE KeyServer'
  <2> DEFINE a == calls[i].arg
             r == Keys!Stored(a, a.active, server.key[a.key].secret)
  <2>1. \/ UNCHANGED server
        \/ Keys!ValidBinding(a) /\ server' = [server EXCEPT !.key[a.key] = r]
    BY <1>4 DEF Keys!ServeUpdate
  <2>2. a.key \in PushKeys => server.key[a.key].secret \in Nat
    BY DEF KeyServer, KeyRows, KeyRow
  <2>3. a.key \in PushKeys /\ Keys!ValidBinding(a) => KeyRow(r)
    BY <2>2, BoundChannels
  <2> HIDE DEF a, r
  <2> QED
    BY <1>1, <1>2, <2>1, <2>3
<1>5. ASSUME NEW i, Keys!ServeRotate(i) PROVE KeyServer'
  <2> DEFINE k == calls[i].arg
             r == [server.key[k] EXCEPT !.secret = @ + 1]
  <2>1. \/ UNCHANGED server
        \/ Keys!Live(k) /\ server' = [server EXCEPT !.key[k] = r]
    BY <1>5 DEF Keys!ServeRotate
  <2>2. k \in PushKeys /\ Keys!Live(k) => KeyRow(r)
    BY DEF KeyServer, KeyRows, KeyRow, Keys!Live
  <2> HIDE DEF k, r
  <2> QED
    BY <1>1, <1>2, <2>1, <2>2
<1>6. ASSUME NEW i, Keys!ServeDelete(i) PROVE KeyServer'
  <2>1. KeyRow(Keys!Absent)
    BY DEF KeyRow, Keys!Absent
  <2> QED
    BY <1>1, <1>2, <1>6, <2>1 DEF Keys!ServeDelete
<1>7. CASE Keys!Elsewhere
  <2>1. ASSUME NEW k \in PushKeys, NEW r \in Keys!ChangedRows(k), NEW x,
               server' = [server EXCEPT !.key[k] = r, !.elsewhere = x]
        PROVE  KeyServer'
    BY <1>2, <2>1, ChangedRow
  <2>3. ASSUME NEW k \in PushKeys, NEW a \in Keys!Bindings, NEW x, NEW y,
               server' = [server EXCEPT !.key[k] = Keys!Stored(a, TRUE, 1),
                                        !.used = x, !.elsewhere = y]
        PROVE  KeyServer'
    <3>1. KeyRow(Keys!Stored(a, TRUE, 1))
      BY BoundChannels
    <3> QED
      BY <1>2, <2>3, <3>1
  <2>2. ASSUME NEW c \in Channels, NEW x, NEW y,
               \/ server' = [server EXCEPT !.listed = Keys!SymDiff(@, {c}), !.elsewhere = x]
               \/ server' = [server EXCEPT !.disabled = y, !.elsewhere = x]
        PROVE  KeyServer'
    <3>1. Keys!SymDiff(server.listed, {c}) \subseteq Channels
      BY DEF KeyServer, Keys!SymDiff
    <3> QED
      BY <2>2, <3>1 DEF KeyServer
  <2>4. CASE \E k \in PushKeys : \E r \in Keys!ChangedRows(k) :
                server' = [server EXCEPT !.key[k] = r, !.elsewhere = @ + 1]
    BY <2>1, <2>4
  <2>5. CASE \E k \in PushKeys, a \in Keys!Bindings :
                server' = [server EXCEPT !.key[k] = Keys!Stored(a, TRUE, 1),
                                         !.used = @ \cup {k}, !.elsewhere = @ + 1]
    BY <2>3, <2>5
  <2> QED
    BY <1>7, <2>2, <2>4, <2>5 DEF Keys!Elsewhere
<1>8. ASSUME NEW k \in PushKeys, Keys!RotatedElsewhere(k) PROVE KeyServer'
  <2> DEFINE r == [server.key[k] EXCEPT !.secret = @ + 1]
  <2>1. server' = [server EXCEPT !.key[k] = r, !.elsewhere = server.elsewhere + 1]
    BY <1>8 DEF Keys!RotatedElsewhere, KeyServer, KeyRows
  <2>2. KeyRow(r)
    BY <1>8 DEF KeyServer, KeyRows, KeyRow, Keys!RotatedElsewhere, Keys!Live
  <2> HIDE DEF r
  <2> QED
    BY <1>2, <2>1, <2>2
<1> QED
  BY <1>1, <1>3, <1>4, <1>5, <1>6, <1>7, <1>8
     DEF Keys!Next, Keys!vars, Keys!FetchKeys, Keys!FetchChannels, Keys!openCreate,
         Keys!closeForm, Keys!switchActive, Keys!handleSubmit, Keys!openEdit,
         Keys!askRotate, Keys!askDelete, Keys!toggleChannel, Keys!pickDefault,
         Keys!cancelConfirm, Keys!confirmRotate, Keys!confirmDelete, Keys!closeSecret,
         Keys!leave, Keys!settle, Keys!lose

LEMMA KeyCacheStep ==
  ASSUME KeyServer, KeyCache, [Keys!Next]_(Keys!vars)
  PROVE  KeyCache'
<1>1. CASE UNCHANGED cache
  BY <1>1 DEF KeyCache
<1>2. CASE Keys!FetchKeys
  BY <1>2 DEF KeyCache, KeyServer, Keys!FetchKeys
<1>3. CASE Keys!FetchChannels
  BY <1>3 DEF KeyCache, Keys!FetchChannels
<1> QED
  BY <1>1, <1>2, <1>3
     DEF Keys!Next, Keys!vars, Keys!Elsewhere, Keys!openCreate,
         Keys!closeForm, Keys!switchActive, Keys!handleSubmit, Keys!openEdit,
         Keys!askRotate, Keys!askDelete, Keys!toggleChannel, Keys!pickDefault,
         Keys!cancelConfirm, Keys!confirmRotate, Keys!confirmDelete, Keys!closeSecret,
         Keys!leave, Keys!settle, Keys!lose, Keys!ServeCreate, Keys!ServeUpdate,
         Keys!ServeRotate, Keys!ServeDelete, Keys!RotatedElsewhere


\* What the form sends.
LEMMA KeySent ==
  ASSUME KeyForm(page)
  PROVE  KeyArg(IF page.editing = Null THEN "create" ELSE "update", Keys!Payload)
<1> DEFINE a == Keys!Payload
<1>1. /\ a.channels = Keys!Bindable /\ a.default = Keys!SentDefault
      /\ a.active = page.active /\ a.shown = Keys!ShownDefault
      /\ a.chosen = page.default /\ a.from = page.from /\ a.touched = page.touched
      /\ a.hidden = page.from.channels \ cache.channels
  BY DEF Keys!Payload
<1> HIDE DEF a
<1>2. /\ Keys!Bindable = Keys!Selectable
      /\ Keys!Bindable = {c \in Keys!ToSet(page.selected) : c \in cache.channels}
  BY DEF Keys!Bindable, Keys!Selectable
<1>3. page.default \in Keys!Bindable => a.default = page.default /\ a.shown = page.default
  BY <1>1, <1>2 DEF Keys!SentDefault, Keys!ShownDefault
<1>4. a.default # a.shown => a.chosen \notin a.channels
  BY <1>1, <1>3
<1>5. ASSUME page.editing # Null, "active" \notin a.touched
      PROVE  a.active = a.from.active
  BY <1>1, <1>5 DEF KeyForm
<1>6. ASSUME page.editing # Null, "channels" \notin a.touched, a.hidden = {}
      PROVE  a.channels = a.from.channels /\ a.default = a.from.default
  <2>1. /\ Keys!ToSet(page.selected) = page.from.channels
        /\ page.default = page.from.default /\ page.from.default \in page.from.channels
    BY <1>1, <1>6 DEF KeyForm
  <2>2. Keys!Bindable = page.from.channels
    BY <1>1, <1>2, <1>6, <2>1
  <2> QED
    BY <1>1, <1>3, <2>1, <2>2
<1> QED
  BY <1>4, <1>5, <1>6 DEF KeyArg, a

\* A save that is sent carries what the form held; an update that succeeds was
\* served in this very step.
KeysGo ==
  \/ UNCHANGED calls \/ LeftNow
  \/ \E op, arg :
       SentNow(op, arg) /\ op \in KeyOps /\ (op \in {"create", "update"} => KeyArg(op, arg))
  \/ \E i \in DOMAIN calls :
       \/ SettledNow(i)
       \/ \E at, out :
            /\ AnsweredNow(i, at, out) /\ calls[i].at # "done"
            /\ at # "ok" \/ calls[i].op # "update" \/ Keys!ServeUpdate(i)

LEMMA KeyRequests ==
  ASSUME KeyForm(page), [Keys!Next]_(Keys!vars)
  PROVE  KeysGo
<1>1. CASE UNCHANGED calls
  BY <1>1 DEF KeysGo
<1>2. CASE Keys!leave
  BY <1>2 DEF KeysGo, LeftNow, Keys!leave, Keys!Abandon
<1>3. ASSUME NEW op \in KeyOps, NEW arg, Keys!Send(op, arg),
             op \in {"create", "update"} => KeyArg(op, arg)
      PROVE  KeysGo
  BY <1>3 DEF KeysGo, SentNow, Keys!Send, Keys!Request
<1>4. CASE Keys!handleSubmit
  BY <1>3, <1>4, KeySent DEF Keys!handleSubmit, KeyOps
<1>5. CASE Keys!confirmDelete
  BY <1>3, <1>5 DEF Keys!confirmDelete, KeyOps
<1>6. CASE Keys!confirmRotate
  BY <1>3, <1>6 DEF Keys!confirmRotate, KeyOps
<1>7. ASSUME NEW i \in Keys!InFlight,
             \/ \E k \in PushKeys : Keys!ServeCreate(i, k)
             \/ Keys!ServeUpdate(i) \/ Keys!ServeRotate(i) \/ Keys!ServeDelete(i)
             \/ Keys!settle(i) \/ Keys!lose(i)
      PROVE  KeysGo
  <2>0. i \in DOMAIN calls /\ calls[i].at # "done"
    BY DEF Keys!InFlight
  <2>1. ASSUME NEW at, NEW out, Keys!Answer(i, at, out),
               at # "ok" \/ calls[i].op # "update" \/ Keys!ServeUpdate(i)
        PROVE  KeysGo
    BY <2>0, <2>1 DEF KeysGo, AnsweredNow, Keys!Answer
  <2>2. ASSUME NEW k, Keys!ServeCreate(i, k) PROVE KeysGo
    BY <2>1, <2>2 DEF Keys!ServeCreate
  <2>3. CASE Keys!ServeUpdate(i)
    BY <2>1, <2>3 DEF Keys!ServeUpdate
  <2>4. CASE Keys!ServeRotate(i)
    BY <2>1, <2>4 DEF Keys!ServeRotate
  <2>5. CASE Keys!ServeDelete(i)
    BY <2>1, <2>5 DEF Keys!ServeDelete
  <2>6. CASE Keys!settle(i)
    BY <2>0, <2>6 DEF KeysGo, SettledNow, Keys!settle, Keys!Settled
  <2>7. CASE Keys!lose(i)
    BY <2>1, <2>7 DEF Keys!lose, Keys!Lose
  <2> QED
    BY <1>7, <2>2, <2>3, <2>4, <2>5, <2>6, <2>7
<1> QED
  BY <1>1, <1>2, <1>4, <1>5, <1>6, <1>7
     DEF Keys!Next, Keys!vars, Keys!Elsewhere, Keys!FetchKeys, Keys!FetchChannels,
         Keys!openCreate, Keys!closeForm, Keys!switchActive, Keys!openEdit,
         Keys!askRotate, Keys!askDelete, Keys!toggleChannel, Keys!pickDefault,
         Keys!cancelConfirm, Keys!closeSecret, Keys!RotatedElsewhere

KeyCalls ==
  \A i \in DOMAIN calls :
    /\ calls[i].op \in KeyOps
    /\ calls[i].op \in {"create", "update"} /\ calls[i].at # "done"
         => KeyArg(calls[i].op, calls[i].arg)

KeyFormsInv ==
  area = "push-keys" =>
    CallsOK /\ KeyServer /\ KeyCache /\ KeyPage(page) /\ KeyForm(page) /\ KeyCalls

\* The invariant holds at the start ...
LEMMA KeyFormsStart == Init => KeyFormsInv
<1> SUFFICES ASSUME Init, area = "push-keys"
             PROVE  CallsOK /\ KeyServer /\ KeyCache /\ KeyPage(page) /\ KeyForm(page)
                    /\ KeyCalls
  BY DEF KeyFormsInv
<1>1. Keys!Init
  BY DEF Init
<1>2. CallsOK /\ KeyCalls
  BY <1>1, NoCalls DEF Keys!Init, KeyCalls
<1>3. KeyPage(page) /\ KeyForm(page)
  BY <1>1 DEF Keys!Init, Keys!Blank, KeyPage, KeyForm
<1>4. KeyRow(Keys!Absent)
  BY DEF KeyRow, Keys!Absent
<1>5. KeyCache
  BY <1>1, <1>4 DEF Keys!Init, KeyCache, KeyRows
<1> DEFINE k == CHOOSE x \in PushKeys : TRUE
           row == [active |-> TRUE, channels |-> Channels,
                   default |-> Keys!Max(Channels), secret |-> 1]
<1>6. KeyRow(row)
  <2>1. Keys!Max(Channels) \in Channels
    BY GreatestNat, ConsoleAssumption DEF Keys!Max
  <2> QED
    BY <2>1 DEF KeyRow
<1>7. server = [key |-> [x \in PushKeys |-> IF x = k THEN row ELSE Keys!Absent],
                used |-> {k}, listed |-> Channels, disabled |-> {}, elsewhere |-> 0]
  BY <1>1 DEF Keys!Init
<1> HIDE DEF k, row
<1>8. KeyServer
  BY <1>4, <1>6, <1>7 DEF KeyServer, KeyRows
<1> QED
  BY <1>2, <1>3, <1>5, <1>8

\* ... and every step keeps it: first what it says of the requests.
LEMMA KeyCallsStep ==
  ASSUME CallsOK, KeyCalls, KeysGo
  PROVE  CallsOK' /\ KeyCalls'
<1>1. Requesting
  BY DEF KeysGo, Requesting
<1>2. CallsOK'
  BY <1>1, RequestsGo
<1>3. ASSUME NEW i \in DOMAIN calls', calls'[i].op \in {"create", "update"},
             calls'[i].at # "done"
      PROVE  KeyArg(calls'[i].op, calls'[i].arg)
  <2>1. CASE /\ i \in DOMAIN calls /\ calls[i].at # "done"
             /\ calls'[i].op = calls[i].op /\ calls'[i].arg = calls[i].arg
    BY <1>3, <2>1 DEF KeyCalls
  <2>2. CASE SentNow(calls'[i].op, calls'[i].arg)
    BY <1>3, <2>2, OnlySent DEF KeysGo
  <2> QED
    BY <1>1, <1>3, <2>1, <2>2, StillOpen
<1>4. ASSUME NEW i \in DOMAIN calls' PROVE calls'[i].op \in KeyOps
  <2>1. CASE UNCHANGED calls \/ LeftNow
    BY <2>1, StandsStill, StandsLeft DEF KeyCalls, Stands
  <2>2. ASSUME NEW op \in KeyOps, NEW arg, SentNow(op, arg)
        PROVE  calls'[i].op \in KeyOps
    <3>1. CASE i \in DOMAIN calls
      BY <2>2, <3>1, StandsSent DEF KeyCalls, Stands
    <3>2. CASE i \notin DOMAIN calls
      BY <2>2, <3>2, StandsSent DEF Fields
    <3> QED
      BY <3>1, <3>2
  <2>3. ASSUME NEW j \in DOMAIN calls, SettledNow(j)
        PROVE  calls'[i].op \in KeyOps
    BY <2>3, StandsSettled DEF KeyCalls, Stands, Fields
  <2>4. ASSUME NEW j \in DOMAIN calls, NEW at, NEW out, AnsweredNow(j, at, out)
        PROVE  calls'[i].op \in KeyOps
    BY <2>4, StandsAnswered DEF KeyCalls, Stands, Fields
  <2> QED
    BY <2>1, <2>2, <2>3, <2>4 DEF KeysGo
<1> QED
  BY <1>2, <1>3, <1>4 DEF KeyCalls, KeyArg

LEMMA KeyFormsStep == KeyFormsInv /\ [Next]_vars => KeyFormsInv'
<1> SUFFICES ASSUME KeyFormsInv, [Next]_vars, area' = "push-keys"
             PROVE  (CallsOK /\ KeyServer /\ KeyCache /\ KeyPage(page) /\ KeyForm(page)
                     /\ KeyCalls)'
  BY DEF KeyFormsInv
<1>1. /\ CallsOK /\ KeyServer /\ KeyCache /\ KeyPage(page) /\ KeyForm(page) /\ KeyCalls
      /\ [Keys!Next]_(Keys!vars)
  BY OneArea, StepOfForm DEF KeyFormsInv
<1>2. CallsOK' /\ KeyCalls'
  BY <1>1, KeyRequests, KeyCallsStep
<1>3. (KeyPage(page) /\ KeyForm(page))'
  <2>1. \A i \in DOMAIN calls : calls[i].op \in KeyOps
    BY <1>1 DEF KeyCalls
  <2> QED
    BY <1>1, <2>1, KeyFormStep
<1>4. KeyServer' /\ KeyCache'
  BY <1>1, KeyServerStep, KeyCacheStep
<1> QED
  BY <1>2, <1>3, <1>4

\* The step of serving a save.
LEMMA KeysSaveStep ==
  KeyFormsInv /\ [Next]_vars => [area = "push-keys" => Keys!SaveKeepsUntouched]_vars
<1> SUFFICES ASSUME KeyFormsInv, Next, area = "push-keys", NEW i \in Keys!InFlight,
                    calls[i].op = "update", calls[i].at = "sent", calls'[i].at = "ok"
             PROVE  LET a == calls[i].arg
                        old == server.key[a.key]
                        new == server'.key[a.key]
                    IN  /\ ("active" \notin a.touched /\ old.active = a.from.active)
                              => new.active = old.active
                        /\ ("channels" \notin a.touched /\ a.hidden = {}
                            /\ old.channels = a.from.channels
                            /\ old.default = a.from.default)
                              => new.channels = old.channels /\ new.default = old.default
  BY DEF Keys!SaveKeepsUntouched
<1> DEFINE a == calls[i].arg
           r == Keys!Stored(a, a.active, server.key[a.key].secret)
<1>1. /\ CallsOK /\ KeyServer /\ KeyForm(page) /\ i \in DOMAIN calls
      /\ KeyArg("update", a)
  BY DEF KeyFormsInv, KeyCalls, Keys!InFlight
<1>2. KeysGo
  BY <1>1, StepOfForm, KeyRequests
<1>3. Keys!ServeUpdate(i)
  BY <1>1, <1>2, TurnsOk DEF KeysGo
<1>4. UNCHANGED server \/ server' = [server EXCEPT !.key[a.key] = r]
  BY <1>3 DEF Keys!ServeUpdate
<1>5. /\ r.active = a.active /\ r.channels = a.channels /\ r.default = a.default
  BY DEF Keys!Stored
<1>6. server'.key[a.key] = server.key[a.key] \/ server'.key[a.key] = r
  <2> HIDE DEF a, r
  <2> QED
    BY <1>1, <1>4 DEF KeyServer, KeyRows
<1> HIDE DEF r
<1> QED
  BY <1>1, <1>5, <1>6 DEF KeyArg

\* Saving a push key changes a field nobody touched only if it had changed since its
\* row was read, or a bound channel was no choice any more (PushKeysPage.tsx,
\* services/push_keys.py).
THEOREM KeySaveLeavesTheRest == Spec => SaveKeepsUntouched
<1>1. KeyFormsInv /\ [Next]_vars => [area = "push-keys" => Keys!SaveKeepsUntouched]_vars
  BY KeysSaveStep
<1> QED
  BY <1>1, KeyFormsStart, KeyFormsStep, PTL DEF Spec, SaveKeepsUntouched

\* A default channel the user picked is the one a save on its way carries, whatever
\* the list of choices became (PushKeysPage.tsx handleSubmit).
THEOREM PickedDefaultSent == Spec => []DefaultAsShown
<1>1. KeyFormsInv => DefaultAsShown
  BY DEF KeyFormsInv, KeyCalls, KeyArg, DefaultAsShown, Keys!DefaultAsShown, Keys!InFlight
<1> QED
  BY <1>1, KeyFormsStart, KeyFormsStep, PTL DEF Spec


-----------------------------------------------------------------------------
(* The test dialog of a channel.  The page has one slot for results; what  *)
(* keeps a foreign one out of the dialog is that no test of another        *)
(* channel is under way, of those sent by this page.                       *)

ChannelPage(p) ==
  p \in [dialog : {p.dialog}, editing : {p.editing}, from : {p.from},
         enabled : {p.enabled}, type : {p.type}, delete : {p.delete}, test : {p.test},
         result : {p.result}, mixed : {p.mixed}, gestures : {p.gestures}]

ChannelOps == {"create", "update", "delete", "test"}

TestAnswers ==
  \A i \in DOMAIN calls :
    /\ calls[i].op \in ChannelOps
    /\ calls[i].op = "test" /\ calls[i].at = "ok" => calls[i].out = calls[i].arg

OwnTests(c) ==
  \A i \in DOMAIN calls :
    calls[i].op = "test" /\ calls[i].here /\ calls[i].at # "done" => calls[i].arg = c

OwnResult ==
  page.test # Null /\ ~page.mixed => OwnTests(page.test) /\ page.result \in {Null, page.test}

TestsInv ==
  area = "channels" => CallsOK /\ ChannelPage(page) /\ TestAnswers /\ OwnResult

\* The dialog's part of the page is left alone.
TestKept ==
  /\ ChannelPage(page)'
  /\ page'.test = page.test /\ page'.mixed = page.mixed /\ page'.result = page.result

\* A gesture elsewhere on the page, or none.
LEMMA ChannelBeside ==
  ASSUME ChannelPage(page),
         \/ page' = page
         \/ Chans!Gesture(page) \/ Chans!Gesture(Chans!Closed(page))
         \/ page' = Chans!Closed(page)
         \/ \E x : \/ page' = [page EXCEPT !.delete = x]
                   \/ Chans!Gesture([page EXCEPT !.delete = x])
                   \/ Chans!Gesture([page EXCEPT !.type = x])
                   \/ Chans!Gesture([page EXCEPT !.enabled = x])
         \/ \E x, y, z :
               Chans!Gesture([page EXCEPT !.dialog = TRUE, !.editing = x, !.enabled = y,
                                          !.type = z])
         \/ \E x, y, z, w :
               Chans!Gesture([page EXCEPT !.dialog = TRUE, !.editing = x, !.from = w,
                                          !.enabled = y, !.type = z])
  PROVE  TestKept
BY DEF ChannelPage, TestKept, Chans!Gesture, Chans!Closed

\* Requests that stand where they stood, and no new test.
LEMMA TestsStand ==
  ASSUME TestAnswers, OwnResult, TestKept,
         \A i \in DOMAIN calls' :
           \/ i \in DOMAIN calls /\ Stands(i)
           \/ i \in DOMAIN calls /\ calls'[i].at = "error" /\ calls'[i].op = calls[i].op
                /\ calls'[i].arg = calls[i].arg /\ calls'[i].here = calls[i].here
                /\ calls[i].at # "done"
           \/ /\ calls'[i].op \in ChannelOps
              /\ calls'[i].op # "test" \/ calls'[i].at = "done"
  PROVE  TestAnswers' /\ OwnResult'
<1>1. TestAnswers'
  BY DEF TestAnswers, Stands
<1>2. ASSUME NEW c, OwnTests(c) PROVE OwnTests(c)'
  BY <1>2 DEF OwnTests, Stands
<1> QED
  BY <1>1, <1>2 DEF OwnResult, TestKept

LEMMA TestsStep == TestsInv /\ [Next]_vars => TestsInv'
<1> SUFFICES ASSUME TestsInv, [Next]_vars, area' = "channels"
             PROVE  CallsOK' /\ ChannelPage(page)' /\ TestAnswers' /\ OwnResult'
  BY DEF TestsInv
<1>1. CallsOK /\ ChannelPage(page) /\ TestAnswers /\ OwnResult /\ [Chans!Next]_(Chans!vars)
  BY OneArea, StepOfForm DEF TestsInv
<1>2. CallsOK'
  <2>1. Requesting
    BY <1>1, ChannelRequests DEF ChannelsGo, Requesting
  <2> QED
    BY <1>1, <2>1, RequestsGo
<1>3. ASSUME UNCHANGED calls, TestKept
      PROVE  ChannelPage(page)' /\ TestAnswers' /\ OwnResult'
  <2>1. DOMAIN calls' = DOMAIN calls /\ \A i \in DOMAIN calls : Stands(i)
    BY <1>1, <1>3, StandsStill
  <2> QED
    BY <1>1, <1>3, <2>1, TestsStand DEF TestKept
<1>4. ASSUME NEW op \in ChannelOps \ {"test"}, NEW arg, Chans!Send(op, arg), TestKept
      PROVE  ChannelPage(page)' /\ TestAnswers' /\ OwnResult'
  <2>1. SentNow(op, arg)
    BY <1>4 DEF SentNow, Chans!Send, Chans!Request
  <2>2. ASSUME NEW i \in DOMAIN calls'
        PROVE  \/ i \in DOMAIN calls /\ Stands(i)
               \/ calls'[i].op \in ChannelOps /\ calls'[i].op # "test"
    <3>1. CASE i \in DOMAIN calls
      BY <1>1, <2>1, <3>1, StandsSent
    <3>2. CASE i \notin DOMAIN calls
      BY <1>1, <1>4, <2>1, <3>2, StandsSent DEF Fields
    <3> QED
      BY <3>1, <3>2
  <2> QED
    BY <1>1, <1>4, <2>2, TestsStand DEF TestKept
<1>5. ASSUME NEW c, Chans!openTest(c)
      PROVE  ChannelPage(page)' /\ TestAnswers' /\ OwnResult'
  <2>1. SentNow("test", c) /\ Chans!Gesture(Chans!TestOpened(c))
    BY <1>5 DEF SentNow, Chans!openTest, Chans!Send, Chans!Request
  <2>2. /\ ChannelPage(page)' /\ page'.test = c /\ page'.result = Null
        /\ page'.mixed = Chans!Mixed(c)
    BY <1>1, <2>1 DEF ChannelPage, Chans!Gesture, Chans!TestOpened
  <2>3. /\ \A i \in DOMAIN calls : Stands(i)
        /\ \A i \in DOMAIN calls' \ DOMAIN calls :
             Fields(calls'[i], "test", c, "sent", TRUE, Null)
    BY <1>1, <2>1, StandsSent
  <2>4. TestAnswers'
    <3>1. ASSUME NEW i \in DOMAIN calls'
          PROVE  /\ calls'[i].op \in ChannelOps
                 /\ calls'[i].op = "test" /\ calls'[i].at = "ok"
                      => calls'[i].out = calls'[i].arg
      <4>1. CASE i \in DOMAIN calls
        BY <1>1, <2>3, <4>1 DEF TestAnswers, Stands
      <4>2. CASE i \notin DOMAIN calls
        BY <2>3, <4>2 DEF Fields, ChannelOps
      <4> QED
        BY <4>1, <4>2
    <3> QED
      BY <3>1 DEF TestAnswers
  <2>5. ASSUME ~Chans!Mixed(c), NEW i \in DOMAIN calls',
               calls'[i].op = "test" /\ calls'[i].here /\ calls'[i].at # "done"
        PROVE  calls'[i].arg = c
    <3>1. CASE i \in DOMAIN calls
      BY <2>3, <2>5, <3>1 DEF Stands, Chans!Mixed, Chans!InFlight
    <3>2. CASE i \notin DOMAIN calls
      BY <2>3, <2>5, <3>2 DEF Fields
    <3> QED
      BY <3>1, <3>2
  <2> QED
    BY <2>2, <2>4, <2>5 DEF OwnResult, OwnTests
<1>6. CASE Chans!closeTest
  <2>1. ChannelPage(page)' /\ page'.test = Null /\ UNCHANGED calls
    BY <1>1, <1>6 DEF Chans!closeTest, Chans!Gesture, ChannelPage
  <2>2. TestAnswers'
    BY <1>1, <2>1 DEF TestAnswers
  <2>3. OwnResult'
    BY <2>1 DEF OwnResult
  <2> QED
    BY <1>2, <2>1, <2>2, <2>3
<1>7. CASE Chans!leave
  <2>1. ChannelPage(page)' /\ page'.test = Null
    BY <1>7 DEF Chans!leave, Chans!Gesture, Chans!Blank, ChannelPage
  <2>2. LeftNow
    BY <1>7 DEF LeftNow, Chans!leave, Chans!Abandon
  <2>3. DOMAIN calls' = DOMAIN calls /\ \A i \in DOMAIN calls : Stands(i)
    BY <1>1, <2>2, StandsLeft
  <2>4. TestAnswers'
    BY <1>1, <2>3 DEF TestAnswers, Stands
  <2>5. OwnResult'
    BY <2>1 DEF OwnResult
  <2> QED
    BY <1>2, <2>1, <2>4, <2>5
<1>8. ASSUME NEW i \in Chans!InFlight,
             \/ \E c \in Channels : Chans!ServeCreate(i, c)
             \/ Chans!ServeUpdate(i) \/ Chans!ServeDelete(i) \/ Chans!ServeTest(i)
             \/ Chans!lose(i)
      PROVE  ChannelPage(page)' /\ TestAnswers' /\ OwnResult'
  <2>0. i \in DOMAIN calls /\ calls[i].at # "done"
    BY DEF Chans!InFlight
  <2>1. PICK at, out :
          /\ AnsweredNow(i, at, out)
          /\ at = "error" \/ /\ at = "ok"
                             /\ calls[i].op = "test" => out = calls[i].arg
    BY <1>8 DEF AnsweredNow, Chans!Answer, Chans!ServeCreate, Chans!ServeUpdate,
                Chans!ServeDelete, Chans!ServeTest, Chans!lose, Chans!Lose
  <2>2. UNCHANGED page
    BY <1>8 DEF Chans!ServeCreate, Chans!ServeUpdate, Chans!ServeDelete, Chans!ServeTest,
                Chans!lose
  <2>3. /\ DOMAIN calls' = DOMAIN calls
        /\ \A j \in DOMAIN calls \ {i} : Stands(j)
        /\ Fields(calls'[i], calls[i].op, calls[i].arg, at, calls[i].here, out)
    BY <1>1, <2>0, <2>1, StandsAnswered
  <2>4. TestAnswers'
    BY <1>1, <2>0, <2>1, <2>3 DEF TestAnswers, Stands, Fields
  <2>5. ASSUME NEW c, OwnTests(c) PROVE OwnTests(c)'
    BY <2>0, <2>3, <2>5 DEF OwnTests, Stands, Fields
  <2> QED
    BY <1>1, <2>2, <2>4, <2>5 DEF OwnResult
<1>9. ASSUME NEW i \in Chans!InFlight, Chans!settle(i)
      PROVE  ChannelPage(page)' /\ TestAnswers' /\ OwnResult'
  <2>0. i \in DOMAIN calls /\ calls[i].at # "done" /\ calls[i].op \in ChannelOps
    BY <1>1 DEF Chans!InFlight, TestAnswers
  <2>1. SettledNow(i)
    BY <1>9 DEF SettledNow, Chans!settle, Chans!Settled
  <2>2. /\ DOMAIN calls' = DOMAIN calls
        /\ \A j \in DOMAIN calls \ {i} : Stands(j)
        /\ Fields(calls'[i], calls[i].op, Null, "done", calls[i].here, Null)
    BY <1>1, <2>0, <2>1, StandsSettled
  <2>3. TestAnswers'
    BY <1>1, <2>2 DEF TestAnswers, Stands, Fields
  <2>4. ASSUME NEW c, OwnTests(c) PROVE OwnTests(c)'
    BY <2>2, <2>4 DEF OwnTests, Stands, Fields
  <2>5. CASE TestKept
    BY <1>1, <2>3, <2>4, <2>5 DEF OwnResult, TestKept
  <2>6. CASE /\ calls[i].op = "test" /\ calls[i].at = "ok" /\ calls[i].here
             /\ page' = [page EXCEPT !.result = calls[i].out]
    <3>1. /\ ChannelPage(page)' /\ page'.test = page.test /\ page'.mixed = page.mixed
          /\ page'.result = calls[i].arg
      BY <1>1, <2>0, <2>6 DEF ChannelPage, TestAnswers
    <3>2. page.test # Null /\ ~page.mixed => calls[i].arg = page.test
      BY <1>1, <2>0, <2>6 DEF OwnResult, OwnTests
    <3> QED
      BY <1>1, <2>3, <2>4, <3>1, <3>2 DEF OwnResult
  <2>7. \/ page' = page \/ page' = Chans!Closed(page)
        \/ page' = [page EXCEPT !.delete = Null]
        \/ /\ calls[i].op = "test" /\ calls[i].at = "ok" /\ calls[i].here
           /\ page' = [page EXCEPT !.result = calls[i].out]
    BY <1>9, <2>0 DEF Chans!settle, Chans!OnSuccess, ChannelOps
  <2> QED
    BY <1>1, <2>5, <2>6, <2>7, ChannelBeside
<1>10. CASE UNCHANGED Chans!vars \/ Chans!Fetch \/ \E c \in Channels : Chans!Elsewhere(c)
  <2>1. UNCHANGED <<page, calls>>
    BY <1>10 DEF Chans!vars, Chans!Fetch, Chans!Elsewhere
  <2> QED
    BY <1>1, <1>2, <1>3, <2>1, ChannelBeside
<1>11. CASE \/ Chans!openCreate \/ Chans!closeForm \/ Chans!switchEnabled
            \/ \E t \in ChannelType : Chans!setType(t)
            \/ \E c \in Channels : Chans!openEdit(c) \/ Chans!askDelete(c)
            \/ Chans!cancelDelete
  <2>1. UNCHANGED calls
    BY <1>11 DEF Chans!openCreate, Chans!closeForm, Chans!switchEnabled, Chans!setType,
                 Chans!openEdit, Chans!askDelete, Chans!cancelDelete
  <2>2. TestKept
    BY <1>1, <1>11, ChannelBeside
       DEF Chans!openCreate, Chans!closeForm, Chans!switchEnabled, Chans!setType,
           Chans!openEdit, Chans!askDelete, Chans!cancelDelete
  <2> QED
    BY <1>2, <1>3, <2>1, <2>2
<1>12. ASSUME NEW typed, Chans!handleSubmit(typed)
       PROVE  ChannelPage(page)' /\ TestAnswers' /\ OwnResult'
  <2>1. TestKept
    BY <1>1, <1>12, ChannelBeside DEF Chans!handleSubmit
  <2>2. \E op \in ChannelOps \ {"test"} : \E arg : Chans!Send(op, arg)
    BY <1>12 DEF Chans!handleSubmit, ChannelOps
  <2> QED
    BY <1>4, <2>1, <2>2
<1>13. CASE Chans!confirmDelete
  <2>1. TestKept
    BY <1>1, <1>13, ChannelBeside DEF Chans!confirmDelete
  <2>2. Chans!Send("delete", page.delete)
    BY <1>13 DEF Chans!confirmDelete
  <2> QED
    BY <1>2, <1>4, <2>1, <2>2 DEF ChannelOps
<1> QED
  BY <1>1, <1>2, <1>5, <1>6, <1>7, <1>8, <1>9, <1>10, <1>11, <1>12, <1>13 DEF Chans!Next

LEMMA TestsStart == Init => TestsInv
BY NoCalls DEF Init, Chans!Init, Chans!Blank, TestsInv, ChannelPage, TestAnswers, OwnResult

\* The result a channel's test dialog shows is one of that channel, unless the test
\* of another was under way when it was opened (ChannelsPage.tsx, testMutation).
THEOREM TestShownIsOfTheChannel == Spec => []TestResultOfDialog
<1>1. TestsInv => TestResultOfDialog
  BY DEF TestsInv, OwnResult, TestResultOfDialog, Chans!TestResultOfDialog,
         Chans!ShownResult
<1> QED
  BY <1>1, TestsStart, TestsStep, PTL DEF Spec


-----------------------------------------------------------------------------
(* The secret that is shown once.  Outside the keys whose secrets raced,   *)
(* a secret has one carrier at most, which is a request or the dialog, and *)
(* the one it carries is the one the key answers to.                       *)

\* Request c carries, or will carry, a secret of key k.
Carries(c, k) ==
  /\ c.at # "done"
  /\ \/ c.op = "rotate" /\ c.arg = k
     \/ c.op = "create" /\ c.at = "ok" /\ c.out.key = k

\* Secret s is what the key answers to, unless it raced with another.
Works(s, rows, raced) ==
  rows[s.key].secret > 0 /\ s.key \notin raced => s.secret = rows[s.key].secret

KeysUsed ==
  /\ server.used \subseteq PushKeys
  /\ \A k \in PushKeys : server.key[k].secret > 0 => k \in server.used
  /\ \A k \in PushKeys : cache.keys[k].secret > 0 => k \in server.used
  /\ page.rotate # Null => page.rotate \in server.used

CarriersWork ==
  \A i \in DOMAIN calls : \A k : Carries(calls[i], k) =>
    /\ k \in server.used
    /\ calls[i].at = "ok" =>
         calls[i].out.key = k /\ Works(calls[i].out, server.key, page.raced)
    /\ page.secret # Null /\ page.secret.key = k => k \in page.raced

CarriersApart ==
  \A i, j \in DOMAIN calls : \A k :
    Carries(calls[i], k) /\ Carries(calls[j], k) => i = j \/ k \in page.raced

ShownWorks ==
  page.secret # Null =>
    page.secret.key \in server.used /\ Works(page.secret, server.key, page.raced)

Secrets == KeysUsed /\ CarriersWork /\ CarriersApart /\ ShownWorks

\* A step that brings no new carrier and shows no other secret.
ServerQuiet ==
  /\ server.used \subseteq server'.used /\ server'.used \subseteq PushKeys
  /\ \A k \in PushKeys : server'.key[k].secret > 0 => k \in server'.used
  /\ \A k \in server.used : server'.key[k].secret \in {0, server.key[k].secret}

CacheQuiet == \A k \in PushKeys : cache'.keys[k].secret > 0 => k \in server.used

PageQuiet ==
  /\ page'.raced = page.raced
  /\ page'.rotate \in {Null, page.rotate} \cup server.used
  /\ page'.secret \in {Null, page.secret}

CallsQuiet ==
  \A i \in DOMAIN calls' : \A k : Carries(calls'[i], k) =>
    /\ i \in DOMAIN calls /\ Carries(calls[i], k)
    /\ calls'[i].at = "ok" => calls[i].at = "ok" /\ calls'[i].out = calls[i].out

LEMMA QuietSecrets ==
  ASSUME Secrets, ServerQuiet, CacheQuiet, PageQuiet, CallsQuiet
  PROVE  Secrets'
<1>1. KeysUsed'
  BY DEF ServerQuiet, CacheQuiet, PageQuiet, Secrets, KeysUsed
<1>2. ASSUME NEW s, s.key \in server.used, Works(s, server.key, page.raced)
      PROVE  Works(s, server'.key, page'.raced)
  <2>1. server'.key[s.key].secret \in {0, server.key[s.key].secret}
    BY <1>2 DEF ServerQuiet
  <2> QED
    BY <1>2, <2>1 DEF Works, PageQuiet
<1>3. CarriersWork'
  <2> SUFFICES ASSUME NEW i \in DOMAIN calls', NEW k, Carries(calls'[i], k)
               PROVE  /\ k \in server'.used
                      /\ calls'[i].at = "ok" => calls'[i].out.key = k
                                                /\ Works(calls'[i].out, server'.key, page'.raced)
                      /\ page'.secret # Null /\ page'.secret.key = k => k \in page'.raced
    BY DEF CarriersWork
  <2>1. /\ i \in DOMAIN calls /\ Carries(calls[i], k)
        /\ calls'[i].at = "ok" => calls[i].at = "ok" /\ calls'[i].out = calls[i].out
    BY DEF CallsQuiet
  <2>2. /\ k \in server.used
        /\ calls[i].at = "ok" => calls[i].out.key = k
                                 /\ Works(calls[i].out, server.key, page.raced)
        /\ page.secret # Null /\ page.secret.key = k => k \in page.raced
    BY <2>1 DEF Secrets, CarriersWork
  <2> QED
    BY <1>2, <2>1, <2>2 DEF ServerQuiet, PageQuiet
<1>4. CarriersApart'
  BY DEF Secrets, CarriersApart, CallsQuiet, PageQuiet
<1>5. ShownWorks'
  BY <1>2 DEF ShownWorks, Secrets, PageQuiet, ServerQuiet
<1> QED
  BY <1>1, <1>3, <1>4, <1>5 DEF Secrets

\* Requests that bring no new carrier.
LEMMA QuietCalls ==
  ASSUME CallsOK,
         \/ UNCHANGED calls \/ LeftNow
         \/ \E op, arg : SentNow(op, arg) /\ op # "rotate"
         \/ \E i \in DOMAIN calls :
              \/ SettledNow(i)
              \/ \E at, out :
                   /\ AnsweredNow(i, at, out) /\ calls[i].at # "done"
                   /\ at # "ok" \/ calls[i].op \notin {"create", "rotate"}
  PROVE  CallsQuiet
<1>1. ASSUME NEW i \in DOMAIN calls, Stands(i)
      PROVE  \A k : Carries(calls'[i], k) => /\ Carries(calls[i], k)
                                              /\ calls'[i].at = calls[i].at
                                              /\ calls'[i].out = calls[i].out
  BY <1>1 DEF Stands, Carries
<1>2. CASE UNCHANGED calls \/ LeftNow
  BY <1>1, <1>2, StandsStill, StandsLeft DEF CallsQuiet
<1>3. ASSUME NEW op, NEW arg, SentNow(op, arg), op # "rotate" PROVE CallsQuiet
  <2>1. ASSUME NEW i \in DOMAIN calls' \ DOMAIN calls PROVE \A k : ~Carries(calls'[i], k)
    BY <1>3, StandsSent DEF Fields, Carries
  <2> QED
    BY <1>1, <1>3, <2>1, StandsSent DEF CallsQuiet
<1>4. ASSUME NEW i \in DOMAIN calls, SettledNow(i) PROVE CallsQuiet
  <2>1. /\ DOMAIN calls' = DOMAIN calls
        /\ \A j \in DOMAIN calls \ {i} : Stands(j)
        /\ \A k : ~Carries(calls'[i], k)
    BY <1>4, StandsSettled DEF Fields, Carries
  <2> QED
    BY <1>1, <2>1 DEF CallsQuiet
<1>5. ASSUME NEW i \in DOMAIN calls, NEW at, NEW out, AnsweredNow(i, at, out),
             calls[i].at # "done", at # "ok" \/ calls[i].op \notin {"create", "rotate"}
      PROVE  CallsQuiet
  <2>1. /\ DOMAIN calls' = DOMAIN calls
        /\ \A j \in DOMAIN calls \ {i} : Stands(j)
        /\ \A k : Carries(calls'[i], k) => Carries(calls[i], k) /\ calls'[i].at # "ok"
    BY <1>5, StandsAnswered DEF Fields, Carries
  <2> QED
    BY <1>1, <2>1 DEF CallsQuiet
<1> QED
  BY <1>2, <1>3, <1>4, <1>5

\* What the server, the lists and the page do that is quiet.
LEMMA StillQuiet ==
  /\ Secrets /\ UNCHANGED server => ServerQuiet
  /\ Secrets /\ UNCHANGED cache => CacheQuiet
  /\ UNCHANGED page => PageQuiet
BY DEF ServerQuiet, CacheQuiet, PageQuiet, Secrets, KeysUsed

LEMMA QuietGesture ==
  ASSUME NEW p, KeyPage(p), Keys!Gesture(p), p.raced = page.raced,
         p.rotate \in {Null, page.rotate} \cup server.used,
         p.secret \in {Null, page.secret}
  PROVE  PageQuiet
BY DEF Keys!Gesture, KeyPage, PageQuiet

LEMMA QuietServer ==
  ASSUME KeyServer, Secrets,
         \/ \E i : Keys!ServeUpdate(i) \/ Keys!ServeDelete(i)
         \/ Keys!Elsewhere
  PROVE  ServerQuiet
<1> USE DEF KeyServer, KeyRows, KeyRow
<1>1. CASE UNCHANGED server
  BY <1>1, StillQuiet
<1>2. ASSUME NEW k, NEW r, r.secret = 0 \/ r.secret = server.key[k].secret,
             server'.used = server.used, server'.key = [server.key EXCEPT ![k] = r]
      PROVE  ServerQuiet
  <2>2. \A x \in PushKeys : server'.key[x].secret \in {0, server.key[x].secret}
    BY <1>2
  <2> QED
    BY <1>2, <2>2 DEF ServerQuiet, Secrets, KeysUsed
<1>3. ASSUME NEW i, Keys!ServeUpdate(i) PROVE ServerQuiet
  <2> DEFINE a == calls[i].arg
             r == Keys!Stored(a, a.active, server.key[a.key].secret)
  <2>1. \/ UNCHANGED server
        \/ /\ server'.used = server.used
           /\ server'.key = [server.key EXCEPT ![a.key] = r]
    BY <1>3 DEF Keys!ServeUpdate
  <2>2. r.secret = server.key[a.key].secret
    BY DEF Keys!Stored
  <2> HIDE DEF a, r
  <2> QED
    BY <1>1, <1>2, <2>1, <2>2
<1>4. ASSUME NEW i, Keys!ServeDelete(i) PROVE ServerQuiet
  <2>1. \/ UNCHANGED server
        \/ /\ server'.used = server.used
           /\ server'.key = [server.key EXCEPT ![calls[i].arg] = Keys!Absent]
    BY <1>4 DEF Keys!ServeDelete
  <2>2. Keys!Absent.secret = 0
    BY DEF Keys!Absent
  <2> QED
    BY <1>1, <1>2, <2>1, <2>2
<1>5. CASE Keys!Elsewhere
  <2>1. CASE \E k \in PushKeys : \E r \in Keys!ChangedRows(k) :
                server' = [server EXCEPT !.key[k] = r, !.elsewhere = @ + 1]
    <3>0. PICK k \in PushKeys : \E r \in Keys!ChangedRows(k) :
            server' = [server EXCEPT !.key[k] = r, !.elsewhere = @ + 1]
      BY <2>1
    <3>1. PICK r \in Keys!ChangedRows(k) :
            server' = [server EXCEPT !.key[k] = r, !.elsewhere = @ + 1]
      BY <3>0
    <3>2. /\ server'.used = server.used
          /\ server'.key = [server.key EXCEPT ![k] = r]
      BY <3>1
    <3>3. r.secret = 0 \/ r.secret = server.key[k].secret
      BY ChangedRow
    <3> QED
      BY <1>2, <3>2, <3>3
  <2>2. ASSUME NEW x, NEW y, \/ server' = [server EXCEPT !.listed = y, !.elsewhere = x]
                             \/ server' = [server EXCEPT !.disabled = y, !.elsewhere = x]
        PROVE  ServerQuiet
    BY <2>2 DEF ServerQuiet, Secrets, KeysUsed
  <2>3. ASSUME NEW k \in PushKeys \ server.used, NEW a, NEW x,
               server' = [server EXCEPT !.key[k] = Keys!Stored(a, TRUE, 1),
                                        !.used = server.used \cup {k}, !.elsewhere = x]
        PROVE  ServerQuiet
    <3>1. /\ server'.used = server.used \cup {k}
          /\ \A y \in PushKeys \ {k} : server'.key[y] = server.key[y]
      BY <2>3
    <3> QED
      BY <3>1 DEF ServerQuiet, Secrets, KeysUsed
  <2>4. CASE \E k \in PushKeys \ server.used, a \in Keys!Bindings :
                server' = [server EXCEPT !.key[k] = Keys!Stored(a, TRUE, 1),
                                         !.used = @ \cup {k}, !.elsewhere = @ + 1]
    BY <2>3, <2>4
  <2> QED
    BY <1>5, <2>1, <2>2, <2>4 DEF Keys!Elsewhere
<1> QED
  BY <1>3, <1>4, <1>5

LEMMA QuietFetch ==
  ASSUME KeyCache, Secrets, Keys!FetchKeys \/ Keys!FetchChannels
  PROVE  CacheQuiet
<1>1. CASE Keys!FetchKeys
  BY <1>1 DEF Keys!FetchKeys, CacheQuiet, Secrets, KeysUsed, KeyCache
<1>2. CASE Keys!FetchChannels
  BY <1>2 DEF Keys!FetchChannels, CacheQuiet, Secrets, KeysUsed, KeyCache
<1> QED
  BY <1>1, <1>2

LEMMA QuietPage ==
  ASSUME KeyPage(page), Secrets,
         \/ Keys!openCreate \/ Keys!closeForm \/ Keys!switchActive \/ Keys!handleSubmit
         \/ \E k \in PushKeys : Keys!openEdit(k) \/ Keys!askRotate(k) \/ Keys!askDelete(k)
         \/ \E c \in Channels : Keys!toggleChannel(c) \/ Keys!pickDefault(c)
         \/ Keys!cancelConfirm \/ Keys!confirmDelete \/ Keys!closeSecret \/ Keys!leave
  PROVE  PageQuiet
<1> DEFINE Fine(p) == /\ KeyPage(p) /\ p.raced = page.raced
                      /\ p.rotate \in {Null, page.rotate} \cup server.used
                      /\ p.secret \in {Null, page.secret}
<1>0. ASSUME NEW p, Keys!Gesture(p), Fine(p) PROVE PageQuiet
  BY <1>0, QuietGesture
<1>1. CASE Keys!openCreate
  <2>1. Fine([page EXCEPT !.dialog = TRUE, !.editing = Null, !.from = Keys!Absent,
                          !.selected = <<>>, !.default = Null, !.active = TRUE,
                          !.secret = Null, !.touched = {}])
    BY DEF KeyPage
  <2> HIDE DEF Fine
  <2> QED
    BY <1>0, <1>1, <2>1 DEF Keys!openCreate
<1>2. CASE Keys!closeForm
  <2>1. Fine(Keys!Closed(page))
    BY DEF KeyPage, Keys!Closed
  <2> HIDE DEF Fine
  <2> QED
    BY <1>0, <1>2, <2>1 DEF Keys!closeForm
<1>3. CASE Keys!switchActive
  <2>1. Fine([page EXCEPT !.active = ~@, !.touched = @ \cup {"active"}])
    BY DEF KeyPage
  <2> HIDE DEF Fine
  <2> QED
    BY <1>0, <1>3, <2>1 DEF Keys!switchActive
<1>4. CASE Keys!handleSubmit \/ Keys!confirmDelete
  BY <1>0, <1>4 DEF Keys!handleSubmit, Keys!confirmDelete
<1>5. ASSUME NEW k \in PushKeys, Keys!openEdit(k) PROVE PageQuiet
  <2>1. PICK order : Keys!Gesture(Keys!OpenedOn(k, order))
    BY <1>5 DEF Keys!openEdit
  <2>2. Fine(Keys!OpenedOn(k, order))
    BY DEF KeyPage, Keys!OpenedOn
  <2> HIDE DEF Fine
  <2> QED
    BY <1>0, <2>1, <2>2
<1>6. ASSUME NEW k \in PushKeys, Keys!askRotate(k) PROVE PageQuiet
  <2>1. k \in server.used
    BY <1>6 DEF Keys!askRotate, Keys!Listed, Secrets, KeysUsed
  <2>2. Fine([page EXCEPT !.rotate = k])
    BY <2>1 DEF KeyPage
  <2> HIDE DEF Fine
  <2> QED
    BY <1>0, <1>6, <2>2 DEF Keys!askRotate
<1>7. ASSUME NEW k \in PushKeys, Keys!askDelete(k) PROVE PageQuiet
  <2>1. Fine([page EXCEPT !.delete = k])
    BY DEF KeyPage
  <2> HIDE DEF Fine
  <2> QED
    BY <1>0, <1>7, <2>1 DEF Keys!askDelete
<1>8. ASSUME NEW c \in Channels, Keys!toggleChannel(c) PROVE PageQuiet
  <2> DEFINE x == IF c \in Keys!ToSet(page.selected) THEN Keys!Remove(page.selected, c)
                  ELSE Append(page.selected, c)
  <2>1. Keys!Gesture([page EXCEPT !.touched = @ \cup {"channels"}, !.selected = x])
    BY <1>8 DEF Keys!toggleChannel
  <2> HIDE DEF x
  <2>2. Fine([page EXCEPT !.touched = @ \cup {"channels"}, !.selected = x])
    BY DEF KeyPage
  <2> HIDE DEF Fine
  <2> QED
    BY <1>0, <2>1, <2>2
<1>9. ASSUME NEW c \in Channels, Keys!pickDefault(c) PROVE PageQuiet
  <2>1. Fine([page EXCEPT !.default = c, !.touched = @ \cup {"channels"}])
    BY DEF KeyPage
  <2> HIDE DEF Fine
  <2> QED
    BY <1>0, <1>9, <2>1 DEF Keys!pickDefault
<1>10. CASE Keys!cancelConfirm
  <2>1. Fine([page EXCEPT !.rotate = Null, !.delete = Null])
    BY DEF KeyPage
  <2> HIDE DEF Fine
  <2> QED
    BY <1>0, <1>10, <2>1 DEF Keys!cancelConfirm
<1>11. CASE Keys!closeSecret
  <2>1. Fine([page EXCEPT !.secret = Null])
    BY DEF KeyPage
  <2> HIDE DEF Fine
  <2> QED
    BY <1>0, <1>11, <2>1 DEF Keys!closeSecret
<1>12. CASE Keys!leave
  <2>1. Fine([Keys!Blank EXCEPT !.raced = page.raced])
    BY DEF KeyPage, Keys!Blank
  <2> HIDE DEF Fine
  <2> QED
    BY <1>0, <1>12, <2>1 DEF Keys!leave
<1> QED
  BY <1>1, <1>2, <1>3, <1>4, <1>5, <1>6, <1>7, <1>8, <1>9, <1>10, <1>11, <1>12

\* A key is created: its first secret is on its way.
LEMMA CreatedSecret ==
  ASSUME CallsOK, KeyServer, KeyPage(page), Secrets,
         NEW i \in DOMAIN calls, NEW k \in PushKeys, Keys!ServeCreate(i, k),
         Keys!ValidBinding(calls[i].arg)
  PROVE  Secrets'
<1> DEFINE r == Keys!Stored(calls[i].arg, TRUE, 1)
           out == [key |-> k, secret |-> 1]
<1>1. /\ calls[i].op = "create" /\ calls[i].at = "sent" /\ k \notin server.used
      /\ server' = [server EXCEPT !.key[k] = r, !.used = server.used \cup {k}]
      /\ AnsweredNow(i, "ok", out) /\ page' = page /\ cache' = cache
  BY DEF Keys!ServeCreate, Keys!Answer, AnsweredNow
<1>2. r.secret = 1
  BY DEF Keys!Stored
<1> HIDE DEF r
<1>3. /\ server'.used = server.used \cup {k}
      /\ server'.key[k].secret = 1
      /\ \A x \in PushKeys \ {k} : server'.key[x] = server.key[x]
  BY <1>1, <1>2 DEF KeyServer, KeyRows
<1>4. /\ DOMAIN calls' = DOMAIN calls
      /\ \A j \in DOMAIN calls \ {i} : Stands(j)
      /\ calls'[i].op = "create" /\ calls'[i].at = "ok" /\ calls'[i].out = out
  BY <1>1, StandsAnswered DEF Fields
<1>5. out.key = k /\ out.secret = 1
  OBVIOUS
<1> HIDE DEF out
<1>6. \A x : Carries(calls'[i], x) => x = k
  BY <1>4, <1>5 DEF Carries
<1>7. ASSUME NEW j \in DOMAIN calls \ {i}, NEW x, Carries(calls'[j], x)
      PROVE  /\ Carries(calls[j], x) /\ x # k /\ x \in server.used
             /\ calls'[j].at = calls[j].at /\ calls'[j].out = calls[j].out
  <2>1. Carries(calls[j], x) /\ calls'[j].at = calls[j].at /\ calls'[j].out = calls[j].out
    BY <1>4, <1>7 DEF Stands, Carries
  <2> QED
    BY <1>1, <2>1 DEF Secrets, CarriersWork
<1>8. ASSUME NEW s, s.key \in server.used, Works(s, server.key, page.raced)
      PROVE  Works(s, server'.key, page'.raced)
  <2>1. s.key \in PushKeys \ {k}
    BY <1>1, <1>8 DEF Secrets, KeysUsed
  <2> QED
    BY <1>1, <1>3, <1>8, <2>1 DEF Works
<1>9. KeysUsed'
  BY <1>1, <1>3 DEF Secrets, KeysUsed
<1>10. CarriersWork'
  <2>1. page.secret # Null => page.secret.key # k
    BY <1>1 DEF Secrets, ShownWorks
  <2>2. Works(out, server'.key, page'.raced)
    BY <1>3, <1>5 DEF Works
  <2>3. ASSUME NEW j \in DOMAIN calls', NEW x, Carries(calls'[j], x)
        PROVE  /\ x \in server'.used
               /\ calls'[j].at = "ok" => calls'[j].out.key = x
                                         /\ Works(calls'[j].out, server'.key, page'.raced)
               /\ page'.secret # Null /\ page'.secret.key = x => x \in page'.raced
    <3>1. CASE j = i
      BY <1>1, <1>3, <1>4, <1>5, <1>6, <2>1, <2>2, <2>3, <3>1
    <3>2. CASE j # i
      <4>1. /\ Carries(calls[j], x) /\ x \in server.used /\ j \in DOMAIN calls
            /\ calls'[j].at = calls[j].at /\ calls'[j].out = calls[j].out
        BY <1>4, <1>7, <2>3, <3>2
      <4>2. /\ calls[j].at = "ok" => calls[j].out.key = x
                                     /\ Works(calls[j].out, server.key, page.raced)
            /\ page.secret # Null /\ page.secret.key = x => x \in page.raced
        BY <4>1 DEF Secrets, CarriersWork
      <4> QED
        BY <1>1, <1>3, <1>8, <4>1, <4>2
    <3> QED
      BY <3>1, <3>2
  <2> QED
    BY <2>3 DEF CarriersWork
<1>11. CarriersApart'
  BY <1>1, <1>4, <1>6, <1>7 DEF Secrets, CarriersApart
<1>12. ShownWorks'
  BY <1>1, <1>3, <1>8 DEF Secrets, ShownWorks
<1> QED
  BY <1>9, <1>10, <1>11, <1>12 DEF Secrets

\* A key is rotated: what other answers bring of it was overtaken.
LEMMA RotatedSecret ==
  ASSUME CallsOK, KeyServer, KeyPage(page), Secrets,
         NEW i \in DOMAIN calls, Keys!ServeRotate(i), Keys!Live(calls[i].arg)
  PROVE  Secrets'
<1> DEFINE k == calls[i].arg
           new == server.key[k].secret + 1
           out == [key |-> k, secret |-> new]
<1>1. /\ calls[i].op = "rotate" /\ calls[i].at = "sent"
      /\ server' = [server EXCEPT !.key[k].secret = new]
      /\ AnsweredNow(i, "ok", out) /\ page' = page /\ cache' = cache
  BY DEF Keys!ServeRotate, Keys!Answer, AnsweredNow, Keys!AnsweredSecret
<1>2. /\ Carries(calls[i], k) /\ k \in server.used
      /\ page.secret # Null /\ page.secret.key = k => k \in page.raced
  BY <1>1 DEF Carries, Secrets, CarriersWork
<1>3. k \in PushKeys
  BY <1>2 DEF Secrets, KeysUsed
<1>4. /\ server'.used = server.used
      /\ server'.key[k].secret = new
      /\ \A x \in PushKeys \ {k} : server'.key[x] = server.key[x]
  BY <1>1, <1>3 DEF KeyServer, KeyRows, KeyRow
<1>5. /\ DOMAIN calls' = DOMAIN calls
      /\ \A j \in DOMAIN calls \ {i} : Stands(j)
      /\ calls'[i].op = "rotate" /\ calls'[i].at = "ok" /\ calls'[i].arg = k
      /\ calls'[i].out = out
  BY <1>1, StandsAnswered DEF Fields
<1>6. out.key = k /\ out.secret = new
  OBVIOUS
<1> HIDE DEF out, new, k
<1>7. \A x : Carries(calls'[i], x) => x = k
  BY <1>5 DEF Carries
<1>8. ASSUME NEW j \in DOMAIN calls \ {i}, NEW x, Carries(calls'[j], x)
      PROVE  /\ Carries(calls[j], x) /\ x \in server.used
             /\ x = k => k \in page.raced
             /\ calls'[j].at = calls[j].at /\ calls'[j].out = calls[j].out
  <2>1. Carries(calls[j], x) /\ calls'[j].at = calls[j].at /\ calls'[j].out = calls[j].out
    BY <1>5, <1>8 DEF Stands, Carries
  <2>2. x \in server.used
    BY <2>1 DEF Secrets, CarriersWork
  <2>3. x = k => k \in page.raced
    BY <1>2, <2>1 DEF Secrets, CarriersApart
  <2> QED
    BY <2>1, <2>2, <2>3
<1>9. ASSUME NEW s, s.key \in server.used, s.key = k => k \in page.raced,
             Works(s, server.key, page.raced)
      PROVE  Works(s, server'.key, page'.raced)
  <2>1. s.key \in PushKeys
    BY <1>9 DEF Secrets, KeysUsed
  <2> QED
    BY <1>1, <1>4, <1>9, <2>1 DEF Works
<1>10. KeysUsed'
  BY <1>1, <1>2, <1>4 DEF Secrets, KeysUsed
<1>11. CarriersWork'
  <2>1. Works(out, server'.key, page'.raced)
    BY <1>4, <1>6 DEF Works
  <2>2. ASSUME NEW j \in DOMAIN calls', NEW x, Carries(calls'[j], x)
        PROVE  /\ x \in server'.used
               /\ calls'[j].at = "ok" => calls'[j].out.key = x
                                         /\ Works(calls'[j].out, server'.key, page'.raced)
               /\ page'.secret # Null /\ page'.secret.key = x => x \in page'.raced
    <3>1. CASE j = i
      BY <1>1, <1>2, <1>4, <1>5, <1>6, <1>7, <2>1, <2>2, <3>1
    <3>2. CASE j # i
      <4>1. /\ Carries(calls[j], x) /\ x \in server.used /\ j \in DOMAIN calls
            /\ x = k => k \in page.raced
            /\ calls'[j].at = calls[j].at /\ calls'[j].out = calls[j].out
        BY <1>5, <1>8, <2>2, <3>2
      <4>2. /\ calls[j].at = "ok" => calls[j].out.key = x
                                     /\ Works(calls[j].out, server.key, page.raced)
            /\ page.secret # Null /\ page.secret.key = x => x \in page.raced
        BY <4>1 DEF Secrets, CarriersWork
      <4> QED
        BY <1>1, <1>4, <1>9, <4>1, <4>2
    <3> QED
      BY <3>1, <3>2
  <2> QED
    BY <2>2 DEF CarriersWork
<1>12. CarriersApart'
  BY <1>1, <1>5, <1>7, <1>8 DEF Secrets, CarriersApart
<1>13. ShownWorks'
  BY <1>1, <1>2, <1>4, <1>9 DEF Secrets, ShownWorks
<1> QED
  BY <1>10, <1>11, <1>12, <1>13 DEF Secrets

\* A rotation is asked for: it carries a secret from now on.
LEMMA AskedSecret ==
  ASSUME CallsOK, KeyPage(page), Secrets, Keys!confirmRotate
  PROVE  Secrets'
<1> DEFINE k == page.rotate
           x == IF Keys!SecretInFlight(k) THEN page.raced \cup {k} ELSE page.raced
<1>1. /\ k # Null /\ page.secret = Null /\ SentNow("rotate", k)
      /\ server' = server /\ cache' = cache
      /\ Keys!Gesture([page EXCEPT !.raced = x])
  BY DEF Keys!confirmRotate, SentNow, Keys!Send, Keys!Request
<1>2. x = page.raced \/ x = page.raced \cup {k}
  OBVIOUS
<1>3. ASSUME NEW j \in DOMAIN calls, Carries(calls[j], k) PROVE k \in x
  <2>1. Keys!SecretInFlight(k)
    BY <1>3 DEF Keys!SecretInFlight, Keys!InFlight, Carries
  <2> QED
    BY <2>1
<1> HIDE DEF x
<1>4. page'.raced = x /\ page'.rotate = k /\ page'.secret = Null
  BY <1>1 DEF Keys!Gesture, KeyPage
<1> HIDE DEF k
<1>5. k \in server.used
  BY <1>1 DEF k, Secrets, KeysUsed
<1>6. /\ \A j \in DOMAIN calls : Stands(j)
      /\ \A j \in DOMAIN calls' \ DOMAIN calls :
           calls'[j].op = "rotate" /\ calls'[j].arg = k /\ calls'[j].at = "sent"
      /\ \A i, j \in DOMAIN calls' \ DOMAIN calls : i = j
  <2>1. DOMAIN calls' = DOMAIN calls \cup {Len(calls) + 1}
    BY <1>1, SentCall DEF SentNow
  <2> QED
    BY <1>1, <2>1, StandsSent DEF Fields
<1>7. ASSUME NEW j \in DOMAIN calls' \ DOMAIN calls, NEW y, Carries(calls'[j], y)
      PROVE  y = k /\ calls'[j].at = "sent"
  BY <1>6, <1>7 DEF Carries
<1>8. ASSUME NEW j \in DOMAIN calls, NEW y, Carries(calls'[j], y)
      PROVE  /\ Carries(calls[j], y) /\ y \in server.used /\ (y = k => k \in x)
             /\ calls'[j].at = "ok" =>
                  calls'[j].out.key = y /\ Works(calls'[j].out, server.key, page.raced)
  <2>1. Carries(calls[j], y) /\ calls'[j].at = calls[j].at /\ calls'[j].out = calls[j].out
    BY <1>6, <1>8 DEF Stands, Carries
  <2> QED
    BY <1>3, <2>1 DEF Secrets, CarriersWork
<1>9. \A s : Works(s, server.key, page.raced) => Works(s, server'.key, page'.raced)
  BY <1>1, <1>2, <1>4 DEF Works
<1>10. KeysUsed' /\ ShownWorks'
  BY <1>1, <1>4, <1>5 DEF Secrets, KeysUsed, ShownWorks
<1>11. CarriersWork'
  BY <1>1, <1>4, <1>5, <1>7, <1>8, <1>9 DEF CarriersWork
<1>12. CarriersApart'
  <2> SUFFICES ASSUME NEW i \in DOMAIN calls', NEW j \in DOMAIN calls', NEW y,
                      Carries(calls'[i], y), Carries(calls'[j], y), i # j
               PROVE  y \in page'.raced
    BY DEF CarriersApart
  <2>1. CASE i \in DOMAIN calls /\ j \in DOMAIN calls
    BY <1>2, <1>4, <1>8, <2>1 DEF Secrets, CarriersApart
  <2>2. CASE i \notin DOMAIN calls \/ j \notin DOMAIN calls
    BY <1>4, <1>6, <1>7, <1>8, <2>2
  <2> QED
    BY <2>1, <2>2
<1> QED
  BY <1>10, <1>11, <1>12 DEF Secrets

\* An answer is dealt with: the secret it brought is shown, or nothing is.
LEMMA SettledSecret ==
  ASSUME CallsOK, KeyPage(page), KeyCalls, Secrets, NEW i \in DOMAIN calls, Keys!settle(i)
  PROVE  Secrets'
<1> DEFINE out == calls[i].out
<1>1. /\ SettledNow(i) /\ server' = server /\ cache' = cache
      /\ calls[i].at = "ok" \/ page' = page
      /\ page' = page \/ page' = Keys!OnSuccess(i)
      /\ calls[i].op \in KeyOps
  BY DEF Keys!settle, SettledNow, Keys!Settled, KeyCalls
<1>2. CallsQuiet
  BY <1>1, QuietCalls
<1>3. CASE PageQuiet
  BY <1>1, <1>2, <1>3, StillQuiet, QuietSecrets
<1>4. CASE calls[i].op = "update" /\ page' = Keys!OnSuccess(i)
  <2>1. page' = Keys!Closed(page)
    BY <1>4 DEF Keys!OnSuccess
  <2>2. PageQuiet
    BY <2>1 DEF Keys!Closed, KeyPage, PageQuiet
  <2> QED
    BY <1>3, <2>2
<1>5. CASE calls[i].op = "delete" /\ page' = Keys!OnSuccess(i)
  <2>1. page' = [page EXCEPT !.delete = Null]
    BY <1>5 DEF Keys!OnSuccess
  <2>2. PageQuiet
    BY <2>1 DEF KeyPage, PageQuiet
  <2> QED
    BY <1>3, <2>2
<1>6. CASE /\ calls[i].op \in {"create", "rotate"} /\ calls[i].at = "ok"
           /\ page' = Keys!OnSuccess(i)
  <2>1. /\ page'.secret = out /\ page'.raced = page.raced
        /\ page'.rotate \in {Null, page.rotate}
    BY <1>6 DEF Keys!OnSuccess, KeyPage
  <2> DEFINE k == IF calls[i].op = "create" THEN out.key ELSE calls[i].arg
  <2>2. Carries(calls[i], k)
    BY <1>6 DEF Carries
  <2>3. out.key = k /\ k \in server.used /\ Works(out, server.key, page.raced)
    BY <1>6, <2>2 DEF Secrets, CarriersWork
  <2> HIDE DEF k, out
  <2>4. KeysUsed'
    BY <1>1, <2>1 DEF Secrets, KeysUsed
  <2>5. ShownWorks'
    BY <1>1, <2>1, <2>3 DEF ShownWorks
  <2>6. ASSUME NEW j \in DOMAIN calls', NEW y, Carries(calls'[j], y)
        PROVE  /\ j \in DOMAIN calls \ {i} /\ Carries(calls[j], y)
               /\ calls'[j].at = "ok" => calls[j].at = "ok" /\ calls'[j].out = calls[j].out
    <3>1. j # i
      BY <1>1, <2>6, StandsSettled DEF Fields, Carries
    <3> QED
      BY <1>2, <2>6, <3>1 DEF CallsQuiet
  <2>7. CarriersApart'
    BY <2>1, <2>6 DEF Secrets, CarriersApart
  <2>8. CarriersWork'
    <3> SUFFICES ASSUME NEW j \in DOMAIN calls', NEW y, Carries(calls'[j], y)
                 PROVE  /\ y \in server.used
                        /\ calls'[j].at = "ok" => calls'[j].out.key = y
                             /\ Works(calls'[j].out, server.key, page.raced)
                        /\ out.key = y => y \in page.raced
      BY <1>1, <2>1 DEF CarriersWork
    <3>1. j \in DOMAIN calls \ {i} /\ Carries(calls[j], y)
      BY <2>6
    <3>2. out.key = y => y \in page.raced
      BY <2>2, <2>3, <3>1 DEF Secrets, CarriersApart
    <3> QED
      BY <2>6, <3>1, <3>2 DEF Secrets, CarriersWork
  <2> QED
    BY <2>4, <2>5, <2>7, <2>8 DEF Secrets
<1> QED
  BY <1>1, <1>3, <1>4, <1>5, <1>6, StillQuiet DEF KeyOps

\* Another session rotates a key: what carries, or shows, its old secret raced.
LEMMA RotatedByOthers ==
  ASSUME KeyServer, KeyPage(page), Secrets, NEW k \in PushKeys, Keys!RotatedElsewhere(k)
  PROVE  Secrets'
<1> DEFINE x == IF Keys!SecretOut(k) THEN page.raced \cup {k} ELSE page.raced
<1>1. /\ cache' = cache /\ calls' = calls /\ Keys!Live(k)
      /\ server' = [server EXCEPT !.key[k].secret = server.key[k].secret + 1,
                                  !.elsewhere = server.elsewhere + 1]
      /\ page' = [page EXCEPT !.raced = x]
  BY DEF Keys!RotatedElsewhere
<1>2. page.raced \subseteq x
  OBVIOUS
<1>3. Keys!SecretOut(k) => k \in x
  OBVIOUS
<1> HIDE DEF x
<1>4. page'.raced = x /\ page'.rotate = page.rotate /\ page'.secret = page.secret
  BY <1>1 DEF KeyPage
<1>5. /\ server'.used = server.used
      /\ \A y \in PushKeys \ {k} : server'.key[y] = server.key[y]
  BY <1>1 DEF KeyServer, KeyRows, KeyRow
<1>6. k \in server.used
  BY <1>1 DEF Keys!Live, Secrets, KeysUsed
<1>7. ASSUME NEW s, s.key \in server.used, s.key = k => k \in x,
             Works(s, server.key, page.raced)
      PROVE  Works(s, server'.key, page'.raced)
  <2>1. s.key \in PushKeys
    BY <1>7 DEF Secrets, KeysUsed
  <2> QED
    BY <1>2, <1>4, <1>5, <1>7, <2>1 DEF Works
<1>8. KeysUsed'
  BY <1>1, <1>4, <1>5, <1>6 DEF Secrets, KeysUsed
<1>9. CarriersWork'
  <2> SUFFICES ASSUME NEW i \in DOMAIN calls, NEW y, Carries(calls[i], y)
               PROVE  /\ y \in server.used
                      /\ calls[i].at = "ok" => calls[i].out.key = y
                                               /\ Works(calls[i].out, server'.key, page'.raced)
                      /\ page.secret # Null /\ page.secret.key = y => y \in x
    BY <1>1, <1>4, <1>5 DEF CarriersWork
  <2>1. /\ y \in server.used
        /\ calls[i].at = "ok" => calls[i].out.key = y
                                 /\ Works(calls[i].out, server.key, page.raced)
        /\ page.secret # Null /\ page.secret.key = y => y \in page.raced
    BY DEF Secrets, CarriersWork
  <2>2. calls[i].at = "ok" /\ y = k => k \in x
    BY <1>3, <2>1 DEF Carries, Keys!SecretOut, Keys!InFlight
  <2> QED
    BY <1>2, <1>7, <2>1, <2>2
<1>10. CarriersApart'
  BY <1>1, <1>2, <1>4 DEF Secrets, CarriersApart
<1>11. ShownWorks'
  <2>1. page.secret # Null /\ page.secret.key = k => k \in x
    BY <1>3 DEF Keys!SecretOut
  <2> QED
    BY <1>4, <1>5, <1>7, <2>1 DEF Secrets, ShownWorks
<1> QED
  BY <1>8, <1>9, <1>10, <1>11 DEF Secrets

LEMMA SecretsStep ==
  ASSUME CallsOK, KeyServer, KeyCache, KeyPage(page), KeyCalls, Secrets,
         [Keys!Next]_(Keys!vars)
  PROVE  Secrets'
<1>1. CASE UNCHANGED Keys!vars
  BY <1>1, StillQuiet, QuietCalls, QuietSecrets DEF Keys!vars
<1>2. CASE Keys!Elsewhere
  BY <1>2, StillQuiet, QuietServer, QuietCalls, QuietSecrets DEF Keys!Elsewhere
<1>3. CASE Keys!FetchKeys \/ Keys!FetchChannels
  <2>1. CacheQuiet
    BY <1>3, QuietFetch
  <2> QED
    BY <1>3, <2>1, StillQuiet, QuietCalls, QuietSecrets
       DEF Keys!FetchKeys, Keys!FetchChannels
<1>4. ASSUME PageQuiet, UNCHANGED <<server, cache>>, CallsQuiet PROVE Secrets'
  BY <1>4, StillQuiet, QuietSecrets
<1>5. CASE \/ Keys!openCreate \/ Keys!closeForm \/ Keys!switchActive
           \/ \E k \in PushKeys : Keys!openEdit(k) \/ Keys!askRotate(k) \/ Keys!askDelete(k)
           \/ \E c \in Channels : Keys!toggleChannel(c) \/ Keys!pickDefault(c)
           \/ Keys!cancelConfirm \/ Keys!closeSecret
  <2>1. PageQuiet
    BY <1>5, QuietPage
  <2>2. UNCHANGED <<server, cache, calls>>
    BY <1>5 DEF Keys!openCreate, Keys!closeForm, Keys!switchActive, Keys!openEdit,
                Keys!askRotate, Keys!askDelete, Keys!toggleChannel, Keys!pickDefault,
                Keys!cancelConfirm, Keys!closeSecret
  <2> QED
    BY <1>4, <2>1, <2>2, QuietCalls
<1>6. CASE Keys!leave
  <2>1. LeftNow
    BY <1>6 DEF Keys!leave, Keys!Abandon, LeftNow
  <2> QED
    BY <1>4, <1>6, <2>1, QuietPage, QuietCalls DEF Keys!leave
<1>7. CASE Keys!handleSubmit \/ Keys!confirmDelete
  <2>1. \E op, arg : SentNow(op, arg) /\ op # "rotate"
    <3>1. ASSUME NEW op, NEW arg, Keys!Send(op, arg) PROVE SentNow(op, arg)
      BY <3>1 DEF Keys!Send, Keys!Request, SentNow
    <3>2. CASE Keys!handleSubmit
      <4> DEFINE op == IF page.editing = Null THEN "create" ELSE "update"
      <4>1. SentNow(op, Keys!Payload) /\ op # "rotate"
        BY <3>1, <3>2 DEF Keys!handleSubmit
      <4> QED
        BY <4>1
    <3>3. CASE Keys!confirmDelete
      BY <3>1, <3>3 DEF Keys!confirmDelete
    <3> QED
      BY <1>7, <3>2, <3>3
  <2> QED
    BY <1>4, <1>7, <2>1, QuietPage, QuietCalls DEF Keys!handleSubmit, Keys!confirmDelete
<1>8. CASE Keys!confirmRotate
  BY <1>8, AskedSecret
<1>9. ASSUME NEW i \in Keys!InFlight, Keys!ServeUpdate(i) \/ Keys!ServeDelete(i)
      PROVE  Secrets'
  <2>1. /\ i \in DOMAIN calls /\ calls[i].at # "done" /\ UNCHANGED <<cache, page>>
        /\ \E at, out : AnsweredNow(i, at, out)
        /\ calls[i].op \notin {"create", "rotate"}
    BY <1>9 DEF Keys!InFlight, Keys!ServeUpdate, Keys!ServeDelete, Keys!Answer, AnsweredNow
  <2>2. ServerQuiet
    BY <1>9, QuietServer
  <2>3. CallsQuiet
    BY <2>1, QuietCalls
  <2> QED
    BY <2>1, <2>2, <2>3, StillQuiet, QuietSecrets
<1>10. ASSUME NEW i \in Keys!InFlight, AnsweredNow(i, "error", Null),
              UNCHANGED <<server, cache, page>>
       PROVE  Secrets'
  <2>1. i \in DOMAIN calls /\ calls[i].at # "done"
    BY DEF Keys!InFlight
  <2>2. CallsQuiet
    BY <1>10, <2>1, QuietCalls
  <2> QED
    BY <1>4, <1>10, <2>2, StillQuiet
<1>11. ASSUME NEW i \in Keys!InFlight, NEW k \in PushKeys, Keys!ServeCreate(i, k)
       PROVE  Secrets'
  <2>1. CASE Keys!ValidBinding(calls[i].arg)
    BY <1>11, <2>1, CreatedSecret DEF Keys!InFlight
  <2>2. CASE ~Keys!ValidBinding(calls[i].arg)
    BY <1>10, <1>11, <2>2 DEF Keys!ServeCreate, Keys!Answer, AnsweredNow
  <2> QED
    BY <2>1, <2>2
<1>12. ASSUME NEW i \in Keys!InFlight, Keys!ServeRotate(i) PROVE Secrets'
  <2>1. CASE Keys!Live(calls[i].arg)
    BY <1>12, <2>1, RotatedSecret DEF Keys!InFlight
  <2>2. CASE ~Keys!Live(calls[i].arg)
    BY <1>10, <1>12, <2>2 DEF Keys!ServeRotate, Keys!Answer, AnsweredNow
  <2> QED
    BY <2>1, <2>2
<1>13. ASSUME NEW i \in Keys!InFlight, Keys!settle(i) PROVE Secrets'
  BY <1>13, SettledSecret DEF Keys!InFlight
<1>14. ASSUME NEW i \in Keys!InFlight, Keys!lose(i) PROVE Secrets'
  BY <1>10, <1>14 DEF Keys!lose, Keys!Lose, Keys!Answer, AnsweredNow
<1>15. ASSUME NEW k \in PushKeys, Keys!RotatedElsewhere(k) PROVE Secrets'
  BY <1>15, RotatedByOthers
<1> QED
  BY <1>1, <1>2, <1>3, <1>5, <1>6, <1>7, <1>8, <1>9, <1>11, <1>12, <1>13, <1>14, <1>15
     DEF Keys!Next

\* The invariant: the form's, and the secrets'.
SecretsInv == KeyFormsInv /\ (area = "push-keys" => Secrets)

LEMMA SecretsStart == Init => SecretsInv
<1> SUFFICES ASSUME Init, area = "push-keys" PROVE Secrets
  BY KeyFormsStart DEF SecretsInv
<1>1. Keys!Init
  BY DEF Init
<1> DEFINE k == CHOOSE x \in PushKeys : TRUE
           row == [active |-> TRUE, channels |-> Channels,
                   default |-> Keys!Max(Channels), secret |-> 1]
<1>2. k \in PushKeys
  BY ConsoleAssumption
<1>3. server = [key |-> [x \in PushKeys |-> IF x = k THEN row ELSE Keys!Absent],
                used |-> {k}, listed |-> Channels, disabled |-> {}, elsewhere |-> 0]
  BY <1>1 DEF Keys!Init
<1>4. /\ cache = [keys |-> [x \in PushKeys |-> Keys!Absent], channels |-> {}]
      /\ page.rotate = Null /\ page.secret = Null /\ calls = <<>>
  BY <1>1 DEF Keys!Init, Keys!Blank
<1>5. Keys!Absent.secret = 0
  BY DEF Keys!Absent
<1> HIDE DEF k, row
<1>6. KeysUsed
  BY <1>2, <1>3, <1>4, <1>5 DEF KeysUsed
<1> QED
  BY <1>4, <1>6 DEF Secrets, CarriersWork, CarriersApart, ShownWorks

LEMMA SecretsInvStep == SecretsInv /\ [Next]_vars => SecretsInv'
<1> SUFFICES ASSUME SecretsInv, [Next]_vars, area' = "push-keys" PROVE Secrets'
  BY KeyFormsStep DEF SecretsInv
<1>1. area = "push-keys" /\ [Keys!Next]_(Keys!vars)
  BY OneArea, StepOfForm
<1> QED
  BY <1>1, SecretsStep DEF SecretsInv, KeyFormsInv

\* The dialog that shows a secret once shows the one the key answers to
\* (PushKeysPage.tsx: createMutation, rotateMutation, newKeyValue), as long as
\* the key is there, unless the key was rotated, by this page or by another
\* session, while another of its secrets was on its way or on the screen.
THEOREM ShownSecretWorks == Spec => []ShownSecretLive
<1>1. SecretsInv => ShownSecretLive
  BY DEF SecretsInv, Secrets, ShownWorks, Works, ShownSecretLive, Keys!ShownSecretLive,
         Keys!Live
<1> QED
  BY <1>1, SecretsStart, SecretsInvStep, PTL DEF Spec


=============================================================================
