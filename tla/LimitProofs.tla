----------------------------- MODULE LimitProofs -----------------------------
(***************************************************************************)
(* Proofs about the limits per minute, for any limits, any length of a     *)
(* minute, and any number of callers, seconds and evaluations.             *)
(***************************************************************************)
EXTENDS RateLimit, FiniteSetTheorems, SequenceTheorems, TLAPS

(* A limit is at least 1 (schemas/push_keys.py, schemas/channels.py: ge=1) *)
(* and there is one, of which the least is the setting for logins.         *)
LimitAssumption ==
  /\ Limits \subseteq Nat \ {0} /\ \E least \in Limits : \A n \in Limits : least =< n
  /\ Minute \in Nat \ {0} /\ MaxClock \in Nat

-----------------------------------------------------------------------------
(* The state.                                                              *)

Take == [who : 1..NumCallers, granted : BOOLEAN, at : Nat, name : Names,
         limit : Nat \ {0}, expires : Nat, late : BOOLEAN]

Caller == [at : {"idle", "named", "granted", "refused"}, name : Names, limit : Nat,
           due : Nat]

TypeOK ==
  /\ redis \in [kind : Kinds, count : [Names -> Nat], expires : [Names -> Nat]]
  /\ clock \in Nat /\ Window \in Names
  /\ callers \in [1..NumCallers -> Caller]
  /\ takes \in Seq(Take)

\* The minute it is.
Now == clock \div Minute

\* What a caller that is about to evaluate knows.
Knows ==
  \A c \in 1..NumCallers : callers[c].at = "named" =>
    /\ callers[c].limit \in LimitsOf(redis.kind)
    /\ IF redis.kind = "login" THEN callers[c].name = 0 ELSE callers[c].name <= Now

\* Evaluations are of the past, and none is before the minute it is named for.
Past ==
  \A j \in DOMAIN takes :
    /\ takes[j].at <= clock
    /\ IF redis.kind = "login" THEN takes[j].name = 0 /\ takes[j].limit = Min(Limits)
       ELSE /\ takes[j].name <= takes[j].at \div Minute
            /\ takes[j].late = (takes[j].name # takes[j].at \div Minute)

\* The slots granted under a name, and under a counter that expires at e.
Slots(n) == {j \in DOMAIN takes : takes[j].granted /\ takes[j].name = n}
Turn(e) == {j \in DOMAIN takes : takes[j].granted /\ takes[j].expires = e}

\* A counter that was used counts.
Counting == \A n \in Names : redis.expires[n] > 0 => redis.count[n] > 0

\* A counter never counts more than was granted, nor less in its own minute,
\* which it outlasts.
Counted ==
  redis.kind # "login" =>
    \A n \in Names :
      /\ current(n) <= Cardinality(Slots(n))
      /\ Now <= n => current(n) = Cardinality(Slots(n))
      /\ Slots(n) # {} => \A t \in Nat : t \div Minute <= n => t < redis.expires[n]

\* A slot was granted in a turn that a slot began: the counter expires a minute later.
Begun(j) ==
  \E k \in DOMAIN takes :
    /\ takes[k].granted /\ takes[k].expires = takes[j].expires
    /\ takes[k].at + Minute = takes[k].expires

\* The counters of logins take turns of a minute each.
Turns ==
  redis.kind = "login" =>
    /\ redis.expires[0] <= clock + Minute
    /\ clock < redis.expires[0] => redis.count[0] = Cardinality(Turn(redis.expires[0]))
    /\ \A e : Cardinality(Turn(e)) <= Min(Limits)
    /\ \A j \in DOMAIN takes : takes[j].granted =>
         /\ takes[j].at < takes[j].expires /\ takes[j].expires <= takes[j].at + Minute
         /\ takes[j].expires <= redis.expires[0]
    /\ \A j \in DOMAIN takes : takes[j].granted => Begun(j)
    /\ \A j, k \in DOMAIN takes : takes[j].granted /\ takes[k].granted =>
         \/ takes[j].expires = takes[k].expires
         \/ takes[j].expires + Minute <= takes[k].expires
         \/ takes[k].expires + Minute <= takes[j].expires

\* Who was refused waits until the counter that refused it is gone.
Waits ==
  \A j \in DOMAIN takes : ~takes[j].granted =>
    LET c == callers[takes[j].who] IN
    IF redis.kind = "channel"
    THEN /\ c.at # "refused"
         /\ c.at = "idle" => takes[j].expires <= c.due
         /\ c.at = "named" => takes[j].expires <= clock
    ELSE c.at = "refused"

IInv ==
  /\ TypeOK /\ Knows /\ Past /\ Counting /\ Counted /\ Turns /\ Waits
  /\ LimitHonoured /\ RefusedForReason /\ DeferralOutlasts

-----------------------------------------------------------------------------
(* Minutes, counters and evaluations.                                      *)

\* A second is in one minute, and two of one minute are less than one apart.
LEMMA Minutes ==
  ASSUME LimitAssumption, NEW t \in Nat, NEW u \in Nat
  PROVE  /\ t \div Minute \in Nat
         /\ t <= u => t \div Minute <= u \div Minute
         /\ t \div Minute <= u \div Minute => t < u + Minute
<1> DEFINE m == Minute
<1>1. m \in Nat \ {0}
  BY DEF LimitAssumption
<1> HIDE DEF m
<1>2. t \div m \in Nat
  BY <1>1
<1>3. t <= u => t \div m <= u \div m
  BY <1>1
<1>4. t \div m <= u \div m => t < u + m
  BY <1>1
<1> QED
  BY <1>2, <1>3, <1>4 DEF m

\* The names of counters are those of the minutes.
LEMMA MinuteNames == LimitAssumption => Names \subseteq Nat /\ 0 \in Names
<1> SUFFICES ASSUME LimitAssumption PROVE Names \subseteq Nat /\ 0 \in Names
  OBVIOUS
<1>1. MaxClock \div Minute \in Nat
  BY Minutes DEF LimitAssumption
<1> QED
  BY <1>1 DEF Names

\* What limit a caller may have read.
LEMMA LimitRead ==
  ASSUME LimitAssumption, NEW kind, NEW limit \in LimitsOf(kind)
  PROVE  limit \in Nat \ {0} /\ (kind = "login" => limit = Min(Limits))
<1>1. Min(Limits) \in Limits
  BY DEF LimitAssumption, Min
<1> QED
  BY <1>1 DEF LimitAssumption, LimitsOf

\* What an evaluation left behind.
LEMMA TakesTyped ==
  ASSUME TypeOK, NEW j \in DOMAIN takes
  PROVE  /\ takes[j].who \in 1..NumCallers /\ takes[j].granted \in BOOLEAN
         /\ takes[j].at \in Nat /\ takes[j].name \in Names
         /\ takes[j].limit \in Nat \ {0} /\ takes[j].expires \in Nat
         /\ takes[j].late \in BOOLEAN
<1>1. takes[j] \in Take
  BY ElementOfSeq, LenProperties DEF TypeOK
<1> QED
  BY <1>1 DEF Take

\* The sets of evaluations are finite.
LEMMA FiniteTakes ==
  ASSUME TypeOK, NEW T, T \subseteq DOMAIN takes
  PROVE  IsFiniteSet(T) /\ Cardinality(T) \in Nat
<1>1. DOMAIN takes = 1..Len(takes) /\ Len(takes) \in Nat
  BY LenProperties DEF TypeOK
<1>2. IsFiniteSet(DOMAIN takes)
  BY <1>1, FS_Interval
<1> QED
  BY <1>2, FS_Subset, FS_CardinalityType

\* Evaluation i is new and is r; the others stay.
Evaluated(i, r) ==
  /\ i \in Nat /\ i \notin DOMAIN takes /\ DOMAIN takes' = DOMAIN takes \cup {i}
  /\ 1..i = DOMAIN takes \cup {i}
  /\ takes'[i] = r
  /\ \A j \in DOMAIN takes :
       /\ takes'[j] = takes[j] /\ j \in Nat /\ j < i /\ ~(i < j)
       /\ 1..j \subseteq DOMAIN takes

LEMMA Appended ==
  ASSUME TypeOK, NEW r \in Take, takes' = Append(takes, r)
  PROVE  takes' \in Seq(Take) /\ Evaluated(Len(takes) + 1, r)
<1>1. takes \in Seq(Take) /\ Len(takes) \in Nat /\ DOMAIN takes = 1..Len(takes)
  BY LenProperties DEF TypeOK
<1>2. /\ takes' \in Seq(Take) /\ Len(takes') = Len(takes) + 1
      /\ \A j \in 1..Len(takes) : takes'[j] = takes[j]
      /\ takes'[Len(takes) + 1] = r
  BY <1>1, AppendProperties
<1>3. DOMAIN takes' = 1..(Len(takes) + 1)
  BY <1>2, LenProperties
<1> QED
  BY <1>1, <1>2, <1>3 DEF Evaluated

\* What is known of a counter.
LEMMA Counter ==
  ASSUME LimitAssumption, TypeOK, Counting, NEW n \in Names
  PROVE  /\ redis.count[n] \in Nat /\ redis.expires[n] \in Nat /\ current(n) \in Nat
         /\ current(n) = 0 <=> clock >= redis.expires[n]
         /\ current(n) > 0 => current(n) = redis.count[n] /\ Expiry(n) = redis.expires[n]
         /\ current(n) = 0 => Expiry(n) = clock + Minute
         /\ Expiry(n) \in Nat /\ clock < Expiry(n)
<1>1. /\ redis.count[n] \in Nat /\ redis.expires[n] \in Nat /\ clock \in Nat
      /\ Minute \in Nat \ {0}
  BY DEF TypeOK, LimitAssumption
<1>2. redis.expires[n] > 0 => redis.count[n] > 0
  BY DEF Counting
<1> QED
  BY <1>1, <1>2 DEF current, Expiry, ttl_seconds

-----------------------------------------------------------------------------
(* The properties, in terms of sets of evaluations up to the i-th.         *)

InLast(i) == {j \in 1..i : takes[j].granted /\ takes[j].at + Minute > takes[i].at}
OnTime(i) == {j \in 1..i : takes[j].granted /\ ~takes[j].late /\ takes[j].name = takes[i].name}
OfName(i) == {j \in 1..i : takes[j].granted /\ takes[j].name = takes[i].name}
InMinute(i) ==
  {j \in 1..i : takes[j].granted /\ takes[j].at \div Minute = takes[i].at \div Minute}

Honoured(i) ==
  takes[i].granted =>
    IF redis.kind = "login" THEN Cardinality(InLast(i)) < 2 * takes[i].limit
    ELSE ~takes[i].late => Cardinality(OnTime(i)) <= takes[i].limit

UsedUp(i) ==
  ~takes[i].granted =>
    takes[i].limit <= IF redis.kind = "login" THEN Cardinality(InLast(i))
                      ELSE IF takes[i].late THEN Cardinality(OfName(i))
                      ELSE Cardinality(InMinute(i))

LEMMA Spelled ==
  /\ LimitHonoured <=> \A i \in DOMAIN takes : Honoured(i)
  /\ RefusedForReason <=> \A i \in DOMAIN takes : UsedUp(i)
<1>1. LimitHonoured <=> \A i \in DOMAIN takes : Honoured(i)
  BY DEF LimitHonoured, Granted, Honoured, InLast, OnTime
<1>2. ASSUME NEW i
      PROVE  {j \in 1..i : takes[j].granted /\
                 (IF redis.kind = "login" THEN takes[j].at + Minute > takes[i].at
                  ELSE IF takes[i].late THEN takes[j].name = takes[i].name
                  ELSE takes[j].at \div Minute = takes[i].at \div Minute)}
             = IF redis.kind = "login" THEN InLast(i)
               ELSE IF takes[i].late THEN OfName(i) ELSE InMinute(i)
  <2>1. CASE redis.kind = "login"
    BY <2>1 DEF InLast
  <2>2. CASE redis.kind # "login" /\ takes[i].late
    BY <2>2 DEF OfName
  <2>3. CASE redis.kind # "login" /\ ~takes[i].late
    BY <2>3 DEF InMinute
  <2> QED
    BY <2>1, <2>2, <2>3
<1>3. RefusedForReason <=> \A i \in DOMAIN takes : UsedUp(i)
  BY <1>2 DEF RefusedForReason, Granted, UsedUp
<1> QED
  BY <1>1, <1>3

\* What held of an evaluation holds ever after.
LEMMA EarlierStand ==
  ASSUME TypeOK, NEW i, NEW r, Evaluated(i, r), redis'.kind = redis.kind,
         NEW j \in DOMAIN takes
  PROVE  Honoured(j)' = Honoured(j) /\ UsedUp(j)' = UsedUp(j)
<1>1. /\ 1..j \subseteq DOMAIN takes /\ takes'[j] = takes[j]
      /\ \A k \in 1..j : takes'[k] = takes[k]
  BY DEF Evaluated
<1>2. /\ InLast(j)' = InLast(j) /\ OnTime(j)' = OnTime(j)
      /\ OfName(j)' = OfName(j) /\ InMinute(j)' = InMinute(j)
  BY <1>1 DEF InLast, OnTime, OfName, InMinute
<1> QED
  BY <1>1, <1>2 DEF Honoured, UsedUp

-----------------------------------------------------------------------------
(* The invariant holds at the start ...                                    *)

LEMMA LimitStart == ASSUME LimitAssumption PROVE Init => IInv
<1> SUFFICES ASSUME Init PROVE IInv
  OBVIOUS
<1>1. /\ redis.kind \in Kinds
      /\ redis = [kind |-> redis.kind, count |-> [n \in Names |-> 0],
                  expires |-> [n \in Names |-> 0]]
      /\ clock \in 0..(Minute - 1) /\ takes = <<>>
      /\ callers = [c \in 1..NumCallers |-> Idle]
  BY DEF Init
<1>2. clock \in Nat /\ Minute \in Nat \ {0} /\ clock < Minute
  BY <1>1 DEF LimitAssumption
<1>3. clock \div Minute = 0
  <2> DEFINE m == Minute
  <2> HIDE DEF m
  <2>1. m \in Nat \ {0} /\ clock \in Nat /\ clock < m => clock \div m = 0
    OBVIOUS
  <2> QED
    BY <1>2, <2>1 DEF m
<1>4. 0 \in Names /\ Names \subseteq Nat
  BY MinuteNames
<1>5. TypeOK
  BY <1>1, <1>2, <1>3, <1>4 DEF TypeOK, Window, Caller, Idle
<1>6. Knows /\ Past /\ Waits /\ LimitHonoured /\ RefusedForReason /\ DeferralOutlasts
  BY <1>1 DEF Knows, Past, Waits, LimitHonoured, RefusedForReason, DeferralOutlasts, Idle
<1>7. /\ \A n \in Names : redis.count[n] = 0 /\ redis.expires[n] = 0 /\ current(n) = 0
      /\ \A n : Slots(n) = {} /\ Turn(n) = {}
      /\ Cardinality({}) = 0
  BY <1>1, FS_EmptySet DEF current, Slots, Turn
<1>8. Counting /\ Counted
  BY <1>7 DEF Counting, Counted
<1>9. Turns
  <2>1. Min(Limits) \in Nat \ {0}
    BY LimitRead DEF LimitsOf
  <2> QED
    BY <1>1, <1>2, <1>4, <1>7, <2>1 DEF Turns
<1> QED
  BY <1>5, <1>6, <1>8, <1>9 DEF IInv

-----------------------------------------------------------------------------
(* ... a caller that reads its limit keeps it ...                          *)

LEMMA NameStep ==
  ASSUME LimitAssumption, IInv, NEW c \in 1..NumCallers, Name(c)
  PROVE  IInv'
<1> DEFINE Read(limit) == [at |-> "named", name |-> Window, limit |-> limit, due |-> 0]
<1>1. PICK limit \in LimitsOf(redis.kind) : callers' = [callers EXCEPT ![c] = Read(limit)]
  BY DEF Name
<1>2. /\ callers[c].at = "idle" /\ clock >= callers[c].due
      /\ UNCHANGED <<redis, clock, takes>>
  BY DEF Name
<1>3. TypeOK /\ limit \in Nat \ {0}
  BY <1>1, LimitRead DEF IInv
<1>4. Read(limit) \in Caller
  BY <1>3 DEF Caller, TypeOK
<1>5. TypeOK'
  BY <1>1, <1>2, <1>3, <1>4 DEF TypeOK, Window
<1>6. /\ callers'[c] = Read(limit)
      /\ \A d \in (1..NumCallers) \ {c} : callers'[d] = callers[d]
  BY <1>1, <1>3 DEF TypeOK
<1>7. Now \in Nat
  BY <1>3, Minutes DEF Now, TypeOK
<1>8. Knows'
  <2>1. IF redis.kind = "login" THEN Window = 0 ELSE Window = Now
    BY DEF Window, Now
  <2>2. \A d \in 1..NumCallers : callers'[d].at = "named" =>
          /\ callers'[d].limit \in LimitsOf(redis.kind)
          /\ IF redis.kind = "login" THEN callers'[d].name = 0 ELSE callers'[d].name <= Now
    BY <1>1, <1>6, <1>7, <2>1 DEF IInv, Knows
  <2> QED
    BY <1>2, <2>2 DEF Knows, Now
<1>9. Waits'
  <2>1. ASSUME NEW j \in DOMAIN takes, ~takes[j].granted, takes[j].who = c
        PROVE  redis.kind = "channel" /\ takes[j].expires <= clock
    <3>1. redis.kind = "channel" /\ takes[j].expires <= callers[c].due
      BY <1>2, <2>1 DEF IInv, Waits
    <3>2. takes[j].expires \in Nat /\ clock \in Nat /\ callers[c].due \in Nat
      BY <1>3, <2>1, TakesTyped DEF TypeOK, Caller
    <3> QED
      BY <1>2, <3>1, <3>2
  <2>2. \A j \in DOMAIN takes : takes[j].who \in 1..NumCallers
    BY <1>3, TakesTyped
  <2> QED
    BY <1>2, <1>6, <2>1, <2>2 DEF IInv, Waits
<1>10. (Past /\ Counting /\ Counted /\ Turns)'
  <2>1. (Past /\ Counting /\ Counted)'
    BY <1>2 DEF IInv, Past, Counting, Counted, Now, Slots, current
  <2>2. \A j : Begun(j)' = Begun(j)
    BY <1>2 DEF Begun
  <2>3. Turns'
    BY <1>2, <2>2 DEF IInv, Turns, Turn
  <2> QED
    BY <2>1, <2>3
<1>11. (LimitHonoured /\ RefusedForReason /\ DeferralOutlasts)'
  BY <1>2 DEF IInv, LimitHonoured, RefusedForReason, DeferralOutlasts, Granted
<1> QED
  BY <1>5, <1>8, <1>9, <1>10, <1>11 DEF IInv

-----------------------------------------------------------------------------
(* ... as does a second that passes ...                                    *)

LEMMA TickStep ==
  ASSUME LimitAssumption, IInv, Tick
  PROVE  IInv'
<1>1. clock < MaxClock /\ clock' = clock + 1 /\ UNCHANGED <<redis, callers, takes>>
  BY DEF Tick
<1>2. /\ TypeOK /\ clock \in Nat /\ clock' \in Nat /\ clock <= clock'
      /\ MaxClock \in Nat /\ clock' <= MaxClock /\ Minute \in Nat \ {0}
  BY <1>1 DEF IInv, TypeOK, LimitAssumption
<1>3. /\ Now \in Nat /\ Now' \in Nat /\ Now <= Now' /\ Now' <= MaxClock \div Minute
      /\ MaxClock \div Minute \in Nat
  BY <1>2, Minutes DEF Now
<1>4. Names \subseteq Nat /\ 0 \in Names /\ Now' \in Names
  BY <1>3, MinuteNames DEF Names
<1>5. TypeOK'
  BY <1>1, <1>2, <1>4 DEF TypeOK, Window, Now
<1>6. Knows'
  <2>1. \A d \in 1..NumCallers : callers[d].name \in Nat
    BY <1>2, <1>4 DEF TypeOK, Caller
  <2>2. \A d \in 1..NumCallers : callers[d].name <= Now => callers[d].name <= Now'
    BY <1>3, <2>1
  <2> QED
    BY <1>1, <2>2 DEF IInv, Knows
<1>7. \A j \in DOMAIN takes : takes[j].at \in Nat /\ takes[j].expires \in Nat
  BY <1>2, TakesTyped
<1>8. Past'
  BY <1>1, <1>2, <1>7 DEF IInv, Past
<1>9. Waits'
  BY <1>1, <1>2, <1>7 DEF IInv, Waits
<1>10. Counting' /\ (LimitHonoured /\ RefusedForReason /\ DeferralOutlasts)'
  BY <1>1 DEF IInv, Counting, LimitHonoured, RefusedForReason, DeferralOutlasts, Granted
<1>11. Counted'
  <2> SUFFICES ASSUME redis.kind # "login", NEW n \in Names
               PROVE  /\ current(n)' <= Cardinality(Slots(n))
                      /\ Now' <= n => current(n)' = Cardinality(Slots(n))
                      /\ Slots(n) # {} => \A t \in Nat : t \div Minute <= n => t < redis.expires[n]
    BY <1>1 DEF Counted, Slots
  <2>1. /\ current(n) <= Cardinality(Slots(n))
        /\ Now <= n => current(n) = Cardinality(Slots(n))
        /\ Slots(n) # {} => \A t \in Nat : t \div Minute <= n => t < redis.expires[n]
    BY DEF IInv, Counted
  <2>2. n \in Nat /\ Cardinality(Slots(n)) \in Nat /\ (Slots(n) = {} => Cardinality(Slots(n)) = 0)
    BY <1>2, <1>4, FiniteTakes, FS_EmptySet DEF Slots
  <2>3. redis.expires[n] \in Nat /\ redis.count[n] \in Nat
    BY <1>2 DEF TypeOK
  <2>4. current(n)' = 0 \/ current(n)' = current(n)
    BY <1>1, <1>2, <2>3 DEF current
  <2>5. ASSUME Now' <= n PROVE current(n)' = Cardinality(Slots(n))
    <3>1. Now <= n
      BY <1>3, <2>2, <2>5
    <3>2. CASE Slots(n) = {}
      BY <2>1, <2>2, <2>4, <3>1, <3>2
    <3>3. CASE Slots(n) # {}
      <4>1. clock' < redis.expires[n]
        BY <1>2, <2>1, <2>5, <3>3 DEF Now
      <4>2. current(n)' = current(n)
        BY <1>1, <1>2, <2>3, <4>1 DEF current
      <4> QED
        BY <2>1, <3>1, <4>2
    <3> QED
      BY <3>2, <3>3
  <2> QED
    BY <2>1, <2>2, <2>4, <2>5
<1>12. Turns'
  <2>1. redis.expires[0] \in Nat
    BY <1>2, <1>4 DEF TypeOK
  <2>2. \A e : Turn(e)' = Turn(e)
    BY <1>1 DEF Turn
  <2>3. /\ redis.expires[0] <= clock + Minute => redis.expires[0] <= clock' + Minute
        /\ clock' < redis.expires[0] => clock < redis.expires[0]
    BY <1>2, <2>1
  <2>4. \A j : Begun(j)' = Begun(j)
    BY <1>1 DEF Begun
  <2> QED
    BY <1>1, <2>2, <2>3, <2>4 DEF IInv, Turns
<1> QED
  BY <1>5, <1>6, <1>8, <1>9, <1>10, <1>11, <1>12 DEF IInv

-----------------------------------------------------------------------------
(* ... a slot that is granted ...                                          *)

LEMMA SpelledNext ==
  /\ LimitHonoured' <=> \A i \in DOMAIN takes' : Honoured(i)'
  /\ RefusedForReason' <=> \A i \in DOMAIN takes' : UsedUp(i)'
<1>1. LimitHonoured' <=> \A i \in DOMAIN takes' : Honoured(i)'
  BY DEF LimitHonoured, Granted, Honoured, InLast, OnTime
<1>2. ASSUME NEW i
      PROVE  {j \in 1..i : takes'[j].granted /\
                 (IF redis'.kind = "login" THEN takes'[j].at + Minute > takes'[i].at
                  ELSE IF takes'[i].late THEN takes'[j].name = takes'[i].name
                  ELSE takes'[j].at \div Minute = takes'[i].at \div Minute)}
             = IF redis'.kind = "login" THEN InLast(i)'
               ELSE IF takes'[i].late THEN OfName(i)' ELSE InMinute(i)'
  <2>1. CASE redis'.kind = "login"
    BY <2>1 DEF InLast
  <2>2. CASE redis'.kind # "login" /\ takes'[i].late
    BY <2>2 DEF OfName
  <2>3. CASE redis'.kind # "login" /\ ~takes'[i].late
    BY <2>3 DEF InMinute
  <2> QED
    BY <2>1, <2>2, <2>3
<1>3. RefusedForReason' <=> \A i \in DOMAIN takes' : UsedUp(i)'
  BY <1>2 DEF RefusedForReason, Granted, UsedUp
<1> QED
  BY <1>1, <1>3

\* A caller evaluates, and evaluation i is r.
Evaluates(c, i, r) ==
  /\ Evaluated(i, r) /\ r \in Take /\ clock' = clock
  /\ r.who = c /\ r.at = clock /\ r.name = callers[c].name /\ r.limit = callers[c].limit
  /\ r.late = (callers[c].name # Window)
  /\ callers[c].at = "named"

\* The record a caller that evaluates appends.
Evaluation(c, granted, expires) ==
  [who |-> c, granted |-> granted, at |-> clock, name |-> callers[c].name,
   limit |-> callers[c].limit, expires |-> expires, late |-> callers[c].name # Window]

LEMMA Evaluating ==
  ASSUME LimitAssumption, TypeOK, Knows, NEW c \in 1..NumCallers, callers[c].at = "named",
         NEW granted \in BOOLEAN, NEW expires \in Nat, Taken(c, granted, expires),
         clock' = clock
  PROVE  /\ takes' \in Seq(Take)
         /\ Evaluates(c, Len(takes) + 1, Evaluation(c, granted, expires))
<1> DEFINE r == Evaluation(c, granted, expires)
<1>1. takes' = Append(takes, r)
  BY DEF Taken, Evaluation
<1>2. /\ callers[c].name \in Names /\ clock \in Nat
      /\ (callers[c].name # Window) \in BOOLEAN
  BY DEF TypeOK, Caller
<1>3. callers[c].limit \in Nat \ {0}
  BY LimitRead DEF Knows
<1>4. /\ r \in Take /\ r.who = c /\ r.at = clock /\ r.name = callers[c].name
      /\ r.limit = callers[c].limit /\ r.late = (callers[c].name # Window)
  BY <1>2, <1>3 DEF Take, Evaluation
<1> QED
  BY <1>1, <1>4, Appended DEF Evaluates

\* What any evaluation keeps.
LEMMA PastStep ==
  ASSUME LimitAssumption, IInv, NEW c \in 1..NumCallers, NEW i, NEW r, Evaluates(c, i, r),
         redis'.kind = redis.kind
  PROVE  Past'
<1>1. IF redis.kind = "login" THEN r.name = 0 /\ r.limit = Min(Limits)
      ELSE r.name <= Now /\ r.late = (r.name # Now)
  BY LimitRead DEF IInv, Knows, Evaluates, Window, Now
<1>2. clock \in Nat
  BY DEF IInv, TypeOK
<1>3. ASSUME NEW j \in DOMAIN takes'
      PROVE  /\ takes'[j].at <= clock
             /\ IF redis.kind = "login"
                THEN takes'[j].name = 0 /\ takes'[j].limit = Min(Limits)
                ELSE /\ takes'[j].name <= takes'[j].at \div Minute
                     /\ takes'[j].late = (takes'[j].name # takes'[j].at \div Minute)
  <2>1. CASE j = i
    BY <1>1, <1>2, <2>1 DEF Evaluates, Evaluated, Now
  <2>2. CASE j # i
    BY <1>3, <2>2 DEF Evaluates, Evaluated, IInv, Past
  <2> QED
    BY <2>1, <2>2
<1> QED
  BY <1>3 DEF Past, Evaluates

\* The sets of granted slots that evaluation i adds to.
LEMMA SlotsStep ==
  ASSUME TypeOK, NEW i, NEW r, Evaluated(i, r), NEW x
  PROVE  /\ Slots(x)' = IF r.granted /\ r.name = x THEN Slots(x) \cup {i} ELSE Slots(x)
         /\ Turn(x)' = IF r.granted /\ r.expires = x THEN Turn(x) \cup {i} ELSE Turn(x)
         /\ IsFiniteSet(Slots(x)) /\ IsFiniteSet(Turn(x)) /\ i \notin Slots(x) /\ i \notin Turn(x)
         /\ Cardinality(Slots(x)) \in Nat /\ Cardinality(Turn(x)) \in Nat
         /\ Cardinality(Slots(x) \cup {i}) = Cardinality(Slots(x)) + 1
         /\ Cardinality(Turn(x) \cup {i}) = Cardinality(Turn(x)) + 1
<1>1. /\ IsFiniteSet(Slots(x)) /\ IsFiniteSet(Turn(x)) /\ i \notin Slots(x) /\ i \notin Turn(x)
      /\ Cardinality(Slots(x)) \in Nat /\ Cardinality(Turn(x)) \in Nat
  BY FiniteTakes DEF Slots, Turn, Evaluated
<1>2. Slots(x)' = IF r.granted /\ r.name = x THEN Slots(x) \cup {i} ELSE Slots(x)
  BY DEF Slots, Evaluated
<1>3. Turn(x)' = IF r.granted /\ r.expires = x THEN Turn(x) \cup {i} ELSE Turn(x)
  BY DEF Turn, Evaluated
<1> QED
  BY <1>1, <1>2, <1>3, FS_AddElement

\* A grant counts, and the counter it counts in is live.
GrantOf(c, i, r) ==
  /\ Evaluates(c, i, r) /\ r.granted /\ r.expires = Expiry(r.name)
  /\ current(r.name) < r.limit
  /\ redis'.kind = redis.kind
  /\ redis'.count = [redis.count EXCEPT ![r.name] = current(r.name) + 1]
  /\ redis'.expires = [redis.expires EXCEPT ![r.name] = Expiry(r.name)]

LEMMA GrantCounted ==
  ASSUME LimitAssumption, IInv, NEW c \in 1..NumCallers, NEW i, NEW r, GrantOf(c, i, r)
  PROVE  Counting' /\ Counted'
<1> DEFINE n == r.name
<1>1. /\ TypeOK /\ Evaluated(i, r) /\ r \in Take /\ n \in Names /\ r.granted
      /\ clock' = clock /\ clock \in Nat /\ Counting
  BY DEF GrantOf, Evaluates, Take, IInv, TypeOK
<1>2. /\ redis.count[n] \in Nat /\ redis.expires[n] \in Nat /\ current(n) \in Nat
      /\ current(n) > 0 => Expiry(n) = redis.expires[n]
      /\ current(n) = 0 => Expiry(n) = clock + Minute
      /\ Expiry(n) \in Nat /\ clock < Expiry(n)
  BY <1>1, Counter
<1>3. /\ redis'.count[n] = current(n) + 1 /\ redis'.expires[n] = Expiry(n)
      /\ \A m \in Names \ {n} : /\ redis'.count[m] = redis.count[m]
                                /\ redis'.expires[m] = redis.expires[m]
  BY <1>1 DEF GrantOf, TypeOK
<1>4. Counting'
  BY <1>1, <1>2, <1>3 DEF Counting
<1>5. current(n)' = current(n) + 1
  BY <1>1, <1>2, <1>3 DEF current
<1>6. ASSUME NEW m \in Names, redis.kind # "login"
      PROVE  /\ current(m)' <= Cardinality(Slots(m))'
             /\ Now' <= m => current(m)' = Cardinality(Slots(m))'
             /\ Slots(m)' # {} => \A t \in Nat : t \div Minute <= m => t < redis'.expires[m]
  <2>1. /\ current(m) <= Cardinality(Slots(m))
        /\ Now <= m => current(m) = Cardinality(Slots(m))
        /\ Slots(m) # {} => \A t \in Nat : t \div Minute <= m => t < redis.expires[m]
    BY <1>6 DEF IInv, Counted
  <2>2. Now' = Now
    BY <1>1 DEF Now
  <2>3. CASE m # n
    <3>1. Slots(m)' = Slots(m)
      BY <1>1, <2>3, SlotsStep
    <3>2. current(m)' = current(m)
      BY <1>1, <1>3, <2>3 DEF current
    <3> QED
      BY <1>3, <2>1, <2>2, <2>3, <3>1, <3>2
  <2>4. CASE m = n
    <3>1. /\ Cardinality(Slots(m))' = Cardinality(Slots(m)) + 1
          /\ Cardinality(Slots(m)) \in Nat
          /\ Slots(m) = {} => Cardinality(Slots(m)) = 0
      BY <1>1, <2>4, SlotsStep, FS_EmptySet
    <3>2. ASSUME NEW t \in Nat, t \div Minute <= m PROVE t < redis'.expires[m]
      <4>1. CASE current(n) > 0
        BY <1>2, <1>3, <2>1, <2>4, <3>1, <3>2, <4>1
      <4>2. CASE current(n) = 0
        <5>1. n <= Now /\ n \in Nat /\ Now \in Nat /\ t \div Minute \in Nat
          BY <1>1, <1>6, MinuteNames, Minutes DEF GrantOf, Evaluates, IInv, Knows, Now
        <5>2. t \div Minute <= Now
          BY <2>4, <3>2, <5>1
        <5> QED
          BY <1>1, <1>2, <1>3, <2>4, <4>2, <5>2, Minutes DEF Now
      <4> QED
        BY <1>2, <4>1, <4>2
    <3>3. /\ current(m) + 1 <= Cardinality(Slots(m)) + 1
          /\ Now <= m => current(m) + 1 = Cardinality(Slots(m)) + 1
      BY <1>2, <2>1, <2>4, <3>1
    <3> QED
      BY <1>5, <2>2, <2>4, <3>1, <3>2, <3>3
  <2> QED
    BY <2>3, <2>4
<1> QED
  BY <1>4, <1>6 DEF Counted, GrantOf

\* A login's grant joins the turn of its counter, or begins the next.
LEMMA GrantTurns ==
  ASSUME LimitAssumption, IInv, NEW c \in 1..NumCallers, NEW i, NEW r, GrantOf(c, i, r)
  PROVE  Turns'
<1> SUFFICES ASSUME redis.kind = "login" PROVE Turns'
  BY DEF Turns, GrantOf
<1> DEFINE e == r.expires
           old == redis.expires[0]
           most == Min(Limits)
<1>1. /\ TypeOK /\ Evaluated(i, r) /\ clock' = clock /\ clock \in Nat /\ Counting
      /\ 0 \in Names /\ Minute \in Nat \ {0} /\ redis'.kind = "login"
  BY MinuteNames DEF GrantOf, Evaluates, IInv, TypeOK, LimitAssumption
<1>2. /\ r.name = 0 /\ r.limit = most /\ r.granted /\ e = Expiry(0) /\ r.at = clock
      /\ current(0) < most
  BY LimitRead DEF GrantOf, Evaluates, IInv, Knows
<1>3. /\ redis.count[0] \in Nat /\ old \in Nat /\ current(0) \in Nat
      /\ current(0) = 0 <=> clock >= old
      /\ current(0) > 0 => current(0) = redis.count[0] /\ e = old
      /\ current(0) = 0 => e = clock + Minute
      /\ e \in Nat /\ clock < e
  BY <1>1, <1>2, Counter
<1>4. redis'.count[0] = current(0) + 1 /\ redis'.expires[0] = e
  BY <1>1, <1>2 DEF GrantOf, TypeOK
<1>5. most \in Nat \ {0}
  BY LimitRead DEF LimitsOf
<1>6. /\ old <= clock + Minute
      /\ clock < old => redis.count[0] = Cardinality(Turn(old))
      /\ \A x : Cardinality(Turn(x)) <= most
      /\ \A j \in DOMAIN takes : takes[j].granted =>
           /\ takes[j].at < takes[j].expires /\ takes[j].expires <= takes[j].at + Minute
           /\ takes[j].expires <= old
      /\ \A j \in DOMAIN takes : takes[j].granted => Begun(j)
      /\ \A j, k \in DOMAIN takes : takes[j].granted /\ takes[k].granted =>
           \/ takes[j].expires = takes[k].expires
           \/ takes[j].expires + Minute <= takes[k].expires
           \/ takes[k].expires + Minute <= takes[j].expires
  BY DEF IInv, Turns
<1> HIDE DEF e, old, most
<1>7. \A j \in DOMAIN takes : takes[j].at \in Nat /\ takes[j].expires \in Nat
  BY <1>1, TakesTyped
<1>8. Cardinality(Turn(e)') = Cardinality(Turn(e)) + 1
  BY <1>1, <1>2, SlotsStep DEF e
<1>9. ASSUME NEW x, x # e PROVE Turn(x)' = Turn(x)
  BY <1>1, <1>9, SlotsStep DEF e
<1>10. Cardinality(Turn(e)) = current(0)
  <2>1. CASE current(0) > 0
    BY <1>1, <1>3, <1>6, <2>1
  <2>2. CASE current(0) = 0
    <3>1. Turn(e) = {}
      BY <1>1, <1>3, <1>6, <1>7, <2>2 DEF Turn
    <3> QED
      BY <2>2, <3>1, FS_EmptySet
  <2> QED
    BY <1>3, <2>1, <2>2
<1>11. e <= clock + Minute /\ old <= e
  BY <1>1, <1>3, <1>6
<1>12. ASSUME NEW x PROVE Cardinality(Turn(x)') <= most
  <2>1. Cardinality(Turn(e)') <= most
    BY <1>2, <1>3, <1>5, <1>8, <1>10
  <2> QED
    BY <1>6, <1>9, <2>1
<1>13. \A j \in DOMAIN takes : takes[j].granted =>
         takes[j].expires <= e /\ (takes[j].expires = e \/ takes[j].expires + Minute <= e)
  <2> SUFFICES ASSUME NEW j \in DOMAIN takes, takes[j].granted
               PROVE  /\ takes[j].expires <= e
                      /\ takes[j].expires = e \/ takes[j].expires + Minute <= e
    OBVIOUS
  <2>1. takes[j].expires \in Nat /\ takes[j].expires <= old
    BY <1>6, <1>7
  <2>2. CASE current(0) = 0
    BY <1>1, <1>3, <2>1, <2>2
  <2>3. CASE current(0) > 0
    <3>1. Turn(e) # {}
      BY <1>10, <2>3, FS_EmptySet
    <3>2. PICK k \in DOMAIN takes : takes[k].granted /\ takes[k].expires = e
      BY <3>1 DEF Turn
    <3> QED
      BY <1>1, <1>3, <1>6, <2>1, <2>3, <3>2
  <2> QED
    BY <1>3, <2>2, <2>3
<1>14. ASSUME NEW j \in DOMAIN takes', takes'[j].granted
       PROVE  \/ j \in DOMAIN takes /\ takes'[j] = takes[j] /\ takes[j].granted
              \/ j = i /\ takes'[j].at = clock /\ takes'[j].expires = e
  BY <1>1, <1>2, <1>14 DEF Evaluated, e
<1>15. ASSUME NEW j \in DOMAIN takes', takes'[j].granted
       PROVE  /\ takes'[j].at < takes'[j].expires
              /\ takes'[j].expires <= takes'[j].at + Minute
              /\ takes'[j].expires <= e
  BY <1>3, <1>6, <1>11, <1>13, <1>14, <1>15
<1>16. ASSUME NEW j \in DOMAIN takes', takes'[j].granted,
              NEW k \in DOMAIN takes', takes'[k].granted
       PROVE  \/ takes'[j].expires = takes'[k].expires
              \/ takes'[j].expires + Minute <= takes'[k].expires
              \/ takes'[k].expires + Minute <= takes'[j].expires
  BY <1>6, <1>13, <1>14, <1>16
<1>17. redis'.count[0] = Cardinality(Turn(e)')
  BY <1>4, <1>8, <1>10
<1>18. i \in DOMAIN takes' /\ takes'[i] = r
       /\ \A k \in DOMAIN takes : k \in DOMAIN takes' /\ takes'[k] = takes[k]
  BY <1>1 DEF Evaluated
<1>19. ASSUME NEW j \in DOMAIN takes, takes[j].granted, NEW m \in DOMAIN takes',
              takes'[m].expires = takes[j].expires
       PROVE  Begun(m)'
  <2>1. PICK k \in DOMAIN takes : /\ takes[k].granted /\ takes[k].expires = takes[j].expires
                                 /\ takes[k].at + Minute = takes[k].expires
    BY <1>6, <1>19 DEF Begun
  <2> QED
    BY <1>18, <1>19, <2>1 DEF Begun
<1>20. Begun(i)'
  <2>1. CASE current(0) = 0
    BY <1>2, <1>3, <1>18, <2>1 DEF Begun, e
  <2>2. CASE current(0) > 0
    <3>1. Turn(e) # {}
      BY <1>10, <2>2, FS_EmptySet
    <3>2. PICK k \in DOMAIN takes : takes[k].granted /\ takes[k].expires = e
      BY <3>1 DEF Turn
    <3> QED
      BY <1>18, <1>19, <3>2 DEF e
  <2> QED
    BY <1>3, <2>1, <2>2
<1>21. ASSUME NEW j \in DOMAIN takes', takes'[j].granted PROVE Begun(j)'
  BY <1>14, <1>19, <1>20, <1>21
<1> QED
  BY <1>1, <1>4, <1>11, <1>12, <1>15, <1>16, <1>17, <1>21 DEF Turns, most

\* The limit was not used up before, and is not exceeded now.
LEMMA GrantHonoured ==
  ASSUME LimitAssumption, IInv, NEW c \in 1..NumCallers, NEW i, NEW r, GrantOf(c, i, r),
         Counted', Turns'
  PROVE  Honoured(i)'
<1>1. /\ TypeOK /\ Evaluated(i, r) /\ clock' = clock /\ clock \in Nat /\ Counting
      /\ redis'.kind = redis.kind /\ Minute \in Nat \ {0} /\ r.granted
      /\ r.at = clock /\ r.name \in Names /\ r.limit \in Nat \ {0}
  BY DEF GrantOf, Evaluates, IInv, TypeOK, LimitAssumption, Take
<1>2. DOMAIN takes' = 1..i /\ takes'[i] = r /\ i \in DOMAIN takes'
  BY <1>1 DEF Evaluated
<1>3. CASE redis.kind # "login"
  <2> SUFFICES ASSUME ~r.late PROVE Cardinality(OnTime(i)') <= r.limit
    BY <1>1, <1>2, <1>3 DEF Honoured
  <2> DEFINE n == r.name
  <2>1. n = Now /\ n \in Nat
    BY <1>1, <1>3, MinuteNames DEF GrantOf, Evaluates, Window, Now
  <2>2. Cardinality(Slots(n)) = current(n)
    BY <1>1, <1>3, <2>1 DEF IInv, Counted
  <2>3. /\ Cardinality(Slots(n)') = Cardinality(Slots(n)) + 1
        /\ Cardinality(Slots(n)) \in Nat
        /\ IsFiniteSet(Slots(n)')
    <3>1. /\ Slots(n)' = Slots(n) \cup {i} /\ IsFiniteSet(Slots(n))
          /\ Cardinality(Slots(n) \cup {i}) = Cardinality(Slots(n)) + 1
          /\ Cardinality(Slots(n)) \in Nat
      BY <1>1, SlotsStep
    <3>2. IsFiniteSet(Slots(n) \cup {i})
      BY <3>1, FS_AddElement
    <3> QED
      BY <3>1, <3>2
  <2>4. OnTime(i)' \subseteq Slots(n)'
    BY <1>2 DEF OnTime, Slots
  <2>5. /\ Cardinality(OnTime(i)') <= Cardinality(Slots(n)')
        /\ Cardinality(OnTime(i)') \in Nat
    BY <2>3, <2>4, FS_Subset, FS_CardinalityType
  <2>6. current(n) < r.limit /\ current(n) \in Nat
    BY <1>1, Counter DEF GrantOf
  <2> HIDE DEF n
  <2> QED
    BY <1>1, <2>2, <2>3, <2>5, <2>6
<1>4. CASE redis.kind = "login"
  <2> DEFINE e == r.expires
             most == Min(Limits)
  <2>1. r.limit = most /\ r.name = 0
    BY <1>4, LimitRead DEF GrantOf, Evaluates, IInv, Knows
  <2>2. redis'.expires[0] = e
    BY <1>1, <2>1, MinuteNames DEF GrantOf, TypeOK
  <2>3. /\ \A x : Cardinality(Turn(x)') <= most
        /\ \A j \in DOMAIN takes' : takes'[j].granted =>
             /\ takes'[j].at < takes'[j].expires
             /\ takes'[j].expires <= takes'[j].at + Minute
             /\ takes'[j].expires <= e
        /\ \A j \in DOMAIN takes' : takes'[j].granted => Begun(j)'
        /\ \A j, k \in DOMAIN takes' : takes'[j].granted /\ takes'[k].granted =>
             \/ takes'[j].expires = takes'[k].expires
             \/ takes'[j].expires + Minute <= takes'[k].expires
             \/ takes'[k].expires + Minute <= takes'[j].expires
    BY <1>1, <1>4, <2>2 DEF Turns
  <2>4. ASSUME NEW j \in DOMAIN takes'
        PROVE  takes'[j].at \in Nat /\ takes'[j].expires \in Nat
    BY <1>1, TakesTyped DEF Evaluated, GrantOf, Evaluates, Take
  <2>5. ASSUME NEW x PROVE IsFiniteSet(Turn(x)') /\ Cardinality(Turn(x)') \in Nat
    <3>1. /\ Turn(x)' = Turn(x) \cup {i} \/ Turn(x)' = Turn(x)
          /\ IsFiniteSet(Turn(x))
      BY <1>1, SlotsStep
    <3> QED
      BY <3>1, FS_AddElement, FS_CardinalityType
  <2> HIDE DEF e, most
  <2>6. e \in Nat /\ e <= clock + Minute /\ takes'[i].expires = e
    BY <1>1, <1>2, <2>3, <2>4 DEF e
  <2>7. ASSUME NEW j \in DOMAIN takes', takes'[j].granted, takes'[j].expires # e
        PROVE  takes'[j].expires <= clock
    <3>1. takes'[j].expires + Minute <= e
      BY <1>1, <1>2, <2>3, <2>4, <2>6, <2>7
    <3> QED
      BY <1>1, <2>4, <2>6, <2>7, <3>1
  <2>8. CASE InLast(i)' \subseteq Turn(e)'
    <3>1. Cardinality(InLast(i)') <= Cardinality(Turn(e)') /\ IsFiniteSet(InLast(i)')
      BY <2>5, <2>8, FS_Subset
    <3>2. Cardinality(InLast(i)') \in Nat /\ Cardinality(Turn(e)') <= most
      BY <2>3, <3>1, FS_CardinalityType
    <3>3. Cardinality(InLast(i)') < 2 * most
      BY <1>1, <2>1, <2>5, <3>1, <3>2
    <3> QED
      BY <1>1, <1>2, <1>4, <2>1, <3>3 DEF Honoured
  <2>9. CASE ~(InLast(i)' \subseteq Turn(e)')
    <3>1. PICK j \in InLast(i)' : j \notin Turn(e)'
      BY <2>9
    <3>2. /\ j \in DOMAIN takes' /\ takes'[j].granted /\ takes'[j].expires # e
          /\ takes'[j].at + Minute > clock
      BY <1>1, <1>2, <3>1 DEF InLast, Turn
    <3>3. PICK f : f = takes'[j].expires
      OBVIOUS
    <3>4. PICK k \in DOMAIN takes' : /\ takes'[k].granted /\ takes'[k].expires = f
                                     /\ takes'[k].at + Minute = f
      BY <2>3, <3>2, <3>3 DEF Begun
    <3>5. k \in Turn(f)' /\ k \notin InLast(i)'
      <4>1. takes'[k].at + Minute <= clock
        BY <2>7, <3>2, <3>3, <3>4
      <4>2. ~(takes'[k].at + Minute > clock)
        BY <1>1, <2>4, <4>1
      <4> QED
        BY <1>1, <1>2, <3>4, <4>2 DEF Turn, InLast
    <3>6. ASSUME NEW m \in InLast(i)', m \notin Turn(e)' PROVE m \in Turn(f)'
      <4>1. /\ m \in DOMAIN takes' /\ takes'[m].granted /\ takes'[m].expires # e
            /\ takes'[m].at + Minute > clock
        BY <1>1, <1>2, <3>6 DEF InLast, Turn
      <4>2. takes'[m].expires <= clock /\ f <= clock
        BY <2>7, <3>2, <3>3, <4>1
      <4>3. /\ takes'[m].at < takes'[m].expires /\ takes'[j].at < f
            /\ \/ takes'[m].expires = f
               \/ takes'[m].expires + Minute <= f
               \/ f + Minute <= takes'[m].expires
        BY <2>3, <3>2, <3>3, <4>1
      <4>4. takes'[m].expires = f
        BY <1>1, <2>4, <3>2, <3>3, <4>1, <4>2, <4>3
      <4> QED
        BY <4>1, <4>4 DEF Turn
    <3> DEFINE T == Turn(e)' \cup (Turn(f)' \ {k})
    <3>7. /\ IsFiniteSet(Turn(f)' \ {k})
          /\ Cardinality(Turn(f)' \ {k}) = Cardinality(Turn(f)') - 1
      BY <2>5, <3>5, FS_RemoveElement
    <3>8. /\ IsFiniteSet(T)
          /\ Cardinality(T) = Cardinality(Turn(e)') + Cardinality(Turn(f)' \ {k})
                               - Cardinality(Turn(e)' \cap (Turn(f)' \ {k}))
      BY <2>5, <3>7, FS_Union
    <3>9. Cardinality(Turn(e)' \cap (Turn(f)' \ {k})) \in Nat
      BY <2>5, FS_Intersection, FS_CardinalityType
    <3>10. InLast(i)' \subseteq T
      BY <3>5, <3>6
    <3> HIDE DEF T
    <3>11. Cardinality(InLast(i)') <= Cardinality(T) /\ Cardinality(InLast(i)') \in Nat
      BY <3>8, <3>10, FS_Subset, FS_CardinalityType
    <3>12. Cardinality(T) \in Nat /\ most \in Nat
      BY <1>1, <2>1, <3>8, FS_CardinalityType
    <3>13. Cardinality(InLast(i)') < 2 * most
      BY <2>3, <2>5, <3>7, <3>8, <3>9, <3>11, <3>12
    <3> QED
      BY <1>1, <1>2, <1>4, <2>1, <3>13 DEF Honoured
  <2> QED
    BY <2>8, <2>9
<1> QED
  BY <1>3, <1>4

LEMMA GrantStep ==
  ASSUME LimitAssumption, IInv, NEW c \in 1..NumCallers, Grant(c)
  PROVE  IInv'
<1> DEFINE gone == [at |-> "granted", name |-> 0, limit |-> 0, due |-> 0]
<1>0. PICK n, i, r : /\ n = callers[c].name /\ i = Len(takes) + 1
                     /\ r = Evaluation(c, TRUE, Expiry(n))
  OBVIOUS
<1>1. /\ callers[c].at = "named" /\ allowed(n, callers[c].limit)
      /\ redis' = [redis EXCEPT !.count[n] = current(n) + 1, !.expires[n] = Expiry(n)]
      /\ Taken(c, TRUE, Expiry(n)) /\ callers' = [callers EXCEPT ![c] = gone]
      /\ clock' = clock
  <2>1. [Idle EXCEPT !.at = "granted"] = gone
    BY DEF Idle
  <2> QED
    BY <1>0, <2>1 DEF Grant
<1>2. /\ TypeOK /\ Knows /\ Counting /\ n \in Names /\ clock \in Nat
  BY <1>0 DEF IInv, TypeOK, Caller
<1>3. current(n) \in Nat /\ Expiry(n) \in Nat
  BY <1>2, Counter
<1>4. takes' \in Seq(Take) /\ Evaluates(c, i, r)
  BY <1>0, <1>1, <1>2, <1>3, Evaluating
<1>5. r.granted /\ r.expires = Expiry(n) /\ r.name = n /\ r.limit = callers[c].limit
  BY <1>0 DEF Evaluation
<1>6. /\ redis'.kind = redis.kind
      /\ redis'.count = [redis.count EXCEPT ![n] = current(n) + 1]
      /\ redis'.expires = [redis.expires EXCEPT ![n] = Expiry(n)]
      /\ redis' \in [kind : Kinds, count : [Names -> Nat], expires : [Names -> Nat]]
  <2>1. /\ redis = [kind |-> redis.kind, count |-> redis.count, expires |-> redis.expires]
        /\ redis.kind \in Kinds
        /\ redis.count \in [Names -> Nat] /\ redis.expires \in [Names -> Nat]
    BY <1>2 DEF TypeOK
  <2>2. redis' = [kind |-> redis.kind,
                  count |-> [redis.count EXCEPT ![n] = current(n) + 1],
                  expires |-> [redis.expires EXCEPT ![n] = Expiry(n)]]
    BY <1>1, <2>1
  <2>3. /\ [redis.count EXCEPT ![n] = current(n) + 1] \in [Names -> Nat]
        /\ [redis.expires EXCEPT ![n] = Expiry(n)] \in [Names -> Nat]
    <3>1. \A x \in Nat : /\ [redis.count EXCEPT ![n] = x] \in [Names -> Nat]
                         /\ [redis.expires EXCEPT ![n] = x] \in [Names -> Nat]
      BY <2>1
    <3>2. current(n) + 1 \in Nat
      BY <1>3
    <3> QED
      BY <1>3, <3>1, <3>2
  <2> QED
    BY <2>1, <2>2, <2>3
<1>7. GrantOf(c, i, r)
  BY <1>1, <1>4, <1>5, <1>6 DEF GrantOf, Evaluates, allowed
<1>8. Evaluated(i, r)
  BY <1>4 DEF Evaluates
<1>9. gone \in Caller
  BY <1>2, MinuteNames DEF Caller
<1>10. TypeOK'
  BY <1>1, <1>2, <1>4, <1>6, <1>9 DEF TypeOK, Window
<1>11. /\ callers'[c].at = "granted"
       /\ \A d \in (1..NumCallers) \ {c} : callers'[d] = callers[d]
  BY <1>1, <1>2 DEF TypeOK
<1>12. Knows'
  <2>1. \A d \in 1..NumCallers : callers'[d].at = "named" => callers'[d] = callers[d]
    BY <1>11
  <2> QED
    BY <1>1, <1>2, <1>6, <1>11, <2>1 DEF Knows, Now
<1>13. Past' /\ Counting' /\ Counted' /\ Turns'
  BY <1>4, <1>6, <1>7, PastStep, GrantCounted, GrantTurns
<1>14. \A j \in DOMAIN takes' :
         \/ j = i
         \/ j \in DOMAIN takes /\ takes'[j] = takes[j]
  BY <1>8 DEF Evaluated
<1>15. takes'[i].granted
  BY <1>5, <1>8 DEF Evaluated
<1>16. Waits'
  <2>1. ASSUME NEW j \in DOMAIN takes, ~takes[j].granted, takes[j].who = c
        PROVE  redis.kind = "channel"
    BY <1>1, <2>1 DEF IInv, Waits
  <2>2. \A j \in DOMAIN takes : takes[j].who \in 1..NumCallers
    BY <1>2, TakesTyped
  <2> QED
    BY <1>1, <1>6, <1>11, <1>14, <1>15, <2>1, <2>2 DEF IInv, Waits
<1>17. LimitHonoured' /\ RefusedForReason'
  <2>1. \A j \in DOMAIN takes : Honoured(j) /\ UsedUp(j)
    BY Spelled DEF IInv
  <2>2. \A j \in DOMAIN takes : Honoured(j)' /\ UsedUp(j)'
    BY <1>2, <1>6, <1>8, <2>1, EarlierStand
  <2>3. Honoured(i)' /\ UsedUp(i)'
    BY <1>7, <1>13, <1>15, GrantHonoured DEF UsedUp
  <2> QED
    BY <1>14, <2>2, <2>3, SpelledNext
<1>18. DeferralOutlasts'
  BY <1>14, <1>15 DEF IInv, DeferralOutlasts
<1> QED
  BY <1>10, <1>12, <1>13, <1>16, <1>17, <1>18 DEF IInv

-----------------------------------------------------------------------------
(* ... and one that is refused.                                            *)

\* A refusal: the counter is live and used up.
RefusalOf(c, i, r) ==
  /\ Evaluates(c, i, r) /\ ~r.granted /\ r.expires = redis.expires[r.name]
  /\ r.limit <= current(r.name) /\ clock < r.expires
  /\ redis' = redis

LEMMA RefusalUsedUp ==
  ASSUME LimitAssumption, IInv, NEW c \in 1..NumCallers, NEW i, NEW r, RefusalOf(c, i, r)
  PROVE  UsedUp(i)'
<1> DEFINE n == r.name
<1>1. /\ TypeOK /\ Evaluated(i, r) /\ r \in Take /\ clock \in Nat /\ Counting
      /\ redis' = redis /\ Minute \in Nat \ {0} /\ ~r.granted
      /\ r.at = clock /\ n \in Names /\ r.limit \in Nat \ {0}
      /\ r.limit <= current(n) /\ clock < redis.expires[n]
  BY DEF RefusalOf, Evaluates, IInv, TypeOK, LimitAssumption, Take
<1>2. DOMAIN takes' = 1..i /\ takes'[i] = r /\ ~takes'[i].granted
  BY <1>1 DEF Evaluated
<1>3. ASSUME NEW j \in DOMAIN takes, takes[j].granted
      PROVE  /\ j \in 1..i /\ takes'[j] = takes[j]
             /\ takes[j].at \in Nat /\ takes[j].expires \in Nat /\ takes[j].at <= clock
             /\ takes[j].name \in Names
  BY <1>1, <1>3, TakesTyped DEF Evaluated, IInv, Past
<1>4. /\ current(n) \in Nat /\ redis.expires[n] \in Nat
      /\ current(n) > 0 => current(n) = redis.count[n]
  BY <1>1, Counter
<1>5. ASSUME NEW S, NEW T, S \subseteq T, T \subseteq 1..i, current(n) <= Cardinality(S)
      PROVE  r.limit <= Cardinality(T)
  <2>1. IsFiniteSet(T)
    <3>1. i \in Nat
      BY <1>1 DEF Evaluated
    <3>2. IsFiniteSet(1..i)
      BY <3>1, FS_Interval
    <3> QED
      BY <1>5, <3>2, FS_Subset
  <2>2. Cardinality(S) <= Cardinality(T) /\ Cardinality(S) \in Nat /\ Cardinality(T) \in Nat
    BY <1>5, <2>1, FS_Subset, FS_CardinalityType
  <2> QED
    BY <1>1, <1>4, <1>5, <2>2
<1>6. CASE redis.kind = "login"
  <2>1. n = 0
    BY <1>6 DEF RefusalOf, Evaluates, IInv, Knows
  <2>2. current(n) <= Cardinality(Turn(redis.expires[n]))
    BY <1>1, <1>4, <1>6, <2>1 DEF IInv, Turns
  <2>3. Turn(redis.expires[n]) \subseteq InLast(i)'
    <3>1. ASSUME NEW j \in Turn(redis.expires[n]) PROVE j \in InLast(i)'
      <4>1. j \in DOMAIN takes /\ takes[j].granted /\ takes[j].expires = redis.expires[n]
        BY <3>1 DEF Turn
      <4>2. takes[j].expires <= takes[j].at + Minute
        BY <1>6, <4>1 DEF IInv, Turns
      <4>3. takes[j].at + Minute > clock
        BY <1>1, <1>3, <1>4, <4>1, <4>2
      <4> QED
        BY <1>1, <1>2, <1>3, <4>1, <4>3 DEF InLast
    <3> QED
      BY <3>1
  <2>4. InLast(i)' \subseteq 1..i
    BY DEF InLast
  <2>5. r.limit <= Cardinality(InLast(i)')
    BY <1>5, <2>2, <2>3, <2>4
  <2> QED
    BY <1>1, <1>2, <1>6, <2>5 DEF UsedUp
<1>7. CASE redis.kind # "login"
  <2>1. current(n) <= Cardinality(Slots(n))
    BY <1>1, <1>7 DEF IInv, Counted
  <2>2. CASE r.late
    <3>1. Slots(n) \subseteq OfName(i)' /\ OfName(i)' \subseteq 1..i
      BY <1>2, <1>3 DEF Slots, OfName
    <3>2. r.limit <= Cardinality(OfName(i)')
      BY <1>5, <2>1, <3>1
    <3> QED
      BY <1>1, <1>2, <1>7, <2>2, <3>2 DEF UsedUp
  <2>3. CASE ~r.late
    <3>1. n = Now /\ n \in Nat
      BY <1>1, <1>7, <2>3, MinuteNames DEF RefusalOf, Evaluates, Window, Now
    <3>2. ASSUME NEW j \in Slots(n) PROVE j \in InMinute(i)'
      <4>1. j \in DOMAIN takes /\ takes[j].granted /\ takes[j].name = n
        BY <3>2 DEF Slots
      <4>2. n <= takes[j].at \div Minute
        BY <1>7, <4>1 DEF IInv, Past
      <4>3. takes[j].at \div Minute <= Now /\ takes[j].at \div Minute \in Nat
        BY <1>1, <1>3, <4>1, Minutes DEF Now
      <4>4. takes[j].at \div Minute = clock \div Minute
        BY <3>1, <4>2, <4>3 DEF Now
      <4> QED
        BY <1>1, <1>2, <1>3, <4>1, <4>4 DEF InMinute
    <3>3. InMinute(i)' \subseteq 1..i /\ Slots(n) \subseteq InMinute(i)'
      BY <3>2 DEF InMinute
    <3>4. r.limit <= Cardinality(InMinute(i)')
      BY <1>5, <2>1, <3>3
    <3> QED
      BY <1>1, <1>2, <1>7, <2>3, <3>4 DEF UsedUp
  <2> QED
    BY <2>2, <2>3
<1> QED
  BY <1>6, <1>7

LEMMA RefuseStep ==
  ASSUME LimitAssumption, IInv, NEW c \in 1..NumCallers, Refuse(c)
  PROVE  IInv'
<1>0. PICK n, i, r : /\ n = callers[c].name /\ i = Len(takes) + 1
                     /\ r = Evaluation(c, FALSE, redis.expires[n])
  OBVIOUS
<1>1. /\ callers[c].at = "named" /\ ~allowed(n, callers[c].limit)
      /\ Taken(c, FALSE, redis.expires[n]) /\ redis' = redis /\ clock' = clock
  BY <1>0 DEF Refuse
<1>2. /\ TypeOK /\ Knows /\ Counting /\ n \in Names /\ clock \in Nat
      /\ redis.expires[n] \in Nat
  BY <1>0 DEF IInv, TypeOK, Caller
<1>3. takes' \in Seq(Take) /\ Evaluates(c, i, r)
  BY <1>0, <1>1, <1>2, Evaluating
<1>4. ~r.granted /\ r.expires = redis.expires[n] /\ r.name = n /\ r.limit = callers[c].limit
      /\ r.who = c
  BY <1>0 DEF Evaluation
<1>5. callers[c].limit <= current(n) /\ clock < redis.expires[n]
  <2>1. callers[c].limit \in Nat \ {0}
    BY <1>1, <1>2, LimitRead DEF Knows
  <2>2. current(n) \in Nat /\ (current(n) = 0 <=> clock >= redis.expires[n])
    BY <1>2, Counter
  <2> QED
    BY <1>1, <1>2, <2>1, <2>2 DEF allowed
<1>6. RefusalOf(c, i, r)
  BY <1>1, <1>3, <1>4, <1>5 DEF RefusalOf
<1>7. Evaluated(i, r)
  BY <1>3 DEF Evaluates
<1>8. PICK due \in Nat, at \in {"idle", "refused"} :
        /\ callers' = [callers EXCEPT ![c] = [at |-> at, name |-> 0, limit |-> 0, due |-> due]]
        /\ IF redis.kind = "channel" THEN at = "idle" /\ redis.expires[n] <= due
           ELSE at = "refused"
  <2>1. CASE redis.kind = "channel"
    <3>1. PICK ttl \in TTL(n) :
             callers' = [callers EXCEPT ![c] = [Idle EXCEPT !.due = clock + deferBy(ttl)]]
      BY <1>0, <2>1 DEF Refuse
    <3>2. ttl \in Nat /\ ttl + 1 >= redis.expires[n] - clock
      BY <1>2, <1>5 DEF TTL
    <3>3. Max({ttl, 1}) \in Nat /\ Max({ttl, 1}) >= ttl
      BY <3>2 DEF Max
    <3>4. clock + deferBy(ttl) \in Nat /\ redis.expires[n] <= clock + deferBy(ttl)
      BY <1>2, <3>2, <3>3 DEF deferBy
    <3>5. PICK x \in Nat : x = clock + deferBy(ttl)
      BY <3>4
    <3>6. [Idle EXCEPT !.due = x] = [at |-> "idle", name |-> 0, limit |-> 0, due |-> x]
      BY DEF Idle
    <3> QED
      BY <2>1, <3>1, <3>4, <3>5, <3>6
  <2>2. CASE redis.kind # "channel"
    <3>1. [Idle EXCEPT !.at = "refused"] = [at |-> "refused", name |-> 0, limit |-> 0, due |-> 0]
      BY DEF Idle
    <3> QED
      BY <2>2, <3>1 DEF Refuse
  <2> QED
    BY <2>1, <2>2
<1> DEFINE next == [at |-> at, name |-> 0, limit |-> 0, due |-> due]
<1>9. next \in Caller /\ next.at = at /\ next.due = due
  BY <1>2, MinuteNames DEF Caller
<1> HIDE DEF next
<1>10. callers' = [callers EXCEPT ![c] = next]
  BY <1>8 DEF next
<1>11. TypeOK'
  BY <1>1, <1>2, <1>3, <1>9, <1>10 DEF TypeOK, Window
<1>12. /\ callers'[c] = next
       /\ \A d \in (1..NumCallers) \ {c} : callers'[d] = callers[d]
  BY <1>2, <1>10 DEF TypeOK
<1>13. Knows'
  <2>1. callers'[c].at # "named"
    BY <1>8, <1>9, <1>12
  <2> QED
    BY <1>1, <1>2, <1>12, <2>1 DEF Knows, Now
<1>14. Past' /\ Counting'
  BY <1>1, <1>2, <1>3, PastStep DEF Counting
<1>15. \A j \in DOMAIN takes' :
         \/ j = i /\ takes'[j] = r
         \/ j \in DOMAIN takes /\ takes'[j] = takes[j]
  BY <1>7 DEF Evaluated
<1>16. ASSUME NEW x PROVE Slots(x)' = Slots(x) /\ Turn(x)' = Turn(x)
  BY <1>2, <1>4, <1>7, SlotsStep
<1>17. Counted'
  BY <1>1, <1>16 DEF IInv, Counted, Now, current
<1>18. Turns'
  <2>1. \A j \in DOMAIN takes' : takes'[j].granted => j \in DOMAIN takes /\ takes'[j] = takes[j]
    BY <1>4, <1>15
  <2>2. \A j \in DOMAIN takes : j \in DOMAIN takes' /\ takes'[j] = takes[j]
    BY <1>7 DEF Evaluated
  <2>3. ASSUME redis.kind = "login", NEW j \in DOMAIN takes', takes'[j].granted
        PROVE  Begun(j)'
    <3>1. PICK k \in DOMAIN takes : /\ takes[k].granted /\ takes[k].expires = takes[j].expires
                                   /\ takes[k].at + Minute = takes[k].expires
      BY <1>1, <2>1, <2>3 DEF IInv, Turns, Begun
    <3> QED
      BY <2>1, <2>2, <2>3, <3>1 DEF Begun
  <2> QED
    BY <1>1, <1>16, <2>1, <2>3 DEF IInv, Turns
<1>19. ASSUME NEW j \in DOMAIN takes, ~takes[j].granted, takes[j].who = c
       PROVE  redis.kind = "channel" /\ takes[j].expires <= clock
  BY <1>1, <1>19 DEF IInv, Waits
<1>20. \A j \in DOMAIN takes : takes[j].who \in 1..NumCallers /\ takes[j].expires \in Nat
  BY <1>2, TakesTyped
<1>21. Waits'
  <2>1. ASSUME NEW j \in DOMAIN takes', ~takes'[j].granted, takes'[j].who = c
        PROVE  IF redis.kind = "channel"
               THEN next.at = "idle" /\ takes'[j].expires <= next.due
               ELSE next.at = "refused"
    <3>1. CASE j = i
      <4>1. takes'[j] = r
        BY <1>7, <3>1 DEF Evaluated
      <4> QED
        BY <1>4, <1>8, <1>9, <4>1
    <3>2. CASE j # i
      <4>1. j \in DOMAIN takes /\ takes'[j] = takes[j]
        BY <1>15, <3>2
      <4> QED
        BY <1>2, <1>5, <1>8, <1>9, <1>19, <1>20, <2>1, <4>1
    <3> QED
      BY <3>1, <3>2
  <2>2. ASSUME NEW j \in DOMAIN takes', ~takes'[j].granted, takes'[j].who # c
        PROVE  /\ j \in DOMAIN takes /\ takes'[j] = takes[j]
               /\ callers'[takes[j].who] = callers[takes[j].who]
    BY <1>4, <1>12, <1>15, <1>20, <2>2
  <2> QED
    BY <1>1, <1>12, <2>1, <2>2 DEF IInv, Waits
<1>22. LimitHonoured' /\ RefusedForReason'
  <2>1. \A j \in DOMAIN takes : Honoured(j) /\ UsedUp(j)
    BY Spelled DEF IInv
  <2>2. \A j \in DOMAIN takes : Honoured(j)' /\ UsedUp(j)'
    BY <1>1, <1>2, <1>7, <2>1, EarlierStand
  <2>3. takes'[i] = r
    BY <1>7 DEF Evaluated
  <2>4. Honoured(i)' /\ UsedUp(i)'
    BY <1>4, <1>6, <2>3, RefusalUsedUp DEF Honoured
  <2> QED
    BY <1>15, <2>2, <2>4, SpelledNext
<1>23. DeferralOutlasts'
  <2> SUFFICES ASSUME NEW j \in DOMAIN takes', NEW k \in DOMAIN takes', j < k,
                      takes'[j].who = takes'[k].who,
                      ~takes'[j].granted, ~takes'[k].granted
               PROVE  <<takes'[j].name, takes'[j].expires>>
                        # <<takes'[k].name, takes'[k].expires>>
    BY DEF DeferralOutlasts
  <2>1. j \in DOMAIN takes /\ takes'[j] = takes[j]
    <3>1. \A m \in DOMAIN takes : ~(i < m)
      BY <1>7 DEF Evaluated
    <3>2. i \in Nat /\ ~(i < i)
      BY <1>7 DEF Evaluated
    <3> QED
      BY <1>15, <3>1, <3>2
  <2>2. CASE k = i
    <3>1. takes'[k] = r
      BY <1>7, <2>2 DEF Evaluated
    <3>2. takes[j].expires <= clock /\ takes[j].expires \in Nat
      BY <1>4, <1>19, <1>20, <2>1, <3>1
    <3>3. takes'[j].expires # takes'[k].expires
      BY <1>2, <1>4, <1>5, <2>1, <3>1, <3>2
    <3> QED
      BY <3>3
  <2>3. CASE k # i
    BY <1>15, <2>1, <2>3 DEF IInv, DeferralOutlasts
  <2> QED
    BY <2>2, <2>3
<1> QED
  BY <1>11, <1>13, <1>14, <1>17, <1>18, <1>21, <1>22, <1>23 DEF IInv

-----------------------------------------------------------------------------
(* What follows.                                                           *)

LEMMA LimitStep == ASSUME LimitAssumption PROVE IInv /\ [Next]_vars => IInv'
<1>1. ASSUME IInv, UNCHANGED vars PROVE IInv'
  <2>1. UNCHANGED <<redis, clock, callers, takes>>
    BY <1>1 DEF vars
  <2>2. (TypeOK /\ Knows /\ Past /\ Counting)'
    BY <1>1, <2>1 DEF IInv, TypeOK, Window, Knows, Past, Counting, Now
  <2>3. (Counted /\ Turns /\ Waits)'
    BY <1>1, <2>1 DEF IInv, Counted, Turns, Begun, Waits, Now, Slots, Turn, current
  <2>4. (LimitHonoured /\ RefusedForReason /\ DeferralOutlasts)'
    BY <1>1, <2>1 DEF IInv, LimitHonoured, RefusedForReason, DeferralOutlasts, Granted
  <2> QED
    BY <2>2, <2>3, <2>4 DEF IInv
<1> QED
  BY <1>1, NameStep, TickStep, GrantStep, RefuseStep DEF Next

\* A key or channel gets no more slots in a minute than its limit, and a login
\* fewer than twice its limit in 60 seconds (rate_limit.py).
THEOREM LimitKept == ASSUME LimitAssumption PROVE Spec => []LimitHonoured
<1>1. IInv => LimitHonoured
  BY DEF IInv
<1> QED
  BY <1>1, LimitStart, LimitStep, PTL DEF Spec

\* Who is refused meets a limit that is used up (rate_limit.py).
THEOREM RefusalsJustified == ASSUME LimitAssumption PROVE Spec => []RefusedForReason
<1>1. IInv => RefusedForReason
  BY DEF IInv
<1> QED
  BY <1>1, LimitStart, LimitStep, PTL DEF Spec

\* The counter that deferred a delivery does not refuse it again
\* (messages.py: maybe_delay_for_channel_limit).
THEOREM DeferredPastTheCounter == ASSUME LimitAssumption PROVE Spec => []DeferralOutlasts
<1>1. IInv => DeferralOutlasts
  BY DEF IInv
<1> QED
  BY <1>1, LimitStart, LimitStep, PTL DEF Spec


=============================================================================
