------------------------------ MODULE RateLimit ------------------------------
(***************************************************************************)
(* The limits per minute (src/app/services/rate_limit.py): the counters of *)
(* a push key, a channel or a login, and those who take a slot from them.  *)
(*                                                                         *)
(* Counters of different keys, channels and logins are independent: a      *)
(* behaviour follows one of them, and kind says of what.  Of push keys and *)
(* channels the counter is named by the minute, as the caller's clock      *)
(* tells it before the script runs; of logins it has one name.             *)
(*                                                                         *)
(*   redis    the kind; the count and the expiry under each name           *)
(*   clock    the time, in seconds (a minute has Minute of them)           *)
(*   callers  where the callers stand                                      *)
(*   takes    history: every evaluation of the script, in order            *)
(*                                                                         *)
(* What a push or a delivery does with its slot is left out: a slot is     *)
(* never given back.                                                       *)
(***************************************************************************)
EXTENDS Naturals, Sequences, FiniteSets, FiniteSetsExt

CONSTANTS
    Limits,     \* values per_minute_limit may have
    Minute,     \* seconds in a minute
    NumCallers, \* bound: callers
    MaxClock,   \* bound: seconds that pass
    MaxTakes    \* bound: evaluations of the script

VARIABLES redis, clock, callers, takes

vars == <<redis, clock, callers, takes>>

Kinds == {"push-key", "channel", "login"}
Names == 0..(MaxClock \div Minute)
ttl_seconds == Minute

(* The row that holds the limit may be edited at any time; the limit of    *)
(* logins is a setting.                                                    *)
LimitsOf(kind) == IF kind = "login" THEN {Min(Limits)} ELSE Limits

(* A bug: the counter of a key is not named by the minute.                 *)
WindowFixed == 0
Window == IF redis.kind = "login" THEN 0 ELSE clock \div Minute

(***************************************************************************)
(* The script.  Redis runs it at once.                                     *)
(***************************************************************************)
current(n) == IF clock < redis.expires[n] THEN redis.count[n] ELSE 0

(* A bug: one too many.                                                    *)
allowedOneMore(n, limit) == current(n) <= limit
allowed(n, limit) == current(n) < limit

(* TTL rounds to seconds: it may be one short.                             *)
TTL(n) ==
    LET left == redis.expires[n] - clock
    IN  {left} \cup (IF left > 0 THEN {left - 1} ELSE {})

(* The time the counter expires, once it counts this slot.                 *)
Expiry(n) == IF current(n) = 0 THEN clock + ttl_seconds ELSE redis.expires[n]

(* maybe_delay_for_channel_limit: the job is deferred past the expiry.     *)
(* A bug: by what the TTL says.                                            *)
deferByShort(ttl) == Max({ttl, 1})
deferBy(ttl) == Max({ttl, 1}) + 1

(***************************************************************************)
(* The callers.                                                            *)
(***************************************************************************)
Idle == [at |-> "idle", name |-> 0, limit |-> 0, due |-> 0]

(* The caller loads the row and names the window.  A job that was deferred *)
(* starts over.                                                            *)
Name(c) ==
    /\ callers[c].at = "idle" /\ clock >= callers[c].due
    /\ \E limit \in LimitsOf(redis.kind) :
          callers' = [callers EXCEPT ![c] = [at |-> "named", name |-> Window,
                                             limit |-> limit, due |-> 0]]
    /\ UNCHANGED <<redis, clock, takes>>

(* Then it evaluates the script, maybe only in the next minute.            *)
Taken(c, granted, expires) ==
    takes' = Append(takes,
        [who |-> c, granted |-> granted, at |-> clock, name |-> callers[c].name,
         limit |-> callers[c].limit, expires |-> expires,
         late |-> callers[c].name # Window])

Grant(c) ==
    LET n == callers[c].name IN
    /\ callers[c].at = "named" /\ Len(takes) < MaxTakes
    /\ allowed(n, callers[c].limit)
    /\ redis' = [redis EXCEPT !.count[n] = current(n) + 1, !.expires[n] = Expiry(n)]
    /\ Taken(c, TRUE, Expiry(n))
    /\ callers' = [callers EXCEPT ![c] = [Idle EXCEPT !.at = "granted"]]
    /\ UNCHANGED clock

(* A push and a login are answered 429, a delivery is deferred.            *)
Refuse(c) ==
    LET n == callers[c].name IN
    /\ callers[c].at = "named" /\ Len(takes) < MaxTakes
    /\ ~allowed(n, callers[c].limit)
    /\ Taken(c, FALSE, redis.expires[n])
    /\ IF redis.kind = "channel"
       THEN \E ttl \in TTL(n) :
               callers' = [callers EXCEPT ![c] = [Idle EXCEPT !.due = clock + deferBy(ttl)]]
       ELSE callers' = [callers EXCEPT ![c] = [Idle EXCEPT !.at = "refused"]]
    /\ UNCHANGED <<redis, clock>>

Tick ==
    /\ clock < MaxClock
    /\ clock' = clock + 1
    /\ UNCHANGED <<redis, callers, takes>>

(* The application may be started at any second of a minute.               *)
Init ==
    /\ \E kind \in Kinds :
          redis = [kind |-> kind, count |-> [n \in Names |-> 0],
                   expires |-> [n \in Names |-> 0]]
    /\ clock \in 0..(Minute - 1)
    /\ callers = [c \in 1..NumCallers |-> Idle]
    /\ takes = <<>>

Next == Tick \/ \E c \in 1..NumCallers : Name(c) \/ Grant(c) \/ Refuse(c)

Spec == Init /\ [][Next]_vars

(***************************************************************************)
(* Properties.                                                             *)
(***************************************************************************)
(* Slots granted up to the i-th evaluation, of those for which P holds.    *)
Granted(i, P(_)) == Cardinality({j \in 1..i : takes[j].granted /\ P(takes[j])})

(* A push key or a channel has no more slots in a minute than the limit    *)
(* its caller read, unless a script ran in a later minute than the one it  *)
(* was named for: its counter may have expired, and starts at 0 again.  A  *)
(* login has fewer than twice the limit in any 60 seconds: its counter     *)
(* starts with its first use and not with the attempt.                     *)
LimitHonoured ==
    \A i \in DOMAIN takes : takes[i].granted =>
        IF redis.kind = "login"
        THEN Granted(i, LAMBDA t : t.at + Minute > takes[i].at) < 2 * takes[i].limit
        ELSE ~takes[i].late =>
                Granted(i, LAMBDA t : ~t.late /\ t.name = takes[i].name)
                    <= takes[i].limit

(* Nobody is refused before the limit is used up, by slots granted for the *)
(* same minute (a login: in the last 60 seconds).  Slots count, not what   *)
(* became of them.                                                         *)
RefusedForReason ==
    \A i \in DOMAIN takes : ~takes[i].granted =>
        takes[i].limit <=
            Granted(i, LAMBDA t :
                IF redis.kind = "login" THEN t.at + Minute > takes[i].at
                ELSE IF takes[i].late THEN t.name = takes[i].name
                ELSE t.at \div Minute = takes[i].at \div Minute)

(* A delivery that was deferred is not refused again by the counter that   *)
(* deferred it: it finds a free slot unless others took them anew.         *)
DeferralOutlasts ==
    \A i, j \in DOMAIN takes :
        /\ i < j /\ takes[i].who = takes[j].who
        /\ ~takes[i].granted /\ ~takes[j].granted
        => <<takes[i].name, takes[i].expires>> # <<takes[j].name, takes[j].expires>>
=============================================================================
