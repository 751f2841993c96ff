------------------------------ MODULE RateLimit ------------------------------
(***************************************************************************)
(* The rate limiter of the HTTP API: middleware.RateLimit over the Redis   *)
(* counter of redis.Store.Allow, as router.Register mounts it.  A counter  *)
(* belongs to one path and one client, so one of each is modelled: "sync"  *)
(* stands for the routes with the group's limiter alone, "tutor" for       *)
(* /ai/tutor, whose own limiter follows the group's.  Time is counted in   *)
(* steps, of which the window has several.                                 *)
(***************************************************************************)
EXTENDS Naturals, FiniteSets

CONSTANTS
  Calls,       \* HTTP calls that may be on their way at once
  GroupLimit,  \* 120 in the router
  TutorLimit,  \* 20 in the router
  Window,      \* time.Minute
  MaxCount,    \* a client whose counter stands there makes no further call
  LimitFaults  \* a subset of {"redis", "ttl"}: calls of Redis that may fail

ASSUME RateLimitAssumption ==
  /\ IsFiniteSet(Calls)
  /\ {GroupLimit, TutorLimit, Window, MaxCount} \subseteq Nat \ {0}
  /\ LimitFaults \subseteq {"redis", "ttl"}

VARIABLES
  route,     \* the path: it does not change
  counter,   \* INCR's value, 0 when Redis has no such key
  ttl,       \* steps until Redis drops the key
  limiting,  \* what each call stands before
  watch,     \* history: a window somebody watches: what is left of it, and
             \* the calls let through in it
  told       \* history: what the client was told when denied, if he has not called since

limitVars == <<route, counter, ttl, limiting, watch, told>>

Nothing_Told == [wait |-> 0, exact |-> FALSE]
NoWatch      == [left |-> 0, passed |-> 0]
OnTheWay     == {c \in Calls : limiting[c] # "client"}

LimitsInit ==
  /\ route \in {"sync", "tutor"}
  /\ counter = 0 /\ ttl = 0
  /\ limiting = [c \in Calls |-> "client"]
  /\ watch = NoWatch
  /\ told = Nothing_Told

(* A call passes Authenticate and stands before the group's limiter. *)
ArriveAtLimiter(c) ==
  /\ limiting[c] = "client" /\ counter < MaxCount
  /\ limiting' = [limiting EXCEPT ![c] = "group"]
  /\ told' = Nothing_Told
  /\ UNCHANGED <<route, counter, ttl, watch>>

LimitAt(place)  == IF place = "group" THEN GroupLimit ELSE TutorLimit
PassedOn(place) == IF place = "group" /\ route = "tutor" THEN "own" ELSE "client"
DeniedAt(place) == IF place = "group" THEN "denied" ELSE "denied_own"

(* Allow's INCR and EXPIRE, one transaction of Redis: every call renews    *)
(* the key's life, one that is then denied included.                       *)
Count_NoExpire   == counter' = counter + 1 /\ UNCHANGED ttl
Count_ExpireOnce == counter' = counter + 1 /\ ttl' = IF ttl > 0 THEN ttl ELSE Window
Count            == counter' = counter + 1 /\ ttl' = Window

Exceeds(count, limit) == count > limit

(* The history: any call let through may begin a window to be watched.     *)
LetThrough ==
  IF watch.left > 0
  THEN watch' = [left |-> watch.left, passed |-> watch.passed + 1]
  ELSE watch' \in {watch, [left |-> Window, passed |-> 1]}

Allow(c) ==
  LET place == limiting[c]
  IN  /\ place \in {"group", "own"}
      /\ Count
      /\ \/ /\ Exceeds(counter + 1, LimitAt(place))
            /\ limiting' = [limiting EXCEPT ![c] = DeniedAt(place)]
            /\ UNCHANGED watch
         \/ /\ ~ Exceeds(counter + 1, LimitAt(place))
            /\ limiting' = [limiting EXCEPT ![c] = PassedOn(place)]
            /\ IF PassedOn(place) = "client" THEN LetThrough ELSE UNCHANGED watch
      /\ UNCHANGED <<route, told>>

(* The transaction fails, carried out or not, and the call is let through  *)
(* whatever the count.                                                     *)
AllowFails(c) ==
  /\ limiting[c] \in {"group", "own"} /\ "redis" \in LimitFaults
  /\ Count \/ UNCHANGED <<counter, ttl>>
  /\ limiting' = [limiting EXCEPT ![c] = PassedOn(@)]
  /\ UNCHANGED <<route, watch, told>>

(* The key's life is asked for in a call of its own, whose failure reads   *)
(* as 0; Retry-After is one more.                                          *)
RetryAfter(left) == left + 1

TooManyRequests(c) ==
  /\ limiting[c] \in {"denied", "denied_own"}
  /\ \E left \in {ttl} \cup {n \in {0} : "ttl" \in LimitFaults} :
       told' = [wait |-> RetryAfter(left), exact |-> left = ttl /\ OnTheWay = {c}]
  /\ limiting' = [limiting EXCEPT ![c] = "client"]
  /\ UNCHANGED <<route, counter, ttl, watch>>

Less(n) == IF n = 0 THEN 0 ELSE n - 1

(* A step of time passes; Redis drops a key whose life is over. *)
LimitTick ==
  /\ ttl' = Less(ttl)
  /\ counter' = IF ttl = 1 THEN 0 ELSE counter
  /\ told' = [told EXCEPT !.wait = Less(@)]
  /\ watch' = IF watch.left <= 1 THEN NoWatch
                                 ELSE [left |-> watch.left - 1, passed |-> watch.passed]
  /\ UNCHANGED <<route, limiting>>

LimitsNext ==
  \/ \E c \in Calls : ArriveAtLimiter(c) \/ Allow(c) \/ AllowFails(c) \/ TooManyRequests(c)
  \/ LimitTick

LimitsSpec == LimitsInit /\ [][LimitsNext]_limitVars

-----------------------------------------------------------------------------
(* Types, and no counter without an end: Redis would keep it for good.     *)
LimitsTypeOK ==
  /\ route \in {"sync", "tutor"}
  /\ counter \in Nat /\ ttl \in 0 .. Window
  /\ counter > 0 <=> ttl > 0
  /\ limiting \in [Calls -> {"client", "group", "own", "denied", "denied_own"}]
  /\ watch \in [left: 0 .. Window, passed: Nat]
  /\ told \in [wait: 0 .. Window + 1, exact: BOOLEAN]

(* "Sliding-window rate limiting", "limited to 20 requests a minute": in   *)
(* no window, whenever it begins, does the limiter let more than the limit *)
(* through, whatever calls overlap; those that it lets through because     *)
(* Redis failed it does not count.                                         *)
LimitOf(path)  == IF path = "tutor" THEN TutorLimit ELSE GroupLimit
LimitIsHeld    == watch.passed <= LimitOf(route)

(* "Include Retry-After for 429": a client that waits as long as it was    *)
(* told, with nothing else of his under way, finds the counter gone, even  *)
(* though every denied call renews it, provided the key's life was read.   *)
RetryAfterSuffices == told.exact /\ told.wait = 0 => counter = 0

LimitersHold == LimitIsHeld /\ RetryAfterSuffices
=============================================================================
