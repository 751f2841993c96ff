---------------------------- MODULE MCRateLimit ----------------------------
(***************************************************************************)
(* RateLimit from the client's side: a history variable counts his calls   *)
(* of the last window by their age, in steps.  A call comes when it        *)
(* reaches the first limiter.                                              *)
(***************************************************************************)
EXTENDS RateLimit, FiniteSetsExt

VARIABLE lately

Ages    == 0 .. Window - 1
Older   == [age \in Ages |-> IF age = 0 THEN 0 ELSE lately[age - 1]]
OneMore == [lately EXCEPT ![0] = @ + 1]

MCInit == LimitsInit /\ lately = [age \in Ages |-> 0]

MCNext ==
  \/ LimitTick /\ lately' = Older
  \/ \E c \in Calls :
       \/ (ArriveAtLimiter(c) \/ TooManyRequests(c)) /\ UNCHANGED lately
       \/ /\ Allow(c) \/ AllowFails(c)
          /\ lately' = IF limiting[c] = "group" THEN OneMore ELSE lately

MCSpec == MCInit /\ [][MCNext]_<<limitVars, lately>>

(* "Limited to 20 requests a minute": a call is denied only if, with it,   *)
(* more calls than the limit came within the last window.                  *)
CallsLately == MapThenSumSet(LAMBDA age : lately[age], Ages)

DeniedOnlyAboveTheLimit ==
  [][\A c \in Calls :
       /\ limiting[c] = "group" /\ limiting'[c] = "denied" => CallsLately' > GroupLimit
       /\ limiting[c] = "own" /\ limiting'[c] = "denied_own" => CallsLately' > TutorLimit
    ]_<<limitVars, lately>>
=============================================================================
