------------------------------ MODULE Purchases ------------------------------
(***************************************************************************)
(* The billing endpoints behind the idempotency middleware: what a retry   *)
(* of a purchase does.  middleware.Idempotency over redis.Store, with      *)
(* BillingHandler, BillingUsecase and the Postgres EntitlementRepository   *)
(* and DeviceRepository as the handler it runs.  Every call of Redis and   *)
(* of Postgres is a step.  A key is a client's (the middleware prefixes it *)
(* with the user) and names one intention, which its retries repeat.       *)
(***************************************************************************)
EXTENDS Naturals, FiniteSets

CONSTANTS
  BillingCalls, \* HTTP calls
  Intents,      \* what they may be for: a subset of AllIntents
  Keys,         \* Idempotency-Key values
  NoKey,        \* the header is missing; may be one of Keys
  Customers, Transactions, Devices,
  Term,         \* days an entitlement lasts: 30
  Kept,         \* days Redis keeps a reply: 1
  LastDay,      \* the calendar stops here
  BillingFaults \* calls that may fail, and "crash"

AllIntents ==
  [op: {"verify"}, user: Customers, transaction: Transactions]
    \cup [op: {"restore", "malformed"}, user: Customers]
    \cup [op: {"push"}, user: Customers, device: Devices, token: BOOLEAN]

ASSUME PurchasesAssumption ==
  /\ IsFiniteSet(BillingCalls)
  /\ Intents \subseteq AllIntents
  /\ {Term, Kept} \subseteq Nat \ {0} /\ LastDay \in Nat
  /\ BillingFaults \subseteq {"get", "set", "record", "save", "read", "push", "crash"}

VARIABLES
  today,
  intent, keyOf, \* what each key is for, and the key of each call: they do not change
  kept,          \* Redis: the reply kept under each key, and since which day
  purchases,     \* the recorded purchases' users: one row for each transaction
  entitlement,   \* each user's row: its tier, and the day it ends
  devices,       \* each device's row: its user, and whether it has a push token
  billing,       \* where each call is
  until,         \* the end of term that its verification computed
  answer,        \* its reply: what is about to be sent, and then what was
  ran,           \* history: how often the handler ran for each key
  claimed        \* history: the days on which each user asked for a verification

scenario    == <<intent, keyOf>>
rows        == <<purchases, entitlement, devices>>
billingVars == <<today, scenario, kept, rows, billing, until, answer, ran, claimed>>

Never    == LastDay + Term + 1
FreeTier == [tier |-> "free", ends |-> Never]
NoDevice == [user |-> "nobody", token |-> FALSE]
NoAnswer == [status |-> 0, tier |-> "free", on |-> 0]

For(c) == intent[keyOf[c]]

BillingInit ==
  /\ today = 0
  /\ intent \in [Keys -> Intents]
  /\ keyOf \in [BillingCalls -> Keys]
  /\ kept = [k \in Keys |-> [reply |-> NoAnswer, since |-> 0]]
  /\ purchases = [t \in Transactions |-> "nobody"]
  /\ entitlement = [u \in Customers |-> FreeTier]
  /\ devices = [d \in Devices |-> NoDevice]
  /\ billing = [c \in BillingCalls |-> "client"]
  /\ until = [c \in BillingCalls |-> 0]
  /\ answer = [c \in BillingCalls |-> NoAnswer]
  /\ ran = [k \in Keys |-> 0]
  /\ claimed = [u \in Customers |-> {}]

GoTo(c, place) == billing' = [billing EXCEPT ![c] = place]

(* The handler returns.  Replies below 500 are stored under the key. *)
Return(c, status, tier) ==
  /\ answer' = [answer EXCEPT ![c] = [status |-> status, tier |-> tier, on |-> today]]
  /\ GoTo(c, IF keyOf[c] # NoKey /\ status < 500 THEN "store" ELSE "replied")

NextBillingDay ==
  /\ today < LastDay /\ today' = today + 1
  /\ UNCHANGED <<scenario, kept, rows, billing, until, answer, ran, claimed>>

-----------------------------------------------------------------------------
(* Idempotency: the look-up.  A key whose day is over is gone from Redis.  *)
Finds_Never(k) == FALSE
Finds(k) ==
  k # NoKey /\ kept[k].reply # NoAnswer /\ today < kept[k].since + Kept

LookUpReply(c) ==
  LET k == keyOf[c]
  IN  /\ billing[c] = "client"
      /\ \/ Finds(k) /\ answer' = [answer EXCEPT ![c] = kept[k].reply]
                     /\ GoTo(c, "replied") /\ UNCHANGED ran
         \/ /\ ~ Finds(k) \/ "get" \in BillingFaults
            /\ ran' = [ran EXCEPT ![k] = @ + 1]
            /\ GoTo(c, For(c).op) /\ UNCHANGED answer
      /\ UNCHANGED <<today, scenario, kept, rows, until, claimed>>

(* Idempotency: the reply is kept for a day; an error is ignored. *)
StoreReply(c) ==
  /\ billing[c] = "store"
  /\ \/ kept' = [kept EXCEPT ![keyOf[c]] = [reply |-> answer[c], since |-> today]]
     \/ "set" \in BillingFaults /\ UNCHANGED kept
  /\ GoTo(c, "replied")
  /\ UNCHANGED <<today, scenario, rows, until, answer, ran, claimed>>

-----------------------------------------------------------------------------
RefuseMalformed(c) ==
  /\ billing[c] = "malformed" /\ Return(c, 400, "free")
  /\ UNCHANGED <<today, scenario, kept, rows, until, ran, claimed>>

(* RecordPurchase: nothing where the transaction is recorded already, by   *)
(* whomever; an error is ignored.  No store is asked ("server-side         *)
(* validation simulation"): the request alone gives the term, from then.   *)
TermFrom(day) == day + Term

RecordPurchase(c) ==
  LET t == For(c).transaction
      u == For(c).user
  IN  /\ billing[c] = "verify"
      /\ \/ purchases' = [purchases EXCEPT ![t] = IF @ = "nobody" THEN u ELSE @]
         \/ "record" \in BillingFaults /\ UNCHANGED purchases
      /\ until' = [until EXCEPT ![c] = TermFrom(today)]
      /\ claimed' = [claimed EXCEPT ![u] = @ \cup {today}]
      /\ GoTo(c, "save")
      /\ UNCHANGED <<today, scenario, kept, entitlement, devices, answer, ran>>

(* The term starts anew whatever was left of the last one. *)
SaveEntitlement(c) ==
  /\ billing[c] = "save"
  /\ \/ /\ entitlement' = [entitlement EXCEPT ![For(c).user] =
                             [tier |-> "premium", ends |-> until[c]]]
        /\ GoTo(c, "restore") /\ UNCHANGED answer
     \/ "save" \in BillingFaults /\ Return(c, 400, "free") /\ UNCHANGED entitlement
  /\ UNCHANGED <<today, scenario, kept, purchases, devices, until, ran, claimed>>

(* GetByUserID: a term that is over reads as free; the row keeps it.  To   *)
(* restore is no more than that.                                           *)
TierOf_AsStored(row) == row.tier
TierOf(row)          == IF today > row.ends THEN "free" ELSE row.tier

GetEntitlement(c) ==
  /\ billing[c] = "restore"
  /\ \/ Return(c, 200, TierOf(entitlement[For(c).user]))
     \/ /\ "read" \in BillingFaults
        /\ Return(c, IF For(c).op = "verify" THEN 400 ELSE 500, "free")
  /\ UNCHANGED <<today, scenario, kept, rows, until, ran, claimed>>

(* UpsertDevice takes the device over; DeleteDeviceToken asks whose it is  *)
(* as little, and adds no row.                                             *)
RegisterPushToken(c) ==
  /\ billing[c] = "push"
  /\ \/ /\ devices' = [devices EXCEPT ![For(c).device] =
                         IF For(c).token THEN [user |-> For(c).user, token |-> TRUE]
                                         ELSE [@ EXCEPT !.token = FALSE]]
        /\ Return(c, 200, "free")
     \/ "push" \in BillingFaults /\ Return(c, 500, "free") /\ UNCHANGED devices
  /\ UNCHANGED <<today, scenario, kept, purchases, entitlement, until, ran, claimed>>

(* The process dies under the call. *)
CrashBilling(c) ==
  /\ "crash" \in BillingFaults /\ billing[c] \notin {"client", "replied", "died"}
  /\ GoTo(c, "died") /\ answer' = [answer EXCEPT ![c] = NoAnswer]
  /\ UNCHANGED <<today, scenario, kept, rows, until, ran, claimed>>

ServeBilling(c) ==
  \/ LookUpReply(c) \/ StoreReply(c) \/ RefuseMalformed(c) \/ RecordPurchase(c)
  \/ SaveEntitlement(c) \/ GetEntitlement(c) \/ RegisterPushToken(c) \/ CrashBilling(c)

BillingNext == NextBillingDay \/ \E c \in BillingCalls : ServeBilling(c)

BillingSpec == BillingInit /\ [][BillingNext]_billingVars

-----------------------------------------------------------------------------
Answers == [status: {0, 200, 400, 500}, tier: {"free", "premium"}, on: 0 .. LastDay]

BillingTypeOK ==
  /\ today \in 0 .. LastDay
  /\ intent \in [Keys -> Intents] /\ keyOf \in [BillingCalls -> Keys]
  /\ kept \in [Keys -> [reply: Answers, since: 0 .. LastDay]]
  /\ purchases \in [Transactions -> Customers \cup {"nobody"}]
  /\ entitlement \in [Customers -> [tier: {"free", "premium"}, ends: 0 .. Never]]
  /\ devices \in [Devices -> [user: Customers \cup {"nobody"}, token: BOOLEAN]]
  /\ billing \in [BillingCalls -> {"client", "verify", "save", "restore", "push",
                                   "malformed", "store", "replied", "died"}]
  /\ until \in [BillingCalls -> 0 .. Never]
  /\ answer \in [BillingCalls -> Answers]
  /\ ran \in [Keys -> 0 .. Cardinality(BillingCalls)]
  /\ claimed \in [Customers -> SUBSET (0 .. LastDay)]

(* Premium runs out: whatever overlaps, fails or dies, a learner who was   *)
(* told on a day that he is premium had asked, himself, for a purchase to  *)
(* be verified no longer than the term before; a reply that Redis kept is  *)
(* of its day.  That he bought anything it does not say.                   *)
PremiumRunsOut ==
  \A c \in BillingCalls :
    answer[c].tier = "premium" =>
      \E d \in claimed[For(c).user] : d <= answer[c].on /\ answer[c].on <= d + Term

(* A key's handler runs once, and its retries read the same reply. *)
KeyRunsOnce(k) ==
  /\ ran[k] <= 1
  /\ \A c, d \in BillingCalls :
       keyOf[c] = k /\ keyOf[d] = k /\ billing[c] = "replied" /\ billing[d] = "replied"
         => /\ answer[c].status = answer[d].status
            /\ answer[c].tier = answer[d].tier

(* A term that a learner was promised is not cut short by a later call. *)
TermIsKept ==
  \A c \in BillingCalls :
    For(c).op = "verify" /\ answer[c].status = 200 =>
      entitlement[For(c).user].ends >= until[c]

(* "POST /billing/restore repeats reconciliation": a learner whose         *)
(* purchase is recorded and whose term runs is premium after a restore.    *)
RestoreReconciles ==
  \A c \in BillingCalls :
    /\ For(c).op = "restore" /\ answer[c].status = 200
    /\ \E t \in Transactions : purchases[t] = For(c).user
    /\ \A d \in claimed[For(c).user] : answer[c].on <= d + Term
    => answer[c].tier = "premium"

(* "Verifies it with Apple/Google on the server.  Store the original       *)
(* transaction/purchase token uniquely": a learner told that he is premium *)
(* has a purchase recorded as his.  The API document asks for it, the code *)
(* does not do it (no store is asked, and the record may fail or be        *)
(* another user's), and no run checks it.                                  *)
PremiumHasAPurchase ==
  \A c \in BillingCalls :
    answer[c].tier = "premium" => \E t \in Transactions : purchases[t] = For(c).user
=============================================================================
