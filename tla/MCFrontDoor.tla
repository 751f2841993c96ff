----------------------------- MODULE MCFrontDoor -----------------------------
(***************************************************************************)
(* Instance for TLC of what stands before the use cases and guards them:   *)
(* the rate limiter, the key cache, idempotency with billing, accounts.    *)
(* They share no state, so a behaviour is one of any of them.              *)
(***************************************************************************)
EXTENDS RateLimit, KeyCache, Purchases, Accounts, TLC

CONSTANTS r1, r2, v1, v2, b1, b2, b3, a1, a2, k1, learner, other, receipt, phone, p1, p2

VARIABLES
  door,      \* the component that moves
  crossed,   \* sign-ins whose refresh of the keys met another
  disturbed, \* keys with calls that overlapped, failed, died or outlived the kept reply
  straddled, \* whether a midnight fell between a verification and its save
  raced,     \* identities first signed in to by two calls at once
  shared     \* accounts that two calls held at once

histories == <<crossed, disturbed, straddled, raced, shared>>

MCIntents == {[op |-> "verify", user |-> learner, transaction |-> receipt],
              [op |-> "restore", user |-> learner], [op |-> "malformed", user |-> learner],
              [op |-> "push", user |-> learner, device |-> phone, token |-> TRUE],
              [op |-> "push", user |-> other, device |-> phone, token |-> FALSE]}
MCHandSigned == [typ: {"access"}, sub: {p2}, role: {"content_admin"}]
MCOpened     == <<p2>>
Symmetry     == Permutations(BillingCalls) \cup Permutations(Calls)

MCInit ==
  /\ door \in {"limits", "keys", "billing", "accounts"}
  /\ LimitsInit /\ KeysInit /\ BillingInit /\ AccountsInit
  /\ door # "limits" => route = "sync"
  /\ intent[NoKey].op = "verify"
  /\ door # "billing" => intent[k1].op = "restore" /\ \A c \in BillingCalls : keyOf[c] = k1
  /\ crossed = {} /\ disturbed = {NoKey} /\ straddled = FALSE /\ raced = {} /\ shared = {}

LimitsStep == LimitsNext /\ UNCHANGED histories

KeysStep ==
  /\ KeysNext
  /\ crossed' = crossed \cup (IF Cardinality(Fetching') > 1 THEN Fetching' ELSE {})
  /\ UNCHANGED <<disturbed, straddled, raced, shared>>

Under(c) == billing[c] \notin {"client", "replied", "died"}
Disturbs(k) ==
  \/ \E c, d \in BillingCalls : c # d /\ keyOf[c] = k /\ keyOf[d] = k /\ Under(c)' /\ Under(d)'
  \/ Finds(k) /\ ran'[k] > ran[k]
  \/ kept[k].reply # NoAnswer /\ today' >= kept[k].since + Kept
  \/ \E c \in BillingCalls : /\ keyOf[c] = k
                             /\ \/ billing'[c] = "died" \/ answer'[c].status >= 500
                                \/ billing[c] = "store" /\ billing'[c] = "replied"
                                   /\ kept'[k].reply # answer[c]

BillingStep ==
  /\ BillingNext
  /\ disturbed' = disturbed \cup {k \in Keys : Disturbs(k)}
  /\ straddled' = (straddled \/ (today' > today /\ \E c \in BillingCalls : billing[c] = "save"))
  /\ UNCHANGED <<crossed, raced, shared>>

Opening(c) == serving[c] \in {"select", "insert"}
Holds(c)   == serving[c] \notin {"client", "verify", "select", "insert", "replied"}

AccountsStep ==
  /\ AccountsNext
  /\ raced' = raced \cup {p \in Identities : \E c, d \in AccountCalls :
       c # d /\ Opening(c)' /\ Opening(d)' /\ IdentityOf(c)' = p /\ IdentityOf(d)' = p}
  /\ shared' = shared \cup {i \in Ids : \E c, d \in AccountCalls :
       c # d /\ Holds(c)' /\ Holds(d)' /\ held'[c].id = i /\ held'[d].id = i}
  /\ UNCHANGED <<crossed, disturbed, straddled>>

MCNext ==
  \/ door = "limits"   /\ LimitsStep   /\ UNCHANGED <<door, keyVars, billingVars, accountVars>>
  \/ door = "keys"     /\ KeysStep     /\ UNCHANGED <<door, limitVars, billingVars, accountVars>>
  \/ door = "billing"  /\ BillingStep  /\ UNCHANGED <<door, limitVars, keyVars, accountVars>>
  \/ door = "accounts" /\ AccountsStep /\ UNCHANGED <<door, limitVars, keyVars, billingVars>>

MCSpec == MCInit /\ [][MCNext]_<<door, histories, limitVars, keyVars, billingVars, accountVars>>

-----------------------------------------------------------------------------
(* The types of the four components. *)
FrontDoorTypeOK == LimitsTypeOK /\ KeysTypeOK /\ BillingTypeOK /\ AccountsTypeOK

(* A good token is refused only where two refreshes of the keys met and    *)
(* the older answer was stored last.                                       *)
KeyCacheIsSound ==
  /\ AcceptedKeysAreRecent
  /\ \A r \in Verifications \ crossed : GoodTokenIsAccepted(r)

(* A retry under its key finds the reply of the first call, and the        *)
(* handler has run once, unless the two overlap, a call of Redis fails,    *)
(* the process dies, the reply was an error of the server, or a day is     *)
(* over.                                                                   *)
OrderlyKeyRunsOnce == \A k \in Keys \ disturbed : KeyRunsOnce(k)

(* A term ends: premium is told only to who asked for a verification less  *)
(* than a term ago, whether or not anything was bought.  And it runs: no   *)
(* later call shortens it, unless a midnight falls between the two writes  *)
(* of a verification.                                                      *)
TermsRunAndEnd == PremiumRunsOut /\ (straddled \/ TermIsKept)

(* Where no two first sign-ins of it meet an identity has one account, and *)
(* where no two calls hold it at once a row loses none of its writes.      *)
OrderlyAccounts ==
  /\ \A p \in Identities \ raced : OneAccount(p)
  /\ \A i \in Ids \ shared : KeepsEveryWrite(i)
=============================================================================
