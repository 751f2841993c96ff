------------------------------- MODULE KeyCache -------------------------------
(***************************************************************************)
(* Sign-in with a Firebase ID token up to the account: firebase.Verifier   *)
(* with its cache of Google's signing keys under a RWMutex, and how        *)
(* SessionUsecase and SessionHandler report its errors.  Every critical    *)
(* section and the HTTP request between two of them is a step.  A token is *)
(* the key that signed it and whether its claims hold.                     *)
(***************************************************************************)
EXTENDS Naturals, FiniteSets

CONSTANTS
  Verifications, \* POST /auth/session calls
  LastKey,       \* Google signs with key after key; the model ends with this one
  Hour,          \* steps of the hour a fetched set of keys is kept
  KeyFaults      \* {"fetch"}: Google's endpoint may fail

ASSUME KeyCacheAssumption ==
  /\ IsFiniteSet(Verifications)
  /\ LastKey \in Nat /\ LastKey >= 2
  /\ Hour \in Nat \ {0}
  /\ KeyFaults \subseteq {"fetch"}

Kids == 1 .. LastKey

VARIABLES
  oldest,     \* Google serves this key and the next
  retired,    \* steps for which a key has not been served, up to Hour + 1
  keys,       \* v.keys
  keysUntil,  \* steps until v.keysUntil
  verifying,  \* where each sign-in is
  token,      \* what it presents
  inHand,     \* whether the cache held its key when first looked at
  response,   \* the key set it fetched
  outcome,    \* the reply
  seen        \* histories: whether its fetch failed, the age of the key that it was
              \* accepted with, whether its key was served all along

keyVars == <<oldest, retired, keys, keysUntil, verifying, token, inHand, response, outcome, seen>>

Served == {oldest, oldest + 1}
IdTokens == [kid: Kids, good: BOOLEAN]

KeysInit ==
  /\ oldest = 1
  /\ retired = [k \in Kids |-> 0]
  /\ keys = {} /\ keysUntil = 0
  /\ verifying = [r \in Verifications |-> "client"]
  /\ token = [r \in Verifications |-> [kid |-> 1, good |-> TRUE]]
  /\ inHand = [r \in Verifications |-> FALSE]
  /\ response = [r \in Verifications |-> {}]
  /\ outcome = [r \in Verifications |-> "none"]
  /\ seen = [r \in Verifications |-> [failed |-> FALSE, age |-> 0, served |-> TRUE]]

Fetching == {r \in Verifications : verifying[r] \in {"fetch", "store", "reread"}}

(* Google replaces its older key, at any moment. *)
RotateKeys ==
  /\ oldest + 2 <= LastKey
  /\ oldest' = oldest + 1
  /\ seen' = [r \in Verifications |-> [seen[r] EXCEPT !.served =
                                          @ /\ (verifying[r] = "done" \/ token[r].kid # oldest)]]
  /\ UNCHANGED <<retired, keys, keysUntil, verifying, token, inHand, response, outcome>>

(* The client's timeout, 5 seconds, is far shorter than a step of the hour. *)
KeyTick ==
  /\ Fetching = {}
  /\ keysUntil > 0 \/ \E k \in Kids : k < oldest /\ retired[k] <= Hour
  /\ keysUntil' = IF keysUntil = 0 THEN 0 ELSE keysUntil - 1
  /\ retired' = [k \in Kids |-> IF k < oldest /\ retired[k] <= Hour THEN retired[k] + 1
                                                                    ELSE retired[k]]
  /\ UNCHANGED <<oldest, keys, verifying, token, inHand, response, outcome, seen>>

(* Verify drops the error of jwt.Parse, keyFor's included, for its own; of *)
(* the errors that reach it PostSession tells 503 from 401.                *)
VerifyError(err) == "TokenInvalid"
StatusOf(err)    == IF err = "KeyUnavailable" THEN "503" ELSE "401"

Accept(r) ==
  /\ verifying' = [verifying EXCEPT ![r] = "done"]
  /\ outcome' = [outcome EXCEPT ![r] = IF token[r].good THEN "verified"
                                       ELSE StatusOf(VerifyError("ClaimsInvalid"))]
  /\ seen' = [seen EXCEPT ![r].age = retired[token[r].kid]]

Refuse(r, err) ==
  /\ verifying' = [verifying EXCEPT ![r] = "done"]
  /\ outcome' = [outcome EXCEPT ![r] = StatusOf(VerifyError(err))]

PresentToken(r) ==
  /\ verifying[r] = "client"
  /\ verifying' = [verifying EXCEPT ![r] = "look"]
  /\ \E t \in IdTokens : t.kid < oldest + 2 /\ token' = [token EXCEPT ![r] = t]
  /\ seen' = [seen EXCEPT ![r].served = token'[r].kid \in Served]
  /\ UNCHANGED <<oldest, retired, keys, keysUntil, inHand, response, outcome>>

(* keyFor, under the read lock. *)
Usable_AnyAge(ok, fresh) == ok
Usable(ok, fresh)        == ok /\ fresh

LookUpKey(r) ==
  LET ok == token[r].kid \in keys
  IN  /\ verifying[r] = "look"
      /\ \/ Usable(ok, keysUntil > 0) /\ Accept(r) /\ UNCHANGED inHand
         \/ /\ ~ Usable(ok, keysUntil > 0)
            /\ verifying' = [verifying EXCEPT ![r] = "fetch"]
            /\ inHand' = [inHand EXCEPT ![r] = ok]
            /\ UNCHANGED <<outcome, seen>>
      /\ UNCHANGED <<oldest, retired, keys, keysUntil, token, response>>

(* refreshKeys asks Google, without a lock: several sign-ins may. *)
FetchKeys(r) ==
  /\ verifying[r] = "fetch"
  /\ verifying' = [verifying EXCEPT ![r] = "store"]
  /\ response' = [response EXCEPT ![r] = Served]
  /\ UNCHANGED <<oldest, retired, keys, keysUntil, token, inHand, outcome, seen>>

(* "A rotation we failed to fetch should not invalidate a token we can     *)
(* still verify with a key already in hand", however old.                  *)
FetchFails(r) ==
  /\ verifying[r] = "fetch" /\ "fetch" \in KeyFaults
  /\ verifying' = [verifying EXCEPT ![r] = "done"]
  /\ LET err == IF inHand[r] THEN "none" ELSE "KeyUnavailable"
     IN  outcome' = [outcome EXCEPT ![r] = IF err = "none" /\ token[r].good THEN "verified"
                                           ELSE StatusOf(VerifyError(err))]
  /\ seen' = [seen EXCEPT ![r].failed = TRUE]
  /\ UNCHANGED <<oldest, retired, keys, keysUntil, token, inHand, response>>

(* The write lock: the whole set is replaced, by an older one perhaps. *)
StoreKeys(r) ==
  /\ verifying[r] = "store"
  /\ verifying' = [verifying EXCEPT ![r] = "reread"]
  /\ keys' = response[r] /\ keysUntil' = Hour
  /\ UNCHANGED <<oldest, retired, token, inHand, response, outcome, seen>>

(* The read lock again: whoever stored last, his set is looked at. *)
RereadKey(r) ==
  /\ verifying[r] = "reread"
  /\ \/ token[r].kid \in keys /\ Accept(r)
     \/ token[r].kid \notin keys /\ Refuse(r, "TokenInvalid") /\ UNCHANGED seen
  /\ UNCHANGED <<oldest, retired, keys, keysUntil, token, inHand, response>>

VerifyToken(r) ==
  LookUpKey(r) \/ FetchKeys(r) \/ FetchFails(r) \/ StoreKeys(r) \/ RereadKey(r)

KeysNext == RotateKeys \/ KeyTick \/ \E r \in Verifications : PresentToken(r) \/ VerifyToken(r)

KeysSpec == KeysInit /\ [][KeysNext]_keyVars

-----------------------------------------------------------------------------
KeysTypeOK ==
  /\ oldest \in 1 .. LastKey - 1
  /\ retired \in [Kids -> 0 .. Hour + 1]
  /\ keys \in SUBSET Kids /\ keysUntil \in 0 .. Hour
  /\ verifying \in [Verifications -> {"client", "look", "fetch", "store", "reread", "done"}]
  /\ token \in [Verifications -> IdTokens]
  /\ inHand \in [Verifications -> BOOLEAN]
  /\ response \in [Verifications -> SUBSET Kids]
  /\ outcome \in [Verifications -> {"none", "verified", "401", "503"}]
  /\ seen \in [Verifications -> [failed: BOOLEAN, age: 0 .. Hour + 1, served: BOOLEAN]]

(* A token is accepted only with a key that Google served within the last  *)
(* hour, although answers overtake each other and the older set may be     *)
(* stored last; only where Google could not be asked is an older one good. *)
AcceptedKeysAreRecent ==
  \A r \in Verifications : outcome[r] = "verified" /\ ~ seen[r].failed => seen[r].age <= Hour

(* "This must not read as `bad token'": a sign-in with a good token whose  *)
(* key Google serves is not turned away as unauthorized because its keys   *)
(* could not be fetched.                                                   *)
OutageIsNotABadToken ==
  \A r \in Verifications : token[r].good /\ seen[r].served /\ seen[r].failed => outcome[r] # "401"

(* A good token whose key is served from its arrival to the reply is not   *)
(* refused, provided its fetch did not fail.                               *)
GoodTokenIsAccepted(r) ==
  token[r].good /\ seen[r].served /\ ~ seen[r].failed => outcome[r] # "401"
=============================================================================
