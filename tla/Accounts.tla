------------------------------- MODULE Accounts -------------------------------
(***************************************************************************)
(* Accounts, sessions and what a learner may do with a session: the        *)
(* session and sign-in handlers, middleware.Authenticate, AuthUsecase,     *)
(* SessionUsecase and ProfileUsecase over the Postgres UserRepository.     *)
(* Every repository call is a step.  A row is its provider identity, its   *)
(* name and its role; the avatar is abstracted, the writes that change it  *)
(* are not, since each writes the whole row.  A public id is the row's id. *)
(* A credential is a token's type, its subject and the role it claims.     *)
(***************************************************************************)
EXTENDS Naturals, Sequences, FiniteSets

CONSTANTS
  Identities,   \* (provider, provider_id) pairs; a guest's is the installation
  Names,        \* display names
  FirstName,    \* the one an account gets that brings none
  AccountCalls, \* HTTP calls
  Asks,         \* what they may ask for, of AllAsks
  Opened,       \* the identities that have accounts already, in their order
  LastAccount,  \* accounts that may come to exist
  HandSigned,   \* credentials of cmd/token, which name an identity
  OlderRoutes,  \* whether the older sign-in routes are mounted, before the session's
  Defaults,     \* tables that get a row with the account
  Settings,     \* tables that a learner writes his row of
  AccountFaults \* calls that may fail

Ids      == 1 .. LastAccount
Roles    == {"user", "content_admin", "content_publisher"}
AllAsks  == {"signin", "telegram", "guest", "refresh", "me", "delete", "admin", "publish",
             "patch", "save"}
Tables   == Defaults \cup Settings

ASSUME AccountsAssumption ==
  /\ IsFiniteSet(AccountCalls) /\ LastAccount \in Nat
  /\ Opened \in Seq(Identities) /\ Len(Opened) <= LastAccount
  /\ FirstName \in Names /\ Asks \subseteq AllAsks
  /\ Ids \cap Identities = {} /\ {"none", "timestamp"} \cap Identities = {}
  /\ HandSigned \subseteq [typ: {"access"}, sub: Identities, role: Roles]
  /\ OlderRoutes \in BOOLEAN
  /\ "user_onboardings" \in Settings
  /\ AccountFaults \subseteq {"select", "insert", "defaults", "update", "write"}

VARIABLES
  accounts,  \* the rows of `users', by id
  lastId,    \* the sequence behind the ids
  settings,  \* the tables that hold a row of each account
  issued,    \* the credentials that clients hold
  serving,   \* where each call is
  wish,      \* what it asks for
  held,      \* the row it read, with its id
  result,    \* its reply
  before,    \* history: the accounts that were gone, and the calls that were over, when it came
  meant      \* history: the name and role last written on purpose to each account

accountVars == <<accounts, lastId, settings, issued, serving, wish, held, result,
                 before, meant>>

NoRow  == [identity |-> "none", name |-> FirstName, role |-> "user"]
Gone   == {i \in 1 .. lastId : accounts[i] = NoRow}
Over   == {c \in AccountCalls : serving[c] = "replied"}
NoWish == [op |-> "me", token |-> [typ |-> "access", sub |-> 0, role |-> "user"]]

SignIns  == [op: {"signin"}, identity: Identities, name: Names]
              \cup [op: {"guest"} \cup {o \in {"telegram"} : OlderRoutes}, identity: Identities]
Acts     == [op: {"refresh", "me", "delete", "admin", "publish"}, token: issued]
              \cup [op: {"patch"}, token: issued, name: Names]
              \cup [op: {"save"}, token: issued, table: Settings, body: {"good"}]
              \cup [op: {"save"}, token: issued, table: {"user_onboardings"},
                    body: {"refused", "undated"}]

FirstRow(p) == [identity |-> p, name |-> FirstName, role |-> "user"]
FirstRows   == [i \in Ids |-> IF i <= Len(Opened) THEN FirstRow(Opened[i]) ELSE NoRow]

AccountsInit ==
  /\ accounts = FirstRows /\ meant = FirstRows /\ lastId = Len(Opened)
  /\ settings = [i \in Ids |-> IF i <= lastId THEN Defaults ELSE {}]
  /\ issued = HandSigned \cup [typ: {"access", "refresh"}, sub: 1 .. lastId, role: {"user"}]
  /\ serving = [c \in AccountCalls |-> "client"]
  /\ wish = [c \in AccountCalls |-> NoWish]
  /\ held = [c \in AccountCalls |-> [id |-> 0, row |-> NoRow]]
  /\ result = [c \in AccountCalls |-> 0]
  /\ before = [c \in AccountCalls |-> [gone |-> {}, over |-> {}]]

Go(c, place)   == serving' = [serving EXCEPT ![c] = place] /\ UNCHANGED result
End(c, status) == /\ serving' = [serving EXCEPT ![c] = "replied"]
                  /\ result' = [result EXCEPT ![c] = status]
Hold(c, i)     == held' = [held EXCEPT ![c] = [id |-> i, row |-> accounts[i]]]
Exists(i)      == accounts[i] # NoRow

Arrive(c) ==
  /\ serving[c] = "client"
  /\ \E w \in SignIns \cup Acts :
       /\ w.op \in Asks
       /\ wish' = [wish EXCEPT ![c] = w]
       /\ Go(c, CASE w.op \in {"signin", "telegram", "guest"} -> "select"
                  [] w.op = "refresh" -> "refresh"
                  [] OTHER -> "verify")
  /\ before' = [before EXCEPT ![c] = [gone |-> Gone, over |-> Over]]
  /\ UNCHANGED <<accounts, lastId, settings, issued, held, meant>>

-----------------------------------------------------------------------------
(* GetOrCreateByProvider: a SELECT on an index that is not unique, then an *)
(* INSERT, then the default rows, whose errors are ignored.  The older     *)
(* guest handler makes a provider id of the clock, never met again.        *)
SigningIn(c) == wish[c].op \in {"signin", "telegram", "guest"}
NewGuest(c)  == OlderRoutes /\ wish[c].op = "guest"
IdentityOf(c) ==
  IF NewGuest(c) THEN "timestamp" ELSE IF SigningIn(c) THEN wish[c].identity ELSE wish[c].token.sub

Found(c)      == {i \in Ids : accounts[i].identity = IdentityOf(c) /\ ~ NewGuest(c)}

(* The handlers of the older routes. *)
Older(c)      == wish[c].op = "telegram" \/ NewGuest(c)

Resolved(c)   == Go(c, IF SigningIn(c) THEN "apply" ELSE "override")
NoAccount(c)  == End(c, IF SigningIn(c) THEN 500 ELSE 401)

SelectAccount(c) ==
  /\ serving[c] = "select"
  /\ \/ \E i \in Found(c) : Hold(c, i) /\ Resolved(c)
     \/ Found(c) = {} /\ Go(c, "insert") /\ UNCHANGED held
     \/ "select" \in AccountFaults /\ NoAccount(c) /\ UNCHANGED held
  /\ UNCHANGED <<accounts, lastId, settings, issued, wish, before, meant>>

InsertAccount(c) ==
  LET row == [FirstRow(IdentityOf(c)) EXCEPT
                !.name = IF wish[c].op = "signin" THEN wish[c].name ELSE @]
  IN  /\ serving[c] = "insert"
      /\ \/ /\ lastId < LastAccount /\ lastId' = lastId + 1
            /\ accounts' = [accounts EXCEPT ![lastId'] = row]
            /\ meant' = [meant EXCEPT ![lastId'] = row]
            /\ held' = [held EXCEPT ![c] = [id |-> lastId', row |-> row]]
            /\ Go(c, "defaults")
         \/ /\ "insert" \in AccountFaults /\ NoAccount(c)
            /\ UNCHANGED <<accounts, lastId, held, meant>>
      /\ UNCHANGED <<settings, issued, wish, before>>

(* Every table references its account: no row without one. *)
Refers_Unchecked(i) == TRUE
Refers(i)           == Exists(i)

InsertDefaults(c) ==
  LET i == held[c].id
  IN  /\ serving[c] = "defaults"
      /\ \E written \in IF "defaults" \in AccountFaults THEN SUBSET Defaults ELSE {Defaults} :
           settings' = [settings EXCEPT ![i] = IF Refers(i) THEN @ \cup written ELSE @]
      /\ Resolved(c)
      /\ UNCHANGED <<accounts, lastId, issued, wish, held, before, meant>>

(* Update writes name, avatar and role together, the ones the call does    *)
(* not change as it read them, to a row if there still is one.             *)
Written_RoleLost(row, name, role) == [row EXCEPT !.name = name, !.role = "user"]
Written(row, name, role)          == [row EXCEPT !.name = name, !.role = role]

Update(c, name, role) ==
  LET i   == held[c].id
      row == held[c].row
  IN  /\ \/ /\ Exists(i)
            /\ accounts' = [accounts EXCEPT ![i] = Written(row, name, role)]
            /\ meant' = [meant EXCEPT ![i].name = IF name # row.name THEN name ELSE @,
                                      ![i].role = IF role # row.role THEN role ELSE @]
         \/ (~ Exists(i) \/ "update" \in AccountFaults) /\ UNCHANGED <<accounts, meant>>
      /\ held' = [held EXCEPT ![c].row = Written(row, name, role)]

-----------------------------------------------------------------------------
(* ExchangeFirebaseToken applies the identity's name if it changed,        *)
(* PostTelegramAuth an avatar if there was none; errors are ignored.       *)
ApplyIdentity(c) ==
  LET row == held[c].row
  IN  /\ serving[c] = "apply"
      /\ CASE wish[c].op = "signin" /\ wish[c].name # row.name -> Update(c, wish[c].name, row.role)
           [] wish[c].op = "telegram" -> Update(c, row.name, row.role) \/ UNCHANGED <<accounts, held, meant>>
           [] OTHER -> UNCHANGED <<accounts, held, meant>>
      /\ Go(c, "issue")
      /\ UNCHANGED <<lastId, settings, issued, wish, before>>

(* Issuer: an access and a refresh token for the account as it was read;   *)
(* the older handlers issue no refresh token.                              *)
IssueSession(c) ==
  /\ serving[c] = "issue"
  /\ issued' = issued \cup [typ:  IF Older(c) THEN {"access"} ELSE {"access", "refresh"},
                            sub:  {held[c].id}, role: {held[c].row.role}]
  /\ End(c, IF Older(c) \/ wish[c].op = "refresh" THEN 200 ELSE 201)
  /\ UNCHANGED <<accounts, lastId, settings, wish, held, before, meant>>

(* The token's type decides where it is taken. *)
VerifyRefresh(t) == t.typ = "refresh"
VerifyAccess(t)  == t.typ = "access"

(* Refresh: a token that is expired, or not a refresh token, or whose      *)
(* account is gone, all read the same.                                     *)
Refresh(c) ==
  LET t == wish[c].token
  IN  /\ serving[c] = "refresh"
      /\ \/ VerifyRefresh(t) /\ Exists(t.sub) /\ Hold(c, t.sub) /\ Go(c, "issue")
         \/ End(c, 401) /\ UNCHANGED held
      /\ UNCHANGED <<accounts, lastId, settings, issued, wish, before, meant>>

(* Verify refuses refresh tokens and, at any time, expired ones.  A        *)
(* session's subject is an account, never created again; any other is a    *)
(* provider's identity.                                                    *)
Verify(c) ==
  LET t == wish[c].token
  IN  /\ serving[c] = "verify"
      /\ \/ VerifyAccess(t) /\ t.sub \in Ids /\ Exists(t.sub) /\ Hold(c, t.sub) /\ Go(c, "override")
         \/ VerifyAccess(t) /\ t.sub \in Identities /\ Go(c, "select") /\ UNCHANGED held
         \/ End(c, 401) /\ UNCHANGED held
      /\ UNCHANGED <<accounts, lastId, settings, issued, wish, before, meant>>

(* A role above a learner's that the token claims goes into the account.   *)
OverrideRole(c) ==
  LET row  == held[c].row
      role == wish[c].token.role
  IN  /\ serving[c] = "override"
      /\ IF role \in {"user", row.role} THEN UNCHANGED <<accounts, held, meant>>
                                        ELSE Update(c, row.name, role)
      /\ Go(c, "admitted")
      /\ UNCHANGED <<lastId, settings, issued, wish, before>>

-----------------------------------------------------------------------------
(* GetProfile reads the row once more. *)
GetMe(c) ==
  /\ serving[c] = "patched" \/ (serving[c] = "admitted" /\ wish[c].op = "me")
  /\ End(c, IF Exists(held[c].id) THEN 200 ELSE 404)
  /\ UNCHANGED <<accounts, lastId, settings, issued, wish, held, before, meant>>

(* RequireRole before an administrator's and a publisher's endpoints. *)
RequireRole(c) ==
  LET role == held[c].row.role
  IN  /\ serving[c] = "admitted" /\ wish[c].op \in {"admin", "publish"}
      /\ End(c, IF role = "content_publisher" \/ (role = "content_admin" /\ wish[c].op = "admin")
                THEN 200 ELSE 403)
      /\ UNCHANGED <<accounts, lastId, settings, issued, wish, held, before, meant>>

(* UpdateProfile and DeleteAccount read the row again, then write. *)
GetByID(c) ==
  LET i == held[c].id
  IN  /\ serving[c] = "admitted" /\ wish[c].op \in {"patch", "delete"}
      /\ \/ Exists(i) /\ Hold(c, i) /\ Go(c, wish[c].op)
         \/ (~ Exists(i) \/ "select" \in AccountFaults) /\ End(c, 500) /\ UNCHANGED held
      /\ UNCHANGED <<accounts, lastId, settings, issued, wish, before, meant>>

UpdateProfile(c) ==
  /\ serving[c] = "patch"
  /\ \/ Update(c, wish[c].name, held[c].row.role) /\ Go(c, "patched")
     \/ "update" \in AccountFaults /\ End(c, 500) /\ UNCHANGED <<accounts, held, meant>>
  /\ UNCHANGED <<lastId, settings, issued, wish, before>>

(* "A real delete, not a flag": the row and, by cascade, all of its own. *)
DeleteUser(c) ==
  LET i == held[c].id
  IN  /\ serving[c] = "delete"
      /\ \/ /\ accounts' = [accounts EXCEPT ![i] = NoRow]
            /\ settings' = [settings EXCEPT ![i] = {}] /\ End(c, 204)
         \/ "write" \in AccountFaults /\ End(c, 500) /\ UNCHANGED <<accounts, settings>>
      /\ UNCHANGED <<lastId, issued, wish, held, before, meant>>

(* SaveOnboarding, UpdatePreferences, UpdateNotificationPreferences: one   *)
(* upsert each.  An onboarding of an improper goal or a past day is        *)
(* refused; one without a day passes, but is no date to the database.      *)
SaveSettings(c) ==
  LET i == held[c].id
      w == wish[c]
  IN  /\ serving[c] = "admitted" /\ w.op = "save"
      /\ \/ /\ w.body = "good" /\ Refers(i)
            /\ settings' = [settings EXCEPT ![i] = @ \cup {w.table}]
            /\ End(c, 200)
         \/ w.body = "refused" /\ End(c, 400) /\ UNCHANGED settings
         \/ /\ w.body = "undated" \/ (w.body = "good" /\ (~ Refers(i) \/ "write" \in AccountFaults))
            /\ End(c, 500) /\ UNCHANGED settings
      /\ UNCHANGED <<accounts, lastId, issued, wish, held, before, meant>>

ServeAccount(c) ==
  \/ SelectAccount(c) \/ InsertAccount(c) \/ InsertDefaults(c) \/ ApplyIdentity(c)
  \/ IssueSession(c) \/ Refresh(c) \/ Verify(c) \/ OverrideRole(c) \/ GetMe(c)
  \/ RequireRole(c) \/ GetByID(c) \/ UpdateProfile(c) \/ DeleteUser(c) \/ SaveSettings(c)

AccountsNext == \E c \in AccountCalls : Arrive(c) \/ ServeAccount(c)

AccountsSpec == AccountsInit /\ [][AccountsNext]_accountVars

-----------------------------------------------------------------------------
AccountRows == [identity: Identities \cup {"none", "timestamp"}, name: Names, role: Roles]
Credentials == [typ: {"access", "refresh"}, sub: Ids \cup Identities, role: Roles]

AccountsTypeOK ==
  /\ accounts \in [Ids -> AccountRows] /\ lastId \in 0 .. LastAccount
  /\ settings \in [Ids -> SUBSET Tables]
  /\ issued \subseteq Credentials
  /\ serving \in [AccountCalls -> {"client", "select", "insert", "defaults", "apply", "issue",
                    "refresh", "verify", "override", "admitted", "patch", "patched", "delete",
                    "replied"}]
  /\ \A c \in AccountCalls : wish[c] = NoWish \/ wish[c].op \in Asks
  /\ held \in [AccountCalls -> [id: {0} \cup Ids, row: AccountRows]]
  /\ result \in [AccountCalls -> {0, 200, 201, 204, 400, 401, 403, 404, 500}]
  /\ before \in [AccountCalls -> [gone: SUBSET Ids, over: SUBSET AccountCalls]]
  /\ meant \in [Ids -> AccountRows]

(* "Recreating it from the token's own claims would undo the deletion": a  *)
(* deleted account keeps no settings, although calls that were let in      *)
(* before go on writing theirs, and whatever comes after with one of its   *)
(* tokens is refused, renewals included.                                   *)
DeletionIsFinal ==
  /\ \A i \in Gone : settings[i] = {}
  /\ \A c \in AccountCalls :
       held[c].id \in before[c].gone => result[c] \notin {200, 201, 204}

(* An identity has one account.                                            *)
OneAccount(p) == Cardinality({i \in Ids : accounts[i].identity = p}) <= 1

(* A row is what was last written to it on purpose: no write takes back    *)
(* what another call wrote to the other column.                            *)
KeepsEveryWrite(i) == Exists(i) => accounts[i] = meant[i]

(* "Reopening the app must not create a second account": a guest who       *)
(* signs in again from the same installation gets the same account.        *)
ReopeningKeepsTheGuest ==
  \A c, d \in AccountCalls :
    /\ wish[c].op = "guest" /\ wish[d] = wish[c] /\ c \in before[d].over
    /\ result[c] \in {200, 201} /\ result[d] \in {200, 201} /\ Exists(held[c].id)
    => held[c].id = held[d].id
=============================================================================
