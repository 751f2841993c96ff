---------------------------- MODULE FrontDoorProofs ----------------------------
(***************************************************************************)
(* Proofs about Accounts, RateLimit, KeyCache and Purchases, and about     *)
(* these four components before the use cases together, as MCFrontDoor     *)
(* composes them.                                                          *)
(*                                                                         *)
(* Of accounts, for any number of identities, accounts, calls and tables,  *)
(* with the older routes or without them, and whatever calls of the        *)
(* database fail: a deletion is final.  The argument is that an id is      *)
(* given out once.  A row that is gone is written by nobody: Update finds  *)
(* no row, the tables of settings refuse one without its account, and a    *)
(* new account has a new id.  A call that comes later finds no account by  *)
(* its token, so it never holds a row that was gone when it came; one that *)
(* was let in before may still hold it.  The same bookkeeping gives the    *)
(* types, and what keeps identities apart: two accounts of one identity    *)
(* come of two sign-ins, each of which found none, so where sign-ins of an *)
(* identity do not overlap it has one.                                     *)
(*                                                                         *)
(* Of the limiter, for any number of overlapping calls, any limits and     *)
(* window, and whatever calls of Redis fail: how many calls are let        *)
(* through in a window, and what a denied client is told.  Because every   *)
(* call renews the counter's life, the counter outlives whatever window    *)
(* began with a call, so that all that was let through in the window is in *)
(* the count that the last of it was admitted by.                          *)
(*                                                                         *)
(* Of the key cache, for any number of sign-ins and of keys, and whether   *)
(* Google can be reached or not: no sign-in is accepted with a key that    *)
(* was withdrawn longer ago than the hour a set of keys is kept.  A set of *)
(* keys is stored within the step of time in which it was served, so that  *)
(* the age of each of its keys and what is left of the hour never exceed   *)
(* an hour together, even when the older of two answers is stored last.    *)
(* And a sign-in that meets no other at a refresh is not refused for a key *)
(* that Google serves: having missed it in the cache it has fetched it,    *)
(* and nobody has stored an older answer since.                            *)
(*                                                                         *)
(* Of billing, for any number of calls, keys, customers and transactions,  *)
(* any calendar and whatever fails or dies: premium runs out.  Who is told *)
(* that he is premium asked for it no longer than a term ago; that he paid *)
(* for it nothing here says, for the code asks no store.  The argument     *)
(* follows the end of a term from the request that computed it to the row, *)
(* from the row to a reply, and from the reply to the copy that Redis      *)
(* keeps of it: at each place it is the term of a day on which this very   *)
(* learner asked.  Conversely a term that was told is in the row until it  *)
(* ends, unless a midnight fell between two writes; and where the calls of *)
(* one key neither overlap nor fail, either none has run the handler or    *)
(* the reply of the one that did is kept.                                  *)
(*                                                                         *)
(* And together: the types of all four, and that accounts are orderly      *)
(* where calls do not meet, with the histories of MCFrontDoor.             *)
(***************************************************************************)
EXTENDS MCFrontDoor, FiniteSetTheorems, TLAPS

(***************************************************************************)
(* Accounts.                                                               *)
(***************************************************************************)
Holding == {"defaults", "apply", "issue", "override", "admitted", "patch", "patched", "delete"}
Places  == {"client", "select", "insert", "refresh", "verify", "replied"} \cup Holding
Signs   == {"signin", "telegram", "guest"}

(* What a call asks for is well-formed; only accounts get refresh tokens.  *)
GoodToken(t) == t \in Credentials /\ (t.typ = "refresh" => t.sub \in Ids)
GoodWish(w) ==
  /\ w.op \in Signs => w.identity \in Identities
  /\ w.op \notin Signs => GoodToken(w.token)
  /\ w.op \in {"signin", "patch"} => w.name \in Names
  /\ w.op = "save" => w.table \in Settings

(* The types the argument needs. *)
AccountsTypes ==
  /\ accounts \in [Ids -> AccountRows] /\ lastId \in 0 .. LastAccount
  /\ settings \in [Ids -> SUBSET Tables]
  /\ \A t \in issued : GoodToken(t)
  /\ serving \in [AccountCalls -> Places]
  /\ DOMAIN wish = AccountCalls
  /\ held \in [AccountCalls -> [id: {0} \cup Ids, row: AccountRows]]
  /\ before \in [AccountCalls -> [gone: SUBSET Ids, over: SUBSET AccountCalls]]

(* Where a call may be with what it asks for. *)
Fits(w, place) ==
  /\ place \in {"refresh", "verify", "override", "admitted", "patch", "patched", "delete"} => w.op \notin Signs
  /\ place = "patch" => w.op = "patch"

Wishes == \A c \in AccountCalls :
            serving[c] # "client" => GoodWish(wish[c]) /\ Fits(wish[c], serving[c])

(* Only a row that is not there has no identity. *)
RowsHaveIdentities == \A i \in Ids : accounts[i].identity = "none" => accounts[i] = NoRow

(* A call looks for an identity, and holds an account's row or none. *)
LooksForIdentity ==
  \A c \in AccountCalls : serving[c] \in {"select", "insert"} => IdentityOf(c) \in Identities \cup {"timestamp"}
HoldsARow ==
  \A c \in AccountCalls :
    /\ serving[c] = "client" => held[c].id = 0
    /\ serving[c] \in Holding => held[c].id \in Ids /\ held[c].row.identity # "none"

(* Who was gone when a call came is gone, and the call holds no such row.  *)
GoneForGood ==
  \A c \in AccountCalls : before[c].gone \subseteq Gone /\ held[c].id \notin before[c].gone

GoneHasNothing == \A i \in Gone : settings[i] = {}

AccountsInv == AccountsTypes /\ Wishes /\ RowsHaveIdentities /\ LooksForIdentity /\ HoldsARow
        /\ GoneForGood /\ GoneHasNothing

LEMMA FinalFromInv == AccountsInv => DeletionIsFinal
BY DEF AccountsInv, GoneForGood, GoneHasNothing, DeletionIsFinal

(* Ids are numbers from 1. *)
LEMMA IdsAreNumbers ==
  /\ Ids = 1 .. LastAccount /\ LastAccount \in Nat
  /\ NoRow \in AccountRows /\ NoRow.identity = "none"
  /\ \A p \in Identities : p # "none"
BY AccountsAssumption DEF Ids, NoRow, AccountRows, Roles

LEMMA AccountsInitInv == AccountsInit => AccountsInv
<1> SUFFICES ASSUME AccountsInit PROVE AccountsInv
  OBVIOUS
<1> USE DEF AccountsInit
<1>1. Opened \in Seq(Identities) /\ Len(Opened) \in 0 .. LastAccount
  BY AccountsAssumption
<1>2. \A i \in Ids : i <= Len(Opened) => Opened[i] \in Identities
  BY <1>1, IdsAreNumbers
<1>3. \A i \in Ids : /\ accounts[i] = IF i <= Len(Opened) THEN FirstRow(Opened[i]) ELSE NoRow
                     /\ accounts[i] \in AccountRows
  BY <1>2, AccountsAssumption, IdsAreNumbers DEF FirstRows, FirstRow, AccountRows, Roles
<1>4. AccountsTypes
  <2>1. accounts \in [Ids -> AccountRows]
    BY <1>3 DEF FirstRows
  <2>2. \A t \in issued : GoodToken(t)
    BY <1>1, AccountsAssumption, IdsAreNumbers DEF GoodToken, Credentials, Roles
  <2>3. settings \in [Ids -> SUBSET Tables] /\ lastId \in 0 .. LastAccount
    BY <1>1 DEF Tables
  <2>4. /\ serving \in [AccountCalls -> Places] /\ DOMAIN wish = AccountCalls
        /\ held \in [AccountCalls -> [id: {0} \cup Ids, row: AccountRows]]
        /\ before \in [AccountCalls -> [gone: SUBSET Ids, over: SUBSET AccountCalls]]
    BY IdsAreNumbers DEF Places
  <2> QED
    BY <2>1, <2>2, <2>3, <2>4 DEF AccountsTypes
<1>5. RowsHaveIdentities
  <2>1. \A p \in Identities : FirstRow(p).identity = p
    BY DEF FirstRow
  <2> QED
    BY <1>2, <1>3, <2>1, IdsAreNumbers DEF RowsHaveIdentities
<1>6. GoneHasNothing
  <2> SUFFICES ASSUME NEW i \in 1 .. lastId PROVE accounts[i] # NoRow
    BY DEF Gone, GoneHasNothing
  <2>1. i \in Ids /\ Opened[i] \in Identities /\ accounts[i] = FirstRow(Opened[i])
    BY <1>1, <1>2, <1>3, IdsAreNumbers
  <2>2. accounts[i].identity = Opened[i]
    BY <2>1 DEF FirstRow
  <2> QED
    BY <2>1, <2>2, IdsAreNumbers
<1>7. Wishes /\ LooksForIdentity /\ HoldsARow
  BY DEF Wishes, LooksForIdentity, HoldsARow, Holding
<1>8. GoneForGood
  BY DEF GoneForGood
<1> QED
  BY <1>4, <1>5, <1>6, <1>7, <1>8 DEF AccountsInv

(* A call asks for something well-formed. *)
LEMMA WishesAreGood ==
  ASSUME AccountsTypes, NEW w \in SignIns \cup Acts PROVE GoodWish(w)
<1>1. CASE w \in SignIns
  BY <1>1 DEF SignIns, GoodWish, Signs
<1>2. CASE w \in Acts
  BY <1>2, AccountsAssumption DEF Acts, GoodWish, Signs, AccountsTypes
<1> QED
  BY <1>1, <1>2

LEMMA ArriveStep == ASSUME AccountsInv, NEW c \in AccountCalls, Arrive(c) PROVE AccountsInv'
<1> USE DEF AccountsInv
<1>1. PICK w \in SignIns \cup Acts :
        /\ wish' = [wish EXCEPT ![c] = w]
        /\ serving' = [serving EXCEPT ![c] = CASE w.op \in Signs -> "select"
                                               [] w.op = "refresh" -> "refresh"
                                               [] OTHER -> "verify"]
  BY DEF Arrive, Go, Signs
<1> DEFINE place == CASE w.op \in Signs -> "select" [] w.op = "refresh" -> "refresh" [] OTHER -> "verify"
<1>2. /\ place \in {"select", "refresh", "verify"} /\ (place = "select" => w.op \in Signs)
      /\ serving' = [serving EXCEPT ![c] = place]
  BY <1>1
<1>2a. place # "select" => w.op \notin Signs
  BY DEF Signs
<1> HIDE DEF place
<1>3. GoodWish(w) /\ serving[c] = "client"
  BY WishesAreGood DEF Arrive
<1>4. \A d \in AccountCalls : /\ wish'[d] = IF d = c THEN w ELSE wish[d]
                              /\ serving'[d] = IF d = c THEN place ELSE serving[d]
  BY <1>1, <1>2 DEF AccountsTypes
<1>5. Gone \subseteq Ids /\ Over \subseteq AccountCalls
  BY IdsAreNumbers DEF Gone, Over, AccountsTypes
<1>6. AccountsTypes'
  <2>1. serving' \in [AccountCalls -> Places] /\ DOMAIN wish' = AccountCalls
    BY <1>1, <1>2 DEF AccountsTypes, Places
  <2>2. before' \in [AccountCalls -> [gone: SUBSET Ids, over: SUBSET AccountCalls]]
    BY <1>5 DEF Arrive, AccountsTypes
  <2> QED
    BY <2>1, <2>2 DEF AccountsTypes, Arrive
<1>7. Wishes'
  <2>1. Fits(w, place)
    BY <1>2, <1>2a DEF Fits
  <2> QED
    BY <1>3, <1>4, <2>1 DEF Wishes
<1>8. RowsHaveIdentities' /\ HoldsARow'
  BY <1>2, <1>4 DEF RowsHaveIdentities, HoldsARow, Holding, Arrive
<1>9. LooksForIdentity'
  <2> SUFFICES ASSUME NEW d \in AccountCalls, serving'[d] \in {"select", "insert"}
               PROVE  IdentityOf(d)' \in Identities \cup {"timestamp"}
    BY DEF LooksForIdentity
  <2>1. CASE d = c
    BY <1>2, <1>3, <1>4, <2>1 DEF IdentityOf, NewGuest, SigningIn, GoodWish, Signs
  <2>2. CASE d # c
    BY <1>4, <2>2 DEF LooksForIdentity, IdentityOf, NewGuest, SigningIn
  <2> QED
    BY <2>1, <2>2
<1>10. GoneForGood' /\ GoneHasNothing'
  <2>1. Gone' = Gone /\ held' = held /\ settings' = settings
    BY DEF Arrive, Gone
  <2>2. held[c].id \notin Gone
    BY <1>3, <1>5, IdsAreNumbers DEF HoldsARow
  <2>3. \A d \in AccountCalls : before'[d].gone = IF d = c THEN Gone ELSE before[d].gone
    BY DEF Arrive, AccountsTypes
  <2> QED
    BY <2>1, <2>2, <2>3 DEF GoneForGood, GoneHasNothing
<1> QED
  BY <1>6, <1>7, <1>8, <1>9, <1>10

(* A step that writes no account and no setting: a call goes on with the   *)
(* row it holds, or with one that it finds.                                *)
LEMMA CarryStep ==
  ASSUME AccountsInv, NEW c \in AccountCalls, NEW to \in Places \ {"client"}, serving[c] # "client",
         serving' = [serving EXCEPT ![c] = to], Fits(wish[c], to),
         \/ held' = held /\ (to \in Holding => serving[c] \in Holding)
         \/ \E i \in Ids : Hold(c, i) /\ Exists(i),
         to \in {"select", "insert"} => IdentityOf(c) \in Identities \cup {"timestamp"},
         \A t \in issued' : GoodToken(t),
         UNCHANGED <<accounts, lastId, settings, wish, before>>
  PROVE  AccountsInv'
<1> USE DEF AccountsInv
<1>1. \A d \in AccountCalls : serving'[d] = IF d = c THEN to ELSE serving[d]
  BY DEF AccountsTypes
<1>2. \/ held' = held /\ (to \in Holding => serving[c] \in Holding)
      \/ \E i \in Ids : held' = [held EXCEPT ![c] = [id |-> i, row |-> accounts[i]]] /\ Exists(i)
  BY DEF Hold
<1>3. \A d \in AccountCalls :
        \/ held'[d] = held[d] /\ (d = c /\ to \in Holding => serving[c] \in Holding)
        \/ d = c /\ held'[d].id \in Ids \ Gone /\ held'[d].row.identity # "none"
  BY <1>2 DEF AccountsTypes, RowsHaveIdentities, Exists, Gone
<1>4. AccountsTypes'
  <2>1. held' \in [AccountCalls -> [id: {0} \cup Ids, row: AccountRows]]
    BY <1>2 DEF AccountsTypes
  <2>2. serving' \in [AccountCalls -> Places]
    BY DEF AccountsTypes
  <2> QED
    BY <2>1, <2>2 DEF AccountsTypes
<1>5. Wishes'
  BY <1>1 DEF Wishes
<1>6. RowsHaveIdentities' /\ GoneHasNothing'
  BY DEF RowsHaveIdentities, GoneHasNothing, Gone
<1>7. LooksForIdentity'
  BY <1>1 DEF LooksForIdentity, IdentityOf, NewGuest, SigningIn
<1>8. HoldsARow'
  BY <1>1, <1>3 DEF HoldsARow
<1>9. GoneForGood'
  BY <1>3 DEF GoneForGood, Gone
<1> QED
  BY <1>4, <1>5, <1>6, <1>7, <1>8, <1>9

(* A reply is no place to go on from. *)
LEMMA EndStep ==
  ASSUME AccountsInv, NEW c \in AccountCalls, NEW status, End(c, status), serving[c] # "client",
         UNCHANGED <<accounts, lastId, settings, issued, wish, held, before>>
  PROVE  AccountsInv'
<1>1. "replied" \in Places \ {"client"} /\ "replied" \notin Holding
  BY DEF Places, Holding
<1>2. Fits(wish[c], "replied") /\ \A t \in issued : GoodToken(t)
  BY DEF Fits, AccountsInv, AccountsTypes
<1> QED
  BY <1>1, <1>2, CarryStep DEF End

LEMMA SelectStep == ASSUME AccountsInv, NEW c \in AccountCalls, SelectAccount(c) PROVE AccountsInv'
<1> USE DEF SelectAccount
<1>1. IdentityOf(c) \in Identities \cup {"timestamp"} /\ \A t \in issued : GoodToken(t)
  BY DEF AccountsInv, LooksForIdentity, AccountsTypes
<1>2. ASSUME NEW i \in Found(c), Hold(c, i), Resolved(c) PROVE AccountsInv'
  <2> DEFINE to == IF SigningIn(c) THEN "apply" ELSE "override"
  <2>1. to \in Places \ {"client"} /\ to \notin {"select", "insert"} /\ Fits(wish[c], to)
    BY DEF Places, Holding, Fits, SigningIn, Signs
  <2>2. serving' = [serving EXCEPT ![c] = to]
    BY <1>2 DEF Resolved, Go
  <2>3. i \in Ids /\ Exists(i)
    BY <1>1, IdsAreNumbers DEF Found, Exists
  <2> HIDE DEF to
  <2> QED
    BY <1>1, <1>2, <2>1, <2>2, <2>3, CarryStep
<1>3. CASE Go(c, "insert") /\ UNCHANGED held
  <2>1. "insert" \in Places \ {"client"} /\ "insert" \notin Holding /\ Fits(wish[c], "insert")
    BY DEF Places, Holding, Fits
  <2> QED
    BY <1>1, <1>3, <2>1, CarryStep DEF Go
<1>4. CASE NoAccount(c) /\ UNCHANGED held
  BY <1>4, EndStep DEF NoAccount
<1> QED
  BY <1>2, <1>3, <1>4

(* A new account has an id that was never given out. *)
LEMMA InsertStep == ASSUME AccountsInv, NEW c \in AccountCalls, InsertAccount(c) PROVE AccountsInv'
<1> USE DEF AccountsInv
<1>1. CASE NoAccount(c) /\ UNCHANGED <<accounts, lastId, held, meant>>
  BY <1>1, EndStep DEF NoAccount, InsertAccount
<1>2. CASE lastId < LastAccount /\ lastId' = lastId + 1
  <2> DEFINE row == [FirstRow(IdentityOf(c)) EXCEPT !.name = IF wish[c].op = "signin" THEN wish[c].name ELSE @]
  <2>1. /\ accounts' = [accounts EXCEPT ![lastId'] = row] /\ serving[c] = "insert"
        /\ held' = [held EXCEPT ![c] = [id |-> lastId', row |-> row]]
        /\ serving' = [serving EXCEPT ![c] = "defaults"]
        /\ UNCHANGED <<settings, issued, wish, before>>
    BY <1>2 DEF InsertAccount, Go, AccountsTypes
  <2>2. row \in AccountRows /\ row.identity # "none"
    <3>1. IdentityOf(c) \in Identities \cup {"timestamp"} /\ IdentityOf(c) # "none"
      BY <2>1, IdsAreNumbers DEF LooksForIdentity
    <3>2. wish[c].op = "signin" => wish[c].name \in Names
      BY <2>1 DEF Wishes, GoodWish
    <3> QED
      BY <3>1, <3>2, AccountsAssumption DEF FirstRow, AccountRows, Roles
  <2> HIDE DEF row
  <2>3. lastId \in Nat /\ lastId' \in Ids /\ lastId' \notin Gone /\ lastId' # 0
    BY <1>2, IdsAreNumbers DEF AccountsTypes, Gone
  <2>4. Gone' = Gone
    BY <1>2, <2>1, <2>2, <2>3, IdsAreNumbers DEF Gone, AccountsTypes
  <2>5. \A d \in AccountCalls : /\ held'[d] = IF d = c THEN [id |-> lastId', row |-> row] ELSE held[d]
                                /\ serving'[d] = IF d = c THEN "defaults" ELSE serving[d]
    BY <2>1 DEF AccountsTypes
  <2>6. AccountsTypes'
    <3>1. accounts' \in [Ids -> AccountRows] /\ lastId' \in 0 .. LastAccount
      BY <1>2, <2>1, <2>2, <2>3, IdsAreNumbers DEF AccountsTypes
    <3>2. held' \in [AccountCalls -> [id: {0} \cup Ids, row: AccountRows]]
      BY <2>1, <2>2, <2>3 DEF AccountsTypes
    <3>3. serving' \in [AccountCalls -> Places]
      BY <2>1 DEF AccountsTypes, Places, Holding
    <3> QED
      BY <2>1, <3>1, <3>2, <3>3 DEF AccountsTypes
  <2>7. Wishes'
    BY <2>1, <2>5 DEF Wishes, Fits
  <2>8. RowsHaveIdentities'
    BY <2>1, <2>2, <2>3 DEF RowsHaveIdentities, AccountsTypes
  <2>9. LooksForIdentity' /\ HoldsARow'
    BY <2>1, <2>2, <2>3, <2>5 DEF LooksForIdentity, HoldsARow, Holding, IdentityOf, NewGuest, SigningIn
  <2>10. GoneForGood' /\ GoneHasNothing'
    BY <2>1, <2>3, <2>4, <2>5 DEF GoneForGood, GoneHasNothing
  <2> QED
    BY <2>6, <2>7, <2>8, <2>9, <2>10
<1> QED
  BY <1>1, <1>2 DEF InsertAccount

(* A step that writes settings, of accounts that there are. *)
LEMMA SettingsStep ==
  ASSUME AccountsInv, NEW c \in AccountCalls, NEW to \in Places \ {"client"}, serving[c] \in Holding,
         serving' = [serving EXCEPT ![c] = to], Fits(wish[c], to), to \notin {"select", "insert"},
         NEW written \in SUBSET Tables,
         \/ settings' = settings
         \/ Exists(held[c].id) /\ settings' = [settings EXCEPT ![held[c].id] = @ \cup written],
         UNCHANGED <<accounts, lastId, issued, wish, held, before>>
  PROVE  AccountsInv'
<1> USE DEF AccountsInv
<1>1. \A d \in AccountCalls : serving'[d] = IF d = c THEN to ELSE serving[d]
  BY DEF AccountsTypes
<1>2. held[c].id \in Ids
  BY DEF HoldsARow
<1>3. AccountsTypes'
  BY <1>2 DEF AccountsTypes
<1>4. GoneHasNothing'
  <2>1. Gone' = Gone /\ (Exists(held[c].id) => held[c].id \notin Gone) /\ Gone \subseteq Ids
    BY IdsAreNumbers DEF Gone, Exists, AccountsTypes
  <2>2. \A i \in Ids : settings'[i] = settings[i] \/ (i = held[c].id /\ Exists(i))
    BY <1>2 DEF AccountsTypes
  <2> QED
    BY <2>1, <2>2 DEF GoneHasNothing
<1>5. Wishes' /\ LooksForIdentity' /\ HoldsARow'
  BY <1>1 DEF Wishes, LooksForIdentity, HoldsARow, Holding, IdentityOf, NewGuest, SigningIn
<1>6. RowsHaveIdentities' /\ GoneForGood'
  BY DEF RowsHaveIdentities, GoneForGood, Gone
<1> QED
  BY <1>3, <1>4, <1>5, <1>6

LEMMA DefaultsStep == ASSUME AccountsInv, NEW c \in AccountCalls, InsertDefaults(c) PROVE AccountsInv'
<1> DEFINE to == IF SigningIn(c) THEN "apply" ELSE "override"
<1>1. to \in Places \ {"client"} /\ to \notin {"select", "insert"} /\ Fits(wish[c], to)
  BY DEF Places, Holding, Fits, SigningIn, Signs
<1>2. serving' = [serving EXCEPT ![c] = to] /\ serving[c] \in Holding /\ held[c].id \in Ids
  BY DEF InsertDefaults, Resolved, Go, Holding, AccountsInv, HoldsARow
<1>3. PICK written \in SUBSET Tables :
        settings' = [settings EXCEPT ![held[c].id] = IF Refers(held[c].id) THEN @ \cup written ELSE @]
  BY DEF InsertDefaults, Tables
<1>4. \/ settings' = settings
      \/ Exists(held[c].id) /\ settings' = [settings EXCEPT ![held[c].id] = @ \cup written]
  BY <1>2, <1>3 DEF Refers, AccountsInv, AccountsTypes
<1> HIDE DEF to
<1> QED
  BY <1>1, <1>2, <1>4, SettingsStep DEF InsertDefaults

LEMMA SaveSettingsStep == ASSUME AccountsInv, NEW c \in AccountCalls, SaveSettings(c) PROVE AccountsInv'
<1>1. /\ serving' = [serving EXCEPT ![c] = "replied"] /\ serving[c] \in Holding
      /\ "replied" \in Places \ {"client"} /\ Fits(wish[c], "replied")
  BY DEF SaveSettings, End, Holding, Places, Fits
<1>2. {wish[c].table} \in SUBSET Tables
  BY <1>1 DEF SaveSettings, AccountsInv, Wishes, GoodWish, Tables, Holding
<1>3. \/ settings' = settings
      \/ Exists(held[c].id) /\ settings' = [settings EXCEPT ![held[c].id] = @ \cup {wish[c].table}]
  BY DEF SaveSettings, Refers
<1> QED
  BY <1>1, <1>2, <1>3, SettingsStep DEF SaveSettings

(* Update writes a row that is there, and leaves it there. *)
LEMMA UpdateStep ==
  ASSUME AccountsInv, NEW c \in AccountCalls, NEW to \in Holding, serving[c] \in Holding,
         NEW name \in Names, NEW role \in Roles, Update(c, name, role),
         serving' = [serving EXCEPT ![c] = to], Fits(wish[c], to),
         UNCHANGED <<lastId, settings, issued, wish, before>>
  PROVE  AccountsInv'
<1> USE DEF AccountsInv
<1> DEFINE i   == held[c].id
           row == [held[c].row EXCEPT !.name = name, !.role = role]
<1>1. i \in Ids /\ held[c].row \in AccountRows /\ held[c].row.identity # "none"
  BY DEF HoldsARow, AccountsTypes
<1>2. row \in AccountRows /\ row.identity # "none"
  BY <1>1 DEF AccountRows
<1>3. held' = [held EXCEPT ![c] = [held[c] EXCEPT !.row = row]]
  BY DEF Update, Written, AccountsTypes
<1>4. \/ accounts' = accounts
      \/ Exists(i) /\ accounts' = [accounts EXCEPT ![i] = row]
  BY DEF Update, Written
<1> HIDE DEF i, row
<1>5. \A d \in AccountCalls :
        /\ serving'[d] = IF d = c THEN to ELSE serving[d]
        /\ held'[d].id = held[d].id
        /\ held'[d].row = IF d = c THEN row ELSE held[d].row
        /\ held'[d] \in [id: {0} \cup Ids, row: AccountRows]
  BY <1>2, <1>3 DEF AccountsTypes
<1>6. \A j \in Ids : /\ accounts'[j] = NoRow <=> accounts[j] = NoRow
                     /\ accounts'[j] \in {accounts[j], row}
  BY <1>1, <1>2, <1>4, IdsAreNumbers DEF AccountsTypes, Exists
<1>7. AccountsTypes'
  <2>1. held' \in [AccountCalls -> [id: {0} \cup Ids, row: AccountRows]]
    BY <1>3, <1>5 DEF AccountsTypes
  <2>2. accounts' \in [Ids -> AccountRows]
    BY <1>1, <1>2, <1>4 DEF AccountsTypes
  <2>3. serving' \in [AccountCalls -> Places]
    BY DEF AccountsTypes, Places
  <2> QED
    BY <2>1, <2>2, <2>3 DEF AccountsTypes
<1>8. Gone' = Gone
  BY <1>6, IdsAreNumbers DEF Gone, AccountsTypes
<1>9. Wishes' /\ LooksForIdentity' /\ HoldsARow'
  BY <1>1, <1>2, <1>5 DEF Wishes, LooksForIdentity, HoldsARow, Holding, IdentityOf, NewGuest, SigningIn
<1>10. RowsHaveIdentities'
  BY <1>2, <1>6 DEF RowsHaveIdentities
<1>11. GoneForGood' /\ GoneHasNothing'
  BY <1>5, <1>8 DEF GoneForGood, GoneHasNothing
<1> QED
  BY <1>7, <1>9, <1>10, <1>11

LEMMA ApplyStep == ASSUME AccountsInv, NEW c \in AccountCalls, ApplyIdentity(c) PROVE AccountsInv'
<1>1. /\ serving[c] = "apply" /\ serving' = [serving EXCEPT ![c] = "issue"]
      /\ {"apply", "issue"} \subseteq Holding /\ "issue" \in Places \ {"client"}
      /\ Fits(wish[c], "issue")
  BY DEF ApplyIdentity, Go, Holding, Places, Fits
<1>2. held[c].row.name \in Names /\ held[c].row.role \in Roles /\ \A t \in issued : GoodToken(t)
  BY DEF AccountsInv, AccountsTypes, AccountRows
<1>3. wish[c].op = "signin" => wish[c].name \in Names
  BY <1>1 DEF AccountsInv, Wishes, GoodWish
<1>4. CASE UNCHANGED <<accounts, held>>
  BY <1>1, <1>2, <1>4, CarryStep DEF ApplyIdentity
<1>5. CASE wish[c].op = "signin" /\ Update(c, wish[c].name, held[c].row.role)
  BY <1>1, <1>2, <1>3, <1>5, UpdateStep DEF ApplyIdentity
<1>6. CASE Update(c, held[c].row.name, held[c].row.role)
  BY <1>1, <1>2, <1>6, UpdateStep DEF ApplyIdentity
<1> QED
  BY <1>4, <1>5, <1>6 DEF ApplyIdentity

LEMMA IssueStep == ASSUME AccountsInv, NEW c \in AccountCalls, IssueSession(c) PROVE AccountsInv'
<1>1. /\ serving' = [serving EXCEPT ![c] = "replied"] /\ serving[c] \in Holding
      /\ "replied" \in Places \ {"client"} /\ "replied" \notin Holding /\ Fits(wish[c], "replied")
  BY DEF IssueSession, End, Holding, Places, Fits
<1>2. held[c].id \in Ids /\ held[c].row.role \in Roles
  BY <1>1 DEF AccountsInv, HoldsARow, AccountsTypes, AccountRows
<1>3. \A t \in issued' : GoodToken(t)
  <2> SUFFICES ASSUME NEW t \in [typ: {"access", "refresh"}, sub: {held[c].id}, role: {held[c].row.role}]
               PROVE  GoodToken(t)
    BY DEF IssueSession, AccountsInv, AccountsTypes
  <2> QED
    BY <1>2 DEF GoodToken, Credentials
<1> QED
  BY <1>1, <1>3, CarryStep DEF IssueSession

LEMMA RefreshStep == ASSUME AccountsInv, NEW c \in AccountCalls, Refresh(c) PROVE AccountsInv'
<1> DEFINE t == wish[c].token
<1>1. serving[c] = "refresh"
  BY DEF Refresh
<1>2. CASE VerifyRefresh(t) /\ Exists(t.sub) /\ Hold(c, t.sub) /\ Go(c, "issue")
  <2>1. GoodToken(t) /\ \A s \in issued : GoodToken(s)
    BY <1>1 DEF AccountsInv, Wishes, GoodWish, Fits, AccountsTypes
  <2>2. t.sub \in Ids
    BY <1>2, <2>1 DEF GoodToken, VerifyRefresh
  <2>3. "issue" \in Places \ {"client"} /\ Fits(wish[c], "issue")
    BY DEF Places, Holding, Fits
  <2> QED
    BY <1>1, <1>2, <2>1, <2>2, <2>3, CarryStep DEF Refresh, Go
<1>3. CASE End(c, 401) /\ UNCHANGED held
  BY <1>1, <1>3, EndStep DEF Refresh
<1> QED
  BY <1>2, <1>3 DEF Refresh

LEMMA VerifyStep == ASSUME AccountsInv, NEW c \in AccountCalls, Verify(c) PROVE AccountsInv'
<1> DEFINE t == wish[c].token
<1>1. serving[c] = "verify" /\ wish[c].op \notin Signs /\ \A s \in issued : GoodToken(s)
  BY DEF Verify, AccountsInv, Wishes, Fits, AccountsTypes
<1>2. CASE t.sub \in Ids /\ Exists(t.sub) /\ Hold(c, t.sub) /\ Go(c, "override")
  <2>1. "override" \in Places \ {"client"} /\ Fits(wish[c], "override")
    BY <1>1 DEF Places, Holding, Fits
  <2> QED
    BY <1>1, <1>2, <2>1, CarryStep DEF Verify, Go
<1>3. CASE t.sub \in Identities /\ Go(c, "select") /\ UNCHANGED held
  <2>1. "select" \in Places \ {"client"} /\ "select" \notin Holding /\ Fits(wish[c], "select")
    BY <1>1 DEF Places, Holding, Fits
  <2>2. IdentityOf(c) \in Identities
    BY <1>1, <1>3 DEF IdentityOf, NewGuest, SigningIn, Signs
  <2> QED
    BY <1>1, <1>3, <2>1, <2>2, CarryStep DEF Verify, Go
<1>4. CASE End(c, 401) /\ UNCHANGED held
  BY <1>1, <1>4, EndStep DEF Verify
<1> QED
  BY <1>2, <1>3, <1>4 DEF Verify

LEMMA OverrideStep == ASSUME AccountsInv, NEW c \in AccountCalls, OverrideRole(c) PROVE AccountsInv'
<1>1. /\ serving[c] = "override" /\ serving' = [serving EXCEPT ![c] = "admitted"]
      /\ {"override", "admitted"} \subseteq Holding /\ "admitted" \in Places \ {"client"}
  BY DEF OverrideRole, Go, Holding, Places
<1>2. wish[c].op \notin Signs /\ GoodToken(wish[c].token)
  BY <1>1 DEF AccountsInv, Wishes, Fits, GoodWish
<1>3. /\ Fits(wish[c], "admitted") /\ wish[c].token.role \in Roles
      /\ held[c].row.name \in Names /\ \A t \in issued : GoodToken(t)
  BY <1>2 DEF Fits, GoodToken, Credentials, AccountsInv, AccountsTypes, AccountRows
<1>4. CASE UNCHANGED <<accounts, held>>
  BY <1>1, <1>3, <1>4, CarryStep DEF OverrideRole
<1>5. CASE Update(c, held[c].row.name, wish[c].token.role)
  BY <1>1, <1>3, <1>5, UpdateStep DEF OverrideRole
<1> QED
  BY <1>4, <1>5 DEF OverrideRole

LEMMA GetByIDStep == ASSUME AccountsInv, NEW c \in AccountCalls, GetByID(c) PROVE AccountsInv'
<1> DEFINE i == held[c].id
<1>1. /\ serving[c] = "admitted" /\ i \in Ids /\ wish[c].op \notin Signs
      /\ \A t \in issued : GoodToken(t)
  BY DEF GetByID, AccountsInv, HoldsARow, Holding, Wishes, Fits, AccountsTypes
<1>2. CASE Exists(i) /\ Hold(c, i) /\ Go(c, wish[c].op)
  <2>1. wish[c].op \in {"patch", "delete"} /\ wish[c].op \in Places \ {"client"}
    BY DEF GetByID, Places, Holding
  <2>2. Fits(wish[c], wish[c].op)
    BY <1>1 DEF Fits
  <2> QED
    BY <1>1, <1>2, <2>1, <2>2, CarryStep DEF GetByID, Go
<1>3. CASE End(c, 500) /\ UNCHANGED held
  BY <1>1, <1>3, EndStep DEF GetByID
<1> QED
  BY <1>2, <1>3 DEF GetByID

LEMMA PatchStep == ASSUME AccountsInv, NEW c \in AccountCalls, UpdateProfile(c) PROVE AccountsInv'
<1>1. serving[c] = "patch" /\ {"patch", "patched"} \subseteq Holding
  BY DEF UpdateProfile, Holding
<1>2. wish[c].op = "patch" /\ wish[c].name \in Names /\ Fits(wish[c], "patched")
  BY <1>1 DEF AccountsInv, Wishes, GoodWish, Fits, Signs
<1>3. held[c].row.role \in Roles
  BY DEF AccountsInv, AccountsTypes, AccountRows
<1>4. CASE Update(c, wish[c].name, held[c].row.role) /\ Go(c, "patched")
  BY <1>1, <1>2, <1>3, <1>4, UpdateStep DEF UpdateProfile, Go
<1>5. CASE End(c, 500) /\ UNCHANGED <<accounts, held>>
  BY <1>1, <1>5, EndStep DEF UpdateProfile
<1> QED
  BY <1>4, <1>5 DEF UpdateProfile

(* The account goes, and by cascade its settings go with it. *)
LEMMA DeleteStep == ASSUME AccountsInv, NEW c \in AccountCalls, DeleteUser(c) PROVE AccountsInv'
<1> DEFINE i == held[c].id
<1>1. serving[c] = "delete" /\ i \in Ids
  BY DEF DeleteUser, AccountsInv, HoldsARow, Holding
<1>2. CASE End(c, 500) /\ UNCHANGED <<accounts, settings>>
  BY <1>1, <1>2, EndStep DEF DeleteUser
<1>3. CASE /\ accounts' = [accounts EXCEPT ![i] = NoRow] /\ settings' = [settings EXCEPT ![i] = {}]
           /\ End(c, 204)
  <2> USE DEF AccountsInv
  <2>1. UNCHANGED <<lastId, issued, wish, held, before>>
    BY DEF DeleteUser
  <2>2. \A d \in AccountCalls : serving'[d] = IF d = c THEN "replied" ELSE serving[d]
    BY <1>3 DEF End, AccountsTypes
  <2>3. \A j \in Ids : /\ accounts'[j] = IF j = i THEN NoRow ELSE accounts[j]
                       /\ settings'[j] = IF j = i THEN {} ELSE settings[j]
    BY <1>3 DEF AccountsTypes
  <2>4. Gone \subseteq Gone' /\ Gone' \subseteq Gone \cup {i} /\ Gone \subseteq Ids
    BY <2>1, <2>3, IdsAreNumbers DEF Gone, AccountsTypes
  <2>5. AccountsTypes'
    <3>1. accounts' \in [Ids -> AccountRows] /\ settings' \in [Ids -> SUBSET Tables]
      BY <1>3, IdsAreNumbers DEF AccountsTypes
    <3>2. serving' \in [AccountCalls -> Places]
      BY <1>3 DEF End, AccountsTypes, Places
    <3> QED
      BY <2>1, <3>1, <3>2 DEF AccountsTypes
  <2>6. Wishes' /\ LooksForIdentity' /\ HoldsARow'
    <3>1. Wishes'
      BY <1>1, <2>1, <2>2 DEF Wishes, Fits
    <3>2. LooksForIdentity'
      BY <2>1, <2>2 DEF LooksForIdentity, IdentityOf, NewGuest, SigningIn
    <3>3. HoldsARow'
      BY <2>1, <2>2 DEF HoldsARow, Holding
    <3> QED
      BY <3>1, <3>2, <3>3
  <2>7. RowsHaveIdentities' /\ GoneHasNothing'
    <3>1. RowsHaveIdentities'
      BY <2>3, IdsAreNumbers DEF RowsHaveIdentities
    <3>2. \A j \in Gone' : j \in Ids /\ (j = i \/ j \in Gone)
      BY <1>1, <2>4
    <3> HIDE DEF i
    <3>3. GoneHasNothing'
      BY <2>3, <3>2 DEF GoneHasNothing
    <3> QED
      BY <3>1, <3>3
  <2>8. GoneForGood'
    BY <2>1, <2>4 DEF GoneForGood
  <2> QED
    BY <2>5, <2>6, <2>7, <2>8
<1> QED
  BY <1>2, <1>3 DEF DeleteUser

LEMMA AccountsNextInv == AccountsInv /\ [AccountsNext]_accountVars => AccountsInv'
<1> SUFFICES ASSUME AccountsInv, [AccountsNext]_accountVars PROVE AccountsInv'
  OBVIOUS
<1>1. ASSUME NEW c \in AccountCalls, GetMe(c) \/ RequireRole(c) PROVE AccountsInv'
  <2>1. serving[c] # "client" /\ \E status : End(c, status)
    BY <1>1 DEF GetMe, RequireRole
  <2> QED
    BY <1>1, <2>1, EndStep DEF GetMe, RequireRole
<1>2. ASSUME NEW c \in AccountCalls, Arrive(c) \/ ServeAccount(c) PROVE AccountsInv'
  BY <1>1, <1>2, ArriveStep, SelectStep, InsertStep, DefaultsStep, ApplyStep, IssueStep, RefreshStep,
     VerifyStep, OverrideStep, GetByIDStep, PatchStep, DeleteStep, SaveSettingsStep DEF ServeAccount
<1>3. CASE UNCHANGED accountVars
  BY <1>3 DEF accountVars, AccountsInv, AccountsTypes, Wishes, RowsHaveIdentities, LooksForIdentity, IdentityOf,
              NewGuest, SigningIn, HoldsARow, GoneForGood, GoneHasNothing, Gone
<1> QED
  BY <1>2, <1>3 DEF AccountsNext

THEOREM AccountsInvariance == AccountsSpec => []AccountsInv
BY AccountsInitInv, AccountsNextInv, PTL DEF AccountsSpec

(* However calls overlap and whatever fails, a deleted account has no      *)
(* settings, and no call that comes after is let in for it: a session that *)
(* outlives the account, or its refresh token, is worth nothing.           *)
THEOREM DeletedForGood == AccountsSpec => []DeletionIsFinal
BY AccountsInvariance, FinalFromInv, PTL

-----------------------------------------------------------------------------
(***************************************************************************)
(* The kinds of step that a call takes, by what it does to the rows: it    *)
(* keeps what it holds, reads a row, writes the one it holds, creates one  *)
(* or removes it.                                                          *)
(***************************************************************************)

(* Where a call may yet write the row it holds as it read it. *)
Fresh == {"defaults", "apply", "override", "patch"}

Keeps(c) ==
  /\ UNCHANGED <<accounts, lastId, meant, held>>
  /\ serving'[c] \in Holding => serving[c] \in Holding
  /\ serving'[c] \in Fresh => serving[c] \in Fresh

Reads(c) == UNCHANGED <<accounts, lastId, meant>> /\ \E i \in Ids : Exists(i) /\ Hold(c, i)

Writes(c) ==
  /\ UNCHANGED lastId /\ serving[c] \in Fresh /\ serving'[c] \in Holding \ Fresh
  /\ \E name \in Names, role \in Roles : Update(c, name, role)

Creates(c) ==
  /\ lastId < LastAccount /\ lastId' = lastId + 1
  /\ serving[c] = "insert" /\ serving'[c] = "defaults"
  /\ \E row \in AccountRows :
       /\ row.identity = IdentityOf(c)
       /\ accounts' = [accounts EXCEPT ![lastId'] = row]
       /\ meant' = [meant EXCEPT ![lastId'] = row]
       /\ held' = [held EXCEPT ![c] = [id |-> lastId', row |-> row]]

Removes(c) ==
  /\ UNCHANGED <<lastId, meant, held>>
  /\ serving[c] = "delete" /\ serving'[c] = "replied"
  /\ accounts' = [accounts EXCEPT ![held[c].id] = NoRow]

Kinds(c) == Keeps(c) \/ Reads(c) \/ Writes(c) \/ Creates(c) \/ Removes(c)

(* A call changes nothing of another's. *)
LEMMA OwnCallOnly ==
  ASSUME AccountsInv, NEW c \in AccountCalls, Arrive(c) \/ ServeAccount(c)
  PROVE  /\ \A d \in AccountCalls \ {c} : serving'[d] = serving[d] /\ held'[d] = held[d] /\ wish'[d] = wish[d]
         /\ wish' = wish \/ Arrive(c)
<1> USE DEF AccountsInv, AccountsTypes
<1>1. CASE Arrive(c)
  BY <1>1 DEF Arrive, Go
<1>2. CASE ServeAccount(c)
  <2>1. wish' = wish
    BY <1>2 DEF ServeAccount, SelectAccount, InsertAccount, InsertDefaults, ApplyIdentity, IssueSession, Refresh,
                Verify, OverrideRole, GetMe, RequireRole, GetByID, UpdateProfile, DeleteUser, SaveSettings
  <2>2. \E place : serving' = [serving EXCEPT ![c] = place]
    BY <1>2 DEF ServeAccount, SelectAccount, InsertAccount, InsertDefaults, ApplyIdentity, IssueSession, Refresh,
                Verify, OverrideRole, GetMe, RequireRole, GetByID, UpdateProfile, DeleteUser, SaveSettings,
                Go, End, Resolved, NoAccount
  <2>3. \A d \in AccountCalls \ {c} : held'[d] = held[d]
    BY <1>2 DEF ServeAccount, SelectAccount, InsertAccount, InsertDefaults, ApplyIdentity, IssueSession, Refresh,
                Verify, OverrideRole, GetMe, RequireRole, GetByID, UpdateProfile, DeleteUser, SaveSettings,
                Hold, Update
  <2> QED
    BY <2>1, <2>2, <2>3
<1> QED
  BY <1>1, <1>2

(* A call inserts an account only of an identity that it found none of. *)
LEMMA InsertsWhatIsMissing ==
  ASSUME AccountsInv, NEW c \in AccountCalls, Arrive(c) \/ ServeAccount(c), serving'[c] = "insert",
         serving[c] # "insert"
  PROVE  Found(c) = {} /\ wish' = wish /\ accounts' = accounts
<1> USE DEF AccountsInv, AccountsTypes
<1>1. SelectAccount(c) /\ Go(c, "insert")
  <2>1. ~ Arrive(c)
    BY DEF Arrive, Go
  <2>2. ~ (InsertAccount(c) \/ InsertDefaults(c) \/ ApplyIdentity(c) \/ IssueSession(c) \/ Refresh(c))
    BY DEF InsertAccount, InsertDefaults, ApplyIdentity, IssueSession, Refresh, Go, End, Resolved, NoAccount
  <2>3. ~ (Verify(c) \/ OverrideRole(c) \/ GetMe(c) \/ RequireRole(c) \/ GetByID(c) \/ UpdateProfile(c)
           \/ DeleteUser(c) \/ SaveSettings(c))
    BY DEF Verify, OverrideRole, GetMe, RequireRole, GetByID, UpdateProfile, DeleteUser, SaveSettings, Go, End
  <2>4. SelectAccount(c)
    BY <2>1, <2>2, <2>3 DEF ServeAccount
  <2> QED
    BY <2>4 DEF SelectAccount, Go, End, Resolved, NoAccount
<1> QED
  BY <1>1 DEF SelectAccount, Go, End, Resolved, NoAccount

LEMMA ReadsOrKeeps ==
  ASSUME AccountsInv, NEW c \in AccountCalls,
         Arrive(c) \/ SelectAccount(c) \/ InsertDefaults(c) \/ IssueSession(c) \/ Refresh(c) \/ Verify(c)
           \/ GetMe(c) \/ RequireRole(c) \/ GetByID(c) \/ SaveSettings(c)
  PROVE  Keeps(c) \/ Reads(c)
<1> USE DEF AccountsInv, AccountsTypes
<1>0. "replied" \notin Holding /\ "insert" \notin Holding /\ "select" \notin Holding /\ "refresh" \notin Holding
      /\ "verify" \notin Holding /\ Fresh \subseteq Holding
  BY DEF Holding, Fresh
<1>1. ASSUME UNCHANGED <<accounts, lastId, meant, held>>, serving'[c] \notin Holding
      PROVE  Keeps(c)
  BY <1>0, <1>1 DEF Keeps
<1>2. CASE Arrive(c)
  <2>1. serving'[c] \in {"select", "refresh", "verify"}
    BY <1>2 DEF Arrive, Go
  <2> QED
    BY <1>0, <1>1, <1>2, <2>1 DEF Arrive
<1>3. CASE SelectAccount(c)
  <2>1. ASSUME NEW i \in Found(c), Hold(c, i)
        PROVE  Reads(c)
    <3>1. i \in Ids /\ accounts[i].identity = IdentityOf(c) /\ IdentityOf(c) \in Identities \cup {"timestamp"}
      BY <1>3 DEF Found, SelectAccount, LooksForIdentity
    <3>2. Exists(i)
      BY <3>1, IdsAreNumbers DEF Exists
    <3> QED
      BY <1>3, <2>1, <3>1, <3>2 DEF SelectAccount, Reads
  <2>2. CASE Go(c, "insert") /\ UNCHANGED held
    BY <1>0, <1>1, <1>3, <2>2 DEF SelectAccount, Go
  <2>3. CASE NoAccount(c) /\ UNCHANGED held
    BY <1>0, <1>1, <1>3, <2>3 DEF SelectAccount, NoAccount, End
  <2> QED
    BY <1>3, <2>1, <2>2, <2>3 DEF SelectAccount
<1>4. CASE InsertDefaults(c)
  <2>1. serving[c] \in Fresh /\ serving[c] \in Holding
    BY <1>4 DEF InsertDefaults, Fresh, Holding
  <2> QED
    BY <1>4, <2>1 DEF InsertDefaults, Keeps
<1>5. CASE IssueSession(c) \/ GetMe(c) \/ RequireRole(c) \/ SaveSettings(c)
  <2>1. serving'[c] = "replied" /\ UNCHANGED <<accounts, lastId, meant, held>>
    BY <1>5 DEF IssueSession, GetMe, RequireRole, SaveSettings, End
  <2> QED
    BY <1>0, <1>1, <2>1
<1>6. CASE Refresh(c)
  <2>1. CASE VerifyRefresh(wish[c].token) /\ Exists(wish[c].token.sub) /\ Hold(c, wish[c].token.sub)
    <3>1. GoodToken(wish[c].token)
      BY <1>6 DEF Refresh, Wishes, GoodWish, Fits
    <3>2. wish[c].token.sub \in Ids
      BY <2>1, <3>1 DEF GoodToken, VerifyRefresh
    <3> QED
      BY <1>6, <2>1, <3>2 DEF Refresh, Reads
  <2>2. CASE End(c, 401) /\ UNCHANGED held
    BY <1>0, <1>1, <1>6, <2>2 DEF Refresh, End
  <2> QED
    BY <1>6, <2>1, <2>2 DEF Refresh
<1>7. CASE Verify(c)
  <2>1. CASE UNCHANGED held /\ serving'[c] \in {"select", "replied"}
    BY <1>0, <1>1, <1>7, <2>1 DEF Verify
  <2>2. CASE wish[c].token.sub \in Ids /\ Exists(wish[c].token.sub) /\ Hold(c, wish[c].token.sub)
    BY <1>7, <2>2 DEF Verify, Reads
  <2> QED
    BY <1>7, <2>1, <2>2 DEF Verify, Go, End
<1>8. CASE GetByID(c)
  <2>1. CASE Exists(held[c].id) /\ Hold(c, held[c].id)
    BY <1>8, <2>1 DEF GetByID, Reads, HoldsARow, Holding
  <2>2. CASE End(c, 500) /\ UNCHANGED held
    BY <1>0, <1>1, <1>8, <2>2 DEF GetByID, End
  <2> QED
    BY <1>8, <2>1, <2>2 DEF GetByID
<1> QED
  BY <1>2, <1>3, <1>4, <1>5, <1>6, <1>7, <1>8

LEMMA WritesCreatesOrRemoves ==
  ASSUME AccountsInv, NEW c \in AccountCalls,
         InsertAccount(c) \/ ApplyIdentity(c) \/ OverrideRole(c) \/ UpdateProfile(c) \/ DeleteUser(c)
  PROVE  Kinds(c)
<1> USE DEF AccountsInv, AccountsTypes
<1>0. "replied" \notin Holding /\ Fresh \subseteq Holding
      /\ {"issue", "admitted", "patched"} \subseteq Holding \ Fresh
  BY DEF Holding, Fresh
<1>1. held[c].row.name \in Names /\ held[c].row.role \in Roles
  BY DEF AccountRows
<1>2. CASE InsertAccount(c)
  <2>1. CASE NoAccount(c) /\ UNCHANGED <<accounts, lastId, held, meant>>
    BY <1>0, <1>2, <2>1 DEF InsertAccount, NoAccount, End, Kinds, Keeps
  <2>2. CASE lastId < LastAccount /\ lastId' = lastId + 1
    <3> DEFINE row == [FirstRow(IdentityOf(c)) EXCEPT !.name = IF wish[c].op = "signin" THEN wish[c].name ELSE @]
    <3>1. /\ accounts' = [accounts EXCEPT ![lastId'] = row] /\ serving[c] = "insert"
          /\ meant' = [meant EXCEPT ![lastId'] = row]
          /\ held' = [held EXCEPT ![c] = [id |-> lastId', row |-> row]]
          /\ serving'[c] = "defaults"
      BY <1>2, <2>2 DEF InsertAccount, Go
    <3>2. row \in AccountRows /\ row.identity = IdentityOf(c)
      <4>1. IdentityOf(c) \in Identities \cup {"timestamp"}
        BY <3>1 DEF LooksForIdentity
      <4>2. wish[c].op = "signin" => wish[c].name \in Names
        BY <3>1 DEF Wishes, GoodWish
      <4> QED
        BY <4>1, <4>2, AccountsAssumption DEF FirstRow, AccountRows, Roles
    <3> HIDE DEF row
    <3> QED
      BY <2>2, <3>1, <3>2 DEF Kinds, Creates
  <2> QED
    BY <1>2, <2>1, <2>2 DEF InsertAccount
<1>3. CASE ApplyIdentity(c)
  <2>1. serving[c] \in Fresh /\ serving'[c] \in Holding \ Fresh /\ lastId' = lastId /\ serving[c] = "apply"
    BY <1>3, <1>0 DEF ApplyIdentity, Go, Fresh
  <2>2. CASE UNCHANGED <<accounts, held, meant>>
    BY <1>0, <2>1, <2>2 DEF Kinds, Keeps
  <2>3. CASE wish[c].op = "signin" /\ Update(c, wish[c].name, held[c].row.role)
    <3>1. wish[c].name \in Names
      BY <2>1, <2>3 DEF Wishes, GoodWish
    <3> QED
      BY <1>1, <2>1, <2>3, <3>1 DEF Kinds, Writes
  <2>4. CASE Update(c, held[c].row.name, held[c].row.role)
    BY <1>1, <2>1, <2>4 DEF Kinds, Writes
  <2> QED
    BY <1>3, <2>2, <2>3, <2>4 DEF ApplyIdentity
<1>4. CASE OverrideRole(c)
  <2>1. serving[c] \in Fresh /\ serving'[c] \in Holding \ Fresh /\ lastId' = lastId /\ serving[c] = "override"
    BY <1>4, <1>0 DEF OverrideRole, Go, Fresh
  <2>2. CASE UNCHANGED <<accounts, held, meant>>
    BY <1>0, <2>1, <2>2 DEF Kinds, Keeps
  <2>3. CASE Update(c, held[c].row.name, wish[c].token.role)
    <3>1. wish[c].token.role \in Roles
      BY <2>1 DEF Wishes, GoodWish, Fits, GoodToken, Credentials
    <3> QED
      BY <1>1, <2>1, <2>3, <3>1 DEF Kinds, Writes
  <2> QED
    BY <1>4, <2>2, <2>3 DEF OverrideRole
<1>5. CASE UpdateProfile(c)
  <2>1. CASE End(c, 500) /\ UNCHANGED <<accounts, held, meant>>
    BY <1>0, <1>5, <2>1 DEF UpdateProfile, End, Kinds, Keeps
  <2>2. CASE Update(c, wish[c].name, held[c].row.role) /\ Go(c, "patched")
    <3>1. serving[c] \in Fresh /\ serving'[c] \in Holding \ Fresh /\ lastId' = lastId /\ serving[c] = "patch"
      BY <1>5, <1>0, <2>2 DEF UpdateProfile, Go, Fresh
    <3>2. wish[c].name \in Names
      BY <3>1 DEF Wishes, GoodWish, Fits, Signs
    <3> QED
      BY <1>1, <2>2, <3>1, <3>2 DEF Kinds, Writes
  <2> QED
    BY <1>5, <2>1, <2>2 DEF UpdateProfile
<1>6. CASE DeleteUser(c)
  BY <1>0, <1>6 DEF DeleteUser, End, Kinds, Keeps, Removes
<1> QED
  BY <1>2, <1>3, <1>4, <1>5, <1>6

LEMMA KindOfStep ==
  ASSUME AccountsInv, NEW c \in AccountCalls, Arrive(c) \/ ServeAccount(c)
  PROVE  Kinds(c)
BY ReadsOrKeeps, WritesCreatesOrRemoves DEF ServeAccount, Kinds

-----------------------------------------------------------------------------
(***************************************************************************)
(* The types, in full.                                                     *)
(***************************************************************************)
Statuses == {0, 200, 201, 204, 400, 401, 403, 404, 500}

AccountsSound ==
  /\ AccountsInv
  /\ \A c \in AccountCalls : wish[c] = NoWish \/ wish[c].op \in Asks
  /\ result \in [AccountCalls -> Statuses]
  /\ meant \in [Ids -> AccountRows]

LEMMA SoundTypes == AccountsSound => AccountsTypeOK
<1> SUFFICES ASSUME AccountsSound
             PROVE  AccountsTypeOK
  OBVIOUS
<1>1. issued \subseteq Credentials
  BY DEF AccountsSound, AccountsInv, AccountsTypes, GoodToken
<1>2. serving \in [AccountCalls -> {"client", "select", "insert", "defaults", "apply", "issue",
                    "refresh", "verify", "override", "admitted", "patch", "patched", "delete",
                    "replied"}]
  BY DEF AccountsSound, AccountsInv, AccountsTypes, Places, Holding
<1> QED
  BY <1>1, <1>2 DEF AccountsSound, AccountsInv, AccountsTypes, AccountsTypeOK, Statuses

LEMMA AccountsSoundInit == AccountsInit => AccountsSound
<1> SUFFICES ASSUME AccountsInit
             PROVE  AccountsSound
  OBVIOUS
<1>1. AccountsInv
  BY AccountsInitInv
<1>2. meant \in [Ids -> AccountRows]
  BY <1>1 DEF AccountsInit, AccountsInv, AccountsTypes
<1> QED
  BY <1>1, <1>2 DEF AccountsInit, AccountsSound, Statuses

LEMMA RenamedRow ==
  ASSUME NEW row \in AccountRows, NEW name \in Names, NEW role \in Roles
  PROVE  [row EXCEPT !.name = name, !.role = role] \in AccountRows
BY DEF AccountRows

(* What was meant is a row whatever is written. *)
LEMMA MeantRows ==
  ASSUME AccountsSound, NEW c \in AccountCalls, Kinds(c)
  PROVE  meant' \in [Ids -> AccountRows]
<1>1. CASE Keeps(c) \/ Reads(c) \/ Removes(c)
  BY <1>1 DEF Keeps, Reads, Removes, AccountsSound
<1>2. CASE Writes(c)
  <2>1. PICK name \in Names, role \in Roles : Update(c, name, role)
    BY <1>2 DEF Writes
  <2>2. held[c].id \in Ids
    BY <1>2 DEF Writes, AccountsSound, AccountsInv, HoldsARow, Fresh, Holding
  <2> DEFINE i     == held[c].id
             named == IF name # held[c].row.name THEN name ELSE meant[i].name
             given == IF role # held[c].row.role THEN role ELSE meant[i].role
  <2>3. meant[i] \in AccountRows /\ named \in Names /\ given \in Roles
    BY <2>2 DEF AccountsSound, AccountRows
  <2>4. meant' = meant \/ meant' = [meant EXCEPT ![i] = [meant[i] EXCEPT !.name = named, !.role = given]]
    BY <2>1, <2>2 DEF Update, AccountsSound
  <2> HIDE DEF i, named, given
  <2>5. [meant[i] EXCEPT !.name = named, !.role = given] \in AccountRows
    BY <2>3, RenamedRow
  <2> QED
    BY <2>4, <2>5 DEF AccountsSound
<1>3. CASE Creates(c)
  <2>1. lastId' \in Ids
    BY <1>3, IdsAreNumbers DEF Creates, AccountsSound, AccountsInv, AccountsTypes
  <2> QED
    BY <1>3, <2>1 DEF Creates, AccountsSound
<1> QED
  BY <1>1, <1>2, <1>3 DEF Kinds

LEMMA AccountsSoundNext == AccountsSound /\ [AccountsNext]_accountVars => AccountsSound'
<1> SUFFICES ASSUME AccountsSound, [AccountsNext]_accountVars
             PROVE  AccountsSound'
  OBVIOUS
<1>1. AccountsInv'
  BY AccountsNextInv DEF AccountsSound
<1>2. ASSUME NEW c \in AccountCalls, Arrive(c) \/ ServeAccount(c)
      PROVE  AccountsSound'
  <2>1. meant' \in [Ids -> AccountRows]
    BY <1>2, KindOfStep, MeantRows DEF AccountsSound
  <2>2. \A d \in AccountCalls : wish'[d] = NoWish \/ wish'[d].op \in Asks
    <3>1. CASE Arrive(c)
      BY <3>1 DEF Arrive, AccountsSound, AccountsInv, AccountsTypes
    <3>2. CASE wish' = wish
      BY <3>2 DEF AccountsSound
    <3> QED
      BY <1>2, <3>1, <3>2, OwnCallOnly DEF AccountsSound
  <2>3. \E status \in Statuses : result' = result \/ result' = [result EXCEPT ![c] = status]
    BY <1>2 DEF Arrive, ServeAccount, SelectAccount, InsertAccount, InsertDefaults, ApplyIdentity, IssueSession,
                Refresh, Verify, OverrideRole, GetMe, RequireRole, GetByID, UpdateProfile, DeleteUser, SaveSettings,
                Go, End, Resolved, NoAccount, Statuses
  <2>4. result' \in [AccountCalls -> Statuses]
    BY <2>3 DEF AccountsSound
  <2> QED
    BY <1>1, <2>1, <2>2, <2>4 DEF AccountsSound
<1>3. CASE UNCHANGED accountVars
  BY <1>1, <1>3 DEF accountVars, AccountsSound
<1> QED
  BY <1>2, <1>3 DEF AccountsNext

(* Accounts keep their types: a row has a known identity and a role, a     *)
(* credential is of an account or of an identity, and every call is        *)
(* answered with one of the statuses of the API.                           *)
THEOREM AccountsTypeCorrect == AccountsSpec => []AccountsTypeOK
BY AccountsSoundInit, AccountsSoundNext, SoundTypes, PTL DEF AccountsSpec

-----------------------------------------------------------------------------
(***************************************************************************)
(* Accounts kept apart.  An id is given out once, and the row that a call  *)
(* holds is of the identity whose account it is.  Of an identity that no   *)
(* two calls open at once there is one account, and a call that is about   *)
(* to insert one finds none.  An account that no two calls hold at once is *)
(* as it was last meant to be, and who is about to write it holds it as it *)
(* is.                                                                     *)
(***************************************************************************)
IdsGivenOut ==
  /\ \A i \in Ids : Exists(i) => i <= lastId
  /\ \A c \in AccountCalls : held[c].id <= lastId

RowsKeepIdentity ==
  \A c \in AccountCalls : serving[c] \in Holding /\ Exists(held[c].id) =>
    held[c].row.identity = accounts[held[c].id].identity

Undivided(p) ==
  /\ \A i, j \in Ids : accounts[i].identity = p /\ accounts[j].identity = p => i = j
  /\ \A c \in AccountCalls : serving[c] = "insert" /\ IdentityOf(c) = p =>
       \A i \in Ids : accounts[i].identity # p
  /\ \A c, d \in AccountCalls : Opening(c) /\ Opening(d) /\ IdentityOf(c) = p /\ IdentityOf(d) = p => c = d

Unshared(i) ==
  /\ KeepsEveryWrite(i)
  /\ \A c \in AccountCalls : serving[c] \in Fresh /\ held[c].id = i /\ Exists(i) => held[c].row = accounts[i]
  /\ \A c, d \in AccountCalls : Holds(c) /\ Holds(d) /\ held[c].id = i /\ held[d].id = i => c = d

AccountsApart ==
  /\ IdsGivenOut /\ RowsKeepIdentity
  /\ \A p \in Identities \ raced : Undivided(p)
  /\ \A i \in Ids \ shared : Unshared(i)

(* The identities that had accounts before had one each. *)
OpenedOnce == \A i, j \in 1 .. Len(Opened) : Opened[i] = Opened[j] => i = j

LEMMA AccountsApartInit == ASSUME OpenedOnce, MCInit PROVE AccountsApart
<1>0. AccountsInit /\ AccountsInv
  BY AccountsInitInv DEF MCInit
<1> USE <1>0 DEF AccountsInit
<1>1. Opened \in Seq(Identities) /\ Len(Opened) \in 0 .. LastAccount
  BY AccountsAssumption
<1>2. \A i \in Ids : /\ i <= Len(Opened) => i \in 1 .. Len(Opened) /\ accounts[i].identity = Opened[i]
                     /\ ~ (i <= Len(Opened)) => accounts[i] = NoRow
  BY <1>1, IdsAreNumbers DEF FirstRows, FirstRow
<1>3. IdsGivenOut
  <2>1. \A c \in AccountCalls : held[c].id = 0
    OBVIOUS
  <2> QED
    BY <1>1, <1>2, <2>1 DEF IdsGivenOut, Exists
<1>4. RowsKeepIdentity
  BY DEF RowsKeepIdentity, Holding
<1>5. \A p \in Identities : Undivided(p)
  <2>1. ASSUME NEW p \in Identities, NEW i \in Ids, NEW j \in Ids, accounts[i].identity = p, accounts[j].identity = p
        PROVE  i = j
    BY <1>2, <2>1, IdsAreNumbers DEF OpenedOnce
  <2> QED
    BY <2>1 DEF Undivided, Opening
<1>6. \A i \in Ids : Unshared(i)
  BY DEF Unshared, KeepsEveryWrite, Fresh, Holds
<1> QED
  BY <1>3, <1>4, <1>5, <1>6 DEF AccountsApart

(* What each kind of step does to an account. *)
LEMMA RowsAfter ==
  ASSUME AccountsInv, IdsGivenOut, NEW c \in AccountCalls, NEW i \in Ids
  PROVE  /\ Keeps(c) \/ Reads(c) => accounts'[i] = accounts[i] /\ meant'[i] = meant[i]
         /\ Writes(c) \/ Removes(c) => held[c].id \in Ids
         /\ Writes(c) /\ i # held[c].id => accounts'[i] = accounts[i] /\ (AccountsSound => meant'[i] = meant[i])
         /\ Writes(c) => accounts'[i] = accounts[i]
                          \/ (Exists(i) /\ i = held[c].id /\ accounts'[i].identity = held[c].row.identity)
         /\ Removes(c) => accounts'[i] = (IF i = held[c].id THEN NoRow ELSE accounts[i]) /\ meant'[i] = meant[i]
         /\ Creates(c) => \E row \in AccountRows :
              /\ row.identity = IdentityOf(c) /\ held'[c] = [id |-> lastId', row |-> row]
              /\ accounts'[i] = IF i = lastId' THEN row ELSE accounts[i]
              /\ AccountsSound => meant'[i] = IF i = lastId' THEN row ELSE meant[i]
<1> USE DEF AccountsInv, AccountsTypes, AccountsSound
<1>1. Keeps(c) \/ Reads(c) => accounts'[i] = accounts[i] /\ meant'[i] = meant[i]
  BY DEF Keeps, Reads
<1>2. Writes(c) \/ Removes(c) => held[c].id \in Ids
  BY DEF Writes, Removes, HoldsARow, Fresh, Holding
<1>3. Writes(c) /\ i # held[c].id => accounts'[i] = accounts[i] /\ (AccountsSound => meant'[i] = meant[i])
  BY DEF Writes, Update
<1>4. Writes(c) => accounts'[i] = accounts[i]
                    \/ (Exists(i) /\ i = held[c].id /\ accounts'[i].identity = held[c].row.identity)
  <2> SUFFICES ASSUME Writes(c), accounts'[i] # accounts[i]
               PROVE  Exists(i) /\ i = held[c].id /\ accounts'[i].identity = held[c].row.identity
    OBVIOUS
  <2>1. PICK name, role : Update(c, name, role)
    BY DEF Writes
  <2>2. i = held[c].id
    BY <1>3
  <2>3. Exists(i) /\ accounts' = [accounts EXCEPT ![i] = Written(held[c].row, name, role)]
    BY <2>1, <2>2 DEF Update
  <2>4. Written(held[c].row, name, role).identity = held[c].row.identity
    BY DEF Written, AccountRows
  <2> QED
    BY <2>2, <2>3, <2>4
<1>5. Removes(c) => accounts'[i] = (IF i = held[c].id THEN NoRow ELSE accounts[i]) /\ meant'[i] = meant[i]
  BY DEF Removes
<1>6. ASSUME Creates(c)
      PROVE  \E row \in AccountRows :
              /\ row.identity = IdentityOf(c) /\ held'[c] = [id |-> lastId', row |-> row]
              /\ accounts'[i] = IF i = lastId' THEN row ELSE accounts[i]
              /\ AccountsSound => meant'[i] = IF i = lastId' THEN row ELSE meant[i]
  BY <1>6 DEF Creates
<1> QED
  BY <1>1, <1>2, <1>3, <1>4, <1>5, <1>6

LEMMA IdsStep ==
  ASSUME AccountsInv, IdsGivenOut, NEW c \in AccountCalls, Arrive(c) \/ ServeAccount(c)
  PROVE  IdsGivenOut'
<1>0. /\ lastId \in Nat /\ Ids \subseteq Nat
      /\ \A d \in AccountCalls : held[d].id \in Nat
      /\ \A d \in AccountCalls \ {c} : held'[d] = held[d]
  BY IdsAreNumbers, OwnCallOnly DEF AccountsInv, AccountsTypes
<1>1. CASE Keeps(c) \/ Reads(c)
  <2>1. held'[c].id <= lastId
    BY <1>1 DEF Keeps, Reads, Hold, IdsGivenOut, AccountsInv, AccountsTypes
  <2> QED
    BY <1>0, <1>1, <2>1 DEF Keeps, Reads, IdsGivenOut, Exists
<1>2. CASE Writes(c)
  <2>1. held'[c].id = held[c].id
    BY <1>2 DEF Writes, Update, AccountsInv, AccountsTypes
  <2>2. \A i \in Ids : Exists(i)' => Exists(i)
    BY <1>2, RowsAfter DEF Exists
  <2> QED
    BY <1>0, <1>2, <2>1, <2>2 DEF Writes, IdsGivenOut
<1>3. CASE Creates(c)
  <2>1. lastId' = lastId + 1 /\ held'[c].id = lastId'
    BY <1>3 DEF Creates, AccountsInv, AccountsTypes
  <2>2. \A i \in Ids : Exists(i)' => Exists(i) \/ i = lastId'
    BY <1>3, RowsAfter DEF Exists
  <2> QED
    BY <1>0, <2>1, <2>2 DEF IdsGivenOut
<1>4. CASE Removes(c)
  <2>1. \A i \in Ids : Exists(i)' => Exists(i)
    BY <1>4, RowsAfter DEF Exists
  <2> QED
    BY <1>0, <1>4, <2>1 DEF Removes, IdsGivenOut
<1> QED
  BY <1>1, <1>2, <1>3, <1>4, KindOfStep DEF Kinds

LEMMA RowsKeepIdentityStep ==
  ASSUME AccountsInv, IdsGivenOut, RowsKeepIdentity, NEW c \in AccountCalls, Arrive(c) \/ ServeAccount(c)
  PROVE  RowsKeepIdentity'
<1>0. /\ lastId \in Nat /\ Ids \subseteq Nat
      /\ \A d \in AccountCalls \ {c} : held'[d] = held[d] /\ serving'[d] = serving[d]
      /\ \A d \in AccountCalls : serving[d] \in Holding => held[d].id \in Ids
  BY IdsAreNumbers, OwnCallOnly DEF AccountsInv, AccountsTypes, HoldsARow
<1>a. ASSUME NEW d \in AccountCalls \ {c}, serving'[d] \in Holding, Exists(held[d].id)'
      PROVE  accounts'[held[d].id].identity = held[d].row.identity
  <2> DEFINE i == held[d].id
  <2>1. i \in Ids /\ serving[d] \in Holding
    BY <1>0, <1>a
  <2>2. Exists(i) => accounts[i].identity = held[d].row.identity
    BY <2>1 DEF RowsKeepIdentity
  <2>3. held'[d] = held[d] /\ accounts'[i] # NoRow
    BY <1>0, <1>a DEF Exists
  <2> HIDE DEF i
  <2>4. CASE Keeps(c) \/ Reads(c)
    BY <2>1, <2>2, <2>3, <2>4, RowsAfter DEF Exists, i
  <2>5. CASE Writes(c)
    <3>1. serving[c] \in Holding
      BY <2>5 DEF Writes, Fresh, Holding
    <3>2. Exists(i) /\ i = held[c].id => held[c].row.identity = accounts[i].identity
      BY <3>1 DEF RowsKeepIdentity
    <3> QED
      BY <2>1, <2>2, <2>3, <2>5, <3>2, RowsAfter DEF Exists, i
  <2>6. CASE Creates(c)
    <3>1. i # lastId'
      BY <1>0, <2>1, <2>6 DEF Creates, IdsGivenOut, i
    <3>2. accounts'[i] = accounts[i]
      BY <2>1, <2>6, <3>1, RowsAfter
    <3> QED
      BY <2>2, <2>3, <3>2 DEF Exists, i
  <2>7. CASE Removes(c)
    BY <2>1, <2>2, <2>3, <2>7, RowsAfter DEF Exists, i
  <2> QED
    BY <2>4, <2>5, <2>6, <2>7, KindOfStep DEF Kinds
<1>b. ASSUME serving'[c] \in Holding, Exists(held[c].id)'
      PROVE  accounts'[held'[c].id].identity = held'[c].row.identity
  <2>1. CASE Keeps(c)
    BY <1>0, <1>b, <2>1 DEF Keeps, RowsKeepIdentity, Exists
  <2>2. CASE Reads(c)
    BY <1>0, <2>2 DEF Reads, Hold, AccountsInv, AccountsTypes
  <2>3. CASE Writes(c)
    <3>1. PICK name \in Names, role \in Roles : Update(c, name, role)
      BY <2>3 DEF Writes
    <3>2. held'[c].id = held[c].id /\ held'[c].row.identity = held[c].row.identity
      BY <3>1 DEF Update, Written, AccountsInv, AccountsTypes, AccountRows
    <3>3. serving[c] \in Holding /\ held[c].id \in Ids
      BY <1>0, <2>3 DEF Writes, Fresh, Holding
    <3>4. Exists(held[c].id) => accounts[held[c].id].identity = held[c].row.identity
      BY <3>3 DEF RowsKeepIdentity
    <3>5. accounts'[held[c].id] # NoRow
      BY <1>b, <3>2 DEF Exists
    <3> QED
      BY <2>3, <3>2, <3>3, <3>4, <3>5, RowsAfter DEF Exists
  <2>4. CASE Creates(c)
    <3>1. lastId' \in Ids
      BY <2>4, IdsAreNumbers DEF Creates, AccountsInv, AccountsTypes
    <3> QED
      BY <2>4, <3>1 DEF Creates, AccountsInv, AccountsTypes
  <2>5. CASE Removes(c)
    BY <1>b, <2>5 DEF Removes, Holding
  <2> QED
    BY <2>1, <2>2, <2>3, <2>4, <2>5, KindOfStep DEF Kinds
<1> QED
  BY <1>0, <1>a, <1>b DEF RowsKeepIdentity

(* An identity that nobody else opens an account for keeps to its one. *)
LEMMA UndividedStep ==
  ASSUME AccountsInv, IdsGivenOut, RowsKeepIdentity, NEW c \in AccountCalls, Arrive(c) \/ ServeAccount(c),
         NEW p \in Identities, Undivided(p),
         \A d, e \in AccountCalls : Opening(d)' /\ Opening(e)' /\ IdentityOf(d)' = p /\ IdentityOf(e)' = p => d = e
  PROVE  Undivided(p)'
<1>0. /\ \A d \in AccountCalls \ {c} : serving'[d] = serving[d] /\ wish'[d] = wish[d]
      /\ \A d \in AccountCalls \ {c} : IdentityOf(d)' = IdentityOf(d)
      /\ p # "none" /\ p # "timestamp" /\ NoRow.identity # p
  BY OwnCallOnly, IdsAreNumbers, AccountsAssumption DEF IdentityOf, NewGuest, SigningIn
<1>1. ASSUME ~ Creates(c), NEW i \in Ids, accounts'[i].identity = p
      PROVE  accounts[i].identity = p
  <2>1. CASE Keeps(c) \/ Reads(c)
    BY <1>1, <2>1, RowsAfter
  <2>2. CASE Writes(c)
    <3>1. Exists(held[c].id) => held[c].row.identity = accounts[held[c].id].identity
      BY <2>2 DEF Writes, Fresh, Holding, RowsKeepIdentity
    <3> QED
      BY <1>1, <2>2, <3>1, RowsAfter
  <2>3. CASE Removes(c)
    BY <1>0, <1>1, <2>3, RowsAfter
  <2> QED
    BY <1>1, <2>1, <2>2, <2>3, KindOfStep DEF Kinds
<1>2. ASSUME Creates(c)
      PROVE  /\ \A i \in Ids : accounts'[i].identity = p => accounts[i].identity = p \/ (i = lastId' /\ IdentityOf(c) = p)
             /\ IdentityOf(c) = p => \A i \in Ids : accounts[i].identity # p
             /\ serving[c] = "insert" /\ serving'[c] = "defaults"
  <2>1. ASSUME NEW i \in Ids, accounts'[i].identity = p
        PROVE  accounts[i].identity = p \/ (i = lastId' /\ IdentityOf(c) = p)
    <3>1. PICK row \in AccountRows :
            row.identity = IdentityOf(c) /\ accounts' = [accounts EXCEPT ![lastId'] = row]
      BY <1>2 DEF Creates
    <3> QED
      BY <2>1, <3>1 DEF AccountsInv, AccountsTypes
  <2>2. serving[c] = "insert" /\ serving'[c] = "defaults"
    BY <1>2 DEF Creates
  <2> QED
    BY <2>1, <2>2 DEF Undivided
<1>3. ASSUME NEW i \in Ids, NEW j \in Ids, accounts'[i].identity = p, accounts'[j].identity = p
      PROVE  i = j
  BY <1>1, <1>2, <1>3 DEF Undivided
<1>4. ASSUME NEW d \in AccountCalls, serving'[d] = "insert", IdentityOf(d)' = p, NEW i \in Ids,
             accounts'[i].identity = p
      PROVE  FALSE
  <2>1. CASE d # c
    <3>1. serving[d] = "insert" /\ IdentityOf(d) = p
      BY <1>0, <1>4, <2>1
    <3>2. accounts[i].identity # p
      BY <3>1 DEF Undivided
    <3>3. Creates(c) /\ IdentityOf(c) = p
      BY <1>1, <1>2, <1>4, <3>2
    <3>4. Opening(c) /\ Opening(d)
      BY <1>2, <3>1, <3>3 DEF Opening
    <3> QED
      BY <2>1, <3>1, <3>3, <3>4 DEF Undivided
  <2>2. CASE d = c /\ serving[c] # "insert"
    <3>1. Found(c) = {} /\ wish' = wish /\ accounts' = accounts
      BY <1>4, <2>2, InsertsWhatIsMissing
    <3>2. IdentityOf(c) = p
      BY <1>4, <2>2, <3>1 DEF IdentityOf, NewGuest, SigningIn
    <3>3. ~ NewGuest(c)
      BY <1>0, <3>2 DEF IdentityOf
    <3> QED
      BY <1>4, <3>1, <3>2, <3>3 DEF Found
  <2>3. CASE d = c /\ serving[c] = "insert"
    <3>1. InsertAccount(c)
      BY <2>3 DEF Arrive, ServeAccount, SelectAccount, InsertDefaults, ApplyIdentity, IssueSession, Refresh,
                  Verify, OverrideRole, GetMe, RequireRole, GetByID, UpdateProfile, DeleteUser, SaveSettings
    <3>2. serving'[c] # "insert"
      BY <3>1 DEF InsertAccount, Go, NoAccount, End, AccountsInv, AccountsTypes
    <3> QED
      BY <1>4, <2>3, <3>2
  <2> QED
    BY <2>1, <2>2, <2>3
<1> QED
  BY <1>3, <1>4 DEF Undivided

(* An account that nobody else holds is as it was meant. *)
LEMMA UnsharedStep ==
  ASSUME AccountsSound, IdsGivenOut, RowsKeepIdentity, NEW c \in AccountCalls, Arrive(c) \/ ServeAccount(c),
         NEW i \in Ids, Unshared(i),
         \A d, e \in AccountCalls : Holds(d)' /\ Holds(e)' /\ held'[d].id = i /\ held'[e].id = i => d = e
  PROVE  Unshared(i)'
<1>0. AccountsInv /\ lastId \in Nat /\ Ids \subseteq Nat
      /\ \A d \in AccountCalls \ {c} : serving'[d] = serving[d] /\ held'[d] = held[d]
  BY OwnCallOnly, IdsAreNumbers DEF AccountsSound, AccountsInv, AccountsTypes
<1>1. SUFFICES ASSUME Exists(i)'
               PROVE  /\ accounts'[i] = meant'[i]
                      /\ \A d \in AccountCalls : serving'[d] \in Fresh /\ held'[d].id = i => held'[d].row = accounts'[i]
  BY DEF Unshared, KeepsEveryWrite
<1>2. accounts'[i] # NoRow
  BY <1>1 DEF Exists
<1>3. CASE Keeps(c) \/ Reads(c)
  <2>1. accounts'[i] = accounts[i] /\ meant'[i] = meant[i] /\ Exists(i)
    BY <1>0, <1>2, <1>3, RowsAfter DEF Exists
  <2>2. serving'[c] \in Fresh /\ held'[c].id = i => held'[c].row = accounts'[i]
    <3>1. CASE Keeps(c)
      BY <2>1, <3>1 DEF Keeps, Unshared
    <3>2. CASE Reads(c)
      BY <1>0, <2>1, <3>2 DEF Reads, Hold, AccountsInv, AccountsTypes
    <3> QED
      BY <1>3, <3>1, <3>2
  <2> QED
    BY <1>0, <2>1, <2>2 DEF Unshared, KeepsEveryWrite
<1>4. CASE Writes(c)
  <2>0. serving[c] \in Fresh /\ serving'[c] \notin Fresh
    BY <1>4 DEF Writes
  <2>1. CASE i # held[c].id
    <3>1. accounts'[i] = accounts[i] /\ meant'[i] = meant[i] /\ Exists(i)
      BY <1>0, <1>2, <1>4, <2>1, RowsAfter DEF Exists
    <3> QED
      BY <1>0, <2>0, <3>1 DEF Unshared, KeepsEveryWrite
  <2>2. CASE i = held[c].id
    <3>1. Exists(i)
      BY <1>0, <1>2, <1>4, RowsAfter DEF Exists
    <3>2. held[c].row = accounts[i] /\ accounts[i] = meant[i]
      BY <2>0, <2>2, <3>1 DEF Unshared, KeepsEveryWrite
    <3>3. accounts'[i] = meant'[i]
      <4>1. PICK name \in Names, role \in Roles : Update(c, name, role)
        BY <1>4 DEF Writes
      <4>2. CASE UNCHANGED <<accounts, meant>>
        BY <3>2, <4>2
      <4>3. CASE /\ accounts' = [accounts EXCEPT ![i] = Written(held[c].row, name, role)]
                 /\ meant' = [meant EXCEPT ![i].name = IF name # held[c].row.name THEN name ELSE @,
                                           ![i].role = IF role # held[c].row.role THEN role ELSE @]
        <5> DEFINE row   == accounts[i]
                   named == IF name # row.name THEN name ELSE meant[i].name
                   given == IF role # row.role THEN role ELSE meant[i].role
        <5>1. row \in AccountRows /\ meant[i] = row
          BY <1>0, <3>2 DEF AccountsInv, AccountsTypes
        <5>2. named = name /\ given = role
          BY <5>1
        <5>3. accounts'[i] = [row EXCEPT !.name = name, !.role = role]
          BY <1>0, <3>2, <4>3 DEF Written, AccountsInv, AccountsTypes
        <5>4. meant'[i] = [meant[i] EXCEPT !.name = named, !.role = given]
          BY <3>2, <4>3 DEF AccountsSound
        <5> HIDE DEF row, named, given
        <5> QED
          BY <5>1, <5>2, <5>3, <5>4
      <4> QED
        BY <2>2, <4>1, <4>2, <4>3 DEF Update
    <3>4. ASSUME NEW d \in AccountCalls, serving'[d] \in Fresh, held'[d].id = i
          PROVE  FALSE
      <4>1. d # c /\ serving[d] \in Fresh /\ held[d].id = i
        BY <1>0, <2>0, <3>4
      <4>2. Holds(c) /\ Holds(d)
        BY <2>0, <4>1 DEF Holds, Fresh
      <4> QED
        BY <2>2, <4>1, <4>2 DEF Unshared
    <3> QED
      BY <3>3, <3>4
  <2> QED
    BY <2>1, <2>2
<1>5. CASE Creates(c)
  <2>1. PICK row \in AccountRows :
          /\ held'[c] = [id |-> lastId', row |-> row]
          /\ accounts'[i] = IF i = lastId' THEN row ELSE accounts[i]
          /\ meant'[i] = IF i = lastId' THEN row ELSE meant[i]
    BY <1>0, <1>5, RowsAfter
  <2>2. lastId' = lastId + 1
    BY <1>5 DEF Creates
  <2>3. CASE i = lastId'
    <3>1. \A d \in AccountCalls \ {c} : held'[d].id # i
      BY <1>0, <2>2, <2>3 DEF IdsGivenOut, AccountsInv, AccountsTypes
    <3> QED
      BY <2>1, <2>3, <3>1
  <2>4. CASE i # lastId'
    <3>1. accounts'[i] = accounts[i] /\ meant'[i] = meant[i] /\ Exists(i) /\ held'[c].id # i
      BY <1>2, <2>1, <2>4 DEF Exists
    <3> QED
      BY <1>0, <3>1 DEF Unshared, KeepsEveryWrite
  <2> QED
    BY <2>3, <2>4
<1>6. CASE Removes(c)
  <2>1. accounts'[i] = accounts[i] /\ meant'[i] = meant[i] /\ Exists(i)
    BY <1>0, <1>2, <1>6, RowsAfter DEF Exists
  <2>2. serving'[c] \notin Fresh
    BY <1>6 DEF Removes, Fresh
  <2> QED
    BY <1>0, <2>1, <2>2 DEF Unshared, KeepsEveryWrite
<1> QED
  BY <1>0, <1>3, <1>4, <1>5, <1>6, KindOfStep DEF Kinds

LEMMA AccountsApartStep == ASSUME AccountsSound, AccountsApart, AccountsStep PROVE AccountsApart'
<1>0. PICK c \in AccountCalls : Arrive(c) \/ ServeAccount(c)
  BY DEF AccountsStep, AccountsNext
<1>1. IdsGivenOut' /\ RowsKeepIdentity'
  BY <1>0, IdsStep, RowsKeepIdentityStep DEF AccountsSound, AccountsApart
<1>2. ASSUME NEW p \in Identities \ raced'
      PROVE  Undivided(p)'
  <2>1. /\ p \in Identities \ raced
        /\ \A d, e \in AccountCalls : Opening(d)' /\ Opening(e)' /\ IdentityOf(d)' = p /\ IdentityOf(e)' = p => d = e
    BY <1>2 DEF AccountsStep
  <2> QED
    BY <1>0, <2>1, UndividedStep DEF AccountsSound, AccountsApart
<1>3. ASSUME NEW i \in Ids \ shared'
      PROVE  Unshared(i)'
  <2>1. /\ i \in Ids \ shared
        /\ \A d, e \in AccountCalls : Holds(d)' /\ Holds(e)' /\ held'[d].id = i /\ held'[e].id = i => d = e
    BY <1>3 DEF AccountsStep
  <2> QED
    BY <1>0, <2>1, UnsharedStep DEF AccountsApart
<1> QED
  BY <1>1, <1>2, <1>3 DEF AccountsApart

LEMMA ApartIsOrderly == AccountsApart => OrderlyAccounts
<1> SUFFICES ASSUME AccountsApart
             PROVE  OrderlyAccounts
  OBVIOUS
<1>1. ASSUME NEW p \in Identities \ raced
      PROVE  OneAccount(p)
  <2> DEFINE S == {i \in Ids : accounts[i].identity = p}
  <2>1. \A i, j \in S : i = j
    BY DEF AccountsApart, Undivided
  <2>2. CASE S = {}
    BY <2>2, FS_EmptySet DEF OneAccount
  <2>3. ASSUME NEW i \in S
        PROVE  Cardinality(S) <= 1
    <3>1. S = {i}
      BY <2>1
    <3>2. Cardinality({i}) = 1
      BY FS_Singleton
    <3> HIDE DEF S
    <3> QED
      BY <3>1, <3>2
  <2> QED
    BY <2>2, <2>3 DEF OneAccount
<1>2. \A i \in Ids \ shared : KeepsEveryWrite(i)
  BY DEF AccountsApart, Unshared
<1> QED
  BY <1>1, <1>2 DEF OrderlyAccounts

-----------------------------------------------------------------------------
(***************************************************************************)
(* The limiter.                                                            *)
(***************************************************************************)
(* Only the tutor's route has a limiter of its own. *)
OwnIsTutors == \A c \in Calls : limiting[c] = "own" => route = "tutor"

(* Whatever was let through while somebody watches is counted, and the     *)
(* counter lives until the window that he watches is over.                 *)
Watched ==
  /\ watch.left = 0 => watch.passed = 0
  /\ watch.left > 0 => watch.passed <= counter /\ watch.left <= ttl

(* Who was told the truth waits as long as the counter lives. *)
WaitCovers == told.exact => OnTheWay = {} /\ ttl <= told.wait

LimitsInv == LimitsTypeOK /\ OwnIsTutors /\ Watched /\ LimitIsHeld /\ WaitCovers

LEMMA HoldsFromInv == LimitsInv => LimitersHold
<1> SUFFICES ASSUME LimitsInv PROVE LimitersHold
  OBVIOUS
<1>1. told.exact /\ told.wait = 0 => counter = 0
  BY DEF LimitsInv, WaitCovers, LimitsTypeOK
<1> QED
  BY <1>1 DEF LimitsInv, LimitersHold, RetryAfterSuffices

LEMMA LimitsInitInv == LimitsInit => LimitsInv
<1> SUFFICES ASSUME LimitsInit PROVE LimitsInv
  OBVIOUS
<1> USE RateLimitAssumption DEF LimitsInit
<1>1. LimitsTypeOK
  BY DEF LimitsTypeOK, Nothing_Told, NoWatch
<1>2. OwnIsTutors /\ Watched /\ LimitIsHeld /\ WaitCovers
  BY DEF OwnIsTutors, Watched, LimitIsHeld, LimitOf, WaitCovers, Nothing_Told, NoWatch
<1> QED
  BY <1>1, <1>2 DEF LimitsInv

LEMMA ArriveAtLimiterStep == ASSUME LimitsInv, NEW c \in Calls, ArriveAtLimiter(c) PROVE LimitsInv'
<1> USE RateLimitAssumption DEF LimitsInv, ArriveAtLimiter
<1>1. LimitsTypeOK'
  BY DEF LimitsTypeOK, Nothing_Told
<1>2. OwnIsTutors' /\ WaitCovers'
  BY DEF LimitsTypeOK, OwnIsTutors, WaitCovers, Nothing_Told
<1>3. Watched' /\ LimitIsHeld'
  BY DEF Watched, LimitIsHeld, LimitOf
<1> QED
  BY <1>1, <1>2, <1>3

(* A call let through within a window that is watched is counted above all *)
(* those let through before it, and the count is within the limit.         *)
LEMMA WatchStep ==
  ASSUME LimitsInv, UNCHANGED route, Count \/ UNCHANGED <<counter, ttl>>,
         \/ UNCHANGED watch
         \/ LetThrough /\ Count /\ counter + 1 <= LimitOf(route)
  PROVE  watch' \in [left: 0 .. Window, passed: Nat] /\ Watched' /\ LimitIsHeld'
<1> USE RateLimitAssumption DEF LimitsInv
<1>1. /\ counter \in Nat /\ ttl \in 0 .. Window /\ Window \in Nat \ {0} /\ LimitOf(route) \in Nat
      /\ watch \in [left: 0 .. Window, passed: Nat] /\ LimitOf(route)' = LimitOf(route)
  BY DEF LimitsTypeOK, LimitOf
<1>2. /\ counter' \in {counter, counter + 1} /\ ttl' \in {ttl, Window}
      /\ Count => counter' = counter + 1 /\ ttl' = Window
  BY DEF Count
<1>3. CASE UNCHANGED watch
  <2>1. Watched'
    BY <1>1, <1>2, <1>3 DEF Watched
  <2>2. LimitIsHeld'
    BY <1>1, <1>3 DEF LimitIsHeld
  <2> QED
    BY <1>1, <1>3, <2>1, <2>2
<1>4. CASE LetThrough /\ Count /\ counter + 1 <= LimitOf(route) /\ ~ UNCHANGED watch
  <2>1. PICK left \in 1 .. Window, passed \in Nat :
          /\ watch' = [left |-> left, passed |-> passed]
          /\ passed <= counter + 1
    <3>1. CASE watch.left > 0
      <4>1. /\ watch' = [left |-> watch.left, passed |-> watch.passed + 1]
            /\ watch.passed <= counter
        BY <1>4, <3>1 DEF LetThrough, Watched
      <4>2. watch.left \in 1 .. Window /\ watch.passed + 1 \in Nat /\ watch.passed + 1 <= counter + 1
        BY <1>1, <3>1, <4>1
      <4> QED
        BY <4>1, <4>2
    <3>2. CASE ~ (watch.left > 0)
      <4>1. watch' = [left |-> Window, passed |-> 1]
        BY <1>4, <3>2 DEF LetThrough
      <4> QED
        BY <1>1, <4>1
    <3> QED
      BY <3>1, <3>2
  <2>2. watch'.left = left /\ watch'.passed = passed
    BY <2>1
  <2>3. counter' = counter + 1 /\ ttl' = Window
    BY <1>2, <1>4
  <2>4. Watched'
    BY <1>1, <2>1, <2>2, <2>3 DEF Watched
  <2>5. passed <= LimitOf(route)
    BY <1>1, <1>4, <2>1
  <2>6. LimitIsHeld'
    BY <1>1, <2>2, <2>5 DEF LimitIsHeld
  <2> QED
    BY <1>1, <2>1, <2>4, <2>6
<1> QED
  BY <1>3, <1>4

(* While a call is on its way nobody has been told the exact wait since.   *)
LEMMA NotExact == ASSUME LimitsInv, NEW c \in Calls, limiting[c] # "client" PROVE ~ told.exact
BY DEF LimitsInv, WaitCovers, OnTheWay

(* What counting, passing on and denying have in common. *)
LEMMA CountStep ==
  ASSUME LimitsInv, NEW c \in Calls, limiting[c] \in {"group", "own"},
         NEW to \in {"client", "own", "denied", "denied_own"},
         Count \/ UNCHANGED <<counter, ttl>>,
         limiting' = [limiting EXCEPT ![c] = to],
         to = "own" => route = "tutor",
         \/ UNCHANGED watch
         \/ LetThrough /\ Count /\ counter + 1 <= LimitOf(route),
         UNCHANGED <<route, told>>
  PROVE  LimitsInv'
<1> USE RateLimitAssumption DEF LimitsInv
<1>1. watch' \in [left: 0 .. Window, passed: Nat] /\ Watched' /\ LimitIsHeld'
  BY WatchStep
<1>2. LimitsTypeOK'
  <2>1. /\ counter' \in Nat /\ ttl' \in 0 .. Window /\ (counter' > 0 <=> ttl' > 0)
    BY DEF LimitsTypeOK, Count
  <2> QED
    BY <1>1, <2>1 DEF LimitsTypeOK
<1>3. OwnIsTutors'
  BY DEF LimitsTypeOK, OwnIsTutors
<1>4. WaitCovers'
  BY NotExact DEF WaitCovers
<1> QED
  BY <1>1, <1>2, <1>3, <1>4

(* A call is let through at the last of its limiters, within its limit,    *)
(* which is that of its route.                                             *)
LEMMA AllowStep == ASSUME LimitsInv, NEW c \in Calls, Allow(c) PROVE LimitsInv'
<1>1. /\ limiting \in [Calls -> {"client", "group", "own", "denied", "denied_own"}]
      /\ route \in {"sync", "tutor"} /\ counter \in Nat /\ GroupLimit \in Nat /\ TutorLimit \in Nat
      /\ limiting[c] \in {"group", "own"}
  BY RateLimitAssumption DEF LimitsInv, LimitsTypeOK, Allow
<1>2. CASE limiting' = [limiting EXCEPT ![c] = DeniedAt(limiting[c])] /\ UNCHANGED watch
  <2>1. DeniedAt(limiting[c]) \in {"denied", "denied_own"}
    BY DEF DeniedAt
  <2> QED
    BY <1>1, <1>2, <2>1, CountStep DEF Allow
<1>3. CASE /\ ~ Exceeds(counter + 1, LimitAt(limiting[c]))
           /\ limiting' = [limiting EXCEPT ![c] = PassedOn(limiting[c])]
           /\ IF PassedOn(limiting[c]) = "client" THEN LetThrough ELSE UNCHANGED watch
  <2>1. PassedOn(limiting[c]) \in {"client", "own"} /\ (PassedOn(limiting[c]) = "own" => route = "tutor")
    BY DEF PassedOn
  <2>2. PassedOn(limiting[c]) = "client" => LimitAt(limiting[c]) = LimitOf(route)
    BY <1>1 DEF PassedOn, LimitAt, LimitOf, LimitsInv, OwnIsTutors
  <2>3. counter + 1 <= LimitAt(limiting[c])
    BY <1>1, <1>3 DEF Exceeds, LimitAt
  <2>4. UNCHANGED watch \/ (LetThrough /\ Count /\ counter + 1 <= LimitOf(route))
    BY <1>3, <2>2, <2>3 DEF Allow
  <2> QED
    BY <1>1, <1>3, <2>1, <2>4, CountStep DEF Allow
<1> QED
  BY <1>2, <1>3 DEF Allow

LEMMA AllowFailsStep == ASSUME LimitsInv, NEW c \in Calls, AllowFails(c) PROVE LimitsInv'
<1>1. limiting \in [Calls -> {"client", "group", "own", "denied", "denied_own"}]
  BY DEF LimitsInv, LimitsTypeOK
<1> DEFINE to == PassedOn(limiting[c])
<1>2. limiting' = [limiting EXCEPT ![c] = to]
  BY <1>1 DEF AllowFails
<1>3. to \in {"client", "own"} /\ (to = "own" => route = "tutor")
  BY DEF PassedOn
<1> HIDE DEF to
<1> QED
  BY <1>2, <1>3, CountStep DEF AllowFails

LEMMA DenyStep == ASSUME LimitsInv, NEW c \in Calls, TooManyRequests(c) PROVE LimitsInv'
<1> USE RateLimitAssumption DEF LimitsInv, TooManyRequests
<1>1. \A d \in Calls : limiting'[d] = IF d = c THEN "client" ELSE limiting[d]
  BY DEF LimitsTypeOK
<1>2. PICK left \in {ttl} \cup {n \in {0} : "ttl" \in LimitFaults} :
        told' = [wait |-> left + 1, exact |-> left = ttl /\ OnTheWay = {c}]
  BY DEF RetryAfter
<1>3. left \in 0 .. Window /\ ttl \in 0 .. Window
  BY DEF LimitsTypeOK
<1>4. LimitsTypeOK'
  BY <1>2, <1>3 DEF LimitsTypeOK
<1>5. OwnIsTutors' /\ Watched' /\ LimitIsHeld'
  BY <1>1 DEF OwnIsTutors, Watched, LimitIsHeld, LimitOf
<1>6. WaitCovers'
  <2> SUFFICES ASSUME told'.exact PROVE OnTheWay' = {} /\ ttl' <= told'.wait
    BY DEF WaitCovers
  <2>1. left = ttl /\ OnTheWay = {c}
    BY <1>2
  <2>2. told'.wait = left + 1
    BY <1>2
  <2> QED
    BY <1>1, <1>3, <2>1, <2>2 DEF OnTheWay
<1> QED
  BY <1>4, <1>5, <1>6

(* The counter is dropped no earlier than the window that is watched ends. *)
LEMMA LimitTickStep == LimitsInv /\ LimitTick => LimitsInv'
<1> SUFFICES ASSUME LimitsInv, LimitTick PROVE LimitsInv'
  OBVIOUS
<1> USE RateLimitAssumption DEF LimitsInv, LimitTick, Less
<1>1. /\ watch' \in [left: 0 .. Window, passed: Nat]
      /\ watch'.left = 0 => watch'.passed = 0
      /\ watch'.left > 0 => watch.left = watch'.left + 1 /\ watch'.passed = watch.passed
  <2>1. CASE watch.left <= 1
    BY <2>1 DEF NoWatch, LimitsTypeOK
  <2>2. CASE ~ (watch.left <= 1)
    BY <2>2 DEF LimitsTypeOK
  <2> QED
    BY <2>1, <2>2
<1>2. LimitsTypeOK'
  BY <1>1 DEF LimitsTypeOK
<1>3. Watched'
  BY <1>1 DEF Watched, LimitsTypeOK
<1>4. LimitIsHeld'
  <2>1. LimitOf(route) \in Nat /\ LimitOf(route)' = LimitOf(route)
    BY DEF LimitOf
  <2>2. watch.passed \in Nat /\ (watch'.passed = watch.passed \/ watch'.passed = 0)
    BY <1>1 DEF LimitsTypeOK
  <2> QED
    BY <2>1, <2>2 DEF LimitIsHeld
<1>5. OwnIsTutors' /\ OnTheWay' = OnTheWay
  BY DEF OwnIsTutors, OnTheWay
<1>6. WaitCovers'
  BY <1>5 DEF LimitsTypeOK, WaitCovers
<1> QED
  BY <1>2, <1>3, <1>4, <1>5, <1>6

LEMMA LimitsNextInv == LimitsInv /\ [LimitsNext]_limitVars => LimitsInv'
<1> SUFFICES ASSUME LimitsInv, [LimitsNext]_limitVars PROVE LimitsInv'
  OBVIOUS
<1>1. CASE LimitsNext
  BY <1>1, ArriveAtLimiterStep, AllowStep, AllowFailsStep, DenyStep, LimitTickStep DEF LimitsNext
<1>2. CASE UNCHANGED limitVars
  BY <1>2 DEF limitVars, LimitsInv, LimitsTypeOK, OwnIsTutors, Watched, LimitIsHeld, LimitOf, WaitCovers, OnTheWay
<1> QED
  BY <1>1, <1>2

THEOREM LimitsInvariance == LimitsSpec => []LimitsInv
BY LimitsInitInv, LimitsNextInv, PTL DEF LimitsSpec

(* Whatever calls overlap and whatever fails in Redis, no window, whenever *)
(* it begins, has more calls let through by the count than the limit, and  *)
(* a client who waits as long as Retry-After says has his quota again,     *)
(* although his denied calls renewed the counter's life.                   *)
THEOREM LimitsHold == LimitsSpec => []LimitersHold
BY LimitsInvariance, HoldsFromInv, PTL

(* The limiter keeps its types, and a counter always has an end of life.   *)
THEOREM LimitsTypeCorrect == LimitsSpec => []LimitsTypeOK
<1>1. LimitsInv => LimitsTypeOK
  BY DEF LimitsInv
<1> QED
  BY <1>1, LimitsInvariance, PTL

-----------------------------------------------------------------------------

(* A key that is served, or in an answer under way, has no age. *)
ServedKeysAreNew ==
  /\ \A k \in Kids : k >= oldest => retired[k] = 0
  /\ \A r \in Verifications, k \in Kids :
       verifying[r] = "store" /\ k \in response[r] => retired[k] = 0

(* What is kept is dropped in time. *)
CacheIsRecent == keysUntil > 0 => \A k \in keys : retired[k] + keysUntil <= Hour

(* No time passes between storing and reading again. *)
RereadAtOnce == \A r \in Verifications : verifying[r] = "reread" => keysUntil = Hour

KeysInv == KeysTypeOK /\ ServedKeysAreNew /\ CacheIsRecent /\ RereadAtOnce /\ AcceptedKeysAreRecent

LEMMA KeysInitInv == KeysInit => KeysInv
<1> SUFFICES ASSUME KeysInit PROVE KeysInv
  OBVIOUS
<1> USE KeyCacheAssumption DEF KeysInit
<1>1. KeysTypeOK
  BY DEF KeysTypeOK, Kids, IdTokens
<1>2. ServedKeysAreNew /\ CacheIsRecent /\ RereadAtOnce /\ AcceptedKeysAreRecent
  BY DEF ServedKeysAreNew, CacheIsRecent, RereadAtOnce, AcceptedKeysAreRecent, Kids
<1> QED
  BY <1>1, <1>2 DEF KeysInv

LEMMA StatusIsAnError ==
  ASSUME NEW err PROVE StatusOf(VerifyError(err)) \in {"401", "503"}
BY DEF StatusOf, VerifyError

(* The one history that is not a number. *)
Histories == [failed: BOOLEAN, age: 0 .. Hour + 1, served: BOOLEAN]

LEMMA WhetherServed ==
  ASSUME NEW h \in Histories, NEW b \in BOOLEAN
  PROVE  [h EXCEPT !.served = b] \in Histories
BY DEF Histories

LEMMA RotateStep == KeysInv /\ RotateKeys => KeysInv'
<1> SUFFICES ASSUME KeysInv, RotateKeys PROVE KeysInv'
  OBVIOUS
<1> USE KeyCacheAssumption DEF KeysInv, RotateKeys
<1>1. KeysTypeOK'
  <2> DEFINE still(r) == seen[r].served /\ (verifying[r] = "done" \/ token[r].kid # oldest)
  <2>1. \A r \in Verifications : seen[r] \in Histories /\ still(r) \in BOOLEAN
    BY DEF KeysTypeOK, Histories
  <2>2. seen' = [r \in Verifications |-> [seen[r] EXCEPT !.served = still(r)]]
    OBVIOUS
  <2> HIDE DEF still
  <2>3. seen' \in [Verifications -> Histories]
    BY <2>1, <2>2, WhetherServed
  <2> QED
    BY <2>3 DEF KeysTypeOK, Kids, Histories
<1>2. ServedKeysAreNew' /\ CacheIsRecent' /\ RereadAtOnce'
  BY DEF KeysTypeOK, ServedKeysAreNew, CacheIsRecent, RereadAtOnce, Kids
<1>3. AcceptedKeysAreRecent'
  BY DEF KeysTypeOK, AcceptedKeysAreRecent
<1> QED
  BY <1>1, <1>2, <1>3

LEMMA KeyTickStep == KeysInv /\ KeyTick => KeysInv'
<1> SUFFICES ASSUME KeysInv, KeyTick PROVE KeysInv'
  OBVIOUS
<1> USE KeyCacheAssumption DEF KeysInv, KeyTick
<1>1. \A r \in Verifications : verifying[r] \notin {"fetch", "store", "reread"}
  BY DEF Fetching
<1>2. KeysTypeOK'
  BY DEF KeysTypeOK, Kids
<1>3. ServedKeysAreNew'
  BY <1>1 DEF KeysTypeOK, ServedKeysAreNew, Kids
<1>4. CacheIsRecent'
  <2> SUFFICES ASSUME keysUntil' > 0, NEW k \in keys PROVE retired'[k] + keysUntil' <= Hour
    BY DEF CacheIsRecent
  <2>1. /\ keysUntil \in Nat /\ keysUntil > 0 /\ keysUntil' = keysUntil - 1
        /\ k \in Kids /\ retired[k] \in Nat /\ retired'[k] \in {retired[k], retired[k] + 1}
    BY DEF KeysTypeOK
  <2>2. retired[k] + keysUntil <= Hour
    BY <2>1 DEF CacheIsRecent
  <2> QED
    BY <2>1, <2>2
<1>5. RereadAtOnce' /\ AcceptedKeysAreRecent'
  BY <1>1 DEF RereadAtOnce, AcceptedKeysAreRecent
<1> QED
  BY <1>2, <1>3, <1>4, <1>5

LEMMA PresentStep == ASSUME KeysInv, NEW r \in Verifications, PresentToken(r) PROVE KeysInv'
<1> USE KeyCacheAssumption DEF KeysInv, PresentToken
<1>1. KeysTypeOK'
  <2> DEFINE served == token'[r].kid \in Served
  <2>1. served \in BOOLEAN /\ seen[r] \in Histories /\ seen' = [seen EXCEPT ![r].served = served]
    BY DEF KeysTypeOK, Histories
  <2> HIDE DEF served
  <2>2. seen' \in [Verifications -> Histories]
    BY <2>1, WhetherServed DEF KeysTypeOK, Histories
  <2> QED
    BY <2>2 DEF KeysTypeOK, Histories
<1>2. ServedKeysAreNew' /\ CacheIsRecent' /\ RereadAtOnce'
  BY DEF KeysTypeOK, ServedKeysAreNew, CacheIsRecent, RereadAtOnce
<1>3. AcceptedKeysAreRecent'
  BY DEF KeysTypeOK, AcceptedKeysAreRecent
<1> QED
  BY <1>1, <1>2, <1>3

(* A sign-in that is accepted with a key of no more than an hour's age. *)
LEMMA AcceptStep ==
  ASSUME KeysInv, NEW r \in Verifications, Accept(r), retired[token[r].kid] <= Hour,
         UNCHANGED <<oldest, retired, keys, keysUntil, token, inHand, response>>
  PROVE  KeysInv'
<1> USE KeyCacheAssumption DEF KeysInv, Accept
<1>1. token[r].kid \in Kids /\ retired[token[r].kid] \in 0 .. Hour + 1
  BY DEF KeysTypeOK, IdTokens
<1>2. KeysTypeOK'
  BY <1>1, StatusIsAnError DEF KeysTypeOK
<1>3. ServedKeysAreNew' /\ CacheIsRecent' /\ RereadAtOnce'
  BY DEF KeysTypeOK, ServedKeysAreNew, CacheIsRecent, RereadAtOnce
<1>4. AcceptedKeysAreRecent'
  BY <1>1 DEF KeysTypeOK, AcceptedKeysAreRecent
<1> QED
  BY <1>2, <1>3, <1>4

LEMMA LookUpKeyStep == ASSUME KeysInv, NEW r \in Verifications, LookUpKey(r) PROVE KeysInv'
<1> USE KeyCacheAssumption DEF KeysInv
<1>1. CASE Usable(token[r].kid \in keys, keysUntil > 0) /\ Accept(r) /\ UNCHANGED inHand
  <2>1. token[r].kid \in keys /\ keysUntil > 0
    BY <1>1 DEF Usable
  <2>2. keysUntil \in Nat /\ token[r].kid \in Kids /\ retired[token[r].kid] \in Nat
    BY DEF KeysTypeOK, IdTokens
  <2>3. retired[token[r].kid] <= Hour
    BY <2>1, <2>2 DEF CacheIsRecent
  <2> QED
    BY <1>1, <2>3, AcceptStep DEF LookUpKey
<1>2. CASE /\ verifying' = [verifying EXCEPT ![r] = "fetch"]
           /\ inHand' = [inHand EXCEPT ![r] = token[r].kid \in keys]
           /\ UNCHANGED <<outcome, seen>>
  <2>1. KeysTypeOK'
    BY <1>2 DEF LookUpKey, KeysTypeOK
  <2>2. ServedKeysAreNew' /\ CacheIsRecent' /\ RereadAtOnce'
    BY <1>2 DEF LookUpKey, KeysTypeOK, ServedKeysAreNew, CacheIsRecent, RereadAtOnce
  <2>3. AcceptedKeysAreRecent'
    BY <1>2 DEF LookUpKey, AcceptedKeysAreRecent
  <2> QED
    BY <2>1, <2>2, <2>3
<1> QED
  BY <1>1, <1>2 DEF LookUpKey

LEMMA FetchStep == ASSUME KeysInv, NEW r \in Verifications, FetchKeys(r) PROVE KeysInv'
<1> USE KeyCacheAssumption DEF KeysInv, FetchKeys
<1>1. KeysTypeOK'
  BY DEF KeysTypeOK, Served, Kids
<1>2. ServedKeysAreNew'
  BY DEF KeysTypeOK, ServedKeysAreNew, Served, Kids
<1>3. CacheIsRecent' /\ RereadAtOnce'
  BY DEF KeysTypeOK, CacheIsRecent, RereadAtOnce
<1>4. AcceptedKeysAreRecent'
  BY DEF AcceptedKeysAreRecent
<1> QED
  BY <1>1, <1>2, <1>3, <1>4

LEMMA FailStep == ASSUME KeysInv, NEW r \in Verifications, FetchFails(r) PROVE KeysInv'
<1> USE KeyCacheAssumption DEF KeysInv, FetchFails
<1>1. KeysTypeOK'
  BY StatusIsAnError DEF KeysTypeOK
<1>2. ServedKeysAreNew' /\ CacheIsRecent' /\ RereadAtOnce'
  BY DEF KeysTypeOK, ServedKeysAreNew, CacheIsRecent, RereadAtOnce
<1>3. AcceptedKeysAreRecent'
  BY DEF KeysTypeOK, AcceptedKeysAreRecent
<1> QED
  BY <1>1, <1>2, <1>3

LEMMA StoreKeysStep == ASSUME KeysInv, NEW r \in Verifications, StoreKeys(r) PROVE KeysInv'
<1> USE KeyCacheAssumption DEF KeysInv, StoreKeys
<1>1. KeysTypeOK'
  BY DEF KeysTypeOK
<1>2. ServedKeysAreNew'
  BY DEF KeysTypeOK, ServedKeysAreNew
<1>3. CacheIsRecent'
  BY DEF KeysTypeOK, ServedKeysAreNew, CacheIsRecent
<1>4. RereadAtOnce' /\ AcceptedKeysAreRecent'
  BY DEF KeysTypeOK, RereadAtOnce, AcceptedKeysAreRecent
<1> QED
  BY <1>1, <1>2, <1>3, <1>4

LEMMA RereadStep == ASSUME KeysInv, NEW r \in Verifications, RereadKey(r) PROVE KeysInv'
<1> USE KeyCacheAssumption DEF KeysInv
<1>1. CASE token[r].kid \in keys /\ Accept(r)
  <2>1. keysUntil = Hour
    BY DEF RereadKey, RereadAtOnce
  <2>2. token[r].kid \in Kids /\ retired[token[r].kid] \in Nat
    BY DEF KeysTypeOK, IdTokens
  <2>3. retired[token[r].kid] <= Hour
    BY <1>1, <2>1, <2>2 DEF CacheIsRecent
  <2> QED
    BY <1>1, <2>3, AcceptStep DEF RereadKey
<1>2. CASE Refuse(r, "TokenInvalid") /\ UNCHANGED seen
  <2> USE DEF Refuse, RereadKey
  <2>1. KeysTypeOK'
    BY <1>2, StatusIsAnError DEF KeysTypeOK
  <2>2. ServedKeysAreNew' /\ CacheIsRecent' /\ RereadAtOnce'
    BY <1>2 DEF KeysTypeOK, ServedKeysAreNew, CacheIsRecent, RereadAtOnce
  <2>3. AcceptedKeysAreRecent'
    BY <1>2, StatusIsAnError DEF KeysTypeOK, AcceptedKeysAreRecent
  <2> QED
    BY <2>1, <2>2, <2>3
<1> QED
  BY <1>1, <1>2 DEF RereadKey

LEMMA KeysNextInv == KeysInv /\ [KeysNext]_keyVars => KeysInv'
<1> SUFFICES ASSUME KeysInv, [KeysNext]_keyVars PROVE KeysInv'
  OBVIOUS
<1>1. CASE KeysNext
  BY <1>1, RotateStep, KeyTickStep, PresentStep, LookUpKeyStep, FetchStep, FailStep, StoreKeysStep,
     RereadStep DEF KeysNext, VerifyToken
<1>2. CASE UNCHANGED keyVars
  BY <1>2 DEF keyVars, KeysInv, KeysTypeOK, ServedKeysAreNew, CacheIsRecent, RereadAtOnce,
              AcceptedKeysAreRecent
<1> QED
  BY <1>1, <1>2

THEOREM KeysInvariance == KeysSpec => []KeysInv
BY KeysInitInv, KeysNextInv, PTL DEF KeysSpec

(* Whatever sign-ins overlap, however their answers overtake each other    *)
(* and whenever Google rotates its keys, Verify accepts a token only with  *)
(* a key served within the last hour, or because Google could not be asked *)
(* for a newer set.                                                        *)
THEOREM WithdrawnKeysExpire == KeysSpec => []AcceptedKeysAreRecent
<1>1. KeysInv => AcceptedKeysAreRecent
  BY DEF KeysInv
<1> QED
  BY <1>1, KeysInvariance, PTL

(* The cache keeps its types: keys it knows of, and no more than an hour.  *)
THEOREM KeysTypeCorrect == KeysSpec => []KeysTypeOK
<1>1. KeysInv => KeysTypeOK
  BY DEF KeysInv
<1> QED
  BY <1>1, KeysInvariance, PTL

-----------------------------------------------------------------------------
(***************************************************************************)
(* Billing behind the idempotency middleware.                              *)
(***************************************************************************)
Tiers == {"free", "premium"}

(* The types the argument needs. *)
BillingTypes ==
  /\ today \in Nat
  /\ intent \in [Keys -> AllIntents] /\ keyOf \in [BillingCalls -> Keys]
  /\ kept \in [Keys -> [reply: [status: Nat, tier: Tiers, on: Nat], since: Nat]]
  /\ entitlement \in [Customers -> [tier: Tiers, ends: Nat]]
  /\ until \in [BillingCalls -> Nat]
  /\ answer \in [BillingCalls -> [status: Nat, tier: Tiers, on: Nat]]
  /\ claimed \in [Customers -> SUBSET Nat]

(* A day on which the learner asked for a term that ends then.             *)
TermOf(u, ends) == \E d \in claimed[u] : ends = d + Term

(* A reply that says premium says it within a term of a day he asked. *)
WithinTerm(u, reply) ==
  reply.tier = "premium" => \E d \in claimed[u] : d <= reply.on /\ reply.on <= d + Term

Past         == \A u \in Customers : \A d \in claimed[u] : d <= today
SavesATerm   == \A c \in BillingCalls : billing[c] = "save" => TermOf(For(c).user, until[c])
RowsAreTerms == \A u \in Customers :
                  entitlement[u].tier = "premium" => TermOf(u, entitlement[u].ends)
KeptWithinTerm == \A k \in Keys : WithinTerm(intent[k].user, kept[k].reply)
ToldWithinTerm == \A c \in BillingCalls : WithinTerm(For(c).user, answer[c])

BillingInv == BillingTypes /\ Past /\ SavesATerm /\ RowsAreTerms /\ KeptWithinTerm /\ ToldWithinTerm

LEMMA RunsOutFromInv == BillingInv => PremiumRunsOut
BY DEF BillingInv, ToldWithinTerm, WithinTerm, PremiumRunsOut

(* A key is for a customer, and so is a call. *)
LEMMA ForACustomer ==
  ASSUME BillingTypes
  PROVE  /\ \A k \in Keys : intent[k].user \in Customers
         /\ \A c \in BillingCalls : keyOf[c] \in Keys /\ For(c).user \in Customers
<1>1. ASSUME NEW i \in AllIntents PROVE i.user \in Customers
  BY DEF AllIntents
<1> QED
  BY <1>1 DEF BillingTypes, For

LEMMA BillingInitInv == BillingInit => BillingInv
<1> SUFFICES ASSUME BillingInit PROVE BillingInv
  OBVIOUS
<1> USE PurchasesAssumption DEF BillingInit
<1>1. BillingTypes
  BY DEF BillingTypes, Tiers, NoAnswer, FreeTier, Never
<1>2. Past /\ SavesATerm /\ RowsAreTerms /\ KeptWithinTerm /\ ToldWithinTerm
  BY DEF Past, SavesATerm, RowsAreTerms, KeptWithinTerm, ToldWithinTerm, WithinTerm, NoAnswer, FreeTier
<1> QED
  BY <1>1, <1>2 DEF BillingInv

(* What the steps that only move a call along or answer it have in common. *)
LEMMA AnswerStep ==
  ASSUME BillingInv, NEW c \in BillingCalls, NEW reply \in [status: Nat, tier: Tiers, on: Nat],
         WithinTerm(For(c).user, reply),
         answer' = [answer EXCEPT ![c] = reply],
         \A d \in BillingCalls : billing'[d] = "save" => billing[d] = "save",
         UNCHANGED <<today, scenario, kept, entitlement, until, claimed>>
  PROVE  BillingInv'
<1> USE DEF BillingInv, scenario
<1>1. BillingTypes'
  BY DEF BillingTypes
<1>2. Past' /\ SavesATerm' /\ RowsAreTerms' /\ KeptWithinTerm'
  BY DEF BillingTypes, Past, SavesATerm, RowsAreTerms, KeptWithinTerm, WithinTerm, TermOf, For
<1>3. ToldWithinTerm'
  BY DEF BillingTypes, ToldWithinTerm, WithinTerm, For
<1> QED
  BY <1>1, <1>2, <1>3

(* No call starts to save without having reckoned a term. *)
LEMMA GoneTo ==
  ASSUME NEW c \in BillingCalls, NEW place, GoTo(c, place), place # "save"
  PROVE  \A d \in BillingCalls : billing'[d] = "save" => billing[d] = "save"
BY DEF GoTo

(* A reply that says free needs no purchase. *)
LEMMA RefusalStep ==
  ASSUME BillingInv, NEW c \in BillingCalls, NEW status \in Nat, Return(c, status, "free"),
         UNCHANGED <<today, scenario, kept, entitlement, until, claimed>>
  PROVE  BillingInv'
<1> DEFINE reply == [status |-> status, tier |-> "free", on |-> today]
<1>1. reply \in [status: Nat, tier: Tiers, on: Nat]
  BY DEF BillingInv, BillingTypes, Tiers
<1>2. WithinTerm(For(c).user, reply)
  BY DEF WithinTerm
<1>3. answer' = [answer EXCEPT ![c] = reply]
  BY DEF Return
<1>4. \A d \in BillingCalls : billing'[d] = "save" => billing[d] = "save"
  BY DEF Return, GoTo
<1> HIDE DEF reply
<1> QED
  BY <1>1, <1>2, <1>3, <1>4, AnswerStep

LEMMA DayStep == BillingInv /\ NextBillingDay => BillingInv'
<1> SUFFICES ASSUME BillingInv, NextBillingDay PROVE BillingInv'
  OBVIOUS
<1> USE DEF BillingInv, NextBillingDay, scenario, rows
<1>1. BillingTypes' /\ Past'
  BY DEF BillingTypes, Past
<1>2. SavesATerm' /\ RowsAreTerms' /\ KeptWithinTerm' /\ ToldWithinTerm'
  BY DEF SavesATerm, RowsAreTerms, KeptWithinTerm, ToldWithinTerm, WithinTerm, TermOf, For
<1> QED
  BY <1>1, <1>2

(* The kept reply is one that the key's own customer was given. *)
LEMMA LookUpReplyStep == ASSUME BillingInv, NEW c \in BillingCalls, LookUpReply(c) PROVE BillingInv'
<1> USE DEF BillingInv
<1>1. /\ keyOf[c] \in Keys /\ kept[keyOf[c]].reply \in [status: Nat, tier: Tiers, on: Nat]
      /\ For(c).op # "save"
  BY DEF BillingTypes, For, AllIntents
<1>2. CASE answer' = [answer EXCEPT ![c] = kept[keyOf[c]].reply] /\ GoTo(c, "replied")
  <2>1. WithinTerm(For(c).user, kept[keyOf[c]].reply)
    BY <1>1 DEF KeptWithinTerm, For
  <2>2. \A d \in BillingCalls : billing'[d] = "save" => billing[d] = "save"
    BY <1>2, GoneTo
  <2> QED
    BY <1>1, <1>2, <2>1, <2>2, AnswerStep DEF LookUpReply, rows
<1>3. CASE GoTo(c, For(c).op) /\ UNCHANGED answer
  <2>1. \A d \in BillingCalls : billing'[d] = "save" => billing[d] = "save"
    BY <1>1, <1>3, GoneTo
  <2>2. answer[c] \in [status: Nat, tier: Tiers, on: Nat] /\ answer' = [answer EXCEPT ![c] = answer[c]]
    BY <1>3 DEF BillingTypes
  <2>3. WithinTerm(For(c).user, answer[c])
    BY DEF ToldWithinTerm
  <2> QED
    BY <2>1, <2>2, <2>3, AnswerStep DEF LookUpReply, rows
<1> QED
  BY <1>2, <1>3 DEF LookUpReply

LEMMA StoreReplyStep == ASSUME BillingInv, NEW c \in BillingCalls, StoreReply(c) PROVE BillingInv'
<1> USE DEF BillingInv, StoreReply, scenario, rows
<1>1. keyOf[c] \in Keys
  BY DEF BillingTypes
<1>2. \A d \in BillingCalls : billing'[d] = "save" => billing[d] = "save"
  BY GoneTo
<1>3. kept' \in {kept, [kept EXCEPT ![keyOf[c]] = [reply |-> answer[c], since |-> today]]}
  OBVIOUS
<1>4. BillingTypes'
  <2>1. answer[c] \in [status: Nat, tier: Tiers, on: Nat] /\ today \in Nat
    BY DEF BillingTypes
  <2>2. [reply |-> answer[c], since |-> today] \in [reply: [status: Nat, tier: Tiers, on: Nat], since: Nat]
    BY <2>1
  <2>3. kept' \in [Keys -> [reply: [status: Nat, tier: Tiers, on: Nat], since: Nat]]
    BY <1>1, <1>3, <2>2 DEF BillingTypes
  <2> QED
    BY <2>3 DEF BillingTypes
<1>5. Past' /\ SavesATerm' /\ RowsAreTerms' /\ ToldWithinTerm'
  BY <1>2 DEF Past, SavesATerm, RowsAreTerms, ToldWithinTerm, WithinTerm, TermOf, For
<1>6. KeptWithinTerm'
  <2>1. WithinTerm(intent[keyOf[c]].user, answer[c])
    BY DEF ToldWithinTerm, For
  <2> QED
    BY <1>1, <1>3, <2>1 DEF BillingTypes, KeptWithinTerm, WithinTerm
<1> QED
  BY <1>4, <1>5, <1>6

(* A verification dates the term from today. *)
LEMMA RecordStep == ASSUME BillingInv, NEW c \in BillingCalls, RecordPurchase(c) PROVE BillingInv'
<1> USE PurchasesAssumption DEF BillingInv, RecordPurchase, scenario, TermFrom
<1> DEFINE u == For(c).user
<1>1. u \in Customers /\ today \in Nat /\ Term \in Nat
  BY ForACustomer DEF BillingTypes
<1>2. /\ claimed' = [claimed EXCEPT ![u] = @ \cup {today}] /\ until' = [until EXCEPT ![c] = today + Term]
      /\ \A d \in BillingCalls : For(d)' = For(d)
  BY DEF For
<1> HIDE DEF u
<1>3. BillingTypes'
  <2>1. claimed[u] \cup {today} \in SUBSET Nat
    BY <1>1 DEF BillingTypes
  <2>2. claimed' \in [Customers -> SUBSET Nat]
    BY <1>1, <1>2, <2>1 DEF BillingTypes
  <2>3. until' \in [BillingCalls -> Nat]
    BY <1>1, <1>2 DEF BillingTypes
  <2> QED
    BY <2>2, <2>3 DEF BillingTypes
<1>4. \A v \in Customers : claimed[v] \subseteq claimed'[v] /\ claimed'[v] \subseteq claimed[v] \cup {today}
  BY <1>1, <1>2 DEF BillingTypes
<1>5. Past'
  BY <1>1, <1>4 DEF BillingTypes, Past
<1>6. SavesATerm'
  <2> SUFFICES ASSUME NEW d \in BillingCalls, billing'[d] = "save" PROVE TermOf(For(d).user, until[d])'
    BY DEF SavesATerm
  <2>1. CASE d = c
    <3>1. today \in claimed'[u] /\ until'[d] = today + Term /\ For(d).user = u
      BY <1>1, <1>2, <2>1 DEF BillingTypes, u
    <3> QED
      BY <1>2, <3>1 DEF TermOf
  <2>2. CASE d # c
    <3>1. billing[d] = "save" /\ until'[d] = until[d] /\ For(d).user \in Customers
      BY <1>2, <2>2, ForACustomer DEF GoTo, BillingTypes
    <3> QED
      BY <1>2, <1>4, <3>1 DEF SavesATerm, TermOf
  <2> QED
    BY <2>1, <2>2
<1>7. RowsAreTerms'
  BY <1>4 DEF RowsAreTerms, TermOf
<1>8. KeptWithinTerm'
  BY <1>4, ForACustomer DEF KeptWithinTerm, WithinTerm
<1>9. ToldWithinTerm'
  BY <1>2, <1>4, ForACustomer DEF ToldWithinTerm, WithinTerm
<1> QED
  BY <1>3, <1>5, <1>6, <1>7, <1>8, <1>9

LEMMA SaveEntitlementStep == ASSUME BillingInv, NEW c \in BillingCalls, SaveEntitlement(c) PROVE BillingInv'
<1>1. CASE /\ entitlement' = [entitlement EXCEPT ![For(c).user] = [tier |-> "premium", ends |-> until[c]]]
           /\ GoTo(c, "restore") /\ UNCHANGED answer
  <2> USE <1>1 DEF BillingInv, SaveEntitlement, scenario
  <2>1. For(c).user \in Customers /\ TermOf(For(c).user, until[c]) /\ For(c)' = For(c)
    BY ForACustomer DEF SavesATerm, For
  <2>2. \A d \in BillingCalls : billing'[d] = "save" => billing[d] = "save"
    BY GoneTo
  <2>3. BillingTypes'
    BY <2>1 DEF BillingTypes, Tiers
  <2>4. RowsAreTerms'
    BY <2>1 DEF BillingTypes, RowsAreTerms, TermOf
  <2>5. Past' /\ SavesATerm' /\ KeptWithinTerm' /\ ToldWithinTerm'
    BY <2>2 DEF Past, SavesATerm, KeptWithinTerm, ToldWithinTerm, WithinTerm, TermOf, For
  <2> QED
    BY <2>3, <2>4, <2>5
<1>2. CASE Return(c, 400, "free") /\ UNCHANGED entitlement
  BY <1>2, RefusalStep DEF SaveEntitlement
<1> QED
  BY <1>1, <1>2 DEF SaveEntitlement

(* Premium is read off a row whose term is not over. *)
LEMMA GetEntitlementStep == ASSUME BillingInv, NEW c \in BillingCalls, GetEntitlement(c) PROVE BillingInv'
<1> USE DEF BillingInv
<1>1. For(c).user \in Customers
  BY ForACustomer
<1>2. CASE Return(c, 200, TierOf(entitlement[For(c).user]))
  <2> DEFINE row   == entitlement[For(c).user]
             reply == [status |-> 200, tier |-> TierOf(row), on |-> today]
  <2>1. row.tier \in Tiers /\ row.ends \in Nat /\ today \in Nat
    BY <1>1 DEF BillingTypes
  <2>2. reply \in [status: Nat, tier: Tiers, on: Nat]
    BY <2>1 DEF TierOf, Tiers
  <2>3. WithinTerm(For(c).user, reply)
    <3> SUFFICES ASSUME TierOf(row) = "premium"
                 PROVE  \E d \in claimed[For(c).user] : d <= today /\ today <= d + Term
      BY DEF WithinTerm
    <3>1. row.tier = "premium" /\ today <= row.ends
      BY <2>1 DEF TierOf
    <3>2. PICK d \in claimed[For(c).user] : row.ends = d + Term
      BY <1>1, <3>1 DEF RowsAreTerms, TermOf
    <3> QED
      BY <1>1, <3>1, <3>2 DEF Past
  <2>4. answer' = [answer EXCEPT ![c] = reply]
    BY <1>2 DEF Return
  <2>5. \A d \in BillingCalls : billing'[d] = "save" => billing[d] = "save"
    BY <1>2 DEF Return, GoTo
  <2> HIDE DEF reply
  <2> QED
    BY <2>2, <2>3, <2>4, <2>5, AnswerStep DEF GetEntitlement, rows
<1>3. CASE Return(c, IF For(c).op = "verify" THEN 400 ELSE 500, "free")
  BY <1>3, RefusalStep DEF GetEntitlement, rows
<1> QED
  BY <1>2, <1>3 DEF GetEntitlement

LEMMA PushStep == ASSUME BillingInv, NEW c \in BillingCalls, RegisterPushToken(c) PROVE BillingInv'
<1>1. PICK status \in Nat : Return(c, status, "free")
  BY DEF RegisterPushToken
<1> QED
  BY <1>1, RefusalStep DEF RegisterPushToken

LEMMA CrashStep == ASSUME BillingInv, NEW c \in BillingCalls, CrashBilling(c) PROVE BillingInv'
<1>1. NoAnswer \in [status: Nat, tier: Tiers, on: Nat] /\ WithinTerm(For(c).user, NoAnswer)
  BY DEF NoAnswer, Tiers, WithinTerm
<1>2. \A d \in BillingCalls : billing'[d] = "save" => billing[d] = "save"
  BY GoneTo DEF CrashBilling
<1> QED
  BY <1>1, <1>2, AnswerStep DEF CrashBilling, rows

LEMMA BillingNextInv == BillingInv /\ [BillingNext]_billingVars => BillingInv'
<1> SUFFICES ASSUME BillingInv, [BillingNext]_billingVars PROVE BillingInv'
  OBVIOUS
<1>1. ASSUME NEW c \in BillingCalls, RefuseMalformed(c) PROVE BillingInv'
  BY <1>1, RefusalStep DEF RefuseMalformed, rows
<1>2. CASE BillingNext
  BY <1>1, <1>2, DayStep, LookUpReplyStep, StoreReplyStep, RecordStep, SaveEntitlementStep, GetEntitlementStep, PushStep, CrashStep
     DEF BillingNext, ServeBilling
<1>3. CASE UNCHANGED billingVars
  BY <1>3 DEF billingVars, scenario, rows, BillingInv, BillingTypes, Past, SavesATerm, RowsAreTerms, KeptWithinTerm,
              ToldWithinTerm, WithinTerm, TermOf, For
<1> QED
  BY <1>2, <1>3

THEOREM BillingInvariance == BillingSpec => []BillingInv
BY BillingInitInv, BillingNextInv, PTL DEF BillingSpec

(* Whatever calls overlap, fail, die or are answered from Redis, and       *)
(* however the terms of a learner follow each other, who is told that he   *)
(* is premium asked for it himself no longer than a term ago: premium runs *)
(* out.  It does not say that he bought anything.                          *)
THEOREM PremiumIsOfATerm == BillingSpec => []PremiumRunsOut
BY BillingInvariance, RunsOutFromInv, PTL

-----------------------------------------------------------------------------
(***************************************************************************)
(* The components together: a behaviour of the front door is one of each   *)
(* of them.                                                                *)
(***************************************************************************)
doorVars == <<door, histories, limitVars, keyVars, billingVars, accountVars>>

LEMMA StartOfEach ==
  MCInit => LimitsInit /\ KeysInit /\ BillingInit /\ AccountsInit
BY DEF MCInit

LEMMA StepOfEach ==
  [MCNext]_doorVars => /\ [LimitsNext]_limitVars /\ [KeysNext]_keyVars
                       /\ [BillingNext]_billingVars /\ [AccountsNext]_accountVars
<1> SUFFICES ASSUME [MCNext]_doorVars
             PROVE  /\ [LimitsNext]_limitVars /\ [KeysNext]_keyVars
                    /\ [BillingNext]_billingVars /\ [AccountsNext]_accountVars
  OBVIOUS
<1>1. CASE UNCHANGED doorVars
  BY <1>1 DEF doorVars
<1>2. CASE MCNext
  BY <1>2 DEF MCNext, LimitsStep, KeysStep, BillingStep, AccountsStep
<1> QED
  BY <1>1, <1>2

-----------------------------------------------------------------------------
(***************************************************************************)
(* Sign-ins whose refresh of the keys meets no other.  Such a one reads    *)
(* the very set that it fetched, which held every key that was served then *)
(* and so the key of its token, if that has been served all along.         *)
(***************************************************************************)
UndecidedYet == \A r \in Verifications : verifying[r] # "done" => outcome[r] = "none"

StillServed ==
  \A r \in Verifications :
    verifying[r] \in {"look", "fetch", "store", "reread"} /\ seen[r].served => token[r].kid \in Served

FetchesAlone(r) == r \in Fetching => \A o \in Fetching : o = r

FetchedItsKey(r) ==
  seen[r].served => /\ verifying[r] = "store" => token[r].kid \in response[r]
                    /\ verifying[r] = "reread" => token[r].kid \in keys

Uncrossed(r) == FetchesAlone(r) /\ FetchedItsKey(r) /\ GoodTokenIsAccepted(r)

KeysApart == UndecidedYet /\ StillServed /\ \A r \in Verifications \ crossed : Uncrossed(r)

(* Whom the history does not name fetches alone. *)
LEMMA NoOtherFetches ==
  ASSUME crossed' = crossed \cup (IF Cardinality(Fetching') > 1 THEN Fetching' ELSE {})
  PROVE  /\ crossed \subseteq crossed'
         /\ \A r \in Verifications \ crossed' : FetchesAlone(r)'
<1>1. IsFiniteSet(Fetching')
  BY KeyCacheAssumption, FS_Subset DEF Fetching
<1>2. ASSUME NEW r \in Verifications \ crossed', r \in Fetching', NEW o \in Fetching'
      PROVE  o = r
  <2>1. Cardinality(Fetching') <= 1 /\ Cardinality(Fetching') \in Nat /\ Cardinality(Fetching') # 0
    BY <1>1, <1>2, FS_CardinalityType, FS_EmptySet
  <2>2. Cardinality(Fetching') = 1
    BY <2>1
  <2> QED
    BY <1>1, <1>2, <2>2, FS_Singleton
<1> QED
  BY <1>2 DEF FetchesAlone

LEMMA KeysApartInit == MCInit => KeysApart
BY DEF MCInit, KeysInit, KeysApart, UndecidedYet, StillServed, Uncrossed, FetchesAlone, FetchedItsKey,
       GoodTokenIsAccepted, Fetching

(* A step of a sign-in that changes nothing of another's. *)
LEMMA OwnStep ==
  ASSUME KeysInv, KeysApart, NEW r \in Verifications, UNCHANGED oldest, crossed \subseteq crossed',
         \A o \in Verifications \ crossed' : FetchesAlone(o)',
         \A o \in Verifications \ {r} :
           /\ verifying'[o] = verifying[o] /\ token'[o] = token[o] /\ response'[o] = response[o]
           /\ outcome'[o] = outcome[o] /\ seen'[o] = seen[o],
         keys' = keys \/ verifying[r] = "store",
         verifying'[r] # "done" => outcome'[r] = "none",
         verifying'[r] \in {"look", "fetch", "store", "reread"} /\ seen'[r].served => token'[r].kid \in Served,
         r \notin crossed' => FetchedItsKey(r)' /\ GoodTokenIsAccepted(r)'
  PROVE  KeysApart'
<1>1. UndecidedYet' /\ StillServed'
  BY DEF KeysApart, UndecidedYet, StillServed, Served
<1>2. ASSUME NEW o \in Verifications \ crossed', o # r
      PROVE  FetchedItsKey(o)' /\ GoodTokenIsAccepted(o)'
  <2>1. Uncrossed(o)
    BY <1>2 DEF KeysApart
  <2>2. verifying[o] = "reread" => keys' = keys
    BY <1>2, <2>1 DEF Uncrossed, FetchesAlone, Fetching
  <2> QED
    BY <1>2, <2>1, <2>2 DEF Uncrossed, FetchedItsKey, GoodTokenIsAccepted
<1> QED
  BY <1>1, <1>2 DEF KeysApart, Uncrossed

LEMMA KeysApartStep ==
  ASSUME KeysInv, KeysApart, KeysStep
  PROVE  KeysApart'
<1> USE DEF KeysStep
<1>0. /\ crossed \subseteq crossed'
      /\ \A r \in Verifications \ crossed' : FetchesAlone(r)'
  BY NoOtherFetches
<1>1. CASE RotateKeys
  <2> USE DEF RotateKeys
  <2>1. /\ UNCHANGED <<keys, verifying, token, response, outcome>>
        /\ \A r \in Verifications :
             /\ seen'[r].failed = seen[r].failed
             /\ seen'[r].served => /\ seen[r].served
                                   /\ verifying[r] = "done" \/ token[r].kid # oldest
    BY <1>1 DEF KeysInv, KeysTypeOK
  <2>2. UndecidedYet'
    BY <2>1 DEF KeysApart, UndecidedYet
  <2>3. StillServed'
    <3>1. \A k \in Served : k # oldest => k \in Served'
      BY <1>1 DEF Served
    <3>2. ASSUME NEW r \in Verifications, verifying[r] \in {"look", "fetch", "store", "reread"}, seen'[r].served
          PROVE  token[r].kid \in Served'
      BY <2>1, <3>1, <3>2 DEF KeysApart, StillServed
    <3> QED
      BY <2>1, <3>2 DEF StillServed
  <2>4. \A r \in Verifications \ crossed' : FetchedItsKey(r)' /\ GoodTokenIsAccepted(r)'
    BY <1>0, <2>1 DEF KeysApart, Uncrossed, FetchedItsKey, GoodTokenIsAccepted
  <2> QED
    BY <1>0, <2>2, <2>3, <2>4 DEF KeysApart, Uncrossed
<1>2. CASE KeyTick
  BY <1>0, <1>2 DEF KeyTick, KeysApart, UndecidedYet, StillServed, Served, Uncrossed, FetchedItsKey,
                    GoodTokenIsAccepted
<1>3. ASSUME NEW r \in Verifications, PresentToken(r)
      PROVE  KeysApart'
  <2>1. /\ verifying[r] = "client" /\ verifying'[r] = "look" /\ outcome'[r] = outcome[r]
        /\ seen'[r].served => token'[r].kid \in Served
        /\ UNCHANGED <<oldest, keys>>
        /\ \A o \in Verifications \ {r} :
             /\ verifying'[o] = verifying[o] /\ token'[o] = token[o] /\ response'[o] = response[o]
             /\ outcome'[o] = outcome[o] /\ seen'[o] = seen[o]
    BY <1>3 DEF PresentToken, KeysInv, KeysTypeOK
  <2>2. outcome'[r] = "none"
    BY <2>1 DEF KeysApart, UndecidedYet
  <2>3. FetchedItsKey(r)' /\ GoodTokenIsAccepted(r)'
    BY <2>1, <2>2 DEF FetchedItsKey, GoodTokenIsAccepted
  <2> QED
    BY <1>0, <2>1, <2>2, <2>3, OwnStep
<1>4. ASSUME NEW r \in Verifications, LookUpKey(r) \/ FetchKeys(r) \/ StoreKeys(r)
      PROVE  KeysApart'
  <2>1. /\ verifying[r] \in {"look", "fetch", "store"} /\ UNCHANGED <<oldest, token>>
        /\ keys' = keys \/ verifying[r] = "store"
        /\ verifying'[r] \in {"fetch", "store", "reread", "done"}
        /\ seen'[r].served = seen[r].served /\ seen'[r].failed = seen[r].failed
        /\ \A o \in Verifications \ {r} :
             /\ verifying'[o] = verifying[o] /\ token'[o] = token[o] /\ response'[o] = response[o]
             /\ outcome'[o] = outcome[o] /\ seen'[o] = seen[o]
    BY <1>4 DEF LookUpKey, FetchKeys, StoreKeys, Accept, KeysInv, KeysTypeOK
  <2>2. outcome[r] = "none"
    BY <2>1 DEF KeysApart, UndecidedYet
  <2>3. (verifying'[r] # "done" => outcome'[r] = "none") /\ GoodTokenIsAccepted(r)'
    BY <1>4, <2>1, <2>2 DEF LookUpKey, FetchKeys, StoreKeys, Accept, KeysInv, KeysTypeOK, GoodTokenIsAccepted
  <2>4. r \notin crossed' => FetchedItsKey(r)'
    <3>1. CASE LookUpKey(r)
      BY <3>1 DEF LookUpKey, Accept, KeysInv, KeysTypeOK, FetchedItsKey
    <3>2. CASE FetchKeys(r)
      BY <2>1, <3>2 DEF FetchKeys, KeysInv, KeysTypeOK, KeysApart, StillServed, FetchedItsKey
    <3>3. CASE StoreKeys(r)
      BY <1>0, <2>1, <3>3 DEF StoreKeys, KeysInv, KeysTypeOK, KeysApart, Uncrossed, FetchedItsKey
    <3> QED
      BY <1>4, <3>1, <3>2, <3>3
  <2>5. verifying'[r] \in {"look", "fetch", "store", "reread"} /\ seen'[r].served => token'[r].kid \in Served
    BY <2>1 DEF KeysApart, StillServed
  <2> QED
    BY <1>0, <2>1, <2>3, <2>4, <2>5, OwnStep
<1>5. ASSUME NEW r \in Verifications, FetchFails(r) \/ RereadKey(r)
      PROVE  KeysApart'
  <2>1. /\ verifying[r] \in {"fetch", "reread"} /\ verifying'[r] = "done" /\ UNCHANGED <<oldest, token, keys>>
        /\ \A o \in Verifications \ {r} :
             /\ verifying'[o] = verifying[o] /\ token'[o] = token[o] /\ response'[o] = response[o]
             /\ outcome'[o] = outcome[o] /\ seen'[o] = seen[o]
    BY <1>5 DEF FetchFails, RereadKey, Accept, Refuse, KeysInv, KeysTypeOK
  <2>2. r \notin crossed' => GoodTokenIsAccepted(r)'
    <3>1. CASE FetchFails(r)
      BY <3>1 DEF FetchFails, KeysInv, KeysTypeOK, GoodTokenIsAccepted
    <3>2. CASE RereadKey(r) /\ Accept(r)
      BY <3>2 DEF RereadKey, Accept, KeysInv, KeysTypeOK, GoodTokenIsAccepted
    <3>3. CASE RereadKey(r) /\ token[r].kid \notin keys /\ UNCHANGED seen
      BY <1>0, <2>1, <3>3 DEF RereadKey, KeysApart, Uncrossed, FetchedItsKey, GoodTokenIsAccepted
    <3> QED
      BY <1>5, <3>1, <3>2, <3>3 DEF RereadKey
  <2>3. FetchedItsKey(r)'
    BY <2>1 DEF FetchedItsKey
  <2> QED
    BY <1>0, <2>1, <2>2, <2>3, OwnStep
<1> QED
  BY <1>1, <1>2, <1>3, <1>4, <1>5 DEF KeysNext, VerifyToken

(* A sign-in that meets no other while it refreshes the keys is not turned *)
(* away with a good token whose key is served all along, unless Google     *)
(* could not be asked; and none is let in with a key withdrawn for longer  *)
(* than an hour.                                                           *)
THEOREM GoodTokensAreAccepted == MCSpec => []KeyCacheIsSound
<1>1. MCInit => KeysInv /\ KeysApart
  BY StartOfEach, KeysInitInv, KeysApartInit
<1>2. KeysInv /\ KeysApart /\ [MCNext]_doorVars => KeysInv' /\ KeysApart'
  <2> SUFFICES ASSUME KeysInv, KeysApart, [MCNext]_doorVars
               PROVE  KeysInv' /\ KeysApart'
    OBVIOUS
  <2>1. KeysInv'
    BY StepOfEach, KeysNextInv
  <2>2. CASE KeysStep
    BY <2>1, <2>2, KeysApartStep
  <2>3. CASE UNCHANGED <<keyVars, crossed>>
    BY <2>1, <2>3 DEF keyVars, KeysApart, UndecidedYet, StillServed, Served, Uncrossed, FetchesAlone, Fetching,
                FetchedItsKey, GoodTokenIsAccepted
  <2> QED
    BY <2>1, <2>2, <2>3 DEF MCNext, doorVars, histories, LimitsStep, BillingStep, AccountsStep
<1>3. KeysInv /\ KeysApart => KeyCacheIsSound
  BY DEF KeysInv, KeysApart, Uncrossed, KeyCacheIsSound
<1> QED
  BY <1>1, <1>2, <1>3, PTL DEF MCSpec, doorVars

-----------------------------------------------------------------------------
(***************************************************************************)
(* The types of billing, in full: a call is where its intention takes it,  *)
(* and no handler has run more often than there were calls.                *)
(***************************************************************************)
AtItsIntention ==
  \A c \in BillingCalls : /\ billing[c] = "push" => For(c).op = "push"
                          /\ billing[c] \in {"verify", "save"} => For(c).op = "verify"

Begun == {c \in BillingCalls : billing[c] # "client"}

RunsAreOfCalls == \A k \in Keys : ran[k] <= Cardinality(Begun)

BillingSound == BillingTypeOK /\ AtItsIntention /\ RunsAreOfCalls

BillingPlaces == {"client", "verify", "save", "restore", "push", "malformed", "store", "replied", "died"}

(* What each kind of intention holds. *)
LEMMA IntentionsOfCalls ==
  ASSUME BillingTypeOK, NEW c \in BillingCalls
  PROVE  /\ keyOf[c] \in Keys /\ For(c).user \in Customers
         /\ For(c).op \in {"verify", "restore", "malformed", "push"}
         /\ For(c).op = "verify" => For(c).transaction \in Transactions
         /\ For(c).op = "push" => For(c).device \in Devices /\ For(c).token \in BOOLEAN
<1>1. keyOf[c] \in Keys /\ For(c) \in AllIntents
  BY PurchasesAssumption DEF BillingTypeOK, For
<1>2. ASSUME NEW i \in AllIntents
      PROVE  /\ i.user \in Customers /\ i.op \in {"verify", "restore", "malformed", "push"}
             /\ i.op = "verify" => i.transaction \in Transactions
             /\ i.op = "push" => i.device \in Devices /\ i.token \in BOOLEAN
  BY DEF AllIntents
<1> QED
  BY <1>1, <1>2

LEMMA BegunIsFinite == IsFiniteSet(Begun) /\ Cardinality(Begun) \in 0 .. Cardinality(BillingCalls)
<1>1. IsFiniteSet(BillingCalls) /\ Begun \subseteq BillingCalls
  BY PurchasesAssumption DEF Begun
<1> QED
  BY <1>1, FS_Subset, FS_CardinalityType

LEMMA BillingSoundInit == BillingInit => BillingSound
<1> SUFFICES ASSUME BillingInit
             PROVE  BillingSound
  OBVIOUS
<1>1. AtItsIntention /\ RunsAreOfCalls
  BY BegunIsFinite DEF BillingInit, AtItsIntention, RunsAreOfCalls
<1>2. Cardinality(BillingCalls) \in Nat
  BY PurchasesAssumption, FS_CardinalityType
<1>3. kept \in [Keys -> [reply: Answers, since: 0 .. LastDay]]
  BY PurchasesAssumption DEF BillingInit, Answers, NoAnswer
<1>4. BillingTypeOK
  BY <1>2, <1>3, PurchasesAssumption
     DEF BillingInit, BillingTypeOK, Answers, NoAnswer, FreeTier, NoDevice, Never
<1> QED
  BY <1>1, <1>4 DEF BillingSound

(* A call that moves along, leaving the histories of its key alone. *)
LEMMA PlaceStep ==
  ASSUME BillingSound, NEW c \in BillingCalls, NEW place \in BillingPlaces \ {"client"},
         GoTo(c, place), billing[c] # "client", UNCHANGED <<scenario, ran>>,
         place \notin {"push", "verify"}, place = "save" => For(c).op = "verify"
  PROVE  /\ billing' \in [BillingCalls -> BillingPlaces]
         /\ AtItsIntention' /\ RunsAreOfCalls'
<1>1. \A d \in BillingCalls : billing'[d] = IF d = c THEN place ELSE billing[d]
  BY DEF BillingSound, BillingTypeOK, GoTo
<1>2. billing' \in [BillingCalls -> BillingPlaces]
  BY DEF BillingSound, BillingTypeOK, GoTo, BillingPlaces
<1>3. Begun' = Begun
  BY <1>1 DEF Begun
<1>4. \A d : For(d)' = For(d)
  BY DEF For, scenario
<1> QED
  BY <1>1, <1>2, <1>3, <1>4 DEF BillingSound, AtItsIntention, RunsAreOfCalls

(* A handler that returns. *)
LEMMA ReturnStep ==
  ASSUME BillingSound, NEW c \in BillingCalls, NEW status \in {200, 400, 500}, NEW tier \in Tiers,
         Return(c, status, tier), billing[c] # "client", UNCHANGED <<today, scenario, ran>>
  PROVE  /\ billing' \in [BillingCalls -> BillingPlaces] /\ answer' \in [BillingCalls -> Answers]
         /\ AtItsIntention' /\ RunsAreOfCalls'
<1>1. PICK place \in {"store", "replied"} : GoTo(c, place)
  BY DEF Return
<1>2. billing' \in [BillingCalls -> BillingPlaces] /\ AtItsIntention' /\ RunsAreOfCalls'
  BY <1>1, PlaceStep DEF BillingPlaces
<1>3. [status |-> status, tier |-> tier, on |-> today] \in Answers
  BY DEF BillingSound, BillingTypeOK, Answers, Tiers
<1>4. answer' \in [BillingCalls -> Answers]
  BY <1>3 DEF Return, BillingSound, BillingTypeOK
<1> QED
  BY <1>2, <1>4

LEMMA LookUpReplySound == ASSUME BillingSound, NEW c \in BillingCalls, LookUpReply(c) PROVE BillingSound'
<1> DEFINE k == keyOf[c]
<1>0. k \in Keys /\ For(c).op \in {"verify", "restore", "malformed", "push"}
  BY IntentionsOfCalls DEF BillingSound
<1>1. UNCHANGED <<today, scenario, kept, rows, until, claimed>> /\ billing[c] = "client"
  BY DEF LookUpReply
<1>2. PICK place \in BillingPlaces \ {"client"} :
        GoTo(c, place) /\ (place = "replied" \/ place = For(c).op) /\ place \notin {"save", "store", "died"}
  BY <1>0 DEF LookUpReply, BillingPlaces
<1>3. \A d \in BillingCalls : billing'[d] = IF d = c THEN place ELSE billing[d]
  BY <1>2 DEF BillingSound, BillingTypeOK, GoTo
<1>4. /\ ran' = ran \/ ran' = [ran EXCEPT ![k] = @ + 1]
      /\ answer' \in [BillingCalls -> Answers]
  <2>1. kept[k].reply \in Answers
    BY <1>0 DEF BillingSound, BillingTypeOK
  <2> QED
    BY <2>1 DEF LookUpReply, BillingSound, BillingTypeOK
<1>5. Cardinality(Begun') = Cardinality(Begun) + 1
  <2>1. Begun' = Begun \cup {c} /\ c \notin Begun
    BY <1>1, <1>2, <1>3 DEF Begun
  <2> QED
    BY <2>1, BegunIsFinite, FS_AddElement
<1>6. Cardinality(Begun') \in 0 .. Cardinality(BillingCalls)
  <2>1. IsFiniteSet(BillingCalls) /\ Begun' \subseteq BillingCalls
    BY PurchasesAssumption DEF Begun
  <2> QED
    BY <2>1, FS_Subset, FS_CardinalityType
<1>7. RunsAreOfCalls' /\ ran' \in [Keys -> 0 .. Cardinality(BillingCalls)]
  <2>1. ran \in [Keys -> Nat] /\ Cardinality(Begun) \in Nat /\ Cardinality(BillingCalls) \in Nat
    BY BegunIsFinite, PurchasesAssumption, FS_CardinalityType DEF BillingSound, BillingTypeOK
  <2>2. \A j \in Keys : ran'[j] \in Nat /\ ran'[j] <= Cardinality(Begun) + 1
    BY <1>4, <2>1 DEF BillingSound, RunsAreOfCalls
  <2>3. DOMAIN ran' = Keys /\ ran' = [j \in Keys |-> ran'[j]]
    BY <1>4, <2>1
  <2>4. \A j \in Keys : ran'[j] \in 0 .. Cardinality(BillingCalls)
    BY <1>5, <1>6, <2>1, <2>2
  <2> QED
    BY <1>5, <2>2, <2>3, <2>4 DEF RunsAreOfCalls
<1>8. AtItsIntention'
  BY <1>1, <1>2, <1>3 DEF BillingSound, AtItsIntention, For, scenario
<1>9. BillingTypeOK'
  <2>1. billing' \in [BillingCalls -> BillingPlaces]
    BY <1>2 DEF BillingSound, BillingTypeOK, GoTo, BillingPlaces
  <2> QED
    BY <1>1, <1>4, <1>7, <2>1 DEF BillingSound, BillingTypeOK, BillingPlaces, scenario, rows
<1> QED
  BY <1>7, <1>8, <1>9 DEF BillingSound

LEMMA RecordSound == ASSUME BillingSound, NEW c \in BillingCalls, RecordPurchase(c) PROVE BillingSound'
<1> DEFINE t == For(c).transaction
           u == For(c).user
<1>1. u \in Customers /\ For(c).op = "verify" /\ t \in Transactions
  BY IntentionsOfCalls DEF BillingSound, AtItsIntention, RecordPurchase
<1>2. GoTo(c, "save") /\ billing[c] = "verify"
      /\ UNCHANGED <<today, scenario, kept, entitlement, devices, answer, ran>>
  BY DEF RecordPurchase
<1>3. billing' \in [BillingCalls -> BillingPlaces] /\ AtItsIntention' /\ RunsAreOfCalls'
  BY <1>1, <1>2, PlaceStep DEF BillingPlaces
<1>4. purchases' \in [Transactions -> Customers \cup {"nobody"}]
  BY <1>1 DEF RecordPurchase, BillingSound, BillingTypeOK
<1>5. until' \in [BillingCalls -> 0 .. Never]
  <2>1. TermFrom(today) \in 0 .. Never
    BY PurchasesAssumption DEF TermFrom, Never, BillingSound, BillingTypeOK
  <2> QED
    BY <2>1 DEF RecordPurchase, BillingSound, BillingTypeOK
<1>6. claimed' \in [Customers -> SUBSET (0 .. LastDay)]
  BY <1>1 DEF RecordPurchase, BillingSound, BillingTypeOK
<1>7. BillingTypeOK'
  BY <1>2, <1>3, <1>4, <1>5, <1>6 DEF BillingSound, BillingTypeOK, BillingPlaces, scenario
<1> QED
  BY <1>3, <1>7 DEF BillingSound

LEMMA SaveSound == ASSUME BillingSound, NEW c \in BillingCalls, SaveEntitlement(c) PROVE BillingSound'
<1>1. UNCHANGED <<today, scenario, kept, purchases, devices, until, ran, claimed>> /\ billing[c] = "save"
  BY DEF SaveEntitlement
<1>2. /\ billing' \in [BillingCalls -> BillingPlaces] /\ answer' \in [BillingCalls -> Answers]
      /\ AtItsIntention' /\ RunsAreOfCalls'
      /\ entitlement' \in [Customers -> [tier: {"free", "premium"}, ends: 0 .. Never]]
  <2>1. CASE /\ entitlement' = [entitlement EXCEPT ![For(c).user] =
                                 [tier |-> "premium", ends |-> until[c]]]
             /\ GoTo(c, "restore") /\ UNCHANGED answer
    <3>1. billing' \in [BillingCalls -> BillingPlaces] /\ AtItsIntention' /\ RunsAreOfCalls'
      BY <1>1, <2>1, PlaceStep DEF BillingPlaces
    <3>2. [tier |-> "premium", ends |-> until[c]] \in [tier: {"free", "premium"}, ends: 0 .. Never]
      BY DEF BillingSound, BillingTypeOK
    <3> QED
      BY <2>1, <3>1, <3>2 DEF BillingSound, BillingTypeOK
  <2>2. CASE Return(c, 400, "free") /\ UNCHANGED entitlement
    <3>1. /\ billing' \in [BillingCalls -> BillingPlaces] /\ answer' \in [BillingCalls -> Answers]
          /\ AtItsIntention' /\ RunsAreOfCalls'
      BY <1>1, <2>2, ReturnStep DEF Tiers
    <3> QED
      BY <2>2, <3>1 DEF BillingSound, BillingTypeOK
  <2> QED
    BY <2>1, <2>2 DEF SaveEntitlement
<1>3. BillingTypeOK'
  BY <1>1, <1>2 DEF BillingSound, BillingTypeOK, BillingPlaces, scenario
<1> QED
  BY <1>2, <1>3 DEF BillingSound

(* The handlers that only read, and the one that refuses. *)
LEMMA ReadSound ==
  ASSUME BillingSound, NEW c \in BillingCalls, GetEntitlement(c) \/ RefuseMalformed(c)
  PROVE  BillingSound'
<1>1. UNCHANGED <<today, scenario, kept, rows, until, ran, claimed>> /\ billing[c] # "client"
  BY DEF GetEntitlement, RefuseMalformed
<1>2. PICK status \in {200, 400, 500}, tier \in Tiers : Return(c, status, tier)
  <2>1. For(c).user \in Customers
    BY IntentionsOfCalls DEF BillingSound
  <2>2. TierOf(entitlement[For(c).user]) \in Tiers
    BY <2>1 DEF TierOf, Tiers, BillingSound, BillingTypeOK
  <2>3. CASE RefuseMalformed(c)
    BY <2>3 DEF RefuseMalformed, Tiers
  <2>4. CASE Return(c, 200, TierOf(entitlement[For(c).user]))
    BY <2>2, <2>4
  <2>5. CASE Return(c, IF For(c).op = "verify" THEN 400 ELSE 500, "free")
    BY <2>5 DEF Tiers
  <2> QED
    BY <2>3, <2>4, <2>5 DEF GetEntitlement
<1>3. /\ billing' \in [BillingCalls -> BillingPlaces] /\ answer' \in [BillingCalls -> Answers]
      /\ AtItsIntention' /\ RunsAreOfCalls'
  BY <1>1, <1>2, ReturnStep
<1>4. BillingTypeOK'
  BY <1>1, <1>3 DEF BillingSound, BillingTypeOK, BillingPlaces, scenario, rows
<1> QED
  BY <1>3, <1>4 DEF BillingSound

LEMMA TokenGone ==
  ASSUME NEW S, NEW row \in [user: S, token: BOOLEAN]
  PROVE  [row EXCEPT !.token = FALSE] \in [user: S, token: BOOLEAN]
OBVIOUS

LEMMA PushSound == ASSUME BillingSound, NEW c \in BillingCalls, RegisterPushToken(c) PROVE BillingSound'
<1>1. UNCHANGED <<today, scenario, kept, purchases, entitlement, until, ran, claimed>> /\ billing[c] = "push"
  BY DEF RegisterPushToken
<1>2. PICK status \in {200, 400, 500}, tier \in Tiers : Return(c, status, tier)
  BY DEF RegisterPushToken, Tiers
<1>3. /\ billing' \in [BillingCalls -> BillingPlaces] /\ answer' \in [BillingCalls -> Answers]
      /\ AtItsIntention' /\ RunsAreOfCalls'
  BY <1>1, <1>2, ReturnStep
<1>4. devices' \in [Devices -> [user: Customers \cup {"nobody"}, token: BOOLEAN]]
  <2>1. For(c).user \in Customers /\ For(c).device \in Devices
    BY <1>1, IntentionsOfCalls DEF BillingSound, AtItsIntention
  <2>2. [user |-> For(c).user, token |-> TRUE] \in [user: Customers \cup {"nobody"}, token: BOOLEAN]
    BY <2>1
  <2>3. [devices[For(c).device] EXCEPT !.token = FALSE] \in [user: Customers \cup {"nobody"}, token: BOOLEAN]
    <3>1. devices[For(c).device] \in [user: Customers \cup {"nobody"}, token: BOOLEAN]
      BY <2>1 DEF BillingSound, BillingTypeOK
    <3> QED
      BY <3>1, TokenGone
  <2>4. PICK row \in [user: Customers \cup {"nobody"}, token: BOOLEAN] :
          devices' = devices \/ devices' = [devices EXCEPT ![For(c).device] = row]
    BY <2>2, <2>3 DEF RegisterPushToken
  <2> QED
    BY <2>4 DEF BillingSound, BillingTypeOK
<1>5. BillingTypeOK'
  BY <1>1, <1>3, <1>4 DEF BillingSound, BillingTypeOK, BillingPlaces, scenario
<1> QED
  BY <1>3, <1>5 DEF BillingSound

LEMMA StoreSound == ASSUME BillingSound, NEW c \in BillingCalls, StoreReply(c) PROVE BillingSound'
<1>1. UNCHANGED <<today, scenario, rows, until, answer, ran, claimed>>
      /\ billing[c] = "store" /\ GoTo(c, "replied")
  BY DEF StoreReply
<1>2. billing' \in [BillingCalls -> BillingPlaces] /\ AtItsIntention' /\ RunsAreOfCalls'
  BY <1>1, PlaceStep DEF BillingPlaces
<1>3. kept' \in [Keys -> [reply: Answers, since: 0 .. LastDay]]
  <2>1. [reply |-> answer[c], since |-> today] \in [reply: Answers, since: 0 .. LastDay]
    BY DEF BillingSound, BillingTypeOK
  <2> QED
    BY <2>1 DEF StoreReply, BillingSound, BillingTypeOK
<1>4. BillingTypeOK'
  BY <1>1, <1>2, <1>3 DEF BillingSound, BillingTypeOK, BillingPlaces, scenario, rows
<1> QED
  BY <1>2, <1>4 DEF BillingSound

LEMMA CrashSound == ASSUME BillingSound, NEW c \in BillingCalls, CrashBilling(c) PROVE BillingSound'
<1>1. UNCHANGED <<today, scenario, kept, rows, until, ran, claimed>>
      /\ billing[c] # "client" /\ GoTo(c, "died")
  BY DEF CrashBilling
<1>2. billing' \in [BillingCalls -> BillingPlaces] /\ AtItsIntention' /\ RunsAreOfCalls'
  BY <1>1, PlaceStep DEF BillingPlaces
<1>3. answer' \in [BillingCalls -> Answers]
  <2>1. NoAnswer \in Answers
    BY PurchasesAssumption DEF NoAnswer, Answers
  <2> QED
    BY <2>1 DEF CrashBilling, BillingSound, BillingTypeOK
<1>4. BillingTypeOK'
  BY <1>1, <1>2, <1>3 DEF BillingSound, BillingTypeOK, BillingPlaces, scenario, rows
<1> QED
  BY <1>2, <1>4 DEF BillingSound

LEMMA BillingSoundNext == BillingSound /\ [BillingNext]_billingVars => BillingSound'
<1> SUFFICES ASSUME BillingSound, [BillingNext]_billingVars
             PROVE  BillingSound'
  OBVIOUS
<1>1. CASE NextBillingDay
  <2>1. today' \in 0 .. LastDay
    BY <1>1, PurchasesAssumption DEF NextBillingDay, BillingSound, BillingTypeOK
  <2>2. BillingTypeOK'
    BY <1>1, <2>1 DEF NextBillingDay, BillingSound, BillingTypeOK, scenario, rows
  <2>3. AtItsIntention' /\ RunsAreOfCalls'
    BY <1>1 DEF NextBillingDay, BillingSound, AtItsIntention, RunsAreOfCalls, Begun, For, scenario
  <2> QED
    BY <2>2, <2>3 DEF BillingSound
<1>2. CASE \E c \in BillingCalls : ServeBilling(c)
  BY <1>2, LookUpReplySound, StoreSound, RecordSound, SaveSound, ReadSound, PushSound, CrashSound
     DEF ServeBilling
<1>3. CASE UNCHANGED billingVars
  BY <1>3 DEF billingVars, scenario, rows, BillingSound, BillingTypeOK, AtItsIntention, RunsAreOfCalls,
              Begun, For
<1> QED
  BY <1>1, <1>2, <1>3 DEF BillingNext

(* Billing keeps its types: a row is of a customer who is known, no term   *)
(* ends later than the calendar allows, and no handler runs more often     *)
(* than calls arrived, whatever fails and whoever retries.                 *)
THEOREM BillingTypeCorrect == BillingSpec => []BillingTypeOK
<1>1. BillingSound => BillingTypeOK
  BY DEF BillingSound
<1> QED
  BY <1>1, BillingSoundInit, BillingSoundNext, PTL DEF BillingSpec

-----------------------------------------------------------------------------
(***************************************************************************)
(* A term that was promised stands: until a midnight falls between a       *)
(* verification and its save, a term is saved on the day it was reckoned   *)
(* from, so that no row's end is ever set back.                            *)
(***************************************************************************)
Unanswered == \A c \in BillingCalls : billing[c] \notin {"store", "replied"} => answer[c].status = 0
Unreckoned == \A c \in BillingCalls : billing[c] = "client" => until[c] = 0

TermsInStep ==
  \A c \in BillingCalls : /\ until[c] <= today + Term
                          /\ billing[c] = "save" => until[c] = today + Term

TermsStand ==
  \A c \in BillingCalls :
    For(c).op = "verify" /\ (billing[c] = "restore" \/ answer[c].status = 200) =>
      entitlement[For(c).user].ends >= until[c]

TermsApart ==
  /\ straddled \in BOOLEAN /\ Unanswered /\ Unreckoned
  /\ straddled \/ (TermsInStep /\ TermsStand)

LEMMA TermsApartInit == MCInit => TermsApart
<1> SUFFICES ASSUME MCInit
             PROVE  TermsApart
  OBVIOUS
<1>1. BillingInit
  BY DEF MCInit
<1>2. Unanswered /\ Unreckoned
  BY <1>1 DEF BillingInit, Unanswered, Unreckoned, NoAnswer
<1>3. TermsInStep /\ TermsStand
  BY <1>1, PurchasesAssumption DEF BillingInit, TermsInStep, TermsStand, NoAnswer
<1> QED
  BY <1>2, <1>3 DEF MCInit, TermsApart

(* A step of a call that neither reckons nor saves a term. *)
LEMMA TermsUntouched ==
  ASSUME BillingSound, TermsApart, NEW c \in BillingCalls, NEW place \in BillingPlaces \ {"client", "save"},
         GoTo(c, place), UNCHANGED <<today, scenario, entitlement, until, straddled>>,
         \A d \in BillingCalls \ {c} : answer'[d] = answer[d],
         place \notin {"store", "replied"} => answer'[c].status = 0,
         For(c).op = "verify" /\ (place = "restore" \/ answer'[c].status = 200) =>
           billing[c] \in {"client", "restore"} \/ answer[c].status = 200
  PROVE  TermsApart'
<1>1. \A d \in BillingCalls : billing'[d] = IF d = c THEN place ELSE billing[d]
  BY DEF BillingSound, BillingTypeOK, GoTo
<1>2. Unanswered' /\ Unreckoned'
  BY <1>1 DEF TermsApart, Unanswered, Unreckoned
<1>3. \A d : For(d)' = For(d)
  BY DEF For, scenario
<1>4. TermsInStep => TermsInStep'
  BY <1>1 DEF TermsInStep
<1>5. TermsStand => TermsStand'
  <2> SUFFICES ASSUME TermsStand, NEW d \in BillingCalls, For(d).op = "verify",
                      billing'[d] = "restore" \/ answer'[d].status = 200
               PROVE  entitlement[For(d).user].ends >= until[d]
    BY <1>3 DEF TermsStand
  <2>1. CASE billing[d] = "restore" \/ answer[d].status = 200
    BY <2>1 DEF TermsStand
  <2>2. CASE d = c /\ billing[c] = "client"
    <3>1. until[d] = 0
      BY <2>2 DEF TermsApart, Unreckoned
    <3>2. For(d).user \in Customers
      BY IntentionsOfCalls DEF BillingSound
    <3> QED
      BY <3>1, <3>2 DEF BillingSound, BillingTypeOK
  <2> QED
    BY <1>1, <2>1, <2>2
<1> QED
  BY <1>2, <1>4, <1>5 DEF TermsApart

(* A handler that neither reckons nor saves a term returns. *)
LEMMA TermsReturn ==
  ASSUME BillingSound, TermsApart, NEW c \in BillingCalls, NEW status, NEW tier,
         Return(c, status, tier), UNCHANGED <<today, scenario, entitlement, until, straddled>>,
         For(c).op = "verify" /\ status = 200 => billing[c] = "restore"
  PROVE  TermsApart'
<1>1. PICK place \in {"store", "replied"} : GoTo(c, place)
  BY DEF Return
<1>2. /\ answer'[c].status = status
      /\ \A d \in BillingCalls \ {c} : answer'[d] = answer[d]
  BY DEF Return, BillingSound, BillingTypeOK
<1> QED
  BY <1>1, <1>2, TermsUntouched DEF BillingPlaces

LEMMA TermsLookUp ==
  ASSUME BillingSound, TermsApart, NEW c \in BillingCalls, LookUpReply(c), UNCHANGED straddled
  PROVE  TermsApart'
<1>0. For(c).op \in {"verify", "restore", "malformed", "push"}
  BY IntentionsOfCalls DEF BillingSound
<1>1. UNCHANGED <<today, scenario, entitlement, until>> /\ billing[c] = "client"
  BY DEF LookUpReply, rows
<1>2. CASE answer' = [answer EXCEPT ![c] = kept[keyOf[c]].reply] /\ GoTo(c, "replied")
  <2>1. \A d \in BillingCalls \ {c} : answer'[d] = answer[d]
    BY <1>2 DEF BillingSound, BillingTypeOK
  <2> QED
    BY <1>1, <1>2, <2>1, TermsUntouched DEF BillingPlaces
<1>3. CASE GoTo(c, For(c).op) /\ UNCHANGED answer
  <2>1. answer'[c].status = 0
    BY <1>1, <1>3 DEF TermsApart, Unanswered
  <2> QED
    BY <1>0, <1>1, <1>3, <2>1, TermsUntouched DEF BillingPlaces
<1> QED
  BY <1>2, <1>3 DEF LookUpReply

LEMMA TermsRecord ==
  ASSUME BillingSound, TermsApart, NEW c \in BillingCalls, RecordPurchase(c), UNCHANGED straddled
  PROVE  TermsApart'
<1>1. /\ billing[c] = "verify" /\ UNCHANGED <<today, scenario, entitlement, answer>>
      /\ \A d \in BillingCalls : /\ billing'[d] = IF d = c THEN "save" ELSE billing[d]
                                 /\ until'[d] = IF d = c THEN today + Term ELSE until[d]
  BY DEF RecordPurchase, GoTo, TermFrom, BillingSound, BillingTypeOK
<1>2. Unanswered' /\ Unreckoned'
  BY <1>1 DEF TermsApart, Unanswered, Unreckoned
<1>3. TermsInStep => TermsInStep'
  BY <1>1, PurchasesAssumption DEF TermsInStep, BillingSound, BillingTypeOK
<1>4. TermsStand => TermsStand'
  <2>1. answer[c].status = 0
    BY <1>1 DEF TermsApart, Unanswered
  <2> QED
    BY <1>1, <2>1 DEF TermsStand, For, scenario
<1> QED
  BY <1>2, <1>3, <1>4 DEF TermsApart

LEMMA TermsSave ==
  ASSUME BillingSound, TermsApart, NEW c \in BillingCalls, SaveEntitlement(c), UNCHANGED straddled
  PROVE  TermsApart'
<1>1. billing[c] = "save" /\ UNCHANGED <<today, scenario, until>>
  BY DEF SaveEntitlement
<1>2. CASE Return(c, 400, "free") /\ UNCHANGED entitlement
  BY <1>1, <1>2, TermsReturn
<1>3. CASE /\ entitlement' = [entitlement EXCEPT ![For(c).user] = [tier |-> "premium", ends |-> until[c]]]
           /\ GoTo(c, "restore") /\ UNCHANGED answer
  <2>1. /\ \A d \in BillingCalls : billing'[d] = IF d = c THEN "restore" ELSE billing[d]
        /\ \A u \in Customers : entitlement'[u].ends = IF u = For(c).user THEN until[c] ELSE entitlement[u].ends
    BY <1>3 DEF GoTo, BillingSound, BillingTypeOK
  <2>2. Unanswered' /\ Unreckoned'
    BY <1>1, <1>3, <2>1 DEF TermsApart, Unanswered, Unreckoned
  <2>3. TermsInStep => TermsInStep'
    BY <1>1, <2>1 DEF TermsInStep
  <2>4. TermsInStep /\ TermsStand => TermsStand'
    <3> SUFFICES ASSUME TermsInStep, TermsStand, NEW d \in BillingCalls, For(d).op = "verify",
                        billing'[d] = "restore" \/ answer[d].status = 200
                 PROVE  entitlement'[For(d).user].ends >= until[d]
      BY <1>1, <1>3 DEF TermsStand, For, scenario
    <3>1. For(d).user \in Customers /\ until[d] \in Nat /\ today + Term \in Nat
      BY IntentionsOfCalls, PurchasesAssumption DEF BillingSound, BillingTypeOK, Never
    <3>2. until[c] = today + Term /\ until[d] <= today + Term
      BY <1>1 DEF TermsInStep
    <3>3. CASE For(d).user = For(c).user
      BY <2>1, <3>1, <3>2, <3>3
    <3>4. CASE For(d).user # For(c).user
      <4>1. d # c /\ billing[d] = billing'[d]
        BY <2>1, <3>4
      <4> QED
        BY <2>1, <3>1, <3>4, <4>1 DEF TermsStand
    <3> QED
      BY <3>3, <3>4
  <2> QED
    BY <1>3, <2>2, <2>3, <2>4 DEF TermsApart
<1> QED
  BY <1>2, <1>3 DEF SaveEntitlement

LEMMA TermsDay ==
  ASSUME BillingSound, TermsApart, NextBillingDay,
         straddled' = (straddled \/ \E c \in BillingCalls : billing[c] = "save")
  PROVE  TermsApart'
<1>1. today \in Nat /\ today' = today + 1 /\ UNCHANGED <<scenario, entitlement, billing, until, answer>>
  BY DEF NextBillingDay, rows, BillingSound, BillingTypeOK
<1>2. Unanswered' /\ Unreckoned'
  BY <1>1 DEF TermsApart, Unanswered, Unreckoned
<1>3. TermsStand => TermsStand'
  BY <1>1 DEF TermsStand, For, scenario
<1>4. TermsInStep /\ ~ straddled' => TermsInStep'
  <2> SUFFICES ASSUME TermsInStep, ~ straddled', NEW c \in BillingCalls
               PROVE  until[c] <= today' + Term /\ billing[c] # "save"
    BY <1>1 DEF TermsInStep
  <2>1. until[c] \in Nat /\ Term \in Nat /\ until[c] <= today + Term
    BY PurchasesAssumption DEF TermsInStep, BillingSound, BillingTypeOK, Never
  <2>2. until[c] <= today' + Term
    BY <1>1, <2>1
  <2>3. ~ straddled /\ ~ \E d \in BillingCalls : billing[d] = "save"
    OBVIOUS
  <2> QED
    BY <2>2, <2>3
<1>5. straddled' \in BOOLEAN
  OBVIOUS
<1> QED
  BY <1>2, <1>3, <1>4, <1>5 DEF TermsApart

LEMMA TermsServe ==
  ASSUME BillingSound, TermsApart, NEW c \in BillingCalls, ServeBilling(c), UNCHANGED straddled
  PROVE  TermsApart'
<1>1. CASE StoreReply(c)
  BY <1>1, TermsUntouched DEF StoreReply, rows, BillingPlaces
<1>2. CASE RefuseMalformed(c)
  BY <1>2, TermsReturn DEF RefuseMalformed, rows
<1>3. CASE GetEntitlement(c)
  <2>1. PICK status, tier : Return(c, status, tier)
    BY <1>3 DEF GetEntitlement
  <2> QED
    BY <1>3, <2>1, TermsReturn DEF GetEntitlement, rows
<1>4. CASE RegisterPushToken(c)
  <2>1. PICK status, tier : Return(c, status, tier)
    BY <1>4 DEF RegisterPushToken
  <2>2. For(c).op = "push"
    BY <1>4 DEF RegisterPushToken, BillingSound, AtItsIntention
  <2> QED
    BY <1>4, <2>1, <2>2, TermsReturn DEF RegisterPushToken
<1>5. CASE CrashBilling(c)
  <2>1. /\ answer'[c].status = 0
        /\ \A d \in BillingCalls \ {c} : answer'[d] = answer[d]
    BY <1>5 DEF CrashBilling, NoAnswer, BillingSound, BillingTypeOK
  <2> QED
    BY <1>5, <2>1, TermsUntouched DEF CrashBilling, rows, BillingPlaces
<1> QED
  BY <1>1, <1>2, <1>3, <1>4, <1>5, TermsLookUp, TermsRecord, TermsSave DEF ServeBilling

LEMMA TermsApartStep == ASSUME BillingSound, TermsApart, BillingStep PROVE TermsApart'
<1>1. straddled' = (straddled \/ (today' > today /\ \E c \in BillingCalls : billing[c] = "save"))
  BY DEF BillingStep
<1>2. CASE NextBillingDay
  <2>1. today' > today
    BY <1>2 DEF NextBillingDay, BillingSound, BillingTypeOK
  <2> QED
    BY <1>1, <1>2, <2>1, TermsDay
<1>3. ASSUME NEW c \in BillingCalls, ServeBilling(c)
      PROVE  TermsApart'
  <2>1. today' = today
    BY <1>3 DEF ServeBilling, LookUpReply, StoreReply, RefuseMalformed, RecordPurchase, SaveEntitlement,
                GetEntitlement, RegisterPushToken, CrashBilling
  <2>2. ~ (today' > today) /\ straddled \in BOOLEAN
    BY <2>1 DEF BillingSound, BillingTypeOK, TermsApart
  <2>3. straddled' = straddled
    BY <1>1, <2>2
  <2> QED
    BY <1>3, <2>3, TermsServe
<1> QED
  BY <1>2, <1>3 DEF BillingStep, BillingNext

(* Premium runs out a term after the learner last asked for it, and a term *)
(* that he was told is not cut short by a retry or by another request,     *)
(* unless a midnight falls between the two writes of one.                  *)
THEOREM TermsAreKept == MCSpec => []TermsRunAndEnd
<1>1. MCInit => BillingInv /\ BillingSound /\ TermsApart
  BY StartOfEach, BillingInitInv, BillingSoundInit, TermsApartInit
<1>2. BillingInv /\ BillingSound /\ TermsApart /\ [MCNext]_doorVars =>
        BillingInv' /\ BillingSound' /\ TermsApart'
  <2> SUFFICES ASSUME BillingInv, BillingSound, TermsApart, [MCNext]_doorVars
               PROVE  BillingInv' /\ BillingSound' /\ TermsApart'
    OBVIOUS
  <2>1. BillingInv' /\ BillingSound'
    BY StepOfEach, BillingNextInv, BillingSoundNext
  <2>2. TermsApart'
    <3>1. CASE BillingStep
      BY <3>1, TermsApartStep
    <3>2. CASE UNCHANGED <<billingVars, straddled>>
      BY <3>2 DEF billingVars, scenario, rows, TermsApart, Unanswered, Unreckoned, TermsInStep, TermsStand, For
    <3> QED
      BY <3>1, <3>2 DEF MCNext, doorVars, histories, LimitsStep, KeysStep, AccountsStep
  <2> QED
    BY <2>1, <2>2
<1>3. BillingInv /\ BillingSound /\ TermsApart => TermsRunAndEnd
  <2> SUFFICES ASSUME BillingInv, BillingSound, TermsApart
               PROVE  TermsRunAndEnd
    OBVIOUS
  <2>1. PremiumRunsOut
    BY RunsOutFromInv
  <2>2. TermsStand => TermIsKept
    BY DEF TermsStand, TermIsKept
  <2> QED
    BY <2>1, <2>2 DEF TermsApart, TermsRunAndEnd
<1> QED
  BY <1>1, <1>2, <1>3, PTL DEF MCSpec, doorVars

-----------------------------------------------------------------------------
(***************************************************************************)
(* A key's handler runs once.  While nothing disturbs it a key is fresh,   *)
(* or one call of it is under way and the others have not been sent, or    *)
(* its reply is kept and is what every answered call of it was told.       *)
(***************************************************************************)
CallsOf(k) == {c \in BillingCalls : keyOf[c] = k}
Sent(c)    == billing[c] # "client"

FreshKey(k) == ran[k] = 0 /\ kept[k].reply = NoAnswer /\ \A c \in CallsOf(k) : ~ Sent(c)

RunningKey(k) ==
  /\ ran[k] = 1 /\ kept[k].reply = NoAnswer
  /\ \E c \in CallsOf(k) : Under(c) /\ \A d \in CallsOf(k) \ {c} : ~ Sent(d)

Told(c, reply) ==
  billing[c] = "replied" /\ answer[c].status = reply.status /\ answer[c].tier = reply.tier

SettledKey(k) == ran[k] = 1 /\ Finds(k) /\ \A c \in CallsOf(k) : Sent(c) => Told(c, kept[k].reply)

Orderly(k) == FreshKey(k) \/ RunningKey(k) \/ SettledKey(k)

StoresAnAnswer == \A c \in BillingCalls : billing[c] = "store" => answer[c].status # 0

KeysAreOrderly == NoKey \in disturbed /\ StoresAnAnswer /\ \A k \in Keys \ disturbed : Orderly(k)

LEMMA KeysOrderlyInit == MCInit => KeysAreOrderly
<1> SUFFICES ASSUME MCInit
             PROVE  KeysAreOrderly
  OBVIOUS
<1>1. BillingInit /\ disturbed = {NoKey}
  BY DEF MCInit
<1>2. StoresAnAnswer
  BY <1>1 DEF BillingInit, StoresAnAnswer
<1>3. \A k \in Keys : FreshKey(k)
  BY <1>1 DEF BillingInit, FreshKey, CallsOf, Sent
<1> QED
  BY <1>1, <1>2, <1>3 DEF KeysAreOrderly, Orderly

(* A step of none of a key's calls. *)
LEMMA OrderElsewhere ==
  ASSUME BillingSound, NEW k \in Keys, Orderly(k), UNCHANGED scenario,
         kept'[k] = kept[k], ran'[k] = ran[k],
         \A c \in CallsOf(k) : billing'[c] = billing[c] /\ answer'[c] = answer[c],
         today' = today \/ ~ (kept[k].reply # NoAnswer /\ today' >= kept[k].since + Kept),
         today' \in Nat
  PROVE  Orderly(k)'
<1>1. CallsOf(k)' = CallsOf(k)
  BY DEF CallsOf, scenario
<1>2. FreshKey(k) => FreshKey(k)'
  BY <1>1 DEF FreshKey, Sent
<1>3. RunningKey(k) => RunningKey(k)'
  BY <1>1 DEF RunningKey, Sent, Under
<1>4. Finds(k) => Finds(k)'
  BY PurchasesAssumption DEF Finds, BillingSound, BillingTypeOK
<1>5. SettledKey(k) => SettledKey(k)'
  BY <1>1, <1>4 DEF SettledKey, Sent, Told
<1> QED
  BY <1>2, <1>3, <1>5 DEF Orderly

(* What the steps of a call have in common. *)
LEMMA StepsOfACall ==
  ASSUME BillingSound, NEW c \in BillingCalls, ServeBilling(c)
  PROVE  /\ UNCHANGED <<today, scenario>>
         /\ \A d \in BillingCalls \ {c} : billing'[d] = billing[d] /\ answer'[d] = answer[d]
         /\ \A k \in Keys \ {keyOf[c]} : kept'[k] = kept[k] /\ ran'[k] = ran[k]
         /\ billing[c] \notin {"replied", "died"}
<1> USE DEF ServeBilling, LookUpReply, StoreReply, RefuseMalformed, RecordPurchase, SaveEntitlement,
            GetEntitlement, RegisterPushToken, CrashBilling
<1>1. UNCHANGED <<today, scenario>> /\ billing[c] \notin {"replied", "died"}
  OBVIOUS
<1>2. \A d \in BillingCalls \ {c} : billing'[d] = billing[d]
  BY DEF GoTo, Return, BillingSound, BillingTypeOK
<1>3. \A d \in BillingCalls \ {c} : answer'[d] = answer[d]
  BY DEF Return, BillingSound, BillingTypeOK
<1>4. \A k \in Keys \ {keyOf[c]} : kept'[k] = kept[k]
  BY DEF rows, BillingSound, BillingTypeOK
<1>5. \A k \in Keys \ {keyOf[c]} : ran'[k] = ran[k]
  BY DEF BillingSound, BillingTypeOK
<1> QED
  BY <1>1, <1>2, <1>3, <1>4, <1>5

LEMMA StoresStep ==
  ASSUME BillingSound, StoresAnAnswer, BillingNext
  PROVE  StoresAnAnswer'
<1>1. CASE NextBillingDay
  BY <1>1 DEF NextBillingDay, StoresAnAnswer
<1>2. ASSUME NEW c \in BillingCalls, ServeBilling(c)
      PROVE  StoresAnAnswer'
  <2>1. billing'[c] = "store" => answer'[c].status # 0
    <3>1. For(c).op # "store"
      BY IntentionsOfCalls DEF BillingSound
    <3>2. CASE LookUpReply(c)
      BY <3>1, <3>2 DEF LookUpReply, GoTo, BillingSound, BillingTypeOK
    <3>3. CASE StoreReply(c) \/ RecordPurchase(c) \/ CrashBilling(c)
      BY <3>3 DEF StoreReply, RecordPurchase, CrashBilling, GoTo, BillingSound, BillingTypeOK
    <3>4. ASSUME NEW status \in {200, 400, 500}, NEW tier, Return(c, status, tier)
          PROVE  answer'[c].status # 0
      BY <3>4 DEF Return, BillingSound, BillingTypeOK
    <3>5. CASE RefuseMalformed(c) \/ GetEntitlement(c) \/ RegisterPushToken(c)
      BY <3>4, <3>5 DEF RefuseMalformed, GetEntitlement, RegisterPushToken
    <3>6. CASE SaveEntitlement(c)
      BY <3>4, <3>6 DEF SaveEntitlement, GoTo, BillingSound, BillingTypeOK
    <3> QED
      BY <1>2, <3>2, <3>3, <3>5, <3>6 DEF ServeBilling
  <2> QED
    BY <1>2, <2>1, StepsOfACall DEF StoresAnAnswer
<1> QED
  BY <1>1, <1>2 DEF BillingNext

(* The look-up of a call of the key. *)
LEMMA OrderlyLookUp ==
  ASSUME BillingSound, NEW c \in BillingCalls, LookUpReply(c), ServeBilling(c), Orderly(keyOf[c]),
         ~ Disturbs(keyOf[c])
  PROVE  Orderly(keyOf[c])'
<1> DEFINE k == keyOf[c]
<1>0. k \in Keys /\ For(c).op \in {"verify", "restore", "malformed", "push"}
  BY IntentionsOfCalls DEF BillingSound
<1>1. /\ billing[c] = "client" /\ UNCHANGED <<today, scenario, kept>> /\ c \in CallsOf(k)
      /\ \A d \in BillingCalls \ {c} : billing'[d] = billing[d] /\ answer'[d] = answer[d]
  BY StepsOfACall DEF LookUpReply, CallsOf
<1>2. CallsOf(k)' = CallsOf(k) /\ k' = k /\ CallsOf(k) \subseteq BillingCalls
  BY <1>1 DEF CallsOf, scenario
<1>3. CASE Finds(k) /\ answer' = [answer EXCEPT ![c] = kept[k].reply] /\ GoTo(c, "replied") /\ UNCHANGED ran
  <2>1. SettledKey(k)
    BY <1>3 DEF Orderly, FreshKey, RunningKey, Finds
  <2>2. Told(c, kept[k].reply)'
    <3>1. answer'[c] = kept[k].reply /\ billing'[c] = "replied" /\ UNCHANGED <<kept, keyOf>>
      BY <1>1, <1>3 DEF GoTo, scenario, BillingSound, BillingTypeOK
    <3> QED
      BY <3>1 DEF Told
  <2>3. ASSUME NEW d \in CallsOf(k) \ {c}, Sent(d)'
        PROVE  Told(d, kept[k].reply)'
    BY <1>1, <1>2, <2>1, <2>3 DEF SettledKey, Sent, Told
  <2>4. Finds(k)' /\ ran'[k] = 1
    BY <1>1, <1>2, <1>3, <2>1 DEF Finds, SettledKey
  <2> QED
    BY <1>2, <2>2, <2>3, <2>4 DEF SettledKey, Orderly
<1>4. CASE ran' = [ran EXCEPT ![k] = @ + 1] /\ GoTo(c, For(c).op)
  <2>1. ran'[k] = ran[k] + 1 /\ ran[k] \in Nat /\ Under(c)'
    BY <1>0, <1>4, PurchasesAssumption, FS_CardinalityType DEF GoTo, Under, BillingSound, BillingTypeOK
  <2>2. ~ Finds(k)
    BY <2>1 DEF Disturbs
  <2>3. ~ RunningKey(k)
    <3>1. SUFFICES ASSUME NEW d \in CallsOf(k), Under(d)
                   PROVE  FALSE
      BY DEF RunningKey
    <3>2. d # c /\ Under(d)'
      BY <1>1, <1>2, <3>1 DEF Under
    <3> QED
      BY <1>1, <2>1, <3>1, <3>2 DEF Disturbs, CallsOf
  <2>4. FreshKey(k)
    BY <2>2, <2>3 DEF Orderly, SettledKey
  <2>5. RunningKey(k)'
    BY <1>1, <1>2, <2>1, <2>4 DEF FreshKey, RunningKey, Sent
  <2> QED
    BY <1>2, <2>5 DEF Orderly
<1> QED
  BY <1>3, <1>4 DEF LookUpReply

(* A call of the key that is under way and stays so. *)
LEMMA OrderlyOnward ==
  ASSUME BillingSound, NEW c \in BillingCalls, ServeBilling(c), Orderly(keyOf[c]),
         Under(c), Under(c)', UNCHANGED <<kept, ran>>
  PROVE  Orderly(keyOf[c])'
<1> DEFINE k == keyOf[c]
<1>1. /\ UNCHANGED <<today, scenario>>
      /\ \A d \in BillingCalls \ {c} : billing'[d] = billing[d]
  BY StepsOfACall
<1>2. CallsOf(k)' = CallsOf(k) /\ k' = k /\ CallsOf(k) \subseteq BillingCalls /\ c \in CallsOf(k)
  BY <1>1 DEF CallsOf, scenario
<1>3. RunningKey(k)
  BY <1>2 DEF Orderly, FreshKey, SettledKey, Sent, Told, Under
<1>4. \A d \in CallsOf(k) \ {c} : ~ Sent(d)
  BY <1>2, <1>3 DEF RunningKey, Under, Sent
<1>5. RunningKey(k)'
  BY <1>1, <1>2, <1>3, <1>4 DEF RunningKey, Sent
<1> QED
  BY <1>2, <1>5 DEF Orderly

(* The reply of a call of the key is kept. *)
LEMMA OrderlyStore ==
  ASSUME BillingSound, StoresAnAnswer, NEW c \in BillingCalls, StoreReply(c), ServeBilling(c),
         Orderly(keyOf[c]), ~ Disturbs(keyOf[c]), keyOf[c] # NoKey
  PROVE  Orderly(keyOf[c])'
<1> DEFINE k == keyOf[c]
<1>0. k \in Keys /\ today \in Nat
  BY DEF BillingSound, BillingTypeOK
<1>1. /\ UNCHANGED <<today, scenario, answer, ran>> /\ billing[c] = "store"
      /\ \A d \in BillingCalls \ {c} : billing'[d] = billing[d]
  BY StepsOfACall DEF StoreReply
<1>2. CallsOf(k)' = CallsOf(k) /\ k' = k /\ CallsOf(k) \subseteq BillingCalls /\ c \in CallsOf(k)
  BY <1>1 DEF CallsOf, scenario
<1>3. billing'[c] = "replied"
  BY DEF StoreReply, GoTo, BillingSound, BillingTypeOK
<1>4. RunningKey(k)
  BY <1>1, <1>2 DEF Orderly, FreshKey, SettledKey, Sent, Told
<1>5. \A d \in CallsOf(k) \ {c} : ~ Sent(d)
  BY <1>1, <1>2, <1>4 DEF RunningKey, Under, Sent
<1>6. kept'[k].reply = answer[c] /\ kept'[k].reply # NoAnswer
  <2>1. kept'[k].reply = answer[c]
    BY <1>1, <1>3 DEF Disturbs
  <2>2. answer[c].status # 0
    BY <1>1 DEF StoresAnAnswer
  <2> QED
    BY <2>1, <2>2 DEF NoAnswer
<1>7. kept' = [kept EXCEPT ![k] = [reply |-> answer[c], since |-> today]]
  BY <1>4, <1>6 DEF StoreReply, RunningKey
<1>8. Finds(k)'
  <2>1. kept'[k].since = today
    BY <1>0, <1>7 DEF BillingSound, BillingTypeOK
  <2> QED
    BY <1>0, <1>1, <1>2, <1>6, <2>1, PurchasesAssumption DEF Finds
<1>9. Told(c, kept[k].reply)'
  BY <1>1, <1>2, <1>3, <1>6 DEF Told
<1>10. SettledKey(k)'
  BY <1>1, <1>2, <1>4, <1>5, <1>8, <1>9 DEF SettledKey, RunningKey, Sent
<1> QED
  BY <1>2, <1>10 DEF Orderly

LEMMA OrderlyServe ==
  ASSUME BillingSound, StoresAnAnswer, NEW c \in BillingCalls, ServeBilling(c),
         Orderly(keyOf[c]), ~ Disturbs(keyOf[c]), keyOf[c] # NoKey
  PROVE  Orderly(keyOf[c])'
<1>1. CASE LookUpReply(c)
  BY <1>1, OrderlyLookUp
<1>2. CASE StoreReply(c)
  BY <1>2, OrderlyStore
<1>3. CASE CrashBilling(c)
  BY <1>3 DEF CrashBilling, GoTo, Disturbs, BillingSound, BillingTypeOK
<1>4. ASSUME NEW status \in {200, 400, 500}, NEW tier, Return(c, status, tier)
      PROVE  Under(c)'
  <2>1. answer'[c].status = status
    BY <1>4 DEF Return, BillingSound, BillingTypeOK
  <2>2. status < 500
    BY <2>1 DEF Disturbs
  <2> QED
    BY <1>4, <2>2 DEF Return, GoTo, Under, BillingSound, BillingTypeOK
<1>5. CASE RefuseMalformed(c) \/ GetEntitlement(c) \/ RegisterPushToken(c)
  <2>1. Under(c)'
    BY <1>4, <1>5 DEF RefuseMalformed, GetEntitlement, RegisterPushToken
  <2>2. Under(c) /\ UNCHANGED <<kept, ran>>
    BY <1>5 DEF RefuseMalformed, GetEntitlement, RegisterPushToken, Under
  <2> QED
    BY <2>1, <2>2, OrderlyOnward
<1>6. CASE RecordPurchase(c) \/ SaveEntitlement(c)
  <2>1. Under(c)'
    BY <1>4, <1>6 DEF RecordPurchase, SaveEntitlement, GoTo, Under, BillingSound, BillingTypeOK
  <2>2. Under(c) /\ UNCHANGED <<kept, ran>>
    BY <1>6 DEF RecordPurchase, SaveEntitlement, Under
  <2> QED
    BY <2>1, <2>2, OrderlyOnward
<1> QED
  BY <1>1, <1>2, <1>3, <1>5, <1>6 DEF ServeBilling

LEMMA KeysOrderlyStep ==
  ASSUME BillingSound, BillingSound', KeysAreOrderly, BillingStep
  PROVE  KeysAreOrderly'
<1>1. NoKey \in disturbed' /\ StoresAnAnswer'
  BY StoresStep DEF BillingStep, KeysAreOrderly
<1>2. ASSUME NEW k \in Keys \ disturbed'
      PROVE  Orderly(k)'
  <2>1. Orderly(k) /\ ~ Disturbs(k) /\ k # NoKey
    BY <1>1, <1>2 DEF BillingStep, KeysAreOrderly
  <2>2. CASE NextBillingDay
    <3>1. ~ (kept[k].reply # NoAnswer /\ today' >= kept[k].since + Kept) /\ today' \in Nat
      BY <2>1 DEF Disturbs, BillingSound, BillingTypeOK
    <3> QED
      BY <2>1, <2>2, <3>1, OrderElsewhere DEF NextBillingDay
  <2>3. ASSUME NEW c \in BillingCalls, ServeBilling(c)
        PROVE  Orderly(k)'
    <3>1. CASE keyOf[c] = k
      <4>1. Orderly(keyOf[c])'
        BY <2>1, <2>3, <3>1, OrderlyServe DEF KeysAreOrderly
      <4>2. keyOf' = keyOf
        BY <2>3, StepsOfACall DEF scenario
      <4> QED
        BY <3>1, <4>1, <4>2 DEF Orderly, FreshKey, RunningKey, SettledKey, CallsOf, Finds
    <3>2. CASE keyOf[c] # k
      <4>1. /\ UNCHANGED <<today, scenario>> /\ kept'[k] = kept[k] /\ ran'[k] = ran[k]
            /\ \A d \in CallsOf(k) : billing'[d] = billing[d] /\ answer'[d] = answer[d]
        BY <2>3, <3>2, StepsOfACall DEF CallsOf
      <4>2. today' \in Nat
        BY DEF BillingSound, BillingTypeOK
      <4> QED
        BY <2>1, <4>1, <4>2, OrderElsewhere
    <3> QED
      BY <3>1, <3>2
  <2> QED
    BY <2>2, <2>3 DEF BillingStep, BillingNext
<1> QED
  BY <1>1, <1>2 DEF KeysAreOrderly

(* While the calls of an idempotency key neither overlap nor die, Redis    *)
(* answers, the server does not fail and the day of the kept reply is not  *)
(* over, its handler runs at most once and every one of them is told the   *)
(* same.                                                                   *)
THEOREM RetriesRunOnce == MCSpec => []OrderlyKeyRunsOnce
<1>1. MCInit => BillingSound /\ KeysAreOrderly
  BY StartOfEach, BillingSoundInit, KeysOrderlyInit
<1>2. BillingSound /\ KeysAreOrderly /\ [MCNext]_doorVars => BillingSound' /\ KeysAreOrderly'
  <2> SUFFICES ASSUME BillingSound, KeysAreOrderly, [MCNext]_doorVars
               PROVE  BillingSound' /\ KeysAreOrderly'
    OBVIOUS
  <2>1. BillingSound'
    BY StepOfEach, BillingSoundNext
  <2>2. CASE BillingStep
    BY <2>1, <2>2, KeysOrderlyStep
  <2>3. CASE UNCHANGED <<billingVars, disturbed>>
    BY <2>1, <2>3 DEF billingVars, scenario, KeysAreOrderly, StoresAnAnswer, Orderly, FreshKey, RunningKey,
                      SettledKey, CallsOf, Sent, Told, Under, Finds
  <2> QED
    BY <2>1, <2>2, <2>3 DEF MCNext, doorVars, histories, LimitsStep, KeysStep, AccountsStep
<1>3. KeysAreOrderly => OrderlyKeyRunsOnce
  <2> SUFFICES ASSUME KeysAreOrderly, NEW k \in Keys \ disturbed
               PROVE  KeyRunsOnce(k)
    BY DEF OrderlyKeyRunsOnce
  <2>1. Orderly(k)
    BY DEF KeysAreOrderly
  <2>2. ran[k] <= 1
    BY <2>1 DEF Orderly, FreshKey, RunningKey, SettledKey
  <2>3. ASSUME NEW c \in BillingCalls, NEW d \in BillingCalls, keyOf[c] = k, keyOf[d] = k,
               billing[c] = "replied", billing[d] = "replied"
        PROVE  answer[c].status = answer[d].status /\ answer[c].tier = answer[d].tier
    <3>1. c \in CallsOf(k) /\ d \in CallsOf(k) /\ Sent(c) /\ Sent(d)
      BY <2>3 DEF CallsOf, Sent
    <3>2. SettledKey(k)
      BY <2>1, <2>3, <3>1 DEF Orderly, FreshKey, RunningKey, Under
    <3> QED
      BY <3>1, <3>2 DEF SettledKey, Told
  <2> QED
    BY <2>2, <2>3 DEF KeyRunsOnce
<1> QED
  BY <1>1, <1>2, <1>3, PTL DEF MCSpec, doorVars

-----------------------------------------------------------------------------
(* The types of all that stands before the use cases. *)
THEOREM FrontDoorTypeCorrect == MCSpec => []FrontDoorTypeOK
<1>1. MCInit => LimitsInv /\ KeysInv /\ BillingSound /\ AccountsSound
  BY StartOfEach, LimitsInitInv, KeysInitInv, BillingSoundInit, AccountsSoundInit
<1>2. LimitsInv /\ KeysInv /\ BillingSound /\ AccountsSound /\ [MCNext]_doorVars =>
        LimitsInv' /\ KeysInv' /\ BillingSound' /\ AccountsSound'
  BY StepOfEach, LimitsNextInv, KeysNextInv, BillingSoundNext, AccountsSoundNext
<1>3. LimitsInv /\ KeysInv /\ BillingSound /\ AccountsSound => FrontDoorTypeOK
  BY SoundTypes DEF LimitsInv, KeysInv, BillingSound, FrontDoorTypeOK
<1> QED
  BY <1>1, <1>2, <1>3, PTL DEF MCSpec, doorVars

(* An identity that no two calls open an account for at once keeps to one  *)
(* account, though the index that is searched is not unique; and an        *)
(* account that no two calls hold at once is as it was last meant to be,   *)
(* though every write writes the whole row as it was read.                 *)
THEOREM AccountsAreOrderly ==
  ASSUME OpenedOnce
  PROVE  MCSpec => []OrderlyAccounts
<1>1. MCInit => AccountsSound /\ AccountsApart
  BY StartOfEach, AccountsSoundInit, AccountsApartInit
<1>2. AccountsSound /\ AccountsApart /\ [MCNext]_doorVars => AccountsSound' /\ AccountsApart'
  <2> SUFFICES ASSUME AccountsSound, AccountsApart, [MCNext]_doorVars
               PROVE  AccountsSound' /\ AccountsApart'
    OBVIOUS
  <2>1. AccountsSound'
    BY StepOfEach, AccountsSoundNext
  <2>2. CASE AccountsStep
    BY <2>1, <2>2, AccountsApartStep
  <2>3. CASE UNCHANGED <<accountVars, raced, shared>>
    BY <2>1, <2>3 DEF accountVars, AccountsApart, IdsGivenOut, RowsKeepIdentity, Undivided, Unshared, Exists,
                      KeepsEveryWrite, Opening, Holds, IdentityOf, NewGuest, SigningIn
  <2> QED
    BY <2>1, <2>2, <2>3 DEF MCNext, doorVars, histories, LimitsStep, KeysStep, BillingStep
<1>3. AccountsApart => OrderlyAccounts
  BY ApartIsOrderly
<1> QED
  BY <1>1, <1>2, <1>3, PTL DEF MCSpec, doorVars
=============================================================================
