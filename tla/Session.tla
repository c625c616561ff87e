-------------------------------- MODULE Session --------------------------------
(***************************************************************************)
(* Who is signed in: the accounts and tokens of the server, and the places *)
(* where one tab of a browser keeps what it knows about it.                *)
(*                                                                         *)
(* The tokens are signed and not stored: the server can neither count nor  *)
(* revoke them, and looks up the account on each request.  The browser has *)
(* each token twice, in a cookie that scripts cannot read and in the local *)
(* storage; the server prefers the cookie.                                 *)
(***************************************************************************)
EXTENDS Naturals

CONSTANTS
  Account,    \* ids of accounts
  First,      \* the one signed in at first
  Nobody      \* no account, no token

(* A token names its account and is good until it expires.                 *)
Token == [who : Account, live : BOOLEAN]

ASSUME NobodyAssumption == First \in Account /\ Nobody \notin Account \cup Token

VARIABLES
  active,     \* users.is_active: the accounts with it
  jar,        \* the cookies access_token and refresh_token
  store,      \* the same two in the local storage
  flag,       \* applyflow_logged_out in the storage of the tab
  user,       \* the user of the AuthContext
  leaving     \* isLoggingOutRef: Sign Out was pressed, the page not yet replaced

session == <<active, jar, store, flag, user, leaving>>

(* The two tokens of a session.                                            *)
Pair == [access : Token \cup {Nobody}, refresh : Token \cup {Nobody}]
NoPair == [access |-> Nobody, refresh |-> Nobody]

SignedPair(a) == LET t == [who |-> a, live |-> TRUE] IN [access |-> t, refresh |-> t]

SessionTypeOK ==
  /\ active \subseteq Account
  /\ jar \in Pair /\ store \in Pair
  /\ flag \in BOOLEAN /\ leaving \in BOOLEAN
  /\ user \in Account \cup {Nobody}

(* Someone is at work.                                                     *)
SessionInit ==
  /\ active = Account
  /\ jar = SignedPair(First) /\ store = SignedPair(First)
  /\ flag = FALSE /\ leaving = FALSE
  /\ user = First

-----------------------------------------------------------------------------
(* What a request carries: the cookie, else the header with the token of   *)
(* the local storage; and for a renewal the cookie, else the body.         *)
Prefer(cookie, other) == IF cookie # Nobody THEN cookie ELSE other

AccessSent == Prefer(jar.access, store.access)
RefreshSent == Prefer(jar.refresh, store.refresh)

(* requireAuth: the token has not expired and its account is active.  The  *)
(* renewal asks the same of the other token.                               *)
Admitted(t) == t # Nobody /\ t.live /\ t.who \in active

(* The answer to a login or to a renewal sets the cookies, and the script  *)
(* writes both tokens to the local storage.                                *)
TakeTokens(a) ==
  /\ jar' = SignedPair(a)
  /\ store' = SignedPair(a)

(* Mutant of ForgetStored: the token for renewals is forgotten.            *)
ForgetOne == store' = [store EXCEPT !.access = Nobody]

ForgetStored == store' = NoPair

ClearCookies == jar' = NoPair

(* A cookie goes when its token expires; a stored token stays.             *)
Stale(t) == IF t = Nobody THEN Nobody ELSE [t EXCEPT !.live = FALSE]

AccessExpires ==
  /\ jar' = [jar EXCEPT !.access = Nobody]
  /\ store' = [store EXCEPT !.access = Stale(@)]

RefreshExpires ==
  /\ jar' = NoPair
  /\ store' = [access |-> Stale(store.access), refresh |-> Stale(store.refresh)]

(* An administrator deactivates the account.                               *)
Deactivated(a) ==
  /\ a \in active
  /\ active' = active \ {a}
=============================================================================
