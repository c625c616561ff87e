------------------------------- MODULE ApiClient -------------------------------
(***************************************************************************)
(* The client of the API that all pages of a tab share: a cache of answers *)
(* that are good for 25 seconds, and the requests in flight, which a second*)
(* caller of the same key joins.  A change takes the answers it may affect *)
(* out of the cache when it is SENT, by the path of its url.               *)
(***************************************************************************)
EXTENDS Screens, FiniteSets, Functions

VARIABLES
  cache,    \* cacheMap: what is known of a key
  calls     \* the requests in flight

api == <<cache, calls>>

(* A key is the url with the filter in its query.                          *)
Key(url, filter) == [url |-> url, filter |-> filter]

-----------------------------------------------------------------------------
(* Mutant of Branch: a change of a client leaves the dashboards known.     *)
BranchWithoutDashboard ==
  <<[of |-> {"requirements"}, purges |-> {"requirements", "dashboard", "reports"}],
    [of |-> {"users", "clients"}, purges |-> {"users", "clients"}]>>

(* invalidateScopedCache: the first branch that its url contains decides   *)
(* which keys go; a url of no branch takes only the keys that contain it   *)
(* as a whole, and the dashboards.                                         *)
Branch ==
  <<[of |-> {"resumes", "applications"}, purges |-> {"resumes", "applications", "dashboard", "reports"}],
    [of |-> {"requirements"}, purges |-> {"requirements", "dashboard", "reports"}],
    [of |-> {"targets"}, purges |-> {"targets", "dashboard"}],
    [of |-> {"attendance"}, purges |-> {"attendance", "dashboard"}],
    [of |-> {"notifications"}, purges |-> {"notifications"}],
    [of |-> {"chat"}, purges |-> {"chat"}],
    [of |-> {"users", "clients"}, purges |-> {"users", "clients", "dashboard"}]>>

Touches(url, roots) == \E r \in roots : Contains(url, <<r>>)

Purged(url) ==
  LET fits == {i \in DOMAIN Branch : Touches(url, Branch[i].of)}
      first == CHOOSE i \in fits : \A j \in fits : i <= j
  IN  IF fits # {} THEN {<<r>> : r \in Branch[first].purges}
      ELSE {url, <<"dashboard">>}

(* invalidateCache, for each of the parts.                                 *)
Without(known, parts) ==
  LET gone == {k \in DOMAIN known : \E p \in parts : Contains(k.url, p)}
  IN  Restrict(known, DOMAIN known \ gone)

(* What is known, with more of it.                                         *)
With(known, more) ==
  [x \in DOMAIN known \cup DOMAIN more |-> IF x \in DOMAIN more THEN more[x] ELSE known[x]]

-----------------------------------------------------------------------------
(* A request, from the moment it is sent until its caller has the answer:  *)
(* "sent" to the server, "answered"; after a 401 "renewing" the tokens and *)
(* "renewed", and then sent once more.                                     *)
Phase == {"sent", "answered", "renewing", "renewed"}
Waiting == [sent |-> "answered", renewing |-> "renewed"]

Fetched == {c \in calls : c.op = "get"}
InFlight == {c.key : c \in Fetched}

(* api.get of several keys: answers of the cache, requests to join, and    *)
(* requests to send.                                                       *)
Known(keys) == keys \cap DOMAIN cache
ToSend(keys) == keys \ (DOMAIN cache \cup InFlight)
=============================================================================
