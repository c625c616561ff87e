-------------------------------- MODULE Browser --------------------------------
(***************************************************************************)
(* One tab of the browser at work: a user signs in and out, opens pages,   *)
(* turns their filters and presses their buttons, while requests are in    *)
(* flight, tokens expire, answers are cached, lost or overtaken.           *)
(*                                                                         *)
(* The user interface holds a page, its filter and what it shows; it is    *)
(* built from Session (who is signed in) and ApiClient (the requests and   *)
(* the cache).  The tables are counters of the changes made to a subject;  *)
(* an answer carries the counters it read and the account it was for.      *)
(*                                                                         *)
(* Abstracted: changes of other users, of which a page hears after at most *)
(* 25 seconds; the role checks of the routes (a refusal is an outcome of   *)
(* any change); a second tab.  The lists of one page are awaited together; *)
(* here each is shown when it arrives, and the properties wait for all.    *)
(***************************************************************************)
EXTENDS Session, ApiClient

CONSTANTS
  Page,       \* the pages of this instance, names of Screen
  Opens,      \* Opens[a]: the pages that the account may open
  Filter,     \* values of the filter of a page
  Default,    \* the one a page starts with
  Plain,      \* the filter of a url without one
  MaxAct,     \* bound: what the user does
  MaxPress,   \* bound: how much of that are changes
  MaxEvent,   \* bound: what happens to the tab
  MaxStep     \* bound: both together

ASSUME PageAssumption ==
  /\ Page \subseteq DOMAIN Screen
  /\ Opens \in [Account -> SUBSET Page]
  /\ Default \in Filter /\ Plain \notin Filter
  /\ {MaxAct, MaxPress, MaxEvent, MaxStep} \subseteq Nat

VARIABLES
  db,         \* db[s]: changes committed to the tables of a subject
  page,       \* the page that is mounted, or Nobody
  filter,     \* its filter
  waits,      \* the keys it awaits
  shown,      \* shown[url]: the answer it displays
  spent,      \* how much of the bounds is used
  ack,        \* history: own changes of a subject that the user was told of
  due,        \* history: due[url]: the ack when the url was last asked for
  mishap,     \* history: of this page: "failed" and "muddled", see below
  exit        \* history: of the last Sign Out: none, "clean" or "kept"

ui == <<page, filter, waits, shown, due, mishap>>
vars == <<session, api, db, ui, spent, ack, exit>>

Subject == {Screen[p].subject : p \in Page} \ {"all"}
Told(url) == Tells(url) \cap Subject

-----------------------------------------------------------------------------
NoAnswer == [code |-> "none"]
Answer(code) == [code |-> code]

Call(op, by, key, token) ==
  [op |-> op, by |-> by, key |-> key, phase |-> "sent", token |-> token,
   again |-> FALSE, ans |-> NoAnswer, mine |-> TRUE, crossed |-> {}]

NoKey == Key(<<>>, Plain)

(* The subjects with an own change in flight.                              *)
Changing(C) == {Screen[c.by].subject : c \in {d \in C : d.op = "change"}}

Get(key, C) ==
  [Call("get", Nobody, key, AccessSent) EXCEPT !.crossed = Changing(C) \cap Told(key.url)]

KeyOf(p, url, f) == Key(url, IF url \in Screen[p].filtered THEN f ELSE Plain)
ListKeys(p, f) == {KeyOf(p, u, f) : u \in Screen[p].list}
OnceKeys(p) == {Key(u, Plain) : u \in Screen[p].once}

(* api.get for the keys, C the requests and K the cache at that moment.    *)
AskFor(keys, C, K) ==
  calls' = C \cup {Get(k, C) : k \in keys \ (DOMAIN K \cup {c.key : c \in {d \in C : d.op = "get"}})}

(* What the page does with that: it shows what is known, and waits for the *)
(* others.  told is the ack at that moment.  An answer still awaited for   *)
(* the same url and another filter may come last: "muddled".               *)
ShowKnown(keys, K, told) ==
  LET hits == keys \cap DOMAIN K
      urls == {k.url : k \in keys}
      at(u) == CHOOSE k \in hits : k.url = u
  IN  /\ waits' = waits \cup (keys \ hits)
      /\ shown' = With(shown, [u \in {k.url : k \in hits} |->
                     [data |-> K[at(u)], filter |-> at(u).filter]])
      /\ due' = With(due, [u \in urls |-> [s \in Told(u) |-> told[s]]])
      /\ mishap' = IF \E k \in keys, w \in waits : k.url = w.url /\ k # w
                   THEN mishap \cup {"muddled"} ELSE mishap

NoPage ==
  /\ page' = Nobody /\ filter' = Default
  /\ waits' = {} /\ shown' = <<>> /\ due' = <<>> /\ mishap' = {}

(* A request outlives the page that made it.                               *)
Orphaned(C) == {[c EXCEPT !.mine = FALSE] : c \in C}

-----------------------------------------------------------------------------
TypeOK ==
  /\ SessionTypeOK
  /\ page \in Page \cup {Nobody}
  /\ filter \in Filter
  /\ waits \subseteq {c.key : c \in Fetched}
  /\ DOMAIN shown \subseteq DOMAIN due
  /\ \A c \in calls : c.phase \in Phase
  /\ ack \in [Subject -> 0..MaxPress] /\ db \in [Subject -> 0..MaxPress]
  /\ \A s \in Subject : ack[s] <= db[s]
  /\ exit \in {"none", "clean", "kept"}

Init ==
  /\ SessionInit
  /\ cache = <<>> /\ calls = {}
  /\ db = [s \in Subject |-> 0] /\ ack = db
  /\ page = Nobody /\ filter = Default
  /\ waits = {} /\ shown = <<>> /\ due = <<>> /\ mishap = {}
  /\ spent = [act |-> 0, press |-> 0, event |-> 0]
  /\ exit = "none"

StepLeft == spent.act + spent.event < MaxStep
ActLeft == StepLeft /\ spent.act < MaxAct
Act == ActLeft /\ spent' = [spent EXCEPT !.act = @ + 1]
Event == StepLeft /\ spent.event < MaxEvent /\ spent' = [spent EXCEPT !.event = @ + 1]

-----------------------------------------------------------------------------
(* Pages.                                                                  *)

(* The route changes: the old page is unmounted, the new one asks for its  *)
(* lists and for what it loads once.                                       *)
Open(p) ==
  /\ Act
  /\ user # Nobody /\ p \in Opens[user] /\ p # page
  /\ LET keys == ListKeys(p, Default) \cup OnceKeys(p)
         C == Orphaned(calls)
         hits == keys \cap DOMAIN cache
         at(u) == CHOOSE k \in hits : k.url = u
     IN  /\ AskFor(keys, C, cache)
         /\ page' = p /\ filter' = Default
         /\ waits' = keys \ hits
         /\ shown' = [u \in {k.url : k \in hits} |->
                        [data |-> cache[at(u)], filter |-> at(u).filter]]
         /\ due' = [u \in {k.url : k \in keys} |-> [s \in Told(u) |-> ack[s]]]
         /\ mishap' = {}
  /\ UNCHANGED <<session, cache, db, ack, exit>>

(* Mutant of Turn: the effect does not depend on the filter.               *)
TurnUnnoticed(f) ==
  /\ Act
  /\ page # Nobody /\ f # filter /\ Screen[page].filtered # {}
  /\ filter' = f
  /\ UNCHANGED <<session, api, db, page, waits, shown, due, mishap, ack, exit>>

(* Another value of the filter: the effect asks for the lists with it.     *)
Turn(f) ==
  /\ Act
  /\ page # Nobody /\ f # filter /\ Screen[page].filtered # {}
  /\ filter' = f
  /\ AskFor(ListKeys(page, f), calls, cache)
  /\ ShowKnown(ListKeys(page, f), cache, ack)
  /\ UNCHANGED <<session, cache, db, page, ack, exit>>

(* The window gets the focus: a dashboard asks again.                      *)
Focus ==
  /\ Act
  /\ page # Nobody /\ Screen[page].subject = "all"
  /\ AskFor(ListKeys(page, filter), calls, cache)
  /\ ShowKnown(ListKeys(page, filter), cache, ack)
  /\ UNCHANGED <<session, cache, db, page, filter, ack, exit>>

(* A button: post, put and delete purge the cache and send.  The handler   *)
(* keeps the filter of this moment.                                        *)
Press(url) ==
  LET s == Screen[page].subject
      change == Call("change", page, Key(<<>>, filter), AccessSent)
      meets(c) == c.op = "get" /\ s \in Told(c.key.url)
  IN  /\ ActLeft /\ spent.press < MaxPress
      /\ spent' = [spent EXCEPT !.act = @ + 1, !.press = @ + 1]
      /\ change \notin calls
      /\ cache' = Without(cache, Purged(url))
      /\ calls' = {IF meets(c) THEN [c EXCEPT !.crossed = @ \cup {s}] ELSE c : c \in calls}
                    \cup {change}
      /\ UNCHANGED <<session, db, ui, ack, exit>>

-----------------------------------------------------------------------------
(* The server.                                                             *)

Reply(c, ans) ==
  calls' = (calls \ {c}) \cup {[c EXCEPT !.phase = Waiting[c.phase], !.ans = ans]}

Reads(url) == [s \in Told(url) |-> db[s]]

ServeGet(c) ==
  /\ c.phase = "sent" /\ c.op \in {"get", "boot"}
  /\ IF Admitted(c.token)
     THEN Reply(c, [code |-> "ok", who |-> c.token.who,
                    rows |-> IF c.op = "get" THEN Reads(c.key.url) ELSE <<>>])
     ELSE Reply(c, Answer("401"))
  /\ UNCHANGED db

(* Mutant of ServeChange: the change is answered and not written.          *)
ServeChangeUnwritten(c) ==
  /\ c.phase = "sent" /\ c.op = "change" /\ Admitted(c.token)
  /\ Reply(c, [code |-> "ok", count |-> db[Screen[c.by].subject] + 1])
  /\ UNCHANGED db

ServeChange(c) ==
  LET s == Screen[c.by].subject
  IN  /\ c.phase = "sent" /\ c.op = "change"
      /\ \/ /\ Admitted(c.token)
            /\ db' = [db EXCEPT ![s] = @ + 1]
            /\ Reply(c, [code |-> "ok", count |-> db[s] + 1])
         \/ /\ Reply(c, Answer(IF Admitted(c.token) THEN "refused" ELSE "401"))
            /\ UNCHANGED db

ServeLogin(c) ==
  /\ c.phase = "sent" /\ c.op = "login"
  /\ Reply(c, Answer(IF c.by \in active THEN "ok" ELSE "refused"))
  /\ UNCHANGED db

ServeLogout(c) ==
  /\ c.phase = "sent" /\ c.op = "logout"
  /\ Reply(c, Answer("ok"))
  /\ UNCHANGED db

ServeRenewal(c) ==
  /\ c.phase = "renewing"
  /\ IF Admitted(c.token) THEN Reply(c, [code |-> "ok", who |-> c.token.who])
                          ELSE Reply(c, Answer("401"))
  /\ UNCHANGED db

Serve ==
  /\ \E c \in calls :
       \/ ServeGet(c) \/ ServeChange(c) \/ ServeLogin(c) \/ ServeLogout(c) \/ ServeRenewal(c)
  /\ UNCHANGED <<session, cache, ui, spent, ack, exit>>

(* The connection fails, before or after the server has done its part.     *)
Lose ==
  /\ Event
  /\ \E c \in calls :
       /\ c.ans.code # "lost"
       /\ calls' = (calls \ {c}) \cup
            {[c EXCEPT !.phase = IF @ \in {"sent", "answered"} THEN "answered" ELSE "renewed",
                       !.ans = Answer("lost")]}
  /\ UNCHANGED <<session, cache, db, ui, ack, exit>>

-----------------------------------------------------------------------------
(* Answers.                                                                *)

(* Mutant of Reloaded: the router goes to the login page instead.          *)
Rerouted(marked, token) ==
  /\ cache' = <<>>
  /\ calls' = {c \in calls : c.op = "get"}
       \cup IF marked THEN {} ELSE {Call("boot", Nobody, NoKey, token)}
  /\ user' = Nobody /\ leaving' = FALSE
  /\ NoPage

(* A page of its own: everything in memory is gone, and unless the tab is  *)
(* marked as logged out it asks who is signed in.                          *)
Reloaded(marked, token) ==
  /\ cache' = <<>>
  /\ calls' = IF marked THEN {} ELSE {Call("boot", Nobody, NoKey, token)}
  /\ user' = Nobody /\ leaving' = FALSE
  /\ NoPage

ArriveGet(c) ==
  LET data == [who |-> c.ans.who, rows |-> c.ans.rows, crossed |-> c.crossed]
  IN  /\ c.op = "get" /\ c.phase = "answered" /\ c.ans.code = "ok"
      /\ calls' = calls \ {c}
      /\ cache' = With(cache, [k \in {c.key} |-> data])
      /\ waits' = waits \ {c.key}
      /\ shown' = IF c.key \in waits
                  THEN With(shown, [u \in {c.key.url} |-> [data |-> data, filter |-> c.key.filter]])
                  ELSE shown
      /\ UNCHANGED <<session, db, page, filter, due, mishap, ack, exit>>

(* The caller is told of an error; a page that waits keeps what it shows.  *)
Failed(c) ==
  /\ c.phase = "answered"
  /\ c.op \in {"get", "change"}
  /\ \/ c.ans.code \in {"lost", "refused"}
     \/ c.ans.code = "401" /\ c.again
  /\ calls' = calls \ {c}
  /\ IF c.op = "get" /\ c.key \in waits
     THEN waits' = waits \ {c.key} /\ mishap' = mishap \cup {"failed"}
     ELSE UNCHANGED <<waits, mishap>>
  /\ UNCHANGED <<session, cache, db, page, filter, shown, due, ack, exit>>

(* A change is done: the handler asks for the lists of its page, with the  *)
(* filter it was started with, even when the page is no longer there.      *)
ArriveChange(c) ==
  LET s == Screen[c.by].subject
      told == [ack EXCEPT ![s] = IF @ < c.ans.count THEN c.ans.count ELSE @]
      keys == ListKeys(c.by, c.key.filter)
  IN  /\ c.op = "change" /\ c.phase = "answered" /\ c.ans.code = "ok"
      /\ ack' = told
      /\ AskFor(keys, calls \ {c}, cache)
      /\ IF c.mine
         THEN /\ waits' = waits \cup (keys \ DOMAIN cache)
              /\ LET hits == keys \cap DOMAIN cache
                     at(u) == CHOOSE k \in hits : k.url = u
                 IN  shown' = With(shown, [u \in {k.url : k \in hits} |->
                                 [data |-> cache[at(u)], filter |-> at(u).filter]])
              /\ due' = With(due, [u \in {k.url : k \in keys} |-> [t \in Told(u) |-> told[t]]])
              /\ mishap' = IF c.key.filter # filter
                               \/ \E k \in keys, w \in waits : k.url = w.url /\ k # w
                           THEN mishap \cup {"muddled"} ELSE mishap
         ELSE UNCHANGED <<waits, shown, due, mishap>>
      /\ UNCHANGED <<session, cache, db, page, filter, exit>>

(* Mutant of Renew: the renewal carries the token that was just refused.   *)
RenewWithSame(c) ==
  /\ c.op \in {"get", "change"} /\ c.phase = "answered"
  /\ c.ans.code = "401" /\ ~c.again
  /\ calls' = (calls \ {c}) \cup
       {[c EXCEPT !.phase = "renewing", !.again = TRUE, !.ans = NoAnswer]}
  /\ UNCHANGED <<session, cache, db, ui, ack, exit>>

(* The interceptor: a first 401 renews the tokens.                         *)
Renew(c) ==
  /\ c.op \in {"get", "change"} /\ c.phase = "answered"
  /\ c.ans.code = "401" /\ ~c.again
  /\ calls' = (calls \ {c}) \cup
       {[c EXCEPT !.phase = "renewing", !.again = TRUE, !.token = RefreshSent, !.ans = NoAnswer]}
  /\ UNCHANGED <<session, cache, db, ui, ack, exit>>

(* ... and sends the request again with the new one.                       *)
Renewed(c) ==
  /\ c.phase = "renewed" /\ c.ans.code = "ok"
  /\ TakeTokens(c.ans.who)
  /\ calls' = (calls \ {c}) \cup
       {[c EXCEPT !.phase = "sent", !.token = jar'.access, !.ans = NoAnswer]}
  /\ exit' = IF leaving THEN "kept" ELSE exit
  /\ UNCHANGED <<active, flag, user, leaving, cache, db, ui, ack>>

(* No renewal: the stored tokens are thrown away, and the browser goes to  *)
(* the login page.                                                         *)
ForcedOut(c) ==
  /\ c.phase = "renewed" /\ c.ans.code # "ok"
  /\ ForgetStored
  /\ flag' = TRUE
  /\ Reloaded(TRUE, Nobody)
  /\ exit' = "none"
  /\ UNCHANGED <<active, jar, db, ack>>

(* checkAuth and the end of login: the user of the answer, else the one of *)
(* the login.                                                              *)
ArriveBoot(c) ==
  /\ c.op = "boot" /\ c.phase = "answered"
  /\ calls' = calls \ {c}
  /\ user' = IF c.ans.code = "ok" THEN c.ans.who ELSE c.by
  /\ UNCHANGED <<active, jar, store, flag, leaving, cache, db, ui, ack, exit>>

ArriveLogin(c) ==
  /\ c.op = "login" /\ c.phase = "answered"
  /\ CASE c.ans.code = "ok" ->
            /\ TakeTokens(c.by)
            /\ calls' = (calls \ {c}) \cup {Call("boot", c.by, NoKey, jar'.access)}
       [] c.ans.code = "lost" ->
            /\ calls' = (calls \ {c}) \cup {[c EXCEPT !.phase = "sent", !.ans = NoAnswer]}
            /\ UNCHANGED <<jar, store>>
       [] OTHER -> calls' = calls \ {c} /\ UNCHANGED <<jar, store>>
  /\ UNCHANGED <<active, flag, user, leaving, cache, db, ui, ack, exit>>

(* The end of logout, with an answer or without one.                       *)
ArriveLogout(c) ==
  /\ c.op = "logout" /\ c.phase = "answered"
  /\ IF c.ans.code = "ok" THEN ClearCookies ELSE UNCHANGED jar
  /\ Reloaded(flag, Prefer(jar'.access, store.access))
  /\ exit' = IF exit = "clean" /\ c.ans.code # "ok" THEN "kept" ELSE exit
  /\ UNCHANGED <<active, store, flag, db, ack>>

Arrive ==
  /\ \E c \in calls :
       \/ ArriveGet(c) \/ Failed(c) \/ ArriveChange(c) \/ Renew(c) \/ Renewed(c)
       \/ ForcedOut(c) \/ ArriveBoot(c) \/ ArriveLogin(c) \/ ArriveLogout(c)
  /\ UNCHANGED spent

-----------------------------------------------------------------------------
(* Signing in and out.                                                     *)

(* The form is there when nobody is signed in and nobody is awaited.       *)
Login(a) ==
  /\ Act
  /\ user = Nobody
  /\ \A c \in calls : c.op \notin {"login", "boot"}
  /\ flag' = FALSE
  /\ cache' = Without(cache, Purged(<<"auth", "login">>))
  /\ calls' = calls \cup {Call("login", a, NoKey, Nobody)}
  /\ exit' = "none"
  /\ UNCHANGED <<active, jar, store, user, leaving, db, ui, ack>>

Logout ==
  /\ Act
  /\ user # Nobody /\ ~leaving
  /\ leaving' = TRUE /\ flag' = TRUE /\ user' = Nobody
  /\ ForgetStored
  /\ cache' = <<>>
  /\ calls' = Orphaned(calls) \cup {Call("logout", Nobody, NoKey, Nobody)}
  /\ NoPage
  /\ exit' = "clean"
  /\ UNCHANGED <<active, jar, db, ack>>

(* The user reloads the page.                                              *)
Reload ==
  /\ Act
  /\ Reloaded(flag, AccessSent)
  /\ exit' = IF leaving THEN "kept" ELSE exit
  /\ UNCHANGED <<active, jar, store, flag, db, ack>>

-----------------------------------------------------------------------------
(* What happens to the tab.                                                *)

(* 25 seconds: one answer is no longer good.                               *)
Forget ==
  /\ Event
  /\ \E k \in DOMAIN cache : cache' = Restrict(cache, DOMAIN cache \ {k})
  /\ UNCHANGED <<session, calls, db, ui, ack, exit>>

(* A token is good for an hour or for a week, very long for a request: it  *)
(* expires between requests.                                               *)
Hour ==
  /\ Event
  /\ calls = {}
  /\ AccessExpires
  /\ UNCHANGED <<active, flag, user, leaving, api, db, ui, ack, exit>>

Week ==
  /\ Event
  /\ calls = {}
  /\ RefreshExpires
  /\ UNCHANGED <<active, flag, user, leaving, api, db, ui, ack, exit>>

Deactivate ==
  /\ Event
  /\ \E a \in Account : Deactivated(a)
  /\ UNCHANGED <<jar, store, flag, user, leaving, api, db, ui, ack, exit>>

Next ==
  \/ \E p \in Page : Open(p)
  \/ \E f \in Filter : Turn(f)
  \/ Focus
  \/ page # Nobody /\ \E url \in Screen[page].change : Press(url)
  \/ \E a \in Account : Login(a)
  \/ Logout \/ Reload
  \/ Serve \/ Arrive \/ Lose
  \/ Forget \/ Hour \/ Week \/ Deactivate

Spec == Init /\ [][Next]_vars

-----------------------------------------------------------------------------
(* A list that a page asked for after the browser had told of a change     *)
(* shows that change, although answers are cached and shared (api.js:94,   *)
(* :138): each branch of invalidateScopedCache takes out what the change   *)
(* of a page alters, on its own list, on the dashboards and in the menus of*)
(* other pages.  Only an answer that was under way during the change, and  *)
(* is cached after it was purged, may be shown in its place.               *)
Settled(url) == \A w \in waits : w.url # url

OwnWritesShown ==
  \A u \in DOMAIN shown : Settled(u) /\ "failed" \notin mishap =>
    \A s \in Told(u) \ shown[u].data.crossed : shown[u].data.rows[s] >= due[u][s]

(* What a page that waits for nothing shows is for the filter it is set to *)
(* (RequirementsPage.jsx:106, AdminDashboard.jsx:201).  It is not when two *)
(* requests for one list were under way, or a handler asked again with the *)
(* filter it was started with.                                             *)
FitsFilter ==
  page # Nobody /\ waits = {} /\ mishap = {} =>
    \A k \in ListKeys(page, filter) :
      k.url \in DOMAIN shown /\ shown[k.url].filter = k.filter

(* Nothing is shown that the server answered to another account: the cache *)
(* and the requests in flight of an earlier user end with the page that    *)
(* Sign Out replaces (AuthContext.jsx:99).                                 *)
ShownIsMine ==
  user # Nobody /\ ~leaving => \A u \in DOMAIN shown : shown[u].data.who = user

(* What is shown belongs here: to this user, and to this filter.           *)
ShownBelongs == TypeOK /\ FitsFilter /\ ShownIsMine

(* After Sign Out the browser has no token any more, in neither place,     *)
(* unless the answer to a renewal came in meanwhile, or that to the logout *)
(* did not, or a reload did not wait for it (AuthContext.jsx:99-124,       *)
(* api.js:54-68).                                                          *)
LogoutHolds ==
  exit = "clean" /\ ~leaving => jar = NoPair /\ store = NoPair

(* A user is sent to the login page only when the tokens the browser has   *)
(* are no longer good for a renewal, or a renewal had no answer; requests  *)
(* that were refused at the same time renew side by side (api.js:32-79).   *)
SignedOutWhenDue ==
  [][flag' /\ ~flag /\ user # Nobody /\ ~leaving /\ ~leaving' =>
       ~Admitted(RefreshSent) \/ \E c \in calls : c.ans.code = "lost"]_vars

(* Whoever reloads the page stays signed in while the tokens of the browser*)
(* are good (CLOUDFLARE_DEPLOYMENT_GUIDE.md:159, QA_Checklist.md AUTH-04). *)
StaysSignedIn ==
  [][\A c \in calls : c.op = "boot" /\ c.ans.code = "401" /\ c \notin calls' /\ Admitted(RefreshSent)
       => user' # Nobody]_vars
=============================================================================
