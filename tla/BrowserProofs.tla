----------------------------- MODULE BrowserProofs -----------------------------
(***************************************************************************)
(* Proofs about Browser, for any accounts, pages, filters and bounds: the  *)
(* tab is signed in and out as it should be, what it shows belongs to the  *)
(* user and to the filter, and own changes are shown by the pages whose    *)
(* urls the purge of the cache knows.                                      *)
(***************************************************************************)
EXTENDS Browser, FiniteSetTheorems, TLAPS

(***************************************************************************)
(* Types.  An answer is left untyped but for the fields that its code and  *)
(* the phase of its request promise, see Answers.                          *)
(***************************************************************************)
Url == UNION {Screen[p].list \cup Screen[p].once : p \in Page}

CallWith(ans) ==
  [op : {"get", "change", "boot", "login", "logout"}, by : Account \cup Page \cup {Nobody},
   key : [url : Url \cup {<<>>}, filter : Filter \cup {Plain}], phase : Phase,
   token : Token \cup {Nobody}, again : BOOLEAN, ans : {ans}, mine : BOOLEAN,
   crossed : SUBSET Subject]

(* What the fields of a request are by its kind.                           *)
Kinds(c) ==
  /\ c.op = "get" => c.key.url \in Url
  /\ c.op = "change" => /\ c.by \in Page /\ Screen[c.by].change # {}
                        /\ c.key.filter \in Filter
  /\ c.op = "boot" => c.by \in Account \cup {Nobody}
  /\ c.op = "login" => c.by \in Account
  /\ c.op \in {"boot", "login", "logout"} => c.phase \in {"sent", "answered"}

(* What an answer holds.                                                   *)
Answers(c) ==
  /\ c.phase \in {"sent", "renewing"} => c.ans.code = "none"
  /\ c.phase = "answered" => c.ans.code \in {"ok", "401", "refused", "lost"}
  /\ c.phase = "renewed" => c.ans.code \in {"ok", "401", "lost"}
  /\ c.ans.code = "ok" /\ (c.op \in {"get", "boot"} \/ c.phase = "renewed") =>
       c.token # Nobody /\ c.ans.who = c.token.who
  /\ c.ans.code = "ok" /\ c.op = "get" /\ c.phase = "answered" =>
       c.ans.rows \in [Told(c.key.url) -> Nat]
  /\ c.ans.code = "ok" /\ c.op = "change" /\ c.phase = "answered" =>
       c.ans.count \in Nat /\ c.ans.count <= db[Screen[c.by].subject]

Good(c) == c \in CallWith(c.ans) /\ Kinds(c) /\ Answers(c)

IsData(url, d) ==
  /\ d.crossed \subseteq Subject
  /\ d.rows \in [Told(url) -> Nat]

Typed ==
  /\ SessionTypeOK
  /\ page \in Page \cup {Nobody} /\ filter \in Filter
  /\ \A c \in calls : Good(c)
  /\ DOMAIN cache \subseteq [url : Url, filter : Filter \cup {Plain}]
  /\ \A k \in DOMAIN cache : IsData(k.url, cache[k])
  /\ db \in [Subject -> Nat] /\ ack \in [Subject -> Nat]
  /\ \A s \in Subject : ack[s] <= db[s]
  /\ spent \in [act : Nat, press : Nat, event : Nat] /\ spent.press <= MaxPress
  /\ exit \in {"none", "clean", "kept"}

(* The changes that may still be committed, each of them once.             *)
Unserved(c) == c.op = "change" /\ (c.phase # "answered" \/ c.ans.code = "401")
Due == {c \in calls : Unserved(c)}

Counted ==
  /\ IsFiniteSet(Due)
  /\ \A s \in Subject : db[s] + Cardinality(Due) <= spent.press

(* What the page awaits is under way, and its urls are remembered.         *)
Awaited ==
  /\ waits \subseteq {c.key : c \in Fetched}
  /\ {k.url : k \in waits} \subseteq DOMAIN due
  /\ DOMAIN shown \subseteq DOMAIN due

(* Who is at the tab.                                                      *)
Held == {jar.access, jar.refresh, store.access, store.refresh} \ {Nobody}
Entering == {c \in calls : c.op \in {"login", "boot"}}

OneOwner == \A t, w \in Held : t.who = w.who

Entrance ==
  /\ \A c, d \in Entering : c = d
  /\ Entering # {} => user = Nobody
  /\ \A c \in calls : c.op = "logout" => leaving

(* Nobody is signed in, and the tab is not on its way out.                 *)
Empty ==
  /\ page = Nobody /\ DOMAIN cache = {} /\ DOMAIN shown = {}
  /\ calls \subseteq Entering
  /\ \A c \in calls : c.op = "boot" =>
       /\ c.token # Nobody => \A t \in Held : t.who = c.token.who
       /\ c.by # Nobody => /\ \A t \in Held : t.who = c.by
                           /\ c.token # Nobody => c.token.who = c.by

(* Whatever the tab holds is of the user.                                  *)
Owned ==
  /\ \A t \in Held : t.who = user
  /\ \A c \in calls : c.token # Nobody => c.token.who = user
  /\ \A k \in DOMAIN cache : cache[k].who = user
  /\ \A u \in DOMAIN shown : shown[u].data.who = user

(* Tokens are good or not for all requests alike.                          *)
Alive(t) == t # Nobody /\ t.live

Agrees(c) ==
  /\ c.phase = "renewing" => (Alive(c.token) <=> Alive(RefreshSent))
  /\ c.phase = "renewed" /\ c.ans.code = "ok" => Alive(RefreshSent)
  /\ c.phase = "renewed" /\ c.ans.code = "401" => ~Admitted(RefreshSent)

Renewals == \A c \in calls : Agrees(c)

Tab ==
  /\ OneOwner /\ Entrance
  /\ ~leaving /\ user = Nobody => Empty
  /\ ~leaving /\ user # Nobody => Owned /\ Renewals

(* A clean exit leaves nothing that could bring a token back.              *)
Clean ==
  exit = "clean" =>
    /\ flag /\ store = NoPair /\ user = Nobody /\ page = Nobody /\ Entering = {}
    /\ ~leaving => jar = NoPair /\ calls = {}

(* What the page shows is for its filter, or it still waits for that.      *)
Fitting ==
  /\ \A c \in calls : c.op = "change" /\ c.mine => c.by = page
  /\ page # Nobody /\ mishap = {} =>
       \A k \in ListKeys(page, filter) :
         /\ k \in waits \/ (k.url \in DOMAIN shown /\ shown[k.url].filter = k.filter)
         /\ \A w \in waits : w.url = k.url => w = k

(* Two requests that differ in nothing but where they are.                 *)
Same(c, d) ==
  /\ d.op = c.op /\ d.by = c.by /\ d.key = c.key
  /\ d.crossed = c.crossed /\ d.mine = c.mine

IInv == Typed /\ Counted /\ Awaited /\ Tab /\ Clean /\ Fitting

(***************************************************************************)
(* Own writes.                                                             *)
(***************************************************************************)
(* No change of s is under way.                                            *)
Still(s) == \A d \in calls : d.op = "change" => Screen[d.by].subject # s

Fresh ==
  /\ \A c \in Fetched : \A s \in Told(c.key.url) \ c.crossed :
       Still(s) /\ (c.phase = "answered" /\ c.ans.code = "ok" => c.ans.rows[s] = db[s])
  /\ \A k \in DOMAIN cache : \A s \in Told(k.url) \ cache[k].crossed :
       Still(s) /\ cache[k].rows[s] = db[s]

Dues ==
  \A u \in DOMAIN due : \A s \in Told(u) : due[u][s] \in Nat /\ due[u][s] <= ack[s]

WInv == Fresh /\ Dues /\ OwnWritesShown

(* The purge of a change reaches every answer that tells of its subject.   *)
PurgeReaches ==
  \A p \in Page : \A url \in Screen[p].change : \A u \in Url :
    Screen[p].subject \in Told(u) => \E part \in Purged(url) : Contains(u, part)
-----------------------------------------------------------------------------
(* The tables of the pages.                                                *)

LEMMA ScreenFacts ==
  ASSUME NEW p \in DOMAIN Screen
  PROVE  /\ Screen[p].list \cap Screen[p].once = {}
         /\ Screen[p].change # {} => Screen[p].subject # "all"
  BY DEF Screen, RequirementsPage, TargetsPage, ClientsPage, RecruitersPage, SubAdminsPage,
         ResumesPage, InboxPage, AdminDashboard, EmployeeDashboard, ClientDashboard, Dashboard

LEMMA ChangesOne ==
  ASSUME NEW p \in Page, Screen[p].change # {}
  PROVE  Screen[p].subject \in Subject
  <1>1. p \in DOMAIN Screen
    BY PageAssumption DEF PageAssumption
  <1>2. Screen[p].subject # "all"
    BY <1>1, ScreenFacts
  <1> QED
    BY <1>2 DEF Subject

AKey == [url : Url, filter : Filter \cup {Plain}]

(* The keys of a page have different urls.                                 *)
LEMMA PageKeys ==
  ASSUME NEW p \in Page, NEW f \in Filter
  PROVE  /\ ListKeys(p, f) \cup OnceKeys(p) \subseteq AKey
         /\ \A k, w \in ListKeys(p, f) \cup OnceKeys(p) : k.url = w.url => k = w
  <1>1. p \in DOMAIN Screen
    BY PageAssumption DEF PageAssumption
  <1>2. Screen[p].list \cap Screen[p].once = {}
    BY <1>1, ScreenFacts
  <1>3. \A k \in ListKeys(p, f) :
          /\ k \in AKey /\ k.url \in Screen[p].list
          /\ k = KeyOf(p, k.url, f)
    BY DEF ListKeys, KeyOf, Key, AKey, Url
  <1>4. \A k \in OnceKeys(p) :
          /\ k \in AKey /\ k.url \in Screen[p].once
          /\ k = Key(k.url, Plain)
    BY DEF OnceKeys, Key, AKey, Url
  <1> QED
    BY <1>2, <1>3, <1>4

-----------------------------------------------------------------------------
(* Requests.                                                               *)

LEMMA Tokens ==
  ASSUME SessionTypeOK
  PROVE  /\ AccessSent \in Token \cup {Nobody} /\ RefreshSent \in Token \cup {Nobody}
         /\ AccessSent # Nobody => AccessSent \in Held
         /\ RefreshSent # Nobody => RefreshSent \in Held
         /\ Held \subseteq Token
  BY DEF SessionTypeOK, AccessSent, RefreshSent, Prefer, Pair, Held

LEMMA GetFields ==
  ASSUME SessionTypeOK, NEW k \in AKey, NEW C
  PROVE  LET g == Get(k, C) IN
         /\ Good(g)
         /\ g.op = "get" /\ g.key = k /\ g.phase = "sent" /\ g.token = AccessSent
         /\ g.ans.code = "none" /\ g.crossed = Changing(C) \cap Told(k.url)
  <1> DEFINE g == Get(k, C)
  <1>1. g = [op |-> "get", by |-> Nobody, key |-> k, phase |-> "sent", token |-> AccessSent,
             again |-> FALSE, ans |-> NoAnswer, mine |-> TRUE,
             crossed |-> Changing(C) \cap Told(k.url)]
    <2>1. PICK r : r = Call("get", Nobody, k, AccessSent)
      OBVIOUS
    <2>2. r = [op |-> "get", by |-> Nobody, key |-> k, phase |-> "sent", token |-> AccessSent,
               again |-> FALSE, ans |-> NoAnswer, mine |-> TRUE, crossed |-> {}]
      BY <2>1 DEF Call
    <2>3. g = [r EXCEPT !.crossed = Changing(C) \cap Told(k.url)]
      BY Zenon, <2>1 DEF Get
    <2> HIDE DEF g
    <2> QED
      BY <2>2, <2>3
  <1>2. Told(k.url) \subseteq Subject
    BY DEF Told
  <1>3. g \in CallWith(g.ans)
    BY <1>1, <1>2, Tokens DEF CallWith, AKey, Phase
  <1>4. k.url \in Url
    BY DEF AKey
  <1>5. Kinds(g) /\ Answers(g)
    BY <1>1, <1>4 DEF Kinds, Answers, NoAnswer
  <1> QED
    BY <1>1, <1>3, <1>5 DEF Good, NoAnswer

(* What a page asks for is under way, or known.                            *)
LEMMA Asked ==
  ASSUME SessionTypeOK, db' = db, NEW keys \in SUBSET AKey, NEW C, AskFor(keys, C, cache)
  PROVE  /\ C \subseteq calls'
         /\ \A x \in calls' : x \notin C =>
              /\ Good(x)'
              /\ x.op = "get" /\ x.key \in keys /\ x.phase = "sent" /\ x.token = AccessSent
              /\ x.ans.code = "none" /\ x.crossed = Changing(C) \cap Told(x.key.url)
         /\ \A k \in keys \ DOMAIN cache : \E x \in calls' : x.op = "get" /\ x.key = k
  <1> DEFINE fresh == keys \ (DOMAIN cache \cup {c.key : c \in {d \in C : d.op = "get"}})
  <1>1. calls' = C \cup {Get(k, C) : k \in fresh}
    BY Zenon DEF AskFor
  <1>2. ASSUME NEW x \in calls', x \notin C
        PROVE  /\ Good(x)
               /\ x.op = "get" /\ x.key \in keys /\ x.phase = "sent" /\ x.token = AccessSent
               /\ x.ans.code = "none" /\ x.crossed = Changing(C) \cap Told(x.key.url)
    <2>1. PICK k \in fresh : x = Get(k, C)
      BY <1>1, <1>2
    <2>2. k \in AKey /\ k \in keys
      OBVIOUS
    <2> HIDE DEF fresh
    <2> QED
      BY <2>1, <2>2, GetFields
  <1>3. \A x : Good(x) => Good(x)'
    BY Zenon DEF Good, Answers
  <1>4. ASSUME NEW k \in keys \ DOMAIN cache
        PROVE  \E x \in calls' : x.op = "get" /\ x.key = k
    <2>1. CASE k \in fresh
      <3>1. Get(k, C) \in calls'
        BY <1>1, <2>1
      <3>2. Get(k, C).op = "get" /\ Get(k, C).key = k
        BY GetFields
      <3> QED
        BY <3>1, <3>2
    <2>2. CASE k \notin fresh
      BY <1>1, <2>2
    <2> QED
      BY <2>1, <2>2
  <1> QED
    BY <1>1, <1>2, <1>3, <1>4

(* Requests that are left alone are as they were.                          *)
LEMMA GoodStays == ASSUME db' = db, NEW c, Good(c) PROVE Good(c)'
  BY Zenon DEF Good, Answers

(* A request without the page that made it.                                *)
LEMMA OrphanFields ==
  ASSUME NEW c, Good(c), NEW o, o = [c EXCEPT !.mine = FALSE]
  PROVE  /\ Good(o)
         /\ o.op = c.op /\ o.by = c.by /\ o.key = c.key /\ o.phase = c.phase
         /\ o.token = c.token /\ o.ans = c.ans /\ o.crossed = c.crossed /\ o.mine = FALSE
  <1>1. c \in CallWith(c.ans)
    BY DEF Good
  <1>2. /\ o.op = c.op /\ o.by = c.by /\ o.key = c.key /\ o.phase = c.phase
        /\ o.token = c.token /\ o.ans = c.ans /\ o.crossed = c.crossed /\ o.mine = FALSE
    BY <1>1 DEF CallWith
  <1>3. o \in CallWith(o.ans)
    BY <1>1, <1>2 DEF CallWith
  <1>4. Kinds(o) /\ Answers(o)
    BY <1>2 DEF Good, Kinds, Answers
  <1> QED
    BY <1>2, <1>3, <1>4 DEF Good

LEMMA OrphansFields ==
  ASSUME \A c \in calls : Good(c), NEW x \in Orphaned(calls)
  PROVE  \E c \in calls :
         /\ Good(x)
         /\ x.op = c.op /\ x.by = c.by /\ x.key = c.key /\ x.phase = c.phase
         /\ x.token = c.token /\ x.ans = c.ans /\ x.crossed = c.crossed /\ x.mine = FALSE
  <1>1. PICK c \in calls : x = [c EXCEPT !.mine = FALSE]
    BY Zenon DEF Orphaned
  <1>2. Good(c)
    OBVIOUS
  <1> QED
    BY <1>1, <1>2, OrphanFields

(* A request of its own: login, boot, logout and change.                   *)
LEMMA CallFields ==
  ASSUME NEW op \in {"change", "boot", "login", "logout"},
         NEW by \in Account \cup Page \cup {Nobody},
         NEW key \in [url : Url \cup {<<>>}, filter : Filter \cup {Plain}],
         NEW t \in Token \cup {Nobody}, NEW c, c = Call(op, by, key, t)
  PROVE  /\ c \in CallWith(c.ans)
         /\ c.op = op /\ c.by = by /\ c.key = key /\ c.phase = "sent" /\ c.token = t
         /\ c.ans = NoAnswer /\ c.ans.code = "none" /\ c.crossed = {} /\ c.mine = TRUE
  BY DEF Call, CallWith, NoAnswer, Phase

LEMMA OwnCallGood ==
  ASSUME NEW op \in {"boot", "login", "logout"}, NEW by \in Account \cup {Nobody},
         op = "login" => by \in Account, NEW t \in Token \cup {Nobody},
         NEW c, c = Call(op, by, NoKey, t)
  PROVE  /\ Good(c)
         /\ c.op = op /\ c.by = by /\ c.phase = "sent" /\ c.token = t /\ c.ans.code = "none"
  <1>1. NoKey \in [url : Url \cup {<<>>}, filter : Filter \cup {Plain}]
    BY DEF NoKey, Key
  <1>2. /\ c \in CallWith(c.ans)
        /\ c.op = op /\ c.by = by /\ c.key = NoKey /\ c.phase = "sent" /\ c.token = t
        /\ c.ans = NoAnswer /\ c.ans.code = "none"
    <2>1. by \in Account \cup Page \cup {Nobody}
      OBVIOUS
    <2>2. op \in {"change", "boot", "login", "logout"}
      OBVIOUS
    <2> QED
      BY <1>1, <2>1, <2>2 DEF Call, CallWith, NoAnswer, Phase
  <1>3. Kinds(c) /\ Answers(c)
    BY <1>2 DEF Kinds, Answers
  <1> QED
    BY <1>2, <1>3 DEF Good

-----------------------------------------------------------------------------
(* Steps that leave one request in another state, and nothing else.        *)

(* The changes that wait can only become fewer.                            *)
LEMMA CountedStep ==
  ASSUME Typed, Counted, NEW f, Due' \subseteq {f[x] : x \in Due}, db' = db,
         spent'.press \in Nat, spent.press <= spent'.press
  PROVE  Counted'
  <1> DEFINE S == Due
             T == {f[x] : x \in S}
             g == [x \in S |-> f[x]]
             U == Due'
  <1>1. IsFiniteSet(S)
    BY DEF Counted
  <1>2. g \in Surjection(S, T)
    BY DEF Surjection
  <1>3. U \subseteq T
    OBVIOUS
  <1>4. IsFiniteSet(T) /\ Cardinality(T) <= Cardinality(S)
    <2> HIDE DEF S, T, g
    <2> QED
      BY <1>1, <1>2, FS_Surjection
  <1>5. IsFiniteSet(U) /\ Cardinality(U) <= Cardinality(T)
    <2> HIDE DEF T, U
    <2> QED
      BY <1>3, <1>4, FS_Subset
  <1>6. Cardinality(S) \in Nat /\ Cardinality(T) \in Nat /\ Cardinality(U) \in Nat
    <2> HIDE DEF S, T, U
    <2> QED
      BY <1>1, <1>4, <1>5, FS_CardinalityType
  <1>7. ASSUME NEW s \in Subject PROVE db[s] + Cardinality(U) <= spent'.press
    <2>1. db[s] + Cardinality(S) <= spent.press
      BY DEF Counted
    <2>2. db[s] \in Nat /\ spent.press \in Nat
      BY DEF Typed
    <2> HIDE DEF S, T, U
    <2> QED
      BY <1>4, <1>5, <1>6, <2>1, <2>2
  <1> QED
    BY <1>5, <1>7 DEF Counted, Subject

LEMMA ReplacedCounted ==
  ASSUME Typed, Counted, NEW c \in calls, NEW d, calls' = (calls \ {c}) \cup {d},
         Unserved(d) => Unserved(c), db' = db, spent'.press \in Nat, spent.press <= spent'.press
  PROVE  Counted'
  <1> DEFINE f == [x \in Due |-> IF x = c THEN d ELSE x]
  <1>1. ASSUME NEW x \in Due' PROVE x \in {f[y] : y \in Due}
    <2>1. x \in calls' /\ Unserved(x)
      BY DEF Due
    <2>2. CASE x \in calls /\ x # c
      BY <2>1, <2>2 DEF Due
    <2>3. CASE x = d
      <3>1. c \in Due /\ f[c] = d
        BY <2>1, <2>3 DEF Due
      <3> QED
        BY <2>3, <3>1
    <2> QED
      BY <2>1, <2>2, <2>3
  <1> HIDE DEF f
  <1>2. Due' \subseteq {f[y] : y \in Due}
    BY <1>1
  <1> QED
    BY <1>2, CountedStep

LEMMA FewerCounted ==
  ASSUME Typed, Counted, calls' \subseteq calls, db' = db,
         spent'.press \in Nat, spent.press <= spent'.press
  PROVE  Counted'
  <1> DEFINE f == [x \in Due |-> x]
  <1>1. Due' \subseteq {f[y] : y \in Due}
    BY DEF Due
  <1> HIDE DEF f
  <1> QED
    BY <1>1, CountedStep

LEMMA ReplacedStep ==
  ASSUME IInv, NEW c \in calls, NEW d, calls' = (calls \ {c}) \cup {d}, Same(c, d),
         d \in CallWith(d.ans), Kinds(d), Answers(d), Unserved(d) => Unserved(c),
         c.op = "boot" => d.token = c.token,
         ~leaving /\ user # Nobody => (d.token # Nobody => d.token.who = user) /\ Agrees(d),
         UNCHANGED <<session, cache, db, ui, ack, exit>>,
         spent' \in [act : Nat, press : Nat, event : Nat], spent'.press = spent.press
  PROVE  IInv'
  <1> USE DEF session, ui
  <1>1. Good(d)'
    BY Zenon DEF Good, Answers
  <1>2. Typed'
    <2>1. \A x \in calls' : Good(x)'
      BY <1>1, GoodStays DEF IInv, Typed
    <2> QED
      BY <2>1, Zenon DEF IInv, Typed, SessionTypeOK, IsData
  <1>3. Counted'
    BY ReplacedCounted DEF IInv, Typed
  <1>4. Awaited'
    BY DEF IInv, Awaited, Fetched, Same
  <1>5. Entrance'
    BY DEF IInv, Tab, Entrance, Entering, Same
  <1>6. OneOwner' /\ (~leaving' /\ user' = Nobody => Empty')
    <2>1. Held' = Held
      BY DEF Held
    <2>2. OneOwner'
      BY <2>1 DEF IInv, Tab, OneOwner
    <2>3. ASSUME Empty PROVE Empty'
      <3>1. calls' \subseteq Entering'
        BY <2>3 DEF Empty, Entering, Same
      <3>2. \A x \in calls' : x.op = "boot" =>
              /\ x.token # Nobody => \A t \in Held : t.who = x.token.who
              /\ x.by # Nobody => /\ \A t \in Held : t.who = x.by
                                  /\ x.token # Nobody => x.token.who = x.by
        BY <2>3 DEF Empty, Same
      <3> QED
        BY <2>1, <2>3, <3>1, <3>2 DEF Empty
    <2> QED
      BY <2>2, <2>3 DEF IInv, Tab
  <1>7. ~leaving' /\ user' # Nobody => Owned' /\ Renewals'
    <2>1. SUFFICES ASSUME ~leaving, user # Nobody PROVE Owned' /\ Renewals'
      OBVIOUS
    <2>2. Owned /\ Renewals
      BY <2>1 DEF IInv, Tab
    <2>3. \A x : Agrees(x) => Agrees(x)'
      BY Zenon DEF Agrees, RefreshSent, Admitted
    <2>4. Renewals'
      BY <2>1, <2>2, <2>3 DEF Renewals
    <2>5. Owned'
      BY <2>1, <2>2 DEF Owned, Held
    <2> QED
      BY <2>4, <2>5
  <1>8. Clean'
    BY DEF IInv, Clean, Entering, Same
  <1>9. Fitting'
    BY DEF IInv, Fitting, Same, ListKeys, KeyOf, Key
  <1> QED
    BY <1>2, <1>3, <1>4, <1>5, <1>6, <1>7, <1>8, <1>9 DEF IInv, Tab

-----------------------------------------------------------------------------
(* The server.                                                             *)

LEMMA SpentStays == ASSUME Typed, UNCHANGED spent
                    PROVE  /\ spent' \in [act : Nat, press : Nat, event : Nat]
                           /\ spent'.press = spent.press
  BY DEF Typed

LEMMA SpentActs == ASSUME Typed, Act \/ Event
                   PROVE  /\ spent' \in [act : Nat, press : Nat, event : Nat]
                          /\ spent'.press = spent.press
  BY DEF Typed, Act, Event

(* The answer of the server to a request.                                  *)
LEMMA ReplyFields ==
  ASSUME NEW c, Good(c), c.phase \in {"sent", "renewing"}, NEW ans, Reply(c, ans)
  PROVE  \E d :
         /\ calls' = (calls \ {c}) \cup {d}
         /\ d \in CallWith(d.ans) /\ Same(c, d) /\ d.ans = ans /\ d.token = c.token
         /\ d.phase = IF c.phase = "sent" THEN "answered" ELSE "renewed"
  <1>0. PICK f : f = Waiting[c.phase]
    OBVIOUS
  <1> DEFINE d == [c EXCEPT !.phase = f, !.ans = ans]
  <1>1. f = IF c.phase = "sent" THEN "answered" ELSE "renewed"
    BY <1>0 DEF Waiting
  <1>2. f \in Phase
    BY <1>1 DEF Phase
  <1>3. calls' = (calls \ {c}) \cup {d}
    BY Zenon, <1>0 DEF Reply
  <1>4. /\ d \in CallWith(d.ans) /\ Same(c, d) /\ d.ans = ans /\ d.token = c.token
        /\ d.phase = f
    <2>1. c \in CallWith(c.ans)
      BY DEF Good
    <2>2. /\ Same(c, d) /\ d.phase = f /\ d.ans = ans /\ d.token = c.token
          /\ d.again = c.again
      BY <2>1 DEF CallWith, Same
    <2>3. d \in CallWith(d.ans)
      BY <1>2, <2>1, <2>2 DEF CallWith, Same
    <2> QED
      BY <2>2, <2>3
  <1> HIDE DEF d
  <1> QED
    BY <1>1, <1>3, <1>4

(* An answer that is not good for anything but the error it tells.         *)
LEMMA RefusedStep ==
  ASSUME IInv, NEW c \in calls, NEW code,
         \/ c.phase = "sent" /\ code \in {"401", "refused", "lost"}
         \/ c.phase = "renewing" /\ code \in {"401", "lost"},
         code = "401" => ~Admitted(c.token),
         Reply(c, Answer(code)), UNCHANGED <<session, cache, db, ui, spent, ack, exit>>
  PROVE  IInv'
  <1>0. Typed /\ Good(c)
    BY DEF IInv, Typed
  <1>1. PICK d :
          /\ calls' = (calls \ {c}) \cup {d}
          /\ d \in CallWith(d.ans) /\ Same(c, d) /\ d.ans = Answer(code) /\ d.token = c.token
          /\ d.phase = IF c.phase = "sent" THEN "answered" ELSE "renewed"
    <2>1. PICK ans : ans = Answer(code)
      OBVIOUS
    <2> QED
      BY <1>0, <2>1, ReplyFields
  <1>2. d.ans.code = code
    BY <1>1 DEF Answer
  <1>3. Kinds(d) /\ Answers(d)
    BY <1>0, <1>1, <1>2 DEF Good, Kinds, Answers, Same
  <1>4. Unserved(d) => Unserved(c)
    BY <1>1, <1>2 DEF Unserved, Same
  <1>5. ASSUME ~leaving, user # Nobody
        PROVE  (d.token # Nobody => d.token.who = user) /\ Agrees(d)
    <2>1. Owned /\ Agrees(c)
      BY <1>5 DEF IInv, Tab, Renewals
    <2>2. c.phase = "renewing" /\ code = "401" => ~Admitted(RefreshSent)
      <3>1. SUFFICES ASSUME c.phase = "renewing", code = "401", Admitted(RefreshSent) PROVE FALSE
        OBVIOUS
      <3>2. Alive(c.token)
        BY <2>1, <3>1 DEF Agrees, Admitted, Alive
      <3>3. c.token.who = user /\ RefreshSent.who = user
        BY <1>0, <2>1, <3>1, <3>2, Tokens DEF Owned, Alive, Admitted, Typed
      <3> QED
        BY <3>1, <3>2, <3>3 DEF Admitted, Alive
    <2>3. d.token # Nobody => d.token.who = user
      BY <1>1, <2>1 DEF Owned
    <2> QED
      BY <1>1, <1>2, <2>2, <2>3 DEF Agrees
  <1> QED
    BY <1>0, <1>1, <1>3, <1>4, <1>5, SpentStays, ReplacedStep

(* An answer that tells who is signed in.                                  *)
LEMMA AdmittedStep ==
  ASSUME IInv, NEW c \in calls, NEW ans,
         \/ c.phase = "sent" /\ c.op \in {"get", "boot"}
         \/ c.phase = "renewing",
         ans.code = "ok", ans.who = c.token.who,
         c.op = "get" /\ c.phase = "sent" => ans.rows \in [Told(c.key.url) -> Nat],
         Admitted(c.token),
         Reply(c, ans), UNCHANGED <<session, cache, db, ui, spent, ack, exit>>
  PROVE  IInv'
  <1>0. Typed /\ Good(c)
    BY DEF IInv, Typed
  <1>1. PICK d :
          /\ calls' = (calls \ {c}) \cup {d}
          /\ d \in CallWith(d.ans) /\ Same(c, d) /\ d.ans = ans /\ d.token = c.token
          /\ d.phase = IF c.phase = "sent" THEN "answered" ELSE "renewed"
    BY <1>0, ReplyFields
  <1>3. Kinds(d) /\ Answers(d)
    BY <1>0, <1>1 DEF Good, Kinds, Answers, Same, Admitted
  <1>4. Unserved(d) => Unserved(c)
    BY <1>1 DEF Unserved, Same
  <1>5. ASSUME ~leaving, user # Nobody
        PROVE  (d.token # Nobody => d.token.who = user) /\ Agrees(d)
    <2>1. Owned /\ Agrees(c)
      BY <1>5 DEF IInv, Tab, Renewals
    <2>2. c.phase = "renewing" => Alive(RefreshSent)
      BY <2>1 DEF Agrees, Admitted, Alive
    <2>3. d.token # Nobody => d.token.who = user
      BY <1>1, <2>1 DEF Owned
    <2> QED
      BY <1>1, <2>2, <2>3 DEF Agrees
  <1> QED
    BY <1>0, <1>1, <1>3, <1>4, <1>5, SpentStays, ReplacedStep

(* An answer that only tells that it is done.                              *)
LEMMA DoneStep ==
  ASSUME IInv, NEW c \in calls, NEW code \in {"ok", "refused"},
         c.phase = "sent" /\ c.op \in {"login", "logout"},
         Reply(c, Answer(code)), UNCHANGED <<session, cache, db, ui, spent, ack, exit>>
  PROVE  IInv'
  <1>0. Typed /\ Good(c)
    BY DEF IInv, Typed
  <1>1. PICK d :
          /\ calls' = (calls \ {c}) \cup {d}
          /\ d \in CallWith(d.ans) /\ Same(c, d) /\ d.ans = Answer(code) /\ d.token = c.token
          /\ d.phase = IF c.phase = "sent" THEN "answered" ELSE "renewed"
    <2>1. PICK ans : ans = Answer(code)
      OBVIOUS
    <2> QED
      BY <1>0, <2>1, ReplyFields
  <1>2. d.ans.code = code
    BY <1>1 DEF Answer
  <1>3. Kinds(d) /\ Answers(d)
    BY <1>0, <1>1, <1>2 DEF Good, Kinds, Answers, Same
  <1>4. Unserved(d) => Unserved(c)
    BY <1>1, <1>2 DEF Unserved, Same
  <1>5. ASSUME ~leaving, user # Nobody
        PROVE  (d.token # Nobody => d.token.who = user) /\ Agrees(d)
    BY <1>1, <1>5 DEF IInv, Tab, Owned, Agrees
  <1> QED
    BY <1>0, <1>1, <1>3, <1>4, <1>5, SpentStays, ReplacedStep

(* A change is committed: one that waits less, one more in the tables.     *)
LEMMA CommittedStep ==
  ASSUME IInv, NEW c \in calls, c.phase = "sent", c.op = "change",
         NEW s, s = Screen[c.by].subject,
         db' = [db EXCEPT ![s] = @ + 1],
         NEW ans, ans = [code |-> "ok", count |-> db[s] + 1], Reply(c, ans),
         UNCHANGED <<session, cache, ui, spent, ack, exit>>
  PROVE  IInv'
  <1> USE DEF session, ui
  <1>0. Typed /\ Good(c) /\ Kinds(c) /\ s \in Subject
    BY ChangesOne DEF IInv, Typed, Good, Kinds
  <1>2. PICK d :
          /\ calls' = (calls \ {c}) \cup {d}
          /\ d \in CallWith(d.ans) /\ Same(c, d) /\ d.ans = ans /\ d.token = c.token
          /\ d.phase = IF c.phase = "sent" THEN "answered" ELSE "renewed"
    BY <1>0, ReplyFields
  <1>3. d.phase = "answered" /\ d.op = "change" /\ d.by = c.by /\ d.ans.code = "ok"
    BY <1>2 DEF Same
  <1>4. db \in [Subject -> Nat] /\ db' \in [Subject -> Nat] /\ db'[s] = db[s] + 1
        /\ \A t \in Subject : db[t] <= db'[t] /\ (t # s => db'[t] = db[t])
    BY <1>0 DEF Typed
  <1>5. \A x \in calls : Good(x)'
    <2>1. SUFFICES ASSUME NEW x \in calls PROVE Good(x)'
      OBVIOUS
    <2>2. Good(x)
      BY <1>0 DEF Typed
    <2>3. x.op = "change" => Screen[x.by].subject \in Subject
      BY <2>2, ChangesOne DEF Good, Kinds
    <2>4. Answers(x)'
      BY <1>4, <2>2, <2>3 DEF Good, Answers
    <2> QED
      BY <2>2, <2>4 DEF Good
  <1>6. Good(d)'
    <2>1. Kinds(d)
      BY <1>0, <1>2, <1>3 DEF Kinds, Same
    <2>2. Answers(d)'
      BY <1>0, <1>2, <1>3, <1>4 DEF Answers
    <2> QED
      BY <1>2, <2>1, <2>2 DEF Good
  <1>7. Typed'
    <2>1. \A x \in calls' : Good(x)'
      BY <1>2, <1>5, <1>6
    <2>2. \A t \in Subject : ack'[t] <= db'[t]
      BY <1>0, <1>4 DEF Typed
    <2>3. SessionTypeOK'
      BY <1>0 DEF Typed, SessionTypeOK
    <2> QED
      BY <1>0, <1>4, <2>1, <2>2, <2>3 DEF Typed, IsData, Subject, Told
  <1>8. Counted'
    <2> DEFINE S == Due
               U == Due'
    <2>1. IsFiniteSet(S) /\ c \in S
      BY DEF IInv, Counted, Due, Unserved
    <2>2. U \subseteq S \ {c}
      BY <1>2, <1>3 DEF Due, Unserved
    <2>3. IsFiniteSet(U) /\ Cardinality(U) \in Nat /\ Cardinality(S) \in Nat
          /\ Cardinality(U) <= Cardinality(S) - 1
      <3> HIDE DEF S, U
      <3>1. IsFiniteSet(S \ {c}) /\ Cardinality(S \ {c}) = Cardinality(S) - 1
        BY <2>1, FS_RemoveElement
      <3>2. IsFiniteSet(U) /\ Cardinality(U) <= Cardinality(S \ {c})
        BY <2>2, <3>1, FS_Subset
      <3> QED
        BY <2>1, <3>1, <3>2, FS_CardinalityType
    <2>4. ASSUME NEW t \in Subject PROVE db'[t] + Cardinality(U) <= spent'.press
      <3>1. db[t] + Cardinality(S) <= spent.press /\ spent' = spent
        BY DEF IInv, Counted
      <3>2. db[t] \in Nat /\ db'[t] \in Nat /\ db'[t] <= db[t] + 1 /\ spent.press \in Nat
        BY <1>0, <1>4 DEF Typed
      <3> HIDE DEF S, U
      <3> QED
        BY <2>3, <3>1, <3>2
    <2> QED
      BY <2>3, <2>4 DEF Counted, Subject
  <1>9. Awaited'
    BY <1>2 DEF IInv, Awaited, Fetched, Same
  <1>10. Entrance'
    BY <1>2 DEF IInv, Tab, Entrance, Entering, Same
  <1>11. OneOwner' /\ (~leaving' /\ user' = Nobody => Empty')
    BY <1>2 DEF IInv, Tab, OneOwner, Held, Empty, Entering
  <1>12. ~leaving' /\ user' # Nobody => Owned' /\ Renewals'
    <2>1. SUFFICES ASSUME ~leaving, user # Nobody PROVE Owned' /\ Renewals'
      OBVIOUS
    <2>2. Owned /\ Renewals
      BY <2>1 DEF IInv, Tab
    <2>3. \A x : Agrees(x) => Agrees(x)'
      BY Zenon DEF Agrees, RefreshSent, Admitted
    <2>4. Agrees(d)
      BY <1>3 DEF Agrees
    <2>5. Renewals'
      BY <1>2, <2>2, <2>3, <2>4 DEF Renewals
    <2>6. Owned'
      BY <1>2, <2>2 DEF Owned, Held
    <2> QED
      BY <2>5, <2>6
  <1>13. Clean'
    BY <1>2, <1>3 DEF IInv, Clean, Entering
  <1>14. Fitting'
    BY <1>2 DEF IInv, Fitting, Same, ListKeys, KeyOf, Key
  <1> QED
    BY <1>7, <1>8, <1>9, <1>10, <1>11, <1>12, <1>13, <1>14 DEF IInv, Tab

LEMMA ServeStep == ASSUME IInv, Serve PROVE IInv'
  <1>1. UNCHANGED <<session, cache, ui, spent, ack, exit>>
    BY DEF Serve
  <1>2. PICK c \in calls :
          \/ ServeGet(c) \/ ServeChange(c) \/ ServeLogin(c) \/ ServeLogout(c) \/ ServeRenewal(c)
    BY DEF Serve
  <1>3. Typed
    BY DEF IInv
  <1>4. CASE ServeGet(c)
    <2>1. c.phase = "sent" /\ c.op \in {"get", "boot"} /\ UNCHANGED db
      BY <1>4 DEF ServeGet
    <2>2. CASE Admitted(c.token)
      <3>1. PICK ans : ans = [code |-> "ok", who |-> c.token.who,
                              rows |-> IF c.op = "get" THEN Reads(c.key.url) ELSE <<>>]
        OBVIOUS
      <3>2. Reply(c, ans)
        BY <1>4, <2>2, <3>1 DEF ServeGet
      <3>3. Reads(c.key.url) \in [Told(c.key.url) -> Nat]
        BY <1>3 DEF Reads, Typed, Told
      <3> QED
        BY <1>1, <2>1, <2>2, <3>1, <3>2, <3>3, AdmittedStep
    <2>3. CASE ~Admitted(c.token)
      <3>1. Reply(c, Answer("401"))
        BY <1>4, <2>3 DEF ServeGet
      <3> QED
        BY <1>1, <2>1, <2>3, <3>1, RefusedStep
    <2> QED
      BY <2>2, <2>3
  <1>5. CASE ServeChange(c)
    <2>1. c.phase = "sent" /\ c.op = "change"
      BY <1>5 DEF ServeChange
    <2>2. PICK s : s = Screen[c.by].subject
      OBVIOUS
    <2>3. CASE db' = [db EXCEPT ![s] = @ + 1] /\ Reply(c, [code |-> "ok", count |-> db[s] + 1])
      <3>1. PICK ans : ans = [code |-> "ok", count |-> db[s] + 1]
        OBVIOUS
      <3>2. Reply(c, ans)
        BY <2>3, <3>1
      <3> QED
        BY <1>1, <2>1, <2>2, <2>3, <3>1, <3>2, CommittedStep
    <2>4. CASE Reply(c, Answer(IF Admitted(c.token) THEN "refused" ELSE "401")) /\ UNCHANGED db
      <3>1. PICK code : code = IF Admitted(c.token) THEN "refused" ELSE "401"
        OBVIOUS
      <3>2. Reply(c, Answer(code))
        BY <2>4, <3>1
      <3> QED
        BY <1>1, <2>1, <2>4, <3>1, <3>2, RefusedStep
    <2> QED
      BY <1>5, <2>2, <2>3, <2>4 DEF ServeChange
  <1>6. CASE ServeLogin(c)
    <2>1. PICK code \in {"ok", "refused"} : code = IF c.by \in active THEN "ok" ELSE "refused"
      OBVIOUS
    <2>2. Reply(c, Answer(code))
      BY <1>6, <2>1 DEF ServeLogin
    <2> QED
      BY <1>1, <1>6, <2>2, DoneStep DEF ServeLogin
  <1>7. CASE ServeLogout(c)
    <2>1. PICK code \in {"ok", "refused"} : code = "ok"
      OBVIOUS
    <2>2. Reply(c, Answer(code))
      BY <1>7, <2>1 DEF ServeLogout
    <2> QED
      BY <1>1, <1>7, <2>2, DoneStep DEF ServeLogout
  <1>8. CASE ServeRenewal(c)
    <2>1. c.phase = "renewing" /\ UNCHANGED db
      BY <1>8 DEF ServeRenewal
    <2>2. CASE Admitted(c.token)
      <3>1. PICK ans : ans = [code |-> "ok", who |-> c.token.who]
        OBVIOUS
      <3>2. Reply(c, ans)
        BY <1>8, <2>2, <3>1 DEF ServeRenewal
      <3> QED
        BY <1>1, <2>1, <2>2, <3>1, <3>2, AdmittedStep
    <2>3. CASE ~Admitted(c.token)
      <3>1. Reply(c, Answer("401"))
        BY <1>8, <2>3 DEF ServeRenewal
      <3> QED
        BY <1>1, <2>1, <2>3, <3>1, RefusedStep
    <2> QED
      BY <2>2, <2>3
  <1> QED
    BY <1>2, <1>4, <1>5, <1>6, <1>7, <1>8

-----------------------------------------------------------------------------
(* The network and the interceptor.                                        *)

LEMMA LoseStep == ASSUME IInv, Lose PROVE IInv'
  <1>0. Typed
    BY DEF IInv
  <1>1. /\ UNCHANGED <<session, cache, db, ui, ack, exit>>
        /\ spent' \in [act : Nat, press : Nat, event : Nat] /\ spent'.press = spent.press
    BY <1>0, SpentActs DEF Lose
  <1>2. PICK c \in calls, f \in Phase :
          /\ f = IF c.phase \in {"sent", "answered"} THEN "answered" ELSE "renewed"
          /\ calls' = (calls \ {c}) \cup {[c EXCEPT !.phase = f, !.ans = Answer("lost")]}
    BY DEF Lose, Phase
  <1>3. Good(c)
    BY <1>0 DEF Typed
  <1>4. PICK ans : ans = Answer("lost")
    OBVIOUS
  <1>5. PICK d : d = [c EXCEPT !.phase = f, !.ans = ans]
    OBVIOUS
  <1>6. /\ d \in CallWith(d.ans) /\ Same(c, d)
        /\ d.phase = f /\ d.ans = ans /\ d.token = c.token
    <2>1. c \in CallWith(c.ans)
      BY <1>3 DEF Good
    <2>2. f \in Phase
      BY <1>2 DEF Phase
    <2>3. /\ Same(c, d) /\ d.phase = f /\ d.ans = ans /\ d.token = c.token
          /\ d.again = c.again
      BY <1>5, <2>1 DEF CallWith, Same
    <2>4. d \in CallWith(d.ans)
      BY <1>5, <2>1, <2>2, <2>3 DEF CallWith, Same
    <2> QED
      BY <2>3, <2>4
  <1>7. calls' = (calls \ {c}) \cup {d}
    BY <1>2, <1>4, <1>5
  <1>8. d.ans.code = "lost"
    BY <1>4, <1>6 DEF Answer
  <1>9. Kinds(d) /\ Answers(d)
    BY <1>2, <1>3, <1>6, <1>8 DEF Good, CallWith, Phase, Kinds, Answers, Same
  <1>10. Unserved(d) => Unserved(c)
    BY <1>2, <1>6, <1>8 DEF Unserved, Same
  <1>11. ASSUME ~leaving, user # Nobody
         PROVE  (d.token # Nobody => d.token.who = user) /\ Agrees(d)
    BY <1>2, <1>6, <1>8, <1>11 DEF IInv, Tab, Owned, Agrees
  <1> QED
    BY <1>1, <1>6, <1>7, <1>9, <1>10, <1>11, ReplacedStep

LEMMA RenewStep == ASSUME IInv, NEW c \in calls, Renew(c), UNCHANGED spent PROVE IInv'
  <1>0. Typed /\ Good(c) /\ SessionTypeOK
    BY DEF IInv, Typed
  <1>1. PICK t \in Token \cup {Nobody} : t = RefreshSent
    BY <1>0, Tokens
  <1>2. PICK d :
          d = [c EXCEPT !.phase = "renewing", !.again = TRUE, !.token = t, !.ans = NoAnswer]
    OBVIOUS
  <1>3. calls' = (calls \ {c}) \cup {d}
    BY <1>1, <1>2 DEF Renew
  <1>4. /\ d \in CallWith(d.ans)
        /\ d.op = c.op /\ d.by = c.by /\ d.key = c.key /\ d.phase = "renewing"
        /\ d.token = t /\ d.ans = NoAnswer /\ d.crossed = c.crossed /\ d.mine = c.mine
    <2>1. c \in CallWith(c.ans)
      BY <1>0 DEF Good
    <2>2. /\ d.op = c.op /\ d.by = c.by /\ d.key = c.key /\ d.phase = "renewing"
          /\ d.token = t /\ d.ans = NoAnswer /\ d.crossed = c.crossed /\ d.mine = c.mine
          /\ d.again = TRUE
      BY <1>2, <2>1 DEF CallWith
    <2>3. d \in CallWith(d.ans)
      BY <1>2, <2>1, <2>2 DEF CallWith, Phase
    <2> QED
      BY <2>2, <2>3
  <1>5. c.op \in {"get", "change"} /\ c.phase = "answered" /\ c.ans.code = "401"
    BY DEF Renew
  <1>6. d.ans.code = "none"
    BY <1>4 DEF NoAnswer
  <1>7. Kinds(d) /\ Answers(d)
    BY <1>0, <1>4, <1>5, <1>6 DEF Good, Kinds, Answers
  <1>8. Unserved(d) => Unserved(c)
    BY <1>4, <1>5 DEF Unserved
  <1>9. ASSUME ~leaving, user # Nobody
        PROVE  (d.token # Nobody => d.token.who = user) /\ Agrees(d)
    <2>1. Owned
      BY <1>9 DEF IInv, Tab
    <2>2. d.token # Nobody => d.token.who = user
      BY <1>0, <1>1, <1>4, <2>1, Tokens DEF Owned
    <2> QED
      BY <1>1, <1>4, <2>2 DEF Agrees
  <1>10. UNCHANGED <<session, cache, db, ui, ack, exit>>
    BY DEF Renew
  <1> QED
    <2>1. Same(c, d)
      BY <1>4 DEF Same
    <2>2. c.op = "boot" => d.token = c.token
      BY <1>5
    <2>3. /\ spent' \in [act : Nat, press : Nat, event : Nat]
          /\ spent'.press = spent.press
      BY <1>0, SpentStays
    <2> QED
      BY <1>0, <1>3, <1>4, <1>7, <1>8, <1>9, <1>10, <2>1, <2>2, <2>3, ReplacedStep

(* The answer to a renewal: the tokens are new, and of the same owner.     *)
LEMMA RenewedStep == ASSUME IInv, NEW c \in calls, Renewed(c), UNCHANGED spent PROVE IInv'
  <1> USE DEF session, ui
  <1>0. Typed /\ Good(c) /\ SessionTypeOK
    BY DEF IInv, Typed
  <1>1. c.phase = "renewed" /\ c.ans.code = "ok"
    BY DEF Renewed
  <1>2. PICK a : a = c.ans.who
    OBVIOUS
  <1>3. c.token # Nobody /\ a = c.token.who /\ a \in Account
    BY <1>0, <1>1, <1>2 DEF Good, Answers, CallWith, Token
  <1>4. jar' = SignedPair(a) /\ store' = SignedPair(a)
    BY <1>2 DEF Renewed, TakeTokens
  <1>5. PICK t : t = jar'.access
    OBVIOUS
  <1>6. t = [who |-> a, live |-> TRUE] /\ t \in Token /\ RefreshSent' = t /\ Held' = {t}
    <2>1. PICK w : w = [who |-> a, live |-> TRUE]
      OBVIOUS
    <2>2. w \in Token /\ w # Nobody
      <3>1. w \in Token
        BY <1>3, <2>1 DEF Token
      <3>2. Nobody \notin Token
        BY Zenon, NobodyAssumption DEF NobodyAssumption
      <3> QED
        BY <3>1, <3>2
    <2>3. SignedPair(a) = [access |-> w, refresh |-> w]
      BY <2>1 DEF SignedPair
    <2>4. jar'.access = w /\ jar'.refresh = w /\ store'.access = w /\ store'.refresh = w
      BY <1>4, <2>3
    <2> QED
      BY <1>5, <2>1, <2>2, <2>4 DEF RefreshSent, Prefer, Held
  <1>7. PICK d : d = [c EXCEPT !.phase = "sent", !.token = t, !.ans = NoAnswer]
    OBVIOUS
  <1>8. calls' = (calls \ {c}) \cup {d}
    BY <1>5, <1>7 DEF Renewed
  <1>9. /\ d \in CallWith(d.ans)
        /\ d.op = c.op /\ d.by = c.by /\ d.key = c.key /\ d.phase = "sent"
        /\ d.token = t /\ d.ans = NoAnswer /\ d.crossed = c.crossed /\ d.mine = c.mine
    <2>1. t \in Token \cup {Nobody} /\ c \in CallWith(c.ans)
      BY <1>0, <1>6 DEF Good
    <2>2. /\ d.op = c.op /\ d.by = c.by /\ d.key = c.key /\ d.phase = "sent"
          /\ d.token = t /\ d.ans = NoAnswer /\ d.crossed = c.crossed /\ d.mine = c.mine
          /\ d.again = c.again
      BY <1>7, <2>1 DEF CallWith
    <2>3. d \in CallWith(d.ans)
      BY <1>7, <2>1, <2>2 DEF CallWith, Phase
    <2> QED
      BY <2>2, <2>3
  <1>10. d.ans.code = "none"
    BY <1>9 DEF NoAnswer
  <1>11. UNCHANGED <<active, flag, user, leaving, cache, db, ui, ack>>
         /\ exit' = (IF leaving THEN "kept" ELSE exit)
    BY DEF Renewed
  <1>12. Good(d)
    BY <1>0, <1>9, <1>10 DEF Good, Kinds, Answers
  <1>13. Typed'
    <2>1. \A x \in calls' : Good(x)'
      BY <1>0, <1>8, <1>11, <1>12, GoodStays DEF Typed
    <2>2. SessionTypeOK'
      BY <1>0, <1>4, <1>11, <1>3 DEF SessionTypeOK, SignedPair, Pair, Token
    <2> QED
      BY <1>0, <1>11, <2>1, <2>2 DEF Typed, IsData
  <1>14. Counted'
    <2>1. Unserved(d) => Unserved(c)
      BY <1>1, <1>9 DEF Unserved
    <2> QED
      BY <1>0, <1>8, <1>11, <2>1, SpentStays, ReplacedCounted DEF IInv, Typed
  <1>15. Awaited'
    BY <1>8, <1>9, <1>11 DEF IInv, Awaited, Fetched
  <1>16. Entrance' /\ OneOwner'
    BY <1>6, <1>8, <1>9, <1>11 DEF IInv, Tab, Entrance, OneOwner, Entering
  <1>17. ~leaving => user # Nobody
    <2>1. c \notin Entering
      BY <1>0, <1>1 DEF Entering, Good, Kinds
    <2> QED
      BY <2>1 DEF IInv, Tab, Empty
  <1>18. ~leaving' /\ user' # Nobody => Owned' /\ Renewals'
    <2>1. SUFFICES ASSUME ~leaving, user # Nobody PROVE Owned' /\ Renewals'
      BY <1>11
    <2>2. Owned /\ Renewals
      BY <2>1 DEF IInv, Tab
    <2>3. a = user
      BY <1>3, <2>2 DEF Owned
    <2>4. Alive(RefreshSent) /\ Alive(t)
      <3>1. Alive(RefreshSent)
        BY <1>1, <2>2 DEF Renewals, Agrees
      <3>2. t # Nobody
        BY <1>4, <1>5, <1>6, <1>3, <3>1, NobodyAssumption DEF Token, Alive, RefreshSent, Prefer, Held
      <3> QED
        BY <1>6, <3>1, <3>2 DEF Alive
    <2>5. RefreshSent.who = user
      BY <1>0, <2>2, <2>4, Tokens DEF Owned, Alive
    <2>6. Admitted(RefreshSent)' => Admitted(RefreshSent)
      BY <1>6, <1>11, <2>3, <2>4, <2>5 DEF Admitted, Alive
    <2>7. Alive(RefreshSent)'
      BY <1>6, <2>4 DEF Alive
    <2>8. \A x \in calls : Agrees(x)'
      BY <2>2, <2>4, <2>6, <2>7 DEF Renewals, Agrees, Alive
    <2>9. Agrees(d)'
      BY <1>9 DEF Agrees
    <2>10. Renewals'
      BY <1>8, <2>8, <2>9 DEF Renewals
    <2>11. Owned'
      BY <1>6, <1>8, <1>9, <1>11, <2>2, <2>3 DEF Owned
    <2> QED
      BY <2>10, <2>11
  <1>19. Clean'
    BY <1>8, <1>11, <1>4 DEF IInv, Clean
  <1>20. Fitting'
    BY <1>8, <1>9, <1>11 DEF IInv, Fitting, ListKeys, KeyOf, Key
  <1> QED
    BY <1>11, <1>13, <1>14, <1>15, <1>16, <1>17, <1>18, <1>19, <1>20 DEF IInv, Tab

-----------------------------------------------------------------------------
(* Answers that end a request.                                             *)

(* The requests are the same or fewer, and those of them that the page     *)
(* awaits are still there.                                                 *)
LEMMA FewerTab ==
  ASSUME Typed, Tab, calls' \subseteq calls,
         UNCHANGED <<session, cache, page, shown>>
  PROVE  Tab'
  <1> USE DEF session
  <1>1. OneOwner' /\ Entrance'
    BY DEF Tab, OneOwner, Held, Entrance, Entering
  <1>2. Empty => Empty'
    BY DEF Empty, Entering, Held
  <1>3. Owned => Owned'
    BY DEF Owned, Held
  <1>4. Renewals => Renewals'
    <2>1. \A x : Agrees(x) => Agrees(x)'
      BY Zenon DEF Agrees, RefreshSent, Admitted
    <2> QED
      BY <2>1 DEF Renewals
  <1> QED
    BY <1>1, <1>2, <1>3, <1>4 DEF Tab

LEMMA FailedStep == ASSUME IInv, NEW c \in calls, Failed(c), UNCHANGED spent PROVE IInv'
  <1> USE DEF session
  <1>0. /\ Typed /\ calls' = calls \ {c}
        /\ UNCHANGED <<session, cache, db, page, filter, shown, due, ack, exit>>
    BY DEF IInv, Failed
  <1>1. \/ waits' = waits /\ mishap' = mishap /\ (c.op = "get" => c.key \notin waits)
        \/ waits' = waits \ {c.key} /\ mishap' # {}
    BY DEF Failed
  <1>2. Typed'
    <2>1. \A x \in calls' : Good(x)'
      BY <1>0, GoodStays DEF Typed
    <2> QED
      BY <1>0, <2>1 DEF Typed, SessionTypeOK, IsData
  <1>3. Counted'
    BY <1>0, <1>2, FewerCounted, SpentStays DEF IInv, Typed
  <1>4. Awaited'
    BY <1>0, <1>1 DEF IInv, Awaited, Fetched
  <1>5. Tab'
    BY <1>0, FewerTab DEF IInv
  <1>6. Clean'
    BY <1>0 DEF IInv, Clean, Entering
  <1>7. Fitting'
    <2>1. ListKeys(page, filter)' = ListKeys(page, filter)
      BY <1>0 DEF ListKeys, KeyOf
    <2> QED
      BY <1>0, <1>1, <2>1 DEF IInv, Fitting
  <1> QED
    BY <1>2, <1>3, <1>4, <1>5, <1>6, <1>7 DEF IInv

(* An answer for the page: known, and shown when it was awaited.           *)
LEMMA GetFacts ==
  ASSUME Typed, NEW c \in calls, ArriveGet(c)
  PROVE  \E data :
         /\ data = [who |-> c.ans.who, rows |-> c.ans.rows, crossed |-> c.crossed]
         /\ c.key \in [url : Url, filter : Filter \cup {Plain}]
         /\ IsData(c.key.url, data)
         /\ c.token # Nobody /\ data.who = c.token.who
         /\ calls' = calls \ {c} /\ waits' = waits \ {c.key}
         /\ DOMAIN cache' = DOMAIN cache \cup {c.key}
         /\ cache'[c.key] = data
         /\ \A k \in DOMAIN cache : k # c.key => cache'[k] = cache[k]
         /\ IF c.key \in waits
            THEN /\ DOMAIN shown' = DOMAIN shown \cup {c.key.url}
                 /\ shown'[c.key.url] = [data |-> data, filter |-> c.key.filter]
                 /\ \A u \in DOMAIN shown : u # c.key.url => shown'[u] = shown[u]
            ELSE shown' = shown
  <1>1. PICK data : data = [who |-> c.ans.who, rows |-> c.ans.rows, crossed |-> c.crossed]
    OBVIOUS
  <1>2. Good(c) /\ c.op = "get" /\ c.phase = "answered" /\ c.ans.code = "ok"
    BY DEF Typed, ArriveGet
  <1>3. c.key \in [url : Url, filter : Filter \cup {Plain}]
    <2>1. c \in CallWith(c.ans) /\ c.key.url \in Url
      BY <1>2 DEF Good, Kinds
    <2> QED
      BY <2>1 DEF CallWith
  <1>4. IsData(c.key.url, data)
    BY <1>1, <1>2 DEF Good, CallWith, Answers, IsData
  <1>5. c.token # Nobody /\ data.who = c.token.who
    BY <1>1, <1>2 DEF Good, Answers
  <1>6. PICK g : g = [k \in {c.key} |-> data]
    OBVIOUS
  <1>7. cache' = With(cache, g) /\ calls' = calls \ {c} /\ waits' = waits \ {c.key}
    BY <1>1, <1>6 DEF ArriveGet
  <1>8. PICK h : h = [u \in {c.key.url} |-> [data |-> data, filter |-> c.key.filter]]
    OBVIOUS
  <1>9. shown' = IF c.key \in waits THEN With(shown, h) ELSE shown
    BY <1>1, <1>8 DEF ArriveGet
  <1>10. /\ DOMAIN cache' = DOMAIN cache \cup {c.key}
         /\ cache'[c.key] = data
         /\ \A k \in DOMAIN cache : k # c.key => cache'[k] = cache[k]
    BY <1>6, <1>7 DEF With
  <1>11. c.key \in waits =>
           /\ DOMAIN shown' = DOMAIN shown \cup {c.key.url}
           /\ shown'[c.key.url] = [data |-> data, filter |-> c.key.filter]
           /\ \A u \in DOMAIN shown : u # c.key.url => shown'[u] = shown[u]
    BY <1>8, <1>9 DEF With
  <1> QED
    BY <1>1, <1>3, <1>4, <1>5, <1>7, <1>9, <1>10, <1>11

LEMMA ArriveGetStep == ASSUME IInv, NEW c \in calls, ArriveGet(c), UNCHANGED spent PROVE IInv'
  <1> USE DEF session
  <1>0. /\ Typed /\ c.op = "get"
        /\ UNCHANGED <<session, db, page, filter, due, mishap, ack, exit>>
    BY DEF IInv, ArriveGet
  <1>1. PICK data :
         /\ data = [who |-> c.ans.who, rows |-> c.ans.rows, crossed |-> c.crossed]
         /\ c.key \in [url : Url, filter : Filter \cup {Plain}]
         /\ IsData(c.key.url, data)
         /\ c.token # Nobody /\ data.who = c.token.who
         /\ calls' = calls \ {c} /\ waits' = waits \ {c.key}
         /\ DOMAIN cache' = DOMAIN cache \cup {c.key}
         /\ cache'[c.key] = data
         /\ \A k \in DOMAIN cache : k # c.key => cache'[k] = cache[k]
         /\ IF c.key \in waits
            THEN /\ DOMAIN shown' = DOMAIN shown \cup {c.key.url}
                 /\ shown'[c.key.url] = [data |-> data, filter |-> c.key.filter]
                 /\ \A u \in DOMAIN shown : u # c.key.url => shown'[u] = shown[u]
            ELSE shown' = shown
    BY <1>0, GetFacts
  <1>2. Typed'
    <2>1. \A x \in calls' : Good(x)'
      BY <1>0, <1>1, GoodStays DEF Typed
    <2>2. \A k \in DOMAIN cache' : IsData(k.url, cache'[k])
      BY <1>0, <1>1 DEF Typed
    <2>3. DOMAIN cache' \subseteq [url : Url, filter : Filter \cup {Plain}]
      BY <1>0, <1>1 DEF Typed
    <2> QED
      BY <1>0, <2>1, <2>2, <2>3 DEF Typed, SessionTypeOK, IsData
  <1>3. Counted'
    BY <1>0, <1>1, <1>2, FewerCounted, SpentStays DEF IInv, Typed
  <1>4. Awaited'
    <2>1. {k.url : k \in waits'} \subseteq DOMAIN due'
      BY <1>0, <1>1 DEF IInv, Awaited
    <2>2. DOMAIN shown' \subseteq DOMAIN due'
      BY <1>0, <1>1 DEF IInv, Awaited
    <2>3. waits' \subseteq {x.key : x \in Fetched'}
      BY <1>0, <1>1 DEF IInv, Awaited, Fetched
    <2> QED
      BY <2>1, <2>2, <2>3 DEF Awaited
  <1>5. Tab'
    <2>1. OneOwner' /\ Entrance'
      BY <1>0, <1>1 DEF IInv, Tab, OneOwner, Held, Entrance, Entering
    <2>2. ~(~leaving /\ user = Nobody)
      BY <1>0 DEF IInv, Tab, Empty, Entering
    <2>3. ASSUME ~leaving, user # Nobody PROVE Owned' /\ Renewals'
      <3>1. Owned /\ Renewals
        BY <2>3 DEF IInv, Tab
      <3>2. data.who = user
        BY <1>1, <3>1 DEF Owned
      <3>3. \A k \in DOMAIN cache' : cache'[k].who = user
        BY <1>1, <3>1, <3>2 DEF Owned
      <3>4. \A u \in DOMAIN shown' : shown'[u].data.who = user
        BY <1>1, <3>1, <3>2 DEF Owned
      <3>5. Owned'
        BY <1>0, <1>1, <3>1, <3>3, <3>4 DEF Owned, Held
      <3>6. \A x : Agrees(x) => Agrees(x)'
        BY <1>0, Zenon DEF Agrees, RefreshSent, Admitted
      <3> QED
        BY <1>1, <3>1, <3>5, <3>6 DEF Renewals
    <2> QED
      BY <1>0, <2>1, <2>2, <2>3 DEF Tab
  <1>6. Clean'
    BY <1>0, <1>1 DEF IInv, Clean, Entering
  <1>7. Fitting'
    <2>1. ListKeys(page, filter)' = ListKeys(page, filter)
      BY <1>0 DEF ListKeys, KeyOf
    <2>2. SUFFICES ASSUME page # Nobody, mishap = {}, NEW k \in ListKeys(page, filter)
          PROVE  /\ k \in waits' \/ (k.url \in DOMAIN shown' /\ shown'[k.url].filter = k.filter)
                 /\ \A w \in waits' : w.url = k.url => w = k
      BY <1>0, <1>1, <2>1 DEF IInv, Fitting
    <2>3. /\ k \in waits \/ (k.url \in DOMAIN shown /\ shown[k.url].filter = k.filter)
          /\ \A w \in waits : w.url = k.url => w = k
      BY <2>2 DEF IInv, Fitting
    <2> QED
      BY <1>1, <2>3
  <1> QED
    BY <1>2, <1>3, <1>4, <1>5, <1>6, <1>7 DEF IInv

-----------------------------------------------------------------------------
(* A new page.                                                             *)

LEMMA ReloadedStep ==
  ASSUME IInv, NEW marked \in BOOLEAN, NEW t \in Token \cup {Nobody}, Reloaded(marked, t),
         SessionTypeOK', OneOwner', db' = db, ack' = ack, exit' \in {"none", "clean", "kept"},
         spent' \in [act : Nat, press : Nat, event : Nat], spent'.press = spent.press,
         ~marked => (t # Nobody => \A w \in Held' : w.who = t.who),
         exit' = "clean" => flag' /\ marked /\ store' = NoPair /\ jar' = NoPair
  PROVE  IInv'
  <1>0. Typed
    BY DEF IInv
  <1>1. PICK b : b = Call("boot", Nobody, NoKey, t)
    OBVIOUS
  <1>2. /\ Good(b)
        /\ b.op = "boot" /\ b.by = Nobody /\ b.phase = "sent" /\ b.token = t /\ b.ans.code = "none"
    BY <1>1, OwnCallGood
  <1>3. /\ DOMAIN cache' = {} /\ calls' = (IF marked THEN {} ELSE {b})
        /\ user' = Nobody /\ leaving' = FALSE
        /\ page' = Nobody /\ filter' = Default
        /\ waits' = {} /\ DOMAIN shown' = {} /\ mishap' = {}
    BY <1>1 DEF Reloaded, NoPage
  <1>4. Typed'
    <2>1. \A x \in calls' : Good(x)'
      BY <1>2, <1>3, GoodStays
    <2>2. filter' \in Filter
      BY <1>3, PageAssumption
    <2> QED
      BY <1>0, <1>3, <2>1, <2>2 DEF Typed
  <1>5. Counted'
    <2>1. Due' = {}
      BY <1>2, <1>3 DEF Due, Unserved
    <2>2. PICK f : f = [x \in Due |-> x]
      OBVIOUS
    <2>3. Due' \subseteq {f[y] : y \in Due}
      BY <2>1
    <2>4. spent'.press \in Nat /\ spent.press <= spent'.press
      BY <1>0 DEF Typed
    <2> QED
      BY <1>0, <2>3, <2>4, CountedStep DEF IInv
  <1>6. Awaited'
    BY <1>3 DEF Awaited
  <1>7. Entrance'
    BY <1>2, <1>3 DEF Entrance, Entering
  <1>8. Empty'
    BY <1>2, <1>3 DEF Empty, Entering
  <1>9. Tab'
    BY <1>3, <1>7, <1>8 DEF Tab
  <1>10. Clean'
    BY <1>2, <1>3 DEF Clean, Entering
  <1>11. Fitting'
    BY <1>2, <1>3 DEF Fitting
  <1> QED
    BY <1>4, <1>5, <1>6, <1>9, <1>10, <1>11 DEF IInv

LEMMA NoneHeld == ASSUME store' = NoPair, jar' = jar, OneOwner
                  PROVE  OneOwner' /\ Held' \subseteq Held /\ (jar = NoPair => Held' = {})
  BY DEF OneOwner, Held, NoPair

LEMMA ForcedOutStep == ASSUME IInv, NEW c \in calls, ForcedOut(c), UNCHANGED spent PROVE IInv'
  <1>0. Typed /\ SessionTypeOK /\ OneOwner
    BY DEF IInv, Typed, Tab
  <1>1. /\ store' = NoPair /\ flag' = TRUE /\ Reloaded(TRUE, Nobody) /\ exit' = "none"
        /\ UNCHANGED <<active, jar, db, ack>>
    BY DEF ForcedOut, ForgetStored
  <1>2. SessionTypeOK'
    <2>1. user' = Nobody /\ leaving' = FALSE
      BY <1>1 DEF Reloaded
    <2> QED
      BY <1>0, <1>1, <2>1 DEF SessionTypeOK, NoPair, Pair
  <1>3. PICK marked \in BOOLEAN, t \in Token \cup {Nobody} : marked = TRUE /\ t = Nobody
    OBVIOUS
  <1>4. Reloaded(marked, t)
    BY <1>1, <1>3
  <1> QED
    BY <1>0, <1>1, <1>2, <1>3, <1>4, NoneHeld, SpentStays, ReloadedStep

LEMMA ArriveLogoutStep == ASSUME IInv, NEW c \in calls, ArriveLogout(c), UNCHANGED spent PROVE IInv'
  <1>0. Typed /\ SessionTypeOK /\ OneOwner /\ Clean
    BY DEF IInv, Typed, Tab
  <1>1. /\ jar' = (IF c.ans.code = "ok" THEN NoPair ELSE jar)
        /\ exit' = (IF exit = "clean" /\ c.ans.code # "ok" THEN "kept" ELSE exit)
        /\ UNCHANGED <<active, store, flag, db, ack>>
    BY DEF ArriveLogout, ClearCookies
  <1>2. PICK marked \in BOOLEAN : marked = flag
    BY <1>0 DEF SessionTypeOK
  <1>3. PICK t : t = Prefer(jar'.access, store.access)
    OBVIOUS
  <1>4. Reloaded(marked, t)
    BY <1>2, <1>3 DEF ArriveLogout
  <1>5. SessionTypeOK' /\ t \in Token \cup {Nobody} /\ Held' \subseteq Held
        /\ (t # Nobody => t \in Held')
    <2>1. user' = Nobody /\ leaving' = FALSE
      BY <1>4 DEF Reloaded
    <2>2. jar' \in Pair /\ store' \in Pair
      BY <1>0, <1>1 DEF SessionTypeOK, Pair, NoPair
    <2>3. SessionTypeOK'
      BY <1>0, <1>1, <2>1, <2>2 DEF SessionTypeOK
    <2>4. t \in Token \cup {Nobody} /\ (t # Nobody => t \in Held')
      BY <1>1, <1>3, <2>2 DEF Prefer, Pair, Held
    <2>5. Held' \subseteq Held
      BY <1>1 DEF Held, NoPair
    <2> QED
      BY <2>3, <2>4, <2>5
  <1>6. OneOwner' /\ (t # Nobody => \A w \in Held' : w.who = t.who)
    BY <1>0, <1>5 DEF OneOwner
  <1>7. exit' = "clean" => flag' /\ marked /\ store' = NoPair /\ jar' = NoPair
    BY <1>0, <1>1, <1>2 DEF Clean
  <1>8. exit' \in {"none", "clean", "kept"}
    BY <1>0, <1>1 DEF Typed
  <1> QED
    BY <1>0, <1>1, <1>4, <1>5, <1>6, <1>7, <1>8, SpentStays, ReloadedStep

LEMMA ReloadStep == ASSUME IInv, Reload PROVE IInv'
  <1>0. Typed /\ SessionTypeOK /\ OneOwner /\ Clean
    BY DEF IInv, Typed, Tab
  <1>1. /\ exit' = (IF leaving THEN "kept" ELSE exit)
        /\ UNCHANGED <<active, jar, store, flag, db, ack>>
    BY DEF Reload
  <1>2. PICK marked \in BOOLEAN : marked = flag
    BY <1>0 DEF SessionTypeOK
  <1>3. PICK t \in Token \cup {Nobody} : t = AccessSent
    BY <1>0, Tokens
  <1>4. Reloaded(marked, t)
    BY <1>2, <1>3 DEF Reload
  <1>5. SessionTypeOK'
    <2>1. user' = Nobody /\ leaving' = FALSE
      BY <1>4 DEF Reloaded
    <2> QED
      BY <1>0, <1>1, <2>1 DEF SessionTypeOK
  <1>6. Held' = Held /\ OneOwner'
    BY <1>0, <1>1 DEF Held, OneOwner
  <1>7. t # Nobody => \A w \in Held' : w.who = t.who
    BY <1>0, <1>3, <1>6, Tokens DEF OneOwner
  <1>8. exit' = "clean" => flag' /\ marked /\ store' = NoPair /\ jar' = NoPair
    BY <1>0, <1>1, <1>2 DEF Clean
  <1>9. exit' \in {"none", "clean", "kept"}
    BY <1>0, <1>1 DEF Typed
  <1>10. Act
    BY DEF Reload
  <1> QED
    BY <1>0, <1>1, <1>4, <1>5, <1>6, <1>7, <1>8, <1>9, <1>10, SpentActs, ReloadedStep

-----------------------------------------------------------------------------
(* Signing in and out.                                                     *)

LEMMA ArriveBootStep == ASSUME IInv, NEW c \in calls, ArriveBoot(c), UNCHANGED spent PROVE IInv'
  <1> USE DEF ui
  <1>0. /\ Typed /\ Good(c) /\ Entrance /\ OneOwner
        /\ c.op = "boot" /\ c.phase = "answered" /\ calls' = calls \ {c}
        /\ user' = (IF c.ans.code = "ok" THEN c.ans.who ELSE c.by)
        /\ UNCHANGED <<active, jar, store, flag, leaving, cache, db, ui, ack, exit>>
    BY DEF IInv, Typed, Tab, ArriveBoot
  <1>1. user = Nobody /\ c \in Entering /\ Entering' = {}
    BY <1>0 DEF Entrance, Entering
  <1>2. /\ c.ans.code = "ok" => c.token # Nobody /\ c.ans.who = c.token.who /\ c.ans.who \in Account
        /\ c.by \in Account \cup {Nobody}
    BY <1>0 DEF Good, Kinds, Answers, CallWith, Token
  <1>3. Typed'
    <2>1. \A x \in calls' : Good(x)'
      BY <1>0, GoodStays DEF Typed
    <2>2. SessionTypeOK'
      BY <1>0, <1>2 DEF Typed, SessionTypeOK
    <2> QED
      BY <1>0, <2>1, <2>2 DEF Typed, IsData
  <1>4. Counted'
    BY <1>0, <1>3, FewerCounted, SpentStays DEF IInv, Typed
  <1>5. Awaited'
    BY <1>0 DEF IInv, Awaited, Fetched
  <1>6. Tab'
    <2>1. OneOwner' /\ Entrance' /\ Held' = Held
      BY <1>0, <1>1 DEF OneOwner, Held, Entrance
    <2>2. ASSUME ~leaving
          PROVE  /\ user' = Nobody => Empty'
                 /\ user' # Nobody => Owned' /\ Renewals'
      <3>1. Empty
        BY <1>1, <2>2 DEF IInv, Tab
      <3>2. calls' = {}
        BY <1>0, <1>1, <3>1 DEF Empty, Entrance
      <3>3. Empty'
        BY <1>0, <3>1, <3>2 DEF Empty
      <3>4. user' # Nobody => \A t \in Held : t.who = user'
        BY <1>0, <1>2, <3>1 DEF Empty
      <3>5. user' # Nobody => Owned'
        BY <1>0, <2>1, <3>1, <3>2, <3>4 DEF Owned, Empty
      <3> QED
        BY <3>2, <3>3, <3>5 DEF Renewals
    <2> QED
      BY <1>0, <2>1, <2>2 DEF Tab
  <1>7. Clean'
    BY <1>0, <1>1 DEF IInv, Clean
  <1>8. Fitting'
    <2>1. ListKeys(page, filter)' = ListKeys(page, filter)
      BY <1>0 DEF ListKeys, KeyOf
    <2> QED
      BY <1>0, <2>1 DEF IInv, Fitting
  <1> QED
    BY <1>3, <1>4, <1>5, <1>6, <1>7, <1>8 DEF IInv

LEMMA ArriveLoginStep == ASSUME IInv, NEW c \in calls, ArriveLogin(c), UNCHANGED spent PROVE IInv'
  <1> USE DEF ui
  <1>0. /\ Typed /\ Good(c) /\ Entrance /\ OneOwner /\ SessionTypeOK
        /\ c.op = "login" /\ c.phase = "answered"
        /\ UNCHANGED <<active, flag, user, leaving, cache, db, ui, ack, exit>>
    BY DEF IInv, Typed, Tab, ArriveLogin
  <1>1. user = Nobody /\ c \in Entering /\ Entering = {c} /\ exit # "clean"
    BY <1>0 DEF Entrance, Entering, IInv, Clean
  <1>2. c.by \in Account
    BY <1>0 DEF Good, Kinds
  <1>3. CASE c.ans.code = "ok"
    <2>1. PICK t : t = [who |-> c.by, live |-> TRUE]
      OBVIOUS
    <2>2. t \in Token
      BY <1>2, <2>1 DEF Token
    <2>3. SignedPair(c.by) = [access |-> t, refresh |-> t]
      BY <2>1 DEF SignedPair
    <2>4. jar' = SignedPair(c.by) /\ store' = SignedPair(c.by)
      BY <1>3 DEF ArriveLogin, TakeTokens
    <2>5. jar'.access = t /\ Held' \subseteq {t} /\ jar' \in Pair /\ store' \in Pair
      BY <2>2, <2>3, <2>4 DEF Held, Pair
    <2>6. PICK by \in Account \cup {Nobody} : by = c.by
      BY <1>2
    <2>7. PICK op \in {"boot", "login", "logout"} : op = "boot"
      OBVIOUS
    <2>8. PICK b : b = Call(op, by, NoKey, t)
      OBVIOUS
    <2>9. /\ Good(b)
          /\ b.op = "boot" /\ b.by = c.by /\ b.phase = "sent" /\ b.token = t /\ b.ans.code = "none"
      BY <2>2, <2>6, <2>7, <2>8, OwnCallGood
    <2>10. calls' = (calls \ {c}) \cup {b}
      BY <1>3, <2>5, <2>6, <2>7, <2>8 DEF ArriveLogin
    <2>11. Typed'
      <3>1. \A x \in calls' : Good(x)'
        BY <1>0, <2>9, <2>10, GoodStays DEF Typed
      <3>2. SessionTypeOK'
        BY <1>0, <2>5 DEF SessionTypeOK
      <3> QED
        BY <1>0, <3>1, <3>2 DEF Typed, IsData
    <2>12. Counted'
      <3>1. ~Unserved(b)
        BY <2>9 DEF Unserved
      <3> QED
        BY <1>0, <2>10, <3>1, SpentStays, ReplacedCounted DEF IInv, Typed
    <2>13. Awaited'
      BY <1>0, <2>10 DEF IInv, Awaited, Fetched
    <2>14. Entrance' /\ OneOwner'
      BY <1>0, <1>1, <2>5, <2>9, <2>10 DEF Entrance, OneOwner, Entering
    <2>15. ~leaving => Empty'
      <3>1. SUFFICES ASSUME ~leaving PROVE Empty'
        OBVIOUS
      <3>2. Empty
        BY <1>1, <3>1 DEF IInv, Tab
      <3>3. calls' = {b}
        BY <1>1, <2>10, <3>2 DEF Empty
      <3> QED
        BY <1>0, <2>1, <2>5, <2>9, <3>2, <3>3 DEF Empty, Entering
    <2>16. Tab'
      BY <1>0, <1>1, <2>14, <2>15 DEF Tab
    <2>17. Clean'
      BY <1>0, <1>1 DEF Clean
    <2>18. Fitting'
      <3>1. ListKeys(page, filter)' = ListKeys(page, filter)
        BY <1>0 DEF ListKeys, KeyOf
      <3> QED
        BY <1>0, <2>9, <2>10, <3>1 DEF IInv, Fitting
    <2> QED
      BY <2>11, <2>12, <2>13, <2>16, <2>17, <2>18 DEF IInv
  <1>4. CASE c.ans.code = "lost"
    <2>1. PICK d : d = [c EXCEPT !.phase = "sent", !.ans = NoAnswer]
      OBVIOUS
    <2>2. calls' = (calls \ {c}) \cup {d} /\ UNCHANGED <<jar, store>>
      BY <1>4, <2>1 DEF ArriveLogin
    <2>3. c \in CallWith(c.ans)
      BY <1>0 DEF Good
    <2>4. /\ Same(c, d) /\ d.phase = "sent" /\ d.ans = NoAnswer /\ d.token = c.token
          /\ d.again = c.again
      BY <2>1, <2>3 DEF CallWith, Same
    <2>5. d \in CallWith(d.ans)
      BY <2>1, <2>3, <2>4 DEF CallWith, Phase, Same
    <2>6. Kinds(d) /\ Answers(d) /\ ~Unserved(d)
      BY <1>0, <2>4 DEF Good, Kinds, Answers, NoAnswer, Same, Unserved
    <2>7. UNCHANGED <<session, cache, db, ui, ack, exit>>
      BY <1>0, <2>2 DEF session
    <2> QED
      BY <1>0, <1>1, <2>2, <2>4, <2>5, <2>6, <2>7, SpentStays, ReplacedStep
  <1>5. CASE c.ans.code \notin {"ok", "lost"}
    <2>1. calls' = calls \ {c} /\ UNCHANGED <<jar, store>>
      BY <1>5 DEF ArriveLogin
    <2>2. UNCHANGED session
      BY <1>0, <2>1 DEF session
    <2>3. Typed'
      <3>1. \A x \in calls' : Good(x)'
        BY <1>0, <2>1, GoodStays DEF Typed
      <3> QED
        BY <1>0, <2>1, <3>1 DEF Typed, IsData, SessionTypeOK
    <2>4. Counted'
      BY <1>0, <2>1, <2>3, FewerCounted, SpentStays DEF IInv, Typed
    <2>5. Awaited'
      BY <1>0, <2>1 DEF IInv, Awaited, Fetched
    <2>6. Tab'
      BY <1>0, <2>1, <2>2, FewerTab DEF IInv
    <2>7. Clean'
      BY <1>0, <1>1 DEF Clean
    <2>8. Fitting'
      <3>1. ListKeys(page, filter)' = ListKeys(page, filter)
        BY <1>0 DEF ListKeys, KeyOf
      <3> QED
        BY <1>0, <2>1, <3>1 DEF IInv, Fitting
    <2> QED
      BY <2>3, <2>4, <2>5, <2>6, <2>7, <2>8 DEF IInv
  <1> QED
    BY <1>3, <1>4, <1>5

LEMMA LoginStep == ASSUME IInv, NEW a \in Account, Login(a) PROVE IInv'
  <1> USE DEF ui
  <1>0. /\ Typed /\ Entrance /\ OneOwner /\ SessionTypeOK
        /\ user = Nobody /\ Entering = {} /\ flag' = FALSE /\ exit' = "none"
        /\ UNCHANGED <<active, jar, store, user, leaving, db, ui, ack>>
    BY DEF IInv, Typed, Tab, Login, Entering
  <1>1. /\ spent' \in [act : Nat, press : Nat, event : Nat] /\ spent'.press = spent.press
    BY <1>0, SpentActs DEF Login
  <1>2. PICK by \in Account \cup {Nobody}, op \in {"boot", "login", "logout"},
             t \in Token \cup {Nobody} : by = a /\ op = "login" /\ t = Nobody
    OBVIOUS
  <1>3. PICK b : b = Call(op, by, NoKey, t)
    OBVIOUS
  <1>4. /\ Good(b)
        /\ b.op = "login" /\ b.by = a /\ b.phase = "sent" /\ b.token = Nobody /\ b.ans.code = "none"
    BY <1>2, <1>3, OwnCallGood
  <1>5. calls' = calls \cup {b}
    BY <1>2, <1>3 DEF Login
  <1>6. /\ DOMAIN cache' \subseteq DOMAIN cache
        /\ \A k \in DOMAIN cache' : cache'[k] = cache[k]
    BY DEF Login, Without, Restrict
  <1>7. Typed'
    <2>1. \A x \in calls' : Good(x)'
      BY <1>0, <1>4, <1>5, GoodStays DEF Typed
    <2>2. SessionTypeOK'
      BY <1>0 DEF SessionTypeOK
    <2>3. \A k \in DOMAIN cache' : IsData(k.url, cache'[k])
      BY <1>0, <1>6 DEF Typed
    <2> QED
      BY <1>0, <1>1, <1>6, <2>1, <2>2, <2>3 DEF Typed, IsData
  <1>8. Counted'
    <2>1. Due' = Due
      BY <1>4, <1>5 DEF Due, Unserved
    <2> QED
      BY <1>0, <1>1, <2>1 DEF IInv, Counted
  <1>9. Awaited'
    BY <1>0, <1>5 DEF IInv, Awaited, Fetched
  <1>10. Tab'
    <2>1. Entrance' /\ OneOwner' /\ Held' = Held
      BY <1>0, <1>4, <1>5 DEF Entrance, Entering, OneOwner, Held
    <2>2. ASSUME ~leaving PROVE Empty'
      <3>1. Empty
        BY <1>0, <2>2 DEF IInv, Tab
      <3>2. calls' = {b}
        BY <1>0, <1>5, <3>1 DEF Empty
      <3> QED
        BY <1>0, <1>4, <1>6, <3>1, <3>2 DEF Empty, Entering
    <2> QED
      BY <1>0, <2>1, <2>2 DEF Tab
  <1>11. Clean'
    BY <1>0 DEF Clean
  <1>12. Fitting'
    <2>1. ListKeys(page, filter)' = ListKeys(page, filter)
      BY <1>0 DEF ListKeys, KeyOf
    <2> QED
      BY <1>0, <1>4, <1>5, <2>1 DEF IInv, Fitting
  <1> QED
    BY <1>7, <1>8, <1>9, <1>10, <1>11, <1>12 DEF IInv

(* Orphans are no more than the requests they were.                        *)
LEMMA OrphansCounted ==
  ASSUME Typed, Counted, Due' \subseteq Orphaned(calls), db' = db,
         spent'.press \in Nat, spent.press <= spent'.press
  PROVE  Counted'
  <1> DEFINE f == [x \in Due |-> [x EXCEPT !.mine = FALSE]]
  <1>1. ASSUME NEW x \in Due' PROVE x \in {f[y] : y \in Due}
    <2>1. PICK c \in calls : x = [c EXCEPT !.mine = FALSE]
      BY <1>1 DEF Orphaned
    <2>2. Good(c) /\ Unserved(x)
      BY DEF Typed, Due
    <2>3. x.op = c.op /\ x.phase = c.phase /\ x.ans = c.ans
      BY <2>1, <2>2, OrphanFields
    <2>4. c \in Due
      BY <2>2, <2>3 DEF Due, Unserved
    <2> QED
      BY <2>1, <2>4
  <1> HIDE DEF f
  <1>2. Due' \subseteq {f[y] : y \in Due}
    BY <1>1
  <1> QED
    BY <1>2, CountedStep

LEMMA LogoutStep == ASSUME IInv, Logout PROVE IInv'
  <1>0. /\ Typed /\ Entrance /\ OneOwner /\ SessionTypeOK
        /\ user # Nobody /\ ~leaving /\ leaving' = TRUE /\ flag' = TRUE /\ user' = Nobody
        /\ store' = NoPair /\ DOMAIN cache' = {} /\ exit' = "clean"
        /\ page' = Nobody /\ filter' = Default
        /\ waits' = {} /\ DOMAIN shown' = {} /\ mishap' = {}
        /\ UNCHANGED <<active, jar, db, ack>>
    BY DEF IInv, Typed, Tab, Logout, NoPage, ForgetStored
  <1>1. /\ spent' \in [act : Nat, press : Nat, event : Nat] /\ spent'.press = spent.press
    BY <1>0, SpentActs DEF Logout
  <1>2. PICK by \in Account \cup {Nobody}, op \in {"boot", "login", "logout"},
             t \in Token \cup {Nobody} : by = Nobody /\ op = "logout" /\ t = Nobody
    OBVIOUS
  <1>3. PICK b : b = Call(op, by, NoKey, t)
    OBVIOUS
  <1>4. Good(b) /\ b.op = "logout"
    BY <1>2, <1>3, OwnCallGood
  <1>5. calls' = Orphaned(calls) \cup {b}
    BY <1>2, <1>3 DEF Logout
  <1>6. \A x \in Orphaned(calls) :
          Good(x) /\ x.mine = FALSE /\ \E c \in calls : x.op = c.op
    BY <1>0, OrphansFields DEF Typed
  <1>7. Typed'
    <2>1. \A x \in calls' : Good(x)'
      BY <1>0, <1>4, <1>5, <1>6, GoodStays
    <2>2. SessionTypeOK'
      BY <1>0 DEF SessionTypeOK, NoPair, Pair
    <2>3. filter' \in Filter
      BY <1>0, PageAssumption
    <2> QED
      BY <1>0, <1>1, <2>1, <2>2, <2>3 DEF Typed
  <1>8. Counted'
    <2>1. Due' \subseteq Orphaned(calls)
      BY <1>4, <1>5 DEF Due, Unserved
    <2> QED
      BY <1>0, <1>1, <2>1, OrphansCounted DEF IInv, Typed
  <1>9. Awaited'
    BY <1>0 DEF Awaited
  <1>10. Entering' = {}
    <2>1. Entering = {}
      BY <1>0 DEF Entrance
    <2> QED
      BY <1>4, <1>5, <1>6, <2>1 DEF Entering
  <1>11. Tab' /\ Clean'
    BY <1>0, <1>10 DEF Tab, Clean, Entrance, OneOwner, Held, NoPair
  <1>12. Fitting'
    <2>1. \A x \in calls' : ~(x.op = "change" /\ x.mine)
      BY <1>4, <1>5, <1>6
    <2> QED
      BY <1>0, <2>1 DEF Fitting
  <1> QED
    BY <1>7, <1>8, <1>9, <1>11, <1>12 DEF IInv

-----------------------------------------------------------------------------
(* What happens to the tab.                                                *)

LEMMA ForgetStep == ASSUME IInv, Forget PROVE IInv'
  <1> USE DEF session, ui
  <1>0. /\ Typed /\ UNCHANGED <<session, calls, db, ui, ack, exit>>
        /\ DOMAIN cache' \subseteq DOMAIN cache
        /\ \A k \in DOMAIN cache' : cache'[k] = cache[k]
    BY DEF IInv, Forget, Restrict
  <1>1. /\ spent' \in [act : Nat, press : Nat, event : Nat] /\ spent'.press = spent.press
    BY <1>0, SpentActs DEF Forget
  <1>2. Typed'
    <2>1. \A x \in calls' : Good(x)'
      BY <1>0, GoodStays DEF Typed
    <2>2. \A k \in DOMAIN cache' : IsData(k.url, cache'[k])
      BY <1>0 DEF Typed
    <2> QED
      BY <1>0, <1>1, <2>1, <2>2 DEF Typed, IsData, SessionTypeOK
  <1>3. Counted'
    BY <1>0, <1>1 DEF IInv, Counted, Due
  <1>4. Awaited' /\ Clean'
    BY <1>0 DEF IInv, Awaited, Clean, Fetched, Entering
  <1>5. Tab'
    <2>1. OneOwner' /\ Entrance'
      BY <1>0 DEF IInv, Tab, OneOwner, Held, Entrance, Entering
    <2>2. Empty => Empty'
      BY <1>0 DEF Empty, Entering, Held
    <2>3. Owned => Owned'
      BY <1>0 DEF Owned, Held
    <2>4. Renewals => Renewals'
      BY <1>0 DEF Renewals, Agrees, RefreshSent, Admitted
    <2> QED
      BY <1>0, <2>1, <2>2, <2>3, <2>4 DEF IInv, Tab
  <1>6. Fitting'
    <2>1. ListKeys(page, filter)' = ListKeys(page, filter)
      BY <1>0 DEF ListKeys, KeyOf
    <2> QED
      BY <1>0, <2>1 DEF IInv, Fitting
  <1> QED
    BY <1>2, <1>3, <1>4, <1>5, <1>6 DEF IInv

(* Tokens expire while nothing is under way, and keep their owner.         *)
LEMMA ExpiryStep == ASSUME IInv, Hour \/ Week PROVE IInv'
  <1> USE DEF ui
  <1>0. /\ Typed /\ SessionTypeOK /\ calls = {} /\ calls' = {}
        /\ UNCHANGED <<active, flag, user, leaving, cache, db, ui, ack, exit>>
        /\ AccessExpires \/ RefreshExpires
    BY DEF IInv, Typed, Hour, Week, api
  <1>1. /\ spent' \in [act : Nat, press : Nat, event : Nat] /\ spent'.press = spent.press
    BY <1>0, SpentActs DEF Hour, Week
  <1>2. \A t \in Token \cup {Nobody} :
          /\ Stale(t) \in Token \cup {Nobody}
          /\ t = Nobody => Stale(t) = Nobody
          /\ t # Nobody => Stale(t).who = t.who
    BY DEF Stale, Token
  <1>3. /\ jar' \in Pair /\ store' \in Pair
        /\ jar'.access = Nobody /\ jar'.refresh \in {Nobody, jar.refresh}
        /\ store'.access = Stale(store.access)
        /\ store'.refresh \in {store.refresh, Stale(store.refresh)}
    BY <1>0, <1>2 DEF SessionTypeOK, Pair, NoPair, AccessExpires, RefreshExpires
  <1>4. \A t \in Held' : \E w \in Held : w.who = t.who
    <2>1. store \in Pair /\ jar \in Pair
      BY <1>0 DEF SessionTypeOK
    <2> QED
      BY <1>2, <1>3, <2>1 DEF Held, Pair
  <1>5. (store = NoPair => store' = NoPair) /\ (jar = NoPair => jar' = NoPair)
    BY <1>2, <1>3, <1>0 DEF NoPair, Pair, AccessExpires, RefreshExpires, SessionTypeOK
  <1>6. Typed'
    <2>1. SessionTypeOK'
      BY <1>0, <1>3 DEF SessionTypeOK
    <2> QED
      BY <1>0, <1>1, <2>1 DEF Typed, IsData
  <1>7. Counted'
    BY <1>0, <1>1 DEF IInv, Counted, Due
  <1>8. Awaited'
    BY <1>0 DEF IInv, Awaited, Fetched
  <1>9. Tab'
    <2>1. OneOwner'
      BY <1>4 DEF IInv, Tab, OneOwner
    <2>2. Entrance' /\ Renewals'
      BY <1>0 DEF Entrance, Entering, Renewals
    <2>3. Empty => Empty'
      BY <1>0 DEF Empty
    <2>4. Owned => Owned'
      BY <1>0, <1>4 DEF Owned
    <2> QED
      BY <1>0, <2>1, <2>2, <2>3, <2>4 DEF IInv, Tab
  <1>10. Clean'
    BY <1>0, <1>5 DEF IInv, Clean, Entering
  <1>11. Fitting'
    <2>1. ListKeys(page, filter)' = ListKeys(page, filter)
      BY <1>0 DEF ListKeys, KeyOf
    <2> QED
      BY <1>0, <2>1 DEF IInv, Fitting
  <1> QED
    BY <1>6, <1>7, <1>8, <1>9, <1>10, <1>11 DEF IInv

LEMMA DeactivateStep == ASSUME IInv, Deactivate PROVE IInv'
  <1> USE DEF ui, api
  <1>0. /\ Typed /\ SessionTypeOK /\ active' \subseteq active
        /\ UNCHANGED <<jar, store, flag, user, leaving, cache, calls, db, ui, ack, exit>>
    BY DEF IInv, Typed, Deactivate, Deactivated
  <1>1. /\ spent' \in [act : Nat, press : Nat, event : Nat] /\ spent'.press = spent.press
    BY <1>0, SpentActs DEF Deactivate
  <1>2. Typed'
    <2>1. \A x \in calls' : Good(x)'
      BY <1>0, GoodStays DEF Typed
    <2> QED
      BY <1>0, <1>1, <2>1 DEF Typed, IsData, SessionTypeOK
  <1>3. Counted'
    BY <1>0, <1>1 DEF IInv, Counted, Due
  <1>4. Awaited' /\ Clean'
    BY <1>0 DEF IInv, Awaited, Clean, Fetched, Entering
  <1>5. Tab'
    <2>1. OneOwner' /\ Entrance'
      BY <1>0 DEF IInv, Tab, OneOwner, Held, Entrance, Entering
    <2>2. Empty => Empty'
      BY <1>0 DEF Empty, Entering, Held
    <2>3. Owned => Owned'
      BY <1>0 DEF Owned, Held
    <2>4. Renewals => Renewals'
      BY <1>0 DEF Renewals, Agrees, RefreshSent, Admitted
    <2> QED
      BY <1>0, <2>1, <2>2, <2>3, <2>4 DEF IInv, Tab
  <1>6. Fitting'
    <2>1. ListKeys(page, filter)' = ListKeys(page, filter)
      BY <1>0 DEF ListKeys, KeyOf
    <2> QED
      BY <1>0, <2>1 DEF IInv, Fitting
  <1> QED
    BY <1>2, <1>3, <1>4, <1>5, <1>6 DEF IInv

-----------------------------------------------------------------------------
(* Asking for lists.                                                       *)

(* C holds requests of the tab, perhaps without their page, and all gets.  *)
Retained(C) ==
  /\ \A x \in C : \E c \in calls :
       /\ Good(x)
       /\ x.op = c.op /\ x.by = c.by /\ x.key = c.key /\ x.phase = c.phase
       /\ x.token = c.token /\ x.ans = c.ans /\ x.crossed = c.crossed
  /\ \A c \in calls : c.op = "get" => \E x \in C : x.op = "get" /\ x.key = c.key

LEMMA OrphansRetained == ASSUME Typed PROVE Retained(Orphaned(calls))
  <1>1. \A c \in calls : Good(c)
    BY DEF Typed
  <1>2. ASSUME NEW c \in calls, c.op = "get"
        PROVE  \E x \in Orphaned(calls) : x.op = "get" /\ x.key = c.key
    <2>1. PICK o : o = [c EXCEPT !.mine = FALSE]
      OBVIOUS
    <2>2. o \in Orphaned(calls)
      BY <2>1 DEF Orphaned
    <2>3. Good(c)
      BY <1>1
    <2> QED
      BY <1>2, <2>1, <2>2, <2>3, OrphanFields
  <1> QED
    BY <1>1, <1>2, OrphansFields DEF Retained

LEMMA AskedStep ==
  ASSUME Typed, Tab, NEW keys \in SUBSET AKey, NEW C, Retained(C), C \subseteq calls \/ Entering = {},
         AskFor(keys, C, cache),
         UNCHANGED <<session, cache, db>>
  PROVE  /\ \A x \in calls' : Good(x)'
         /\ Due' \subseteq C /\ C \subseteq calls'
         /\ \A x \in calls' : x.op # "get" => x \in C
         /\ Entrance' /\ OneOwner' /\ Held' = Held
         /\ Entering = {} => Entering' = {}
         /\ \A w \in waits : w \in {c.key : c \in Fetched} => w \in {c.key : c \in Fetched}'
         /\ keys \ DOMAIN cache \subseteq {c.key : c \in Fetched}'
         /\ ~leaving /\ user # Nobody =>
              /\ \A x \in calls' : x.token # Nobody => x.token.who = user
              /\ Renewals'
  <1> USE DEF session
  <1>0. SessionTypeOK
    BY DEF Typed
  <1>1. /\ C \subseteq calls'
        /\ \A x \in calls' : x \notin C =>
              /\ Good(x)'
              /\ x.op = "get" /\ x.key \in keys /\ x.phase = "sent" /\ x.token = AccessSent
              /\ x.ans.code = "none" /\ x.crossed = Changing(C) \cap Told(x.key.url)
        /\ \A k \in keys \ DOMAIN cache : \E x \in calls' : x.op = "get" /\ x.key = k
    BY <1>0, Asked
  <1>2. \A x \in calls' : Good(x)'
    BY <1>1, GoodStays DEF Retained
  <1>3. Due' \subseteq C
    BY <1>1 DEF Due, Unserved
  <1>4. Entrance' /\ OneOwner' /\ Held' = Held /\ (Entering = {} => Entering' = {})
    <2>1. \A x \in calls' : x.op # "get" =>
            x \in C /\ \E c \in calls : x.op = c.op
      BY <1>1 DEF Retained
    <2>2. Entering = {} => Entering' = {}
      BY <2>1 DEF Entering
    <2>3. C \subseteq calls => Entering' \subseteq Entering
      BY <2>1 DEF Entering
    <2>4. Entrance'
      <3>1. Entering' # {} => user' = Nobody
        BY <2>2 DEF Tab, Entrance
      <3>2. \A x \in calls' : x.op = "logout" => leaving'
        BY <2>1 DEF Tab, Entrance
      <3>3. \A x, y \in Entering' : x = y
        BY <2>2, <2>3 DEF Tab, Entrance
      <3> QED
        BY <3>1, <3>2, <3>3 DEF Entrance
    <2> QED
      BY <2>2, <2>4 DEF Tab, OneOwner, Held
  <1>5. ASSUME NEW w \in waits, w \in {c.key : c \in Fetched}
        PROVE  w \in {c.key : c \in Fetched}'
    <2>1. PICK c \in calls : c.op = "get" /\ c.key = w
      BY <1>5 DEF Fetched
    <2>2. PICK x \in C : x.op = "get" /\ x.key = w
      BY <2>1 DEF Retained
    <2> QED
      BY <1>1, <2>2 DEF Fetched
  <1>6. keys \ DOMAIN cache \subseteq {c.key : c \in Fetched}'
    BY <1>1 DEF Fetched
  <1>7. ASSUME ~leaving, user # Nobody
        PROVE  /\ \A x \in calls' : x.token # Nobody => x.token.who = user
               /\ Renewals'
    <2>1. Owned /\ Renewals
      BY <1>7 DEF Tab
    <2>2. AccessSent # Nobody => AccessSent.who = user
      BY <1>0, <2>1, Tokens DEF Owned
    <2>3. \A x \in calls' : x.token # Nobody => x.token.who = user
      BY <1>1, <2>1, <2>2 DEF Retained, Owned
    <2>4. \A x \in C : Agrees(x)
      BY <2>1 DEF Retained, Renewals, Agrees
    <2>5. \A x \in calls' \ C : Agrees(x)
      BY <1>1 DEF Agrees
    <2>6. \A x : Agrees(x) => Agrees(x)'
      BY Zenon DEF Agrees, RefreshSent, Admitted
    <2> QED
      BY <1>1, <2>3, <2>4, <2>5, <2>6 DEF Renewals
  <1> QED
    BY <1>1, <1>2, <1>3, <1>4, <1>5, <1>6, <1>7

(* What is known is shown, what is not is awaited, and the page remembers  *)
(* what it was told; W, S, D and M are what it had before.                 *)
Shows(keys, told, W, S, D, M) ==
  LET hits == keys \cap DOMAIN cache IN
  /\ waits' = W \cup (keys \ DOMAIN cache)
  /\ DOMAIN shown' = DOMAIN S \cup {k.url : k \in hits}
  /\ \A k \in hits : shown'[k.url] = [data |-> cache[k], filter |-> k.filter]
  /\ \A u \in DOMAIN S : u \notin {k.url : k \in hits} => shown'[u] = S[u]
  /\ DOMAIN due' = DOMAIN D \cup {k.url : k \in keys}
  /\ \A k \in keys : due'[k.url] = [s \in Told(k.url) |-> told[s]]
  /\ \A u \in DOMAIN D : u \notin {k.url : k \in keys} => due'[u] = D[u]
  /\ M \subseteq mishap'
  /\ mishap' = {} => \A k \in keys, w \in W : k.url = w.url => k = w

LEMMA Hits ==
  ASSUME NEW keys, \A k, w \in keys : k.url = w.url => k = w, NEW hits, hits \subseteq keys,
         NEW more,
         more = [u \in {k.url : k \in hits} |->
                   [data |-> cache[CHOOSE k \in hits : k.url = u],
                    filter |-> (CHOOSE k \in hits : k.url = u).filter]]
  PROVE  /\ DOMAIN more = {k.url : k \in hits}
         /\ \A k \in hits : more[k.url] = [data |-> cache[k], filter |-> k.filter]
  <1>1. ASSUME NEW k \in hits PROVE (CHOOSE w \in hits : w.url = k.url) = k
    <2>1. PICK w : w = CHOOSE x \in hits : x.url = k.url
      OBVIOUS
    <2>2. w \in hits /\ w.url = k.url
      BY <2>1
    <2> QED
      BY <2>1, <2>2
  <1>2. ASSUME NEW k \in hits
        PROVE  more[k.url] = [data |-> cache[CHOOSE w \in hits : w.url = k.url],
                              filter |-> (CHOOSE w \in hits : w.url = k.url).filter]
    OBVIOUS
  <1> QED
    BY <1>1, <1>2

LEMMA KnownShows ==
  ASSUME NEW keys, NEW told, \A k, w \in keys : k.url = w.url => k = w,
         ShowKnown(keys, cache, told)
  PROVE  Shows(keys, told, waits, shown, due, mishap)
  <1>1. PICK hits : hits = keys \cap DOMAIN cache
    OBVIOUS
  <1>2. PICK more :
          more = [u \in {k.url : k \in hits} |->
                   [data |-> cache[CHOOSE k \in hits : k.url = u],
                    filter |-> (CHOOSE k \in hits : k.url = u).filter]]
    OBVIOUS
  <1>3. PICK dues : dues = [u \in {k.url : k \in keys} |-> [s \in Told(u) |-> told[s]]]
    OBVIOUS
  <1>4. /\ waits' = waits \cup (keys \ hits)
        /\ shown' = With(shown, more) /\ due' = With(due, dues)
        /\ mishap' = IF \E k \in keys, w \in waits : k.url = w.url /\ k # w
                     THEN mishap \cup {"muddled"} ELSE mishap
    BY <1>1, <1>2, <1>3 DEF ShowKnown
  <1>5. /\ DOMAIN more = {k.url : k \in hits}
        /\ \A k \in hits : more[k.url] = [data |-> cache[k], filter |-> k.filter]
    BY <1>1, <1>2, Hits
  <1>6. /\ DOMAIN shown' = DOMAIN shown \cup {k.url : k \in hits}
        /\ \A k \in hits : shown'[k.url] = [data |-> cache[k], filter |-> k.filter]
        /\ \A u \in DOMAIN shown : u \notin {k.url : k \in hits} => shown'[u] = shown[u]
    BY <1>4, <1>5 DEF With
  <1>7. /\ DOMAIN due' = DOMAIN due \cup {k.url : k \in keys}
        /\ \A k \in keys : due'[k.url] = [s \in Told(k.url) |-> told[s]]
        /\ \A u \in DOMAIN due : u \notin {k.url : k \in keys} => due'[u] = due[u]
    BY <1>3, <1>4 DEF With
  <1> QED
    BY <1>1, <1>4, <1>6, <1>7 DEF Shows

(* What the answers of the cache belong to, what is shown belongs to.      *)
LEMMA ShowsOwned ==
  ASSUME NEW keys, NEW told, NEW W, NEW S, NEW D, NEW M, Shows(keys, told, W, S, D, M),
         Owned, UNCHANGED <<user, cache>>, \A u \in DOMAIN S : S[u].data.who = user
  PROVE  \A u \in DOMAIN shown' : shown'[u].data.who = user
  <1>1. ASSUME NEW u \in DOMAIN shown' PROVE shown'[u].data.who = user
    <2>1. CASE \E k \in keys \cap DOMAIN cache : u = k.url
      <3>1. PICK k \in keys \cap DOMAIN cache : u = k.url
        BY <2>1
      <3>2. shown'[u] = [data |-> cache[k], filter |-> k.filter]
        BY <3>1 DEF Shows
      <3>3. cache[k].who = user
        BY DEF Owned
      <3> QED
        BY <3>2, <3>3
    <2>2. CASE ~\E k \in keys \cap DOMAIN cache : u = k.url
      BY <2>2 DEF Shows
    <2> QED
      BY <2>1, <2>2
  <1> QED
    BY <1>1

LEMMA AskedTab ==
  ASSUME Typed, Tab, NEW keys \in SUBSET AKey, NEW C, Retained(C), C \subseteq calls \/ Entering = {},
         AskFor(keys, C, cache), UNCHANGED <<session, cache, db>>,
         leaving \/ user # Nobody,
         Owned => \A u \in DOMAIN shown' : shown'[u].data.who = user
  PROVE  Tab'
  <1>1. /\ Entrance' /\ OneOwner' /\ Held' = Held
        /\ ~leaving /\ user # Nobody =>
              /\ \A x \in calls' : x.token # Nobody => x.token.who = user
              /\ Renewals'
    BY AskedStep
  <1>2. ASSUME ~leaving, user # Nobody PROVE Owned' /\ Renewals'
    <2>1. Owned
      BY <1>2 DEF Tab
    <2>2. \A t \in Held' : t.who = user
      BY <1>1, <2>1 DEF Owned
    <2> QED
      BY <1>1, <1>2, <2>1, <2>2 DEF Owned, session
  <1> QED
    BY <1>1, <1>2 DEF Tab, session

LEMMA AskedAwaited ==
  ASSUME Typed, Tab, NEW keys \in SUBSET AKey, NEW C, Retained(C), C \subseteq calls \/ Entering = {},
         AskFor(keys, C, cache), UNCHANGED <<session, cache, db>>,
         NEW told, NEW W, NEW S, NEW D, NEW M, Shows(keys, told, W, S, D, M),
         Awaited, W \subseteq waits, {k.url : k \in W} \subseteq DOMAIN D, DOMAIN S \subseteq DOMAIN D
  PROVE  Awaited'
  <1>1. /\ \A w \in waits : w \in {c.key : c \in Fetched} => w \in {c.key : c \in Fetched}'
        /\ keys \ DOMAIN cache \subseteq {c.key : c \in Fetched}'
    BY AskedStep
  <1>2. waits' \subseteq {c.key : c \in Fetched}'
    BY <1>1 DEF Shows, Awaited
  <1>3. {k.url : k \in waits'} \subseteq DOMAIN due'
    BY DEF Shows
  <1>4. DOMAIN shown' \subseteq DOMAIN due'
    BY DEF Shows
  <1> QED
    BY <1>2, <1>3, <1>4 DEF Awaited

LEMMA ShowsFitting ==
  ASSUME NEW keys, \A k, w \in keys : k.url = w.url => k = w,
         NEW told, NEW W, NEW S, NEW D, NEW M, Shows(keys, told, W, S, D, M),
         mishap' = {}
  PROVE  \A k \in keys :
         /\ k \in waits' \/ (k.url \in DOMAIN shown' /\ shown'[k.url].filter = k.filter)
         /\ \A w \in waits' : w.url = k.url => w = k
  <1>1. ASSUME NEW k \in keys
        PROVE  k \in waits' \/ (k.url \in DOMAIN shown' /\ shown'[k.url].filter = k.filter)
    <2>1. CASE k \in DOMAIN cache
      <3>1. shown'[k.url] = [data |-> cache[k], filter |-> k.filter]
        BY <2>1 DEF Shows
      <3>2. k.url \in DOMAIN shown'
        BY <2>1 DEF Shows
      <3> QED
        BY <3>1, <3>2
    <2>2. CASE k \notin DOMAIN cache
      BY <2>2 DEF Shows
    <2> QED
      BY <2>1, <2>2
  <1>2. ASSUME NEW k \in keys, NEW w \in waits', w.url = k.url PROVE w = k
    BY <1>2 DEF Shows
  <1> QED
    BY <1>1, <1>2

LEMMA AskedTyped ==
  ASSUME Typed, Tab, NEW keys \in SUBSET AKey, NEW C, Retained(C), C \subseteq calls \/ Entering = {},
         AskFor(keys, C, cache), UNCHANGED <<session, cache, db, exit>>,
         page' \in Page \cup {Nobody}, filter' \in Filter,
         ack' \in [Subject -> Nat], \A s \in Subject : ack'[s] <= db[s],
         spent' \in [act : Nat, press : Nat, event : Nat], spent'.press = spent.press
  PROVE  Typed'
  <1>1. \A x \in calls' : Good(x)'
    BY AskedStep
  <1>2. SessionTypeOK'
    BY DEF Typed, session, SessionTypeOK
  <1> QED
    BY <1>1, <1>2 DEF Typed, IsData, Subject, Told

LEMMA FocusTurnStep ==
  ASSUME IInv, NEW f \in Filter, page # Nobody, NEW keys, keys = ListKeys(page, f),
         AskFor(keys, calls, cache), ShowKnown(keys, cache, ack), filter' = f, Act,
         UNCHANGED <<session, cache, db, page, ack, exit>>
  PROVE  IInv'
  <1>0. /\ Typed /\ Counted /\ Awaited /\ Tab /\ page \in Page
        /\ spent' \in [act : Nat, press : Nat, event : Nat] /\ spent'.press = spent.press
    BY SpentActs DEF IInv, Typed
  <1>1. keys \in SUBSET AKey /\ \A k, w \in keys : k.url = w.url => k = w
    BY <1>0, PageKeys
  <1>2. Shows(keys, ack, waits, shown, due, mishap)
    BY <1>1, KnownShows
  <1>3. Retained(calls)
    BY <1>0 DEF Retained, Typed
  <1>4. leaving \/ user # Nobody
    BY <1>0 DEF Tab, Empty
  <1>5. Typed'
    BY <1>0, <1>1, <1>3, AskedTyped DEF Typed
  <1>6. Awaited'
    BY <1>0, <1>1, <1>2, <1>3, AskedAwaited DEF Awaited
  <1>7. Tab'
    <2>1. ASSUME Owned PROVE \A u \in DOMAIN shown' : shown'[u].data.who = user
      <3>1. \A u \in DOMAIN shown : shown[u].data.who = user
        BY <2>1 DEF Owned
      <3>2. UNCHANGED <<user, cache>>
        BY DEF session
      <3> QED
        BY <1>2, <2>1, <3>1, <3>2, ShowsOwned
    <2> QED
      BY <1>0, <1>1, <1>3, <1>4, <2>1, AskedTab
  <1>8. /\ \A x \in calls' : Good(x)'
        /\ Due' \subseteq calls
        /\ \A x \in calls' : x.op # "get" => x \in calls
    BY <1>0, <1>1, <1>3, AskedStep
  <1>9. Counted'
    <2> DEFINE g == [x \in Due |-> x]
    <2>1. Due' \subseteq {g[x] : x \in Due}
      BY <1>8 DEF Due, Unserved
    <2> HIDE DEF g
    <2> QED
      BY <1>0, <2>1, CountedStep DEF Typed
  <1>10. Clean'
    BY <1>0 DEF IInv, Clean
  <1>11. Fitting'
    <2>1. \A c \in calls' : c.op = "change" /\ c.mine => c.by = page
      BY <1>8 DEF IInv, Fitting
    <2>2. keys = ListKeys(page, filter)'
      BY Zenon DEF ListKeys, KeyOf, Key
    <2> QED
      BY <1>1, <1>2, <2>1, <2>2, ShowsFitting DEF Fitting
  <1> QED
    BY <1>5, <1>6, <1>7, <1>9, <1>10, <1>11 DEF IInv

LEMMA TurnStep == ASSUME IInv, NEW f \in Filter, Turn(f) PROVE IInv'
  <1>1. PICK keys : keys = ListKeys(page, f)
    OBVIOUS
  <1> QED
    BY <1>1, FocusTurnStep DEF Turn

LEMMA FocusStep == ASSUME IInv, Focus PROVE IInv'
  <1>1. PICK keys : keys = ListKeys(page, filter)
    OBVIOUS
  <1>2. filter \in Filter
    BY DEF IInv, Typed
  <1> QED
    BY <1>1, <1>2, FocusTurnStep DEF Focus

(* A page that is opened shows what is known.                              *)
LEMMA OpenShows ==
  ASSUME NEW p \in Page, NEW keys, keys = ListKeys(p, Default) \cup OnceKeys(p),
         \A k, w \in keys : k.url = w.url => k = w, Open(p), NEW S, S = <<>>
  PROVE  Shows(keys, ack, {}, S, S, {}) /\ mishap' = {}
  <1>1. PICK hits : hits = keys \cap DOMAIN cache
    OBVIOUS
  <1>2. PICK more :
          more = [u \in {k.url : k \in hits} |->
                   [data |-> cache[CHOOSE k \in hits : k.url = u],
                    filter |-> (CHOOSE k \in hits : k.url = u).filter]]
    OBVIOUS
  <1>3. /\ waits' = keys \ hits /\ shown' = more /\ mishap' = {}
        /\ due' = [u \in {k.url : k \in keys} |-> [s \in Told(u) |-> ack[s]]]
    BY <1>1, <1>2 DEF Open
  <1>4. /\ DOMAIN more = {k.url : k \in hits}
        /\ \A k \in hits : more[k.url] = [data |-> cache[k], filter |-> k.filter]
    BY <1>1, <1>2, Hits
  <1>5. DOMAIN S = {}
    OBVIOUS
  <1>6. /\ DOMAIN due' = {k.url : k \in keys}
        /\ \A k \in keys : due'[k.url] = [s \in Told(k.url) |-> ack[s]]
    BY <1>3
  <1> QED
    BY <1>1, <1>3, <1>4, <1>5, <1>6 DEF Shows

LEMMA OpenStep == ASSUME IInv, NEW p \in Page, Open(p) PROVE IInv'
  <1>0. /\ Typed /\ Counted /\ Awaited /\ Tab /\ user # Nobody /\ Default \in Filter
        /\ page' = p /\ filter' = Default /\ UNCHANGED <<session, cache, db, ack, exit>>
        /\ spent' \in [act : Nat, press : Nat, event : Nat] /\ spent'.press = spent.press
    BY SpentActs, PageAssumption DEF IInv, Typed, Open, PageAssumption
  <1>1. PICK keys : keys = ListKeys(p, Default) \cup OnceKeys(p)
    OBVIOUS
  <1>2. keys \in SUBSET AKey /\ \A k, w \in keys : k.url = w.url => k = w
    BY <1>0, <1>1, PageKeys
  <1>3. PICK C : C = Orphaned(calls)
    OBVIOUS
  <1>4. AskFor(keys, C, cache)
    BY <1>1, <1>3 DEF Open
  <1>5. Retained(C) /\ Entering = {}
    BY <1>0, <1>3, OrphansRetained DEF Tab, Entrance
  <1>6. PICK S : S = <<>>
    OBVIOUS
  <1>7. DOMAIN S = {}
    BY <1>6
  <1>8. Shows(keys, ack, {}, S, S, {}) /\ mishap' = {}
    BY <1>1, <1>2, <1>6, OpenShows
  <1>9. /\ \A x \in calls' : Good(x)'
        /\ Due' \subseteq C /\ \A x \in calls' : x.op # "get" => x \in C
    BY <1>0, <1>2, <1>4, <1>5, AskedStep
  <1>10. Typed'
    BY <1>0, <1>2, <1>4, <1>5, AskedTyped DEF Typed
  <1>11. Counted'
    BY <1>0, <1>3, <1>9, OrphansCounted DEF Typed
  <1>12. Awaited'
    BY <1>0, <1>2, <1>4, <1>5, <1>7, <1>8, AskedAwaited
  <1>13. Tab'
    <2>1. ASSUME Owned PROVE \A u \in DOMAIN shown' : shown'[u].data.who = user
      <3>1. UNCHANGED <<user, cache>>
        BY <1>0 DEF session
      <3> QED
        BY <1>7, <1>8, <2>1, <3>1, ShowsOwned
    <2> QED
      BY <1>0, <1>2, <1>4, <1>5, <2>1, AskedTab
  <1>14. Clean'
    BY <1>0 DEF IInv, Clean, session
  <1>15. Fitting'
    <2>1. \A x \in C : x.mine = FALSE
      BY <1>0, <1>3, OrphansFields DEF Typed
    <2>2. ListKeys(page, filter)' \subseteq keys
      <3>1. ListKeys(page, filter)' = ListKeys(p, Default)
        BY <1>0, Zenon DEF ListKeys, KeyOf, Key
      <3> QED
        BY <1>1, <3>1
    <2>3. \A c \in calls' : ~(c.op = "change" /\ c.mine)
      BY <1>9, <2>1
    <2> QED
      BY <1>2, <1>8, <2>2, <2>3, ShowsFitting DEF Fitting
  <1> QED
    BY <1>10, <1>11, <1>12, <1>13, <1>14, <1>15 DEF IInv

(* The page of a change shows its lists again.                             *)
LEMMA ChangeShows ==
  ASSUME NEW c, ArriveChange(c), c.mine, NEW keys, keys = ListKeys(c.by, c.key.filter),
         \A k, w \in keys : k.url = w.url => k = w
  PROVE  /\ Shows(keys, ack', waits, shown, due, mishap)
         /\ mishap' = {} => c.key.filter = filter
  <1>1. PICK hits : hits = keys \cap DOMAIN cache
    OBVIOUS
  <1>2. PICK more :
          more = [u \in {k.url : k \in hits} |->
                   [data |-> cache[CHOOSE k \in hits : k.url = u],
                    filter |-> (CHOOSE k \in hits : k.url = u).filter]]
    OBVIOUS
  <1>3. PICK told : told = ack'
    OBVIOUS
  <1>4. PICK dues : dues = [u \in {k.url : k \in keys} |-> [s \in Told(u) |-> told[s]]]
    OBVIOUS
  <1>5. /\ waits' = waits \cup (keys \ DOMAIN cache)
        /\ shown' = With(shown, more) /\ due' = With(due, dues)
        /\ mishap' = IF c.key.filter # filter \/ \E k \in keys, w \in waits : k.url = w.url /\ k # w
                     THEN mishap \cup {"muddled"} ELSE mishap
    BY <1>1, <1>2, <1>3, <1>4 DEF ArriveChange
  <1>6. /\ DOMAIN more = {k.url : k \in hits}
        /\ \A k \in hits : more[k.url] = [data |-> cache[k], filter |-> k.filter]
    BY <1>1, <1>2, Hits
  <1>7. /\ DOMAIN shown' = DOMAIN shown \cup {k.url : k \in hits}
        /\ \A k \in hits : shown'[k.url] = [data |-> cache[k], filter |-> k.filter]
        /\ \A u \in DOMAIN shown : u \notin {k.url : k \in hits} => shown'[u] = shown[u]
    BY <1>5, <1>6 DEF With
  <1>8. /\ DOMAIN due' = DOMAIN due \cup {k.url : k \in keys}
        /\ \A k \in keys : due'[k.url] = [s \in Told(k.url) |-> told[s]]
        /\ \A u \in DOMAIN due : u \notin {k.url : k \in keys} => due'[u] = due[u]
    BY <1>4, <1>5 DEF With
  <1> QED
    BY <1>1, <1>3, <1>5, <1>7, <1>8 DEF Shows

LEMMA ArriveChangeStep == ASSUME IInv, NEW c \in calls, ArriveChange(c), UNCHANGED spent PROVE IInv'
  <1>0. /\ Typed /\ Counted /\ Awaited /\ Tab /\ Good(c)
        /\ c.op = "change" /\ c.phase = "answered" /\ c.ans.code = "ok"
        /\ UNCHANGED <<session, cache, db, page, filter, exit>>
        /\ spent' \in [act : Nat, press : Nat, event : Nat] /\ spent'.press = spent.press
    BY SpentStays DEF IInv, Typed, ArriveChange
  <1>1. PICK keys : keys = ListKeys(c.by, c.key.filter)
    OBVIOUS
  <1>2. /\ c.by \in Page /\ c.key.filter \in Filter /\ Screen[c.by].subject \in Subject
        /\ c.ans.count \in Nat /\ c.ans.count <= db[Screen[c.by].subject]
    BY <1>0, ChangesOne DEF Good, Kinds, Answers
  <1>3. keys \in SUBSET AKey /\ \A k, w \in keys : k.url = w.url => k = w
    BY <1>1, <1>2, PageKeys
  <1>4. PICK C : C = calls \ {c}
    OBVIOUS
  <1>5. AskFor(keys, C, cache)
    BY <1>1, <1>4 DEF ArriveChange
  <1>6. Retained(C) /\ C \subseteq calls
    BY <1>0, <1>4 DEF Retained, Typed
  <1>7. leaving \/ user # Nobody
    BY <1>0 DEF Tab, Empty, Entering
  <1>8. ack' \in [Subject -> Nat] /\ \A s \in Subject : ack'[s] <= db[s]
    <2>1. ack' = [ack EXCEPT ![Screen[c.by].subject] = IF @ < c.ans.count THEN c.ans.count ELSE @]
      BY DEF ArriveChange
    <2> QED
      BY <1>0, <1>2, <2>1 DEF Typed
  <1>9. /\ \A x \in calls' : Good(x)'
        /\ Due' \subseteq C
        /\ \A x \in calls' : x.op # "get" => x \in C
        /\ Entering = {} => Entering' = {}
        /\ \A w \in waits : w \in {x.key : x \in Fetched} => w \in {x.key : x \in Fetched}'
    BY <1>0, <1>3, <1>5, <1>6, AskedStep
  <1>10. Typed'
    BY <1>0, <1>3, <1>5, <1>6, <1>8, AskedTyped DEF Typed
  <1>11. Counted'
    <2> DEFINE g == [x \in Due |-> x]
    <2>1. Due' \subseteq {g[x] : x \in Due}
      BY <1>4, <1>9 DEF Due, Unserved
    <2> HIDE DEF g
    <2> QED
      BY <1>0, <2>1, CountedStep DEF Typed
  <1>12. Clean'
    BY <1>0, <1>7, <1>9 DEF IInv, Clean, session
  <1>13. \A x \in calls' : x.op = "change" /\ x.mine => x.by = page'
    BY <1>0, <1>4, <1>9 DEF IInv, Fitting
  <1>14. CASE c.mine
    <2>1. /\ Shows(keys, ack', waits, shown, due, mishap)
          /\ mishap' = {} => c.key.filter = filter
      BY <1>1, <1>3, <1>14, ChangeShows
    <2>2. Awaited'
      <3>1. PICK told : told = ack'
        OBVIOUS
      <3>2. Shows(keys, told, waits, shown, due, mishap)
        BY <2>1, <3>1
      <3> QED
        BY <1>0, <1>3, <1>5, <1>6, <3>2, AskedAwaited DEF Awaited
    <2>3. Tab'
      <3>1. ASSUME Owned PROVE \A u \in DOMAIN shown' : shown'[u].data.who = user
        <4>1. \A u \in DOMAIN shown : shown[u].data.who = user
          BY <3>1 DEF Owned
        <4>2. UNCHANGED <<user, cache>>
          BY <1>0 DEF session
        <4>3. PICK told : told = ack'
          OBVIOUS
        <4>4. Shows(keys, told, waits, shown, due, mishap)
          BY <2>1, <4>3
        <4> QED
          BY <3>1, <4>1, <4>2, <4>4, ShowsOwned
      <3> QED
        BY <1>0, <1>3, <1>5, <1>6, <1>7, <3>1, AskedTab
    <2>4. Fitting'
      <3>1. c.by = page /\ page' = page /\ filter' = filter
        BY <1>0, <1>14 DEF IInv, Fitting
      <3>2. mishap' = {} => ListKeys(page', filter') = keys
        BY <1>1, <2>1, <3>1
      <3>3. ListKeys(page, filter)' = ListKeys(page', filter')
        BY Zenon DEF ListKeys, KeyOf, Key
      <3>4. PICK told : told = ack'
        OBVIOUS
      <3>5. Shows(keys, told, waits, shown, due, mishap)
        BY <2>1, <3>4
      <3> QED
        BY <1>3, <1>13, <3>2, <3>3, <3>5, ShowsFitting DEF Fitting
    <2> QED
      BY <1>10, <1>11, <1>12, <2>2, <2>3, <2>4 DEF IInv
  <1>15. CASE ~c.mine
    <2>1. UNCHANGED <<waits, shown, due, mishap>>
      BY <1>15 DEF ArriveChange
    <2>2. Awaited'
      BY <1>0, <1>9, <2>1 DEF Awaited
    <2>3. Tab'
      <3>1. ASSUME Owned PROVE \A u \in DOMAIN shown' : shown'[u].data.who = user
        BY <2>1, <3>1 DEF Owned
      <3> QED
        BY <1>0, <1>3, <1>5, <1>6, <1>7, <3>1, AskedTab
    <2>4. Fitting'
      <3>1. page' = page /\ filter' = filter
        BY <1>0
      <3>2. ListKeys(page, filter)' = ListKeys(page, filter)
        BY <3>1, Zenon DEF ListKeys, KeyOf, Key
      <3> QED
        BY <1>13, <2>1, <3>1, <3>2 DEF IInv, Fitting
    <2> QED
      BY <1>10, <1>11, <1>12, <2>2, <2>3, <2>4 DEF IInv
  <1> QED
    BY <1>14, <1>15

-----------------------------------------------------------------------------
(* Buttons.                                                                *)

(* A get that a change meets knows of it.                                  *)
LEMMA CrossedFields ==
  ASSUME NEW c, Good(c), NEW s \in Subject, NEW o, o = [c EXCEPT !.crossed = @ \cup {s}]
  PROVE  /\ Good(o)
         /\ o.op = c.op /\ o.by = c.by /\ o.key = c.key /\ o.phase = c.phase
         /\ o.token = c.token /\ o.ans = c.ans /\ o.mine = c.mine /\ o.crossed = c.crossed \cup {s}
  <1>1. c \in CallWith(c.ans)
    BY DEF Good
  <1>2. /\ o.op = c.op /\ o.by = c.by /\ o.key = c.key /\ o.phase = c.phase
        /\ o.token = c.token /\ o.ans = c.ans /\ o.mine = c.mine /\ o.crossed = c.crossed \cup {s}
        /\ o.again = c.again
    BY <1>1 DEF CallWith
  <1>3. o \in CallWith(o.ans)
    BY <1>1, <1>2 DEF CallWith
  <1>4. Kinds(o) /\ Answers(o)
    BY <1>2 DEF Good, Kinds, Answers
  <1> QED
    BY <1>2, <1>3, <1>4 DEF Good

(* What a button does to the requests.                                     *)
Pressed(b, s) ==
  /\ page \in Page /\ s \in Subject
  /\ Good(b)
  /\ b.op = "change" /\ b.by = page /\ b.key.filter = filter /\ b.phase = "sent"
  /\ b.token = AccessSent /\ b.ans.code = "none" /\ b.mine = TRUE
  /\ b \in calls'
  /\ \A x \in calls' : x # b => \E c \in calls :
       /\ Good(x)
       /\ x.op = c.op /\ x.by = c.by /\ x.key = c.key /\ x.phase = c.phase
       /\ x.token = c.token /\ x.ans = c.ans /\ x.mine = c.mine
       /\ x.crossed = IF c.op = "get" /\ s \in Told(c.key.url)
                      THEN c.crossed \cup {s} ELSE c.crossed
       /\ x.op # "get" => x \in calls
  /\ \A c \in calls : \E x \in calls' : x.op = c.op /\ x.key = c.key

LEMMA PressFields ==
  ASSUME Typed, page # Nobody, NEW url \in Screen[page].change, Press(url),
         NEW s, s = Screen[page].subject
  PROVE  \E b : Pressed(b, s)
  <1>0. page \in Page /\ filter \in Filter /\ SessionTypeOK
    BY DEF Typed
  <1>1. s \in Subject
    BY <1>0, ChangesOne
  <1>2. PICK op \in {"change", "boot", "login", "logout"}, t \in Token \cup {Nobody} :
          op = "change" /\ t = AccessSent
    BY <1>0, Tokens
  <1>3. PICK key : key = Key(<<>>, filter)
    OBVIOUS
  <1>4. key \in [url : Url \cup {<<>>}, filter : Filter \cup {Plain}] /\ key.filter = filter
    BY <1>0, <1>3 DEF Key
  <1>5. PICK b : b = Call(op, page, key, t)
    OBVIOUS
  <1>6. /\ b \in CallWith(b.ans)
        /\ b.op = op /\ b.by = page /\ b.key = key /\ b.phase = "sent" /\ b.token = t
        /\ b.ans = NoAnswer /\ b.ans.code = "none" /\ b.crossed = {} /\ b.mine = TRUE
    <2>1. page \in Account \cup Page \cup {Nobody}
      BY <1>0
    <2> QED
      BY <1>2, <1>4, <1>5, <2>1 DEF Call, CallWith, NoAnswer, Phase
  <1>7. Good(b)
    BY <1>0, <1>2, <1>4, <1>6 DEF Good, Kinds, Answers
  <1>8. calls' = {IF c.op = "get" /\ s \in Told(c.key.url)
                  THEN [c EXCEPT !.crossed = @ \cup {s}] ELSE c : c \in calls} \cup {b}
    BY <1>2, <1>3, <1>5 DEF Press
  <1>9. ASSUME NEW x \in calls', x # b
        PROVE  \E c \in calls :
               /\ Good(x)
               /\ x.op = c.op /\ x.by = c.by /\ x.key = c.key /\ x.phase = c.phase
               /\ x.token = c.token /\ x.ans = c.ans /\ x.mine = c.mine
               /\ x.crossed = IF c.op = "get" /\ s \in Told(c.key.url)
                              THEN c.crossed \cup {s} ELSE c.crossed
               /\ x.op # "get" => x \in calls
    <2>1. PICK c \in calls : x = IF c.op = "get" /\ s \in Told(c.key.url)
                                 THEN [c EXCEPT !.crossed = @ \cup {s}] ELSE c
      BY <1>8, <1>9
    <2>2. Good(c)
      BY DEF Typed
    <2>3. CASE c.op = "get" /\ s \in Told(c.key.url)
      <3>1. x = [c EXCEPT !.crossed = @ \cup {s}]
        BY <2>1, <2>3
      <3> QED
        BY <1>1, <2>2, <2>3, <3>1, CrossedFields
    <2>4. CASE ~(c.op = "get" /\ s \in Told(c.key.url))
      BY <2>1, <2>2, <2>4
    <2> QED
      BY <2>3, <2>4
  <1>10. ASSUME NEW c \in calls PROVE \E x \in calls' : x.op = c.op /\ x.key = c.key
    <2>1. PICK x : x = IF c.op = "get" /\ s \in Told(c.key.url)
                       THEN [c EXCEPT !.crossed = @ \cup {s}] ELSE c
      OBVIOUS
    <2>2. x \in calls'
      BY <1>8, <2>1
    <2>3. Good(c)
      BY DEF Typed
    <2>4. CASE c.op = "get" /\ s \in Told(c.key.url)
      <3>1. x = [c EXCEPT !.crossed = @ \cup {s}]
        BY <2>1, <2>4
      <3> QED
        BY <1>1, <2>2, <2>3, <3>1, CrossedFields
    <2>5. CASE ~(c.op = "get" /\ s \in Told(c.key.url))
      BY <2>1, <2>2, <2>5
    <2> QED
      BY <2>4, <2>5
  <1>11. b \in calls'
    BY <1>8
  <1> QED
    BY <1>0, <1>1, <1>2, <1>4, <1>6, <1>7, <1>9, <1>10, <1>11 DEF Pressed

LEMMA PressStep ==
  ASSUME IInv, page # Nobody, NEW url \in Screen[page].change, Press(url)
  PROVE  IInv'
  <1>0. /\ Typed /\ Counted /\ Awaited /\ Tab /\ SessionTypeOK
        /\ UNCHANGED <<session, db, ui, ack, exit>>
        /\ spent.press < MaxPress
        /\ spent' = [spent EXCEPT !.act = @ + 1, !.press = @ + 1]
    BY DEF IInv, Typed, Press
  <1>1. /\ spent' \in [act : Nat, press : Nat, event : Nat]
        /\ spent'.press = spent.press + 1 /\ spent'.press <= MaxPress
    <2>1. spent \in [act : Nat, press : Nat, event : Nat] /\ MaxPress \in Nat
      BY <1>0, PageAssumption DEF Typed, PageAssumption
    <2>2. spent' = [act |-> spent.act + 1, press |-> spent.press + 1, event |-> spent.event]
      BY <1>0, <2>1
    <2>3. spent.act + 1 \in Nat /\ spent.press + 1 \in Nat /\ spent.event \in Nat
      BY <2>1
    <2>4. spent.press + 1 <= MaxPress
      BY <1>0, <2>1
    <2> QED
      BY <2>2, <2>3, <2>4
  <1>2. PICK s : s = Screen[page].subject
    OBVIOUS
  <1>13. PICK b : Pressed(b, s)
    BY <1>0, <1>2, PressFields
  <1>3. /\ Good(b)
        /\ b.op = "change" /\ b.by = page /\ b.token = AccessSent /\ b.phase = "sent"
        /\ \A x \in calls' : x # b => \E c \in calls :
             /\ Good(x)
             /\ x.op = c.op /\ x.by = c.by /\ x.key = c.key /\ x.phase = c.phase
             /\ x.token = c.token /\ x.ans = c.ans /\ x.mine = c.mine
             /\ x.op # "get" => x \in calls
        /\ \A c \in calls : \E x \in calls' : x.op = c.op /\ x.key = c.key
    BY <1>13 DEF Pressed
  <1>4. /\ DOMAIN cache' \subseteq DOMAIN cache
        /\ \A k \in DOMAIN cache' : cache'[k] = cache[k]
    BY DEF Press, Without, Restrict
  <1>5. Typed'
    <2>1. \A x \in calls' : Good(x)'
      BY <1>0, <1>3, GoodStays
    <2>2. SessionTypeOK'
      BY <1>0 DEF SessionTypeOK, session
    <2>3. \A k \in DOMAIN cache' : IsData(k.url, cache'[k])
      BY <1>0, <1>4 DEF Typed
    <2> QED
      BY <1>0, <1>1, <1>4, <2>1, <2>2, <2>3 DEF Typed, IsData, ui, Subject, Told
  <1>6. Counted'
    <2> DEFINE S == Due
               U == Due'
    <2>1. IsFiniteSet(S)
      BY <1>0 DEF Counted
    <2>2. U \subseteq S \cup {b}
      BY <1>3 DEF Due, Unserved
    <2>3. IsFiniteSet(U) /\ Cardinality(U) \in Nat /\ Cardinality(S) \in Nat
          /\ Cardinality(U) <= Cardinality(S) + 1
      <3> HIDE DEF S, U
      <3>0. Cardinality(S) \in Nat
        BY <2>1, FS_CardinalityType
      <3>1. IsFiniteSet(S \cup {b}) /\ Cardinality(S \cup {b}) <= Cardinality(S) + 1
        <4>1. /\ IsFiniteSet(S \cup {b})
              /\ Cardinality(S \cup {b}) = IF b \in S THEN Cardinality(S) ELSE Cardinality(S) + 1
          BY <2>1, FS_AddElement
        <4> QED
          BY <3>0, <4>1
      <3>2. IsFiniteSet(U) /\ Cardinality(U) <= Cardinality(S \cup {b})
        BY <2>2, <3>1, FS_Subset
      <3>3. Cardinality(U) \in Nat /\ Cardinality(S) \in Nat /\ Cardinality(S \cup {b}) \in Nat
        BY <2>1, <3>1, <3>2, FS_CardinalityType
      <3> QED
        BY <3>1, <3>2, <3>3
    <2>4. ASSUME NEW t \in Subject PROVE db'[t] + Cardinality(U) <= spent'.press
      <3>1. db[t] + Cardinality(S) <= spent.press /\ db' = db
        BY <1>0 DEF Counted
      <3>2. db[t] \in Nat /\ spent.press \in Nat
        BY <1>0 DEF Typed
      <3> HIDE DEF S, U
      <3> QED
        BY <1>1, <2>3, <3>1, <3>2
    <2> QED
      BY <2>3, <2>4 DEF Counted, Subject
  <1>7. Awaited'
    <2>1. {c.key : c \in Fetched} \subseteq {c.key : c \in Fetched}'
      <3>1. SUFFICES ASSUME NEW c \in calls, c.op = "get"
                     PROVE  c.key \in {x.key : x \in Fetched}'
        BY DEF Fetched
      <3> QED
        BY <1>3, <3>1 DEF Fetched
    <2> QED
      BY <1>0, <2>1 DEF Awaited, ui
  <1>8. Entering' \subseteq Entering /\ Held' = Held
    BY <1>0, <1>3 DEF Entering, Held, session
  <1>9. Entrance' /\ OneOwner'
    <2>1. \A x \in calls' : x.op = "logout" => leaving'
      BY <1>0, <1>3 DEF Tab, Entrance, session
    <2> QED
      BY <1>0, <1>8, <2>1 DEF Tab, Entrance, OneOwner, session
  <1>10. Tab'
    <2>1. leaving \/ user # Nobody
      BY <1>0 DEF Tab, Empty
    <2>2. ASSUME ~leaving, user # Nobody PROVE Owned' /\ Renewals'
      <3>1. Owned /\ Renewals
        BY <1>0, <2>2 DEF Tab
      <3>2. AccessSent # Nobody => AccessSent.who = user
        BY <1>0, <3>1, Tokens DEF Owned
      <3>3. \A x \in calls' : x.token # Nobody => x.token.who = user
        BY <1>3, <3>1, <3>2 DEF Owned
      <3>4. \A x \in calls' : Agrees(x)
        <4>1. Agrees(b)
          BY <1>3 DEF Agrees
        <4>2. ASSUME NEW x \in calls', x # b PROVE Agrees(x)
          <5>1. PICK c \in calls : x.phase = c.phase /\ x.token = c.token /\ x.ans = c.ans
            BY <1>3, <4>2
          <5> QED
            BY <3>1, <5>1 DEF Renewals, Agrees
        <4> QED
          BY <4>1, <4>2
      <3>5. \A x : Agrees(x) => Agrees(x)'
        <4>1. UNCHANGED <<active, jar, store>>
          BY <1>0 DEF session
        <4> QED
          BY <4>1, Zenon DEF Agrees, RefreshSent, Admitted
      <3>6. Renewals'
        BY <3>4, <3>5 DEF Renewals
      <3>7. Owned'
        BY <1>0, <1>4, <1>8, <3>1, <3>3 DEF Owned, session, ui
      <3> QED
        BY <3>6, <3>7
    <2> QED
      BY <1>0, <1>9, <2>1, <2>2 DEF Tab, session
  <1>11. Clean'
    BY <1>0 DEF IInv, Clean, ui
  <1>12. Fitting'
    <2>1. ListKeys(page, filter)' = ListKeys(page, filter)
      BY <1>0, Zenon DEF ListKeys, KeyOf, Key, ui
    <2>2. \A x \in calls' : x.op = "change" /\ x.mine => x.by = page
      BY <1>3 DEF IInv, Fitting
    <2> QED
      BY <1>0, <2>1, <2>2 DEF IInv, Fitting, ui
  <1> QED
    BY <1>5, <1>6, <1>7, <1>10, <1>11, <1>12 DEF IInv

-----------------------------------------------------------------------------
(* The invariant.                                                          *)

LEMMA InitIInv == ASSUME Init PROVE IInv
  <1>1. /\ active = Account /\ jar = SignedPair(First) /\ store = SignedPair(First)
        /\ flag = FALSE /\ leaving = FALSE /\ user = First
        /\ DOMAIN cache = {} /\ calls = {} /\ db = [s \in Subject |-> 0] /\ ack = db
        /\ page = Nobody /\ filter = Default /\ waits = {}
        /\ DOMAIN shown = {} /\ DOMAIN due = {} /\ mishap = {}
        /\ spent = [act |-> 0, press |-> 0, event |-> 0] /\ exit = "none"
    BY DEF Init, SessionInit
  <1>2. PICK t : t = [who |-> First, live |-> TRUE]
    OBVIOUS
  <1>3. t \in Token /\ t.who = First
    BY <1>2, NobodyAssumption DEF Token, NobodyAssumption
  <1>4. SignedPair(First) = [access |-> t, refresh |-> t]
    BY <1>2 DEF SignedPair
  <1>5. SessionTypeOK
    <2>1. First \in Account
      BY NobodyAssumption DEF NobodyAssumption
    <2>2. jar \in Pair /\ store \in Pair
      BY <1>1, <1>3, <1>4 DEF Pair
    <2> QED
      BY <1>1, <2>1, <2>2 DEF SessionTypeOK
  <1>6. First # Nobody
    BY NobodyAssumption DEF NobodyAssumption
  <1>7. Typed
    BY <1>1, <1>5, PageAssumption DEF Typed, PageAssumption
  <1>8. Counted
    <2>1. Due = {}
      BY <1>1 DEF Due
    <2>2. IsFiniteSet(Due) /\ Cardinality(Due) = 0
      BY <2>1, FS_EmptySet
    <2> QED
      BY <1>1, <2>2 DEF Counted
  <1>9. Awaited /\ Clean /\ Fitting
    BY <1>1 DEF Awaited, Clean, Fitting
  <1>10. Tab
    <2>1. \A w \in Held : w.who = First
      BY <1>1, <1>3, <1>4 DEF Held
    <2> QED
      BY <1>1, <1>6, <2>1 DEF Tab, OneOwner, Entrance, Entering, Owned, Renewals
  <1> QED
    BY <1>7, <1>8, <1>9, <1>10 DEF IInv

LEMMA StutterStep == ASSUME IInv, UNCHANGED vars PROVE IInv'
  <1>1. UNCHANGED <<active, jar, store, flag, user, leaving>>
    BY DEF vars, session
  <1>2. UNCHANGED <<cache, calls, db, page, filter, waits, shown, due, mishap, spent, ack, exit>>
    BY DEF vars, api, ui
  <1>3. Typed' /\ Counted' /\ Awaited'
    BY <1>1, <1>2, Zenon DEF IInv, Typed, SessionTypeOK, Good, Answers, IsData, Counted, Due,
       Awaited, Fetched
  <1>4. Tab' /\ Clean' /\ Fitting'
    BY <1>1, <1>2, Zenon DEF IInv, Tab, OneOwner, Held, Entrance, Entering, Empty, Owned, Renewals,
       Agrees, RefreshSent, Admitted, Clean, Fitting, ListKeys, KeyOf, Key
  <1> QED
    BY <1>3, <1>4 DEF IInv

LEMMA ArriveStep == ASSUME IInv, Arrive PROVE IInv'
  <1>1. UNCHANGED spent
    BY DEF Arrive
  <1>2. PICK c \in calls :
          \/ ArriveGet(c) \/ Failed(c) \/ ArriveChange(c) \/ Renew(c) \/ Renewed(c)
          \/ ForcedOut(c) \/ ArriveBoot(c) \/ ArriveLogin(c) \/ ArriveLogout(c)
    BY Zenon DEF Arrive
  <1>3. CASE ArriveGet(c)
    BY <1>1, <1>3, ArriveGetStep
  <1>4. CASE Failed(c)
    BY <1>1, <1>4, FailedStep
  <1>5. CASE ArriveChange(c)
    BY <1>1, <1>5, ArriveChangeStep
  <1>6. CASE Renew(c)
    BY <1>1, <1>6, RenewStep
  <1>7. CASE Renewed(c)
    BY <1>1, <1>7, RenewedStep
  <1>8. CASE ForcedOut(c)
    BY <1>1, <1>8, ForcedOutStep
  <1>9. CASE ArriveBoot(c)
    BY <1>1, <1>9, ArriveBootStep
  <1>10. CASE ArriveLogin(c)
    BY <1>1, <1>10, ArriveLoginStep
  <1>11. CASE ArriveLogout(c)
    BY <1>1, <1>11, ArriveLogoutStep
  <1> QED
    BY <1>2, <1>3, <1>4, <1>5, <1>6, <1>7, <1>8, <1>9, <1>10, <1>11

LEMMA NextStep == ASSUME IInv, [Next]_vars PROVE IInv'
  <1>1. CASE \E p \in Page : Open(p)
    BY <1>1, OpenStep
  <1>2. CASE \E f \in Filter : Turn(f)
    BY <1>2, TurnStep
  <1>3. CASE Focus
    BY <1>3, FocusStep
  <1>4. CASE page # Nobody /\ \E url \in Screen[page].change : Press(url)
    BY <1>4, PressStep
  <1>5. CASE \E a \in Account : Login(a)
    BY <1>5, LoginStep
  <1>6. CASE Logout
    BY <1>6, LogoutStep
  <1>7. CASE Reload
    BY <1>7, ReloadStep
  <1>8. CASE Serve
    BY <1>8, ServeStep
  <1>9. CASE Arrive
    BY <1>9, ArriveStep
  <1>10. CASE Lose
    BY <1>10, LoseStep
  <1>11. CASE Forget
    BY <1>11, ForgetStep
  <1>12. CASE Hour \/ Week
    BY <1>12, ExpiryStep
  <1>13. CASE Deactivate
    BY <1>13, DeactivateStep
  <1>14. CASE UNCHANGED vars
    BY <1>14, StutterStep
  <1> QED
    BY <1>1, <1>2, <1>3, <1>4, <1>5, <1>6, <1>7, <1>8, <1>9, <1>10, <1>11, <1>12, <1>13, <1>14,
       Zenon DEF Next

LEMMA Invariance == Spec => []IInv
  <1>1. Init => IInv
    BY InitIInv
  <1>2. IInv /\ [Next]_vars => IInv'
    BY NextStep
  <1> QED
    BY <1>1, <1>2, PTL DEF Spec

-----------------------------------------------------------------------------
(* What the invariant says of the properties.                              *)

LEMMA TypesHold == ASSUME IInv PROVE TypeOK
  <1>1. Typed /\ Counted /\ Awaited
    BY DEF IInv
  <1>2. ASSUME NEW s \in Subject PROVE db[s] \in 0..MaxPress /\ ack[s] \in 0..MaxPress
    <2>1. db[s] \in Nat /\ ack[s] \in Nat /\ ack[s] <= db[s] /\ spent.press \in Nat
          /\ spent.press <= MaxPress
      BY <1>1 DEF Typed
    <2>2. db[s] + Cardinality(Due) <= spent.press
      BY <1>1 DEF Counted
    <2>3. Cardinality(Due) \in Nat
      BY <1>1, FS_CardinalityType DEF Counted
    <2>4. MaxPress \in Nat
      BY PageAssumption DEF PageAssumption
    <2> QED
      BY <2>1, <2>2, <2>3, <2>4
  <1>3. db \in [Subject -> 0..MaxPress] /\ ack \in [Subject -> 0..MaxPress]
    BY <1>1, <1>2 DEF Typed
  <1>4. \A c \in calls : c.phase \in Phase
    BY <1>1 DEF Typed, Good, CallWith
  <1> QED
    BY <1>1, <1>3, <1>4 DEF Typed, Awaited, TypeOK

LEMMA BelongsHold == ASSUME IInv PROVE ShownBelongs
  <1>1. FitsFilter
    BY DEF IInv, Fitting, FitsFilter
  <1>2. ShownIsMine
    BY DEF IInv, Tab, Owned, ShownIsMine
  <1> QED
    BY <1>1, <1>2, TypesHold DEF ShownBelongs

(* What a page shows once all it asked for is there is of the user who is  *)
(* signed in, and for the filter it is set to, whatever the order of the   *)
(* answers, the renewals and the loads (AuthContext.jsx:99, api.js:94).    *)
THEOREM ShownBelongsHolds == Spec => []ShownBelongs
  BY Invariance, BelongsHold, PTL

(* A clean Sign Out leaves no token in the browser, for as long as nobody  *)
(* signs in again (AuthContext.jsx:99-124, api.js:54-68).                  *)
THEOREM LogoutLeavesNoToken == Spec => []LogoutHolds
  <1>1. IInv => LogoutHolds
    BY DEF IInv, Clean, LogoutHolds
  <1> QED
    BY <1>1, Invariance, PTL

LEMMA OutWhenDue ==
  ASSUME IInv, Next, flag' = TRUE, ~flag, user # Nobody, ~leaving, ~leaving'
  PROVE  ~Admitted(RefreshSent) \/ \E c \in calls : c.ans.code = "lost"
  <1>1. flag' # flag
    OBVIOUS
  <1>2. PICK c \in calls : ForcedOut(c)
    <2>1. ~\E p \in Page : Open(p)
      BY <1>1 DEF Open, session
    <2>2. ~\E f \in Filter : Turn(f)
      BY <1>1 DEF Turn, session
    <2>3. ~Focus /\ ~\E url \in Screen[page].change : Press(url)
      BY <1>1 DEF Focus, Press, session
    <2>4. ~Logout /\ ~Reload /\ ~\E a \in Account : Login(a)
      BY <1>1 DEF Logout, Reload, Login
    <2>5. ~Serve /\ ~Lose /\ ~Forget /\ ~Hour /\ ~Week /\ ~Deactivate
      BY <1>1 DEF Serve, Lose, Forget, Hour, Week, Deactivate, session
    <2>6. Arrive
      BY <2>1, <2>2, <2>3, <2>4, <2>5, Zenon DEF Next
    <2>7. PICK c \in calls :
            \/ ArriveGet(c) \/ Failed(c) \/ ArriveChange(c) \/ Renew(c) \/ Renewed(c)
            \/ ForcedOut(c) \/ ArriveBoot(c) \/ ArriveLogin(c) \/ ArriveLogout(c)
      BY <2>6, Zenon DEF Arrive
    <2>8. ~ArriveGet(c) /\ ~Failed(c) /\ ~ArriveChange(c) /\ ~Renew(c) /\ ~Renewed(c)
      BY <1>1 DEF ArriveGet, Failed, ArriveChange, Renew, Renewed, session
    <2>9. ~ArriveBoot(c) /\ ~ArriveLogin(c) /\ ~ArriveLogout(c)
      BY <1>1 DEF ArriveBoot, ArriveLogin, ArriveLogout
    <2> QED
      BY <2>7, <2>8, <2>9
  <1>3. Good(c) /\ Agrees(c)
    BY DEF IInv, Typed, Tab, Renewals
  <1>4. c.phase = "renewed" /\ c.ans.code # "ok"
    BY <1>2 DEF ForcedOut
  <1> QED
    BY <1>3, <1>4 DEF Good, Answers, Agrees

(* A user who did not ask for it is sent to the login page only when the   *)
(* browser has nothing left that a renewal would accept, or the answer to  *)
(* a renewal was lost (api.js:32-79).                                      *)
THEOREM SignedOutOnlyWhenDue == Spec => SignedOutWhenDue
  <1> DEFINE A == flag' /\ ~flag /\ user # Nobody /\ ~leaving /\ ~leaving' =>
                    ~Admitted(RefreshSent) \/ \E c \in calls : c.ans.code = "lost"
  <1>1. ASSUME IInv, [Next]_vars PROVE [A]_vars
    <2>1. CASE Next
      <3>1. flag' \in BOOLEAN
        BY <1>1, NextStep DEF IInv, Typed, SessionTypeOK
      <3> QED
        BY <1>1, <2>1, <3>1, OutWhenDue
    <2>2. CASE UNCHANGED vars
      BY <2>2
    <2> QED
      BY <1>1, <2>1, <2>2
  <1> QED
    BY <1>1, Invariance, PTL DEF Spec, SignedOutWhenDue

-----------------------------------------------------------------------------
(* Own writes are shown.                                                   *)

(* A request that was there, with the answer it had or with a new one.     *)
Follows(x) ==
  \E c \in calls :
    /\ x.op = c.op /\ x.by = c.by /\ x.key = c.key /\ x.crossed = c.crossed
    /\ x.op = "get" /\ x.phase = "answered" /\ x.ans.code = "ok" =>
         (c.phase = "answered" /\ x.ans = c.ans) \/ x.ans.rows = Reads(x.key.url)

LEMMA FreshStep ==
  ASSUME Fresh, db' = db, \A x \in calls' : x.op \in {"get", "change"} => Follows(x),
         DOMAIN cache' \subseteq DOMAIN cache, \A k \in DOMAIN cache' : cache'[k] = cache[k]
  PROVE  Fresh'
  <1>1. ASSUME NEW s, Still(s) PROVE Still(s)'
    BY <1>1 DEF Still, Follows
  <1>2. ASSUME NEW x \in calls', x.op = "get", NEW s \in Told(x.key.url) \ x.crossed
        PROVE  /\ Still(s)'
               /\ x.phase = "answered" /\ x.ans.code = "ok" => x.ans.rows[s] = db[s]
    <2>1. PICK c \in calls :
            /\ c.op = "get" /\ x.key = c.key /\ x.crossed = c.crossed
            /\ x.phase = "answered" /\ x.ans.code = "ok" =>
                 (c.phase = "answered" /\ x.ans = c.ans) \/ x.ans.rows = Reads(x.key.url)
      BY <1>2 DEF Follows
    <2>2. /\ Still(s)
          /\ c.phase = "answered" /\ c.ans.code = "ok" => c.ans.rows[s] = db[s]
      BY <2>1, <1>2 DEF Fresh, Fetched
    <2>3. Reads(x.key.url)[s] = db[s]
      BY <1>2 DEF Reads
    <2> QED
      BY <1>1, <2>1, <2>2, <2>3
  <1>3. ASSUME NEW k \in DOMAIN cache', NEW s \in Told(k.url) \ cache'[k].crossed
        PROVE  Still(s)' /\ cache'[k].rows[s] = db[s]
    BY <1>1, <1>3 DEF Fresh
  <1>4. \A url : Told(url)' = Told(url)
    BY Zenon DEF Told, Subject
  <1> QED
    BY <1>2, <1>3, <1>4 DEF Fresh, Fetched

(* Nothing that the page shows changes, or there is no page any more.      *)
LEMMA QuietStep ==
  ASSUME WInv, db' = db, ack' = ack,
         \A x \in calls' : x.op \in {"get", "change"} => Follows(x),
         DOMAIN cache' \subseteq DOMAIN cache, \A k \in DOMAIN cache' : cache'[k] = cache[k],
         \/ UNCHANGED <<waits, shown, due, mishap>>
         \/ DOMAIN shown' = {} /\ DOMAIN due' = {}
  PROVE  WInv'
  <1>1. Fresh'
    BY FreshStep DEF WInv
  <1>2. CASE UNCHANGED <<waits, shown, due, mishap>>
    <2>1. Dues' /\ OwnWritesShown'
      BY <1>2, Zenon DEF WInv, Dues, OwnWritesShown, Settled, Told, Subject
    <2> QED
      BY <1>1, <2>1 DEF WInv
  <1>3. CASE DOMAIN shown' = {} /\ DOMAIN due' = {}
    BY <1>1, <1>3 DEF WInv, Dues, OwnWritesShown
  <1> QED
    BY <1>2, <1>3

LEMMA SelfFollows == ASSUME NEW x \in calls PROVE Follows(x)
  BY DEF Follows

(* One request is replaced by another state of it, or by none.             *)
LEMMA OneFollows ==
  ASSUME NEW c, NEW d, calls' \subseteq calls \cup {d},
         d.op \in {"get", "change"} => c \in calls /\ Same(c, d),
         d.op = "get" => d.phase # "answered" \/ d.ans.code # "ok" \/ d.ans.rows = Reads(d.key.url)
  PROVE  \A x \in calls' : x.op \in {"get", "change"} => Follows(x)
  <1>1. ASSUME d.op \in {"get", "change"} PROVE Follows(d)
    BY <1>1 DEF Follows, Same
  <1> QED
    BY <1>1, SelfFollows

(* The server answers: with what it reads, or to a change with a new count.*)
LEMMA ReplyWrites ==
  ASSUME IInv, WInv, NEW c \in calls, c.phase \in {"sent", "renewing"}, NEW ans, Reply(c, ans),
         c.op = "get" /\ c.phase = "sent" => ans.code # "ok" \/ ans.rows = Reads(c.key.url),
         UNCHANGED <<cache, db, ui, ack>>
  PROVE  WInv'
  <1>1. Good(c)
    BY DEF IInv, Typed
  <1>2. PICK d :
          /\ calls' = (calls \ {c}) \cup {d}
          /\ Same(c, d) /\ d.ans = ans
          /\ d.phase = IF c.phase = "sent" THEN "answered" ELSE "renewed"
    BY <1>1, ReplyFields
  <1>3. \A x \in calls' : x.op \in {"get", "change"} => Follows(x)
    BY <1>2, OneFollows DEF Same
  <1> QED
    BY <1>3, QuietStep DEF ui

LEMMA CommitWrites ==
  ASSUME IInv, WInv, NEW c \in calls, c.phase = "sent", c.op = "change",
         NEW s, s = Screen[c.by].subject, db' = [db EXCEPT ![s] = @ + 1],
         NEW ans, Reply(c, ans), UNCHANGED <<cache, ui, ack>>
  PROVE  WInv'
  <1>1. Good(c) /\ db \in [Subject -> Nat]
    BY DEF IInv, Typed
  <1>2. PICK d : calls' = (calls \ {c}) \cup {d} /\ Same(c, d)
    BY <1>1, ReplyFields
  <1>3. ~Still(s) /\ \A t \in Subject : Still(t) => db'[t] = db[t] /\ Still(t)'
    BY <1>1, <1>2 DEF Still, Same
  <1>4. \A url : Told(url)' = Told(url) /\ Told(url) \subseteq Subject
    BY Zenon DEF Told, Subject
  <1>5. Fresh'
    <2>1. ASSUME NEW x \in calls', x.op = "get", NEW t \in Told(x.key.url) \ x.crossed
          PROVE  /\ Still(t)'
                 /\ x.phase = "answered" /\ x.ans.code = "ok" => x.ans.rows[t] = db'[t]
      <3>1. x \in calls /\ t \in Subject
        BY <1>2, <1>4, <2>1 DEF Same
      <3> QED
        BY <1>3, <2>1, <3>1 DEF WInv, Fresh, Fetched
    <2>2. ASSUME NEW k \in DOMAIN cache', NEW t \in Told(k.url) \ cache'[k].crossed
          PROVE  Still(t)' /\ cache'[k].rows[t] = db'[t]
      <3>1. t \in Subject
        BY <1>4, <2>2
      <3> QED
        BY <1>3, <2>2, <3>1 DEF WInv, Fresh
    <2> QED
      BY <1>4, <2>1, <2>2 DEF Fresh, Fetched
  <1>6. Dues' /\ OwnWritesShown'
    BY Zenon DEF ui, WInv, Dues, OwnWritesShown, Settled, Told, Subject
  <1> QED
    BY <1>5, <1>6 DEF WInv

LEMMA ServeWrites == ASSUME IInv, WInv, Serve PROVE WInv'
  <1>1. UNCHANGED <<cache, ui, ack>>
    BY DEF Serve
  <1>2. PICK c \in calls :
          \/ ServeGet(c) \/ ServeChange(c) \/ ServeLogin(c) \/ ServeLogout(c) \/ ServeRenewal(c)
    BY DEF Serve
  <1>3. CASE ServeGet(c)
    <2>1. c.phase = "sent" /\ UNCHANGED db
      BY <1>3 DEF ServeGet
    <2>2. PICK ans : /\ Reply(c, ans)
                     /\ c.op = "get" => ans.code # "ok" \/ ans.rows = Reads(c.key.url)
      <3>1. CASE Admitted(c.token)
        <4>1. PICK ans : ans = [code |-> "ok", who |-> c.token.who,
                                rows |-> IF c.op = "get" THEN Reads(c.key.url) ELSE <<>>]
          OBVIOUS
        <4>2. Reply(c, ans)
          BY <1>3, <3>1, <4>1 DEF ServeGet
        <4>3. c.op = "get" => ans.rows = Reads(c.key.url)
          BY <4>1
        <4> QED
          BY <4>2, <4>3
      <3>2. CASE ~Admitted(c.token)
        <4>1. PICK ans : ans = Answer("401")
          OBVIOUS
        <4>2. Reply(c, ans)
          BY <1>3, <3>2, <4>1 DEF ServeGet
        <4>3. ans.code # "ok"
          BY <4>1 DEF Answer
        <4> QED
          BY <4>2, <4>3
      <3> QED
        BY <3>1, <3>2
    <2> QED
      BY <1>1, <2>1, <2>2, ReplyWrites
  <1>4. CASE ServeChange(c)
    <2>1. c.phase = "sent" /\ c.op = "change"
      BY <1>4 DEF ServeChange
    <2>2. PICK s : s = Screen[c.by].subject
      OBVIOUS
    <2>3. CASE db' = [db EXCEPT ![s] = @ + 1] /\ Reply(c, [code |-> "ok", count |-> db[s] + 1])
      <3>1. PICK ans : ans = [code |-> "ok", count |-> db[s] + 1]
        OBVIOUS
      <3>2. Reply(c, ans)
        BY <2>3, <3>1
      <3> QED
        BY <1>1, <2>1, <2>2, <2>3, <3>2, CommitWrites
    <2>4. CASE Reply(c, Answer(IF Admitted(c.token) THEN "refused" ELSE "401")) /\ UNCHANGED db
      <3>1. PICK ans : ans = Answer(IF Admitted(c.token) THEN "refused" ELSE "401")
        OBVIOUS
      <3>2. Reply(c, ans)
        BY <2>4, <3>1
      <3> QED
        BY <1>1, <2>1, <2>4, <3>2, ReplyWrites
    <2> QED
      BY <1>4, <2>2, <2>3, <2>4 DEF ServeChange
  <1>5. CASE ServeLogin(c) \/ ServeLogout(c)
    <2>1. c.phase = "sent" /\ c.op \in {"login", "logout"} /\ UNCHANGED db
      BY <1>5 DEF ServeLogin, ServeLogout
    <2>2. PICK ans : Reply(c, ans)
      BY <1>5 DEF ServeLogin, ServeLogout
    <2> QED
      BY <1>1, <2>1, <2>2, ReplyWrites
  <1>6. CASE ServeRenewal(c)
    <2>1. c.phase = "renewing" /\ UNCHANGED db
      BY <1>6 DEF ServeRenewal
    <2>2. PICK ans : Reply(c, ans)
      BY <1>6 DEF ServeRenewal
    <2> QED
      BY <1>1, <2>1, <2>2, ReplyWrites
  <1> QED
    BY <1>2, <1>3, <1>4, <1>5, <1>6

(* A request that has no answer yet, or none that is good.                 *)
LEMMA SetBackWrites ==
  ASSUME WInv, NEW c \in calls, NEW d, calls' = (calls \ {c}) \cup {d}, Same(c, d),
         d.phase # "answered" \/ d.ans.code # "ok", UNCHANGED <<cache, db, ui, ack>>
  PROVE  WInv'
  <1>1. \A x \in calls' : x.op \in {"get", "change"} => Follows(x)
    BY OneFollows
  <1> QED
    BY <1>1, QuietStep DEF ui

LEMMA LoseWrites == ASSUME IInv, WInv, Lose PROVE WInv'
  <1>0. PICK ans : ans = Answer("lost")
    OBVIOUS
  <1>1. PICK c \in calls, f \in Phase :
          calls' = (calls \ {c}) \cup {[c EXCEPT !.phase = f, !.ans = ans]}
    BY <1>0 DEF Lose, Phase
  <1>2. PICK d : d = [c EXCEPT !.phase = f, !.ans = ans]
    OBVIOUS
  <1>3. c \in CallWith(c.ans)
    BY DEF IInv, Typed, Good
  <1>4. Same(c, d) /\ d.ans = ans
    BY <1>2, <1>3 DEF CallWith, Same
  <1>5. d.ans.code # "ok"
    BY <1>0, <1>4 DEF Answer
  <1>6. UNCHANGED <<cache, db, ui, ack>>
    BY DEF Lose
  <1> QED
    BY <1>1, <1>2, <1>4, <1>5, <1>6, SetBackWrites

LEMMA RenewWrites == ASSUME IInv, WInv, NEW c \in calls, Renew(c) PROVE WInv'
  <1>1. PICK t : t = RefreshSent
    OBVIOUS
  <1>2. PICK d :
          d = [c EXCEPT !.phase = "renewing", !.again = TRUE, !.token = t, !.ans = NoAnswer]
    OBVIOUS
  <1>3. c \in CallWith(c.ans)
    BY DEF IInv, Typed, Good
  <1>4. Same(c, d) /\ d.phase = "renewing"
    BY <1>2, <1>3 DEF CallWith, Same
  <1>5. calls' = (calls \ {c}) \cup {d} /\ UNCHANGED <<cache, db, ui, ack>>
    BY <1>1, <1>2 DEF Renew
  <1> QED
    BY <1>4, <1>5, SetBackWrites

LEMMA RenewedWrites == ASSUME IInv, WInv, NEW c \in calls, Renewed(c) PROVE WInv'
  <1>1. PICK t : t = jar'.access
    OBVIOUS
  <1>2. PICK d : d = [c EXCEPT !.phase = "sent", !.token = t, !.ans = NoAnswer]
    OBVIOUS
  <1>3. c \in CallWith(c.ans)
    BY DEF IInv, Typed, Good
  <1>4. Same(c, d) /\ d.phase = "sent"
    BY <1>2, <1>3 DEF CallWith, Same
  <1>5. calls' = (calls \ {c}) \cup {d} /\ UNCHANGED <<cache, db, ui, ack>>
    BY <1>1, <1>2 DEF Renewed
  <1> QED
    BY <1>4, <1>5, SetBackWrites

LEMMA FailedWrites == ASSUME IInv, WInv, NEW c \in calls, Failed(c) PROVE WInv'
  <1>1. calls' \subseteq calls /\ UNCHANGED <<cache, db, shown, due, ack>>
    BY DEF Failed
  <1>2. \A x \in calls' : x.op \in {"get", "change"} => Follows(x)
    BY <1>1, SelfFollows
  <1>3. CASE "failed" \in mishap'
    <2>1. Fresh'
      BY <1>1, <1>2, FreshStep DEF WInv
    <2>2. OwnWritesShown'
      BY <1>3 DEF OwnWritesShown
    <2>3. Dues'
      BY <1>1, Zenon DEF WInv, Dues, Told, Subject
    <2> QED
      BY <2>1, <2>2, <2>3 DEF WInv
  <1>4. CASE "failed" \notin mishap'
    <2>1. UNCHANGED <<waits, mishap>>
      BY <1>4 DEF Failed
    <2> QED
      BY <1>1, <1>2, <2>1, QuietStep
  <1> QED
    BY <1>3, <1>4

(* A request of the session has no part in it.                             *)
LEMMA ArriveBootWrites ==
  ASSUME IInv, WInv, NEW c \in calls, ArriveBoot(c) \/ ArriveLogin(c)
  PROVE  WInv'
  <1>1. UNCHANGED <<cache, db, ui, ack>>
    BY DEF ArriveBoot, ArriveLogin
  <1>2. \A x \in calls' : x.op \in {"get", "change"} => Follows(x)
    <2>1. CASE ArriveBoot(c)
      BY <2>1, SelfFollows DEF ArriveBoot
    <2>2. CASE ArriveLogin(c)
      <3>1. c.op = "login"
        BY <2>2 DEF ArriveLogin
      <3>2. CASE c.ans.code = "ok"
        <4>1. PICK t : t = jar'.access
          OBVIOUS
        <4>2. PICK d : d = Call("boot", c.by, NoKey, t)
          OBVIOUS
        <4>3. d.op = "boot"
          BY <4>2 DEF Call
        <4>4. calls' = (calls \ {c}) \cup {d}
          BY <2>2, <3>2, <4>1, <4>2 DEF ArriveLogin
        <4> QED
          BY <4>3, <4>4, SelfFollows
      <3>3. CASE c.ans.code = "lost"
        <4>1. PICK d : d = [c EXCEPT !.phase = "sent", !.ans = NoAnswer]
          OBVIOUS
        <4>2. c \in CallWith(c.ans)
          BY DEF IInv, Typed, Good
        <4>3. d.op = "login"
          BY <3>1, <4>1, <4>2 DEF CallWith
        <4>4. calls' = (calls \ {c}) \cup {d}
          BY <2>2, <3>3, <4>1 DEF ArriveLogin
        <4> QED
          BY <4>3, <4>4, SelfFollows
      <3>4. CASE c.ans.code \notin {"ok", "lost"}
        <4>1. calls' = calls \ {c}
          BY <2>2, <3>4 DEF ArriveLogin
        <4> QED
          BY <4>1, SelfFollows
      <3> QED
        BY <3>2, <3>3, <3>4
    <2> QED
      BY <2>1, <2>2
  <1> QED
    BY <1>1, <1>2, QuietStep DEF ui

(* A page of its own has nothing in memory.                                *)
LEMMA ReloadedWrites ==
  ASSUME WInv, NEW marked \in BOOLEAN, NEW token, Reloaded(marked, token), db' = db, ack' = ack
  PROVE  WInv'
  <1>1. \A x \in calls' : x.op = "boot"
    <2>1. PICK d : d = Call("boot", Nobody, NoKey, token)
      OBVIOUS
    <2>2. d.op = "boot"
      BY <2>1 DEF Call
    <2> QED
      BY <2>1, <2>2 DEF Reloaded
  <1>2. DOMAIN cache' = {} /\ DOMAIN shown' = {} /\ DOMAIN due' = {}
    BY DEF Reloaded, NoPage
  <1> QED
    BY <1>1, <1>2, QuietStep

LEMMA LeaveWrites ==
  ASSUME IInv, WInv, Reload \/ \E c \in calls : ForcedOut(c) \/ ArriveLogout(c)
  PROVE  WInv'
  <1>1. flag \in BOOLEAN /\ UNCHANGED <<db, ack>>
    BY DEF IInv, Typed, SessionTypeOK, Reload, ForcedOut, ArriveLogout
  <1>2. PICK marked \in BOOLEAN : \E token : Reloaded(marked, token)
    BY <1>1 DEF Reload, ForcedOut, ArriveLogout
  <1> QED
    BY <1>1, <1>2, ReloadedWrites

LEMMA LoginWrites == ASSUME IInv, WInv, NEW a \in Account, Login(a) PROVE WInv'
  <1>1. PICK d : d = Call("login", a, NoKey, Nobody)
    OBVIOUS
  <1>2. d.op = "login"
    BY <1>1 DEF Call
  <1>3. calls' = calls \cup {d} /\ UNCHANGED <<db, ui, ack>>
    BY <1>1 DEF Login
  <1>4. /\ DOMAIN cache' \subseteq DOMAIN cache
        /\ \A k \in DOMAIN cache' : cache'[k] = cache[k]
    BY DEF Login, Without, Restrict
  <1>5. \A x \in calls' : x.op \in {"get", "change"} => Follows(x)
    BY <1>2, <1>3, SelfFollows
  <1> QED
    BY <1>3, <1>4, <1>5, QuietStep DEF ui

LEMMA LogoutWrites == ASSUME IInv, WInv, Logout PROVE WInv'
  <1>1. PICK d : d = Call("logout", Nobody, NoKey, Nobody)
    OBVIOUS
  <1>2. d.op = "logout"
    BY <1>1 DEF Call
  <1>3. calls' = Orphaned(calls) \cup {d} /\ UNCHANGED <<db, ack>>
        /\ DOMAIN cache' = {} /\ DOMAIN shown' = {} /\ DOMAIN due' = {}
    BY <1>1 DEF Logout, NoPage
  <1>4. ASSUME NEW x \in Orphaned(calls) PROVE Follows(x)
    <2>1. \A c \in calls : Good(c)
      BY DEF IInv, Typed
    <2>2. PICK c \in calls :
            /\ x.op = c.op /\ x.by = c.by /\ x.key = c.key /\ x.phase = c.phase
            /\ x.ans = c.ans /\ x.crossed = c.crossed
      BY <2>1, OrphansFields
    <2> QED
      BY <2>2 DEF Follows
  <1>5. \A x \in calls' : x.op \in {"get", "change"} => Follows(x)
    BY <1>2, <1>3, <1>4
  <1> QED
    BY <1>3, <1>5, QuietStep

LEMMA TimeWrites ==
  ASSUME IInv, WInv, Forget \/ Hour \/ Week \/ Deactivate \/ UNCHANGED vars
  PROVE  WInv'
  <1>1. UNCHANGED <<calls, db, ui, ack>>
    BY DEF Forget, Hour, Week, Deactivate, vars, api
  <1>2. /\ DOMAIN cache' \subseteq DOMAIN cache
        /\ \A k \in DOMAIN cache' : cache'[k] = cache[k]
    BY DEF Forget, Hour, Week, Deactivate, vars, api, Restrict
  <1>3. \A x \in calls' : x.op \in {"get", "change"} => Follows(x)
    BY <1>1, SelfFollows
  <1> QED
    BY <1>1, <1>2, <1>3, QuietStep DEF ui

(* What is asked for meets the changes that are under way.                 *)
LEMMA AskedFresh ==
  ASSUME Typed, Tab, NEW keys \in SUBSET AKey, NEW C, Retained(C), C \subseteq calls \/ Entering = {},
         AskFor(keys, C, cache), UNCHANGED <<session, cache, db>>, Fresh
  PROVE  Fresh'
  <1>1. /\ \A x \in calls' : x \notin C =>
              /\ x.op = "get" /\ x.ans.code = "none" /\ x.crossed = Changing(C) \cap Told(x.key.url)
        /\ \A x \in calls' : x.op # "get" => x \in C
    <2>1. SessionTypeOK /\ db' = db
      BY DEF Typed
    <2>2. /\ C \subseteq calls'
          /\ \A x \in calls' : x \notin C =>
               /\ Good(x)'
               /\ x.op = "get" /\ x.key \in keys /\ x.phase = "sent" /\ x.token = AccessSent
               /\ x.ans.code = "none" /\ x.crossed = Changing(C) \cap Told(x.key.url)
          /\ \A k \in keys \ DOMAIN cache : \E x \in calls' : x.op = "get" /\ x.key = k
      BY <2>1, Asked
    <2> QED
      BY <2>2
  <1>2. \A x \in C : \E c \in calls :
          /\ x.op = c.op /\ x.by = c.by /\ x.key = c.key /\ x.phase = c.phase
          /\ x.ans = c.ans /\ x.crossed = c.crossed
    BY DEF Retained
  <1>3. ASSUME NEW s, Still(s) PROVE Still(s)'
    BY <1>1, <1>2, <1>3 DEF Still
  <1>4. ASSUME NEW x \in calls', x.op = "get", NEW s \in Told(x.key.url) \ x.crossed
        PROVE  /\ Still(s)'
               /\ x.phase = "answered" /\ x.ans.code = "ok" => x.ans.rows[s] = db[s]
    <2>1. CASE x \in C
      <3>1. PICK c \in calls :
              /\ x.op = c.op /\ x.key = c.key /\ x.phase = c.phase
              /\ x.ans = c.ans /\ x.crossed = c.crossed
        BY <1>2, <2>1
      <3> QED
        BY <1>3, <1>4, <3>1 DEF Fresh, Fetched
    <2>2. CASE x \notin C
      <3>1. s \notin Changing(C)
        BY <1>1, <1>4, <2>2
      <3>2. \A d \in calls' : d.op = "change" => Screen[d.by].subject # s
        BY <1>1, <3>1 DEF Changing
      <3> QED
        BY <1>1, <2>2, <3>2 DEF Still
    <2> QED
      BY <2>1, <2>2
  <1>5. \A k \in DOMAIN cache' : \A s \in Told(k.url) \ cache'[k].crossed :
          Still(s)' /\ cache'[k].rows[s] = db[s]
    BY <1>3 DEF Fresh
  <1>6. \A url : Told(url)' = Told(url)
    BY Zenon DEF Told, Subject
  <1> QED
    BY <1>4, <1>5, <1>6 DEF Fresh, Fetched

(* What the page shows then is as new as what it was told of.              *)
LEMMA ShowsWrites ==
  ASSUME Fresh, NEW keys, NEW told, NEW W, NEW S, NEW D, NEW M, Shows(keys, told, W, S, D, M),
         told = ack', ack' \in [Subject -> Nat], \A s \in Subject : ack'[s] <= db[s],
         DOMAIN S \subseteq DOMAIN D,
         \A u \in DOMAIN D : \A s \in Told(u) : D[u][s] \in Nat /\ D[u][s] <= ack'[s],
         \A u \in DOMAIN S : (\A w \in W : w.url # u) /\ "failed" \notin M =>
           \A s \in Told(u) \ S[u].data.crossed : S[u].data.rows[s] >= D[u][s]
  PROVE  Dues' /\ OwnWritesShown'
  <1>1. \A url : Told(url)' = Told(url) /\ Told(url) \subseteq Subject
    BY Zenon DEF Told, Subject
  <1>2. ASSUME NEW k \in keys, NEW s \in Told(k.url)
        PROVE  due'[k.url][s] = ack'[s]
    <2>1. due'[k.url] = [t \in Told(k.url) |-> told[t]]
      BY DEF Shows
    <2> QED
      BY <2>1
  <1>3. ASSUME NEW u \in DOMAIN due', NEW s \in Told(u)
        PROVE  due'[u][s] \in Nat /\ due'[u][s] <= ack'[s]
    <2>0. s \in Subject
      BY <1>1
    <2>1. CASE \E k \in keys : k.url = u
      <3>1. due'[u][s] = ack'[s]
        BY <1>2, <2>1
      <3>2. ack'[s] \in Nat
        BY <2>0
      <3> QED
        BY <3>1, <3>2
    <2>2. CASE ~\E k \in keys : k.url = u
      BY <2>2 DEF Shows
    <2> QED
      BY <2>1, <2>2
  <1>4. ASSUME NEW u \in DOMAIN shown', \A w \in waits' : w.url # u, "failed" \notin mishap',
               NEW s \in Told(u) \ shown'[u].data.crossed
        PROVE  shown'[u].data.rows[s] >= due'[u][s]
    <2>0. s \in Subject /\ s \in Told(u)
      BY <1>1
    <2>1. CASE \E k \in keys : k.url = u
      <3>1. PICK k \in keys : k.url = u
        BY <2>1
      <3>2. k \in DOMAIN cache
        BY <1>4, <3>1 DEF Shows
      <3>3. shown'[u] = [data |-> cache[k], filter |-> k.filter]
        BY <3>1, <3>2 DEF Shows
      <3>4. shown'[u].data = cache[k]
        BY <3>3
      <3>5. cache[k].rows[s] = db[s]
        BY <2>0, <3>1, <3>2, <3>4 DEF Fresh
      <3>6. due'[u][s] = ack'[s] /\ ack'[s] <= db[s]
        BY <1>2, <2>0, <3>1
      <3> QED
        BY <3>4, <3>5, <3>6
    <2>2. CASE ~\E k \in keys : k.url = u
      <3>1. u \in DOMAIN S /\ u \in DOMAIN D /\ shown'[u] = S[u] /\ due'[u] = D[u]
        BY <2>2 DEF Shows
      <3>2. (\A w \in W : w.url # u) /\ "failed" \notin M
        BY <1>4 DEF Shows
      <3> QED
        BY <2>0, <3>1, <3>2
    <2> QED
      BY <2>1, <2>2
  <1>5. Dues'
    BY <1>1, <1>3 DEF Dues
  <1>6. OwnWritesShown'
    BY <1>1, <1>4 DEF OwnWritesShown, Settled
  <1> QED
    BY <1>5, <1>6

LEMMA FocusTurnWrites ==
  ASSUME IInv, IInv', WInv, NEW f \in Filter, page # Nobody, NEW keys, keys = ListKeys(page, f),
         AskFor(keys, calls, cache), ShowKnown(keys, cache, ack),
         UNCHANGED <<session, cache, db, ack>>
  PROVE  WInv'
  <1>0. /\ Typed /\ Awaited /\ Tab /\ page \in Page
        /\ ack' \in [Subject -> Nat] /\ \A s \in Subject : ack'[s] <= db[s]
    BY DEF IInv, Typed
  <1>1. keys \in SUBSET AKey /\ \A k, w \in keys : k.url = w.url => k = w
    BY <1>0, PageKeys
  <1>2. Shows(keys, ack, waits, shown, due, mishap)
    BY <1>1, KnownShows
  <1>3. Retained(calls)
    BY <1>0 DEF Retained, Typed
  <1>4. Fresh'
    BY <1>0, <1>1, <1>3, AskedFresh DEF WInv
  <1>5. \A u \in DOMAIN due : \A s \in Told(u) : due[u][s] \in Nat /\ due[u][s] <= ack'[s]
    BY DEF WInv, Dues
  <1>6. \A u \in DOMAIN shown : (\A w \in waits : w.url # u) /\ "failed" \notin mishap =>
          \A s \in Told(u) \ shown[u].data.crossed : shown[u].data.rows[s] >= due[u][s]
    BY DEF WInv, OwnWritesShown, Settled
  <1>7. Dues' /\ OwnWritesShown'
    <2>1. PICK told : told = ack'
      OBVIOUS
    <2>2. Shows(keys, told, waits, shown, due, mishap)
      BY <1>2, <2>1
    <2>3. Fresh
      BY DEF WInv
    <2>4. DOMAIN shown \subseteq DOMAIN due
      BY <1>0 DEF Awaited
    <2> QED
      BY <1>0, <1>5, <1>6, <2>1, <2>2, <2>3, <2>4, ShowsWrites
  <1> QED
    BY <1>4, <1>7 DEF WInv

LEMMA TurnWrites == ASSUME IInv, IInv', WInv, NEW f \in Filter, Turn(f) PROVE WInv'
  <1>1. PICK keys : keys = ListKeys(page, f)
    OBVIOUS
  <1> QED
    BY <1>1, FocusTurnWrites DEF Turn

LEMMA FocusWrites == ASSUME IInv, IInv', WInv, Focus PROVE WInv'
  <1>1. PICK keys : keys = ListKeys(page, filter)
    OBVIOUS
  <1>2. filter \in Filter
    BY DEF IInv, Typed
  <1> QED
    BY <1>1, <1>2, FocusTurnWrites DEF Focus

LEMMA OpenWrites == ASSUME IInv, IInv', WInv, NEW p \in Page, Open(p) PROVE WInv'
  <1>0. /\ Typed /\ Tab /\ user # Nobody /\ Default \in Filter /\ Fresh
        /\ UNCHANGED <<session, cache, db, ack>>
        /\ ack' \in [Subject -> Nat] /\ \A s \in Subject : ack'[s] <= db[s]
    BY PageAssumption DEF IInv, Typed, Open, PageAssumption, WInv
  <1>1. PICK keys : keys = ListKeys(p, Default) \cup OnceKeys(p)
    OBVIOUS
  <1>2. keys \in SUBSET AKey /\ \A k, w \in keys : k.url = w.url => k = w
    BY <1>0, <1>1, PageKeys
  <1>3. PICK C : C = Orphaned(calls)
    OBVIOUS
  <1>4. AskFor(keys, C, cache)
    BY <1>1, <1>3 DEF Open
  <1>5. Retained(C) /\ Entering = {}
    BY <1>0, <1>3, OrphansRetained DEF Tab, Entrance
  <1>6. PICK S : S = <<>>
    OBVIOUS
  <1>7. DOMAIN S = {}
    BY <1>6
  <1>8. PICK told : told = ack'
    OBVIOUS
  <1>9. Shows(keys, told, {}, S, S, {})
    <2>1. Shows(keys, ack, {}, S, S, {})
      BY <1>1, <1>2, <1>6, OpenShows
    <2> QED
      BY <1>0, <1>8, <2>1
  <1>10. Fresh'
    BY <1>0, <1>2, <1>4, <1>5, AskedFresh
  <1>11. Dues' /\ OwnWritesShown'
    BY <1>0, <1>7, <1>8, <1>9, ShowsWrites
  <1> QED
    BY <1>10, <1>11 DEF WInv

LEMMA ArriveChangeWrites == ASSUME IInv, IInv', WInv, NEW c \in calls, ArriveChange(c) PROVE WInv'
  <1>0. /\ Typed /\ Awaited /\ Tab /\ Good(c) /\ Fresh
        /\ c.op = "change" /\ c.phase = "answered" /\ c.ans.code = "ok"
        /\ UNCHANGED <<session, cache, db>>
        /\ ack' \in [Subject -> Nat] /\ \A s \in Subject : ack'[s] <= db[s]
    BY DEF IInv, Typed, ArriveChange, WInv
  <1>1. PICK keys : keys = ListKeys(c.by, c.key.filter)
    OBVIOUS
  <1>2. c.by \in Page /\ c.key.filter \in Filter /\ c.ans.count \in Nat
    BY <1>0 DEF Good, Kinds, Answers
  <1>3. keys \in SUBSET AKey /\ \A k, w \in keys : k.url = w.url => k = w
    BY <1>1, <1>2, PageKeys
  <1>4. PICK C : C = calls \ {c}
    OBVIOUS
  <1>5. AskFor(keys, C, cache)
    BY <1>1, <1>4 DEF ArriveChange
  <1>6. Retained(C) /\ C \subseteq calls
    BY <1>0, <1>4 DEF Retained, Typed
  <1>7. Fresh'
    BY <1>0, <1>3, <1>5, <1>6, AskedFresh
  <1>8. \A s \in Subject : ack[s] <= ack'[s]
    <2>1. ack' = [ack EXCEPT ![Screen[c.by].subject] = IF @ < c.ans.count THEN c.ans.count ELSE @]
      BY DEF ArriveChange
    <2>2. ack \in [Subject -> Nat]
      BY <1>0 DEF Typed
    <2> QED
      BY <1>2, <2>1, <2>2
  <1>9. \A u \in DOMAIN due : \A s \in Told(u) : due[u][s] \in Nat /\ due[u][s] <= ack'[s]
    <2>1. ASSUME NEW u \in DOMAIN due, NEW s \in Told(u)
          PROVE  due[u][s] \in Nat /\ due[u][s] <= ack'[s]
      <3>1. s \in Subject
        BY DEF Told
      <3>2. due[u][s] \in Nat /\ due[u][s] <= ack[s]
        BY DEF WInv, Dues
      <3>3. ack[s] \in Nat /\ ack'[s] \in Nat
        BY <1>0, <3>1 DEF Typed
      <3> QED
        BY <1>8, <3>1, <3>2, <3>3
    <2> QED
      BY <2>1
  <1>10. \A u \in DOMAIN shown : (\A w \in waits : w.url # u) /\ "failed" \notin mishap =>
           \A s \in Told(u) \ shown[u].data.crossed : shown[u].data.rows[s] >= due[u][s]
    BY DEF WInv, OwnWritesShown, Settled
  <1>11. CASE c.mine
    <2>1. Shows(keys, ack', waits, shown, due, mishap)
      BY <1>1, <1>3, <1>11, ChangeShows
    <2>2. PICK told : told = ack'
      OBVIOUS
    <2>3. Shows(keys, told, waits, shown, due, mishap)
      BY <2>1, <2>2
    <2>4. DOMAIN shown \subseteq DOMAIN due
      BY <1>0 DEF Awaited
    <2>5. Dues' /\ OwnWritesShown'
      BY <1>0, <1>9, <1>10, <2>2, <2>3, <2>4, ShowsWrites
    <2> QED
      BY <1>7, <2>5 DEF WInv
  <1>12. CASE ~c.mine
    <2>1. UNCHANGED <<waits, shown, due, mishap>>
      BY <1>12 DEF ArriveChange
    <2>2. \A url : Told(url)' = Told(url)
      BY Zenon DEF Told, Subject
    <2>3. Dues'
      BY <1>9, <2>1, <2>2 DEF Dues
    <2>4. OwnWritesShown'
      BY <1>10, <2>1, <2>2 DEF OwnWritesShown, Settled
    <2> QED
      BY <1>7, <2>3, <2>4 DEF WInv
  <1> QED
    BY <1>11, <1>12

(* The answer is shown, and known from now on.                             *)
LEMMA ArriveGetWrites == ASSUME IInv, WInv, NEW c \in calls, ArriveGet(c) PROVE WInv'
  <1>0. /\ Typed /\ Awaited /\ Fresh /\ UNCHANGED <<db, due, mishap, ack>>
        /\ c.op = "get" /\ c.phase = "answered" /\ c.ans.code = "ok"
    BY DEF IInv, ArriveGet, WInv
  <1>1. PICK data :
         /\ data = [who |-> c.ans.who, rows |-> c.ans.rows, crossed |-> c.crossed]
         /\ c.key \in [url : Url, filter : Filter \cup {Plain}]
         /\ IsData(c.key.url, data)
         /\ c.token # Nobody /\ data.who = c.token.who
         /\ calls' = calls \ {c} /\ waits' = waits \ {c.key}
         /\ DOMAIN cache' = DOMAIN cache \cup {c.key}
         /\ cache'[c.key] = data
         /\ \A k \in DOMAIN cache : k # c.key => cache'[k] = cache[k]
         /\ IF c.key \in waits
            THEN /\ DOMAIN shown' = DOMAIN shown \cup {c.key.url}
                 /\ shown'[c.key.url] = [data |-> data, filter |-> c.key.filter]
                 /\ \A u \in DOMAIN shown : u # c.key.url => shown'[u] = shown[u]
            ELSE shown' = shown
    BY <1>0, GetFacts
  <1>2. data.rows = c.ans.rows /\ data.crossed = c.crossed
    BY <1>1
  <1>3. \A url : Told(url)' = Told(url) /\ Told(url) \subseteq Subject
    BY Zenon DEF Told, Subject
  <1>4. ASSUME NEW s, Still(s) PROVE Still(s)'
    BY <1>1, <1>4 DEF Still
  <1>5. ASSUME NEW s \in Told(c.key.url) \ c.crossed PROVE Still(s) /\ c.ans.rows[s] = db[s]
    BY <1>0 DEF Fresh, Fetched
  <1>6. Fresh'
    <2>1. ASSUME NEW x \in calls', x.op = "get", NEW s \in Told(x.key.url) \ x.crossed
          PROVE  /\ Still(s)'
                 /\ x.phase = "answered" /\ x.ans.code = "ok" => x.ans.rows[s] = db[s]
      BY <1>0, <1>1, <1>4, <2>1 DEF Fresh, Fetched
    <2>2. ASSUME NEW k \in DOMAIN cache', NEW s \in Told(k.url) \ cache'[k].crossed
          PROVE  Still(s)' /\ cache'[k].rows[s] = db[s]
      <3>1. CASE k = c.key
        BY <1>1, <1>2, <1>4, <1>5, <2>2, <3>1
      <3>2. CASE k # c.key
        BY <1>0, <1>1, <1>4, <2>2, <3>2 DEF Fresh
      <3> QED
        BY <3>1, <3>2
    <2> QED
      BY <1>0, <1>3, <2>1, <2>2 DEF Fresh, Fetched
  <1>7. Dues'
    BY <1>0, <1>3 DEF WInv, Dues
  <1>8. ASSUME NEW u \in DOMAIN shown', \A w \in waits' : w.url # u, "failed" \notin mishap',
               NEW s \in Told(u) \ shown'[u].data.crossed
        PROVE  shown'[u].data.rows[s] >= due'[u][s]
    <2>1. CASE c.key \in waits /\ u = c.key.url
      <3>1. shown'[u] = [data |-> data, filter |-> c.key.filter]
        BY <1>1, <2>1
      <3>2. shown'[u].data = data
        BY <3>1
      <3>3. shown'[u].data.rows[s] = db[s]
        BY <1>2, <1>5, <1>8, <2>1, <3>2
      <3>4. u \in DOMAIN due /\ s \in Told(u) /\ s \in Subject
        BY <1>0, <1>3, <2>1 DEF Awaited
      <3>5. due[u][s] \in Nat /\ due[u][s] <= ack[s]
        BY <3>4 DEF WInv, Dues
      <3>6. ack[s] \in Nat /\ db[s] \in Nat /\ ack[s] <= db[s]
        BY <1>0, <3>4 DEF Typed
      <3> QED
        BY <1>0, <3>3, <3>5, <3>6
    <2>2. CASE ~(c.key \in waits /\ u = c.key.url)
      <3>1. u \in DOMAIN shown /\ shown'[u] = shown[u]
        BY <1>1, <2>2
      <3>2. \A w \in waits : w.url # u
        BY <1>1, <1>8, <2>2
      <3> QED
        BY <1>0, <1>8, <3>1, <3>2 DEF WInv, OwnWritesShown, Settled
    <2> QED
      BY <2>1, <2>2
  <1>9. OwnWritesShown'
    BY <1>3, <1>8 DEF OwnWritesShown, Settled
  <1> QED
    BY <1>6, <1>7, <1>9 DEF WInv

(* A button purges what its change alters, and meets what is under way.    *)
LEMMA PressWrites ==
  ASSUME PurgeReaches, IInv, WInv, page # Nobody, NEW url \in Screen[page].change, Press(url)
  PROVE  WInv'
  <1>0. Typed /\ Fresh /\ page \in Page /\ UNCHANGED <<db, ui, ack>>
    BY DEF IInv, Typed, WInv, Press
  <1>1. PICK s : s = Screen[page].subject
    OBVIOUS
  <1>2. PICK b : Pressed(b, s)
    BY <1>0, <1>1, PressFields
  <1>3. \A x : Told(x)' = Told(x)
    BY Zenon DEF Told, Subject
  <1>4. b.op = "change" /\ b.by = page
    BY <1>2 DEF Pressed
  <1>5. ASSUME NEW t, Still(t), t # s PROVE Still(t)'
    BY <1>1, <1>2, <1>4, <1>5 DEF Still, Pressed
  <1>6. ASSUME NEW x \in calls', x.op = "get", NEW t \in Told(x.key.url) \ x.crossed
        PROVE  /\ Still(t)'
               /\ x.phase = "answered" /\ x.ans.code = "ok" => x.ans.rows[t] = db[t]
    <2>1. PICK c \in calls :
            /\ x.op = c.op /\ x.key = c.key /\ x.phase = c.phase /\ x.ans = c.ans
            /\ x.crossed = IF c.op = "get" /\ s \in Told(c.key.url)
                           THEN c.crossed \cup {s} ELSE c.crossed
      BY <1>2, <1>4, <1>6 DEF Pressed
    <2>2. t # s /\ t \in Told(c.key.url) \ c.crossed
      BY <1>6, <2>1
    <2> QED
      BY <1>0, <1>5, <1>6, <2>1, <2>2 DEF Fresh, Fetched
  <1>7. cache' = Without(cache, Purged(url))
    BY DEF Press
  <1>8. /\ DOMAIN cache' \subseteq DOMAIN cache
        /\ \A k \in DOMAIN cache' : cache'[k] = cache[k]
        /\ \A k \in DOMAIN cache' : ~\E part \in Purged(url) : Contains(k.url, part)
    BY <1>7 DEF Without, Restrict
  <1>9. ASSUME NEW k \in DOMAIN cache', NEW t \in Told(k.url) \ cache'[k].crossed
        PROVE  Still(t)' /\ cache'[k].rows[t] = db[t]
    <2>1. k \in DOMAIN cache /\ k.url \in Url
      BY <1>0, <1>8 DEF Typed
    <2>2. s \notin Told(k.url)
      BY <1>0, <1>1, <1>8, <2>1 DEF PurgeReaches
    <2> QED
      BY <1>0, <1>5, <1>8, <1>9, <2>1, <2>2 DEF Fresh
  <1>10. Fresh'
    BY <1>0, <1>3, <1>6, <1>9 DEF Fresh, Fetched
  <1>11. Dues' /\ OwnWritesShown'
    BY <1>0, <1>3, Zenon DEF ui, WInv, Dues, OwnWritesShown, Settled
  <1> QED
    BY <1>10, <1>11 DEF WInv

LEMMA ArriveWrites == ASSUME IInv, IInv', WInv, Arrive PROVE WInv'
  <1>1. PICK c \in calls :
          \/ ArriveGet(c) \/ Failed(c) \/ ArriveChange(c) \/ Renew(c) \/ Renewed(c)
          \/ ForcedOut(c) \/ ArriveBoot(c) \/ ArriveLogin(c) \/ ArriveLogout(c)
    BY Zenon DEF Arrive
  <1>2. CASE ArriveGet(c)
    BY <1>2, ArriveGetWrites
  <1>3. CASE Failed(c)
    BY <1>3, FailedWrites
  <1>4. CASE ArriveChange(c)
    BY <1>4, ArriveChangeWrites
  <1>5. CASE Renew(c)
    BY <1>5, RenewWrites
  <1>6. CASE Renewed(c)
    BY <1>6, RenewedWrites
  <1>7. CASE ForcedOut(c) \/ ArriveLogout(c)
    BY <1>7, LeaveWrites
  <1>8. CASE ArriveBoot(c) \/ ArriveLogin(c)
    BY <1>8, ArriveBootWrites
  <1> QED
    BY <1>1, <1>2, <1>3, <1>4, <1>5, <1>6, <1>7, <1>8

LEMMA NextWrites == ASSUME PurgeReaches, IInv, IInv', WInv, [Next]_vars PROVE WInv'
  <1>1. CASE \E p \in Page : Open(p)
    BY <1>1, OpenWrites
  <1>2. CASE \E f \in Filter : Turn(f)
    BY <1>2, TurnWrites
  <1>3. CASE Focus
    BY <1>3, FocusWrites
  <1>4. CASE page # Nobody /\ \E url \in Screen[page].change : Press(url)
    BY <1>4, PressWrites
  <1>5. CASE \E a \in Account : Login(a)
    BY <1>5, LoginWrites
  <1>6. CASE Logout
    BY <1>6, LogoutWrites
  <1>7. CASE Reload
    BY <1>7, LeaveWrites
  <1>8. CASE Serve
    BY <1>8, ServeWrites
  <1>9. CASE Arrive
    BY <1>9, ArriveWrites
  <1>10. CASE Lose
    BY <1>10, LoseWrites
  <1>11. CASE Forget \/ Hour \/ Week \/ Deactivate \/ UNCHANGED vars
    BY <1>11, TimeWrites
  <1> QED
    BY <1>1, <1>2, <1>3, <1>4, <1>5, <1>6, <1>7, <1>8, <1>9, <1>10, <1>11, Zenon DEF Next

LEMMA InitWrites == ASSUME Init PROVE WInv
  <1>1. DOMAIN cache = {} /\ calls = {} /\ DOMAIN shown = {} /\ DOMAIN due = {}
    BY DEF Init
  <1> QED
    BY <1>1 DEF WInv, Fresh, Fetched, Dues, OwnWritesShown

(* The same for any pages whose changes purge what tells of them.          *)
LEMMA OwnWritesIfPurged == ASSUME PurgeReaches PROVE Spec => []OwnWritesShown
  <1>1. Init => WInv
    BY InitWrites
  <1>2. IInv /\ IInv' /\ WInv /\ [Next]_vars => WInv'
    BY NextWrites
  <1>3. WInv => OwnWritesShown
    BY DEF WInv
  <1> QED
    BY <1>1, <1>2, <1>3, Invariance, PTL DEF Spec

-----------------------------------------------------------------------------
(* What the purges reach.                                                  *)

LEMMA ContainsRoot ==
  ASSUME NEW S, NEW u \in Seq(S), NEW r \in S
  PROVE  Contains(u, <<r>>) <=> \E i \in 1..Len(u) : u[i] = r
  <1>1. PICK part : part = <<r>>
    OBVIOUS
  <1>2. Len(part) = 1 /\ part \in Seq(S) /\ part[1] = r
    BY <1>1
  <1>3. ASSUME NEW i \in 1..Len(u) PROVE SubSeq(u, i, i) = part <=> u[i] = r
    <2>1. SubSeq(u, i, i) \in Seq(S) /\ Len(SubSeq(u, i, i)) = 1 /\ SubSeq(u, i, i)[1] = u[i]
      OBVIOUS
    <2>2. SubSeq(u, i, i) = part <=> SubSeq(u, i, i)[1] = part[1]
      BY <1>2, <2>1
    <2> QED
      BY <1>2, <2>1, <2>2
  <1>4. Contains(u, part) <=> \E i \in 1..Len(u) : SubSeq(u, i, i) = part
    <2>1. ASSUME NEW i \in 0..(Len(u) - 1) PROVE i + 1 \in 1..Len(u) /\ i + Len(part) = i + 1
      BY <1>2
    <2>2. ASSUME NEW i \in 1..Len(u) PROVE i - 1 \in 0..(Len(u) - 1) /\ (i - 1) + 1 = i
      OBVIOUS
    <2> QED
      BY <1>2, <2>1, <2>2 DEF Contains
  <1> QED
    BY <1>1, <1>3, <1>4

LEMMA TouchesRoot ==
  ASSUME NEW S, NEW u \in Seq(S), NEW roots \in SUBSET S
  PROVE  Touches(u, roots) <=> \E i \in 1..Len(u) : u[i] \in roots
  <1>1. \A r \in roots : Contains(u, <<r>>) <=> \E i \in 1..Len(u) : u[i] = r
    BY ContainsRoot
  <1> QED
    BY <1>1 DEF Touches

(* The first branch that a url touches is the one that decides.            *)
LEMMA PurgedBy ==
  ASSUME NEW url, NEW n \in 1..7, Touches(url, Branch[n].of),
         \A j \in 1..7 : j < n => ~Touches(url, Branch[j].of)
  PROVE  Purged(url) = {<<r>> : r \in Branch[n].purges}
  <1>1. DOMAIN Branch = 1..7
    BY DEF Branch
  <1>2. PICK fits : fits = {i \in DOMAIN Branch : Touches(url, Branch[i].of)}
    OBVIOUS
  <1>3. n \in fits /\ \A j \in fits : n <= j
    BY <1>1, <1>2
  <1>4. PICK first : first = CHOOSE i \in fits : \A j \in fits : i <= j
    OBVIOUS
  <1>5. first = n
    <2>1. first \in fits /\ \A j \in fits : first <= j
      BY <1>3, <1>4
    <2> QED
      BY <1>1, <1>2, <1>3, <2>1
  <1> QED
    BY <1>2, <1>3, <1>4, <1>5 DEF Purged

(* The segments of the branches, and those of the pages below.             *)
Segment ==
  {"requirements", "targets", "clients", "resumes", "applications", "attendance", "notifications",
   "chat", "users", "employees", "dashboard", "id", "done", "reopen", "archive", "pause", "resume",
   "end", "deactivate", "activate", "admin", "home", "employee", "client", "companies"}

(* The urls of the buttons of a page begin with its root.                  *)
LEMMA StepUrl ==
  ASSUME NEW root \in Segment, NEW steps \in SUBSET Segment,
         NEW url \in {<<root>>, <<root, "id">>} \cup Steps(root, steps)
  PROVE  /\ url \in Seq(Segment) /\ 1 \in 1..Len(url) /\ url[1] = root
         /\ \A i \in 1..Len(url) : url[i] \in {root, "id"} \cup steps
  <1>1. PICK S : S = Segment
    OBVIOUS
  <1>2. root \in S /\ "id" \in S
    BY <1>1 DEF Segment
  <1>3. CASE url = <<root>>
    BY <1>1, <1>2, <1>3
  <1>4. CASE url = <<root, "id">>
    BY <1>1, <1>2, <1>4
  <1>5. ASSUME NEW s \in steps, url = <<root, "id", s>>
        PROVE  /\ url \in Seq(Segment) /\ 1 \in 1..Len(url) /\ url[1] = root
               /\ \A i \in 1..Len(url) : url[i] \in {root, "id"} \cup steps
    <2>1. s \in S
      BY <1>1
    <2> QED
      BY <1>1, <1>2, <1>5, <2>1
  <1> QED
    BY <1>3, <1>4, <1>5 DEF Steps

LEMMA PagePurges ==
  ASSUME NEW root \in Segment, NEW steps \in SUBSET Segment,
         NEW url \in {<<root>>, <<root, "id">>} \cup Steps(root, steps),
         NEW n \in 1..7, root \in Branch[n].of,
         \A j \in 1..7 : j < n => Branch[j].of \cap ({root, "id"} \cup steps) = {}
  PROVE  Purged(url) = {<<r>> : r \in Branch[n].purges}
  <1>1. \A j \in 1..7 : Branch[j].of \in SUBSET Segment
    BY DEF Branch, Segment
  <1>2. /\ url \in Seq(Segment) /\ 1 \in 1..Len(url) /\ url[1] = root
        /\ \A i \in 1..Len(url) : url[i] \in {root, "id"} \cup steps
    BY StepUrl
  <1>3. \A j \in 1..7 : Touches(url, Branch[j].of) <=> \E i \in 1..Len(url) : url[i] \in Branch[j].of
    BY <1>1, <1>2, TouchesRoot
  <1> QED
    BY <1>2, <1>3, PurgedBy

(* The pages whose urls the branches know.                                 *)
Reached == {"requirements", "targets", "clients", "resumes", "admin", "employee", "client"}

LEMMA ReachedUrls ==
  ASSUME Page \subseteq Reached, NEW u \in Url
  PROVE  /\ u \in Seq(Segment) /\ 1 \in 1..Len(u)
         /\ u[1] \in {"requirements", "clients", "users", "targets", "employees", "resumes", "dashboard"}
  <1>1. \/ u = <<"requirements">> \/ u = <<"clients">> \/ u = <<"users">> \/ u = <<"targets">>
        \/ u = <<"employees">> \/ u = <<"resumes">> \/ u = <<"resumes", "companies">>
        \/ u = <<"dashboard", "admin", "home">> \/ u = <<"dashboard", "employee">>
        \/ u = <<"dashboard", "client", "home">>
    BY DEF Url, Reached, Screen, RequirementsPage, TargetsPage, ClientsPage, ResumesPage,
           AdminDashboard, EmployeeDashboard, ClientDashboard, Dashboard
  <1>2. PICK S : S = Segment
    OBVIOUS
  <1>3. /\ "requirements" \in S /\ "clients" \in S /\ "users" \in S /\ "targets" \in S
        /\ "employees" \in S /\ "resumes" \in S /\ "companies" \in S /\ "dashboard" \in S
        /\ "admin" \in S /\ "home" \in S /\ "employee" \in S /\ "client" \in S
    BY <1>2 DEF Segment
  <1>4. ASSUME NEW r \in S, NEW s \in S, NEW t \in S, u = <<r>> \/ u = <<r, s>> \/ u = <<r, s, t>>
        PROVE  u \in Seq(S) /\ 1 \in 1..Len(u) /\ u[1] = r
    <2>1. CASE u = <<r>>
      BY <2>1
    <2>2. CASE u = <<r, s>>
      BY <2>2
    <2>3. CASE u = <<r, s, t>>
      BY <2>3
    <2> QED
      BY <1>4, <2>1, <2>2, <2>3
  <1>5. PICK r \in S, s \in S, t \in S :
          /\ u = <<r>> \/ u = <<r, s>> \/ u = <<r, s, t>>
          /\ r \in {"requirements", "clients", "users", "targets", "employees", "resumes", "dashboard"}
    BY <1>1, <1>3
  <1> QED
    BY <1>2, <1>4, <1>5

LEMMA PurgesReach == ASSUME Page \subseteq Reached PROVE PurgeReaches
  <1>1. ASSUME NEW u \in Url, NEW r \in Segment, u[1] = r PROVE Contains(u, <<r>>)
    BY <1>1, ReachedUrls, ContainsRoot
  <1>2. ASSUME NEW p \in Page, NEW url \in Screen[p].change, NEW u \in Url,
               Screen[p].subject \in Told(u)
        PROVE  \E part \in Purged(url) : Contains(u, part)
    <2>1. Screen[p].subject \in Tells(u)
      BY <1>2 DEF Told
    <2>2. u[1] \in {"requirements", "clients", "users", "targets", "employees", "resumes", "dashboard"}
      BY ReachedUrls
    <2>3. /\ Branch[1].of = {"resumes", "applications"}
          /\ Branch[1].purges = {"resumes", "applications", "dashboard", "reports"}
          /\ Branch[2].of = {"requirements"}
          /\ Branch[2].purges = {"requirements", "dashboard", "reports"}
          /\ Branch[3].of = {"targets"} /\ Branch[3].purges = {"targets", "dashboard"}
          /\ Branch[4].of = {"attendance"} /\ Branch[5].of = {"notifications"}
          /\ Branch[6].of = {"chat"}
          /\ Branch[7].of = {"users", "clients"} /\ Branch[7].purges = {"users", "clients", "dashboard"}
      BY DEF Branch
    <2>4. ASSUME NEW root, NEW purges, Purged(url) = {<<r>> : r \in purges},
                 root \in purges, "dashboard" \in purges, u[1] \in {root, "dashboard"}
          PROVE  \E part \in Purged(url) : Contains(u, part)
      <3>1. u[1] \in Segment /\ u[1] \in purges
        BY <2>2, <2>4 DEF Segment
      <3> QED
        BY <1>1, <2>4, <3>1
    <2>5. CASE p = "requirements"
      <3>1. u[1] \in {"requirements", "dashboard"}
        BY <2>1, <2>2, <2>5 DEF Tells, Screen, RequirementsPage
      <3>2. PICK root \in Segment, steps \in SUBSET Segment :
              root = "requirements" /\ steps = {"done", "reopen", "archive"}
        BY DEF Segment
      <3>3. url \in {<<root>>, <<root, "id">>} \cup Steps(root, steps)
        BY <2>5, <3>2 DEF Screen, RequirementsPage
      <3>4. Purged(url) = {<<r>> : r \in Branch[2].purges}
        <4>1. root \in Branch[2].of
          BY <2>3, <3>2
        <4>2. \A j \in 1..7 : j < 2 => Branch[j].of \cap ({root, "id"} \cup steps) = {}
          BY <2>3, <3>2
        <4>3. 2 \in 1..7
          OBVIOUS
        <4> QED
          BY <3>3, <4>1, <4>2, <4>3, PagePurges
      <3> QED
        BY <2>3, <2>4, <3>1, <3>4
    <2>6. CASE p = "targets"
      <3>1. u[1] \in {"targets", "dashboard"}
        BY <2>1, <2>2, <2>6 DEF Tells, Screen, TargetsPage
      <3>2. PICK root \in Segment, steps \in SUBSET Segment :
              root = "targets" /\ steps = {"pause", "resume", "end"}
        BY DEF Segment
      <3>3. url \in {<<root>>, <<root, "id">>} \cup Steps(root, steps)
        BY <2>6, <3>2 DEF Screen, TargetsPage
      <3>4. Purged(url) = {<<r>> : r \in Branch[3].purges}
        <4>1. root \in Branch[3].of
          BY <2>3, <3>2
        <4>2. \A j \in 1..7 : j < 3 => Branch[j].of \cap ({root, "id"} \cup steps) = {}
          BY <2>3, <3>2
        <4>3. 3 \in 1..7
          OBVIOUS
        <4> QED
          BY <3>3, <4>1, <4>2, <4>3, PagePurges
      <3> QED
        BY <2>3, <2>4, <3>1, <3>4
    <2>7. CASE p = "clients"
      <3>1. u[1] \in {"clients", "dashboard"}
        BY <2>1, <2>2, <2>7 DEF Tells, Screen, ClientsPage
      <3>2. PICK root \in Segment, steps \in SUBSET Segment :
              root = "clients" /\ steps = {"deactivate", "activate", "archive", "employees"}
        BY DEF Segment
      <3>3. url \in {<<root>>, <<root, "id">>} \cup Steps(root, steps)
        BY <2>7, <3>2 DEF Screen, ClientsPage
      <3>4. Purged(url) = {<<r>> : r \in Branch[7].purges}
        <4>1. root \in Branch[7].of
          BY <2>3, <3>2
        <4>2. \A j \in 1..7 : j < 7 => Branch[j].of \cap ({root, "id"} \cup steps) = {}
          BY <2>3, <3>2
        <4>3. 7 \in 1..7
          OBVIOUS
        <4> QED
          BY <3>3, <4>1, <4>2, <4>3, PagePurges
      <3> QED
        BY <2>3, <2>4, <3>1, <3>4
    <2>8. CASE p = "resumes"
      <3>1. u[1] \in {"resumes", "dashboard"}
        BY <2>1, <2>2, <2>8 DEF Tells, Screen, ResumesPage
      <3>2. PICK root \in Segment, steps \in SUBSET Segment : root = "resumes" /\ steps = {}
        BY DEF Segment
      <3>3. url \in {<<root>>, <<root, "id">>} \cup Steps(root, steps)
        BY <2>8, <3>2 DEF Screen, ResumesPage
      <3>4. Purged(url) = {<<r>> : r \in Branch[1].purges}
        <4>1. root \in Branch[1].of
          BY <2>3, <3>2
        <4>2. \A j \in 1..7 : j < 1 => Branch[j].of \cap ({root, "id"} \cup steps) = {}
          BY <2>3, <3>2
        <4>3. 1 \in 1..7
          OBVIOUS
        <4> QED
          BY <3>3, <4>1, <4>2, <4>3, PagePurges
      <3> QED
        BY <2>3, <2>4, <3>1, <3>4
    <2>9. CASE p \in {"admin", "employee", "client"}
      BY <1>2, <2>9 DEF Screen, AdminDashboard, EmployeeDashboard, ClientDashboard, Dashboard
    <2> QED
      BY <2>5, <2>6, <2>7, <2>8, <2>9 DEF Reached
  <1> QED
    BY <1>2 DEF PurgeReaches

(* A list that a page asked for after the browser told of a change shows   *)
(* that change, although answers are cached, shared, overtaken and lost,   *)
(* on the pages whose urls the branches of invalidateScopedCache know      *)
(* (api.js:94, :138).                                                      *)
THEOREM OwnWritesAreShown == ASSUME Page \subseteq Reached PROVE Spec => []OwnWritesShown
  BY PurgesReach, OwnWritesIfPurged
=============================================================================
