----------------------------- MODULE EventPages -----------------------------
(***************************************************************************)
(* The pages of frontend-next in one tab, and one event as they show it:   *)
(* queries kept in the RTK Query cache, mutations that mark parts of it    *)
(* stale, the join client that polls for its outcome, and what a login or  *)
(* a logout, here or in another tab, does to all that was fetched before.  *)
(*                                                                         *)
(* External: RTK Query (one request per query at a time; stale tags wait   *)
(* until nothing is pending, 'delayed' being its default; entries nobody   *)
(* shows are dropped after a while) and the server, which is what          *)
(* EventStore and BookingQueue promise of it.  Renewing a token is         *)
(* BrowserSession's subject.  What a button is disabled for when the event *)
(* is full is left to the user, who need not click, and to the server.     *)
(***************************************************************************)
EXTENDS Naturals

CONSTANTS
  Users,
  Organiser,     \* author of the event
  Nobody,        \* no token
  Calls,         \* mutations the user triggers
  KindsOf,       \* what each may be
  Pages,         \* the pages the user opens
  None,          \* nothing cached, no request, no key
  MaxEvents      \* bound: requests that fail, cache entries dropped for want of
                 \* a subscriber, changes of the session outside the pages

Kinds == {"join", "leave", "create", "update", "delete", "login", "logout"}

ASSUME UsersAssumption ==
  Organiser \in Users /\ Nobody \notin Users /\ "nothing" \notin Users
ASSUME CallsAssumption == KindsOf \in [Calls -> SUBSET Kinds]
ASSUME PagesAssumption ==
  Pages \subseteq {"list", "detail", "edit", "create", "calendar", "login"}
ASSUME MaxEventsAssumption == MaxEvents \in Nat

VARIABLES
  me,          \* whose access token the tab holds
  cleared,     \* it was signed out on purpose, and not in again (history)
  page,        \* the page shown
  cache,       \* what the cache holds for each query
  query,       \* the request of each query under way
  stale,       \* tags that wait for their refetch
  call,        \* the mutations
  joinKey,     \* inflightJoinKeys, for the event
  exists,      \* the server has the event
  members,     \* its participants besides the organiser
  job,         \* state of each join request, by key and user
  missed,      \* a join was confirmed when nobody polled any more (history)
  events       \* of those, so far (bound)

store == <<cache, query, stale>>
session == <<me, cleared>>
server == <<exists, members, job, missed>>
vars == <<session, page, store, call, joinKey, server, events>>

Views == {"list", "detail", "calendar"}
Tags == {"LIST", "EVENT", "MY_CALENDAR"}
Viewers == Users \cup {Nobody}
JoinRequests == Calls \X Users

\* An entry is what the server answered to one viewer: whether that is still
\* what it would answer, and whether the last request for it succeeded.
Entry == [by : Viewers \cup {"nothing"}, current : BOOLEAN, ok : BOOLEAN]

\* A request of a query: whose token goes with it, and the answer once there is one
Requests == [by : Viewers, at : {"sent", "back"}, answer : Entry \cup {None}]

ASSUME NoneAssumption == None \notin Entry \cup Requests \cup JoinRequests \cup Calls

\* The query a page subscribes to
Shown(p) == IF p = "edit" THEN "detail" ELSE p

\* A query that has never succeeded
Failed == [by |-> "nothing", current |-> FALSE, ok |-> FALSE]

\* here: the page that triggered it is still open; kept: the store has its entry
NoCall == [kind |-> "leave", at |-> "idle", by |-> Nobody, key |-> None, request |-> None,
           ok |-> FALSE, here |-> FALSE, kept |-> FALSE]

\* A mutation that is over
Done == [NoCall EXCEPT !.at = "done"]

Active(k) == k.at \in {"sent", "back", "poll"}
Known(k) == Active(k) /\ k.kept

Disturb == events < MaxEvents /\ events' = events + 1

(***************************************************************************)
(* RTK Query.  s is a state of the store, w the viewer whose token goes    *)
(* with a request, p the page shown, m the mutations.                      *)
(***************************************************************************)
Now == [cache |-> cache, query |-> query, stale |-> stale]

Become(s) == cache' = s.cache /\ query' = s.query /\ stale' = s.stale

Request(w) == [by |-> w, at |-> "sent", answer |-> None]

\* providesTags: a list provides the events it shows, unless it failed.
Provides(v, entry) ==
  {t \in Tags :
     \/ t = "LIST" /\ v = "list"
     \/ t = "EVENT" /\ (v = "detail" \/ (v = "list" /\ entry.ok))
     \/ t = "MY_CALENDAR" /\ v = "calendar"}

Pending(s, m) == (\E v \in Views : s.query[v] # None) \/ \E c \in Calls : Known(m[c])

\* Stale entries are fetched again when shown and dropped when not, as soon
\* as neither a query nor a mutation is pending.
Flush(s, p, m, w) ==
  LET hit == {v \in Views : s.cache[v] # None /\ Provides(v, s.cache[v]) \cap s.stale # {}} IN
  IF Pending(s, m) THEN s
  ELSE [cache |-> [v \in Views |-> IF v \in hit /\ v # Shown(p) THEN None ELSE s.cache[v]],
        query |-> [v \in Views |-> IF v \in hit /\ v = Shown(p) THEN Request(w) ELSE None],
        stale |-> {}]

Invalidate(s, tags, p, m, w) == Flush([s EXCEPT !.stale = @ \cup tags], p, m, w)

\* A page that opens uses what is cached, whatever its age.
Mount(s, p, w) ==
  LET v == Shown(p) IN
  IF v \in Views /\ s.cache[v] \in {None, Failed} /\ s.query[v] = None
    THEN [s EXCEPT !.query[v] = Request(w)]
    ELSE s

\* resetApiState: nothing is cached, late answers of queries are ignored, the page
\* asks anew.
Reset(s, p, w) ==
  Mount([cache |-> [v \in Views |-> None], query |-> [v \in Views |-> None],
         stale |-> s.stale], p, w)

\* The page a push leads to, and what was triggered by the page left behind.
Left(m) == [c \in Calls |-> [m[c] EXCEPT !.here = FALSE]]

\* The mutations under way go on, but the store has no entry of them any more.
Forgotten(m) == [c \in Calls |-> [m[c] EXCEPT !.kept = FALSE]]

(***************************************************************************)
(* Pages and queries                                                       *)
(***************************************************************************)
Navigate(p) ==
  /\ p \in Pages \ {page}
  /\ page' = p
  /\ Become(Mount(Now, p, me))
  /\ call' = Left(call)
  /\ UNCHANGED <<session, joinKey, server, events>>

\* getEvents, getEventById and getMyCalendar at the server: 404 for a deleted
\* event, 401 for the calendar of nobody.
ServeQuery(v) ==
  LET w == query[v].by
      found == [by |-> w, current |-> TRUE, ok |-> TRUE]
  IN
  /\ query[v] # None /\ query[v].at = "sent"
  /\ \/ /\ query' = [query EXCEPT ![v].at = "back", ![v].answer =
             IF (v = "detail" /\ ~exists) \/ (v = "calendar" /\ w = Nobody)
               THEN Failed ELSE found]
        /\ UNCHANGED events
     \/ /\ Disturb
        /\ query' = [query EXCEPT ![v].at = "back", ![v].answer = Failed]
  /\ UNCHANGED <<session, page, cache, stale, call, joinKey, server>>

\* A query that fails keeps the data of the last one that did not.
QueryBack(v) ==
  LET a == query[v].answer
      entry == IF a = Failed /\ cache[v] # None THEN [cache[v] EXCEPT !.current = FALSE, !.ok = FALSE] ELSE a
  IN
  /\ query[v] # None /\ query[v].at = "back"
  /\ Become(Flush([Now EXCEPT !.cache[v] = entry, !.query[v] = None], page, call, me))
  /\ UNCHANGED <<session, page, call, joinKey, server, events>>

\* keepUnusedDataFor
Evict(v) ==
  /\ v # Shown(page) /\ cache[v] # None /\ query[v] = None
  /\ Disturb
  /\ cache' = [cache EXCEPT ![v] = None]
  /\ UNCHANGED <<session, page, query, stale, call, joinKey, server>>

(***************************************************************************)
(* Mutations                                                               *)
(***************************************************************************)
Visible(v) == cache[v] # None /\ cache[v].ok

\* isJoining, isUpdating, ..: known to the page that triggered the mutation.
Processing(kinds) == \E c \in Calls : call[c].here /\ Known(call[c]) /\ call[c].kind \in kinds

\* What a page shows of the user is right as long as it is current.
Action(v, kind) ==
  /\ Visible(v) /\ me # Organiser
  /\ cache[v].current => exists /\ kind = IF me \in members THEN "leave" ELSE "join"

\* EventCard: the button does not know of a join under way.
CardButton(kind) == page = "list" /\ kind \in {"join", "leave"} /\ Action("list", kind)

\* EventDetailsPage
DetailsButton(kind) ==
  /\ page = "detail"
  /\ \/ kind \in {"join", "leave"} /\ Action("detail", kind) /\ ~Processing({"join", "leave"})
     \/ kind = "delete" /\ Visible("detail") /\ me = Organiser

\* CreateEditEventPage: also before the event is there, by filling in the form.
Submit(kind) ==
  /\ page = IF kind = "update" THEN "edit" ELSE "create"
  /\ kind \in {"create", "update"} /\ ~Processing({"create", "update"})

SignIn(kind) == page = "login" /\ kind = "login" /\ ~Processing({"login"})

\* UserBar outlives the pages, but for the login page.
SignOut(kind) ==
  /\ page # "login" /\ kind = "logout" /\ me # Nobody
  /\ \A c \in Calls : call[c].kind = "logout" => ~Known(call[c])

MayClick(kind) ==
  CardButton(kind) \/ DetailsButton(kind) \/ Submit(kind) \/ SignIn(kind) \/ SignOut(kind)

\* A join takes the key of the join under way, if there is one.
Click(c, kind) ==
  LET key == IF joinKey = None THEN c ELSE joinKey IN
  /\ call[c].at = "idle"
  /\ MayClick(kind)
  /\ call' = [call EXCEPT ![c] = [NoCall EXCEPT !.kind = kind, !.at = "sent", !.by = me,
                 !.here = TRUE, !.kept = TRUE, !.key = IF kind = "join" THEN key ELSE None]]
  /\ joinKey' = IF kind = "join" THEN key ELSE joinKey
  /\ UNCHANGED <<session, page, store, server, events>>

\* What a change at the server makes of the entries, cached or on their way
Changed(kind) == IF kind = "create" THEN {"list", "calendar"} ELSE Views

Outdate(V) ==
  /\ cache' = [v \in Views |-> IF v \in V /\ cache[v] # None
                              THEN [cache[v] EXCEPT !.current = FALSE] ELSE cache[v]]
  /\ query' = [v \in Views |-> IF v \in V /\ query[v] # None /\ query[v].at = "back"
                              THEN [query[v] EXCEPT !.answer.current = FALSE] ELSE query[v]]
  /\ UNCHANGED stale

Answered(c, ok) ==
  call' = [call EXCEPT ![c] = [@ EXCEPT !.at = "back", !.ok = ok, !.by = Nobody, !.key = None, !.request = None]]

\* enqueueJoin: the request of the key, the one the user has waiting, or a new one.
ServeJoin(c) ==
  LET u == call[c].by
      own == <<call[c].key, u>>
      waiting == {r \in JoinRequests : r[2] = u /\ job[r] = "PENDING"}
      Poll(r) == call' = [call EXCEPT ![c] =
                   [@ EXCEPT !.at = "poll", !.request = r, !.by = Nobody, !.key = None]]
  IN
  /\ call[c].kind = "join" /\ call[c].at = "sent" /\ u # Nobody
  /\ IF job[own] # "none" \/ waiting = {}
       THEN Poll(own) /\ job' = [job EXCEPT ![own] = IF @ = "none" THEN "PENDING" ELSE @]
       ELSE (\E r \in waiting : Poll(r)) /\ UNCHANGED job
  /\ UNCHANGED <<session, page, store, joinKey, exists, members, missed, events>>

\* The server does what it is asked, or refuses.
ServeCall(c) ==
  LET k == call[c].kind
      u == call[c].by
      granted == \/ k = "leave" /\ u \in members
                 \/ k \in {"update", "delete"} /\ u = Organiser /\ exists
                 \/ k = "create" /\ u # Nobody
                 \/ k \in {"login", "logout"}
  IN
  /\ call[c].at = "sent" /\ (k = "join" => u = Nobody)
  /\ Answered(c, granted)
  /\ members' = IF granted /\ k \in {"leave", "delete"}
                  THEN IF k = "leave" THEN members \ {u} ELSE {}
                  ELSE members
  /\ exists' = (exists /\ ~(granted /\ k = "delete"))
  /\ IF granted /\ k \notin {"login", "logout"} THEN Outdate(Changed(k)) ELSE UNCHANGED store
  /\ UNCHANGED <<session, page, joinKey, job, missed, events>>

\* A request that does not arrive, wrong credentials, a poll that fails
FailCall(c) ==
  /\ call[c].at \in {"sent", "poll"}
  /\ Disturb
  /\ Answered(c, FALSE)
  /\ UNCHANGED <<session, page, store, joinKey, server>>

\* One round of the loop that ends it: an outcome, the 404 for a request of
\* somebody else, or the deadline.
Poll(c) ==
  LET r == call[c].request IN
  /\ call[c].at = "poll"
  /\ Answered(c, me = r[2] /\ job[r] = "CONFIRMED")
  /\ UNCHANGED <<session, page, store, joinKey, server, events>>

\* Mutant: the tags join and leave had before: nothing provides MyEvents.
InvalidatedBy_MyEvents(k) ==
  {t \in Tags \cup {"MyEvents"} :
     \/ t \in Tags /\ k.kind \in {"update", "delete"}
     \/ t \in {"LIST", "MY_CALENDAR"} /\ k.kind = "create"
     \/ t \in {"EVENT", "MyEvents"} /\ k.kind \in {"join", "leave"}}

\* invalidatesTags, whether the mutation succeeded or not
InvalidatedBy(k) ==
  {t \in Tags :
     \/ k.kind \in {"update", "delete"}
     \/ t \in {"LIST", "MY_CALENDAR"} /\ k.kind = "create"
     \/ t \in {"EVENT", "MY_CALENDAR"} /\ k.kind \in {"join", "leave"}}

\* router.push once the mutation has succeeded, wherever the user is by then
PushedTo(k) ==
  IF k.ok /\ k.kind \in {"update", "delete", "create"}
    THEN [update |-> "detail", delete |-> "list", create |-> "calendar"][k.kind]
    ELSE page

\* The answer of a mutation: the join key is forgotten, the cache learns what
\* is stale, the page moves on.
CallBack(c) ==
  LET k == call[c]
      m == [call EXCEPT ![c] = Done]
      p == PushedTo(k)
  IN
  /\ k.at = "back" /\ k.kind \notin {"login", "logout"}
  /\ page' = p
  /\ call' = IF p = page THEN m ELSE Left(m)
  /\ joinKey' = IF k.kind = "join" THEN None ELSE joinKey
  /\ Become(Mount(Invalidate(Now, InvalidatedBy(k), page, m, me), p, me))
  /\ UNCHANGED <<session, server, events>>

(***************************************************************************)
(* The session                                                             *)
(***************************************************************************)
\* Mutant: the refetch goes out before the token is stored.
LoginBack_InvalidatesFirst(c) ==
  LET m == [call EXCEPT ![c] = Done] IN
  /\ call[c].kind = "login" /\ call[c].at = "back" /\ call[c].ok
  /\ me' \in Users
  /\ cleared' = FALSE
  /\ page' = "list"
  /\ call' = Left(m)
  /\ Become(Mount(Invalidate(Now, Tags, page, m, me), "list", me))
  /\ UNCHANGED <<joinKey, server, events>>

\* storeAccessToken: what was waiting is fetched with either token, then
\* everything is stale for the new one; the form pushes to the list.
LoginBack(c) ==
  LET m == [call EXCEPT ![c] = Done] IN
  /\ call[c].kind = "login" /\ call[c].at = "back"
  /\ IF call[c].ok
       THEN /\ me' \in Users
            /\ cleared' = FALSE
            /\ page' = "list"
            /\ call' = Left(m)
            /\ \E w \in {me, me'} :
                 Become(Mount(Invalidate(Flush(Now, page, m, w), Tags, page, m, me'), "list", me'))
       ELSE /\ call' = m
            /\ Become(Flush(Now, page, m, me))
            /\ UNCHANGED <<session, page>>
  /\ UNCHANGED <<joinKey, server, events>>

\* Mutant: signing out forgets the token and keeps the cache.
clearLocalSession_KeepsCache(p) ==
  /\ me' = Nobody
  /\ cleared' = TRUE
  /\ Become(Mount(Now, p, Nobody))

\* The token, and the cached data of the user it stood for
clearLocalSession(p) ==
  /\ me' = Nobody
  /\ cleared' = TRUE
  /\ Become(Reset(Now, p, Nobody))

\* handleLogout: also when the server failed
LogoutBack(c) ==
  /\ call[c].kind = "logout" /\ call[c].at = "back"
  /\ call' = Forgotten(Left([call EXCEPT ![c] = Done]))
  /\ page' = "login"
  /\ clearLocalSession("login")
  /\ UNCHANGED <<joinKey, server, events>>

\* A login in another tab: its session is adopted, or found to be gone already.
OtherLogin ==
  /\ Disturb
  /\ me' \in Viewers
  /\ cleared' = (cleared /\ me' = Nobody)
  /\ Become(Reset(Now, page, me'))
  /\ call' = Forgotten(call)
  /\ UNCHANGED <<page, joinKey, server>>

\* A logout in another tab
OtherLogout ==
  /\ Disturb
  /\ clearLocalSession(page)
  /\ call' = Forgotten(call)
  /\ UNCHANGED <<page, joinKey, server>>

\* A refresh is refused: only the token goes.
SessionLost ==
  /\ me # Nobody
  /\ Disturb
  /\ me' = Nobody
  /\ UNCHANGED <<cleared, page, store, call, joinKey, server>>

(***************************************************************************)
(* The worker that serves the queue, which promises nothing about time     *)
(***************************************************************************)
Work(r) ==
  /\ job[r] = "PENDING"
  /\ \/ /\ exists /\ r[2] \notin members \cup {Organiser}
        /\ members' = members \cup {r[2]}
        /\ job' = [job EXCEPT ![r] = "CONFIRMED"]
        /\ Outdate(Views)
        /\ missed' = (missed \/ ~\E c \in Calls : call[c].at = "poll" /\ call[c].request = r)
     \/ /\ job' = [job EXCEPT ![r] = "REJECTED"]
        /\ UNCHANGED <<members, store, missed>>
  /\ UNCHANGED <<session, page, call, joinKey, exists, events>>

Init ==
  /\ me \in Viewers
  /\ cleared = FALSE
  /\ page = "list"
  /\ cache = [v \in Views |-> None]
  /\ query = [v \in Views |-> IF v = "list" THEN Request(me) ELSE None]
  /\ stale = {}
  /\ call = [c \in Calls |-> NoCall]
  /\ joinKey = None
  /\ exists = TRUE
  /\ members = {}
  /\ job = [r \in JoinRequests |-> "none"]
  /\ missed = FALSE
  /\ events = 0

Serve(c) == ServeJoin(c) \/ ServeCall(c)
Back(c) == CallBack(c) \/ LoginBack(c) \/ LogoutBack(c)

Next ==
  \/ \E p \in Pages : Navigate(p)
  \/ \E v \in Views : ServeQuery(v) \/ QueryBack(v) \/ Evict(v)
  \/ \E c \in Calls :
       \/ Serve(c) \/ Poll(c) \/ Back(c) \/ FailCall(c)
       \/ \E kind \in KindsOf[c] : Click(c, kind)
  \/ OtherLogin \/ OtherLogout \/ SessionLost
  \/ \E r \in JoinRequests : Work(r)

Spec == Init /\ [][Next]_vars

-----------------------------------------------------------------------------
(***************************************************************************)
(* Properties                                                              *)
(***************************************************************************)
\* Types; a call that polls has a request, and the key in inflightJoinKeys is one
\* that a join still under way has drawn, whichever of those that share it ends.
TypeOK ==
  /\ me \in Viewers /\ cleared \in BOOLEAN /\ page \in {"list", "detail", "edit", "create", "calendar", "login"}
  /\ cache \in [Views -> Entry \cup {None}]
  /\ query \in [Views -> Requests \cup {None}]
  /\ stale \subseteq Tags
  /\ call \in [Calls -> [kind : Kinds, at : {"idle", "sent", "back", "poll", "done"}, by : Viewers,
                         key : Calls \cup {None}, request : JoinRequests \cup {None},
                         ok : BOOLEAN, here : BOOLEAN, kept : BOOLEAN]]
  /\ \A c \in Calls : call[c].at = "poll" => call[c].request # None
  /\ joinKey # None =>
       Active(call[joinKey]) /\ call[joinKey].kind = "join"
  /\ exists \in BOOLEAN /\ members \subseteq Users \ {Organiser}
  /\ job \in [JoinRequests -> {"none", "PENDING", "CONFIRMED", "REJECTED"}]
  /\ missed \in BOOLEAN

\* Nothing is under way, whether the store knows of it or not.
Rest == (\A v \in Views : query[v] = None) /\ (\A c \in Calls : ~Active(call[c]))

\* Once nothing is under way, what the cache holds for the user is what the
\* server has: no query answered before a mutation and delivered after it, no
\* mutation that ended while another was polling, no failure in between leaves
\* an old answer behind.  Only a join confirmed after the client gave up does.
ViewsAgree ==
  Rest /\ ~missed => \A v \in Views :
    cache[v] # None /\ cache[v].ok /\ cache[v].by = me => cache[v].current

\* authApi.ts:13: after a login, here or in another tab, and whatever was under
\* way then, the user is shown only what was fetched with the user's own token.
SignedInSeesOwn ==
  Rest /\ me # Nobody => \A v \in Views :
    cache[v] # None /\ cache[v].ok => cache[v].by = me

\* authChannel.ts:22: signed out, here or in another tab, the tab keeps nothing
\* of the user, and a late answer of a request of the user's brings nothing back.
SignedOutSeesNothing ==
  cleared => \A v \in Views :
    /\ cache[v] # None => cache[v].by \notin Users
    /\ query[v] # None => query[v].by = Nobody

=============================================================================
