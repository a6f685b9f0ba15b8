--------------------------- MODULE BrowserSession ---------------------------
(***************************************************************************)
(* The session of one browser in frontend-next: each tab keeps its access  *)
(* token in memory, all tabs share the refresh cookie.  A tab restores the *)
(* token when it loads, renews it once when a request is refused, and      *)
(* tells the other tabs of a login or a logout.  JavaScript runs to        *)
(* completion: a step is what happens between two answers of the network,  *)
(* with everything that was awaiting the same promise.                     *)
(*                                                                         *)
(* The server is external: it knows sessions (one per login) and the       *)
(* access tokens it signed for them.  A rotated refresh token is the same  *)
(* session here; RefreshTokens.tla is about the rotation.                  *)
(***************************************************************************)
EXTENDS Naturals, Sequences

CONSTANTS
  Tabs,
  Requests,     \* requests that can be under way at once
  TabOf,        \* the tab that sends each of them
  KindsOf,      \* what each may be: "query", "login", "logout"
  MaxSessions,  \* bound: logins
  MaxTokens,    \* bound: access tokens signed
  MaxReloads    \* bound: pages loaded anew

Kinds == {"query", "login", "logout"}

ASSUME RequestsAssumption ==
  TabOf \in [Requests -> Tabs] /\ KindsOf \in [Requests -> SUBSET Kinds]
ASSUME BoundsAssumption ==
  MaxSessions \in Nat \ {0} /\ MaxTokens \in Nat /\ MaxReloads \in Nat

VARIABLES
  cookie,     \* session of the refreshToken cookie, 0 when there is none
  live,       \* sessions the server accepts
  opened,     \* number of sessions opened
  signed,     \* the session of each access token signed so far
  expired,    \* access tokens past their fifteen minutes
  token,      \* state.auth.accessToken of each tab, 0 for null
  bootstrap,  \* state.auth.bootstrapStatus
  inflight,   \* inflightRefresh
  request,    \* baseQueryWithReauth, one entry per request
  channel,    \* messages on their way to each tab
  renewed,    \* refused tokens for which a tab asked for a refresh (history)
  twice,      \* whether it did so twice for one of them (history)
  reloads     \* so far (bound)

server == <<live, opened, signed, expired>>
tabs == <<token, bootstrap, inflight, request>>
past == <<renewed, twice>>
vars == <<cookie, server, tabs, channel, past, reloads>>

Tokens == 1..MaxTokens
Sessions == 1..MaxSessions

NoRefresh == [at |-> "none", cookie |-> 0, result |-> 0]
NoRequest == [at |-> "idle", kind |-> "query", used |-> 0, cookie |-> 0,
              retry |-> FALSE, ok |-> FALSE]

Refreshing(t) == inflight[t] # NoRefresh

Accepted(n) == n # 0 /\ n \notin expired

\* fetchNewAccessToken: the browser adds the cookie it has now.
Fetch == [NoRefresh EXCEPT !.at = "sent", !.cookie = cookie]

\* inflightRefresh ??= ...: whoever comes second shares the first one's.
refreshSession(t) == inflight' = [inflight EXCEPT ![t] = IF Refreshing(t) THEN @ ELSE Fetch]

\* The request goes out with the token and the cookie there are at that moment.
Sent(r, n, c) ==
  [r EXCEPT !.at = "sent", !.used = n, !.cookie = IF r.kind = "logout" THEN c ELSE 0]

\* postMessage: to every other tab; one that is still loading does not listen.
Tell(t, message) ==
  channel' = [u \in Tabs |->
    IF u = t \/ bootstrap[u] = "idle" THEN channel[u] ELSE Append(channel[u], message)]

\* The server signs an access token for a session.
Sign(s) == Len(signed) < MaxTokens /\ signed' = Append(signed, s)

(***************************************************************************)
(* session.ts                                                              *)
(***************************************************************************)
\* bootstrapSession, from AuthBootstrap or from the first request.
Bootstrap(t) ==
  /\ bootstrap[t] = "idle"
  /\ bootstrap' = [bootstrap EXCEPT ![t] = "pending"]
  /\ refreshSession(t)
  /\ UNCHANGED <<cookie, server, token, request, channel, past, reloads>>

\* POST /auth/refresh at the server: a new token for a live session, or a
\* failure of the session, the server or the network.
ServeRefresh(t) ==
  /\ inflight[t].at = "sent"
  /\ \/ /\ inflight[t].cookie \in live
        /\ Sign(inflight[t].cookie)
        /\ inflight' = [inflight EXCEPT ![t].at = "back", ![t].result = Len(signed) + 1]
     \/ /\ inflight' = [inflight EXCEPT ![t].at = "back"]
        /\ UNCHANGED signed
  /\ UNCHANGED <<cookie, live, opened, expired, token, bootstrap, request, channel, past, reloads>>

\* Requests that awaited the refresh; the one that asked for it gives up
\* with the refresh, the others are sent with whatever token there is.
Resumed(t, n, c) ==
  [k \in Requests |->
    LET r == request[k] IN
    IF TabOf[k] # t \/ r.at \notin {"waiting", "renewing"} THEN r
    ELSE IF r.at = "renewing" /\ n = 0 THEN NoRequest
    ELSE Sent(r, n, c)]

\* Mutant: the slot is freed only when there is a new token.
RefreshBack_KeepsSlot(t) ==
  LET n == inflight[t].result IN
  /\ inflight[t].at = "back"
  /\ token' = [token EXCEPT ![t] = n]
  /\ cookie' = IF n # 0 THEN signed[n] ELSE cookie
  /\ n # 0 /\ inflight' = [inflight EXCEPT ![t] = NoRefresh]
  /\ bootstrap' = [bootstrap EXCEPT ![t] = IF @ = "pending" THEN "done" ELSE @]
  /\ request' = Resumed(t, n, cookie')
  /\ UNCHANGED <<server, channel, past, reloads>>

\* The answer: its cookie, the new token or logout(), the slot freed, and
\* everything that awaited it.
RefreshBack(t) ==
  LET n == inflight[t].result IN
  /\ inflight[t].at = "back"
  /\ token' = [token EXCEPT ![t] = n]
  /\ cookie' = IF n # 0 THEN signed[n] ELSE cookie
  /\ inflight' = [inflight EXCEPT ![t] = NoRefresh]
  /\ bootstrap' = [bootstrap EXCEPT ![t] = IF @ = "pending" THEN "done" ELSE @]
  /\ request' = Resumed(t, n, cookie')
  /\ UNCHANGED <<server, channel, past, reloads>>

(***************************************************************************)
(* baseApi.ts: a query, the login form, the logout button                  *)
(***************************************************************************)
\* Only a tab that shows a user has the button; it is disabled meanwhile.
MayAsk(t, kind) ==
  \/ kind \in {"query", "login"}
  \/ kind = "logout" /\ token[t] # 0 /\ \A k \in Requests : TabOf[k] = t => request[k].kind # "logout"

\* The request awaits the bootstrap, which it may have to start, and any refresh.
Ask(k, kind) ==
  LET t == TabOf[k]
      r == [NoRequest EXCEPT !.kind = kind]
  IN
  /\ request[k] = NoRequest
  /\ MayAsk(t, kind)
  /\ IF bootstrap[t] = "idle"
       THEN /\ bootstrap' = [bootstrap EXCEPT ![t] = "pending"]
            /\ refreshSession(t)
       ELSE UNCHANGED <<bootstrap, inflight>>
  /\ request' = [request EXCEPT ![k] =
       IF Refreshing(t) \/ bootstrap[t] = "idle"
         THEN [r EXCEPT !.at = "waiting"] ELSE Sent(r, token[t], cookie)]
  /\ UNCHANGED <<cookie, server, token, channel, past, reloads>>

\* The server: a query needs an accepted token, a login opens a session, a
\* logout ends the one of its cookie.  Login and logout may also fail.
Serve(k) ==
  LET r == request[k]
      Back(ok, n) == request' = [request EXCEPT ![k].at = "back", ![k].ok = ok, ![k].used = n]
  IN
  /\ r.at = "sent"
  /\ \/ /\ r.kind = "query"
        /\ Back(Accepted(r.used), r.used)
        /\ UNCHANGED <<live, opened, signed>>
     \/ /\ r.kind = "login" /\ opened < MaxSessions
        /\ opened' = opened + 1
        /\ live' = live \cup {opened + 1}
        /\ Sign(opened + 1)
        /\ Back(TRUE, Len(signed) + 1)
     \/ /\ r.kind = "logout"
        /\ live' = live \ {r.cookie}
        /\ Back(TRUE, r.used)
        /\ UNCHANGED <<opened, signed>>
     \/ /\ r.kind # "query"
        /\ Back(FALSE, r.used)
        /\ UNCHANGED <<live, opened, signed>>
  /\ UNCHANGED <<cookie, expired, token, bootstrap, inflight, channel, past, reloads>>

Done(k) == request' = [request EXCEPT ![k] = NoRequest]

\* Mutant: a retry does not wait for the refresh under way.
Refused_RetriesAtOnce(k) ==
  LET t == TabOf[k]
      r == request[k]
  IN
  /\ r.at = "back" /\ r.kind = "query" /\ ~r.ok /\ ~r.retry /\ r.used # 0
  /\ IF Refreshing(t) \/ token[t] # r.used
       THEN /\ request' = [request EXCEPT ![k] = Sent([r EXCEPT !.retry = TRUE], token[t], cookie)]
            /\ UNCHANGED <<inflight, renewed, twice>>
       ELSE /\ request' = [request EXCEPT ![k].at = "renewing", ![k].retry = TRUE]
            /\ refreshSession(t)
            /\ renewed' = [renewed EXCEPT ![t] = @ \cup {r.used}]
            /\ twice' = (twice \/ r.used \in renewed[t])
  /\ UNCHANGED <<cookie, server, token, bootstrap, channel, reloads>>

\* Mutant: a late refusal renews a token that has been renewed already.
Refused_RenewsAgain(k) ==
  LET t == TabOf[k]
      r == request[k]
  IN
  /\ r.at = "back" /\ r.kind = "query" /\ ~r.ok /\ ~r.retry /\ r.used # 0
  /\ IF Refreshing(t)
       THEN /\ request' = [request EXCEPT ![k] = [r EXCEPT !.at = "waiting", !.retry = TRUE]]
            /\ UNCHANGED <<inflight, renewed, twice>>
       ELSE /\ request' = [request EXCEPT ![k].at = "renewing", ![k].retry = TRUE]
            /\ refreshSession(t)
            /\ renewed' = [renewed EXCEPT ![t] = @ \cup {r.used}]
            /\ twice' = (twice \/ r.used \in renewed[t])
  /\ UNCHANGED <<cookie, server, token, bootstrap, channel, reloads>>

\* Refused: wait for a refresh under way, use a token that came meanwhile, or
\* renew.  There is one retry, and none for an anonymous request.
Refused(k) ==
  LET t == TabOf[k]
      r == request[k]
  IN
  /\ r.at = "back" /\ r.kind = "query" /\ ~r.ok /\ ~r.retry /\ r.used # 0
  /\ IF Refreshing(t) \/ token[t] # r.used
       THEN /\ request' = [request EXCEPT ![k] =
                 IF Refreshing(t) THEN [r EXCEPT !.at = "waiting", !.retry = TRUE]
                                  ELSE Sent([r EXCEPT !.retry = TRUE], token[t], cookie)]
            /\ UNCHANGED <<inflight, renewed, twice>>
       ELSE /\ request' = [request EXCEPT ![k].at = "renewing", ![k].retry = TRUE]
            /\ refreshSession(t)
            /\ renewed' = [renewed EXCEPT ![t] = @ \cup {r.used}]
            /\ twice' = (twice \/ r.used \in renewed[t])
  /\ UNCHANGED <<cookie, server, token, bootstrap, channel, reloads>>

\* Any other answer to a query is the caller's.
QueryBack(k) ==
  LET r == request[k] IN
  /\ r.at = "back" /\ r.kind = "query" /\ (r.ok \/ r.retry \/ r.used = 0)
  /\ Done(k)
  /\ UNCHANGED <<cookie, server, token, bootstrap, inflight, channel, past, reloads>>

\* storeAccessToken: the cookie, the token, then the other tabs.
LoginBack(k) ==
  LET t == TabOf[k]
      r == request[k]
  IN
  /\ r.at = "back" /\ r.kind = "login"
  /\ IF r.ok
       THEN /\ cookie' = signed[r.used]
            /\ token' = [token EXCEPT ![t] = r.used]
            /\ Tell(t, "login")
       ELSE UNCHANGED <<cookie, token, channel>>
  /\ Done(k)
  /\ UNCHANGED <<server, bootstrap, inflight, past, reloads>>

\* handleLogout: clear the tab and tell the others, whatever the server said.
LogoutBack(k) ==
  LET t == TabOf[k]
      r == request[k]
  IN
  /\ r.at = "back" /\ r.kind = "logout"
  /\ cookie' = IF r.ok THEN 0 ELSE cookie
  /\ token' = [token EXCEPT ![t] = 0]
  /\ Tell(t, "logout")
  /\ Done(k)
  /\ UNCHANGED <<server, bootstrap, inflight, past, reloads>>

(***************************************************************************)
(* authChannel.ts                                                          *)
(***************************************************************************)
Receive(t) ==
  /\ channel[t] # <<>>
  /\ channel' = [channel EXCEPT ![t] = Tail(@)]
  /\ IF Head(channel[t]) = "logout"
       THEN token' = [token EXCEPT ![t] = 0] /\ UNCHANGED inflight
       ELSE refreshSession(t) /\ UNCHANGED token
  /\ UNCHANGED <<cookie, server, bootstrap, request, past, reloads>>

(***************************************************************************)
(* A tab is loaded anew; an access token expires                           *)
(***************************************************************************)
Reload(t) ==
  /\ reloads < MaxReloads
  /\ reloads' = reloads + 1
  /\ token' = [token EXCEPT ![t] = 0]
  /\ bootstrap' = [bootstrap EXCEPT ![t] = "idle"]
  /\ inflight' = [inflight EXCEPT ![t] = NoRefresh]
  /\ request' = [k \in Requests |-> IF TabOf[k] = t THEN NoRequest ELSE request[k]]
  /\ channel' = [channel EXCEPT ![t] = <<>>]
  /\ UNCHANGED <<cookie, server, past>>

Expire(n) ==
  /\ n <= Len(signed) /\ n \notin expired
  /\ expired' = expired \cup {n}
  /\ UNCHANGED <<cookie, live, opened, signed, tabs, channel, past, reloads>>

\* A browser that comes back with the cookie of a session, or without one.
Init ==
  /\ cookie \in {0, 1}
  /\ opened = cookie
  /\ live = 1..cookie
  /\ signed = <<>>
  /\ expired = {}
  /\ token = [t \in Tabs |-> 0]
  /\ bootstrap = [t \in Tabs |-> "idle"]
  /\ inflight = [t \in Tabs |-> NoRefresh]
  /\ request = [k \in Requests |-> NoRequest]
  /\ channel = [t \in Tabs |-> <<>>]
  /\ renewed = [t \in Tabs |-> {}]
  /\ twice = FALSE
  /\ reloads = 0

\* What the network and the event loop do by themselves.
Answer(k) == Serve(k) \/ Refused(k) \/ QueryBack(k) \/ LoginBack(k) \/ LogoutBack(k)

Next ==
  \/ \E t \in Tabs :
       Bootstrap(t) \/ ServeRefresh(t) \/ RefreshBack(t) \/ Receive(t) \/ Reload(t)
  \/ \E k \in Requests :
       Answer(k) \/ \E kind \in KindsOf[k] : Ask(k, kind)
  \/ \E n \in Tokens : Expire(n)

Spec == Init /\ [][Next]_vars

\* Every call is answered or fails, every answer is processed.
Fairness ==
  /\ \A t \in Tabs : WF_vars(ServeRefresh(t)) /\ WF_vars(RefreshBack(t))
  /\ \A k \in Requests : WF_vars(Answer(k))

FairSpec == Spec /\ Fairness

-----------------------------------------------------------------------------
(***************************************************************************)
(* Properties                                                              *)
(***************************************************************************)
\* Types, and who waits for whom: a request waits only while a refresh is under
\* way, a tab is restoring its session only while one is, the entry of a request
\* that is over is empty; and (baseApi.ts:55) nothing leaves a tab before it knows
\* who its user is, also when the first it hears of is a message or a click.
TypeOK ==
  /\ cookie \in 0..opened /\ live \subseteq 1..opened /\ opened \in 0..MaxSessions
  /\ signed \in Seq(Sessions) /\ Len(signed) <= MaxTokens
  /\ expired \subseteq 1..Len(signed)
  /\ token \in [Tabs -> 0..Len(signed)]
  /\ bootstrap \in [Tabs -> {"idle", "pending", "done"}]
  /\ inflight \in [Tabs -> [at : {"none", "sent", "back"}, cookie : 0..opened,
                        result : 0..Len(signed)]]
  /\ request \in [Requests ->
       [at : {"idle", "waiting", "sent", "back", "renewing"}, kind : Kinds,
        used : 0..Len(signed), cookie : 0..opened, retry : BOOLEAN, ok : BOOLEAN]]
  /\ \A t \in Tabs : bootstrap[t] = "pending" => Refreshing(t)
  /\ \A k \in Requests :
       /\ request[k].at \in {"waiting", "renewing"} => Refreshing(TabOf[k])
       /\ request[k].at = "idle" => request[k] = NoRequest
       /\ request[k].at \in {"sent", "back"} => bootstrap[TabOf[k]] = "done"
  /\ channel \in [Tabs -> Seq({"login", "logout"})]
  /\ renewed \in [Tabs -> SUBSET Tokens] /\ twice \in BOOLEAN
  /\ reloads \in 0..MaxReloads

\* However many requests are refused, in whatever order their answers come, a
\* tab asks for a new token once for each token that was refused.
OneRefreshPerToken == ~twice

\* A refused request is repeated only with another token than it was refused
\* with: it waits for the refresh under way, whoever started it.
RetryHasNewToken ==
  [][\A k \in Requests :
       LET r == request[k] IN
       r.kind = "query" /\ r.used # 0 /\ r.at # "sent" /\ request'[k].at = "sent"
       => request'[k].used # r.used]_vars

\* Every request ends and every tab learns whether it has a session, although
\* both wait for a refresh that may fail: nobody waits for a slot left taken.
EveryRequestSettles ==
  /\ \A t \in Tabs : bootstrap[t] = "pending" ~> bootstrap[t] # "pending"
  /\ \A k \in Requests : request[k] # NoRequest ~> request[k] = NoRequest
=============================================================================
