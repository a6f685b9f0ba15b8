------------------------ MODULE BrowserSessionProofs ------------------------
(***************************************************************************)
(* The safety properties of BrowserSession, for any number of tabs,        *)
(* requests, sessions, access tokens and reloads.                          *)
(***************************************************************************)
EXTENDS BrowserSession, SequenceTheorems, TLAPS

(***************************************************************************)
(* The inductive invariant                                                 *)
(***************************************************************************)
RequestType ==
  [at : {"idle", "waiting", "sent", "back", "renewing"}, kind : Kinds,
   used : 0..Len(signed), cookie : 0..opened, retry : BOOLEAN, ok : BOOLEAN]
RefreshType == [at : {"none", "sent", "back"}, cookie : 0..opened, result : 0..Len(signed)]

\* Types; a token is one of a session that was opened.
ServerTyped ==
  /\ cookie \in 0..opened /\ live \subseteq 1..opened /\ opened \in 0..MaxSessions
  /\ signed \in Seq(Sessions) /\ Len(signed) <= MaxTokens
  /\ \A n \in 1..Len(signed) : signed[n] <= opened
  /\ expired \subseteq 1..Len(signed)
  /\ reloads \in 0..MaxReloads

TabsTyped ==
  /\ token \in [Tabs -> 0..Len(signed)]
  /\ bootstrap \in [Tabs -> {"idle", "pending", "done"}]
  /\ inflight \in [Tabs -> RefreshType]
  /\ request \in [Requests -> RequestType]
  /\ channel \in [Tabs -> Seq({"login", "logout"})]
  /\ renewed \in [Tabs -> SUBSET (1..Len(signed))] /\ twice \in BOOLEAN

\* A tab that has not begun to restore its session has nothing under way.
TabControl(t) ==
  /\ bootstrap[t] = "pending" => Refreshing(t)
  /\ bootstrap[t] = "idle" => ~Refreshing(t) /\ channel[t] = <<>>

RequestControl(k) ==
  /\ request[k].at \in {"waiting", "renewing"} => Refreshing(TabOf[k])
  /\ request[k].at = "idle" => request[k] = NoRequest
  /\ request[k].at \in {"sent", "back"} => bootstrap[TabOf[k]] = "done"

\* While no refresh is under way the token of a tab has not been renewed, and
\* what a refresh brings has not been either.
TabFresh(t) ==
  /\ ~Refreshing(t) => token[t] \notin renewed[t]
  /\ inflight[t].at = "back" => inflight[t].result \notin renewed[t]
  /\ inflight[t].at = "sent" => inflight[t].result = 0

\* A login that succeeded brings a token that the tab has never had.
LoggedIn(k) == request[k].at = "back" /\ request[k].kind = "login" /\ request[k].ok

LoginFresh(k) ==
  LoggedIn(k) =>
    /\ request[k].used # 0
    /\ request[k].used \notin renewed[TabOf[k]]
    /\ request[k].used # token[TabOf[k]]
    /\ inflight[TabOf[k]].at = "back" => request[k].used # inflight[TabOf[k]].result
    /\ \A j \in Requests : j # k /\ LoggedIn(j) => request[j].used # request[k].used

\* A refresh brings a token that no query of the tab was sent with.
QueryFresh(k) ==
  LET t == TabOf[k] IN
  request[k].kind = "query" /\ inflight[t].at = "back" /\ inflight[t].result # 0 =>
    request[k].used # inflight[t].result

Typed == ServerTyped /\ TabsTyped
Control == (\A t \in Tabs : TabControl(t)) /\ (\A k \in Requests : RequestControl(k))
Fresh ==
  /\ ~twice
  /\ \A t \in Tabs : TabFresh(t)
  /\ \A k \in Requests : LoginFresh(k) /\ QueryFresh(k)

IInv == Typed /\ Control /\ Fresh

(***************************************************************************)
(* Initially                                                               *)
(***************************************************************************)
LEMMA InitHolds == Init => IInv
<1> SUFFICES ASSUME Init PROVE IInv
  OBVIOUS
<1>. USE RequestsAssumption, BoundsAssumption
<1>1. ServerTyped
  BY DEF Init, ServerTyped, Sessions
<1>2. TabsTyped
  <2>1. opened \in Nat /\ Len(signed) = 0
    BY DEF Init
  <2>2. NoRefresh \in RefreshType /\ NoRequest \in RequestType
    BY <2>1 DEF NoRefresh, NoRequest, RefreshType, RequestType, Kinds
  <2>3. channel \in [Tabs -> Seq({"login", "logout"})]
    <3>1. <<>> \in Seq({"login", "logout"})
      BY EmptySeq
    <3>. QED
      BY <3>1 DEF Init
  <2>4. /\ inflight \in [Tabs -> RefreshType] /\ request \in [Requests -> RequestType]
        /\ bootstrap \in [Tabs -> {"idle", "pending", "done"}]
    BY <2>2 DEF Init
  <2>5. token \in [Tabs -> 0..Len(signed)] /\ renewed \in [Tabs -> SUBSET (1..Len(signed))]
    BY <2>1 DEF Init
  <2>. QED
    BY <2>3, <2>4, <2>5 DEF Init, TabsTyped
<1>3. Control
  BY DEF Init, Control, TabControl, RequestControl, Refreshing, NoRequest
<1>4. Fresh
  BY DEF Init, Fresh, TabFresh, LoginFresh, QueryFresh, LoggedIn, NoRefresh, NoRequest
<1>. QED
  BY <1>1, <1>2, <1>3, <1>4 DEF IInv, Typed

(***************************************************************************)
(* What the actions share                                                  *)
(***************************************************************************)
\* The tokens signed so far keep their sessions, the new one is the next.
LEMMA SignAppends ==
  ASSUME ServerTyped, NEW s \in Sessions, Sign(s)
  PROVE  /\ signed' \in Seq(Sessions)
         /\ Len(signed') = Len(signed) + 1
         /\ Len(signed') <= MaxTokens
         /\ signed'[Len(signed) + 1] = s
         /\ \A n \in 1..Len(signed) : signed'[n] = signed[n]
BY AppendProperties, BoundsAssumption DEF Sign, ServerTyped

\* The numbers of sessions and tokens
LEMMA Numbers ==
  ASSUME ServerTyped
  PROVE  /\ opened \in Nat /\ Len(signed) \in Nat
         /\ cookie \in 0..opened /\ 0 \in 0..opened /\ 0 \in 0..Len(signed)
BY LenProperties, BoundsAssumption DEF ServerTyped

\* A request that goes out is of its type.
LEMMA SentTyped ==
  ASSUME ServerTyped, NEW r \in RequestType, NEW n \in 0..Len(signed), NEW c \in 0..opened
  PROVE  /\ Sent(r, n, c) \in RequestType
         /\ Sent(r, n, c).at = "sent" /\ Sent(r, n, c).used = n
         /\ Sent(r, n, c).kind = r.kind
<1>. DEFINE x == IF r.kind = "logout" THEN c ELSE 0
<1>1. x \in 0..opened
  BY Numbers
<1>2. Sent(r, n, c) = [r EXCEPT !.at = "sent", !.used = n, !.cookie = x]
  BY DEF Sent
<1>. HIDE DEF x
<1>. QED
  BY <1>1, <1>2 DEF RequestType

\* A refresh that is asked for is of its type.
LEMMA FetchTyped ==
  ASSUME ServerTyped
  PROVE  /\ Fetch \in RefreshType /\ Fetch.at = "sent" /\ Fetch.result = 0 /\ Fetch # NoRefresh
         /\ NoRefresh \in RefreshType /\ NoRefresh.at = "none"
BY Numbers DEF Fetch, NoRefresh, RefreshType

\* Types only grow with the sessions and tokens there are.
LEMMA TypesGrow ==
  ASSUME ServerTyped, ServerTyped', opened <= opened', Len(signed) <= Len(signed')
  PROVE  /\ RequestType \subseteq RequestType'
         /\ RefreshType \subseteq RefreshType'
         /\ 0..Len(signed) \subseteq 0..Len(signed')
         /\ 1..Len(signed) \subseteq 1..Len(signed')
<1>1. /\ opened \in Nat /\ opened' \in Nat
      /\ Len(signed) \in Nat /\ Len(signed') \in Nat
  BY LenProperties, BoundsAssumption DEF ServerTyped
<1>2. /\ 0..Len(signed) \subseteq 0..Len(signed') /\ 1..Len(signed) \subseteq 1..Len(signed')
      /\ 0..opened \subseteq 0..opened'
  BY <1>1
<1>. QED
  BY <1>2 DEF RequestType, RefreshType

(***************************************************************************)
(* One lemma per action                                                    *)
(***************************************************************************)
LEMMA BootstrapKeeps ==
  ASSUME IInv, NEW t \in Tabs, Bootstrap(t)
  PROVE  IInv'
<1>. USE DEF IInv, Typed, Control, Fresh
<1>1. /\ inflight' = [inflight EXCEPT ![t] = Fetch]
      /\ bootstrap' = [bootstrap EXCEPT ![t] = "pending"]
      /\ UNCHANGED <<cookie, server, token, request, channel, past, reloads>>
  BY DEF Bootstrap, refreshSession, TabControl, Refreshing
<1>2. Typed'
  BY <1>1, FetchTyped
     DEF ServerTyped, TabsTyped, server, past, RequestType, RefreshType
<1>3. Control'
  BY <1>1, FetchTyped DEF TabsTyped, TabControl, RequestControl, Refreshing, Bootstrap
<1>4. Fresh'
  <2>1. \A u \in Tabs : TabFresh(u)'
    BY <1>1, FetchTyped DEF TabsTyped, TabFresh, Refreshing, past
  <2>2. \A k \in Requests : LoginFresh(k)' /\ QueryFresh(k)'
    BY <1>1, FetchTyped, RequestsAssumption DEF TabsTyped, LoginFresh, QueryFresh, LoggedIn, past
  <2>. QED
    BY <1>1, <2>1, <2>2 DEF past
<1>. QED
  BY <1>2, <1>3, <1>4

LEMMA ServeRefreshKeeps ==
  ASSUME IInv, NEW t \in Tabs, ServeRefresh(t)
  PROVE  IInv'
<1>. USE DEF IInv, Typed, Control, Fresh
<1>. DEFINE s == inflight[t].cookie
            n == Len(signed) + 1
<1>1. UNCHANGED <<cookie, live, opened, expired, token, bootstrap, request, channel, past, reloads>>
  BY DEF ServeRefresh
<1>2. /\ inflight[t].at = "sent" /\ inflight[t].result = 0 /\ s \in 0..opened
      /\ inflight[t] # NoRefresh
  BY DEF ServeRefresh, TabFresh, TabsTyped, RefreshType, NoRefresh
<1>3. CASE UNCHANGED signed /\ inflight' = [inflight EXCEPT ![t].at = "back"]
  <2>1. /\ inflight'[t].at = "back" /\ inflight'[t].result = 0 /\ inflight'[t] \in RefreshType
        /\ \A u \in Tabs : u # t => inflight'[u] = inflight[u]
        /\ inflight' \in [Tabs -> RefreshType]
    BY <1>2, <1>3 DEF TabsTyped, RefreshType
  <2>2. \A u \in Tabs : Refreshing(u)' <=> Refreshing(u)
    BY <1>2, <2>1 DEF Refreshing, NoRefresh
  <2>3. Typed'
    BY <1>1, <1>3, <2>1 DEF ServerTyped, TabsTyped, RequestType, RefreshType, past
  <2>4. Control'
    BY <1>1, <2>2, RequestsAssumption DEF TabControl, RequestControl
  <2>5. Fresh'
    <3>1. \A u \in Tabs : 0 \notin renewed[u]
      BY Numbers DEF TabsTyped
    <3>2. \A u \in Tabs : TabFresh(u)'
      BY <1>1, <2>1, <2>2, <3>1 DEF TabFresh, past
    <3>3. \A k \in Requests : LoginFresh(k)' /\ QueryFresh(k)'
      BY <1>1, <2>1, RequestsAssumption DEF LoginFresh, QueryFresh, LoggedIn, past
    <3>. QED
      BY <1>1, <3>2, <3>3 DEF past
  <2>. QED
    BY <2>3, <2>4, <2>5
<1>4. CASE /\ s \in live /\ Sign(s)
           /\ inflight' = [inflight EXCEPT ![t].at = "back", ![t].result = n]
  <2>1. /\ s \in Sessions /\ s <= opened /\ opened \in Nat /\ Len(signed) \in Nat
    BY <1>4, Numbers, BoundsAssumption DEF ServerTyped, Sessions
  <2>2. /\ signed' \in Seq(Sessions) /\ Len(signed') = n /\ Len(signed') <= MaxTokens
        /\ signed'[n] = s /\ \A i \in 1..Len(signed) : signed'[i] = signed[i]
    BY <1>4, <2>1, SignAppends
  <2>3. ServerTyped'
    BY <1>1, <2>1, <2>2 DEF ServerTyped
  <2>4. /\ RequestType \subseteq RequestType' /\ RefreshType \subseteq RefreshType'
        /\ 0..Len(signed) \subseteq 0..Len(signed') /\ 1..Len(signed) \subseteq 1..Len(signed')
    <3>1. opened <= opened' /\ Len(signed) <= Len(signed')
      BY <1>1, <2>1, <2>2
    <3>. QED
      BY <2>3, <3>1, TypesGrow
  <2>5. /\ inflight'[t].at = "back" /\ inflight'[t].result = n
        /\ \A u \in Tabs : u # t => inflight'[u] = inflight[u]
        /\ inflight' \in [Tabs -> RefreshType']
    <3>1. [inflight[t] EXCEPT !.at = "back", !.result = n] \in RefreshType'
      <4>1. inflight[t] \in RefreshType /\ n \in 0..Len(signed')
        BY <2>1, <2>2 DEF TabsTyped
      <4>. HIDE DEF n
      <4>. QED
        BY <1>1, <4>1 DEF RefreshType
    <3>2. inflight' = [inflight EXCEPT ![t] = [inflight[t] EXCEPT !.at = "back", !.result = n]]
      BY <1>4
    <3>. QED
      BY <2>4, <3>1, <3>2 DEF TabsTyped, RefreshType
  <2>6. TabsTyped'
    BY <1>1, <2>4, <2>5 DEF TabsTyped, past
  <2>7. \A u \in Tabs : Refreshing(u)' <=> Refreshing(u)
    BY <1>2, <2>5 DEF Refreshing, NoRefresh
  <2>8. Control'
    BY <1>1, <2>7, RequestsAssumption DEF TabControl, RequestControl
  <2>9. Fresh'
    <3>1. /\ \A u \in Tabs : n \notin renewed[u]
          /\ \A k \in Requests : request[k].used # n
      BY <2>1 DEF TabsTyped, RequestType
    <3>2. \A u \in Tabs : TabFresh(u)'
      BY <1>1, <2>5, <2>7, <3>1 DEF TabFresh, past
    <3>3. \A k \in Requests : LoginFresh(k)' /\ QueryFresh(k)'
      BY <1>1, <2>5, <3>1, RequestsAssumption DEF LoginFresh, QueryFresh, LoggedIn, past
    <3>. QED
      BY <1>1, <3>2, <3>3 DEF past
  <2>. QED
    BY <2>3, <2>6, <2>8, <2>9
<1>. QED
  BY <1>3, <1>4 DEF ServeRefresh

LEMMA RefreshBackKeeps ==
  ASSUME IInv, NEW t \in Tabs, RefreshBack(t)
  PROVE  IInv'
<1>. USE DEF IInv, Typed, Control, Fresh
<1>. DEFINE n == inflight[t].result
<1>1. /\ inflight[t].at = "back" /\ token' = [token EXCEPT ![t] = n]
      /\ cookie' = IF n # 0 THEN signed[n] ELSE cookie
      /\ inflight' = [inflight EXCEPT ![t] = NoRefresh]
      /\ bootstrap' = [bootstrap EXCEPT ![t] = IF @ = "pending" THEN "done" ELSE @]
      /\ request' = Resumed(t, n, cookie')
      /\ UNCHANGED <<live, opened, signed, expired, channel, renewed, twice, reloads>>
  BY DEF RefreshBack, server, past
<1>2. n \in 0..Len(signed) /\ Refreshing(t) /\ bootstrap'[t] = "done"
  BY <1>1 DEF TabsTyped, RefreshType, Refreshing, NoRefresh, TabControl
<1>3. cookie' \in 0..opened
  <2>1. n # 0 => n \in 1..Len(signed) /\ signed[n] \in Sessions /\ signed[n] <= opened
    BY <1>2, ElementOfSeq, Numbers DEF ServerTyped
  <2>. QED
    BY <1>1, <2>1, Numbers, BoundsAssumption DEF Sessions
<1>. HIDE DEF n
<1>4. \A k \in Requests :
        \/ /\ request'[k] = request[k]
           /\ TabOf[k] # t \/ request[k].at \notin {"waiting", "renewing"}
        \/ TabOf[k] = t /\ request'[k] = NoRequest
        \/ TabOf[k] = t /\ request'[k] = Sent(request[k], n, cookie')
  BY <1>1 DEF Resumed
<1>5. NoRequest \in RequestType /\ NoRequest.at = "idle" /\ NoRequest.used = 0
  BY Numbers DEF NoRequest, RequestType, Kinds
<1>6. \A k \in Requests :
        /\ request'[k] \in RequestType
        /\ request'[k].at = "back" => request'[k] = request[k]
        /\ request'[k].at = "sent" => TabOf[k] = t \/ request'[k] = request[k]
        /\ request'[k].at \in {"waiting", "renewing"} => request'[k] = request[k] /\ TabOf[k] # t
        /\ request'[k].at = "idle" => request'[k] = NoRequest
  <2> SUFFICES ASSUME NEW k \in Requests
               PROVE  /\ request'[k] \in RequestType
                      /\ request'[k].at = "back" => request'[k] = request[k]
                      /\ request'[k].at = "sent" => TabOf[k] = t \/ request'[k] = request[k]
                      /\ request'[k].at \in {"waiting", "renewing"} =>
                           request'[k] = request[k] /\ TabOf[k] # t
                      /\ request'[k].at = "idle" => request'[k] = NoRequest
    OBVIOUS
  <2>1. request[k] \in RequestType /\ (request[k].at = "idle" => request[k] = NoRequest)
    BY DEF TabsTyped, RequestControl
  <2>2. Sent(request[k], n, cookie') \in RequestType /\ Sent(request[k], n, cookie').at = "sent"
    BY <1>2, <1>3, <2>1, SentTyped
  <2>. QED
    BY <1>4, <1>5, <2>1, <2>2
<1>7. Typed'
  <2>1. ServerTyped'
    BY <1>1, <1>3 DEF ServerTyped
  <2>2. request' \in [Requests -> RequestType]
    BY <1>1, <1>6 DEF Resumed
  <2>3. inflight' \in [Tabs -> RefreshType] /\ token' \in [Tabs -> 0..Len(signed)]
    BY <1>1, <1>2, FetchTyped DEF TabsTyped
  <2>4. bootstrap' \in [Tabs -> {"idle", "pending", "done"}]
    BY <1>1 DEF TabsTyped
  <2>. QED
    BY <1>1, <2>1, <2>2, <2>3, <2>4 DEF TabsTyped, RequestType, RefreshType
<1>8. \A u \in Tabs : u # t =>
        token'[u] = token[u] /\ inflight'[u] = inflight[u] /\ bootstrap'[u] = bootstrap[u]
  BY <1>1 DEF TabsTyped
<1>9. inflight'[t] = NoRefresh /\ NoRefresh.at = "none" /\ token'[t] = n
  BY <1>1, FetchTyped DEF TabsTyped
<1>10. Control'
  <2>1. \A u \in Tabs : TabControl(u)'
    BY <1>1, <1>2, <1>8 DEF TabControl, Refreshing
  <2>2. \A k \in Requests : RequestControl(k)'
    BY <1>2, <1>6, <1>8, RequestsAssumption DEF RequestControl, Refreshing
  <2>. QED
    BY <2>1, <2>2
<1>11. Fresh'
  <2>1. \A u \in Tabs : TabFresh(u)'
    <3>1. n \notin renewed[t]
      BY <1>1 DEF TabFresh, n
    <3>. QED
      BY <1>1, <1>8, <1>9, <3>1 DEF TabFresh, Refreshing
  <2>2. \A k \in Requests : LoginFresh(k)'
    <3> SUFFICES ASSUME NEW k \in Requests, LoggedIn(k)' PROVE LoginFresh(k)'
      BY DEF LoginFresh
    <3>1. \A j \in Requests : LoggedIn(j)' => request'[j] = request[j] /\ LoggedIn(j)
      BY <1>6 DEF LoggedIn
    <3>2. TabOf[k] = t => request[k].used # n
      BY <1>1, <3>1 DEF LoginFresh, n
    <3>. QED
      BY <1>1, <1>8, <1>9, <3>1, <3>2, RequestsAssumption DEF LoginFresh
  <2>3. \A k \in Requests : QueryFresh(k)'
    BY <1>1, <1>4, <1>8, <1>9, RequestsAssumption DEF QueryFresh
  <2>. QED
    BY <1>1, <2>1, <2>2, <2>3
<1>. QED
  BY <1>7, <1>10, <1>11

\* A refresh that is asked for, or shared: the slot is taken, and what a refresh
\* under way will bring is as it was.
LEMMA RefreshAsked ==
  ASSUME IInv, NEW t \in Tabs, refreshSession(t)
  PROVE  /\ inflight' \in [Tabs -> RefreshType]
         /\ \A u \in Tabs : u # t => inflight'[u] = inflight[u]
         /\ inflight'[t] # NoRefresh
         /\ IF Refreshing(t) THEN inflight'[t] = inflight[t]
            ELSE inflight'[t].at = "sent" /\ inflight'[t].result = 0
BY FetchTyped DEF IInv, Typed, TabsTyped, refreshSession, Refreshing

LEMMA AskKeeps ==
  ASSUME IInv, NEW k \in Requests, NEW kind \in Kinds, Ask(k, kind)
  PROVE  IInv'
<1>0. PICK t \in Tabs : t = TabOf[k]
  BY RequestsAssumption
<1>a. bootstrap[t] = "idle" =>
        /\ refreshSession(t)
        /\ inflight' \in [Tabs -> RefreshType]
        /\ \A u \in Tabs : u # t => inflight'[u] = inflight[u]
        /\ inflight'[t] # NoRefresh
        /\ inflight'[t] = inflight[t] \/ (inflight'[t].at = "sent" /\ inflight'[t].result = 0)
  <2> SUFFICES ASSUME bootstrap[t] = "idle"
               PROVE  /\ refreshSession(t)
                      /\ inflight' \in [Tabs -> RefreshType]
                      /\ \A u \in Tabs : u # t => inflight'[u] = inflight[u]
                      /\ inflight'[t] # NoRefresh
                      /\ \/ inflight'[t] = inflight[t]
                         \/ inflight'[t].at = "sent" /\ inflight'[t].result = 0
    OBVIOUS
  <2>1. refreshSession(t)
    BY <1>0 DEF Ask
  <2>. QED
    BY <2>1, RefreshAsked
<1>. USE DEF IInv, Typed, Control, Fresh
<1>. DEFINE r == [NoRequest EXCEPT !.kind = kind]
            waits == Refreshing(t) \/ bootstrap[t] = "idle"
<1>1. /\ request[k] = NoRequest
      /\ IF bootstrap[t] = "idle"
           THEN bootstrap' = [bootstrap EXCEPT ![t] = "pending"] /\ refreshSession(t)
           ELSE UNCHANGED <<bootstrap, inflight>>
      /\ request' = [request EXCEPT ![k] =
           IF waits THEN [r EXCEPT !.at = "waiting"] ELSE Sent(r, token[t], cookie)]
      /\ UNCHANGED <<cookie, live, opened, signed, expired, token, channel, renewed, twice, reloads>>
  BY <1>0 DEF Ask, server, past
<1>2. token[t] \in 0..Len(signed)
  BY RequestsAssumption DEF TabsTyped
<1>3. /\ r \in RequestType /\ [r EXCEPT !.at = "waiting"] \in RequestType
      /\ [r EXCEPT !.at = "waiting"].at = "waiting" /\ [r EXCEPT !.at = "waiting"].used = 0
  BY Numbers DEF NoRequest, RequestType, Kinds
<1>4. /\ Sent(r, token[t], cookie) \in RequestType /\ Sent(r, token[t], cookie).at = "sent"
  BY <1>2, <1>3, SentTyped, Numbers
<1>5. /\ inflight' \in [Tabs -> RefreshType]
      /\ \A u \in Tabs : u # t => inflight'[u] = inflight[u] /\ bootstrap'[u] = bootstrap[u]
      /\ bootstrap' \in [Tabs -> {"idle", "pending", "done"}]
      /\ waits => inflight'[t] # NoRefresh /\ bootstrap'[t] # "idle"
      /\ ~waits => inflight' = inflight /\ bootstrap'[t] = bootstrap[t] /\ bootstrap[t] = "done"
      /\ inflight'[t] = inflight[t] \/ (inflight'[t].at = "sent" /\ inflight'[t].result = 0)
  <2>1. CASE bootstrap[t] = "idle"
    <3>1. bootstrap' = [bootstrap EXCEPT ![t] = "pending"]
      BY <1>1, <2>1
    <3>. QED
      BY <1>a, <2>1, <3>1 DEF TabsTyped
  <2>2. CASE bootstrap[t] # "idle"
    <3>1. inflight' = inflight /\ bootstrap' = bootstrap
      BY <1>1, <2>2
    <3>2. bootstrap[t] = "pending" => Refreshing(t)
      BY DEF TabControl
    <3>3. waits => Refreshing(t)
      BY <2>2
    <3>4. ~waits => bootstrap[t] = "done"
      BY <2>2, <3>2 DEF TabsTyped
    <3>. QED
      BY <1>2, <2>2, <3>1, <3>3, <3>4 DEF TabsTyped, Refreshing
  <2>. QED
    BY <2>1, <2>2
<1>6. /\ request' \in [Requests -> RequestType]
      /\ \A j \in Requests : j # k => request'[j] = request[j]
      /\ waits => request'[k].at = "waiting" /\ request'[k].used = 0
      /\ ~waits => request'[k].at = "sent"
  BY <1>1, <1>3, <1>4 DEF TabsTyped
<1>. HIDE DEF r, waits
<1>7. Typed'
  BY <1>1, <1>5, <1>6 DEF ServerTyped, TabsTyped, RequestType, RefreshType
<1>8. Control'
  <2>1. \A u \in Tabs : Refreshing(u) => Refreshing(u)'
    BY <1>5 DEF Refreshing, waits
  <2>2. \A u \in Tabs : TabControl(u)'
    BY <1>1, <1>2, <1>5 DEF TabControl, Refreshing, TabsTyped, waits
  <2>3. \A j \in Requests : RequestControl(j)'
    <3>1. ASSUME NEW j \in Requests, j # k PROVE RequestControl(j)'
      <4>1. RequestControl(j) /\ request'[j] = request[j] /\ TabOf[j] \in Tabs
        BY <1>6, <3>1, RequestsAssumption
      <4>2. bootstrap[TabOf[j]] = "done" => bootstrap'[TabOf[j]] = "done"
        BY <1>1, <1>5, <4>1 DEF TabsTyped
      <4>. QED
        BY <2>1, <4>1, <4>2 DEF RequestControl
    <3>2. RequestControl(k)'
      BY <1>0, <1>5, <1>6 DEF RequestControl, Refreshing
    <3>. QED
      BY <3>1, <3>2
  <2>. QED
    BY <2>2, <2>3
<1>9. Fresh'
  <2>1. \A u \in Tabs : TabFresh(u)'
    BY <1>1, <1>2, <1>5 DEF TabFresh, Refreshing, waits
  <2>2. \A j \in Requests : LoginFresh(j)'
    <3>1. \A j \in Requests : LoggedIn(j)' => request'[j] = request[j] /\ LoggedIn(j)
      BY <1>6 DEF LoggedIn
    <3>2. \A u \in Tabs : inflight'[u] = inflight[u] \/ inflight'[u].at = "sent"
      BY <1>5
    <3>3. \A u \in Tabs : token'[u] = token[u] /\ renewed'[u] = renewed[u]
      BY <1>1
    <3>. QED
      BY <3>1, <3>2, <3>3, RequestsAssumption DEF LoginFresh
  <2>3. \A j \in Requests : QueryFresh(j)'
    <3>1. ~waits => inflight'[t].at # "back"
      BY <1>5, FetchTyped DEF waits, Refreshing
    <3>. QED
      BY <1>1, <1>2, <1>5, <1>6, <3>1, <1>0, RequestsAssumption DEF QueryFresh
  <2>. QED
    BY <1>1, <2>1, <2>2, <2>3
<1>. QED
  BY <1>7, <1>8, <1>9

LEMMA ServeKeeps ==
  ASSUME IInv, NEW k \in Requests, Serve(k)
  PROVE  IInv'
<1>. USE DEF IInv, Typed, Control, Fresh
<1>. DEFINE n == Len(signed) + 1
            m == opened + 1
<1>0. PICK t \in Tabs : t = TabOf[k]
  BY RequestsAssumption
<1>1. /\ request[k].at = "sent" /\ request[k] \in RequestType
      /\ UNCHANGED <<cookie, expired, token, bootstrap, inflight, channel, renewed, twice, reloads>>
  BY DEF Serve, past, TabsTyped
<1>2. CASE /\ UNCHANGED <<opened, signed>> /\ (live' = live \/ live' = live \ {request[k].cookie})
           /\ \E ok \in BOOLEAN :
                /\ ok => request[k].kind # "login"
                /\ request' = [request EXCEPT ![k].at = "back", ![k].ok = ok, ![k].used = request[k].used]
  <2>1. /\ request'[k] \in RequestType /\ request'[k].at = "back"
        /\ request'[k].kind = request[k].kind /\ request'[k].used = request[k].used
        /\ request'[k].kind = "login" => ~request'[k].ok
        /\ \A j \in Requests : j # k => request'[j] = request[j]
        /\ request' \in [Requests -> RequestType]
    <3>1. PICK ok \in BOOLEAN :
            /\ ok => request[k].kind # "login"
            /\ request' = [request EXCEPT ![k] =
                 [request[k] EXCEPT !.at = "back", !.ok = ok, !.used = request[k].used]]
      BY <1>2
    <3>. DEFINE x == [request[k] EXCEPT !.at = "back", !.ok = ok, !.used = request[k].used]
    <3>2. /\ x \in RequestType /\ x.at = "back" /\ x.ok = ok
          /\ x.kind = request[k].kind /\ x.used = request[k].used
      BY <1>1 DEF RequestType
    <3>. HIDE DEF x
    <3>3. request' = [request EXCEPT ![k] = x]
      BY <3>1 DEF x
    <3>. QED
      BY <3>1, <3>2, <3>3 DEF TabsTyped
  <2>2. Typed'
    BY <1>1, <1>2, <2>1 DEF ServerTyped, TabsTyped, RequestType, RefreshType
  <2>3. Control'
    BY <1>1, <2>1, RequestsAssumption DEF TabControl, RequestControl, Refreshing
  <2>4. \A j \in Requests : LoggedIn(j)' => request'[j] = request[j] /\ LoggedIn(j)
    BY <2>1 DEF LoggedIn
  <2>5. Fresh'
    <3>1. \A u \in Tabs : TabFresh(u)'
      BY <1>1 DEF TabFresh, Refreshing
    <3>2. \A j \in Requests : LoginFresh(j)'
      BY <1>1, <2>4 DEF LoginFresh
    <3>3. \A j \in Requests : QueryFresh(j)'
      BY <1>1, <2>1 DEF QueryFresh
    <3>. QED
      BY <1>1, <3>1, <3>2, <3>3
  <2>. QED
    BY <2>2, <2>3, <2>5
<1>3. CASE /\ request[k].kind = "login" /\ opened < MaxSessions
           /\ opened' = m /\ live' = live \cup {m} /\ Sign(m)
           /\ request' = [request EXCEPT ![k].at = "back", ![k].ok = TRUE, ![k].used = n]
  <2>1. /\ m \in Sessions /\ m \in 0..MaxSessions /\ opened \in Nat /\ Len(signed) \in Nat
    BY <1>3, Numbers, BoundsAssumption DEF Sessions
  <2>2. /\ signed' \in Seq(Sessions) /\ Len(signed') = n /\ Len(signed') <= MaxTokens
        /\ signed'[n] = m /\ \A i \in 1..Len(signed) : signed'[i] = signed[i]
    BY <1>3, <2>1, SignAppends
  <2>3. ServerTyped'
    <3>1. \A i \in 1..Len(signed') : signed'[i] <= opened'
      <4>1. ASSUME NEW i \in 1..Len(signed) PROVE signed'[i] <= opened'
        <5>1. signed[i] \in Sessions /\ signed[i] <= opened /\ signed'[i] = signed[i]
          BY <2>2, <4>1, ElementOfSeq DEF ServerTyped
        <5>. QED
          BY <1>3, <2>1, <5>1, BoundsAssumption DEF Sessions
      <4>2. signed'[n] <= opened'
        BY <1>3, <2>1, <2>2
      <4>. QED
        BY <2>1, <2>2, <4>1, <4>2
    <3>. QED
      BY <1>1, <1>3, <2>1, <2>2, <3>1 DEF ServerTyped
  <2>4. /\ RequestType \subseteq RequestType' /\ RefreshType \subseteq RefreshType'
        /\ 0..Len(signed) \subseteq 0..Len(signed') /\ 1..Len(signed) \subseteq 1..Len(signed')
    <3>1. opened <= opened' /\ Len(signed) <= Len(signed')
      BY <1>3, <2>1, <2>2
    <3>. QED
      BY <2>3, <3>1, TypesGrow
  <2>5. /\ request'[k].at = "back" /\ request'[k].used = n /\ request'[k].kind = "login"
        /\ \A j \in Requests : j # k => request'[j] = request[j]
        /\ request' \in [Requests -> RequestType']
    <3>1. [request[k] EXCEPT !.at = "back", !.ok = TRUE, !.used = n] \in RequestType'
      <4>1. request[k] \in RequestType' /\ n \in 0..Len(signed')
        BY <1>1, <2>1, <2>2, <2>4
      <4>. HIDE DEF n
      <4>. QED
        BY <4>1 DEF RequestType
    <3>2. request' = [request EXCEPT ![k] = [request[k] EXCEPT !.at = "back", !.ok = TRUE, !.used = n]]
      BY <1>3
    <3>3. request[k].kind = "login"
      BY <1>3
    <3>. QED
      BY <1>1, <2>4, <3>1, <3>2, <3>3 DEF TabsTyped, RequestType
  <2>6. TabsTyped'
    BY <1>1, <2>4, <2>5 DEF TabsTyped
  <2>7. Control'
    BY <1>1, <2>5, RequestsAssumption DEF TabControl, RequestControl, Refreshing
  <2>8. Fresh'
    <3>1. /\ n # 0
          /\ \A u \in Tabs : n \notin renewed[u] /\ token[u] # n /\ inflight[u].result # n
          /\ \A j \in Requests : request[j].used # n
      BY <2>1 DEF TabsTyped, RequestType, RefreshType
    <3>. HIDE DEF n
    <3>2. \A u \in Tabs : TabFresh(u)'
      BY <1>1 DEF TabFresh, Refreshing
    <3>3. \A j \in Requests : j # k /\ LoggedIn(j)' => LoggedIn(j)
      BY <2>5 DEF LoggedIn
    <3>4. \A j \in Requests : LoginFresh(j)'
      BY <1>1, <2>5, <3>1, <3>3, RequestsAssumption DEF LoginFresh
    <3>5. \A j \in Requests : QueryFresh(j)'
      BY <1>1, <2>5 DEF QueryFresh
    <3>. QED
      BY <1>1, <3>2, <3>4, <3>5
  <2>. QED
    BY <2>3, <2>6, <2>7, <2>8
<1>4. Accepted(request[k].used) \in BOOLEAN
  BY DEF Accepted
<1>. QED
  BY <1>2, <1>3, <1>4 DEF Serve

LEMMA RefusedKeeps ==
  ASSUME IInv, NEW k \in Requests, Refused(k)
  PROVE  IInv'
<1>0. PICK t \in Tabs : t = TabOf[k]
  BY RequestsAssumption
<1>1. /\ request[k].at = "back" /\ request[k].kind = "query" /\ request[k].used # 0
      /\ UNCHANGED <<cookie, live, opened, signed, expired, token, bootstrap, channel, reloads>>
  BY DEF Refused, server
<1>2. /\ ServerTyped /\ TabsTyped /\ request[k] \in RequestType /\ bootstrap[t] = "done"
      /\ token[t] \in 0..Len(signed)
  BY <1>0, <1>1 DEF IInv, Typed, TabsTyped, Control, RequestControl
<1>3. CASE /\ Refreshing(t) \/ token[t] # request[k].used
           /\ request' = [request EXCEPT ![k] =
                IF Refreshing(t) THEN [request[k] EXCEPT !.at = "waiting", !.retry = TRUE]
                ELSE Sent([request[k] EXCEPT !.retry = TRUE], token[t], cookie)]
           /\ UNCHANGED <<inflight, renewed, twice>>
  <2>. USE DEF IInv, Typed, Control, Fresh
  <2>1. /\ [request[k] EXCEPT !.at = "waiting", !.retry = TRUE] \in RequestType
        /\ [request[k] EXCEPT !.retry = TRUE] \in RequestType
    BY <1>2 DEF RequestType
  <2>2. /\ Sent([request[k] EXCEPT !.retry = TRUE], token[t], cookie) \in RequestType
        /\ Sent([request[k] EXCEPT !.retry = TRUE], token[t], cookie).at = "sent"
    BY <1>2, <2>1, SentTyped, Numbers
  <2>3. /\ request' \in [Requests -> RequestType]
        /\ \A j \in Requests : j # k => request'[j] = request[j]
        /\ Refreshing(t) => request'[k].at = "waiting" /\ request'[k].used = request[k].used
        /\ ~Refreshing(t) => request'[k].at = "sent"
        /\ request'[k].at # "back"
    BY <1>2, <1>3, <2>1, <2>2 DEF TabsTyped, RequestType
  <2>4. Typed'
    BY <1>1, <1>3, <2>3 DEF ServerTyped, TabsTyped, RequestType, RefreshType
  <2>5. Control'
    <3>1. \A u \in Tabs : TabControl(u)'
      BY <1>1, <1>3 DEF TabControl, Refreshing
    <3>2. \A j \in Requests : j # k => RequestControl(j)'
      BY <1>1, <1>3, <2>3 DEF RequestControl, Refreshing
    <3>3. RequestControl(k)'
      BY <1>0, <1>1, <1>2, <1>3, <2>3 DEF RequestControl, Refreshing
    <3>. QED
      BY <3>1, <3>2, <3>3
  <2>6. Fresh'
    <3>1. \A u \in Tabs : TabFresh(u)'
      BY <1>1, <1>3 DEF TabFresh, Refreshing
    <3>2. \A j \in Requests : LoggedIn(j)' => request'[j] = request[j] /\ LoggedIn(j)
      BY <2>3 DEF LoggedIn
    <3>3. \A j \in Requests : LoginFresh(j)'
      <4>1. UNCHANGED <<token, inflight, renewed>>
        BY <1>1, <1>3
      <4>. QED
        BY <3>2, <4>1 DEF LoginFresh
    <3>4. ~Refreshing(t) => inflight[t].at # "back"
      BY FetchTyped DEF Refreshing
    <3>5. \A j \in Requests : QueryFresh(j)'
      BY <1>0, <1>1, <1>3, <2>3, <3>4 DEF QueryFresh
    <3>. QED
      BY <1>3, <3>1, <3>3, <3>5
  <2>. QED
    BY <2>4, <2>5, <2>6
<1>4. CASE /\ ~Refreshing(t) /\ token[t] = request[k].used
           /\ request' = [request EXCEPT ![k] = [request[k] EXCEPT !.at = "renewing", !.retry = TRUE]]
           /\ refreshSession(t)
           /\ renewed' = [renewed EXCEPT ![t] = renewed[t] \cup {request[k].used}]
           /\ twice' = (twice \/ request[k].used \in renewed[t])
  <2>1. /\ inflight' \in [Tabs -> RefreshType] /\ inflight'[t] # NoRefresh
        /\ \A u \in Tabs : u # t => inflight'[u] = inflight[u]
        /\ inflight'[t].at = "sent" /\ inflight'[t].result = 0
    BY <1>4, RefreshAsked
  <2>. USE DEF IInv, Typed, Control, Fresh
  <2>2. ~twice' /\ twice' \in BOOLEAN /\ renewed' \in [Tabs -> SUBSET (1..Len(signed))]
    <3>1. request[k].used \in 1..Len(signed)
      BY <1>1, <1>2, Numbers DEF RequestType
    <3>. QED
      BY <1>2, <1>4, <3>1 DEF TabFresh, TabsTyped
  <2>3. /\ request' \in [Requests -> RequestType]
        /\ \A j \in Requests : j # k => request'[j] = request[j]
        /\ request'[k].at = "renewing" /\ request'[k].used = request[k].used
        /\ request'[k].kind = "query"
    BY <1>1, <1>2, <1>4 DEF TabsTyped, RequestType
  <2>4. Typed'
    <3>1. UNCHANGED <<cookie, live, opened, signed, expired, token, bootstrap, channel, reloads>>
      BY <1>1
    <3>2. ServerTyped'
      BY <3>1 DEF ServerTyped
    <3>3. RequestType' = RequestType /\ RefreshType' = RefreshType
      BY <3>1 DEF RequestType, RefreshType
    <3>4. TabsTyped'
      BY <2>1, <2>2, <2>3, <3>1, <3>3 DEF TabsTyped
    <3>. QED
      BY <3>2, <3>4
  <2>5. Control'
    <3>1. \A u \in Tabs : Refreshing(u) => inflight'[u] # NoRefresh
      BY <1>4, <2>1 DEF Refreshing
    <3>2. \A u \in Tabs : TabControl(u)'
      BY <1>1, <1>2, <2>1, <3>1 DEF TabControl, Refreshing
    <3>3. \A j \in Requests : j # k => RequestControl(j)'
      BY <1>1, <2>3, <3>1, RequestsAssumption DEF RequestControl, Refreshing
    <3>4. RequestControl(k)'
      BY <1>0, <2>1, <2>3 DEF RequestControl, Refreshing
    <3>. QED
      BY <3>2, <3>3, <3>4
  <2>6. Fresh'
    <3>1. /\ renewed'[t] = renewed[t] \cup {token[t]}
          /\ \A u \in Tabs : u # t => renewed'[u] = renewed[u]
      BY <1>2, <1>4 DEF TabsTyped
    <3>2. \A u \in Tabs : TabFresh(u)'
      BY <1>1, <2>1, <3>1 DEF TabFresh, Refreshing
    <3>3. \A j \in Requests : LoggedIn(j)' => request'[j] = request[j] /\ LoggedIn(j)
      BY <2>3 DEF LoggedIn
    <3>4. \A u \in Tabs : inflight'[u] = inflight[u] \/ inflight'[u].at = "sent"
      BY <2>1
    <3>5. \A j \in Requests : LoginFresh(j)'
      BY <1>1, <3>1, <3>3, <3>4, RequestsAssumption DEF LoginFresh
    <3>6. \A j \in Requests : QueryFresh(j)'
      BY <1>0, <1>1, <2>1, <2>3, <3>4, RequestsAssumption DEF QueryFresh
    <3>. QED
      BY <2>2, <3>2, <3>5, <3>6
  <2>. QED
    BY <2>4, <2>5, <2>6
<1>. QED
  BY <1>0, <1>3, <1>4 DEF Refused

LEMMA QueryBackKeeps ==
  ASSUME IInv, NEW k \in Requests, request[k].at = "back", Done(k),
         UNCHANGED <<cookie, server, token, bootstrap, inflight, channel, past, reloads>>
  PROVE  IInv'
<1>. USE DEF IInv, Typed, Control, Fresh
<1>1. NoRequest \in RequestType /\ NoRequest.at = "idle" /\ NoRequest.used = 0
  BY Numbers DEF NoRequest, RequestType, Kinds
<1>2. /\ request' \in [Requests -> RequestType] /\ request'[k] = NoRequest
      /\ \A j \in Requests : j # k => request'[j] = request[j]
  BY <1>1 DEF Done, TabsTyped
<1>3. UNCHANGED <<live, opened, signed, expired, renewed, twice>>
  BY DEF server, past
<1>4. Typed'
  BY <1>2, <1>3 DEF ServerTyped, TabsTyped, RequestType, RefreshType
<1>5. Control'
  BY <1>1, <1>2 DEF TabControl, RequestControl, Refreshing
<1>6. Fresh'
  BY <1>1, <1>2, <1>3 DEF TabFresh, LoginFresh, QueryFresh, LoggedIn, Refreshing
<1>. QED
  BY <1>4, <1>5, <1>6

\* Telling the other tabs leaves alone a tab that does not listen yet.
LEMMA Told ==
  ASSUME TabsTyped, NEW t \in Tabs, NEW message \in {"login", "logout"}, Tell(t, message)
  PROVE  /\ channel' \in [Tabs -> Seq({"login", "logout"})]
         /\ \A u \in Tabs : bootstrap[u] = "idle" => channel'[u] = channel[u]
<1>1. \A u \in Tabs : Append(channel[u], message) \in Seq({"login", "logout"})
  BY AppendProperties DEF TabsTyped
<1>. QED
  BY <1>1 DEF Tell, TabsTyped

LEMMA LoginBackKeeps ==
  ASSUME IInv, NEW k \in Requests, LoginBack(k)
  PROVE  IInv'
<1>0. PICK t \in Tabs : t = TabOf[k]
  BY RequestsAssumption
<1>1. CASE ~request[k].ok
  <2>1. /\ request[k].at = "back" /\ Done(k)
        /\ UNCHANGED <<cookie, server, token, bootstrap, inflight, channel, past, reloads>>
    BY <1>1 DEF LoginBack
  <2>. QED
    BY <2>1, QueryBackKeeps
<1>2. CASE request[k].ok
  <2>. USE DEF IInv, Typed, Control, Fresh
  <2>1. /\ LoggedIn(k) /\ Tell(t, "login") /\ cookie' = signed[request[k].used]
        /\ token' = [token EXCEPT ![t] = request[k].used]
        /\ UNCHANGED <<live, opened, signed, expired, bootstrap, inflight, renewed, twice, reloads>>
    BY <1>0, <1>2 DEF LoginBack, LoggedIn, server, past
  <2>2. request[k].used \in 1..Len(signed)
    <3>1. request[k].used # 0 /\ request[k].used \in 0..Len(signed)
      BY <2>1 DEF LoginFresh, TabsTyped, RequestType
    <3>. QED
      BY <3>1, Numbers
  <2>3. cookie' \in 0..opened
    <3>1. signed[request[k].used] \in Sessions /\ signed[request[k].used] <= opened
      BY <2>2, ElementOfSeq DEF ServerTyped
    <3>. QED
      BY <2>1, <3>1, Numbers, BoundsAssumption DEF Sessions
  <2>4. NoRequest \in RequestType /\ NoRequest.at = "idle" /\ NoRequest.used = 0
    BY Numbers DEF NoRequest, RequestType, Kinds
  <2>5. /\ request' \in [Requests -> RequestType] /\ request'[k] = NoRequest
        /\ \A j \in Requests : j # k => request'[j] = request[j]
    BY <2>4 DEF LoginBack, Done, TabsTyped
  <2>6. /\ channel' \in [Tabs -> Seq({"login", "logout"})]
        /\ \A u \in Tabs : bootstrap[u] = "idle" => channel'[u] = channel[u]
    BY <2>1, Told
  <2>7. /\ token' \in [Tabs -> 0..Len(signed)] /\ token'[t] = request[k].used
        /\ \A u \in Tabs : u # t => token'[u] = token[u]
    BY <2>1, <2>2 DEF TabsTyped
  <2>8. Typed'
    <3>1. ServerTyped'
      BY <2>1, <2>3 DEF ServerTyped
    <3>2. RequestType' = RequestType /\ RefreshType' = RefreshType
      BY <2>1 DEF RequestType, RefreshType
    <3>3. TabsTyped'
      BY <2>1, <2>5, <2>6, <2>7, <3>2 DEF TabsTyped
    <3>. QED
      BY <3>1, <3>3
  <2>9. Control'
    BY <2>1, <2>4, <2>5, <2>6 DEF TabControl, RequestControl, Refreshing
  <2>10. Fresh'
    <3>1. /\ request[k].used \notin renewed[t]
          /\ \A j \in Requests : j # k /\ LoggedIn(j) => request[j].used # request[k].used
      BY <1>0, <2>1 DEF LoginFresh
    <3>2. \A u \in Tabs : TabFresh(u)'
      BY <2>1, <2>7, <3>1 DEF TabFresh, Refreshing
    <3>3. \A j \in Requests : LoggedIn(j)' => j # k /\ request'[j] = request[j] /\ LoggedIn(j)
      BY <2>4, <2>5 DEF LoggedIn
    <3>4. \A j \in Requests : LoginFresh(j)'
      BY <2>1, <2>7, <3>1, <3>3, RequestsAssumption DEF LoginFresh
    <3>5. \A j \in Requests : QueryFresh(j)'
      BY <2>1, <2>4, <2>5 DEF QueryFresh
    <3>. QED
      BY <2>1, <3>2, <3>4, <3>5
  <2>. QED
    BY <2>8, <2>9, <2>10
<1>. QED
  BY <1>1, <1>2

LEMMA LogoutBackKeeps ==
  ASSUME IInv, NEW k \in Requests, LogoutBack(k)
  PROVE  IInv'
<1>0. PICK t \in Tabs : t = TabOf[k]
  BY RequestsAssumption
<1>. USE DEF IInv, Typed, Control, Fresh
<1>1. /\ request[k].at = "back" /\ Tell(t, "logout") /\ (cookie' = 0 \/ cookie' = cookie)
      /\ token' = [token EXCEPT ![t] = 0]
      /\ UNCHANGED <<live, opened, signed, expired, bootstrap, inflight, renewed, twice, reloads>>
  BY <1>0 DEF LogoutBack, server, past
<1>2. NoRequest \in RequestType /\ NoRequest.at = "idle" /\ NoRequest.used = 0
  BY Numbers DEF NoRequest, RequestType, Kinds
<1>3. /\ request' \in [Requests -> RequestType] /\ request'[k] = NoRequest
      /\ \A j \in Requests : j # k => request'[j] = request[j]
  BY <1>2 DEF LogoutBack, Done, TabsTyped
<1>4. /\ channel' \in [Tabs -> Seq({"login", "logout"})]
      /\ \A u \in Tabs : bootstrap[u] = "idle" => channel'[u] = channel[u]
  BY <1>1, Told
<1>5. /\ token' \in [Tabs -> 0..Len(signed)] /\ token'[t] = 0
      /\ \A u \in Tabs : u # t => token'[u] = token[u]
  BY <1>1, Numbers DEF TabsTyped
<1>6. Typed'
  <2>1. ServerTyped'
    BY <1>1, Numbers DEF ServerTyped
  <2>2. RequestType' = RequestType /\ RefreshType' = RefreshType
    BY <1>1 DEF RequestType, RefreshType
  <2>3. TabsTyped'
    BY <1>1, <1>3, <1>4, <1>5, <2>2 DEF TabsTyped
  <2>. QED
    BY <2>1, <2>3
<1>7. Control'
  BY <1>1, <1>2, <1>3, <1>4 DEF TabControl, RequestControl, Refreshing
<1>8. Fresh'
  <2>1. 0 \notin renewed[t]
    BY Numbers DEF TabsTyped
  <2>2. \A u \in Tabs : TabFresh(u)'
    BY <1>1, <1>5, <2>1 DEF TabFresh, Refreshing
  <2>3. \A j \in Requests : LoggedIn(j)' => j # k /\ request'[j] = request[j] /\ LoggedIn(j)
    BY <1>2, <1>3 DEF LoggedIn
  <2>4. \A j \in Requests : LoginFresh(j)'
    BY <1>1, <1>5, <2>3, RequestsAssumption DEF LoginFresh
  <2>5. \A j \in Requests : QueryFresh(j)'
    BY <1>1, <1>2, <1>3 DEF QueryFresh
  <2>. QED
    BY <1>1, <2>2, <2>4, <2>5
<1>. QED
  BY <1>6, <1>7, <1>8

LEMMA ReceiveKeeps ==
  ASSUME IInv, NEW t \in Tabs, Receive(t)
  PROVE  IInv'
<1>1. /\ channel[t] # <<>> /\ channel' = [channel EXCEPT ![t] = Tail(channel[t])]
      /\ UNCHANGED <<cookie, live, opened, signed, expired, bootstrap, request, renewed, twice, reloads>>
      /\ \/ token' = [token EXCEPT ![t] = 0] /\ inflight' = inflight
         \/ refreshSession(t) /\ token' = token
  BY DEF Receive, server, past
<1>2. /\ inflight' \in [Tabs -> RefreshType]
      /\ \A u \in Tabs : u # t => inflight'[u] = inflight[u]
      /\ \/ inflight'[t] = inflight[t]
         \/ inflight'[t] # NoRefresh /\ inflight'[t].at = "sent" /\ inflight'[t].result = 0
  <2>1. CASE refreshSession(t)
    BY <2>1, RefreshAsked
  <2>2. CASE inflight' = inflight
    BY <2>2 DEF IInv, Typed, TabsTyped
  <2>. QED
    BY <1>1, <2>1, <2>2
<1>. USE DEF IInv, Typed, Control, Fresh
<1>3. /\ token' \in [Tabs -> 0..Len(signed)]
      /\ \A u \in Tabs : u # t => token'[u] = token[u]
      /\ token'[t] = 0 \/ token'[t] = token[t]
      /\ inflight' = inflight \/ token' = token
  BY <1>1, Numbers DEF TabsTyped
<1>4. /\ channel' \in [Tabs -> Seq({"login", "logout"})]
      /\ \A u \in Tabs : u # t => channel'[u] = channel[u]
  <2>1. Tail(channel[t]) \in Seq({"login", "logout"})
    BY <1>1, HeadTailProperties DEF TabsTyped
  <2>. QED
    BY <1>1, <2>1 DEF TabsTyped
<1>5. Typed'
  <2>1. ServerTyped'
    BY <1>1 DEF ServerTyped
  <2>2. RequestType' = RequestType /\ RefreshType' = RefreshType
    BY <1>1 DEF RequestType, RefreshType
  <2>3. TabsTyped'
    BY <1>1, <1>2, <1>3, <1>4, <2>2 DEF TabsTyped
  <2>. QED
    BY <2>1, <2>3
<1>6. \A u \in Tabs : Refreshing(u) => inflight'[u] # NoRefresh
  BY <1>2 DEF Refreshing
<1>7. Control'
  <2>1. bootstrap[t] # "idle"
    BY <1>1 DEF TabControl
  <2>2. \A u \in Tabs : TabControl(u)'
    BY <1>1, <1>2, <1>4, <1>6, <2>1 DEF TabControl, Refreshing
  <2>3. \A j \in Requests : RequestControl(j)'
    BY <1>1, <1>6, RequestsAssumption DEF RequestControl, Refreshing
  <2>. QED
    BY <2>2, <2>3
<1>8. Fresh'
  <2>1. 0 \notin renewed[t]
    BY Numbers DEF TabsTyped
  <2>2. \A u \in Tabs : TabFresh(u)'
    BY <1>1, <1>2, <1>3, <2>1 DEF TabFresh, Refreshing
  <2>3. \A u \in Tabs : inflight'[u] = inflight[u] \/ inflight'[u].at = "sent"
    BY <1>2
  <2>4. \A j \in Requests : LoggedIn(j)' => LoggedIn(j)
    BY <1>1 DEF LoggedIn
  <2>5. \A j \in Requests : LoginFresh(j)'
    BY <1>1, <1>3, <2>3, <2>4, RequestsAssumption DEF LoginFresh
  <2>6. \A j \in Requests : QueryFresh(j)'
    BY <1>1, <2>3, RequestsAssumption DEF QueryFresh
  <2>. QED
    BY <1>1, <2>2, <2>5, <2>6
<1>. QED
  BY <1>5, <1>7, <1>8

LEMMA ReloadKeeps ==
  ASSUME IInv, NEW t \in Tabs, Reload(t)
  PROVE  IInv'
<1>. USE DEF IInv, Typed, Control, Fresh
<1>1. /\ reloads < MaxReloads /\ reloads' = reloads + 1
      /\ token' = [token EXCEPT ![t] = 0]
      /\ bootstrap' = [bootstrap EXCEPT ![t] = "idle"]
      /\ inflight' = [inflight EXCEPT ![t] = NoRefresh]
      /\ request' = [k \in Requests |-> IF TabOf[k] = t THEN NoRequest ELSE request[k]]
      /\ channel' = [channel EXCEPT ![t] = <<>>]
      /\ UNCHANGED <<cookie, live, opened, signed, expired, renewed, twice>>
  BY DEF Reload, server, past
<1>2. NoRequest \in RequestType /\ NoRequest.at = "idle" /\ NoRequest.used = 0
  BY Numbers DEF NoRequest, RequestType, Kinds
<1>3. /\ token' \in [Tabs -> 0..Len(signed)] /\ token'[t] = 0
      /\ bootstrap' \in [Tabs -> {"idle", "pending", "done"}] /\ bootstrap'[t] = "idle"
      /\ inflight' \in [Tabs -> RefreshType] /\ inflight'[t] = NoRefresh
      /\ NoRefresh.at = "none"
      /\ \A u \in Tabs : u # t => /\ token'[u] = token[u] /\ bootstrap'[u] = bootstrap[u]
                                  /\ inflight'[u] = inflight[u] /\ channel'[u] = channel[u]
  BY <1>1, Numbers, FetchTyped DEF TabsTyped
<1>4. channel' \in [Tabs -> Seq({"login", "logout"})] /\ channel'[t] = <<>>
  <2>1. <<>> \in Seq({"login", "logout"})
    BY EmptySeq
  <2>. QED
    BY <1>1, <2>1 DEF TabsTyped
<1>5. /\ request' \in [Requests -> RequestType]
      /\ \A k \in Requests : request'[k] = IF TabOf[k] = t THEN NoRequest ELSE request[k]
  BY <1>1, <1>2 DEF TabsTyped
<1>6. Typed'
  <2>1. ServerTyped'
    BY <1>1, BoundsAssumption DEF ServerTyped
  <2>2. RequestType' = RequestType /\ RefreshType' = RefreshType
    BY <1>1 DEF RequestType, RefreshType
  <2>3. TabsTyped'
    BY <1>1, <1>3, <1>4, <1>5, <2>2 DEF TabsTyped
  <2>. QED
    BY <2>1, <2>3
<1>7. Control'
  <2>1. \A u \in Tabs : TabControl(u)'
    BY <1>3, <1>4 DEF TabControl, Refreshing
  <2>2. \A k \in Requests : RequestControl(k)'
    BY <1>2, <1>3, <1>5, RequestsAssumption DEF RequestControl, Refreshing
  <2>. QED
    BY <2>1, <2>2
<1>8. Fresh'
  <2>1. 0 \notin renewed[t]
    BY Numbers DEF TabsTyped
  <2>2. \A u \in Tabs : TabFresh(u)'
    BY <1>1, <1>3, <2>1 DEF TabFresh, Refreshing
  <2>3. \A k \in Requests : LoggedIn(k)' => TabOf[k] # t /\ request'[k] = request[k] /\ LoggedIn(k)
    BY <1>2, <1>5 DEF LoggedIn
  <2>4. \A k \in Requests : LoginFresh(k)'
    BY <1>1, <1>3, <2>3, RequestsAssumption DEF LoginFresh
  <2>5. \A k \in Requests : QueryFresh(k)'
    BY <1>3, <1>5, RequestsAssumption DEF QueryFresh
  <2>. QED
    BY <1>1, <2>2, <2>4, <2>5
<1>. QED
  BY <1>6, <1>7, <1>8

LEMMA ExpireKeeps ==
  ASSUME IInv, NEW n \in Tokens, Expire(n)
  PROVE  IInv'
<1>. USE DEF IInv, Typed, Control, Fresh
<1>1. /\ n <= Len(signed) /\ expired' = expired \cup {n}
      /\ UNCHANGED <<cookie, live, opened, signed, token, bootstrap, inflight, request,
                     channel, renewed, twice, reloads>>
  BY DEF Expire, tabs, past
<1>2. Typed'
  BY <1>1, Numbers DEF ServerTyped, TabsTyped, RequestType, RefreshType, Tokens
<1>3. Control'
  BY <1>1 DEF TabControl, RequestControl, Refreshing
<1>4. Fresh'
  BY <1>1 DEF TabFresh, LoginFresh, QueryFresh, LoggedIn, Refreshing
<1>. QED
  BY <1>2, <1>3, <1>4

LEMMA StutterKeeps == IInv /\ UNCHANGED vars => IInv'
BY DEF IInv, Typed, Control, Fresh, vars, server, tabs, past, ServerTyped, TabsTyped, RequestType,
       RefreshType, TabControl, RequestControl, TabFresh, LoginFresh, QueryFresh, LoggedIn, Refreshing

\* Whatever happens next, the invariant holds.
LEMMA NextKeeps == IInv /\ [Next]_vars => IInv'
<1> SUFFICES ASSUME IInv, [Next]_vars PROVE IInv'
  OBVIOUS
<1>1. ASSUME NEW t \in Tabs,
             Bootstrap(t) \/ ServeRefresh(t) \/ RefreshBack(t) \/ Receive(t) \/ Reload(t)
      PROVE  IInv'
  BY <1>1, BootstrapKeeps, ServeRefreshKeeps, RefreshBackKeeps, ReceiveKeeps, ReloadKeeps
<1>2. ASSUME NEW k \in Requests, Answer(k)
      PROVE  IInv'
  <2>1. CASE QueryBack(k)
    BY <2>1, QueryBackKeeps DEF QueryBack
  <2>. QED
    BY <1>2, <2>1, ServeKeeps, RefusedKeeps, LoginBackKeeps, LogoutBackKeeps DEF Answer
<1>3. ASSUME NEW k \in Requests, NEW kind \in KindsOf[k], Ask(k, kind)
      PROVE  IInv'
  BY <1>3, RequestsAssumption, AskKeeps
<1>4. ASSUME NEW n \in Tokens, Expire(n)
      PROVE  IInv'
  BY <1>4, ExpireKeeps
<1>. QED
  BY <1>1, <1>2, <1>3, <1>4, StutterKeeps DEF Next

LEMMA Invariant == Spec => []IInv
BY InitHolds, NextKeeps, PTL DEF Spec

(***************************************************************************)
(* The theorems                                                            *)
(***************************************************************************)
\* Types, and who waits for whom: nothing waits for a refresh that is not under
\* way, and nothing is sent before the tab has restored its session.
THEOREM TypesHold == Spec => []TypeOK
<1>1. IInv => TypeOK
  <2> SUFFICES ASSUME IInv PROVE TypeOK
    OBVIOUS
  <2>1. renewed \in [Tabs -> SUBSET Tokens]
    BY Numbers, BoundsAssumption DEF IInv, Typed, ServerTyped, TabsTyped, Tokens
  <2>. QED
    BY <2>1 DEF IInv, Typed, Control, ServerTyped, TabsTyped, RequestType, RefreshType,
                TabControl, RequestControl, TypeOK
<1>. QED
  BY <1>1, Invariant, PTL

\* A tab asks for a new token once for each token that was refused, whatever the
\* order in which refusals, refreshes, logins and messages of other tabs arrive.
THEOREM NothingIsRenewedTwice == Spec => []OneRefreshPerToken
<1>1. IInv => OneRefreshPerToken
  BY DEF IInv, Fresh, OneRefreshPerToken
<1>. QED
  BY <1>1, Invariant, PTL

\* A refused request is repeated only with another token than it was refused with,
\* because what a refresh brings is younger than every token a query was sent with.
THEOREM RetriesHaveNewTokens == Spec => RetryHasNewToken
<1>. DEFINE New(k) == /\ request[k].kind = "query" /\ request[k].used # 0 /\ request[k].at # "sent"
                      /\ request'[k].at = "sent"
                      => request'[k].used # request[k].used
<1>1. ASSUME IInv, [Next]_vars PROVE \A k \in Requests : New(k)
  <2>. TAKE k \in Requests
  <2>0. PICK t \in Tabs : t = TabOf[k]
    BY RequestsAssumption
  <2>1. /\ NoRequest.at = "idle" /\ NoRequest.used = 0
        /\ request \in [Requests -> RequestType] /\ token \in [Tabs -> 0..Len(signed)]
        /\ inflight \in [Tabs -> RefreshType]
    BY <1>1 DEF IInv, Typed, TabsTyped, NoRequest
  <2>2. request'[k] = request[k] => New(k)
    OBVIOUS
  <2>3. request'[k] = NoRequest => New(k)
    BY <2>1
  <2>4. ASSUME NEW u \in Tabs, RefreshBack(u) PROVE New(k)
    <3>1. /\ inflight[u].at = "back" /\ inflight[u].result \in 0..Len(signed)
          /\ request' = Resumed(u, inflight[u].result, cookie')
      BY <2>1, <2>4 DEF RefreshBack, RefreshType
    <3>2. CASE request'[k] = request[k] \/ request'[k] = NoRequest
      BY <2>2, <2>3, <3>2
    <3>3. CASE TabOf[k] = u /\ request'[k] = Sent(request[k], inflight[u].result, cookie')
      <4>1. request'[k].used = inflight[u].result
        BY <2>1, <3>3 DEF Sent, RequestType
      <4>2. QueryFresh(k)
        BY <1>1 DEF IInv, Fresh
      <4>. QED
        BY <3>1, <3>3, <4>1, <4>2 DEF QueryFresh
    <3>. QED
      BY <3>1, <3>2, <3>3 DEF Resumed
  <2>5. ASSUME NEW j \in Requests, Refused(j) PROVE New(k)
    <3>1. CASE j # k
      BY <2>1, <2>2, <2>5, <3>1 DEF Refused
    <3>2. CASE j = k
      <4>1. CASE Refreshing(t) \/ token[t] = request[k].used
        <5>1. \/ request'[k] = [request[k] EXCEPT !.at = "waiting", !.retry = TRUE]
              \/ request'[k] = [request[k] EXCEPT !.at = "renewing", !.retry = TRUE]
          BY <2>0, <2>1, <2>5, <3>2, <4>1 DEF Refused
        <5>2. request'[k].at # "sent"
          BY <2>1, <5>1 DEF RequestType
        <5>. QED
          BY <5>2
      <4>2. CASE ~Refreshing(t) /\ token[t] # request[k].used
        <5>1. request'[k] = Sent([request[k] EXCEPT !.retry = TRUE], token[t], cookie)
          BY <2>0, <2>1, <2>5, <3>2, <4>2 DEF Refused
        <5>2. request'[k].used = token[t]
          BY <2>1, <5>1 DEF Sent, RequestType
        <5>. QED
          BY <4>2, <5>2
      <4>. QED
        BY <4>1, <4>2
    <3>. QED
      BY <3>1, <3>2
  <2>6. ASSUME NEW j \in Requests, Serve(j) PROVE New(k)
    BY <2>1, <2>2, <2>6 DEF Serve
  <2>7. ASSUME NEW j \in Requests, QueryBack(j) \/ LoginBack(j) \/ LogoutBack(j) PROVE New(k)
    <3>1. request' = [request EXCEPT ![j] = NoRequest]
      BY <2>7 DEF QueryBack, LoginBack, LogoutBack, Done
    <3>. QED
      BY <2>1, <2>2, <2>3, <3>1
  <2>8. ASSUME NEW j \in Requests, NEW kind \in KindsOf[j], Ask(j, kind) PROVE New(k)
    <3>1. request[j] = NoRequest /\ (j # k => request'[k] = request[k])
      BY <2>1, <2>8 DEF Ask
    <3>. QED
      BY <2>1, <2>2, <3>1
  <2>9. ASSUME NEW u \in Tabs, Bootstrap(u) \/ ServeRefresh(u) \/ Receive(u) PROVE New(k)
    <3>1. request' = request
      BY <2>9 DEF Bootstrap, ServeRefresh, Receive
    <3>. QED
      BY <2>2, <3>1
  <2>10. ASSUME NEW u \in Tabs, Reload(u) PROVE New(k)
    BY <2>2, <2>3, <2>10 DEF Reload
  <2>11. ASSUME UNCHANGED vars \/ \E n \in Tokens : Expire(n) PROVE New(k)
    <3>1. request' = request
      BY <2>11 DEF vars, tabs, Expire
    <3>. QED
      BY <2>2, <3>1
  <2>. HIDE DEF New
  <2>. QED
    BY <1>1, <2>4, <2>5, <2>6, <2>7, <2>8, <2>9, <2>10, <2>11 DEF Next, Answer
<1>2. (\A k \in Requests : New(k)) =>
        \A k \in Requests :
          LET r == request[k] IN
          r.kind = "query" /\ r.used # 0 /\ r.at # "sent" /\ request'[k].at = "sent"
          => request'[k].used # r.used
  OBVIOUS
<1>3. IInv /\ [Next]_vars =>
        [\A k \in Requests :
          LET r == request[k] IN
          r.kind = "query" /\ r.used # 0 /\ r.at # "sent" /\ request'[k].at = "sent"
          => request'[k].used # r.used]_vars
  BY <1>1, <1>2
<1>. QED
  BY <1>3, Invariant, PTL DEF Spec, RetryHasNewToken
=============================================================================
