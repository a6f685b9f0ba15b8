--------------------------- MODULE RefreshTokens ---------------------------
(***************************************************************************)
(* The sessions of one user: login, rotation of refresh tokens with its    *)
(* grace period and reuse detection, logout, logout everywhere             *)
(* (auth.service.ts and the handlers of auth.controller.ts) and the        *)
(* scheduled removal of old rows.  Every await of the service is a point   *)
(* where other calls run and where the call may die.                       *)
(*                                                                         *)
(* getTokens signs an access and a refresh token together: both are the    *)
(* pair's number, so tokenHash and accessJti of a row are one field.  A    *)
(* row has the number of the pair it was created with.  Both tokens carry  *)
(* the user's id and the refresh token its family (signed, so a row of the *)
(* family is a row of the user); users are never deleted by this code.     *)
(* Time passes in ticks; instead of absolute instants the model keeps how  *)
(* long ago each was, up to the largest threshold it is compared with.     *)
(***************************************************************************)
EXTENDS Naturals, FiniteSets

CONSTANTS
  Families,    \* familyId, one per login; each is also one browser
  NoFamily,    \* a pair not signed yet
  Calls,       \* refresh and logout-all calls being served
  Grace,       \* GRACE_PERIOD_MS, in ticks
  Margin,      \* OPERATIONAL_MARGIN_MS
  Retention,   \* REUSE_DETECTED_RETENTION_MS
  AccessTTL,   \* ACCESS_TOKEN_TTL_SECONDS
  RefreshTTL,  \* REFRESH_TOKEN_TTL_MS
  MaxPairs,    \* bound: pairs signed
  MaxFaults    \* bound: calls that die, answers lost, failed writes

ASSUME NumbersAssumption ==
  {Grace, Margin, Retention, AccessTTL, RefreshTTL, MaxPairs, MaxFaults} \subseteq Nat
\* GRACE < MARGIN < ACCESS < REFRESH = RETENTION in the code
ASSUME ThresholdsAssumption ==
  /\ Grace < Margin /\ Grace <= Retention
  /\ Margin <= RefreshTTL /\ AccessTTL <= RefreshTTL
ASSUME NoFamilyAssumption == NoFamily \notin Families

Pairs == 1..MaxPairs

VARIABLES
  exists,   \* rows of table RefreshToken
  row,      \* their columns
  issued,   \* number of pairs signed
  family,   \* the familyId a pair was signed with
  age,      \* ticks since it was signed
  blocked,  \* blocklist:accessToken:{jti} in Redis
  at,       \* the await each call is at
  token,    \* the token it presented
  old,      \* activeSession, later currentRow
  new,      \* newRow, later the pair of the answer
  jtis,     \* liveSessions of logoutAllDevices
  cookie,   \* the refreshToken cookie of each browser, 0 when cleared
  held,     \* tokens that have reached their browser
  given,    \* tokens the service has answered with (history)
  ended,    \* how each family was first ended (history)
  faults    \* used up so far (bound)

table == <<exists, row>>
signed == <<issued, family, age>>
calls == <<at, token, old, new, jtis>>
client == <<cookie, held>>
past == <<given, ended>>
vars == <<table, signed, blocked, calls, client, past, faults>>

Live == "LIVE"
Reasons == {Live, "ROTATED", "LOGOUT", "REUSE_DETECTED"}

\* revokedReason (Live stands for revoked: false), revokedAt, supersededById, supersededAt
Row == [pair : Pairs, reason : Reasons, revokedFor : 0..Retention + 1,
        by : Pairs \cup {0}, supersededFor : 0..Grace + 1]

NewRow(p) == [pair |-> p, reason |-> Live, revokedFor |-> 0, by |-> 0, supersededFor |-> 0]

LiveRows(f) == {r \in exists : family[r] = f /\ row[r].reason = Live}

JwtValid(p) == age[p] <= RefreshTTL

\* JwtStrategy.validate: neither expired nor on the blocklist.  A blocklist
\* key lives AccessTTL from its revocation, the token not longer from before.
AccessOk(p) == age[p] <= AccessTTL /\ p \notin blocked

InGrace(r) == row[r].by # 0 /\ row[r].supersededFor <= Grace

Revoked(r, why) == [row[r] EXCEPT !.reason = why, !.revokedFor = 0]

\* updateMany { revoked: true, revokedAt: now, revokedReason: why }
Revoke(S, why) == row' = [r \in Pairs |-> IF r \in S THEN Revoked(r, why) ELSE row[r]]

End(S, how) == ended' = [f \in Families |-> IF f \in S /\ ended[f] = "no" THEN how ELSE ended[f]]

\* getTokens
Sign(f) ==
  /\ issued < MaxPairs
  /\ issued' = issued + 1
  /\ family' = [family EXCEPT ![issued + 1] = f]
  /\ UNCHANGED age

Goto(c, where) == at' = [at EXCEPT ![c] = where]

\* The call is over: nothing of it remains.
Finish(c) ==
  /\ Goto(c, "idle")
  /\ token' = [token EXCEPT ![c] = 0]
  /\ old' = [old EXCEPT ![c] = 0]
  /\ new' = [new EXCEPT ![c] = 0]
  /\ jtis' = [jtis EXCEPT ![c] = {}]

SetCookie(p) ==
  /\ cookie' = [cookie EXCEPT ![family[p]] = p]
  /\ held' = held \cup {p}

(***************************************************************************)
(* POST /auth/login and /auth/register: one row, one answer                *)
(***************************************************************************)
\* The handlers set the cookie of the browser that asked; the answer may be lost.
Welcome(f, p) ==
  \/ /\ cookie' = [cookie EXCEPT ![f] = p]
     /\ held' = held \cup {p}
     /\ UNCHANGED faults
  \/ /\ faults < MaxFaults
     /\ faults' = faults + 1
     /\ UNCHANGED client

\* createRefreshTokenSession under a new familyId
Login(f) ==
  LET p == issued + 1 IN
  /\ \A q \in 1..issued : family[q] # f
  /\ Sign(f)
  /\ exists' = exists \cup {p}
  /\ row' = [row EXCEPT ![p] = NewRow(p)]
  /\ given' = given \cup {p}
  /\ Welcome(f, p)
  /\ UNCHANGED <<blocked, calls, ended>>

(***************************************************************************)
(* POST /auth/refresh: AuthController.refresh and AuthService.refreshTokens *)
(***************************************************************************)
\* The JWT is verified and the user found.
StartRefresh(c, p) ==
  /\ at[c] = "idle"
  /\ p \in held /\ JwtValid(p)
  /\ token' = [token EXCEPT ![c] = p]
  /\ Goto(c, "find")
  /\ UNCHANGED <<table, signed, blocked, old, new, jtis, client, past, faults>>

\* findFirst { familyId, revoked: false } has no order: any live row.
FindActive(c) ==
  LET f == family[token[c]] IN
  /\ at[c] = "find"
  /\ \/ /\ LiveRows(f) = {}
        /\ Goto(c, "lookup")
        /\ UNCHANGED old
     \/ \E r \in LiveRows(f) :
          IF row[r].pair = token[c]
            THEN Goto(c, "create") /\ old' = [old EXCEPT ![c] = r]
            ELSE Goto(c, "lookup") /\ UNCHANGED old
  /\ UNCHANGED <<table, signed, blocked, token, new, jtis, client, past, faults>>

\* getTokens and createRefreshTokenSession, before the old row is claimed.
CreateRow(c) ==
  LET p == issued + 1 IN
  /\ at[c] = "create"
  /\ Sign(family[token[c]])
  /\ exists' = exists \cup {p}
  /\ row' = [row EXCEPT ![p] = NewRow(p)]
  /\ new' = [new EXCEPT ![c] = p]
  /\ Goto(c, "claim")
  /\ UNCHANGED <<blocked, token, old, jtis, client, past, faults>>

Superseded(r, n) ==
  [pair |-> row[r].pair, reason |-> "ROTATED", revokedFor |-> 0, by |-> n, supersededFor |-> 0]

\* Mutant: the claim updates the row by its id alone.
Claim_Unconditional(c) ==
  /\ at[c] = "claim"
  /\ row' = [row EXCEPT ![old[c]] = Superseded(old[c], new[c])]
  /\ given' = given \cup {new[c]}
  /\ Goto(c, "answer")
  /\ UNCHANGED <<exists, signed, blocked, token, old, new, jtis, client, ended, faults>>

\* Mutant: the claim names the family instead of the row, and takes its own.
Claim_WholeFamily(c) ==
  /\ at[c] = "claim"
  /\ IF old[c] \in exists /\ row[old[c]].reason = Live
       THEN /\ row' = [r \in Pairs |-> IF r \in LiveRows(family[token[c]])
                                       THEN Superseded(r, new[c]) ELSE row[r]]
            /\ given' = given \cup {new[c]}
            /\ Goto(c, "answer")
       ELSE /\ Goto(c, "undo")
            /\ UNCHANGED <<row, given>>
  /\ UNCHANGED <<exists, signed, blocked, token, old, new, jtis, client, ended, faults>>

\* updateMany { id, revoked: false }: the winner answers, a loser undoes.
Claim(c) ==
  /\ at[c] = "claim"
  /\ IF old[c] \in exists /\ row[old[c]].reason = Live
       THEN /\ row' = [row EXCEPT ![old[c]] = Superseded(old[c], new[c])]
            /\ given' = given \cup {new[c]}
            /\ Goto(c, "answer")
       ELSE /\ Goto(c, "undo")
            /\ UNCHANGED <<row, given>>
  /\ UNCHANGED <<exists, signed, blocked, token, old, new, jtis, client, ended, faults>>

\* Mutant: the loser deletes the row of the winner.
Undo_DeletesWinner(c) ==
  /\ at[c] = "undo"
  /\ exists' = exists \ {row[old[c]].by}
  /\ new' = [new EXCEPT ![c] = 0]
  /\ Goto(c, "lookup")
  /\ UNCHANGED <<row, signed, blocked, token, old, jtis, client, past, faults>>

\* delete { id: newRow.id } throws when the row has gone.
Undo(c) ==
  /\ at[c] = "undo"
  /\ IF new[c] \in exists
       THEN /\ exists' = exists \ {new[c]}
            /\ row' = [row EXCEPT ![new[c]] = NewRow(new[c])]
            /\ Goto(c, "lookup")
            /\ new' = [new EXCEPT ![c] = 0]
            /\ old' = [old EXCEPT ![c] = 0]
            /\ UNCHANGED <<token, jtis>>
       ELSE Finish(c) /\ UNCHANGED table
  /\ UNCHANGED <<signed, blocked, client, past, faults>>

\* Rows a presented token was rotated away from, or logged out with.
RevokedRows(p) ==
  {r \in exists : family[r] = family[p] /\ row[r].reason # Live /\ row[r].pair = p}

\* findFirst { revoked: true, tokenHash }: grace, reuse, or Access Denied.
Lookup(c) ==
  /\ at[c] = "lookup"
  /\ \/ RevokedRows(token[c]) = {} /\ Finish(c)
     \/ \E r \in RevokedRows(token[c]) :
          /\ IF InGrace(r)
               THEN Goto(c, "current") /\ old' = [old EXCEPT ![c] = row[r].by]
               ELSE Goto(c, "reuse") /\ UNCHANGED old
          /\ UNCHANGED <<token, new, jtis>>
  /\ UNCHANGED <<table, signed, blocked, client, past, faults>>

\* findUnique { id: supersededById }
ReadCurrent(c) ==
  /\ at[c] = "current"
  /\ IF old[c] \in exists /\ row[old[c]].reason = Live
       THEN Goto(c, "reissue") /\ UNCHANGED old
       ELSE Goto(c, "reuse") /\ old' = [old EXCEPT ![c] = 0]
  /\ UNCHANGED <<table, signed, blocked, token, new, jtis, client, past, faults>>

\* Mutant: the retry brings a row revoked in the meantime back to life.
Reissue_Revives(c) ==
  LET p == issued + 1 IN
  /\ at[c] = "reissue"
  /\ old[c] \in exists
  /\ Sign(family[token[c]])
  /\ row' = [row EXCEPT ![old[c]].pair = p, ![old[c]].reason = Live]
  /\ given' = given \cup {p}
  /\ new' = [new EXCEPT ![c] = p]
  /\ Goto(c, "answer")
  /\ UNCHANGED <<exists, blocked, token, old, jtis, client, ended, faults>>

\* getTokens, then update { id } { tokenHash, accessJti }: the retry takes
\* the row over whether or not it has been revoked in the meantime.
Reissue(c) ==
  LET p == issued + 1 IN
  /\ at[c] = "reissue"
  /\ IF old[c] \in exists
       THEN /\ Sign(family[token[c]])
            /\ row' = [row EXCEPT ![old[c]].pair = p]
            /\ given' = given \cup {p}
            /\ new' = [new EXCEPT ![c] = p]
            /\ Goto(c, "answer")
            /\ UNCHANGED <<token, old, jtis>>
       ELSE Finish(c) /\ UNCHANGED <<row, signed, given>>
  /\ UNCHANGED <<exists, blocked, client, ended, faults>>

\* Reuse detected: every row of the family, 401.
Reuse(c) ==
  LET f == family[token[c]] IN
  /\ at[c] = "reuse"
  /\ Revoke({r \in exists : family[r] = f}, "REUSE_DETECTED")
  /\ End({f}, "reuse")
  /\ Finish(c)
  /\ UNCHANGED <<exists, signed, blocked, client, given, faults>>

\* The answer reaches the browser, which keeps the last cookie set.
Answer(c) ==
  /\ at[c] = "answer"
  /\ SetCookie(new[c])
  /\ Finish(c)
  /\ UNCHANGED <<table, signed, blocked, past, faults>>

(***************************************************************************)
(* POST /auth/logout and /auth/logout-all                                  *)
(***************************************************************************)
\* The cookie is cleared in any case; a verified one also ends its family.
\* The handler swallows every error of the update.
Logout(f) ==
  /\ cookie[f] # 0
  /\ cookie' = [cookie EXCEPT ![f] = 0]
  /\ \/ /\ JwtValid(cookie[f])
        /\ Revoke(LiveRows(f), "LOGOUT")
        /\ End({f}, "logout")
        /\ UNCHANGED faults
     \/ /\ ~JwtValid(cookie[f])
        /\ UNCHANGED <<row, ended, faults>>
     \/ /\ faults < MaxFaults
        /\ faults' = faults + 1
        /\ UNCHANGED <<row, ended>>
  /\ UNCHANGED <<exists, signed, blocked, calls, held, given>>

\* AuthGuard('jwt'), then findMany { userId, revoked: false }.
StartLogoutAll(c, p) ==
  /\ at[c] = "idle"
  /\ p \in held /\ AccessOk(p)
  /\ token' = [token EXCEPT ![c] = p]
  /\ jtis' = [jtis EXCEPT ![c] = {row[r].pair : r \in {q \in exists : row[q].reason = Live}}]
  /\ Goto(c, "revokeAll")
  /\ UNCHANGED <<table, signed, blocked, old, new, client, past, faults>>

RevokeAll(c) ==
  /\ at[c] = "revokeAll"
  /\ Revoke({r \in exists : row[r].reason = Live}, "LOGOUT")
  /\ End({family[p] : p \in 1..issued}, "all")
  /\ Goto(c, "block")
  /\ UNCHANGED <<exists, signed, blocked, token, old, new, jtis, client, given, faults>>

\* clearCookie comes first: whatever becomes of the rest, an answer clears it.
Cleared(c) == [cookie EXCEPT ![family[token[c]]] = 0]

\* Promise.all of the blocklist writes; some may fail, the answer is then 500.
Block(c) ==
  /\ at[c] = "block"
  /\ \/ /\ blocked' = blocked \cup jtis[c]
        /\ cookie' = Cleared(c)
        /\ UNCHANGED faults
     \/ /\ faults < MaxFaults
        /\ \E B \in SUBSET jtis[c] : blocked' = blocked \cup B
        /\ cookie' \in {cookie, Cleared(c)}
        /\ faults' = faults + 1
  /\ Finish(c)
  /\ UNCHANGED <<table, signed, held, past>>

(***************************************************************************)
(* Faults, the scheduled task, time                                        *)
(***************************************************************************)
\* A call dies at an await: its process ends, a query fails, its answer is lost.
\* The 500 of a failed query of logoutAllDevices still clears the cookie.
Fail(c) ==
  /\ at[c] # "idle"
  /\ faults < MaxFaults
  /\ faults' = faults + 1
  /\ cookie' \in IF at[c] = "revokeAll" THEN {cookie, Cleared(c)} ELSE {cookie}
  /\ Finish(c)
  /\ UNCHANGED <<table, signed, blocked, held, past>>

\* Mutant: revoked rows are removed at once.
Stale_NoMargin(r) ==
  \/ age[r] > RefreshTTL
  \/ row[r].reason \in {"ROTATED", "LOGOUT"}
  \/ row[r].reason = "REUSE_DETECTED" /\ row[r].revokedFor > Retention

\* expiresAt is set when the row is created and never extended.
Stale(r) ==
  \/ age[r] > RefreshTTL
  \/ row[r].reason \in {"ROTATED", "LOGOUT"} /\ row[r].revokedFor > Margin
  \/ row[r].reason = "REUSE_DETECTED" /\ row[r].revokedFor > Retention

\* CleanupRefreshTokensTask: one deleteMany; a failed run changes nothing.
Cleanup ==
  LET gone == {r \in exists : Stale(r)} IN
  /\ gone # {}
  /\ exists' = exists \ gone
  /\ row' = [r \in Pairs |-> IF r \in gone THEN NewRow(r) ELSE row[r]]
  /\ UNCHANGED <<signed, blocked, calls, client, past, faults>>

Older(n, top) == IF n < top THEN n + 1 ELSE n

Tick ==
  /\ age' = [p \in Pairs |-> IF p <= issued THEN Older(age[p], RefreshTTL + 1) ELSE 0]
  /\ row' = [r \in Pairs |-> [row[r] EXCEPT
       !.revokedFor = IF row[r].reason = Live THEN @ ELSE Older(@, Retention + 1),
       !.supersededFor = IF row[r].by = 0 THEN @ ELSE Older(@, Grace + 1)]]
  /\ UNCHANGED <<exists, issued, family, blocked, calls, client, past, faults>>

Init ==
  /\ exists = {}
  /\ row = [r \in Pairs |-> NewRow(r)]
  /\ issued = 0
  /\ family = [p \in Pairs |-> NoFamily]
  /\ age = [p \in Pairs |-> 0]
  /\ blocked = {}
  /\ at = [c \in Calls |-> "idle"]
  /\ token = [c \in Calls |-> 0]
  /\ old = [c \in Calls |-> 0]
  /\ new = [c \in Calls |-> 0]
  /\ jtis = [c \in Calls |-> {}]
  /\ cookie = [f \in Families |-> 0]
  /\ held = {}
  /\ given = {}
  /\ ended = [f \in Families |-> "no"]
  /\ faults = 0

Refresh(c) ==
  \/ FindActive(c) \/ CreateRow(c) \/ Claim(c) \/ Undo(c) \/ Lookup(c)
  \/ ReadCurrent(c) \/ Reissue(c) \/ Reuse(c) \/ Answer(c)

Next ==
  \/ \E f \in Families : Login(f) \/ Logout(f)
  \/ \E c \in Calls :
       \/ Refresh(c) \/ RevokeAll(c) \/ Block(c) \/ Fail(c)
       \/ \E p \in Pairs : StartRefresh(c, p) \/ StartLogoutAll(c, p)
  \/ Cleanup
  \/ Tick

Spec == Init /\ [][Next]_vars

-----------------------------------------------------------------------------
(***************************************************************************)
(* Properties                                                              *)
(***************************************************************************)
\* Types, and which locals a call has at each await: a row it created before
\* the claim, the row it takes over in the grace period, the pair it answers.
TypeOK ==
  /\ exists \subseteq 1..issued
  /\ row \in [Pairs -> Row]
  /\ issued \in 0..MaxPairs
  /\ family \in [Pairs -> Families \cup {NoFamily}]
  /\ \A p \in Pairs : family[p] = NoFamily <=> p > issued
  /\ age \in [Pairs -> 0..RefreshTTL + 1]
  /\ blocked \subseteq Pairs
  /\ at \in [Calls -> {"idle", "find", "create", "claim", "undo", "lookup", "current",
                       "reissue", "reuse", "answer", "revokeAll", "block"}]
  /\ token \in [Calls -> 0..MaxPairs] /\ old \in [Calls -> 0..MaxPairs]
  /\ new \in [Calls -> 0..MaxPairs] /\ jtis \in [Calls -> SUBSET Pairs]
  /\ \A c \in Calls : /\ at[c] = "idle" <=> token[c] = 0
                      /\ at[c] \in {"create", "claim", "undo", "current", "reissue"} => old[c] # 0
                      /\ at[c] \in {"claim", "undo", "answer"} => new[c] # 0
  /\ cookie \in [Families -> 0..MaxPairs]
  /\ held \subseteq given /\ given \subseteq 1..issued
  /\ ended \in [Families -> {"no", "logout", "reuse", "all"}]
  /\ faults \in 0..MaxFaults

\* However many calls race with one token, and whichever of them die, a family
\* never has two tokens handed out that can both be refreshed: the claim of
\* refreshTokens is the only place where a session moves to a new row.
OneSessionPerFamily ==
  \A f \in Families : \A q, r \in LiveRows(f) :
    row[q].pair \in given /\ row[r].pair \in given => q = r

\* Once a logout, a logout everywhere or reuse detection has revoked a family,
\* no token ever handed out for it matches a live row again: a refresh that was
\* under way deletes or loses its row, a grace retry writes to a revoked one.
EndedSessionIsDead ==
  \A f \in Families : ended[f] # "no" =>
    \A r \in LiveRows(f) : row[r].pair \notin given

\* Inside the grace period the row that superseded a rotated one is there: it
\* was written before the claim, and the losers of the race delete their own.
WinnerIsVisible ==
  \A r \in exists : InGrace(r) =>
    row[r].by \in exists /\ family[row[r].by] = family[r]

SignedIn(f) == \E r \in LiveRows(f) : row[r].pair \in given

\* A session disappears only because it was ended or its row has expired; no
\* refresh, won or lost, dead half way or overtaken by the cleanup, loses it.  Nor
\* is a rotated row, which the retry of a second tab needs, lost within its grace.
NothingLostEarly ==
  [][/\ \A f \in Families : SignedIn(f) /\ ~SignedIn(f)' =>
          ended'[f] # "no" \/ \E r \in LiveRows(f) : age[r] > RefreshTTL
     /\ \A r \in exists : InGrace(r) /\ r \notin exists' => age[r] > RefreshTTL]_vars

\* SessionChain, with the one live row of a token handed out as the usable one.
Usable(f) ==
  IF SignedIn(f)
    THEN row[CHOOSE r \in LiveRows(f) : row[r].pair \in given].pair
    ELSE 0

Chain == INSTANCE SessionChain WITH
  usable <- [f \in Families |-> Usable(f)],
  opened <- {family[p] : p \in 1..issued}

\* Every behaviour of the service, seen from outside, is a chain of tokens.
ImplementsChain == Chain!Spec
=============================================================================
