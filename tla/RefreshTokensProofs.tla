------------------------ MODULE RefreshTokensProofs ------------------------
(***************************************************************************)
(* The safety properties of RefreshTokens hold, and its racing calls       *)
(* implement SessionChain, for every number of families, calls, pairs and  *)
(* faults.                                                                 *)
(***************************************************************************)
EXTENDS RefreshTokens, TLAPS

-----------------------------------------------------------------------------
(***************************************************************************)
(* The inductive invariant                                                 *)
(***************************************************************************)
\* TypeOK, taken apart: the rows, the pairs, the calls, and the rest.
TableOK == exists \subseteq 1..issued /\ row \in [Pairs -> Row]

SignedOK ==
  /\ issued \in 0..MaxPairs
  /\ family \in [Pairs -> Families \cup {NoFamily}]
  /\ \A p \in Pairs : family[p] = NoFamily <=> p > issued
  /\ age \in [Pairs -> 0..RefreshTTL + 1]

Awaits == {"idle", "find", "create", "claim", "undo", "lookup", "current",
           "reissue", "reuse", "answer", "revokeAll", "block"}

CallsOK ==
  /\ at \in [Calls -> Awaits]
  /\ token \in [Calls -> 0..MaxPairs] /\ old \in [Calls -> 0..MaxPairs]
  /\ new \in [Calls -> 0..MaxPairs] /\ jtis \in [Calls -> SUBSET Pairs]

RestOK ==
  /\ blocked \subseteq Pairs
  /\ cookie \in [Families -> 0..MaxPairs]
  /\ held \subseteq given /\ given \subseteq 1..issued
  /\ ended \in [Families -> {"no", "logout", "reuse", "all"}]
  /\ faults \in 0..MaxFaults

\* What each await knows: the token presented was handed out, the row about to be
\* claimed or taken over was claimed before, a new row is nobody's yet.
CallOK(c) ==
  /\ at[c] = "idle" <=> token[c] = 0
  /\ at[c] # "idle" => token[c] \in given
  /\ at[c] \in {"create", "claim"} => old[c] \in given /\ family[old[c]] = family[token[c]]
  /\ at[c] = "undo" => old[c] # 0
  /\ at[c] \in {"current", "reissue"} => old[c] \in given
  /\ at[c] \in {"claim", "undo"} =>
       new[c] \in 1..issued /\ new[c] \notin given /\ family[new[c]] = family[token[c]]
  /\ at[c] = "answer" => new[c] \in given

\* No two calls hold the same unclaimed row.
Apart(c, d) ==
  c # d /\ at[c] \in {"claim", "undo"} /\ at[d] \in {"claim", "undo"} => new[c] # new[d]

\* A row has been claimed (or opened by a login) exactly when its pair is handed
\* out; an unclaimed one still has the pair it was created with.
RowOK(r) ==
  /\ \/ r \in given /\ row[r].pair \in given
     \/ r \notin given /\ row[r].pair = r
  /\ row[r].by # 0 => row[r].by \in given

CookieOK(f) == cookie[f] # 0 => cookie[f] \in 1..issued /\ family[cookie[f]] = f

\* A claimed live row
Claimed(r) == r \in exists /\ r \in given /\ row[r].reason = Live

OneClaimed(q, r) == Claimed(q) /\ Claimed(r) /\ family[q] = family[r] => q = r

EndedOK(f) ==
  ended[f] # "no" => /\ \E p \in 1..issued : family[p] = f
                     /\ \A r \in Pairs : Claimed(r) => family[r] # f

Shape == TableOK /\ SignedOK /\ CallsOK /\ RestOK

Inv ==
  /\ Shape
  /\ \A c \in Calls : CallOK(c)
  /\ \A c, d \in Calls : Apart(c, d)
  /\ \A r \in Pairs : RowOK(r)
  /\ \A f \in Families : CookieOK(f)
  /\ \A q, r \in Pairs : OneClaimed(q, r)
  /\ \A f \in Families : EndedOK(f)

-----------------------------------------------------------------------------
(***************************************************************************)
(* The values written to a row                                             *)
(***************************************************************************)
LEMMA Numbers ==
  /\ Grace \in Nat /\ Margin \in Nat /\ Retention \in Nat /\ RefreshTTL \in Nat
  /\ AccessTTL \in Nat /\ MaxPairs \in Nat /\ MaxFaults \in Nat
BY NumbersAssumption

\* The claim writes the row's supersession and keeps its pair.
LEMMA SupersededRow ==
  ASSUME TableOK, NEW r \in Pairs, NEW n \in Pairs
  PROVE  /\ Superseded(r, n) \in Row
         /\ Superseded(r, n).pair = row[r].pair
         /\ Superseded(r, n).by = n
         /\ Superseded(r, n).reason = "ROTATED"
BY Numbers DEF Row, Superseded, Reasons, TableOK

LEMMA WithReason ==
  ASSUME NEW x \in Row, NEW why \in Reasons
  PROVE  [x EXCEPT !.reason = why] \in Row
BY DEF Row

LEMMA WithRevokedFor ==
  ASSUME NEW x \in Row, NEW n \in 0..Retention + 1
  PROVE  [x EXCEPT !.revokedFor = n] \in Row
BY DEF Row

LEMMA WithSupersededFor ==
  ASSUME NEW x \in Row, NEW n \in 0..Grace + 1
  PROVE  [x EXCEPT !.supersededFor = n] \in Row
BY DEF Row

LEMMA WithPair ==
  ASSUME NEW x \in Row, NEW p \in Pairs
  PROVE  /\ [x EXCEPT !.pair = p] \in Row
         /\ [x EXCEPT !.pair = p].pair = p
         /\ [x EXCEPT !.pair = p].by = x.by
         /\ [x EXCEPT !.pair = p].reason = x.reason
BY DEF Row

\* A revocation writes the reason and keeps the pair and the successor.
LEMMA RevokedRow ==
  ASSUME TableOK, NEW r \in Pairs, NEW why \in Reasons
  PROVE  /\ Revoked(r, why) \in Row
         /\ Revoked(r, why).pair = row[r].pair
         /\ Revoked(r, why).by = row[r].by
         /\ Revoked(r, why).reason = why
<1> DEFINE x == [row[r] EXCEPT !.reason = why]
<1>1. row[r] \in Row BY DEF TableOK
<1>2. x \in Row BY <1>1, WithReason
<1>3. Revoked(r, why) = [x EXCEPT !.revokedFor = 0] BY DEF Revoked
<1>4. 0 \in 0..Retention + 1 BY Numbers
<1>5. Revoked(r, why) \in Row
  <2> HIDE DEF x
  <2> QED BY <1>2, <1>3, <1>4, WithRevokedFor
<1>6. /\ Revoked(r, why).pair = row[r].pair
      /\ Revoked(r, why).by = row[r].by
      /\ Revoked(r, why).reason = why
  BY <1>1 DEF Revoked, Row
<1> QED BY <1>5, <1>6

\* Time leaves everything of a row but its two ages.
LEMMA AgedRow ==
  ASSUME NEW x \in Row, NEW m \in 0..Retention + 1, NEW n \in 0..Grace + 1
  PROVE  /\ [x EXCEPT !.revokedFor = m, !.supersededFor = n] \in Row
         /\ [x EXCEPT !.revokedFor = m, !.supersededFor = n].pair = x.pair
         /\ [x EXCEPT !.revokedFor = m, !.supersededFor = n].by = x.by
         /\ [x EXCEPT !.revokedFor = m, !.supersededFor = n].reason = x.reason
<1> DEFINE z == [x EXCEPT !.revokedFor = m]
           y == [x EXCEPT !.revokedFor = m, !.supersededFor = n]
<1>1. z \in Row BY WithRevokedFor
<1>2. y = [z EXCEPT !.supersededFor = n] OBVIOUS
<1>3. y \in Row
  <2> HIDE DEF z
  <2> QED BY <1>1, <1>2, WithSupersededFor
<1>4. y.pair = x.pair /\ y.by = x.by /\ y.reason = x.reason BY DEF Row
<1> QED BY <1>3, <1>4

\* A new row is live and has the pair of its number.
LEMMA FreshRow ==
  ASSUME NEW p \in Pairs
  PROVE  /\ NewRow(p) \in Row
         /\ NewRow(p).pair = p /\ NewRow(p).by = 0 /\ NewRow(p).reason = Live
BY Numbers DEF Row, NewRow, Reasons, Live, Pairs

\* The parts of the invariant make TypeOK.
LEMMA InvIsTyped == ASSUME Inv PROVE TypeOK
<1>1. \A c \in Calls : /\ at[c] = "idle" <=> token[c] = 0
                       /\ at[c] \in {"create", "claim", "undo", "current", "reissue"} => old[c] # 0
                       /\ at[c] \in {"claim", "undo", "answer"} => new[c] # 0
  <2> SUFFICES ASSUME NEW c \in Calls
               PROVE  /\ at[c] = "idle" <=> token[c] = 0
                      /\ at[c] \in {"create", "claim", "undo", "current", "reissue"} => old[c] # 0
                      /\ at[c] \in {"claim", "undo", "answer"} => new[c] # 0
    OBVIOUS
  <2>1. 0 \notin given BY DEF Inv, Shape, RestOK, SignedOK
  <2>2. CallOK(c) BY DEF Inv
  <2>3. at[c] \in {"claim", "undo"} => new[c] # 0 BY <2>2 DEF CallOK
  <2> QED BY <2>1, <2>2, <2>3 DEF CallOK
<1> QED BY <1>1 DEF Inv, Shape, TableOK, SignedOK, CallsOK, RestOK, TypeOK, Awaits

-----------------------------------------------------------------------------
(***************************************************************************)
(* What the steps have in common                                           *)
(***************************************************************************)
Same(d) == at'[d] = at[d] /\ token'[d] = token[d] /\ old'[d] = old[d] /\ new'[d] = new[d]

Holding(c) == at[c] \in {"claim", "undo"}

\* Goto moves one call.
LEMMA GotoStep ==
  ASSUME CallsOK, NEW c \in Calls, NEW w \in Awaits, Goto(c, w)
  PROVE  /\ at' \in [Calls -> Awaits]
         /\ at'[c] = w
         /\ \A d \in Calls : d # c => at'[d] = at[d]
BY DEF CallsOK, Goto

\* A call that is over has no locals, the others keep theirs.
LEMMA FinishStep ==
  ASSUME CallsOK, NEW c \in Calls, Finish(c)
  PROVE  /\ CallsOK'
         /\ at'[c] = "idle" /\ token'[c] = 0
         /\ \A d \in Calls : d # c => Same(d)
<1>1. "idle" \in Awaits BY DEF Awaits
<1>2. /\ at' \in [Calls -> Awaits] /\ at'[c] = "idle"
      /\ \A d \in Calls : d # c => at'[d] = at[d]
  BY <1>1, GotoStep DEF Finish
<1>3. 0 \in 0..MaxPairs BY Numbers
<1> QED BY <1>2, <1>3 DEF Finish, CallsOK, Same

\* A call keeps what it knows when the others sign and hand out more pairs,
\* unless the pair of its own unclaimed row is handed out.
LEMMA CallFrame ==
  ASSUME Inv, NEW d \in Calls, Same(d),
         given \subseteq given', 1..issued \subseteq 1..issued',
         \A p \in 1..issued : family'[p] = family[p],
         Holding(d) => new[d] \notin given'
  PROVE  CallOK(d)'
<1>1. CallOK(d) BY DEF Inv
<1>2. \A p \in given : p \in given' /\ p \in 1..issued /\ family'[p] = family[p]
  BY DEF Inv, Shape, RestOK
<1>3. at[d] \in {"create", "claim"} =>
        old[d] \in given' /\ family'[old[d]] = family'[token[d]]
  BY <1>1, <1>2 DEF CallOK
<1>4. at[d] \in {"claim", "undo"} =>
        new[d] \in 1..issued' /\ new[d] \notin given' /\ family'[new[d]] = family'[token[d]]
  <2> SUFFICES ASSUME at[d] \in {"claim", "undo"}
               PROVE  new[d] \in 1..issued' /\ new[d] \notin given'
                        /\ family'[new[d]] = family'[token[d]]
    OBVIOUS
  <2>1. /\ token[d] \in given /\ new[d] \in 1..issued
        /\ family[new[d]] = family[token[d]]
    BY <1>1 DEF CallOK
  <2>2. new[d] \notin given' BY DEF Holding
  <2> QED BY <1>2, <2>1, <2>2
<1> QED BY <1>1, <1>3, <1>4 DEF CallOK, Same

\* Unclaimed rows stay apart when a call keeps its row or takes a new one.
LEMMA ApartFrame ==
  ASSUME Inv, NEW c \in Calls,
         \A d \in Calls : d # c => Same(d),
         Holding(c)' => (Holding(c) /\ new'[c] = new[c]) \/ new'[c] \notin 1..issued
  PROVE  \A b, d \in Calls : Apart(b, d)'
<1> SUFFICES ASSUME NEW b \in Calls, NEW d \in Calls PROVE Apart(b, d)'
  OBVIOUS
<1>1. /\ Apart(b, d) /\ Apart(c, d) /\ Apart(b, c)
      /\ Holding(b) => new[b] \in 1..issued
      /\ Holding(d) => new[d] \in 1..issued
  BY DEF Inv, CallOK, Holding
<1> QED BY <1>1 DEF Apart, Same, Holding

\* A step of one call that changes no row, pair or family.
LEMMA CallStep ==
  ASSUME Inv, NEW c \in Calls, UNCHANGED <<table, signed, past>>,
         CallsOK', RestOK', \A f \in Families : CookieOK(f)',
         \A d \in Calls : d # c => Same(d), CallOK(c)',
         Holding(c)' => Holding(c) /\ new'[c] = new[c]
  PROVE  Inv'
<1>1. Shape' BY DEF Inv, Shape, TableOK, SignedOK, table, signed
<1>2. \A d \in Calls : CallOK(d)'
  <2> SUFFICES ASSUME NEW d \in Calls, d # c PROVE CallOK(d)' OBVIOUS
  <2>1. CallOK(d) /\ Same(d) BY DEF Inv
  <2> QED BY <2>1 DEF CallOK, Same, signed, past
<1>3. \A b, d \in Calls : Apart(b, d)' BY ApartFrame
<1>4. \A r \in Pairs : RowOK(r)' BY DEF Inv, RowOK, table, past
<1>5. \A q, r \in Pairs : OneClaimed(q, r)'
  BY DEF Inv, OneClaimed, Claimed, table, signed, past
<1>6. \A f \in Families : EndedOK(f)' BY DEF Inv, EndedOK, Claimed, table, signed, past
<1> QED BY <1>1, <1>2, <1>3, <1>4, <1>5, <1>6 DEF Inv

\* Only the calls change.
LEMMA LocalStep ==
  ASSUME Inv, NEW c \in Calls, UNCHANGED <<table, signed, blocked, client, past>>,
         faults' \in 0..MaxFaults, CallsOK',
         \A d \in Calls : d # c => Same(d), CallOK(c)',
         Holding(c)' => Holding(c) /\ new'[c] = new[c]
  PROVE  Inv'
<1>1. RestOK' BY DEF Inv, Shape, RestOK, client, past, signed
<1>2. \A f \in Families : CookieOK(f)' BY DEF Inv, CookieOK, client, signed
<1> QED BY <1>1, <1>2, CallStep

\* A call that gives up or dies.
LEMMA EndStep ==
  ASSUME Inv, NEW c \in Calls, Finish(c), UNCHANGED <<table, signed, blocked, client, past>>,
         faults' \in 0..MaxFaults
  PROVE  Inv'
<1>1. CallsOK' /\ at'[c] = "idle" /\ token'[c] = 0 /\ \A d \in Calls : d # c => Same(d)
  BY FinishStep DEF Inv, Shape
<1>2. CallOK(c)' BY <1>1 DEF CallOK
<1> QED BY <1>1, <1>2, LocalStep DEF Holding

\* Rows are revoked, others are left alone: nothing becomes usable.
RevokeOnly(r) ==
  /\ row'[r] \in Row
  /\ row'[r].pair = row[r].pair /\ row'[r].by = row[r].by
  /\ row'[r].reason = Live => row[r].reason = Live

LEMMA RevokeStep ==
  ASSUME Inv, NEW S \in SUBSET Pairs, NEW why \in Reasons \ {Live}, Revoke(S, why)
  PROVE  /\ row' \in [Pairs -> Row]
         /\ \A r \in Pairs : RevokeOnly(r)
         /\ \A r \in S : row'[r].reason # Live
<1>1. TableOK /\ \A r \in Pairs : row[r] \in Row BY DEF Inv, Shape, TableOK
<1>2. \A r \in S : row'[r] = Revoked(r, why) BY DEF Revoke
<1>3. \A r \in Pairs \ S : row'[r] = row[r] BY DEF Revoke
<1>4. \A r \in Pairs : RevokeOnly(r)
  <2> SUFFICES ASSUME NEW r \in Pairs PROVE RevokeOnly(r) OBVIOUS
  <2>1. CASE r \in S BY <1>1, <1>2, <2>1, RevokedRow DEF RevokeOnly
  <2>2. CASE r \notin S BY <1>1, <1>3, <2>2 DEF RevokeOnly
  <2> QED BY <2>1, <2>2
<1>5. row' \in [Pairs -> Row] BY <1>4 DEF Revoke, RevokeOnly
<1>6. \A r \in S : row'[r].reason # Live BY <1>1, <1>2, RevokedRow
<1> QED BY <1>4, <1>5, <1>6

\* With it, the rows of families that are ended now have to be dead.
LEMMA RevokeKeeps ==
  ASSUME Inv, UNCHANGED <<exists, signed, given>>, \A r \in Pairs : RevokeOnly(r),
         \A f \in Families : ended'[f] # ended[f] =>
           /\ \E p \in 1..issued : family[p] = f
           /\ \A r \in Pairs : r \in exists /\ family[r] = f => row'[r].reason # Live
  PROVE  /\ \A r \in Pairs : RowOK(r)'
         /\ \A q, r \in Pairs : OneClaimed(q, r)'
         /\ \A f \in Families : EndedOK(f)'
<1>1. \A r \in Pairs : RowOK(r)'
  <2> SUFFICES ASSUME NEW r \in Pairs PROVE RowOK(r)' OBVIOUS
  <2>1. RowOK(r) /\ RevokeOnly(r) BY DEF Inv
  <2> QED BY <2>1 DEF RowOK, RevokeOnly
<1>2. \A r \in Pairs : Claimed(r)' => Claimed(r) BY DEF Claimed, RevokeOnly
<1>3. \A q, r \in Pairs : OneClaimed(q, r)' BY <1>2 DEF Inv, OneClaimed, signed
<1>4. \A f \in Families : EndedOK(f)'
  <2> SUFFICES ASSUME NEW f \in Families PROVE EndedOK(f)' OBVIOUS
  <2>1. EndedOK(f) BY DEF Inv
  <2>2. CASE ended'[f] = ended[f] BY <1>2, <2>1, <2>2 DEF EndedOK, signed
  <2>3. CASE ended'[f] # ended[f] BY <2>3 DEF EndedOK, Claimed, signed
  <2> QED BY <2>2, <2>3
<1> QED BY <1>1, <1>3, <1>4

-----------------------------------------------------------------------------
(***************************************************************************)
(* Initial states, and one lemma for each action                           *)
(***************************************************************************)
LEMMA InitInv == Init => Inv
<1> SUFFICES ASSUME Init PROVE Inv OBVIOUS
<1> USE DEF Init
<1>1. Shape
  <2>1. TableOK BY FreshRow DEF TableOK
  <2>2. SignedOK BY Numbers, NoFamilyAssumption DEF SignedOK, Pairs
  <2>3. CallsOK BY Numbers DEF CallsOK, Awaits
  <2>4. RestOK BY Numbers DEF RestOK
  <2> QED BY <2>1, <2>2, <2>3, <2>4 DEF Shape
<1>2. \A c \in Calls : CallOK(c) BY DEF CallOK
<1>3. \A c, d \in Calls : Apart(c, d) BY DEF Apart
<1>4. \A r \in Pairs : RowOK(r) BY FreshRow DEF RowOK
<1>5. \A f \in Families : CookieOK(f) BY DEF CookieOK
<1>6. \A q, r \in Pairs : OneClaimed(q, r) BY DEF OneClaimed, Claimed
<1>7. \A f \in Families : EndedOK(f) BY DEF EndedOK
<1> QED BY <1>1, <1>2, <1>3, <1>4, <1>5, <1>6, <1>7 DEF Inv

\* Signing: the next number, for a family.
LEMMA SignStep ==
  ASSUME Inv, NEW f \in Families, Sign(f)
  PROVE  /\ issued + 1 \in Pairs /\ issued' = issued + 1 /\ issued \in Nat
         /\ 1..issued \subseteq 1..issued' /\ issued + 1 \notin 1..issued
         /\ SignedOK'
         /\ family'[issued + 1] = f
         /\ \A p \in Pairs : p # issued + 1 => family'[p] = family[p]
         /\ \A p \in 1..issued : p \in Pairs /\ p # issued + 1
<1>1. SignedOK BY DEF Inv, Shape
<1>2. issued \in Nat /\ issued < MaxPairs /\ issued' = issued + 1
  BY <1>1, Numbers DEF SignedOK, Sign
<1>3. /\ issued + 1 \in Pairs /\ 1..issued \subseteq 1..issued' /\ issued + 1 \notin 1..issued
      /\ \A p \in 1..issued : p \in Pairs /\ p # issued + 1
  BY <1>2, Numbers DEF Pairs
<1>4. /\ family' \in [Pairs -> Families \cup {NoFamily}]
      /\ family'[issued + 1] = f
      /\ \A p \in Pairs : p # issued + 1 => family'[p] = family[p]
  BY <1>1, <1>3 DEF SignedOK, Sign
<1>5. \A p \in Pairs : family'[p] = NoFamily <=> p > issued'
  <2> SUFFICES ASSUME NEW p \in Pairs PROVE family'[p] = NoFamily <=> p > issued' OBVIOUS
  <2>1. p \in Nat BY Numbers DEF Pairs
  <2>2. CASE p = issued + 1 BY <1>2, <1>4, <2>1, <2>2, NoFamilyAssumption
  <2>3. CASE p # issued + 1
    <3>1. family'[p] = NoFamily <=> p > issued BY <1>1, <1>4, <2>3 DEF SignedOK
    <3> QED BY <1>2, <2>1, <2>3, <3>1
  <2> QED BY <2>2, <2>3
<1>6. issued' \in 0..MaxPairs BY <1>2, Numbers
<1>7. SignedOK' BY <1>1, <1>4, <1>5, <1>6 DEF SignedOK, Sign
<1> QED BY <1>2, <1>3, <1>4, <1>7

LEMMA LoginInv == ASSUME Inv, NEW f \in Families, Login(f) PROVE Inv'
<1> DEFINE p == issued + 1
<1>1. /\ p \in Pairs /\ issued' = p /\ issued \in Nat
      /\ 1..issued \subseteq 1..issued' /\ p \notin 1..issued
      /\ SignedOK' /\ family'[p] = f
      /\ \A q \in Pairs : q # p => family'[q] = family[q]
      /\ \A q \in 1..issued : q \in Pairs /\ q # p
  BY SignStep DEF Login
<1>2. \A q \in 1..issued : family[q] # f BY DEF Login
<1>3. /\ exists' = exists \cup {p} /\ given' = given \cup {p}
      /\ row' = [row EXCEPT ![p] = NewRow(p)]
      /\ UNCHANGED <<at, token, old, new, jtis, blocked, ended>>
  BY DEF Login, calls
<1>4. p \in 1..issued' BY <1>1
<1>5. given \subseteq 1..issued /\ exists \subseteq 1..issued /\ row \in [Pairs -> Row]
  BY DEF Inv, Shape, RestOK, TableOK
<1>6. /\ \/ cookie' = [cookie EXCEPT ![f] = p] /\ held' = held \cup {p}
         \/ UNCHANGED <<cookie, held>>
      /\ faults' \in 0..MaxFaults
  BY Numbers DEF Login, Welcome, client, Inv, Shape, RestOK
<1> HIDE DEF p
<1>7. Shape'
  <2>1. TableOK' BY <1>1, <1>3, <1>4, <1>5, FreshRow DEF TableOK
  <2>2. CallsOK' BY <1>3 DEF Inv, Shape, CallsOK
  <2>3. p \in 0..MaxPairs BY <1>1, Numbers DEF Pairs
  <2>4. RestOK' BY <1>1, <1>3, <1>4, <1>6, <2>3 DEF Inv, Shape, RestOK
  <2> QED BY <1>1, <2>1, <2>2, <2>4 DEF Shape
<1>8. \A d \in Calls : CallOK(d)'
  <2> SUFFICES ASSUME NEW d \in Calls PROVE CallOK(d)' OBVIOUS
  <2>1. Same(d) BY <1>3 DEF Same
  <2>2. Holding(d) => new[d] \in 1..issued /\ new[d] \notin given
    BY DEF Inv, CallOK, Holding
  <2> QED BY <1>1, <1>3, <2>1, <2>2, CallFrame
<1>9. \A b, d \in Calls : Apart(b, d)' BY <1>3 DEF Inv, Apart
<1>10. \A r \in Pairs : RowOK(r)'
  <2> SUFFICES ASSUME NEW r \in Pairs PROVE RowOK(r)' OBVIOUS
  <2>1. RowOK(r) BY DEF Inv
  <2>2. CASE r = p BY <1>3, <1>5, <2>2, FreshRow DEF RowOK
  <2>3. CASE r # p BY <1>3, <1>5, <2>1, <2>3 DEF RowOK
  <2> QED BY <2>2, <2>3
<1>11. \A g \in Families : CookieOK(g)'
  <2> SUFFICES ASSUME NEW g \in Families PROVE CookieOK(g)' OBVIOUS
  <2>1. CookieOK(g) /\ cookie \in [Families -> 0..MaxPairs] BY DEF Inv, Shape, RestOK
  <2> QED BY <1>1, <1>4, <1>6, <2>1 DEF CookieOK
<1>12. \A r \in Pairs : Claimed(r)' => (Claimed(r) /\ r # p /\ family[r] # f /\ family'[r] = family[r])
                                        \/ (r = p /\ family'[r] = f)
  BY <1>1, <1>2, <1>3, <1>5 DEF Claimed
<1>13. \A q, r \in Pairs : OneClaimed(q, r)' BY <1>12 DEF Inv, OneClaimed
<1>14. \A g \in Families : EndedOK(g)'
  <2> SUFFICES ASSUME NEW g \in Families, ended[g] # "no"
               PROVE  /\ \E q \in 1..issued' : family'[q] = g
                      /\ \A r \in Pairs : Claimed(r)' => family'[r] # g
    BY <1>3 DEF EndedOK
  <2>1. (\E q \in 1..issued : family[q] = g) /\ \A r \in Pairs : Claimed(r) => family[r] # g
    BY DEF Inv, EndedOK
  <2> QED BY <1>1, <1>2, <1>12, <2>1
<1> QED BY <1>7, <1>8, <1>9, <1>10, <1>11, <1>13, <1>14 DEF Inv

LEMMA StartRefreshInv ==
  ASSUME Inv, NEW c \in Calls, NEW p \in Pairs, StartRefresh(c, p) PROVE Inv'
<1>1. /\ CallsOK /\ p \in given /\ p \in 0..MaxPairs /\ "find" \in Awaits /\ p # 0
  BY Numbers DEF StartRefresh, Inv, Shape, RestOK, Pairs, Awaits
<1>2. /\ at' \in [Calls -> Awaits] /\ at'[c] = "find"
      /\ \A d \in Calls : d # c => at'[d] = at[d]
  BY <1>1, GotoStep DEF StartRefresh
<1>3. CallsOK' /\ token'[c] = p /\ \A d \in Calls : d # c => Same(d)
  BY <1>1, <1>2 DEF StartRefresh, CallsOK, Same
<1>4. CallOK(c)' BY <1>1, <1>2, <1>3 DEF CallOK, StartRefresh, past
<1> QED BY <1>2, <1>3, <1>4, LocalStep DEF StartRefresh, Holding, Inv, Shape, RestOK

LEMMA FindActiveInv == ASSUME Inv, NEW c \in Calls, FindActive(c) PROVE Inv'
<1>1. /\ CallsOK /\ CallOK(c) /\ {"lookup", "create"} \subseteq Awaits
      /\ exists \subseteq Pairs /\ at[c] = "find" /\ token[c] \in given /\ token[c] # 0
  BY Numbers DEF FindActive, Inv, Shape, TableOK, SignedOK, Pairs, Awaits, CallOK
<1>2. UNCHANGED <<table, signed, blocked, token, new, jtis, client, past, faults>>
  BY DEF FindActive
<1>3. CASE Goto(c, "lookup") /\ UNCHANGED old
  <2>1. /\ at' \in [Calls -> Awaits] /\ at'[c] = "lookup"
        /\ \A d \in Calls : d # c => at'[d] = at[d]
    BY <1>1, <1>3, GotoStep
  <2>2. CallsOK' /\ \A d \in Calls : d # c => Same(d)
    BY <1>1, <1>2, <1>3, <2>1 DEF CallsOK, Same
  <2>3. CallOK(c)' BY <1>1, <1>2, <2>1 DEF CallOK, past
  <2> QED BY <1>2, <2>1, <2>2, <2>3, LocalStep DEF Holding, Inv, Shape, RestOK
<1>4. CASE \E r \in LiveRows(family[token[c]]) :
             row[r].pair = token[c] /\ Goto(c, "create") /\ old' = [old EXCEPT ![c] = r]
  <2>1. PICK r \in LiveRows(family[token[c]]) :
          row[r].pair = token[c] /\ Goto(c, "create") /\ old' = [old EXCEPT ![c] = r]
    BY <1>4
  <2>2. r \in Pairs /\ family[r] = family[token[c]] /\ RowOK(r) /\ r \in 0..MaxPairs
    <3>1. r \in exists /\ family[r] = family[token[c]] BY DEF LiveRows
    <3>2. r \in Pairs BY <1>1, <3>1
    <3> QED BY <3>1, <3>2, Numbers DEF Inv, Pairs
  <2>3. r \in given BY <1>1, <2>1, <2>2 DEF RowOK
  <2>4. /\ at' \in [Calls -> Awaits] /\ at'[c] = "create"
        /\ \A d \in Calls : d # c => at'[d] = at[d]
    BY <1>1, <2>1, GotoStep
  <2>5. CallsOK' /\ old'[c] = r /\ \A d \in Calls : d # c => Same(d)
    BY <1>1, <1>2, <2>1, <2>2, <2>4 DEF CallsOK, Same
  <2>6. CallOK(c)' BY <1>1, <1>2, <2>2, <2>3, <2>4, <2>5 DEF CallOK, past, signed
  <2> QED BY <1>2, <2>4, <2>5, <2>6, LocalStep DEF Holding, Inv, Shape, RestOK
<1> QED BY <1>3, <1>4 DEF FindActive

LEMMA CreateRowInv == ASSUME Inv, NEW c \in Calls, CreateRow(c) PROVE Inv'
<1> DEFINE p == issued + 1
           f == family[token[c]]
<1>1. /\ CallsOK /\ CallOK(c) /\ at[c] = "create" /\ token[c] \in given
      /\ given \subseteq 1..issued /\ exists \subseteq 1..issued /\ row \in [Pairs -> Row]
      /\ "claim" \in Awaits
  BY DEF CreateRow, Inv, Shape, RestOK, TableOK, CallOK, Awaits
<1>2. f \in Families
  <2>1. SignedOK BY DEF Inv, Shape
  <2>2. \A q \in 1..issued : q \in Pairs /\ ~(q > issued)
    BY <2>1, Numbers DEF SignedOK, Pairs
  <2>3. token[c] \in Pairs /\ ~(token[c] > issued) BY <1>1, <2>2
  <2> QED BY <2>1, <2>3 DEF SignedOK
<1>3. /\ p \in Pairs /\ issued' = p /\ issued \in Nat
      /\ 1..issued \subseteq 1..issued' /\ p \notin 1..issued
      /\ SignedOK' /\ family'[p] = f
      /\ \A q \in Pairs : q # p => family'[q] = family[q]
      /\ \A q \in 1..issued : q \in Pairs /\ q # p
  BY <1>2, SignStep DEF CreateRow
<1>4. /\ exists' = exists \cup {p} /\ row' = [row EXCEPT ![p] = NewRow(p)]
      /\ new' = [new EXCEPT ![c] = p]
      /\ UNCHANGED <<blocked, token, old, jtis, cookie, held, given, ended, faults>>
  BY DEF CreateRow, client, past
<1>5. /\ at' \in [Calls -> Awaits] /\ at'[c] = "claim"
      /\ \A d \in Calls : d # c => at'[d] = at[d]
  BY <1>1, GotoStep DEF CreateRow
<1>6. p \in 1..issued' /\ p \notin given BY <1>1, <1>3
<1> HIDE DEF p, f
<1>7. CallsOK' /\ new'[c] = p /\ \A d \in Calls : d # c => Same(d)
  <2>1. p \in 0..MaxPairs BY <1>3, Numbers DEF Pairs
  <2>2. new' \in [Calls -> 0..MaxPairs] /\ new'[c] = p BY <1>1, <1>4, <2>1 DEF CallsOK
  <2>3. \A d \in Calls : d # c => Same(d) BY <1>1, <1>4, <1>5 DEF CallsOK, Same
  <2> QED BY <1>1, <1>4, <1>5, <2>2, <2>3 DEF CallsOK
<1>8. Shape'
  <2>1. TableOK' BY <1>1, <1>3, <1>4, <1>6, FreshRow DEF TableOK
  <2>2. RestOK' BY <1>3, <1>4 DEF Inv, Shape, RestOK
  <2> QED BY <1>3, <1>7, <2>1, <2>2 DEF Shape
<1>9. \A d \in Calls : CallOK(d)'
  <2> SUFFICES ASSUME NEW d \in Calls PROVE CallOK(d)' OBVIOUS
  <2>1. CASE d = c
    <3>1. old[c] \in given /\ family[old[c]] = f /\ token[c] # 0
      BY <1>1 DEF CallOK, f
    <3>2. family'[old[c]] = f /\ family'[token[c]] = f BY <1>1, <1>3, <3>1 DEF f
    <3> QED BY <1>1, <1>3, <1>4, <1>5, <1>6, <1>7, <2>1, <3>1, <3>2 DEF CallOK
  <2>2. CASE d # c
    <3>1. Holding(d) => new[d] \notin given BY DEF Inv, CallOK, Holding
    <3> QED BY <1>3, <1>4, <1>7, <2>2, <3>1, CallFrame
  <2> QED BY <2>1, <2>2
<1>10. \A b, d \in Calls : Apart(b, d)' BY <1>3, <1>7, ApartFrame
<1>11. \A r \in Pairs : RowOK(r)'
  <2> SUFFICES ASSUME NEW r \in Pairs PROVE RowOK(r)' OBVIOUS
  <2>1. RowOK(r) BY DEF Inv
  <2>2. CASE r = p BY <1>1, <1>4, <1>6, <2>2, FreshRow DEF RowOK
  <2>3. CASE r # p BY <1>1, <1>4, <2>1, <2>3 DEF RowOK
  <2> QED BY <2>2, <2>3
<1>12. \A g \in Families : CookieOK(g)'
  <2> SUFFICES ASSUME NEW g \in Families PROVE CookieOK(g)' OBVIOUS
  <2>1. CookieOK(g) BY DEF Inv
  <2> QED BY <1>3, <1>4, <2>1 DEF CookieOK
<1>13. \A r \in Pairs : Claimed(r)' => Claimed(r) /\ r # p /\ family'[r] = family[r]
  BY <1>1, <1>3, <1>4, <1>6 DEF Claimed
<1>14. \A q, r \in Pairs : OneClaimed(q, r)' BY <1>13 DEF Inv, OneClaimed
<1>15. \A g \in Families : EndedOK(g)'
  <2> SUFFICES ASSUME NEW g \in Families, ended[g] # "no"
               PROVE  /\ \E q \in 1..issued' : family'[q] = g
                      /\ \A r \in Pairs : Claimed(r)' => family'[r] # g
    BY <1>4 DEF EndedOK
  <2>1. (\E q \in 1..issued : family[q] = g) /\ \A r \in Pairs : Claimed(r) => family[r] # g
    BY DEF Inv, EndedOK
  <2> QED BY <1>3, <1>13, <2>1
<1> QED BY <1>8, <1>9, <1>10, <1>11, <1>12, <1>14, <1>15 DEF Inv

LEMMA ClaimInv == ASSUME Inv, NEW c \in Calls, Claim(c) PROVE Inv'
<1>1. /\ CallsOK /\ CallOK(c) /\ at[c] = "claim" /\ token[c] \in given
      /\ given \subseteq 1..issued /\ exists \subseteq 1..issued /\ TableOK
      /\ {"undo", "answer"} \subseteq Awaits
      /\ \A q \in 1..issued : q \in Pairs
      /\ UNCHANGED <<exists, signed, blocked, token, old, new, jtis, client, ended, faults>>
  BY Numbers DEF Claim, Inv, Shape, RestOK, TableOK, SignedOK, CallOK, Awaits, Pairs
<1>2. CASE Goto(c, "undo") /\ UNCHANGED <<row, given>>
  <2>1. /\ at' \in [Calls -> Awaits] /\ at'[c] = "undo"
        /\ \A d \in Calls : d # c => at'[d] = at[d]
    BY <1>1, <1>2, GotoStep
  <2>2. CallsOK' /\ \A d \in Calls : d # c => Same(d)
    BY <1>1, <2>1 DEF CallsOK, Same
  <2>3. CallOK(c)'
    <3>1. 0 \notin given BY <1>1, Numbers DEF Pairs
    <3> QED BY <1>1, <1>2, <2>1, <3>1 DEF CallOK, signed
  <2> QED BY <1>1, <1>2, <2>1, <2>2, <2>3, LocalStep
          DEF Holding, table, past, Inv, Shape, RestOK
<1>3. CASE /\ old[c] \in exists /\ row[old[c]].reason = Live
           /\ row' = [row EXCEPT ![old[c]] = Superseded(old[c], new[c])]
           /\ given' = given \cup {new[c]}
           /\ Goto(c, "answer")
  <2> DEFINE o == old[c]
             n == new[c]
  <2>1. /\ o \in given /\ o \in Pairs /\ n \in Pairs /\ n \notin given /\ n # o
        /\ n \in 1..issued /\ family[o] = family[token[c]] /\ family[n] = family[o]
    BY <1>1 DEF CallOK
  <2>2. /\ at' \in [Calls -> Awaits] /\ at'[c] = "answer"
        /\ \A d \in Calls : d # c => at'[d] = at[d]
    BY <1>1, <1>3, GotoStep
  <2>3. CallsOK' /\ \A d \in Calls : Same(d) \/ d = c
    BY <1>1, <2>2 DEF CallsOK, Same
  <2>4. /\ row' \in [Pairs -> Row]
        /\ row'[o].pair = row[o].pair /\ row'[o].by = n /\ row'[o].reason = "ROTATED"
        /\ \A r \in Pairs : r # o => row'[r] = row[r]
        /\ given' = given \cup {n}
    BY <1>1, <1>3, <2>1, SupersededRow DEF TableOK
  <2>5. Claimed(o) BY <1>3, <2>1 DEF Claimed
  <2> HIDE DEF o, n
  <2>6. Shape'
    <3>1. TableOK' BY <1>1, <2>4 DEF TableOK, signed
    <3>2. RestOK' BY <1>1, <2>1, <2>4 DEF Inv, Shape, RestOK, signed, client
    <3> QED BY <1>1, <2>3, <3>1, <3>2 DEF Inv, Shape, SignedOK, signed
  <2>7. \A d \in Calls : CallOK(d)'
    <3> SUFFICES ASSUME NEW d \in Calls PROVE CallOK(d)' OBVIOUS
    <3>1. CASE d = c
      <4>1. new'[c] = n BY <1>1 DEF n
      <4>2. token[c] # 0 BY <1>1 DEF CallOK
      <4> QED BY <1>1, <2>2, <2>4, <3>1, <4>1, <4>2 DEF CallOK
    <3>2. CASE d # c
      <4>1. Holding(d) => new[d] \notin given BY DEF Inv, CallOK, Holding
      <4>2. Holding(d) => new[d] # n
        <5>1. Apart(c, d) BY DEF Inv
        <5> QED BY <1>1, <3>2, <5>1 DEF Apart, Holding, n
      <4> QED BY <1>1, <2>3, <2>4, <3>2, <4>1, <4>2, CallFrame DEF signed
    <3> QED BY <3>1, <3>2
  <2>8. \A b, d \in Calls : Apart(b, d)'
    BY <2>2, <2>3, ApartFrame DEF Holding
  <2>9. \A r \in Pairs : RowOK(r)'
    <3> SUFFICES ASSUME NEW r \in Pairs PROVE RowOK(r)' OBVIOUS
    <3>1. RowOK(r) BY DEF Inv
    <3> QED BY <2>1, <2>4, <3>1 DEF RowOK
  <2>10. \A g \in Families : CookieOK(g)' BY <1>1 DEF Inv, CookieOK, client, signed
  <2>11. \A r \in Pairs : Claimed(r)' => r = n \/ (Claimed(r) /\ r # o)
    <3> SUFFICES ASSUME NEW r \in Pairs, Claimed(r)' PROVE r = n \/ (Claimed(r) /\ r # o)
      OBVIOUS
    <3>1. r # o BY <2>4 DEF Claimed, Live
    <3> QED BY <1>1, <2>4, <3>1 DEF Claimed
  <2>12. \A r \in Pairs : Claimed(r)' /\ family[r] = family[o] => r = n
    <3> SUFFICES ASSUME NEW r \in Pairs, Claimed(r)', family[r] = family[o], r # n PROVE FALSE
      OBVIOUS
    <3>1. Claimed(r) /\ r # o BY <2>11
    <3>2. OneClaimed(r, o) BY <2>1 DEF Inv
    <3> QED BY <2>5, <3>1, <3>2 DEF OneClaimed
  <2>13. \A q, r \in Pairs : OneClaimed(q, r)'
    <3> SUFFICES ASSUME NEW q \in Pairs, NEW r \in Pairs, Claimed(q)', Claimed(r)',
                        family[q] = family[r]
                 PROVE  q = r
      BY <1>1 DEF OneClaimed, signed
    <3>1. OneClaimed(q, r) BY DEF Inv
    <3> QED BY <2>1, <2>11, <2>12, <3>1 DEF OneClaimed
  <2>14. \A g \in Families : EndedOK(g)'
    <3> SUFFICES ASSUME NEW g \in Families, ended[g] # "no"
                 PROVE  /\ \E q \in 1..issued : family[q] = g
                        /\ \A r \in Pairs : Claimed(r)' => family[r] # g
      BY <1>1 DEF EndedOK, signed
    <3>1. (\E q \in 1..issued : family[q] = g) /\ \A r \in Pairs : Claimed(r) => family[r] # g
      BY DEF Inv, EndedOK
    <3> QED BY <2>1, <2>5, <2>11, <3>1
  <2> QED BY <2>6, <2>7, <2>8, <2>9, <2>10, <2>13, <2>14 DEF Inv
<1> QED BY <1>2, <1>3 DEF Claim

\* Rows go, their entries are as before they came: nothing becomes usable.
LEMMA RemoveKeeps ==
  ASSUME Inv, UNCHANGED <<signed, given, ended>>, exists' \subseteq exists,
         \A r \in Pairs : row'[r] = row[r] \/ row'[r] = NewRow(r),
         \A r \in exists' : row'[r] = row[r]
  PROVE  /\ \A r \in Pairs : RowOK(r)'
         /\ \A q, r \in Pairs : OneClaimed(q, r)'
         /\ \A f \in Families : EndedOK(f)'
<1>1. \A r \in Pairs : RowOK(r)'
  <2> SUFFICES ASSUME NEW r \in Pairs PROVE RowOK(r)' OBVIOUS
  <2>1. RowOK(r) BY DEF Inv
  <2> QED BY <2>1, FreshRow DEF RowOK
<1>2. \A r \in Pairs : Claimed(r)' => Claimed(r) BY DEF Claimed
<1>3. \A q, r \in Pairs : OneClaimed(q, r)' BY <1>2 DEF Inv, OneClaimed, signed
<1>4. \A f \in Families : EndedOK(f)' BY <1>2 DEF Inv, EndedOK, signed
<1> QED BY <1>1, <1>3, <1>4

LEMMA UndoInv == ASSUME Inv, NEW c \in Calls, Undo(c) PROVE Inv'
<1>1. /\ CallsOK /\ CallOK(c) /\ at[c] = "undo" /\ TableOK /\ "lookup" \in Awaits
      /\ \A q \in 1..issued : q \in Pairs
      /\ UNCHANGED <<signed, blocked, client, past, faults>>
  BY Numbers DEF Undo, Inv, Shape, SignedOK, Awaits, Pairs
<1>2. CASE Finish(c) /\ UNCHANGED table
  BY <1>1, <1>2, EndStep DEF Inv, Shape, RestOK
<1>3. CASE /\ exists' = exists \ {new[c]}
           /\ row' = [row EXCEPT ![new[c]] = NewRow(new[c])]
           /\ Goto(c, "lookup")
           /\ new' = [new EXCEPT ![c] = 0]
           /\ old' = [old EXCEPT ![c] = 0]
           /\ UNCHANGED <<token, jtis>>
  <2> DEFINE n == new[c]
  <2>1. n \in Pairs BY <1>1 DEF CallOK
  <2>2. /\ exists' = exists \ {n} /\ row' \in [Pairs -> Row] /\ row'[n] = NewRow(n)
        /\ \A r \in Pairs : r # n => row'[r] = row[r]
    BY <1>1, <1>3, <2>1, FreshRow DEF TableOK
  <2>3. /\ at' \in [Calls -> Awaits] /\ at'[c] = "lookup"
        /\ \A d \in Calls : d # c => at'[d] = at[d]
    BY <1>1, <1>3, GotoStep
  <2>4. CallsOK' /\ \A d \in Calls : d # c => Same(d)
    <3>1. 0 \in 0..MaxPairs BY Numbers
    <3> QED BY <1>1, <1>3, <2>3, <3>1 DEF CallsOK, Same
  <2> HIDE DEF n
  <2>5. Shape'
    <3>1. TableOK' BY <1>1, <2>2 DEF TableOK, signed
    <3> QED BY <1>1, <2>4, <3>1 DEF Inv, Shape, SignedOK, RestOK, signed, client, past
  <2>6. \A d \in Calls : CallOK(d)'
    <3> SUFFICES ASSUME NEW d \in Calls PROVE CallOK(d)' OBVIOUS
    <3>1. CASE d = c BY <1>1, <1>3, <2>3, <3>1 DEF CallOK, past
    <3>2. CASE d # c
      <4>1. CallOK(d) /\ Same(d) BY <2>4, <3>2 DEF Inv
      <4> QED BY <1>1, <4>1 DEF CallOK, Same, signed, past
    <3> QED BY <3>1, <3>2
  <2>7. \A b, d \in Calls : Apart(b, d)' BY <2>3, <2>4, ApartFrame DEF Holding
  <2>8. \A f \in Families : CookieOK(f)' BY <1>1 DEF Inv, CookieOK, client, signed
  <2>9. /\ \A r \in Pairs : RowOK(r)'
        /\ \A q, r \in Pairs : OneClaimed(q, r)'
        /\ \A f \in Families : EndedOK(f)'
    <3>1. \A r \in exists' : row'[r] = row[r] BY <1>1, <2>2 DEF TableOK
    <3>2. \A r \in Pairs : row'[r] = row[r] \/ row'[r] = NewRow(r) BY <2>2
    <3> QED BY <1>1, <2>2, <3>1, <3>2, RemoveKeeps DEF past
  <2> QED BY <2>5, <2>6, <2>7, <2>8, <2>9 DEF Inv
<1> QED BY <1>2, <1>3 DEF Undo

LEMMA LookupInv == ASSUME Inv, NEW c \in Calls, Lookup(c) PROVE Inv'
<1>1. /\ CallsOK /\ CallOK(c) /\ at[c] = "lookup" /\ {"current", "reuse"} \subseteq Awaits
      /\ exists \subseteq Pairs
      /\ UNCHANGED <<table, signed, blocked, client, past, faults>>
  BY Numbers DEF Lookup, Inv, Shape, TableOK, SignedOK, Awaits, Pairs
<1>2. CASE Finish(c) BY <1>1, <1>2, EndStep DEF Inv, Shape, RestOK
<1>3. CASE /\ \E r \in exists : InGrace(r) /\ old' = [old EXCEPT ![c] = row[r].by]
           /\ Goto(c, "current") /\ UNCHANGED <<token, new, jtis>>
  <2>1. PICK r \in exists : InGrace(r) /\ old' = [old EXCEPT ![c] = row[r].by] BY <1>3
  <2>2. r \in Pairs /\ RowOK(r) BY <1>1 DEF Inv
  <2>3. row[r].by \in given BY <2>1, <2>2 DEF RowOK, InGrace
  <2>4. row[r].by \in 0..MaxPairs
    <3>1. row[r] \in Row BY <2>2 DEF Inv, Shape, TableOK
    <3>2. row[r].by \in Pairs \cup {0} BY <3>1 DEF Row
    <3> QED BY <3>2, Numbers DEF Pairs
  <2>5. /\ at' \in [Calls -> Awaits] /\ at'[c] = "current"
        /\ \A d \in Calls : d # c => at'[d] = at[d]
    BY <1>1, <1>3, GotoStep
  <2>6. CallsOK' /\ old'[c] = row[r].by /\ \A d \in Calls : d # c => Same(d)
    BY <1>1, <1>3, <2>1, <2>4, <2>5 DEF CallsOK, Same
  <2>7. CallOK(c)' BY <1>1, <1>3, <2>3, <2>5, <2>6 DEF CallOK, past
  <2> QED BY <1>1, <2>5, <2>6, <2>7, LocalStep DEF Holding, Inv, Shape, RestOK
<1>4. CASE Goto(c, "reuse") /\ UNCHANGED <<old, token, new, jtis>>
  <2>1. /\ at' \in [Calls -> Awaits] /\ at'[c] = "reuse"
        /\ \A d \in Calls : d # c => at'[d] = at[d]
    BY <1>1, <1>4, GotoStep
  <2>2. CallsOK' /\ \A d \in Calls : d # c => Same(d) BY <1>1, <1>4, <2>1 DEF CallsOK, Same
  <2>3. CallOK(c)' BY <1>1, <1>4, <2>1 DEF CallOK, past
  <2> QED BY <1>1, <2>1, <2>2, <2>3, LocalStep DEF Holding, Inv, Shape, RestOK
<1> QED BY <1>2, <1>3, <1>4 DEF Lookup, RevokedRows

LEMMA ReadCurrentInv == ASSUME Inv, NEW c \in Calls, ReadCurrent(c) PROVE Inv'
<1>1. /\ CallsOK /\ CallOK(c) /\ at[c] = "current" /\ {"reissue", "reuse"} \subseteq Awaits
      /\ UNCHANGED <<table, signed, blocked, token, new, jtis, client, past, faults>>
      /\ 0 \in 0..MaxPairs
  BY Numbers DEF ReadCurrent, Inv, Shape, Awaits
<1>2. PICK w \in {"reissue", "reuse"} :
        /\ Goto(c, w)
        /\ w = "reissue" => UNCHANGED old
        /\ w = "reuse" => old' = [old EXCEPT ![c] = 0]
  BY DEF ReadCurrent
<1>3. /\ at' \in [Calls -> Awaits] /\ at'[c] = w
      /\ \A d \in Calls : d # c => at'[d] = at[d]
  BY <1>1, <1>2, GotoStep
<1>4. CallsOK' /\ \A d \in Calls : d # c => Same(d)
  BY <1>1, <1>2, <1>3 DEF CallsOK, Same
<1>5. CallOK(c)' BY <1>1, <1>2, <1>3 DEF CallOK, past
<1> QED BY <1>1, <1>2, <1>3, <1>4, <1>5, LocalStep DEF Holding, Inv, Shape, RestOK

LEMMA ReissueInv == ASSUME Inv, NEW c \in Calls, Reissue(c) PROVE Inv'
<1>1. /\ CallsOK /\ CallOK(c) /\ at[c] = "reissue" /\ token[c] \in given /\ old[c] \in given
      /\ given \subseteq 1..issued /\ exists \subseteq 1..issued /\ row \in [Pairs -> Row]
      /\ "answer" \in Awaits
      /\ UNCHANGED <<exists, blocked, client, ended, faults>>
  BY DEF Reissue, Inv, Shape, RestOK, TableOK, CallOK, Awaits
<1>2. CASE Finish(c) /\ UNCHANGED <<row, signed, given>>
  BY <1>1, <1>2, EndStep DEF Inv, Shape, RestOK, table, past
<1>3. CASE /\ Sign(family[token[c]])
           /\ row' = [row EXCEPT ![old[c]].pair = issued + 1]
           /\ given' = given \cup {issued + 1}
           /\ new' = [new EXCEPT ![c] = issued + 1]
           /\ Goto(c, "answer")
           /\ UNCHANGED <<token, old, jtis>>
  <2> DEFINE p == issued + 1
             o == old[c]
  <2>1. family[token[c]] \in Families
    <3>1. SignedOK BY DEF Inv, Shape
    <3>2. \A q \in 1..issued : q \in Pairs /\ ~(q > issued)
      BY <3>1, Numbers DEF SignedOK, Pairs
    <3>3. token[c] \in Pairs /\ ~(token[c] > issued) BY <1>1, <3>2
    <3> QED BY <3>1, <3>3 DEF SignedOK
  <2>2. /\ p \in Pairs /\ issued' = p /\ 1..issued \subseteq 1..issued' /\ p \notin 1..issued
        /\ SignedOK'
        /\ \A q \in Pairs : q # p => family'[q] = family[q]
        /\ \A q \in 1..issued : q \in Pairs /\ q # p
        /\ issued \in Nat
    BY <1>3, <2>1, SignStep
  <2>3. o \in Pairs /\ o \in given BY <1>1, <2>2
  <2>4. /\ row' \in [Pairs -> Row]
        /\ row'[o].pair = p /\ row'[o].by = row[o].by /\ row'[o].reason = row[o].reason
        /\ \A r \in Pairs : r # o => row'[r] = row[r]
    <3>1. row' = [row EXCEPT ![o] = [row[o] EXCEPT !.pair = p]] BY <1>3
    <3>2. row[o] \in Row BY <1>1, <2>3
    <3> QED BY <1>1, <2>2, <2>3, <3>1, <3>2, WithPair
  <2>5. /\ at' \in [Calls -> Awaits] /\ at'[c] = "answer"
        /\ \A d \in Calls : d # c => at'[d] = at[d]
    BY <1>1, <1>3, GotoStep
  <2>6. given' = given \cup {p} /\ p \in 1..issued' BY <1>3, <2>2
  <2>7. new' \in [Calls -> 0..MaxPairs] /\ new'[c] = p /\ \A d \in Calls : d # c => new'[d] = new[d]
    <3>1. p \in 0..MaxPairs BY <2>2, Numbers DEF Pairs
    <3> QED BY <1>1, <1>3, <3>1 DEF CallsOK
  <2>8. CallsOK' /\ \A d \in Calls : d # c => Same(d)
    BY <1>1, <1>3, <2>5, <2>7 DEF CallsOK, Same
  <2>9. UNCHANGED token BY <1>3
  <2> HIDE DEF p, o
  <2>10. Shape'
    <3>1. TableOK' BY <1>1, <2>2, <2>4 DEF TableOK
    <3>2. RestOK' BY <1>1, <2>2, <2>6 DEF Inv, Shape, RestOK, client
    <3> QED BY <2>2, <2>8, <3>1, <3>2 DEF Shape
  <2>11. \A d \in Calls : CallOK(d)'
    <3> SUFFICES ASSUME NEW d \in Calls PROVE CallOK(d)' OBVIOUS
    <3>1. CASE d = c
      BY <1>1, <2>5, <2>6, <2>7, <2>9, <3>1 DEF CallOK
    <3>2. CASE d # c
      <4>1. Holding(d) => new[d] \in 1..issued /\ new[d] \notin given
        BY DEF Inv, CallOK, Holding
      <4> QED BY <2>2, <2>6, <2>8, <3>2, <4>1, CallFrame
    <3> QED BY <3>1, <3>2
  <2>12. \A b, d \in Calls : Apart(b, d)' BY <2>5, <2>8, ApartFrame DEF Holding
  <2>13. \A r \in Pairs : RowOK(r)'
    <3> SUFFICES ASSUME NEW r \in Pairs PROVE RowOK(r)' OBVIOUS
    <3>1. RowOK(r) BY DEF Inv
    <3>2. CASE r = o BY <2>3, <2>4, <2>6, <3>1, <3>2 DEF RowOK
    <3>3. CASE r = p
      <4>1. r # o /\ r \notin given BY <1>1, <2>2, <2>3, <3>3
      <4>2. row'[r].pair = r BY <2>4, <3>1, <4>1 DEF RowOK
      <4> QED BY <2>4, <2>6, <3>1, <3>3, <4>1, <4>2 DEF RowOK
    <3>4. CASE r # o /\ r # p BY <2>4, <2>6, <3>1, <3>4 DEF RowOK
    <3> QED BY <3>2, <3>3, <3>4
  <2>14. \A g \in Families : CookieOK(g)'
    <3> SUFFICES ASSUME NEW g \in Families PROVE CookieOK(g)' OBVIOUS
    <3>1. CookieOK(g) BY DEF Inv
    <3> QED BY <1>1, <2>2, <3>1 DEF CookieOK, client
  <2>15. \A r \in Pairs : Claimed(r)' => Claimed(r) /\ family'[r] = family[r]
    <3> SUFFICES ASSUME NEW r \in Pairs, Claimed(r)' PROVE Claimed(r) /\ family'[r] = family[r]
      OBVIOUS
    <3>1. r \in exists /\ r # p BY <1>1, <2>2 DEF Claimed
    <3>2. row'[r].reason = row[r].reason BY <2>4
    <3> QED BY <2>2, <2>6, <3>1, <3>2 DEF Claimed
  <2>16. \A q, r \in Pairs : OneClaimed(q, r)' BY <2>15 DEF Inv, OneClaimed
  <2>17. \A g \in Families : EndedOK(g)'
    <3> SUFFICES ASSUME NEW g \in Families, ended[g] # "no"
                 PROVE  /\ \E q \in 1..issued' : family'[q] = g
                        /\ \A r \in Pairs : Claimed(r)' => family'[r] # g
      BY <1>1 DEF EndedOK
    <3>1. (\E q \in 1..issued : family[q] = g) /\ \A r \in Pairs : Claimed(r) => family[r] # g
      BY DEF Inv, EndedOK
    <3> QED BY <2>2, <2>15, <3>1
  <2> QED BY <2>10, <2>11, <2>12, <2>13, <2>14, <2>16, <2>17 DEF Inv
<1> QED BY <1>2, <1>3 DEF Reissue

\* What the ends of sessions have in common; S are the families ended.
LEMMA EndFamilies ==
  ASSUME Inv, NEW S \in SUBSET Families, NEW how \in {"logout", "reuse", "all"}, End(S, how)
  PROVE  /\ ended' \in [Families -> {"no", "logout", "reuse", "all"}]
         /\ \A f \in Families : ended'[f] # ended[f] => f \in S
BY DEF Inv, Shape, RestOK, End

LEMMA ReuseInv == ASSUME Inv, NEW c \in Calls, Reuse(c) PROVE Inv'
<1> DEFINE f == family[token[c]]
           S == {r \in exists : family[r] = f}
<1>0. exists \subseteq Pairs /\ given \subseteq 1..issued
  BY Numbers DEF Inv, Shape, RestOK, TableOK, SignedOK, Pairs
<1>1. /\ CallsOK /\ CallOK(c) /\ at[c] = "reuse" /\ token[c] \in 1..issued
      /\ exists \subseteq Pairs
      /\ UNCHANGED <<exists, signed, blocked, client, given, faults>>
  BY <1>0 DEF Reuse, Inv, Shape, CallOK
<1>2. Revoke(S, "REUSE_DETECTED") /\ S \in SUBSET Pairs /\ "REUSE_DETECTED" \in Reasons \ {Live}
  BY <1>1 DEF Reuse, Reasons, Live
<1>3. f \in Families
  <2>1. SignedOK BY DEF Inv, Shape
  <2>2. \A q \in 1..issued : q \in Pairs /\ ~(q > issued)
    BY <2>1, Numbers DEF SignedOK, Pairs
  <2> QED BY <1>1, <2>1, <2>2 DEF SignedOK
<1>4. /\ ended' \in [Families -> {"no", "logout", "reuse", "all"}]
      /\ \A g \in Families : ended'[g] # ended[g] => g = f
  <2>1. End({f}, "reuse") /\ {f} \in SUBSET Families BY <1>3 DEF Reuse
  <2> QED BY <2>1, EndFamilies
<1>5. /\ CallsOK' /\ at'[c] = "idle" /\ token'[c] = 0
      /\ \A d \in Calls : d # c => Same(d)
  BY <1>1, FinishStep DEF Reuse
<1> HIDE DEF S
<1>6. /\ row' \in [Pairs -> Row] /\ \A r \in Pairs : RevokeOnly(r)
      /\ \A r \in S : row'[r].reason # Live
  BY <1>2, RevokeStep
<1> HIDE DEF f
<1>7. Shape'
  BY <1>1, <1>4, <1>5, <1>6 DEF Inv, Shape, TableOK, SignedOK, RestOK, signed, client
<1>8. \A d \in Calls : CallOK(d)'
  <2> SUFFICES ASSUME NEW d \in Calls PROVE CallOK(d)' OBVIOUS
  <2>1. CASE d = c BY <1>5, <2>1 DEF CallOK
  <2>2. CASE d # c
    <3>1. CallOK(d) /\ Same(d) BY <1>5, <2>2 DEF Inv
    <3> QED BY <1>1, <3>1 DEF CallOK, Same, signed
  <2> QED BY <2>1, <2>2
<1>9. \A b, d \in Calls : Apart(b, d)' BY <1>5, ApartFrame DEF Holding
<1>10. \A g \in Families : CookieOK(g)' BY <1>1 DEF Inv, CookieOK, client, signed
<1>11. \A g \in Families : ended'[g] # ended[g] =>
         /\ \E p \in 1..issued : family[p] = g
         /\ \A r \in Pairs : r \in exists /\ family[r] = g => row'[r].reason # Live
  BY <1>1, <1>4, <1>6 DEF S, f
<1>12. /\ \A r \in Pairs : RowOK(r)'
       /\ \A q, r \in Pairs : OneClaimed(q, r)'
       /\ \A g \in Families : EndedOK(g)'
  BY <1>1, <1>6, <1>11, RevokeKeeps
<1> QED BY <1>7, <1>8, <1>9, <1>10, <1>12 DEF Inv

LEMMA AnswerInv == ASSUME Inv, NEW c \in Calls, Answer(c) PROVE Inv'
<1> DEFINE n == new[c]
<1>0. given \subseteq 1..issued /\ \A q \in 1..issued : q \in 0..MaxPairs
  BY Numbers DEF Inv, Shape, RestOK, SignedOK
<1>1. /\ CallsOK /\ CallOK(c) /\ n \in given /\ n \in 1..issued /\ n \in 0..MaxPairs
      /\ UNCHANGED <<table, signed, blocked, past, faults>>
      /\ held' = held \cup {n} /\ cookie' = [cookie EXCEPT ![family[n]] = n]
  BY <1>0 DEF Answer, SetCookie, Inv, Shape, CallOK
<1>2. /\ CallsOK' /\ at'[c] = "idle" /\ token'[c] = 0
      /\ \A d \in Calls : d # c => Same(d)
  BY <1>1, FinishStep DEF Answer
<1> HIDE DEF n
<1>3. RestOK' BY <1>1 DEF Inv, Shape, RestOK, signed, past
<1>4. \A f \in Families : CookieOK(f)'
  <2> SUFFICES ASSUME NEW f \in Families PROVE CookieOK(f)' OBVIOUS
  <2>1. CookieOK(f) /\ cookie \in [Families -> 0..MaxPairs] BY DEF Inv, Shape, RestOK
  <2> QED BY <1>1, <2>1 DEF CookieOK, signed
<1>5. CallOK(c)' BY <1>2 DEF CallOK
<1> QED BY <1>1, <1>2, <1>3, <1>4, <1>5, CallStep DEF Holding

LEMMA LogoutInv == ASSUME Inv, NEW f \in Families, Logout(f) PROVE Inv'
<1>1. /\ cookie[f] # 0 /\ CookieOK(f) /\ cookie \in [Families -> 0..MaxPairs]
      /\ exists \subseteq Pairs /\ 0 \in 0..MaxPairs
      /\ cookie' = [cookie EXCEPT ![f] = 0]
      /\ UNCHANGED <<exists, signed, blocked, calls, held, given>>
  BY Numbers DEF Logout, Inv, Shape, RestOK, TableOK, SignedOK, Pairs
<1>2. faults' \in 0..MaxFaults BY Numbers DEF Logout, Inv, Shape, RestOK
<1>3. \A c \in Calls : CallOK(c)' BY <1>1 DEF Inv, CallOK, calls, signed
<1>4. \A c, d \in Calls : Apart(c, d)' BY <1>1 DEF Inv, Apart, calls
<1>5. \A g \in Families : CookieOK(g)'
  <2> SUFFICES ASSUME NEW g \in Families PROVE CookieOK(g)' OBVIOUS
  <2>1. CookieOK(g) BY DEF Inv
  <2> QED BY <1>1, <2>1 DEF CookieOK, signed
<1>6. /\ row' \in [Pairs -> Row]
      /\ ended' \in [Families -> {"no", "logout", "reuse", "all"}]
      /\ \A r \in Pairs : RowOK(r)'
      /\ \A q, r \in Pairs : OneClaimed(q, r)'
      /\ \A g \in Families : EndedOK(g)'
  <2>1. CASE Revoke(LiveRows(f), "LOGOUT") /\ End({f}, "logout")
    <3>1. LiveRows(f) \in SUBSET Pairs /\ "LOGOUT" \in Reasons \ {Live}
      BY <1>1 DEF LiveRows, Reasons, Live
    <3>2. /\ row' \in [Pairs -> Row] /\ \A r \in Pairs : RevokeOnly(r)
          /\ \A r \in LiveRows(f) : row'[r].reason # Live
      BY <2>1, <3>1, RevokeStep
    <3>3. /\ ended' \in [Families -> {"no", "logout", "reuse", "all"}]
          /\ \A g \in Families : ended'[g] # ended[g] => g = f
      <4>1. {f} \in SUBSET Families OBVIOUS
      <4> QED BY <2>1, <4>1, EndFamilies
    <3>4. \A r \in Pairs : r \in exists /\ family[r] = f => row'[r].reason # Live
      BY <3>2 DEF LiveRows, RevokeOnly
    <3>5. \E p \in 1..issued : family[p] = f BY <1>1 DEF CookieOK
    <3> QED BY <1>1, <3>2, <3>3, <3>4, <3>5, RevokeKeeps
  <2>2. CASE UNCHANGED <<row, ended>>
    BY <1>1, <2>2 DEF Inv, Shape, TableOK, RestOK, RowOK, OneClaimed, Claimed, EndedOK, signed
  <2> QED BY <2>1, <2>2 DEF Logout
<1>7. Shape'
  BY <1>1, <1>2, <1>6 DEF Inv, Shape, TableOK, SignedOK, CallsOK, RestOK, signed, calls
<1> QED BY <1>3, <1>4, <1>5, <1>6, <1>7 DEF Inv

LEMMA StartLogoutAllInv ==
  ASSUME Inv, NEW c \in Calls, NEW p \in Pairs, StartLogoutAll(c, p) PROVE Inv'
<1>1. /\ CallsOK /\ p \in given /\ p \in 0..MaxPairs /\ "revokeAll" \in Awaits /\ p # 0
      /\ row \in [Pairs -> Row] /\ exists \subseteq Pairs
  BY Numbers DEF StartLogoutAll, Inv, Shape, RestOK, TableOK, SignedOK, Pairs, Awaits
<1>2. /\ at' \in [Calls -> Awaits] /\ at'[c] = "revokeAll"
      /\ \A d \in Calls : d # c => at'[d] = at[d]
  BY <1>1, GotoStep DEF StartLogoutAll
<1>3. jtis' \in [Calls -> SUBSET Pairs]
  <2>1. {row[r].pair : r \in {q \in exists : row[q].reason = Live}} \in SUBSET Pairs
    <3>1. \A r \in exists : row[r].pair \in Pairs BY <1>1 DEF Row
    <3> QED BY <3>1
  <2> QED BY <1>1, <2>1 DEF StartLogoutAll, CallsOK
<1>4. CallsOK' /\ token'[c] = p /\ \A d \in Calls : d # c => Same(d)
  BY <1>1, <1>2, <1>3 DEF StartLogoutAll, CallsOK, Same
<1>5. CallOK(c)' BY <1>1, <1>2, <1>4 DEF CallOK, StartLogoutAll, past
<1> QED BY <1>2, <1>4, <1>5, LocalStep DEF StartLogoutAll, Holding, Inv, Shape, RestOK

LEMMA RevokeAllInv == ASSUME Inv, NEW c \in Calls, RevokeAll(c) PROVE Inv'
<1> DEFINE S == {r \in exists : row[r].reason = Live}
           F == {family[p] : p \in 1..issued}
<1>1. /\ CallsOK /\ CallOK(c) /\ at[c] = "revokeAll" /\ "block" \in Awaits
      /\ exists \subseteq Pairs
      /\ UNCHANGED <<exists, signed, blocked, token, old, new, jtis, client, given, faults>>
  BY Numbers DEF RevokeAll, Inv, Shape, TableOK, SignedOK, Awaits, Pairs
<1>2. Revoke(S, "LOGOUT") /\ S \in SUBSET Pairs /\ "LOGOUT" \in Reasons \ {Live}
  BY <1>1 DEF RevokeAll, Reasons, Live
<1>3. F \in SUBSET Families
  <2>1. SignedOK BY DEF Inv, Shape
  <2>2. \A q \in 1..issued : q \in Pairs /\ ~(q > issued)
    BY <2>1, Numbers DEF SignedOK, Pairs
  <2> QED BY <2>1, <2>2 DEF SignedOK
<1>4. End(F, "all") BY DEF RevokeAll
<1> HIDE DEF F
<1>5. /\ ended' \in [Families -> {"no", "logout", "reuse", "all"}]
      /\ \A g \in Families : ended'[g] # ended[g] => g \in F
  BY <1>3, <1>4, EndFamilies
<1>6. /\ at' \in [Calls -> Awaits] /\ at'[c] = "block"
      /\ \A d \in Calls : d # c => at'[d] = at[d]
  BY <1>1, GotoStep DEF RevokeAll
<1>7. CallsOK' /\ \A d \in Calls : Same(d) \/ d = c BY <1>1, <1>6 DEF CallsOK, Same
<1> HIDE DEF S
<1>8. /\ row' \in [Pairs -> Row] /\ \A r \in Pairs : RevokeOnly(r)
      /\ \A r \in S : row'[r].reason # Live
  BY <1>2, RevokeStep
<1>9. \A r \in Pairs : r \in exists => row'[r].reason # Live
  BY <1>8 DEF S, RevokeOnly
<1>10. Shape'
  BY <1>1, <1>5, <1>7, <1>8 DEF Inv, Shape, TableOK, SignedOK, RestOK, signed, client
<1>11. \A d \in Calls : CallOK(d)'
  <2> SUFFICES ASSUME NEW d \in Calls PROVE CallOK(d)' OBVIOUS
  <2>1. CASE d = c BY <1>1, <1>6, <2>1 DEF CallOK
  <2>2. CASE d # c
    <3>1. CallOK(d) /\ Same(d) BY <1>7, <2>2 DEF Inv
    <3> QED BY <1>1, <3>1 DEF CallOK, Same, signed
  <2> QED BY <2>1, <2>2
<1>12. \A b, d \in Calls : Apart(b, d)' BY <1>6, <1>7, ApartFrame DEF Holding
<1>13. \A g \in Families : CookieOK(g)' BY <1>1 DEF Inv, CookieOK, client, signed
<1>14. /\ \A r \in Pairs : RowOK(r)'
       /\ \A q, r \in Pairs : OneClaimed(q, r)'
       /\ \A g \in Families : EndedOK(g)'
  <2>1. \A g \in F : \E p \in 1..issued : family[p] = g BY DEF F
  <2> QED BY <1>1, <1>5, <1>8, <1>9, <2>1, RevokeKeeps
<1> QED BY <1>10, <1>11, <1>12, <1>13, <1>14 DEF Inv

\* A call of logoutAllDevices ends, and an answer of it clears the cookie.
LEMMA ClearStep ==
  ASSUME Inv, NEW c \in Calls, Finish(c), UNCHANGED <<table, signed, held, past>>,
         cookie' \in {cookie, Cleared(c)}, blocked' \subseteq Pairs, faults' \in 0..MaxFaults
  PROVE  Inv'
<1>1. CallsOK /\ 0 \in 0..MaxPairs /\ cookie \in [Families -> 0..MaxPairs]
  BY Numbers DEF Inv, Shape, RestOK
<1>2. /\ CallsOK' /\ at'[c] = "idle" /\ token'[c] = 0
      /\ \A d \in Calls : d # c => Same(d)
  BY <1>1, FinishStep
<1>3. cookie' \in [Families -> 0..MaxPairs] /\ \A f \in Families : cookie'[f] \in {0, cookie[f]}
  BY <1>1 DEF Cleared
<1>4. RestOK' BY <1>1, <1>3 DEF Inv, Shape, RestOK, signed, past
<1>5. \A f \in Families : CookieOK(f)' BY <1>1, <1>3 DEF Inv, CookieOK, signed
<1>6. CallOK(c)' BY <1>2 DEF CallOK
<1> QED BY <1>2, <1>4, <1>5, <1>6, CallStep DEF Holding

LEMMA BlockInv == ASSUME Inv, NEW c \in Calls, Block(c) PROVE Inv'
<1>1. jtis[c] \subseteq Pairs BY DEF Inv, Shape, CallsOK
<1>2. cookie' \in {cookie, Cleared(c)} /\ blocked' \subseteq Pairs /\ faults' \in 0..MaxFaults
  BY <1>1, Numbers DEF Block, Inv, Shape, RestOK
<1> QED BY <1>2, ClearStep DEF Block

LEMMA FailInv == ASSUME Inv, NEW c \in Calls, Fail(c) PROVE Inv'
<1>1. cookie' \in {cookie, Cleared(c)} /\ blocked' \subseteq Pairs /\ faults' \in 0..MaxFaults
  BY Numbers DEF Fail, Inv, Shape, RestOK
<1> QED BY <1>1, ClearStep DEF Fail

LEMMA CleanupInv == ASSUME Inv, Cleanup PROVE Inv'
<1> DEFINE gone == {r \in exists : Stale(r)}
<1>1. /\ exists' = exists \ gone
      /\ row' = [r \in Pairs |-> IF r \in gone THEN NewRow(r) ELSE row[r]]
      /\ UNCHANGED <<signed, blocked, calls, client, past, faults>>
  BY DEF Cleanup
<1> HIDE DEF gone
<1>2. TableOK' BY <1>1, FreshRow DEF Inv, Shape, TableOK, signed
<1>3. Shape'
  BY <1>1, <1>2 DEF Inv, Shape, SignedOK, CallsOK, RestOK, signed, calls, client, past
<1>4. \A c \in Calls : CallOK(c)' BY <1>1 DEF Inv, CallOK, calls, signed, past
<1>5. \A c, d \in Calls : Apart(c, d)' BY <1>1 DEF Inv, Apart, calls
<1>6. \A f \in Families : CookieOK(f)' BY <1>1 DEF Inv, CookieOK, client, signed
<1>7. /\ \A r \in Pairs : RowOK(r)'
      /\ \A q, r \in Pairs : OneClaimed(q, r)'
      /\ \A f \in Families : EndedOK(f)'
  <2>1. \A r \in Pairs : row'[r] = row[r] \/ row'[r] = NewRow(r) BY <1>1
  <2>2. exists \subseteq Pairs
    BY Numbers DEF Inv, Shape, TableOK, SignedOK, Pairs
  <2>3. \A r \in exists' : row'[r] = row[r] BY <1>1, <2>2
  <2> QED BY <1>1, <2>1, <2>3, RemoveKeeps DEF past
<1> QED BY <1>3, <1>4, <1>5, <1>6, <1>7 DEF Inv

LEMMA TickInv == ASSUME Inv, Tick PROVE Inv'
<1>1. /\ UNCHANGED <<exists, issued, family, blocked, calls, client, past, faults>>
      /\ row \in [Pairs -> Row] /\ age \in [Pairs -> 0..RefreshTTL + 1]
  BY DEF Tick, Inv, Shape, TableOK, SignedOK
<1>2. ASSUME NEW top \in Nat, NEW n \in 0..top PROVE Older(n, top) \in 0..top
  BY DEF Older
<1>3. age' \in [Pairs -> 0..RefreshTTL + 1]
  <2>1. RefreshTTL + 1 \in Nat /\ 0 \in 0..RefreshTTL + 1 BY Numbers
  <2>2. \A p \in Pairs : Older(age[p], RefreshTTL + 1) \in 0..RefreshTTL + 1
    BY <1>1, <1>2, <2>1
  <2> QED BY <2>1, <2>2 DEF Tick
<1>4. \A r \in Pairs : /\ row'[r] \in Row /\ row'[r].pair = row[r].pair
                       /\ row'[r].by = row[r].by /\ row'[r].reason = row[r].reason
  <2> SUFFICES ASSUME NEW r \in Pairs
               PROVE  /\ row'[r] \in Row /\ row'[r].pair = row[r].pair
                      /\ row'[r].by = row[r].by /\ row'[r].reason = row[r].reason
    OBVIOUS
  <2> DEFINE m == IF row[r].reason = Live THEN row[r].revokedFor
                  ELSE Older(row[r].revokedFor, Retention + 1)
             n == IF row[r].by = 0 THEN row[r].supersededFor
                  ELSE Older(row[r].supersededFor, Grace + 1)
  <2>1. /\ row[r] \in Row /\ row[r].revokedFor \in 0..Retention + 1
        /\ row[r].supersededFor \in 0..Grace + 1
    BY <1>1 DEF Row
  <2>2. Retention + 1 \in Nat /\ Grace + 1 \in Nat BY Numbers
  <2>3. m \in 0..Retention + 1 /\ n \in 0..Grace + 1 BY <1>2, <2>1, <2>2
  <2>4. row'[r] = [row[r] EXCEPT !.revokedFor = m, !.supersededFor = n] BY DEF Tick
  <2> DEFINE y == [row[r] EXCEPT !.revokedFor = m, !.supersededFor = n]
  <2> HIDE DEF m, n
  <2>5. y \in Row /\ y.pair = row[r].pair /\ y.by = row[r].by /\ y.reason = row[r].reason
    <3> DEFINE x == row[r]
    <3>1. x \in Row BY <2>1
    <3> HIDE DEF x
    <3>2. /\ [x EXCEPT !.revokedFor = m, !.supersededFor = n] \in Row
          /\ [x EXCEPT !.revokedFor = m, !.supersededFor = n].pair = x.pair
          /\ [x EXCEPT !.revokedFor = m, !.supersededFor = n].by = x.by
          /\ [x EXCEPT !.revokedFor = m, !.supersededFor = n].reason = x.reason
      BY <2>3, <3>1, AgedRow
    <3> QED BY <3>2 DEF x
  <2>6. row'[r] = y BY <2>4
  <2> HIDE DEF y
  <2> QED BY <2>5, <2>6
<1>5. row' \in [Pairs -> Row] BY <1>4 DEF Tick
<1>6. Shape'
  BY <1>1, <1>3, <1>5 DEF Inv, Shape, TableOK, SignedOK, CallsOK, RestOK, calls, client, past
<1>7. \A c \in Calls : CallOK(c)' BY <1>1 DEF Inv, CallOK, calls, past
<1>8. \A c, d \in Calls : Apart(c, d)' BY <1>1 DEF Inv, Apart, calls
<1>9. \A r \in Pairs : RowOK(r)' BY <1>1, <1>4 DEF Inv, RowOK, past
<1>10. \A f \in Families : CookieOK(f)' BY <1>1 DEF Inv, CookieOK, client
<1>11. \A r \in Pairs : Claimed(r)' = Claimed(r) BY <1>1, <1>4 DEF Claimed, past
<1>12. \A q, r \in Pairs : OneClaimed(q, r)' BY <1>1, <1>11 DEF Inv, OneClaimed
<1>13. \A f \in Families : EndedOK(f)' BY <1>1, <1>11 DEF Inv, EndedOK, past
<1> QED BY <1>6, <1>7, <1>8, <1>9, <1>10, <1>12, <1>13 DEF Inv

-----------------------------------------------------------------------------
(***************************************************************************)
(* The theorems                                                            *)
(***************************************************************************)
LEMMA NextInv == Inv /\ [Next]_vars => Inv'
<1> SUFFICES ASSUME Inv, [Next]_vars PROVE Inv' OBVIOUS
<1>1. CASE UNCHANGED vars
  BY <1>1 DEF Inv, Shape, TableOK, SignedOK, CallsOK, RestOK, CallOK, Apart, RowOK, CookieOK,
     OneClaimed, Claimed, EndedOK, vars, table, signed, calls, client, past
<1>2. CASE \E f \in Families : Login(f) \/ Logout(f) BY <1>2, LoginInv, LogoutInv
<1>3. ASSUME NEW c \in Calls, Refresh(c) PROVE Inv'
  BY <1>3, FindActiveInv, CreateRowInv, ClaimInv, UndoInv, LookupInv, ReadCurrentInv,
     ReissueInv, ReuseInv, AnswerInv DEF Refresh
<1>4. ASSUME NEW c \in Calls,
             \/ RevokeAll(c) \/ Block(c) \/ Fail(c)
             \/ \E p \in Pairs : StartRefresh(c, p) \/ StartLogoutAll(c, p)
      PROVE  Inv'
  BY <1>4, RevokeAllInv, BlockInv, FailInv, StartRefreshInv, StartLogoutAllInv
<1> QED BY <1>1, <1>2, <1>3, <1>4, CleanupInv, TickInv DEF Next

LEMMA AlwaysInv == Spec => []Inv
BY InitInv, NextInv, PTL DEF Spec

\* The types hold, and with them what each await of a call has in hand.
THEOREM TypesHold == Spec => []TypeOK
BY AlwaysInv, InvIsTyped, PTL

\* Refreshes racing with one token, whichever of them die, never leave a family
\* with two tokens that can be refreshed.
THEOREM OneSession == Spec => []OneSessionPerFamily
<1>1. Inv => OneSessionPerFamily
  <2> SUFFICES ASSUME Inv, NEW f \in Families, NEW q \in LiveRows(f), NEW r \in LiveRows(f),
                      row[q].pair \in given, row[r].pair \in given
               PROVE  q = r
    BY DEF OneSessionPerFamily
  <2>1. exists \subseteq Pairs
    BY Numbers DEF Inv, Shape, TableOK, SignedOK, Pairs
  <2>2. q \in Pairs /\ r \in Pairs /\ q \in exists /\ r \in exists /\ family[q] = family[r]
        /\ row[q].reason = Live /\ row[r].reason = Live
    BY <2>1 DEF LiveRows
  <2>3. RowOK(q) /\ RowOK(r) /\ OneClaimed(q, r) BY <2>2 DEF Inv
  <2> QED BY <2>2, <2>3 DEF RowOK, OneClaimed, Claimed
<1> QED BY <1>1, AlwaysInv, PTL

\* A session that was ended stays dead, whatever was under way when it was.
THEOREM EndedStaysDead == Spec => []EndedSessionIsDead
<1>1. Inv => EndedSessionIsDead
  <2> SUFFICES ASSUME Inv, NEW f \in Families, ended[f] # "no", NEW r \in LiveRows(f),
                      row[r].pair \in given
               PROVE  FALSE
    BY DEF EndedSessionIsDead
  <2>1. exists \subseteq Pairs
    BY Numbers DEF Inv, Shape, TableOK, SignedOK, Pairs
  <2>2. r \in Pairs /\ r \in exists /\ family[r] = f /\ row[r].reason = Live
    BY <2>1 DEF LiveRows
  <2>3. RowOK(r) /\ EndedOK(f) BY <2>2 DEF Inv
  <2> QED BY <2>2, <2>3 DEF RowOK, EndedOK, Claimed
<1> QED BY <1>1, AlwaysInv, PTL

-----------------------------------------------------------------------------
(***************************************************************************)
(* RefreshTokens implements SessionChain: seen from outside, the queries   *)
(* of racing calls are a chain of tokens.  With it, no session and no row  *)
(* in its grace period is lost before its time.                            *)
(***************************************************************************)

(***************************************************************************)
(* A rotated row and its successor                                         *)
(***************************************************************************)
Lives(r) == r \in exists /\ row[r].reason = Live

\* Numbers not signed yet have no age.
AgeOK(p) == p \notin 1..issued => age[p] = 0

\* A live row has not begun to count the time since its revocation.
FreshOK(r) == row[r].reason = Live => row[r].revokedFor = 0

\* Only claimed rows are superseded.
UnclaimedOK(r) == r \notin given => row[r].by = 0

\* The successor of a rotated row is younger, so that the cleanup cannot take it
\* first; inside the grace period it is there, and neither row has been revoked
\* for longer than the grace period has lasted.
SuccessorOK(r) ==
  LET n == row[r].by IN
  r \in exists /\ n # 0 =>
    /\ family[n] = family[r] /\ age[n] <= age[r]
    /\ row[r].supersededFor <= Grace =>
         /\ n \in exists
         /\ row[r].revokedFor <= row[r].supersededFor
         /\ row[n].revokedFor <= row[r].supersededFor

\* A call that can still win its claim has a live row to answer with.
ClaimPair(c) ==
  at[c] = "claim" =>
    /\ age[new[c]] <= age[old[c]]
    /\ Lives(old[c]) => Lives(new[c])

Chained ==
  /\ \A p \in Pairs : AgeOK(p)
  /\ \A r \in Pairs : FreshOK(r)
  /\ \A r \in Pairs : UnclaimedOK(r)
  /\ \A r \in Pairs : SuccessorOK(r)
  /\ \A c \in Calls : ClaimPair(c)

\* What every step may use.
LEMMA Facts ==
  ASSUME Inv
  PROVE  /\ issued \in Nat /\ exists \subseteq 1..issued /\ given \subseteq 1..issued
         /\ 1..issued \subseteq Pairs /\ exists \subseteq Pairs /\ given \subseteq Pairs
         /\ Pairs \subseteq Nat /\ 0 \notin Pairs
         /\ \A r \in Pairs : row[r] \in Row /\ row[r].by \in Pairs \cup {0}
                             /\ row[r].revokedFor \in Nat /\ row[r].supersededFor \in Nat
         /\ \A p \in Pairs : age[p] \in Nat
         /\ \A r \in Pairs : row[r].by # 0 => row[r].by \in given /\ row[r].by \in Pairs
         /\ \A c \in Calls : at[c] = "claim" =>
              /\ old[c] \in given /\ old[c] \in Pairs /\ new[c] \in Pairs
              /\ new[c] \in 1..issued /\ new[c] \notin given
              /\ family[new[c]] = family[old[c]] /\ new[c] # old[c]
<1>1. /\ issued \in Nat /\ exists \subseteq 1..issued /\ given \subseteq 1..issued
      /\ 1..issued \subseteq Pairs /\ Pairs \subseteq Nat /\ 0 \notin Pairs
  BY Numbers DEF Inv, Shape, TableOK, SignedOK, RestOK, Pairs
<1>2. \A r \in Pairs : row[r] \in Row /\ row[r].by \in Pairs \cup {0}
                       /\ row[r].revokedFor \in Nat /\ row[r].supersededFor \in Nat
  BY Numbers DEF Inv, Shape, TableOK, Row
<1>3. \A p \in Pairs : age[p] \in Nat BY Numbers DEF Inv, Shape, SignedOK
<1>4. \A r \in Pairs : row[r].by # 0 => row[r].by \in given /\ row[r].by \in Pairs
  BY <1>2 DEF Inv, RowOK
<1>5. ASSUME NEW c \in Calls, at[c] = "claim"
      PROVE  /\ old[c] \in given /\ old[c] \in Pairs /\ new[c] \in Pairs
             /\ new[c] \in 1..issued /\ new[c] \notin given
             /\ family[new[c]] = family[old[c]] /\ new[c] # old[c]
  BY <1>1, <1>5 DEF Inv, CallOK
<1> QED BY <1>1, <1>2, <1>3, <1>4, <1>5

\* No call comes to its claim, and the rows of those that are there stay.
Keeps(d) ==
  at'[d] = "claim" => at[d] = "claim" /\ old'[d] = old[d] /\ new'[d] = new[d]

LEMMA CallsKeep ==
  ASSUME Inv, NEW c \in Calls,
         \/ \E p \in Pairs : StartRefresh(c, p) \/ StartLogoutAll(c, p)
         \/ FindActive(c) \/ Claim(c) \/ Undo(c) \/ Lookup(c) \/ ReadCurrent(c)
         \/ Reissue(c) \/ Reuse(c) \/ Answer(c) \/ RevokeAll(c) \/ Block(c) \/ Fail(c)
  PROVE  \A d \in Calls : Keeps(d)
<1>1. CallsOK BY DEF Inv, Shape
<1>2. CASE \E p \in Pairs : StartRefresh(c, p) \/ StartLogoutAll(c, p)
  BY <1>1, <1>2 DEF StartRefresh, StartLogoutAll, Goto, CallsOK, Keeps
<1>3. CASE FindActive(c) BY <1>1, <1>3 DEF FindActive, Goto, CallsOK, Keeps
<1>4. CASE Claim(c) BY <1>1, <1>4 DEF Claim, Goto, CallsOK, Keeps
<1>5. CASE Undo(c) BY <1>1, <1>5 DEF Undo, Finish, Goto, CallsOK, Keeps
<1>6. CASE Lookup(c) BY <1>1, <1>6 DEF Lookup, Finish, Goto, CallsOK, Keeps
<1>7. CASE ReadCurrent(c) BY <1>1, <1>7 DEF ReadCurrent, Goto, CallsOK, Keeps
<1>8. CASE Reissue(c) BY <1>1, <1>8 DEF Reissue, Finish, Goto, CallsOK, Keeps
<1>9. CASE Reuse(c) \/ Answer(c) \/ Block(c) \/ Fail(c)
  BY <1>1, <1>9 DEF Reuse, Answer, Block, Fail, Finish, Goto, CallsOK, Keeps
<1>10. CASE RevokeAll(c) BY <1>1, <1>10 DEF RevokeAll, Goto, CallsOK, Keeps
<1> QED BY <1>2, <1>3, <1>4, <1>5, <1>6, <1>7, <1>8, <1>9, <1>10

-----------------------------------------------------------------------------
(***************************************************************************)
(* Chained is preserved: one lemma for each kind of step                   *)
(***************************************************************************)
LEMMA InitChained == Init => Chained
<1> SUFFICES ASSUME Init PROVE Chained OBVIOUS
<1>1. \A r \in Pairs : row[r].by = 0 /\ row[r].revokedFor = 0 /\ age[r] = 0
  BY DEF Init, NewRow
<1>2. \A c \in Calls : at[c] = "idle" BY DEF Init
<1> QED BY <1>1, <1>2
        DEF Chained, AgeOK, FreshOK, UnclaimedOK, SuccessorOK, ClaimPair

\* Nothing but the calls, the cookies and the blocklist changes.
LEMMA TableUntouched ==
  ASSUME Inv, Chained, UNCHANGED <<table, signed, given>>, \A d \in Calls : Keeps(d)
  PROVE  Chained'
BY DEF Chained, AgeOK, FreshOK, UnclaimedOK, SuccessorOK, ClaimPair, Lives, Keeps,
   table, signed

\* A revocation that takes all or none of the live rows of a family.
Revocation(S) ==
  \A r \in Pairs :
    IF r \in S
      THEN /\ row'[r].reason # Live /\ row'[r].revokedFor = 0 /\ row'[r].pair = row[r].pair
           /\ row'[r].by = row[r].by /\ row'[r].supersededFor = row[r].supersededFor
      ELSE row'[r] = row[r]

LEMMA RevokeIsRevocation ==
  ASSUME Inv, NEW S \in SUBSET Pairs, NEW why \in Reasons \ {Live}, Revoke(S, why)
  PROVE  Revocation(S)
<1>1. TableOK /\ why # Live BY DEF Inv, Shape
<1>2. ASSUME NEW r \in Pairs
      PROVE  /\ Revoked(r, why).reason # Live /\ Revoked(r, why).revokedFor = 0
             /\ Revoked(r, why).pair = row[r].pair /\ Revoked(r, why).by = row[r].by
             /\ Revoked(r, why).supersededFor = row[r].supersededFor
  BY <1>1 DEF Revoked, Row, TableOK
<1>3. \A r \in Pairs : row'[r] = IF r \in S THEN Revoked(r, why) ELSE row[r] BY DEF Revoke
<1> QED BY <1>2, <1>3 DEF Revocation

LEMMA RowsRevoked ==
  ASSUME Inv, Chained, UNCHANGED <<exists, signed, given>>, \A d \in Calls : Keeps(d),
         NEW S, Revocation(S),
         \A q, r \in Pairs : Lives(q) /\ Lives(r) /\ family[q] = family[r] /\ r \in S => q \in S
  PROVE  Chained'
<1>1. \A p \in Pairs : AgeOK(p)' BY DEF Chained, AgeOK, signed
<1>2. \A r \in Pairs : FreshOK(r)' BY DEF Chained, FreshOK, Revocation
<1>3. \A r \in Pairs : UnclaimedOK(r)' BY DEF Chained, UnclaimedOK, Revocation
<1>4. \A r \in Pairs : SuccessorOK(r)'
  <2> SUFFICES ASSUME NEW r \in Pairs PROVE SuccessorOK(r)' OBVIOUS
  <2>1. /\ row'[r].by = row[r].by /\ row'[r].supersededFor = row[r].supersededFor
        /\ row'[r].revokedFor = 0 \/ row'[r].revokedFor = row[r].revokedFor
    BY DEF Revocation
  <2>2. \A n \in Pairs : row'[n].revokedFor = 0 \/ row'[n].revokedFor = row[n].revokedFor
    BY DEF Revocation
  <2>3. SuccessorOK(r) BY DEF Chained
  <2> QED BY <2>1, <2>2, <2>3, Facts DEF SuccessorOK, signed
<1>5. \A c \in Calls : ClaimPair(c)'
  <2> SUFFICES ASSUME NEW c \in Calls, at'[c] = "claim" PROVE ClaimPair(c)' BY DEF ClaimPair
  <2>1. at[c] = "claim" /\ old'[c] = old[c] /\ new'[c] = new[c] BY DEF Keeps
  <2>2. ClaimPair(c) BY DEF Chained
  <2>3. old[c] \in Pairs /\ new[c] \in Pairs /\ family[new[c]] = family[old[c]] BY <2>1, Facts
  <2>4. ASSUME Lives(old[c])' PROVE Lives(new[c])'
    <3>1. old[c] \notin S /\ Lives(old[c]) BY <2>1, <2>3, <2>4 DEF Lives, Revocation
    <3>2. Lives(new[c]) BY <2>1, <2>2, <3>1 DEF ClaimPair
    <3>3. new[c] \notin S BY <2>3, <3>1, <3>2
    <3> QED BY <2>1, <2>3, <3>2, <3>3 DEF Lives, Revocation
  <2> QED BY <2>1, <2>2, <2>4 DEF ClaimPair, signed
<1> QED BY <1>1, <1>2, <1>3, <1>4, <1>5 DEF Chained
\* Rows are removed, never the row of a call that can still win, and the
\* successor of a row in its grace period only with it.
LEMMA RowsRemoved ==
  ASSUME Inv, Chained, UNCHANGED <<signed, given>>, \A d \in Calls : Keeps(d),
         exists' \subseteq exists,
         \A r \in Pairs : r \in exists' => row'[r] = row[r],
         \A r \in Pairs : row'[r] = row[r] \/ row'[r] = NewRow(r),
         \A r \in exists' : InGrace(r) => row[r].by \in exists',
         \A d \in Calls : at'[d] = "claim" /\ Lives(old[d]) /\ old[d] \in exists' =>
           new[d] \in exists'
  PROVE  Chained'
<1>1. \A p \in Pairs : AgeOK(p)' BY DEF Chained, AgeOK, signed
<1>0. \A r \in Pairs : NewRow(r).revokedFor = 0 /\ NewRow(r).by = 0 BY DEF NewRow
<1>2. \A r \in Pairs : FreshOK(r)' BY <1>0 DEF Chained, FreshOK
<1>3. \A r \in Pairs : UnclaimedOK(r)' BY <1>0 DEF Chained, UnclaimedOK
<1>4. \A r \in Pairs : SuccessorOK(r)'
  <2> SUFFICES ASSUME NEW r \in Pairs, r \in exists' PROVE SuccessorOK(r)' BY DEF SuccessorOK
  <2>1. SuccessorOK(r) /\ row'[r] = row[r] /\ r \in exists BY DEF Chained
  <2>2. row[r].by # 0 => row[r].by \in Pairs BY Facts
  <2> QED BY <2>1, <2>2 DEF SuccessorOK, signed, InGrace
<1>5. \A c \in Calls : ClaimPair(c)'
  <2> SUFFICES ASSUME NEW c \in Calls, at'[c] = "claim" PROVE ClaimPair(c)' BY DEF ClaimPair
  <2>1. at[c] = "claim" /\ old'[c] = old[c] /\ new'[c] = new[c] BY DEF Keeps
  <2>2. ClaimPair(c) BY DEF Chained
  <2>3. old[c] \in Pairs /\ new[c] \in Pairs BY <2>1, Facts
  <2> QED BY <2>1, <2>2, <2>3 DEF ClaimPair, Lives, signed
<1> QED BY <1>1, <1>2, <1>3, <1>4, <1>5 DEF Chained

LEMMA UndoChained == ASSUME Inv, Chained, NEW c \in Calls, Undo(c) PROVE Chained'
<1>1. \A d \in Calls : Keeps(d) BY CallsKeep
<1>2. CASE UNCHANGED table BY <1>1, <1>2, TableUntouched DEF Undo, past
<1>3. CASE exists' = exists \ {new[c]} /\ row' = [row EXCEPT ![new[c]] = NewRow(new[c])]
  <2>1. at[c] = "undo" /\ UNCHANGED <<signed, given>> BY DEF Undo, past
  <2>2. new[c] \in Pairs /\ new[c] \notin given BY <2>1, Facts DEF Inv, CallOK
  <2>3. \A r \in Pairs : IF r = new[c] THEN row'[r] = NewRow(r) ELSE row'[r] = row[r]
    BY <1>3, <2>2 DEF Inv, Shape, TableOK
  <2>4. \A r \in exists' : InGrace(r) => row[r].by \in exists'
    <3> SUFFICES ASSUME NEW r \in exists, InGrace(r) PROVE row[r].by \in exists /\ row[r].by # new[c]
      BY <1>3
    <3>1. r \in Pairs /\ row[r].by # 0 BY Facts DEF InGrace
    <3>2. row[r].by \in given /\ SuccessorOK(r) BY <3>1, Facts DEF Chained
    <3> QED BY <2>2, <3>1, <3>2 DEF SuccessorOK, InGrace
  <2>5. ASSUME NEW d \in Calls, at'[d] = "claim", Lives(old[d]) PROVE new[d] \in exists'
    <3>1. at[d] = "claim" /\ new'[d] = new[d] /\ c # d BY <1>1, <2>1, <2>5 DEF Keeps
    <3>2. Apart(c, d) /\ ClaimPair(d) BY DEF Inv, Chained
    <3>3. new[d] # new[c] BY <2>1, <3>1, <3>2 DEF Apart
    <3>4. new[d] \in exists BY <2>5, <3>1, <3>2 DEF ClaimPair, Lives
    <3> QED BY <1>3, <3>3, <3>4
  <2>6. \A r \in Pairs : r \in exists' => row'[r] = row[r] BY <1>3, <2>3
  <2>7. \A r \in Pairs : row'[r] = row[r] \/ row'[r] = NewRow(r) BY <2>3
  <2> QED BY <1>1, <1>3, <2>1, <2>4, <2>5, <2>6, <2>7, RowsRemoved
<1> QED BY <1>2, <1>3 DEF Undo

\* What the cleanup may take: a live row only when it has expired, and no row
\* that is younger than one it leaves and not revoked for long.
LEMMA StaleRow ==
  ASSUME Inv, Chained, NEW r \in Pairs, Stale(r), age[r] <= RefreshTTL
  PROVE  row[r].reason # Live /\ row[r].revokedFor > Grace
<1>1. row[r].revokedFor \in Nat BY Facts
<1>2. Live \notin {"ROTATED", "LOGOUT", "REUSE_DETECTED"} BY DEF Live
<1> QED BY <1>1, <1>2, Numbers, ThresholdsAssumption, Facts DEF Stale

LEMMA CleanupChained == ASSUME Inv, Chained, Cleanup PROVE Chained'
<1> DEFINE gone == {r \in exists : Stale(r)}
<1>1. /\ exists' = exists \ gone
      /\ row' = [r \in Pairs |-> IF r \in gone THEN NewRow(r) ELSE row[r]]
      /\ UNCHANGED <<signed, calls, given>>
  BY DEF Cleanup, past
<1>2. \A d \in Calls : Keeps(d) BY <1>1 DEF Keeps, calls
<1>3. ASSUME NEW r \in exists', InGrace(r) PROVE row[r].by \in exists'
  <2> DEFINE n == row[r].by
  <2>1. r \in exists /\ r \in Pairs /\ ~Stale(r) /\ n # 0 /\ row[r].supersededFor <= Grace
    BY <1>1, <1>3, Facts DEF InGrace
  <2>2. n \in Pairs /\ SuccessorOK(r) BY <2>1, Facts DEF Chained
  <2>3. /\ n \in exists /\ age[n] <= age[r] /\ row[n].revokedFor <= row[r].supersededFor
    BY <2>1, <2>2 DEF SuccessorOK
  <2>4. age[n] \in Nat /\ age[r] \in Nat /\ row[n].revokedFor \in Nat
        /\ row[r].supersededFor \in Nat
    BY <2>1, <2>2, Facts
  <2>5. age[n] <= RefreshTTL BY <2>1, <2>3, <2>4, Numbers DEF Stale
  <2>6. ~(row[n].revokedFor > Grace) BY <2>1, <2>3, <2>4, Numbers
  <2> QED BY <1>1, <2>2, <2>3, <2>5, <2>6, StaleRow
<1>4. ASSUME NEW d \in Calls, at'[d] = "claim", Lives(old[d]), old[d] \in exists'
      PROVE  new[d] \in exists'
  <2>1. at[d] = "claim" /\ old[d] \in exists /\ ~Stale(old[d])
    BY <1>1, <1>4 DEF calls
  <2>2. ClaimPair(d) /\ old[d] \in Pairs /\ new[d] \in Pairs BY <2>1, Facts DEF Chained
  <2>3. age[new[d]] <= age[old[d]] /\ Lives(new[d]) BY <1>4, <2>1, <2>2 DEF ClaimPair
  <2>4. age[new[d]] \in Nat /\ age[old[d]] \in Nat BY <2>2, Facts
  <2>5. age[new[d]] <= RefreshTTL BY <2>1, <2>3, <2>4, Numbers DEF Stale
  <2> QED BY <1>1, <2>2, <2>3, <2>5, StaleRow DEF Lives
<1>5. \A r \in Pairs : r \in exists' => row'[r] = row[r] BY <1>1
<1>6. \A r \in Pairs : row'[r] = row[r] \/ row'[r] = NewRow(r) BY <1>1
<1> QED BY <1>1, <1>2, <1>3, <1>4, <1>5, <1>6, RowsRemoved

\* A new row, with the number just signed.
LEMMA RowAdded ==
  ASSUME Inv, Chained, NEW p, p = issued + 1, NEW f \in Families, Sign(f),
         exists' = exists \cup {p}, row' = [row EXCEPT ![p] = NewRow(p)],
         given \subseteq given',
         \A d \in Calls : Keeps(d) \/ (at'[d] = "claim" /\ new'[d] = p /\ old'[d] \in given)
  PROVE  Chained'
<1>1. /\ p \in Pairs /\ p \notin 1..issued /\ p \in 1..issued' /\ 1..issued \subseteq 1..issued'
      /\ \A q \in Pairs : q # p => family'[q] = family[q]
  BY SignStep, Facts
<1>2. UNCHANGED age BY DEF Sign
<1>3. \A r \in Pairs : row'[r] = IF r = p THEN NewRow(p) ELSE row[r]
  BY DEF Inv, Shape, TableOK
<1>4. NewRow(p).revokedFor = 0 /\ NewRow(p).by = 0 /\ NewRow(p).reason = Live BY DEF NewRow
<1>5. \A q \in Pairs : AgeOK(q)' BY <1>1, <1>2 DEF Chained, AgeOK
<1>6. \A r \in Pairs : FreshOK(r)' BY <1>3, <1>4 DEF Chained, FreshOK
<1>7. \A r \in Pairs : UnclaimedOK(r)' BY <1>3, <1>4 DEF Chained, UnclaimedOK
<1>8. \A r \in Pairs : SuccessorOK(r)'
  <2> SUFFICES ASSUME NEW r \in Pairs, r # p PROVE SuccessorOK(r)'
    BY <1>3, <1>4 DEF SuccessorOK
  <2>1. SuccessorOK(r) /\ row'[r] = row[r] BY <1>3 DEF Chained
  <2>2. row[r].by # 0 => row[r].by \in Pairs /\ row[r].by # p BY <1>1, Facts
  <2> QED BY <1>1, <1>2, <1>3, <2>1, <2>2 DEF SuccessorOK
<1>9. \A c \in Calls : ClaimPair(c)'
  <2> SUFFICES ASSUME NEW c \in Calls, at'[c] = "claim" PROVE ClaimPair(c)' BY DEF ClaimPair
  <2>1. CASE at[c] = "claim" /\ old'[c] = old[c] /\ new'[c] = new[c]
    <3>1. /\ ClaimPair(c) /\ old[c] \in Pairs /\ new[c] \in Pairs
          /\ old[c] # p /\ new[c] # p
      BY <1>1, <2>1, Facts DEF Chained
    <3> QED BY <1>2, <1>3, <2>1, <3>1 DEF ClaimPair, Lives
  <2>2. CASE new'[c] = p /\ old'[c] \in given
    <3>1. old'[c] \in Pairs BY <2>2, Facts
    <3>2. age[p] = 0 BY <1>1 DEF Chained, AgeOK
    <3>3. age[old'[c]] \in Nat BY <3>1, Facts
    <3>4. age[p] <= age[old'[c]] BY <3>2, <3>3
    <3> QED BY <1>1, <1>2, <1>3, <1>4, <2>2, <3>4 DEF ClaimPair, Lives
  <2> QED BY <2>1, <2>2 DEF Keeps
<1> QED BY <1>5, <1>6, <1>7, <1>8, <1>9 DEF Chained

LEMMA LoginChained == ASSUME Inv, Chained, NEW f \in Families, Login(f) PROVE Chained'
<1>1. /\ Sign(f) /\ exists' = exists \cup {issued + 1}
      /\ row' = [row EXCEPT ![issued + 1] = NewRow(issued + 1)]
      /\ given \subseteq given' /\ \A d \in Calls : Keeps(d)
  BY DEF Login, calls, Keeps
<1> QED BY <1>1, RowAdded

\* The presented token is one that was signed for a session.
LEMMA TokenFamily ==
  ASSUME Inv, NEW c \in Calls, at[c] # "idle" PROVE family[token[c]] \in Families
<1>1. token[c] \in 1..issued /\ token[c] \in Pairs BY Facts DEF Inv, CallOK
<1>2. ~(token[c] > issued) BY <1>1, Facts
<1> QED BY <1>1, <1>2 DEF Inv, Shape, SignedOK

LEMMA CreateRowChained ==
  ASSUME Inv, Chained, NEW c \in Calls, CreateRow(c) PROVE Chained'
<1>1. at[c] = "create" /\ CallsOK /\ old[c] \in given BY DEF CreateRow, Inv, Shape, CallOK
<1>2. /\ Sign(family[token[c]]) /\ exists' = exists \cup {issued + 1}
      /\ row' = [row EXCEPT ![issued + 1] = NewRow(issued + 1)]
      /\ UNCHANGED <<given, old>>
      /\ new' = [new EXCEPT ![c] = issued + 1] /\ Goto(c, "claim")
  BY DEF CreateRow, past
<1>3. issued + 1 \in 0..MaxPairs BY <1>1, <1>2, Facts, Numbers DEF Sign
<1>4. \A d \in Calls :
        Keeps(d) \/ (at'[d] = "claim" /\ new'[d] = issued + 1 /\ old'[d] \in given)
  <2> SUFFICES ASSUME NEW d \in Calls
               PROVE  Keeps(d) \/ (at'[d] = "claim" /\ new'[d] = issued + 1 /\ old'[d] \in given)
    OBVIOUS
  <2>1. CASE d = c BY <1>1, <1>2, <1>3, <2>1 DEF CallsOK, Goto
  <2>2. CASE d # c BY <1>1, <1>2, <2>2 DEF CallsOK, Goto, Keeps
  <2> QED BY <2>1, <2>2
<1>5. family[token[c]] \in Families BY <1>1, TokenFamily
<1> QED BY <1>2, <1>4, <1>5, RowAdded

\* The claim that wins: its new row becomes the successor.
LEMMA ClaimEffect ==
  ASSUME Inv, NEW c \in Calls, Claim(c), Lives(old[c])
  PROVE  /\ UNCHANGED <<exists, signed>> /\ given' = given \cup {new[c]}
         /\ \A r \in Pairs : r # old[c] => row'[r] = row[r]
         /\ row'[old[c]].reason # Live /\ row'[old[c]].by = new[c]
         /\ row'[old[c]].revokedFor = 0 /\ row'[old[c]].supersededFor = 0
<1>1. at[c] = "claim" BY DEF Claim
<1>2. old[c] \in Pairs BY <1>1, Facts
<1>3. /\ row' = [row EXCEPT ![old[c]] = Superseded(old[c], new[c])]
      /\ given' = given \cup {new[c]} /\ UNCHANGED <<exists, signed>>
  BY DEF Claim, Lives
<1>4. /\ row'[old[c]] = Superseded(old[c], new[c])
      /\ \A r \in Pairs : r # old[c] => row'[r] = row[r]
  BY <1>2, <1>3 DEF Inv, Shape, TableOK
<1> QED BY <1>3, <1>4 DEF Superseded, Live

LEMMA ClaimChained == ASSUME Inv, Chained, NEW c \in Calls, Claim(c) PROVE Chained'
<1>1. \A d \in Calls : Keeps(d) BY CallsKeep
<1>2. at[c] = "claim" BY DEF Claim
<1>3. CASE ~Lives(old[c]) BY <1>1, <1>3, TableUntouched DEF Claim, Lives, table
<1>4. CASE Lives(old[c])
  <2> DEFINE o == old[c]
             n == new[c]
  <2>1. /\ o \in Pairs /\ n \in Pairs /\ o \in given /\ n \notin given /\ n # o
        /\ family[n] = family[o]
    BY <1>2, Facts
  <2>2. /\ UNCHANGED <<exists, signed>> /\ given' = given \cup {n}
        /\ \A r \in Pairs : r # o => row'[r] = row[r]
        /\ row'[o].reason # Live /\ row'[o].by = n
        /\ row'[o].revokedFor = 0 /\ row'[o].supersededFor = 0
    BY <1>4, ClaimEffect
  <2>3. age[n] <= age[o] /\ Lives(n) BY <1>2, <1>4 DEF Chained, ClaimPair
  <2> HIDE DEF o, n
  <2>4. row[n].revokedFor = 0 BY <2>1, <2>3 DEF Chained, FreshOK, Lives
  <2>5. \A p \in Pairs : AgeOK(p)' BY <2>2 DEF Chained, AgeOK, signed
  <2>6. \A r \in Pairs : FreshOK(r)' BY <2>2 DEF Chained, FreshOK
  <2>7. \A r \in Pairs : UnclaimedOK(r)' BY <2>1, <2>2 DEF Chained, UnclaimedOK
  <2>8. \A r \in Pairs : SuccessorOK(r)'
    <3> SUFFICES ASSUME NEW r \in Pairs PROVE SuccessorOK(r)' OBVIOUS
    <3>1. CASE r = o
      <4>1. row'[n].revokedFor = 0 BY <2>1, <2>2, <2>4
      <4> QED BY <2>1, <2>2, <2>3, <3>1, <4>1 DEF SuccessorOK, signed, Lives
    <3>2. CASE r # o
      <4>1. SuccessorOK(r) /\ row'[r] = row[r] BY <2>2, <3>2 DEF Chained
      <4>2. row[r].by # 0 => row[r].by \in Pairs BY Facts
      <4>3. \A m \in Pairs : row'[m].revokedFor = 0 \/ row'[m].revokedFor = row[m].revokedFor
        BY <2>2
      <4>4. row[r].supersededFor \in Nat BY Facts
      <4> QED BY <2>2, <4>1, <4>2, <4>3, <4>4 DEF SuccessorOK, signed
    <3> QED BY <3>1, <3>2
  <2>9. \A d \in Calls : ClaimPair(d)'
    <3> SUFFICES ASSUME NEW d \in Calls, at'[d] = "claim" PROVE ClaimPair(d)' BY DEF ClaimPair
    <3>1. at[d] = "claim" /\ old'[d] = old[d] /\ new'[d] = new[d] BY <1>1 DEF Keeps
    <3>2. ClaimPair(d) /\ old[d] \in Pairs /\ new[d] \in Pairs /\ new[d] # o
      BY <2>1, <3>1, Facts DEF Chained
    <3>3. Lives(old[d])' => Lives(old[d]) BY <2>2, <3>1, <3>2 DEF Lives
    <3> QED BY <2>2, <3>1, <3>2, <3>3 DEF ClaimPair, Lives, signed
  <2> QED BY <2>5, <2>6, <2>7, <2>8, <2>9 DEF Chained
<1> QED BY <1>3, <1>4

\* A retry in the grace period: the row gets the pair just signed.
LEMMA ReissueEffect ==
  ASSUME Inv, NEW c \in Calls, Reissue(c), old[c] \in exists
  PROVE  /\ UNCHANGED exists /\ given' = given \cup {issued + 1}
         /\ issued + 1 \in Pairs /\ issued + 1 \notin given
         /\ Sign(family[token[c]]) /\ family[token[c]] \in Families
         /\ \A r \in Pairs : r # old[c] => row'[r] = row[r]
         /\ row'[old[c]].pair = issued + 1 /\ row'[old[c]].reason = row[old[c]].reason
         /\ row'[old[c]].by = row[old[c]].by
         /\ row'[old[c]].revokedFor = row[old[c]].revokedFor
         /\ row'[old[c]].supersededFor = row[old[c]].supersededFor
<1>1. at[c] = "reissue" /\ family[token[c]] \in Families BY TokenFamily DEF Reissue
<1>2. /\ Sign(family[token[c]]) /\ given' = given \cup {issued + 1} /\ UNCHANGED exists
      /\ row' = [row EXCEPT ![old[c]].pair = issued + 1]
  BY DEF Reissue
<1>3. issued + 1 \in Pairs /\ issued + 1 \notin given BY <1>1, <1>2, SignStep, Facts
<1>4. old[c] \in Pairs /\ row[old[c]] \in Row BY Facts
<1>5. /\ \A r \in Pairs : r # old[c] => row'[r] = row[r]
      /\ row'[old[c]] = [row[old[c]] EXCEPT !.pair = issued + 1]
  BY <1>2, <1>4 DEF Inv, Shape, TableOK
<1> QED BY <1>1, <1>2, <1>3, <1>4, <1>5 DEF Row

LEMMA ReissueChained == ASSUME Inv, Chained, NEW c \in Calls, Reissue(c) PROVE Chained'
<1>1. \A d \in Calls : Keeps(d) BY CallsKeep
<1>2. CASE old[c] \notin exists
  BY <1>1, <1>2, TableUntouched DEF Reissue, table, signed
<1>3. CASE old[c] \in exists
  <2> DEFINE p == issued + 1
  <2>1. /\ p \notin 1..issued /\ 1..issued \subseteq 1..issued' /\ UNCHANGED <<exists, age>>
        /\ given \subseteq given' /\ \A q \in Pairs : q # p => family'[q] = family[q]
    BY <1>3, ReissueEffect, SignStep DEF Sign
  <2>2. \A r \in Pairs : /\ row'[r].reason = row[r].reason /\ row'[r].by = row[r].by
                         /\ row'[r].revokedFor = row[r].revokedFor
                         /\ row'[r].supersededFor = row[r].supersededFor
    BY <1>3, ReissueEffect
  <2> HIDE DEF p
  <2>3. \A q \in Pairs : AgeOK(q)' BY <2>1 DEF Chained, AgeOK
  <2>4. \A r \in Pairs : FreshOK(r)' BY <2>2 DEF Chained, FreshOK
  <2>5. \A r \in Pairs : UnclaimedOK(r)' BY <2>1, <2>2 DEF Chained, UnclaimedOK
  <2>6. \A r \in Pairs : SuccessorOK(r)'
    <3> SUFFICES ASSUME NEW r \in Pairs, r \in exists PROVE SuccessorOK(r)'
      BY <2>1 DEF SuccessorOK
    <3>1. SuccessorOK(r) /\ r # p BY <2>1, Facts DEF Chained
    <3>2. row[r].by # 0 => row[r].by \in Pairs /\ row[r].by # p BY <2>1, Facts
    <3> QED BY <2>1, <2>2, <3>1, <3>2 DEF SuccessorOK
  <2>7. \A d \in Calls : ClaimPair(d)'
    <3> SUFFICES ASSUME NEW d \in Calls, at'[d] = "claim" PROVE ClaimPair(d)' BY DEF ClaimPair
    <3>1. at[d] = "claim" /\ old'[d] = old[d] /\ new'[d] = new[d] BY <1>1 DEF Keeps
    <3>2. ClaimPair(d) /\ old[d] \in Pairs /\ new[d] \in Pairs BY <3>1, Facts DEF Chained
    <3> QED BY <2>1, <2>2, <3>1, <3>2 DEF ClaimPair, Lives
  <2> QED BY <2>3, <2>4, <2>5, <2>6, <2>7 DEF Chained
<1> QED BY <1>2, <1>3

LEMMA ReuseChained == ASSUME Inv, Chained, NEW c \in Calls, Reuse(c) PROVE Chained'
<1> DEFINE S == {r \in exists : family[r] = family[token[c]]}
<1>1. S \in SUBSET Pairs /\ "REUSE_DETECTED" \in Reasons \ {Live} BY Facts DEF Reasons, Live
<1>2. Revoke(S, "REUSE_DETECTED") /\ UNCHANGED <<exists, signed, given>> BY DEF Reuse
<1>3. Revocation(S) BY <1>1, <1>2, RevokeIsRevocation
<1>4. \A q, r \in Pairs : Lives(q) /\ Lives(r) /\ family[q] = family[r] /\ r \in S => q \in S
  BY DEF Lives
<1>5. \A d \in Calls : Keeps(d) BY CallsKeep
<1> HIDE DEF S
<1> QED BY <1>2, <1>3, <1>4, <1>5, RowsRevoked

LEMMA RevokeAllChained == ASSUME Inv, Chained, NEW c \in Calls, RevokeAll(c) PROVE Chained'
<1> DEFINE S == {r \in exists : row[r].reason = Live}
<1>1. S \in SUBSET Pairs /\ "LOGOUT" \in Reasons \ {Live} BY Facts DEF Reasons, Live
<1>2. Revoke(S, "LOGOUT") /\ UNCHANGED <<exists, signed, given>> BY DEF RevokeAll
<1>3. Revocation(S) BY <1>1, <1>2, RevokeIsRevocation
<1>4. \A q, r \in Pairs : Lives(q) /\ Lives(r) /\ family[q] = family[r] /\ r \in S => q \in S
  BY DEF Lives
<1>5. \A d \in Calls : Keeps(d) BY CallsKeep
<1> HIDE DEF S
<1> QED BY <1>2, <1>3, <1>4, <1>5, RowsRevoked

LEMMA LogoutChained == ASSUME Inv, Chained, NEW f \in Families, Logout(f) PROVE Chained'
<1>1. \A d \in Calls : Keeps(d) BY DEF Logout, calls, Keeps
<1>2. UNCHANGED <<exists, signed, given>> BY DEF Logout
<1>3. CASE Revoke(LiveRows(f), "LOGOUT")
  <2>1. LiveRows(f) \in SUBSET Pairs /\ "LOGOUT" \in Reasons \ {Live}
    BY Facts DEF LiveRows, Reasons, Live
  <2>2. Revocation(LiveRows(f)) BY <1>3, <2>1, RevokeIsRevocation
  <2>3. \A q, r \in Pairs :
          Lives(q) /\ Lives(r) /\ family[q] = family[r] /\ r \in LiveRows(f) => q \in LiveRows(f)
    BY DEF Lives, LiveRows
  <2> QED BY <1>1, <1>2, <2>2, <2>3, RowsRevoked
<1>4. CASE UNCHANGED row BY <1>1, <1>2, <1>4, TableUntouched DEF table
<1> QED BY <1>3, <1>4 DEF Logout

\* Time passes for a row and its successor alike.
LEMMA TickEffect ==
  ASSUME Inv, Tick, NEW r \in Pairs
  PROVE  /\ row'[r].pair = row[r].pair /\ row'[r].reason = row[r].reason
         /\ row'[r].by = row[r].by
         /\ row'[r].revokedFor =
              IF row[r].reason = Live THEN row[r].revokedFor
              ELSE Older(row[r].revokedFor, Retention + 1)
         /\ row'[r].supersededFor =
              IF row[r].by = 0 THEN row[r].supersededFor
              ELSE Older(row[r].supersededFor, Grace + 1)
         /\ age'[r] = IF r <= issued THEN Older(age[r], RefreshTTL + 1) ELSE 0
<1> DEFINE m == IF row[r].reason = Live THEN row[r].revokedFor
                ELSE Older(row[r].revokedFor, Retention + 1)
           n == IF row[r].by = 0 THEN row[r].supersededFor
                ELSE Older(row[r].supersededFor, Grace + 1)
<1>1. row'[r] = [row[r] EXCEPT !.revokedFor = m, !.supersededFor = n] BY DEF Tick
<1>2. row[r] \in Row BY Facts
<1>3. age'[r] = IF r <= issued THEN Older(age[r], RefreshTTL + 1) ELSE 0 BY DEF Tick
<1> HIDE DEF m, n
<1>4. /\ row'[r].pair = row[r].pair /\ row'[r].reason = row[r].reason
      /\ row'[r].by = row[r].by /\ row'[r].revokedFor = m /\ row'[r].supersededFor = n
  BY <1>1, <1>2 DEF Row
<1> QED BY <1>3, <1>4 DEF m, n

LEMMA TickChained == ASSUME Inv, Chained, Tick PROVE Chained'
<1>1. UNCHANGED <<exists, issued, family, calls, given>> BY DEF Tick, past
<1>2. \A p \in Pairs : AgeOK(p)'
  <2> SUFFICES ASSUME NEW p \in Pairs, p \notin 1..issued PROVE age'[p] = 0
    BY <1>1 DEF AgeOK
  <2>1. ~(p <= issued) BY Facts DEF Pairs
  <2> QED BY <2>1, TickEffect
<1>3. \A r \in Pairs : FreshOK(r)' BY TickEffect DEF Chained, FreshOK
<1>4. \A r \in Pairs : UnclaimedOK(r)' BY <1>1, TickEffect DEF Chained, UnclaimedOK
<1>5. ASSUME NEW p \in 1..issued, NEW q \in 1..issued, age[p] <= age[q]
      PROVE  age'[p] <= age'[q]
  <2>1. p \in Pairs /\ q \in Pairs /\ p <= issued /\ q <= issued BY Facts
  <2>2. age'[p] = Older(age[p], RefreshTTL + 1) /\ age'[q] = Older(age[q], RefreshTTL + 1)
    BY <2>1, TickEffect
  <2>3. age[p] \in 0..RefreshTTL + 1 /\ age[q] \in 0..RefreshTTL + 1
    BY <2>1 DEF Inv, Shape, SignedOK
  <2> QED BY <1>5, <2>2, <2>3, Numbers DEF Older
<1>6. ASSUME NEW r \in Pairs, row[r].by # 0, row'[r].supersededFor <= Grace
      PROVE  row'[r].supersededFor = row[r].supersededFor + 1 /\ row[r].supersededFor <= Grace
  <2>1. row'[r].supersededFor = Older(row[r].supersededFor, Grace + 1) BY <1>6, TickEffect
  <2>2. row[r].supersededFor \in Nat BY Facts
  <2> QED BY <1>6, <2>1, <2>2, Numbers DEF Older
<1>7. ASSUME NEW r \in Pairs PROVE row'[r].revokedFor <= row[r].revokedFor + 1
                                   /\ row'[r].revokedFor \in Nat
  <2>1. row[r].revokedFor \in Nat BY Facts
  <2> QED BY <2>1, TickEffect, Numbers DEF Older
<1>8. \A r \in Pairs : SuccessorOK(r)'
  <2> SUFFICES ASSUME NEW r \in Pairs, r \in exists, row[r].by # 0 PROVE SuccessorOK(r)'
    BY <1>1, TickEffect DEF SuccessorOK
  <2> DEFINE n == row[r].by
  <2>1. n \in Pairs /\ n \in 1..issued /\ r \in 1..issued BY Facts
  <2>2. row'[r].by = n BY TickEffect
  <2>3. family[n] = family[r] /\ age[n] <= age[r] BY DEF Chained, SuccessorOK
  <2>4. age'[n] <= age'[r] BY <1>5, <2>1, <2>3
  <2>5. ASSUME row'[r].supersededFor <= Grace
        PROVE  /\ n \in exists /\ row'[r].revokedFor <= row'[r].supersededFor
               /\ row'[n].revokedFor <= row'[r].supersededFor
    <3>1. row'[r].supersededFor = row[r].supersededFor + 1 /\ row[r].supersededFor <= Grace
      BY <1>6, <2>5
    <3>2. /\ n \in exists /\ row[r].revokedFor <= row[r].supersededFor
          /\ row[n].revokedFor <= row[r].supersededFor
      BY <3>1 DEF Chained, SuccessorOK
    <3>3. /\ row[r].revokedFor \in Nat /\ row[n].revokedFor \in Nat
          /\ row[r].supersededFor \in Nat
      BY <2>1, Facts
    <3>4. /\ row'[r].revokedFor <= row[r].revokedFor + 1 /\ row'[r].revokedFor \in Nat
          /\ row'[n].revokedFor <= row[n].revokedFor + 1 /\ row'[n].revokedFor \in Nat
      BY <1>7, <2>1
    <3> QED BY <3>1, <3>2, <3>3, <3>4
  <2> HIDE DEF n
  <2> QED BY <1>1, <2>2, <2>3, <2>4, <2>5 DEF SuccessorOK
<1>9. \A c \in Calls : ClaimPair(c)'
  <2> SUFFICES ASSUME NEW c \in Calls, at[c] = "claim" PROVE ClaimPair(c)'
    BY <1>1 DEF ClaimPair, calls
  <2>1. ClaimPair(c) /\ old[c] \in Pairs /\ new[c] \in Pairs
        /\ old[c] \in 1..issued /\ new[c] \in 1..issued
    BY Facts DEF Chained
  <2>2. age'[new[c]] <= age'[old[c]] BY <1>5, <2>1 DEF ClaimPair
  <2>3. row'[old[c]].reason = row[old[c]].reason /\ row'[new[c]].reason = row[new[c]].reason
    BY <2>1, TickEffect
  <2> QED BY <1>1, <2>1, <2>2, <2>3 DEF ClaimPair, Lives, calls
<1> QED BY <1>2, <1>3, <1>4, <1>8, <1>9 DEF Chained

\* The steps of a call that touch no row.
Passive(c) ==
  \/ \E p \in Pairs : StartRefresh(c, p) \/ StartLogoutAll(c, p)
  \/ FindActive(c) \/ Lookup(c) \/ ReadCurrent(c) \/ Answer(c) \/ Block(c) \/ Fail(c)

LEMMA PassiveChained == ASSUME Inv, Chained, NEW c \in Calls, Passive(c) PROVE Chained'
<1>1. \A d \in Calls : Keeps(d) BY CallsKeep DEF Passive
<1>2. UNCHANGED <<table, signed, given>>
  BY DEF Passive, StartRefresh, StartLogoutAll, FindActive, Lookup, ReadCurrent, Answer, Block,
     Fail, past
<1> QED BY <1>1, <1>2, TableUntouched

LEMMA NextChained == ASSUME Inv, Chained, [Next]_vars PROVE Chained'
<1>1. CASE UNCHANGED vars
  <2>1. \A d \in Calls : Keeps(d) BY <1>1 DEF Keeps, vars, calls
  <2> QED BY <1>1, <2>1, TableUntouched DEF vars, past
<1>2. CASE \E f \in Families : Login(f) \/ Logout(f) BY <1>2, LoginChained, LogoutChained
<1>3. ASSUME NEW c \in Calls,
             CreateRow(c) \/ Claim(c) \/ Undo(c) \/ Reissue(c) \/ Reuse(c) \/ RevokeAll(c)
      PROVE  Chained'
  BY <1>3, CreateRowChained, ClaimChained, UndoChained, ReissueChained, ReuseChained,
     RevokeAllChained
<1> QED BY <1>1, <1>2, <1>3, PassiveChained, CleanupChained, TickChained
        DEF Next, Refresh, Passive

LEMMA AlwaysChained == Spec => [](Inv /\ Chained)
<1>1. Inv /\ Chained /\ [Next]_vars => Chained' BY NextChained
<1> QED BY <1>1, InitInv, InitChained, NextInv, PTL DEF Spec

\* A second tab that presents the token of a rotated row within the grace period
\* finds the row it was rotated to.
THEOREM GraceFindsWinner == Spec => []WinnerIsVisible
<1>1. Inv /\ Chained => WinnerIsVisible
  <2> SUFFICES ASSUME Inv, Chained, NEW r \in exists, InGrace(r)
               PROVE  row[r].by \in exists /\ family[row[r].by] = family[r]
    BY DEF WinnerIsVisible
  <2>1. r \in Pairs BY Facts
  <2> QED BY <2>1 DEF Chained, SuccessorOK, InGrace
<1> QED BY <1>1, AlwaysChained, PTL

-----------------------------------------------------------------------------
(***************************************************************************)
(* The usable token of a session is the pair of its claimed live row       *)
(***************************************************************************)
LEMMA PickedPair ==
  ASSUME NEW S, NEW G, NEW pairOf, NEW r \in S, pairOf[r].pair \in G,
         \A q \in S : pairOf[q].pair \in G => q = r
  PROVE  pairOf[CHOOSE q \in S : pairOf[q].pair \in G].pair = pairOf[r].pair
<1> DEFINE x == CHOOSE q \in S : pairOf[q].pair \in G
<1>1. x \in S /\ pairOf[x].pair \in G OBVIOUS
<1>2. x = r BY <1>1
<1> HIDE DEF x
<1>3. pairOf[x].pair = pairOf[r].pair BY <1>2
<1> QED BY <1>3 DEF x

\* Whether a session is signed in, in terms of claimed rows.
LEMMA ClaimedRows ==
  ASSUME Inv, NEW f \in Families
  PROVE  \A r : r \in LiveRows(f) /\ row[r].pair \in given
                  <=> r \in Pairs /\ Claimed(r) /\ family[r] = f
<1> SUFFICES ASSUME NEW r, r \in exists, family[r] = f, row[r].reason = Live
             PROVE  row[r].pair \in given <=> r \in given
  BY Facts DEF LiveRows, Claimed
<1>1. r \in Pairs BY Facts
<1> QED BY <1>1 DEF Inv, RowOK

LEMMA UsableRow ==
  ASSUME Inv, NEW f \in Families
  PROVE  /\ \A r \in Pairs : Claimed(r) /\ family[r] = f => Usable(f) = row[r].pair
         /\ (\A r \in Pairs : Claimed(r) => family[r] # f) => Usable(f) = 0
<1>1. \A r : r \in LiveRows(f) /\ row[r].pair \in given
               <=> r \in Pairs /\ Claimed(r) /\ family[r] = f
  BY ClaimedRows
<1>2. ASSUME NEW r \in Pairs, Claimed(r), family[r] = f PROVE Usable(f) = row[r].pair
  <2>1. r \in LiveRows(f) /\ row[r].pair \in given BY <1>1, <1>2
  <2>2. \A q \in LiveRows(f) : row[q].pair \in given => q = r
    BY <1>1, <1>2 DEF Inv, OneClaimed
  <2>3. row[CHOOSE q \in LiveRows(f) : row[q].pair \in given].pair = row[r].pair
    BY <2>1, <2>2, PickedPair
  <2> QED BY <2>1, <2>3 DEF Usable, SignedIn
<1>3. ASSUME \A r \in Pairs : Claimed(r) => family[r] # f PROVE Usable(f) = 0
  BY <1>1, <1>3 DEF Usable, SignedIn
<1> QED BY <1>2, <1>3

\* The same of the next state.
LEMMA UsableRowNext ==
  ASSUME Inv', NEW f \in Families
  PROVE  /\ \A r \in Pairs : Claimed(r)' /\ family'[r] = f => Usable(f)' = row'[r].pair
         /\ (\A r \in Pairs : Claimed(r)' => family'[r] # f) => Usable(f)' = 0
<1>1. \A r : r \in LiveRows(f)' /\ row'[r].pair \in given'
               <=> r \in Pairs /\ Claimed(r)' /\ family'[r] = f
  <2> SUFFICES ASSUME NEW r, r \in exists', family'[r] = f, row'[r].reason = Live
               PROVE  r \in Pairs /\ (row'[r].pair \in given' <=> r \in given')
    BY DEF LiveRows, Claimed
  <2>1. r \in Pairs
    BY Numbers DEF Inv, Shape, TableOK, SignedOK, Pairs
  <2>2. RowOK(r)' BY <2>1 DEF Inv
  <2> QED BY <2>1, <2>2 DEF RowOK
<1>2. ASSUME NEW r \in Pairs, Claimed(r)', family'[r] = f PROVE Usable(f)' = row'[r].pair
  <2>1. r \in LiveRows(f)' /\ row'[r].pair \in given' BY <1>1, <1>2
  <2>2. \A q \in LiveRows(f)' : row'[q].pair \in given' => q = r
    BY <1>1, <1>2 DEF Inv, OneClaimed
  <2>3. row'[CHOOSE q \in LiveRows(f)' : row'[q].pair \in given'].pair = row'[r].pair
    BY <2>1, <2>2, PickedPair
  <2> QED BY <2>1, <2>3 DEF Usable, SignedIn
<1>3. ASSUME \A r \in Pairs : Claimed(r)' => family'[r] # f PROVE Usable(f)' = 0
  BY <1>1, <1>3 DEF Usable, SignedIn
<1> QED BY <1>2, <1>3

\* A claimed live row is left as it is.
Untouched(r) == Claimed(r)' /\ row'[r].pair = row[r].pair /\ family'[r] = family[r]

Opened == {family[p] : p \in 1..issued}

LEMMA PairsAreNotZero ==
  ASSUME Inv, NEW r \in Pairs PROVE row[r].pair # 0 /\ row[r].pair \in Pairs
BY Facts DEF Row

-----------------------------------------------------------------------------
(***************************************************************************)
(* What a step does to the chain, by what it does to the claimed rows      *)
(***************************************************************************)
\* Claimed rows can only go: some sessions are closed.
LEMMA RowsGo ==
  ASSUME Inv, Inv', UNCHANGED given, Opened' = Opened,
         \A r \in Pairs : Claimed(r)' => Claimed(r) /\ Untouched(r)
  PROVE  Chain!Next
<1> DEFINE S == {f \in Families : Usable(f)' = 0}
<1>1. ASSUME NEW f \in Families, Usable(f)' # 0 PROVE Usable(f)' = Usable(f)
  <2>1. PICK r \in Pairs : Claimed(r)' /\ family'[r] = f BY <1>1, UsableRowNext
  <2>2. Claimed(r) /\ Untouched(r) BY <2>1
  <2> QED BY <2>1, <2>2, UsableRow, UsableRowNext DEF Untouched
<1>2. [f \in Families |-> Usable(f)]' =
        [f \in Families |-> IF f \in S THEN 0 ELSE [g \in Families |-> Usable(g)][f]]
  BY <1>1
<1>3. Chain!Close(S) BY <1>2 DEF Chain!Close, Opened
<1> QED BY <1>3 DEF Chain!Next

\* The session f gets the usable token p; the others keep theirs.
LEMMA RowComes ==
  ASSUME Inv, Inv', NEW f \in Families, NEW n \in Pairs,
         Claimed(n)', family'[n] = f,
         \A r \in Pairs : Claimed(r)' /\ family'[r] # f => Claimed(r) /\ Untouched(r),
         \A r \in Pairs : Claimed(r) /\ family[r] # f => Untouched(r)
  PROVE  [g \in Families |-> Usable(g)]' =
           [[g \in Families |-> Usable(g)] EXCEPT ![f] = row'[n].pair]
<1>1. Usable(f)' = row'[n].pair BY UsableRowNext
<1>2. ASSUME NEW g \in Families, g # f PROVE Usable(g)' = Usable(g)
  <2>1. CASE \E r \in Pairs : Claimed(r) /\ family[r] = g
    <3>1. PICK r \in Pairs : Claimed(r) /\ family[r] = g BY <2>1
    <3>2. Untouched(r) BY <1>2, <3>1
    <3> QED BY <3>1, <3>2, UsableRow, UsableRowNext DEF Untouched
  <2>2. CASE \A r \in Pairs : Claimed(r) => family[r] # g
    <3>1. \A r \in Pairs : Claimed(r)' => family'[r] # g
      BY <1>2, <2>2 DEF Untouched
    <3> QED BY <2>2, <3>1, UsableRow, UsableRowNext
  <2> QED BY <2>1, <2>2
<1> QED BY <1>1, <1>2

LEMMA OpenedSign ==
  ASSUME Inv, NEW f \in Families, Sign(f)
  PROVE  Opened' = Opened \cup {f}
<1> DEFINE p == issued + 1
<1>1. /\ issued' = p /\ issued \in Nat /\ family'[p] = f
      /\ \A q \in 1..issued : family'[q] = family[q]
  BY SignStep
<1>2. 1..issued' = 1..issued \cup {p} BY <1>1
<1> HIDE DEF p
<1> QED BY <1>1, <1>2 DEF Opened

\* A session that was signed in still is, unless it was ended or its row expired.
SessionKept(f) ==
  SignedIn(f) /\ ~SignedIn(f)' =>
    ended'[f] # "no" \/ \E r \in LiveRows(f) : age[r] > RefreshTTL

StepOK == Chain!Next /\ \A f \in Families : SessionKept(f)

LEMMA SignedInRow ==
  ASSUME Inv, NEW f \in Families, SignedIn(f)
  PROVE  \E r \in Pairs : Claimed(r) /\ family[r] = f /\ r \in LiveRows(f)
<1>1. PICK r \in LiveRows(f) : row[r].pair \in given BY DEF SignedIn
<1> QED BY <1>1, ClaimedRows

LEMMA SignedInNext ==
  ASSUME Inv', NEW r \in Pairs, Claimed(r)'
  PROVE  SignedIn(family[r])'
<1>1. RowOK(r)' BY DEF Inv
<1> QED BY <1>1 DEF SignedIn, LiveRows, Claimed, RowOK

\* The claimed rows are what they were.
LEMMA RowsStay ==
  ASSUME Inv, Inv', UNCHANGED given, Opened' = Opened,
         \A r \in Pairs : Claimed(r)' => Claimed(r),
         \A r \in Pairs : Claimed(r) => Untouched(r)
  PROVE  StepOK
<1>1. Chain!Next BY RowsGo
<1>2. ASSUME NEW f \in Families PROVE SessionKept(f)
  <2> SUFFICES ASSUME SignedIn(f) PROVE SignedIn(f)' BY DEF SessionKept
  <2>1. PICK r \in Pairs : Claimed(r) /\ family[r] = f BY SignedInRow
  <2>2. Untouched(r) BY <2>1
  <2>3. SignedIn(family[r])' BY <2>2, SignedInNext DEF Untouched
  <2> QED BY <2>1, <2>2, <2>3 DEF Untouched, SignedIn, LiveRows
<1> QED BY <1>1, <1>2 DEF StepOK

LEMMA OpenedSame == ASSUME UNCHANGED signed PROVE Opened' = Opened
BY DEF Opened, signed

LEMMA TableUntouchedStep ==
  ASSUME Inv, Inv', UNCHANGED <<table, signed, given>> PROVE StepOK
<1>1. \A r \in Pairs : (Claimed(r)' <=> Claimed(r)) /\ (Claimed(r) => Untouched(r))
  BY DEF Claimed, Untouched, table, signed
<1> QED BY <1>1, RowsStay, OpenedSame

LEMMA TickStep == ASSUME Inv, Inv', Tick PROVE StepOK
<1>1. UNCHANGED <<exists, issued, family, given>> BY DEF Tick, past
<1>2. \A r \in Pairs : row'[r].pair = row[r].pair /\ row'[r].reason = row[r].reason
  BY TickEffect
<1>3. \A r \in Pairs : (Claimed(r)' <=> Claimed(r)) /\ (Claimed(r) => Untouched(r))
  BY <1>1, <1>2 DEF Claimed, Untouched
<1>4. Opened' = Opened BY <1>1 DEF Opened
<1> QED BY <1>1, <1>3, <1>4, RowsStay

\* A new row is not claimed before it is handed out.
LEMMA CreateRowStep == ASSUME Inv, Inv', NEW c \in Calls, CreateRow(c) PROVE StepOK
<1> DEFINE p == issued + 1
           f == family[token[c]]
<1>1. /\ Sign(f) /\ exists' = exists \cup {p} /\ UNCHANGED given
      /\ row' = [row EXCEPT ![p] = NewRow(p)]
  BY DEF CreateRow, past
<1>2. at[c] # "idle" /\ token[c] \in 1..issued BY Facts DEF CreateRow, Inv, CallOK
<1>3. f \in Families BY <1>2, TokenFamily
<1>4. /\ p \notin 1..issued
      /\ \A q \in Pairs : q # p => family'[q] = family[q]
  BY <1>1, <1>3, SignStep
<1>5. \A r \in Pairs : r # p => row'[r] = row[r] BY <1>1 DEF Inv, Shape, TableOK
<1>6. Opened' = Opened \cup {f} /\ f \in Opened
  BY <1>1, <1>2, <1>3, OpenedSign DEF Opened
<1> HIDE DEF p, f
<1>7. \A r \in Pairs : (Claimed(r)' <=> Claimed(r)) /\ (Claimed(r) => Untouched(r))
  BY <1>1, <1>4, <1>5, Facts DEF Claimed, Untouched
<1> QED BY <1>1, <1>6, <1>7, RowsStay

LEMMA UndoStep == ASSUME Inv, Inv', NEW c \in Calls, Undo(c) PROVE StepOK
<1>1. CASE UNCHANGED table BY <1>1, TableUntouchedStep DEF Undo, past
<1>2. CASE exists' = exists \ {new[c]} /\ row' = [row EXCEPT ![new[c]] = NewRow(new[c])]
  <2>1. at[c] = "undo" /\ UNCHANGED <<signed, given>> BY DEF Undo, past
  <2>2. new[c] \in Pairs /\ new[c] \notin given BY <2>1, Facts DEF Inv, CallOK
  <2>3. \A r \in Pairs : r # new[c] => row'[r] = row[r] BY <1>2 DEF Inv, Shape, TableOK
  <2>4. \A r \in Pairs : (Claimed(r)' <=> Claimed(r)) /\ (Claimed(r) => Untouched(r))
    BY <1>2, <2>1, <2>2, <2>3 DEF Claimed, Untouched, signed
  <2> QED BY <2>1, <2>4, RowsStay, OpenedSame
<1> QED BY <1>1, <1>2 DEF Undo

\* A login opens a session with its first token.
LEMMA LoginStep == ASSUME Inv, Inv', NEW f \in Families, Login(f) PROVE StepOK
<1>0. PICK p \in Pairs : p = issued + 1 BY SignStep DEF Login
<1>1. /\ Sign(f) /\ exists' = exists \cup {p} /\ given' = given \cup {p}
      /\ row' = [row EXCEPT ![p] = NewRow(p)] /\ \A q \in 1..issued : family[q] # f
  BY <1>0 DEF Login
<1>2. /\ p \notin 1..issued /\ family'[p] = f
      /\ \A q \in Pairs : q # p => family'[q] = family[q]
  BY <1>0, <1>1, SignStep
<1>3. /\ row'[p] = NewRow(p) /\ \A r \in Pairs : r # p => row'[r] = row[r]
  BY <1>1, <1>2 DEF Inv, Shape, TableOK
<1>4. Opened' = Opened \cup {f} /\ f \notin Opened BY <1>1, OpenedSign DEF Opened
<1>5. p \in Chain!Fresh BY <1>2, Facts DEF Chain!Fresh, Pairs
<1>6. Claimed(p)' /\ row'[p].pair = p BY <1>1, <1>3, FreshRow DEF Claimed
<1>7. \A r \in Pairs : Claimed(r) => Untouched(r) /\ family[r] # f
  BY <1>1, <1>2, <1>3, Facts DEF Claimed, Untouched
<1>8. \A r \in Pairs : Claimed(r)' /\ family'[r] # f => Claimed(r)
  BY <1>1, <1>2, <1>3 DEF Claimed
<1>9. [g \in Families |-> Usable(g)]' = [[g \in Families |-> Usable(g)] EXCEPT ![f] = p]
  BY <1>2, <1>6, <1>7, <1>8, RowComes
<1>10. Chain!SignIn(f, p) BY <1>1, <1>4, <1>9 DEF Chain!SignIn, Opened
<1>11. Chain!Next BY <1>5, <1>10 DEF Chain!Next
<1>12. ASSUME NEW g \in Families PROVE SessionKept(g)
  <2> SUFFICES ASSUME SignedIn(g) PROVE SignedIn(g)' BY DEF SessionKept
  <2>1. PICK r \in Pairs : Claimed(r) /\ family[r] = g BY SignedInRow
  <2>2. Untouched(r) BY <1>7, <2>1
  <2>3. SignedIn(family[r])' BY <2>2, SignedInNext DEF Untouched
  <2> QED BY <2>1, <2>2, <2>3 DEF Untouched, SignedIn, LiveRows
<1> QED BY <1>11, <1>12 DEF StepOK

\* The claim that wins replaces the usable token by the new one.
LEMMA ClaimStep == ASSUME Inv, Inv', Chained, NEW c \in Calls, Claim(c) PROVE StepOK
<1>1. CASE ~Lives(old[c])
  BY <1>1, TableUntouchedStep DEF Claim, Lives, table
<1>2. CASE Lives(old[c])
  <2>1. at[c] = "claim" BY DEF Claim
  <2>2. family[old[c]] \in Families BY <2>1, TokenFamily DEF Inv, CallOK
  <2>3. PICK o \in Pairs, n \in Pairs, f \in Families :
          o = old[c] /\ n = new[c] /\ f = family[o]
    BY <2>1, <2>2, Facts
  <2>4. o \in given /\ n \notin given /\ n # o /\ family[n] = f BY <2>3, <2>1, Facts
  <2>5. /\ UNCHANGED <<exists, signed>> /\ given' = given \cup {n}
        /\ \A r \in Pairs : r # o => row'[r] = row[r]
        /\ row'[o].reason # Live
    BY <1>2, <2>3, ClaimEffect
  <2>6. Lives(n) BY <1>2, <2>3, <2>1 DEF Chained, ClaimPair
  <2>7. n \in Chain!Fresh BY <2>4 DEF Chain!Fresh, Pairs
  <2>8. Claimed(o) BY <1>2, <2>3, <2>4 DEF Claimed, Lives
  <2>9. Usable(f) # 0 BY <2>3, <2>8, UsableRow, PairsAreNotZero
  <2>10. family' = family BY <2>5 DEF signed
  <2>11. Claimed(n)' /\ row'[n].pair = n
    <3>1. row[n].pair = n BY <2>4 DEF Inv, RowOK
    <3> QED BY <2>4, <2>5, <2>6, <3>1 DEF Claimed, Lives
  <2>12. \A r \in Pairs : Claimed(r) => r = o \/ Untouched(r)
    BY <2>5, <2>10 DEF Claimed, Untouched
  <2>13. \A r \in Pairs : Claimed(r)' => r = n \/ (Claimed(r) /\ Untouched(r))
    BY <2>5, <2>10, <2>12 DEF Claimed
  <2>14. [g \in Families |-> Usable(g)]' = [[g \in Families |-> Usable(g)] EXCEPT ![f] = n]
    <3>1. \A r \in Pairs : Claimed(r)' /\ family'[r] # f => Claimed(r) /\ Untouched(r)
      BY <2>4, <2>10, <2>13
    <3>2. \A r \in Pairs : Claimed(r) /\ family[r] # f => Untouched(r) BY <2>3, <2>12
    <3> QED BY <2>4, <2>10, <2>11, <3>1, <3>2, RowComes
  <2>15. Chain!Rotate(f, n)
    <3>1. Opened' = Opened BY <2>5, OpenedSame
    <3> QED BY <2>5, <2>9, <2>14, <3>1 DEF Chain!Rotate, Opened
  <2>16. Chain!Next BY <2>7, <2>15 DEF Chain!Next
  <2>17. ASSUME NEW g \in Families PROVE SessionKept(g)
    <3> SUFFICES ASSUME SignedIn(g) PROVE SignedIn(g)' BY DEF SessionKept
    <3>1. PICK r \in Pairs : Claimed(r) /\ family[r] = g BY SignedInRow
    <3>2. PICK q \in Pairs : Claimed(q)' /\ family'[q] = g
      <4>1. CASE r = o BY <2>3, <2>4, <2>10, <2>11, <3>1, <4>1
      <4>2. CASE r # o BY <2>10, <2>12, <3>1, <4>2 DEF Untouched
      <4> QED BY <4>1, <4>2
    <3>3. SignedIn(family[q])' BY <3>2, SignedInNext
    <3> QED BY <3>2, <3>3 DEF SignedIn, LiveRows
  <2> QED BY <2>16, <2>17 DEF StepOK
<1> QED BY <1>1, <1>2

\* A retry in the grace period replaces the usable token, or is answered with one
\* of a session that was closed while it was under way.
LEMMA ReissueStep == ASSUME Inv, Inv', NEW c \in Calls, Reissue(c) PROVE StepOK
<1>1. CASE old[c] \notin exists
  BY <1>1, TableUntouchedStep DEF Reissue, table, signed
<1>2. CASE old[c] \in exists
  <2>1. at[c] = "reissue" /\ token[c] \in 1..issued /\ old[c] \in given
    BY Facts DEF Reissue, Inv, CallOK
  <2>2. PICK o \in Pairs, p \in Pairs : o = old[c] /\ p = issued + 1
    BY <1>2, ReissueEffect, Facts
  <2>3. /\ UNCHANGED exists /\ given' = given \cup {p} /\ p \notin given
        /\ \A r \in Pairs : r # o => row'[r] = row[r]
        /\ row'[o].pair = p /\ row'[o].reason = row[o].reason
    BY <1>2, <2>2, ReissueEffect
  <2>4. Sign(family[token[c]]) /\ family[token[c]] \in Families BY <1>2, ReissueEffect
  <2>5. p \notin 1..issued /\ \A q \in Pairs : q # p => family'[q] = family[q]
    BY <2>2, <2>4, SignStep
  <2>6. Opened' = Opened
    <3>1. family[token[c]] \in Opened BY <2>1 DEF Opened
    <3> QED BY <2>4, <3>1, OpenedSign
  <2>7. p \in Chain!Fresh BY <2>3 DEF Chain!Fresh, Pairs
  <2>8. \A r \in Pairs : Claimed(r)' <=> Claimed(r)
    BY <2>3, <2>5, Facts DEF Claimed
  <2>9. \A r \in Pairs : Claimed(r) => family'[r] = family[r]
    BY <2>5, Facts DEF Claimed
  <2>10. \A r \in Pairs : Claimed(r) => r = o \/ Untouched(r)
    BY <2>3, <2>8, <2>9 DEF Untouched
  <2>11. ASSUME Claimed(o) PROVE Chain!Next
    <3>1. PICK f \in Families : f = family[o]
      <4>1. o \in 1..issued /\ ~(o > issued) BY <1>2, <2>2, Facts
      <4> QED BY <4>1 DEF Inv, Shape, SignedOK
    <3>2. Usable(f) # 0 BY <2>11, <3>1, UsableRow, PairsAreNotZero
    <3>3. Claimed(o)' /\ family'[o] = f BY <2>8, <2>9, <2>11, <3>1
    <3>4. \A r \in Pairs : Claimed(r)' /\ family'[r] # f => Claimed(r) /\ Untouched(r)
      BY <2>8, <2>10, <3>3
    <3>5. \A r \in Pairs : Claimed(r) /\ family[r] # f => Untouched(r) BY <2>10, <3>1
    <3>6. [g \in Families |-> Usable(g)]' = [[g \in Families |-> Usable(g)] EXCEPT ![f] = p]
      BY <2>3, <3>3, <3>4, <3>5, RowComes
    <3>7. Chain!Rotate(f, p) BY <2>3, <2>6, <3>2, <3>6 DEF Chain!Rotate, Opened
    <3> QED BY <2>7, <3>7 DEF Chain!Next
  <2>12. ASSUME ~Claimed(o) PROVE Chain!Next
    <3>1. \A r \in Pairs : Claimed(r) => Untouched(r) BY <2>10, <2>12
    <3>2. ASSUME NEW f \in Families PROVE Usable(f)' = Usable(f)
      <4>1. CASE \E r \in Pairs : Claimed(r) /\ family[r] = f
        <5>1. PICK r \in Pairs : Claimed(r) /\ family[r] = f BY <4>1
        <5>2. Untouched(r) BY <3>1, <5>1
        <5> QED BY <5>1, <5>2, UsableRow, UsableRowNext DEF Untouched
      <4>2. CASE \A r \in Pairs : Claimed(r) => family[r] # f
        <5>1. \A r \in Pairs : Claimed(r)' => family'[r] # f BY <2>8, <2>9, <4>2
        <5> QED BY <4>2, <5>1, UsableRow, UsableRowNext
      <4> QED BY <4>1, <4>2
    <3>3. [f \in Families |-> Usable(f)]' = [f \in Families |-> Usable(f)] BY <3>2
    <3>4. Chain!HandOutDead(p) BY <2>3, <2>6, <3>3 DEF Chain!HandOutDead, Opened
    <3> QED BY <2>7, <3>4 DEF Chain!Next
  <2>13. ASSUME NEW f \in Families PROVE SessionKept(f)
    <3> SUFFICES ASSUME SignedIn(f) PROVE SignedIn(f)' BY DEF SessionKept
    <3>1. PICK r \in Pairs : Claimed(r) /\ family[r] = f BY SignedInRow
    <3>2. Claimed(r)' /\ family'[r] = f BY <2>8, <2>9, <3>1
    <3>3. SignedIn(family[r])' BY <3>2, SignedInNext
    <3> QED BY <3>2, <3>3 DEF SignedIn, LiveRows
  <2> QED BY <2>11, <2>12, <2>13 DEF StepOK
<1> QED BY <1>1, <1>2

\* Sessions are closed: their rows are revoked and they are marked as ended.
LEMMA RowsRevokedStep ==
  ASSUME Inv, Inv', UNCHANGED <<exists, signed, given>>, NEW S, Revocation(S),
         \A f \in Families : \A r \in S : family[r] = f => ended'[f] # "no"
  PROVE  StepOK
<1>1. \A r \in Pairs : Claimed(r)' => Claimed(r) /\ Untouched(r)
  BY DEF Claimed, Untouched, Revocation, signed
<1>2. \A r \in Pairs : Claimed(r) => r \in S \/ Claimed(r)'
  BY DEF Claimed, Revocation
<1>3. Chain!Next BY <1>1, RowsGo, OpenedSame
<1>4. ASSUME NEW f \in Families, SignedIn(f), ~SignedIn(f)' PROVE ended'[f] # "no"
  <2>1. PICK r \in Pairs : Claimed(r) /\ family[r] = f BY <1>4, SignedInRow
  <2>2. CASE Claimed(r)'
    <3>1. SignedIn(family[r])' /\ family'[r] = family[r] BY <2>2, SignedInNext DEF signed
    <3> QED BY <1>4, <2>1, <3>1 DEF SignedIn, LiveRows, signed
  <2> QED BY <1>2, <2>1, <2>2
<1> QED BY <1>3, <1>4 DEF StepOK, SessionKept

LEMMA EndMarks ==
  ASSUME NEW F, NEW how, how # "no", End(F, how)
  PROVE  \A f \in Families : f \in F => ended'[f] # "no"
BY DEF End

LEMMA ReuseStep == ASSUME Inv, Inv', NEW c \in Calls, Reuse(c) PROVE StepOK
<1>1. PICK S \in SUBSET Pairs : S = {r \in exists : family[r] = family[token[c]]} BY Facts
<1>2. /\ Revoke(S, "REUSE_DETECTED") /\ End({family[token[c]]}, "reuse")
      /\ UNCHANGED <<exists, signed, given>>
  BY <1>1 DEF Reuse
<1>3. Revocation(S) BY <1>2, RevokeIsRevocation DEF Reasons, Live
<1>4. \A f \in Families : \A r \in S : family[r] = f => ended'[f] # "no"
  BY <1>1, <1>2, EndMarks
<1> QED BY <1>2, <1>3, <1>4, RowsRevokedStep

LEMMA RevokeAllStep == ASSUME Inv, Inv', NEW c \in Calls, RevokeAll(c) PROVE StepOK
<1>1. PICK S \in SUBSET Pairs : S = {r \in exists : row[r].reason = Live} BY Facts
<1>2. /\ Revoke(S, "LOGOUT") /\ End({family[p] : p \in 1..issued}, "all")
      /\ UNCHANGED <<exists, signed, given>>
  BY <1>1 DEF RevokeAll
<1>3. Revocation(S) BY <1>2, RevokeIsRevocation DEF Reasons, Live
<1>4. \A f \in Families : \A r \in S : family[r] = f => ended'[f] # "no"
  <2>1. \A r \in S : r \in 1..issued BY <1>1, Facts
  <2> QED BY <1>2, <2>1, EndMarks
<1> QED BY <1>2, <1>3, <1>4, RowsRevokedStep

LEMMA LogoutStep == ASSUME Inv, Inv', NEW f \in Families, Logout(f) PROVE StepOK
<1>1. UNCHANGED <<exists, signed, given>> BY DEF Logout
<1>2. CASE Revoke(LiveRows(f), "LOGOUT") /\ End({f}, "logout")
  <2>1. PICK S \in SUBSET Pairs : S = LiveRows(f) BY Facts DEF LiveRows
  <2>2. Revocation(S) BY <1>2, <2>1, RevokeIsRevocation DEF Reasons, Live
  <2>3. \A g \in Families : \A r \in S : family[r] = g => ended'[g] # "no"
    BY <1>2, <2>1, EndMarks DEF LiveRows
  <2> QED BY <1>1, <2>2, <2>3, RowsRevokedStep
<1>3. CASE UNCHANGED row BY <1>1, <1>3, TableUntouchedStep DEF table
<1> QED BY <1>2, <1>3 DEF Logout

\* The cleanup closes only sessions whose row has expired.
LEMMA CleanupStep == ASSUME Inv, Inv', Chained, Cleanup PROVE StepOK
<1>1. PICK gone \in SUBSET Pairs : gone = {r \in exists : Stale(r)} BY Facts
<1>2. /\ exists' = exists \ gone /\ UNCHANGED <<signed, given>>
      /\ row' = [r \in Pairs |-> IF r \in gone THEN NewRow(r) ELSE row[r]]
  BY <1>1 DEF Cleanup, past
<1>3. \A r \in Pairs : Claimed(r)' => Claimed(r) /\ Untouched(r)
  BY <1>2 DEF Claimed, Untouched, signed
<1>4. \A r \in Pairs : Claimed(r) => r \in gone \/ Claimed(r)' BY <1>2 DEF Claimed
<1>5. Chain!Next BY <1>2, <1>3, RowsGo, OpenedSame
<1>6. ASSUME NEW f \in Families, SignedIn(f), ~SignedIn(f)'
      PROVE  \E r \in LiveRows(f) : age[r] > RefreshTTL
  <2>1. PICK r \in Pairs : Claimed(r) /\ family[r] = f /\ r \in LiveRows(f)
    BY <1>6, SignedInRow
  <2>2. CASE Claimed(r)'
    <3>1. SignedIn(family[r])' BY <2>2, <1>2, SignedInNext DEF signed
    <3> QED BY <1>6, <2>1, <3>1, <1>2 DEF SignedIn, LiveRows, signed
  <2>3. CASE r \in gone
    <3>1. Stale(r) /\ row[r].reason = Live BY <1>1, <2>1, <2>3 DEF Claimed
    <3>2. ~(age[r] <= RefreshTTL) BY <3>1, StaleRow
    <3>3. age[r] > RefreshTTL BY <3>2, Facts, Numbers
    <3> QED BY <2>1, <3>3
  <2> QED BY <1>4, <2>1, <2>2, <2>3
<1> QED BY <1>5, <1>6 DEF StepOK, SessionKept

LEMMA NextStepOK == ASSUME Inv, Inv', Chained, Next PROVE StepOK
<1>1. CASE \E f \in Families : Login(f) \/ Logout(f) BY <1>1, LoginStep, LogoutStep
<1>2. ASSUME NEW c \in Calls,
             CreateRow(c) \/ Claim(c) \/ Undo(c) \/ Reissue(c) \/ Reuse(c) \/ RevokeAll(c)
      PROVE  StepOK
  BY <1>2, CreateRowStep, ClaimStep, UndoStep, ReissueStep, ReuseStep, RevokeAllStep
<1>3. ASSUME NEW c \in Calls, Passive(c) PROVE StepOK
  <2>1. UNCHANGED <<table, signed, given>>
    BY <1>3 DEF Passive, StartRefresh, StartLogoutAll, FindActive, Lookup, ReadCurrent, Answer,
       Block, Fail, past
  <2> QED BY <2>1, TableUntouchedStep
<1> QED BY <1>1, <1>2, <1>3, CleanupStep, TickStep DEF Next, Refresh, Passive

-----------------------------------------------------------------------------
(***************************************************************************)
(* Rows in their grace period, and the theorems                            *)
(***************************************************************************)
LEMMA GraceRows ==
  ASSUME Inv, Chained, Next, NEW r \in exists, InGrace(r), r \notin exists'
  PROVE  age[r] > RefreshTTL
<1>1. r \in Pairs BY Facts
<1>2. CASE Cleanup
  <2>1. Stale(r) BY <1>2 DEF Cleanup
  <2>2. row[r].revokedFor <= row[r].supersededFor /\ row[r].supersededFor <= Grace
    BY <1>1 DEF Chained, SuccessorOK, InGrace
  <2>3. row[r].revokedFor \in Nat /\ row[r].supersededFor \in Nat /\ age[r] \in Nat
    BY <1>1, Facts
  <2>4. ~(row[r].revokedFor > Grace) BY <2>2, <2>3, Numbers
  <2>5. ~(age[r] <= RefreshTTL) BY <1>1, <2>1, <2>4, StaleRow
  <2> QED BY <2>3, <2>5, Numbers
<1>3. ASSUME NEW c \in Calls, Undo(c) PROVE FALSE
  <2>1. at[c] = "undo" /\ r = new[c] BY <1>3 DEF Undo, table
  <2>2. r \notin given BY <2>1 DEF Inv, CallOK
  <2> QED BY <1>1, <2>2 DEF Chained, UnclaimedOK, InGrace
<1>4. CASE exists \subseteq exists' BY <1>4
<1>5. Cleanup \/ (\E c \in Calls : Undo(c)) \/ exists \subseteq exists'
  BY DEF Next, Refresh, Login, Logout, FindActive, CreateRow, Claim, Lookup, ReadCurrent,
     Reissue, Reuse, Answer, RevokeAll, Block, Fail, StartRefresh, StartLogoutAll, Tick, table
<1> QED BY <1>2, <1>3, <1>4, <1>5

\* No refresh, won, lost or cut short, and no cleanup takes a session away that
\* was not ended and has not expired, or a row that a second tab still needs.
THEOREM NothingIsLostEarly == Spec => NothingLostEarly
<1>1. ASSUME Inv, Inv', Chained, Next
      PROVE  /\ \A f \in Families : SignedIn(f) /\ ~SignedIn(f)' =>
                  ended'[f] # "no" \/ \E r \in LiveRows(f) : age[r] > RefreshTTL
             /\ \A r \in exists : InGrace(r) /\ r \notin exists' => age[r] > RefreshTTL
  BY <1>1, NextStepOK, GraceRows DEF StepOK, SessionKept
<1> QED BY <1>1, AlwaysChained, PTL DEF Spec, NothingLostEarly

\* Seen from outside, whatever calls race, die or come late, the service is a
\* chain of tokens of which each session has at most one that can be refreshed.
THEOREM QueriesImplementChain == Spec => ImplementsChain
<1>1. Init => Chain!Init
  <2> SUFFICES ASSUME Init PROVE Chain!Init OBVIOUS
  <2>1. Inv /\ \A r \in Pairs : ~Claimed(r) BY InitInv DEF Init, Claimed
  <2>2. \A f \in Families : Usable(f) = 0 BY <2>1, UsableRow
  <2>3. {family[p] : p \in 1..issued} = {}
    <3>1. 1..issued = {} BY DEF Init
    <3> QED BY <3>1
  <2> QED BY <2>2, <2>3 DEF Init, Chain!Init
<1>2. ASSUME Inv, Inv', Chained, [Next]_vars PROVE [Chain!Next]_(Chain!vars)
  <2>1. CASE Next BY <2>1, <1>2, NextStepOK DEF StepOK
  <2>2. CASE UNCHANGED vars
    <3>1. UNCHANGED <<exists, row, family, issued, given>>
      BY <2>2 DEF vars, table, signed, past
    <3>2. [f \in Families |-> Usable(f)]' = [f \in Families |-> Usable(f)]
      BY <3>1 DEF Usable, SignedIn, LiveRows
    <3>3. {family[p] : p \in 1..issued}' = {family[p] : p \in 1..issued} BY <3>1
    <3> QED BY <3>1, <3>2, <3>3 DEF Chain!vars
  <2> QED BY <1>2, <2>1, <2>2
<1> QED BY <1>1, <1>2, AlwaysChained, PTL DEF Spec, ImplementsChain, Chain!Spec
=============================================================================
