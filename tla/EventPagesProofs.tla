-------------------------- MODULE EventPagesProofs --------------------------
(***************************************************************************)
(* Proofs about EventPages, for any users, mutations and pages: types, and *)
(* what the cache shows.  Each property is about a moment of rest; the     *)
(* invariant says what holds while requests are under way, in terms of the *)
(* tags that are already stale and of the mutations that will mark some.   *)
(***************************************************************************)
EXTENDS EventPages, TLAPS

(***************************************************************************)
(* The inductive invariant, part by part, about a state s of the store, a  *)
(* viewer w and mutations m                                                *)
(***************************************************************************)
StoreType == [cache : [Views -> Entry \cup {None}], query : [Views -> Requests \cup {None}],
              stale : SUBSET Tags]

CallType == [kind : Kinds, at : {"idle", "sent", "back", "poll", "done"}, by : Viewers,
             key : Calls \cup {None}, request : JoinRequests \cup {None},
             ok : BOOLEAN, here : BOOLEAN, kept : BOOLEAN]

\* The tags an entry provides: one in any case, all of them if it is not failed.
OwnTag(v) == IF v = "list" THEN "LIST" ELSE IF v = "detail" THEN "EVENT" ELSE "MY_CALENDAR"
Hits(v) == IF v = "list" THEN {"LIST", "EVENT"} ELSE {OwnTag(v)}

\* An answer is to the one who asked.
AnswersIn(s) ==
  \A v \in Views : s.query[v] # None =>
    /\ s.query[v].at = "back" => s.query[v].answer # None
    /\ s.query[v].answer # None =>
         /\ s.query[v].answer.by \in {s.query[v].by, "nothing"}
         /\ s.query[v].answer.ok => s.query[v].answer.by = s.query[v].by

\* What somebody else fetched, or is fetching, is stale or being replaced.
OwnIn(s, w) ==
  w # Nobody => \A v \in Views :
    /\ s.query[v] # None /\ s.query[v].by # w => OwnTag(v) \in s.stale
    /\ s.cache[v] # None /\ s.cache[v].ok /\ s.cache[v].by # w =>
         OwnTag(v) \in s.stale \/ s.query[v] # None

\* It is known that v is out of date, or a mutation under way will say so.
Excused(v, s, m) ==
  \/ Hits(v) \cap s.stale # {}
  \/ \E c \in Calls : Active(m[c]) /\ Hits(v) \cap InvalidatedBy(m[c]) # {}

\* What is out of date, in the cache or on its way to it, is excused.
CurrentIn(s, m) ==
  \A v \in Views :
    /\ s.cache[v] # None /\ s.cache[v].ok /\ ~s.cache[v].current =>
         Excused(v, s, m) \/ s.query[v] # None
    /\ s.query[v] # None /\ s.query[v].answer # None /\ s.query[v].answer.ok
         /\ ~s.query[v].answer.current => Excused(v, s, m)

\* Tags do not stay behind when nothing is pending, unless for no entry.
QuietIn(s, m) == ~Pending(s, m) => s.stale = {} \/ \A v \in Views : s.cache[v] = None

\* Nothing is a user's, nor is anything asked for a user.
NoUserIn(s) ==
  \A v \in Views :
    /\ s.cache[v] # None => s.cache[v].by \notin Users
    /\ s.query[v] # None => s.query[v].by = Nobody

\* Good(s, m, w, miss, out): what holds of the store at any time, out meaning
\* that the user was signed out and miss that a join was confirmed unnoticed
Good(s, m, w, miss, out) ==
  /\ AnswersIn(s)
  /\ OwnIn(s, w)
  /\ ~miss => CurrentIn(s, m)
  /\ out => w = Nobody /\ NoUserIn(s)

StoreInv == Now \in StoreType /\ Good(Now, call, me, missed, cleared) /\ QuietIn(Now, call)

\* A join has its key until it is served, and only joins poll.
CallOK(k) ==
  /\ k \in CallType
  /\ k.at = "poll" => k.kind = "join" /\ k.request \in JoinRequests
  /\ k.at = "sent" /\ k.kind = "join" => k.key \in Calls

CallsInv ==
  /\ call \in [Calls -> CallType] /\ \A c \in Calls : CallOK(call[c])
  /\ joinKey \in Calls \cup {None}
  /\ joinKey # None => Active(call[joinKey]) /\ call[joinKey].kind = "join"

SessionInv ==
  /\ me \in Viewers /\ cleared \in BOOLEAN
  /\ page \in {"list", "detail", "edit", "create", "calendar", "login"}

ServerInv ==
  /\ exists \in BOOLEAN /\ members \subseteq Users \ {Organiser} /\ missed \in BOOLEAN
  /\ job \in [JoinRequests -> {"none", "PENDING", "CONFIRMED", "REJECTED"}]

IInv == SessionInv /\ ServerInv /\ CallsInv /\ StoreInv

(***************************************************************************)
(* Values                                                                  *)
(***************************************************************************)
LEMMA RequestOf ==
  ASSUME NEW w \in Viewers
  PROVE  /\ Request(w) \in Requests /\ Request(w) # None
         /\ Request(w).by = w /\ Request(w).at = "sent" /\ Request(w).answer = None
  <1>1. Request(w) \in Requests
    BY DEF Request, Requests
  <1>2. QED
    BY <1>1, NoneAssumption DEF Request

LEMMA FailedOf == Failed \in Entry /\ Failed # None /\ Failed.ok = FALSE /\ Failed.by = "nothing"
  <1>1. Failed \in Entry
    BY DEF Failed, Entry
  <1>2. QED
    BY <1>1, NoneAssumption DEF Failed

\* The entry of v provides its own tag, and every tag of v if it is not failed.
LEMMA ProvidesOf ==
  ASSUME NEW v \in Views, NEW entry \in Entry
  PROVE  /\ OwnTag(v) \in Provides(v, entry) /\ Provides(v, entry) \subseteq Tags
         /\ entry.ok => Provides(v, entry) = Hits(v)
         /\ OwnTag(v) \in Hits(v) /\ OwnTag(v) \in Tags
  BY DEF Views, Tags, OwnTag, Hits, Provides, Entry

LEMMA StoreFields ==
  ASSUME NEW s \in StoreType
  PROVE  /\ s.cache \in [Views -> Entry \cup {None}]
         /\ s.query \in [Views -> Requests \cup {None}]
         /\ s.stale \in SUBSET Tags
  BY DEF StoreType

(***************************************************************************)
(* What the operations of the store do                                     *)
(***************************************************************************)
\* Flush waits, or leaves nothing stale and fetches or drops what was.
LEMMA FlushOf ==
  ASSUME NEW s \in StoreType, NEW p, NEW m, NEW w \in Viewers,
         NEW t, t = Flush(s, p, m, w)
  PROVE  /\ t \in StoreType
         /\ \/ Pending(s, m) /\ t = s
            \/ /\ ~Pending(s, m) /\ t.stale = {}
               /\ \A v \in Views :
                    /\ s.query[v] = None
                    /\ IF s.cache[v] # None /\ Provides(v, s.cache[v]) \cap s.stale # {}
                         THEN \/ t.cache[v] = None /\ t.query[v] = None
                              \/ t.cache[v] = s.cache[v] /\ t.query[v] = Request(w)
                         ELSE t.cache[v] = s.cache[v] /\ t.query[v] = None
  <1>1. CASE Pending(s, m)
    BY <1>1 DEF Flush
  <1>2. CASE ~Pending(s, m)
    <2>1. PICK hit : /\ hit = {v \in Views : s.cache[v] # None /\ Provides(v, s.cache[v]) \cap s.stale # {}}
                     /\ t = [cache |-> [v \in Views |-> IF v \in hit /\ v # Shown(p) THEN None ELSE s.cache[v]],
                             query |-> [v \in Views |-> IF v \in hit /\ v = Shown(p) THEN Request(w) ELSE None],
                             stale |-> {}]
      BY <1>2 DEF Flush
    <2>2. /\ [v \in Views |-> IF v \in hit /\ v # Shown(p) THEN None ELSE s.cache[v]]
               \in [Views -> Entry \cup {None}]
          /\ [v \in Views |-> IF v \in hit /\ v = Shown(p) THEN Request(w) ELSE None]
               \in [Views -> Requests \cup {None}]
      BY StoreFields, RequestOf
    <2>3. t \in StoreType
      BY <2>1, <2>2 DEF StoreType
    <2>4. \A v \in Views : s.query[v] = None
      BY <1>2 DEF Pending
    <2>5. QED
      BY <1>2, <2>1, <2>3, <2>4
  <1>3. QED
    BY <1>1, <1>2

LEMMA MountOf ==
  ASSUME NEW s \in StoreType, NEW p, NEW w \in Viewers, NEW t, t = Mount(s, p, w)
  PROVE  /\ t \in StoreType /\ t.cache = s.cache /\ t.stale = s.stale
         /\ \A v \in Views :
              \/ t.query[v] = s.query[v]
              \/ t.query[v] = Request(w) /\ s.cache[v] \in {None, Failed} /\ s.query[v] = None
  <1>1. CASE t = s
    BY <1>1
  <1>2. ASSUME NEW v \in Views, s.cache[v] \in {None, Failed}, s.query[v] = None,
               t = [s EXCEPT !.query[v] = Request(w)]
        PROVE  /\ t \in StoreType /\ t.cache = s.cache /\ t.stale = s.stale
               /\ \A x \in Views : t.query[x] = IF x = v THEN Request(w) ELSE s.query[x]
    <2>1. [s.query EXCEPT ![v] = Request(w)] \in [Views -> Requests \cup {None}]
      BY StoreFields, RequestOf
    <2>2. t = [s EXCEPT !.query = [s.query EXCEPT ![v] = Request(w)]]
      BY <1>2
    <2>3. QED
      BY <2>1, <2>2, StoreFields DEF StoreType
  <1>3. QED
    BY <1>1, <1>2 DEF Mount

LEMMA ResetOf ==
  ASSUME NEW s \in StoreType, NEW p, NEW w \in Viewers, NEW t, t = Reset(s, p, w)
  PROVE  /\ t \in StoreType
         /\ \A v \in Views : t.cache[v] = None /\ t.query[v] \in {None, Request(w)}
  <1>1. PICK e : e = [cache |-> [v \in Views |-> None], query |-> [v \in Views |-> None],
                      stale |-> s.stale]
    OBVIOUS
  <1>2. e \in StoreType
    BY <1>1, StoreFields DEF StoreType
  <1>3. t = Mount(e, p, w)
    BY <1>1 DEF Reset
  <1>4. QED
    BY <1>1, <1>2, <1>3, MountOf

(***************************************************************************)
(* What they keep                                                          *)
(***************************************************************************)
\* Refetching with whatever token keeps what holds of answers and of their age.
LEMMA FlushKeepsData ==
  ASSUME NEW s \in StoreType, NEW p, NEW m, NEW w \in Viewers, AnswersIn(s)
  PROVE  /\ AnswersIn(Flush(s, p, m, w))
         /\ CurrentIn(s, m) => CurrentIn(Flush(s, p, m, w), m)
         /\ QuietIn(Flush(s, p, m, w), m)
  <1>1. PICK t \in StoreType : t = Flush(s, p, m, w)
    BY FlushOf
  <1>2. CASE Pending(s, m) /\ t = s
    BY <1>1, <1>2 DEF QuietIn
  <1>3. CASE ~(Pending(s, m) /\ t = s)
    <2>1. ~Pending(s, m) /\ t.stale = {}
      BY <1>1, <1>3, FlushOf
    <2>2. ASSUME NEW v \in Views
          PROVE  /\ s.query[v] = None
                 /\ t.query[v] = None \/ (t.query[v] = Request(w) /\ t.cache[v] = s.cache[v])
                 /\ t.cache[v] = None \/ t.cache[v] = s.cache[v]
                 /\ s.cache[v] # None /\ Provides(v, s.cache[v]) \cap s.stale # {} =>
                      t.cache[v] = None \/ t.query[v] = Request(w)
      BY <1>1, <1>3, FlushOf
    <2>3. AnswersIn(t)
      BY <2>2, RequestOf DEF AnswersIn
    <2>4. ASSUME CurrentIn(s, m) PROVE CurrentIn(t, m)
      <3>1. ASSUME NEW v \in Views, t.cache[v] # None, t.cache[v].ok, ~t.cache[v].current
            PROVE  t.query[v] # None \/ Excused(v, t, m)
        <4>1. t.cache[v] = s.cache[v] /\ s.cache[v] \in Entry /\ s.query[v] = None
          BY <2>2, <3>1, StoreFields
        <4>2. Excused(v, s, m)
          BY <2>4, <3>1, <4>1 DEF CurrentIn
        <4>3. CASE Hits(v) \cap s.stale # {}
          <5>1. Provides(v, s.cache[v]) \cap s.stale # {}
            BY <3>1, <4>1, <4>3, ProvidesOf
          <5>2. QED
            BY <2>2, <3>1, <4>1, <5>1, RequestOf
        <4>4. CASE \E c \in Calls : Active(m[c]) /\ Hits(v) \cap InvalidatedBy(m[c]) # {}
          BY <4>4 DEF Excused
        <4>5. QED
          BY <4>2, <4>3, <4>4 DEF Excused
      <3>2. ASSUME NEW v \in Views, t.query[v] # None PROVE t.query[v].answer = None
        BY <2>2, <3>2, RequestOf
      <3>3. QED
        BY <3>1, <3>2 DEF CurrentIn
    <2>5. QuietIn(t, m)
      BY <2>1 DEF QuietIn
    <2>6. QED
      BY <1>1, <2>3, <2>4, <2>5
  <1>4. QED
    BY <1>2, <1>3

\* Refetching with the token of the viewer keeps the rest as well.
LEMMA FlushKeeps ==
  ASSUME NEW s \in StoreType, NEW p, NEW m, NEW w \in Viewers, NEW miss, NEW out,
         Good(s, m, w, miss, out)
  PROVE  /\ Good(Flush(s, p, m, w), m, w, miss, out)
         /\ QuietIn(Flush(s, p, m, w), m)
  <1>1. PICK t \in StoreType : t = Flush(s, p, m, w)
    BY FlushOf
  <1>2. AnswersIn(t) /\ (~miss => CurrentIn(t, m)) /\ QuietIn(t, m)
    BY <1>1, FlushKeepsData DEF Good
  <1>3. CASE Pending(s, m) /\ t = s
    BY <1>1, <1>2, <1>3 DEF Good
  <1>4. CASE ~(Pending(s, m) /\ t = s)
    <2>1. ASSUME NEW v \in Views
          PROVE  /\ s.query[v] = None
                 /\ t.query[v] = None \/ (t.query[v] = Request(w) /\ t.cache[v] = s.cache[v])
                 /\ t.cache[v] = None \/ t.cache[v] = s.cache[v]
                 /\ s.cache[v] # None /\ Provides(v, s.cache[v]) \cap s.stale # {} =>
                      t.cache[v] = None \/ t.query[v] = Request(w)
      BY <1>1, <1>4, FlushOf
    <2>2. OwnIn(t, w)
      <3>1. SUFFICES ASSUME w # Nobody, NEW v \in Views
                     PROVE  /\ t.query[v] # None => t.query[v].by = w
                            /\ t.cache[v] # None /\ t.cache[v].ok /\ t.cache[v].by # w =>
                                 t.query[v] # None
        BY DEF OwnIn
      <3>2. t.query[v] # None => t.query[v].by = w
        BY <2>1, RequestOf
      <3>3. ASSUME t.cache[v] # None, t.cache[v].ok, t.cache[v].by # w
            PROVE  t.query[v] # None
        <4>1. t.cache[v] = s.cache[v] /\ s.cache[v] \in Entry /\ s.query[v] = None
          BY <2>1, <3>3, StoreFields
        <4>2. OwnTag(v) \in s.stale
          BY <3>1, <3>3, <4>1 DEF Good, OwnIn
        <4>3. Provides(v, s.cache[v]) \cap s.stale # {}
          BY <4>1, <4>2, ProvidesOf
        <4>4. QED
          BY <2>1, <3>3, <4>1, <4>3, RequestOf
      <3>4. QED
        BY <3>2, <3>3
    <2>3. out => w = Nobody /\ NoUserIn(t)
      BY <2>1, RequestOf DEF Good, NoUserIn
    <2>4. QED
      BY <1>1, <1>2, <2>2, <2>3 DEF Good
  <1>5. QED
    BY <1>3, <1>4

\* More tags are stale.
LEMMA StaleKeeps ==
  ASSUME NEW s \in StoreType, NEW m, NEW w, NEW miss, NEW out, NEW tags \in SUBSET Tags,
         NEW t, t = [s EXCEPT !.stale = @ \cup tags]
  PROVE  /\ t \in StoreType /\ t.cache = s.cache /\ t.query = s.query /\ t.stale = s.stale \cup tags
         /\ Good(s, m, w, miss, out) => Good(t, m, w, miss, out)
  <1>1. t \in StoreType /\ t.cache = s.cache /\ t.query = s.query /\ t.stale = s.stale \cup tags
    BY StoreFields DEF StoreType
  <1>2. \A v \in Views : Excused(v, s, m) => Excused(v, t, m)
    BY <1>1 DEF Excused
  <1>3. AnswersIn(s) => AnswersIn(t)
    BY <1>1 DEF AnswersIn
  <1>4. OwnIn(s, w) => OwnIn(t, w)
    BY <1>1 DEF OwnIn
  <1>5. CurrentIn(s, m) => CurrentIn(t, m)
    BY <1>1, <1>2 DEF CurrentIn
  <1>6. NoUserIn(s) => NoUserIn(t)
    BY <1>1 DEF NoUserIn
  <1>7. QED
    BY <1>1, <1>3, <1>4, <1>5, <1>6 DEF Good

\* A page that opens asks with the token of the viewer.
LEMMA MountKeeps ==
  ASSUME NEW s \in StoreType, NEW p, NEW m, NEW w \in Viewers, NEW miss, NEW out
  PROVE  /\ Good(s, m, w, miss, out) => Good(Mount(s, p, w), m, w, miss, out)
         /\ QuietIn(s, m) => QuietIn(Mount(s, p, w), m)
  <1>1. PICK t \in StoreType : t = Mount(s, p, w)
    BY MountOf
  <1>2. /\ t.cache = s.cache /\ t.stale = s.stale
        /\ \A v \in Views :
             \/ t.query[v] = s.query[v]
             \/ t.query[v] = Request(w) /\ s.cache[v] \in {None, Failed} /\ s.query[v] = None
    BY <1>1, MountOf
  <1>3. AnswersIn(s) => AnswersIn(t)
    BY <1>2, RequestOf DEF AnswersIn
  <1>4. OwnIn(s, w) => OwnIn(t, w)
    BY <1>2, RequestOf DEF OwnIn
  <1>5. CurrentIn(s, m) => CurrentIn(t, m)
    <2>1. \A v \in Views : Excused(v, s, m) => Excused(v, t, m)
      BY <1>2 DEF Excused
    <2>2. QED
      BY <1>2, <2>1, RequestOf DEF CurrentIn
  <1>6. w = Nobody /\ NoUserIn(s) => NoUserIn(t)
    BY <1>2, RequestOf DEF NoUserIn
  <1>7. QuietIn(s, m) => QuietIn(t, m)
    BY <1>2, RequestOf DEF QuietIn, Pending
  <1>8. QED
    BY <1>1, <1>3, <1>4, <1>5, <1>6, <1>7 DEF Good

\* A cache that was emptied says nothing wrong.
LEMMA ResetKeeps ==
  ASSUME NEW s \in StoreType, NEW p, NEW m, NEW w \in Viewers, NEW miss, NEW out,
         out => w = Nobody
  PROVE  Good(Reset(s, p, w), m, w, miss, out) /\ QuietIn(Reset(s, p, w), m)
  <1>1. PICK t \in StoreType : t = Reset(s, p, w)
    BY ResetOf
  <1>2. \A v \in Views : t.cache[v] = None /\ t.query[v] \in {None, Request(w)}
    BY <1>1, ResetOf
  <1>3. AnswersIn(t) /\ OwnIn(t, w) /\ CurrentIn(t, m) /\ QuietIn(t, m)
    BY <1>2, RequestOf DEF AnswersIn, OwnIn, CurrentIn, QuietIn
  <1>4. out => w = Nobody /\ NoUserIn(t)
    BY <1>2, RequestOf DEF NoUserIn
  <1>5. QED
    BY <1>1, <1>3, <1>4 DEF Good

\* Mutations go on as what they are, and the store does not forget them.
GoesOn(k, k2) == Active(k) => Active(k2) /\ k2.kind = k.kind /\ k2.kept = k.kept

LEMMA CallsGoOn ==
  ASSUME NEW s, NEW m, NEW m2, NEW w, NEW miss, NEW out,
         \A c \in Calls : GoesOn(m[c], m2[c])
  PROVE  /\ Good(s, m, w, miss, out) => Good(s, m2, w, miss, out)
         /\ QuietIn(s, m) => QuietIn(s, m2)
  <1>1. \A c \in Calls : Active(m[c]) => InvalidatedBy(m2[c]) = InvalidatedBy(m[c])
    BY DEF InvalidatedBy, GoesOn
  <1>2. \A v : Excused(v, s, m) => Excused(v, s, m2)
    BY <1>1 DEF Excused, GoesOn
  <1>3. CurrentIn(s, m) => CurrentIn(s, m2)
    BY <1>2 DEF CurrentIn
  <1>4. Pending(s, m) => Pending(s, m2)
    BY DEF Pending, Known, GoesOn
  <1>5. QED
    BY <1>3, <1>4 DEF Good, QuietIn

\* A mutation that ends leaves its tags behind.
LEMMA CallEnds ==
  ASSUME NEW s \in StoreType, NEW t \in StoreType, NEW m, NEW m2, NEW w, NEW miss, NEW out,
         NEW c \in Calls, Good(s, m, w, miss, out),
         t.cache = s.cache, t.query = s.query, s.stale \cup InvalidatedBy(m[c]) \subseteq t.stale,
         \A d \in Calls \ {c} : m2[d] = m[d]
  PROVE  Good(t, m2, w, miss, out)
  <1>1. \A v : Excused(v, s, m) => Excused(v, t, m2)
    BY DEF Excused
  <1>2. CurrentIn(s, m) => CurrentIn(t, m2)
    BY <1>1 DEF CurrentIn
  <1>3. AnswersIn(t)
    BY DEF Good, AnswersIn
  <1>4. OwnIn(t, w)
    BY DEF Good, OwnIn
  <1>5. out => w = Nobody /\ NoUserIn(t)
    BY DEF Good, NoUserIn
  <1>6. QED
    BY <1>2, <1>3, <1>4, <1>5 DEF Good

(***************************************************************************)
(* States and steps                                                        *)
(***************************************************************************)
\* The store as it is, and as a step leaves it
LEMMA NowFields ==
  /\ Now.cache = cache /\ Now.query = query /\ Now.stale = stale
  /\ Now' = [cache |-> cache', query |-> query', stale |-> stale']
  BY DEF Now

LEMMA StoreNext ==
  ASSUME NEW t \in StoreType, Become(t),
         Good(t, call', me', missed', cleared'), QuietIn(t, call')
  PROVE  StoreInv'
  <1>1. cache' = t.cache /\ query' = t.query /\ stale' = t.stale
    BY DEF Become
  <1>2. Now' = [cache |-> t.cache, query |-> t.query, stale |-> t.stale]
    BY <1>1, NowFields
  <1>3. PICK n : n = [cache |-> t.cache, query |-> t.query, stale |-> t.stale]
    OBVIOUS
  <1>4. n = t
    BY <1>3 DEF StoreType
  <1>5. QED
    BY <1>2, <1>3, <1>4 DEF StoreInv

LEMMA StoreSame ==
  ASSUME StoreInv, UNCHANGED store
  PROVE  Become(Now) /\ Now' = Now
  BY DEF Become, Now, store

\* What TypeOK says
LEMMA TypesOf == IInv => TypeOK
  <1>1. SUFFICES ASSUME IInv PROVE TypeOK
    OBVIOUS
  <1>2. /\ cache \in [Views -> Entry \cup {None}] /\ query \in [Views -> Requests \cup {None}]
        /\ stale \subseteq Tags
    BY <1>1, NowFields, StoreFields DEF IInv, StoreInv
  <1>3. \A c \in Calls : call[c].at = "poll" => call[c].request # None
    BY <1>1, NoneAssumption DEF IInv, CallsInv, CallOK
  <1>4. QED
    BY <1>1, <1>2, <1>3 DEF IInv, SessionInv, ServerInv, CallsInv, CallType, TypeOK

LEMMA CallValues ==
  /\ CallOK(NoCall) /\ CallOK(Done)
  /\ \A k : CallOK(k) => CallOK([k EXCEPT !.here = FALSE]) /\ CallOK([k EXCEPT !.kept = FALSE])
  /\ NoCall \in CallType /\ Done \in CallType
  <1>1. NoCall \in CallType /\ NoCall.at = "idle"
    BY DEF NoCall, CallType, Kinds, Viewers
  <1>2. Done \in CallType /\ Done.at = "done"
    BY <1>1 DEF Done, CallType
  <1>3. ASSUME NEW k \in CallType
        PROVE  /\ [k EXCEPT !.here = FALSE] \in CallType
               /\ [k EXCEPT !.here = FALSE].at = k.at /\ [k EXCEPT !.here = FALSE].kind = k.kind
               /\ [k EXCEPT !.here = FALSE].request = k.request
               /\ [k EXCEPT !.here = FALSE].key = k.key
               /\ [k EXCEPT !.kept = FALSE] \in CallType
               /\ [k EXCEPT !.kept = FALSE].at = k.at /\ [k EXCEPT !.kept = FALSE].kind = k.kind
               /\ [k EXCEPT !.kept = FALSE].request = k.request
               /\ [k EXCEPT !.kept = FALSE].key = k.key
    BY DEF CallType
  <1>4. QED
    BY <1>1, <1>2, <1>3 DEF CallOK

\* A page that is left keeps its mutations, which do not know of it any more.
LEMMA LeftOf ==
  ASSUME NEW m \in [Calls -> CallType], NEW m2, m2 = Left(m)
  PROVE  /\ m2 \in [Calls -> CallType]
         /\ \A c \in Calls :
              /\ CallOK(m[c]) => CallOK(m2[c])
              /\ m2[c].at = m[c].at /\ m2[c].kind = m[c].kind /\ m2[c].kept = m[c].kept
              /\ (Active(m2[c]) <=> Active(m[c])) /\ GoesOn(m[c], m2[c])
  <1>1. ASSUME NEW k \in CallType
        PROVE  /\ [k EXCEPT !.here = FALSE] \in CallType
               /\ [k EXCEPT !.here = FALSE].at = k.at /\ [k EXCEPT !.here = FALSE].kind = k.kind
               /\ [k EXCEPT !.here = FALSE].kept = k.kept
    BY DEF CallType
  <1>2. \A c \in Calls : m2[c] = [m[c] EXCEPT !.here = FALSE] /\ m[c] \in CallType
    BY DEF Left
  <1>3. m2 \in [Calls -> CallType]
    BY <1>1 DEF Left
  <1>4. \A c \in Calls :
          /\ CallOK(m[c]) => CallOK(m2[c])
          /\ m2[c].at = m[c].at /\ m2[c].kind = m[c].kind /\ m2[c].kept = m[c].kept
    BY <1>1, <1>2, CallValues
  <1>5. \A c \in Calls : Active(m2[c]) <=> Active(m[c])
    BY <1>4 DEF Active
  <1>6. QED
    BY <1>3, <1>4, <1>5 DEF GoesOn

\* A store that is emptied forgets the mutations, which go on.
LEMMA ForgottenOf ==
  ASSUME NEW m \in [Calls -> CallType], NEW m2, m2 = Forgotten(m)
  PROVE  /\ m2 \in [Calls -> CallType]
         /\ \A c \in Calls :
              /\ CallOK(m[c]) => CallOK(m2[c])
              /\ m2[c].kind = m[c].kind /\ (Active(m2[c]) <=> Active(m[c]))
  <1>1. ASSUME NEW k \in CallType
        PROVE  /\ [k EXCEPT !.kept = FALSE] \in CallType
               /\ [k EXCEPT !.kept = FALSE].at = k.at /\ [k EXCEPT !.kept = FALSE].kind = k.kind
    BY DEF CallType
  <1>2. \A c \in Calls : m2[c] = [m[c] EXCEPT !.kept = FALSE] /\ m[c] \in CallType
    BY DEF Forgotten
  <1>3. m2 \in [Calls -> CallType]
    BY <1>1 DEF Forgotten
  <1>4. QED
    BY <1>1, <1>2, <1>3, CallValues DEF Active

\* How the parts of the store invariant look before a step
LEMMA StoreBefore ==
  ASSUME IInv
  PROVE  /\ Now \in StoreType /\ Good(Now, call, me, missed, cleared) /\ QuietIn(Now, call)
         /\ AnswersIn(Now) /\ (~missed => CurrentIn(Now, call))
         /\ me \in Viewers
  BY DEF IInv, StoreInv, Good, SessionInv

(***************************************************************************)
(* Every step keeps the invariant                                          *)
(***************************************************************************)
LEMMA NavigateKeeps ==
  ASSUME IInv, NEW p \in Pages, Navigate(p)
  PROVE  IInv'
  <1>1. call' \in [Calls -> CallType] /\ CallsInv'
    <2>1. /\ call' \in [Calls -> CallType]
          /\ \A c \in Calls :
               /\ CallOK(call'[c])
               /\ call'[c].kind = call[c].kind /\ (Active(call'[c]) <=> Active(call[c]))
      BY LeftOf DEF IInv, CallsInv, Navigate
    <2>2. QED
      BY <2>1 DEF IInv, CallsInv, Navigate
  <1>2. PICK t \in StoreType : t = Mount(Now, p, me)
    BY StoreBefore, MountOf
  <1>3. Good(t, call, me, missed, cleared) /\ QuietIn(t, call)
    BY <1>2, StoreBefore, MountKeeps
  <1>4. Good(t, call', me, missed, cleared) /\ QuietIn(t, call')
    <2>1. \A c \in Calls : GoesOn(call[c], call'[c])
      BY LeftOf DEF IInv, CallsInv, Navigate
    <2>2. QED
      BY <1>3, <2>1, CallsGoOn
  <1>5. StoreInv'
    BY <1>2, <1>4, StoreNext DEF Navigate, session, server
  <1>6. SessionInv' /\ ServerInv'
    BY PagesAssumption DEF IInv, SessionInv, ServerInv, Navigate, session, server
  <1>7. QED
    BY <1>1, <1>5, <1>6 DEF IInv

\* Steps of the store alone
LEMMA OnlyStoreKeeps ==
  ASSUME IInv, UNCHANGED <<session, page, call, joinKey, server>>, StoreInv'
  PROVE  IInv'
  BY DEF IInv, SessionInv, ServerInv, CallsInv, session, server

LEMMA ServeQueryKeeps ==
  ASSUME IInv, NEW v \in Views, ServeQuery(v)
  PROVE  IInv'
  <1>1. PICK q \in Requests : q = query[v] /\ q # None /\ q.at = "sent" /\ q.by \in Viewers
    <2>1. query[v] \in Requests
      BY StoreBefore, NowFields, StoreFields DEF ServeQuery
    <2>2. query[v].by \in Viewers
      BY <2>1 DEF Requests
    <2>3. QED
      BY <2>1, <2>2 DEF ServeQuery
  <1>2. PICK a \in Entry :
          /\ a = Failed \/ (a.by = q.by /\ a.current /\ a.ok)
          /\ query' = [query EXCEPT ![v].at = "back", ![v].answer = a]
    <2>1. [by |-> q.by, current |-> TRUE, ok |-> TRUE] \in Entry
      BY <1>1 DEF Entry
    <2>2. QED
      BY <1>1, <2>1, FailedOf DEF ServeQuery
  <1>3. PICK r \in Requests : /\ r = [q EXCEPT !.at = "back", !.answer = a]
                              /\ r.by = q.by /\ r.at = "back" /\ r.answer = a
    <2>1. [q EXCEPT !.at = "back", !.answer = a] \in Requests
      BY DEF Requests
    <2>2. PICK r : r = [q EXCEPT !.at = "back", !.answer = a]
      OBVIOUS
    <2>3. r.by = q.by /\ r.at = "back" /\ r.answer = a
      BY <2>2 DEF Requests
    <2>4. QED
      BY <2>1, <2>2, <2>3
  <1>4. query \in [Views -> Requests \cup {None}] /\ query' = [query EXCEPT ![v] = r]
    BY <1>1, <1>2, <1>3, StoreBefore, NowFields, StoreFields
  <1>5. PICK t \in StoreType : /\ t = [cache |-> cache, query |-> query', stale |-> stale]
                               /\ t.cache = cache /\ t.query = query' /\ t.stale = stale
    <2>1. query' \in [Views -> Requests \cup {None}]
      BY <1>4
    <2>2. cache \in [Views -> Entry \cup {None}] /\ stale \in SUBSET Tags
      BY StoreBefore, NowFields, StoreFields
    <2>3. [cache |-> cache, query |-> query', stale |-> stale] \in StoreType
      BY <2>1, <2>2 DEF StoreType
    <2>4. QED
      BY <2>3
  <1>6. a # None /\ r # None
    BY NoneAssumption
  <1>7. AnswersIn(t)
    BY <1>2, <1>3, <1>4, <1>5, <1>6, FailedOf, StoreBefore, NowFields DEF AnswersIn
  <1>8. OwnIn(t, me)
    BY <1>1, <1>3, <1>4, <1>5, <1>6, StoreBefore, NowFields DEF Good, OwnIn
  <1>9. CurrentIn(Now, call) => CurrentIn(t, call)
    <2>1. \A x : Excused(x, Now, call) => Excused(x, t, call)
      BY <1>5, NowFields DEF Excused
    <2>2. \A x \in Views : query[x] # None => t.query[x] # None
      BY <1>4, <1>5, <1>6
    <2>3. a.ok => a.current
      BY <1>2, FailedOf
    <2>4. \A x \in Views : t.query[x] = IF x = v THEN r ELSE query[x]
      BY <1>4, <1>5
    <2>5. QED
      BY <1>3, <1>5, <2>1, <2>2, <2>3, <2>4, NowFields DEF CurrentIn
  <1>10. QuietIn(t, call)
    BY <1>4, <1>5, <1>6 DEF QuietIn, Pending
  <1>11. cleared => me = Nobody /\ NoUserIn(t)
    BY <1>1, <1>3, <1>4, <1>5, StoreBefore, NowFields DEF Good, NoUserIn
  <1>12. Good(t, call, me, missed, cleared)
    BY <1>7, <1>8, <1>9, <1>11, StoreBefore DEF Good
  <1>13. Become(t) /\ call' = call /\ me' = me /\ missed' = missed /\ cleared' = cleared
    BY <1>5 DEF Become, ServeQuery, session, server
  <1>14. StoreInv'
    BY <1>10, <1>12, <1>13, StoreNext
  <1>15. QED
    BY <1>14, OnlyStoreKeeps DEF ServeQuery

LEMMA QueryBackKeeps ==
  ASSUME IInv, NEW v \in Views, QueryBack(v)
  PROVE  IInv'
  <1>1. PICK q \in Requests : q = query[v] /\ q # None /\ q.at = "back" /\ q.answer \in Entry
    <2>1. query[v] \in Requests
      BY StoreBefore, NowFields, StoreFields DEF QueryBack
    <2>2. query[v].answer \in Entry \cup {None}
      BY <2>1 DEF Requests
    <2>3. query[v].answer # None
      BY StoreBefore, NowFields DEF AnswersIn, QueryBack
    <2>4. QED
      BY <2>1, <2>2, <2>3 DEF QueryBack
  <1>2. PICK e : e = IF q.answer = Failed /\ cache[v] # None
                       THEN [cache[v] EXCEPT !.current = FALSE, !.ok = FALSE] ELSE q.answer
    OBVIOUS
  <1>3. /\ e \in Entry /\ e # None
        /\ e.by = q.answer.by \/ (cache[v] # None /\ e.by = cache[v].by)
        /\ e.ok => e = q.answer
    <2>1. CASE q.answer = Failed /\ cache[v] # None
      <3>1. cache[v] \in Entry
        BY <2>1, StoreBefore, NowFields, StoreFields
      <3>2. e \in Entry /\ e.by = cache[v].by /\ e.ok = FALSE
        BY <1>2, <2>1, <3>1 DEF Entry
      <3>3. QED
        BY <2>1, <3>2, NoneAssumption
    <2>2. CASE ~(q.answer = Failed /\ cache[v] # None)
      BY <1>1, <1>2, <2>2, NoneAssumption
    <2>3. QED
      BY <2>1, <2>2
  <1>4. PICK t : t = [Now EXCEPT !.cache[v] = e, !.query[v] = None]
    OBVIOUS
  <1>5. /\ t \in StoreType /\ t.stale = stale
        /\ \A x \in Views : t.cache[x] = IF x = v THEN e ELSE cache[x]
        /\ \A x \in Views : t.query[x] = IF x = v THEN None ELSE query[x]
    <2>1. t = [Now EXCEPT !.cache = [cache EXCEPT ![v] = e], !.query = [query EXCEPT ![v] = None]]
      BY <1>4, NowFields, StoreBefore DEF StoreType
    <2>2. /\ [cache EXCEPT ![v] = e] \in [Views -> Entry \cup {None}]
          /\ [query EXCEPT ![v] = None] \in [Views -> Requests \cup {None}]
      BY <1>3, StoreBefore, NowFields, StoreFields
    <2>3. t \in StoreType /\ t.stale = stale /\ t.cache = [cache EXCEPT ![v] = e]
            /\ t.query = [query EXCEPT ![v] = None]
      BY <2>1, <2>2, StoreBefore, NowFields DEF StoreType
    <2>4. QED
      BY <2>3, StoreBefore, NowFields, StoreFields
  <1>6. \A x : Excused(x, Now, call) <=> Excused(x, t, call)
    BY <1>5, NowFields DEF Excused
  <1>7. AnswersIn(t)
    BY <1>5, StoreBefore, NowFields DEF AnswersIn
  <1>8. OwnIn(t, me)
    <2>1. e.ok => e.by = q.by
      BY <1>1, <1>3, StoreBefore, NowFields DEF AnswersIn
    <2>2. QED
      BY <1>1, <1>5, <2>1, StoreBefore, NowFields DEF Good, OwnIn
  <1>9. CurrentIn(Now, call) => CurrentIn(t, call)
    BY <1>1, <1>3, <1>5, <1>6, NoneAssumption, NowFields DEF CurrentIn
  <1>10. cleared => me = Nobody /\ NoUserIn(t)
    <2>1. q.answer.by \in {q.by, "nothing"}
      BY <1>1, NoneAssumption, StoreBefore, NowFields DEF AnswersIn
    <2>2. cleared => q.by = Nobody /\ me = Nobody /\ NoUserIn(Now)
      BY <1>1, StoreBefore, NowFields DEF Good, NoUserIn
    <2>3. cleared => e.by \notin Users
      BY <1>3, <2>1, <2>2, UsersAssumption, NowFields DEF NoUserIn
    <2>4. QED
      BY <1>5, <2>2, <2>3, NowFields DEF NoUserIn
  <1>11. Good(t, call, me, missed, cleared)
    BY <1>7, <1>8, <1>9, <1>10, StoreBefore DEF Good
  <1>12. PICK u \in StoreType : u = Flush(t, page, call, me)
    BY <1>5, StoreBefore, FlushOf
  <1>13. Good(u, call, me, missed, cleared) /\ QuietIn(u, call)
    BY <1>5, <1>11, <1>12, StoreBefore, FlushKeeps
  <1>14. Become(u)
    BY <1>1, <1>2, <1>4, <1>12 DEF QueryBack
  <1>15. StoreInv'
    BY <1>13, <1>14, StoreNext DEF QueryBack, session, server
  <1>16. QED
    BY <1>15, OnlyStoreKeeps DEF QueryBack

LEMMA EvictKeeps ==
  ASSUME IInv, NEW v \in Views, Evict(v)
  PROVE  IInv'
  <1>1. PICK t \in StoreType :
          /\ t = [cache |-> cache', query |-> query, stale |-> stale]
          /\ t.query = query /\ t.stale = stale /\ t.cache = cache'
    <2>1. cache' \in [Views -> Entry \cup {None}]
      BY StoreBefore, NowFields, StoreFields DEF Evict
    <2>2. query \in [Views -> Requests \cup {None}] /\ stale \in SUBSET Tags
      BY StoreBefore, NowFields, StoreFields
    <2>3. [cache |-> cache', query |-> query, stale |-> stale] \in StoreType
      BY <2>1, <2>2 DEF StoreType
    <2>4. QED
      BY <2>3
  <1>2. \A x \in Views : t.cache[x] = None \/ t.cache[x] = cache[x]
    BY <1>1, StoreBefore, NowFields, StoreFields DEF Evict
  <1>3. \A x : Excused(x, Now, call) <=> Excused(x, t, call)
    BY <1>1, NowFields DEF Excused
  <1>4. AnswersIn(t) /\ OwnIn(t, me) /\ (CurrentIn(Now, call) => CurrentIn(t, call))
    BY <1>1, <1>2, <1>3, StoreBefore, NowFields DEF Good, AnswersIn, OwnIn, CurrentIn
  <1>5. QuietIn(t, call) /\ (cleared => me = Nobody /\ NoUserIn(t))
    BY <1>1, <1>2, StoreBefore, NowFields DEF Good, QuietIn, NoUserIn, Pending
  <1>6. Good(t, call, me, missed, cleared)
    BY <1>4, <1>5, StoreBefore DEF Good
  <1>7. Become(t) /\ call' = call /\ me' = me /\ missed' = missed /\ cleared' = cleared
    BY <1>1 DEF Become, Evict, session, server
  <1>8. StoreInv'
    BY <1>5, <1>6, <1>7, StoreNext
  <1>9. QED
    BY <1>8, OnlyStoreKeeps DEF Evict

\* Steps of one mutation that neither ends it nor touches the store
LEMMA OneCallKeeps ==
  ASSUME IInv, NEW c \in Calls, NEW k, CallOK(k), call' = [call EXCEPT ![c] = k],
         GoesOn(call[c], k),
         joinKey' \in {joinKey, c}, joinKey' = c => Active(k) /\ k.kind = "join"
  PROVE  /\ CallsInv'
         /\ Good(Now, call', me, missed, cleared) /\ QuietIn(Now, call')
  <1>1. \A d \in Calls : call'[d] = IF d = c THEN k ELSE call[d]
    BY DEF IInv, CallsInv
  <1>2. call' \in [Calls -> CallType] /\ \A d \in Calls : CallOK(call'[d])
    BY <1>1 DEF IInv, CallsInv, CallOK
  <1>3. \A d \in Calls : GoesOn(call[d], call'[d])
    BY <1>1 DEF GoesOn
  <1>4. CallsInv'
    BY <1>1, <1>2, <1>3 DEF IInv, CallsInv, GoesOn
  <1>5. QED
    BY <1>3, <1>4, StoreBefore, CallsGoOn

LEMMA ClickKeeps ==
  ASSUME IInv, NEW c \in Calls, NEW kind \in KindsOf[c], Click(c, kind)
  PROVE  IInv'
  <1>1. PICK key : key = IF joinKey = None THEN c ELSE joinKey
    OBVIOUS
  <1>2. key \in Calls /\ kind \in Kinds /\ me \in Viewers
    BY <1>1, CallsAssumption DEF IInv, CallsInv, SessionInv
  <1>3. PICK k : k = [NoCall EXCEPT !.kind = kind, !.at = "sent", !.by = me, !.here = TRUE,
                        !.kept = TRUE, !.key = IF kind = "join" THEN key ELSE None]
    OBVIOUS
  <1>4. k \in CallType /\ k.kind = kind /\ k.at = "sent" /\ (kind = "join" => k.key = key)
    <2>1. (IF kind = "join" THEN key ELSE None) \in Calls \cup {None}
      BY <1>2
    <2>2. QED
      BY <1>2, <1>3, <2>1, CallValues DEF CallType
  <1>5. CallOK(k) /\ Active(k)
    BY <1>2, <1>4 DEF CallOK, Active
  <1>6. call' = [call EXCEPT ![c] = k] /\ ~Active(call[c])
    BY <1>1, <1>3 DEF Click, Active
  <1>7. joinKey' \in {joinKey, c} /\ (joinKey' = c => k.kind = "join")
    <2>1. joinKey # c
      BY <1>6, NoneAssumption DEF IInv, CallsInv
    <2>2. QED
      BY <1>1, <1>4, <2>1 DEF Click
  <1>8. CallsInv' /\ Good(Now, call', me, missed, cleared) /\ QuietIn(Now, call')
    BY <1>5, <1>6, <1>7, OneCallKeeps DEF GoesOn
  <1>9. StoreInv'
    BY <1>8, StoreBefore, StoreSame, StoreNext DEF IInv, Click, session, server
  <1>10. QED
    BY <1>8, <1>9 DEF IInv, SessionInv, ServerInv, Click, session, server

\* What the server sends back
LEMMA AnsweredOf ==
  ASSUME IInv, NEW c \in Calls, NEW ok \in BOOLEAN, Answered(c, ok), Active(call[c]),
         joinKey' = joinKey
  PROVE  /\ CallsInv' /\ Active(call'[c]) /\ call'[c].kind = call[c].kind
         /\ Good(Now, call', me, missed, cleared) /\ QuietIn(Now, call')
  <1>1. PICK k : k = [call[c] EXCEPT !.at = "back", !.ok = ok, !.by = Nobody, !.key = None,
                                     !.request = None]
    OBVIOUS
  <1>2. k \in CallType /\ k.kind = call[c].kind /\ k.kept = call[c].kept /\ k.at = "back"
    BY <1>1 DEF IInv, CallsInv, CallType, Viewers
  <1>3. CallOK(k) /\ Active(k)
    BY <1>2 DEF CallOK, Active
  <1>4. call' = [call EXCEPT ![c] = k]
    BY <1>1 DEF Answered, IInv, CallsInv
  <1>5. call'[c] = k
    BY <1>4 DEF IInv, CallsInv
  <1>6. joinKey' \in {joinKey, c} /\ (joinKey' = c => Active(k) /\ k.kind = "join")
    BY <1>2, <1>3, NoneAssumption DEF IInv, CallsInv
  <1>7. QED
    BY <1>2, <1>3, <1>4, <1>5, <1>6, OneCallKeeps DEF GoesOn

LEMMA FailCallKeeps ==
  ASSUME IInv, NEW c \in Calls, FailCall(c) \/ Poll(c)
  PROVE  IInv'
  <1>1. PICK ok \in BOOLEAN : Answered(c, ok)
    BY DEF FailCall, Poll
  <1>2. Active(call[c]) /\ joinKey' = joinKey /\ UNCHANGED <<session, page, store, server>>
    BY DEF FailCall, Poll, Active
  <1>3. CallsInv' /\ Good(Now, call', me, missed, cleared) /\ QuietIn(Now, call')
    BY <1>1, <1>2, AnsweredOf
  <1>4. StoreInv'
    BY <1>2, <1>3, StoreBefore, StoreSame, StoreNext DEF IInv, session, server
  <1>5. QED
    BY <1>2, <1>3, <1>4 DEF IInv, SessionInv, ServerInv, session, server

LEMMA ServeJoinKeeps ==
  ASSUME IInv, NEW c \in Calls, ServeJoin(c)
  PROVE  IInv'
  <1>1. PICK own : own = <<call[c].key, call[c].by>>
    OBVIOUS
  <1>2. own \in JoinRequests
    <2>1. call[c].key \in Calls
      BY DEF IInv, CallsInv, CallOK, ServeJoin
    <2>2. call[c].by \in Users
      BY DEF IInv, CallsInv, CallType, Viewers, ServeJoin
    <2>3. QED
      BY <1>1, <2>1, <2>2 DEF JoinRequests
  <1>3. PICK r \in JoinRequests :
          call' = [call EXCEPT ![c] = [@ EXCEPT !.at = "poll", !.request = r, !.by = Nobody, !.key = None]]
    BY <1>1, <1>2 DEF ServeJoin
  <1>4. job' \in [JoinRequests -> {"none", "PENDING", "CONFIRMED", "REJECTED"}]
    BY <1>1, <1>2 DEF ServeJoin, IInv, ServerInv
  <1>5. PICK k : k = [call[c] EXCEPT !.at = "poll", !.request = r, !.by = Nobody, !.key = None]
    OBVIOUS
  <1>6. k \in CallType /\ k.kind = "join" /\ k.at = "poll" /\ k.request = r /\ k.kept = call[c].kept
    BY <1>5 DEF IInv, CallsInv, CallType, Viewers, ServeJoin
  <1>7. CallOK(k) /\ Active(k) /\ call[c].kind = "join"
    BY <1>6 DEF CallOK, Active, ServeJoin
  <1>8. call' = [call EXCEPT ![c] = k]
    BY <1>3, <1>5 DEF IInv, CallsInv
  <1>9. CallsInv' /\ Good(Now, call', me, missed, cleared) /\ QuietIn(Now, call')
    BY <1>6, <1>7, <1>8, OneCallKeeps DEF ServeJoin, GoesOn
  <1>10. StoreInv'
    BY <1>9, StoreBefore, StoreSame, StoreNext DEF IInv, ServeJoin, session
  <1>11. QED
    BY <1>4, <1>9, <1>10 DEF IInv, SessionInv, ServerInv, ServeJoin, session

\* What the server changes may be known to a mutation that goes on.
LEMMA OutdateOf ==
  ASSUME IInv, NEW V, Outdate(V), NEW m, NEW miss,
         Good(Now, m, me, miss, cleared), QuietIn(Now, m),
         ~miss => \A v \in V \cap Views : Excused(v, Now, m)
  PROVE  \E t \in StoreType : Become(t) /\ Good(t, m, me, miss, cleared) /\ QuietIn(t, m)
  <1>1. /\ cache \in [Views -> Entry \cup {None}] /\ query \in [Views -> Requests \cup {None}]
        /\ stale \in SUBSET Tags
    BY StoreBefore, NowFields, StoreFields
  <1>2. ASSUME NEW x \in Views
        PROVE  /\ cache'[x] \in Entry \cup {None}
               /\ IF x \in V /\ cache[x] # None
                    THEN /\ cache'[x] # None /\ cache'[x].by = cache[x].by
                         /\ cache'[x].ok = cache[x].ok
                    ELSE cache'[x] = cache[x]
    <2>1. CASE x \in V /\ cache[x] # None
      <3>1. cache[x] \in Entry
        BY <1>1, <2>1
      <3>2. cache'[x] = [cache[x] EXCEPT !.current = FALSE]
        BY <2>1 DEF Outdate
      <3>3. cache'[x] \in Entry /\ cache'[x].by = cache[x].by /\ cache'[x].ok = cache[x].ok
        BY <3>1, <3>2 DEF Entry
      <3>4. QED
        BY <2>1, <3>3, NoneAssumption
    <2>2. CASE ~(x \in V /\ cache[x] # None)
      BY <1>1, <2>2 DEF Outdate
    <2>3. QED
      BY <2>1, <2>2
  <1>3. ASSUME NEW x \in Views
        PROVE  /\ query'[x] \in Requests \cup {None}
               /\ IF x \in V /\ query[x] # None /\ query[x].at = "back"
                    THEN /\ query'[x] # None /\ query'[x].by = query[x].by /\ query'[x].at = "back"
                         /\ query'[x].answer # None
                         /\ query'[x].answer.by = query[x].answer.by
                         /\ query'[x].answer.ok = query[x].answer.ok
                    ELSE query'[x] = query[x]
    <2>1. CASE x \in V /\ query[x] # None /\ query[x].at = "back"
      <3>1. query[x] \in Requests /\ query[x].answer \in Entry
        <4>1. query[x] \in Requests /\ query[x].answer # None
          BY <1>1, <2>1, StoreBefore, NowFields DEF AnswersIn
        <4>2. QED
          BY <4>1 DEF Requests
      <3>2. PICK a : a = [query[x].answer EXCEPT !.current = FALSE]
        OBVIOUS
      <3>3. a \in Entry /\ a.by = query[x].answer.by /\ a.ok = query[x].answer.ok
        BY <3>1, <3>2 DEF Entry
      <3>4. query'[x] = [query[x] EXCEPT !.answer = a]
        BY <2>1, <3>2 DEF Outdate
      <3>5. query'[x] \in Requests /\ query'[x].by = query[x].by /\ query'[x].at = query[x].at
              /\ query'[x].answer = a
        BY <3>1, <3>3, <3>4 DEF Requests
      <3>6. QED
        BY <2>1, <3>3, <3>5, NoneAssumption
    <2>2. CASE ~(x \in V /\ query[x] # None /\ query[x].at = "back")
      BY <1>1, <2>2 DEF Outdate
    <2>3. QED
      BY <2>1, <2>2
  <1>4. cache' \in [Views -> Entry \cup {None}] /\ query' \in [Views -> Requests \cup {None}]
    <2>1. /\ cache' = [x \in Views |-> cache'[x]]
          /\ query' = [x \in Views |-> query'[x]]
      BY DEF Outdate
    <2>2. QED
      BY <1>2, <1>3, <2>1
  <1>5. PICK t : t = [cache |-> cache', query |-> query', stale |-> stale]
    OBVIOUS
  <1>6. t \in StoreType /\ t.cache = cache' /\ t.query = query' /\ t.stale = stale
    BY <1>1, <1>4, <1>5 DEF StoreType
  <1>7. \A x : Excused(x, Now, m) <=> Excused(x, t, m)
    BY <1>6, NowFields DEF Excused
  <1>8. AnswersIn(t)
    BY <1>3, <1>6, StoreBefore, NowFields DEF AnswersIn
  <1>9. OwnIn(t, me)
    BY <1>2, <1>3, <1>6, NowFields DEF Good, OwnIn
  <1>10. ~miss => CurrentIn(t, m)
    BY <1>2, <1>3, <1>6, <1>7, NowFields DEF Good, CurrentIn
  <1>11. cleared => me = Nobody /\ NoUserIn(t)
    BY <1>2, <1>3, <1>6, NowFields DEF Good, NoUserIn
  <1>12. QuietIn(t, m)
    BY <1>2, <1>3, <1>6, NowFields DEF QuietIn, Pending
  <1>13. Become(t)
    BY <1>6 DEF Become, Outdate
  <1>14. QED
    BY <1>6, <1>8, <1>9, <1>10, <1>11, <1>12, <1>13 DEF Good

\* The mutations that change something at the server know what they made stale.
LEMMA ChangedIsKnown ==
  ASSUME NEW k, NEW v \in Changed(k.kind) \cap Views,
         k.kind \in {"join", "leave", "create", "update", "delete"}
  PROVE  Hits(v) \cap InvalidatedBy(k) # {}
  BY DEF Changed, Views, Hits, OwnTag, InvalidatedBy, Tags

LEMMA ServeCallKeeps ==
  ASSUME IInv, NEW c \in Calls, ServeCall(c)
  PROVE  IInv'
  <1>1. PICK granted \in BOOLEAN :
          /\ granted => call[c].kind # "join"
          /\ Answered(c, granted)
          /\ members' = IF granted /\ call[c].kind \in {"leave", "delete"}
                          THEN IF call[c].kind = "leave" THEN members \ {call[c].by} ELSE {}
                          ELSE members
          /\ exists' = (exists /\ ~(granted /\ call[c].kind = "delete"))
          /\ IF granted /\ call[c].kind \notin {"login", "logout"}
               THEN Outdate(Changed(call[c].kind)) ELSE UNCHANGED store
    BY DEF ServeCall
  <1>2. /\ Active(call[c]) /\ joinKey' = joinKey /\ job' = job /\ missed' = missed
        /\ UNCHANGED <<session, page>>
    BY DEF ServeCall, Active
  <1>3. /\ CallsInv' /\ Active(call'[c]) /\ call'[c].kind = call[c].kind
        /\ Good(Now, call', me, missed, cleared) /\ QuietIn(Now, call')
    BY <1>1, <1>2, AnsweredOf
  <1>4. StoreInv'
    <2>1. CASE granted /\ call[c].kind \notin {"login", "logout"}
      <3>1. call[c].kind \in {"leave", "create", "update", "delete"}
        BY <1>1, <2>1 DEF IInv, CallsInv, CallType, Kinds
      <3>2. \A v \in Changed(call[c].kind) \cap Views : Excused(v, Now, call')
        BY <1>3, <3>1, ChangedIsKnown DEF Excused
      <3>3. \E t \in StoreType :
              Become(t) /\ Good(t, call', me, missed, cleared) /\ QuietIn(t, call')
        BY <1>1, <1>3, <2>1, <3>2, OutdateOf
      <3>4. QED
        BY <1>2, <3>3, StoreNext DEF session
    <2>2. CASE ~(granted /\ call[c].kind \notin {"login", "logout"})
      BY <1>1, <1>2, <1>3, <2>2, StoreBefore, StoreSame, StoreNext DEF IInv, session
    <2>3. QED
      BY <2>1, <2>2
  <1>5. SessionInv' /\ ServerInv'
    BY <1>1, <1>2 DEF IInv, SessionInv, ServerInv, session
  <1>6. QED
    BY <1>3, <1>4, <1>5 DEF IInv

LEMMA WorkKeeps ==
  ASSUME IInv, NEW r \in JoinRequests, Work(r)
  PROVE  IInv'
  <1>1. UNCHANGED <<session, page, call, joinKey, exists>>
    BY DEF Work
  <1>2. CASE /\ exists /\ r[2] \notin members \cup {Organiser}
             /\ members' = members \cup {r[2]} /\ job' = [job EXCEPT ![r] = "CONFIRMED"]
             /\ Outdate(Views)
             /\ missed' = (missed \/ ~\E c \in Calls : call[c].at = "poll" /\ call[c].request = r)
    <2>1. ASSUME ~missed', NEW v \in Views PROVE Excused(v, Now, call)
      <3>1. PICK c \in Calls : call[c].at = "poll"
        BY <1>2, <2>1
      <3>2. call[c].kind = "join" /\ Active(call[c])
        BY <3>1 DEF IInv, CallsInv, CallOK, Active
      <3>3. Hits(v) \cap InvalidatedBy(call[c]) # {}
        BY <3>2, ChangedIsKnown DEF Changed
      <3>4. QED
        BY <3>2, <3>3 DEF Excused
    <2>2. Good(Now, call, me, missed', cleared) /\ QuietIn(Now, call)
      BY <1>2, StoreBefore DEF Good
    <2>3. \E t \in StoreType : Become(t) /\ Good(t, call, me, missed', cleared) /\ QuietIn(t, call)
      BY <1>2, <2>1, <2>2, OutdateOf
    <2>4. StoreInv'
      BY <1>1, <2>3, StoreNext DEF session
    <2>5. ServerInv'
      BY <1>1, <1>2 DEF IInv, ServerInv, JoinRequests
    <2>6. QED
      BY <1>1, <2>4, <2>5 DEF IInv, SessionInv, CallsInv, session
  <1>3. CASE job' = [job EXCEPT ![r] = "REJECTED"] /\ UNCHANGED <<members, store, missed>>
    <2>1. StoreInv'
      BY <1>1, <1>3, StoreBefore, StoreSame, StoreNext DEF IInv, session
    <2>2. QED
      BY <1>1, <1>3, <2>1 DEF IInv, SessionInv, ServerInv, CallsInv, session
  <1>4. QED
    BY <1>2, <1>3 DEF Work

\* The mutation c is over: the others go on, and no key is left that it drew.
LEMMA EndOf ==
  ASSUME IInv, NEW c \in Calls, NEW m, m = [call EXCEPT ![c] = Done],
         call' = m \/ call' = Left(m) \/ call' = Forgotten(Left(m)),
         joinKey' = joinKey \/ joinKey' = None, call[c].kind = "join" => joinKey' = None
  PROVE  /\ CallsInv' /\ m \in [Calls -> CallType]
         /\ \A d \in Calls \ {c} : m[d] = call[d]
         /\ (call' = m \/ call' = Left(m)) => \A d \in Calls : GoesOn(m[d], call'[d])
  <1>1. /\ m \in [Calls -> CallType]
        /\ \A d \in Calls : CallOK(m[d]) /\ m[d] = IF d = c THEN Done ELSE call[d]
    BY CallValues DEF IInv, CallsInv
  <1>2. /\ call' \in [Calls -> CallType]
        /\ \A d \in Calls : /\ CallOK(call'[d])
                            /\ call'[d].kind = m[d].kind /\ (Active(call'[d]) <=> Active(m[d]))
    <2>1. PICK m2 : m2 = Left(m)
      OBVIOUS
    <2>2. /\ m2 \in [Calls -> CallType]
          /\ \A d \in Calls : /\ CallOK(m2[d])
                              /\ m2[d].kind = m[d].kind /\ (Active(m2[d]) <=> Active(m[d]))
      <3>1. /\ m2 \in [Calls -> CallType]
            /\ \A d \in Calls : /\ CallOK(m[d]) => CallOK(m2[d])
                                /\ m2[d].kind = m[d].kind /\ (Active(m2[d]) <=> Active(m[d]))
        <4>1. m \in [Calls -> CallType]
          BY <1>1
        <4>2. PICK n \in [Calls -> CallType] : n = m
          BY <4>1
        <4>3. m2 = Left(n)
          BY <2>1, <4>2
        <4>4. /\ m2 \in [Calls -> CallType]
              /\ \A d \in Calls : /\ CallOK(n[d]) => CallOK(m2[d])
                                  /\ m2[d].kind = n[d].kind /\ (Active(m2[d]) <=> Active(n[d]))
          BY <4>3, LeftOf
        <4>5. QED
          BY <4>2, <4>4
      <3>2. QED
        BY <1>1, <3>1
    <2>3. CASE call' = Forgotten(m2)
      BY <2>2, <2>3, ForgottenOf
    <2>4. QED
      BY <1>1, <2>1, <2>2, <2>3
  <1>3. joinKey' # None => joinKey' \in Calls /\ Active(call'[joinKey']) /\ call'[joinKey'].kind = "join"
    BY <1>1, <1>2 DEF IInv, CallsInv
  <1>4. CallsInv'
    BY <1>2, <1>3 DEF IInv, CallsInv
  <1>5. (call' = m \/ call' = Left(m)) => \A d \in Calls : GoesOn(m[d], call'[d])
    <2>1. CASE call' = m
      BY <2>1 DEF GoesOn
    <2>2. CASE call' = Left(m)
      BY <1>1, <2>2, LeftOf
    <2>3. QED
      BY <2>1, <2>2
  <1>6. QED
    BY <1>1, <1>2, <1>4, <1>5

LEMMA CallBackKeeps ==
  ASSUME IInv, NEW c \in Calls, CallBack(c)
  PROVE  IInv'
  <1>1. PICK m, p, tags :
          /\ m = [call EXCEPT ![c] = Done] /\ p = PushedTo(call[c]) /\ tags = InvalidatedBy(call[c])
          /\ page' = p
          /\ call' = (IF p = page THEN m ELSE Left(m))
          /\ joinKey' = IF call[c].kind = "join" THEN None ELSE joinKey
          /\ Become(Mount(Invalidate(Now, tags, page, m, me), p, me))
    BY DEF CallBack
  <1>2. /\ CallsInv'
        /\ \A d \in Calls \ {c} : m[d] = call[d]
        /\ \A d \in Calls : GoesOn(m[d], call'[d])
    BY <1>1, EndOf
  <1>3. tags \in SUBSET Tags
    BY <1>1 DEF InvalidatedBy
  <1>4. PICK t : t = [Now EXCEPT !.stale = @ \cup tags]
    OBVIOUS
  <1>5. t \in StoreType /\ t.cache = Now.cache /\ t.query = Now.query /\ t.stale = Now.stale \cup tags
    BY <1>3, <1>4, StoreBefore, StaleKeeps
  <1>6. Good(t, m, me, missed, cleared)
    <2>1. Now.stale \cup InvalidatedBy(call[c]) \subseteq t.stale
      BY <1>1, <1>5
    <2>2. Now \in StoreType /\ Good(Now, call, me, missed, cleared)
      BY StoreBefore
    <2>3. \A d \in Calls \ {c} : m[d] = call[d]
      BY <1>2
    <2>4. t \in StoreType /\ t.cache = Now.cache /\ t.query = Now.query
      BY <1>5
    <2>5. PICK s \in StoreType : s = Now
      BY <2>2
    <2>6. Good(s, call, me, missed, cleared) /\ s.stale \cup InvalidatedBy(call[c]) \subseteq t.stale
            /\ t.cache = s.cache /\ t.query = s.query
      BY <2>1, <2>2, <2>4, <2>5
    <2>7. QED
      BY <2>3, <2>4, <2>6, CallEnds
  <1>7. PICK u \in StoreType : u = Flush(t, page, m, me)
    BY <1>5, StoreBefore, FlushOf
  <1>8. Good(u, m, me, missed, cleared) /\ QuietIn(u, m)
    BY <1>5, <1>6, <1>7, StoreBefore, FlushKeeps
  <1>9. PICK x \in StoreType : x = Mount(u, p, me)
    BY StoreBefore, MountOf
  <1>10. Good(x, m, me, missed, cleared) /\ QuietIn(x, m)
    BY <1>8, <1>9, StoreBefore, MountKeeps
  <1>11. Good(x, call', me, missed, cleared) /\ QuietIn(x, call')
    BY <1>2, <1>10, CallsGoOn
  <1>12. Become(x)
    BY <1>1, <1>4, <1>7, <1>9 DEF Invalidate
  <1>13. StoreInv'
    BY <1>11, <1>12, StoreNext DEF CallBack, session, server
  <1>14. page' \in {"list", "detail", "edit", "create", "calendar", "login"}
    BY <1>1 DEF IInv, SessionInv, PushedTo
  <1>15. QED
    BY <1>2, <1>13, <1>14 DEF IInv, SessionInv, ServerInv, CallBack, session, server

LEMMA LoginBackKeeps ==
  ASSUME IInv, NEW c \in Calls, LoginBack(c)
  PROVE  IInv'
  <1>1. PICK m : m = [call EXCEPT ![c] = Done] /\ (call' = m \/ call' = Left(m))
    BY DEF LoginBack
  <1>2. /\ CallsInv'
        /\ \A d \in Calls \ {c} : m[d] = call[d]
        /\ \A d \in Calls : GoesOn(m[d], call'[d])
    BY <1>1, EndOf DEF LoginBack
  <1>3. InvalidatedBy(call[c]) = {}
    BY DEF LoginBack, InvalidatedBy
  <1>4. Good(Now, m, me, missed, cleared)
    BY <1>2, <1>3, StoreBefore, CallEnds
  <1>5. CASE call[c].ok
    <2>1. PICK w \in {me, me'} :
            Become(Mount(Invalidate(Flush(Now, page, m, w), Tags, page, m, me'), "list", me'))
      BY <1>1, <1>5 DEF LoginBack
    <2>2. me' \in Users /\ cleared' = FALSE /\ page' = "list"
      BY <1>5 DEF LoginBack
    <2>3. me' \in Viewers /\ w \in Viewers /\ Now \in StoreType
      BY <2>1, <2>2, StoreBefore DEF Viewers
    <2>4. PICK t \in StoreType : t = Flush(Now, page, m, w)
      BY <2>3, FlushOf
    <2>5. AnswersIn(t) /\ (~missed => CurrentIn(t, m))
      BY <1>4, <2>3, <2>4, FlushKeepsData DEF Good
    <2>6. PICK u : u = [t EXCEPT !.stale = @ \cup Tags]
      OBVIOUS
    <2>7. /\ u \in StoreType /\ u.stale = t.stale \cup Tags
          /\ Good(t, m, Nobody, missed, cleared') => Good(u, m, Nobody, missed, cleared')
      <3>1. Tags \in SUBSET Tags
        OBVIOUS
      <3>2. QED
        BY <2>2, <2>6, <3>1, StaleKeeps
    <2>8. Good(t, m, Nobody, missed, cleared')
      BY <2>2, <2>5 DEF Good, OwnIn
    <2>9. OwnIn(u, me')
      BY <2>7 DEF OwnIn, OwnTag, Tags
    <2>10. Good(u, m, me', missed, cleared')
      BY <2>2, <2>7, <2>8, <2>9 DEF Good
    <2>11. PICK x \in StoreType : x = Flush(u, page, m, me')
      BY <2>3, <2>7, FlushOf
    <2>12. Good(x, m, me', missed, cleared') /\ QuietIn(x, m)
      BY <2>3, <2>7, <2>10, <2>11, FlushKeeps
    <2>13. PICK y \in StoreType : y = Mount(x, "list", me')
      BY <2>3, MountOf
    <2>14. Good(y, m, me', missed, cleared') /\ QuietIn(y, m)
      BY <2>3, <2>12, <2>13, MountKeeps
    <2>15. Good(y, call', me', missed, cleared') /\ QuietIn(y, call')
      BY <1>2, <2>14, CallsGoOn
    <2>16. Become(y)
      BY <2>1, <2>4, <2>6, <2>11, <2>13 DEF Invalidate
    <2>17. StoreInv'
      BY <2>2, <2>15, <2>16, StoreNext DEF LoginBack, server
    <2>18. QED
      BY <1>2, <2>2, <2>3, <2>17 DEF IInv, SessionInv, ServerInv, LoginBack, server
  <1>6. CASE ~call[c].ok
    <2>1. Become(Flush(Now, page, m, me)) /\ UNCHANGED <<session, page>>
      BY <1>1, <1>6 DEF LoginBack
    <2>2. PICK t \in StoreType : t = Flush(Now, page, m, me)
      BY StoreBefore, FlushOf
    <2>3. Good(t, m, me, missed, cleared) /\ QuietIn(t, m)
      BY <1>4, <2>2, StoreBefore, FlushKeeps
    <2>4. Good(t, call', me, missed, cleared) /\ QuietIn(t, call')
      BY <1>2, <2>3, CallsGoOn
    <2>5. StoreInv'
      BY <2>1, <2>2, <2>4, StoreNext DEF LoginBack, session, server
    <2>6. QED
      BY <1>2, <2>1, <2>5 DEF IInv, SessionInv, ServerInv, LoginBack, session, server
  <1>7. QED
    BY <1>5, <1>6

\* A store that was emptied for the viewer there is now
LEMMA ResetStore ==
  ASSUME IInv, NEW p, me' \in Viewers, Become(Reset(Now, p, me')), cleared' => me' = Nobody
  PROVE  StoreInv'
  <1>1. PICK t \in StoreType : t = Reset(Now, p, me')
    BY StoreBefore, ResetOf
  <1>2. Good(t, call', me', missed', cleared') /\ QuietIn(t, call')
    BY <1>1, StoreBefore, ResetKeeps
  <1>3. QED
    BY <1>1, <1>2, StoreNext

LEMMA LogoutBackKeeps ==
  ASSUME IInv, NEW c \in Calls, LogoutBack(c)
  PROVE  IInv'
  <1>1. CallsInv'
    BY EndOf DEF LogoutBack
  <1>2. me' = Nobody /\ cleared' = TRUE /\ Become(Reset(Now, "login", me')) /\ page' = "login"
    BY DEF LogoutBack, clearLocalSession
  <1>3. me' \in Viewers
    BY <1>2 DEF Viewers
  <1>4. StoreInv'
    BY <1>2, <1>3, ResetStore
  <1>5. QED
    BY <1>1, <1>2, <1>3, <1>4 DEF IInv, SessionInv, ServerInv, LogoutBack, server

LEMMA OtherTabKeeps ==
  ASSUME IInv, OtherLogin \/ OtherLogout
  PROVE  IInv'
  <1>1. /\ me' \in Viewers /\ cleared' \in BOOLEAN /\ (cleared' => me' = Nobody)
        /\ Become(Reset(Now, page, me')) /\ call' = Forgotten(call)
        /\ UNCHANGED <<page, joinKey, server>>
    BY DEF OtherLogin, OtherLogout, clearLocalSession, Viewers
  <1>2. StoreInv'
    BY <1>1, ResetStore
  <1>3. CallsInv'
    <2>1. /\ call' \in [Calls -> CallType]
          /\ \A c \in Calls : /\ CallOK(call'[c]) /\ call'[c].kind = call[c].kind
                              /\ Active(call'[c]) <=> Active(call[c])
      BY <1>1, ForgottenOf DEF IInv, CallsInv
    <2>2. QED
      BY <1>1, <2>1 DEF IInv, CallsInv
  <1>4. QED
    BY <1>1, <1>2, <1>3 DEF IInv, SessionInv, ServerInv, server

LEMMA SessionLostKeeps ==
  ASSUME IInv, SessionLost
  PROVE  IInv'
  <1>1. /\ me' = Nobody /\ me # Nobody /\ me' \in Viewers
        /\ UNCHANGED <<cleared, page, store, call, joinKey, server>>
    BY DEF SessionLost, Viewers
  <1>2. Good(Now, call, Nobody, missed, cleared)
    BY <1>1, StoreBefore DEF Good, OwnIn
  <1>3. StoreInv'
    BY <1>1, <1>2, StoreBefore, StoreSame, StoreNext DEF IInv, server
  <1>4. QED
    BY <1>1, <1>3 DEF IInv, SessionInv, ServerInv, CallsInv, server

LEMMA Invariance == Spec => []IInv
  <1>1. Init => IInv
    <2>1. SUFFICES ASSUME Init PROVE IInv
      OBVIOUS
    <2>2. SessionInv /\ ServerInv
      BY <2>1 DEF Init, SessionInv, ServerInv
    <2>3. CallsInv
      BY <2>1, CallValues DEF Init, CallsInv
    <2>4. me \in Viewers
      BY <2>1 DEF Init
    <2>5. /\ \A v \in Views : cache[v] = None /\ query[v] \in {None, Request(me)}
          /\ stale = {} /\ cleared = FALSE
      BY <2>1 DEF Init
    <2>6. Now \in StoreType
      <3>1. /\ cache \in [Views -> Entry \cup {None}] /\ stale \in SUBSET Tags
            /\ query \in [Views -> Requests \cup {None}]
        BY <2>1, <2>4, RequestOf DEF Init
      <3>2. QED
        BY <3>1 DEF Now, StoreType
    <2>7. AnswersIn(Now) /\ OwnIn(Now, me) /\ CurrentIn(Now, call) /\ QuietIn(Now, call)
      BY <2>4, <2>5, NowFields, RequestOf DEF AnswersIn, OwnIn, CurrentIn, QuietIn
    <2>8. QED
      BY <2>2, <2>3, <2>5, <2>6, <2>7 DEF IInv, StoreInv, Good
  <1>2. IInv /\ [Next]_vars => IInv'
    <2>1. SUFFICES ASSUME IInv, [Next]_vars PROVE IInv'
      OBVIOUS
    <2>2. ASSUME NEW v \in Views, ServeQuery(v) \/ QueryBack(v) \/ Evict(v) PROVE IInv'
      BY <2>1, <2>2, ServeQueryKeeps, QueryBackKeeps, EvictKeeps
    <2>3. ASSUME NEW c \in Calls, Serve(c) \/ Poll(c) \/ Back(c) \/ FailCall(c) PROVE IInv'
      BY <2>1, <2>3, ServeJoinKeeps, ServeCallKeeps, FailCallKeeps, CallBackKeeps,
         LoginBackKeeps, LogoutBackKeeps DEF Serve, Back
    <2>4. ASSUME NEW c \in Calls, NEW kind \in KindsOf[c], Click(c, kind) PROVE IInv'
      BY <2>1, <2>4, ClickKeeps
    <2>5. CASE OtherLogin \/ OtherLogout \/ SessionLost
      BY <2>1, <2>5, OtherTabKeeps, SessionLostKeeps
    <2>6. CASE UNCHANGED vars
      <3>1. UNCHANGED <<session, page, store, call, joinKey, server>>
        BY <2>6 DEF vars
      <3>2. StoreInv'
        BY <2>1, <3>1, StoreBefore, StoreSame, StoreNext DEF IInv, session, server
      <3>3. QED
        BY <2>1, <3>1, <3>2, OnlyStoreKeeps
    <2>7. QED
      BY <2>1, <2>2, <2>3, <2>4, <2>5, <2>6, NavigateKeeps, WorkKeeps DEF Next
  <1>3. QED
    BY <1>1, <1>2, PTL DEF Spec

(***************************************************************************)
(* The theorems                                                            *)
(***************************************************************************)
\* Types hold, a call that polls has a request, and the key in inflightJoinKeys
\* is that of a join that is still under way.
THEOREM TypesHold == Spec => []TypeOK
  BY Invariance, TypesOf, PTL

\* At rest the tab shows what the server has, unless a join was confirmed after
\* its client had given up: an entry that a mutation made wrong is marked stale
\* before the last request is over, and no request that was under way when it
\* was marked can hide that.
THEOREM RestAgrees == Spec => []ViewsAgree
  <1>1. IInv => ViewsAgree
    <2>1. SUFFICES ASSUME IInv, Rest, ~missed, NEW v \in Views, cache[v] # None, cache[v].ok
                   PROVE  cache[v].current
      BY DEF ViewsAgree
    <2>2. stale = {} /\ query[v] = None /\ \A c \in Calls : ~Active(call[c])
      BY <2>1, StoreBefore, NowFields DEF Rest, Pending, Known, QuietIn
    <2>3. ~Excused(v, Now, call)
      BY <2>2, NowFields DEF Excused
    <2>4. cache[v].current \in BOOLEAN
      BY <2>1, StoreBefore, StoreFields, NowFields DEF Entry
    <2>5. QED
      BY <2>1, <2>2, <2>3, <2>4, StoreBefore, NowFields DEF CurrentIn
  <1>2. QED
    BY <1>1, Invariance, PTL

\* After a login the tab comes to rest with nothing but answers to the user's own
\* token, whatever the viewers before had asked for.
THEOREM RestIsOwn == Spec => []SignedInSeesOwn
  <1>1. IInv => SignedInSeesOwn
    <2>1. SUFFICES ASSUME IInv, Rest, me # Nobody, NEW v \in Views, cache[v] # None, cache[v].ok
                   PROVE  cache[v].by = me
      BY DEF SignedInSeesOwn
    <2>2. stale = {} /\ query[v] = None
      BY <2>1, StoreBefore, NowFields DEF Rest, Pending, Known, QuietIn
    <2>3. QED
      BY <2>1, <2>2, StoreBefore, NowFields DEF Good, OwnIn
  <1>2. QED
    BY <1>1, Invariance, PTL

\* Signed out, the tab holds nothing of a user and asks for nothing in a user's
\* name, at rest or not.
THEOREM SignedOutIsClean == Spec => []SignedOutSeesNothing
  <1>1. IInv => SignedOutSeesNothing
    BY StoreBefore, NowFields DEF SignedOutSeesNothing, Good, NoUserIn
  <1>2. QED
    BY <1>1, Invariance, PTL
=============================================================================
