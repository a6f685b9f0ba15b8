------------------------- MODULE BookingQueueProofs -------------------------
(***************************************************************************)
(* The safety properties of BookingQueue hold for every number of users,   *)
(* keys, calls, workers, seats and attempts, and for any number of faults, *)
(* expired keys and departures.                                            *)
(***************************************************************************)
EXTENDS BookingQueue, FiniteSetTheorems, TLAPS

-----------------------------------------------------------------------------
(***************************************************************************)
(* The inductive invariant                                                 *)
(***************************************************************************)
\* TypeOK, taken apart along the groups of variables.
HttpOK ==
  /\ cpc \in [Calls -> {"idle", "check", "claim", "pending", "add", "done", "failed"}]
  /\ who \in [Calls -> Users \cup {Nobody}]
  /\ key \in [Calls -> Keys \cup {NoKey}]
  /\ returned \in [Calls -> Requests \cup {NoRequest}]
  /\ \A c \in Calls : cpc[c] # "idle" => who[c] \in Users

RedisOK ==
  /\ status \in [Requests -> {"none", "PENDING", "CONFIRMED", "REJECTED"}]
  /\ reason \in [Requests -> Causes]
  /\ claim \in [Users -> Requests \cup {NoRequest}]
  /\ lock \in Workers \cup {Nobody}

\* A job that has not failed for good has an attempt left.
JobOK ==
  /\ job \in [Requests -> [state : JobStates, tries : 0..Attempts,
                           stalls : 0..MaxStalls + 1, owner : Workers \cup {Nobody}]]
  /\ \A r \in Requests :
       /\ job[r].owner # Nobody => job[r].state = "active"
       /\ job[r].state # "failed" => job[r].tries < Attempts /\ job[r].stalls <= MaxStalls

WorkerOK ==
  /\ wpc \in [Workers -> {"idle", "lock", "join", "confirm", "reject", "unlock",
                          "unclaim", "settle"}]
  /\ wjob \in [Workers -> Requests \cup {NoRequest}]
  /\ cause \in [Workers -> Causes]
  /\ thrown \in [Workers -> BOOLEAN]
  /\ \A w \in Workers : wpc[w] # "idle" => wjob[w] \in Requests

StoreOK ==
  /\ exists \in BOOLEAN /\ members \in SUBSET Users /\ took \in SUBSET Requests

UsedOK ==
  faults \in 0..MaxFaults /\ expiries \in 0..MaxExpiries /\ leaves \in 0..MaxLeaves

Typed == HttpOK /\ RedisOK /\ JobOK /\ WorkerOK /\ StoreOK /\ UsedOK

\* Until somebody leaves, the members are those the transactions let in, one
\* transaction each; there are never more members than seats.
SeatsInv ==
  /\ IsFiniteSet(members) /\ Cardinality(members) <= Seats
  /\ leaves = 0 =>
       /\ IsFiniteSet(took) /\ Cardinality(took) = Cardinality(members)
       /\ \A r \in took : r.user \in members

\* Who is told CONFIRMED, or about to be, has committed.
ConfirmedInv ==
  /\ \A r \in Requests : status[r] = "CONFIRMED" => r \in took
  /\ \A w \in Workers : wpc[w] = "confirm" => wjob[w] \in took

\* Who is inside holds the lock.
LockInv ==
  expiries = 0 => \A w \in Workers : Inside(w) => lock = w

\* The error of a lock that was taken leaves nothing to do but to settle.
ThrownInv == faults = 0 => \A w \in Workers : thrown[w] => wpc[w] = "settle"

\* While nothing failed or expired, the one thing a user has under way, a call
\* that has claimed, a job that waits or one that runs, holds the user's claim.
Claiming(c) == cpc[c] \in {"pending", "add"}

Running(w) ==
  wpc[w] # "idle" /\ (wpc[w] = "settle" => thrown[w])

HoldsInv ==
  /\ \A c \in Calls : Claiming(c) => claim[who[c]] = RequestId(c)
  /\ \A w \in Workers : Running(w) => claim[wjob[w].user] = wjob[w]
  /\ \A r \in Requests : job[r].state = "waiting" => claim[r.user] = r

AloneInv ==
  /\ \A c, d \in Calls : Claiming(c) /\ Claiming(d) /\ who[c] = who[d] => c = d
  /\ \A c \in Calls, w \in Workers : Claiming(c) /\ Running(w) => who[c] # wjob[w].user
  /\ \A c \in Calls, r \in Requests :
       Claiming(c) /\ job[r].state = "waiting" => who[c] # r.user

OwnerInv ==
  /\ \A w \in Workers : wpc[w] # "idle" =>
       job[wjob[w]].state = "active" /\ job[wjob[w]].owner = w
  /\ \A r \in Requests : job[r].state = "active" =>
       /\ job[r].owner \in Workers
       /\ wpc[job[r].owner] # "idle" /\ wjob[job[r].owner] = r

SoloInv == expiries = 0 /\ faults = 0 => HoldsInv /\ AloneInv /\ OwnerInv

Inv == Typed /\ SeatsInv /\ ConfirmedInv /\ LockInv /\ ThrownInv /\ SoloInv

-----------------------------------------------------------------------------
(***************************************************************************)
(* Types                                                                   *)
(***************************************************************************)
LEMMA TypedIsTypeOK == Typed => TypeOK
BY DEF Typed, HttpOK, RedisOK, JobOK, WorkerOK, StoreOK, UsedOK, TypeOK

LEMMA RequestFacts ==
  /\ NoRequest \notin Requests
  /\ \A r \in Requests : r.user \in Users
BY NobodyAssumption DEF Requests, NoRequest

LEMMA RequestIdFacts ==
  ASSUME HttpOK, NEW c \in Calls, who[c] \in Users
  PROVE  RequestId(c) \in Requests /\ RequestId(c).user = who[c]
BY DEF HttpOK, RequestId, Requests

LEMMA InitTyped == Init => Typed
<1> SUFFICES ASSUME Init PROVE Typed OBVIOUS
<1>1. HttpOK BY DEF Init, HttpOK
<1>2. RedisOK BY DEF Init, RedisOK, Causes
<1>3. JobOK
  BY NumbersAssumption, AttemptsAssumption, NobodyAssumption DEF Init, JobOK, NoJob, JobStates
<1>4. WorkerOK BY DEF Init, WorkerOK, Causes
<1>5. StoreOK /\ UsedOK BY NumbersAssumption DEF Init, StoreOK, UsedOK
<1> QED BY <1>1, <1>2, <1>3, <1>4, <1>5 DEF Typed

\* The handler of a call writes its own entries and, of the keys in Redis, those
\* of its request.
LEMMA CallTyped ==
  ASSUME Typed, NEW c \in Calls, Receive(c) \/ CallStep(c) \/ CallFails(c)
  PROVE  Typed'
<1> USE DEF Typed
<1>1. CASE Receive(c)
  BY <1>1 DEF Receive, HttpOK, RedisOK, JobOK, WorkerOK, StoreOK, UsedOK,
     redis, worker, store, used
<1>2. ASSUME ~Receive(c) PROVE RequestId(c) \in Requests
  BY <1>2, RequestIdFacts DEF HttpOK, CallStep, CheckStatus, Claim, SetPending, AddJob, CallFails
<1>3. CASE CheckStatus(c)
  <2>1. RequestId(c) \in Requests
    BY <1>3, RequestIdFacts DEF HttpOK, CheckStatus
  <2>2. HttpOK' BY <1>3, <2>1 DEF CheckStatus, HttpOK, Return, Proceed
  <2> QED BY <1>3, <2>2 DEF CheckStatus, RedisOK, JobOK, WorkerOK, StoreOK, UsedOK,
             redis, worker, store, used
<1>4. CASE Claim(c)
  <2>1. RequestId(c) \in Requests /\ who[c] \in Users
    BY <1>4, RequestIdFacts DEF HttpOK, Claim
  <2>2. HttpOK' BY <1>4, <2>1 DEF Claim, HttpOK, RedisOK, Return, Proceed
  <2>3. RedisOK' BY <1>4, <2>1 DEF Claim, RedisOK
  <2> QED BY <1>4, <2>2, <2>3 DEF Claim, JobOK, WorkerOK, StoreOK, UsedOK, worker, store, used
<1>5. CASE SetPending(c)
  <2>1. RequestId(c) \in Requests
    BY <1>5, RequestIdFacts DEF HttpOK, SetPending
  <2>2. HttpOK' BY <1>5 DEF SetPending, HttpOK, Proceed
  <2>3. RedisOK' BY <1>5, <2>1 DEF SetPending, RedisOK, Causes
  <2> QED BY <1>5, <2>2, <2>3 DEF SetPending, JobOK, WorkerOK, StoreOK, UsedOK, worker, store, used
<1>6. CASE AddJob(c)
  <2>1. RequestId(c) \in Requests
    BY <1>6, RequestIdFacts DEF HttpOK, AddJob
  <2>2. HttpOK' BY <1>6, <2>1 DEF AddJob, HttpOK, Return
  <2>3. JobOK' BY <1>6, <2>1 DEF AddJob, JobOK, JobStates
  <2> QED BY <1>6, <2>2, <2>3 DEF AddJob, RedisOK, WorkerOK, StoreOK, UsedOK, redis, worker, store, used
<1>7. CASE CallFails(c)
  BY <1>7, NumbersAssumption DEF CallFails, Proceed, HttpOK, RedisOK, JobOK, WorkerOK, StoreOK,
     UsedOK, redis, worker, store
<1> QED BY <1>1, <1>3, <1>4, <1>5, <1>6, <1>7 DEF CallStep

LEMMA FetchTyped ==
  ASSUME Typed, NEW w \in Workers, NEW r \in Requests, Fetch(w, r)
  PROVE  Typed'
<1> USE DEF Typed
<1>1. JobOK' BY DEF Fetch, JobOK, JobStates
<1>2. WorkerOK' BY DEF Fetch, WorkerOK, Causes
<1> QED BY <1>1, <1>2 DEF Fetch, HttpOK, RedisOK, StoreOK, UsedOK, http, redis, store, used

LEMMA StallTyped ==
  ASSUME Typed, NEW r \in Requests, Stall(r)
  PROVE  Typed'
<1> USE DEF Typed
<1>1. JobOK' BY NumbersAssumption DEF Stall, JobOK, JobStates
<1>2. UsedOK' BY NumbersAssumption DEF Stall, UsedOK
<1> QED BY <1>1, <1>2 DEF Stall, HttpOK, RedisOK, WorkerOK, StoreOK, http, redis, worker, store

LEMMA SettleTyped ==
  ASSUME Typed, NEW w \in Workers, Settle(w)
  PROVE  Typed'
<1> USE DEF Typed
<1>1. wjob[w] \in Requests BY DEF Settle, WorkerOK
<1>2. JobOK'
  <2> DEFINE r == wjob[w]
             t == job[r].tries + 1
             n == [state |-> IF t < Attempts THEN "waiting" ELSE "failed", tries |-> t,
                   stalls |-> job[r].stalls, owner |-> Nobody]
  <2>1. CASE job[r].owner # w BY <2>1 DEF Settle, JobOK
  <2>2. CASE job[r].owner = w
    <3>1. job[r].state = "active" /\ job[r].tries < Attempts /\ job[r].stalls <= MaxStalls
      BY <1>1, <2>2, NobodyAssumption DEF JobOK
    <3>2. job[r].tries \in 0..Attempts /\ job[r].stalls \in 0..MaxStalls + 1
      BY <1>1 DEF JobOK
    <3>3. job' = [job EXCEPT ![r] = IF ~thrown[w] THEN NoJob ELSE n]
      BY <2>2, <1>1 DEF Settle, JobOK
    <3>4. /\ n \in [state : JobStates, tries : 0..Attempts,
                    stalls : 0..MaxStalls + 1, owner : Workers \cup {Nobody}]
          /\ n.owner = Nobody
          /\ n.state # "failed" => n.tries < Attempts /\ n.stalls <= MaxStalls
      BY <3>1, <3>2, NumbersAssumption DEF JobStates
    <3>5. /\ NoJob \in [state : JobStates, tries : 0..Attempts,
                        stalls : 0..MaxStalls + 1, owner : Workers \cup {Nobody}]
          /\ NoJob.owner = Nobody /\ NoJob.tries < Attempts /\ NoJob.stalls <= MaxStalls
      BY NumbersAssumption, AttemptsAssumption DEF NoJob, JobStates
    <3> HIDE DEF n, r
    <3> QED BY <1>1, <3>3, <3>4, <3>5 DEF JobOK, r
  <2> QED BY <2>1, <2>2
<1>3. WorkerOK' BY DEF Settle, WorkerOK, Causes
<1> QED BY <1>2, <1>3 DEF Settle, HttpOK, RedisOK, StoreOK, UsedOK, http, redis, store, used

\* An await of process() moves the worker; what it writes in Redis keeps its type.
LEMMA ProcessTyped ==
  ASSUME Typed, NEW w \in Workers,
         \/ AcquireLock(w) \/ JoinEvent(w) \/ JoinEventFails(w) \/ SetConfirmed(w)
         \/ SetRejected(w) \/ ReleaseLock(w) \/ ReleaseClaim(w) \/ RedisFails(w)
  PROVE  Typed'
<1> USE DEF Typed
<1>1. wpc[w] \in {"lock", "join", "confirm", "reject", "unlock", "unclaim"} /\ wjob[w] \in Requests
  BY DEF WorkerOK, AcquireLock, JoinEvent, JoinEventFails, SetConfirmed, SetRejected, ReleaseLock,
     ReleaseClaim, RedisFails, At
<1>2. CASE AcquireLock(w)
  <2>1. WorkerOK' BY <1>1, <1>2 DEF AcquireLock, At, WorkerOK
  <2> QED BY <1>2, <2>1 DEF AcquireLock, HttpOK, RedisOK, JobOK, StoreOK, UsedOK, http, store, used
<1>3. CASE JoinEvent(w)
  <2>1. WorkerOK' BY <1>1, <1>3 DEF JoinEvent, At, WorkerOK, Causes
  <2>2. StoreOK' BY <1>1, <1>3, RequestFacts DEF JoinEvent, TakeSeat, StoreOK, store
  <2> QED BY <1>3, <2>1, <2>2 DEF JoinEvent, HttpOK, RedisOK, JobOK, UsedOK, http, redis, used
<1>4. CASE JoinEventFails(w)
  <2>1. WorkerOK' BY <1>1, <1>4 DEF JoinEventFails, At, WorkerOK, Causes
  <2>2. StoreOK' BY <1>1, <1>4, RequestFacts DEF JoinEventFails, TakeSeat, StoreOK, store
  <2>3. UsedOK' BY <1>4, NumbersAssumption DEF JoinEventFails, UsedOK
  <2> QED BY <1>4, <2>1, <2>2, <2>3 DEF JoinEventFails, HttpOK, RedisOK, JobOK, http, redis
<1>5. CASE SetConfirmed(w) \/ SetRejected(w)
  <2>1. WorkerOK' BY <1>1, <1>5 DEF SetConfirmed, SetRejected, At, WorkerOK
  <2>2. RedisOK' BY <1>1, <1>5 DEF SetConfirmed, SetRejected, Tell, RedisOK, WorkerOK, Causes
  <2> QED BY <1>5, <2>1, <2>2 DEF SetConfirmed, SetRejected, HttpOK, JobOK, StoreOK, UsedOK,
             http, store, used
<1>6. CASE ReleaseLock(w) \/ ReleaseClaim(w)
  <2>1. WorkerOK' BY <1>1, <1>6 DEF ReleaseLock, ReleaseClaim, At, WorkerOK
  <2>2. RedisOK'
    BY <1>1, <1>6, RequestFacts DEF ReleaseLock, ReleaseClaim, FreeLock, FreeClaim, RedisOK
  <2> QED BY <1>6, <2>1, <2>2 DEF ReleaseLock, ReleaseClaim, HttpOK, JobOK, StoreOK, UsedOK,
             http, store, used
<1>7. CASE RedisFails(w)
  <2>1. WorkerOK' BY <1>1, <1>7 DEF RedisFails, At, WorkerOK, Causes
  <2>2. RedisOK'
    BY <1>1, <1>7, RequestFacts DEF RedisFails, Tell, FreeLock, FreeClaim, RedisOK, WorkerOK, Causes
  <2>3. UsedOK' BY <1>7, NumbersAssumption DEF RedisFails, UsedOK
  <2> QED BY <1>7, <2>1, <2>2, <2>3 DEF RedisFails, HttpOK, JobOK, StoreOK, http, store
<1> QED BY <1>2, <1>3, <1>4, <1>5, <1>6, <1>7

LEMMA OutsideTyped ==
  ASSUME Typed,
         \/ Expire \/ Remove \/ \E u \in Users : Leave(u)
         \/ \E w \in Workers : Crash(w)
  PROVE  Typed'
<1> USE NumbersAssumption DEF Typed
<1>1. CASE Expire
  BY <1>1 DEF Expire, HttpOK, RedisOK, JobOK, WorkerOK, StoreOK, UsedOK, http, worker, store
<1>2. CASE Remove
  <2>1. StoreOK' BY <1>2, Zenon DEF Remove, StoreOK
  <2>2. UsedOK' BY <1>2 DEF Remove, UsedOK
  <2> QED BY <1>2, <2>1, <2>2 DEF Remove, HttpOK, RedisOK, JobOK, WorkerOK, http, redis, worker
<1>3. ASSUME NEW u \in Users, Leave(u) PROVE Typed'
  BY <1>3 DEF Leave, HttpOK, RedisOK, JobOK, WorkerOK, StoreOK, UsedOK, http, redis, worker
<1>4. ASSUME NEW w \in Workers, Crash(w) PROVE Typed'
  BY <1>4 DEF Crash, HttpOK, RedisOK, JobOK, WorkerOK, StoreOK, UsedOK, Causes, http, redis, store
<1> QED BY <1>1, <1>2, <1>3, <1>4

LEMMA NextTyped == ASSUME Typed, Next PROVE Typed'
<1>1. ASSUME NEW w \in Workers, WorkerStep(w) \/ JoinEventFails(w) \/ RedisFails(w)
      PROVE  Typed'
  BY <1>1, FetchTyped, ProcessTyped, SettleTyped DEF WorkerStep
<1> QED BY <1>1, CallTyped, StallTyped, OutsideTyped DEF Next, Fault

-----------------------------------------------------------------------------
(***************************************************************************)
(* Seats                                                                   *)
(***************************************************************************)
LEMMA SeatTaken ==
  ASSUME Typed, SeatsInv, NEW r \in Requests, CanJoin(r.user), TakeSeat(r), leaves' = leaves
  PROVE  SeatsInv'
<1>1. /\ r.user \notin members /\ members' = members \cup {r.user}
      /\ Cardinality(members) < Seats /\ took' = took \cup {r}
  BY DEF CanJoin, TakeSeat
<1>2. IsFiniteSet(members) /\ Cardinality(members) \in Nat BY FS_CardinalityType DEF SeatsInv
<1>3. IsFiniteSet(members') /\ Cardinality(members') = Cardinality(members) + 1
  BY <1>1, <1>2, FS_AddElement
<1>4. Cardinality(members') <= Seats BY <1>1, <1>2, <1>3, NumbersAssumption
<1>5. ASSUME leaves = 0
      PROVE  /\ IsFiniteSet(took') /\ Cardinality(took') = Cardinality(members')
             /\ \A q \in took' : q.user \in members'
  <2>1. IsFiniteSet(took) /\ Cardinality(took) = Cardinality(members) /\ r \notin took
    BY <1>1, <1>5 DEF SeatsInv
  <2>2. IsFiniteSet(took') /\ Cardinality(took') = Cardinality(took) + 1
    BY <1>1, <2>1, FS_AddElement
  <2> QED BY <1>1, <1>3, <1>5, <2>1, <2>2 DEF SeatsInv
<1> QED BY <1>3, <1>4, <1>5 DEF SeatsInv

LEMMA SeatsStep == ASSUME Typed, SeatsInv, Next PROVE SeatsInv'
<1>1. CASE UNCHANGED <<store, leaves>> BY <1>1 DEF SeatsInv, store
<1>2. ASSUME NEW w \in Workers, JoinEvent(w) \/ JoinEventFails(w) PROVE SeatsInv'
  <2>1. wjob[w] \in Requests BY <1>2 DEF JoinEvent, JoinEventFails, At, Typed, WorkerOK
  <2>2. leaves' = leaves BY <1>2 DEF JoinEvent, JoinEventFails, used
  <2>3. UNCHANGED store \/ (CanJoin(wjob[w].user) /\ TakeSeat(wjob[w]))
    BY <1>2 DEF JoinEvent, JoinEventFails
  <2> QED BY <1>1, <2>1, <2>2, <2>3, SeatTaken
<1>3. ASSUME NEW u \in Users, Leave(u) PROVE SeatsInv'
  <2>1. leaves' # 0 BY <1>3 DEF Leave, Typed, UsedOK
  <2>2. IsFiniteSet(members') /\ Cardinality(members') <= Cardinality(members)
    BY <1>3, FS_Subset DEF Leave, SeatsInv
  <2>3. Cardinality(members) \in Nat /\ Cardinality(members') \in Nat
    BY <2>2, FS_CardinalityType DEF SeatsInv
  <2> QED BY <2>1, <2>2, <2>3, NumbersAssumption DEF SeatsInv
<1>4. CASE Remove
  <2>1. leaves' # 0 BY <1>4 DEF Remove, Typed, UsedOK
  <2> QED BY <1>4, <2>1, FS_EmptySet, NumbersAssumption DEF Remove, SeatsInv
<1>5. ASSUME NEW c \in Calls, Receive(c) \/ CallStep(c) \/ CallFails(c)
      PROVE  UNCHANGED <<store, leaves>>
  BY <1>5 DEF CallStep, Receive, CheckStatus, Claim, SetPending, AddJob, CallFails, used
<1>6. ASSUME NEW w \in Workers, ~JoinEvent(w),
             WorkerStep(w) \/ RedisFails(w) \/ Crash(w)
      PROVE  UNCHANGED <<store, leaves>>
  BY <1>6 DEF WorkerStep, Fetch, AcquireLock, SetConfirmed, SetRejected, ReleaseLock,
     ReleaseClaim, Settle, RedisFails, Crash, used
<1>7. CASE Expire \/ \E r \in Requests : Stall(r)
  BY <1>1, <1>7 DEF Expire, Stall
<1> QED BY <1>1, <1>2, <1>3, <1>4, <1>5, <1>6, <1>7 DEF Next, Fault

-----------------------------------------------------------------------------
(***************************************************************************)
(* Outcomes                                                                *)
(***************************************************************************)
LEMMA ConfirmedStep == ASSUME Typed, ConfirmedInv, Next PROVE ConfirmedInv'
<1>1. CASE UNCHANGED <<status, wpc, wjob>> /\ took \subseteq took'
  BY <1>1 DEF ConfirmedInv
<1>2. ASSUME NEW c \in Calls, Receive(c) \/ CallStep(c) \/ CallFails(c) PROVE ConfirmedInv'
  <2>1. CASE SetPending(c)
    BY <2>1 DEF SetPending, ConfirmedInv, Typed, RedisOK, worker, store
  <2>2. CASE ~SetPending(c)
    BY <1>2, <2>2 DEF CallStep, Receive, CheckStatus, Claim, AddJob, CallFails, ConfirmedInv,
       redis, worker, store
  <2> QED BY <2>1, <2>2
<1>3. ASSUME NEW w \in Workers, WorkerStep(w) \/ JoinEventFails(w) \/ RedisFails(w) \/ Crash(w)
      PROVE  ConfirmedInv'
  <2>1. took \subseteq took' /\ wpc' = [wpc EXCEPT ![w] = wpc'[w]]
        /\ \A v \in Workers : v # w => wjob'[v] = wjob[v]
    BY <1>3 DEF WorkerStep, Fetch, AcquireLock, JoinEvent, JoinEventFails, SetConfirmed,
       SetRejected, ReleaseLock, ReleaseClaim, Settle, RedisFails, Crash, At, TakeSeat, store,
       Typed, WorkerOK
  <2>2. wpc'[w] = "confirm" => wjob'[w] \in took'
    BY <1>3 DEF WorkerStep, Fetch, AcquireLock, JoinEvent, JoinEventFails, SetConfirmed,
       SetRejected, ReleaseLock, ReleaseClaim, Settle, RedisFails, Crash, At, TakeSeat,
       Typed, WorkerOK
  <2>3. \A r \in Requests : status'[r] = "CONFIRMED" =>
          status[r] = "CONFIRMED" \/ (wpc[w] = "confirm" /\ r = wjob[w])
    BY <1>3 DEF WorkerStep, Fetch, AcquireLock, JoinEvent, JoinEventFails, SetConfirmed,
       SetRejected, ReleaseLock, ReleaseClaim, Settle, RedisFails, Crash, At, Tell, redis,
       Typed, WorkerOK, RedisOK
  <2> QED BY <2>1, <2>2, <2>3 DEF ConfirmedInv, Typed, WorkerOK
<1>4. CASE Expire \/ Remove \/ \E u \in Users : Leave(u)
  BY <1>1, <1>4 DEF Expire, Remove, Leave, redis, worker, store
<1>5. ASSUME NEW r \in Requests, Stall(r) PROVE ConfirmedInv'
  BY <1>1, <1>5 DEF Stall, redis, worker, store
<1> QED BY <1>2, <1>3, <1>4, <1>5 DEF Next, Fault

-----------------------------------------------------------------------------
(***************************************************************************)
(* The event lock                                                          *)
(***************************************************************************)
LEMMA LockStep == ASSUME Typed, LockInv, Next PROVE LockInv'
<1>1. CASE UNCHANGED <<lock, wpc, expiries>> BY <1>1 DEF LockInv, Inside
<1>2. ASSUME NEW w \in Workers, WorkerStep(w) \/ JoinEventFails(w) \/ RedisFails(w) \/ Crash(w)
      PROVE  LockInv'
  <2>1. expiries' = expiries /\ wpc' = [wpc EXCEPT ![w] = wpc'[w]]
    BY <1>2 DEF WorkerStep, Fetch, AcquireLock, JoinEvent, JoinEventFails, SetConfirmed,
       SetRejected, ReleaseLock, ReleaseClaim, Settle, RedisFails, Crash, At, used,
       Typed, WorkerOK
  <2>2. \/ lock' = lock /\ (Inside(w)' => Inside(w))
        \/ lock = Nobody /\ lock' = w
        \/ lock' = (IF lock = w THEN Nobody ELSE lock) /\ ~Inside(w)'
    BY <1>2 DEF WorkerStep, Fetch, AcquireLock, JoinEvent, JoinEventFails, SetConfirmed,
       SetRejected, ReleaseLock, ReleaseClaim, Settle, RedisFails, Crash, At, FreeLock, redis,
       Inside, Typed, WorkerOK
  <2>3. \A v \in Workers : v # w => (Inside(v)' <=> Inside(v))
    BY <2>1 DEF Inside, Typed, WorkerOK
  <2> QED BY <2>1, <2>2, <2>3, NobodyAssumption DEF LockInv, Typed, WorkerOK
<1>3. CASE Expire BY <1>3 DEF Expire, LockInv, Typed, UsedOK
<1>4. ASSUME NEW c \in Calls, Receive(c) \/ CallStep(c) \/ CallFails(c) PROVE LockInv'
  BY <1>1, <1>4 DEF CallStep, Receive, CheckStatus, Claim, SetPending, AddJob, CallFails, redis,
     worker, used
<1>5. CASE Remove \/ \E u \in Users : Leave(u)
  BY <1>1, <1>5 DEF Remove, Leave, redis, worker
<1>6. ASSUME NEW r \in Requests, Stall(r) PROVE LockInv'
  BY <1>1, <1>6 DEF Stall, redis, worker
<1> QED BY <1>2, <1>3, <1>4, <1>5, <1>6 DEF Next, Fault

-----------------------------------------------------------------------------
(***************************************************************************)
(* The claim                                                               *)
(***************************************************************************)
LEMMA ThrownStep == ASSUME Typed, ThrownInv, Next PROVE ThrownInv'
<1>1. CASE UNCHANGED <<worker, faults>> BY <1>1 DEF ThrownInv, worker
<1>2. ASSUME NEW w \in Workers, WorkerStep(w) PROVE ThrownInv'
  <2>1. faults' = faults /\ \A v \in Workers : v # w => UNCHANGED <<wpc[v], thrown[v]>>
    BY <1>2 DEF WorkerStep, Fetch, AcquireLock, JoinEvent, SetConfirmed, SetRejected,
       ReleaseLock, ReleaseClaim, Settle, At, Typed, WorkerOK, used
  <2>2. thrown'[w] => wpc'[w] = "settle" \/ (thrown[w] /\ wpc[w] # "settle")
    BY <1>2 DEF WorkerStep, Fetch, AcquireLock, JoinEvent, SetConfirmed, SetRejected,
       ReleaseLock, ReleaseClaim, Settle, At, Typed, WorkerOK
  <2> QED BY <2>1, <2>2 DEF ThrownInv
<1>3. CASE Fault
  BY <1>3 DEF Fault, CallFails, JoinEventFails, RedisFails, Crash, ThrownInv, Typed, UsedOK
<1>4. ASSUME NEW c \in Calls, Receive(c) \/ CallStep(c) PROVE UNCHANGED <<worker, faults>>
  BY <1>4 DEF CallStep, Receive, CheckStatus, Claim, SetPending, AddJob, used
<1>5. CASE Expire \/ Remove \/ \E u \in Users : Leave(u)
  BY <1>1, <1>5 DEF Expire, Remove, Leave
<1>6. ASSUME NEW r \in Requests, Stall(r) PROVE ThrownInv'
  BY <1>6 DEF Stall, ThrownInv, Typed, UsedOK, worker
<1> QED BY <1>1, <1>2, <1>3, <1>4, <1>5, <1>6 DEF Next

\* What SoloInv says of the state while nothing failed or expired
Solo == HoldsInv /\ AloneInv /\ OwnerInv

LEMMA SoloCall ==
  ASSUME Typed, Solo, NEW c \in Calls, Receive(c) \/ CallStep(c)
  PROVE  Solo'
<1> USE DEF Typed
<1>1. UNCHANGED worker
  BY DEF CallStep, Receive, CheckStatus, Claim, SetPending, AddJob
<1>2. CASE \/ Receive(c) \/ CheckStatus(c) \/ SetPending(c)
  <2>1. UNCHANGED <<claim, job>> /\ \A d \in Calls : Claiming(d)' => Claiming(d)
    BY <1>2 DEF Receive, CheckStatus, SetPending, Return, Proceed, Claiming, redis, HttpOK
  <2>2. \A d \in Calls : Claiming(d)' => who'[d] = who[d] /\ RequestId(d)' = RequestId(d)
    BY <1>2 DEF Receive, CheckStatus, SetPending, Return, Proceed, Claiming, RequestId, HttpOK
  <2> QED BY <1>1, <2>1, <2>2 DEF Solo, HoldsInv, AloneInv, OwnerInv, Running, worker
<1>3. CASE Claim(c)
  <2> DEFINE u == who[c]
  <2>1. u \in Users /\ RequestId(c) \in Requests /\ RequestId(c).user = u
    BY <1>3, RequestIdFacts DEF Claim, HttpOK
  <2>2. UNCHANGED <<who, key, job>> BY <1>3 DEF Claim, Return, Proceed
  <2>3. CASE claim[u] # NoRequest
    <3>1. UNCHANGED claim /\ \A d \in Calls : Claiming(d)' => Claiming(d)
      BY <1>3, <2>3 DEF Claim, Return, Claiming, HttpOK
    <3> QED BY <1>1, <2>2, <3>1 DEF Solo, HoldsInv, AloneInv, OwnerInv, Running, worker, RequestId
  <2>4. CASE claim[u] = NoRequest
    <3>1. /\ claim' = [claim EXCEPT ![u] = RequestId(c)]
          /\ \A d \in Calls : d # c => (Claiming(d)' <=> Claiming(d))
      BY <1>3, <2>4 DEF Claim, Proceed, Claiming, HttpOK
    <3>2. \A d \in Calls : Claiming(d) => who[d] # u /\ who[d] \in Users
      BY <2>4, RequestIdFacts, RequestFacts DEF Solo, HoldsInv, HttpOK, Claiming
    <3>3. \A w \in Workers : Running(w) => wjob[w].user # u /\ wjob[w].user \in Users
      BY <2>4, RequestFacts DEF Solo, HoldsInv, Running, WorkerOK
    <3>4. \A r \in Requests : job[r].state = "waiting" => r.user # u /\ r.user \in Users
      BY <2>4, RequestFacts DEF Solo, HoldsInv
    <3>5. \A d \in Calls : RequestId(d)' = RequestId(d)
      BY <2>2 DEF RequestId
    <3>6. HoldsInv'
      BY <1>1, <2>1, <2>2, <3>1, <3>2, <3>3, <3>4, <3>5
         DEF Solo, HoldsInv, Running, worker, RedisOK
    <3>7. AloneInv'
      BY <1>1, <2>1, <2>2, <3>1, <3>2, <3>3, <3>4 DEF Solo, AloneInv, Running, worker
    <3> QED BY <1>1, <2>2, <3>6, <3>7 DEF Solo, OwnerInv, worker
  <2> QED BY <2>3, <2>4
<1>4. CASE AddJob(c)
  <2> DEFINE q == RequestId(c)
  <2>1. q \in Requests /\ q.user = who[c] /\ Claiming(c)
    BY <1>4, RequestIdFacts DEF AddJob, HttpOK, Claiming
  <2>2. UNCHANGED <<who, key, claim>> BY <1>4 DEF AddJob, Return, redis
  <2>3. \A d \in Calls : Claiming(d)' <=> Claiming(d) /\ d # c
    BY <1>4 DEF AddJob, Return, Claiming, HttpOK
  <2>4. \A d \in Calls : RequestId(d)' = RequestId(d) BY <2>2 DEF RequestId
  <2>5. CASE job' = job
    BY <1>1, <2>2, <2>3, <2>4, <2>5 DEF Solo, HoldsInv, AloneInv, OwnerInv, Running, worker
  <2>6. CASE job' # job
    <3>1. /\ job[q].state = "absent" /\ job'[q].state = "waiting"
          /\ \A r \in Requests : r # q => job'[r] = job[r]
      BY <1>4, <2>1, <2>6 DEF AddJob, JobOK
    <3>2. claim[q.user] = q BY <2>1 DEF Solo, HoldsInv
    <3>3. HoldsInv'
      BY <1>1, <2>2, <2>3, <2>4, <3>1, <3>2 DEF Solo, HoldsInv, Running, worker
    <3>4. AloneInv'
      BY <1>1, <2>1, <2>2, <2>3, <3>1 DEF Solo, AloneInv, Running, worker
    <3>5. OwnerInv'
      BY <1>1, <2>1, <3>1 DEF Solo, OwnerInv, worker, WorkerOK
    <3> QED BY <3>3, <3>4, <3>5 DEF Solo
  <2> QED BY <2>5, <2>6
<1> QED BY <1>2, <1>3, <1>4 DEF CallStep

LEMMA SoloFetch ==
  ASSUME Typed, Solo, NEW w \in Workers, NEW r \in Requests, Fetch(w, r)
  PROVE  Solo'
<1> USE DEF Typed
<1>1. /\ job[r].state = "waiting" /\ job'[r].state = "active" /\ job'[r].owner = w
      /\ \A q \in Requests : q # r => job'[q] = job[q]
  BY DEF Fetch, JobOK
<1>2. /\ wpc[w] = "idle" /\ wpc'[w] = "lock" /\ wjob'[w] = r
      /\ \A v \in Workers : v # w => UNCHANGED <<wpc[v], wjob[v], thrown[v]>>
  BY DEF Fetch, WorkerOK
<1>3. UNCHANGED <<cpc, who, key, claim>> /\ \A c \in Calls : RequestId(c)' = RequestId(c)
  BY DEF Fetch, http, redis, RequestId
<1>4. \A v \in Workers : Running(v)' <=> v = w \/ Running(v)
  BY <1>2 DEF Running
<1>5. HoldsInv' BY <1>1, <1>2, <1>3, <1>4 DEF Solo, HoldsInv, Claiming
<1>6. AloneInv' BY <1>1, <1>2, <1>3, <1>4 DEF Solo, AloneInv, Claiming
<1>7. OwnerInv'
  <2>1. \A v \in Workers : v # w /\ wpc[v] # "idle" => wjob[v] # r
    BY <1>1 DEF Solo, OwnerInv
  <2> QED BY <1>1, <1>2, <2>1 DEF Solo, OwnerInv, WorkerOK
<1> QED BY <1>5, <1>6, <1>7 DEF Solo

\* An await of process() that leaves the claim alone
LEMMA SoloProcess ==
  ASSUME Typed, Solo, NEW w \in Workers,
         \/ AcquireLock(w) \/ JoinEvent(w) \/ SetConfirmed(w) \/ SetRejected(w) \/ ReleaseLock(w)
  PROVE  Solo'
<1> USE DEF Typed
<1>1. UNCHANGED <<cpc, who, key, claim, job, wjob>>
  BY DEF AcquireLock, JoinEvent, SetConfirmed, SetRejected, ReleaseLock, At, http, redis
<1>2. \A v \in Workers : /\ wpc'[v] # "idle" <=> wpc[v] # "idle"
                         /\ Running(v)' => Running(v)
  BY DEF AcquireLock, JoinEvent, SetConfirmed, SetRejected, ReleaseLock, At, Running, WorkerOK
<1>3. \A c \in Calls : RequestId(c)' = RequestId(c) BY <1>1 DEF RequestId
<1> QED BY <1>1, <1>2, <1>3, RequestFacts DEF Solo, HoldsInv, AloneInv, OwnerInv, Claiming, JobOK, WorkerOK

LEMMA SoloReleaseClaim ==
  ASSUME Typed, ThrownInv, faults = 0, Solo, NEW w \in Workers, ReleaseClaim(w)
  PROVE  Solo'
<1> USE DEF Typed
<1> DEFINE u == wjob[w].user
<1>1. /\ wpc[w] = "unclaim" /\ wpc' = [wpc EXCEPT ![w] = "settle"] /\ ~thrown[w]
      /\ UNCHANGED <<wjob, thrown, job, cpc, who, key>>
  BY DEF ReleaseClaim, At, WorkerOK, ThrownInv, http
<1>2. /\ Running(w) /\ ~Running(w)' /\ wjob[w] \in Requests /\ u \in Users
      /\ \A v \in Workers : v # w => (Running(v)' <=> Running(v))
  BY <1>1, RequestFacts DEF Running, WorkerOK
<1>3. claim[u] = wjob[w] /\ claim' = [claim EXCEPT ![u] = NoRequest]
  BY <1>2 DEF Solo, HoldsInv, ReleaseClaim, FreeClaim
<1>4. \A d \in Calls : Claiming(d) => who[d] # u
  BY <1>2 DEF Solo, AloneInv
<1>5. \A v \in Workers : Running(v) /\ v # w => wjob[v].user # u
  <2> SUFFICES ASSUME NEW v \in Workers, Running(v), v # w, wjob[v].user = u PROVE FALSE
    OBVIOUS
  <2>1. wjob[v] = wjob[w] BY <1>3 DEF Solo, HoldsInv
  <2> QED BY <1>1, <2>1 DEF Solo, OwnerInv, Running
<1>6. \A r \in Requests : job[r].state = "waiting" => r.user # u
  BY <1>1, <1>2, <1>3 DEF Solo, HoldsInv, OwnerInv
<1>7. \A d \in Calls : (Claiming(d)' <=> Claiming(d)) /\ RequestId(d)' = RequestId(d)
  BY <1>1 DEF Claiming, RequestId
<1>8. HoldsInv'
  <2>1. \A x \in Users : x # u => claim'[x] = claim[x] BY <1>3
  <2>2. \A d \in Calls : Claiming(d) => who[d] \in Users BY DEF HttpOK, Claiming
  <2>3. \A v \in Workers : Running(v) => wjob[v].user \in Users
    BY RequestFacts DEF WorkerOK, Running
  <2> QED BY <1>1, <1>2, <1>4, <1>5, <1>6, <1>7, <2>1, <2>2, <2>3, RequestFacts DEF Solo, HoldsInv
<1>9. AloneInv' BY <1>1, <1>2, <1>7 DEF Solo, AloneInv
<1>10. OwnerInv' BY <1>1 DEF Solo, OwnerInv, JobOK, WorkerOK
<1> QED BY <1>8, <1>9, <1>10 DEF Solo

LEMMA SoloSettle ==
  ASSUME Typed, Solo, NEW w \in Workers, Settle(w)
  PROVE  Solo'
<1> USE DEF Typed
<1> DEFINE r == wjob[w]
<1>1. /\ wpc[w] = "settle" /\ r \in Requests /\ wpc' = [wpc EXCEPT ![w] = "idle"]
      /\ \A v \in Workers : v # w => UNCHANGED <<wjob[v], thrown[v]>>
      /\ UNCHANGED <<cpc, who, key, claim>>
  BY DEF Settle, WorkerOK, http, redis
<1>2. job[r].state = "active" /\ job[r].owner = w
  BY <1>1 DEF Solo, OwnerInv
<1>3. /\ \A q \in Requests : q # r => job'[q] = job[q]
      /\ job'[r].state # "active" /\ (job'[r].state = "waiting" => thrown[w])
  <2> DEFINE n == [state  |-> IF job[r].tries + 1 < Attempts THEN "waiting" ELSE "failed",
                   tries  |-> job[r].tries + 1, stalls |-> job[r].stalls, owner  |-> Nobody]
  <2>1. job' = [job EXCEPT ![r] = IF ~thrown[w] THEN NoJob ELSE n]
    BY <1>1, <1>2 DEF Settle, JobOK
  <2>2. NoJob.state = "absent" /\ n.state \in {"waiting", "failed"} BY DEF NoJob
  <2> HIDE DEF n, r
  <2> QED BY <1>1, <2>1, <2>2 DEF JobOK, r
<1>4. /\ \A v \in Workers : v # w => (Running(v)' <=> Running(v))
      /\ ~Running(w)' /\ (thrown[w] => Running(w))
  BY <1>1 DEF Running, WorkerOK
<1>5. \A d \in Calls : (Claiming(d)' <=> Claiming(d)) /\ RequestId(d)' = RequestId(d)
  BY <1>1 DEF Claiming, RequestId
<1>6. HoldsInv' BY <1>1, <1>3, <1>4, <1>5 DEF Solo, HoldsInv
<1>7. AloneInv' BY <1>1, <1>3, <1>4, <1>5 DEF Solo, AloneInv
<1>8. OwnerInv'
  <2>1. \A v \in Workers : v # w /\ wpc[v] # "idle" => wjob[v] # r
    BY <1>2 DEF Solo, OwnerInv
  <2>2. \A q \in Requests : q # r /\ job[q].state = "active" => job[q].owner # w
    BY DEF Solo, OwnerInv
  <2> QED BY <1>1, <1>3, <2>1, <2>2 DEF Solo, OwnerInv, WorkerOK
<1> QED BY <1>6, <1>7, <1>8 DEF Solo

\* A fault or an expiry ends what SoloInv speaks of; departures leave it alone.
LEMMA SoloStep == ASSUME Typed, ThrownInv, SoloInv, Next PROVE SoloInv'
<1> SUFFICES ASSUME expiries' = 0, faults' = 0 PROVE Solo'
  BY DEF SoloInv, Solo
<1>1. ASSUME Solo, faults = 0,
             \/ \E c \in Calls : Receive(c) \/ CallStep(c)
             \/ \E w \in Workers : WorkerStep(w)
      PROVE  Solo'
  BY <1>1, SoloCall, SoloFetch, SoloProcess, SoloReleaseClaim, SoloSettle DEF WorkerStep
<1>2. ASSUME \/ \E c \in Calls : Receive(c) \/ CallStep(c)
             \/ \E w \in Workers : WorkerStep(w)
      PROVE  UNCHANGED used
  BY <1>2 DEF CallStep, WorkerStep, Receive, CheckStatus, Claim, SetPending, AddJob, Fetch,
     AcquireLock, JoinEvent, SetConfirmed, SetRejected, ReleaseLock, ReleaseClaim, Settle
<1>3. CASE Remove \/ \E u \in Users : Leave(u)
  <2>1. UNCHANGED <<http, redis, job, worker, faults, expiries>> BY <1>3 DEF Remove, Leave
  <2> QED BY <2>1 DEF SoloInv, Solo, HoldsInv, AloneInv, OwnerInv, Claiming, Running, RequestId,
             http, redis, worker
<1>4. ASSUME NEW r \in Requests, Stall(r) PROVE Solo'
  <2>1. faults = 0 /\ expiries = 0 /\ UNCHANGED <<faults, expiries>> /\ job[r].state = "active"
    BY <1>4 DEF Stall, Typed, UsedOK
  <2> QED BY <1>4, <2>1 DEF Stall, SoloInv, OwnerInv, Typed, UsedOK
<1>5. ~Expire BY DEF Expire, Typed, UsedOK
<1>6. ~Fault BY DEF Fault, CallFails, JoinEventFails, RedisFails, Crash, Typed, UsedOK
<1> QED BY <1>1, <1>2, <1>3, <1>4, <1>5, <1>6 DEF Next, SoloInv, Solo, used

-----------------------------------------------------------------------------
(***************************************************************************)
(* Who frees what                                                          *)
(***************************************************************************)
LEMMA LockFreed == ASSUME Typed, Next PROVE LockFreedByHolder
<1>1. CASE UNCHANGED lock BY <1>1 DEF LockFreedByHolder
<1>2. ASSUME NEW w \in Workers, WorkerStep(w) \/ JoinEventFails(w) \/ RedisFails(w) \/ Crash(w)
      PROVE  LockFreedByHolder
  <2>1. \/ lock' = lock
        \/ lock = Nobody
        \/ lock = w /\ wpc[w] = "unlock" /\ wpc'[w] \in {"unclaim", "settle"}
    BY <1>2 DEF WorkerStep, Fetch, AcquireLock, JoinEvent, JoinEventFails, SetConfirmed,
       SetRejected, ReleaseLock, ReleaseClaim, Settle, RedisFails, Crash, FreeLock, At, redis,
       Typed, WorkerOK
  <2> QED BY <2>1 DEF LockFreedByHolder
<1>3. CASE Expire BY <1>3 DEF Expire, LockFreedByHolder, Typed, UsedOK
<1>4. ASSUME NEW c \in Calls, Receive(c) \/ CallStep(c) \/ CallFails(c) PROVE UNCHANGED lock
  BY <1>4 DEF CallStep, Receive, CheckStatus, Claim, SetPending, AddJob, CallFails, redis
<1>5. CASE \/ Remove \/ \E u \in Users : Leave(u)
           \/ \E r \in Requests : Stall(r)
  BY <1>1, <1>5 DEF Remove, Leave, Stall, redis
<1> QED BY <1>1, <1>2, <1>3, <1>4, <1>5 DEF Next, Fault

LEMMA ClaimFreed == ASSUME Typed, Next PROVE ClaimFreedByHolder
<1>1. CASE UNCHANGED claim BY <1>1 DEF ClaimFreedByHolder
<1>2. ASSUME NEW w \in Workers, WorkerStep(w) \/ JoinEventFails(w) \/ RedisFails(w) \/ Crash(w)
      PROVE  ClaimFreedByHolder
  <2>1. \/ claim' = claim
        \/ /\ wpc[w] = "unclaim" /\ wpc'[w] = "settle"
           /\ claim' = [claim EXCEPT ![wjob[w].user] = NoRequest]
           /\ claim[wjob[w].user] = wjob[w]
    BY <1>2 DEF WorkerStep, Fetch, AcquireLock, JoinEvent, JoinEventFails, SetConfirmed,
       SetRejected, ReleaseLock, ReleaseClaim, Settle, RedisFails, Crash, FreeClaim, At, redis,
       Typed, WorkerOK
  <2> QED BY <2>1 DEF ClaimFreedByHolder, Typed, RedisOK
<1>3. ASSUME NEW c \in Calls, Claim(c) PROVE ClaimFreedByHolder
  BY <1>3 DEF Claim, ClaimFreedByHolder, Typed, RedisOK
<1>4. ASSUME NEW c \in Calls, ~Claim(c), Receive(c) \/ CallStep(c) \/ CallFails(c)
      PROVE  UNCHANGED claim
  BY <1>4 DEF CallStep, Receive, CheckStatus, SetPending, AddJob, CallFails, redis
<1>5. CASE Expire BY <1>5 DEF Expire, ClaimFreedByHolder, Typed, UsedOK
<1>6. CASE \/ Remove \/ \E u \in Users : Leave(u)
           \/ \E r \in Requests : Stall(r)
  BY <1>1, <1>6 DEF Remove, Leave, Stall, redis
<1> QED BY <1>1, <1>2, <1>3, <1>4, <1>5, <1>6 DEF Next, Fault

-----------------------------------------------------------------------------
(***************************************************************************)
(* The theorems                                                            *)
(***************************************************************************)
LEMMA InitInv == Init => Inv
<1> SUFFICES ASSUME Init PROVE Inv OBVIOUS
<1>1. SeatsInv BY FS_EmptySet, NumbersAssumption DEF Init, SeatsInv
<1>2. ConfirmedInv /\ LockInv /\ ThrownInv
  BY DEF Init, ConfirmedInv, LockInv, Inside, ThrownInv
<1>3. SoloInv
  BY DEF Init, SoloInv, HoldsInv, AloneInv, OwnerInv, Claiming, Running, NoJob
<1> QED BY <1>1, <1>2, <1>3, InitTyped DEF Inv

LEMMA NextInv == Inv /\ [Next]_vars => Inv'
<1> SUFFICES ASSUME Inv, [Next]_vars PROVE Inv' OBVIOUS
<1>1. CASE Next
  BY <1>1, NextTyped, SeatsStep, ConfirmedStep, LockStep, ThrownStep, SoloStep DEF Inv
<1>2. CASE UNCHANGED vars
  BY <1>2 DEF Inv, Typed, HttpOK, RedisOK, JobOK, WorkerOK, StoreOK, UsedOK, SeatsInv,
     ConfirmedInv, LockInv, Inside, ThrownInv, SoloInv, HoldsInv, AloneInv, OwnerInv, Claiming, Running,
     RequestId, vars, http, redis, worker, store, used
<1> QED BY <1>1, <1>2

LEMMA AlwaysInv == Spec => []Inv
BY InitInv, NextInv, PTL DEF Spec

\* The types hold; a job never uses more attempts or stalls than it is allowed.
THEOREM JobsStayInBounds == Spec => []TypeOK
BY AlwaysInv, TypedIsTypeOK, PTL DEF Inv

\* A request told CONFIRMED has its seat, whatever was retried, re-run or run
\* twice at a time, and the seats are never overbooked.
THEOREM ConfirmedIsTrue == Spec => []ConfirmedHoldsSeat
<1>1. Inv => ConfirmedHoldsSeat
  <2> SUFFICES ASSUME Inv PROVE ConfirmedHoldsSeat OBVIOUS
  <2> DEFINE confirmed == {r \in Requests : status[r] = "CONFIRMED"}
  <2>1. confirmed \subseteq took BY DEF Inv, ConfirmedInv
  <2>2. ASSUME leaves = 0
        PROVE  (\A r \in confirmed : r.user \in members) /\ Cardinality(confirmed) <= Seats
    <3>1. /\ IsFiniteSet(took) /\ Cardinality(took) = Cardinality(members)
          /\ Cardinality(members) <= Seats /\ \A r \in took : r.user \in members
      BY <2>2 DEF Inv, SeatsInv
    <3>2. IsFiniteSet(confirmed) /\ Cardinality(confirmed) <= Cardinality(took)
      BY <2>1, <3>1, FS_Subset
    <3>3. Cardinality(confirmed) \in Nat /\ Cardinality(took) \in Nat
      BY <3>1, <3>2, FS_CardinalityType
    <3> HIDE DEF confirmed
    <3> QED BY <2>1, <3>1, <3>2, <3>3, NumbersAssumption
  <2> QED BY <2>1, <2>2 DEF ConfirmedHoldsSeat
<1> QED BY <1>1, AlwaysInv, PTL

\* While the lock does not expire under its holder, one worker at a time is in
\* the transaction of a join.
THEOREM JoinsTakeTurns == Spec => []JoinsAreSerial
<1>1. Inv => JoinsAreSerial BY DEF Inv, LockInv, JoinsAreSerial
<1> QED BY <1>1, AlwaysInv, PTL

\* While nothing fails or expires, the claim keeps a user to one request.
THEOREM OneAtATime == Spec => []OneRequestPerUser
<1>1. Inv => OneRequestPerUser
  <2> SUFFICES ASSUME Inv, expiries = 0, faults = 0, NEW q \in Requests, NEW r \in Requests,
                      q.user = r.user, Unsettled(q), Unsettled(r)
               PROVE  q = r
    BY DEF OneRequestPerUser
  <2>1. HoldsInv BY DEF Inv, SoloInv
  <2>2. ASSUME NEW p \in Requests, Unsettled(p) PROVE claim[p.user] = p
    BY <2>1, <2>2 DEF HoldsInv, Unsettled, Running
  <2> QED BY <2>2
<1> QED BY <1>1, AlwaysInv, PTL

\* Compare-and-delete: nothing is freed for somebody else.
THEOREM ReleasesAreOwn == Spec => ReleasesOnlyItsOwn
<1>1. Inv /\ [Next]_vars => [LockFreedByHolder /\ ClaimFreedByHolder]_vars
  BY LockFreed, ClaimFreed DEF Inv
<1> QED BY <1>1, AlwaysInv, PTL DEF Spec, ReleasesOnlyItsOwn
=============================================================================
