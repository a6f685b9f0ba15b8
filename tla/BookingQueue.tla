---------------------------- MODULE BookingQueue ----------------------------
(***************************************************************************)
(* The asynchronous join path of one event: the HTTP handler that enqueues *)
(* (BookingQueueService), the Redis keys it shares with the worker, the    *)
(* BullMQ queue as the code uses it, and the worker (BookingProcessor).    *)
(*                                                                         *)
(* Every Redis key and every lock of this path carries the event id, so    *)
(* events meet only in the worker's loop; one event is modelled.           *)
(* EventsService.joinEvent is one step here, as SeatLedger says it is and  *)
(* EventStoreProofs proves.  Every await is a point where other calls      *)
(* and workers run, where the process may die, and where Redis may fail.   *)
(* Redis keys may expire at any time: nothing bounds how long a job waits. *)
(***************************************************************************)
EXTENDS Naturals, FiniteSets

CONSTANTS
  Users,        \* users who are not the organiser
  Keys,         \* values of the Idempotency-Key header
  NoKey,        \* the call has no such header
  Calls,        \* POST /events/:id/join calls
  Workers,      \* backend processes, each running one job at a time
  Seats,        \* seats left besides the organiser's
  Attempts,     \* attempts of a job (5 in the code)
  MaxStalls,    \* BullMQ's maxStalledCount (1 by default)
  Nobody,       \* a Redis key that is not set, a job without worker
  MaxFaults,    \* bound: crashes, failed Redis calls, failed transactions
  MaxExpiries,  \* bound: Redis keys that expire
  MaxLeaves     \* bound: leaveEvent and remove calls

ASSUME NumbersAssumption ==
  {Seats, Attempts, MaxStalls, MaxFaults, MaxExpiries, MaxLeaves} \subseteq Nat
ASSUME AttemptsAssumption == Attempts > 0
ASSUME NobodyAssumption == NoKey \notin Keys /\ Nobody \notin Workers \cup Users

\* requestId: sha256(user, event, key) with a key, a random UUID without one
Requests == [user : Users, tag : Keys \cup Calls]

VARIABLES
  cpc,        \* the await each call is at
  who,        \* its user
  key,        \* its Idempotency-Key
  returned,   \* the requestId it answered with
  status,     \* reqstatus:{requestId}, the state field
  reason,     \* reqstatus:{requestId}, the reason field
  claim,      \* pending-join:{event}:{user}
  lock,       \* lock:event:{event}; a worker holds one token at a time
  job,        \* the BullMQ job of each requestId
  wpc,        \* the await each worker is at
  wjob,       \* the request it processes
  cause,      \* the error its catch block reports
  thrown,     \* an error is on its way out of process()
  exists,     \* the event has not been deleted
  members,    \* participants besides the organiser
  took,       \* requests whose transaction committed a membership (history)
  faults, expiries, leaves  \* used up so far (bounds)

http == <<cpc, who, key, returned>>
redis == <<status, reason, claim, lock>>
worker == <<wpc, wjob, cause, thrown>>
store == <<exists, members, took>>
used == <<faults, expiries, leaves>>
vars == <<http, redis, job, worker, store, used>>

NoRequest == [user |-> Nobody, tag |-> Nobody]

NoJob == [state |-> "absent", tries |-> 0, stalls |-> 0, owner |-> Nobody]

RequestId(c) == [user |-> who[c], tag |-> IF key[c] = NoKey THEN c ELSE key[c]]

(***************************************************************************)
(* BookingQueueService.enqueueJoin                                         *)
(***************************************************************************)
\* POST /events/:id/join; without a key there is no status lookup.
Receive(c) ==
  /\ cpc[c] = "idle"
  /\ \E u \in Users, k \in Keys \cup {NoKey} :
       /\ who' = [who EXCEPT ![c] = u]
       /\ key' = [key EXCEPT ![c] = k]
       /\ cpc' = [cpc EXCEPT ![c] = IF k = NoKey THEN "claim" ELSE "check"]
  /\ UNCHANGED <<returned, redis, job, worker, store, used>>

Return(c, r) ==
  /\ cpc' = [cpc EXCEPT ![c] = "done"]
  /\ returned' = [returned EXCEPT ![c] = r]
  /\ UNCHANGED <<who, key>>

Proceed(c, to) ==
  /\ cpc' = [cpc EXCEPT ![c] = to]
  /\ UNCHANGED <<who, key, returned>>

\* getStatus(requestId): a key seen before is answered from the cache.
CheckStatus(c) ==
  /\ cpc[c] = "check"
  /\ IF status[RequestId(c)] # "none" THEN Return(c, RequestId(c)) ELSE Proceed(c, "claim")
  /\ UNCHANGED <<redis, job, worker, store, used>>

\* Mutant: SET without NX; the newer call takes the claim over.
Claim_Overwrites(c) ==
  /\ cpc[c] = "claim"
  /\ claim' = [claim EXCEPT ![who[c]] = RequestId(c)]
  /\ Proceed(c, "pending")
  /\ UNCHANGED <<status, reason, lock, job, worker, store, used>>

\* setIfAbsent(pending-join:..): claim the slot, or piggyback on its holder.
Claim(c) ==
  LET u == who[c] IN
  /\ cpc[c] = "claim"
  /\ IF claim[u] = NoRequest
       THEN claim' = [claim EXCEPT ![u] = RequestId(c)] /\ Proceed(c, "pending")
       ELSE Return(c, claim[u]) /\ UNCHANGED claim
  /\ UNCHANGED <<status, reason, lock, job, worker, store, used>>

\* setPending
SetPending(c) ==
  /\ cpc[c] = "pending"
  /\ status' = [status EXCEPT ![RequestId(c)] = "PENDING"]
  /\ reason' = [reason EXCEPT ![RequestId(c)] = "none"]
  /\ Proceed(c, "add")
  /\ UNCHANGED <<claim, lock, job, worker, store, used>>

\* queue.add: no effect while BullMQ keeps a job with this id, a failed one too.
AddJob(c) ==
  LET r == RequestId(c) IN
  /\ cpc[c] = "add"
  /\ job' = IF job[r].state = "absent" THEN [job EXCEPT ![r].state = "waiting"] ELSE job
  /\ Return(c, r)
  /\ UNCHANGED <<redis, worker, store, used>>

\* The backend dies, or the Redis call fails and the client gets a 500.
CallFails(c) ==
  /\ cpc[c] \in {"check", "claim", "pending", "add"}
  /\ faults < MaxFaults
  /\ faults' = faults + 1
  /\ Proceed(c, "failed")
  /\ UNCHANGED <<redis, job, worker, store, expiries, leaves>>

(***************************************************************************)
(* BullMQ                                                                  *)
(***************************************************************************)
\* A worker fetches a job; a job in backoff is fetched after its delay.
Fetch(w, r) ==
  /\ wpc[w] = "idle"
  /\ job[r].state = "waiting"
  /\ job' = [job EXCEPT ![r].state = "active", ![r].owner = w]
  /\ wpc' = [wpc EXCEPT ![w] = "lock"]
  /\ wjob' = [wjob EXCEPT ![w] = r]
  /\ cause' = [cause EXCEPT ![w] = "none"]
  /\ thrown' = [thrown EXCEPT ![w] = FALSE]
  /\ UNCHANGED <<http, redis, store, used>>

\* The worker's lock on the job ran out: the worker died, or, one more fault, it
\* was too slow to renew it.  The job runs again, unless it stalled too often.
Stall(r) ==
  LET w == job[r].owner
      alive == wpc[w] # "idle" /\ wjob[w] = r
  IN
  /\ job[r].state = "active"
  /\ IF alive THEN faults < MaxFaults /\ faults' = faults + 1 ELSE UNCHANGED faults
  /\ job' = [job EXCEPT ![r].state = IF job[r].stalls < MaxStalls THEN "waiting" ELSE "failed",
                        ![r].stalls = @ + 1,
                        ![r].owner = Nobody]
  /\ UNCHANGED <<http, redis, worker, store, expiries, leaves>>

\* process() returned or threw.  A completed job is removed, a failed one is
\* retried until its attempts are used up and then kept (removeOnFail: 1000).
\* A worker that lost the job in a stall can no longer move it.
Settle(w) ==
  LET r == wjob[w]
      t == job[r].tries + 1
  IN
  /\ wpc[w] = "settle"
  /\ job' = IF job[r].owner # w THEN job
            ELSE [job EXCEPT ![r] =
                    IF ~thrown[w] THEN NoJob
                    ELSE [state  |-> IF t < Attempts THEN "waiting" ELSE "failed",
                          tries  |-> t,
                          stalls |-> @.stalls,
                          owner  |-> Nobody]]
  /\ wpc' = [wpc EXCEPT ![w] = "idle"]
  /\ wjob' = [wjob EXCEPT ![w] = NoRequest]
  /\ cause' = [cause EXCEPT ![w] = "none"]
  /\ thrown' = [thrown EXCEPT ![w] = FALSE]
  /\ UNCHANGED <<http, redis, store, used>>

(***************************************************************************)
(* BookingProcessor.process                                                *)
(***************************************************************************)
At(w, from, to) ==
  /\ wpc[w] = from
  /\ wpc' = [wpc EXCEPT ![w] = to]
  /\ UNCHANGED wjob

\* setStatus with the outcome of the request
Tell(w, state, why) ==
  /\ status' = [status EXCEPT ![wjob[w]] = state]
  /\ reason' = [reason EXCEPT ![wjob[w]] = why]

\* releaseLock: compare-and-delete of the event lock by token ..
FreeLock(w) == lock' = IF lock = w THEN Nobody ELSE lock

\* .. and of the claim by requestId.
FreeClaim(w) ==
  LET u == wjob[w].user IN
  claim' = IF claim[u] = wjob[w] THEN [claim EXCEPT ![u] = NoRequest] ELSE claim

\* Mutant: SET without NX; the worker takes the lock over.
AcquireLock_Overwrites(w) ==
  /\ At(w, "lock", "join")
  /\ lock' = w
  /\ UNCHANGED <<http, status, reason, claim, job, cause, thrown, store, used>>

\* acquireLock: without the token the job fails before the try block.
AcquireLock(w) ==
  /\ \/ lock = Nobody /\ lock' = w /\ At(w, "lock", "join") /\ UNCHANGED thrown
     \/ /\ lock # Nobody /\ UNCHANGED lock
        /\ At(w, "lock", "settle") /\ thrown' = [thrown EXCEPT ![w] = TRUE]
  /\ UNCHANGED <<http, status, reason, claim, job, cause, store, used>>

\* Mutant: the capacity check lets one more in.
CanJoin_OffByOne(u) == exists /\ u \notin members /\ Cardinality(members) <= Seats

\* The checks of joinEvent
CanJoin(u) == exists /\ u \notin members /\ Cardinality(members) < Seats

\* Its commit
TakeSeat(r) ==
  /\ members' = members \cup {r.user}
  /\ took' = took \cup {r}
  /\ UNCHANGED exists

\* joinEvent commits, or refuses.
JoinEvent(w) ==
  LET refusal == IF ~exists THEN "notFound"
                 ELSE IF wjob[w].user \in members THEN "conflict" ELSE "full"
  IN
  /\ IF CanJoin(wjob[w].user)
       THEN /\ At(w, "join", "confirm")
            /\ TakeSeat(wjob[w])
            /\ UNCHANGED cause
       ELSE /\ At(w, "join", "reject")
            /\ cause' = [cause EXCEPT ![w] = refusal]
            /\ UNCHANGED store
  /\ UNCHANGED <<http, redis, job, thrown, used>>

\* joinEvent throws something else: P2028, or a connection lost before or after
\* the commit reached the database.
JoinEventFails(w) ==
  /\ At(w, "join", "reject")
  /\ faults < MaxFaults
  /\ faults' = faults + 1
  /\ cause' = [cause EXCEPT ![w] = "error"]
  /\ \/ UNCHANGED store
     \/ CanJoin(wjob[w].user) /\ TakeSeat(wjob[w])
  /\ UNCHANGED <<http, redis, job, thrown, expiries, leaves>>

\* setStatus CONFIRMED
SetConfirmed(w) ==
  /\ At(w, "confirm", "unlock")
  /\ Tell(w, "CONFIRMED", "none")
  /\ UNCHANGED <<http, claim, lock, job, cause, thrown, store, used>>

\* The catch block: whatever was thrown, setStatus REJECTED.
SetRejected(w) ==
  /\ At(w, "reject", "unlock")
  /\ Tell(w, "REJECTED", cause[w])
  /\ UNCHANGED <<http, claim, lock, job, cause, thrown, store, used>>

\* Mutant: the finally block forgets the event lock.
ReleaseLock_Forgotten(w) ==
  /\ At(w, "unlock", "unclaim")
  /\ UNCHANGED <<http, redis, job, cause, thrown, store, used>>

\* The finally block
ReleaseLock(w) ==
  /\ At(w, "unlock", "unclaim")
  /\ FreeLock(w)
  /\ UNCHANGED <<http, status, reason, claim, job, cause, thrown, store, used>>

\* Mutant: a plain DEL of the claim
ReleaseClaim_Unconditional(w) ==
  /\ At(w, "unclaim", "settle")
  /\ claim' = [claim EXCEPT ![wjob[w].user] = NoRequest]
  /\ UNCHANGED <<http, status, reason, lock, job, cause, thrown, store, used>>

ReleaseClaim(w) ==
  /\ At(w, "unclaim", "settle")
  /\ FreeClaim(w)
  /\ UNCHANGED <<http, status, reason, lock, job, cause, thrown, store, used>>

\* A Redis call of the worker fails, before or after Redis applied it.  Inside
\* the try block the catch block takes over; inside the catch block the finally
\* block still runs; inside the finally block, and before the try, the rest of
\* process() is skipped.
RedisFails(w) ==
  /\ faults < MaxFaults
  /\ faults' = faults + 1
  /\ \/ /\ At(w, "confirm", "reject")
        /\ cause' = [cause EXCEPT ![w] = "error"]
        /\ Tell(w, "CONFIRMED", "none") \/ UNCHANGED <<status, reason>>
        /\ UNCHANGED <<claim, lock, thrown>>
     \/ /\ \/ /\ At(w, "reject", "unlock")
              /\ Tell(w, "REJECTED", cause[w]) \/ UNCHANGED <<status, reason>>
              /\ UNCHANGED <<claim, lock>>
           \/ /\ At(w, "lock", "settle")
              /\ (lock = Nobody /\ lock' = w) \/ UNCHANGED lock
              /\ UNCHANGED <<status, reason, claim>>
           \/ /\ At(w, "unlock", "settle")
              /\ FreeLock(w) \/ UNCHANGED lock
              /\ UNCHANGED <<status, reason, claim>>
           \/ /\ At(w, "unclaim", "settle")
              /\ FreeClaim(w) \/ UNCHANGED claim
              /\ UNCHANGED <<status, reason, lock>>
        /\ thrown' = [thrown EXCEPT ![w] = TRUE]
        /\ UNCHANGED cause
  /\ UNCHANGED <<http, job, store, expiries, leaves>>

\* The worker process dies and is started again.
Crash(w) ==
  /\ wpc[w] # "idle"
  /\ faults < MaxFaults
  /\ faults' = faults + 1
  /\ wpc' = [wpc EXCEPT ![w] = "idle"]
  /\ wjob' = [wjob EXCEPT ![w] = NoRequest]
  /\ cause' = [cause EXCEPT ![w] = "none"]
  /\ thrown' = [thrown EXCEPT ![w] = FALSE]
  /\ UNCHANGED <<http, redis, job, store, expiries, leaves>>

(***************************************************************************)
(* Time, and what the organiser and the members do                         *)
(***************************************************************************)
\* The 60 s of the claim, or the 10 s of the lock, are over.
Expire ==
  /\ expiries < MaxExpiries
  /\ expiries' = expiries + 1
  /\ \/ /\ \E u \in Users : claim[u] # NoRequest /\ claim' = [claim EXCEPT ![u] = NoRequest]
        /\ UNCHANGED lock
     \/ lock # Nobody /\ lock' = Nobody /\ UNCHANGED claim
  /\ UNCHANGED <<http, status, reason, job, worker, store, faults, leaves>>

\* leaveEvent, called straight from the controller
Leave(u) ==
  /\ u \in members
  /\ leaves < MaxLeaves
  /\ leaves' = leaves + 1
  /\ members' = members \ {u}
  /\ UNCHANGED <<http, redis, job, worker, exists, took, faults, expiries>>

\* remove: the memberships go with the event, jobs and Redis keys stay.
Remove ==
  /\ exists
  /\ leaves < MaxLeaves
  /\ leaves' = leaves + 1
  /\ exists' = FALSE
  /\ members' = {}
  /\ UNCHANGED <<http, redis, job, worker, took, faults, expiries>>

(***************************************************************************)
(* Specification                                                           *)
(***************************************************************************)
Init ==
  /\ cpc = [c \in Calls |-> "idle"]
  /\ who = [c \in Calls |-> Nobody]
  /\ key = [c \in Calls |-> NoKey]
  /\ returned = [c \in Calls |-> NoRequest]
  /\ status = [r \in Requests |-> "none"]
  /\ reason = [r \in Requests |-> "none"]
  /\ claim = [u \in Users |-> NoRequest]
  /\ lock = Nobody
  /\ job = [r \in Requests |-> NoJob]
  /\ wpc = [w \in Workers |-> "idle"]
  /\ wjob = [w \in Workers |-> NoRequest]
  /\ cause = [w \in Workers |-> "none"]
  /\ thrown = [w \in Workers |-> FALSE]
  /\ exists = TRUE
  /\ members = {}
  /\ took = {}
  /\ faults = 0 /\ expiries = 0 /\ leaves = 0

CallStep(c) == CheckStatus(c) \/ Claim(c) \/ SetPending(c) \/ AddJob(c)

WorkerStep(w) ==
  \/ \E r \in Requests : Fetch(w, r)
  \/ AcquireLock(w) \/ JoinEvent(w) \/ SetConfirmed(w) \/ SetRejected(w)
  \/ ReleaseLock(w) \/ ReleaseClaim(w) \/ Settle(w)

Fault ==
  \/ \E c \in Calls : CallFails(c)
  \/ \E w \in Workers : JoinEventFails(w) \/ RedisFails(w) \/ Crash(w)

Next ==
  \/ \E c \in Calls : Receive(c) \/ CallStep(c)
  \/ \E w \in Workers : WorkerStep(w)
  \/ \E r \in Requests : Stall(r)
  \/ (\E u \in Users : Leave(u)) \/ Remove
  \/ Expire
  \/ Fault

Spec == Init /\ [][Next]_vars

\* The event loop runs the next await of every handler and of every worker;
\* clients, keys that expire, members who leave and faults promise nothing.
Fairness ==
  /\ \A c \in Calls : WF_vars(CallStep(c))
  /\ \A w \in Workers : WF_vars(WorkerStep(w))

FairSpec == Spec /\ Fairness

(***************************************************************************)
(* Properties                                                              *)
(***************************************************************************)
JobStates == {"absent", "waiting", "active", "failed"}

Causes == {"none", "notFound", "conflict", "full", "error"}

TypeOK ==
  /\ cpc \in [Calls -> {"idle", "check", "claim", "pending", "add", "done", "failed"}]
  /\ who \in [Calls -> Users \cup {Nobody}]
  /\ key \in [Calls -> Keys \cup {NoKey}]
  /\ returned \in [Calls -> Requests \cup {NoRequest}]
  /\ status \in [Requests -> {"none", "PENDING", "CONFIRMED", "REJECTED"}]
  /\ reason \in [Requests -> Causes]
  /\ claim \in [Users -> Requests \cup {NoRequest}]
  /\ lock \in Workers \cup {Nobody}
  /\ job \in [Requests -> [state : JobStates, tries : 0..Attempts,
                           stalls : 0..MaxStalls + 1, owner : Workers \cup {Nobody}]]
  /\ wpc \in [Workers -> {"idle", "lock", "join", "confirm", "reject", "unlock",
                          "unclaim", "settle"}]
  /\ wjob \in [Workers -> Requests \cup {NoRequest}]
  /\ cause \in [Workers -> Causes]
  /\ thrown \in [Workers -> BOOLEAN]
  /\ exists \in BOOLEAN
  /\ members \in SUBSET Users
  /\ took \in SUBSET Requests
  /\ faults \in 0..MaxFaults /\ expiries \in 0..MaxExpiries /\ leaves \in 0..MaxLeaves

\* Nobody is told CONFIRMED in vain: the request's own transaction has committed a
\* seat, and while no member leaves, no more requests are confirmed than there
\* are seats, however often jobs are retried, re-run or run twice at a time.
ConfirmedHoldsSeat ==
  LET confirmed == {r \in Requests : status[r] = "CONFIRMED"} IN
  /\ confirmed \subseteq took
  /\ leaves = 0 => /\ \A r \in confirmed : r.user \in members
                   /\ Cardinality(confirmed) <= Seats

LockFreedByHolder ==
  lock # Nobody /\ lock' # lock /\ expiries' = expiries =>
    wpc[lock] = "unlock" /\ wpc'[lock] \in {"unclaim", "settle"}

ClaimFreedByHolder ==
  \A u \in Users : claim[u] # NoRequest /\ claim'[u] # claim[u] /\ expiries' = expiries =>
    \E w \in Workers : wpc[w] = "unclaim" /\ wpc'[w] = "settle" /\ wjob[w] = claim[u]

\* Compare-and-delete: a late finally block frees neither the lock of another
\* worker nor a newer claim of the same user, whatever expired in between.
ReleasesOnlyItsOwn == [][LockFreedByHolder /\ ClaimFreedByHolder]_vars

\* The section between acquireLock and releaseLock
Inside(w) == wpc[w] \in {"join", "confirm", "reject", "unlock"}

\* Unless the lock expires under its holder, joins of the event are serialized
\* across backend processes, crashed ones included.
JoinsAreSerial ==
  expiries = 0 => \A v, w \in Workers : Inside(v) /\ Inside(w) => v = w

\* A job that has not come to releasing its claim yet
Unsettled(r) ==
  \/ job[r].state = "waiting"
  \/ \E w \in Workers : wjob[w] = r /\ wpc[w] \notin {"idle", "settle"}

\* The claim does what it is for: with no key expired and no fault, a user never
\* has two requests on their way to the same event.
OneRequestPerUser ==
  expiries = 0 /\ faults = 0 =>
    \A q, r \in Requests : q.user = r.user /\ Unsettled(q) /\ Unsettled(r) => q = r

\* A client that polls the requestId it was given gets a final answer, when one
\* worker serves the queue, nothing fails and no two calls share a key.
EveryJoinSettles ==
  \A c \in Calls : \A r \in Requests :
    returned[c] = r ~> status[r] \in {"CONFIRMED", "REJECTED"}

(***************************************************************************)
(* What the documentation says and the code does not do                    *)
(***************************************************************************)
\* booking-concurrency.md:242: a worker that died between the commit and the write
\* of the status; the job runs again, and "already a participant" is treated as
\* CONFIRMED.
RerunIsConfirmed ==
  [][\A r \in took : status[r] = "PENDING" =>
       ~(status'[r] = "REJECTED" /\ reason'[r] = "conflict")]_vars
=============================================================================
