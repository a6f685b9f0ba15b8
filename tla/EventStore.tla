----------------------------- MODULE EventStore -----------------------------
(***************************************************************************)
(* EventsService (events.service.ts) at the level of SQL statements.       *)
(*                                                                         *)
(* A session is one request running against Postgres.  join, leave, create *)
(* and remove are Read Committed transactions: their statements are        *)
(* separate steps, their writes stay private until the commit step, and a  *)
(* row lock taken by SELECT .. FOR UPDATE, UPDATE or DELETE is held to the *)
(* end of the transaction.  update, and the ownership check of remove and  *)
(* update, run outside any transaction.  A transaction may fail at every   *)
(* step (Prisma's P2028 timeout, a lost connection, a dead backend): the   *)
(* database then rolls it back.                                            *)
(***************************************************************************)
EXTENDS Integers, Sequences, FiniteSets

CONSTANTS
  Events,       \* event ids
  Users,        \* user ids
  Sessions,     \* requests being served at the same time
  Capacities,   \* the seat limits an organiser may choose
  NoCap,        \* capacity null: no limit
  NoReq,        \* the session serves no request
  NoUser,       \* organiser of an event that does not exist
  NoSession,    \* the row is not locked
  MaxRequests,  \* bound: requests sent in a behaviour
  StampAt       \* when Prisma takes now() for createdAt: "begin" or "create"

ASSUME UsersAssumption == IsFiniteSet(Users)
ASSUME CapacityAssumption == Capacities \subseteq Nat \ {0} /\ NoCap \notin Nat
ASSUME NoReqAssumption ==
  NoReq \notin [op : {"create", "join", "leave", "remove", "update"},
                event : Events, user : Users, cap : Capacities \cup {NoCap}]
ASSUME NoSessionAssumption == NoSession \notin Sessions
ASSUME BoundAssumption == MaxRequests \in Nat
ASSUME StampAssumption == StampAt \in {"begin", "create"}

VARIABLES
  live,          \* ids of the committed Event rows
  author,        \* Event.authorId
  capacity,      \* Event.capacity
  seatsTaken,    \* Event.seatsTaken
  participants,  \* the EventParticipant rows of each event, by user id
  outbox,        \* the committed OutboxEvent rows in commit order
  rowLock,       \* the transaction that holds the lock on the Event row
  clock,         \* the database clock, one tick per timestamp taken
  pc,            \* the statement each session executes next
  req,           \* the request each session serves
  stamp,         \* the createdAt of a transaction stamped when it begins
  seats,         \* seatsTaken as written by the open transaction
  draft,         \* outbox rows written by the open transaction
  answer,        \* the last answer each session gave
  sent           \* requests sent so far (bound)

committed == <<live, author, capacity, seatsTaken, participants, outbox>>
local == <<pc, req, stamp, seats, draft, answer>>
vars == <<committed, rowLock, clock, local, sent>>

(***************************************************************************)
(* Requests                                                                *)
(***************************************************************************)
Limits == Capacities \cup {NoCap}

Ops == {"create", "join", "leave", "remove", "update"}

Requests ==
  {r \in [op : Ops, event : Events, user : Users, cap : Limits] :
      r.op \in {"create", "update"} \/ r.cap = NoCap}

PCs == {"idle", "lock", "find", "member", "seat", "insert", "read", "erase",
        "apply", "outbox", "commit"}

Answers == {"none", "ok", "notFound", "forbidden", "conflict", "full", "error"}

Topic(op) == CASE op = "create" -> "event.created"
               [] op = "join"   -> "event.user-joined"
               [] op = "leave"  -> "event.user-left"
               [] OTHER         -> "event.deleted"

Topics == {Topic(op) : op \in Ops}

Rows == [topic : Topics, key : Events, user : Users, createdAt : Nat]

\* Ids are cuids made by the create transaction: a client can only name an
\* event whose creation has been committed.
Known == {outbox[i].key : i \in DOMAIN outbox}

FirstStatement(op) == IF op \in {"join", "leave"} THEN "lock"
                      ELSE IF op = "create" THEN "insert" ELSE "read"

Begin(s, r) ==
  /\ pc[s] = "idle"
  /\ sent < MaxRequests
  /\ IF r.op = "create"
       THEN /\ r.event \notin Known
            /\ \A t \in Sessions : pc[t] # "idle" => req[t].event # r.event
       ELSE r.event \in Known
  /\ sent' = sent + 1
  /\ pc' = [pc EXCEPT ![s] = FirstStatement(r.op)]
  /\ req' = [req EXCEPT ![s] = r]
  /\ answer' = [answer EXCEPT ![s] = "none"]
  /\ IF StampAt = "begin"
       THEN clock' = clock + 1 /\ stamp' = [stamp EXCEPT ![s] = clock + 1]
       ELSE UNCHANGED <<clock, stamp>>
  /\ UNCHANGED <<committed, rowLock, seats, draft>>

(***************************************************************************)
(* What statements have in common                                          *)
(***************************************************************************)
\* The session moves on to the next statement of its transaction.
Goto(s, to) ==
  /\ pc' = [pc EXCEPT ![s] = to]
  /\ UNCHANGED <<req, stamp, answer, sent>>

\* Mutant of Finish: the connection goes back to the pool with its locks.
Finish_KeepsLocks(s, a) ==
  /\ pc' = [pc EXCEPT ![s] = "idle"]
  /\ req' = [req EXCEPT ![s] = NoReq]
  /\ stamp' = [stamp EXCEPT ![s] = 0]
  /\ seats' = [seats EXCEPT ![s] = 0]
  /\ draft' = [draft EXCEPT ![s] = <<>>]
  /\ answer' = [answer EXCEPT ![s] = a]
  /\ UNCHANGED <<rowLock, clock, sent>>

\* The session ends: Postgres drops its locks and its private writes.
Finish(s, a) ==
  /\ pc' = [pc EXCEPT ![s] = "idle"]
  /\ req' = [req EXCEPT ![s] = NoReq]
  /\ stamp' = [stamp EXCEPT ![s] = 0]
  /\ seats' = [seats EXCEPT ![s] = 0]
  /\ draft' = [draft EXCEPT ![s] = <<>>]
  /\ rowLock' = [e \in Events |-> IF rowLock[e] = s THEN NoSession ELSE rowLock[e]]
  /\ answer' = [answer EXCEPT ![s] = a]
  /\ UNCHANGED <<clock, sent>>

\* An exception leaves the $transaction callback: rollback, then the answer.
Throw(s, a) ==
  /\ Finish(s, a)
  /\ UNCHANGED committed

\* Mutant of Lockable: the statement does not wait for the lock.
Lockable_NoWait(s, e) == TRUE

\* A statement that locks the row waits for the transaction that holds it.
Lockable(s, e) == rowLock[e] \in {s, NoSession}

\* A locking statement finds, and locks, only a row that exists.
LockIfLive(s, e) ==
  rowLock' = IF e \in live THEN [rowLock EXCEPT ![e] = s] ELSE rowLock

(***************************************************************************)
(* joinEvent and leaveEvent                                                *)
(***************************************************************************)
\* Mutant of SelectForUpdate: a plain SELECT.
SelectForUpdate_PlainSelect(s) ==
  /\ pc[s] = "lock"
  /\ Goto(s, "find")
  /\ UNCHANGED <<committed, rowLock, clock, seats, draft>>

\* SELECT id FROM "Event" .. FOR UPDATE
SelectForUpdate(s) ==
  LET e == req[s].event IN
  /\ pc[s] = "lock"
  /\ Goto(s, "find")
  /\ Lockable(s, e)
  /\ LockIfLive(s, e)
  /\ UNCHANGED <<committed, clock, seats, draft>>

\* Mutant of FindEvent: the organiser may leave.
FindEvent_OrganiserMayLeave(s) ==
  /\ pc[s] = "find"
  /\ \/ req[s].event \notin live /\ Throw(s, "notFound")
     \/ /\ req[s].event \in live
        /\ Goto(s, "member")
        /\ UNCHANGED <<committed, rowLock, clock, seats, draft>>

\* findUnique, and the checks on what it returned
FindEvent(s) ==
  LET r == req[s]
      ownEvent == r.op = "leave" /\ author[r.event] = r.user
  IN
  /\ pc[s] = "find"
  /\ \/ r.event \notin live /\ Throw(s, "notFound")
     \/ r.event \in live /\ ownEvent /\ Throw(s, "forbidden")
     \/ /\ r.event \in live /\ ~ownEvent
        /\ Goto(s, "member")
        /\ UNCHANGED <<committed, rowLock, clock, seats, draft>>

\* createMany with skipDuplicates (join), deleteMany (leave): no row, no change
ChangeMembership(s) ==
  LET r == req[s]
      isMember == r.user \in participants[r.event]
  IN
  /\ pc[s] = "member"
  /\ \/ isMember = (r.op = "join") /\ Throw(s, "conflict")
     \/ /\ isMember = (r.op = "leave")
        /\ Goto(s, "seat")
        /\ UNCHANGED <<committed, rowLock, clock, seats, draft>>

\* Mutant of HasSeat: lte instead of lt.
HasSeat_Lte(e) == capacity[e] # NoCap => seatsTaken[e] <= capacity[e]

\* The WHERE of joinEvent's conditional increment
HasSeat(e) == capacity[e] # NoCap => seatsTaken[e] < capacity[e]

\* The increment of joinEvent, the GREATEST(seatsTaken - 1, 0) of leaveEvent
TakeSeat(s) ==
  LET r == req[s]
      e == r.event
  IN
  /\ pc[s] = "seat"
  /\ Lockable(s, e)
  /\ \/ r.op = "join" /\ ~HasSeat(e) /\ Throw(s, "full")
     \/ /\ r.op = "join" => HasSeat(e)
        /\ Goto(s, "outbox")
        /\ LockIfLive(s, e)
        /\ seats' = [seats EXCEPT ![s] =
             IF r.op = "join" THEN seatsTaken[e] + 1
             ELSE IF seatsTaken[e] > 0 THEN seatsTaken[e] - 1 ELSE 0]
        /\ UNCHANGED <<committed, clock, draft>>

(***************************************************************************)
(* create                                                                  *)
(***************************************************************************)
\* The Event row, with its organiser's participant row, invisible to others
InsertEvent(s) ==
  /\ pc[s] = "insert"
  /\ Goto(s, "outbox")
  /\ seats' = [seats EXCEPT ![s] = 1]
  /\ UNCHANGED <<committed, rowLock, clock, draft>>

(***************************************************************************)
(* remove and update: an unlocked read first, then the write               *)
(***************************************************************************)
\* findOne and the ownership check
ReadOwner(s) ==
  LET r == req[s] IN
  /\ pc[s] = "read"
  /\ \/ r.event \notin live /\ Throw(s, "notFound")
     \/ r.event \in live /\ author[r.event] # r.user /\ Throw(s, "forbidden")
     \/ /\ r.event \in live /\ author[r.event] = r.user
        /\ Goto(s, IF r.op = "remove" THEN "erase" ELSE "apply")
        /\ UNCHANGED <<committed, rowLock, clock, seats, draft>>

\* event.delete: P2025, answered 404, when the row is gone by now
DeleteEvent(s) ==
  LET e == req[s].event IN
  /\ pc[s] = "erase"
  /\ Lockable(s, e)
  /\ \/ e \notin live /\ Throw(s, "notFound")
     \/ /\ e \in live
        /\ Goto(s, "outbox")
        /\ LockIfLive(s, e)
        /\ UNCHANGED <<committed, clock, seats, draft>>

\* event.update, one auto-committed statement: no lock kept, no seat counted
UpdateEvent(s) ==
  LET r == req[s] IN
  /\ pc[s] = "apply"
  /\ Lockable(s, r.event)
  /\ \/ r.event \notin live /\ Throw(s, "notFound")
     \/ /\ r.event \in live
        /\ capacity' = [capacity EXCEPT ![r.event] = r.cap]
        /\ UNCHANGED <<live, author, seatsTaken, participants, outbox>>
        /\ \E a \in {"ok", "error"} : Finish(s, a)

(***************************************************************************)
(* The outbox row and the commit                                           *)
(***************************************************************************)
WriteOutbox(s) ==
  LET row == [topic     |-> Topic(req[s].op),
              key       |-> req[s].event,
              user      |-> req[s].user,
              createdAt |-> IF StampAt = "begin" THEN stamp[s] ELSE clock + 1]
  IN
  /\ pc[s] = "outbox"
  /\ Goto(s, "commit")
  /\ draft' = [draft EXCEPT ![s] = <<row>>]
  /\ clock' = IF StampAt = "begin" THEN clock ELSE clock + 1
  /\ UNCHANGED <<committed, rowLock, seats>>

\* COMMIT of the transaction of an op: its writes become visible and its locks
\* are released; the reply may still be lost, and the caller then sees an error.
Commit(s, op) ==
  /\ pc[s] = "commit"
  /\ req[s].op = op
  /\ outbox' = outbox \o draft[s]
  /\ \E a \in {"ok", "error"} : Finish(s, a)

CommitCreate(s) ==
  LET r == req[s] IN
  /\ Commit(s, "create")
  /\ live' = live \cup {r.event}
  /\ author' = [author EXCEPT ![r.event] = r.user]
  /\ capacity' = [capacity EXCEPT ![r.event] = r.cap]
  /\ seatsTaken' = [seatsTaken EXCEPT ![r.event] = seats[s]]
  /\ participants' = [participants EXCEPT ![r.event] = {r.user}]

CommitJoin(s) ==
  LET r == req[s] IN
  /\ Commit(s, "join")
  /\ seatsTaken' = [seatsTaken EXCEPT ![r.event] = seats[s]]
  /\ participants' = [participants EXCEPT ![r.event] = @ \cup {r.user}]
  /\ UNCHANGED <<live, author, capacity>>

CommitLeave(s) ==
  LET r == req[s] IN
  /\ Commit(s, "leave")
  /\ seatsTaken' = [seatsTaken EXCEPT ![r.event] = seats[s]]
  /\ participants' = [participants EXCEPT ![r.event] = @ \ {r.user}]
  /\ UNCHANGED <<live, author, capacity>>

\* The foreign key of EventParticipant cascades; that of OutboxEvent does not exist.
CommitRemove(s) ==
  LET r == req[s] IN
  /\ Commit(s, "remove")
  /\ live' = live \ {r.event}
  /\ author' = [author EXCEPT ![r.event] = NoUser]
  /\ capacity' = [capacity EXCEPT ![r.event] = NoCap]
  /\ seatsTaken' = [seatsTaken EXCEPT ![r.event] = 0]
  /\ participants' = [participants EXCEPT ![r.event] = {}]

\* Mutant of Abort: the outbox row was written outside the transaction.
Abort_OutboxSurvives(s) ==
  /\ pc[s] # "idle"
  /\ Finish(s, "error")
  /\ outbox' = outbox \o draft[s]
  /\ UNCHANGED <<live, author, capacity, seatsTaken, participants>>

\* Timeout, lost connection or crash before the commit reached the database.
Abort(s) ==
  /\ pc[s] # "idle"
  /\ Finish(s, "error")
  /\ UNCHANGED committed

(***************************************************************************)
(* Specification                                                           *)
(***************************************************************************)
Init ==
  /\ live = {}
  /\ author = [e \in Events |-> NoUser]
  /\ capacity = [e \in Events |-> NoCap]
  /\ seatsTaken = [e \in Events |-> 0]
  /\ participants = [e \in Events |-> {}]
  /\ outbox = <<>>
  /\ rowLock = [e \in Events |-> NoSession]
  /\ clock = 0
  /\ pc = [s \in Sessions |-> "idle"]
  /\ req = [s \in Sessions |-> NoReq]
  /\ stamp = [s \in Sessions |-> 0]
  /\ seats = [s \in Sessions |-> 0]
  /\ draft = [s \in Sessions |-> <<>>]
  /\ answer = [s \in Sessions |-> "none"]
  /\ sent = 0

Step(s) ==
  \/ SelectForUpdate(s) \/ FindEvent(s) \/ ChangeMembership(s) \/ TakeSeat(s)
  \/ InsertEvent(s)
  \/ ReadOwner(s) \/ DeleteEvent(s) \/ UpdateEvent(s)
  \/ WriteOutbox(s)
  \/ CommitCreate(s) \/ CommitJoin(s) \/ CommitLeave(s) \/ CommitRemove(s)

Next ==
  \E s \in Sessions :
    \/ \E r \in Requests : Begin(s, r)
    \/ Step(s)
    \/ Abort(s)

Spec == Init /\ [][Next]_vars

\* Every statement returns or the transaction times out (Prisma's 5 s), so a
\* session in a transaction always moves; update has no timeout, but Postgres
\* grants a row lock in the order of the queue for it.
Fairness ==
  \A s \in Sessions :
    /\ WF_vars(pc[s] # "apply" /\ (Step(s) \/ Abort(s)))
    /\ SF_vars(UpdateEvent(s))

FairSpec == Spec /\ Fairness

(***************************************************************************)
(* Properties                                                              *)
(***************************************************************************)
TypeOK ==
  /\ live \subseteq Events
  /\ author \in [Events -> Users \cup {NoUser}]
  /\ capacity \in [Events -> Limits]
  /\ seatsTaken \in [Events -> Nat]
  /\ participants \in [Events -> SUBSET Users]
  /\ outbox \in Seq(Rows)
  /\ rowLock \in [Events -> Sessions \cup {NoSession}]
  /\ clock \in Nat
  /\ pc \in [Sessions -> PCs]
  /\ req \in [Sessions -> Requests \cup {NoReq}]
  /\ stamp \in [Sessions -> Nat]
  /\ seats \in [Sessions -> Nat]
  /\ draft \in [Sessions -> Seq(Rows)]
  /\ answer \in [Sessions -> Answers]
  /\ sent \in 0..MaxRequests

\* The denormalised counter never drifts from the membership: it is written by
\* a statement of its own (increment, GREATEST(..)) in each of the transactions
\* that create, join, leave and remove, under any interleaving, timeout or crash.
SeatsMatchParticipants ==
  \A e \in live : seatsTaken[e] = Cardinality(participants[e])

\* No join ever brings an event above the limit in force when it commits,
\* although the limit was tested statements earlier and update takes no part in
\* the row lock protocol other than by waiting for it.
JoinWithinCapacity ==
  [][\A e \in live \cap live' : \A u \in participants'[e] \ participants[e] :
       capacity'[e] # NoCap => Cardinality(participants'[e]) <= capacity'[e]]_vars

\* The messages about the membership of u in event e
About(row, e, u) == row.key = e /\ row.user = u /\ row.topic # "event.deleted"

\* The committed outbox rows are the exact history of the committed state, which
\* is what the transactional outbox is for: an event exists from its created row
\* to its deleted row, nothing about it comes before the first or after the
\* second, joins and leaves of a user alternate, and the last of them tells
\* whether the user is a member.
OutboxTellsHistory ==
  LET Pos == DOMAIN outbox
      Is(i, e, topic) == outbox[i].key = e /\ outbox[i].topic = topic
      Last(i, e, u) == /\ About(outbox[i], e, u)
                       /\ \A j \in Pos : j > i => ~About(outbox[j], e, u)
  IN
  /\ \A i, j \in Pos : i < j /\ outbox[i].key = outbox[j].key =>
       /\ outbox[j].topic # "event.created"
       /\ outbox[i].topic # "event.deleted"
       /\ (/\ About(outbox[i], outbox[i].key, outbox[j].user)
           /\ About(outbox[j], outbox[j].key, outbox[j].user)
           /\ \A k \in i+1..j-1 : ~About(outbox[k], outbox[i].key, outbox[j].user))
            => (outbox[i].topic = "event.user-left") # (outbox[j].topic = "event.user-left")
  /\ \A e \in Events :
       /\ e \in live <=> /\ \E i \in Pos : Is(i, e, "event.created")
                         /\ ~\E i \in Pos : Is(i, e, "event.deleted")
       /\ e \in live => participants[e] =
            {u \in Users : \E i \in Pos : Last(i, e, u) /\ outbox[i].topic # "event.user-left"}

\* Rows of one event carry createdAt in the order in which they were committed,
\* the order the relay publishes them in; it rests on the timestamp being taken
\* while the row lock is held (StampAt = "create").
OutboxInCommitOrder ==
  \A i, j \in DOMAIN outbox :
    i < j /\ outbox[i].key = outbox[j].key => outbox[i].createdAt < outbox[j].createdAt

\* A caller always gets an answer: whoever waits for a row lock is let through or
\* timed out, whatever happens to the holder.
RequestAnswered(s) == pc[s] # "idle" ~> pc[s] = "idle"

\* The outbox without its timestamps
History == [i \in DOMAIN outbox |->
              [topic |-> outbox[i].topic, key |-> outbox[i].key, user |-> outbox[i].user]]

Ledger == INSTANCE SeatLedger WITH history <- History

\* The service is linearizable: seen at the commits, and at the statement that
\* refuses a request, the interleaved statements implement the ledger that serves
\* each request in one step and counts the members instead of keeping a counter.
\* Every refusal is true at the moment it is decided.
ImplementsLedger == Ledger!Spec
=============================================================================
