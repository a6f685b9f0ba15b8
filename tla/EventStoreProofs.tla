-------------------------- MODULE EventStoreProofs --------------------------
(***************************************************************************)
(* Proofs about EventStore, for any number of events, users, sessions and  *)
(* requests: the seat counter equals the membership, no join exceeds the   *)
(* limit, the rows of the outbox are the history of the committed state,   *)
(* those of one event carry their timestamps in commit order, and the      *)
(* statements of requests implement the atomic SeatLedger.                 *)
(***************************************************************************)
EXTENDS EventStore, FiniteSetTheorems, SequenceTheorems, TLAPS

(***************************************************************************)
(* The inductive invariant: what a session knows at each statement, and    *)
(* why nobody can take it away before the session commits.                 *)
(***************************************************************************)
Busy(s) == pc[s] # "idle"

\* The statements of each request kind
StatementsOf(op) ==
  IF op \in {"join", "leave"} THEN {"lock", "find", "member", "seat", "outbox", "commit"}
  ELSE IF op = "create"       THEN {"insert", "outbox", "commit"}
  ELSE IF op = "remove"       THEN {"read", "erase", "outbox", "commit"}
  ELSE                             {"read", "apply"}

ControlInv ==
  \A s \in Sessions :
    /\ Busy(s) <=> req[s] # NoReq
    /\ Busy(s) => pc[s] \in StatementsOf(req[s].op)

\* Ids: a creation owns its id, every other request names a created event.
IdInv ==
  /\ live \subseteq Known
  /\ \A s \in Sessions : Busy(s) =>
       IF req[s].op = "create"
         THEN /\ req[s].event \notin Known
              /\ \A t \in Sessions \ {s} : Busy(t) => req[t].event # req[s].event
         ELSE req[s].event \in Known

\* The statements at which the transaction holds the lock on its event's row
HoldsRow(s) ==
  \/ pc[s] \in {"member", "seat"}
  \/ pc[s] \in {"outbox", "commit"} /\ req[s].op # "create"

LockInv ==
  \A s \in Sessions :
    /\ HoldsRow(s) => rowLock[req[s].event] = s /\ req[s].event \in live
    /\ pc[s] = "find" /\ req[s].event \in live => rowLock[req[s].event] = s

OwnerInv ==
  \A s \in Sessions :
    LET r == req[s] IN
    /\ pc[s] \in {"erase", "apply"} /\ r.event \in live => author[r.event] = r.user
    /\ HoldsRow(s) /\ r.op = "remove" => author[r.event] = r.user
    /\ HoldsRow(s) /\ r.op = "leave" => author[r.event] # r.user

MemberInv ==
  \A s \in Sessions : pc[s] \in {"seat", "outbox", "commit"} =>
    LET r == req[s] IN
    /\ r.op = "join" => r.user \notin participants[r.event]
    /\ r.op = "leave" => r.user \in participants[r.event]

SeatInv ==
  \A s \in Sessions : pc[s] \in {"outbox", "commit"} =>
    LET r == req[s] IN
    /\ r.op = "create" => seats[s] = 1
    /\ r.op = "join" => HasSeat(r.event) /\ seats[s] = seatsTaken[r.event] + 1
    /\ r.op = "leave" => seats[s] = seatsTaken[r.event] - 1

DraftInv ==
  \A s \in Sessions :
    IF pc[s] = "commit"
      THEN \E n \in Nat :
             draft[s] = <<[topic |-> Topic(req[s].op), key |-> req[s].event,
                           user |-> req[s].user, createdAt |-> n]>>
      ELSE draft[s] = <<>>

IInv ==
  /\ TypeOK
  /\ ControlInv
  /\ IdInv
  /\ LockInv
  /\ OwnerInv
  /\ MemberInv
  /\ SeatInv
  /\ DraftInv
  /\ SeatsMatchParticipants

(***************************************************************************)
(* Facts used by every step                                                *)
(***************************************************************************)
\* What the request of a busy session looks like.
LEMMA RequestOfBusy ==
  ASSUME IInv
  PROVE  \A s \in Sessions : pc[s] # "idle" =>
           /\ req[s] \in Requests
           /\ req[s].op \in Ops
           /\ req[s].event \in Events
           /\ req[s].user \in Users
           /\ req[s].cap \in Limits
  BY DEF IInv, TypeOK, ControlInv, Requests, Busy

\* Requests are not the placeholder.
LEMMA RequestsAreReal == NoReq \notin Requests
  BY NoReqAssumption DEF Requests, Ops, Limits

\* The end of a session that changes no committed row: rollbacks and refusals.
LEMMA FinishPreserves ==
  ASSUME IInv, NEW s \in Sessions, NEW a \in Answers, Finish(s, a), UNCHANGED committed
  PROVE  IInv'
  <1> USE DEF committed, Finish, Busy
  <1>1. TypeOK'
    BY DEF IInv, TypeOK, PCs
  <1>2. ControlInv'
    BY DEF IInv, TypeOK, ControlInv
  <1>3. IdInv'
    BY DEF IInv, TypeOK, IdInv, Known
  <1>4. LockInv'
    BY DEF IInv, TypeOK, LockInv, HoldsRow
  <1>5. OwnerInv'
    BY DEF IInv, TypeOK, OwnerInv, HoldsRow
  <1>6. MemberInv'
    BY DEF IInv, TypeOK, MemberInv
  <1>7. SeatInv'
    BY DEF IInv, TypeOK, SeatInv, HasSeat
  <1>8. DraftInv'
    BY DEF IInv, TypeOK, DraftInv
  <1>9. SeatsMatchParticipants'
    BY DEF IInv, SeatsMatchParticipants
  <1>10. QED
    BY <1>1, <1>2, <1>3, <1>4, <1>5, <1>6, <1>7, <1>8, <1>9 DEF IInv

\* A step that sends no request, ends none and commits none leaves the ids alone.
LEMMA IdsUnchanged ==
  ASSUME IInv, UNCHANGED <<live, outbox, req>>,
         \A t \in Sessions : Busy(t)' <=> Busy(t)
  PROVE  IdInv'
  <1>1. Known' = Known
    BY DEF Known
  <1>2. QED
    BY <1>1 DEF IInv, IdInv

\* A new request: its id is fresh for a creation, known otherwise.
LEMMA BeginPreserves ==
  ASSUME IInv, NEW s \in Sessions, NEW r \in Requests, Begin(s, r)
  PROVE  IInv'
  <1> USE DEF Begin, FirstStatement, committed, Busy, StatementsOf
  <1>1. TypeOK'
    <2>1. pc' \in [Sessions -> PCs] /\ req' \in [Sessions -> Requests \cup {NoReq}]
      BY DEF IInv, TypeOK, PCs
    <2>2. clock' \in Nat /\ stamp' \in [Sessions -> Nat]
      BY DEF IInv, TypeOK
    <2>3. sent' \in 0..MaxRequests /\ answer' \in [Sessions -> Answers]
      BY BoundAssumption DEF IInv, TypeOK, Answers
    <2>4. QED
      BY <2>1, <2>2, <2>3 DEF IInv, TypeOK
  <1>2. ControlInv'
    BY RequestsAreReal, BoundAssumption DEF IInv, TypeOK, ControlInv
  <1>3. IdInv'
    BY RequestsAreReal, BoundAssumption DEF IInv, TypeOK, ControlInv, IdInv, Known
  <1>4. LockInv'
    BY RequestsAreReal, BoundAssumption DEF IInv, TypeOK, ControlInv, IdInv, LockInv, HoldsRow
  <1>5. OwnerInv'
    BY RequestsAreReal, BoundAssumption DEF IInv, TypeOK, ControlInv, OwnerInv, LockInv, IdInv, HoldsRow
  <1>6. MemberInv'
    BY RequestsAreReal, BoundAssumption DEF IInv, TypeOK, ControlInv, MemberInv, LockInv, HoldsRow, IdInv
  <1>7. SeatInv'
    BY RequestsAreReal, BoundAssumption DEF IInv, TypeOK, ControlInv, SeatInv, LockInv, HoldsRow, IdInv, HasSeat
  <1>8. DraftInv'
    BY RequestsAreReal, BoundAssumption DEF IInv, TypeOK, ControlInv, DraftInv
  <1>9. SeatsMatchParticipants'
    BY RequestsAreReal, BoundAssumption DEF IInv, TypeOK, SeatsMatchParticipants
  <1>10. QED
    BY <1>1, <1>2, <1>3, <1>4, <1>5, <1>6, <1>7, <1>8, <1>9 DEF IInv

\* The lock goes to one transaction at a time, and only on a row that exists.
LEMMA SelectForUpdatePreserves ==
  ASSUME IInv, NEW s \in Sessions, SelectForUpdate(s)
  PROVE  IInv'
  <1> USE DEF SelectForUpdate, Goto, Lockable, LockIfLive, committed, Busy, StatementsOf
  <1>1. TypeOK'
    BY RequestOfBusy, NoSessionAssumption DEF IInv, TypeOK, PCs
  <1>2. ControlInv'
    BY RequestOfBusy, NoSessionAssumption DEF IInv, TypeOK, ControlInv
  <1>3. IdInv'
    BY RequestOfBusy, NoSessionAssumption, IdsUnchanged DEF IInv, TypeOK, PCs
  <1>4. LockInv'
    BY RequestOfBusy, NoSessionAssumption DEF IInv, TypeOK, ControlInv, IdInv, LockInv, HoldsRow
  <1>5. OwnerInv'
    BY RequestOfBusy, NoSessionAssumption DEF IInv, TypeOK, ControlInv, OwnerInv, LockInv, IdInv, HoldsRow
  <1>6. MemberInv'
    BY RequestOfBusy, NoSessionAssumption DEF IInv, TypeOK, ControlInv, MemberInv, LockInv, HoldsRow, IdInv
  <1>7. SeatInv'
    BY RequestOfBusy, NoSessionAssumption DEF IInv, TypeOK, ControlInv, SeatInv, LockInv, HoldsRow, IdInv, HasSeat
  <1>8. DraftInv'
    BY RequestOfBusy, NoSessionAssumption DEF IInv, TypeOK, ControlInv, DraftInv
  <1>9. SeatsMatchParticipants'
    BY RequestOfBusy, NoSessionAssumption DEF IInv, TypeOK, SeatsMatchParticipants
  <1>10. QED
    BY <1>1, <1>2, <1>3, <1>4, <1>5, <1>6, <1>7, <1>8, <1>9 DEF IInv

\* A row found after the locking read is a row the session has locked.
LEMMA FindEventPreserves ==
  ASSUME IInv, NEW s \in Sessions, FindEvent(s)
  PROVE  IInv'
  <1>1. CASE \E a \in Answers : Throw(s, a)
    BY <1>1, FinishPreserves DEF Throw
  <1>2. CASE /\ pc[s] = "find" /\ req[s].event \in live
             /\ ~(req[s].op = "leave" /\ author[req[s].event] = req[s].user)
             /\ Goto(s, "member") /\ UNCHANGED <<committed, rowLock, clock, seats, draft>>
    <2> USE DEF Goto, committed, Busy, StatementsOf
    <2>1. TypeOK'
      BY <1>2, RequestOfBusy, NoSessionAssumption DEF IInv, TypeOK, PCs
    <2>2. ControlInv'
      BY <1>2, RequestOfBusy, NoSessionAssumption DEF IInv, TypeOK, ControlInv
    <2>3. IdInv'
      BY <1>2, RequestOfBusy, NoSessionAssumption, IdsUnchanged DEF IInv, TypeOK, PCs
    <2>4. LockInv'
      BY <1>2, RequestOfBusy, NoSessionAssumption DEF IInv, TypeOK, ControlInv, IdInv, LockInv, HoldsRow
    <2>5. OwnerInv'
      BY <1>2, RequestOfBusy, NoSessionAssumption DEF IInv, TypeOK, ControlInv, OwnerInv, LockInv, IdInv, HoldsRow
    <2>6. MemberInv'
      BY <1>2, RequestOfBusy, NoSessionAssumption DEF IInv, TypeOK, ControlInv, MemberInv, LockInv, HoldsRow, IdInv
    <2>7. SeatInv'
      BY <1>2, RequestOfBusy, NoSessionAssumption DEF IInv, TypeOK, ControlInv, SeatInv, LockInv, HoldsRow, IdInv, HasSeat
    <2>8. DraftInv'
      BY <1>2, RequestOfBusy, NoSessionAssumption DEF IInv, TypeOK, ControlInv, DraftInv
    <2>9. SeatsMatchParticipants'
      BY <1>2, RequestOfBusy, NoSessionAssumption DEF IInv, TypeOK, SeatsMatchParticipants
    <2>10. QED
      BY <2>1, <2>2, <2>3, <2>4, <2>5, <2>6, <2>7, <2>8, <2>9 DEF IInv
  <1>3. QED
    BY <1>1, <1>2 DEF FindEvent, Answers

\* The membership seen under the lock stays as it was seen.
LEMMA ChangeMembershipPreserves ==
  ASSUME IInv, NEW s \in Sessions, ChangeMembership(s)
  PROVE  IInv'
  <1>1. CASE \E a \in Answers : Throw(s, a)
    BY <1>1, FinishPreserves DEF Throw
  <1>2. CASE /\ pc[s] = "member"
             /\ (req[s].user \in participants[req[s].event]) = (req[s].op = "leave")
             /\ Goto(s, "seat") /\ UNCHANGED <<committed, rowLock, clock, seats, draft>>
    <2> USE DEF Goto, committed, Busy, StatementsOf
    <2>1. TypeOK'
      BY <1>2, RequestOfBusy, NoSessionAssumption DEF IInv, TypeOK, PCs
    <2>2. ControlInv'
      BY <1>2, RequestOfBusy, NoSessionAssumption DEF IInv, TypeOK, ControlInv
    <2>3. IdInv'
      BY <1>2, RequestOfBusy, NoSessionAssumption, IdsUnchanged DEF IInv, TypeOK, PCs
    <2>4. LockInv'
      BY <1>2, RequestOfBusy, NoSessionAssumption DEF IInv, TypeOK, ControlInv, IdInv, LockInv, HoldsRow
    <2>5. OwnerInv'
      BY <1>2, RequestOfBusy, NoSessionAssumption DEF IInv, TypeOK, ControlInv, OwnerInv, LockInv, IdInv, HoldsRow
    <2>6. MemberInv'
      BY <1>2, RequestOfBusy, NoSessionAssumption DEF IInv, TypeOK, ControlInv, MemberInv, LockInv, HoldsRow, IdInv
    <2>7. SeatInv'
      BY <1>2, RequestOfBusy, NoSessionAssumption DEF IInv, TypeOK, ControlInv, SeatInv, LockInv, HoldsRow, IdInv, HasSeat
    <2>8. DraftInv'
      BY <1>2, RequestOfBusy, NoSessionAssumption DEF IInv, TypeOK, ControlInv, DraftInv
    <2>9. SeatsMatchParticipants'
      BY <1>2, RequestOfBusy, NoSessionAssumption DEF IInv, TypeOK, SeatsMatchParticipants
    <2>10. QED
      BY <2>1, <2>2, <2>3, <2>4, <2>5, <2>6, <2>7, <2>8, <2>9 DEF IInv
  <1>3. QED
    BY <1>1, <1>2 DEF ChangeMembership, Answers

\* A created event starts with the seat of its organiser.
LEMMA InsertEventPreserves ==
  ASSUME IInv, NEW s \in Sessions, InsertEvent(s)
  PROVE  IInv'
  <1> USE DEF InsertEvent, Goto, committed, Busy, StatementsOf
  <1>1. TypeOK'
    BY RequestOfBusy DEF IInv, TypeOK, PCs
  <1>2. ControlInv'
    BY RequestOfBusy DEF IInv, TypeOK, ControlInv
  <1>3. IdInv'
    BY RequestOfBusy DEF IInv, TypeOK, ControlInv, IdInv, Known
  <1>4. LockInv'
    BY RequestOfBusy DEF IInv, TypeOK, ControlInv, IdInv, LockInv, HoldsRow
  <1>5. OwnerInv'
    BY RequestOfBusy DEF IInv, TypeOK, ControlInv, OwnerInv, LockInv, IdInv, HoldsRow
  <1>6. MemberInv'
    BY RequestOfBusy DEF IInv, TypeOK, ControlInv, MemberInv, LockInv, HoldsRow, IdInv
  <1>7. SeatInv'
    BY RequestOfBusy DEF IInv, TypeOK, ControlInv, SeatInv, LockInv, HoldsRow, IdInv, HasSeat
  <1>8. DraftInv'
    BY RequestOfBusy DEF IInv, TypeOK, ControlInv, DraftInv
  <1>9. SeatsMatchParticipants'
    BY RequestOfBusy DEF IInv, TypeOK, SeatsMatchParticipants
  <1>10. QED
    BY <1>1, <1>2, <1>3, <1>4, <1>5, <1>6, <1>7, <1>8, <1>9 DEF IInv

\* The organiser read without a lock is still right when the write runs.
LEMMA ReadOwnerPreserves ==
  ASSUME IInv, NEW s \in Sessions, ReadOwner(s)
  PROVE  IInv'
  <1>1. CASE \E a \in Answers : Throw(s, a)
    BY <1>1, FinishPreserves DEF Throw
  <1>2. CASE /\ pc[s] = "read" /\ req[s].event \in live /\ author[req[s].event] = req[s].user
             /\ Goto(s, IF req[s].op = "remove" THEN "erase" ELSE "apply")
             /\ UNCHANGED <<committed, rowLock, clock, seats, draft>>
    <2> USE DEF Goto, committed, Busy, StatementsOf
    <2>1. TypeOK'
      BY <1>2, RequestOfBusy, NoSessionAssumption DEF IInv, TypeOK, PCs
    <2>2. ControlInv'
      BY <1>2, RequestOfBusy, NoSessionAssumption DEF IInv, TypeOK, ControlInv
    <2>3. IdInv'
      BY <1>2, RequestOfBusy, NoSessionAssumption, IdsUnchanged DEF IInv, TypeOK, PCs
    <2>4. LockInv'
      BY <1>2, RequestOfBusy, NoSessionAssumption DEF IInv, TypeOK, ControlInv, IdInv, LockInv, HoldsRow
    <2>5. OwnerInv'
      BY <1>2, RequestOfBusy, NoSessionAssumption DEF IInv, TypeOK, ControlInv, OwnerInv, LockInv, IdInv, HoldsRow
    <2>6. MemberInv'
      BY <1>2, RequestOfBusy, NoSessionAssumption DEF IInv, TypeOK, ControlInv, MemberInv, LockInv, HoldsRow, IdInv
    <2>7. SeatInv'
      BY <1>2, RequestOfBusy, NoSessionAssumption DEF IInv, TypeOK, ControlInv, SeatInv, LockInv, HoldsRow, IdInv, HasSeat
    <2>8. DraftInv'
      BY <1>2, RequestOfBusy, NoSessionAssumption DEF IInv, TypeOK, ControlInv, DraftInv
    <2>9. SeatsMatchParticipants'
      BY <1>2, RequestOfBusy, NoSessionAssumption DEF IInv, TypeOK, SeatsMatchParticipants
    <2>10. QED
      BY <2>1, <2>2, <2>3, <2>4, <2>5, <2>6, <2>7, <2>8, <2>9 DEF IInv
  <1>3. QED
    BY <1>1, <1>2 DEF ReadOwner, Answers

\* The deletion locks the row until its commit.
LEMMA DeleteEventPreserves ==
  ASSUME IInv, NEW s \in Sessions, DeleteEvent(s)
  PROVE  IInv'
  <1>1. CASE \E a \in Answers : Throw(s, a)
    BY <1>1, FinishPreserves DEF Throw
  <1>2. CASE /\ pc[s] = "erase" /\ Lockable(s, req[s].event) /\ req[s].event \in live
             /\ Goto(s, "outbox") /\ LockIfLive(s, req[s].event)
             /\ UNCHANGED <<committed, clock, seats, draft>>
    <2> USE DEF Goto, Lockable, LockIfLive, committed, Busy, StatementsOf
    <2>1. TypeOK'
      BY <1>2, RequestOfBusy, NoSessionAssumption DEF IInv, TypeOK, PCs
    <2>2. ControlInv'
      BY <1>2, RequestOfBusy, NoSessionAssumption DEF IInv, TypeOK, ControlInv
    <2>3. IdInv'
      BY <1>2, RequestOfBusy, NoSessionAssumption, IdsUnchanged DEF IInv, TypeOK, PCs
    <2>4. LockInv'
      BY <1>2, RequestOfBusy, NoSessionAssumption DEF IInv, TypeOK, ControlInv, IdInv, LockInv, HoldsRow
    <2>5. OwnerInv'
      BY <1>2, RequestOfBusy, NoSessionAssumption DEF IInv, TypeOK, ControlInv, OwnerInv, LockInv, IdInv, HoldsRow
    <2>6. MemberInv'
      BY <1>2, RequestOfBusy, NoSessionAssumption DEF IInv, TypeOK, ControlInv, MemberInv, LockInv, HoldsRow, IdInv
    <2>7. SeatInv'
      BY <1>2, RequestOfBusy, NoSessionAssumption DEF IInv, TypeOK, ControlInv, SeatInv, LockInv, HoldsRow, IdInv, HasSeat
    <2>8. DraftInv'
      BY <1>2, RequestOfBusy, NoSessionAssumption DEF IInv, TypeOK, ControlInv, DraftInv
    <2>9. SeatsMatchParticipants'
      BY <1>2, RequestOfBusy, NoSessionAssumption DEF IInv, TypeOK, SeatsMatchParticipants
    <2>10. QED
      BY <2>1, <2>2, <2>3, <2>4, <2>5, <2>6, <2>7, <2>8, <2>9 DEF IInv
  <1>3. QED
    BY <1>1, <1>2 DEF DeleteEvent, Answers

\* The drafted row tells the request.
LEMMA WriteOutboxPreserves ==
  ASSUME IInv, NEW s \in Sessions, WriteOutbox(s)
  PROVE  IInv'
  <1> DEFINE n == IF StampAt = "begin" THEN stamp[s] ELSE clock + 1
             row == [topic |-> Topic(req[s].op), key |-> req[s].event,
                     user |-> req[s].user, createdAt |-> n]
  <1> USE DEF Goto, committed, Busy, StatementsOf
  <1>a. /\ pc[s] = "outbox" /\ Goto(s, "commit")
        /\ draft' = [draft EXCEPT ![s] = <<row>>]
        /\ clock' = IF StampAt = "begin" THEN clock ELSE clock + 1
        /\ UNCHANGED <<committed, rowLock, seats>>
    BY DEF WriteOutbox
  <1>b. n \in Nat
    BY DEF IInv, TypeOK
  <1>c. Topic(req[s].op) \in Topics
    BY <1>a, RequestOfBusy DEF Topics
  <1>d. row \in Rows
    BY <1>a, <1>b, <1>c, RequestOfBusy DEF Rows
  <1>e. <<row>> \in Seq(Rows)
    BY <1>d
  <1>f. draft'[s] = <<row>> /\ pc'[s] = "commit" /\ req' = req
    BY <1>a DEF IInv, TypeOK
  <1> HIDE DEF n, row
  <1>1. TypeOK'
    BY <1>a, <1>e DEF IInv, TypeOK, PCs
  <1>2. ControlInv'
    BY <1>a, RequestOfBusy, NoSessionAssumption DEF IInv, TypeOK, ControlInv
  <1>3. IdInv'
    BY <1>a, RequestOfBusy, NoSessionAssumption, IdsUnchanged DEF IInv, TypeOK, PCs
  <1>4. LockInv'
    BY <1>a, RequestOfBusy, NoSessionAssumption DEF IInv, TypeOK, ControlInv, IdInv, LockInv, HoldsRow
  <1>5. OwnerInv'
    BY <1>a, RequestOfBusy, NoSessionAssumption DEF IInv, TypeOK, ControlInv, OwnerInv, LockInv, IdInv, HoldsRow
  <1>6. MemberInv'
    BY <1>a, RequestOfBusy, NoSessionAssumption DEF IInv, TypeOK, ControlInv, MemberInv, LockInv, HoldsRow, IdInv
  <1>7. SeatInv'
    BY <1>a, RequestOfBusy, NoSessionAssumption DEF IInv, TypeOK, ControlInv, SeatInv, LockInv, HoldsRow, IdInv, HasSeat
  <1>8. DraftInv'
    <2> SUFFICES ASSUME NEW t \in Sessions
                 PROVE  (IF pc[t] = "commit"
                           THEN \E m \in Nat : draft[t] =
                                  <<[topic |-> Topic(req[t].op), key |-> req[t].event,
                                     user |-> req[t].user, createdAt |-> m]>>
                           ELSE draft[t] = <<>>)'
      BY DEF DraftInv
    <2>1. CASE t = s
      BY <2>1, <1>b, <1>f DEF row
    <2>2. CASE t # s
      BY <2>2, <1>a DEF IInv, TypeOK, DraftInv
    <2>3. QED
      BY <2>1, <2>2
  <1>9. SeatsMatchParticipants'
    BY <1>a, RequestOfBusy, NoSessionAssumption DEF IInv, TypeOK, SeatsMatchParticipants
  <1>10. QED
    BY <1>1, <1>2, <1>3, <1>4, <1>5, <1>6, <1>7, <1>8, <1>9 DEF IInv

\* The members of an event form a finite set, counted by seatsTaken if it exists.
LEMMA Counting ==
  ASSUME IInv, NEW e \in Events
  PROVE  /\ IsFiniteSet(participants[e])
         /\ Cardinality(participants[e]) \in Nat
         /\ participants[e] # {} => Cardinality(participants[e]) > 0
         /\ \A u \in Users \ participants[e] :
              Cardinality(participants[e] \cup {u}) = Cardinality(participants[e]) + 1
         /\ \A u \in participants[e] :
              Cardinality(participants[e] \ {u}) = Cardinality(participants[e]) - 1
  <1>1. participants[e] \subseteq Users
    BY DEF IInv, TypeOK
  <1>2. IsFiniteSet(participants[e])
    BY <1>1, UsersAssumption, FS_Subset
  <1>3. Cardinality(participants[e]) \in Nat
    BY <1>2, FS_CardinalityType
  <1>4. participants[e] # {} => Cardinality(participants[e]) > 0
    BY <1>2, <1>3, FS_EmptySet
  <1>5. ASSUME NEW u \in Users \ participants[e]
        PROVE  Cardinality(participants[e] \cup {u}) = Cardinality(participants[e]) + 1
    BY <1>2, FS_AddElement
  <1>6. ASSUME NEW u \in participants[e]
        PROVE  Cardinality(participants[e] \ {u}) = Cardinality(participants[e]) - 1
    BY <1>2, FS_RemoveElement
  <1>7. QED
    BY <1>2, <1>3, <1>4, <1>5, <1>6

\* The seat counted under the lock is the seat the commit will write.
LEMMA TakeSeatPreserves ==
  ASSUME IInv, NEW s \in Sessions, TakeSeat(s)
  PROVE  IInv'
  <1> DEFINE e == req[s].event
  <1>1. CASE \E a \in Answers : Throw(s, a)
    BY <1>1, FinishPreserves DEF Throw
  <1>2. CASE /\ pc[s] = "seat" /\ Lockable(s, e)
             /\ req[s].op = "join" => HasSeat(e)
             /\ Goto(s, "outbox") /\ LockIfLive(s, e)
             /\ seats' = [seats EXCEPT ![s] =
                  IF req[s].op = "join" THEN seatsTaken[e] + 1
                  ELSE IF seatsTaken[e] > 0 THEN seatsTaken[e] - 1 ELSE 0]
             /\ UNCHANGED <<committed, clock, draft>>
    <2> USE DEF Goto, Lockable, LockIfLive, committed, Busy, StatementsOf
    <2>1. TypeOK'
      BY <1>2, RequestOfBusy, NoSessionAssumption DEF IInv, TypeOK, PCs
    <2>2. ControlInv'
      BY <1>2, RequestOfBusy, NoSessionAssumption DEF IInv, TypeOK, ControlInv
    <2>3. IdInv'
      BY <1>2, RequestOfBusy, NoSessionAssumption, IdsUnchanged DEF IInv, TypeOK, PCs
    <2>4. LockInv'
      BY <1>2, RequestOfBusy, NoSessionAssumption DEF IInv, TypeOK, ControlInv, IdInv, LockInv, HoldsRow
    <2>5. OwnerInv'
      BY <1>2, RequestOfBusy, NoSessionAssumption DEF IInv, TypeOK, ControlInv, OwnerInv, LockInv, IdInv, HoldsRow
    <2>6. MemberInv'
      BY <1>2, RequestOfBusy, NoSessionAssumption DEF IInv, TypeOK, ControlInv, MemberInv, LockInv, HoldsRow, IdInv
    <2>a. /\ e \in Events /\ e \in live /\ seatsTaken[e] \in Nat
          /\ req[s].op = "leave" => seatsTaken[e] > 0
      BY <1>2, RequestOfBusy, Counting
      DEF IInv, TypeOK, LockInv, HoldsRow, MemberInv, SeatsMatchParticipants
    <2>7. SeatInv'
      BY <1>2, <2>a, RequestOfBusy, NoSessionAssumption DEF IInv, TypeOK, ControlInv, SeatInv, LockInv, HoldsRow, IdInv, HasSeat
    <2>8. DraftInv'
      BY <1>2, RequestOfBusy, NoSessionAssumption DEF IInv, TypeOK, ControlInv, DraftInv
    <2>9. SeatsMatchParticipants'
      BY <1>2, RequestOfBusy, NoSessionAssumption DEF IInv, TypeOK, SeatsMatchParticipants
    <2>10. QED
      BY <2>1, <2>2, <2>3, <2>4, <2>5, <2>6, <2>7, <2>8, <2>9 DEF IInv
  <1>3. QED
    BY <1>1, <1>2 DEF TakeSeat, Answers

\* update waits for the row lock, so it never changes the limit under a join.
LEMMA UpdateEventPreserves ==
  ASSUME IInv, NEW s \in Sessions, UpdateEvent(s)
  PROVE  IInv'
  <1>1. CASE \E a \in Answers : Throw(s, a)
    BY <1>1, FinishPreserves DEF Throw
  <1>2. CASE /\ pc[s] = "apply" /\ Lockable(s, req[s].event) /\ req[s].event \in live
             /\ capacity' = [capacity EXCEPT ![req[s].event] = req[s].cap]
             /\ UNCHANGED <<live, author, seatsTaken, participants, outbox>>
             /\ \E a \in {"ok", "error"} : Finish(s, a)
    <2> USE DEF Finish, Lockable, Busy, StatementsOf, Answers
    <2>1. TypeOK'
      BY <1>2, RequestOfBusy, NoSessionAssumption DEF IInv, TypeOK, PCs
    <2>2. ControlInv'
      BY <1>2, RequestOfBusy, NoSessionAssumption DEF IInv, TypeOK, ControlInv
    <2>3. IdInv'
      BY <1>2, RequestOfBusy DEF IInv, TypeOK, IdInv, Known
    <2>4. LockInv'
      BY <1>2, RequestOfBusy, NoSessionAssumption DEF IInv, TypeOK, ControlInv, IdInv, LockInv, HoldsRow
    <2>5. OwnerInv'
      BY <1>2, RequestOfBusy, NoSessionAssumption DEF IInv, TypeOK, ControlInv, OwnerInv, LockInv, IdInv, HoldsRow
    <2>6. MemberInv'
      BY <1>2, RequestOfBusy, NoSessionAssumption DEF IInv, TypeOK, ControlInv, MemberInv, LockInv, HoldsRow, IdInv
    <2>7. SeatInv'
      BY <1>2, RequestOfBusy, NoSessionAssumption DEF IInv, TypeOK, ControlInv, SeatInv, LockInv, HoldsRow, IdInv, HasSeat
    <2>8. DraftInv'
      BY <1>2 DEF IInv, TypeOK, DraftInv
    <2>9. SeatsMatchParticipants'
      BY <1>2, RequestOfBusy, NoSessionAssumption DEF IInv, TypeOK, SeatsMatchParticipants
    <2>10. QED
      BY <2>1, <2>2, <2>3, <2>4, <2>5, <2>6, <2>7, <2>8, <2>9 DEF IInv
  <1>3. QED
    BY <1>1, <1>2 DEF UpdateEvent, Answers

\* What a commit adds to the outbox.
LEMMA KnownAfterCommit ==
  ASSUME IInv, NEW s \in Sessions, pc[s] = "commit", outbox' = outbox \o draft[s]
  PROVE  /\ Known' = Known \cup {req[s].event}
         /\ outbox' \in Seq(Rows)
  <1>1. PICK n \in Nat :
          draft[s] = <<[topic |-> Topic(req[s].op), key |-> req[s].event,
                        user |-> req[s].user, createdAt |-> n]>>
    BY DEF IInv, DraftInv
  <1>2. outbox \in Seq(Rows) /\ draft[s] \in Seq(Rows)
    BY DEF IInv, TypeOK
  <1>3. /\ Len(draft[s]) = 1 /\ draft[s][1].key = req[s].event
    BY <1>1
  <1>4. /\ Len(outbox') = Len(outbox) + 1
        /\ \A i \in 1..Len(outbox) : outbox'[i] = outbox[i]
        /\ outbox'[Len(outbox) + 1].key = req[s].event
    BY <1>2, <1>3
  <1>5. outbox' \in Seq(Rows)
    BY <1>2
  <1>6. /\ DOMAIN outbox = 1..Len(outbox) /\ DOMAIN outbox' = 1..(Len(outbox) + 1)
        /\ Len(outbox) \in Nat
    BY <1>2, <1>4, <1>5
  <1>7. Known' = Known \cup {req[s].event}
    <2>1. ASSUME NEW k \in Known' PROVE k \in Known \cup {req[s].event}
      <3>1. PICK i \in DOMAIN outbox' : k = outbox'[i].key
        BY <2>1 DEF Known
      <3>2. CASE i = Len(outbox) + 1
        BY <3>1, <3>2, <1>4
      <3>3. CASE i # Len(outbox) + 1
        BY <3>1, <3>3, <1>4, <1>6 DEF Known
      <3>4. QED
        BY <3>2, <3>3
    <2>2. ASSUME NEW k \in Known PROVE k \in Known'
      BY <1>4, <1>6 DEF Known
    <2>3. req[s].event \in Known'
      <3>1. Len(outbox) + 1 \in DOMAIN outbox'
        BY <1>6
      <3>2. QED
        BY <3>1, <1>4 DEF Known
    <2>4. QED
      BY <2>1, <2>2, <2>3
  <1>8. QED
    BY <1>5, <1>7

\* A created event has one member, its organiser.
LEMMA CommitCreatePreserves ==
  ASSUME IInv, NEW s \in Sessions, CommitCreate(s)
  PROVE  IInv'
  <1> DEFINE e == req[s].event
             u == req[s].user
  <1> USE DEF Commit, CommitCreate
  <1>a. /\ e \in Events /\ u \in Users /\ req[s].cap \in Limits
        /\ pc[s] = "commit" /\ req[s].op = "create"
    BY RequestOfBusy
  <1>b. Known' = Known \cup {e} /\ outbox' \in Seq(Rows)
    BY <1>a, KnownAfterCommit
  <1>c. \A t \in Sessions \ {s} : pc[t] # "idle" => req[t].event # e
    BY <1>a DEF IInv, IdInv, Busy
  <1> USE DEF Finish, Busy, StatementsOf
  <1>1. TypeOK'
    BY <1>a, <1>b DEF IInv, TypeOK, PCs, Answers
  <1>2. ControlInv'
    BY <1>a, <1>b, <1>c, RequestOfBusy, NoSessionAssumption DEF IInv, TypeOK, ControlInv
  <1>3. IdInv'
    BY <1>a, <1>b, <1>c, RequestOfBusy DEF IInv, TypeOK, IdInv
  <1>4. LockInv'
    BY <1>a, <1>b, <1>c, RequestOfBusy, NoSessionAssumption DEF IInv, TypeOK, ControlInv, IdInv, LockInv, HoldsRow
  <1>5. OwnerInv'
    BY <1>a, <1>b, <1>c, RequestOfBusy, NoSessionAssumption DEF IInv, TypeOK, ControlInv, OwnerInv, LockInv, IdInv, HoldsRow
  <1>6. MemberInv'
    BY <1>a, <1>b, <1>c, RequestOfBusy, NoSessionAssumption DEF IInv, TypeOK, ControlInv, MemberInv, LockInv, HoldsRow, IdInv
  <1>7. SeatInv'
    BY <1>a, <1>b, <1>c, RequestOfBusy DEF IInv, TypeOK, SeatInv, HoldsRow, HasSeat
  <1>8. DraftInv'
    BY <1>a DEF IInv, TypeOK, DraftInv
  <1>9. SeatsMatchParticipants'
    <2>1. seatsTaken'[e] = 1 /\ participants'[e] = {u} /\ Cardinality({u}) = 1
      BY <1>a, FS_Singleton DEF IInv, TypeOK, SeatInv, MemberInv
    <2>2. \A d \in Events \ {e} : /\ seatsTaken'[d] = seatsTaken[d]
                               /\ participants'[d] = participants[d]
                               /\ d \in live' <=> d \in live
      BY <1>a DEF IInv, TypeOK
    <2>3. e \in live' => seatsTaken'[e] = Cardinality(participants'[e])
      BY <2>1, <1>a, <1>c, Counting DEF IInv, SeatsMatchParticipants
    <2>4. live' \subseteq Events
      BY <1>1 DEF TypeOK
    <2>5. QED
      BY <2>2, <2>3, <2>4 DEF IInv, SeatsMatchParticipants
  <1>10. QED
    BY <1>1, <1>2, <1>3, <1>4, <1>5, <1>6, <1>7, <1>8, <1>9 DEF IInv

\* The joining member is new and is counted once.
LEMMA CommitJoinPreserves ==
  ASSUME IInv, NEW s \in Sessions, CommitJoin(s)
  PROVE  IInv'
  <1> DEFINE e == req[s].event
             u == req[s].user
  <1> USE DEF Commit, CommitJoin
  <1>a. /\ e \in Events /\ u \in Users /\ req[s].cap \in Limits
        /\ pc[s] = "commit" /\ req[s].op = "join"
    BY RequestOfBusy
  <1>b. Known' = Known \cup {e} /\ outbox' \in Seq(Rows)
    BY <1>a, KnownAfterCommit
  <1>c. /\ e \in live /\ rowLock[e] = s
        /\ \A t \in Sessions \ {s} : HoldsRow(t) => req[t].event # e
    BY <1>a DEF IInv, LockInv, HoldsRow
  <1> USE DEF Finish, Busy, StatementsOf
  <1>1. TypeOK'
    BY <1>a, <1>b DEF IInv, TypeOK, PCs, Answers
  <1>2. ControlInv'
    BY <1>a, <1>b, <1>c, RequestOfBusy, NoSessionAssumption DEF IInv, TypeOK, ControlInv
  <1>3. IdInv'
    BY <1>a, <1>b, <1>c, RequestOfBusy DEF IInv, TypeOK, IdInv
  <1>4. LockInv'
    BY <1>a, <1>b, <1>c, RequestOfBusy, NoSessionAssumption DEF IInv, TypeOK, ControlInv, IdInv, LockInv, HoldsRow
  <1>5. OwnerInv'
    BY <1>a, <1>b, <1>c, RequestOfBusy, NoSessionAssumption DEF IInv, TypeOK, ControlInv, OwnerInv, LockInv, IdInv, HoldsRow
  <1>6. MemberInv'
    BY <1>a, <1>b, <1>c, RequestOfBusy, NoSessionAssumption DEF IInv, TypeOK, ControlInv, MemberInv, LockInv, HoldsRow, IdInv
  <1>7. SeatInv'
    BY <1>a, <1>b, <1>c, RequestOfBusy DEF IInv, TypeOK, SeatInv, HoldsRow, HasSeat
  <1>8. DraftInv'
    BY <1>a DEF IInv, TypeOK, DraftInv
  <1>9. SeatsMatchParticipants'
    <2>1. /\ seatsTaken'[e] = seatsTaken[e] + 1 /\ participants'[e] = participants[e] \cup {u}
          /\ u \in Users \ participants[e]
      BY <1>a, FS_Singleton DEF IInv, TypeOK, SeatInv, MemberInv
    <2>2. \A d \in Events \ {e} : /\ seatsTaken'[d] = seatsTaken[d]
                               /\ participants'[d] = participants[d]
                               /\ d \in live' <=> d \in live
      BY <1>a DEF IInv, TypeOK
    <2>3. e \in live' => seatsTaken'[e] = Cardinality(participants'[e])
      <3>1. seatsTaken[e] = Cardinality(participants[e])
        BY <1>c DEF IInv, SeatsMatchParticipants
      <3>2. Cardinality(participants[e] \cup {u}) = Cardinality(participants[e]) + 1
        BY <1>a, <2>1, Counting
      <3>3. QED
        BY <2>1, <3>1, <3>2
    <2>4. live' \subseteq Events
      BY <1>1 DEF TypeOK
    <2>5. QED
      BY <2>2, <2>3, <2>4 DEF IInv, SeatsMatchParticipants
  <1>10. QED
    BY <1>1, <1>2, <1>3, <1>4, <1>5, <1>6, <1>7, <1>8, <1>9 DEF IInv

\* The leaving member was there and is subtracted once.
LEMMA CommitLeavePreserves ==
  ASSUME IInv, NEW s \in Sessions, CommitLeave(s)
  PROVE  IInv'
  <1> DEFINE e == req[s].event
             u == req[s].user
  <1> USE DEF Commit, CommitLeave
  <1>a. /\ e \in Events /\ u \in Users /\ req[s].cap \in Limits
        /\ pc[s] = "commit" /\ req[s].op = "leave"
    BY RequestOfBusy
  <1>b. Known' = Known \cup {e} /\ outbox' \in Seq(Rows)
    BY <1>a, KnownAfterCommit
  <1>c. /\ e \in live /\ rowLock[e] = s
        /\ \A t \in Sessions \ {s} : HoldsRow(t) => req[t].event # e
    BY <1>a DEF IInv, LockInv, HoldsRow
  <1> USE DEF Finish, Busy, StatementsOf
  <1>1. TypeOK'
    BY <1>a, <1>b DEF IInv, TypeOK, PCs, Answers
  <1>2. ControlInv'
    BY <1>a, <1>b, <1>c, RequestOfBusy, NoSessionAssumption DEF IInv, TypeOK, ControlInv
  <1>3. IdInv'
    BY <1>a, <1>b, <1>c, RequestOfBusy DEF IInv, TypeOK, IdInv
  <1>4. LockInv'
    BY <1>a, <1>b, <1>c, RequestOfBusy, NoSessionAssumption DEF IInv, TypeOK, ControlInv, IdInv, LockInv, HoldsRow
  <1>5. OwnerInv'
    BY <1>a, <1>b, <1>c, RequestOfBusy, NoSessionAssumption DEF IInv, TypeOK, ControlInv, OwnerInv, LockInv, IdInv, HoldsRow
  <1>6. MemberInv'
    BY <1>a, <1>b, <1>c, RequestOfBusy, NoSessionAssumption DEF IInv, TypeOK, ControlInv, MemberInv, LockInv, HoldsRow, IdInv
  <1>7. SeatInv'
    BY <1>a, <1>b, <1>c, RequestOfBusy DEF IInv, TypeOK, SeatInv, HoldsRow, HasSeat
  <1>8. DraftInv'
    BY <1>a DEF IInv, TypeOK, DraftInv
  <1>9. SeatsMatchParticipants'
    <2>1. /\ seatsTaken'[e] = seatsTaken[e] - 1 /\ participants'[e] = participants[e] \ {u}
          /\ u \in participants[e]
      BY <1>a, FS_Singleton DEF IInv, TypeOK, SeatInv, MemberInv
    <2>2. \A d \in Events \ {e} : /\ seatsTaken'[d] = seatsTaken[d]
                               /\ participants'[d] = participants[d]
                               /\ d \in live' <=> d \in live
      BY <1>a DEF IInv, TypeOK
    <2>3. e \in live' => seatsTaken'[e] = Cardinality(participants'[e])
      <3>1. seatsTaken[e] = Cardinality(participants[e])
        BY <1>c DEF IInv, SeatsMatchParticipants
      <3>2. Cardinality(participants[e] \ {u}) = Cardinality(participants[e]) - 1
        BY <1>a, <2>1, Counting
      <3>3. QED
        BY <2>1, <3>1, <3>2
    <2>4. live' \subseteq Events
      BY <1>1 DEF TypeOK
    <2>5. QED
      BY <2>2, <2>3, <2>4 DEF IInv, SeatsMatchParticipants
  <1>10. QED
    BY <1>1, <1>2, <1>3, <1>4, <1>5, <1>6, <1>7, <1>8, <1>9 DEF IInv

\* Nobody else is at work on a row that is deleted.
LEMMA CommitRemovePreserves ==
  ASSUME IInv, NEW s \in Sessions, CommitRemove(s)
  PROVE  IInv'
  <1> DEFINE e == req[s].event
             u == req[s].user
  <1> USE DEF Commit, CommitRemove
  <1>a. /\ e \in Events /\ u \in Users /\ req[s].cap \in Limits
        /\ pc[s] = "commit" /\ req[s].op = "remove"
    BY RequestOfBusy
  <1>b. Known' = Known \cup {e} /\ outbox' \in Seq(Rows)
    BY <1>a, KnownAfterCommit
  <1>c. /\ e \in live /\ rowLock[e] = s
        /\ \A t \in Sessions \ {s} : HoldsRow(t) => req[t].event # e
    BY <1>a DEF IInv, LockInv, HoldsRow
  <1> USE DEF Finish, Busy, StatementsOf
  <1>1. TypeOK'
    BY <1>a, <1>b DEF IInv, TypeOK, PCs, Answers, Limits
  <1>2. ControlInv'
    BY <1>a, <1>b, <1>c, RequestOfBusy, NoSessionAssumption DEF IInv, TypeOK, ControlInv
  <1>3. IdInv'
    BY <1>a, <1>b, <1>c, RequestOfBusy DEF IInv, TypeOK, IdInv
  <1>4. LockInv'
    BY <1>a, <1>b, <1>c, RequestOfBusy, NoSessionAssumption DEF IInv, TypeOK, ControlInv, IdInv, LockInv, HoldsRow
  <1>5. OwnerInv'
    BY <1>a, <1>b, <1>c, RequestOfBusy, NoSessionAssumption DEF IInv, TypeOK, ControlInv, OwnerInv, LockInv, IdInv, HoldsRow
  <1>6. MemberInv'
    BY <1>a, <1>b, <1>c, RequestOfBusy, NoSessionAssumption DEF IInv, TypeOK, ControlInv, MemberInv, LockInv, HoldsRow, IdInv
  <1>7. SeatInv'
    BY <1>a, <1>b, <1>c, RequestOfBusy DEF IInv, TypeOK, SeatInv, HoldsRow, HasSeat
  <1>8. DraftInv'
    BY <1>a DEF IInv, TypeOK, DraftInv
  <1>9. SeatsMatchParticipants'
    <2>1. e \notin live'
      BY <1>a, FS_Singleton DEF IInv, TypeOK, SeatInv, MemberInv
    <2>2. \A d \in Events \ {e} : /\ seatsTaken'[d] = seatsTaken[d]
                               /\ participants'[d] = participants[d]
                               /\ d \in live' <=> d \in live
      BY <1>a DEF IInv, TypeOK
    <2>3. e \in live' => seatsTaken'[e] = Cardinality(participants'[e])
      BY <2>1, <1>a, <1>c, Counting DEF IInv, SeatsMatchParticipants
    <2>4. live' \subseteq Events
      BY <1>1 DEF TypeOK
    <2>5. QED
      BY <2>2, <2>3, <2>4 DEF IInv, SeatsMatchParticipants
  <1>10. QED
    BY <1>1, <1>2, <1>3, <1>4, <1>5, <1>6, <1>7, <1>8, <1>9 DEF IInv

(***************************************************************************)
(* The invariant, type correctness and the seat counter                    *)
(***************************************************************************)
LEMMA InitEstablishes == Init => IInv
  <1> SUFFICES ASSUME Init
               PROVE  IInv
    OBVIOUS
  <1> USE DEF Init
  <1>1. TypeOK
    BY BoundAssumption DEF TypeOK, Limits, PCs, Answers
  <1>2. ControlInv /\ IdInv /\ LockInv /\ OwnerInv /\ MemberInv /\ SeatInv /\ DraftInv
    BY DEF ControlInv, IdInv, LockInv, OwnerInv, MemberInv, SeatInv, DraftInv, Busy, HoldsRow
  <1>3. SeatsMatchParticipants
    BY DEF SeatsMatchParticipants
  <1>4. QED
    BY <1>1, <1>2, <1>3 DEF IInv

LEMMA NextPreserves ==
  ASSUME IInv, [Next]_vars
  PROVE  IInv'
  <1>1. CASE Next
    <2> SUFFICES ASSUME NEW s \in Sessions,
                        (\E r \in Requests : Begin(s, r)) \/ Step(s) \/ Abort(s)
                 PROVE  IInv'
      BY <1>1 DEF Next
    <2>1. CASE \E r \in Requests : Begin(s, r)
      BY <2>1, BeginPreserves
    <2>2. CASE Step(s)
      BY <2>2, SelectForUpdatePreserves, FindEventPreserves, ChangeMembershipPreserves,
         TakeSeatPreserves, InsertEventPreserves, ReadOwnerPreserves,
         DeleteEventPreserves, UpdateEventPreserves, WriteOutboxPreserves,
         CommitCreatePreserves, CommitJoinPreserves, CommitLeavePreserves,
         CommitRemovePreserves
      DEF Step
    <2>3. CASE Abort(s)
      BY <2>3, FinishPreserves DEF Abort, Answers
    <2>4. QED
      BY <2>1, <2>2, <2>3
  <1>2. CASE UNCHANGED vars
    <2> USE <1>2 DEF vars, committed, local
    <2>1. TypeOK'
      BY DEF IInv, TypeOK
    <2>2. ControlInv' /\ IdInv'
      BY DEF IInv, ControlInv, IdInv, Busy, Known
    <2>3. LockInv' /\ OwnerInv'
      BY DEF IInv, LockInv, OwnerInv, HoldsRow
    <2>4. MemberInv' /\ SeatInv' /\ DraftInv'
      BY DEF IInv, MemberInv, SeatInv, HasSeat, DraftInv
    <2>5. SeatsMatchParticipants'
      BY DEF IInv, SeatsMatchParticipants
    <2>6. QED
      BY <2>1, <2>2, <2>3, <2>4, <2>5 DEF IInv
  <1>3. QED
    BY <1>1, <1>2

\* The inductive invariant holds in every reachable state.
THEOREM Invariance == Spec => []IInv
  BY InitEstablishes, NextPreserves, PTL DEF Spec

\* Every variable keeps its type, whatever the interleaving of the statements.
THEOREM TypeCorrect == Spec => []TypeOK
  <1>1. IInv => TypeOK
    BY DEF IInv
  <1>2. QED
    BY <1>1, Invariance, PTL

\* Event.seatsTaken never drifts from the rows of EventParticipant.
THEOREM SeatsNeverDrift == Spec => []SeatsMatchParticipants
  <1>1. IInv => SeatsMatchParticipants
    BY DEF IInv
  <1>2. QED
    BY <1>1, Invariance, PTL

(***************************************************************************)
(* No join above the limit                                                 *)
(***************************************************************************)
\* What JoinWithinCapacity asks of one step.
JoinFits ==
  \A e \in live \cap live' : \A u \in participants'[e] \ participants[e] :
    capacity'[e] # NoCap => Cardinality(participants'[e]) <= capacity'[e]

\* Only the commit of a join adds a member to an existing event.
LEMMA OnlyJoinsAdd ==
  ASSUME IInv, NEW s \in Sessions, (\E r \in Requests : Begin(s, r)) \/ Step(s) \/ Abort(s)
  PROVE  \/ \A e \in live \cap live' : participants'[e] \subseteq participants[e]
         \/ CommitJoin(s)
  <1>1. CASE UNCHANGED participants
    BY <1>1
  <1>2. CASE CommitCreate(s)
    <2>1. /\ req[s].event \notin live
          /\ participants' = [participants EXCEPT ![req[s].event] = {req[s].user}]
      BY <1>2, RequestOfBusy DEF IInv, IdInv, Busy, CommitCreate, Commit
    <2>2. QED
      BY <2>1 DEF IInv, TypeOK
  <1>3. CASE CommitLeave(s)
    BY <1>3 DEF CommitLeave, IInv, TypeOK
  <1>4. CASE CommitRemove(s)
    BY <1>4 DEF CommitRemove, IInv, TypeOK
  <1>5. QED
    BY <1>1, <1>2, <1>3, <1>4
    DEF Begin, Step, Abort, SelectForUpdate, FindEvent, ChangeMembership, TakeSeat,
        InsertEvent, ReadOwner, DeleteEvent, UpdateEvent, WriteOutbox, Throw, committed

LEMMA JoinFitsStep ==
  ASSUME IInv, IInv', NEW s \in Sessions, CommitJoin(s)
  PROVE  JoinFits
  <1> DEFINE e == req[s].event
  <1>1. /\ pc[s] = "commit" /\ req[s].op = "join" /\ e \in Events
        /\ UNCHANGED <<live, capacity>>
        /\ seatsTaken' = [seatsTaken EXCEPT ![e] = seats[s]]
        /\ participants' = [participants EXCEPT ![e] = @ \cup {req[s].user}]
    BY RequestOfBusy DEF CommitJoin, Commit
  <1>2. HasSeat(e) /\ seatsTaken'[e] = seatsTaken[e] + 1 /\ seatsTaken[e] \in Nat
    BY <1>1 DEF IInv, TypeOK, SeatInv
  <1>3. capacity'[e] # NoCap => capacity'[e] \in Nat /\ seatsTaken'[e] <= capacity'[e]
    <2>1. capacity'[e] = capacity[e] /\ capacity[e] \in Capacities \cup {NoCap}
      BY <1>1 DEF IInv, TypeOK, Limits
    <2>2. capacity[e] # NoCap => capacity[e] \in Nat
      BY <2>1, CapacityAssumption
    <2>3. QED
      BY <1>2, <2>1, <2>2 DEF HasSeat
  <1>4. e \in live' => seatsTaken'[e] = Cardinality(participants'[e])
    BY DEF IInv, SeatsMatchParticipants
  <1>5. \A d \in Events \ {e} : participants'[d] = participants[d]
    BY <1>1 DEF IInv, TypeOK
  <1>6. live \subseteq Events
    BY DEF IInv, TypeOK
  <1>7. QED
    BY <1>3, <1>4, <1>5, <1>6 DEF JoinFits

\* A join never commits beyond the limit in force at its commit: the conditional
\* increment is still true there because update waits for the row lock.
THEOREM JoinsStayWithinCapacity == Spec => JoinWithinCapacity
  <1>1. ASSUME IInv, IInv', [Next]_vars
        PROVE  [JoinFits]_vars
    <2>1. CASE UNCHANGED vars
      BY <2>1
    <2>2. CASE Next
      <3>1. PICK s \in Sessions : (\E r \in Requests : Begin(s, r)) \/ Step(s) \/ Abort(s)
        BY <2>2 DEF Next
      <3>2. CASE CommitJoin(s)
        BY <1>1, <3>2, JoinFitsStep
      <3>3. CASE \A e \in live \cap live' : participants'[e] \subseteq participants[e]
        BY <3>3 DEF JoinFits
      <3>4. QED
        BY <1>1, <3>1, <3>2, <3>3, OnlyJoinsAdd
    <2>3. QED
      BY <1>1, <2>1, <2>2
  <1>2. QED
    BY <1>1, Invariance, PTL DEF Spec, JoinWithinCapacity, JoinFits

(***************************************************************************)
(* What a commit does to the outbox, and nothing else does                 *)
(***************************************************************************)
\* Two transactions at their last statements work on different events.
LEMMA CommitsAreApart ==
  ASSUME IInv, NEW s \in Sessions, NEW t \in Sessions, s # t,
         pc[s] = "commit", pc[t] \in {"outbox", "commit"}
  PROVE  req[t].event # req[s].event
  <1>1. CASE req[s].op = "create" \/ req[t].op = "create"
    BY <1>1 DEF IInv, IdInv, Busy
  <1>2. CASE req[s].op # "create" /\ req[t].op # "create"
    BY <1>2 DEF IInv, LockInv, HoldsRow
  <1>3. QED
    BY <1>1, <1>2

\* Appending a sequence of one element.
LEMMA AppendOne ==
  ASSUME NEW S, NEW q \in Seq(S), NEW d \in Seq(S), Len(d) = 1
  PROVE  /\ q \o d \in Seq(S)
         /\ Len(q \o d) = Len(q) + 1
         /\ \A i \in 1..Len(q) : (q \o d)[i] = q[i]
         /\ (q \o d)[Len(q) + 1] = d[1]
  <1>1. Len(q) \in Nat
    OBVIOUS
  <1>2. QED
    BY <1>1, ConcatProperties

\* A commit appends the one row of its request.
LEMMA CommitAppends ==
  ASSUME IInv, NEW s \in Sessions, pc[s] = "commit", outbox' = outbox \o draft[s]
  PROVE  /\ Len(outbox) \in Nat
         /\ DOMAIN outbox = 1..Len(outbox)
         /\ DOMAIN outbox' = 1..Len(outbox) + 1
         /\ \A i \in DOMAIN outbox : outbox'[i] = outbox[i]
         /\ outbox'[Len(outbox) + 1] = draft[s][1]
         /\ draft[s][1].topic = Topic(req[s].op)
         /\ draft[s][1].key = req[s].event
         /\ draft[s][1].user = req[s].user
         /\ draft[s][1].createdAt \in Nat
  <1>1. PICK n \in Nat :
          draft[s] = <<[topic |-> Topic(req[s].op), key |-> req[s].event,
                        user |-> req[s].user, createdAt |-> n]>>
    BY DEF IInv, DraftInv
  <1>2. outbox \in Seq(Rows) /\ draft[s] \in Seq(Rows)
    BY DEF IInv, TypeOK
  <1>3. /\ Len(draft[s]) = 1
        /\ draft[s][1] = [topic |-> Topic(req[s].op), key |-> req[s].event,
                          user |-> req[s].user, createdAt |-> n]
    BY <1>1
  <1>4. /\ Len(outbox) \in Nat
        /\ DOMAIN outbox = 1..Len(outbox)
    BY <1>2
  <1>5. outbox' \in Seq(Rows) /\ Len(outbox') = Len(outbox) + 1
    BY <1>2, <1>3, AppendOne
  <1>6. /\ \A i \in 1..Len(outbox) : outbox'[i] = outbox[i]
        /\ outbox'[Len(outbox) + 1] = draft[s][1]
    BY <1>2, <1>3, AppendOne
  <1>7. QED
    BY <1>3, <1>4, <1>5, <1>6

\* A step either commits, or leaves what is committed about membership alone.
LEMMA StepsOfOutbox ==
  ASSUME IInv, NEW s \in Sessions, (\E r \in Requests : Begin(s, r)) \/ Step(s) \/ Abort(s)
  PROVE  \/ UNCHANGED <<live, participants, outbox>>
         \/ CommitCreate(s) \/ CommitJoin(s) \/ CommitLeave(s) \/ CommitRemove(s)
  BY DEF Begin, Step, Abort, SelectForUpdate, FindEvent, ChangeMembership, TakeSeat,
         InsertEvent, ReadOwner, DeleteEvent, UpdateEvent, WriteOutbox, Throw, committed

(***************************************************************************)
(* Timestamps                                                              *)
(***************************************************************************)
\* The last row of a transaction is younger than all that is committed about
\* its event, and stays so: nobody else writes about the event before it commits.
OrderInv ==
  /\ \A i \in DOMAIN outbox : outbox[i].createdAt <= clock
  /\ \A s \in Sessions : pc[s] = "commit" =>
       /\ draft[s][1].createdAt <= clock
       /\ \A i \in DOMAIN outbox : outbox[i].key = req[s].event =>
            outbox[i].createdAt < draft[s][1].createdAt
  /\ OutboxInCommitOrder

\* The stamps of committed rows are numbers.
LEMMA StampsAreNumbers ==
  ASSUME IInv
  PROVE  /\ clock \in Nat
         /\ \A i \in DOMAIN outbox : outbox[i].createdAt \in Nat
         /\ \A t \in Sessions : pc[t] = "commit" => draft[t][1].createdAt \in Nat
  <1>1. clock \in Nat /\ outbox \in Seq(Rows)
    BY DEF IInv, TypeOK
  <1>2. \A i \in DOMAIN outbox : outbox[i] \in Rows
    BY <1>1
  <1>3. ASSUME NEW t \in Sessions, pc[t] = "commit"
        PROVE  draft[t][1].createdAt \in Nat
    <2>1. PICK m \in Nat :
            draft[t] = <<[topic |-> Topic(req[t].op), key |-> req[t].event,
                          user |-> req[t].user, createdAt |-> m]>>
      BY <1>3 DEF IInv, DraftInv
    <2>2. QED
      BY <2>1
  <1>4. QED
    BY <1>1, <1>2, <1>3 DEF Rows

\* Steps that neither draft nor commit a row
LEMMA QuietKeepsOrder ==
  ASSUME IInv, IInv', OrderInv, outbox' = outbox, clock' \in {clock, clock + 1},
         \A t \in Sessions : pc'[t] = "commit" =>
           pc[t] = "commit" /\ draft'[t] = draft[t] /\ req'[t] = req[t]
  PROVE  OrderInv'
  BY StampsAreNumbers DEF OrderInv, OutboxInCommitOrder

\* The drafted row takes the next tick of the clock.
LEMMA WriteOutboxKeepsOrder ==
  ASSUME IInv, IInv', OrderInv, StampAt = "create", NEW s \in Sessions, WriteOutbox(s)
  PROVE  OrderInv'
  <1>1. /\ outbox' = outbox /\ clock' = clock + 1 /\ req' = req
        /\ draft' = [draft EXCEPT ![s] = <<[topic |-> Topic(req[s].op), key |-> req[s].event,
                                            user |-> req[s].user, createdAt |-> clock + 1]>>]
        /\ pc' = [pc EXCEPT ![s] = "commit"]
    BY DEF WriteOutbox, Goto, committed
  <1>2. draft'[s][1].createdAt = clock + 1
    BY <1>1 DEF IInv, TypeOK
  <1>3. \A t \in Sessions \ {s} : pc'[t] = pc[t] /\ draft'[t] = draft[t]
    BY <1>1 DEF IInv, TypeOK
  <1>5. ASSUME NEW t \in Sessions, pc'[t] = "commit"
        PROVE  /\ draft'[t][1].createdAt <= clock'
               /\ \A i \in DOMAIN outbox' : outbox'[i].key = req'[t].event =>
                    outbox'[i].createdAt < draft'[t][1].createdAt
    <2>1. CASE t = s
      BY <1>1, <1>2, <2>1, StampsAreNumbers DEF OrderInv
    <2>2. CASE t # s
      BY <1>1, <1>3, <1>5, <2>2, StampsAreNumbers DEF OrderInv
    <2>3. QED
      BY <2>1, <2>2
  <1>6. \A i \in DOMAIN outbox' : outbox'[i].createdAt <= clock'
    BY <1>1, StampsAreNumbers DEF OrderInv
  <1>7. OutboxInCommitOrder'
    BY <1>1 DEF OrderInv, OutboxInCommitOrder
  <1>8. QED
    BY <1>5, <1>6, <1>7 DEF OrderInv

\* A commit appends a row that is younger than the others of its event.
LEMMA CommitKeepsOrder ==
  ASSUME IInv, IInv', OrderInv, NEW s \in Sessions, NEW op, Commit(s, op)
  PROVE  OrderInv'
  <1> DEFINE n == Len(outbox)
  <1>1. /\ pc[s] = "commit" /\ outbox' = outbox \o draft[s] /\ clock' = clock
        /\ pc' = [pc EXCEPT ![s] = "idle"]
        /\ draft' = [draft EXCEPT ![s] = <<>>]
        /\ req' = [req EXCEPT ![s] = NoReq]
    BY DEF Commit, Finish
  <1>2. /\ n \in Nat /\ DOMAIN outbox = 1..n /\ DOMAIN outbox' = 1..n + 1
        /\ \A i \in DOMAIN outbox : outbox'[i] = outbox[i]
        /\ outbox'[n + 1] = draft[s][1]
        /\ draft[s][1].key = req[s].event
        /\ draft[s][1].createdAt \in Nat
    BY <1>1, CommitAppends
  <1>3. /\ draft[s][1].createdAt <= clock
        /\ \A i \in DOMAIN outbox : outbox[i].key = req[s].event =>
             outbox[i].createdAt < draft[s][1].createdAt
    BY <1>1 DEF OrderInv
  <1> HIDE DEF n
  <1>4. \A i \in DOMAIN outbox' : outbox'[i].createdAt <= clock'
    <2> SUFFICES ASSUME NEW i \in DOMAIN outbox'
                 PROVE  outbox'[i].createdAt <= clock'
      OBVIOUS
    <2>1. i = n + 1 \/ i \in DOMAIN outbox
      BY <1>2
    <2>2. QED
      BY <2>1, <1>1, <1>2, <1>3 DEF OrderInv
  <1>5. ASSUME NEW t \in Sessions, pc'[t] = "commit"
        PROVE  /\ draft'[t][1].createdAt <= clock'
               /\ \A i \in DOMAIN outbox' : outbox'[i].key = req'[t].event =>
                    outbox'[i].createdAt < draft'[t][1].createdAt
    <2>1. /\ t # s /\ pc[t] = "commit" /\ draft'[t] = draft[t] /\ req'[t] = req[t]
      BY <1>1, <1>5 DEF IInv, TypeOK
    <2>2. outbox'[n + 1].key # req[t].event
      BY <1>1, <1>2, <2>1, CommitsAreApart
    <2>3. \A i \in DOMAIN outbox' : i = n + 1 \/ (i \in DOMAIN outbox /\ outbox'[i] = outbox[i])
      BY <1>2
    <2>4. QED
      BY <1>1, <2>1, <2>2, <2>3 DEF OrderInv
  <1>6. OutboxInCommitOrder'
    <2> SUFFICES ASSUME NEW i \in DOMAIN outbox', NEW j \in DOMAIN outbox',
                        i < j, outbox'[i].key = outbox'[j].key
                 PROVE  outbox'[i].createdAt < outbox'[j].createdAt
      BY DEF OutboxInCommitOrder
    <2>1. i \in DOMAIN outbox /\ outbox'[i] = outbox[i]
      BY <1>2
    <2>2. CASE j = n + 1
      BY <1>2, <1>3, <2>1, <2>2
    <2>3. CASE j # n + 1
      <3>1. j \in DOMAIN outbox /\ outbox'[j] = outbox[j]
        BY <1>2, <2>3
      <3>2. QED
        BY <2>1, <3>1 DEF OrderInv, OutboxInCommitOrder
    <2>4. QED
      BY <2>2, <2>3
  <1>7. QED
    BY <1>4, <1>5, <1>6 DEF OrderInv

\* Every step keeps the order: most leave the outbox and the stamps alone.
LEMMA StepKeepsOrder ==
  ASSUME IInv, IInv', OrderInv, StampAt = "create", [Next]_vars
  PROVE  OrderInv'
  <1>1. CASE UNCHANGED vars
    BY <1>1, QuietKeepsOrder DEF vars, committed, local
  <1>2. ASSUME NEW s \in Sessions, (\E r \in Requests : Begin(s, r)) \/ Step(s) \/ Abort(s)
        PROVE  OrderInv'
    <2>1. CASE WriteOutbox(s)
      BY <2>1, WriteOutboxKeepsOrder
    <2>2. CASE CommitCreate(s) \/ CommitJoin(s) \/ CommitLeave(s) \/ CommitRemove(s)
      BY <2>2, CommitKeepsOrder DEF CommitCreate, CommitJoin, CommitLeave, CommitRemove
    <2>3. CASE \E a : Finish(s, a) /\ outbox' = outbox
      <3>1. /\ outbox' = outbox /\ clock' = clock
            /\ pc' = [pc EXCEPT ![s] = "idle"]
            /\ draft' = [draft EXCEPT ![s] = <<>>]
            /\ req' = [req EXCEPT ![s] = NoReq]
        BY <2>3 DEF Finish
      <3>2. \A t \in Sessions : pc'[t] = "commit" =>
              pc[t] = "commit" /\ draft'[t] = draft[t] /\ req'[t] = req[t]
        BY <3>1 DEF IInv, TypeOK
      <3>3. QED
        BY <3>1, <3>2, QuietKeepsOrder
    <2>4. CASE \E r \in Requests : Begin(s, r)
      <3>1. PICK r \in Requests : Begin(s, r)
        BY <2>4
      <3>2. /\ outbox' = outbox /\ clock' = clock /\ draft' = draft
            /\ pc' = [pc EXCEPT ![s] = FirstStatement(r.op)]
            /\ req' = [req EXCEPT ![s] = r]
        BY <3>1 DEF Begin, committed
      <3>3. FirstStatement(r.op) # "commit"
        BY DEF FirstStatement
      <3>4. \A t \in Sessions : pc'[t] = "commit" =>
              pc[t] = "commit" /\ draft'[t] = draft[t] /\ req'[t] = req[t]
        BY <3>2, <3>3 DEF IInv, TypeOK
      <3>5. QED
        BY <3>2, <3>4, QuietKeepsOrder
    <2>5. CASE \E to \in PCs \ {"commit"} :
                 Goto(s, to) /\ UNCHANGED <<committed, clock, draft>>
      <3>1. PICK to \in PCs \ {"commit"} :
              Goto(s, to) /\ UNCHANGED <<committed, clock, draft>>
        BY <2>5
      <3>2. \A t \in Sessions : pc'[t] = "commit" =>
              pc[t] = "commit" /\ draft'[t] = draft[t] /\ req'[t] = req[t]
        BY <3>1 DEF Goto, IInv, TypeOK
      <3>3. QED
        BY <3>1, <3>2, QuietKeepsOrder DEF committed
    <2>6. QED
      BY <1>2, <2>1, <2>2, <2>3, <2>4, <2>5
      DEF Step, Abort, SelectForUpdate, FindEvent, ChangeMembership, TakeSeat, InsertEvent,
          ReadOwner, DeleteEvent, UpdateEvent, Throw, committed, PCs
  <1>3. QED
    BY <1>1, <1>2 DEF Next

\* The relay publishes by createdAt: taken while the row lock is held, it orders
\* the rows of one event as their transactions were committed.
THEOREM StampsFollowCommits ==
  ASSUME StampAt = "create"
  PROVE  Spec => []OutboxInCommitOrder
  <1>1. Init => OrderInv
    BY DEF Init, OrderInv, OutboxInCommitOrder
  <1>2. IInv /\ IInv' /\ OrderInv /\ [Next]_vars => OrderInv'
    BY StepKeepsOrder
  <1>3. OrderInv => OutboxInCommitOrder
    BY DEF OrderInv
  <1>4. QED
    BY <1>1, <1>2, <1>3, Invariance, PTL DEF Spec

(***************************************************************************)
(* History                                                                 *)
(***************************************************************************)
\* OutboxTellsHistory in parts
CreatedFirst ==
  \A i, j \in DOMAIN outbox : i < j /\ outbox[i].key = outbox[j].key =>
    outbox[j].topic # "event.created"

DeletedLast ==
  \A i, j \in DOMAIN outbox : i < j /\ outbox[i].key = outbox[j].key =>
    outbox[i].topic # "event.deleted"

JoinsAlternate ==
  \A i, j \in DOMAIN outbox :
    /\ i < j /\ outbox[i].key = outbox[j].key
    /\ About(outbox[i], outbox[i].key, outbox[j].user)
    /\ About(outbox[j], outbox[j].key, outbox[j].user)
    /\ \A k \in i+1..j-1 : ~About(outbox[k], outbox[i].key, outbox[j].user)
    => (outbox[i].topic = "event.user-left") # (outbox[j].topic = "event.user-left")

Told(e, topic) == \E i \in DOMAIN outbox : outbox[i].key = e /\ outbox[i].topic = topic

LivesTold ==
  \A e \in Events : e \in live <=> Told(e, "event.created") /\ ~Told(e, "event.deleted")

LastAbout(i, e, u) ==
  /\ i \in DOMAIN outbox
  /\ About(outbox[i], e, u)
  /\ \A j \in DOMAIN outbox : j > i => ~About(outbox[j], e, u)

MembersTold ==
  \A e \in live : \A u \in Users :
    u \in participants[e] <=> \E i \in DOMAIN outbox : LastAbout(i, e, u) /\ outbox[i].topic # "event.user-left"

\* The parts are the property.
LEMMA HistoryInParts ==
  ASSUME IInv
  PROVE  OutboxTellsHistory <=>
           CreatedFirst /\ DeletedLast /\ JoinsAlternate /\ LivesTold /\ MembersTold
  <1>1. live \subseteq Events /\ \A e \in live : participants[e] \subseteq Users
    BY DEF IInv, TypeOK
  <1>2. MembersTold <=>
          \A e \in Events : e \in live => participants[e] =
            {u \in Users : \E i \in DOMAIN outbox :
               LastAbout(i, e, u) /\ outbox[i].topic # "event.user-left"}
    BY <1>1 DEF MembersTold
  <1>3. QED
    BY <1>2 DEF OutboxTellsHistory, CreatedFirst, DeletedLast, JoinsAlternate, LivesTold, Told,
                LastAbout

\* The topic of each request
LEMMA TopicsTell ==
  /\ Topic("create") = "event.created" /\ Topic("join") = "event.user-joined"
  /\ Topic("leave") = "event.user-left" /\ Topic("remove") = "event.deleted"
  BY DEF Topic

\* Session s commits the row x as the outbox's n+1st.
Appends(s, n, x) ==
  /\ pc[s] = "commit"
  /\ DOMAIN outbox = 1..n
  /\ DOMAIN outbox' = 1..n + 1
  /\ \A i \in 1..n : outbox'[i] = outbox[i]
  /\ outbox'[n + 1] = x
  /\ x.topic = Topic(req[s].op) /\ x.key = req[s].event /\ x.user = req[s].user

\* Every commit appends one row, with the topic and the key of its request.
LEMMA CommitsAppend ==
  ASSUME IInv, NEW s \in Sessions, NEW op, Commit(s, op)
  PROVE  \E n, x : n \in Nat /\ Appends(s, n, x)
  <1>1. pc[s] = "commit" /\ outbox' = outbox \o draft[s]
    BY DEF Commit
  <1>2. PICK n, x : n = Len(outbox) /\ x = draft[s][1]
    OBVIOUS
  <1>3. n \in Nat /\ Appends(s, n, x)
    BY <1>1, <1>2, CommitAppends DEF Appends
  <1>4. QED
    BY <1>3

\* What a transaction that commits knows: a created event is new to the outbox,
\* any other exists.
LEMMA CommitKnows ==
  ASSUME IInv, NEW s \in Sessions, NEW n \in Nat, NEW x, Appends(s, n, x)
  PROVE  /\ x.key \in Events /\ x.user \in Users
         /\ req[s].op \in {"create", "join", "leave", "remove"}
         /\ req[s].op = "create" => \A i \in 1..n : outbox[i].key # x.key
         /\ req[s].op # "create" => x.key \in live
  <1>1. pc[s] = "commit" /\ x.key = req[s].event /\ x.user = req[s].user /\ DOMAIN outbox = 1..n
    BY DEF Appends
  <1>2. req[s].op \in {"create", "join", "leave", "remove"}
    BY <1>1, RequestOfBusy DEF IInv, ControlInv, StatementsOf, Busy, Ops
  <1>3. req[s].op = "create" => x.key \notin Known
    BY <1>1 DEF IInv, IdInv, Busy
  <1>4. req[s].op # "create" => x.key \in live
    BY <1>1 DEF IInv, LockInv, HoldsRow
  <1>5. QED
    BY <1>1, <1>2, <1>3, <1>4, RequestOfBusy DEF Known

\* The order of the rows of one event survives a commit.
LEMMA OrderOfTopics ==
  ASSUME IInv, CreatedFirst, DeletedLast, LivesTold,
         NEW s \in Sessions, NEW n \in Nat, NEW x, Appends(s, n, x)
  PROVE  CreatedFirst' /\ DeletedLast'
  <1> SUFFICES ASSUME NEW i \in DOMAIN outbox', NEW j \in DOMAIN outbox',
                      i < j, outbox'[i].key = outbox'[j].key
               PROVE  outbox'[j].topic # "event.created" /\ outbox'[i].topic # "event.deleted"
    BY DEF CreatedFirst, DeletedLast
  <1>1. i \in 1..n /\ outbox'[i] = outbox[i] /\ DOMAIN outbox = 1..n
    BY DEF Appends
  <1>2. CASE j = n + 1
    <2>1. outbox'[j] = x /\ x.topic = Topic(req[s].op)
      BY <1>2 DEF Appends
    <2>2. req[s].op # "create" /\ x.key \in live /\ x.key \in Events
      BY <1>1, <2>1, CommitKnows
    <2>3. ~Told(x.key, "event.deleted")
      BY <2>2 DEF LivesTold
    <2>4. outbox[i].topic # "event.deleted"
      BY <1>1, <2>1, <2>3 DEF Told
    <2>5. x.topic # "event.created"
      BY <2>1, <2>2, TopicsTell, CommitKnows
    <2>6. QED
      BY <1>1, <2>1, <2>4, <2>5
  <1>3. CASE j # n + 1
    <2>1. j \in 1..n /\ outbox'[j] = outbox[j]
      BY <1>3 DEF Appends
    <2>2. QED
      BY <1>1, <2>1 DEF CreatedFirst, DeletedLast
  <1>4. QED
    BY <1>2, <1>3

\* A user has at most one last row about an event.
LEMMA OneLast ==
  ASSUME NEW n \in Nat, DOMAIN outbox = 1..n, NEW e, NEW u,
         NEW i \in 1..n, NEW j \in 1..n, LastAbout(i, e, u), LastAbout(j, e, u)
  PROVE  i = j
  BY DEF LastAbout

\* The row of a join or a leave says the contrary of the last one before it,
\* because the membership was tested under the lock.
LEMMA JoinsStillAlternate ==
  ASSUME IInv, JoinsAlternate, MembersTold, CreatedFirst,
         NEW s \in Sessions, NEW n \in Nat, NEW x, Appends(s, n, x)
  PROVE  JoinsAlternate'
  <1> SUFFICES ASSUME NEW i \in DOMAIN outbox', NEW j \in DOMAIN outbox',
                      i < j, outbox'[i].key = outbox'[j].key,
                      About(outbox'[i], outbox'[i].key, outbox'[j].user),
                      About(outbox'[j], outbox'[j].key, outbox'[j].user),
                      \A k \in i+1..j-1 : ~About(outbox'[k], outbox'[i].key, outbox'[j].user)
               PROVE  (outbox'[i].topic = "event.user-left") # (outbox'[j].topic = "event.user-left")
    BY DEF JoinsAlternate, About
  <1>1. i \in 1..n /\ outbox'[i] = outbox[i] /\ DOMAIN outbox = 1..n
    BY DEF Appends
  <1>2. CASE j = n + 1
    <2>1. /\ outbox'[j] = x /\ x.topic = Topic(req[s].op) /\ pc[s] = "commit"
          /\ x.key = req[s].event /\ x.user = req[s].user
          /\ \A k \in 1..n : outbox'[k] = outbox[k]
      BY <1>2 DEF Appends
    <2>2. /\ req[s].op \in {"join", "leave"} /\ x.key \in live /\ x.user \in Users
      BY <1>1, <2>1, CommitKnows, TopicsTell DEF About
    <2>3. LastAbout(i, x.key, x.user)
      <3>1. \A k \in DOMAIN outbox : k > i => ~About(outbox[k], x.key, x.user)
        BY <1>1, <1>2, <2>1
      <3>2. QED
        BY <1>1, <2>1, <3>1 DEF LastAbout
    <2>4. x.user \in participants[x.key] <=> outbox[i].topic # "event.user-left"
      BY <1>1, <2>2, <2>3, OneLast DEF MembersTold
    <2>5. x.user \in participants[x.key] <=> req[s].op = "leave"
      BY <2>1, <2>2 DEF IInv, MemberInv
    <2>6. x.topic = "event.user-left" <=> req[s].op = "leave"
      BY <2>1, <2>2, TopicsTell
    <2>7. QED
      BY <1>1, <2>1, <2>4, <2>5, <2>6
  <1>3. CASE j # n + 1
    <2>1. j \in 1..n /\ outbox'[j] = outbox[j] /\ \A k \in i+1..j-1 : outbox'[k] = outbox[k]
      BY <1>1, <1>3 DEF Appends
    <2>2. QED
      BY <1>1, <2>1 DEF JoinsAlternate
  <1>4. QED
    BY <1>2, <1>3

\* Which topics have been told, and what was said last, after a commit.
LEMMA ToldAfter ==
  ASSUME IInv, NEW s \in Sessions, NEW n \in Nat, NEW x, Appends(s, n, x)
  PROVE  /\ \A e, topic : Told(e, topic)' <=> Told(e, topic) \/ (x.key = e /\ x.topic = topic)
         /\ \A e, u : ~About(x, e, u) =>
              \A i \in 1..n + 1 : LastAbout(i, e, u)' <=> i \in 1..n /\ LastAbout(i, e, u)
         /\ \A e, u : About(x, e, u) => \A i \in 1..n + 1 : LastAbout(i, e, u)' <=> i = n + 1
  <1>1. /\ DOMAIN outbox = 1..n /\ DOMAIN outbox' = 1..n + 1
        /\ \A i \in 1..n : outbox'[i] = outbox[i]
        /\ outbox'[n + 1] = x
    BY DEF Appends
  <1>2. \A i \in 1..n + 1 : i \in 1..n \/ i = n + 1
    OBVIOUS
  <1>3. n + 1 \in 1..n + 1 /\ \A i \in 1..n : i \in 1..n + 1 /\ i < n + 1
    OBVIOUS
  <1>4. \A e, topic : Told(e, topic)' <=> Told(e, topic) \/ (x.key = e /\ x.topic = topic)
    BY <1>1, <1>2, <1>3 DEF Told
  <1>5. ASSUME NEW e, NEW u, ~About(x, e, u), NEW i \in 1..n + 1
        PROVE  LastAbout(i, e, u)' <=> i \in 1..n /\ LastAbout(i, e, u)
    BY <1>1, <1>2, <1>3, <1>5 DEF LastAbout, About
  <1>6. ASSUME NEW e, NEW u, About(x, e, u), NEW i \in 1..n + 1
        PROVE  LastAbout(i, e, u)' <=> i = n + 1
    BY <1>1, <1>2, <1>3, <1>6 DEF LastAbout, About
  <1>7. QED
    BY <1>4, <1>5, <1>6

\* What a commit does to the event of its row; other events keep what they had.
Effect(s, x) ==
  LET e == x.key IN
  \/ /\ req[s].op = "create" /\ live' = live \cup {e}
     /\ participants' = [participants EXCEPT ![e] = {x.user}]
  \/ /\ req[s].op = "join" /\ live' = live
     /\ participants' = [participants EXCEPT ![e] = @ \cup {x.user}]
  \/ /\ req[s].op = "leave" /\ live' = live
     /\ participants' = [participants EXCEPT ![e] = @ \ {x.user}]
  \/ /\ req[s].op = "remove" /\ live' = live \ {e}
     /\ participants' = [participants EXCEPT ![e] = {}]

\* Every commit has the effect on the event and its members that its operation names.
LEMMA CommitsHaveEffect ==
  ASSUME IInv, NEW s \in Sessions,
         CommitCreate(s) \/ CommitJoin(s) \/ CommitLeave(s) \/ CommitRemove(s)
  PROVE  \E n, x : n \in Nat /\ Appends(s, n, x) /\ Effect(s, x)
  <1>1. PICK op : Commit(s, op)
    BY DEF CommitCreate, CommitJoin, CommitLeave, CommitRemove
  <1>2. PICK n, x : n \in Nat /\ Appends(s, n, x)
    BY <1>1, CommitsAppend
  <1>3. x.key = req[s].event /\ x.user = req[s].user
    BY <1>2 DEF Appends
  <1>4. Effect(s, x)
    BY <1>3 DEF CommitCreate, CommitJoin, CommitLeave, CommitRemove, Commit, Effect
  <1>5. QED
    BY <1>2, <1>4

\* An event exists as long as its created row is not followed by a deleted one.
LEMMA LivesStillTold ==
  ASSUME IInv, LivesTold, NEW s \in Sessions, NEW n \in Nat, NEW x, Appends(s, n, x), Effect(s, x)
  PROVE  LivesTold'
  <1> SUFFICES ASSUME NEW e \in Events
               PROVE  e \in live' <=> Told(e, "event.created")' /\ ~Told(e, "event.deleted")'
    BY DEF LivesTold
  <1>1. \A topic : Told(e, topic)' <=> Told(e, topic) \/ (x.key = e /\ x.topic = topic)
    BY ToldAfter
  <1>2. e \in live <=> Told(e, "event.created") /\ ~Told(e, "event.deleted")
    BY DEF LivesTold
  <1>3. CASE e # x.key
    BY <1>1, <1>2, <1>3 DEF Effect
  <1>4. CASE e = x.key
    <2>1. x.topic = Topic(req[s].op) /\ DOMAIN outbox = 1..n
      BY DEF Appends
    <2>2. CASE req[s].op = "create"
      <3>1. ~Told(e, "event.deleted")
        BY <1>4, <2>1, <2>2, CommitKnows DEF Told
      <3>2. QED
        BY <1>1, <1>4, <2>1, <2>2, <3>1, TopicsTell DEF Effect
    <2>3. CASE req[s].op # "create"
      BY <1>1, <1>2, <1>4, <2>1, <2>3, TopicsTell, CommitKnows DEF Effect
    <2>4. QED
      BY <2>2, <2>3
  <1>5. QED
    BY <1>3, <1>4

\* The members of an event are those whose last row is not that they left.
LEMMA MembersStillTold ==
  ASSUME IInv, MembersTold, NEW s \in Sessions, NEW n \in Nat, NEW x, Appends(s, n, x), Effect(s, x)
  PROVE  MembersTold'
  <1> SUFFICES ASSUME NEW e \in live', NEW u \in Users
               PROVE  u \in participants'[e] <=>
                        \E i \in DOMAIN outbox' :
                          LastAbout(i, e, u)' /\ outbox'[i].topic # "event.user-left"
    BY DEF MembersTold
  <1>1. /\ DOMAIN outbox = 1..n /\ DOMAIN outbox' = 1..n + 1
        /\ \A i \in 1..n : outbox'[i] = outbox[i] /\ i \in 1..n + 1
        /\ outbox'[n + 1] = x /\ n + 1 \in 1..n + 1
        /\ x.topic = Topic(req[s].op)
    BY DEF Appends
  <1>2. participants \in [Events -> SUBSET Users] /\ live \subseteq Events /\ x.key \in Events
    BY CommitKnows DEF IInv, TypeOK
  <1>3. CASE About(x, e, u)
    <2>1. x.key = e /\ x.user = u /\ x.topic # "event.deleted"
      BY <1>3 DEF About
    <2>2. (\E i \in DOMAIN outbox' : LastAbout(i, e, u)' /\ outbox'[i].topic # "event.user-left")
            <=> x.topic # "event.user-left"
      BY <1>1, <1>3, ToldAfter
    <2>3. req[s].op \in {"create", "join", "leave"}
      BY <1>1, <2>1, TopicsTell, CommitKnows
    <2>4. u \in participants'[e] <=> req[s].op # "leave"
      BY <1>2, <2>1, <2>3 DEF Effect
    <2>5. x.topic # "event.user-left" <=> req[s].op # "leave"
      BY <1>1, <2>3, TopicsTell
    <2>6. QED
      BY <2>2, <2>4, <2>5
  <1>4. CASE ~About(x, e, u)
    <2>1. (\E i \in DOMAIN outbox' : LastAbout(i, e, u)' /\ outbox'[i].topic # "event.user-left")
            <=> \E i \in DOMAIN outbox : LastAbout(i, e, u) /\ outbox[i].topic # "event.user-left"
      BY <1>1, <1>4, ToldAfter
    <2>2. CASE e \in live
      <3>1. u \in participants'[e] <=> u \in participants[e]
        <4>1. CASE e # x.key
          BY <1>2, <2>2, <4>1 DEF Effect
        <4>2. CASE e = x.key
          <5>1. req[s].op \notin {"create", "remove"}
            <6>1. req[s].op # "remove"
              BY <4>2 DEF Effect
            <6>2. req[s].op = "create" => e \notin live
              BY <4>2 DEF IInv, IdInv, Busy, Appends
            <6>3. QED
              BY <2>2, <6>1, <6>2
          <5>2. u # x.user
            BY <1>1, <1>4, <4>2, <5>1, CommitKnows, TopicsTell DEF About
          <5>3. QED
            BY <1>2, <4>2, <5>1, <5>2 DEF Effect
        <4>3. QED
          BY <4>1, <4>2
      <3>2. QED
        BY <2>1, <2>2, <3>1 DEF MembersTold
    <2>3. CASE e \notin live
      <3>1. req[s].op = "create" /\ e = x.key /\ participants'[e] = {x.user}
        BY <1>2, <2>3 DEF Effect
      <3>2. u # x.user
        BY <1>1, <1>4, <3>1, TopicsTell DEF About
      <3>3. \A i \in DOMAIN outbox : ~LastAbout(i, e, u)
        BY <1>1, <3>1, CommitKnows DEF LastAbout, About
      <3>4. QED
        BY <2>1, <3>1, <3>2, <3>3
    <2>4. QED
      BY <2>2, <2>3
  <1>5. QED
    BY <1>3, <1>4

\* The outbox tells the history of the committed state, in every reachable state.
THEOREM OutboxIsHistory == Spec => []OutboxTellsHistory
  <1>1. Init => OutboxTellsHistory
    BY DEF Init, OutboxTellsHistory
  <1>2. ASSUME IInv, IInv', OutboxTellsHistory, [Next]_vars
        PROVE  OutboxTellsHistory'
    <2>1. CASE UNCHANGED <<live, participants, outbox>>
      BY <1>2, <2>1 DEF OutboxTellsHistory, About
    <2>2. ASSUME NEW s \in Sessions,
                 CommitCreate(s) \/ CommitJoin(s) \/ CommitLeave(s) \/ CommitRemove(s)
          PROVE  OutboxTellsHistory'
      <3>1. PICK n, x : n \in Nat /\ Appends(s, n, x) /\ Effect(s, x)
        BY <1>2, <2>2, CommitsHaveEffect
      <3>2. CreatedFirst /\ DeletedLast /\ JoinsAlternate /\ LivesTold /\ MembersTold
        BY <1>2, HistoryInParts
      <3>3. CreatedFirst' /\ DeletedLast'
        BY <1>2, <3>1, <3>2, OrderOfTopics
      <3>4. JoinsAlternate'
        BY <1>2, <3>1, <3>2, JoinsStillAlternate
      <3>5. LivesTold' /\ MembersTold'
        BY <1>2, <3>1, <3>2, LivesStillTold, MembersStillTold
      <3>6. IInv' => (OutboxTellsHistory' <=>
              CreatedFirst' /\ DeletedLast' /\ JoinsAlternate' /\ LivesTold' /\ MembersTold')
        BY HistoryInParts, PTL
      <3>7. QED
        BY <1>2, <3>3, <3>4, <3>5, <3>6
    <2>3. QED
      BY <1>2, <2>1, <2>2, StepsOfOutbox DEF Next, vars, committed
  <1>3. QED
    BY <1>1, <1>2, Invariance, PTL DEF Spec

-----------------------------------------------------------------------------
(***************************************************************************)
(* The statement-level EventStore implements the atomic SeatLedger, for    *)
(* every value of the constants: a commit is the step of the ledger that   *)
(* serves the request, an exception is its refusal, and every other        *)
(* statement is a stuttering step.                                         *)
(***************************************************************************)
\* The two modules agree on requests, answers and known ids.
LEMMA SameWords ==
  /\ Ledger!Requests = Requests
  /\ Ledger!Answers = Answers
  BY DEF Ledger!Requests, Ledger!Ops, Ledger!Limits, Ledger!Answers, Requests, Ops, Limits, Answers

LEMMA SameKnown ==
  ASSUME TypeOK
  PROVE  Ledger!Known = Known
  BY DEF TypeOK, Ledger!Known, Known, History

\* The ledger counts as the store does.
LEMMA SameCount ==
  ASSUME NEW S
  PROVE  Ledger!Cardinality(S) = Cardinality(S)
  BY DEF Cardinality, Ledger!Cardinality

\* With the same limit and the counter equal to the membership, a seat is room.
LEMMA SeatIsRoom ==
  ASSUME IInv, NEW e \in live
  PROVE  HasSeat(e) <=> Ledger!HasRoom(e)
  <1>1. seatsTaken[e] = Cardinality(participants[e])
    BY DEF IInv, SeatsMatchParticipants
  <1>2. CASE capacity[e] = NoCap
    BY <1>2 DEF HasSeat, Ledger!HasRoom
  <1>3. CASE capacity[e] # NoCap
    <2>1. seatsTaken[e] \in Nat /\ capacity[e] \in Nat
      BY <1>3, CapacityAssumption DEF IInv, TypeOK, Limits
    <2>2. QED
      BY <1>1, <1>3, <2>1, SameCount DEF HasSeat, Ledger!HasRoom
  <1>4. QED
    BY <1>2, <1>3

LEMMA InitRefines == Init => Ledger!Init
  <1> SUFFICES ASSUME Init
               PROVE  Ledger!Init
    OBVIOUS
  <1>1. History = <<>>
    BY DEF Init, History
  <1>2. QED
    BY <1>1 DEF Init, Ledger!Init

LEMMA BeginRefines ==
  ASSUME IInv, NEW s \in Sessions, NEW r \in Requests, Begin(s, r)
  PROVE  Ledger!Receive(s, r)
  <1>1. UNCHANGED <<live, author, capacity, participants, History>>
    BY DEF Begin, committed, History
  <1>2. req[s] = NoReq
    BY DEF Begin, IInv, ControlInv, Busy
  <1>3. \A t \in Sessions : req[t] # NoReq => pc[t] # "idle"
    BY DEF IInv, ControlInv, Busy
  <1>4. Ledger!Known = Known
    BY SameKnown DEF IInv
  <1>5. QED
    BY <1>1, <1>2, <1>3, <1>4 DEF Begin, Ledger!Receive

\* A refusal that is justified by the committed state is one of the ledger.
LEMMA ThrowRefines ==
  ASSUME IInv, NEW s \in Sessions, pc[s] # "idle", NEW a \in Answers \ {"none", "ok"},
         Ledger!Justified(req[s], a), Throw(s, a)
  PROVE  Ledger!Refuse(s)
  <1>1. UNCHANGED <<live, author, capacity, participants, History>>
    BY DEF Throw, committed, History
  <1>2. req[s] # NoReq
    BY DEF IInv, ControlInv, Busy
  <1>3. /\ req' = [req EXCEPT ![s] = NoReq]
        /\ answer' = [answer EXCEPT ![s] = a]
    BY DEF Throw, Finish
  <1>4. QED
    BY <1>1, <1>2, <1>3, SameWords DEF Ledger!Refuse

\* A statement that neither commits nor throws is invisible.
LEMMA QuietRefines ==
  ASSUME UNCHANGED <<committed, req, answer>>
  PROVE  UNCHANGED Ledger!vars
  BY DEF committed, Ledger!vars, History

\* The refusals of the statements, each with the reason the ledger accepts.
LEMMA FindEventRefines ==
  ASSUME IInv, NEW s \in Sessions, FindEvent(s)
  PROVE  Ledger!Refuse(s) \/ UNCHANGED Ledger!vars
  <1> DEFINE r == req[s]
  <1>0. pc[s] = "find" /\ r.op \in {"join", "leave"}
    BY DEF FindEvent, IInv, ControlInv, Busy, StatementsOf
  <1>1. CASE r.event \notin live /\ Throw(s, "notFound")
    <2>1. Ledger!Justified(r, "notFound")
      BY <1>0, <1>1 DEF Ledger!Justified
    <2>2. QED
      BY <1>0, <1>1, <2>1, ThrowRefines DEF Answers
  <1>2. CASE /\ r.event \in live /\ r.op = "leave" /\ author[r.event] = r.user
             /\ Throw(s, "forbidden")
    <2>1. Ledger!Justified(r, "forbidden")
      BY <1>0, <1>2 DEF Ledger!Justified
    <2>2. QED
      BY <1>0, <1>2, <2>1, ThrowRefines DEF Answers
  <1>3. CASE Goto(s, "member") /\ UNCHANGED <<committed, rowLock, clock, seats, draft>>
    BY <1>3, QuietRefines DEF Goto
  <1>4. QED
    BY <1>1, <1>2, <1>3 DEF FindEvent

LEMMA ChangeMembershipRefines ==
  ASSUME IInv, NEW s \in Sessions, ChangeMembership(s)
  PROVE  Ledger!Refuse(s) \/ UNCHANGED Ledger!vars
  <1> DEFINE r == req[s]
             isMember == r.user \in participants[r.event]
  <1>0. pc[s] = "member" /\ r.op \in {"join", "leave"} /\ r.event \in live
    BY DEF ChangeMembership, IInv, ControlInv, LockInv, HoldsRow, Busy, StatementsOf
  <1>1. CASE isMember = (r.op = "join") /\ Throw(s, "conflict")
    <2>1. Ledger!Justified(r, "conflict")
      BY <1>0, <1>1 DEF Ledger!Justified
    <2>2. QED
      BY <1>0, <1>1, <2>1, ThrowRefines DEF Answers
  <1>2. CASE Goto(s, "seat") /\ UNCHANGED <<committed, rowLock, clock, seats, draft>>
    BY <1>2, QuietRefines DEF Goto
  <1>3. QED
    BY <1>1, <1>2 DEF ChangeMembership

\* "Event is full" is said only when the members fill the limit.
LEMMA TakeSeatRefines ==
  ASSUME IInv, NEW s \in Sessions, TakeSeat(s)
  PROVE  Ledger!Refuse(s) \/ UNCHANGED Ledger!vars
  <1> DEFINE r == req[s]
  <1>0. pc[s] = "seat" /\ r.event \in live
    BY DEF TakeSeat, IInv, LockInv, HoldsRow
  <1>1. CASE r.op = "join" /\ ~HasSeat(r.event) /\ Throw(s, "full")
    <2>1. Ledger!Justified(r, "full")
      BY <1>0, <1>1, SeatIsRoom DEF Ledger!Justified
    <2>2. QED
      BY <1>0, <1>1, <2>1, ThrowRefines DEF Answers
  <1>2. CASE Goto(s, "outbox") /\ UNCHANGED <<committed, clock, draft>>
    BY <1>2, QuietRefines DEF Goto
  <1>3. QED
    BY <1>1, <1>2 DEF TakeSeat

LEMMA ReadOwnerRefines ==
  ASSUME IInv, NEW s \in Sessions, ReadOwner(s)
  PROVE  Ledger!Refuse(s) \/ UNCHANGED Ledger!vars
  <1> DEFINE r == req[s]
             to == IF r.op = "remove" THEN "erase" ELSE "apply"
  <1>0. pc[s] = "read" /\ r.op \in {"remove", "update"}
    BY RequestOfBusy DEF ReadOwner, IInv, ControlInv, Busy, StatementsOf, Ops
  <1>1. CASE r.event \notin live /\ Throw(s, "notFound")
    <2>1. Ledger!Justified(r, "notFound")
      BY <1>0, <1>1 DEF Ledger!Justified
    <2>2. QED
      BY <1>0, <1>1, <2>1, ThrowRefines DEF Answers
  <1>2. CASE r.event \in live /\ author[r.event] # r.user /\ Throw(s, "forbidden")
    <2>1. Ledger!Justified(r, "forbidden")
      BY <1>0, <1>2 DEF Ledger!Justified
    <2>2. QED
      BY <1>0, <1>2, <2>1, ThrowRefines DEF Answers
  <1>3. CASE Goto(s, to) /\ UNCHANGED <<committed, rowLock, clock, seats, draft>>
    BY <1>3, QuietRefines DEF Goto
  <1>4. QED
    BY <1>1, <1>2, <1>3 DEF ReadOwner

LEMMA DeleteEventRefines ==
  ASSUME IInv, NEW s \in Sessions, DeleteEvent(s)
  PROVE  Ledger!Refuse(s) \/ UNCHANGED Ledger!vars
  <1> DEFINE r == req[s]
  <1>0. pc[s] = "erase" /\ r.op = "remove"
    BY RequestOfBusy DEF DeleteEvent, IInv, ControlInv, Busy, StatementsOf, Ops
  <1>1. CASE r.event \notin live /\ Throw(s, "notFound")
    <2>1. Ledger!Justified(r, "notFound")
      BY <1>0, <1>1 DEF Ledger!Justified
    <2>2. QED
      BY <1>0, <1>1, <2>1, ThrowRefines DEF Answers
  <1>2. CASE Goto(s, "outbox") /\ UNCHANGED <<committed, clock, seats, draft>>
    BY <1>2, QuietRefines DEF Goto
  <1>3. QED
    BY <1>1, <1>2 DEF DeleteEvent

\* The unlocked ownership check of update still holds when the row is written.
LEMMA UpdateEventRefines ==
  ASSUME IInv, NEW s \in Sessions, UpdateEvent(s)
  PROVE  Ledger!Refuse(s) \/ Ledger!Update(s)
  <1> DEFINE r == req[s]
  <1>0. /\ pc[s] = "apply" /\ r.op = "update" /\ r # NoReq
        /\ r.event \in live => author[r.event] = r.user
    BY RequestOfBusy, RequestsAreReal
    DEF UpdateEvent, IInv, ControlInv, OwnerInv, Busy, StatementsOf, Ops
  <1>1. CASE r.event \notin live /\ Throw(s, "notFound")
    <2>1. Ledger!Justified(r, "notFound")
      BY <1>0, <1>1 DEF Ledger!Justified
    <2>2. QED
      BY <1>0, <1>1, <2>1, ThrowRefines DEF Answers
  <1>2. CASE /\ r.event \in live
             /\ capacity' = [capacity EXCEPT ![r.event] = r.cap]
             /\ UNCHANGED <<live, author, seatsTaken, participants, outbox>>
             /\ \E a \in {"ok", "error"} : Finish(s, a)
    <2>1. UNCHANGED <<live, author, participants, History>>
      BY <1>2 DEF History
    <2>2. Ledger!Effect(s, "update")
      BY <1>0, <1>2 DEF Ledger!Effect, Finish
    <2>3. QED
      BY <1>0, <1>2, <2>1, <2>2 DEF Ledger!Update
  <1>3. QED
    BY <1>1, <1>2 DEF UpdateEvent

\* An aborted transaction leaves no trace: an error without effect.
LEMMA AbortRefines ==
  ASSUME IInv, NEW s \in Sessions, Abort(s)
  PROVE  Ledger!Refuse(s)
  <1>1. pc[s] # "idle" /\ Throw(s, "error")
    BY DEF Abort, Throw
  <1>2. Ledger!Justified(req[s], "error")
    BY DEF Ledger!Justified
  <1>3. QED
    BY <1>1, <1>2, ThrowRefines DEF Answers

(***************************************************************************)
(* The commits                                                             *)
(***************************************************************************)
\* A commit appends one change to the history and answers its request.
LEMMA CommitEffect ==
  ASSUME IInv, NEW s \in Sessions, NEW op \in Ops, Commit(s, op)
  PROVE  /\ Ledger!Effect(s, op)
         /\ History' = Append(History, Ledger!Change(Topic(op), req[s]))
  <1>1. PICK n \in Nat :
          draft[s] = <<[topic |-> Topic(req[s].op), key |-> req[s].event,
                        user |-> req[s].user, createdAt |-> n]>>
    BY DEF Commit, IInv, DraftInv
  <1> DEFINE row == [topic |-> Topic(op), key |-> req[s].event,
                     user |-> req[s].user, createdAt |-> n]
  <1>2. outbox' = outbox \o <<row>> /\ outbox \in Seq(Rows)
    BY <1>1 DEF Commit, IInv, TypeOK
  <1>3. /\ Len(outbox') = Len(outbox) + 1 /\ Len(outbox) \in Nat
        /\ DOMAIN outbox = 1..Len(outbox) /\ DOMAIN outbox' = 1..(Len(outbox) + 1)
        /\ \A i \in 1..Len(outbox) : outbox'[i] = outbox[i]
        /\ outbox'[Len(outbox) + 1] = row
    BY <1>2
  <1>4. History' = Append(History, Ledger!Change(Topic(op), req[s]))
    <2> DEFINE change == Ledger!Change(Topic(op), req[s])
               Word(x) == [topic |-> x.topic, key |-> x.key, user |-> x.user]
    <2>1. History = [i \in 1..Len(outbox) |-> Word(outbox[i])]
      BY <1>3 DEF History
    <2>2. History' = [i \in 1..(Len(outbox) + 1) |-> Word(outbox'[i])]
      BY <1>3 DEF History
    <2>3. Word(row) = change
      BY DEF Ledger!Change
    <2> HIDE DEF Word, row, change
    <2> DEFINE S == {Word(outbox[i]) : i \in 1..Len(outbox)} \cup {change}
    <2>4. History \in Seq(S) /\ Len(History) = Len(outbox) /\ change \in S
      BY <1>3, <2>1
    <2>5. History' \in Seq(S) /\ Len(History') = Len(outbox) + 1
      BY <1>3, <2>2, <2>3
    <2> HIDE DEF S
    <2>6. /\ Append(History, change) \in Seq(S)
          /\ Len(Append(History, change)) = Len(outbox) + 1
          /\ \A i \in 1..Len(outbox) : Append(History, change)[i] = History[i]
          /\ Append(History, change)[Len(outbox) + 1] = change
      BY <2>4, AppendProperties
    <2>7. \A i \in 1..Len(outbox) + 1 : History'[i] = Append(History, change)[i]
      BY <1>3, <2>1, <2>2, <2>3, <2>6
    <2>8. History' = Append(History, change)
      BY <2>5, <2>6, <2>7, SeqEqual
    <2>9. QED
      BY <2>8 DEF change
  <1>5. Ledger!Effect(s, op)
    BY DEF Commit, Finish, Ledger!Effect, IInv, ControlInv, Busy
  <1>6. QED
    BY <1>4, <1>5

LEMMA CommitsRefine ==
  ASSUME IInv, NEW s \in Sessions
  PROVE  /\ CommitCreate(s) => Ledger!Create(s)
         /\ CommitJoin(s) => Ledger!Join(s)
         /\ CommitLeave(s) => Ledger!Leave(s)
         /\ CommitRemove(s) => Ledger!Remove(s)
  <1> USE DEF Topic, Ops
  <1>1. ASSUME CommitCreate(s) PROVE Ledger!Create(s)
    BY <1>1, CommitEffect DEF CommitCreate, Ledger!Create
  <1>2. ASSUME CommitJoin(s) PROVE Ledger!Join(s)
    <2>1. /\ pc[s] = "commit" /\ req[s].op = "join"
      BY <1>2 DEF CommitJoin, Commit
    <2>2. /\ req[s].event \in live /\ HasSeat(req[s].event)
          /\ req[s].user \notin participants[req[s].event]
      BY <2>1 DEF IInv, LockInv, HoldsRow, SeatInv, MemberInv
    <2>3. Ledger!HasRoom(req[s].event)
      BY <2>2, SeatIsRoom
    <2>4. QED
      BY <1>2, <2>2, <2>3, CommitEffect DEF CommitJoin, Ledger!Join
  <1>3. ASSUME CommitLeave(s) PROVE Ledger!Leave(s)
    <2>1. /\ pc[s] = "commit" /\ req[s].op = "leave"
      BY <1>3 DEF CommitLeave, Commit
    <2>2. /\ req[s].event \in live /\ author[req[s].event] # req[s].user
          /\ req[s].user \in participants[req[s].event]
      BY <2>1 DEF IInv, LockInv, HoldsRow, OwnerInv, MemberInv
    <2>3. QED
      BY <1>3, <2>2, CommitEffect DEF CommitLeave, Ledger!Leave
  <1>4. ASSUME CommitRemove(s) PROVE Ledger!Remove(s)
    <2>1. /\ pc[s] = "commit" /\ req[s].op = "remove"
      BY <1>4 DEF CommitRemove, Commit
    <2>2. req[s].event \in live /\ author[req[s].event] = req[s].user
      BY <2>1 DEF IInv, LockInv, HoldsRow, OwnerInv
    <2>3. QED
      BY <1>4, <2>2, CommitEffect DEF CommitRemove, Ledger!Remove
  <1>5. QED
    BY <1>1, <1>2, <1>3, <1>4

(***************************************************************************)
(* Step simulation and the theorem                                         *)
(***************************************************************************)
LEMMA NextRefines ==
  ASSUME IInv, [Next]_vars
  PROVE  [Ledger!Next]_(Ledger!vars)
  <1>1. CASE UNCHANGED vars
    BY <1>1, QuietRefines DEF vars, committed, local
  <1>2. CASE Next
    <2>1. PICK s \in Sessions : (\E r \in Requests : Begin(s, r)) \/ Step(s) \/ Abort(s)
      BY <1>2 DEF Next
    <2>2. CASE \E r \in Requests : Begin(s, r)
      BY <2>2, BeginRefines, SameWords DEF Ledger!Next
    <2>3. CASE Abort(s)
      BY <2>3, AbortRefines DEF Ledger!Next
    <2>4. CASE SelectForUpdate(s) \/ InsertEvent(s) \/ WriteOutbox(s)
      BY <2>4, QuietRefines DEF SelectForUpdate, InsertEvent, WriteOutbox, Goto
    <2>5. CASE FindEvent(s) \/ ChangeMembership(s) \/ TakeSeat(s) \/ ReadOwner(s)
                 \/ DeleteEvent(s) \/ UpdateEvent(s)
      BY <2>5, FindEventRefines, ChangeMembershipRefines, TakeSeatRefines,
         ReadOwnerRefines, DeleteEventRefines, UpdateEventRefines
      DEF Ledger!Next
    <2>6. CASE CommitCreate(s) \/ CommitJoin(s) \/ CommitLeave(s) \/ CommitRemove(s)
      BY <2>6, CommitsRefine DEF Ledger!Next
    <2>7. QED
      BY <2>1, <2>2, <2>3, <2>4, <2>5, <2>6 DEF Step
  <1>3. QED
    BY <1>1, <1>2

\* EventsService is linearizable with respect to the seat ledger: joins, leaves,
\* creations, removals and updates behave as if served one at a time, and the
\* outbox is the list of the changes in the order they took effect.
THEOREM StatementsImplementLedger == Spec => ImplementsLedger
  <1>1. Init => Ledger!Init
    BY InitRefines
  <1>2. ASSUME IInv, [Next]_vars
        PROVE  [Ledger!Next]_(Ledger!vars)
    BY <1>2, NextRefines
  <1>3. QED
    BY <1>1, <1>2, Invariance, PTL DEF Spec, ImplementsLedger, Ledger!Spec
=============================================================================
