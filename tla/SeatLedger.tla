----------------------------- MODULE SeatLedger -----------------------------
(***************************************************************************)
(* What the events service promises its callers, with nothing said about   *)
(* how: every request is served in ONE step, seats are counted from the    *)
(* membership itself, and the history records exactly the changes made.    *)
(* EventStore, the statement-level model of events.service.ts, is shown to *)
(* implement this module.                                                  *)
(***************************************************************************)
EXTENDS Integers, Sequences, FiniteSets

CONSTANTS
  Events,      \* event ids (cuids: an id is given to one event only)
  Users,       \* user ids
  Sessions,    \* request contexts of the backend
  Capacities,  \* the seat limits an organiser may choose
  NoCap,       \* capacity null: no limit
  NoReq,       \* the session has no request
  NoUser       \* organiser of an event that does not exist

Limits == Capacities \cup {NoCap}

Ops == {"create", "join", "leave", "remove", "update"}

\* Only create and update carry a capacity in their DTO.
Requests ==
  {r \in [op : Ops, event : Events, user : Users, cap : Limits] :
      r.op \in {"create", "update"} \/ r.cap = NoCap}

Answers == {"none", "ok", "notFound", "forbidden", "conflict", "full", "error"}

VARIABLES
  live,          \* events that exist
  author,        \* organiser of each event
  capacity,      \* seat limit of each event
  participants,  \* members of each event
  history,       \* the changes made, oldest first
  req,           \* the request each session serves
  answer         \* the last answer of each session

vars == <<live, author, capacity, participants, history, req, answer>>

\* Event ids a client can name: those whose creation has been committed.
Known == {history[i].key : i \in DOMAIN history}

Change(topic, r) == [topic |-> topic, key |-> r.event, user |-> r.user]

Init ==
  /\ live = {}
  /\ author = [e \in Events |-> NoUser]
  /\ capacity = [e \in Events |-> NoCap]
  /\ participants = [e \in Events |-> {}]
  /\ history = <<>>
  /\ req = [s \in Sessions |-> NoReq]
  /\ answer = [s \in Sessions |-> "none"]

\* A client sends a request; a creation draws an id nobody uses.
Receive(s, r) ==
  /\ req[s] = NoReq
  /\ IF r.op = "create"
       THEN /\ r.event \notin Known
            /\ \A t \in Sessions : req[t] # NoReq => req[t].event # r.event
       ELSE r.event \in Known
  /\ req' = [req EXCEPT ![s] = r]
  /\ answer' = [answer EXCEPT ![s] = "none"]
  /\ UNCHANGED <<live, author, capacity, participants, history>>

\* The request of s, of kind op, has its effect; the caller learns so unless
\* the reply is lost on the way.
Effect(s, op) ==
  /\ req[s] # NoReq
  /\ req[s].op = op
  /\ req' = [req EXCEPT ![s] = NoReq]
  /\ \E a \in {"ok", "error"} : answer' = [answer EXCEPT ![s] = a]

\* The organiser holds a seat from the start.
Create(s) ==
  LET r == req[s] IN
  /\ Effect(s, "create")
  /\ live' = live \cup {r.event}
  /\ author' = [author EXCEPT ![r.event] = r.user]
  /\ capacity' = [capacity EXCEPT ![r.event] = r.cap]
  /\ participants' = [participants EXCEPT ![r.event] = {r.user}]
  /\ history' = Append(history, Change("event.created", r))

HasRoom(e) == capacity[e] # NoCap => Cardinality(participants[e]) < capacity[e]

Join(s) ==
  LET r == req[s] IN
  /\ Effect(s, "join")
  /\ r.event \in live
  /\ r.user \notin participants[r.event]
  /\ HasRoom(r.event)
  /\ participants' = [participants EXCEPT ![r.event] = @ \cup {r.user}]
  /\ history' = Append(history, Change("event.user-joined", r))
  /\ UNCHANGED <<live, author, capacity>>

Leave(s) ==
  LET r == req[s] IN
  /\ Effect(s, "leave")
  /\ r.event \in live
  /\ author[r.event] # r.user
  /\ r.user \in participants[r.event]
  /\ participants' = [participants EXCEPT ![r.event] = @ \ {r.user}]
  /\ history' = Append(history, Change("event.user-left", r))
  /\ UNCHANGED <<live, author, capacity>>

Remove(s) ==
  LET r == req[s] IN
  /\ Effect(s, "remove")
  /\ r.event \in live
  /\ author[r.event] = r.user
  /\ live' = live \ {r.event}
  /\ author' = [author EXCEPT ![r.event] = NoUser]
  /\ capacity' = [capacity EXCEPT ![r.event] = NoCap]
  /\ participants' = [participants EXCEPT ![r.event] = {}]
  /\ history' = Append(history, Change("event.deleted", r))

\* The organiser may choose any limit, one below the seats taken included.
Update(s) ==
  LET r == req[s] IN
  /\ Effect(s, "update")
  /\ r.event \in live
  /\ author[r.event] = r.user
  /\ capacity' = [capacity EXCEPT ![r.event] = r.cap]
  /\ UNCHANGED <<live, author, participants, history>>

\* When each refusal is the truth.
Justified(r, a) ==
  LET e == r.event IN
  \/ a = "error"
  \/ a = "notFound" /\ r.op # "create" /\ e \notin live
  \/ a = "forbidden" /\ e \in live
       /\ IF r.op = "leave" THEN author[e] = r.user
                            ELSE r.op \in {"remove", "update"} /\ author[e] # r.user
  \/ a = "conflict" /\ e \in live
       /\ \/ r.op = "join" /\ r.user \in participants[e]
          \/ r.op = "leave" /\ r.user \notin participants[e]
  \/ a = "full" /\ r.op = "join" /\ e \in live /\ ~HasRoom(e)

\* A refusal changes nothing and is true when it is given.
Refuse(s) ==
  /\ req[s] # NoReq
  /\ \E a \in Answers \ {"none", "ok"} :
       /\ Justified(req[s], a)
       /\ answer' = [answer EXCEPT ![s] = a]
  /\ req' = [req EXCEPT ![s] = NoReq]
  /\ UNCHANGED <<live, author, capacity, participants, history>>

Next ==
  \E s \in Sessions :
    \/ \E r \in Requests : Receive(s, r)
    \/ Create(s) \/ Join(s) \/ Leave(s) \/ Remove(s) \/ Update(s)
    \/ Refuse(s)

Spec == Init /\ [][Next]_vars
=============================================================================
