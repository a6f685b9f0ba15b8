---------------------------- MODULE OutboxRelay ----------------------------
(***************************************************************************)
(* The way of a domain event out of the backend: rows of OutboxEvent, the  *)
(* OutboxRelayService of every backend process, the Kafka log, and the     *)
(* consumers of the analytics and notifications services with their        *)
(* bounded SeenMessages.                                                   *)
(*                                                                         *)
(* Rows come from EventsService, whose rows of one event become visible in *)
(* the order of createdAt (EventStore!OutboxInCommitOrder); transactions   *)
(* of different events overlap.                                            *)
(***************************************************************************)
EXTENDS Naturals, Sequences, FiniteSets

CONSTANTS
  Rows,         \* ids of outbox rows; messageId is the row's id
  Events,       \* eventIds, the Kafka keys
  EventTopics,  \* the topics in use
  Relays,       \* backend processes, those started without OUTBOX_RELAY_DISABLED
  Services,     \* consumer services, one process and one consumer group each
  BatchSize,    \* rows of one tick (50 in the code)
  Window,       \* ids SeenMessages remembers (10 000 in the code)
  MaxFaults,    \* bound: failed queries, failed and unacknowledged publications
  MaxStops,     \* bound: backend processes that stop
  MaxRewinds    \* bound: consumer services that die and rebalances of their groups

ASSUME NumbersAssumption ==
  /\ BatchSize \in Nat \ {0}
  /\ Window \in Nat \ {0}
  /\ {MaxFaults, MaxStops, MaxRewinds} \subseteq Nat

ASSUME ServicesAssumption == Services \subseteq {"analytics", "notifications"}
ASSUME TopicsAssumption == EventTopics \subseteq {"created", "joined", "left", "deleted"}

VARIABLES
  row,        \* the committed OutboxEvent rows: event, topic, createdAt
  clock,      \* the latest createdAt
  sent,       \* rows with a sentAt
  pc,         \* the await each relay is at
  batch,      \* the rows its tick has left to publish
  stopped,    \* its onModuleDestroy ran
  published,  \* everything the broker appended, in order
  reading,    \* the services whose process runs and has joined its group
  position,   \* up to where in published each consumer has read each partition
  offset,     \* the offset each group has committed for each partition
  begun,      \* where it last took up a partition without a committed offset
  seen,       \* SeenMessages.order, oldest first
  handled,    \* ids handled since the consumer started, in order (history)
  ever,       \* ids a consumer has ever handled (history)
  faults, stops, rewinds  \* used up so far (bounds)

table == <<row, clock>>
relay == <<pc, batch, stopped>>
consumer == <<reading, position, offset, begun, seen, handled, ever>>
used == <<faults, stops, rewinds>>
vars == <<table, sent, relay, published, consumer, used>>

\* The @EventPattern handlers of a service
Topics(s) == EventTopics \cap
             IF s = "notifications" THEN {"joined", "left"}
                                    ELSE {"created", "joined", "left", "deleted"}

NoRow == [event |-> "none", topic |-> "none", createdAt |-> 0]

Committed == {m \in Rows : row[m] # NoRow}

Unsent == Committed \ sent

(***************************************************************************)
(* EventsService, as far as the table goes                                 *)
(***************************************************************************)
Count(e, t) ==
  Cardinality({m \in Committed : row[m].event = e /\ row[m].topic = t})

\* The facts of an event come in an order that makes sense.
Follows(e, t) ==
  CASE t = "created" -> Count(e, "created") = 0
    [] t = "left"    -> Count(e, "deleted") = 0 /\ Count(e, "left") < Count(e, "joined")
    [] OTHER         -> Count(e, "created") = 1 /\ Count(e, "deleted") = 0

\* A transaction with a writeOutbox commits.  Its createdAt is some moment since
\* the event's previous row, maybe before rows of other events that are visible
\* already, maybe equal to one of them.
CommitRow(m, e, t) ==
  /\ row[m] = NoRow
  /\ Follows(e, t)
  /\ \E at \in 0..clock + 1 :
       /\ \A n \in Committed : row[n].event = e => row[n].createdAt <= at
       /\ row' = [row EXCEPT ![m] = [event |-> e, topic |-> t, createdAt |-> at]]
       /\ clock' = IF at > clock THEN at ELSE clock
  /\ UNCHANGED <<sent, relay, published, consumer, used>>

(***************************************************************************)
(* OutboxRelayService.  "ticking" is TRUE from "find" to the end of the    *)
(* tick; only the timer, which waits for the tick, calls tick().           *)
(***************************************************************************)
\* tick() is over: finally ticking = false, and scheduleNext unless stopped.
EndTick(r) ==
  /\ pc' = [pc EXCEPT ![r] = IF stopped[r] THEN "off" ELSE "armed"]
  /\ batch' = [batch EXCEPT ![r] = <<>>]
  /\ UNCHANGED stopped

Fault == faults < MaxFaults /\ faults' = faults + 1 /\ UNCHANGED <<stops, rewinds>>

\* onModuleInit of a backend process that starts
Boot(r) ==
  /\ pc[r] = "off"
  /\ pc' = [pc EXCEPT ![r] = "armed"]
  /\ stopped' = [stopped EXCEPT ![r] = FALSE]
  /\ UNCHANGED <<table, sent, batch, published, consumer, used>>

\* onModuleDestroy clears the timer; a tick that is under way goes on.
Destroy(r) ==
  /\ pc[r] # "off" /\ ~stopped[r]
  /\ stops < MaxStops
  /\ stops' = stops + 1
  /\ stopped' = [stopped EXCEPT ![r] = TRUE]
  /\ pc' = [pc EXCEPT ![r] = IF @ = "armed" THEN "off" ELSE @]
  /\ UNCHANGED <<table, sent, batch, published, consumer, faults, rewinds>>

\* The process dies between two steps.
Crash(r) ==
  /\ pc[r] # "off"
  /\ stops < MaxStops
  /\ stops' = stops + 1
  /\ pc' = [pc EXCEPT ![r] = "off"]
  /\ batch' = [batch EXCEPT ![r] = <<>>]
  /\ UNCHANGED <<table, sent, stopped, published, consumer, faults, rewinds>>

\* The timer fires.
Tick(r) ==
  /\ pc[r] = "armed"
  /\ pc' = [pc EXCEPT ![r] = "find"]
  /\ UNCHANGED <<table, sent, batch, stopped, published, consumer, used>>

\* What findMany may answer: rows without sentAt, oldest createdAt first, in any
\* order where createdAt is equal, at most BatchSize of them.
Batches ==
  LET n == IF Cardinality(Unsent) < BatchSize THEN Cardinality(Unsent) ELSE BatchSize
      Older(a, b) == row[a].createdAt <= row[b].createdAt
  IN {b \in [1..n -> Unsent] :
        /\ \A i, j \in 1..n : i < j => b[i] # b[j] /\ Older(b[i], b[j])
        /\ \A m \in Unsent : (\E i \in 1..n : b[i] = m) \/ (\A i \in 1..n : Older(b[i], m))}

FindMany(r) ==
  /\ pc[r] = "find"
  /\ \E b \in Batches :
       IF b = <<>> THEN EndTick(r)
       ELSE /\ pc' = [pc EXCEPT ![r] = "emit"]
            /\ batch' = [batch EXCEPT ![r] = b]
            /\ UNCHANGED stopped
  /\ UNCHANGED <<table, sent, published, consumer, used>>

\* Mutant: tick() rejects, and nothing schedules the next one.
FindFails_NotRescheduled(r) ==
  /\ pc[r] = "find"
  /\ Fault
  /\ pc' = [pc EXCEPT ![r] = "off"]
  /\ UNCHANGED <<table, sent, batch, stopped, published, consumer>>

\* The outer catch block: nothing was read, the tick is over.
FindFails(r) ==
  /\ pc[r] = "find"
  /\ Fault
  /\ EndTick(r)
  /\ UNCHANGED <<table, sent, published, consumer>>

\* emit resolves once the broker has acknowledged the message.
Emit(r) ==
  /\ pc[r] = "emit"
  /\ published' = Append(published, Head(batch[r]))
  /\ pc' = [pc EXCEPT ![r] = "mark"]
  /\ UNCHANGED <<table, sent, batch, stopped, consumer, used>>

\* Mutant: the error is logged and the row is marked all the same.
EmitFails_Swallowed(r) ==
  /\ pc[r] = "emit"
  /\ Fault
  /\ pc' = [pc EXCEPT ![r] = "mark"]
  /\ UNCHANGED <<table, sent, batch, stopped, published, consumer>>

\* Mutant: the batch goes on with the next row.
EmitFails_SkipsRow(r) ==
  /\ pc[r] = "emit"
  /\ Fault
  /\ IF Len(batch[r]) = 1 THEN EndTick(r)
     ELSE batch' = [batch EXCEPT ![r] = Tail(@)] /\ UNCHANGED <<pc, stopped>>
  /\ UNCHANGED <<table, sent, published, consumer>>

\* emit rejects: the message is not in the log, or only its ack is missing.  The
\* inner catch block stops the batch.
EmitFails(r) ==
  /\ pc[r] = "emit"
  /\ Fault
  /\ published' \in {published, Append(published, Head(batch[r]))}
  /\ EndTick(r)
  /\ UNCHANGED <<table, sent, consumer>>

\* update sentAt, and on to the next row of the batch
MarkSent(r) ==
  /\ pc[r] = "mark"
  /\ sent' = sent \cup {Head(batch[r])}
  /\ IF Len(batch[r]) = 1 THEN EndTick(r)
     ELSE /\ pc' = [pc EXCEPT ![r] = "emit"]
          /\ batch' = [batch EXCEPT ![r] = Tail(@)]
          /\ UNCHANGED stopped
  /\ UNCHANGED <<table, published, consumer, used>>

\* update rejects, before or after the database applied it; the batch stops.
MarkFails(r) ==
  /\ pc[r] = "mark"
  /\ Fault
  /\ sent' \in {sent, sent \cup {Head(batch[r])}}
  /\ EndTick(r)
  /\ UNCHANGED <<table, published, consumer>>

(***************************************************************************)
(* Kafka and its consumers.  kafka-init creates every topic with one       *)
(* partition, and only the order inside a partition is kept.               *)
(***************************************************************************)
PartitionOf(m) == row[m].topic

Partitions == EventTopics

\* A group commits only what it has read, so never this.
NoOffset == 0

\* Mutant: what the group has committed is not asked for.
StartOf_AlwaysLatest(s, p) == Len(published)

\* subscribe: { fromBeginning: false } - a partition goes on at the committed
\* offset; without one it is taken up at its end.
StartOf(s, p) == IF offset[s][p] = NoOffset THEN Len(published) ELSE offset[s][p]

\* The member has its assignment and fetches the offsets of all its partitions.
TakeUp(s) ==
  /\ position' = [position EXCEPT ![s] = [p \in Partitions |-> StartOf(s, p)]]
  /\ begun' = [begun EXCEPT ![s] =
                 [p \in Partitions |-> IF offset[s][p] = NoOffset THEN StartOf(s, p)
                                                               ELSE begun[s][p]]]

\* bootstrap(): a new process, with an empty SeenMessages, joins its group.
Join(s) ==
  /\ s \notin reading
  /\ reading' = reading \cup {s}
  /\ TakeUp(s)
  /\ UNCHANGED <<table, sent, relay, published, offset, seen, handled, ever, used>>

\* Mutant: the newest id is forgotten (pop for shift).
Remember_ForgetsNewest(order, m) ==
  IF Len(order) = Window THEN order ELSE Append(order, m)

\* SeenMessages.add: remember the id, forget the oldest beyond the window.
Remember(order, m) ==
  LET longer == Append(order, m) IN
  IF Len(longer) > Window THEN Tail(longer) ELSE longer

\* eachMessage of one partition, the next message of its own: a duplicate is
\* skipped, everything else handled.
Consume(s, p) ==
  /\ s \in reading
  /\ p \in Topics(s)
  /\ \E i \in position[s][p] + 1..Len(published) :
       /\ PartitionOf(published[i]) = p
       /\ \A j \in position[s][p] + 1..i - 1 : PartitionOf(published[j]) # p
       /\ position' = [position EXCEPT ![s][p] = i]
       /\ IF \E k \in 1..Len(seen[s]) : seen[s][k] = published[i]
            THEN UNCHANGED <<seen, handled, ever>>
            ELSE /\ seen' = [seen EXCEPT ![s] = Remember(@, published[i])]
                 /\ handled' = [handled EXCEPT ![s] = Append(@, published[i])]
                 /\ ever' = [ever EXCEPT ![s] = @ \cup {published[i]}]
  /\ UNCHANGED <<table, sent, relay, reading, offset, begun, published, used>>

\* kafkajs commits on a schedule of its own, and only where it has read something
\* since it took up the partition.
Commit(s, p) ==
  /\ s \in reading
  /\ position[s][p] > begun[s][p]
  /\ offset' = [offset EXCEPT ![s][p] = position[s][p]]
  /\ UNCHANGED <<table, sent, relay, published, reading, position, begun,
                 seen, handled, ever, used>>

\* The group rebalances: the member takes up its partitions anew.
Rebalance(s) ==
  /\ s \in reading
  /\ rewinds < MaxRewinds
  /\ rewinds' = rewinds + 1
  /\ TakeUp(s)
  /\ UNCHANGED <<table, sent, relay, published, reading, offset, seen, handled, ever,
                 faults, stops>>

\* The process dies, and what it remembers with it.
Die(s) ==
  /\ s \in reading
  /\ rewinds < MaxRewinds
  /\ rewinds' = rewinds + 1
  /\ reading' = reading \ {s}
  /\ seen' = [seen EXCEPT ![s] = <<>>]
  /\ handled' = [handled EXCEPT ![s] = <<>>]
  /\ UNCHANGED <<table, sent, relay, published, position, offset, begun, ever,
                 faults, stops>>

(***************************************************************************)
(* Specification                                                           *)
(***************************************************************************)
Init ==
  /\ row = [m \in Rows |-> NoRow]
  /\ clock = 0
  /\ sent = {}
  /\ pc = [r \in Relays |-> "armed"]
  /\ batch = [r \in Relays |-> <<>>]
  /\ stopped = [r \in Relays |-> FALSE]
  /\ published = <<>>
  /\ reading = {}
  /\ position = [s \in Services |-> [p \in Partitions |-> 0]]
  /\ offset = [s \in Services |-> [p \in Partitions |-> NoOffset]]
  /\ begun = [s \in Services |-> [p \in Partitions |-> 0]]
  /\ seen = [s \in Services |-> <<>>]
  /\ handled = [s \in Services |-> <<>>]
  /\ ever = [s \in Services |-> {}]
  /\ faults = 0 /\ stops = 0 /\ rewinds = 0

RelayStep(r) == Tick(r) \/ FindMany(r) \/ Emit(r) \/ MarkSent(r)

RelayFails(r) == FindFails(r) \/ EmitFails(r) \/ MarkFails(r)

Next ==
  \/ \E m \in Rows, e \in Events, t \in EventTopics : CommitRow(m, e, t)
  \/ \E r \in Relays : RelayStep(r) \/ RelayFails(r) \/ Boot(r) \/ Destroy(r) \/ Crash(r)
  \/ \E s \in Services : Join(s) \/ Rebalance(s) \/ Die(s)
  \/ \E s \in Services, p \in Partitions : Consume(s, p) \/ Commit(s, p)

Spec == Init /\ [][Next]_vars

\* The event loop of a backend that runs goes on with its tick, the timer fires,
\* Kafka delivers what a partition holds, and a service that died or has not come up
\* yet joins its group (restart: on-failure).  Nobody promises to boot a backend
\* again or to commit an offset, and a failing step is never owed.
Fairness ==
  /\ \A r \in Relays : WF_vars(RelayStep(r))
  /\ \A s \in Services : WF_vars(Join(s))
  /\ \A s \in Services, p \in Partitions : WF_vars(Consume(s, p))

FairSpec == Spec /\ Fairness

(***************************************************************************)
(* Properties                                                              *)
(***************************************************************************)
PublishedRows == {published[i] : i \in 1..Len(published)}

TypeOK ==
  /\ row \in [Rows -> [event : Events \cup {"none"}, topic : EventTopics \cup {"none"},
                        createdAt : Nat]]
  /\ clock \in Nat
  /\ sent \subseteq Rows
  /\ pc \in [Relays -> {"off", "armed", "find", "emit", "mark"}]
  /\ batch \in [Relays -> Seq(Rows)]
  /\ stopped \in [Relays -> BOOLEAN]
  /\ published \in Seq(Rows)
  /\ reading \subseteq Services
  /\ position \in [Services -> [Partitions -> Nat]]
  /\ offset \in [Services -> [Partitions -> Nat]]
  /\ begun \in [Services -> [Partitions -> Nat]]
  /\ seen \in [Services -> Seq(Rows)]
  /\ \A s \in Services : Len(seen[s]) <= Window
  /\ handled \in [Services -> Seq(Rows)]
  /\ ever \in [Services -> SUBSET Rows]
  /\ faults \in 0..MaxFaults /\ stops \in 0..MaxStops /\ rewinds \in 0..MaxRewinds

\* A row leaves the relay's sight only when it is in the log: whatever fails or
\* dies between publishing and marking, no committed fact is lost.
SentIsPublished == sent \subseteq PublishedRows

\* Per-event order survives failures, restarts and a second replica: when a row is
\* published for the first time, every older committed row of its event is in the
\* log already.
PublishedInOrder ==
  \A i \in 1..Len(published) : \A n \in Committed :
    row[n].event = row[published[i]].event /\ row[n].createdAt < row[published[i]].createdAt =>
      \E j \in 1..i : published[j] = n

\* Two replicas, retries and redeliveries are harmless to a consumer that stays up:
\* it handles a message again only when Window others came in between.
DuplicatesOnlyBeyondWindow ==
  \A s \in Services : \A i, j \in 1..Len(handled[s]) :
    i < j /\ handled[s][i] = handled[s][j] => j - i > Window

\* A consumer group passes over nothing from where it first took up a partition:
\* what it skips as a duplicate was handled, by this process or by one before it.
\* Only while it has committed no offset may it begin anew further on.
NothingIsSkipped ==
  \A s \in Services, p \in Partitions : \A i \in begun[s][p] + 1..position[s][p] :
    PartitionOf(published[i]) = p => published[i] \in ever[s]

\* A committed fact a group that has committed an offset must still get: it is not
\* in the log yet, or beyond that offset.
Owed(s, m) ==
  /\ m \in Committed /\ row[m].topic \in Topics(s)
  /\ LET read == offset[s][PartitionOf(m)] IN
       /\ read # NoOffset
       /\ m \in PublishedRows => \E i \in read + 1..Len(published) : published[i] = m

\* While the backend runs, every fact owed to a service reaches it, through any
\* number of failed ticks, lost acknowledgements, rebalances and deaths.
FactsReachEveryService ==
  \A m \in Rows, s \in Services : Owed(s, m) ~> m \in ever[s]
=============================================================================
