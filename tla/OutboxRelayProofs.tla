------------------------- MODULE OutboxRelayProofs -------------------------
(***************************************************************************)
(* Proofs about OutboxRelay, for any number of rows, events, replicas of   *)
(* the relay, consumers and faults, and any batch size and window: no row  *)
(* is lost or overtaken by a younger one of its event, and a consumer      *)
(* neither skips a message nor repeats one inside its window.              *)
(***************************************************************************)
EXTENDS OutboxRelay, FiniteSetTheorems, SequenceTheorems, TLAPS

(***************************************************************************)
(* The inductive invariant                                                 *)
(***************************************************************************)
\* A tick past findMany has a row to work on, and there are finitely many rows
\* for it to choose from.
Shape ==
  /\ \A r \in Relays : pc[r] \in {"emit", "mark"} => batch[r] # <<>>
  /\ IsFiniteSet(Committed)

TypeInv == TypeOK /\ Shape

Precedes(n, m) == row[n].event = row[m].event /\ row[n].createdAt < row[m].createdAt

\* Every older row of the same event is in the log or ahead of i in the batch.
Ready(b, i) ==
  \A n \in Committed : Precedes(n, b[i]) =>
    n \in PublishedRows \/ \E j \in 1..i : j < i /\ b[j] = n

BatchOk(b) == \A i \in 1..Len(b) : b[i] \in Committed /\ Ready(b, i)

\* What a tick may rely on, whatever other replicas and transactions do meanwhile
BatchInv ==
  \A r \in Relays :
    /\ pc[r] = "mark" => batch[r][1] \in PublishedRows
    /\ BatchOk(batch[r])

LogInv == PublishedRows \subseteq Committed /\ PublishedInOrder

RelayInv == TypeInv /\ BatchInv /\ LogInv /\ SentIsPublished

\* SeenMessages holds exactly the last messages handled, up to Window of them.
WindowOk(o, h) ==
  /\ Len(o) <= Len(h) /\ (Len(o) = Window \/ Len(o) = Len(h))
  /\ \A i \in 1..Len(o) : o[i] = h[Len(h) - Len(o) + i]

\* Equal messages are more than Window apart.
Spread(h) == \A i, j \in 1..Len(h) : i < j /\ h[i] = h[j] => j - i > Window

HandlingInv == \A s \in Services : WindowOk(seen[s], handled[s]) /\ Spread(handled[s])

\* What a group has read and committed lies in the log, beyond where it began.
PositionInv ==
  \A s \in Services, p \in Partitions :
    /\ begun[s][p] <= position[s][p] /\ position[s][p] <= Len(published)
    /\ offset[s][p] # NoOffset => begun[s][p] <= offset[s][p] /\ offset[s][p] <= position[s][p]

\* What is remembered was handled once.
SeenWasHandled == \A s \in Services : \A i \in 1..Len(seen[s]) : seen[s][i] \in ever[s]

\* Needs RelayInv: a message stays in its partition because its row is committed.
ReadingInv == PositionInv /\ SeenWasHandled /\ NothingIsSkipped

ConsumerInv == RelayInv /\ HandlingInv /\ ReadingInv

(***************************************************************************)
(* Type correctness                                                        *)
(***************************************************************************)
\* A batch that has more than its head goes on with the rest.
LEMMA RestOfBatch ==
  ASSUME NEW S, NEW b \in Seq(S), b # <<>>
  PROVE  /\ Head(b) \in S /\ Head(b) = b[1] /\ Len(b) \in Nat /\ 1 <= Len(b)
         /\ Tail(b) \in Seq(S) /\ Len(Tail(b)) = Len(b) - 1
         /\ Len(b) # 1 => Tail(b) # <<>>
         /\ \A i \in 1..Len(b) - 1 : Tail(b)[i] = b[i + 1]
<1>1. /\ Head(b) \in S /\ Tail(b) \in Seq(S) /\ Len(Tail(b)) = Len(b) - 1
      /\ \A i \in 1..Len(Tail(b)) : Tail(b)[i] = b[i + 1]
  BY HeadTailProperties
<1>2. Len(b) \in Nat /\ Len(b) # 0 BY LenProperties, EmptySeq
<1>3. Len(b) # 1 => Len(Tail(b)) # 0 BY <1>1, <1>2
<1>4. Len(<<>>) = 0 BY EmptySeq
<1>5. Head(b) = b[1] OBVIOUS
<1>6. \A i \in 1..Len(b) - 1 : Tail(b)[i] = b[i + 1] BY <1>1
<1>7. Len(b) # 1 => Tail(b) # <<>> BY <1>3, <1>4
<1>8. 1 <= Len(b) BY <1>2
<1> QED BY <1>1, <1>2, <1>5, <1>6, <1>7, <1>8

LEMMA EndTickTypes ==
  ASSUME NEW r \in Relays, TypeOK, EndTick(r)
  PROVE  /\ pc' \in [Relays -> {"off", "armed", "find", "emit", "mark"}]
         /\ batch' \in [Relays -> Seq(Rows)]
         /\ stopped' = stopped
         /\ pc'[r] \in {"off", "armed"} /\ batch'[r] = <<>>
         /\ \A q \in Relays \ {r} : pc'[q] = pc[q] /\ batch'[q] = batch[q]
BY DEF EndTick, TypeOK

LEMMA FaultTypes == ASSUME TypeOK, Fault
                    PROVE  /\ faults' \in 0..MaxFaults
                           /\ stops' = stops /\ rewinds' = rewinds
BY NumbersAssumption DEF Fault, TypeOK

\* A new row is the only change of the table, and what was there stays.
LEMMA CommitRowTable ==
  ASSUME TypeOK, NEW m \in Rows, NEW e \in Events, NEW t \in EventTopics, CommitRow(m, e, t)
  PROVE  /\ row' \in [Rows -> [event : Events \cup {"none"}, topic : EventTopics \cup {"none"},
                                createdAt : Nat]]
         /\ clock' \in Nat
         /\ m \notin Committed
         /\ Committed' \subseteq Committed \cup {m}
         /\ Committed \subseteq Committed'
         /\ \A n \in Committed : row'[n] = row[n]
         /\ row'[m].event = e
         /\ \A n \in Committed : row[n].event = e => row[n].createdAt <= row'[m].createdAt
<1>1. PICK at \in 0..clock + 1 :
        /\ \A n \in Committed : row[n].event = e => row[n].createdAt <= at
        /\ row' = [row EXCEPT ![m] = [event |-> e, topic |-> t, createdAt |-> at]]
        /\ clock' = IF at > clock THEN at ELSE clock
  BY DEF CommitRow
<1>2. clock \in Nat /\ at \in Nat BY DEF TypeOK
<1>3. row[m] = NoRow BY DEF CommitRow
<1>4. row'[m] = [event |-> e, topic |-> t, createdAt |-> at] /\ \A n \in Rows \ {m} : row'[n] = row[n]
  BY <1>1 DEF TypeOK
<1>5. m \notin Committed /\ Committed \subseteq Rows BY <1>3 DEF Committed
<1>6. \A n \in Committed : row'[n] = row[n] BY <1>4, <1>5
<1>7. Committed' \subseteq Committed \cup {m} /\ Committed \subseteq Committed'
  BY <1>4, <1>5 DEF Committed
<1>8. row' \in [Rows -> [event : Events \cup {"none"}, topic : EventTopics \cup {"none"},
                          createdAt : Nat]]
  BY <1>1, <1>2 DEF TypeOK
<1> QED BY <1>1, <1>2, <1>4, <1>5, <1>6, <1>7, <1>8

\* findMany answers a sequence of unsent rows: sorted, and with nothing left out
\* that is older than what it has.
LEMMA BatchIsSorted ==
  ASSUME TypeInv, NEW b \in Batches
  PROVE  /\ b \in Seq(Rows)
         /\ \A i \in 1..Len(b) : b[i] \in Unsent
         /\ \A i, j \in 1..Len(b) : i < j => row[b[i]].createdAt <= row[b[j]].createdAt
         /\ \A m \in Unsent : \/ \E i \in 1..Len(b) : b[i] = m
                              \/ \A i \in 1..Len(b) : row[b[i]].createdAt <= row[m].createdAt
<1> DEFINE n == IF Cardinality(Unsent) < BatchSize THEN Cardinality(Unsent) ELSE BatchSize
<1>1. n \in Nat
  <2>1. IsFiniteSet(Unsent) BY FS_Subset DEF TypeInv, Shape, Unsent
  <2>2. Cardinality(Unsent) \in Nat BY <2>1, FS_CardinalityType
  <2> QED BY <2>2, NumbersAssumption
<1>2. Unsent \subseteq Rows BY DEF Unsent, Committed
<1>3. b \in [1..n -> Unsent] BY DEF Batches
<1>4. \A i, j \in 1..n : i < j => row[b[i]].createdAt <= row[b[j]].createdAt BY DEF Batches
<1>5. \A m \in Unsent : \/ \E i \in 1..n : b[i] = m
                        \/ \A i \in 1..n : row[b[i]].createdAt <= row[m].createdAt
  BY DEF Batches
<1> HIDE DEF n
<1>6. b \in Seq(Rows) /\ Len(b) = n BY <1>1, <1>2, <1>3
<1> QED BY <1>3, <1>4, <1>5, <1>6

\* All steps but CommitRow leave the table alone.
LEMMA TableStays ==
  ASSUME UNCHANGED table
  PROVE  /\ row' = row /\ clock' = clock
         /\ Committed' = Committed
         /\ \A n, m : Precedes(n, m)' = Precedes(n, m)
         /\ \A m : PartitionOf(m)' = PartitionOf(m)
BY DEF table, Committed, NoRow, Precedes, PartitionOf

LEMMA TypeInit == Init => TypeInv
<1> SUFFICES ASSUME Init PROVE TypeInv OBVIOUS
<1>1. TypeOK
  <2>1. 0 \in 0..MaxFaults /\ 0 \in 0..MaxStops /\ 0 \in 0..MaxRewinds BY NumbersAssumption
  <2>2. position \in [Services -> [Partitions -> Nat]] BY DEF Init
  <2>3. /\ offset \in [Services -> [Partitions -> Nat]]
        /\ begun \in [Services -> [Partitions -> Nat]]
    BY DEF Init, NoOffset
  <2>4. /\ row \in [Rows -> [event : Events \cup {"none"}, topic : EventTopics \cup {"none"},
                            createdAt : Nat]]
        /\ clock \in Nat /\ sent \subseteq Rows
    BY DEF Init, NoRow
  <2>5. /\ pc \in [Relays -> {"off", "armed", "find", "emit", "mark"}]
        /\ batch \in [Relays -> Seq(Rows)] /\ stopped \in [Relays -> BOOLEAN]
        /\ published \in Seq(Rows)
    BY EmptySeq DEF Init
  <2>6. /\ seen \in [Services -> Seq(Rows)] /\ \A s \in Services : Len(seen[s]) <= Window
        /\ handled \in [Services -> Seq(Rows)] /\ ever \in [Services -> SUBSET Rows]
    BY EmptySeq, NumbersAssumption DEF Init
  <2>7. reading \subseteq Services BY DEF Init
  <2>8. faults = 0 /\ stops = 0 /\ rewinds = 0 BY DEF Init
  <2> QED BY <2>1, <2>2, <2>3, <2>4, <2>5, <2>6, <2>7, <2>8 DEF TypeOK
<1>2. Committed = {} BY DEF Init, Committed
<1>3. IsFiniteSet(Committed) BY <1>2, FS_EmptySet
<1>4. \A r \in Relays : pc[r] = "armed" BY DEF Init
<1> QED BY <1>1, <1>3, <1>4 DEF TypeInv, Shape

LEMMA TypeCommitRow ==
  ASSUME TypeInv, NEW m \in Rows, NEW e \in Events, NEW t \in EventTopics, CommitRow(m, e, t)
  PROVE  TypeInv'
<1>1. TypeOK' BY CommitRowTable DEF TypeInv, TypeOK, CommitRow, relay, consumer, used
<1>2. IsFiniteSet(Committed')
  <2>1. IsFiniteSet(Committed \cup {m}) BY FS_AddElement DEF TypeInv, Shape
  <2> QED BY <2>1, CommitRowTable, FS_Subset DEF TypeInv
<1>3. UNCHANGED relay BY DEF CommitRow
<1> QED BY <1>1, <1>2, <1>3 DEF TypeInv, Shape, relay

LEMMA TypeRelayStep ==
  ASSUME TypeInv, NEW r \in Relays, RelayStep(r)
  PROVE  TypeInv'
<1> USE DEF TypeInv
<1>1. CASE Tick(r)
  <2>1. UNCHANGED table BY <1>1 DEF Tick
  <2>2. TypeOK' BY <1>1 DEF Tick, TypeOK, table, consumer, used
  <2> QED BY <1>1, <2>1, <2>2, TableStays DEF Tick, Shape, TypeOK
<1>2. CASE FindMany(r)
  <2>0. UNCHANGED table BY <1>2 DEF FindMany
  <2>1. PICK b \in Batches : IF b = <<>> THEN EndTick(r)
                             ELSE /\ pc' = [pc EXCEPT ![r] = "emit"]
                                  /\ batch' = [batch EXCEPT ![r] = b]
                                  /\ UNCHANGED stopped
    BY <1>2 DEF FindMany
  <2>2. b \in Seq(Rows) BY BatchIsSorted
  <2>3. /\ pc' \in [Relays -> {"off", "armed", "find", "emit", "mark"}]
        /\ batch' \in [Relays -> Seq(Rows)] /\ stopped' = stopped
        /\ \A q \in Relays : pc'[q] \in {"emit", "mark"} => batch'[q] # <<>>
    <3>1. CASE b = <<>> BY <2>1, <3>1, EndTickTypes DEF Shape
    <3>2. CASE b # <<>> BY <2>1, <2>2, <3>2 DEF Shape, TypeOK
    <3> QED BY <3>1, <3>2
  <2>4. TypeOK' BY <1>2, <2>3 DEF FindMany, TypeOK, table, consumer, used
  <2> QED BY <2>0, <2>3, <2>4, TableStays DEF Shape
<1>3. CASE Emit(r)
  <2>1. UNCHANGED table BY <1>3 DEF Emit
  <2>2. Head(batch[r]) \in Rows BY <1>3 DEF Emit, Shape, TypeOK
  <2>3. TypeOK' BY <1>3, <2>2 DEF Emit, TypeOK, table, consumer, used
  <2> QED BY <1>3, <2>1, <2>3, TableStays DEF Emit, Shape, TypeOK
<1>4. CASE MarkSent(r)
  <2>1. UNCHANGED table BY <1>4 DEF MarkSent
  <2>2. batch[r] \in Seq(Rows) /\ batch[r] # <<>> BY <1>4 DEF MarkSent, Shape, TypeOK
  <2>3. Head(batch[r]) \in Rows BY <2>2
  <2>4. /\ pc' \in [Relays -> {"off", "armed", "find", "emit", "mark"}]
        /\ batch' \in [Relays -> Seq(Rows)] /\ stopped' = stopped
        /\ \A q \in Relays : pc'[q] \in {"emit", "mark"} => batch'[q] # <<>>
    <3>1. CASE Len(batch[r]) = 1 BY <1>4, <3>1, EndTickTypes DEF MarkSent, Shape
    <3>2. CASE Len(batch[r]) # 1
      <4>1. Tail(batch[r]) \in Seq(Rows) /\ Tail(batch[r]) # <<>> BY <2>2, <3>2, RestOfBatch
      <4> QED BY <1>4, <3>2, <4>1 DEF MarkSent, Shape, TypeOK
    <3> QED BY <3>1, <3>2
  <2>5. sent' \subseteq Rows BY <1>4, <2>3 DEF MarkSent, TypeOK
  <2>6. UNCHANGED <<table, published, consumer, used>> BY <1>4 DEF MarkSent
  <2>7. TypeOK' BY <2>4, <2>5, <2>6 DEF TypeOK, table, consumer, used
  <2> QED BY <2>1, <2>4, <2>7, TableStays DEF Shape
<1> QED BY <1>1, <1>2, <1>3, <1>4 DEF RelayStep

LEMMA TypeRelayFails ==
  ASSUME TypeInv, NEW r \in Relays, RelayFails(r)
  PROVE  TypeInv'
<1> USE DEF TypeInv
<1>1. EndTick(r) /\ Fault /\ UNCHANGED table /\ UNCHANGED consumer
  BY DEF RelayFails, FindFails, EmitFails, MarkFails
<1>2. published' \in Seq(Rows) /\ sent' \subseteq Rows
  <2>1. CASE FindFails(r) BY <2>1 DEF FindFails, TypeOK
  <2>2. CASE EmitFails(r)
    <3>1. Head(batch[r]) \in Rows BY <2>2 DEF EmitFails, Shape, TypeOK
    <3>2. published \in Seq(Rows) /\ Append(published, Head(batch[r])) \in Seq(Rows)
      BY <3>1 DEF TypeOK
    <3>3. published' = published \/ published' = Append(published, Head(batch[r]))
      BY <2>2 DEF EmitFails
    <3>4. sent' = sent BY <2>2 DEF EmitFails
    <3> QED BY <3>2, <3>3, <3>4 DEF TypeOK
  <2>3. CASE MarkFails(r)
    <3>1. Head(batch[r]) \in Rows BY <2>3 DEF MarkFails, Shape, TypeOK
    <3> QED BY <2>3, <3>1 DEF MarkFails, TypeOK
  <2> QED BY <2>1, <2>2, <2>3 DEF RelayFails
<1>3. TypeOK' BY <1>1, <1>2, EndTickTypes, FaultTypes DEF TypeOK, table, consumer
<1> QED BY <1>1, <1>3, EndTickTypes, TableStays DEF Shape

LEMMA TypeProcess ==
  ASSUME TypeInv, NEW r \in Relays, Boot(r) \/ Destroy(r) \/ Crash(r)
  PROVE  TypeInv'
<1> USE DEF TypeInv
<1>1. UNCHANGED table BY DEF Boot, Destroy, Crash
<1>2. TypeOK'
  <2>1. CASE Boot(r) BY <2>1 DEF Boot, TypeOK, table, consumer, used
  <2>2. CASE Destroy(r) BY <2>2, NumbersAssumption DEF Destroy, TypeOK, table, consumer
  <2>3. CASE Crash(r) BY <2>3, NumbersAssumption DEF Crash, TypeOK, table, consumer
  <2> QED BY <2>1, <2>2, <2>3
<1>3. \A q \in Relays : pc'[q] \in {"emit", "mark"} => batch'[q] # <<>>
  BY DEF Boot, Destroy, Crash, Shape, TypeOK
<1> QED BY <1>1, <1>2, <1>3, TableStays DEF Shape

\* SeenMessages never outgrows its window, and only forgets its oldest id.
LEMMA RememberProperties ==
  ASSUME NEW o \in Seq(Rows), Len(o) <= Window, NEW m \in Rows
  PROVE  LET new == Remember(o, m) IN
         /\ new \in Seq(Rows) /\ Len(new) <= Window
         /\ Len(o) = Window => /\ Len(new) = Window /\ new[Window] = m
                               /\ \A i \in 1..Window - 1 : new[i] = o[i + 1]
         /\ Len(o) # Window => /\ Len(new) = Len(o) + 1 /\ new[Len(o) + 1] = m
                               /\ \A i \in 1..Len(o) : new[i] = o[i]
<1> DEFINE longer == Append(o, m)
<1>1. /\ longer \in Seq(Rows) /\ Len(longer) = Len(o) + 1 /\ longer # <<>>
      /\ longer[Len(o) + 1] = m /\ \A i \in 1..Len(o) : longer[i] = o[i]
  BY AppendProperties
<1>2. Len(o) \in Nat /\ Window \in Nat \ {0} BY LenProperties, NumbersAssumption
<1>3. /\ Tail(longer) \in Seq(Rows) /\ Len(Tail(longer)) = Len(longer) - 1
      /\ \A i \in 1..Len(longer) - 1 : Tail(longer)[i] = longer[i + 1]
  BY <1>1, RestOfBatch
<1>4. Remember(o, m) = IF Len(longer) > Window THEN Tail(longer) ELSE longer BY DEF Remember
<1> HIDE DEF longer
<1>5. CASE Len(o) = Window
  <2>1. Remember(o, m) = Tail(longer) /\ Len(Tail(longer)) = Window
    BY <1>1, <1>2, <1>3, <1>4, <1>5
  <2>2. Tail(longer)[Window] = m BY <1>1, <1>2, <1>3, <1>5
  <2>3. \A i \in 1..Window - 1 : Tail(longer)[i] = o[i + 1] BY <1>1, <1>2, <1>3, <1>5
  <2> QED BY <1>2, <1>3, <1>5, <2>1, <2>2, <2>3
<1>6. CASE Len(o) # Window
  <2>1. Remember(o, m) = longer BY <1>1, <1>2, <1>4, <1>6
  <2>2. Len(longer) <= Window BY <1>1, <1>2, <1>6
  <2> QED BY <1>1, <1>6, <2>1, <2>2
<1> QED BY <1>5, <1>6

\* What one delivery does: a message is skipped as seen or handled.
LEMMA ConsumeCases ==
  ASSUME TypeOK, NEW s \in Services, NEW p \in Partitions, Consume(s, p)
  PROVE  \E i \in 1..Len(published) :
           LET m == published[i] IN
           /\ m \in Rows /\ PartitionOf(m) = p /\ i > position[s][p]
           /\ \A j \in 1..i : PartitionOf(published[j]) = p => j <= position[s][p] \/ j = i
           /\ position' = [position EXCEPT ![s][p] = i]
           /\ \/ /\ \E k \in 1..Len(seen[s]) : seen[s][k] = m
                 /\ UNCHANGED <<seen, handled, ever>>
              \/ /\ \A k \in 1..Len(seen[s]) : seen[s][k] # m
                 /\ seen' = [seen EXCEPT ![s] = Remember(@, m)]
                 /\ handled' = [handled EXCEPT ![s] = Append(@, m)]
                 /\ ever' = [ever EXCEPT ![s] = @ \cup {m}]
<1>1. PICK i \in position[s][p] + 1..Len(published) :
        /\ PartitionOf(published[i]) = p
        /\ \A j \in position[s][p] + 1..i - 1 : PartitionOf(published[j]) # p
        /\ position' = [position EXCEPT ![s][p] = i]
        /\ IF \E k \in 1..Len(seen[s]) : seen[s][k] = published[i]
             THEN UNCHANGED <<seen, handled, ever>>
             ELSE /\ seen' = [seen EXCEPT ![s] = Remember(@, published[i])]
                  /\ handled' = [handled EXCEPT ![s] = Append(@, published[i])]
                  /\ ever' = [ever EXCEPT ![s] = @ \cup {published[i]}]
  BY DEF Consume
<1>2. position[s][p] \in Nat /\ Len(published) \in Nat BY DEF TypeOK
<1>3. i \in 1..Len(published) /\ i > position[s][p] BY <1>2
<1>4. published[i] \in Rows BY <1>3 DEF TypeOK
<1>5. \A j \in 1..i : PartitionOf(published[j]) = p => j <= position[s][p] \/ j = i
  BY <1>1, <1>2, <1>3
<1> QED BY <1>1, <1>3, <1>4, <1>5

\* Where a member takes up its partitions
LEMMA TakeUpPlaces ==
  ASSUME TypeOK, NEW s \in Services, TakeUp(s)
  PROVE  /\ position' \in [Services -> [Partitions -> Nat]]
         /\ begun' \in [Services -> [Partitions -> Nat]]
         /\ \A q \in Services \ {s} : position'[q] = position[q] /\ begun'[q] = begun[q]
         /\ \A p \in Partitions :
              IF offset[s][p] = NoOffset
                THEN position'[s][p] = Len(published) /\ begun'[s][p] = Len(published)
                ELSE position'[s][p] = offset[s][p] /\ begun'[s][p] = begun[s][p]
<1>1. Len(published) \in Nat BY DEF TypeOK
<1>2. \A p \in Partitions : StartOf(s, p) \in Nat /\ begun[s][p] \in Nat
  BY <1>1 DEF StartOf, TypeOK
<1>3. position' = [position EXCEPT ![s] = [p \in Partitions |-> StartOf(s, p)]]
  BY DEF TakeUp
<1>4. begun' = [begun EXCEPT ![s] =
                 [p \in Partitions |-> IF offset[s][p] = NoOffset THEN StartOf(s, p)
                                                               ELSE begun[s][p]]]
  BY DEF TakeUp
<1>5. position' \in [Services -> [Partitions -> Nat]] BY <1>2, <1>3 DEF TypeOK
<1>6. begun' \in [Services -> [Partitions -> Nat]] BY <1>2, <1>4 DEF TypeOK
<1>7. \A p \in Partitions : position'[s][p] = StartOf(s, p) BY <1>3 DEF TypeOK
<1>8. \A p \in Partitions :
        begun'[s][p] = IF offset[s][p] = NoOffset THEN StartOf(s, p) ELSE begun[s][p]
  BY <1>4 DEF TypeOK
<1>9. \A q \in Services \ {s} : position'[q] = position[q] /\ begun'[q] = begun[q]
  BY <1>3, <1>4 DEF TypeOK
<1> QED BY <1>5, <1>6, <1>7, <1>8, <1>9 DEF StartOf

LEMMA TypeConsumer ==
  ASSUME TypeInv, NEW s \in Services, NEW p \in Partitions,
         Consume(s, p) \/ Commit(s, p)
  PROVE  TypeInv'
<1> USE DEF TypeInv
<1>1. UNCHANGED <<table, sent, relay, published>> BY DEF Consume, Commit
<1>2. CASE Consume(s, p)
  <2>1. PICK i \in 1..Len(published) :
          /\ published[i] \in Rows
          /\ position' = [position EXCEPT ![s][p] = i]
          /\ \/ UNCHANGED <<seen, handled, ever>>
             \/ /\ seen' = [seen EXCEPT ![s] = Remember(@, published[i])]
                /\ handled' = [handled EXCEPT ![s] = Append(@, published[i])]
                /\ ever' = [ever EXCEPT ![s] = @ \cup {published[i]}]
    BY <1>2, ConsumeCases
  <2>2. seen[s] \in Seq(Rows) /\ Len(seen[s]) <= Window BY DEF TypeOK
  <2>3. Remember(seen[s], published[i]) \in Seq(Rows) /\ Len(Remember(seen[s], published[i])) <= Window
    BY <2>1, <2>2, RememberProperties
  <2>4. position' \in [Services -> [Partitions -> Nat]]
    <3>1. i \in Nat BY <2>1 DEF TypeOK
    <3> QED BY <2>1, <3>1 DEF TypeOK
  <2>5. /\ seen' \in [Services -> Seq(Rows)] /\ \A q \in Services : Len(seen'[q]) <= Window
        /\ handled' \in [Services -> Seq(Rows)] /\ ever' \in [Services -> SUBSET Rows]
    <3>1. CASE UNCHANGED <<seen, handled, ever>> BY <3>1 DEF TypeOK
    <3>2. CASE /\ seen' = [seen EXCEPT ![s] = Remember(@, published[i])]
               /\ handled' = [handled EXCEPT ![s] = Append(@, published[i])]
               /\ ever' = [ever EXCEPT ![s] = @ \cup {published[i]}]
      <4>1. Append(handled[s], published[i]) \in Seq(Rows) BY <2>1, AppendProperties DEF TypeOK
      <4>2. handled' \in [Services -> Seq(Rows)] BY <3>2, <4>1 DEF TypeOK
      <4>3. seen' \in [Services -> Seq(Rows)] /\ \A q \in Services : Len(seen'[q]) <= Window
        BY <2>3, <3>2 DEF TypeOK
      <4>4. ever' \in [Services -> SUBSET Rows] BY <2>1, <3>2 DEF TypeOK
      <4> QED BY <4>2, <4>3, <4>4
    <3> QED BY <2>1, <3>1, <3>2
  <2>6. UNCHANGED <<reading, offset, begun, used>> BY <1>2 DEF Consume
  <2>7. TypeOK' BY <1>1, <2>4, <2>5, <2>6 DEF TypeOK, table, relay, used
  <2> QED BY <1>1, <2>7, TableStays DEF Shape, relay
<1>3. CASE Commit(s, p)
  <2>1. offset' \in [Services -> [Partitions -> Nat]]
    <3>1. position[s][p] \in Nat BY DEF TypeOK
    <3>2. offset' = [offset EXCEPT ![s][p] = position[s][p]] BY <1>3 DEF Commit
    <3> QED BY <3>1, <3>2 DEF TypeOK
  <2>2. UNCHANGED <<reading, position, begun, seen, handled, ever, used>> BY <1>3 DEF Commit
  <2>3. TypeOK' BY <1>1, <2>1, <2>2 DEF TypeOK, table, relay, used
  <2> QED BY <1>1, <2>3, TableStays DEF Shape, relay
<1> QED BY <1>2, <1>3

LEMMA TypeGroup ==
  ASSUME TypeInv, NEW s \in Services, Join(s) \/ Rebalance(s) \/ Die(s)
  PROVE  TypeInv'
<1> USE DEF TypeInv
<1>1. UNCHANGED <<table, sent, relay, published, offset, ever, faults, stops>>
  BY DEF Join, Rebalance, Die, used
<1>2. reading' \subseteq Services BY DEF Join, Rebalance, Die, TypeOK
<1>3. rewinds' \in 0..MaxRewinds
  BY NumbersAssumption DEF Join, Rebalance, Die, TypeOK, used
<1>4. position' \in [Services -> [Partitions -> Nat]] /\ begun' \in [Services -> [Partitions -> Nat]]
  <2>1. CASE TakeUp(s) BY <2>1, TakeUpPlaces
  <2>2. CASE Die(s) BY <2>2 DEF Die, TypeOK
  <2> QED BY <2>1, <2>2 DEF Join, Rebalance
<1>5. /\ seen' \in [Services -> Seq(Rows)] /\ \A q \in Services : Len(seen'[q]) <= Window
      /\ handled' \in [Services -> Seq(Rows)]
  <2>1. CASE Die(s)
    <3>1. <<>> \in Seq(Rows) /\ Len(<<>>) <= Window BY EmptySeq, NumbersAssumption
    <3> QED BY <2>1, <3>1 DEF Die, TypeOK
  <2>2. CASE Join(s) \/ Rebalance(s) BY <2>2 DEF Join, Rebalance, TypeOK
  <2> QED BY <2>1, <2>2
<1>6. TypeOK' BY <1>1, <1>2, <1>3, <1>4, <1>5 DEF TypeOK, table, relay
<1> QED BY <1>1, <1>6, TableStays DEF Shape, relay

LEMMA TypeStutter == ASSUME TypeInv, UNCHANGED vars PROVE TypeInv'
BY TableStays DEF TypeInv, TypeOK, Shape, vars, table, relay, consumer, used

LEMMA TypeNext == TypeInv /\ [Next]_vars => TypeInv'
BY TypeCommitRow, TypeRelayStep, TypeRelayFails, TypeProcess, TypeConsumer, TypeGroup,
   TypeStutter DEF Next

\* The type invariant of the relay and its consumers.
THEOREM TypeCorrect == Spec => []TypeOK
<1>1. Spec => []TypeInv BY TypeInit, TypeNext, PTL DEF Spec
<1>2. TypeInv => TypeOK BY DEF TypeInv
<1> QED BY <1>1, <1>2, PTL

(***************************************************************************)
(* Nothing is lost, nothing is overtaken                                   *)
(***************************************************************************)
LEMMA RelayInit == Init => RelayInv
<1> SUFFICES ASSUME Init PROVE RelayInv OBVIOUS
<1>1. /\ \A r \in Relays : pc[r] = "armed" /\ batch[r] = <<>>
      /\ published = <<>> /\ sent = {}
  BY DEF Init
<1>2. Len(<<>>) = 0 BY EmptySeq
<1>3. PublishedRows = {} BY <1>1, <1>2 DEF PublishedRows
<1>4. BatchInv BY <1>1, <1>2 DEF BatchInv, BatchOk
<1>5. LogInv BY <1>1, <1>2, <1>3 DEF LogInv, PublishedInOrder
<1>6. SentIsPublished BY <1>1 DEF SentIsPublished
<1> QED BY <1>4, <1>5, <1>6, TypeInit DEF RelayInv

\* What findMany answers is in order: an older row of the same event was sent, or
\* is unsent and then comes first.
LEMMA BatchStarts ==
  ASSUME TypeInv, SentIsPublished, NEW b \in Batches
  PROVE  b \in Seq(Rows) /\ BatchOk(b)
<1>1. b \in Seq(Rows) BY BatchIsSorted
<1>2. ASSUME NEW i \in 1..Len(b) PROVE b[i] \in Committed /\ Ready(b, i)
  <2>1. b[i] \in Committed BY BatchIsSorted DEF Unsent
  <2>2. SUFFICES ASSUME NEW n \in Committed, Precedes(n, b[i]), n \notin PublishedRows
                 PROVE  \E j \in 1..i : j < i /\ b[j] = n
    BY <2>1 DEF Ready
  <2>3. n \in Unsent BY <2>2 DEF SentIsPublished, Unsent
  <2>4. row[n].createdAt \in Nat /\ row[b[i]].createdAt \in Nat
    BY <2>1, <2>2 DEF TypeInv, TypeOK, Committed
  <2>5. row[n].createdAt < row[b[i]].createdAt BY <2>2 DEF Precedes
  <2>6. PICK j \in 1..Len(b) : b[j] = n BY <2>3, <2>4, <2>5, BatchIsSorted
  <2>7. i \in Nat /\ j \in Nat BY <1>1
  <2>8. j # i BY <2>4, <2>5, <2>6
  <2>9. ~(i < j) BY <2>4, <2>5, <2>6, BatchIsSorted
  <2> QED BY <2>6, <2>7, <2>8, <2>9
<1> QED BY <1>1, <1>2 DEF BatchOk

\* The rest of a batch whose head is in the log is in order.
LEMMA BatchContinues ==
  ASSUME NEW b \in Seq(Rows), b # <<>>, BatchOk(b), b[1] \in PublishedRows
  PROVE  BatchOk(Tail(b))
<1>1. /\ Len(b) \in Nat /\ Len(Tail(b)) = Len(b) - 1
      /\ \A i \in 1..Len(b) - 1 : Tail(b)[i] = b[i + 1]
  BY RestOfBatch
<1>2. SUFFICES ASSUME NEW i \in 1..Len(b) - 1
               PROVE  Tail(b)[i] \in Committed /\ Ready(Tail(b), i)
  BY <1>1 DEF BatchOk
<1>3. i + 1 \in 1..Len(b) /\ Tail(b)[i] = b[i + 1] BY <1>1
<1>4. b[i + 1] \in Committed /\ Ready(b, i + 1) BY <1>3 DEF BatchOk
<1>5. SUFFICES ASSUME NEW n \in Committed, Precedes(n, b[i + 1]), n \notin PublishedRows
               PROVE  \E j \in 1..i : j < i /\ Tail(b)[j] = n
  BY <1>3, <1>4 DEF Ready
<1>6. PICK j \in 1..i + 1 : j < i + 1 /\ b[j] = n BY <1>4, <1>5 DEF Ready
<1>7. j # 1 BY <1>5, <1>6
<1>8. j - 1 \in 1..i /\ j - 1 < i BY <1>6, <1>7
<1>9. Tail(b)[j - 1] = b[j] BY <1>1, <1>6, <1>8
<1> QED BY <1>6, <1>8, <1>9

\* Batches stay in order while the table keeps and the log only grows.
LEMMA BatchesStay ==
  ASSUME UNCHANGED table, PublishedRows \subseteq PublishedRows', NEW b, BatchOk(b)
  PROVE  \A i \in 1..Len(b) : b[i] \in Committed' /\ Ready(b, i)'
BY TableStays DEF BatchOk, Ready

LEMMA LogStays ==
  ASSUME LogInv, UNCHANGED table, published' = published
  PROVE  LogInv' /\ PublishedRows' = PublishedRows
BY TableStays DEF LogInv, PublishedInOrder, PublishedRows, table

\* Appending a row with nothing older outstanding keeps the log in order.
LEMMA Publishing ==
  ASSUME TypeInv, BatchInv, LogInv, UNCHANGED table, NEW r \in Relays, batch[r] # <<>>,
         published' = Append(published, Head(batch[r]))
  PROVE  LogInv' /\ PublishedRows' = PublishedRows \cup {batch[r][1]}
<1> DEFINE m == batch[r][1]
<1>1. batch[r] \in Seq(Rows) /\ published \in Seq(Rows) BY DEF TypeInv, TypeOK
<1>2. Head(batch[r]) = m /\ m \in Rows /\ 1 \in 1..Len(batch[r]) BY <1>1, RestOfBatch
<1>3. m \in Committed /\ Ready(batch[r], 1) BY <1>2 DEF BatchInv, BatchOk
<1>4. \A n \in Committed : Precedes(n, m) => n \in PublishedRows BY <1>3 DEF Ready
<1> HIDE DEF m
<1>5. /\ Len(published') = Len(published) + 1 /\ Len(published) \in Nat
      /\ published'[Len(published) + 1] = m
      /\ \A i \in 1..Len(published) : published'[i] = published[i]
  BY <1>1, <1>2, AppendProperties, LenProperties
<1>6. PublishedRows' = PublishedRows \cup {m}
  <2>1. \A i \in 1..Len(published) + 1 : i \in 1..Len(published) \/ i = Len(published) + 1
    BY <1>5
  <2>2. \A i \in 1..Len(published) : i \in 1..Len(published) + 1 BY <1>5
  <2>3. Len(published) + 1 \in 1..Len(published) + 1 BY <1>5
  <2> QED BY <1>5, <2>1, <2>2, <2>3 DEF PublishedRows
<1>7. PublishedInOrder'
  <2>1. SUFFICES ASSUME NEW i \in 1..Len(published) + 1, NEW n \in Committed,
                        Precedes(n, published'[i])
                 PROVE  \E j \in 1..i : published'[j] = n
    BY <1>5, TableStays DEF PublishedInOrder, Precedes, table
  <2>2. CASE i = Len(published) + 1
    <3>1. n \in PublishedRows BY <1>4, <1>5, <2>1, <2>2
    <3>2. PICK j \in 1..Len(published) : published[j] = n BY <3>1 DEF PublishedRows
    <3> QED BY <1>5, <2>2, <3>2
  <2>3. CASE i # Len(published) + 1
    <3>1. i \in 1..Len(published) BY <1>5, <2>3
    <3>2. Precedes(n, published[i]) BY <1>5, <2>1, <3>1
    <3>3. PICK j \in 1..i : published[j] = n
      BY <3>1, <3>2 DEF LogInv, PublishedInOrder, Precedes
    <3>4. j \in 1..Len(published) BY <1>5, <3>1
    <3> QED BY <1>5, <3>3, <3>4
  <2> QED BY <2>2, <2>3
<1> QED BY <1>3, <1>6, <1>7, TableStays DEF LogInv, m

\* Only r moved, to a batch that is in order; the others keep theirs.
LEMMA BatchInvStays ==
  ASSUME TypeInv, BatchInv, UNCHANGED table, PublishedRows \subseteq PublishedRows',
         NEW r \in Relays,
         \A q \in Relays \ {r} : pc'[q] = pc[q] /\ batch'[q] = batch[q],
         pc'[r] = "mark" => batch'[r][1] \in PublishedRows',
         BatchOk(batch'[r])
  PROVE  BatchInv'
<1>1. \A b : BatchOk(b) => \A i \in 1..Len(b) : b[i] \in Committed' /\ Ready(b, i)'
  BY BatchesStay
<1>2. ASSUME NEW q \in Relays PROVE BatchOk(batch'[q])
  BY <1>2 DEF BatchInv
<1>3. ASSUME NEW q \in Relays PROVE pc'[q] = "mark" => batch'[q][1] \in PublishedRows'
  BY <1>3 DEF BatchInv
<1>4. ASSUME NEW q \in Relays, NEW i \in 1..Len(batch'[q])
      PROVE  /\ batch'[q][i] \in Committed'
             /\ \A n \in Committed' : Precedes(n, batch[q][i])' =>
                  n \in PublishedRows' \/ \E j \in 1..i : j < i /\ batch'[q][j] = n
  BY <1>1, <1>2, <1>4 DEF Ready, Precedes
<1> QED BY <1>3, <1>4 DEF BatchInv, BatchOk, Ready

LEMMA RelayCommitRow ==
  ASSUME RelayInv, NEW m \in Rows, NEW e \in Events, NEW t \in EventTopics, CommitRow(m, e, t)
  PROVE  RelayInv'
<1>0. TypeInv /\ TypeOK BY DEF RelayInv, TypeInv
<1>1. TypeInv' BY <1>0, TypeCommitRow
<1>2. UNCHANGED <<sent, pc, batch, published>> BY DEF CommitRow, relay
<1>3. PublishedRows' = PublishedRows BY <1>2 DEF PublishedRows
<1>4. ASSUME NEW n \in Committed', NEW k \in Committed, row'[n].event = row'[k].event,
             row'[n].createdAt < row'[k].createdAt
      PROVE  n \in Committed /\ Precedes(n, k)
  <2>1. row'[k] = row[k] BY <1>0, CommitRowTable
  <2>2. n \in Committed => row'[n] = row[n] BY <1>0, CommitRowTable
  <2>3. CASE n \in Committed BY <1>4, <2>1, <2>2, <2>3 DEF Precedes
  <2>4. CASE n \notin Committed
    <3>1. n = m BY <1>0, <2>4, CommitRowTable
    <3>2. row[k].createdAt <= row'[m].createdAt BY <1>0, <1>4, <2>1, <3>1, CommitRowTable
    <3>3. k \in Rows BY DEF Committed
    <3>4. row[k].createdAt \in Nat /\ row'[m].createdAt \in Nat
      BY <1>0, <3>3, CommitRowTable DEF TypeOK
    <3> QED BY <1>4, <2>1, <3>1, <3>2, <3>4
  <2> QED BY <2>3, <2>4
<1>5. Committed \subseteq Committed' BY <1>0, CommitRowTable
<1>6. BatchInv'
  <2>1. SUFFICES ASSUME NEW q \in Relays
                 PROVE  /\ pc[q] = "mark" => batch[q][1] \in PublishedRows
                        /\ \A i \in 1..Len(batch[q]) : batch[q][i] \in Committed' /\ Ready(batch[q], i)'
    BY <1>2, <1>3 DEF BatchInv, BatchOk
  <2>2. BatchOk(batch[q]) /\ (pc[q] = "mark" => batch[q][1] \in PublishedRows)
    BY DEF RelayInv, BatchInv
  <2>3. ASSUME NEW i \in 1..Len(batch[q]) PROVE batch[q][i] \in Committed' /\ Ready(batch[q], i)'
    <3>1. batch[q][i] \in Committed /\ Ready(batch[q], i) BY <2>2, <2>3 DEF BatchOk
    <3>2. ASSUME NEW n \in Committed', Precedes(n, batch[q][i])'
          PROVE  n \in PublishedRows \/ \E j \in 1..i : j < i /\ batch[q][j] = n
      <4>1. n \in Committed /\ Precedes(n, batch[q][i])
        BY <1>2, <1>4, <3>1, <3>2 DEF Precedes
      <4> QED BY <3>1, <4>1 DEF Ready
    <3> QED BY <1>2, <1>3, <1>5, <3>1, <3>2 DEF Ready
  <2> QED BY <2>2, <2>3
<1>7. LogInv'
  <2>1. PublishedRows \subseteq Committed BY DEF RelayInv, LogInv
  <2>2. SUFFICES ASSUME NEW i \in 1..Len(published), NEW n \in Committed',
                        row'[n].event = row'[published[i]].event,
                        row'[n].createdAt < row'[published[i]].createdAt
                 PROVE  \E j \in 1..i : published[j] = n
    BY <1>2, <1>3, <1>5, <2>1 DEF LogInv, PublishedInOrder
  <2>3. published[i] \in Committed BY <2>1, <2>2 DEF PublishedRows
  <2>4. n \in Committed /\ Precedes(n, published[i]) BY <1>4, <2>2, <2>3
  <2> QED BY <2>2, <2>4 DEF RelayInv, LogInv, PublishedInOrder, Precedes
<1>8. SentIsPublished' BY <1>2, <1>3 DEF RelayInv, SentIsPublished
<1> QED BY <1>1, <1>6, <1>7, <1>8 DEF RelayInv

LEMMA EmptyBatchOk == BatchOk(<<>>)
BY EmptySeq DEF BatchOk

LEMMA RelayStays ==
  ASSUME RelayInv, TypeInv', UNCHANGED <<table, sent, pc, batch, published>>
  PROVE  RelayInv'
<1>1. LogInv' /\ PublishedRows' = PublishedRows BY LogStays DEF RelayInv
<1>2. BatchInv'
  BY <1>1, TableStays DEF RelayInv, BatchInv, BatchOk, Ready
<1>3. SentIsPublished' BY <1>1 DEF RelayInv, SentIsPublished
<1> QED BY <1>1, <1>2, <1>3 DEF RelayInv

LEMMA RelayRelayStep ==
  ASSUME RelayInv, NEW r \in Relays, RelayStep(r)
  PROVE  RelayInv'
<1>0. TypeInv /\ TypeOK /\ BatchInv /\ LogInv /\ SentIsPublished BY DEF RelayInv, TypeInv
<1>1. TypeInv' BY <1>0, TypeRelayStep
<1>2. BatchOk(batch[r]) /\ (pc[r] = "mark" => batch[r][1] \in PublishedRows) BY <1>0 DEF BatchInv
<1>3. CASE Tick(r)
  <2>1. UNCHANGED <<table, sent, batch, published>> BY <1>3 DEF Tick
  <2>2. LogInv' /\ PublishedRows' = PublishedRows BY <1>0, <2>1, LogStays
  <2>3. pc'[r] = "find" /\ \A q \in Relays \ {r} : pc'[q] = pc[q] BY <1>0, <1>3 DEF Tick, TypeOK
  <2>4. BatchInv' BY <1>0, <1>2, <2>1, <2>2, <2>3, BatchInvStays
  <2>5. SentIsPublished' BY <1>0, <2>1, <2>2 DEF SentIsPublished
  <2> QED BY <1>1, <2>2, <2>4, <2>5 DEF RelayInv
<1>4. CASE FindMany(r)
  <2>1. UNCHANGED <<table, sent, published>> BY <1>4 DEF FindMany
  <2>2. LogInv' /\ PublishedRows' = PublishedRows BY <1>0, <2>1, LogStays
  <2>3. PICK b \in Batches : IF b = <<>> THEN EndTick(r)
                             ELSE /\ pc' = [pc EXCEPT ![r] = "emit"]
                                  /\ batch' = [batch EXCEPT ![r] = b]
                                  /\ UNCHANGED stopped
    BY <1>4 DEF FindMany
  <2>4. BatchOk(b) BY <1>0, BatchStarts
  <2>5. /\ pc'[r] # "mark" /\ BatchOk(batch'[r])
        /\ \A q \in Relays \ {r} : pc'[q] = pc[q] /\ batch'[q] = batch[q]
    <3>1. CASE b = <<>> BY <1>0, <2>3, <3>1, EndTickTypes, EmptyBatchOk
    <3>2. CASE b # <<>> BY <1>0, <2>3, <2>4, <3>2 DEF TypeOK
    <3> QED BY <3>1, <3>2
  <2>6. BatchInv' BY <1>0, <2>1, <2>2, <2>5, BatchInvStays
  <2>7. SentIsPublished' BY <1>0, <2>1, <2>2 DEF SentIsPublished
  <2> QED BY <1>1, <2>2, <2>6, <2>7 DEF RelayInv
<1>5. CASE Emit(r)
  <2>1. UNCHANGED <<table, sent, batch>> /\ batch[r] # <<>>
    BY <1>0, <1>5 DEF Emit, TypeInv, Shape
  <2>2. LogInv' /\ PublishedRows' = PublishedRows \cup {batch[r][1]}
    BY <1>0, <1>5, <2>1, Publishing DEF Emit
  <2>3. \A q \in Relays \ {r} : pc'[q] = pc[q] /\ batch'[q] = batch[q]
    BY <1>0, <1>5, <2>1 DEF Emit, TypeOK
  <2>4. BatchInv' BY <1>0, <1>2, <2>1, <2>2, <2>3, BatchInvStays
  <2>5. SentIsPublished' BY <1>0, <2>1, <2>2 DEF SentIsPublished
  <2> QED BY <1>1, <2>2, <2>4, <2>5 DEF RelayInv
<1>6. CASE MarkSent(r)
  <2>1. UNCHANGED <<table, published>> /\ pc[r] = "mark" BY <1>6 DEF MarkSent
  <2>2. LogInv' /\ PublishedRows' = PublishedRows BY <1>0, <2>1, LogStays
  <2>3. batch[r] \in Seq(Rows) /\ batch[r] # <<>> BY <1>0, <2>1 DEF TypeInv, TypeOK, Shape
  <2>4. batch[r][1] \in PublishedRows BY <1>2, <2>1
  <2>5. SentIsPublished'
    <3>1. Head(batch[r]) = batch[r][1] BY <2>3, RestOfBatch
    <3> QED BY <1>0, <1>6, <2>2, <2>4, <3>1 DEF MarkSent, SentIsPublished
  <2>6. /\ pc'[r] # "mark" /\ BatchOk(batch'[r])
        /\ \A q \in Relays \ {r} : pc'[q] = pc[q] /\ batch'[q] = batch[q]
    <3>1. CASE Len(batch[r]) = 1 BY <1>0, <1>6, <3>1, EndTickTypes, EmptyBatchOk DEF MarkSent
    <3>2. CASE Len(batch[r]) # 1
      <4>1. BatchOk(Tail(batch[r])) BY <1>2, <2>3, <2>4, BatchContinues
      <4> QED BY <1>0, <1>6, <3>2, <4>1 DEF MarkSent, TypeOK
    <3> QED BY <3>1, <3>2
  <2>7. BatchInv' BY <1>0, <2>1, <2>2, <2>6, BatchInvStays
  <2> QED BY <1>1, <2>2, <2>5, <2>7 DEF RelayInv
<1> QED BY <1>3, <1>4, <1>5, <1>6 DEF RelayStep

LEMMA RelayRelayFails ==
  ASSUME RelayInv, NEW r \in Relays, RelayFails(r)
  PROVE  RelayInv'
<1>0. TypeInv /\ TypeOK /\ BatchInv /\ LogInv /\ SentIsPublished BY DEF RelayInv, TypeInv
<1>1. TypeInv' BY <1>0, TypeRelayFails
<1>2. EndTick(r) /\ UNCHANGED table BY DEF RelayFails, FindFails, EmitFails, MarkFails
<1>3. /\ pc'[r] # "mark" /\ BatchOk(batch'[r])
      /\ \A q \in Relays \ {r} : pc'[q] = pc[q] /\ batch'[q] = batch[q]
  BY <1>0, <1>2, EndTickTypes, EmptyBatchOk
<1>4. LogInv' /\ PublishedRows \subseteq PublishedRows' /\ sent' \subseteq PublishedRows'
  <2>1. CASE FindFails(r)
    <3>1. UNCHANGED <<sent, published>> BY <2>1 DEF FindFails
    <3> QED BY <1>0, <1>2, <3>1, LogStays DEF SentIsPublished
  <2>2. CASE EmitFails(r)
    <3>1. sent' = sent /\ batch[r] # <<>> BY <1>0, <2>2 DEF EmitFails, TypeInv, Shape
    <3>2. CASE published' = published BY <1>0, <1>2, <3>1, <3>2, LogStays DEF SentIsPublished
    <3>3. CASE published' = Append(published, Head(batch[r]))
      BY <1>0, <1>2, <3>1, <3>3, Publishing DEF SentIsPublished
    <3> QED BY <2>2, <3>2, <3>3 DEF EmitFails
  <2>3. CASE MarkFails(r)
    <3>1. published' = published /\ pc[r] = "mark" BY <2>3 DEF MarkFails
    <3>2. LogInv' /\ PublishedRows' = PublishedRows BY <1>0, <1>2, <3>1, LogStays
    <3>3. batch[r] \in Seq(Rows) /\ batch[r] # <<>> BY <1>0, <3>1 DEF TypeInv, TypeOK, Shape
    <3>4. Head(batch[r]) \in PublishedRows BY <1>0, <3>1, <3>3, RestOfBatch DEF BatchInv
    <3> QED BY <1>0, <2>3, <3>2, <3>4 DEF MarkFails, SentIsPublished
  <2> QED BY <2>1, <2>2, <2>3 DEF RelayFails
<1>5. BatchInv' BY <1>0, <1>2, <1>3, <1>4, BatchInvStays
<1> QED BY <1>1, <1>4, <1>5 DEF RelayInv, SentIsPublished

LEMMA RelayProcess ==
  ASSUME RelayInv, NEW r \in Relays, Boot(r) \/ Destroy(r) \/ Crash(r)
  PROVE  RelayInv'
<1>0. TypeInv /\ TypeOK /\ BatchInv /\ LogInv /\ SentIsPublished BY DEF RelayInv, TypeInv
<1>1. TypeInv' BY <1>0, TypeProcess
<1>2. UNCHANGED <<table, sent, published>> BY DEF Boot, Destroy, Crash
<1>3. LogInv' /\ PublishedRows' = PublishedRows BY <1>0, <1>2, LogStays
<1>4. /\ pc'[r] = "mark" => pc[r] = "mark" /\ batch'[r] = batch[r]
      /\ batch'[r] \in {batch[r], <<>>}
      /\ \A q \in Relays \ {r} : pc'[q] = pc[q] /\ batch'[q] = batch[q]
  BY <1>0 DEF Boot, Destroy, Crash, TypeOK
<1>5. BatchOk(batch'[r]) BY <1>0, <1>4, EmptyBatchOk DEF BatchInv
<1>6. pc'[r] = "mark" => batch'[r][1] \in PublishedRows' BY <1>0, <1>3, <1>4 DEF BatchInv
<1>7. BatchInv' BY <1>0, <1>2, <1>3, <1>4, <1>5, <1>6, BatchInvStays
<1> QED BY <1>0, <1>1, <1>2, <1>3, <1>7 DEF RelayInv, SentIsPublished

LEMMA RelayNext == RelayInv /\ [Next]_vars => RelayInv'
<1> SUFFICES ASSUME RelayInv, [Next]_vars PROVE RelayInv' OBVIOUS
<1>1. TypeInv' BY TypeNext DEF RelayInv
<1>2. ASSUME NEW s \in Services,
             \/ Join(s) \/ Rebalance(s) \/ Die(s)
             \/ \E p \in Partitions : Consume(s, p) \/ Commit(s, p)
      PROVE  RelayInv'
  <2>1. UNCHANGED <<table, sent, pc, batch, published>>
    BY <1>2 DEF Consume, Commit, Join, Rebalance, Die, relay
  <2> QED BY <1>1, <2>1, RelayStays
<1>3. CASE UNCHANGED vars
  <2>1. UNCHANGED <<table, sent, pc, batch, published>> BY <1>3 DEF vars, relay
  <2> QED BY <1>1, <2>1, RelayStays
<1> QED BY <1>2, <1>3, RelayCommitRow, RelayRelayStep, RelayRelayFails, RelayProcess DEF Next

\* The invariant of the relays holds throughout.
THEOREM RelayInvariance == Spec => []RelayInv
BY RelayInit, RelayNext, PTL DEF Spec

\* No committed fact is lost: a row is marked only when the log has it, whichever
\* replica fails or dies between publishing and marking.
THEOREM NothingIsLost == Spec => []SentIsPublished
<1>1. RelayInv => SentIsPublished BY DEF RelayInv
<1> QED BY <1>1, RelayInvariance, PTL

\* The facts of one event enter the log in the order they were committed, for any
\* number of replicas, failures, restarts and overlapping batches.
THEOREM NothingIsOvertaken == Spec => []PublishedInOrder
<1>1. RelayInv => PublishedInOrder BY DEF RelayInv, LogInv
<1> QED BY <1>1, RelayInvariance, PTL

(***************************************************************************)
(* Nothing is handled twice inside the window, nothing is skipped          *)
(***************************************************************************)
LEMMA NothingHandled == WindowOk(<<>>, <<>>) /\ Spread(<<>>)
<1>1. Len(<<>>) = 0 /\ 1..0 = {} BY EmptySeq
<1> QED BY <1>1 DEF WindowOk, Spread

LEMMA ConsumerInit == Init => ConsumerInv
<1> SUFFICES ASSUME Init PROVE ConsumerInv OBVIOUS
<1>1. \A s \in Services : seen[s] = <<>> /\ handled[s] = <<>> BY DEF Init
<1>2. \A s \in Services, p \in Partitions :
        position[s][p] = 0 /\ begun[s][p] = 0 /\ offset[s][p] = NoOffset
  BY DEF Init
<1>3. published = <<>> /\ Len(<<>>) = 0 BY EmptySeq DEF Init
<1>4. HandlingInv BY <1>1, NothingHandled DEF HandlingInv
<1>5. ReadingInv
  BY <1>1, <1>2, <1>3 DEF ReadingInv, PositionInv, SeenWasHandled, NothingIsSkipped
<1> QED BY <1>4, <1>5, RelayInit DEF ConsumerInv

\* The log only grows, and what is in it stays in its partition.
LEMMA LogGrows ==
  ASSUME RelayInv, Next
  PROVE  /\ Len(published) <= Len(published')
         /\ \A i \in 1..Len(published) :
              published'[i] = published[i] /\ PartitionOf(published[i])' = PartitionOf(published[i])
<1>0. TypeInv /\ TypeOK /\ PublishedRows \subseteq Committed BY DEF RelayInv, TypeInv, LogInv
<1>1. Len(published) \in Nat /\ published \in Seq(Rows) BY <1>0 DEF TypeOK
<1>2. CASE published' = published /\ UNCHANGED table
  BY <1>1, <1>2 DEF PartitionOf, table
<1>3. CASE \E m \in Rows : published' = Append(published, m) /\ UNCHANGED table
  <2>1. PICK m \in Rows : published' = Append(published, m) BY <1>3
  <2>2. /\ Len(published') = Len(published) + 1
        /\ \A i \in 1..Len(published) : published'[i] = published[i]
    BY <1>1, <2>1, AppendProperties
  <2> QED BY <1>1, <1>3, <2>2 DEF PartitionOf, table
<1>4. ASSUME NEW m \in Rows, NEW e \in Events, NEW t \in EventTopics, CommitRow(m, e, t)
      PROVE  /\ published' = published
             /\ \A i \in 1..Len(published) : PartitionOf(published[i])' = PartitionOf(published[i])
  <2>1. published' = published BY <1>4 DEF CommitRow
  <2>2. \A i \in 1..Len(published) : published[i] \in Committed BY <1>0 DEF PublishedRows
  <2>3. \A n \in Committed : row'[n] = row[n] BY <1>0, <1>4, CommitRowTable
  <2> QED BY <2>1, <2>2, <2>3 DEF PartitionOf
<1>5. ASSUME NEW r \in Relays, Emit(r) \/ EmitFails(r)
      PROVE  /\ UNCHANGED table
             /\ published' = published \/ \E m \in Rows : published' = Append(published, m)
  <2>1. batch[r] \in Seq(Rows) /\ batch[r] # <<>>
    BY <1>0, <1>5 DEF TypeInv, TypeOK, Shape, Emit, EmitFails
  <2>2. Head(batch[r]) \in Rows BY <2>1
  <2> QED BY <1>5, <2>2 DEF Emit, EmitFails
<1>6. ASSUME NEW r \in Relays,
             \/ Tick(r) \/ FindMany(r) \/ MarkSent(r) \/ FindFails(r) \/ MarkFails(r)
             \/ Boot(r) \/ Destroy(r) \/ Crash(r)
      PROVE  UNCHANGED <<table, published>>
  BY <1>6 DEF Tick, FindMany, MarkSent, FindFails, MarkFails, Boot, Destroy, Crash
<1>7. ASSUME NEW s \in Services,
             \/ Join(s) \/ Rebalance(s) \/ Die(s)
             \/ \E p \in Partitions : Consume(s, p) \/ Commit(s, p)
      PROVE  UNCHANGED <<table, published>>
  BY <1>7 DEF Consume, Commit, Join, Rebalance, Die
<1> QED BY <1>1, <1>2, <1>3, <1>4, <1>5, <1>6, <1>7 DEF Next, RelayStep, RelayFails

LEMMA ConsumerStays ==
  ASSUME ConsumerInv, Next, UNCHANGED consumer
  PROVE  HandlingInv' /\ ReadingInv'
<1>1. HandlingInv' BY DEF ConsumerInv, HandlingInv, consumer
<1>2. RelayInv /\ TypeOK BY DEF ConsumerInv, RelayInv, TypeInv
<1>3. ASSUME NEW s \in Services, NEW p \in Partitions
      PROVE  /\ position[s][p] <= Len(published')
             /\ \A i \in begun[s][p] + 1..position[s][p] :
                  PartitionOf(published[i])' = p => published'[i] \in ever[s]
  <2>1. /\ position[s][p] \in Nat /\ Len(published) \in Nat /\ Len(published') \in Nat
        /\ begun[s][p] \in Nat
        /\ position[s][p] <= Len(published)
    <3>1. TypeOK'
      <4>1. TypeInv' BY <1>2, TypeNext DEF RelayInv
      <4> QED BY <4>1 DEF TypeInv
    <3> QED BY <1>2, <3>1 DEF TypeOK, ConsumerInv, ReadingInv, PositionInv
  <2>2. \A i \in begun[s][p] + 1..position[s][p] : i \in 1..Len(published) BY <2>1
  <2>3. \A i \in 1..Len(published) : published'[i] = published[i]
                                    /\ PartitionOf(published[i])' = PartitionOf(published[i])
    BY <1>2, LogGrows
  <2>4. Len(published) <= Len(published') BY <1>2, LogGrows
  <2>5. \A i \in begun[s][p] + 1..position[s][p] :
          PartitionOf(published[i]) = p => published[i] \in ever[s]
    BY DEF ConsumerInv, ReadingInv, NothingIsSkipped
  <2>6. position[s][p] <= Len(published') BY <2>1, <2>4
  <2>7. ASSUME NEW i \in begun[s][p] + 1..position[s][p]
        PROVE  PartitionOf(published[i])' = p => published'[i] \in ever[s]
    <3>1. i \in 1..Len(published) BY <2>2
    <3> QED BY <2>3, <2>5, <3>1
  <2> QED BY <2>6, <2>7
<1>4. ReadingInv'
  <2>1. UNCHANGED <<position, offset, begun, seen, ever>> BY DEF consumer
  <2>2. PositionInv' BY <1>3, <2>1 DEF PositionInv, ConsumerInv, ReadingInv
  <2>3. SeenWasHandled' BY <2>1 DEF SeenWasHandled, ConsumerInv, ReadingInv
  <2>4. NothingIsSkipped' BY <1>3, <2>1 DEF NothingIsSkipped, PartitionOf
  <2> QED BY <2>2, <2>3, <2>4 DEF ReadingInv
<1> QED BY <1>1, <1>4

\* What a delivery that is not a duplicate does to the window
LEMMA HandlingOne ==
  ASSUME NEW h \in Seq(Rows), NEW o \in Seq(Rows), NEW m \in Rows,
         Len(o) <= Window, WindowOk(o, h), Spread(h), \A i \in 1..Len(o) : o[i] # m
  PROVE  WindowOk(Remember(o, m), Append(h, m)) /\ Spread(Append(h, m))
<1> DEFINE new == Remember(o, m)
           more == Append(h, m)
           k == Len(o)
           n == Len(h)
<1>1. k \in Nat /\ n \in Nat /\ Window \in Nat \ {0} BY LenProperties, NumbersAssumption
<1>2. Len(more) = n + 1 /\ more[n + 1] = m /\ \A i \in 1..n : more[i] = h[i]
  BY AppendProperties
<1>3. /\ k = Window => /\ Len(new) = Window /\ new[Window] = m
                       /\ \A i \in 1..Window - 1 : new[i] = o[i + 1]
      /\ k # Window => /\ Len(new) = k + 1 /\ new[k + 1] = m
                       /\ \A i \in 1..k : new[i] = o[i]
  BY RememberProperties
<1>4. /\ k <= n /\ k <= Window /\ (k = Window \/ k = n)
      /\ \A i \in 1..k : o[i] = h[n - k + i] /\ o[i] # m
      /\ \A i, j \in 1..n : i < j /\ h[i] = h[j] => j - i > Window
  BY DEF WindowOk, Spread
<1> HIDE DEF new, more, k, n
<1>5. Len(new) <= n + 1 /\ (Len(new) = Window \/ Len(new) = n + 1) BY <1>1, <1>3, <1>4
<1>6. ASSUME NEW i \in 1..Len(new) PROVE new[i] = more[n + 1 - Len(new) + i]
  <2>1. CASE k = Window
    <3>1. CASE i = Window BY <1>1, <1>2, <1>3, <2>1, <3>1
    <3>2. CASE i # Window
      <4>1. i \in 1..Window - 1 /\ i + 1 \in 1..k BY <1>1, <1>3, <2>1, <3>2
      <4>2. new[i] = h[n - k + (i + 1)] BY <1>3, <1>4, <2>1, <4>1
      <4>3. n - k + (i + 1) \in 1..n /\ n - k + (i + 1) = n + 1 - Len(new) + i
        <5>1. Len(new) = k /\ k <= n BY <1>3, <1>4, <2>1
        <5>2. i \in Nat /\ i + 1 <= k BY <1>1, <4>1
        <5> QED BY <1>1, <5>1, <5>2
      <4> QED BY <1>2, <4>2, <4>3
    <3> QED BY <3>1, <3>2
  <2>2. CASE k # Window
    <3>1. k = n /\ Len(new) = n + 1 /\ n + 1 - Len(new) + i = i
      <4>1. k = n BY <1>4, <2>2
      <4>2. Len(new) = n + 1 BY <1>3, <2>2, <4>1
      <4>3. i \in Nat BY <1>1, <4>2
      <4> QED BY <1>1, <4>1, <4>2, <4>3
    <3>2. CASE i = n + 1 BY <1>2, <1>3, <2>2, <3>1, <3>2
    <3>3. CASE i # n + 1
      <4>1. i \in 1..n /\ n - k + i = i BY <1>1, <3>1, <3>3
      <4> QED BY <1>2, <1>3, <1>4, <2>2, <3>1, <4>1
    <3> QED BY <3>2, <3>3
  <2> QED BY <2>1, <2>2
<1>7. ASSUME NEW i \in 1..n + 1, NEW j \in 1..n + 1, i < j, more[i] = more[j]
      PROVE  j - i > Window
  <2>1. i \in 1..n /\ more[i] = h[i] BY <1>1, <1>2, <1>7
  <2>2. CASE j # n + 1
    <3>1. j \in 1..n /\ more[j] = h[j] BY <1>1, <1>2, <2>2
    <3> QED BY <1>4, <1>7, <2>1, <3>1
  <2>3. CASE j = n + 1
    <3>1. h[i] = m BY <1>2, <1>7, <2>1, <2>3
    <3>2. ~(i > n - k)
      <4>1. SUFFICES ASSUME i > n - k PROVE FALSE OBVIOUS
      <4>2. i - (n - k) \in 1..k /\ n - k + (i - (n - k)) = i BY <1>1, <1>4, <2>1, <4>1
      <4> QED BY <1>4, <3>1, <4>2
    <3>3. k = Window BY <1>1, <1>4, <2>1, <3>2
    <3> QED BY <1>1, <2>1, <2>3, <3>2, <3>3
  <2> QED BY <2>2, <2>3
<1>8. Len(more) = n + 1 BY <1>2
<1>9. WindowOk(new, more)
  <2>1. Len(new) <= Len(more) /\ (Len(new) = Window \/ Len(new) = Len(more)) BY <1>5, <1>8
  <2>2. ASSUME NEW i \in 1..Len(new) PROVE new[i] = more[Len(more) - Len(new) + i]
    <3>1. new[i] = more[n + 1 - Len(new) + i] BY <1>6
    <3>2. Len(new) \in Nat BY <1>1, <1>3, <1>4
    <3>3. n + 1 - Len(new) + i = Len(more) - Len(new) + i BY <1>1, <1>8, <3>2
    <3> QED BY <3>1, <3>3
  <2> QED BY <2>1, <2>2 DEF WindowOk
<1>10. Spread(more) BY <1>7, <1>8 DEF Spread
<1> QED BY <1>9, <1>10 DEF new, more

LEMMA RememberKeeps ==
  ASSUME NEW o \in Seq(Rows), Len(o) <= Window, NEW m \in Rows, NEW S, m \in S,
         \A k \in 1..Len(o) : o[k] \in S
  PROVE  \A k \in 1..Len(Remember(o, m)) : Remember(o, m)[k] \in S
<1> DEFINE new == Remember(o, m)
<1>1. Len(o) \in Nat /\ Window \in Nat \ {0} BY LenProperties, NumbersAssumption
<1>2. /\ Len(o) = Window => /\ Len(new) = Window /\ new[Window] = m
                            /\ \A k \in 1..Window - 1 : new[k] = o[k + 1]
      /\ Len(o) # Window => /\ Len(new) = Len(o) + 1 /\ new[Len(o) + 1] = m
                            /\ \A k \in 1..Len(o) : new[k] = o[k]
  BY RememberProperties
<1> HIDE DEF new
<1>3. ASSUME NEW k \in 1..Len(new) PROVE new[k] \in S
  <2>1. CASE Len(o) = Window
    <3>1. CASE k = Window BY <1>2, <2>1, <3>1
    <3>2. CASE k # Window
      <4>1. k \in 1..Window - 1 /\ k + 1 \in 1..Len(o) BY <1>1, <1>2, <2>1, <3>2
      <4> QED BY <1>2, <2>1, <4>1
    <3> QED BY <3>1, <3>2
  <2>2. CASE Len(o) # Window
    <3>1. k = Len(o) + 1 \/ k \in 1..Len(o) BY <1>1, <1>2, <2>2
    <3> QED BY <1>2, <2>2, <3>1
  <2> QED BY <2>1, <2>2
<1> QED BY <1>3 DEF new

LEMMA ConsumerConsume ==
  ASSUME ConsumerInv, NEW s \in Services, NEW p \in Partitions, Consume(s, p)
  PROVE  HandlingInv' /\ ReadingInv'
<1>0. TypeInv /\ TypeOK BY DEF ConsumerInv, RelayInv, TypeInv
<1>1. PICK i \in 1..Len(published) :
        LET m == published[i] IN
        /\ m \in Rows /\ PartitionOf(m) = p /\ i > position[s][p]
        /\ \A j \in 1..i : PartitionOf(published[j]) = p => j <= position[s][p] \/ j = i
        /\ position' = [position EXCEPT ![s][p] = i]
        /\ \/ /\ \E k \in 1..Len(seen[s]) : seen[s][k] = m
              /\ UNCHANGED <<seen, handled, ever>>
           \/ /\ \A k \in 1..Len(seen[s]) : seen[s][k] # m
              /\ seen' = [seen EXCEPT ![s] = Remember(@, m)]
              /\ handled' = [handled EXCEPT ![s] = Append(@, m)]
              /\ ever' = [ever EXCEPT ![s] = @ \cup {m}]
  BY <1>0, ConsumeCases
<1> DEFINE m == published[i]
<1>2. UNCHANGED <<row, published, offset, begun>> BY DEF Consume, table
<1>3. \A q \in Services, c \in Partitions :
        position'[q][c] = IF q = s /\ c = p THEN i ELSE position[q][c]
  BY <1>0, <1>1 DEF TypeOK
<1>4. PositionInv'
  <2>0. Len(published) \in Nat /\ i \in Nat /\ i <= Len(published) /\ i > position[s][p]
    <3>1. Len(published) \in Nat BY <1>0 DEF TypeOK
    <3> QED BY <1>1, <3>1
  <2>1. ASSUME NEW q \in Services, NEW c \in Partitions
        PROVE  position[q][c] <= position'[q][c] /\ position'[q][c] <= Len(published)
    <3>1. position[q][c] \in Nat /\ position[q][c] <= Len(published)
      BY <1>0 DEF TypeOK, ConsumerInv, ReadingInv, PositionInv
    <3> QED BY <1>3, <2>0, <3>1
  <2>2. ASSUME NEW q \in Services, NEW c \in Partitions
        PROVE  /\ begun[q][c] \in Nat /\ offset[q][c] \in Nat
               /\ position[q][c] \in Nat /\ position'[q][c] \in Nat
    <3>1. /\ begun[q][c] \in Nat /\ offset[q][c] \in Nat /\ position[q][c] \in Nat
      BY <1>0 DEF TypeOK
    <3> QED BY <1>3, <2>0, <3>1
  <2> QED BY <1>2, <2>1, <2>2 DEF ConsumerInv, ReadingInv, PositionInv
<1>5. CASE \E k \in 1..Len(seen[s]) : seen[s][k] = m /\ UNCHANGED <<seen, handled, ever>>
  <2>1. m \in ever[s] BY <1>5 DEF ConsumerInv, ReadingInv, SeenWasHandled
  <2>2. HandlingInv' /\ SeenWasHandled'
    BY <1>5 DEF ConsumerInv, HandlingInv, ReadingInv, SeenWasHandled
  <2>3. ASSUME NEW q \in Services, NEW c \in Partitions, NEW j \in begun[q][c] + 1..position'[q][c],
               PartitionOf(published[j]) = c
        PROVE  published[j] \in ever[q]
    <3>1. CASE q = s /\ c = p
      <4>0. begun[s][p] \in Nat /\ position[s][p] \in Nat BY <1>0 DEF TypeOK
      <4>1. position'[q][c] = i BY <1>3, <3>1
      <4>2. j \in begun[s][p] + 1..i BY <3>1, <4>1
      <4>3. j \in 1..i BY <4>0, <4>2
      <4>4. j <= position[s][p] \/ j = i BY <1>1, <2>3, <3>1, <4>3
      <4>5. j = i \/ j \in begun[s][p] + 1..position[s][p] BY <4>0, <4>2, <4>4
      <4> QED BY <2>1, <2>3, <3>1, <4>5 DEF ConsumerInv, ReadingInv, NothingIsSkipped
    <3>2. CASE ~(q = s /\ c = p)
      BY <1>3, <2>3, <3>2 DEF ConsumerInv, ReadingInv, NothingIsSkipped
    <3> QED BY <3>1, <3>2
  <2>4. NothingIsSkipped' BY <1>2, <1>5, <2>3 DEF NothingIsSkipped, PartitionOf
  <2> QED BY <1>4, <2>2, <2>4 DEF ReadingInv
<1>6. CASE /\ \A k \in 1..Len(seen[s]) : seen[s][k] # m
           /\ seen' = [seen EXCEPT ![s] = Remember(@, m)]
           /\ handled' = [handled EXCEPT ![s] = Append(@, m)]
           /\ ever' = [ever EXCEPT ![s] = @ \cup {m}]
  <2>1. /\ seen'[s] = Remember(seen[s], m) /\ handled'[s] = Append(handled[s], m)
        /\ ever'[s] = ever[s] \cup {m}
        /\ \A q \in Services \ {s} :
             seen'[q] = seen[q] /\ handled'[q] = handled[q] /\ ever'[q] = ever[q]
    BY <1>0, <1>6 DEF TypeOK
  <2>2. /\ handled[s] \in Seq(Rows) /\ seen[s] \in Seq(Rows) /\ m \in Rows
        /\ Len(seen[s]) <= Window
    BY <1>0, <1>1 DEF TypeOK
  <2>3. WindowOk(seen[s], handled[s]) /\ Spread(handled[s]) BY DEF ConsumerInv, HandlingInv
  <2>4. /\ WindowOk(Remember(seen[s], m), Append(handled[s], m))
        /\ Spread(Append(handled[s], m))
    <3> HIDE DEF m
    <3> QED BY <1>6, <2>2, <2>3, HandlingOne
  <2>5. HandlingInv' BY <2>1, <2>4 DEF HandlingInv, ConsumerInv
  <2>6. SeenWasHandled'
    <3>1. \A k \in 1..Len(Remember(seen[s], m)) : Remember(seen[s], m)[k] \in ever'[s]
      <4>1. m \in ever'[s] /\ \A k \in 1..Len(seen[s]) : seen[s][k] \in ever'[s]
        BY <2>1 DEF ConsumerInv, ReadingInv, SeenWasHandled
      <4> HIDE DEF m
      <4> QED BY <2>2, <4>1, RememberKeeps
    <3> QED BY <2>1, <3>1 DEF SeenWasHandled, ConsumerInv, ReadingInv
  <2>7. ASSUME NEW q \in Services, NEW c \in Partitions, NEW j \in begun[q][c] + 1..position'[q][c],
               PartitionOf(published[j]) = c
        PROVE  published[j] \in ever'[q]
    <3>1. CASE q = s /\ c = p
      <4>0. begun[s][p] \in Nat /\ position[s][p] \in Nat BY <1>0 DEF TypeOK
      <4>1. position'[q][c] = i BY <1>3, <3>1
      <4>2. j \in begun[s][p] + 1..i BY <3>1, <4>1
      <4>3. j \in 1..i BY <4>0, <4>2
      <4>4. j <= position[s][p] \/ j = i BY <1>1, <2>7, <3>1, <4>3
      <4>5. j = i \/ j \in begun[s][p] + 1..position[s][p] BY <4>0, <4>2, <4>4
      <4> QED BY <2>1, <2>7, <3>1, <4>5 DEF ConsumerInv, ReadingInv, NothingIsSkipped
    <3>2. CASE ~(q = s /\ c = p)
      <4>1. published[j] \in ever[q]
        BY <1>3, <2>7, <3>2 DEF ConsumerInv, ReadingInv, NothingIsSkipped
      <4> QED BY <2>1, <4>1
    <3> QED BY <3>1, <3>2
  <2>8. NothingIsSkipped' BY <1>2, <2>7 DEF NothingIsSkipped, PartitionOf
  <2> QED BY <1>4, <2>5, <2>6, <2>8 DEF ReadingInv
<1> QED BY <1>1, <1>5, <1>6

LEMMA ConsumerCommit ==
  ASSUME ConsumerInv, NEW s \in Services, NEW p \in Partitions, Commit(s, p)
  PROVE  HandlingInv' /\ ReadingInv'
<1>0. TypeOK BY DEF ConsumerInv, RelayInv, TypeInv
<1>1. UNCHANGED <<row, published, position, begun, seen, handled, ever>> BY DEF Commit, table
<1>2. \A q \in Services, c \in Partitions :
        offset'[q][c] = IF q = s /\ c = p THEN position[q][c] ELSE offset[q][c]
  <2>1. offset' = [offset EXCEPT ![s][p] = position[s][p]] BY DEF Commit
  <2> QED BY <1>0, <2>1 DEF TypeOK
<1>3. PositionInv'
  <2>1. \A q \in Services, c \in Partitions : position[q][c] \in Nat BY <1>0 DEF TypeOK
  <2> QED BY <1>1, <1>2, <2>1 DEF ConsumerInv, ReadingInv, PositionInv
<1>4. HandlingInv' /\ SeenWasHandled'
  BY <1>1 DEF ConsumerInv, HandlingInv, ReadingInv, SeenWasHandled
<1>5. NothingIsSkipped' BY <1>1 DEF ConsumerInv, ReadingInv, NothingIsSkipped, PartitionOf
<1> QED BY <1>3, <1>4, <1>5 DEF ReadingInv

\* A member that takes up its partitions goes back to what the group committed, or
\* begins where nothing was read; one that dies forgets only what it had seen.
LEMMA ConsumerGroup ==
  ASSUME ConsumerInv, NEW s \in Services, Join(s) \/ Rebalance(s) \/ Die(s)
  PROVE  HandlingInv' /\ ReadingInv'
<1>0. TypeOK BY DEF ConsumerInv, RelayInv, TypeInv
<1>1. UNCHANGED <<row, published, offset, ever>> BY DEF Join, Rebalance, Die, table
<1>2. ASSUME NEW q \in Services, NEW c \in Partitions
      PROVE  \/ position'[q][c] = position[q][c] /\ begun'[q][c] = begun[q][c]
             \/ position'[q][c] = Len(published) /\ begun'[q][c] = Len(published)
                /\ offset[q][c] = NoOffset
             \/ position'[q][c] = offset[q][c] /\ begun'[q][c] = begun[q][c]
                /\ offset[q][c] # NoOffset
  <2>1. CASE TakeUp(s) BY <1>0, <2>1, TakeUpPlaces
  <2>2. CASE Die(s) BY <2>2 DEF Die
  <2> QED BY <2>1, <2>2 DEF Join, Rebalance
<1>3. ASSUME NEW q \in Services, NEW c \in Partitions
      PROVE  /\ position[q][c] \in Nat /\ begun[q][c] \in Nat /\ offset[q][c] \in Nat
             /\ Len(published) \in Nat
             /\ begun[q][c] <= position[q][c] /\ position[q][c] <= Len(published)
             /\ offset[q][c] # NoOffset =>
                  begun[q][c] <= offset[q][c] /\ offset[q][c] <= position[q][c]
  BY <1>0 DEF TypeOK, ConsumerInv, ReadingInv, PositionInv
<1>4. PositionInv'
  <2>1. ASSUME NEW q \in Services, NEW c \in Partitions
        PROVE  /\ begun'[q][c] <= position'[q][c] /\ position'[q][c] <= Len(published)
               /\ offset[q][c] # NoOffset =>
                    begun'[q][c] <= offset[q][c] /\ offset[q][c] <= position'[q][c]
    BY <1>2, <1>3
  <2> QED BY <1>1, <2>1 DEF PositionInv
<1>5. NothingIsSkipped'
  <2>1. ASSUME NEW q \in Services, NEW c \in Partitions,
               NEW i \in begun'[q][c] + 1..position'[q][c]
        PROVE  i \in begun[q][c] + 1..position[q][c]
    BY <1>2, <1>3
  <2> QED BY <1>1, <2>1 DEF NothingIsSkipped, PartitionOf, ConsumerInv, ReadingInv
<1>6. ASSUME NEW q \in Services
      PROVE  \/ seen'[q] = seen[q] /\ handled'[q] = handled[q]
             \/ seen'[q] = <<>> /\ handled'[q] = <<>>
  BY <1>0 DEF Join, Rebalance, Die, TypeOK
<1>7. HandlingInv' BY <1>6, NothingHandled DEF HandlingInv, ConsumerInv
<1>8. SeenWasHandled'
  <2>1. Len(<<>>) = 0 /\ 1..0 = {} BY EmptySeq
  <2> QED BY <1>1, <1>6, <2>1 DEF SeenWasHandled, ConsumerInv, ReadingInv
<1> QED BY <1>4, <1>5, <1>7, <1>8 DEF ReadingInv

LEMMA ConsumerNext == ConsumerInv /\ [Next]_vars => ConsumerInv'
<1> SUFFICES ASSUME ConsumerInv, [Next]_vars PROVE ConsumerInv' OBVIOUS
<1>1. RelayInv' BY RelayNext DEF ConsumerInv
<1>2. ASSUME NEW s \in Services,
             \/ Join(s) \/ Rebalance(s) \/ Die(s)
             \/ \E p \in Partitions : Consume(s, p) \/ Commit(s, p)
      PROVE  HandlingInv' /\ ReadingInv'
  BY <1>2, ConsumerConsume, ConsumerCommit, ConsumerGroup
<1>3. CASE UNCHANGED vars
  <2>1. UNCHANGED <<row, published, position, offset, begun, seen, handled, ever>>
    BY <1>3 DEF vars, table, consumer
  <2>2. HandlingInv' BY <2>1 DEF ConsumerInv, HandlingInv
  <2>3. PositionInv' /\ SeenWasHandled'
    BY <2>1 DEF ConsumerInv, ReadingInv, PositionInv, SeenWasHandled
  <2>4. NothingIsSkipped'
    BY <2>1 DEF ConsumerInv, ReadingInv, NothingIsSkipped, PartitionOf
  <2> QED BY <1>1, <2>2, <2>3, <2>4 DEF ConsumerInv, ReadingInv
<1>4. ASSUME Next, UNCHANGED consumer PROVE HandlingInv' /\ ReadingInv'
  BY <1>4, ConsumerStays
<1>5. ASSUME NEW r \in Relays,
             RelayStep(r) \/ RelayFails(r) \/ Boot(r) \/ Destroy(r) \/ Crash(r)
      PROVE  UNCHANGED consumer
  BY <1>5 DEF RelayStep, RelayFails, Tick, FindMany, FindFails, Emit, EmitFails, MarkSent,
     MarkFails, Boot, Destroy, Crash
<1>6. ASSUME NEW m \in Rows, NEW e \in Events, NEW t \in EventTopics, CommitRow(m, e, t)
      PROVE  UNCHANGED consumer
  BY <1>6 DEF CommitRow
<1> QED BY <1>1, <1>2, <1>3, <1>4, <1>5, <1>6 DEF Next, ConsumerInv

THEOREM ConsumerInvariance == Spec => []ConsumerInv
BY ConsumerInit, ConsumerNext, PTL DEF Spec

\* A consumer that stays up handles a message again only after Window others,
\* however often relays and Kafka repeat it.
THEOREM NothingIsRepeated == Spec => []DuplicatesOnlyBeyondWindow
<1>1. ConsumerInv => DuplicatesOnlyBeyondWindow
  BY DEF ConsumerInv, HandlingInv, Spread, DuplicatesOnlyBeyondWindow
<1> QED BY <1>1, ConsumerInvariance, PTL

\* From where it first took up a partition a consumer group reads past a message only
\* if it was handled; once it has committed an offset, also across rebalances and deaths.
THEOREM NothingIsPassedOver == Spec => []NothingIsSkipped
<1>1. ConsumerInv => NothingIsSkipped BY DEF ConsumerInv, ReadingInv
<1> QED BY <1>1, ConsumerInvariance, PTL

=============================================================================
