------------------------ MODULE ScheduledTasksProofs ------------------------
(***************************************************************************)
(* Proofs about ScheduledTasks, for any number of processes, jobs and      *)
(* rows: types, that the outcome of a job is the outcome of the task that  *)
(* the job's own worker ran, and that the history of runs adds up.         *)
(***************************************************************************)
EXTENDS ScheduledTasks, FiniteSetTheorems, TLAPS

(***************************************************************************)
(* The inductive invariant                                                 *)
(***************************************************************************)
JobType == [state : {"free", "waiting", "active", "completed", "failed"},
            kind : {"none", "tick", "eager"}, stalls : 0..MaxStalls + 1,
            owner : Processes \cup {Nobody}]

ResultType == [ok : BOOLEAN, count : 0..Cardinality(Rows) + 1]

\* A job that may still run has not stalled too often, and it has an owner
\* exactly while it is active.
JobInv ==
  \A j \in Jobs :
    /\ job[j].state \in {"waiting", "active"} => job[j].stalls <= MaxStalls
    /\ job[j].owner # Nobody <=> job[j].state = "active"

\* What a worker throws at the end is what dispatch gave it.
OutcomeInv == \A p \in Processes : pc[p] = "settle" => thrown[p] = ~result[p].ok

IInv == TypeOK /\ JobInv /\ OutcomeInv

(***************************************************************************)
(* Values                                                                  *)
(***************************************************************************)
\* The rows are counted: a set of them is no larger than all of them.
LEMMA CountOfRows ==
  ASSUME NEW S \in SUBSET Rows
  PROVE  Count(Cardinality(S)) \in ResultType
  <1>1. Cardinality(Rows) \in Nat /\ Cardinality(S) \in Nat /\ Cardinality(S) <= Cardinality(Rows)
    BY ConstantsAssumption, FS_Subset, FS_CardinalityType DEF ConstantsAssumption
  <1>2. QED
    BY <1>1 DEF Count, ResultType

\* The two values of a local without a count of rows
LEMMA NoCount == Error \in ResultType /\ Pending \in ResultType /\ Error # Pending
  <1>1. Cardinality(Rows) \in Nat
    BY ConstantsAssumption, FS_CardinalityType DEF ConstantsAssumption
  <1>2. QED
    BY <1>1 DEF Error, Pending, ResultType

\* A successful outcome is never the outcome that is still awaited.
LEMMA CountIsNotPending == \A n : Count(n) # Pending
  BY DEF Count, Pending

\* A job that enters the queue
LEMMA QueuedJob ==
  ASSUME NEW kind \in {"tick", "eager"}
  PROVE  /\ Queued(kind) \in JobType
         /\ Queued(kind).state = "waiting" /\ Queued(kind).stalls = 0
         /\ Queued(kind).owner = Nobody
  <1>1. 0 \in 0..MaxStalls + 1
    BY ConstantsAssumption DEF ConstantsAssumption
  <1>2. Free \in JobType /\ Free.stalls = 0 /\ Free.owner = Nobody
    BY <1>1 DEF Free, JobType
  <1>3. QED
    BY <1>2 DEF Queued, JobType

\* A job that changes state, owner and number of stalls stays a job.
LEMMA UpdatedJob ==
  ASSUME NEW x \in JobType, NEW o \in Processes \cup {Nobody}, NEW n \in 0..MaxStalls + 1,
         NEW s \in {"free", "waiting", "active", "completed", "failed"}
  PROVE  /\ [x EXCEPT !.state = s, !.owner = o] \in JobType
         /\ [x EXCEPT !.state = s, !.stalls = n, !.owner = o] \in JobType
  BY DEF JobType

\* TypeOK with the two types above
LEMMA TypesNamed ==
  TypeOK <=>
    /\ stale \subseteq Rows /\ deleted \subseteq Rows \ stale
    /\ planned \in BOOLEAN
    /\ job \in [Jobs -> JobType]
    /\ pc \in [Processes -> {"down", "add", "idle", "dispatch", "record", "settle"}]
    /\ mine \in [Processes -> Jobs \cup {NoJob}]
    /\ result \in [Processes -> ResultType]
    /\ thrown \in [Processes -> BOOLEAN]
    /\ told \in Nat /\ faults \in 0..MaxFaults
    /\ \A p \in Processes :
         /\ mine[p] # NoJob <=> pc[p] \in {"dispatch", "record", "settle"}
         /\ result[p] # Pending <=> pc[p] \in {"record", "settle"}
  BY DEF TypeOK, JobType, ResultType

\* The same in the next state
LEMMA TypesNamedNext ==
  TypeOK' <=>
    /\ stale' \subseteq Rows /\ deleted' \subseteq Rows \ stale'
    /\ planned' \in BOOLEAN
    /\ job' \in [Jobs -> JobType]
    /\ pc' \in [Processes -> {"down", "add", "idle", "dispatch", "record", "settle"}]
    /\ mine' \in [Processes -> Jobs \cup {NoJob}]
    /\ result' \in [Processes -> ResultType]
    /\ thrown' \in [Processes -> BOOLEAN]
    /\ told' \in Nat /\ faults' \in 0..MaxFaults
    /\ \A p \in Processes :
         /\ mine'[p] # NoJob <=> pc'[p] \in {"dispatch", "record", "settle"}
         /\ result'[p] # Pending <=> pc'[p] \in {"record", "settle"}
  BY DEF TypeOK, JobType, ResultType

\* One more fault is within the bound.
LEMMA FaultInBounds ==
  ASSUME faults \in 0..MaxFaults, Fault \/ UNCHANGED faults
  PROVE  faults' \in 0..MaxFaults
  BY ConstantsAssumption DEF ConstantsAssumption, Fault

(***************************************************************************)
(* Every step keeps the invariant                                          *)
(***************************************************************************)
LEMMA StartKeeps ==
  ASSUME IInv, NEW p \in Processes, Boot(p)
  PROVE  IInv'
  <1>1. CASE UpsertScheduler(p)
    <2>1. TypeOK'
      BY <1>1, TypesNamed, TypesNamedNext DEF IInv, UpsertScheduler, Goto
    <2>2. JobInv' /\ OutcomeInv'
      BY <1>1 DEF IInv, TypeOK, JobInv, OutcomeInv, UpsertScheduler, Goto
    <2>3. QED
      BY <2>1, <2>2 DEF IInv
  <1>2. CASE AddEager(p)
    <2>1. job' \in [Jobs -> JobType] /\ JobInv'
      BY <1>2, TypesNamed, QueuedJob, ConstantsAssumption
      DEF ConstantsAssumption, IInv, JobInv, AddEager, Slots
    <2>2. TypeOK'
      BY <1>2, <2>1, TypesNamed, TypesNamedNext DEF IInv, AddEager, Goto
    <2>3. OutcomeInv'
      BY <1>2 DEF IInv, TypeOK, OutcomeInv, AddEager, Goto
    <2>4. QED
      BY <2>1, <2>2, <2>3 DEF IInv
  <1>3. QED
    BY <1>1, <1>2 DEF Boot

LEMMA CrashKeeps ==
  ASSUME IInv, NEW p \in Processes, Crash(p)
  PROVE  IInv'
  <1>1. faults' \in 0..MaxFaults
    BY FaultInBounds DEF IInv, TypeOK, Crash
  <1>2. TypeOK'
    BY <1>1, TypesNamed, TypesNamedNext, NoCount DEF IInv, Crash, Goto
  <1>3. JobInv' /\ OutcomeInv'
    BY DEF IInv, TypeOK, JobInv, OutcomeInv, Crash, Goto
  <1>4. QED
    BY <1>2, <1>3 DEF IInv

LEMMA TickKeeps ==
  ASSUME IInv, Tick
  PROVE  IInv'
  <1>1. job' \in [Jobs -> JobType] /\ JobInv'
    BY TypesNamed, QueuedJob, ConstantsAssumption
    DEF ConstantsAssumption, IInv, JobInv, Tick, Slots
  <1>2. TypeOK'
    BY <1>1, TypesNamed, TypesNamedNext DEF IInv, Tick, worker
  <1>3. OutcomeInv'
    BY DEF IInv, OutcomeInv, Tick, worker
  <1>4. QED
    BY <1>1, <1>2, <1>3 DEF IInv

LEMMA FetchKeeps ==
  ASSUME IInv, NEW p \in Processes, NEW j \in Jobs, Fetch(p, j)
  PROVE  IInv'
  <1>1. job' = [job EXCEPT ![j] = [job[j] EXCEPT !.state = "active", !.owner = p]]
    BY DEF Fetch, IInv, TypeOK
  <1>2. job[j] \in JobType /\ [job[j] EXCEPT !.state = "active", !.owner = p] \in JobType
    <2>1. job[j] \in JobType
      BY TypesNamed DEF IInv
    <2>2. job[j].stalls \in 0..MaxStalls + 1
      BY <2>1 DEF JobType
    <2>3. QED
      BY <2>1, <2>2, UpdatedJob
  <1>3. job' \in [Jobs -> JobType]
    BY <1>1, <1>2, TypesNamed DEF IInv
  <1>4. JobInv'
    BY <1>1, <1>2, ConstantsAssumption, TypesNamed
    DEF ConstantsAssumption, IInv, JobInv, Fetch, JobType
  <1>5. TypeOK'
    BY <1>3, ConstantsAssumption, TypesNamed, TypesNamedNext
    DEF ConstantsAssumption, IInv, Fetch, Goto
  <1>6. OutcomeInv'
    BY DEF IInv, TypeOK, OutcomeInv, Fetch, Goto
  <1>7. QED
    BY <1>4, <1>5, <1>6 DEF IInv

LEMMA StallKeeps ==
  ASSUME IInv, NEW j \in Jobs, Stall(j)
  PROVE  IInv'
  <1>1. PICK s : /\ s = IF job[j].stalls < MaxStalls THEN "waiting" ELSE "failed"
                 /\ job' = [job EXCEPT ![j] = [job[j] EXCEPT !.state = s,
                                                !.stalls = job[j].stalls + 1, !.owner = Nobody]]
    BY DEF Stall, IInv, TypeOK
  <1>2. job[j] \in JobType /\ job[j].stalls \in Nat /\ job[j].stalls <= MaxStalls
    BY TypesNamed DEF IInv, JobType, JobInv, Stall
  <1>3. [job[j] EXCEPT !.state = s, !.stalls = job[j].stalls + 1, !.owner = Nobody] \in JobType
    <2>1. job[j].stalls + 1 \in 0..MaxStalls + 1
      BY <1>2, ConstantsAssumption DEF ConstantsAssumption
    <2>2. QED
      BY <1>1, <1>2, <2>1, UpdatedJob
  <1>4. job' \in [Jobs -> JobType]
    BY <1>1, <1>3, TypesNamed DEF IInv
  <1>5. JobInv'
    BY <1>1, <1>2, ConstantsAssumption, TypesNamed
    DEF ConstantsAssumption, IInv, JobInv, JobType
  <1>6. faults' \in 0..MaxFaults
    BY FaultInBounds DEF IInv, TypeOK, Stall
  <1>7. TypeOK'
    BY <1>4, <1>6, TypesNamed, TypesNamedNext DEF IInv, Stall, worker
  <1>8. OutcomeInv'
    BY DEF IInv, OutcomeInv, Stall, worker
  <1>9. QED
    BY <1>5, <1>7, <1>8 DEF IInv

LEMMA DispatchKeeps ==
  ASSUME IInv, NEW p \in Processes, Dispatch(p)
  PROVE  IInv'
  <1>1. faults' \in 0..MaxFaults
    BY FaultInBounds DEF IInv, TypeOK, Dispatch
  <1>2. PICK r \in ResultType : result' = [result EXCEPT ![p] = r] /\ r # Pending
    BY CountOfRows, CountIsNotPending, NoCount DEF IInv, TypeOK, Dispatch
  <1>3. stale' \subseteq Rows /\ deleted' \subseteq Rows \ stale'
    BY DEF IInv, TypeOK, Dispatch, DeleteStale
  <1>4. TypeOK'
    BY <1>1, <1>2, <1>3, TypesNamed, TypesNamedNext DEF IInv, Dispatch, Goto
  <1>5. JobInv' /\ OutcomeInv'
    BY <1>2 DEF IInv, TypeOK, JobInv, OutcomeInv, Dispatch, Goto
  <1>6. QED
    BY <1>4, <1>5 DEF IInv

LEMMA RecordKeeps ==
  ASSUME IInv, NEW p \in Processes, RecordRun(p)
  PROVE  IInv'
  <1>1. faults' \in 0..MaxFaults
    BY FaultInBounds DEF IInv, TypeOK, RecordRun
  <1>2. result[p].count \in Nat /\ result[p].ok \in BOOLEAN
    BY DEF IInv, TypeOK
  <1>3. told' \in Nat
    BY <1>2 DEF IInv, TypeOK, RecordRun, Written
  <1>4. thrown' \in [Processes -> BOOLEAN]
    BY <1>2 DEF IInv, TypeOK, RecordRun
  <1>5. TypeOK'
    BY <1>1, <1>3, <1>4, TypesNamed, TypesNamedNext DEF IInv, RecordRun, Goto
  <1>6. JobInv' /\ OutcomeInv'
    BY DEF IInv, TypeOK, JobInv, OutcomeInv, RecordRun, Goto
  <1>7. QED
    BY <1>5, <1>6 DEF IInv

LEMMA SettleKeeps ==
  ASSUME IInv, NEW p \in Processes, Settle(p)
  PROVE  IInv'
  <1>1. mine[p] \in Jobs
    BY DEF IInv, TypeOK, Settle
  <1>2. CASE job[mine[p]].owner # p
    <2>1. job' = job
      BY <1>2 DEF Settle
    <2>2. TypeOK'
      BY <2>1, TypesNamed, TypesNamedNext, NoCount DEF IInv, Settle, Goto
    <2>3. JobInv' /\ OutcomeInv'
      BY <2>1 DEF IInv, TypeOK, JobInv, OutcomeInv, Settle, Goto
    <2>4. QED
      BY <2>2, <2>3 DEF IInv
  <1>3. CASE job[mine[p]].owner = p
    <2>1. PICK j \in Jobs, s \in {"failed", "completed"} :
            job' = [job EXCEPT ![j] = [job[j] EXCEPT !.state = s, !.owner = Nobody]]
      BY <1>1, <1>3 DEF Settle, IInv, TypeOK
    <2>2. job[j] \in JobType /\ [job[j] EXCEPT !.state = s, !.owner = Nobody] \in JobType
      <3>1. job[j] \in JobType
        BY TypesNamed DEF IInv
      <3>2. job[j].stalls \in 0..MaxStalls + 1
        BY <3>1 DEF JobType
      <3>3. QED
        BY <3>1, <3>2, UpdatedJob
    <2>3. job' \in [Jobs -> JobType]
      BY <2>1, <2>2, TypesNamed DEF IInv
    <2>4. JobInv'
      BY <2>1, <2>2, TypesNamed DEF IInv, JobInv, JobType
    <2>5. TypeOK'
      BY <2>3, TypesNamed, TypesNamedNext, NoCount DEF IInv, Settle, Goto
    <2>6. OutcomeInv'
      BY DEF IInv, TypeOK, OutcomeInv, Settle, Goto
    <2>7. QED
      BY <2>4, <2>5, <2>6 DEF IInv
  <1>4. QED
    BY <1>2, <1>3

LEMMA ExpireKeeps ==
  ASSUME IInv, NEW r \in Rows, Expire(r)
  PROVE  IInv'
  <1>1. TypeOK'
    BY TypesNamed, TypesNamedNext DEF IInv, Expire, worker
  <1>2. JobInv' /\ OutcomeInv'
    BY DEF IInv, JobInv, OutcomeInv, Expire, worker
  <1>3. QED
    BY <1>1, <1>2 DEF IInv

LEMMA Invariance == Spec => []IInv
  <1>1. Init => IInv
    <2>1. SUFFICES ASSUME Init PROVE IInv
      OBVIOUS
    <2>2. Free \in JobType /\ Free.state = "free" /\ Free.owner = Nobody
      BY ConstantsAssumption DEF ConstantsAssumption, Free, JobType
    <2>3. TypeOK
      <3>1. told \in Nat /\ faults \in 0..MaxFaults
        BY <2>1, ConstantsAssumption DEF ConstantsAssumption, Init
      <3>2. /\ job \in [Jobs -> JobType] /\ result \in [Processes -> ResultType]
            /\ thrown \in [Processes -> BOOLEAN] /\ mine \in [Processes -> Jobs \cup {NoJob}]
        BY <2>1, <2>2, NoCount DEF Init
      <3>3. /\ pc \in [Processes -> {"down", "add", "idle", "dispatch", "record", "settle"}]
            /\ stale = {} /\ deleted = {} /\ planned = FALSE
            /\ \A p \in Processes : mine[p] = NoJob /\ pc[p] = "down" /\ result[p] = Pending
        BY <2>1 DEF Init
      <3>4. QED
        BY <3>1, <3>2, <3>3, TypesNamed
    <2>4. JobInv /\ OutcomeInv
      BY <2>1, <2>2 DEF Init, JobInv, OutcomeInv
    <2>5. QED
      BY <2>3, <2>4 DEF IInv
  <1>2. IInv /\ [Next]_vars => IInv'
    <2>1. SUFFICES ASSUME IInv, [Next]_vars PROVE IInv'
      OBVIOUS
    <2>2. CASE UNCHANGED vars
      BY <2>1, <2>2 DEF IInv, TypeOK, JobInv, OutcomeInv, vars, worker
    <2>3. ASSUME NEW p \in Processes, Run(p) PROVE IInv'
      BY <2>1, <2>3, FetchKeeps, DispatchKeeps, RecordKeeps, SettleKeeps DEF Run
    <2>4. QED
      BY <2>1, <2>2, <2>3, StartKeeps, CrashKeeps, StallKeeps, ExpireKeeps, TickKeeps DEF Next
  <1>3. QED
    BY <1>1, <1>2, PTL DEF Spec

(***************************************************************************)
(* The history adds up                                                     *)
(***************************************************************************)
\* A count is one of rows, and a run without an outcome counts none.
CountInv ==
  \A p \in Processes :
    /\ result[p].ok => result[p].count <= Cardinality(Rows)
    /\ pc[p] = "record" /\ ~result[p].ok => result[p].count = 0

SumInv == CountInv /\ HistoryAddsUp

\* What process p owes when it has c deletions to write
Share(p, c) == {p} \X (1..c)

LEMMA ShareIsCounted ==
  ASSUME NEW p, NEW c \in Nat
  PROVE  IsFiniteSet(Share(p, c)) /\ Cardinality(Share(p, c)) = c
  <1>1. IsFiniteSet({p}) /\ Cardinality({p}) = 1
    BY FS_Singleton
  <1>2. IsFiniteSet(1..c) /\ Cardinality(1..c) = c
    BY FS_Interval
  <1>3. \A S, T : IsFiniteSet(S) /\ IsFiniteSet(T) =>
          IsFiniteSet(S \X T) /\ Cardinality(S \X T) = Cardinality(S) * Cardinality(T)
    BY FS_Product
  <1>4. IsFiniteSet({p} \X (1..c))
          /\ Cardinality({p} \X (1..c)) = Cardinality({p}) * Cardinality(1..c)
    BY <1>1, <1>2, <1>3
  <1>5. 1 * c = c
    OBVIOUS
  <1>6. QED
    BY <1>1, <1>2, <1>4, <1>5 DEF Share

LEMMA DueIsFinite == IsFiniteSet(Due) /\ Cardinality(Due) \in Nat
  <1>1. IsFiniteSet(Rows) /\ Cardinality(Rows) \in Nat /\ IsFiniteSet(Processes)
    BY ConstantsAssumption, FS_CardinalityType DEF ConstantsAssumption
  <1>2. IsFiniteSet(1..Cardinality(Rows))
    BY <1>1, FS_Interval
  <1>3. \A S, T : IsFiniteSet(S) /\ IsFiniteSet(T) => IsFiniteSet(S \X T)
    BY FS_Product
  <1>4. PICK T : T = Processes \X (1..Cardinality(Rows)) /\ IsFiniteSet(T)
    BY <1>1, <1>2, <1>3
  <1>5. Due \in SUBSET T
    BY <1>4 DEF Due
  <1>6. IsFiniteSet(Due)
    BY <1>4, <1>5, FS_Subset
  <1>7. QED
    BY <1>6, FS_CardinalityType

LEMMA DeletedIsFinite ==
  ASSUME TypeOK
  PROVE  /\ IsFiniteSet(deleted) /\ Cardinality(deleted) \in Nat
         /\ IsFiniteSet(stale) /\ Cardinality(stale) \in Nat
         /\ Cardinality(stale) <= Cardinality(Rows) /\ Cardinality(Rows) \in Nat
         /\ Cardinality(deleted \cup stale) = Cardinality(deleted) + Cardinality(stale)
  <1>1. IsFiniteSet(Rows) /\ deleted \subseteq Rows /\ stale \subseteq Rows
    BY ConstantsAssumption DEF ConstantsAssumption, TypeOK
  <1>2. /\ IsFiniteSet(deleted) /\ IsFiniteSet(stale)
        /\ Cardinality(stale) <= Cardinality(Rows)
    BY <1>1, FS_Subset
  <1>3. Cardinality(deleted \cup stale)
          = Cardinality(deleted) + Cardinality(stale) - Cardinality(deleted \cap stale)
    BY <1>2, FS_Union
  <1>4. deleted \cap stale = {} /\ Cardinality({}) = 0
    BY FS_EmptySet DEF TypeOK
  <1>5. Cardinality(deleted) \in Nat /\ Cardinality(stale) \in Nat /\ Cardinality(Rows) \in Nat
    BY <1>1, <1>2, FS_CardinalityType
  <1>6. QED
    BY <1>2, <1>3, <1>4, <1>5

\* What is due in this state and in the next one
LEMMA DueNamed ==
  /\ Due \subseteq Processes \X (1..Cardinality(Rows))
  /\ Due' \subseteq Processes \X (1..Cardinality(Rows))
  /\ \A d \in Processes \X (1..Cardinality(Rows)) :
       /\ d \in Due <=>
            pc[d[1]] = "record" /\ result[d[1]].ok /\ d[2] <= result[d[1]].count
       /\ d \in Due' <=>
            pc'[d[1]] = "record" /\ result'[d[1]].ok /\ d[2] <= result'[d[1]].count
  BY DEF Due

\* The deletions that are due depend on the runs that have an outcome to record.
LEMMA DueStays ==
  ASSUME \A q \in Processes :
           \/ result'[q] = result[q] /\ (pc'[q] = "record" <=> pc[q] = "record")
           \/ pc'[q] # "record" /\ pc[q] # "record"
  PROVE  Due' = Due
  <1>1. ASSUME NEW d \in Processes \X (1..Cardinality(Rows))
        PROVE  (pc'[d[1]] = "record" /\ result'[d[1]].ok /\ d[2] <= result'[d[1]].count)
                 <=> (pc[d[1]] = "record" /\ result[d[1]].ok /\ d[2] <= result[d[1]].count)
    <2>1. d[1] \in Processes
      OBVIOUS
    <2>2. QED
      BY <2>1
  <1>2. QED
    BY <1>1 DEF Due

\* Process p has nothing to record in the one state and a count in the other.
LEMMA DueOfOne ==
  ASSUME NEW p \in Processes, NEW c \in 0..Cardinality(Rows), NEW Due1, NEW Due2,
         Due1 \subseteq Processes \X (1..Cardinality(Rows)), IsFiniteSet(Due1),
         Due2 \subseteq Processes \X (1..Cardinality(Rows)),
         \A d \in Processes \X (1..Cardinality(Rows)) :
           IF d[1] = p THEN d \notin Due1 /\ (d \in Due2 <=> d[2] <= c)
                       ELSE d \in Due1 <=> d \in Due2
  PROVE  Cardinality(Due2) = Cardinality(Due1) + c
  <1>1. Cardinality(Rows) \in Nat
    BY ConstantsAssumption, FS_CardinalityType DEF ConstantsAssumption
  <1>2. IsFiniteSet(Share(p, c)) /\ Cardinality(Share(p, c)) = c
    BY <1>1, ShareIsCounted
  <1>3. Due2 = Due1 \cup Share(p, c)
    <2>1. ASSUME NEW d \in Processes \X (1..Cardinality(Rows))
          PROVE  d \in Due2 <=> d \in Due1 \/ d \in Share(p, c)
      <3>1. PICK q \in Processes, n \in 1..Cardinality(Rows) : d = <<q, n>>
        OBVIOUS
      <3>2. CASE q = p
        BY <3>1, <3>2, <1>1 DEF Share
      <3>3. CASE q # p
        BY <3>1, <3>3, <1>1 DEF Share
      <3>4. QED
        BY <3>2, <3>3
    <2>2. Share(p, c) \subseteq Processes \X (1..Cardinality(Rows))
      BY <1>1 DEF Share
    <2>3. QED
      BY <2>1, <2>2
  <1>4. Due1 \cap Share(p, c) = {}
    BY DEF Share
  <1>5. Cardinality(Due2)
          = Cardinality(Due1) + Cardinality(Share(p, c)) - Cardinality(Due1 \cap Share(p, c))
    BY <1>2, <1>3, FS_Union
  <1>6. Cardinality(Due1) \in Nat /\ Cardinality({}) = 0
    BY FS_CardinalityType, FS_EmptySet
  <1>7. Cardinality(Due1 \cap Share(p, c)) = 0
    BY <1>4, <1>6
  <1>8. QED
    BY <1>1, <1>2, <1>5, <1>6, <1>7

\* The sum as it is carried through the steps
LEMMA SumNamed ==
  HistoryAddsUp <=>
    /\ told + Cardinality(Due) <= Cardinality(deleted)
    /\ faults = 0 => told + Cardinality(Due) = Cardinality(deleted)
  BY DEF HistoryAddsUp

LEMMA SumNamedNext ==
  HistoryAddsUp' <=>
    /\ told' + Cardinality(Due') <= Cardinality(deleted')
    /\ faults' = 0 => told' + Cardinality(Due') = Cardinality(deleted')
  BY DEF HistoryAddsUp

\* After a fault the history may only fall behind.
LEMMA FaultCounted ==
  ASSUME TypeOK, Fault
  PROVE  faults' # 0
  BY ConstantsAssumption DEF ConstantsAssumption, TypeOK, Fault

(***************************************************************************)
(* Every step keeps the sum                                                *)
(***************************************************************************)
\* Steps that neither delete, nor record, nor end an attempt that has to
LEMMA QuietKeepsSum ==
  ASSUME TypeOK, SumInv, UNCHANGED <<deleted, told>>, Fault \/ UNCHANGED faults,
         \A q \in Processes :
           \/ result'[q] = result[q] /\ (pc'[q] = "record" <=> pc[q] = "record")
           \/ pc'[q] # "record" /\ pc[q] # "record" /\ result'[q] = Pending
  PROVE  SumInv'
  <1>1. Due' = Due
    BY DueStays
  <1>2. faults' = faults \/ faults' # 0
    BY FaultCounted
  <1>3. HistoryAddsUp'
    BY <1>1, <1>2, SumNamed, SumNamedNext DEF SumInv
  <1>4. CountInv'
    BY DEF SumInv, CountInv, Pending
  <1>5. QED
    BY <1>3, <1>4 DEF SumInv

\* A crash forgets an outcome that was to be recorded.
LEMMA CrashKeepsSum ==
  ASSUME TypeOK, SumInv, NEW p \in Processes, Crash(p)
  PROVE  SumInv'
  <1>1. pc' = [pc EXCEPT ![p] = "down"] /\ result' = [result EXCEPT ![p] = Pending]
    BY DEF Crash, Goto
  <1>2. Due' \in SUBSET Due
    <2>1. ASSUME NEW d \in Processes \X (1..Cardinality(Rows)),
                 pc'[d[1]] = "record", result'[d[1]].ok, d[2] <= result'[d[1]].count
          PROVE  pc[d[1]] = "record" /\ result[d[1]].ok /\ d[2] <= result[d[1]].count
      <3>1. PICK q \in Processes : q = d[1]
        OBVIOUS
      <3>2. q # p
        BY <1>1, <2>1, <3>1 DEF TypeOK
      <3>3. pc'[q] = pc[q] /\ result'[q] = result[q]
        BY <1>1, <3>2 DEF TypeOK
      <3>4. QED
        BY <2>1, <3>1, <3>3
    <2>2. QED
      BY <2>1 DEF Due
  <1>3. Cardinality(Due') <= Cardinality(Due) /\ Cardinality(Due') \in Nat
    BY <1>2, DueIsFinite, FS_Subset, FS_CardinalityType
  <1>4. told \in Nat /\ Cardinality(deleted) \in Nat /\ Cardinality(Due) \in Nat
    BY DeletedIsFinite, DueIsFinite DEF TypeOK
  <1>5. faults' # 0 /\ told' = told /\ deleted' = deleted
    BY FaultCounted DEF Crash
  <1>6. HistoryAddsUp'
    BY <1>3, <1>4, <1>5, SumNamed, SumNamedNext DEF SumInv
  <1>7. CountInv'
    BY <1>1 DEF TypeOK, SumInv, CountInv, Pending
  <1>8. QED
    BY <1>6, <1>7 DEF SumInv

\* Rows that go are told of by the run that deleted them, or a query failed.
LEMMA DispatchKeepsSum ==
  ASSUME TypeOK, SumInv, NEW p \in Processes, Dispatch(p)
  PROVE  SumInv'
  <1>1. pc' = [pc EXCEPT ![p] = "record"] /\ pc[p] = "dispatch" /\ told' = told
    BY DEF Dispatch, Goto
  <1>2. CASE DeleteStale /\ result' = [result EXCEPT ![p] = Count(Cardinality(stale))]
             /\ faults' = faults
    <2>1. PICK c \in 0..Cardinality(Rows) :
            c = Cardinality(stale) /\ result'[p].ok /\ result'[p].count = c
      BY <1>2, DeletedIsFinite DEF Count, TypeOK
    <2>2. Cardinality(Due') = Cardinality(Due) + c
      <3>1. pc'[p] = "record" /\ pc[p] # "record"
        BY <1>1 DEF TypeOK
      <3>2. \A q \in Processes \ {p} :
              result[q] = result'[q] /\ (pc[q] = "record" <=> pc'[q] = "record")
        BY <1>1, <1>2 DEF TypeOK
      <3>3. \A d \in Processes \X (1..Cardinality(Rows)) :
              IF d[1] = p THEN d \notin Due /\ (d \in Due' <=> d[2] <= c)
                          ELSE d \in Due <=> d \in Due'
        <4>1. ASSUME NEW d \in Processes \X (1..Cardinality(Rows)), NEW q \in Processes, q = d[1]
              PROVE  IF q = p THEN d \notin Due /\ (d \in Due' <=> d[2] <= c)
                              ELSE d \in Due <=> d \in Due'
          BY <2>1, <3>1, <3>2, <4>1, DueNamed
        <4>2. QED
          BY <4>1
      <3>4. QED
        BY <2>1, <3>3, DueIsFinite, DueOfOne, DueNamed
    <2>3. Cardinality(deleted') = Cardinality(deleted) + c
      BY <1>2, <2>1, DeletedIsFinite DEF DeleteStale
    <2>4. told \in Nat /\ Cardinality(deleted) \in Nat /\ Cardinality(Due) \in Nat
      BY DeletedIsFinite, DueIsFinite DEF TypeOK
    <2>5. HistoryAddsUp'
      BY <1>1, <1>2, <2>1, <2>2, <2>3, <2>4, DeletedIsFinite, SumNamed, SumNamedNext DEF SumInv
    <2>6. CountInv'
      BY <1>1, <1>2, <2>1, DeletedIsFinite DEF TypeOK, SumInv, CountInv
    <2>7. QED
      BY <2>5, <2>6 DEF SumInv
  <1>3. CASE /\ Fault /\ result' = [result EXCEPT ![p] = Error]
             /\ DeleteStale \/ UNCHANGED <<stale, deleted>>
    <2>1. Due' = Due
      <3>1. ~Error.ok /\ Error.count = 0
        BY DEF Error
      <3>2. ASSUME NEW d \in Processes \X (1..Cardinality(Rows))
            PROVE  (pc'[d[1]] = "record" /\ result'[d[1]].ok /\ d[2] <= result'[d[1]].count)
                     <=> (pc[d[1]] = "record" /\ result[d[1]].ok /\ d[2] <= result[d[1]].count)
        <4>1. PICK q \in Processes : q = d[1]
          OBVIOUS
        <4>2. CASE q = p
          BY <1>1, <1>3, <3>1, <4>1, <4>2 DEF TypeOK
        <4>3. CASE q # p
          BY <1>1, <1>3, <4>1, <4>3 DEF TypeOK
        <4>4. QED
          BY <4>2, <4>3
      <3>3. QED
        BY <3>2 DEF Due
    <2>2. Cardinality(deleted') >= Cardinality(deleted) /\ Cardinality(deleted') \in Nat
      <3>1. deleted' = deleted \cup stale \/ deleted' = deleted
        BY <1>3 DEF DeleteStale
      <3>2. Cardinality(deleted \cup stale) >= Cardinality(deleted)
              /\ Cardinality(deleted \cup stale) \in Nat /\ Cardinality(deleted) \in Nat
        BY DeletedIsFinite
      <3>3. Cardinality(deleted) >= Cardinality(deleted)
        BY <3>2
      <3>4. QED
        BY <3>1, <3>2, <3>3
    <2>3. told \in Nat /\ Cardinality(deleted) \in Nat /\ Cardinality(Due) \in Nat
      BY DeletedIsFinite, DueIsFinite DEF TypeOK
    <2>4. HistoryAddsUp'
      BY <1>1, <1>3, <2>1, <2>2, <2>3, FaultCounted, SumNamed, SumNamedNext DEF SumInv
    <2>5. CountInv'
      BY <1>1, <1>3 DEF TypeOK, SumInv, CountInv, Error
    <2>6. QED
      BY <2>4, <2>5 DEF SumInv
  <1>4. QED
    BY <1>2, <1>3 DEF Dispatch

\* What was due is written, or the row about it is lost to a fault.
LEMMA RecordKeepsSum ==
  ASSUME TypeOK, SumInv, NEW p \in Processes, RecordRun(p)
  PROVE  SumInv'
  <1>1. /\ pc' = [pc EXCEPT ![p] = "settle"] /\ pc[p] = "record"
        /\ result' = result /\ deleted' = deleted
    BY DEF RecordRun, Goto
  <1>2. /\ result[p].count \in Nat /\ result[p].ok \in BOOLEAN
        /\ told \in Nat /\ Cardinality(deleted) \in Nat /\ Cardinality(Due) \in Nat
    BY DeletedIsFinite, DueIsFinite DEF TypeOK
  <1>3. told' = told + result[p].count \/ (told' = told /\ Fault)
    BY DEF RecordRun, Written
  <1>4. Cardinality(Due) = Cardinality(Due') + result[p].count /\ Cardinality(Due') \in Nat
    <2>1. CASE result[p].ok
      <3>1. PICK c \in 0..Cardinality(Rows) : c = result[p].count
        BY <1>2, <2>1, DeletedIsFinite DEF SumInv, CountInv
      <3>2. Due' \in SUBSET Due
        <4>1. ASSUME NEW q \in Processes, pc'[q] = "record" PROVE pc[q] = "record"
          BY <1>1, <4>1 DEF TypeOK
        <4>2. QED
          BY <1>1, <4>1 DEF Due
      <3>3. IsFiniteSet(Due') /\ Cardinality(Due') \in Nat
        BY <3>2, DueIsFinite, FS_Subset, FS_CardinalityType
      <3>4. pc'[p] # "record"
        BY <1>1 DEF TypeOK
      <3>5. \A q \in Processes \ {p} :
              result'[q] = result[q] /\ (pc'[q] = "record" <=> pc[q] = "record")
        BY <1>1 DEF TypeOK
      <3>6. \A d \in Processes \X (1..Cardinality(Rows)) :
              IF d[1] = p THEN d \notin Due' /\ (d \in Due <=> d[2] <= c)
                          ELSE d \in Due' <=> d \in Due
        <4>1. ASSUME NEW d \in Processes \X (1..Cardinality(Rows)), NEW q \in Processes, q = d[1]
              PROVE  IF q = p THEN d \notin Due' /\ (d \in Due <=> d[2] <= c)
                              ELSE d \in Due' <=> d \in Due
          BY <1>1, <2>1, <3>1, <3>4, <3>5, <4>1, DueNamed
        <4>2. QED
          BY <4>1
      <3>7. QED
        <4>1. Cardinality(Due) = Cardinality(Due') + c
          BY <3>3, <3>6, DueOfOne, DueNamed
        <4>2. QED
          BY <3>1, <3>3, <4>1
    <2>2. CASE ~result[p].ok
      <3>1. result[p].count = 0
        BY <1>1, <2>2 DEF SumInv, CountInv
      <3>2. ASSUME NEW d \in Processes \X (1..Cardinality(Rows))
            PROVE  (pc'[d[1]] = "record" /\ result'[d[1]].ok /\ d[2] <= result'[d[1]].count)
                     <=> (pc[d[1]] = "record" /\ result[d[1]].ok /\ d[2] <= result[d[1]].count)
        <4>1. PICK q \in Processes : q = d[1]
          OBVIOUS
        <4>2. QED
          BY <1>1, <2>2, <4>1 DEF TypeOK
      <3>3. Due' = Due
        BY <3>2 DEF Due
      <3>4. QED
        BY <1>2, <3>1, <3>3
    <2>3. QED
      BY <1>2, <2>1, <2>2
  <1>5. HistoryAddsUp'
    <2>1. CASE told' = told + result[p].count
      <3>1. faults' = faults \/ faults' # 0
        BY FaultCounted DEF RecordRun
      <3>2. told' + Cardinality(Due') = told + Cardinality(Due)
        BY <1>2, <1>4, <2>1
      <3>3. QED
        BY <1>1, <3>1, <3>2, SumNamed, SumNamedNext DEF SumInv
    <2>2. CASE told' = told /\ Fault
      <3>1. faults' # 0
        BY <2>2, FaultCounted
      <3>2. QED
        BY <1>1, <1>2, <1>4, <2>2, <3>1, SumNamed, SumNamedNext DEF SumInv
    <2>3. QED
      BY <1>3, <2>1, <2>2
  <1>6. CountInv'
    BY <1>1 DEF TypeOK, SumInv, CountInv
  <1>7. QED
    BY <1>5, <1>6 DEF SumInv

LEMMA SumInvariance == Spec => []SumInv
  <1>1. Init => SumInv
    <2>1. SUFFICES ASSUME Init PROVE SumInv
      OBVIOUS
    <2>2. Due = {} /\ deleted = {} /\ told = 0 /\ Cardinality({}) = 0
      BY <2>1, FS_EmptySet DEF Init, Due
    <2>3. CountInv
      BY <2>1 DEF Init, CountInv, Pending
    <2>4. QED
      BY <2>2, <2>3, SumNamed DEF SumInv
  <1>2. IInv /\ SumInv /\ [Next]_vars => SumInv'
    <2>1. SUFFICES ASSUME TypeOK, SumInv, [Next]_vars PROVE SumInv'
      BY DEF IInv
    <2>2. ASSUME NEW p \in Processes, Boot(p) PROVE SumInv'
      BY <2>1, <2>2, QuietKeepsSum DEF Boot, UpsertScheduler, AddEager, Goto, TypeOK
    <2>3. ASSUME NEW p \in Processes, NEW j \in Jobs, Fetch(p, j) PROVE SumInv'
      BY <2>1, <2>3, QuietKeepsSum DEF Fetch, Goto, TypeOK
    <2>4. ASSUME NEW p \in Processes, Settle(p) PROVE SumInv'
      <3>1. /\ pc' = [pc EXCEPT ![p] = "idle"] /\ result' = [result EXCEPT ![p] = Pending]
            /\ pc[p] = "settle" /\ UNCHANGED <<deleted, told, faults>>
        BY <2>4 DEF Settle, Goto
      <3>2. QED
        BY <2>1, <3>1, QuietKeepsSum DEF TypeOK
    <2>5. CASE Tick
      BY <2>1, <2>5, QuietKeepsSum DEF Tick, worker
    <2>6. ASSUME NEW r \in Rows, Expire(r) PROVE SumInv'
      BY <2>1, <2>6, QuietKeepsSum DEF Expire, worker
    <2>7. ASSUME NEW j \in Jobs, Stall(j) PROVE SumInv'
      BY <2>1, <2>7, QuietKeepsSum DEF Stall, worker
    <2>8. CASE UNCHANGED vars
      BY <2>1, <2>8, QuietKeepsSum DEF vars, worker
    <2>9. QED
      BY <2>1, <2>2, <2>3, <2>4, <2>5, <2>6, <2>7, <2>8,
         CrashKeepsSum, DispatchKeepsSum, RecordKeepsSum DEF Next, Run
  <1>3. QED
    BY <1>1, <1>2, Invariance, PTL DEF Spec

(***************************************************************************)
(* The theorems                                                            *)
(***************************************************************************)
\* Types hold, and so do the rules about the locals of an attempt.
THEOREM TypesHold == Spec => []TypeOK
  BY Invariance, PTL DEF IInv

\* The runs on record never tell of more deletions than were made, and while
\* nothing fails they tell of every one, whichever runs overlap or repeat: the
\* rows one run deletes are gone for the others, and only what a worker has
\* still to write is missing.
THEOREM HistoryIsTrue == Spec => []HistoryAddsUp
  BY SumInvariance, PTL DEF SumInv

\* A job becomes completed only by the worker that owns it and whose dispatch
\* succeeded, and failed only by one whose dispatch threw or by stalling once
\* too often, whatever becomes of the row that records the run.
THEOREM JobsTellTheTruth == Spec => OutcomeIsTheTasks
  <1>1. ASSUME IInv, [Next]_vars, NEW j \in Jobs, NEW p, p = job[j].owner,
               job[j].state = "active"
        PROVE  /\ job'[j].state = "completed" => result[p].ok
               /\ job'[j].state = "failed" => job'[j].stalls > MaxStalls \/ ~result[p].ok
    <2>1. CASE job'[j] = job[j]
      BY <1>1, <2>1
    <2>2. ASSUME NEW q \in Processes, Settle(q), job'[j] # job[j]
          PROVE  /\ p = q /\ (job'[j].state = "completed" => result[q].ok)
                 /\ job'[j].state = "failed" => ~result[q].ok
      <3>1. mine[q] = j /\ job[j].owner = q
        BY <1>1, <2>2 DEF IInv, TypeOK, Settle
      <3>2. job'[j].state = IF thrown[q] THEN "failed" ELSE "completed"
        BY <1>1, <2>2, <3>1 DEF IInv, TypeOK, Settle
      <3>3. thrown[q] = ~result[q].ok /\ thrown[q] \in BOOLEAN /\ result[q].ok \in BOOLEAN
        BY <1>1, <2>2 DEF IInv, TypeOK, OutcomeInv, Settle
      <3>4. QED
        BY <1>1, <3>1, <3>2, <3>3
    <2>3. ASSUME NEW i \in Jobs, Stall(i), job'[j] # job[j]
          PROVE  /\ job'[j].state # "completed"
                 /\ job'[j].state = "failed" => job'[j].stalls > MaxStalls
      <3>1. i = j /\ job[j].stalls \in Nat
        BY <1>1, <2>3 DEF IInv, TypeOK, Stall
      <3>2. /\ job'[j].state = IF job[j].stalls < MaxStalls THEN "waiting" ELSE "failed"
            /\ job'[j].stalls = job[j].stalls + 1
        BY <1>1, <2>3, <3>1 DEF IInv, TypeOK, Stall
      <3>3. QED
        BY <3>1, <3>2, ConstantsAssumption DEF ConstantsAssumption
    <2>4. CASE Tick \/ \E q \in Processes : AddEager(q)
      BY <1>1, <2>4, TypesNamed DEF IInv, Tick, AddEager, Slots
    <2>5. ASSUME NEW q \in Processes, NEW i \in Jobs, Fetch(q, i)
          PROVE  job'[j] = job[j]
      BY <1>1, <2>5 DEF IInv, TypeOK, Fetch
    <2>6. ASSUME NEW q \in Processes,
                 UpsertScheduler(q) \/ Dispatch(q) \/ RecordRun(q) \/ Crash(q)
          PROVE  job' = job
      BY <2>6 DEF UpsertScheduler, Dispatch, RecordRun, Crash
    <2>7. CASE \E r \in Rows : Expire(r)
      BY <2>1, <2>7 DEF Expire
    <2>8. CASE UNCHANGED vars
      BY <2>1, <2>8 DEF vars
    <2>9. QED
      BY <1>1, <2>1, <2>2, <2>3, <2>4, <2>5, <2>6, <2>7, <2>8 DEF Next, Boot, Run
  <1>2. IInv /\ [Next]_vars =>
          [\A j \in Jobs :
             LET p == job[j].owner IN
             /\ job[j].state = "active" /\ job'[j].state = "completed" => result[p].ok
             /\ job[j].state = "active" /\ job'[j].state = "failed" =>
                  job'[j].stalls > MaxStalls \/ ~result[p].ok]_vars
    BY <1>1
  <1>3. QED
    BY <1>2, Invariance, PTL DEF Spec, OutcomeIsTheTasks
=============================================================================
