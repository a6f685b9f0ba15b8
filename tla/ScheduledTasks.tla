--------------------------- MODULE ScheduledTasks ---------------------------
(***************************************************************************)
(* The queue of scheduled tasks: what each backend process registers when  *)
(* it starts, and how its worker runs the cleanup of refresh tokens and    *)
(* records the run in ScheduledTaskRun, await by await.                    *)
(*                                                                         *)
(* External: BullMQ (one delayed job per scheduler id, the next one made   *)
(* when a tick is fetched; jobs of a dead worker run again once; no retry  *)
(* unless a job asks for attempts), and who starts a process that died:    *)
(* nothing in the repository does.                                         *)
(* Which rows are stale is RefreshTokens' subject.                         *)
(***************************************************************************)
EXTENDS Naturals, FiniteSets

CONSTANTS
  Processes,   \* backend processes, each with one worker
  Jobs,        \* jobs the queue may hold at a time
  Rows,        \* RefreshToken rows
  Nobody,      \* a job no worker holds
  NoJob,       \* a worker without a job
  Production,  \* env.NODE_ENV = 'production'
  MaxStalls,   \* BullMQ's maxStalledCount
  MaxFaults    \* bound: queries and Redis calls that fail, crashes, stalls

ASSUME ConstantsAssumption ==
  /\ Nobody \notin Processes /\ NoJob \notin Jobs
  /\ Production \in BOOLEAN
  /\ IsFiniteSet(Rows) /\ IsFiniteSet(Processes)
  /\ MaxStalls \in Nat /\ MaxFaults \in Nat

VARIABLES
  stale,    \* rows the task would delete
  deleted,  \* rows it has deleted
  planned,  \* the scheduler has its delayed job
  job,      \* the jobs of the queue
  pc,       \* where each process is
  mine,     \* the job its worker runs
  result,   \* what dispatch gave: none, a count of rows, or an error
  thrown,   \* process() threw
  told,     \* the sum of deletedCount over the ScheduledTaskRun rows (history)
  faults    \* bound

worker == <<pc, mine, result, thrown>>
vars == <<stale, deleted, planned, job, worker, told, faults>>

Free == [state |-> "free", kind |-> "none", stalls |-> 0, owner |-> Nobody]
Queued(kind) == [Free EXCEPT !.state = "waiting", !.kind = kind]

\* A slot of the queue without a job that is still to run
Slots == {j \in Jobs : job[j].state \in {"free", "completed", "failed"}}

Count(n) == [ok |-> TRUE, count |-> n]
Error == [ok |-> FALSE, count |-> 0]
Pending == [ok |-> FALSE, count |-> 1]   \* dispatch has not returned

Fault == faults < MaxFaults /\ faults' = faults + 1

Goto(p, at) == pc' = [pc EXCEPT ![p] = at]

(***************************************************************************)
(* onModuleInit                                                            *)
(***************************************************************************)
\* The process starts; upsertJobScheduler: one schedule of this id, whoever
\* registered it before
UpsertScheduler(p) ==
  /\ pc[p] = "down"
  /\ planned' = TRUE
  /\ Goto(p, IF Production THEN "idle" ELSE "add")
  /\ UNCHANGED <<stale, deleted, job, mine, result, thrown, told, faults>>

\* The eager pass outside production; its slot is the bound on the queue.
AddEager(p) ==
  /\ pc[p] = "add"
  /\ \/ \E j \in Slots : job' = [job EXCEPT ![j] = Queued("eager")]
     \/ Slots = {} /\ UNCHANGED job
  /\ Goto(p, "idle")
  /\ UNCHANGED <<stale, deleted, planned, mine, result, thrown, told, faults>>

\* The process dies: at start because onModuleInit threw, or at any time.
Crash(p) ==
  /\ pc[p] # "down"
  /\ Fault
  /\ Goto(p, "down")
  /\ mine' = [mine EXCEPT ![p] = NoJob]
  /\ result' = [result EXCEPT ![p] = Pending]
  /\ thrown' = [thrown EXCEPT ![p] = FALSE]
  /\ UNCHANGED <<stale, deleted, planned, job, told>>

(***************************************************************************)
(* BullMQ                                                                  *)
(***************************************************************************)
\* 03:00
Tick ==
  /\ planned
  /\ planned' = FALSE
  /\ \E j \in Slots : job' = [job EXCEPT ![j] = Queued("tick")]
  /\ UNCHANGED <<stale, deleted, worker, told, faults>>

Fetch(p, j) ==
  /\ pc[p] = "idle" /\ job[j].state = "waiting"
  /\ job' = [job EXCEPT ![j].state = "active", ![j].owner = p]
  /\ planned' = (planned \/ job[j].kind = "tick")
  /\ mine' = [mine EXCEPT ![p] = j]
  /\ Goto(p, "dispatch")
  /\ UNCHANGED <<stale, deleted, result, thrown, told, faults>>

\* The worker of an active job is gone.
Abandoned(j) == job[j].state = "active" /\ mine[job[j].owner] # j

\* The lock on an active job ran out: its process died, or was too slow.
Stall(j) ==
  /\ job[j].state = "active"
  /\ IF Abandoned(j) THEN UNCHANGED faults ELSE Fault
  /\ job' = [job EXCEPT ![j].state = IF job[j].stalls < MaxStalls
                                      THEN "waiting" ELSE "failed",
                        ![j].stalls = @ + 1,
                        ![j].owner = Nobody]
  /\ UNCHANGED <<stale, deleted, planned, worker, told>>

\* The job template has no attempts: whatever throws has failed.
Settle(p) ==
  LET j == mine[p] IN
  /\ pc[p] = "settle"
  /\ job' = IF job[j].owner # p THEN job
            ELSE [job EXCEPT ![j].state = IF thrown[p] THEN "failed" ELSE "completed",
                             ![j].owner = Nobody]
  /\ Goto(p, "idle")
  /\ mine' = [mine EXCEPT ![p] = NoJob]
  /\ result' = [result EXCEPT ![p] = Pending]
  /\ thrown' = [thrown EXCEPT ![p] = FALSE]
  /\ UNCHANGED <<stale, deleted, planned, told, faults>>

(***************************************************************************)
(* ScheduledTasksProcessor                                                 *)
(***************************************************************************)
Expire(r) ==
  /\ r \notin stale \cup deleted
  /\ stale' = stale \cup {r}
  /\ UNCHANGED <<deleted, planned, job, worker, told, faults>>

\* The deleteMany of CleanupRefreshTokensTask
DeleteStale == stale' = {} /\ deleted' = deleted \cup stale

\* Mutant: the job is registered under a name that dispatch does not know.
Dispatch_UnknownName(p) ==
  /\ pc[p] = "dispatch"
  /\ result' = [result EXCEPT ![p] = Error]
  /\ Goto(p, "record")
  /\ UNCHANGED <<stale, deleted, planned, job, mine, thrown, told, faults>>

\* dispatch: the count, or the error of a query that failed or lost its reply
Dispatch(p) ==
  /\ pc[p] = "dispatch"
  /\ \/ /\ DeleteStale
        /\ result' = [result EXCEPT ![p] = Count(Cardinality(stale))]
        /\ UNCHANGED faults
     \/ /\ Fault
        /\ result' = [result EXCEPT ![p] = Error]
        /\ DeleteStale \/ UNCHANGED <<stale, deleted>>
  /\ Goto(p, "record")
  /\ UNCHANGED <<planned, job, mine, thrown, told>>

Written(p) == told' = told + result[p].count

\* Mutant: a write whose reply is lost is tried again.
RecordRun_Retries(p) ==
  /\ pc[p] = "record"
  /\ \/ Written(p) /\ UNCHANGED faults /\ Goto(p, "settle")
     \/ Fault /\ Written(p) /\ Goto(p, "record")
  /\ thrown' = [thrown EXCEPT ![p] = ~result[p].ok]
  /\ UNCHANGED <<stale, deleted, planned, job, mine, result>>

\* Mutant: process() records the error and does not throw it again.
RecordRun_Swallows(p) ==
  /\ pc[p] = "record"
  /\ Written(p)
  /\ Goto(p, "settle")
  /\ UNCHANGED <<thrown, stale, deleted, planned, job, mine, result, faults>>

\* recordRun, which swallows its own error; then process() returns or throws.
RecordRun(p) ==
  /\ pc[p] = "record"
  /\ \/ Written(p) /\ UNCHANGED faults
     \/ Fault /\ (Written(p) \/ UNCHANGED told)
  /\ Goto(p, "settle")
  /\ thrown' = [thrown EXCEPT ![p] = ~result[p].ok]
  /\ UNCHANGED <<stale, deleted, planned, job, mine, result>>

(***************************************************************************)
(* Specification                                                           *)
(***************************************************************************)
Init ==
  /\ stale = {} /\ deleted = {}
  /\ planned = FALSE
  /\ job = [j \in Jobs |-> Free]
  /\ pc = [p \in Processes |-> "down"]
  /\ mine = [p \in Processes |-> NoJob]
  /\ result = [p \in Processes |-> Pending]
  /\ thrown = [p \in Processes |-> FALSE]
  /\ told = 0
  /\ faults = 0

Boot(p) == UpsertScheduler(p) \/ AddEager(p)
Run(p) == (\E j \in Jobs : Fetch(p, j)) \/ Dispatch(p) \/ RecordRun(p) \/ Settle(p)

Next ==
  \/ \E p \in Processes : Boot(p) \/ Run(p) \/ Crash(p)
  \/ \E j \in Jobs : Stall(j)
  \/ \E r \in Rows : Expire(r)
  \/ Tick

Spec == Init /\ [][Next]_vars

\* Some backend runs; its worker also looks for abandoned jobs and for due ones.
Running == \E p \in Processes : pc[p] # "down"

\* A process that runs goes on with what it is at; while one runs an abandoned job is
\* found and the day comes.  Nobody promises to start a process that is down.
FairSpec ==
  /\ Spec
  /\ \A p \in Processes : WF_vars(AddEager(p)) /\ WF_vars(Run(p))
  /\ \A j \in Jobs : WF_vars(Running /\ Abandoned(j) /\ Stall(j))
  /\ WF_vars(Running /\ Tick)

-----------------------------------------------------------------------------
(***************************************************************************)
(* Properties                                                              *)
(***************************************************************************)
\* The deletions whose row in the history is still to be written, one by one
Due ==
  {d \in Processes \X (1..Cardinality(Rows)) :
     pc[d[1]] = "record" /\ result[d[1]].ok /\ d[2] <= result[d[1]].count}

\* Types, and the locals of an attempt: a job while it runs, and the outcome of
\* dispatch from the moment there is something to record.
TypeOK ==
  /\ stale \subseteq Rows /\ deleted \subseteq Rows \ stale
  /\ planned \in BOOLEAN
  /\ job \in [Jobs -> [state : {"free", "waiting", "active", "completed", "failed"},
                       kind : {"none", "tick", "eager"}, stalls : 0..MaxStalls + 1,
                       owner : Processes \cup {Nobody}]]
  /\ pc \in [Processes -> {"down", "add", "idle", "dispatch", "record", "settle"}]
  /\ mine \in [Processes -> Jobs \cup {NoJob}]
  /\ result \in [Processes -> [ok : BOOLEAN, count : 0..Cardinality(Rows) + 1]]
  /\ thrown \in [Processes -> BOOLEAN]
  /\ told \in Nat /\ faults \in 0..MaxFaults
  /\ \A p \in Processes :
       /\ mine[p] # NoJob <=> pc[p] \in {"dispatch", "record", "settle"}
       /\ result[p] # Pending <=> pc[p] \in {"record", "settle"}

\* The history of runs tells how many rows were deleted: never more than were,
\* although runs may overlap and a stalled job runs twice, and exactly as many
\* as long as no query, process or lock fails.
HistoryAddsUp ==
  LET sum == told + Cardinality(Due) IN
  /\ sum <= Cardinality(deleted)
  /\ faults = 0 => sum = Cardinality(deleted)

\* scheduled-tasks.processor.spec.ts:47: the outcome of a job is that of the
\* task, whatever becomes of the row about it: completed if the rows were
\* deleted and the query said so, failed if it did not or the job stalled twice.
OutcomeIsTheTasks ==
  [][\A j \in Jobs :
       LET p == job[j].owner IN
       /\ job[j].state = "active" /\ job'[j].state = "completed" => result[p].ok
       /\ job[j].state = "active" /\ job'[j].state = "failed" =>
            job'[j].stalls > MaxStalls \/ ~result[p].ok]_vars

\* As long as some backend is left running, a stale row goes in the end: a failed run
\* is followed by another tick, whichever of the others die, and the schedule and the
\* jobs outlive the process they came from.
StaleRowsGo ==
  <>[]Running => \A r \in Rows : r \in stale ~> r \in deleted
=============================================================================
