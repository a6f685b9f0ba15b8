# SyncEvent in TLA+

SyncEvent lets users publish events, join them and leave them. Its backend
(NestJS, Postgres through Prisma, Redis, BullMQ, Kafka) takes a join request
asynchronously: an HTTP handler enqueues it, a worker runs the Postgres
transaction under a per-event Redis lock, the client polls a status in Redis, and
a transactional outbox carries the fact to Kafka consumers. Sessions are rotating
refresh tokens in Postgres and access tokens in the memory of each browser tab. The
repository also holds a chess engine that no service uses yet. This directory
models these parts and proves what it can about their core.

Paths below are relative to `apps/backend/src/` of the repository unless they
start with `apps/`, `packages/` or `docs/`.

## 1. Inventory

| Component | State | Operations | Interacts with | Hard behaviour |
|---|---|---|---|---|
| Event store (`events/events.service.ts`, Prisma schema) | `Event` (with the denormalised `seatsTaken`), `EventParticipant`, `OutboxEvent` | create, joinEvent, leaveEvent, remove, update; findAll, findOne, findMyCalendar read only | called by the controller and by the booking worker; its outbox rows feed the relay | statements of concurrent transactions interleave; unlocked read before write in remove and update; transaction timeouts; lost replies |
| Join queue (`booking/booking-queue.service.ts`, `booking-status.service.ts`, `redis/redis.service.ts`) | Redis keys `pending-join:{event}:{user}` (60 s), `reqstatus:{requestId}` (1 h), the BullMQ queue | enqueueJoin, getStatus | worker, polling client | four awaits between which everything can change; keys that expire; calls that die half-way |
| Booking worker (`booking/booking.processor.ts`) | Redis key `lock:event:{event}` (10 s) | process | event store, Redis, BullMQ retries and stalls | re-run after a crash, lock expiry under a slow holder, errors inside catch and finally |
| Outbox relay (`outbox/outbox-relay.service.ts`, `kafka/kafka-producer.service.ts`) | `sentAt`, the timer, `stopped`, `ticking` | tick, scheduleNext, onModuleInit, onModuleDestroy | reads the event store's rows, writes to Kafka | crash or failure between publish and mark, overlapping replicas, rows that become visible late |
| Kafka consumers (`apps/analytics-service`, `apps/notifications-service`) | bounded `SeenMessages`, consumer offsets | one handler per topic | Kafka | redelivery, rebalance, restart, order across topics |
| Authentication (`auth/`) | `RefreshToken` rows, access-token blocklist, the cookie | register, login, refreshTokens, logout, logoutAllDevices | cleanup task, browser session | concurrent refresh of one token, grace period, reuse detection, failure between any two queries |
| Scheduled tasks (`scheduled-tasks/`) | BullMQ scheduler and queue, `ScheduledTaskRun` | registration at start, the worker, cleanup of refresh tokens, the row about each run | authentication | runs against live refreshes, crashes, stalled jobs, a failed row about a run |
| Browser session (`apps/frontend-next/features/auth`, `features/api`) | access token in memory, one refresh in flight | bootstrap, retry after 401, login, logout, messages of other tabs | authentication | many requests sharing one refresh, other tabs, a reload at any time |
| Event pages (`apps/frontend-next/features/events`, `screens`, `app`) | RTK Query cache, pending invalidations, join keys | the queries of three pages, every mutation, join polling, login, logout | event store, join queue, browser session | answers out of order, invalidation delayed by other requests, change of user under way |
| Calendar (`apps/frontend-next/screens/MyEventsCalendar.tsx`) | the day and the view in front of the user, the fetched events | previous, next, change of view | event pages | ends of months and years, leap days, time zones |
| Chess engine (`packages/chess-engine`) | none (pure) | attacks, moves, game status, SAN | nothing yet | algorithmic corner cases |
| HTTP shell, forms, legacy frontend, lint rules, shared types, infrastructure | none of interest | | | |

What makes each of the modelled components correct: the seat counter equals the
membership and no join passes the capacity; every request is answered, and
truthfully; the outbox tells exactly what was committed, in order; a CONFIRMED
status stands for a committed seat; locks and claims are released only by their
owner; a polled join is eventually answered; no outbox row is lost or overtakes
an older one of its event; consumers handle each message once per window and,
once their group has begun a topic, skip none; a session has one usable refresh token and, once ended, none; a token is
refreshed once however many requests need it; what a page shows is the server's
state and the user's own; every stale token row goes, and the history of runs does not
boast of more; no event of the calendar is passed over or shown on another day; the engine's moves, checks and mates are those of the
rules. The hazards behind these are listed line by line in `PROJECT.json`.

## 2. Modules

| Module | What it is |
|---|---|
| `SeatLedger` | Abstract specification: each request takes effect, or is refused for a reason that holds, in one step. Seats are counted from the membership; there is no counter. |
| `EventStore` | `EventsService` statement by statement, with Postgres row locks. |
| `EventStoreProofs` | Inductive invariant and all safety theorems about `EventStore`, and that it implements `SeatLedger`. |
| `BookingQueue` | The join path of one event: enqueueJoin, the Redis keys, BullMQ, the worker. |
| `BookingQueueProofs` | Inductive invariant and all safety theorems about `BookingQueue`. |
| `OutboxRelay` | Outbox rows, relays of several replicas, the Kafka log, the consumers. |
| `OutboxRelayProofs` | Inductive invariants and all safety theorems about `OutboxRelay`. |
| `SessionChain` | Abstract specification: a session is a chain of tokens of which at most one is usable, until it is closed. |
| `RefreshTokens` | `AuthService` query by query, the cookie, the blocklist, the cleanup task. |
| `RefreshTokensProofs` | Inductive invariants and all safety theorems about `RefreshTokens`, and that it implements `SessionChain`. |
| `ScheduledTasks` | The queue of scheduled tasks: registration, ticks, the worker, the rows about its runs. |
| `ScheduledTasksProofs` | Inductive invariants and all safety theorems about `ScheduledTasks`. |
| `BrowserSession` | The session of the browser tabs: `session.ts`, `baseApi.ts`, `authChannel.ts` await by await. |
| `BrowserSessionProofs` | Inductive invariant and all safety theorems about `BrowserSession`. |
| `EventPages` | One tab: its cached queries, its mutations, their tags, login and logout. |
| `EventPagesProofs` | Inductive invariant and all safety theorems about `EventPages`. |
| `Calendar` | `MyEventsCalendar.tsx`: the days of a month or a week, their events, paging. |
| `ChessEngine` | Attacks, moves, castling, promotion, mate and SAN as operators on positions. |
| `ChessGame` | Games played with `ChessEngine` and the definitions of the rules it is checked against. |
| `AlgorithmProofs` | All theorems about `Calendar` and about `ChessGame`, each for any value of its constants. |
| `MCEventStore`, `MCBookingQueue`, `MCOutboxRelay`, `MCRefreshTokens`, `MCBrowserSession`, `MCEventPages`, `MCCalendar`, `MCChess` | Symmetry sets, functions and positions for the runs. |

The models meet at two seams. `BookingQueue!JoinEvent` is one atomic step: that is
what `SeatLedger!Join` says of `joinEvent`, and what the refinement theorem
justifies. `OutboxRelay` takes for granted that rows of one event become visible
in the order of `createdAt`: that is `EventStore!OutboxInCommitOrder`. The answers of
the server in `BrowserSession` (a refresh gives a new access token of the session
whose cookie was sent, or 401) are what `RefreshTokens` allows; those in
`EventPages` (a join is queued, then confirmed or rejected) what `BookingQueue` does.

### EventStore

A session is one request against Postgres. `pc[s]` names the statement it
executes next:

| `pc` | statement | lines of `events.service.ts` |
|---|---|---|
| `lock` | `SELECT .. FOR UPDATE` (`SelectForUpdate`) | 154, 199 |
| `find` | `findUnique` and the checks on it (`FindEvent`) | 156-160, 201-210 |
| `member` | `createMany` / `deleteMany` and its count (`ChangeMembership`) | 162-168, 212-217 |
| `seat` | conditional increment / `GREATEST` decrement (`TakeSeat`) | 170-182, 219-221 |
| `insert` | the event with its organiser (`InsertEvent`) | 53-67 |
| `read` | `findOne` and the ownership check (`ReadOwner`) | 255-258, 271-275 |
| `erase` | `event.delete` (`DeleteEvent`) | 260 |
| `apply` | `event.update` (`UpdateEvent`) | 288-298 |
| `outbox` | `writeOutbox` (`WriteOutbox`) | 20-39 |
| `commit` | `COMMIT` (`CommitCreate`, `CommitJoin`, `CommitLeave`, `CommitRemove`) | |

The writes of an open transaction live in `seats` and `draft` and become visible
at the commit. A row lock is held to the end of the transaction. `Abort` may end
a session at every statement; a commit may lose its reply. Whether Prisma takes
the `now()` of `createdAt` when the transaction begins or when the row is created
depends on its engine, so the constant `StampAt` has both.

Abstracted: titles, dates and texts (with the date checks, which refuse before
any state is read or written), visibility, the read-only queries. Event ids are never reused.

### BookingQueue

Every await of `enqueueJoin` and of `process()` is a step; `cpc` and `wpc` say
which one comes next. `status`/`reason`, `claim` and `lock` are the Redis keys.
Faults: a backend that dies in a call, a Redis call of the worker that fails
before or after Redis applied it, a `joinEvent` that throws before or after its
commit, a worker that dies or loses its BullMQ lock (`Stall`). Keys expire at any
time (`Expire`): a job may wait in the queue for longer than every TTL. The TTL
of `reqstatus` (one hour) is not modelled. BullMQ itself is external: it is
modelled from the options the code passes (`jobId`, `attempts`,
`removeOnComplete`, `removeOnFail`) and its default `maxStalledCount`.

### OutboxRelay

`pc[r]` of a relay is `armed` (timer set), `find`, `emit`, `mark` (the tick's
awaits) or `off`. `ticking` is true exactly in the last three of the tick; only
the timer calls `tick()` and it waits for it, so the guard on `ticking` never
fires. `Batches` is what `findMany` may return, with ties in `createdAt` in any
order. `Relays` are the backend processes whose relay is not switched off with
`OUTBOX_RELAY_DISABLED`.

A topic has one partition (`kafka-init` in `docker-compose.yml`); `position` says up to
where in the log a consumer has read it, `offset` what its group has committed. Services
start at any time (`Join`), also after the first facts, die (`Die`) and rebalance
(`Rebalance`); whoever joins or rebalances takes its topics up anew (`StartOf`): at the
committed offset or, as both services subscribe with `fromBeginning: false`
(`src/main.ts:21` of each), at the end of a topic for which there is none. Then `begun`
remembers where. kafkajs commits at any moment what it has read (`Commit`), but nothing
before it has read something. A process that dies forgets its `SeenMessages`. Kafka keeps
messages and offsets: retention is not modelled.

### RefreshTokens

A refresh token, the row made for it and the access token signed with it share one
number, their `pair`; a reissue in the grace period gives a row the number of a new
pair. `at[c]` names the query that call `c` of the backend executes next:

| `at` | query | lines of `auth/auth.service.ts` |
|---|---|---|
| `find` | `findFirst` of the live row (`FindActive`) | 107-117 |
| `create` | sign, create the new row (`CreateRow`) | 118-124 |
| `claim` | `updateMany` of the old row (`Claim`) | 126-140 |
| `undo` | delete the own row after a lost race (`Undo`) | 142 |
| `lookup` | `findFirst` of the revoked row (`Lookup`) | 146-155 |
| `current`, `reissue` | the grace period (`ReadCurrent`, `Reissue`) | 156-168 |
| `reuse` | revoke the family (`Reuse`) | 172-180 |
| `revokeAll`, `block` | logoutAllDevices (`RevokeAll`, `Block`) | 201-224 |
| `answer` | the controller sets the cookie (`Answer`) | `auth.controller.ts` 129-139 |

Any query may fail and any call may die (`Fail`), at any await. `updateMany` is one
step: Postgres evaluates its condition again after waiting for the row. `age` counts
ticks of the clock since the last event of a row that the code measures time from;
the grace period, the margin of the cleanup task, the retention and the two lifetimes are
constants. The task may run whenever it likes (its schedule is in
`ScheduledTasks`). The `findFirst` of line 112 asks for a live row of the family, without ORDER BY, and
compares its hash afterwards: while another call has created a row that it has not claimed yet,
or died before it could, it may return that one, and the answer is then "Access Denied". The
model returns any of them.

### ScheduledTasks

`pc[p]` of a backend process is `down`, `add` (the eager job of `onModuleInit`), `idle`, or the
await of `process()` it is at: `dispatch`, `record` (both calls of `recordRun`), `settle` (BullMQ
is told). `planned` says that the scheduler's next job is there: BullMQ makes it when a tick is
fetched, and `upsertJobScheduler` makes it anew, one per id. A query may fail before or after
Postgres applied it; a process may die at any await; an active job whose lock ran out is queued
again once (`maxStalledCount`) while the slow worker goes on. `told` is history: the sum of what
the rows about the runs tell. What makes a token row stale is in `RefreshTokens`.

### BrowserSession

Every tab has its token, its state of bootstrap and its slot `inflight` for one refresh;
all share the cookie. A request goes through `waiting` (for the bootstrap or the refresh
under way), `sent`, `back` and, after a 401, `renewing`. `refreshSession` starts a
refresh only when the slot is empty and hands out the one under way otherwise, which is
also what a login message of another tab does. The cookie is what the browser stores in
the order of the server's answers. A tab may be reloaded at any moment, its requests then
are lost. Tokens are numbered; `signed` says of which session each is.

### EventPages

One tab, one event, the users Organiser and others, and Nobody. `cache` holds the last
answer of each view, with the user it was fetched by and whether it still is the server's
state; `query` is the request under way; `stale` are the tags whose invalidation RTK Query
holds back until no request is under way (`invalidationBehavior: "delayed"`, the
default). A reset of the store (`Reset`, `Forgotten`) also drops its entries of mutations: they run on and
invalidate their tags in the end, but neither hold an invalidation back nor disable a button; `kept` tells them apart,
and a tab is at rest (`Rest`) only when they are over too. `PushedTo` and `InvalidatedBy` are the navigation and the tags of every
mutation. RTK Query itself is external: it is modelled from the options the code passes
and the hooks it uses. The profile is taken as loaded with the token. The session is one
step here (`SessionLost`), await by await in `BrowserSession`.

### Calendar

Days are numbered in the time zone of the browser, instants are hours of UTC. `currentDate` is the day only,
since nothing that is shown depends on its time. date-fns is external and modelled by what it is
documented to do (`addMonths` keeps the day or takes the month's last). The grid, the groups by day and the cells are operators on the
state, as they are computed at every rendering.

### ChessEngine, ChessGame

Operators keep the names of the JavaScript functions. A square is a row and a column
named by two characters; the board is a function on the occupied squares.
The facade `engine/index.js` exports `isMoveLegal`, `getMoveDetails` and `getLegalMoves`, all of which throw
"not implemented", and nothing makes a move: a move is made as `packages/chess-engine/docs/move-validation.md`
specifies for its caller, which the map marks external. `SetUp` begins a game, `Move` and `Castle`
make one ply of it, `position` is the state.

`ChessGame` compares the engine with the rules of chess in words of their own. The engine adds offsets and follows
directions; the rules speak of distances (`Dist`, `Apart`) and of lines with nothing between two squares
(`Sees`): `Takes` says which piece could take on a square, `Steps` how a pawn steps, `MayGo` where a piece
may go, `KingHangs` when a king could be taken, `Lost` that no move prevents it. Of the engine's operators these use
only the names of squares, the colour and type of a symbol, and, in `Lost`, the board `simulateMove` leaves, so an
offset wrong in attacks and moves alike is found (the mutant `KNIGHT_OFFSETS_Missing`), while an error in the removal of a pawn
taken in passing is shared by both sides of `GameEndAgrees`; `PositionOK` and `LegalMovesKeepKing` look at the board it leaves.

The engine validates no position it is given. `IsPosition` says what its callers have to give
it, and `StartsAssumption` that games begin so, with no king to be taken at once: one king each
(`findKingSquare` returns the first), no pawn on a last rank, king and rook at home for every right (FEN
rights that do not match the board are not the engine's to refuse), a pawn behind the square that can
be captured in passing. Only the beginning is assumed: `PositionOK` says that play stays there.

## 3. Runs

Where a bound on requests, calls, rows or moves is used up the run stops, and deadlock is not
checked; it is in `scheduled_tasks` and `calendar`, which go on for ever.

| Run | Question | Bounds |
|---|---|---|
| `event_store` | Do counter, membership, capacity and outbox ever disagree, is every behaviour one of the ledger's, and is every request answered? | 1 event, 2 users, 3 sessions, capacity 1 or none, 4 requests |
| `booking_queue` | Are statuses, claims and locks right through a fault, an expiry and a leave or removal? | 2 calls, 2 users, 1 key, 2 workers, 1 seat, 2 attempts |
| `booking_queue_live` | Is every polled join answered? | 3 calls without keys, 1 worker, 1 expiry, no fault |
| `booking_rerun` | (violated) Is a join that was committed and run again CONFIRMED? | 1 user, 2 calls, 1 worker |
| `outbox_relay` | Is a row ever lost or overtaken, with two replicas and overlapping transactions? | 3 rows, 2 events, 2 relays, batch of 2, 1 fault, 1 stop |
| `outbox_consumers` | Is a message ever handled twice inside the window, or skipped beyond where its group began, and does every fact owed to a group that has committed an offset arrive? | 2 rows, 2 events, 2 topics, 1 relay, 1 service, window 1, 1 fault, 2 deaths or rebalances |
| `refresh_tokens` | Is a session ever forked, revived or lost, and is every behaviour a chain of tokens? | 1 session, 2 concurrent calls, 3 token pairs, 1 fault, all periods 0 or 1 ticks |
| `browser_session` | Is a token refreshed once, a refused query repeated only with another one, and does every request settle? | 2 tabs, 3 requests, 1 session opened, 2 access tokens, 1 reload |
| `event_pages` | Do all views agree with the server once nothing is under way, through login and logout? | 1 tab, 3 views, 2 users, 2 mutations, 1 failure or outside change |
| `scheduled_tasks` | Is every stale row deleted in the end while a process runs, and is the history of runs true? | 2 processes, 2 jobs at a time, 2 rows, 2 faults |
| `calendar` | Is any day or event passed over, dimmed or misplaced? | every day from February 2024 to February 2025, 3 events |
| `chess` | Does the engine agree with the rules? | 7 starting positions, 2 plies |

Why the bounds are enough. `event_store` is sized for its liveness property, the only one of the run that is not
also a theorem for every number of users, sessions and requests: four requests in three sessions create
an event and then let two wait behind a holder of its row lock. Its organiser and one guest
are the least that race for membership, and the limit of one is lowered onto an event that is full or over
it; races of several guests for a last seat are left to the theorems. One seat and two
users are the least in which a request can be refused; two workers the least in which a
lock can be stolen, with one expiry to do it. Two attempts stand for five: the
model tells only "some left" from "none left". In the relay a batch of two with three rows
leaves one for the next tick, and a window of one message is full after the first; services share nothing,
so one stands for both. Two facts on one
topic are the least in which one gives the group its first offset and the other is owed.
Three pairs are the first token of a session and one each for two racing refreshes; a
period of one tick is exceeded and not exceeded within the run. Three requests over two
tabs are the least in which two requests of one tab share a refresh while the other tab
logs in or out. Two calls are the least in which one mutation ends while another still polls. Two
faults let a crash be followed by a failed query, and two processes let a stalled job run beside another. A
year with a leap day and the January after it has every length of month in front of every other that it meets; the three
events lie on other days, months and years in UTC than in the browser. The
positions of `MCChess` are chosen so that pins, captures in passing that uncover the king,
promotions, castling through attack, three pieces on one target, mate and stalemate occur within two
plies; the run's mutants show that they do.

Symmetry is used in safety runs only.

### Properties

The type invariants are theorems (section 5), for every value of the constants, and no run
repeats them. `PositionOK` is more
than types: it is what every position of a game must satisfy.

* `EventStore`: `SeatsMatchParticipants`, `JoinWithinCapacity` (action),
  `OutboxTellsHistory`, `OutboxInCommitOrder`, `FirstSessionAnswered` (liveness, in `MCEventStore`),
  `ImplementsLedger` (refinement).
* `BookingQueue`: `ConfirmedHoldsSeat`, `ReleasesOnlyItsOwn` (action),
  `JoinsAreSerial`, `OneRequestPerUser`, `EveryJoinSettles` (liveness).
* `OutboxRelay`: `SentIsPublished`, `PublishedInOrder`,
  `DuplicatesOnlyBeyondWindow`, `NothingIsSkipped`, `FactsReachEveryService` (liveness).
* `RefreshTokens`: `OneSessionPerFamily`, `EndedSessionIsDead`, `WinnerIsVisible`,
  `NothingLostEarly` (action), `ImplementsChain` (refinement).
* `BrowserSession`: `OneRefreshPerToken`, `RetryHasNewToken` (action),
  `EveryRequestSettles` (liveness).
* `ScheduledTasks`: `HistoryAddsUp`, `OutcomeIsTheTasks` (action), `StaleRowsGo` (liveness).
* `Calendar`: `GridShowsPeriod`, `EventsOnTheirDay`, `PagingLeavesNoGap` (action).
* `EventPages`: `ViewsAgree`, `SignedInSeesOwn`, `SignedOutSeesNothing`.
* `ChessGame`: `PositionOK`, `LegalMovesKeepKing`, `AttacksFollowRules`, `MovesFollowRules`,
  `SanIdentifiesMove`, `GameEndAgrees`, `CastlingImpliesStep`.

### Fairness

* `EventStore`: a session inside a transaction moves or is timed out (Prisma's
  transaction timeout). `update` runs without one; Postgres queues it for the row
  lock, hence strong fairness for it alone. Clients owe nothing.
* `BookingQueue`: the event loop runs the next await of each call and worker.
  Faults, expiries, leaves and clients owe nothing. `EveryJoinSettles` needs one
  worker, no fault and no shared key: with two workers a job can lose all its
  attempts to the lock, with a fault a PENDING status can be orphaned, and with a
  shared key a settled status can be reset (section 4).
* `OutboxRelay`: a running relay goes on and its timer fires; Kafka delivers what a
  topic holds. `Boot` is not fair: nothing in `docker-compose.yml` restarts the
  backend. The consumers have `restart: on-failure`, so `Join` is fair; nobody owes a commit.
  `FactsReachEveryService` is for facts a group is owed (`Owed`): it has committed an offset
  on the topic, and the fact is beyond it or not in the log yet.
* `RefreshTokens` has no liveness: calls may die and clients owe nothing. That stale rows
  go in the end is `ScheduledTasks!StaleRowsGo`.
* `ScheduledTasks`: a process that runs goes on with the await it is at; while one runs, BullMQ finds the
  job of a dead worker, and 03:00 comes. Nothing starts a process that is down, so `StaleRowsGo` has a premise:
  from some moment on some process is running. Failures, crashes and slow workers owe nothing and are bounded:
  a query that fails at every tick deletes nothing.
* `BrowserSession`: the server answers every request, with success or failure (fetch
  settles), and the event loop runs what is due. Users owe nothing.
* `EventPages` has no liveness run: RTK Query holds an invalidation back while anything is
  under way, so a user who keeps navigating between queries that fail can hold it back for ever, and
  nothing in the code rules that out.

## 4. What disagrees with the documentation

One run that TLC must find violated; `PROJECT.json` quotes the lines. `booking_rerun`: a join
re-run after its commit ends REJECTED, the document says CONFIRMED.

Seen while modelling, without a run of their own:

* `src/README.md:66` calls the delivery path at-least-once. With `fromBeginning: false` a service
  never gets what was published before its group's first start, or before a rebalance or
  restart that comes ahead of the group's first commit on the topic; hence `begun` in
  `NothingIsSkipped` and `Owed` in `FactsReachEveryService`.
* `README.md:102` says that a grace period of 10 seconds covers two tabs that refresh at once. A
  refresh inside it overwrites the token hash of the family's current row (`auth.service.ts:161`): the
  token another tab has just been given is no longer in the database, and when that tab's answer
  is stored last, the browser is left with a cookie that the next refresh refuses. `SessionChain`
  allows it (`HandOutDead`).
* `docs/architecture/scheduled-tasks-worker.md:211-212` has BullMQ retry a failed cleanup
  (`attempts` and `backoff` on the job); `scheduled-tasks.module.ts:21-25` registers it without, so one
  failed query loses the tick, and the rows wait for the next day.
* `docs/architecture/booking-concurrency.md:150` calls the conditional UPDATE the guarantee
  of "no more than capacity"; `update` may set a capacity below the seats taken.
* The same document, line 245, says that BullMQ repeats a join whose transaction timed out;
  the catch block of `booking.processor.ts:43` answers it REJECTED.
* `booking-queue.service.ts:79-80` calls the double `setPending` of two calls with one key
  harmless. The second call may reset a settled status to PENDING while its `queue.add` is a
  no-op because the first job is still there. A call that dies between `setPending` and
  `queue.add` leaves the same state.
* `booking-queue.service.spec.ts:58` says that a poll never races an unset status; a call that
  piggybacks on a claim may return its requestId before the holder has written PENDING.
* `kafka-producer.service.ts:34-36` says that a `user-left` cannot overtake a `user-joined`; they
  are different topics, and the key orders each topic only.
* `auth.controller.ts:179` says that logout-all blocks the current access tokens; only those of
  live rows are blocked, an access token signed before the last rotation is not.
* `docs/architecture/refresh-token-rotation.md` (4.4) has the cookie cleared when reuse is
  detected; the code throws before it could.
* `docs/architecture/scheduled-tasks-worker.md:367` removes rotated rows after minutes; a token
  replayed later is answered "Access Denied" and its family is not revoked, which `README.md:102`
  promises without a limit.
* `apps/frontend-next/components/UserBar/UserBar.tsx:20-21` says that the UI always obeys a logout; a
  refresh that another request started meanwhile stores its token after the local cleanup.
* The client's key of a join is deleted by whichever of the calls that share it ends first
  (`eventsApi.ts:121`); the comment in the legacy `eventsApi.ts:27-31` says a double click reuses it.
* `screens/CreateEditEventPage.tsx:91` takes the date in UTC and the time in local time: near
  midnight, an event that is edited and saved moves by a day.
* `screens/MyEventsCalendar.tsx:26` ignores `isError`: after a failed refetch it shows the events
  of the last good answer. `EventCard.tsx` links to `/events/create/:id`, which has no route.

## 5. Proofs

The theorems about `EventStore` hold for arbitrary sets and bounds that meet its
ASSUMEs (finite `Users`, positive capacities, model values distinct from the
values they stand beside). The assumptions are evaluated in every run.

`EventStoreProofs` proves `Spec => []IInv`. `IInv` says what a session may rely on
at each statement, and nothing less is inductive:

* `ControlInv`: which statement belongs to which operation;
* `IdInv`: an id is created once, and only ids whose creation was committed are used;
* `LockInv`: a transaction past its locking statement holds the row lock of a live
  event, or the event was gone;
* `OwnerInv`, `MemberInv`: what `findUnique` and `createMany`/`deleteMany` found is
  still so, because of the lock;
* `SeatInv`, `DraftInv`: what the commit will write is the committed counter plus
  or minus one, and within the capacity for a join;
* `SeatsMatchParticipants`.

There is one preservation lemma per action. From it follow `TypeCorrect`,
`SeatsNeverDrift` (`SeatsMatchParticipants`) and `JoinsStayWithinCapacity`
(`JoinWithinCapacity`).

It proves the two properties of the outbox on top of `IInv`. `StampsFollowCommits`
(`OutboxInCommitOrder`, with `createdAt` taken at the INSERT): the row is stamped while its transaction
holds the lock of the event, so it is younger than the committed rows of that event, and nobody can commit one in
between. `OutboxIsHistory` (`OutboxTellsHistory`): a commit appends one row; what its transaction found under the
lock (the event is live, the user is or is not a member) says what the last rows about the event and the
user are, so the new row continues them.

It also proves `StatementsImplementLedger == Spec => ImplementsLedger`:
commits map to the ledger's operations, refusing statements to `Refuse`, all other
statements to stuttering. The conditional increment tests `seatsTaken`, the ledger
counts members; `IInv` makes them equal at that statement.

`BookingQueueProofs` proves every safety property of `BookingQueue`, for any number of users,
keys, calls, workers, seats and attempts, and any number of faults, expiries and departures.
It assumes that a job has at least one attempt and that `Nobody` is neither a user nor a
worker. The invariant's parts:

* `Typed`: types, and that a job that has not failed for good has an attempt left;
* `SeatsInv`: until somebody leaves, there are as many members as committed requests, and the
  user of each committed request is a member, so that a re-run commits nothing;
* `ConfirmedInv`: who is CONFIRMED, or about to be, has committed (`ConfirmedIsTrue`);
* `LockInv`: with no expiry, who is inside holds the lock (`JoinsTakeTurns`);
* `SoloInv`: with no fault and no expiry, the one thing a user has under way (a call
  that has claimed, a waiting job or a running one) holds the user's claim (`HoldsInv`), there is
  one such thing (`AloneInv`), and a job runs on the worker that owns it (`OwnerInv`); this
  gives `OneAtATime`. `ThrownInv`: with no fault, a worker that threw has only to settle.

`ReleasesAreOwn` is an action property; it needs no more than the types.

`OutboxRelayProofs` proves every safety property of `OutboxRelay`, for any number of
rows, replicas, services and faults and any batch size and window. Two invariants, the
second on top of the first:

* `RelayInv`: past `findMany` a tick has a row to work on; at `mark` the head of its batch
  is in the log; and of every row of a batch, the older rows of the same event are in the
  log or ahead of it in the batch (`Ready`), which neither other replicas nor late
  transactions can undo. With `SentIsPublished` and `PublishedInOrder` this is inductive
  and gives `NothingIsLost` and `NothingIsOvertaken`.
* `ConsumerInv`: `SeenMessages` is the end of what was handled, full or all of it
  (`WindowOk`), so a message that is not in it was handled more than a window ago or
  never (`NothingIsRepeated`); what is remembered was handled, so what is skipped was
  handled; and a committed offset lies between where the group began and what it has read
  (`PositionInv`), so that taking a topic up again passes over nothing (`NothingIsPassedOver`).

The one assumption about data is that the batch size and the window are positive.
That rows of one event appear in the order of `createdAt` is part of `CommitRow`
(section 2).

`RefreshTokensProofs` proves `TypesHold`, `OneSession` (`OneSessionPerFamily`) and
`EndedStaysDead` (`EndedSessionIsDead`) for any number of calls, sessions and tokens and any
periods. The invariant's parts:

* `Shape`: types, field by field;
* `CallOK`: what a call may rely on at each query: the row it read was its token's, the row
  it created is its own and nobody has been given its token;
* `Apart`: no two calls work with one new token;
* `RowOK`, `CookieOK`: rows hold numbers already signed, of the right session;
* `OneClaimed`: of the live rows of a session one at most has been claimed, by a login or by a
  refresh that won its race;
* `EndedOK`: in an ended session no live row was handed out and none can be.

On top of it comes `Chained`, about a rotated row and its successor, which gives
`GraceFindsWinner` (`WinnerIsVisible`), `NothingIsLostEarly` and
`QueriesImplementChain == Spec => ImplementsChain`. Its parts:

* `SuccessorOK`: the successor is younger than the row it supersedes, so the cleanup cannot take it
  first; inside the grace period it is there, and neither has been revoked for longer than
  that period has lasted. With `Grace < Margin` and `Grace <= Retention` the cleanup takes neither;
* `ClaimPair`: a call that can still win its claim has a live row to answer with, because revocations
  take all live rows of a family and the cleanup the older ones first;
* `AgeOK`, `FreshOK`, `UnclaimedOK`: what new rows start with.

The usable token of a session is the pair of its one claimed live row. The step that hands a new pair
out (the insert of a login, the claim that wins, a retry's update) is the chain's `SignIn`, `Rotate` or
`HandOutDead`, every loss of rows its `Close`; creating a row and undoing it are stuttering.

`BrowserSessionProofs` proves `TypesHold`, `NothingIsRenewedTwice` (`OneRefreshPerToken`) and
`RetriesHaveNewTokens` (`RetryHasNewToken`) for any number of tabs, requests, sessions, tokens and
reloads. The invariant's parts:

* `ServerTyped`, `TabsTyped`: types; tokens are numbers already signed, of sessions that were opened;
* `TabControl`, `RequestControl`: a bootstrap, a waiting and a renewing request stand for a refresh under
  way, and nothing is sent before the bootstrap of its tab has ended;
* `TabFresh`: a token that a tab has renewed is not the one it shows while its slot is empty, nor the one that
  a refresh brings;
* `LoginFresh`: the token a login brings is new to its tab, and to every other login and refresh;
* `QueryFresh`: what a refresh brings is not what any query of the tab was sent with. A retry waits for the
  refresh, so it has another token.

`ScheduledTasksProofs` proves `TypesHold`, `JobsTellTheTruth` (`OutcomeIsTheTasks`) and `HistoryIsTrue`
(`HistoryAddsUp`) for any number of jobs, faults and stalls and any finite sets of processes and rows.
`JobInv` says that a job has an
owner exactly while it is active and that one that may still run has not stalled too often; `OutcomeInv` that what
`process()` throws is what `dispatch` gave. `HistoryAddsUp` compares what the rows about the runs tell with the
deletions that were made, less those that some worker has still to write. What is still to be written is a sum over
the workers; the model has it as the size of `Due`, the set of pairs of a worker and a number up to its count, so that a step of one
worker adds or takes its own pairs only (`ShareIsCounted`, `DueOfOne`). With `CountInv` (a count is one of rows, and
a run without an outcome counts none) it is inductive.

`EventPagesProofs` proves `TypesHold` (`TypeOK`), `RestAgrees` (`ViewsAgree`), `RestIsOwn` (`SignedInSeesOwn`) and
`SignedOutIsClean` (`SignedOutSeesNothing`) for any users, mutations, set of pages and number of disturbances. Two of the
properties are about a tab at rest; the invariant has to say what holds while requests are under way:

* `AnswersIn`: an answer is to the one who asked;
* `OwnIn`: while somebody is signed in, what another viewer fetched is stale or being replaced, and what is being fetched for
  another viewer is stale already, so its answer will be fetched again;
* `CurrentIn`: what is out of date, in the cache or in an answer on its way, is `Excused`: its tag is stale, or a mutation
  under way will invalidate it, unless a join was confirmed after its client stopped polling;
* `NoUserIn`: signed out, nothing in the store is a user's and nothing is asked for one;
* `QuietIn`: tags wait only while something is pending, which is where delayed invalidation ends.

`Good` is kept by every operation of the store (`Flush`, `Invalidate`, `Mount`, `Reset`), which is
proved once for each and used by every action that calls it; at rest nothing is pending, so `QuietIn` leaves no tag, and an
entry that is not excused is current.

`AlgorithmProofs` has two halves that share nothing but the module. The first proves `GridIsRight` (`GridShowsPeriod`), `NoDayIsPassedOver` (`PagingLeavesNoGap`) and
`EachOnItsDay` (`EventsOnTheirDay`) for any first year, first weekday, number of months, whole-hour time zone and
finite set of events. The invariant is short (the day is within the bounds; the list is of different events), the work is in the
operators:

* `monthStart` and `PushedTo` are recursive functions. A function that satisfies the recursion is shown to exist for every length
  (`AddsExists`, `PushesExists`), and a fact about its values is proved by looking at the least number it fails for
  (`LeastOf`, from the well-founded order of the naturals);
* `MonthOf`, `MonthExists`: a day within the bounds is in exactly one month; `AddMonth`: the same day of the next month, or its
  last, is in the next month;
* `WeekOf`, `WholeWeeks`, `WeeksTouch`: from the start of a week to the end of a week it is whole weeks, and the weeks
  of consecutive periods leave no day between them;
* `MonthPeriod`: a cell is dimmed exactly outside the month, because the neighbours that the grid reaches into are
  other months modulo twelve;
* `RankIsPlace`, `Sorted`: the stable sort by time is a permutation of the list in which times do not fall;
* `PushOne`, `PushedOfDay`: what is pushed under a day are the events of that day in the order of the list;
* `DayOfEvent`: the day of an event in the browser's time zone goes from midnight to midnight of its clock.

The second proves everything the run `chess` checks, for any set of legal starting positions and games of any
length: `GameStaysLegal` (`PositionOK`), `KingNeverLeft` (`LegalMovesKeepKing`), `AttacksAreTheRules`
(`AttacksFollowRules`), `MovesAreTheRules` (`MovesFollowRules`), `CastlingNeedsStep` (`CastlingImpliesStep`),
`EndsAsTheRulesSay` (`GameEndAgrees`) and `TextsAreApart` (`SanIdentifiesMove`). The inductive invariant is `GameInv == PositionOK /\ LegalMovesKeepKing`.
Neither is inductive alone: that a game keeps one king each needs that no move can take a king, and the king
safety of `legalMoves.js` is that of the king it finds. The argument:

* `LineIsRays`, `BetweenIsCrossed`, `SeesIsClear`: the squares on a line with a square are those its two rays reach, and
  what stands between the two is what the ray crosses; with `StepsAreDistances` for the offsets this makes, piece by piece,
  what `attacks.js` says the rules' `Takes` (`AttackIsTaking`) and what `pseudoMoves.js` gives the rules' `MayGo`
  (`PawnSteps`, `MoveIsRule`). So `KingHangs` is `isSquareAttacked` of the king (`SafeKing`), and what the filter keeps is safe
  by the rules' own words;
* `AfterMove`: what a move leaves: the mover on its target, all others where they were, but a pawn taken, in passing or
  not; `KingsAfterMove`: both kings are still there. `PawnRows`: only a pawn's double step can set the en
  passant square, and only a promotion can reach a last rank;
* promotion replaces a piece after the king was found safe; `PromotionKeepsAttacks`: the kind of
  the man on that square does not matter to what the opponent attacks;
* castling tests attacks before the move. `CastlingRow`, `CastlingRay`, `CastledKing`: a rook or a queen that would
  attack the king past the squares that king and rook have left would attack, before the move, the king or a
  square that it crosses, since a ray along the row meets them in turn (`RowRay`) and any other ray is as
  it was (`RayMeetsOnce`, `AttackCarries`). `SteppedKing` is the same for one step of the king, for `CastlingNeedsStep`;
* `NoMoveIsLost`, `CheckIsHanging`: the engine's list of moves is empty exactly when every move of the rules lets the king be
  taken. A castling never stands alone in that list, since the king's step exists;
* texts are sequences of characters and piece letters; `SpeltAgrees`, `TakingAgrees`, `NamedAgrees` and `PromotionAgrees` read
  the parts of a text back from its end. `PawnOrigin`: target and file tell pawn moves apart; `Disambiguated`: for two
  men of one kind with one target `getDisambiguation` gives texts of which no two agree; castlings have texts of their own.

What the theorems take from outside the code is the making of a move (external, from the document) and `StartsAssumption`.

Model-checked only: liveness (`FirstSessionAnswered`, `EveryJoinSettles`, `FactsReachEveryService`,
`EveryRequestSettles`, `StaleRowsGo`), which is beyond the prover, as is everything that needs ENABLED. Every other property of
every passing run is a theorem. Induction by a theorem of the library that takes an operator is beyond the prover too; the least
counterexample replaces it where the recursion is a function. No module here declares a RECURSIVE operator.

## 6. Not modelled, and the plan

A model with a clock in each backend would cover the one ordering hazard that `EventStore` cannot.

Left out for good:

* the HTTP shell, validation, password hashing and formatting: no state of their own;
* the form fields and other rendering: data, not control;
* the legacy `apps/frontend`, whose session and API code is an older copy of what is modelled;
* the chess facades that throw "not implemented";
* summer time in the calendar, whose days then have 23 or 25 hours;
* seeds, smoke scripts, lint rules, deployment.
