# BlindPulse replay backend: a verification project

BlindPulse serves *blinded* market replays: a trader opens a session over a
feed, is shown the warmup bars, and earns every further bar by stepping or by
letting the server's playback clock run. What matters above all is hindsight: no
bar may reach a client before the session has released it, and what was
released is never taken back. Around that stand accounts whose history cannot
be rewritten, a transactional outbox towards Kafka and its consumer, a worker
process, and the sign-in, throttle and ticket that a caller passes first.

The modules here are written from the Go source under `src/`; documents and
comments are quoted only where the code disagrees with them.

## 1. The system

| Component | State it keeps | Operations | Talks to |
|---|---|---|---|
| Replay session engine (`domain/session/service.go`, `db/.../replay_sessions`) | a `replay_sessions` row with an optimistic `version`; a Redis snapshot of cursor and edge | Get, Step, Seek, SetSpeed, SetTimeframe, Pause, Resume, Close, Bars, ViewBars | accounts, feeds, Redis, frame bus, outbox |
| Session opening (`Start`, `replay_sessions_single_open`) | the partial unique index of live sessions | Start: account, live session, feed, insert, event | accounts, feeds, outbox |
| Playback clock (`domain/session/stream.go`) | per replica a map session -> driver with a reference count; one goroutine each | retainDriver, releaseDriver, drive | the session engine, the lease in Redis |
| Driver lease (`stream_access.go`, `pkg/cache/redis.go`) | one Redis key per session, a holder and a TTL | Acquire/renew, Release, expiry | clocks of all replicas |
| Frame bus and socket (`replay_sessions/frames.go`, `controllers/session/stream.go`) | per replica topics, fan-out lists, bounded channels | Publish, Subscribe, unsubscribe, pump, the socket's loop | Redis pub/sub, sockets |
| Idle sweeper (`events/emitters/sweeper.go`, `SweepIdle`) | none of its own | abandon idle sessions, clear snapshots, write events | session rows, Redis, outbox |
| Accounts and ledger (`domain/account`) | account rows in trees of iterations; a hash-chained ledger per account | Open, Reset, VerifyLedger | unit of work, outbox |
| Outbox relay (`events/emitters/relay.go`, `outbox_events`) | outbox rows: status, attempts, available_at | Create, ClaimDue, publish, MarkPublished, MarkFailed | Kafka |
| Kafka consumer (`pkg/events/kafka/consumer.go`) | the position fetched and the one committed | fetch, handle with retries, skip, commit | the partition, a handler |
| Stream tickets (`stream_access.go`) | single-use tokens in Redis or a map | Issue, Redeem, the handshake | sockets, sessions |
| Users and refresh tokens (`domain/user`, `controllers/auth`) | a users row; refresh tokens, live or revoked | Register, Authenticate, AuthenticateGoogle, Refresh, Logout, ChangePassword | JWT, argon2, Google |
| Rate limiting (`pkg/middleware`) | fixed windows in Redis, token buckets in memory | allow, sweep, throttle | every request to the auth routes |
| Feeds (`domain/feed`), window cache | feeds, bars, cached windows | Build, Bars, ViewBars, aggregate | market data |
| Loader (`cmd/loader`) | bars | import, derive, build | market data |

**What is hard here.** Requests, playback clocks and sweepers work on one row
with nothing but a version number between them. The snapshot is written after
the row and by anyone, so it may be stale, missing or late. Frames are
published after the commit, outside every lock. Clocks outlive requests and
compete through a lease whose holder is a process, not a goroutine. Topics are
opened and closed by sockets that race. Resets run under READ COMMITTED and
rely on unique keys; a start checks its account in one statement and inserts in
another. The relay must survive crashes between publishing and marking, several
replicas of it run at once, and what it sends twice the consumer handles twice.
A rotation of a refresh token reads, revokes and stores in three statements,
and a reuse alarm may fall between any two of them. The throttle changes
between a shared counter and a private bucket as Redis comes and goes.

**What makes each part correct.**
*Sessions*: nothing shown before it is released; the edge never falls; an end is
final; a pause beats the clock. *Opening*: one live session per account, and a
session on a sealed iteration only by a race. *Clocks*: as many references as
sockets, one clock per replica, two replicas driving only where a lease was
lost, playback goes on. *Bus*: a subscriber always has its topic, no topic
leaks, a slow client loses the backlog and never the newest frame, the end
arrives unless that very frame is lost. *Accounts*: a tree is a
line of iterations of which only the last is open; a seal attests everything
before it. *Spine*: nothing lost, nothing given up before its attempts are
used, resends, overtakings and second handlings have a cause. *Tokens*: an
alarm ends what was signed in, nobody else is signed out, a token is traded
once. *Gates*: fewer than two windows' attempts in any window, nobody locked
out by refused retries, one socket per ticket. `PROJECT.json` lists the hazards
line by line.

## 2. The modules

    ReplayEdge                  abstract: what a session promises
      ^ implemented by      ^ used by
    ReplaySession           PlaybackDriver          FrameBus         MarketFeed
      MCReplaySession         MCPlaybackDriver        MCFrameBus       MCMarketFeed
      ReplaySessionProofs     PlaybackDriverProofs    FrameBusProofs   MarketFeedProofs

    AccountTree             OutboxRelay             RateLimiter  StreamTickets  AuthTokens
      ^ extended by           ^ extended by           ^    GatesProofs  ^         AuthTokensProofs
    SessionOpening          EventConsumer             |                 |           ^
      MCAccountTree           MCOutboxRelay           +------------- MCGates -------+
      SessionOpeningProofs    OutboxRelayProofs

Some definitions carry the comment "(Variant: ...)". A variant is what its
neighbour would be with a plausible bug in it; the runs must refute their
properties when it takes the neighbour's place. No specification uses one.

### ReplayEdge and ReplaySession

`ReplayEdge` is the promise: a revealed edge, a view at or behind it, a status
that stops for good, changed by one accepted operation at an instant.

`ReplaySession` is the code. One session, any number of `Handlers` (HTTP
requests and playback clocks) and `Sweepers`. A handler is a program counter:

| Step | Code |
|---|---|
| `LoadRow`, `LoadState` | `load`: `GetByID`, then `State.Load`, merged when the snapshot's edge is not behind the row's |
| `Stage`, `Answer`, `Exhaust` | the operation's checks and early returns; `Accepts` says which loaded entity a command changes, `Result` what it becomes |
| `Write`, `Conflict` | `UpdateCursor` / `UpdateStatus`: `WHERE id = ? AND version = ?` |
| `SaveState` | `State.Save`, or `Clear` after a close; may fail unnoticed |
| `Publish`, `Emit` | the frame, the answer, and for a close the outbox row |
| `Drop` | an error, a cancelled context or a crash: what was done stays done |

`ent` is the entity in the handler's hand, `floor`, `shown` and `frame` are
history: the newest bar shown when the request began, ever, and by the last
frame. `SweepSelect`/`SweepUpdate` are the two halves of `AbandonIdle`: its
subquery reads a snapshot, its update waits for the row's lock and rechecks
only the id. Speeds and timeframes are small numbers; bars are their index.
`MaxVersion` bounds how often the row is written.

### PlaybackDriver

The clocks. `CheckLive`, `Retain`, `Release` are `Stream` and its unsubscribe;
`Drive` is one iteration of `drive` split at each call and sleep; `lease`
is the Redis key. `Load` is `loadLive`: the row, and the cursor of whatever
snapshot of the same edge Redis still has, be it an old one (`past` holds those
that may be there); `fresh[d]` says that the row still has the version loaded,
which is what the version check of the session engine amounts to, and `Step`
goes one bar on *from the loaded cursor*, so that the row's may move by more or
fewer than one. `GetFails` ends a clock for good, `LoadFails` and `StepFails` make
it start over. `driving` is what `Acquire` said in this iteration, true
or not any more; `lapse` remembers how a lease that was won went: its TTL ended
under the clock (`Expire`, possible at any time, as when a slow session sleeps
longer than the TTL) or somebody's release deleted it. The session is
`ReplayEdge` (through INSTANCE), so the trader's operations and the sweep change
it under the clock. `NamedHolder = TRUE` is production (the holder is the name
the process drew when it started, the same for all its clocks), FALSE the
fallback of `holder()` (a fresh UUID per clock). Bounds: `Sockets` (each
connects once), `Drives`, and `MaxCommands`, which counts the trader's
operations, the old snapshots a clock finds and the leases that run out under
one; a lease no clock relies on runs out freely.

### FrameBus

One replica's side of the bus; `shared` says for a whole behaviour whether it is
the one of Redis or `MemoryFrameBus`, whose publisher delivers to the fan-out
itself (`PublishHere`). Frame `n` is the frame of the n-th change
of the session and the last one ends it; frames are handed to Redis in any
order, or lost: `PublishFails` is Redis refusing one or the handler dying before
it publishes, and nobody tries again; a subscription that is not up misses what
is published (`Missed`). `Add`, `Join`, `Sync`, `Leave`, `CloseTopic`, `Detach` are `Subscribe`
and its cancel, each on its side of the mutexes; `Activate` and `Disconnect`
are the asynchronous connection of go-redis; `Pump` and `Push` are the fan-out
with drop-oldest, and the pump of a topic that was closed may still deliver;
`Take` is the socket's loop with `drainToLatest`. `swept` says that the end was
the worker's sweep, which has no bus and publishes nothing. `troubled` is
history: the frame that ends the session may have been lost, or overtaken. Bounds: `Topics` (how many
subscriptions exist at once), `Frames`, `Buffer`, `MaxJoins`.

### AccountTree and SessionOpening

Each request of `AccountTree` is a transaction in steps. What it wrote is
invisible until it commits; a unique key it has inserted (`KeyHeld`) or a row it
has updated (`RowHeld`) makes others wait until it ends. A hash is the sequence
of everything it covers, so that two hashes are equal exactly when what they
cover is. A balance is "plain" or "fine"; the columns, NUMERIC(20, 8), round a
fine one (`Stored`) after it was hashed, so what `VerifyLedger` hashes again is
not what was hashed before (`RoundedAway`). `VerifyLoad` and `VerifyRead` are the two statements of
`VerifyLedger`. `OpenAccount`, `ResetAccount` and `Verify` are the endpoints;
those that only read see `Tree`, one statement over committed rows.

`SessionOpening` extends it with the sessions of those accounts. `Start` is four
statements (`StartCheckAccount`, `StartCheckLive`, `StartGetFeed`,
`StartCreate`) and the insert meets the partial unique index (`Indexed`). A
start, a close and a sweep commit before their event is written: `hand` holds
the events an actor still owes, `EmitFails` and `Die` take them, `lost`
remembers. `SweepSelect` and `SweepFlip` are the batch of `AbandonIdle`, whose
events succeed or fail one by one. A session remembers the version of the
account its `Start` had read. Bounds: `Sessions`, `MaxFaults`.

### OutboxRelay and EventConsumer

The events of one aggregate, which share a partition, numbered by `created_at`.
That is the application's clock from before the insert, so `Record` may bring
them in any order. `ClaimDue`, `MarkPublished`, `MarkFailed` are `drain` and
`retryBatch`. `Publish`, `PublishAgain` and `PublishFails` are what happens to
one batch of the kafka-go writer, any next few rows of the relay's batch (the
writer's batches are of 100, the relay's of 200, and other aggregates' rows lie
between): it is accepted; it is accepted, the answer is lost and the writer
sends it again by itself; or its last attempt fails, whether or not it was
accepted, and the writer goes on with the batches after it. `writer` says how
far it has come and which batch it is sending again. `late` and `refused` are
history: rows that appeared when a younger one was on its way, and events the
writer gave up. `ClaimDue` runs in no transaction, so the rows it locked are
free once it returns: while its own statement runs, another relay's rows may
or may not be skipped (`Lockable`). Bounds: `Last`, and `MaxFaults` for
crashes, failed statements and lost answers; refused batches are free.

`EventConsumer` extends it with the reader of that partition: `FetchMessage`
goes on from what was fetched last, `Handle` and `HandleFails` are one attempt
of `dispatch`, `CommitMessages` covers everything before its message,
`HandleCancelled` is the handler that returns `context.Canceled` while `Run`
goes on (nothing is committed and the next message is fetched, whose commit then
covers the cancelled one), `Restart` a failed
commit or a dead process, after which reading begins at the committed offset.
`MaxTroubles` bounds relay faults and consumer stumbles together.

### AuthTokens

One person's users row and refresh tokens. Every statement of the user service
commits by itself, so a request is a program counter between statements:
`Create`, `SetGoogleID`, `Issue` (the `Store` that ends every sign-in and
rotation), `LoadToken` and `Outcome` (what `Refresh` makes of the row it read),
`Rotate`, `Alarm` (`RevokeAllForUser`), `Discard`, `SetPasswordHash`, and `Fail`
before any of them. A client may present any token it was ever given. The table
has no column for it, but the model remembers for each token its `parent` (what
it was traded for) and its `root` (the sign-in it goes back to); `raced`,
`contended`, `alarmed` and `ended` are history too. Bound: `MaxTokens`.

### RateLimiter and StreamTickets

`RateLimiter` is the throttle before the auth routes: a request passes a chain
of limiters, each with its key (`Routes`, `Proceed`). `AllowShared` is the Redis
transaction INCR, EXPIRE NX, TTL; `AllowLocal` the bucket of the replica when
that call fails, having counted or not, with the sweep of the map before it. A
bucket is kept in integer credits (a token is `Window` of them) and so without
the fractions of the code's floating point. `recent`, `unsure` and `unswept` are
history: what each path let through since the last `a + 1` units of time began,
what failed calls counted meanwhile, and the credit a key would have if nothing
were ever swept. `unsure` stops at the limit, a count at one more: beyond, they
are alike.

`StreamTickets` is the way to a socket: `IssueStreamTicket`, and a handshake
that redeems (`RedeemStreamTicket`, or `RedeemFails` with the ticket taken or
not), compares the session, upgrades (`Accept`) and asks again whether the
session is live (`Stream`). `redis` chooses the store for a whole behaviour:
Redis expires tickets itself, the map is swept on every issue. Bound: `Tokens`.

`MCGates` puts the two and `AuthTokens` in one run; they share no state, and the
variable `gate` says which of them a behaviour explores.

### MarketFeed

The data path of one instrument: the table of bars (`table`), the loader
(`IngestMinutes`, one `IngestDerived` per derived timeframe, and `IngestDies`
between any two statements), the builder (`BuildBounds`, `BuildWindow`,
`BuildCreate`), the session's edge (`Open`, `Release`) and readers that render
it (`Ask`, `WindowHit` or `WindowMiss` with its `WindowPut`, `Answer`). Of a
bar only its timeframe, its opening and the set of minutes it summarises are
kept: open, high, low, close and volume are functions of those minutes. Rows
that a statement lists in order of `opened_at` are a set here, and a row's
index is the number of rows before it. Rolling up, the trailing partial bucket
and the slice at the edge are as in `aggregate.go` and `ViewBars`. Every file
agrees on the prices of a minute, bars open on whole minutes, and one ingest
and one build run at a time. Bounds: `Horizon`, `MaxFiles`.

## 3. The runs

| Run | Instance | What it shows |
|---|---|---|
| SessionRaces | 2 handlers, 1 sweeper, feed of 3 bars, steps of 2, seeks to 0, ticks, timeframes, pauses, closes; 2 writes | `CacheBehindRow`, `NothingShownEarly`, `ReadsNeverRegress`, `ClosedOnce`, `EndedIsFinal`, `ClockRespectsPause`, `ImplementsEdge` |
| DriverRuns | 2 replicas, 3 sockets (two on one replica), 2 clocks, feed of 3 bars from the first; failing reads and writes, crashes, and one command, old snapshot or lease lost; fair | `ClockPerSockets`, `TwoDriveForACause`, `ClockRuns` |
| BusFrames | both buses, 2 sockets, 2 subscriptions, 3 frames, buffers of 2, two joins; frames refused, lost, late and overtaken; fair | `TopicWhileWatched`, `NewestIsKept`, `EndReachesSocket` |
| TreeResets | either 3 requests and 3 accounts, of which one root may be opened with a fine balance, or one clerk's opens and resets beside 2 starts, a close, a sweep, 2 sessions and a fault | `TreeIsALine`, `SealAttestsLedger`, `AlarmsOnlyOnRounding`, `EventWithChange`, `SealedIsReadOnly`; `OneLivePerAccount`, `SealedStartsOnlyByRace`, `EventsLostOnlyByFault` |
| OutboxOne | 1 relay and its consumer, 2 events in any order, batches of 2 split anyhow, 2 attempts, 2 tries, one fault or stumble, fair | `ResendsAreCaused`, `OvertakesOnlyForACause`, `PublishedWasSent`, `GivenUpWasTried`, `HandledAgainOnlyByCause`, `EveryEventArrives` |
| FeedViews | 4 minutes, 2 files, timeframes of 1, 2 (derived) and 4 (viewed only), 1 reader | `NothingPastTheEdge`, `WindowCoversFeed`, `ClosedIsWhole`, `ClosedIsKept`, `IngestedIsDerived` |
| Gates | either a chain of two limiters (2 and 1 per window of 2), or 2 tickets, 2 sessions, 2 handshakes, TTL 2, both stores, or 2 requests, 2 passwords, 3 refresh tokens, every endpoint of auth | `FrontDoorBounded`, `RefusedOnlyWhenUsed`, `EvictionForgetsNothing`; `OneSocketPerTicket`, `MapHoldsOneTTL`; `AlarmEndsSignIns`, `SignInsEndForACause`, `TradedTwiceOnlyByOverlap` |
| FindSweepTwice | 1 handler, 2 sweepers | `AbandonedOnce` is violated |
| FindTwoDrivers | 2 replicas, production holder | `OneReplicaDrives` is violated |
| FindOutboxTwice | 2 relays, no faults | `NeverTwiceUntroubled` is violated |
| FindLedgerAlarm | 1 request, 1 account | `VerifyNeverAlarms` is violated |
| FindCancelledSkipped | 1 relay and its consumer, 2 events, one stumble | `CommittedIsSettled` is violated |

**Why these bounds.**

*SessionRaces.* Every race of the session is between at most two requests and
one sweep over one row: a third request adds no new order of two conflicting
writes, and two successful writes are enough for a loser that read before the
first, between them, or after both, and for a snapshot saved out of order. A
feed of three bars lets a step of 2 release to its end, which is also a
checkpoint (`CheckpointEvery = 2`), a tick release one bar, and a further step
be refused. `SetSpeed` is not among the run's operations: its write takes the
path of `SetTimeframe`'s. The theorems of section 4 cover it, and every bound.

*DriverRuns.* Two clocks of one replica and one of another are the least with
which a late release can matter; of two `Drives` one can be on its way out while
the other starts, and `TwoDriveForACause` needs just those (its theorem needs
no bound). Three sockets are a replica's second socket and a reconnect. A feed
of three bars from the first leaves two to play, so that a clock which stops
after one is found, and a cursor behind the edge, so that an old snapshot
differs. `ClockRuns` lets every call fail at any time and as often as strong
fairness allows.

*BusFrames.* Two sockets are the least that race over a topic, two subscriptions
the least with which an old pump and a new one overlap, and three frames the
least that overflow a buffer of two.

*TreeResets.* One fine balance, on a root (`FewFine`), is enough for an alarm and
leaves plain ledgers beside it. Three requests let two resets and a verification, or two resets
and an open, run together. The other lane has one clerk, because what a start
can meet is one reset at each of its statements, and no verification, which
changes nothing; a tree of two iterations has a sealed and an active one. Two
starts race for one account or take one each, and the sweep may hold both.

*OutboxOne.* Two events in batches of two leave full and partial batches, writer
batches of one and of both, and a younger event to overtake; two attempts have
a first, counted failure and an exhausting one, and so have two tries. There is one
relay: `ResendsAreCaused`, `OvertakesOnlyForACause` and `EveryEventArrives` are
claims about one (with two the first fails, see `FindOutboxTwice`), while
`PublishedWasSent` and `GivenUpWasTried` are meant for any number, for which only
their theorems speak. One fault or stumble at a time: the properties count
them, and the causes they name are each of one.

*FeedViews.* Four minutes hold two derived buckets and one viewed one, so that a
view has a closed and a forming bar, and a file may begin or end inside a
bucket or skip a minute; the second file fills a gap, repeats the first or
comes late. One reader is enough because readers share only the cache: a
cached window that outlives the table's, and a put that fails, let it see the
old and the new window in any order. `IngestedIsDerived` compares keys: that
the bar under a key is the whole one is what `DerivedIsWhole` (section 5) says and
the code does not keep.

*Gates.* One replica suffices for the throttle: replicas share only the Redis
counters, which a failing call of the one replica disturbs as another's would,
and each bucket is its replica's own. Limits of 2 and 1 make the second
limiter refuse what the first let through, a window of 2 has an inside, and a
sweep every unit falls in the middle of a window. The ages of a ticket are
told apart to a little past two TTLs. Of the refresh tokens' requests two are the
least that hold one token at once, and three tokens are a sign-in, its rotation
and another device, or a token traded twice. The proofs need no bound.

In every run with `SYMMETRY` the processes permuted are interchangeable, except
that `DeskSymmetry` leaves the clerk out; runs with liveness use none. Deadlock
is not checked: every instance stops when its bound is used up.

**Fairness.** `PlaybackDriver!FairSpec`: goroutines are scheduled, timers fire
and calls return, well or badly (weak fairness of `Drive`), TTLs run out, and the
stores do not refuse for ever what is possible again and again: Redis a lease,
the database a reload or a step (strong fairness of `Acquire`, `Load`, `Step`).
A read that fails at the top of the loop is the clock's last, so fairness could
not make up for it: `ClockRuns` excepts the replica whose clock it was
(`GaveUp`), and only that. Nothing obliges a client, a trader or a crash to act.
`FrameBus!FairSpec`: a handler that committed goes on to publish or fails to, the
pump, the connection and the socket's loop are served; nothing makes a connection
break or stay whole. `EventConsumer!SpineSpec`: backoffs end, each relay's loop
goes on, and the consumer's too; nothing makes a broker accept or a handler
succeed, which is why an event may end parked or abandoned. The session,
the accounts, the tokens and the gates claim safety only.

## 4. The proofs

Every safety and action property of the passing runs is a theorem, for every
value of the constants that its module's assumption allows. The assumptions only
say what the constants are (indices are natural numbers, tokens that mean
"none" are not among the things they stand beside, a limit or a window is at
least one), and TLC evaluates them on the runs. Two results need one relay and
say so (`OneRelay`), one an unnamed holder (`~NamedHolder`); nothing else is
assumed.

| Module | Theorems | From |
|---|---|---|
| `ReplaySessionProofs` | `TypeCorrect`, `NoEarlyReveal`, `CacheFollowsRow`, `MonotoneReads`, `RowStaysInBounds`, `ClosesOnce`, `EdgeOnlyGrows`, `EndIsFinal`, `PauseWins`, `SessionImplementsEdge` | `IInv` |
| `SessionOpeningProofs` | `TreeTypesKept`, `ResetTreesAreLines`, `SealsAttest`, `NoFalseAlarm`, `EventsMatchAccounts`, `SealedStaysSealed` | `TreeInv` |
| | `DeskIsUntouched`, `OneLiveSession`, `SealedOnlyByRace`, `EventsAccountForSessions` | `TreeInv`, `OpeningInv` |
| `PlaybackDriverProofs` | `DriverInductive`, `OneClockPerReplica` | `DriverInv` |
| | `TwoDriveOnlyForACause`, `OwnNamesElectOne` | `LeaseInv` |
| `FrameBusProofs` | `NobodyCutOff`, `BacklogNotNewest` | `BusInv` |
| `OutboxRelayProofs` | `RelayTypes`, `RelaysPublishWhatTheyMark`, `RelaysTryBeforeGivingUp` | `RelayInv` |
| | `LoneRelayResends`, `LoneRelayOrder` | `CauseInv`, `OrderInv` |
| | `SpineHasRelays`, `RedeliveryHasACause` | `ConsumerInv` |
| `MarketFeedProofs` | `MarketInductive`, `NoHindsight`, `PromisedBarsAreThere`, `ClosedBarsAreWhole`, `ClosedBarsStay`, `IngestLeavesBars` | `MarketInv` |
| `AuthTokensProofs` | `TokenTypes`, `AlarmsEndSignIns`, `NobodySignedOutWithoutCause`, `TradesOverlap` | `TokenInv` |
| `GatesProofs` | `TicketsAreSingleUse`, `SweptOnIssue` | `TicketInv`, `AgeInv` |
| | `LimiterInductive`, `BurstsAreBounded`, `RefusalIsEarned`, `SweepIsInvisible` | `LimiterInv` |

### The session

`NothingShownEarly` alone is not inductive: a handler about to write might hold
any entity. What makes it so is `EntityInv`, which says what an entity is worth
at each point of its handler: its edge is at least what had been shown when the
request began and, until it is staged, at most the row's; as long as its version
matches, it has the row's settings; and an entity about to be written whose
version still matches is one accepted operation away from the row (`Intended`).
A write by someone else raises the row's version, which makes every `Intended`
vacuous; that is the optimistic lock, and the place where it is needed.
`CloseInv` adds that at most one handler is between a close and its event.
`StagedIsIntended` carries the arithmetic of steps and checkpoints, `WriteFacts`
and `SweepFacts` say what the two writers do to the row, and `InvStep` has one
step per action. `SessionImplementsEdge` maps each write and sweep to the
operation `Intended` names, and everything else to a stutter.

### Accounts, and the sessions on them

`TreeIsALine` and `SealAttestsLedger` hold of committed rows, but a request
commits what it prepared several statements earlier. `Holds` says what that is
still worth: until its own update, either the row a request read has been
sealed since, and then the key it inserts or the row it updates stops it, or the
entry in its hand is still the next of the ledger; after the update the row is
active and no other request is at the same point (`RequestInv`). A line is
stated per root (`IsLine`) so that one reset extends one line and `SameLine`
deals with all others. `ChainGrows` is the lemma about hashes: an entry that
covers the last one continues the chain, except where its own amount was rounded
(`Linked`), and that exception is all `NoFalseAlarm` leaves to an alarm.

`DeskIsUntouched` says that the sessions leave the accounts as they were, so
that the theorems of the first group hold of both together. `OpeningInv` rests
on `ReadActive`: a version at which some request found the account active is
behind the row's as soon as the account is sealed, which is exactly what
`SealedStartsOnlyByRace` can still tell. `ToldInv` keeps every start and end in
one of three places: written, in the hand of its actor, or lost to a counted
fault; `HandsFree` keeps an actor from beginning anew while it owes events.

### Clocks and frames

`ClockPerSockets` needs, beside itself, that an entry names a goroutine of its
own replica (`Entries`): a release cancels the one the entry names, and only if
that is the replica's own is nobody else's clock stopped. A goroutine that
returned at the end of the feed is still named by its entry, so `Spare`, those
that may stand for a new one, leaves it out: two entries of one name would let
one release stop the other's clock.

`LeaseInv` says what a clock's belief is worth: a clock that ticks won the lease
in this iteration (`Tickers`), and one that won it either still has the lease
under its name or remembers how it went (`Holders`). Clocks of two replicas have
two names and a lease has one, so of two that tick, one has lost it:
`TwoDriveOnlyForACause`, for production's names. `OwnNamesElectOne` is the other
half of the finding `FindTwoDrivers`: were the lease taken under a name of each
goroutine's own, as `holder()` does where no name is configured, a release would
delete nobody else's lease, and only a TTL ending under a clock, the limit of any
lease, would leave two replicas driving.

`TopicWhileWatched` becomes inductive with the sockets that are on the way out:
a topic is there as long as some socket is registered *or has left and not yet
closed it* (`TopicInv`). `NewestIsKept` needs only that the channels of sockets
outside the fan-out are empty; `PushKeepsNewest` is drop-oldest itself.

### The spine

`RelayInv`: whatever a relay holds in memory (`Held`) was recorded, carries a
count of attempts that the table has since reached or passed, and is in the log
as far as the writer has been acknowledged. The copied count is the reason it
is needed: `Exhausted` looks at the copy, other relays may have counted on in
the table, and only because the copy is never ahead does a row that looks
exhausted have its attempts.

A lone relay's rows are pending for as long as it carries them, which is false
of two. That gives `CauseInv`: every sending of an event is a counted attempt or a
fault, but for the one the writer has made and the table does not know of yet
(`Unsettled`); a batch sent again by the writer costs a fault each time.
`OrderInv` adds that a row never written stays due, so that a claim takes it before
any younger one (`Followed`), and that where the writer has been a row was sent
or given up: what overtakes it later has one of the two causes, a refusal or an
insert that came late.

`ConsumerInv` says that nothing beyond the committed position has been handled,
but for the one message about to be committed (`Owed`) and one for each stumble.
It uses nothing of the relays but that the log only grows, so the theorem holds
behind any number of them.

### Market data

The first half of `MarketFeedProofs` speaks of sets of rows alone: buckets are
multiples (`MultiplesApart`), rolled-up bars have distinct openings, an index
follows the order of openings, and a view over the rows up to an edge shows only
minutes of those rows (`ShownBeforeEdge`) and, where it says closed, whole
buckets (`ClosedSumsUp`). The second half carries them through the steps.
`MarketInv` says that the table keeps its key, that the feed's promise
(`FeedOf`) is about rows the builder saw, and that *every* window anybody holds,
cached, in a reader's hand or under a chart, has those rows and others of the
same range (`IsWindow`): ingests may add to it, nothing takes away. A reader that
mixes an old window with a new edge is covered because the edge a chart was
drawn at (`Drawn`) was released before.

### Tokens

None of the three properties is inductive. `RacedInv` is what the first lacks: a
rotation whose sign-in was alarmed under it carries the mark, on the request or
on its token, so that the token it stores will have it. `LiveInv` strengthens
the second: a rotation vouches for its sign-in only once it is *past its
Revoke*. One that has merely read the token does not, because another request
may have spent that token and failed. `ClaimInv` counts for the third all claims
to a token together, children stored and requests on their way to store one: of
two, at least one began while the other held the token. Most actions touch no
token or only flags of tokens, and are dealt with at once (`QuietInv`,
`RewritesTypes`); `LoadToken`, `Rotate`, `Discard`, `Alarm`, `Expire` and
`Issue` have a lemma each.

### The gates

`TicketInv` ties an admitted handshake to a spent ticket that no other admitted
handshake has; `AgeInv` relates the age of what is stored to the time since the
last issue.

`FrontDoorBounded` speaks of one window, but no invariant about one window is
inductive: what was let through in it was let through at some age, and ages
shift. `LimiterInv` therefore bounds every age. For a bucket (`LocalPart`):
credit and what was let through in the last `a + 1` units together are what
accrued meanwhile, up to a full bucket. For a counter (`SharedPart`): what was
let through since its window began is at most the count, and what came before
belongs to the previous window, which was at most the limit. The histories
are cumulative (`recent[p][k][a]` counts *since* `a`), so that the proof adds
nothing up. `EvictionForgetsNothing` is itself inductive: a bucket idle for a
window has refilled (`Credit`), which is why `sweep` may drop it and why half a
window would not do.

### Only model-checked

Liveness (`ClockRuns`, `EndReachesSocket`, `EveryEventArrives`), which is beyond
the prover, and the five violations, which are counterexamples. That Redis,
PostgreSQL and Kafka behave as modelled is taken from how the code uses them.

## 5. Where the code and its documents disagree

Five disagreements have a run and an entry under "findings": two sweeps abandon
one session, two replicas drive one, two relays publish one event, a ledger
opened with a balance finer than its columns reports itself broken (01-AC-6 says
an untouched chain verifies), and a message whose handler was cancelled is
covered by the next commit (`consumer.go:13-14` says it is redelivered). Others were met
while modelling; where the first column names a definition it is one at the end
of its module, named so that a run can check it:

| Definition | The text | The code |
|---|---|---|
| `ReplaySession!TimeframeKeepsCursor` | `interface.go:24` "It never moves the cursor" | a snapshot left by a late `State.Save` has an old cursor with the same edge; `load` prefers it and `SetTimeframe` writes it back (`service.go:298`) |
| `ReplaySession!BarsEndAtView` | 03-AC-2: after a seek back, the bar request "is now refused" | `Bars` is bounded by the edge (`service.go:233`) |
| `ReplaySession!ClosedIsRecorded` | `000009_outbox.up.sql:1` "A domain write and its event land in one commit" | `Close` commits the row, then writes the event in a statement of its own (`service.go:207`); `Start` and the sweep do the same |
| `ReplaySession!FramesInOrder` | 03-AC-6 "no frame arrives out of order" | frames leave after the commit, outside any lock (`stream.go:258`) |
| `PlaybackDriver!AttachedMeansDriven` | `interface.go:44` "the driver stops once the last one goes" | `drive` returns at the end of the feed or on a failed read and keeps its entry; later sockets only count a reference (`stream.go:161`, `:185`) |
| `FrameBus!EndReachesSocket` without `troubled` | `service.go:203-205` a socket watching a session that closed is told so | Redis may refuse the frame or the subscription be down (`stream.go:258`), or an older frame published later replaces the terminal one in `drainToLatest` |
| `FrameBus!EndReachesSocket` without `~swept` | `stream.go:321` "Any socket still attached is told" | the worker has no frame bus, so the sweep publishes nothing |
| `OutboxRelay!StrictlyOrdered` | `publisher.go:24` "strictly ordered" | rows back off one by one and a younger one goes first (`relay.go:113`); a row may also be inserted after a younger one has gone out (`event.go:78`) |
| `MarketFeed!WindowNeverChanges` | `domain/feed/service.go:135` "A feed's window is immutable once built" | the window is a range of `market_bars`, and a later file may add rows inside it; readers then see the cached or the new window until the TTL ends |
| `MarketFeed!DerivedIsWhole` | `aggregate.go:20` "A bucket the input only partly covered is not a bar" | only a trailing partial bucket is dropped; a file that begins inside a bucket stores a leading bar of part of it, and ON CONFLICT keeps it |

Smaller observations: the clock steps from the cursor of an old snapshot with the
same edge, so a tick may be more or less than one bar; `persistCursor`'s comment has PostgreSQL written only at
checkpoints while both branches write; `Start` accepts a timeframe finer than
the feed's base, which `SetTimeframe` refuses; a `Reset` between `Start`'s check
and its insert leaves a live session on a sealed iteration
(`SealedStartsOnlyByRace` says that only such a race does); pause and resume do
not refresh `last_active_at`; a sync frame that already says "closed" does not
end the socket's loop; account names are checked and inserted without a unique
index; two rotations that read one live token both succeed, and a rotation in
flight carries a token past the reuse alarm (`contended` and `raced` are there to
say exactly that much); changing the password revokes no token.

## 6. Not modelled, and the plan

Not modelled, and why:

- *Users*: `UpdateProfile`, `last_login_at` and the lookups, which no
  other step reads; password rules; the encoding and signing of tokens.
- *Feeds*: the affine map of prices, the aliases, and the catalogue's filters
  and random choice: arithmetic and queries without an interleaving.
- *Throttle*: how `EmailKey` finds its key in a body.
- *Lease*: the in-memory lease of a deployment without Redis, which one process
  always wins.
- *Accounts*: `UpdateBalances`, which nothing calls.
- *Consumer*: no program of the repository starts one yet, so the handler is any
  function that succeeds, fails or is cancelled.
- HTTP binding and rendering, configuration, logging, password hashing,
  migrations beyond the constraints the modules use, and the lint tool:
  sequential code without protocol state.

Next, in this order:

1. Runs for the definitions of section 5 that state what a document says.
2. The sessions of `PlaybackDriver` and `SessionOpening` shown to be those of
   `ReplaySession`, which they abstract: today the link is `ReplayEdge`.
3. What two relays still keep of the order of events, as a property of its own.
4. The socket's loop over `ReplaySession`'s frames: that what a chart of
   `MarketFeed` asks for is an edge a frame has announced.
