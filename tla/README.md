# Verification of rdv-backend-v2

This directory holds the formal specifications of the back end: TLA+ modules translated from the TypeScript source, TLC configurations that model-check them on small instances, and proof modules that TLAPS checks for every value of the constants. `PROJECT.json` is the machine-readable index: which definition models which lines, which run checks which property, which hazards are known and which property covers them.

- [The system](#the-system)
- [Hazards](#hazards)
- [Modules](#modules)
- [Runs](#runs)
- [What the runs found](#what-the-runs-found)
- [Where documents and code differ](#where-documents-and-code-differ)
- [Proofs](#proofs)
- [Not modelled](#not-modelled)
- [What is left](#what-is-left)
- [Running it](#running-it)

Paths are relative to the repository; `event/` stands for `src/module/event/`, and so on.

## The system

The program is one NestJS process (Cloud Run with one instance, `docs/architecture/SHORT_TALK.md`), a PostgreSQL database behind Prisma, Redis, and a queue of delayed jobs that is either BullMQ or Google Cloud Tasks (`QUEUE_DRIVER`). JavaScript runs one piece of code at a time, so everything between two awaits is atomic and everything else interleaves.

Domain code follows one pattern. A use case reads an aggregate with `findById`, calls its methods, and writes the *whole* aggregate back with `save`. Methods add domain events to the aggregate, which marks itself in a static registry; `save` asks the registry to dispatch them after its transaction, and handlers start asynchronous work nobody waits for. There is no version column and no lock.

| Component | State | Operations | Talks to | What makes it correct |
|---|---|---|---|---|
| `event/domain/models` | an event with participants and results | create, join, withdraw, update, delete, check, start, end, depart, arrive | raises domain events | guards: quorum, one participation each, creator stays, results made once |
| `event/application/usecases` | requests in flight | one per operation above | database, queue | a request is all or nothing; the queue agrees with the database |
| `event/infra/repositories` | rows `events`, `event_participants`, `event_results` | `save` (upsert by id), `delete`, `findById` | PostgreSQL, registry | no save undoes another |
| `event/application/services`, `handlers`, `infra/adapters` | the jobs of each event | check, start, end; schedule and cancel | queue, registry | every event is driven to its end |
| `core/queue` | the queue service's jobs | `scheduleJobAt`, `removeJob` in two drivers | BullMQ, Cloud Tasks | one job for each id; never before its time |
| `lib/domain` | the registry, each aggregate's events | mark, dispatch, clear | all handlers | an event is dispatched once, after its commit |
| `group` | groups, members, invite codes | create, join, leave, kick, transfer, delete, invite | `event` rows (withdraw on leaving) | one owner, member limit, a code is used once |
| `location-tracking` | one row for each participant on the way | create on departure, update, clear at the end | domain events of `event` | no row outlives its event |
| `short-talk` | SSE connections in memory, chat messages | subscribe, publish, disconnect, clean up, list | group membership | a user's live connection stays registered; nothing saved is missed |
| `core/jwt`, `user`, `auth` | Redis keys for sessions and black lists, users | register, login, refresh, logout | Redis | a logged-out session stays out |
| `device-token`, `push-notification` | FCM tokens | register, remove, clean up, dispatch, drop failures | FCM, domain events | one token for each user, one user for each token |
| `notification` | notifications and subscriptions | one handler per domain event, read, subscribe | domain events | who is told of what; a notification is read once |
| `character` | unlocked characters | grant, track, unlock, list | domain events of `user`, push | unlocked once and only when earned |
| `app-version`, `health`, `prisma`, `firebase`, `profanity`, `logger` | rows or none | read, write, wrap | - | - |
| `shared/utils` | none | retry with back-off, cursors | - | pure functions |

The behaviour that is hardest to get right, and that the rest hangs on, is the life of an event. Users' requests, three jobs that chain each other through domain events, and the registry all act on one aggregate that everybody reads and overwrites as a whole. It is modelled row by row and call by call. The other components have the same shape on a smaller scale: a read, an await or two, and a write that relies on what was read.

Handlers are called with `void` and nobody waits for them. Those of `location-tracking` catch what they throw and log it, and scheduling answers false instead of throwing; those that store notices or grant characters (`character/application/handlers/user-registered-event.handler.ts`) let it out: the rejection is unhandled and ends the process, with everything in flight.

## Hazards

`PROJECT.json` lists each one at its line. In short:

- **whole-row overwrites**: an event's status, participants and results, a group's owner and members, a notice, are written from a copy read some awaits earlier (`event.repository.impl.ts:105`, `group.repository.impl.ts:45`, `read-notification.usecase.ts:52`);
- **a registry keyed by id**: two requests on one event hold two instances with one id; only one is marked, and a dispatch takes whichever it is (`domain-events.ts:13`, `:46`); an instance whose request failed stays marked;
- **a chain of jobs**: the next job is scheduled by a handler of the event the previous one raised; a late job, a refused schedule, a restart or a lost event ends it (`cloud-tasks-queue.service.ts:48`);
- **the queue is changed before the database**: create and reschedule queue the check first and undo it if the save fails (`create-event.usecase.ts:120`, `update-event.usecase.ts:66`);
- **at-least-once delivery**: a job may run again after its commit;
- **checks that only look at a copy or at an earlier query**: duplicate participation, quorum, time conflicts, the limit of three, an invite code, a character that is owned, a token that is registered;
- **the process ends**: a handler's rejection that nobody handles, a deployment; streams, jobs of BullMQ, half-done requests are gone;
- **two connections of one user**: the registry of streams is keyed by user, the join awaits before it subscribes, and the close of either connection removes the entry (`sse-connection.adapter.ts:78`, `:131`);
- **two round trips to Redis**: a life computed before the MULTI that uses it, a session deleted before a late refresh writes into it (`redis-jwt.service.ts:383`);
- **two handlers of one domain event** that choose their receivers apart, and a push that deletes what failed when it returns.

Smaller ones that no property is about:

- membership is checked when a stream opens and not again; the sender's name shown with a message may be stale; a listing with `sinceId` gives the newest page only, so that a client that was away for more than a page must go on with the cursor;
- `findFirst` without an order where two rows match (two device rows of one user after overlapping registrations);
- a transient failure of FCM deletes the token like a permanent one;
- two refreshes of one session that overlap leave an access token that no logout revokes, and a second login leaves the first one's refresh key until it expires;
- two registrations of one device race to the unique key (the loser is refused in the model too), and changing the character saves a copy of the user;
- `create-location-tracking.usecase.ts:45` trusts an answer that is an await old; a participant check delivered twice after a reschedule; BullMQ's `skipStalledCheck`; a check queued for a creation that then fails and whose removal fails too; a reschedule to just over twenty minutes ahead, whose check time may be past when the queue is asked.

## Modules

```
EventAggregate   DomainEvents   EventQueue        operators / registry / clock and jobs
        \             |            /
              EventLifecycle  ------- INSTANCE ----> EventPromise   (abstract)
               /            \
   MCEventLifecycle    EventLifecycle_proofs -- EventSerial_proofs

Group -- INSTANCE --> GroupPromise (abstract)
  /   \
MCGroup  Group_proofs        LocationTracking               RedisJwt -- RedisJwt_proofs
                                   |                            |              |
                             EventBooking                   Accounts -- Accounts_proofs
                                   |                            |
                                 Views -- EventBooking_proofs   MCAccounts
                                   |
                             MCEventBooking

ShortTalk   Notices   Paging        ShortTalk -- ShortTalk_proofs
        \      |      /             Notices, Paging -- Notices_proofs
           MCMessages
```

### The life of one event

**EventAggregate** has no variables. Each domain method of `event/domain/models/event` is an operator from an aggregate to an aggregate with its guard beside it (`CanJoin`/`AddParticipant`, `CheckParticipantsForStart`, `End`...), and `Saved` is the transaction of `_saveWithClient`: the row is overwritten, participants are deleted by the ids this copy removed, participants and results are upserted by id, and rows the copy never saw stay. Participants are rows with ids, not a map from users, because the table has no unique key on the user and the duplicates this allows are real. Titles, locations and time stamps are left out. `EventSchedule`'s instants (check -20 min, tracking -15 min, event time, end +1 min) are four consecutive ticks: only their order matters to the state machine.

**DomainEvents** is the registry and the event lists of the instances of one aggregate id. `marked` is the instance in the registry, `domainEvents` the undispatched events of each instance, `deliveries` the handler work started and not yet run. An instance belongs to the request slot that loaded it; `Leaked` stands for the instance of a failed request that is still marked.

**EventQueue** is the clock and the jobs of one event. The services are outside the repository and modelled from what the drivers rely on; where the drivers differ (`>=` or `>` for an instant that is due, an existing id ignored or refused, a missing job an error or not, a job running at a restart lost or retried) `Driver` decides.

**EventLifecycle** composes the three. A request is a record in `ops[slot]`: its kind, its `pc` (the call that comes next), its copy of the event, the ids it removed. Each action runs from one await to the next:

| Action | Code |
|---|---|
| `CreateBegins`, `ScheduleCheck`, `Commit`, `SaveFails`, `Rollback` | `create-event.usecase.ts` |
| `JoinReads`, `JoinConflicts`, `Commit` | `join-event.usecase.ts` |
| `WithdrawReads`, `UpdateReads`, `DepartReads`, `ArriveReads`, `Commit` | the use cases of these names |
| `RescheduleReads`, `Unschedule`, `ScheduleCheck`, `Commit`, `SaveFails`, `Rollback`, `Restore` | `update-event.usecase.ts` with a new time |
| `DeleteReads`, `DeleteMarks`, `Unschedule`, `DeleteCommits`, `DeleteFails` | `delete-event.usecase.ts` |
| `LeaveGroupReads`, `LeaveGroupWithdraws` | `leave-group.usecase.ts` and `event-lookup.service.impl.ts` |
| `JobReads`/`JobIgnored`, `CheckApplies`, `StartApplies`, `EndApplies`, `Commit`, `CommitUnacknowledged` | `event-scheduler.service.ts`, called by `event.processor.ts` or `event-queue.controller.ts` |
| `Handle` | the handlers; those of the event module schedule the next job |
| `Crash` | the process stops and starts again: requests, registry and pending handlers are gone |
| `Tick` | time passes |

A refused request changes nothing and is not a step. The schedule conflict of a join is a free choice, for it depends on other events.

**EventPromise** says what the feature promises, with no rows, requests or jobs: a phase, each user's standing and each user's verdict. `EventLifecycle!KeepsPromise` maps the detailed state onto it.

**MCEventLifecycle** adds the symmetry sets for TLC.

Abstractions to know about:

- one event, created at most once; several events are the subject of `EventBooking`;
- `findById` runs several queries; it is one read here;
- BullMQ and the adapter give up after three attempts (`queue-event-scheduling.adapter.ts:73`); with the one fault of the runs that limit is out of reach and the model has no counter;
- Cloud Tasks refuses the name of a task deleted a short time ago, so that a reschedule may be refused; this is a rule of the service that nothing in the source states, and is left out;
- two pending runs of a handler for one event are one: the handlers followed are idempotent;
- bounds: `MaxTime` (clock), `MaxRows` (participant rows ever created), `MaxRuns` (runs of `end()`), `MaxFaults`, `Slots` (requests in flight).

### Groups

**Group** has a row with its owner and members for each group, the invite codes, the requests in flight and, as an environment, the events the leave policy reads and writes. Each endpoint is one action that reads (`CreateReads`, `JoinReads`, `KickReads`, `TransferReads`...) and further ones for what comes after each await: `JoinAdds` validates the group inside the transaction while the code was validated before it, `InviteInserts` asks for a value that is free, `LeaveChecks`, `LeaveWithdraws` and `Save` are the three parts of leaving. `Saved(g, copy, removed)` is the upsert of a copy, `ViolatesKey` the unique keys that can refuse it. `overlapped` (history) says that a request began while another was in flight; `admitted` (history) counts how many users each code let in.

**GroupPromise** says what the feature promises (`docs/features/group/SPEC.md`), with no rows, copies or requests: each user's standing in each group and the invitations given out. A group is founded by someone who owns none, grows by single-use invitations while there is room, and is handed over or dissolved. `Group!KeepsGroupPromise` maps the member rows (`StandingOf`) and the codes (`InvitationsOf`) onto it and asks of every step, until requests overlap, that it is one of these or none. Handing over asks nothing about what the receiver owns, as in the code (`group_two_owned`). When an invitation expires is left out of the promise.

### Several events, positions and views

**LocationTracking** holds the rows of those on their way and the handlers and updates that are between two awaits (`work`); what it must know of an event comes as a parameter. **EventBooking** supplies it: events with a set of participants, the limit of three recruiting events (`WithinLimit`, asked by `CreateCounts` and by nothing later), the schedule conflict that create and join query before they save (`HasScheduleConflict`), withdrawal, a new time, an edit that leaves the time alone, departure and arrival, deletion with its cascade, the three jobs, and a restart. A request or job takes a slot when it reads the event (`JoinReads`, `DepartReads`, `JobReads`...), holds the copy that it changed, and writes it back some awaits later (`Save`), where its domain event calls the handlers (`CallsHandlers`); everything else that is in flight may move in between. `underWay` are the participants that are no longer preparing. What `EventLifecycle` looks at closely is coarse here: rows, the queue and the registry. `disturbed` (history) says that two activities overlapped or the process stopped, `revived` that the save of a request or a job brought a deleted event back, `moved` that an event was given a new time.

**Views** adds what users are shown: the calendar and its marked days in KST, the lists, the detail, the active event, the result, the positions, a group's list and detail, and the attendance statistics. It adds the members of groups, who come and go, and the rows of `event_results`: the end job saves those of the copy it read (`EndsWithResults`) and a deletion takes them along. A result has a random id in the table; here the number of results the event had before stands for it (`before`), for an event that a stale save brought back may end a second time. A view changes nothing, so the queries are operators and the properties ask whether two of them can disagree while members come and go. The calendar is arithmetic on ticks: `DayLength`, `Offset`, `MonthLength`.

### Sessions and accounts

**RedisJwt** is `redis-jwt.service.ts`: the hash of each user with the last pair of tokens, a key for each refresh token, two black lists with ends, and requests between two round trips. An access token is the record of its user and its second: two signed in one second are one token, as in the code. `Tick` expires keys. `held`, `issued`, `collided`, `given`, `revoked` are history. Signing in is wired to endpoints; refreshing and invalidating are offered by the service and called by no controller yet.

**Accounts** extends it: registration and login by device, the handlers of `UserRegisteredEvent` (welcome, settings, the grant of characters one by one), tracking and unlocking, wearing, settings, messages sent. A refused insert makes the handler reject and `Restarts` ends the process: `tasks`, `work` and the requests of RedisJwt are lost, the tables and Redis stay. `Crash` is any other end of the process while a handler is at work. `raced` (history) names the users who asked for something before their handlers were done.

### Chat, notices, pages

**ShortTalk** is the registry of SSE connections of one group (groups share nothing). A join checks, awaits, subscribes and only then attaches the close handler; `Closes` is that handler; the client may give a connection up long before the server sees the close. Messages get a time, are saved, published, and looked up in turn; `CatchesUp` is the client's listing after a reconnect. History variables name the members of whom joins or closes crossed (`late`), whose socket went before it was watched (`unwatched`), and sends that overlapped (`crossed`).

**Notices** holds device tokens in the order they were used (a sequence; `Staying` gives each row that a deletion leaves its new rank), notices and pushes. Registration has four steps (owner of the token, evict, own row, save); a domain event starts a handler that stores and one that pushes, each with its own choice of receivers. A cancellation, start or end lists the participants, and `event_participants` may list a user again (`twice`): he then gets two notices about the thing, told apart by `nth`, for nothing in `notifications` forbids it; a push filters, resolves tokens, sends and deletes what failed. FCM refuses dead tokens and any others it likes.

**Paging** is the cursor of both lists: newest first by time and id, one row more than asked for, and rows that arrive during a walk. A page is sorted by rank: the n-th row is the one that n - 1 rows come before.

### The MC modules

`MCGroup`, `MCEventBooking`, `MCAccounts` and `MCMessages` add a variable `slice` that never changes. The product of everything a module offers is out of reach; each slice allows one kind of difficulty and leaves the others out, and all slices of a module are explored in one run with all its properties. A slice only removes behaviours: what it explores is behaviour of the module.

## Runs

| Run | Instance | Checks |
|---|---|---|
| `serial_prompt` (18,789 states) | 3 users, 1 request at a time, Cloud Tasks, no faults, jobs and handlers run before the clock moves on | `OneParticipation`, `ChainUnbroken`, `ChangesAreAnnounced`, `EventSettles` |
| `serial_faults` (98,637) | 3 users, 1 request at a time, BullMQ, one fault (failing save, lost acknowledgement or restart), any delay | `TypeOK`, `StartedWithQuorum`, `AttendanceComplete`, `KeepsPromise` |
| `concurrent` (384,957) | 2 users, 2 requests in flight, Cloud Tasks, one fault, any delay | `CreatorStays`, `EndedHasResults`, `MarkedHasEvents`, `KeysIdentifyRows`, `ResultsAreFinal` |
| `group_requests` (about 74,000) | 3 users, 2 groups of at most 2 members, 2 codes, 1 event, 2 requests; four slices | `OwnerIsMember`, `CodeUsedOnce`, `LeaverIsWithdrawn`, `KeepsGroupPromise` |
| `event_bookings` (about 318,000) | 2 users, 3 events, 2 groups, 1 recruiting event each, 2 requests or jobs in flight; four slices | `NoDoubleBooking`, `TrackedWhileOnTheWay`, `RowsAreOfDepartures`, `MarkedListedAndOpen`, `StatisticsAddUp`, `LimitIsKept` |
| `accounts` (about 936,000) | 2 users of 1 device, 2 characters, 2 settings, 2 refresh tokens, 2 requests; three slices | `AccountsTypeOK`, `RevokedIsRejected`, `SessionHasItsRefreshKey`, `SessionTokenIsUsable`, `NothingWithoutAnAccount`, `RegistrationSettles`, `UnlockedOnceAndEarned` |
| `messages` (about 1,646,000) | 2 members, 3 connections, 2 messages; 2 users, 2 tokens, 3 device rows, 1 broadcast, 1 domain event; 4 rows in pages of 2; four slices | `LiveIffRegistered`, `NoEntryOutlivesItsSocket`, `ListenersAreRegistered`, `NothingMissed`, `OneTokenPerUser`, `RegistrationLasts`, `PushedHaveTheNotice`, `OneAudience`, `ReadTimeStays`, `WalkIsExact` |
| `status_backward`, `end_unannounced`, `late_job`, `late_arrival`, `group_two_owned` | see below | one documented statement each, violated |

The three runs of one event ask three questions. *Does the design work when nothing goes wrong?* - `serial_prompt`: the chain check, start, end is never broken, each step announces what it did, and every event settles. *Is it safe when things fail?* - `serial_faults`: whatever fails or is late, an event starts only with a quorum, its attendance is complete and final, and all steps are those of `EventPromise`. *What survives overlapping requests?* - `concurrent`: the creator, the results, the identity of rows and the sanity of the registry do; what does not is in the next section.

The other four ask of their components what holds whatever overlaps, and what holds unless something does:

- `group_requests`: the owner of a group is always a member (`OwnerIsMember`), though stale copies bring back kicked members and earlier roles. While requests do not overlap, what the rows and codes go through is what `GroupPromise` allows: one owner, no member beyond the limit or without an invitation, no group founded by an owner of another. A code lets in one user, or as many as were in flight. Whoever left takes part in no event of the group that is still to end.
- `event_bookings`: a tracking row is of somebody who departed and there is one of each, whatever overlaps; that the rows are *exactly* those on the way, and that nobody is booked twice, needs one activity at a time. A creator who moves an event may book himself twice, since the new time is not checked. A group has no more recruiting events than the limit, and where creations or saves of earlier copies overlap (a check or an edit that brings a deleted event back among them) at most one more for each further request or job in flight. Days marked in the calendar are those whose list is not empty, what is listed can be opened, and statistics add up.
- `accounts`: what is revoked stays refused although the black list's life is computed a round trip earlier; a session can be refreshed with its token; a registration that was refused leaves nothing; the handlers of one that was not make it whole unless the process ends, and no key refuses a handler's row for a user who asked for nothing in between; a character is unlocked once.
- `messages`: a stream is pushed to exactly while it is registered; an entry goes with its socket and a listener is registered, apart from the users for whom joins or closes crossed; nothing saved is missed after a catch-up while sends do not overlap; a token is in one row, and a user has one token unless two of his registrations overlapped; a registration lasts until something undoes it; both handlers of an event tell the same people; a walk through pages gives each row once.

Where a property names an exception (`~overlapped`, `~disturbed`, `Members \ late`, `revived`, `raced`, `collided`, `doubled`, `shot`), the exception is a history variable that the step with the hazard sets, and the behaviour behind it is in the model: without the exception the run fails. These are known weaknesses of the code, stated as the boundary of what holds. One exception lies outside the slices: leaving is explored with events one request at a time (`LeaverIsWithdrawn`).

Why the bounds are enough. *One event*: three users are a creator and two others: enough for a quorum with one to spare, for one who leaves and one who stays. Four rows let a user leave and join again. Two check times allow a reschedule in both directions and a clock of six ticks reaches the end of the later one, with room for jobs that are late. Two slots are the smallest number that interleaves; every hazard above needs two. `concurrent` uses two users and one schedule to stay within minutes; without faults it also passes with `MaxRows = 3` (728,000 states), and `serial_faults` with `MaxFaults = 2` (366,000). One fault at any of the points where it can strike is what a test would have to inject; the theorems cover any number.

*Groups*: a group of two is full after one join, so that the limit, the last member and a transfer all occur with three users; a code is valid at the instant it is made and expires with the first tick (`Lifetime = 0`); a second group serves the rule of one owned group and a second code its uniqueness. *Bookings*: `CheckTimes` holds two schedules that overlap (1, 3) and two of which one ends when the other begins tracking (1, 4); one recruiting event fills a group. The slice `crowded` is about the limit: with one recruiting event allowed and two slots `LimitIsKept` permits two where activities overlap, the third event is there to exceed it, and creations, edits, deletions, checks and starts of one group overlap freely. The other slices use two of the three events. The theorem covers any number of events, slots and any limit. *Views*: a day of three ticks that is one ahead of UTC and a month of two days, so that events fall before, on and after both midnights. *Accounts*: two lives of two seconds and a clock of four (two when requests overlap) let a token expire before, with and after its black list entry; one device for two users makes the second registration a duplicate; one character asks for one message and the default for nothing. Users are not symmetric here, the settled one has a slice of his own. *Messages*: three connections are an old one, a new one and a third that crosses both; two messages are one missed and one seen. In the slices of `Notices` `Concurrent = 2` calls are in flight at once: a push and a registration, or a broadcast and the registration of somebody who has just joined; one user may be listed twice, in a cancellation. A page of two in a table of four gives a full page, a last page and an empty one.

Symmetry: model values that no definition orders or chooses are permuted (`CHOOSE` picks model values only from devices and characters, which are not permuted). In `MCMessages` the modules share no variable, so that one set may stand for users and members, one for tokens and messages, and one for rows and connections.

Fairness (`FairSpec`, for `EventSettles`): a request that has begun goes on and a handler that was called runs (weak fairness: both are promises the event loop resolves); each job is delivered in the end and the clock moves (strong fairness). Strong is needed because the model's clock waits for requests (`Prompt`) and a job waits for one of the finitely many slots, while real ones depend on neither. `Prompt` is the assumption that the five minutes between check and start are long compared with a request; `late_job` is the same run without it. The other components promise nothing that must eventually happen: a handler that failed is not run again, a stream that was lost is the client's to reopen, and a session ends by its key's expiry. They are specified without fairness, and what they owe when their handlers are done is stated as safety (`RegistrationSettles`, `TrackedWhileOnTheWay`, `NothingMissed`).

Deadlock is not checked: the clocks, rows and tokens of an instance run out, and the program is allowed to be idle.

Each property has a mutant in `PROJECT.json`: a plausible bug that makes the run fail when it replaces the definition it stands before, such as `CanJoinTwice` for `CanJoin`, `IsValidThoughUsed` for `IsValid`, `RemainingLifeTooShort` for `RemainingLife` or `DropsNewest` for `DropsOldest`.

## What the runs found

The five runs that expect a violation each check one sentence of the documentation.

1. **`status_backward`**: `docs/features/event/SPEC.md:5` has the status go from recruiting to in progress to ended. A join reads the event; the participant check finds one participant and commits `CANCELLED`; the join saves its copy, and the event is `RECRUITING` again, unchecked, without a job.
2. **`end_unannounced`**: the comment of `handleEventEnd` says the end is pushed by a handler of `EventEndedEvent`. While a departure is in flight its instance is marked; the end adds its event to an unmarked instance with the same id, its save dispatches the departure's event, and `EventEnded` is lost. Nobody is notified, and the tracking rows stay.
3. **`late_job`**: the transitions are automatic (`SPEC.md:5`). The check is queued before the event is saved; a save that outlasts the delay lets the job find no event, and the event stays in `RECRUITING` for good. A check delivered five minutes late has the same end: the start job is refused because its time has passed, and the handler only logs it.
4. **`late_arrival`**: arrivals count from the start of tracking to the time of the event (`SPEC.md:7`). No code compares an arrival with the event's time; until the end job runs it is recorded as `ARRIVED`.
5. **`group_two_owned`**: one user owns at most one group (`docs/features/group/SPEC.md:7`). Creating a group asks `existsByOwnerId`; `transfer-ownership.usecase.ts:34` does not ask it of the new owner.

## Where documents and code differ

These need no run, the code being plain about them; the models follow the code.

- `docs/features/event/SPEC.md:37` and `:150` say that three jobs are scheduled at creation; the code schedules the check, and each handler the next job.
- `docs/features/event/SPEC.md:31`, `:59` and `:90` ask that who creates or joins an event is a member of the group; neither use case looks at the group's members. Kicking a member does not withdraw him from events, leaving does.
- `update-event.usecase.ts:62` gives an event a new time without asking for a conflict of its creator or its participants.
- Deleting a group does not look at events in progress.
- Leaving withdraws the participations before the copy refuses the owner or somebody who is not a member: the refusal comes too late for the rows.
- `docs/features/short-talk/SPEC.md:9` and `:59` have a reconnect end the old stream; `complete()` on its Subject does not set `closed` in `short-talk.controller.ts:166`, so its heartbeat goes on until the socket closes.
- The comment at `device-token.ts:24` says a user may have several tokens; the code and `docs/features/push-notification/SPEC.md:9` say one. No unique key says so.
- A registration grants all characters, also the one whose hint in `prisma/character-seed.ts` says it cannot be unlocked. What is left to unlock are characters whose grant was lost with the process.
- `refreshAccessToken`, `invalidateToken` and `UserRefreshTokenGuard` are used by no endpoint.
- The detail of a group and its statistics are shown to whoever asks.
- `retry.util.ts` is used by nothing, and `event/infra/services/event-queue.service.ts` repeats `QueueEventSchedulingAdapter` without being injected.
- `OneParticipation` holds only while requests do not overlap, there being no unique key on event and user.

## Proofs

Eight modules hold proofs, for every value of the constants: any users, rows, tokens and characters, any number of requests in flight, any clock.

| Theorem | States |
|---|---|
| `EventLifecycle_proofs!TypeCorrect` | `Spec => []TypeOK` |
| `CreatorAlwaysStays` | `Spec => []CreatorStays` |
| `EndedAlwaysHasResults` | `Spec => []EndedHasResults` |
| `KeysAlwaysIdentify` | `Spec => []KeysIdentifyRows` |
| `ResultsStayFinal` | `Spec => ResultsAreFinal` |
| `MarkedAlwaysHasEvents` | `Spec => []MarkedHasEvents` |
| `EventSerial_proofs!NobodyTakesPartTwice` | `Spec /\ []NoOverlap => []OneParticipation` |
| `EventsStartWithQuorum` | `Spec /\ []NoOverlap => []StartedWithQuorum` |
| `AttendanceIsComplete` | `Spec /\ []NoOverlap => []AttendanceComplete` |
| `ImplementsThePromise` | `Spec /\ []NoOverlap => KeepsPromise` (the refinement of `EventPromise`) |
| `ChangesAlwaysAnnounced` | `Spec /\ []NoOverlap => ChangesAreAnnounced`, if no transaction fails |
| `EndsAreAnnounced` | `Spec /\ []NoOverlap => EndIsAnnounced`, if no transaction fails: what `end_unannounced` violates needs the overlap |
| `FailuresHideOneChange` | `Spec /\ []NoOverlap => OneChangeHidden`: with any number of failed transactions a change goes unannounced only with the commit that takes a failed request's instance out of the registry |
| `StatusOnlyMovesForward` | `Spec /\ []NoOverlap => StatusMovesForward`: what `status_backward` violates needs the overlap |
| `TheChainHolds` | `Spec /\ []NoOverlap => []ChainUnbroken`, if jobs are on time and no more than acknowledgements are lost |
| `Group_proofs!GroupTypeCorrect`, `OwnerStaysMember` | types; `Spec => []OwnerIsMember` |
| `OneOwnerAlone`, `CodeIsUsedOnce`, `LeaverLeavesNothing` | `Spec => []OneOwnerRow`, `[]CodeUsedOnce`, `LeaverIsWithdrawn` |
| `GroupsKeepThePromise` | `Spec => KeepsGroupPromise` (the refinement of `GroupPromise` until requests overlap) |
| `GroupsKeepTheirSize` | `Spec => []GroupsFit`: until requests overlap a group has one to `MaxMembers` members |
| `SecondGroupsAreHandedOver` | `Spec => SecondGroupIsHandedOver`: until requests overlap a user comes to own two groups by a transfer only, as in `group_two_owned` |
| `EventBooking_proofs!BookingTypeCorrect`, `RowsStayOfDepartures` | types; `Spec => []RowsAreOfDepartures` |
| `NobodyIsBookedTwice`, `DeparturesAreTracked` | `Spec => []NoDoubleBooking`, `[]TrackedWhileOnTheWay` |
| `LimitsAreKept` | `Spec => []LimitIsKept`: no group has more than `MaxRecruiting` recruiting events, or, once activities overlapped, more than `Cardinality(Slots) - 1` above it |
| `ViewsShowTheEvents` | `ViewsSpec => Spec`: `Views` implements `EventBooking` |
| `WhatIsListedOpens`, `AttendanceIsCountedOnce` | `ViewsSpec => []MarkedListedAndOpen`, `[]StatisticsAddUp` |
| `RedisJwt_proofs!KeysAreWellFormed`, `RevokedStaysRejected`, `SessionsCanBeRefreshed`, `SessionTokensAreUsable` | types; `Spec => []RevokedIsRejected`, `[]SessionHasItsRefreshKey`, `[]SessionTokenIsUsable` |
| `Accounts_proofs!AccountsAreWellFormed` | `AccountsSpec => []AccountsTypeOK` |
| `SessionsSurviveRestarts` | the three properties of the sessions, under `AccountsSpec`, restarts included |
| `AccountsComeFirst` | `AccountsSpec => []NothingWithoutAnAccount` |
| `RegistrationsSettle` | `AccountsSpec => []RegistrationSettles` |
| `UnlocksHappenOnce` | `AccountsSpec => []UnlockedOnceAndEarned` |
| `ShortTalk_proofs!StreamsAreTheRegistered`, `EntriesEndWithSockets`, `ListenersStayRegistered` | `TalkSpec => []LiveIffRegistered`, `[]NoEntryOutlivesItsSocket`, `[]ListenersAreRegistered` |
| `TalkTypesHold`, `CaughtUpMissNothing` | types; `TalkSpec => []NothingMissed` |
| `Notices_proofs!NoticesAreTyped` | `NoticesSpec => []NoticesTypeOK`: types, and the two unique keys of `device_tokens` |
| `HandlersAgreeOnTheAudience`, `PushesHaveNotices`, `ReadTimesStay` | `NoticesSpec => []OneAudience`, `[]PushedHaveTheNotice`, `ReadTimeStays` |
| `UsersHaveOneToken`, `RegistrationsLast` | `NoticesSpec => []OneTokenPerUser`, `[]RegistrationLasts` |
| `WalksAreExact` | `PageSpec => []WalkIsExact` |

They rest on the named assumptions of the modules, all of which TLC evaluates in the runs: that `None` (`NoConnection`) is no row, token, position or view, that limits, lives, pages, days and clocks are numbers, that the creator is a user, the instance names differ, the driver is known and the two scheduling events are observed, that broadcasts are not domain events, that there is a character (the code throws without a default one) and that a condition asks for a count, and that `Group` and `EventBooking` have finitely many slots, whose number a property counts. Nothing else is assumed of the sets: `Users` and the slots of the other modules may be infinite.

The theorems of `EventSerial_proofs` have hypotheses besides, which the serial runs instantiate:

- `[]NoOverlap`: at most one request or job is in flight at a time, however many slots there are. The runs have one slot, so that every behaviour they explore satisfies it; `concurrent` and `status_backward` are what happens without it.
- `TheChainHolds` assumes `Prompt` (the clock waits for what is due) and `Faults \subseteq {"ack"}`, `ChangesAlwaysAnnounced` that `"save" \notin Faults`. `serial_prompt` has `Prompt` and no faults. The theorems go further than the run: acknowledgements may be lost, both drivers are covered, and the announcements hold with crashes and any delay. With a crash, BullMQ may lose the job that was running.
- `FailuresHideOneChange` and the announcements assume that the ends of an event are among the domain events observed. The former assumes nothing of the faults: a failed save leaves its instance in the registry, and the next commit dispatches that one in place of its own.

**EventLifecycle.** `TypeOK` is inductive; its proof has one lemma for each group of actions. For the others, one lemma (`Shape`) first classifies every step by what it does to the database and the copies: it waits, reads a copy, applies a method to a copy, saves a copy, deletes the row, or withdraws a user. The invariants are then proved against these shapes, not against some thirty actions.

- `CreatorStays` and `EndedHasResults` are proved together of every copy (`GoodCopies`), because a save puts a copy into the database and a read makes a copy of the database: neither half is inductive alone. Leaving a group writes without a copy, so the strengthening (`CopyInv`) adds `SparesCreator`: a pending withdrawal is never the creator's.
- `KeysIdentifyRows` needs that ids not yet given out are above all those in use (`< nextRow`, `< nextRun`), for each copy and for the saved row; the strengthening is `KeyInv`. `ResultsAreFinal` follows from it: a save replaces a stored result only by one with the same key, which is the same result.
- `MarkedHasEvents` follows from what a step may do to the registry (`RegistryStep`).

**One request at a time.** `SerialInv` says of the copy in flight what its request makes of the event that is saved *now* (`Derived`, one case for each kind of request and call): nothing has been saved since it was read. Then the guards the request checked on its copy still hold of the row, and a save is a step of the aggregate. `Sound` is what the row and every copy about to be saved satisfy: finitely many participants, one for each user, everybody preparing until the start, two of them after the check, the results of one `end()` at the end. `StartComesAfterCheck` keeps a start job from running before the list is closed.

- The refinement classifies each step by what it does to the row (`DbStep`) and shows that the mapped phase, standing and verdict make the step of `EventPromise` of that name, or none.
- `AnnounceInv` is `Over \/ Stuck \/ Clear`. *Clear*: the registry holds nothing of an earlier request, and a job about to save a change of status has its announcement there. The other two are the states in which an announcement can never be due again although the registry is not clear: the event is gone, or (*Stuck*, with BullMQ only) its check is lost, so that a deletion throws and leaves its instance marked, but no job will run that changes the status.
- `Fresh` is what remains of this when transactions fail: an instance that has domain events is the marked one unless a failed one is, and a job about to save bears its announcement. A commit then hands over its own events, or those of the failed instance, and clears the registry either way.
- `StatusOnlyMovesForward` reads off `SerialInv` that a saved copy has the status of the row it overwrites or the one the running job gave it.
- `ChainInv` says when each job may be there and for which instant (`JobsOnTime`, `JobsFit`), what a request about to move the check relies on (`Relies`), and that a handler on its way schedules its job for an instant that is still to come (`EventsTimely`).

**Group.** `GroupInv` is `TypeOK`, `OwnerIsMember` and `OpsFine`: a copy in flight is owned as the rows are, and a request that is to save has one. A save keeps all members of its copy and writes the owner with them, so a stale copy brings its own owner along. One lemma for each method of the aggregate, then one for each action. `BaseInv` adds that rows differ in users and ids and that at most one request is in flight until something overlaps (`Alone`). On it rest three more: `OwnersSole` (every member row is one that the copy writes or deletes, so no second owner row stays behind), `CodesInv` (a join in flight counts as one more that its code may let in; admitted and in flight together are never more than the slots) and `LeaverInv` (what the policy saw is still so at the withdrawal, and what the withdrawal did is still so at the save).

For the refinement, `SerialInv` says until something overlaps that a copy in flight is its row changed by what the request is about (`FromRow`), with the guard that was asked before (`Loses` for who goes), and that every row fits its limit (`RowsFit`). A lemma for each method of the aggregate gives the standing it makes (`CreateParts`, `AddParts`, `RemoveParts`, `TransferParts`), where `OwnersSole` sees to it that each user has one role; then `SavePromised`, `JoinPromised`, `InvitePromised` and `DeletePromised` name the step of `GroupPromise` that each commit is.

**EventBooking.** Requests and jobs alike hold a copy that may be stale when it is saved. A row comes from work that the save of a departure started some awaits ago; meanwhile the event may be deleted, which takes the rows and not the work, and a stale save may bring it back. `BookingInv` therefore says of the work what the property says of the rows (`WorkIsOfDepartures`), that rows are of events that are there (`RowsAreOfEvents`), and that the id a creation holds is free (`CreationsAreFresh`). What holds only while nothing is disturbed rests on `AloneInv`: one activity at most is in flight, and its copy differs from the row by what the request or job is about (`Follows`, with `MovesOn` for the status; `CopiesFollow` says it of all slots); in particular a request about to add its user still finds the schedules free. From there `Booked` (two events of a user clash only if one was moved by its creator), `TrackedInv` (a departure has its row or a piece of work that will make it; what is over has its clean-up on the way) and `Limited` (while a creation is in flight its group is below the limit).

The limit under overlap counts more than the recruiting events: `Crowd(g)` are those and the ones that what is in flight may make recruiting with its save (`Claims`): creations, requests with an old copy, and a check that passed, whose save may find the event deleted. What is not a creation claims an event that is recruiting when it reads, so it adds nothing; a start or an end, whose copy is no longer recruiting, claims none; a creation begins where fewer than `MaxRecruiting` are recruiting while each slot, its own included, claims one event at most (`CreationsCrowd`, `ClaimsAreFew`); a save moves an event from the claimed to the recruiting (`SavesCrowd`).

**Views.** `ViewInv` adds that participants are finitely many and that results are of events that are there: a deletion takes both, or an id could be counted that no event explains. The calendar is integer division; the proof that a day is marked exactly when its list is not empty comes down to an event's time lying between the start and the end of exactly one day. For the statistics, `CountedApart` shows that disjoint parts of the results, one for each group, add up to their union, by a bijection.

**RedisJwt.** `RevokedIsRejected` rests on `RevokedIsListed` (the black list key outlives the token) and `LifeIsEnough` (the life a request carries is not shorter than what is left). `SessionHasItsRefreshKey` rests on refresh tokens being handed out once: `KeysAreHeld`, `OpsAreHeld`, `OpsSignForTheirUser`, `LoginsAreNew`, `NamedSessionsEnd`. `SessionTokenIsUsable` rests on `UsableInv`: a token signed once is carried by one request until it is first stored, and nothing else has it before (`CarriedOnce`), so that what a write revokes is never what another has just put into a session.

**Accounts** extends these theorems over restarts: a step of `AccountsNext` is a step of the sessions, leaves them alone, or empties the requests in flight, and the invariants of `RedisJwt_proofs` survive each. Above that, `WholeInv` collects what is in flight: every request and every handler belongs to an account and its next row is one of those it has left (`TasksOK`, `AllWorkOK`), a user has one save at a time (`SavesAreAlone`) and one grant (`OneGrant`), and rows are of accounts (`RowsAreKnown`, `SessionsAreKnown`). `CoverInv` says that until the process ends what a registration still lacks is in the hands of a pending handler, whence `RegistrationSettles` when none is left. `UnlockInv` says that an unlock on its way is earned and not yet owned, and that who wears something owns it.

**ShortTalk.** `TalkInv` is the types of the connections, the three properties of the registry, and that entries and listeners belong to whoever opened the connection and a connection that is joining has neither entry nor handler. Messages do not matter to it, so every step about messages is one stutter lemma. `NothingMissed` rests on `SeenInv`: while no two sends overlap, times number the messages in the order they are saved (`TimesNumber`), the one on its way is the newest (`NewestOnItsWay`), and a member has seen everything published up to the mark, or up to the last message seen once caught up (`SeenUpToMark`, `SeenUpToLast`).

**Notices.** `NoticeInv` is the audience: rows are told apart by user, thing and number (`RowsDiffer`), a domain event happens once and each of its handlers carries the same people (`CallsTellTheAudience`), and whoever a broadcast's push still means to reach has the notice or joined since (`CallsReach`). `DeviceInv` is the tokens: a registration about to save takes the user's row (`SavesTheRow`, `IdsAreTheirs`), and a deletion after a failure takes no token that counts as kept but one that was registered while it was on its way (`FailuresAreOld`). Rows that stay after a deletion are given by rank (`Staying`), and one lemma (`StayingIs`) says what that is: the rows that are meant, once each, in their order.

**Paging.** `PageInv` says that what a walk has given is in order and ends at the cursor, and that a row there was at the start has been given or comes after the cursor. `SortedIs` is the lemma about sorting by rank.

The invariants were checked by TLC on instances of the runs before they were proved. Definitions are written so that the provers can unfold them: ranks instead of the folds behind `SelectSeq` and `SetToSortSeq`. Where a proof needs the greatest element of a finite set, it gets it from the well-founded order of subsets (`WFMin`), which has no operator parameter.

Only model-checked:

- `EventSettles`: liveness under fairness is beyond the prover;
- the five expected violations.

## Not modelled

- `app-version`, `health`, `prisma`, `firebase`, `profanity`, `logger`: wrappers around services and reads of single rows, with no state machine of their own.
- Guards that compare a request with configuration (API key, attestation, the Cloud Tasks header, local only). Those that ask for a session or an account are guards of the actions.
- Validation and formats: titles, descriptions, coordinates and distances, nicknames and other fields of a profile, the text of codes and notices, the encoding of cursors. Heartbeats and the masking of messages.
- `Event.cancel()`, `retry.util.ts` and `event-queue.service.ts`, which nothing calls; the test push of a developer; `clearHandlers` and `clearMarkedAggregates`, which serve tests.
- The limit of three attempts of the queue (out of reach with one or two faults) and the rule of Cloud Tasks about names of tasks deleted lately.
- The features of `core/jwt` switched off: the modules have refresh tokens and the black list on, as by default.
- Restarts in `Group`: a request between two awaits that ends with the process is one whose save fails.

## What is left

The serial theorems of one event and the refinement of `GroupPromise` are about requests that never overlap. Which of them survive when only requests of certain kinds overlap (two that do not touch the same rows, say) is open, and so is a promise that holds in spite of all overlaps. `EventSettles` has no proof.

## Running it

```
tlc -workers 2 -config EventSerialPrompt.cfg MCEventLifecycle
tlc -workers 2 -config GroupRequests.cfg     MCGroup
tlc -workers 2 -config EventBookings.cfg     MCEventBooking
tlc -workers 2 -config Accounts.cfg          MCAccounts
tlc -workers 2 -config Messages.cfg          MCMessages
tlapm EventLifecycle_proofs.tla
```

and likewise for the other configurations of `MCEventLifecycle` (`Event*.cfg`) and of `MCGroup` (`GroupTwoOwned.cfg`), and the other `*_proofs` modules. `serial_prompt`, `serial_faults` and `group_requests` take 10 to 20 seconds, `concurrent` 20 to 40, `accounts` about one minute, `event_bookings` about two, `messages` two to four, the violations under 10 seconds each. `EventSerial_proofs` takes about four minutes, the other proof modules two or less.
