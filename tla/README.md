# A formal model of the Rep directory service

TLA+ specifications of `admin-rep-directory-poc`, the service that keeps the
Reps (agents, brokers and their hierarchy) of several tenants: the HTTP write
model over PostgreSQL, the transactional outbox that carries its domain events
to NATS, and the paged directory read from the same tables. TLC checks small
instances of every module; TLAPS proves, for every size of the system, each
safety and action property those runs check, that a save taken statement by
statement is one step, and that requests which do not overlap keep to the
abstract lifecycle of a Rep.

Paths below are relative to the repository root; `src/...` there is the
application code.

## 1. Inventory

| Component | Code | State | Operations |
| --- | --- | --- | --- |
| Rep aggregate, value objects | `src/domain/entities/rep.entity.ts`, `src/domain/value-objects/` | status, personal and business info, platform access, upline, Keycloak sub, pending domain events | `create`, `approve`, `suspend`, `softDelete`, `restore`, `update*`, `linkKeycloakAccount` |
| Command handlers | `src/application/commands/` | the entity in the memory of one request | eight handlers: find, change, save |
| Repositories | `src/adapters/driven/prisma/*.repository.ts` | tables `reps`, `rep_platform_access`, `outbox_events` | `findById` (two SELECTs), `save` (upsert, replace access, write events) |
| Tenant context, connections | `src/infrastructure/tenant`, `prisma.service.ts`, migration `..._add_tenant_id_rls` | tenant of the running request; `app.current_tenant_id` of a transaction; the pool's connections | `withTenantTransaction` |
| HTTP layer | `src/adapters/driving/http` | none | routes, tenant middleware, error mapping |
| Outbox relay | `src/infrastructure/outbox/outbox-relay.service.ts` | `publishedAt`, `retryCount` of the rows; per pass its tenant and the rest of its batch | timer, pass, publish, mark, count |
| NATS publisher | `src/adapters/driven/nats` | connection, client buffer, socket | `connect`, `publish` |
| Read side | `src/application/queries`, `rep-read.repository.ts` | none of its own; the client's place in the directory | directory page, search, by id, by Keycloak sub |
| Group aggregate | `src/domain/entities/group.entity.ts` | status | nothing in the service uses it |
| Everything else | DTOs, module wiring, empty stubs, tables without code, CI | | |

**How they interact.** A request enters with the tenant of its
`x-tenant-id` header. Its handler loads a Rep in one transaction, changes the
entity in memory, and saves the whole row with its events in a second one.
The relay, driven by `setInterval`, reads unpublished events per tenant, hands
each to the NATS client, and marks or counts it in a further transaction.
Handlers, queries and relay share nothing but the database and the one pool of
connections to it.

**What is hard about it.**

* *Concurrency.* Nothing connects the load of a Rep with its save: no version,
  no `SELECT ... FOR UPDATE`. Every save overwrites the whole row. `findById`
  itself is two statements under READ COMMITTED. The upline of a new Rep is
  checked in another transaction than its insert. A save takes its locks one
  after another: its row, two unique entries, its upline's key. Relay
  passes overlap when one takes longer than the interval. A directory page and
  its total are two statements, and two pages two transactions.
* *Failure.* A commit whose acknowledgement is lost, an answer that never
  arrives, a process that dies between publish and mark, an update of the
  relay that fails and ends the pass, a NATS connection that breaks with
  messages on the socket and others still in the client's buffer.
* *Ordering.* Consumers rebuild a Rep from its events; failed events are
  retried behind later ones; `createdAt` is taken before the commit, in
  milliseconds. Reps of one name have no defined order in the directory.
* *Limits.* `MAX_RETRIES`, the batch size, the list of known tenants, the
  connections of the pool.

**What makes each part correct.** *Directory:* unique keys stay unique, the
hierarchy stays a forest inside one tenant, a tenant never touches another's
Reps, the identity of a Rep never changes, the status moves only as the entity
allows, a soft delete lasts, the outbox tells all that its events speak of and
agrees with the answers given. *Saves:* statement by statement they are still one step to everybody
else, and nobody waits for ever. *Relay:* nothing is marked that was not sent,
duplicates and reorderings only where a failure or an overlap explains them,
every event is eventually settled. *Read side:* a page and its total agree, a
walk over the pages meets every Rep once, or both are off by no more than what
was saved meanwhile.

`PROJECT.json` lists the hazards, each with its line and the properties aimed
at it.

## 2. Modules

| Module | Models | Needs |
| --- | --- | --- |
| `RepEntity` | the Rep record, one operator per entity method, `Can...` for its guard | - |
| `RepLifecycle` | **abstract**: each Rep moves by one entity method at a time, and each move is told by one event | `RepEntity` |
| `RepDirectory` | the eight handlers, overlapping, over the tables; refines `RepLifecycle` when requests do not overlap | `RepEntity`, `RepLifecycle` |
| `SaveTx` | the saves of `RepDirectory` statement by statement: locks, waits, deadlocks, the pool; refines `RepDirectory` | `RepDirectory` |
| `OutboxRelay` | overlapping relay passes, the rows they mark, the NATS client | - |
| `RepRead` | a client's walk through the pages of the directory while others save | - |
| `MCRepDirectory`, `MCSaveTx`, `MCOutboxRelay`, `MCRepRead` | instances for TLC: seeded tables, event attributes, symmetry | |
| `RepDirectoryProofs` | `Control`, the inductive invariant of types and handlers; `TypeCorrect`, `IdentityTheorem` | `RepDirectory`, TLAPS |
| `RepDirectorySafetyProofs` | `Safe`, the inductive invariant of the safety properties, and a theorem for each | `RepDirectoryProofs` |
| `RepDirectoryOutcomeProofs` | answers against events, fresh saves against their events | `RepDirectorySafetyProofs` |
| `RepLifecycleProofs` | `Intents`, `Serial`; fresh saves as moves of the lifecycle, the refinement, settled deletions | `RepDirectoryOutcomeProofs` |
| `SaveTxProofs` | `TxInv`; locks, the refinement, deadlocks | `SaveTx`, `RepDirectorySafetyProofs` |
| `OutboxRelayProofs` | `RelayInv`; types, marks, order | `OutboxRelay`, TLAPS |
| `OutboxRelayCountProofs` | `CountInv`, `LimitInv`; how often an event can be sent, and its failures counted | `OutboxRelayProofs` |
| `RepReadProofs` | `AnswerInv`, `WalkInv`; a page against its total, a walk against the directory | `RepRead`, TLAPS |

### RepDirectory: state and actions against the code

* `reps` is the table `reps` with the `rep_platform_access` rows of each Rep.
  Of the columns those stay that some property tells apart: tenant, personal
  info, business info, access, status, upline, Keycloak sub. Personal and
  business info are records, as an update replaces the whole value object. Of
  these an event carries a part only (`PersonalPayload`: names and e-mail;
  `BusinessPayload`: the business name). What no event carries (phones, SSN,
  birth date; tax id, business e-mail) is one more field in the instances, so
  that an update may change it alone, or together with the rest. `saves`
  stands for `updatedAt`: set on every write, compared by no code. It lets a
  property say "nobody saved this Rep since it was loaded".
* `outbox[r]` holds the events of one `aggregateId` in the order their
  transactions commit. `by`, the request that wrote an event, is not a column;
  only properties read it.
* `relationships` is the table `party_relationships`. No code writes it, and no
  action does.
* `req[q]` is one HTTP request: `idle`, then `found` (the row has been read),
  `saving` (the entity has been changed) and `done`.

| Action | Code |
| --- | --- |
| `FindById` | the route, the tenant middleware and the first SELECT of `findById`; 404 when row-level security or absence hides the row |
| `Loaded` (in each handler's action) | the second SELECT: access rows as committed at that later moment, so a torn read is possible |
| `UpdatePersonalInfo` ... `LinkRepToGroup` | the rest of each handler up to `save`: the guard on the *loaded* entity, the change, the event |
| `CreateRep` | upline check and `Rep.create`, with an id from `randomUUID` |
| `HandlerThrows` | a guard or a value object throws: 500 |
| `Save` | `save` up to its commit: unique indexes, upsert, access rows and events in one step |
| `SaveConflicts` | P2002: 409 if it is the Keycloak index, else 500 |
| `SaveRelationship` | `PartyRelationshipRepository.save`, whose upsert is a TODO |
| `Fail` | the transaction does not commit |

A save is one action here because the upsert takes the row lock, holds it until
the commit, and readers only see committed rows; `SaveTx` takes it apart and
shows that this is right. The answer `"5xx"` merges a 500 and a lost answer: to
the client they are the same. A `Save` may therefore answer `"2xx"` or `"5xx"`.

A seeded table is any set of rows that satisfies the unique indexes and the
hierarchy (`SeedAssumption`): rows from before, in every status. They are how
ACTIVE and SUSPENDED Reps exist at all, since no handler calls `approve` or
`suspend`.

### OutboxRelay: state and actions against the code

* `createdAt[e]` is the millisecond of a row of `outbox_events`, 0 while there
  is none; `published` and `retries` are `publishedAt` and `retryCount`.
  `Write` is a handler's commit. A row may turn up after younger ones, or in the
  same millisecond, because `createdAt` is taken inside the transaction (Prisma
  computes `now()` per query). Saves of one Rep are serialised by its row lock
  (`Serialised`), so their `createdAt` does not go back; an event of
  `linkRepToGroup` (`Unlocked`) holds no such lock.
* `Batches` are the answers `findMany` may give: the oldest `BatchSize` pending
  rows of a tenant, in every order that `createdAt` leaves open.
* `pass[p]` is one invocation of `relay()`: `query` (findMany), `publish`,
  `mark` (the update of `publishedAt`), `count` (the catch block).
* `QueryFails`, `MarkFails`, `CountFails` are failing transactions. A failing
  update may have taken effect. Only `MarkFails` is caught by the loop; the
  other two end the pass.
* `PublishThrows` may happen in every state of the connection: the null check of
  `publish`, a closed client, a message the client cannot encode or finds too
  large. All of them end in the same catch block.
* `sent`, `conn`, `buffer`, `socket`, `delivered` are the NATS client, modelled
  from how the publisher uses it, as the at-most-once transport ADR-001 says it
  is. `publish` is accepted unless the client is closed. The client moves
  messages to its socket later (`Flush`), and the server reads them there
  (`Receive`). What is on the socket when the connection breaks is lost
  (`Disconnects`), what is in the buffer may be lost when the client has dialled
  again (`Reconnects`: kept or dropped), and is lost when it gives up or the
  process dies (`Closes`, `Crash`). No property is stated of the client by
  itself; it is there for the one about the relay's marks that fails (section 5).

### SaveTx: state and actions against the code

The variables of `RepDirectory` are what is committed. `tx[q]` is the
transaction in which request `q` saves: how far it has got, and the row version
it has written. `elsewhere` counts the connections queries and relay passes
hold.

| Action | Code |
| --- | --- |
| `Handles` | the handler up to `save`, as in `RepDirectory`, if a connection is free for its `findById` |
| `Begin` | `withTenantTransaction`: a connection, BEGIN, `set_config` |
| `LockRow` | the upsert has the row to itself; it waits for whoever writes the row or shares its key |
| `EnterEmail`, `EnterSub` | its entries in the unique indexes, in the order the migrations create them; each waits for a transaction that holds, or is giving up, the same key |
| `LockUpline` | the foreign-key check of a new Rep; it waits for whoever writes the upline |
| `Conflict` | P2002 against a committed row, once nobody is left who might still give the key up |
| `Commit` | the access rows, the events, the commit |
| `CommitRelationship` | `PartyRelationshipRepository.save`, which locks nothing |
| `Abort` | no connection in time, a failing statement, Prisma's timeout, the process dies |
| `DetectDeadlock` | PostgreSQL ends one transaction of a minimal cycle of waits |

The lock rules are PostgreSQL's, for the one statement `prisma.rep.upsert`
becomes (`INSERT ... ON CONFLICT (id) DO UPDATE`, with key columns among those
it sets); they are marked external in the map. `MaxInFlight` is 2 in this run,
as there are two requests.

### RepRead: state and actions against the code

* `table` is `reps` of one tenant, with the name and whether the row is
  SOFT_DELETED. `walk` is the client: it asks for page after page with one
  size, or none (`DefaultPageSize`), as long as the total says that there are
  more. `AskedSizes` are the sizes the DTO lets through; a larger one is a 400
  and begins no walk.
* `FindRows` is the `findMany` of `findDirectory`: any order of the listed Reps
  that is one by name (`Orderings`), cut by position. `FindTotal` is the
  `count`. `Promise.all` puts both on the one connection of the transaction,
  which serves them in turn; each sees what is committed when it runs.
* `Commit` is anybody's save: a new Rep, another name, a soft delete, a
  restore. `steady`, the Reps listed since the walk began and not saved since,
  is there for the properties only.

## 3. Runs

`tlc -config <cfg> <module>`; all constants are in the `.cfg`.

| Run | Config | Shows |
| --- | --- | --- |
| `directory_overlapping` | `RepDirectory.cfg` | the safety and action properties of the directory under three overlapping requests of any kind |
| `directory_one_at_a_time` | `RepDirectorySerial.cfg` | refinement: `RepDirectory` with one request at a time implements `RepLifecycle`, with lost answers and failures |
| `save_statements` | `SaveTx.cfg` | refinement and liveness: saves, statement by statement, implement `RepDirectory`; what their locks guarantee; which saves can deadlock; every request is answered |
| `relay_overlapping_passes` | `OutboxRelay.cfg` | the relay's safety with two passes, failing transactions, crashes, ties, a flapping connection |
| `relay_settles` | `OutboxRelayLive.cfg` | liveness: every event of a known tenant is published or given up on |
| `directory_reads` | `RepRead.cfg` | how far a page can be off its total, and a walk off the directory |
| `stale_restore`, `silent_write`, `missing_relationship`, `too_many_retries`, `lost_in_client`, `directory_ties` | | counterexamples to statements of the documentation, section 5 |

**Properties of the directory.** `Hierarchy`, `KeysStayUnique`,
`TenantIsolation`, `CreatedStaysPending`, `CreatedComesFirst` and
`OutcomeMatchesOutbox` are invariants; `IdentityIsPermanent`,
`FreshSaveIsTold`, `FreshStepsAreMoves` and `SettledDeletionLasts` say what one
step may do. `FreshSaveIsTold` is the precise form of what full-row saves still
guarantee: *if nobody saved the Rep since it was loaded*, the save moves what a
consumer knows of the Rep (names, e-mail, business name, status, sub) exactly as
its event says, and touches no other part of the row than the one the operation
is about, torn read or not. That the rest of that part (a phone, a tax id) goes
untold is no breach of it. `FreshStepsAreMoves` adds the lifecycle: such a save
is a move the *row* allows, not only the loaded entity, told by the one event of
that move. What overlapping requests break (section 5) is thus all due to saves
over a newer row. With one request in flight there are none, and
`ImplementsLifecycle` holds of whole behaviours.

`SettledDeletionLasts` is what overlap leaves of "the only valid path out of
SOFT_DELETED": a soft delete can be undone by requests that loaded the Rep
before it and are not through yet (`stale_restore`). Once there are none, it is
settled: whatever overlaps, stale saves and lost answers included, nothing but
the save of a `restore` brings the Rep back, or gets where it could.

**Properties of the saves.** `LocksHold`: what a transaction has written and
entered stays what it would write and enter now, whatever others commit, so its
commit needs no further look at the tables. `QuietSavesNeverDeadlock`: only
saves that create a Rep or move its e-mail or sub can be part of a deadlock;
status, access and business changes may wait but never in a circle.
`ImplementsDirectory` is `RepDirectory`'s `Spec`. `RequestsAreAnswered`: nobody
waits for ever for a row, a key, an upline or a connection.

**Properties of the directory's pages.** `AnswerFitsTotal`: the rows and the
total of one answer disagree by no more Reps than were saved between the two
statements. `WalkGoesWrongBySaves`: if no two listed Reps share a name, a walk
misses or repeats no more untouched Reps than were saved during it.

**Properties of the relay.** `PublishedWasSent`,
`DuplicatesNeedOverlapOrFault` (at most one send for each pass that overlaps,
and one more per failed update and per pass interrupted by a crash),
`RetriesNearLimit` (`retryCount` goes past `MAX_RETRIES` by no more than the
passes that overlap, less one), `OvertakesOnlyFailed` (an event of a save goes
out before one of an earlier millisecond of its Rep only if an attempt at that
one has failed; within a millisecond the code fixes no order, so none is
claimed) and `EverythingSettles`.

**Bounds, and why they are enough.**

* Three requests and two ids: an interference needs a victim, an interferer,
  and one more request to set the scene or observe it; every lost update, torn
  read and double create shows up with two. Seeds supply every status, so no
  requests are spent on getting there.
* Two tenants, two e-mails, one sub: enough to collide and to differ. One value
  of personal info differs from another in the phone only, and the business
  infos in the tax id only, so that changes no event carries occur. The tables to
  begin with are empty, hold one Rep (pending, active or soft-deleted) without a
  sub, or two of which one is suspended and holds the sub. 978 thousand states
  overlapping, 592 thousand one at a time.
* Requests are symmetric. No action treats one differently.
* `Requests` are used once, so behaviours end: `CHECK_DEADLOCK FALSE` in the
  directory's configurations. The relay's keep deadlock checking on; its timer
  never stops.
* Saves: two requests over three ids, two of them seeded or one. Two
  transactions are enough to wait for each other, to meet at a row, an e-mail,
  a sub, and a row and its upline; deadlocks of more are what the theorem is
  for. Two connections, shared with queries and relay, are as few as leave two
  saves room to overlap.
* Relay: two saves of one Rep in one of two milliseconds (so both ties and
  order), two passes, two failing transactions, two crashes; `MaxRetries` 2 and
  batches of two instead of 5 and 50, so that both limits are met.
  `OutboxRelay.cfg` uses a view without `buffer`, `socket` and `delivered`: no
  step of the other variables reads them, and neither do that run's properties. Passes are
  symmetric.
* Directory pages: four ids, pages of one, of two and of the default, three saves
  anywhere. Rows may have four names, be tied,
  soft-deleted or missing. `directory_ties` allows no save at all.
* Liveness of the relay: batches of one, two tenants and three events, one of
  them a link event; all fall into the same millisecond, so that every order of
  them is possible and a failing event can stand at the head of a full batch;
  the second tenant waits for the first; one pass at a time.

**Fairness** (`FairSpec`). `setInterval` keeps firing, so some pass is started
again and again: weak fairness of `Start`. Every promise a pass awaits is
settled sooner or later: weak fairness of its steps. No fairness is assumed of
writers, of NATS, of faults or crashes; those last two are finite in number
(`MaxDbFaults`, `MaxCrashes`). With endless failures of the query nothing could
be promised of this or any relay.

In `FairTxSpec` every promise a handler awaits is settled (weak fairness of the
handler's step after `findById` and of each statement that need not wait), and
the deadlock detector runs. Queries and relay passes give their connections
back. `Begin` is strongly fair: node-postgres hands free connections to those
who wait in the order they came, so a request that needs one is not passed over
for ever although others keep taking them. No aborts and no new requests are
assumed.

## 4. Proofs

`tlapm` checks the eight `...Proofs` modules without open obligations. They assume
the named assumptions only. For the directory: `NullAssumption` and
`NullIsApartAssumption` (null is not a value of the data types) and
`SeedAssumption` (the tables are in order when the service starts); nothing
about how many requests, Reps or tenants there are, nor that there are finitely
many. `SaveTx` adds `PoolAssumption`, which no proof uses. For the relay:
`RelayAssumption`, which says what an event's attributes are and that the events
and the passes are finitely many (the timer's overlapping passes are). For the
read side: `ReadAssumption`, with finitely many Reps (`Total` counts them). Only
`LifecycleTheorem`, which is about requests that do not overlap, assumes
`MaxInFlight = 1`, as its run does.

**Directory.** `TypeOK` is not inductive: that a save stores a Rep depends on
what its handler has in memory. `Control` adds, for every point a handler can stand at
(`Phase`), how its memory relates to the tables: an update holds a Rep of its
own tenant, below the upline the row has now; a create holds a new Rep whose
row is still empty; and no two creates hold the same id (`CreatesDiffer`).
Nothing is said of the other fields: they may be stale, and this is the point.
`MovesOne` reduces the preservation of `Control` to the one request a step
moves; there is one lemma per kind of step. `TypeCorrect` and
`IdentityTheorem` follow.

`Safe` adds the safety properties and one strengthening, `PendingCopies`:
whoever has loaded a created Rep has loaded a pending one. The parts need each
other. A created Rep stays pending because no in-flight copy says otherwise; a
new Rep starts that way because nothing was ever told of an empty row
(`TenantIsolation`); `RepCreated` comes first for the same reason. For the
hierarchy, a row that a create fills had no Rep below it, so a new cycle
through it would be an old cycle without it.

`Recorded` ties the outbox to the requests: an event names a request that is
done and has been answered 2xx or 5xx, no request wrote two, and a handler whose
operation is always told of holds its event until it saves. `FreshCopies` says
what a handler has in memory if nobody has saved the row since it was loaded:
the row itself at first, and then the row `Amended` by one entity method it
allows, with the event of that method. Both reads of a `findById` fall into the
time without a save, so a torn read is none; that is why the property can be
exact in spite of them. What consumers know follows the event because the
payloads are projections of what the method put in (`AmendedIsTold`).

**Lifecycle.** An `Amended` row is a move of `RepLifecycle`: the guard was
evaluated on the loaded entity, but a fresh copy differs from its row in nothing
the guard reads. `Intents` adds to `FreshCopies` what the two saves without a
loaded row are about to do (`Meant`): a create stores the Rep its event tells
of, a link tells of itself. So a fresh save maps to one move under the mapping
that forgets `saves` and who wrote an event; a create is one because the id is
unused; a link only tells; every other step of a handler leaves the mapped state
alone, a save whose answer is lost being a save like any other. That is
`FreshMovesTheorem`, for overlapping requests. For `MaxInFlight = 1`, `Serial`
is inductive: there is at most one request between its load and its answer, so
nobody saves what it has loaded. Every save is fresh then, and
`LifecycleTheorem` follows, for whole behaviours. `SettledDeletionTheorem` needs
no such assumption. A settled deletion is kept by every step: a save that is not
a `restore`'s writes the status of a copy that says SOFT_DELETED; a request that
loads the Rep loads that status; and of the methods only `restore` changes it.

**Saves.** `TxInv` is `Control` and `LocksHold`. The keys a transaction has
entered stay free: whoever wants one too has to wait, and whoever was giving one
up when it was entered is one this transaction has waited for. The refinement is by identity on the committed tables: a `Commit` is a `Save`
because of `LocksHold`, every statement before it is a stutter, and a deadlock is
a `Fail`. So each theorem of the directory holds of saves taken statement by
statement. For `QuietSavesNeverDeadlock`, take a quiet save in a minimal cycle.
It could only be waiting for its row, since its e-mail and sub are those of the
row it has locked, which by `KeysStayUnique` nobody else may hold; and then it
has locked nothing, nobody waits for it, and the others are a smaller cycle.

**Relay.** `RelayInv` says of each pass that its batch holds different, written
rows, and is `Complete`: an older event of the same Rep was tried or comes before
it in the batch. Whatever others do, rows, `sent` and `retries` only grow
(`Grows`), and no serialised event is written with an earlier time, so this
stays true; at the first publish of an event, it is at the head of a batch, so
nothing comes before it. For the duplicates, `CountInv` counts passes. Until an
event is published, each time it was sent is a pass that will mark it, a failed
transaction, or a pass a crash ended. From the first mark on no query returns
it, and only the passes that still hold it can send it, once each. `LimitInv`
counts likewise for the retries: from the count that reaches `MaxRetries` on, no
query returns the event, so no pass takes it up (`NobodyTakesUp`), and each pass
that counts once more drops it (`CounterDrops`). The first of these counts is
made by a pass that no longer holds the event, which leaves `Passes` less one.

**Read side.** `TypeOK` is inductive. `AnswerInv` adds that the saves counted
when the rows were read are not more than all. Each save changes what the total
counts by one Rep at most, and how many rows a page should have is no steeper.
For the walk, a Rep's place in the order is the number of listed Reps with a
smaller name, so without ties a page is exactly the Reps whose places it covers
(`RowsCover`). `Passed` are the untouched Reps whose place the pages read so far
have covered, `Seen` those the client has met. `WalkInv` bounds the Reps that
are one and not the other, plus the repetitions, by the saves. A save moves
every place by at most one, so it carries at most one untouched Rep across the
boundary, as places of untouched Reps differ. A page moves the boundary: the
Reps it brings that were seen ahead turn from wrong into repeated, one for one.
At the end everything still listed has been passed, which leaves missed and
repeated. `QuietWalkTheorem` is the case of no saves.

| Theorem | Property |
| --- | --- |
| `TypeCorrect` | `TypeOK` |
| `IdentityTheorem` | `IdentityIsPermanent` |
| `UniqueKeysTheorem` | `KeysStayUnique` |
| `HierarchyTheorem` | `Hierarchy` |
| `TenantTheorem` | `TenantIsolation` |
| `CreatedFirstTheorem` | `CreatedComesFirst` |
| `PendingTheorem` | `CreatedStaysPending` |
| `OutcomeTheorem` | `OutcomeMatchesOutbox` |
| `FreshSaveTheorem` | `FreshSaveIsTold` |
| `FreshMovesTheorem` | `FreshStepsAreMoves` |
| `LifecycleTheorem` (`MaxInFlight = 1`) | `ImplementsLifecycle` |
| `SettledDeletionTheorem` | `SettledDeletionLasts` |
| `LocksTheorem` | `LocksHold` |
| `SaveTxRefines` | `ImplementsDirectory` |
| `DeadlockTheorem` | `QuietSavesNeverDeadlock` |
| `RelayTypeCorrect` | `OutboxRelay`'s `TypeOK` |
| `PublishedWasSentTheorem` | `PublishedWasSent` |
| `OvertakingTheorem` | `OvertakesOnlyFailed` |
| `DuplicatesTheorem` | `DuplicatesNeedOverlapOrFault` |
| `RetriesTheorem` | `RetriesNearLimit` |
| `ReadTypeCorrect` | `RepRead`'s `TypeOK` |
| `AnswerTheorem` | `AnswerFitsTotal` |
| `WalkTheorem` | `WalkGoesWrongBySaves` |
| `QuietWalkTheorem` | a walk without ties and saves misses and repeats nothing |

Model-checked only: the two liveness properties, `EverythingSettles` and
`RequestsAreAnswered`. Their proofs need `ENABLED` of the fair actions and an
induction over how much is left to do, and neither is within the prover's reach.

## 5. Where code and documentation disagree

Each of the first six is one run whose counterexample TLC prints.

1. **A soft-deleted Rep comes back without `restore`** (`stale_restore`). An
   update that loaded the Rep before a soft delete and saves after it writes
   the old status back. `rep.entity.ts:184` calls `restore` the only valid path
   out of SOFT_DELETED.
2. **Access changes are silent** (`silent_write`). `updateAccessControl` raises
   no event; `README.md:177` says all writes do.
3. **A link is announced and not stored** (`missing_relationship`). The upsert
   in `party-relationship.repository.ts` is a TODO, the event is written.
4. **More than MAX_RETRIES attempts** (`too_many_retries`). Overlapping passes
   both count; `NATS_EVENT_CONTRACT.md:42` says up to 5.
5. **An event marked published can be lost** (`lost_in_client`). The relay
   marks a row once the client has accepted the message, without a flush, and
   never looks at it again. What is on the client's socket when the connection
   breaks is lost, and so may be what it buffers until it is connected again.
   `ADR-001-nats-event-contract.md:185` says that the outbox guarantees that
   events are not lost even if NATS is temporarily unavailable, on top of a
   transport that line 164 calls at-most-once.
6. **The directory does not list all Reps** (`directory_ties`). Its sort key is
   not unique and its pages are cut by position, so of two Reps of one name one
   may be on two pages and the other on none, with nobody saving anything.
   `rep.controller.ts:101`: "Lists all non-deleted Reps".
7. **`RepPersonalInfoUpdated` and phones.** `NATS_EVENT_CONTRACT.md:82` says that
   it does not fire for phone, fax and address changes, line 16 that it fires
   when a phone changes. The code raises it on every update of the personal
   info (`rep.entity.ts:199`), with names and e-mail only, so consumers may be
   told what they know already. `ChangePersonalInfo` of the lifecycle is what
   the code does. There is no run: the two lines contradict each other.

## 6. What is not modelled, and why

* `set_config(..., true)` and `AsyncLocalStorage`: that a transaction runs with
  the tenant of its request is taken from the platform. `TenantIsolation` then
  says what row-level security makes of it.
* Search, Rep detail and party identity: single SELECTs that change nothing.
  `getGroupsServicedByRep` always throws.
* The consumer of the events, which is not in the repository. `Told` says what
  one would make of an event. Its key for duplicates, `(eventType, aggregateId,
  occurredAt)`, has milliseconds, and two changes of a kind within one would look
  like a duplicate to it.
* `updateBio`, `setEliteBlue`, and the Group aggregate: nothing calls them.
* DTO validation, wiring, OpenAPI, stubs, the test double of Prisma, build files;
  tables without code.
* Several processes. Nothing in the directory's model depends on all requests
  being served by one, save the pool; the relay's passes are those of one
  process with one NATS connection.

## 7. Plan

Done: `RepEntity`, `RepLifecycle`, `RepDirectory`, `SaveTx`, `OutboxRelay` and
`RepRead`, with their proofs. In the order of what is at stake:

1. `OutboxDelivery`: the abstract promise "at least once, or given up, per
   Rep in order unless one failed"; `OutboxRelay` shown to implement it.
   Several relay processes.
2. `RepService`: directory and relay composed, with a consumer that rebuilds
   Reps from events, to ask when it agrees with the tables.
