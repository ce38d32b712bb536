# A verification of the Encounterium backend

The repository is the Go backend of a Dungeons & Dragons assistant: REST handlers over PostgreSQL,
MongoDB, Redis and S3, one family of WebSocket game sessions ("tables") held in memory, and a few calls to
other services (OAuth providers, a description service, Gemini). Every part is layered
`delivery` → `usecases` → `repository` under `internal/pkg/<part>`.

This directory holds TLA+ models of the parts whose correctness depends on interleaving, failure and
order, the TLC runs that check them on small instances, and TLAPS proofs of the invariants that matter
most for every value of the constants.

## Inventory

| part | state it keeps | operations | what is hard |
|---|---|---|---|
| **table** (`internal/pkg/table`) | per session: `encounterData`, `participants`, `playersNum`, `s.mu`; the manager's `sessions` map; the usecase's `sessionWatcher` timers | `CreateSession`, `AddNewConnection` (handler, then a reader goroutine), `run` (merge and broadcast), `refreshSession`, `stopTimer` → `RemoveSession` | four kinds of goroutine over one mutex, a timer that races with what re-arms it, panics (recovered and not), error paths that return with the mutex held, failed socket writes |
| **auth** (`internal/pkg/auth`, `middleware/auth`) | PostgreSQL `user`, `user_identity`; Redis sessions holding a snapshot of the user | `Login`, `Logout`, `CheckAuth`, `LinkIdentity`, `UnlinkIdentity`, `ListIdentities`, `LoginRequiredMiddleware` | each operation is several queries with no transaction around them; concurrent first logins, link against login, unlink against unlink; queries whose outcome is unknown |
| **encounter** | PostgreSQL `encounter_store` rows, soft-deleted | save, update, remove, get, list | permission check and query are two; only the queries that read look at `is_deleted`; a table that expires overwrites the row; pages of rows in no stated order |
| **merger** (`utils/merger`) | none | `Merge(data, patch)` | recursive rules on objects and arrays; which messages are rejected depends on the document |
| **LLM jobs** (`bestiary/usecases/llm.go`) | in-memory job map | `SubmitText`, `SubmitImage`, `GetJob`, `process` goroutine | the job a poller reads is the object the goroutine mutates; two services may fail or not answer |
| **bestiary** | MongoDB creatures, S3 images | lists, get, `AddGeneratedCreature` | two uploads and an insert without compensation; the client may choose the id, twenty-four zeros included, which is left out of the document; pages of a list that changes, sorted on keys that tie |
| **maps** | PostgreSQL `maps`, deleted for good | create, update, delete, get, list | permission check and query are two, and the row may be gone in between; a page and its total are two queries; the validator |
| **character**, **maptiles** | MongoDB | add, get, list; read-only tiles | the owner is looked at after the read |
| **OAuth clients, Gemini, action processor** | none | calls to other services | every failure must end the request, or the job, that made the call |
| **description** | none | a call over gRPC | pure I/O |
| **middleware, server, routers, logger, metrics, migrations** | none that decisions read | wiring | panic recovery is what makes a panic in a handler different from one in a goroutine |

How they meet: `server/app.go` builds each part and hands the encounter repository to the table usecase
(which reads the encounter when a table opens and overwrites it when the table expires); every route but
login and the read-only lists goes through `LoginRequiredMiddleware`, which trusts the Redis snapshot; a
WebSocket connection is an HTTP request of the table's route that never ends.

PROJECT.json lists each part with its status, and every hazard at its line with the property that would
catch it.

## Plan

| order | module | what it is | state |
|---|---|---|---|
| 1 | `TableSession` | one table: mutex, participants, merge loop, expiry timer | done |
| 2 | `TableContract` | what a table promises, with none of that machinery; `TableSession` implements it | done |
| 3 | `TableSessionProofs`, `TableContractProofs` | seats, what is stored, the single closer, and the refinement | done |
| 4 | `AuthIdentity`, `AuthIdentityProofs` | accounts, links and sessions over one query a step | done |
| | `AuthContract` | the same with one step a request; `AuthIdentity` implements it | done |
| 5 | `LLMJobs`, `LLMJobsProofs` | generation jobs and the requests that poll them | done |
| | `JobsContract` | jobs that are decided once and polls that look once; `LLMJobs` implements it | done |
| 6 | `Requests`, `Encounters`, `Maps`, `Creatures`, composed in `Library` | users' documents behind one pool of HTTP requests, and the tables opened on encounters | done |
| 7 | `Shelf` | what a store of users' documents promises; `Encounters` and `Maps` implement it | done |
| 8 | `LibraryProofs` | what is stored, what requests are told, and both refinements | done |
| 9 | `Lists`, `ListsProofs` | every list, read page by page while others write | done |
| 10 | `Merger` | `Merge(data, patch)` as a recursive operator, checked against its rules path by path | done |
| 11 | the gateways | what a login gets of its provider, and a job of Gemini and the action service, in `AuthIdentity` and `LLMJobs` | done |
| 12 | proofs | `TableSession`, `AuthIdentity` and `LLMJobs` implement their contracts | done |
| 13 | proofs | what the promises of `Shelf` and the lists mean for a request that reads while others write | next |

## Modules

### TableSession

A session is one mutex and five kinds of goroutine around it, so the module keeps a program counter for
each: `pc[c]` for a connection (first the HTTP handler `AddNewConnection`, then the reader goroutine it
spawned), `rpc` for `run`, `spc[k]` for one firing of the timer (`stopTimer` and the `RemoveSession` it
calls), `creator` for `CreateSession`.

| state | code |
|---|---|
| `mu` | `session.mu`: `"free"`, or the function that returned with it locked |
| `seat`, `playersNum`, `data` | `participants`, `playersNum`, `encounterData` (the set of messages merged, or `Nil`) |
| `rpc`, `inbox` | `run`, and the message it took from the unbuffered `broadcast` channel |
| `session`, `watcher`, `timer` | the entry of the manager's map, of `sessionWatcher`, and the `time.Timer` |
| `store` | the encounter's row in PostgreSQL |
| `conn`, `msg`, `doomed`, `sent` | the sockets and what each reader has in hand |
| `snap`, `target`, `due` | the local variables of `stopTimer` and of the `range` in `RemoveSession` |
| `crashed` | an unrecovered panic |

A critical section of `s.mu` is one step; two sections are two steps, with anything in between. That is why
`CheckUser` and `AddParticipant` are two actions, and the seat and its announcement another two. Two code
paths return with the mutex locked (a full table, a panic swallowed by `recover`) and one goroutine does (a
failed merge): `mu` then stays at the function's name for ever, which disables every later section. A panic
in a handler is recovered by the middleware, so only that goroutine ends; one in `stopTimer` or in a reader
kills the process. `RemoveSession` ranges over the participants without the mutex: each key is one step, and
a concurrent write may make the runtime abort (`ConcurrentMapFault`).

Time is left out: an armed timer may fire at any step, which includes every behaviour in which
`refreshSession` postpones it. The merged document is abstracted to the set of messages merged into it;
which messages `merger.Merge` rejects is the constant `Malformed`
(`Merger` is the function itself).

### TableContract

What users of a table may rely on: who sits, what has been played, what is saved. No mutex, socket or timer
occurs in it. Only a message that was sent and is well formed gets into the document; a malformed one may spoil
it, after which nothing but the save of what it was, and the end, can follow; and it is saved once, from what
was on the table. `TableSession` maps onto it with `seated <- Seated`, `doc <- data`, `saved <- store` and
`phase <- Phase`, where `Phase` follows the one closer that got past the watcher. `KeepsContract` is that
refinement, a property of a run and a theorem.

### AuthIdentity

One HTTP request is a process and one query is one step, since no transaction spans two queries
(except `CreateUserWithIdentity`, which is one). `users` and `owner` are the tables `user` and
`user_identity`; the two UNIQUE constraints are the guard `Insertable`; `session` is Redis. A query that
writes may take effect and be reported as failed, or fail without effect; the handler gives up in both
cases, so a process that dies between two queries is covered as well. Before the first query stand two calls to
the provider (`Authenticate`): no reply, a status other than 200 or a body that is not the JSON expected ends
the request, whichever call it is. An account is whatever id the profile has, the empty one of a profile
without an id included. Left out, because no decision reads
them: profile fields, time stamps, the two best-effort updates, and `user.status`, which nothing changes.

### AuthContract

What the same requests do when nobody sees their queries: each takes effect in one step, its last. A login
stands for whoever had the account at one moment of it, or for a new user who gets id and account together; a
link adds an account nobody has, of a provider the user has none of; an unlink takes away one account of its user; a logout ends one
session; a request that is over has no effect any more. The mapping is `asked <- arg`, `actor <- user` and
`over <- Over`, the requests whose `pc` is an end; every query between is a stutter. What it does not promise is
that an unlink leaves an account behind: that is the check the code makes one query too early.

### LLMJobs

`stored` is the job map, `status` and `result` the two fields that two goroutines share without a lock,
`worker[j]` and `poll[p]` say where `process` and each `GetGenerationStatus` are. The storage's mutex
protects the map only: `Get` returns the stored pointer. So each read and each write of a field is a step,
and the last two writes of `process`, with no synchronisation between them, may be seen in either order. A
restart empties the map and stops every goroutine. `creature[j]` is the creature in the hands of `process`:
not there yet, as generated, with its actions processed, or also with what the action service made of them.
`GeminiReplies` and `ServiceReplies` are what the two services may reply, and the actions say what the worker
makes of each: only a JSON object that decodes goes on from Gemini, while whatever the action service fails to
do is left out of the creature and the job still ends.

### JobsContract

A job has an outcome, decided in one step, and a poll is told what the outcome is at one moment between its
question and its answer: a creature, `"not ready"` (of a failed job too, for ever) or `"wrong job id"`.
`LLMJobs` maps onto it with `Outcome(j)`, read from the worker and the two fields: a job is open until both
writes of `Finish` have been made, in either order, and the moment of a poll is that of its last read.

### Requests, Encounters, Maps, Creatures

`Requests` is what the handlers have in common: `pc[r]` is the query a request makes next, `req[r]` what it
asks, `answer[r]` what it was told (the status, and whose document came with it). One query is one step, so
anything may come between a permission check and the query it allows. A query may fail, and one that writes
may take effect and be reported as failed. A restart cuts every request off and closes every table.

| module | state | code |
|---|---|---|
| `Encounters` | `row` | `encounter_store`: owner, data, `is_deleted`; `by`, a history variable, is on whose behalf the data was written |
| | `table` | of each open session, its encounter and its admin |
| `Maps` | `mapRow` | the table `maps`, with `by` as above |
| | `issuedTo` | for whom a map was ever created: a history variable, since the row disappears |
| `Creatures` | `creature`, `character` | the owner of each document in `generated_creatures` and `characters`, by `_id` |
| | `url` | the id in a creature's url, by which it is asked for |
| | `image` | by the id they are named for, which of a creature's two images are in the bucket |

`Encounters` takes of a table what matters to the row: it is opened on a live row by its owner, and when it
expires it writes data under the admin's name, or fails to, and is gone. `TableSession` is the rest, and
shows that this write happens at most once and never stores nothing. `Maps` contains `ValidateMapRequest`
in full; a name is its length in bytes. In `Creatures` a document that is not there makes the usecase read
a field of nil, which the recovery middleware turns into 500, as it does a failed query. The owner that comes
with a client's own id is one of `Users`. That id becomes the `_id`, the id of the url and the name of the
images, with one exception: `_id` is `omitempty` (`creature.go:118`), so that an ObjectID of zeros is left out of
the document and the driver makes a new `_id`, while url and images keep the zeros (`InsertCreature`).

`Library` is the three together. `Shelf` is what a store of documents promises: put there once by an owner
who never changes, rewritten only under that owner's name, and once taken away never back. In
`Encounters` taking away is a mark that later updates do not look at; in `Maps` it is a row that is gone, so
the promise is kept for different reasons.

### Lists

One client scrolls through one list, asking for the next `size` documents until a page comes back short, while
the documents of the list are added, written and removed by the handlers of the modules above. `kind` says which
of the six lists it is (encounters, maps, characters, creatures, a user's own creatures, tiles) and `query`
what is asked, both chosen once. `Matches` is what each list selects; `Start` and `Size` are what its handler
makes of the two numbers; `Begin`, `Count` and `Read` are its queries: a page of maps is two of them, any other
one. A list that stops in the middle is `CutPage`: no repository asks `rows.Err()` (the driver reports there
even a search that PostgreSQL cannot parse, so that two words in a search of encounters are answered with an
empty list), and the client is sent what came. A page that failed is asked for again.

| state | code |
|---|---|
| `rows`, `gone` | the table or collection, and what was removed from it |
| `order` | the order the documents are stored in, or for maps that of `updated_at` |
| `at`, `page`, `total` | `start` of the next page, the documents of the last one, the total sent with it |
| `owed`, `shown`, `again`, `events`, `touched`, `steady` | history: what the list held when the scroll began, what it showed once and twice, and what the others did meanwhile |

The databases are external. What is assumed of them: a query sees one instant; an order that is asked for is
kept, ties come in any order; without one, rows come as they are stored. A row of `encounter_store` is stored
wherever there is room, and stored anew by an update; a collection grows at its end; a map that is written
comes first, since its `updated_at` is now. A search is kept as the alphabets of its text, of which the code
makes `name.rus`, `name.eng` or nothing, and the names of a document it occurs in.

### Merger

`mergeObjects` and `mergeValue` as they are in the code, on JSON values that are plain, arrays or objects, with
`Failed` for an error. Below them is what they promise, without recursion, by the path of keys to a value:
`Overlaid` says which value is found there after a merge, `Conflict` when there is an error, `Kept` is the first
rule of the comment on `Merge`, `Again` that a message delivered twice changes nothing the second time.
`MCTableSession` holds the one against the other, and the constant `Malformed` of the table against `Merge`.

Operators whose names end in `Bug` appear in no specification. Each is the operator below it with one
plausible mistake, kept to show that the properties notice it.

## Runs

| run | instance | question |
|---|---|---|
| `TableRivals` | two connections of one player, one of another, one seat, one good and one malformed message, two firings, any client may vanish | types, `SeatsCounted`, `SeatLimit`, `SeatedConnOpen`, `NilNeverStored`, `SingleCloser`; of the steps, `SeatsStayLost` and the refinement `KeepsContract` |
| `TableParty` | the admin and one player, two messages, one firing | under fairness: `HandlerReturns`, `PatchMerged`, `ExpiryFinishes` |
| `TableFull` | violated: `ConnectAnswered` | one refusal at a full table blocks the table for good |
| `TableRemovedTwice` | violated: `RemovalRecovered` | reader and closer remove the same participant; the recovered panic leaves the mutex locked |
| `TableSeatLost` | violated: `RefusedWhenFull` | a failed write frees a seat but not the counter |
| `TableTwoReaders` | violated: `OneReaderPerUser` | two requests of one user both get past the check |
| `AuthRaces` | two logins, two links, two unlinks, a logout; three accounts, two providers, two users | `NoOrphanUser`, `LoginHoldsAccount`, `OneAccountPerProvider`, `IdentityNeverStolen`, and the refinement `KeepsAuthContract` |
| `AuthLastIdentity` | violated: `LastIdentityKept` | two unlinks of different providers both see two identities |
| `LLMPolling` | two jobs, two polls, restarts | `AnswersStand`, `OutcomeFixed`, the refinement `KeepsJobsContract`, and under fairness `JobsEnd`, `ProcessedJobsPublished` |
| `LLMStatusAnswered` | violated: `StatusAnswered` | no answer ever carries a status |
| `Library` | three requests, two users; one document of each kind but three ObjectIDs of creatures, the zeros one of them; one table, three maps to draw of which one is invalid | types, `AnsweredToOwner`, `StoredMapsWellFormed`, `OneDeleteWins`, `ImagesPresent`; of the steps, `NotFoundTruthful`, `DocumentsKept` and the refinements `EncountersShelved`, `MapsShelved` |
| `ListScroll` | each of six lists of up to four documents of two users, nine queries, pages of one or two | types, `ScrollComplete`, `NoRepeats`, `TotalHonest` |

`SeatsCounted` is checked again in `TableParty`, where the admin, who is not counted, is at the table.

Why these bounds. Every hazard of a table is a race of two parties over one thing: two joins of one user, a
join and a departure over one seat, a reader and a closer over one participant, two closers over one
watcher. `TableRivals` has two of each on a table of one seat, so that it is full after the first join and
a counter that drifts shows at once. The bounds `Closers` and `Patches` only limit how often the timer
fires and how many messages are sent; nothing compares with them. `AuthRaces` has two requests of each kind that
races and two providers, the least with which a user can have several identities; a user can lose the last
one only by two unlinks, and `UserIds` limits the users ever created. The constraint `LogoutApart` keeps a logout
out of behaviours with two links, which race for an account whether or not a session ends. In `LLMPolling` jobs do not
interact; two are there so that a poll can be wrong about which one it asks. In `Library` the hazards are races for one
document, of at most a request between its check and its query, another that changes the document in between,
and a third that asks for it afterwards; the constraint `OneKind` lets the requests of one behaviour ask for
one kind of document only, which loses nothing because the kinds share no table and no check; and `OneCreature`
lets those for creatures name one id, since of another id they only meet an `_id` that the driver made. Three
ObjectIDs are the zeros and the two that two adds under it get. `MCLibrary` also evaluates the validator at and around
every edge of every range, against what the notes on the API demand (`WellFormed`) and what the code demands
besides (`OnTiles`). In `ListScroll` a scroll goes wrong when one
document moves across the boundary of a page, which takes a page before it, one after it and a document to
move: four documents, of which two tie when they are sorted and one is not the user's, and pages of one or two
(`DefaultSize` and `MaxSize`; the code's 20 and 100 differ from them in nothing else). The nine queries have every
filter and order, every kind of search, and starts and sizes that handlers refuse or replace. The constraint
`Relevant` drops queries and orders that make no difference to a list, and stops after the first document that
is written or removed. `MCTableSession` evaluates `Merge` against its laws on all documents and messages of depth two
over two keys, one of them a position of an array, so that each rule meets each kind of value on both levels. Symmetry is used for safety runs only.

A table really can stop (mutex leaked, process dead, no client left), and so can a set of requests that has
been answered: deadlock is not an error in any of the runs.

## Fairness

Every goroutine that can run is run: weak fairness of `Run`, `Handler(c)`, `Reader(c)`, `Closer(k)`,
`Poll(p)`. None for what the outside decides: clients need not dial, send or leave, and an armed timer need
not fire, since every message postpones it. In `LLMJobs` the worker's steps are fair because the Gemini
client times out after 30 seconds (`socks5_proxy.go:32`), but `Process` is not: the call to the action
service has no deadline (`generated_creature_processor.go:40`). `AuthIdentity`, `Library` and `Lists` state no liveness: a request
is a fixed sequence of queries that ends on any error.

`HandlerReturns`, `PatchMerged` and `ExpiryFinishes` except a state `Lost` (process dead, or the mutex leaked
by a second removal). `TableParty` keeps the table below its limit and sends only well-formed messages, so
that the two other leaks, shown by `TableFull` and stated in `TableContract`, do not hide the rest. These three
are about a process that lives: that a nil watcher (`table.go:88`) kills it from a reader is in the model, and they
excuse it. In the same way `JobsEnd` excuses a job whose action service does not answer, `ScrollComplete` and
`TotalHonest` a list that broke off, and `TotalHonest` a map made or deleted between count and page: of none of
these does the repository say what should happen instead.

## Disagreements between code and documents

1. `AddParticipant` returns `PlayersNumErr` with `s.mu` locked (`participants.go:17`). `docs/WSConnect.jpg`
   has the fifth player refused; in the code everyone after that player waits for ever, the timer's goroutine included,
   so the encounter is not saved either.
2. `RemoveParticipant` recovers from the nil participant and does not unlock (`participants.go:68`), though
   it logs that it has recovered.
3. A participant dropped for a failed write is not subtracted from `playersNum` (`participants.go:100`,
   `session.go:61`, `session.go:86`): the limit counts people who are gone.
4. `CheckUser` and `AddParticipant` are two critical sections (`table_manager.go:133`): one user can have two
   connections, and the first one's departure frees the seat of the second.
5. `UnlinkIdentity` counts identities and deletes one in two queries (`auth.go:233`): the last identity can go.
6. `GetGenerationStatus` never sets the status its comment documents (`llm_handlers.go:135`): a client cannot
   tell a failed job from one under way.

Four more, of which no run is made.

- `maps-api-implementation-notes.md` wants 404 for `GET`, `PUT` and `DELETE` of a map that does not exist (lines 80,
  89, 163, 187, 265, 271). The code asks `CheckPermission` first, which is false of such a map, and answers 403
  (`usecases/maps.go:49`, `62`, `92`); 404 is left for a map deleted between the check and the query. The model
  answers as the code does, and `NotFoundTruthful` is about that window: whoever is told 404 is told the truth, not
  that everybody whose map is missing is told 404.
- The same notes demand (lines 112-124) that sizes are positive and positions not negative, leave divisibility, by
  8, to the backend as an option (lines 126-129), and say that it should not validate tile sizes against the grid
  (line 215). The validator refuses whatever is no multiple of 6 (`validator.go:15`, `44`, `56`, `95`, `107`), a map
  of one of the editor's 8x8 tiles for instance. `StoredMapsWellFormed` is the rule the notes demand;
  `ValidatorAccepts` in `MCLibrary` shows where the two differ.
- The messages about names, and the notes, speak of 255 and 60 characters (`validator.go:26`, `responses.go:44`),
  the code compares bytes.
- A creature or character that is not there is meant to be answered with
  400 (`bestiary_handlers.go:174`, `character_handlers.go:171`), but the usecase dereferences the nil first
  (`bestiary.go:80`, `character.go:78`) and the answer is 500.

Behaviours no document speaks about: a search of encounters for two words is answered with an empty list, and a
list that breaks off with the part that came; pages of encounters are cut from rows in no stated order, so that a
scroll may miss what was not touched at all; creatures added under the ObjectID of zeros, any number of them, share one
url and its images, and whoever asks for it is judged by any of them; and a table that expires overwrites whatever
was written to its encounter since it was opened, over HTTP or by another table. Rows have no version and the last
writer wins.

## Proofs

Theorems hold for every value of the constants that satisfies the ASSUMEs of the module: finitely many users
of whom one is the admin, connections with a user each, `MaxPlayers` a natural number, `Malformed` among the
messages (`TableSession`); disjoint sets of requests (`AuthIdentity`); `None` not a job (`LLMJobs`); finitely many documents, integers in queries,
`0 < DefaultSize <= MaxSize` (`Lists`). The sets may otherwise be of any size.

**TableSessionProofs.** `SeatLimit` is not inductive: the code compares with `playersNum`, not with the map.
It follows from `SeatsCounted` (the counter never falls below the number of seated players) and
`playersNum <= MaxPlayers`; and the counter stays a natural number only because whoever it is lowered for is
one of those it counts, so `TypeOK` and `SeatsCounted` are proved together. `NilNeverStored` needs `Held`
(`encounterData` is nil only while the mutex is leaked) and `Expiry` (a closer that found no session comes too late for the
watcher), which also gives `SingleCloser`. `SeatedConnOpen` is inductive with the invariant of the seats (`SeatInv`).
`LostSeatsAccounted` is the other side of `TableSeatLost` and has no hypothesis: a seat is lost only to a failed
write on a player whose client is gone, or to a player who got past `CheckUser` twice; nothing else moves the counter
away from the map, and no departure, reconnection, eviction or later join moves it back. There is a lemma for each
kind of step that changes one of the two (`WritesAccounted`, `JoinAccounted`, `RemovalAccounted`).

**TableContractProofs.** `SessionKeepsContract` is the refinement. What the mutex and the single closer guarantee is
`IInv`; the contract also says where data comes from, hence `Traced` (whatever is on its way to the table was
sent; whatever left it, in a closer's `snap` or in `store`, was merged, and is still on the table unless that was
spoilt) and `Begun` (nothing runs before the table is opened). There is a lemma for each kind of goroutine: most steps are
stutters, a critical section is one step or none, and `Save` and `DeleteSession` are the two that turn `Phase`. From it follow `SavedAtMostOnce`, and from its invariant `StoredWasPlayed`;
`LeaksAreFinal` covers all three ways of leaking the mutex.

**AuthIdentityProofs.** `NoOrphanUser` is not inductive: an unlink decides in one query and deletes in
another. `Kept` says what the decision is still worth in between: while at most one unlink is past its
check, whoever is about to delete leaves an identity behind, since a delete takes one account
(`OneAccountPerProvider`) and no other request takes any. `RequestsAreAtomic` is the refinement of `AuthContract`; it needs
`Fresh` besides (a request has nothing in hand before it starts). The cases that take an argument are a login whose insert
took effect although it was told of a failure (it is over: a sign-up without a session), one that lost the race (its user is the one found
again, if the account was not unlinked in between), and a deletion, which removes one account since a user has
one of each provider.
`SessionsOnlyEnd`: a login that is over has at most its session left, which nobody opens again.

**LLMJobsProofs.** `Fields` ties a job's two fields to where its worker is; a poll that saw `"done"` can then
read nothing but the processed creature or none yet, and `OutcomeFixed` follows from the same invariant. `JobsKeepContract` is the refinement of `JobsContract`,
with `Asking` besides (whoever looks at a job's fields does so before any restart). A job
is decided by the second write of `Finish`, whichever it is; a poll that sees another status than `"done"`, or
`"done"` and no result yet, is told what is true at that moment, `"not ready"`.

**LibraryProofs.** `IInv` has a part for each kind of document. What makes it inductive is what a request's
check is still worth when its query runs: an encounter's row, once there, stays and keeps its owner
(`EncounterHeld`, `TableHeld`), whereas of a map only that it was created for the user
(`MapHeld`), and an update has been validated; of a creature, which images are in the bucket (`ImagesPut`).
`OneDeleteWins` needs `MapGone`: whoever was told 204 or 404 leaves no row behind, and maps never
come back, so no later delete finds one. One step of one kind of request disturbs only its own part: the
lemmas named `Frame` show it for the others. `ValidIsWellFormed` shows that the
validator's tests of zero, sign and remainder let nothing pass that the notes forbid, for all integers. `UrlOf` (a
creature's url has its `_id`, or the zeros) is what `DocumentsStay` and `CreaturesHaveImages` rest on: an id other
than the zeros is in one url at most. For the refinements, `RowChanges`
and `MapChanges` reduce a step to one change of one row, which `RowShelf` and `MapShelfStep` map to one
step of `Shelf` or none.

**ListsProofs.** `Prior(d)` is what comes before `d` in the list. `ScrollComplete` needs `Ahead`: of whatever is still owed, at
least `at` documents come before it, so no page can have passed it; that is kept because what is added lands at the end or,
like a map that is written, before everything, and an encounter's place matters only when one is written.
`NoRepeats` needs `Behind`: of whatever was shown, fewer than `at` come before it, which removals only
strengthen. Both fail for ties (`Ranked`). `TotalHonest` needs `Counted`: the total still counts what the
page is cut from.

The assumptions of `Library` say only that `None` is none of the values it is told apart from, `"*"` no user,
the numbers of a map integers, and the zeros an ObjectID.

Only model-checked: all liveness (`HandlerReturns`, `PatchMerged`, `ExpiryFinishes`, `JobsEnd`,
`ProcessedJobsPublished`), which is outside the prover's reach; what the recursive `Merge` computes, since induction
over data is outside it too; and of course the violations.

## Not modelled

PROJECT.json has each part with its reason.

- Requests that a handler refuses before its first query are left out of `Library`; `Lists` has them, since there they
  depend on the query.
- `CheckAuth` and `ListIdentities` read and answer; of `auth`, profile fields and time stamps are left out too.
- The two handlers that ask Gemini and answer in the same request, and the description service: one call whose
  answer is passed on, and nothing kept.
- `server/app.go`, routers, configuration: wiring. Migrations run before the system serves; the constraints they
  declare are used where a model needs them. Of the middleware, panic recovery and the check of the session
  are built into the models of what they wrap.
- Logger and metrics: no decision depends on them. What a character file or a statblock holds is data that is
  passed through.
- `statblockgenerator`, `attack.go`, `character.go` hold types or stubs without logic.
