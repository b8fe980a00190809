# permission-search in TLA+

permission-search stores resources of several kinds in OpenSearch, each with the
users and groups that hold the rights *administrate*, *read*, *write* and
*execute*, and answers searches restricted to what the caller may see. All data
arrives over Kafka. This directory models the program in TLA+, checks small
instances with TLC and proves theorems about every instance with TLAPS.

## 1. Inventory

| part | source | state it keeps | operations |
|---|---|---|---|
| permission lists of an entry | `lib/model/model.go` | four lists of users, four of groups, features, annotations, creator | add and remove rights of one subject, set all rights, default rights, conversion to reported rights |
| command handlers | `lib/worker/command.go`, `event.go`, `worker.go` | none of their own; they read and write documents | SetUserRight, SetGroupRight, DeleteUserRight, DeleteGroupRight, UpdateFeatures, UpdateRights, DeleteFeatures, HandleAnnotationMsg, SendDone |
| bulk indexer | configured in `worker.go`, library | queue of partial updates | add, flush, fail |
| consumer loop | `lib/worker/kafka/consumer.go` | position in the topic, committed offset | fetch, retry with timeout, commit, fatal error |
| Kafka producers | `lib/worker/kafka/producer.go`, `common.go` | none | produce, choice of the partition by the first part of a key |
| rights producer | `lib/rigthsproducer`, `lib/api/rightsproducer.go` | none | check the caller, send a RIGHTS command |
| replay | `lib/replay` | the last id read, a channel | scan a kind, send one RIGHTS command per entry |
| queries | `lib/query/query.go`, `selection.go`, `total.go`, `aggregation.go` | none | check, check many ids, lists, search, selection, totals, pages |
| import, export | `lib/query/migration.go` | offset of the page | write entries, read all entries |
| result modifiers | `lib/query/modifier` | cache of one request | split ids, group by pure id, modify entries |
| index management | `lib/opensearchclient` | indexes and the alias of each kind | create, migrate to the next version |
| requests | `lib/model/query.go`, `list.go` | none | validation, choice of the mode |
| HTTP API, client | `lib/api`, `lib/client`, `lib/auth` | none | parse requests, encode results |
| start-up | `main.go`, `lib/lib.go`, `lib/configuration` | none | start what the mode asks for |

**How the parts interact.** Three goroutines of the worker consume the
permission topic, all resource topics and all annotation topics. They share
nothing but the documents in OpenSearch, and they protect them only by the
sequence number of the document they read: a handler asks whether the document
exists, gets it, changes it in memory and writes it back with `if_seq_no`. The
creation of a document and the partial updates of the bulk indexer have no such
condition. After a command a message on the done topic announces it, then the
offset is committed. The API reads the same documents, and sends RIGHTS commands
into the resource topics; replay does so too. An endpoint that changes rights checks
its caller against the documents, while older commands for the same document are still
in the topic. The client library offers the operations of the query part over HTTP.

**What is hard.** Steps of the other consumers between two requests of a handler;
responses that get lost although the request was executed; errors that are
swallowed by one listener and retried by the others; the death of the process
between the write, the Done message and the commit, and delivery of everything
since the last commit over newer documents; requests that are executed after their
sender gave them up, or twice; bulk updates that are written much later or never; checks
against documents that lag behind the topic; compaction, which keeps the last message of each key
only; lists of many pages while documents change; the migration of an index under
writers; options that are parsed and validated in three places with different defaults.

**What makes each part correct.** Entry: an operation changes the lists of the
subject it names and no others. Handlers: no update is lost or mixed, nobody but
the resource consumer creates or removes documents, the creator stays. Consumer
loop: what is committed was handled and announced, the documents follow the
topic. Progress: no consumer is held up by the others. Queries: the check and
the lists agree, totals fit the lists, pages miss no more
than what changed meanwhile. Index management: the
alias always resolves to one existing index with every document. Replay: it
changes no rights unless somebody else did meanwhile. Rights producer: a document keeps an
administrator, nobody sends commands who was not given the right to, compaction loses
nothing. Requests: a call is answered alike through the library and by the operation behind
the endpoint, a status tells the outcome.

## 2. Modules

```
Rights  <-  Commands  <-  Worker       <-  MCWorker
   ^           ^            |
   |           |            +--  WorkerProofs
   |           +--  PermissionStore   (abstract; INSTANCE in Worker, LateWrites, RightsApi, Replay)
   |           +--  LateWrites   <-  MCLateWrites, LateWritesProofs
   |           +--  RightsApi    <-  MCRightsApi, RightsApiProofs
   |           +--  Replay       <-  MCReplay, ReplayProofs
   |           +--  RightsProofs   (used by the proofs of these four)
   +--  Access   <-  MCAccess, AccessProofs
Indexes  <-  MCIndexes, IndexesProofs
Pages    <-  MCPages    <--+
Http     <-  MCHttp     <--+--  QueryProofs
```

* **Rights** is the entry and the operations on its lists. The lists of the code
  are sets: order and duplicates are looked at only when an entry without creator
  takes the first admin user, which is any admin user here. A rights string is the
  set of its letters. `AddGroupRights` builds the execute list from the admin list as
  the code does. The lists of a new entry depend on the random order in which Go
  ranges over the configured groups; `NewEntries` has one entry per order, and
  `GroupsAfterLoop` is the outcome of the loop in closed form (MCWorker has an `ASSUME` that compares
it with the loop, call by call, for every configuration of up to three groups). The code appends to
  the admin list inside that loop; that two lists may share an array from five groups
  on is left out.
* **Commands** has the messages and what each does to an entry. An id stands for
  a resource kind and an id of it, i.e. for one document; `NoId` for a message without
  one of them. `MALFORMED` covers JSON that cannot be parsed and paths that cannot be
  evaluated, `UNKNOWN` any other command. `ids` of an annotation are the documents of
  all kinds its topic feeds. A value that is null is one of `Values`; `NoValue` is a
  field the kind does not configure for the topic.
* **Worker** is the process: one action per step of the consumer loop and per
  request of a handler. `pc[c]` names the request a consumer sends next, `read[c]` what
  GetResourceEntry returned, `pos` what the reader has left behind, `committed` what
  Kafka knows. `ver` counts the writes of each document and stands for sequence number
  and primary term. A request fails before it is executed (`RequestFails`), or after it
  (`Respond`); a commit may fail. `Crash` is the death of the process at any moment,
  HandleFatalError after ten minutes of retries included.
* **PermissionStore** is the abstract promise: documents change only by applying one
  message to the present document, PUT creates, DELETE removes, nothing else does. It
  says nothing about order or progress.
* **LateWrites** is the resource consumer once more, with the requests that
  Worker executes on the spot: a write goes on its way (`wire`), is executed at any later
  time (`Execute`) or never, and only then answered to whoever still waits (`awaited`). The
  handler may give up (`GiveUp`, the timeout of a context), the transport send again
  (`Resend`, `EnableRetryOnTimeout`), the process die or be ended by HandleFatalError after a minute
  (`Crash`). Beside it a permission handler (`OtherHandler`, its write may be late too), `Import`, which writes without condition, and
  a start whose error in the resource consumer is overwritten (`StartFails`, event.go:72). `blind` is
  history: the documents to which something unconditional was done since their last PUT or DELETE.
* **RightsApi** is `PUT /v3/administrate/rights`: parsing, the check of the caller and of the
  body, the producer with its key and its repeated writes (`ProduceFails`), the partitions that
  `KeySeparationBalancer` makes of the keys, compaction (`Compact`), and a worker that handles
  the first waiting message of each partition (`Handle`), goes on at an older offset or begins
  again with an empty database. PUT and DELETE come from others. The worker is PermissionStore.
* **Http** is the way of a read request: the call of the client library (`Encode`,
  `QueryValues`), the table of all routes (`Routes`: operation, who looks at the token, where
  rights and options come from, the status of every kind of error), parsing (`FromUrlQuery`,
  `FromStrings`, `Malformed`), the refusals of the operations (`Refusals`), what is searched for
  (`Dispatch`, `Pagination`), `POST query` part by part (`Message`), and the decoding of the
  answer. A search succeeds or fails; what it finds is in Access. `failed` is history: what failed on the
  way, also where the code drops the error (`SearchEnds`, `ListPart`) or the next part of a message
  overwrites it (`Continue`).
* **Indexes** is the start of a process (`CreateIndex`, the mapping update) and
  `update-indexes`, for one kind, one action per request to OpenSearch. `pc[p]` names the
  next request of process `p`, `cur[p]` the version it read from the alias; `accepted`,
  `since` and `lost` are history. A mapping is "old" or "configured". The reindex copies
  a snapshot in one step. A migration begins only while no other process is in its first
  start, unless `Overlap`.
* **Pages** is every loop that reads a list page by page: `ExportKindAll`, which stops
  after a page that is not full, and the `GetFullList...` and `SelectByFieldAll` loops, which stop after
  an empty one (`export` says which). OpenSearch refuses pages that end behind `Window`. No loop asks for an
  order: `SearchListAll` gets its entries by the score of a text query, which depends on all documents
  of the index, the others as the shards have them. So an entry may be added, or move, to any place of
  the list; `appeared`, `vanished` and `moved` count what happened to the list since the loop began.
* **Replay** is `permission-search replay-permissions do` for one kind: the goroutine that scans with
  search_after (`Scan`), the channel, the loop that sends (`Loop`), and around them the resource topic with
  commands of others, a worker that applies it, refreshes of the index and restarts
  that deliver commands again. The worker is represented by the abstract
  PermissionStore, which WorkerProofs shows Worker to implement: a message is
  applied in one step to the present document. The dry run is left out.
* **Access** is the reading half of the API for one kind: an action is one request to
  OpenSearch (`Find`, `FindIds`, `CheckList`, `CheckOne`, `GetEntry`, ...), and documents change and
  become visible to searches between them. `Alternatives`/`RightsQuery`/`Matches` is the
  filter of a search, `PassesCheck` the check of one document, `GetPermissions` what is
  reported with a result. A request with add_id_modifier searches a second time
  (`AddModifier`), through `POST query` a third time (`AddAgain`). Raw ids are a pure id and at
  most one modifier. The endpoints of version 1 for one user or one group are tokens
  with only that. `req.rights` are the letters a request asks for; what it is answered with is
  `Asked`, which for `POST /ids/select/...` is the parameter of the URL query (`req.param`) and not the path.
* **RightsProofs**, **WorkerProofs**, **LateWritesProofs**, **RightsApiProofs**, **IndexesProofs**,
  **ReplayProofs**, **AccessProofs** and **QueryProofs** hold the theorems. QueryProofs is about Pages
  and Http, which share nothing, so Http's specification has names of its own (`HttpSpec`, `stage`, `lost`).
* **MCWorker**, **MCLateWrites**, **MCRightsApi**, **MCIndexes**, **MCPages**, **MCReplay**, **MCAccess**
  and **MCHttp** have the topics, documents, requests and symmetries of the TLC instances.

PROJECT.json maps each definition to the lines it stands for.

## 3. Runs

All runs finish in about two minutes or less with two workers (up to 1.8 million states). Deadlock is checked in
all of them: a consumer at the end of its topic goes on waiting (`FetchTimeout`), a loop that returned
stays so (`Returned`), documents are written and requests asked without end, so that a state
without successor would be an error of the model.

### The worker (MCWorker)

| run | instance | what it shows |
|---|---|---|
| `races` | one document, topics of up to three resource commands, one annotation and at most one of four permission commands; no bulk indexer; one fault | every write applies one message to the document as it is (`ImplementsStore`), RIGHTS commands come whole (`RightsComeWhole`), only the resource consumer creates and deletes (`OwnsExistence`); a new document has the configured groups if the order of the configuration does not matter (`InitialRightsAsConfigured`) |
| `delivery` | one document, RIGHTS and DELETE before the first PUT included, and two documents annotated through a bulk indexer with two workers; two faults, two crashes | features follow a prefix of the topic that is not behind the reader (`FeaturesFollowLog`), Done is neither early (`DoneImpliesApplied`) nor skipped (`CommittedImpliesDone`), and late, lost or repeated annotations do not disturb that |
| `progress` | three writers of one document, and messages no handler can work on in all three topics; one fault, one crash | the permission consumer gets through whatever the others are stuck on (`PermCatchesUp`), the resource consumer if its messages can be handled, although its reads become stale (`ResourceCatchesUp`), annotations block nobody (`AnnotationCatchesUp`) |

*Why the bounds are enough.* The consumers interact through one document only, and every
conflict is between a read and a write of two handlers of it. One document
and three handlers in the middle of their requests have every such pair, with the
document absent, present, deleted and created again. A second document is added where
a message names several (annotations). One fault loses a request or a
response between two steps of others; two faults and two crashes, in `delivery`, are a
retry that fails again and a redelivery that is itself redelivered. Crashes
are not part of `races`, which would grow to a million states: the proofs, which bound
nothing, cover them for all of its properties.

### Late writes (MCLateWrites)

| run | instance | what it shows |
|---|---|---|
| `late_writes` | one document and four topics (created and changed; with RIGHTS between; deleted and created again; deleted before RIGHTS), one permission command, one import, two faults | a write with a sequence number applies its command to the document as it is, however late (`OnlyCreationsReplace`); existence and features follow the topic unless an import or a late creation or deletion interfered, and follow it again from the next PUT or DELETE on (`FollowsUnlessBlind`); a worker that has its resource consumer ends with the documents as the topic says, one without has the other two (`ConsumedIfStarted`) |

Two faults are a write that is given up or sent again and a second one while the first is
still on its way; four messages of one document are enough for a late write of each kind
to meet each kind of later command. The number of faults, imports and late writes is unbounded in the proofs.

### Rights producer (MCRightsApi)

| run | instance | what it shows |
|---|---|---|
| `rights_api` | two requests of nine kinds (two users, a group, a platform admin, keys of the caller, an unknown kind, an invalid body), two further PUT or DELETE, one fault, one compaction, one restart | a document keeps a user who may administrate it (`AdminUserKept`), a command never takes that right from its author (`OwnCommandKeepsCaller`), nobody sends a command who was not empowered by an earlier one (`AuthorityFromTopic`), a status tells whether a command was sent (`AnswerIsTrue`), existence, features and lists survive compaction (`DocumentSurvivesCompaction`, `RightsSurviveCompaction`) if keys are as event.go:205-208 demands |

Two requests are the race of two checks against the same document; the commands of others and the
restart separate each check from the command's effect. Requests are symmetric. The run has no liveness.

### Index management (MCIndexes)

| run | instance | what it shows |
|---|---|---|
| `indexes` | one server and two runs of update-indexes, which all begin with CreateIndex, three versions, two faults | the alias is on one existing index (`AliasServes`), no write is lost but those between a reindex and its swap (`NothingLost`), the new mapping is in use (`MappingApplied`), the server comes up (`EveryoneStarts`) |
| `indexes_overlap` | two first starts and a migration between the requests of one of them | violation, see section 4 |

Three versions are two migrations in sequence or two processes on the same step, which
is all a third could meet as a migration looks only at the version it reads and the next one.
One document that is written and deleted tells a stale copy from a fresh one. Symmetry is used
in `indexes_overlap` only, which checks no liveness.

### Lists of pages (MCPages)

| run | instance | what it shows |
|---|---|---|
| `pages` | the loop of the export and those of the full lists over up to six entries, pages of two, a window of three pages, three changes, each at any place, one fault | the loop ends (`LoopEnds`); of the entries that matched all the time it misses at most one for each that vanished or moved, and lists at most one again for each that appeared or moved (`LossBounded`); it is refused only when the list is too long (`RejectedOnlyWhenFull`): from the window's size on for the export, one page earlier for the loops that need an empty page |

The code reads pages of 100 (export) and 1000 (full lists) of a window of 10000. Three pages keep what
matters: a first, a middle and a last page, full and short ones, and the one that ends at the window.
Three changes are one of each kind, or three that push entries over the same border.

### Replay (MCReplay)

| run | instance | what it shows |
|---|---|---|
| `replay` | up to three ids in pages of two, two commands of others, a permission command, one fault, one restart of the worker | ids are sent in order and none twice (`SentInOrder`), none is left out that was there all the time (`SteadySent`), a document nobody touched keeps its lists (`RightsReplayedAsTheyWere`), the replay ends (`ReplayEnds`) |

Three ids in pages of two are a full page and a short one, and fill the channel while the
sending loop waits.

### Reading (MCAccess)

| run | instance | what it shows |
|---|---|---|
| `access` | two ids, three entries (all rights, some of them by group, write without read), 21 requests of two callers, two changes, one fault | filter, check and report decide alike (`DecisionsAgree`); no result lacks a letter asked for (`ListedAsPermitted`); rights are reported only to whom the check admitted (`RightsNeedAdministrator`); a failure leaves no part of the results (`AnswersAfterFailure`); a list that nothing changed under is the list of one moment (`AnsweredAtOnce`) |
| `access_select` | the same | violation, see section 4 |

Between up to three searches there are two gaps, hence two changes (each visible to
searches after any of the later refreshes). After a failure a request sends nothing more, since
only a list with results is searched again; a second fault could only hit another request. `ListedAsPermitted` and
`AnsweredAtOnce` speak of the letters in the request, also where the code answers with others: they except
a `POST /ids/select/...` whose path and parameter differ (`PathIgnored`), which `access_select` is about.

### Requests (MCHttp)

| run | instance | what it shows |
|---|---|---|
| `http` | the library's calls for lists and totals with about a hundred combinations of options, with a token and without, its other four operations, every route of every version with numbers that are none or too large, rights that are set or not, bodies and tokens that cannot be decoded, and messages to `POST query` of up to four parts; a default limit of 2, a window of 4; one lost connection | a call through the library is answered like the operation behind the endpoint (`RemoteAsLocal`); a status other than 200 stands for an error, a 200 hides a failure only where the code drops or overwrites it, and is sent with an error only behind an added modifier (`AnswersTellOutcome`) |

Limits and offsets from -1 to 4 lie on both sides of 0, the default and the window. One
request at a time is enough, as the endpoints share no state.

### Fairness

* Worker: weak fairness of each consumer's own step, and of the flush of the bulk
  indexer. Each consumer is a goroutine of its own that nothing but its own requests
  blocks, and the library flushes at intervals (`FlushInterval`, worker.go:62). A
  handler that fails is called again by the retry of the consumer loop.
* LateWrites: weak fairness of the steps the process takes by itself, its start included (the
  platform starts it again), and of the execution of a write that somebody waits for. A late
  write may be late for ever.
* Indexes: weak fairness of each process's requests and of the restart of a server that
  failed (main.go ends with a fatal error, and the platform starts it again).
* Pages: weak fairness of the loop. Replay: of the scanning goroutine and of the sending loop.
* RightsApi, Access, Http: none; their properties are safety.

Faults, crashes, restarts, refreshes and what others do are never fair.

## 4. Where code and documentation disagree

Two runs have one property each that states a sentence of the documentation or a test, and TLC
finds a history of the code that breaks it. `findings` in PROJECT.json quotes the sentences.

* `indexes_overlap`: a server finds neither alias nor version 1, and stops between these checks and the
  creation. Meanwhile another process makes version 1, puts the alias on it, and update-indexes moves it to version 2 and deletes
  version 1. Then the server makes version 1 again, empty, and puts the alias on it too (client.go:104 and 115).
  The alias stays on two indexes, where lib/mappingupdate_test.go:270 expects the second version only.
* `access_select`: `POST /ids/select/:resource_kind/:right` reads the URL query and never the right in
  its path (v1endpoints.go:444); with `w` in the path it returns what the caller may only read. README.md:83 promises
  the matching rights.

The models contain more that a reader of the documentation may not expect. These have no run of
their own; the properties except them by name or say nothing of them.

* On creation the execute list of groups depends on the order in which a map is iterated, because model.go:70
  starts from the admin list: with "admin: rwxa, user: rx" of config.json:45 the group admin may have no execute
  right, where README.md:190 speaks of the groups "a resource initially should get". `InitialRightsExactly`
  proves for which configurations this happens.
* By the same line a permission command with `x` for one group replaces the execute
  rights of all other groups (`AddGroupRights`).
* GetRights checks the caller with one request and gets the document with another (query.go:662, 671). If a
  command takes his rights between the two, he is told the rights of a document he does not administrate any more
  (`RightsNeedAdministrator` speaks of the check only).
* The owner of a PUT becomes creator of an existing document that has none (`CreatorFallback`).
* A list of ids returns more than `limit` results when raw ids share a pure id (`Prepared` in Access).
* A kind with 10000 entries cannot be exported, README.md:84 and migration.go:74
  (`RejectedOnlyWhenFull` says when exactly).
* `GET /v3/aggregates/term/...` looks for its rights among the path parameters and always uses `r`
  (`V3Routes`).
* `GetTermAggregation` of the client library is sent with HEAD, for which there is no route
  (client/v3.go:84): it always fails (`RemoteAsLocal`).
* In a message with several parts each part replaces the error of the one before (query.go:1189, 1203, 1221,
  1243): a find that failed is answered with 200 and no results if the check, the ids or the aggregation behind it
  succeed, or if it adds a modifier. GetListFromIds with a modifier drops its error by itself (query.go:385).
  An error behind a part with a modifier is sent with status 200 (query.go:1245). `Overwritten` and
  `AnswersTellOutcome` say that failures are hidden nowhere else.
* Over HTTP a limit of 0 is the default, a direction without a field and an `after` without id
  are lost; a total ignores ids (`Normal`, `RemoteAsLocal`).
* If the last PUT of a document is younger than its last RIGHTS command, a database rebuilt from the
  compacted topic loses the rights, as the command meets no document (`RightsSurviveCompaction`
  says when they are kept).

## 5. What is proved

tlapm checks these theorems for all values of the constants: any users, groups, documents, topics,
requests, and any bound on faults and crashes. They assume what the modules declare:

* `RightsAssumption`: the empty user is no user; the configured groups are finitely many.
* `CommandsAssumption`, `WorkerAssumption`, `LateWritesAssumption`, `RightsApiAssumption`,
  `ReplayAssumption`, `AccessAssumption`, `PagesAssumption`, `IndexesAssumption`, `HttpAssumption`: markers such as `NoDoc` are not
  values, bounds are naturals, topics and requests are of their types, every request of a user has
  one, a bulk check has no modifier, the window of pages is a multiple of the page size, a call of the client
  library has options only if its method takes them, a request names a route (to others the router answers 404). LateWrites has valid PUT, RIGHTS and DELETE commands only; in RightsApi
  commands of others have the plain id as key.
* The theorems on Indexes also assume `~Overlap`; without it the alias may end on two indexes (`indexes_overlap`).

**Entries** (RightsProofs). `PermissionCommandScope` says what a permission command changes: the rights of its
user or group, and, if it grants a group `x`, the execute list of all groups, which becomes that of the admins
(model.go:70). `RedeliveryHarmless`: every handler is idempotent on what it made. `AnnotationsCommute`: annotations may
come before or after any other command. The other commands do not commute with each other; their order
is that of the topics. `InitialRightsExactly` characterises the configurations for which the random iteration order
in SetDefaultPermissions does not matter; its harder half swaps two groups of an order so that the
execute list comes out wrong (`SwappedOrder`). The lists are sets here (section 6).
With it `InitialRightsIfUnordered` (WorkerProofs) proves `InitialRightsAsConfigured` for these
configurations; "admin: rwxa, user: rx" is not one of them.

**Worker** (WorkerProofs). The invariant is `TypeOK /\ ControlOK /\ ReadCurrent /\ OwnsExistence /\ DoneImpliesApplied /\
FeaturesFollowLog /\ HandledImpliesDone`. `ControlOK` ties each
step to the messages that lead there (a handler at `create` works on a PUT). `ReadCurrent` is the
heart of the optimistic locking: if the version a handler read is still the present one, so
is the entry it read; hence a conditional write is computed from the present document. The creation
has no condition, and `OwnsExistence` makes up for that: nobody but
the resource consumer creates or deletes, so what it saw missing is missing still.
`FeaturesFollowLog` is then inductive because a redelivered PUT or DELETE moves a document
to an earlier prefix only together with the reader, and `DoneImpliesApplied` carries the write over
to the commit. `HandledImpliesDone` strengthens `CommittedImpliesDone` from committed to handled messages.

**Refinement** (second part of WorkerProofs). Worker implements PermissionStore under
the identity mapping of `doc`: initial states map to initial states, and every step to one
message applied to the present document or to a stutter. Beyond the invariant it needs
only `BulkOK`, that an item of the bulk indexer comes from a message of the annotation
topic. Two properties follow without another look at the requests: the creator of a document
stays (`CreatorKept`), and `RightsComeWhole`, as an abstract step with a PUT or RIGHTS sets both lists
from that one message, a step with features or annotations leaves them alone (`RightsEffectsLists`,
`FeaturesEffectsLists`), and a permission command is excepted.

**Late writes** (LateWritesProofs). The invariant is `TypeOK /\ ControlOK /\ ReadCurrent /\ WireOK /\ Follows`. `WireOK` is
`ReadCurrent` for every write that is on its way, awaited or not: if the version it was made from is still
the present one, its entry is what one message makes of the present document (`Applied`), and a
PUT that comes late is one the reader has not passed; a creation or deletion stems from
the topic (`FromLog`); the awaited write is that of the message in work (`Expected`). `Follows` is
`FollowsUnlessBlind` with a bound that moves when the handler succeeds, not only when the reader does:
without it a late PUT could not be told from one that is overtaken. The steps that
neither write nor read are treated together (`CalmStep`). `OnlyCreationsReplace` follows from `WireOK`.

**Rights producer** (RightsApiProofs). Two invariants. `IInv` is about authority: every command of the
topic is well-formed (`TopicOK`), a caller who passed the check was empowered by the topic
(`RequestOK`), as was everybody who may administrate a document (`DocumentsOK`), which is what makes the
lag of the check harmless; `AdminUserKept` is inductive because each command of a caller names an
administrator itself. `LogInv` is about compaction: the worker is done with a prefix of what is
left of each partition (`PrefixDone`), of each key something newer is left (`NewerLeft`), existence and
features are those of a PUT or DELETE after which none was handled (`ExistenceOK`), the same for lists (`ListsOK`).

**Index management** (IndexesProofs). `VersionsOK`: only the holder of the next index of the
present version copies (`OneCopy`), migrations of older versions can only fail (`OnlyUp`), nobody
migrates while the first index is made (`CreatorsAlone`, which is where `~Overlap` is needed).
`DocumentsOK`: a copy is empty before its reindex (`FreshCopy`) and lacks only what was
written since (`FullCopy`). `MappingsOK`: only the first version may have an old mapping.

**Replay** (ReplayProofs). `OrderOK`: ids ascend from what was sent over the channel to the page, and
the next search begins behind all of it. `CurrentOK`: what a page, the channel or the
topic carries is the rights of the present document unless others changed it. Reporting and setting
rights are inverse (`RightsRoundTrip`), so applying a replayed command gives back the
same lists, which is `RightsReplayedAsTheyWere`. For `SteadySent` every steady id is `OnTheWay`: behind
the scan it is sent or in the channel, otherwise it is in the page, or a page full of smaller ids comes before
it, or the next search will find it. `FirstProperties` is the reason: who matches and is not on a
page has only smaller ids on it, and then the page is full and the scan goes on.

**Reading** (AccessProofs). `FilterIsReport` and `CheckIsReport` show for every entry that filter,
check and report decide alike; `DecisionsAgree` follows from the types. `StepOK` says which
request is at which step, `ReportOK` that who reads the document of a rights request was
found to administrate it, `FailureOK` that after a failure there is nothing more to search, `ReportsAsked` that
results are reported with the letters the code searches for. Together they are inductive, and `ListedAsPermitted`,
`RightsNeedAdministrator` and `AnswersAfterFailure` follow: unless the path is ignored, the letters asked for
mean those the code searches for. `AnsweredAtOnce`
needs what the list is between the searches: `Raw` before the modifiers are added, `Final`
after. The second and third search ask for exactly the ids found so far, all of which are wanted,
and as many as there are, so that their page is the whole set (`WholePage`, `ModifiedIsFinal`).

**Pages** (QueryProofs). The result itself obeys no law while entries move, so the invariant (`Bounded`) looks at
the border the offset makes in the list. `Missed` are the steady entries in front of it that are not in the
result, `Again` those behind it that are: the ones the loop will list once more. A page turns
entries of `Again` into `Repeated` ones and leaves their sum alone, and it misses nothing. An entry
that appears pushes at most one over the border to the back, one that vanishes pulls at most one to the front, a
move adds at most one to either side (`InsertMoves`, `RemoveMoves`). So `vanished + moved` bounds `Missed`, and
`appeared + moved` bounds `Repeated` and `Again` together. `LongEnough` says that a loop runs on only behind
a page that did not end it, when the list, with what vanished since, was long enough. Offset and
window are multiples of the page size, so a refused page begins exactly at the window, which
with `LongEnough` is `RejectedOnlyWhenFull`.

**Requests** (QueryProofs). `RemoteAsLocal` is about the state after the last step, so `HttpInv` says what it takes in every
state before: the request is the encoded call (`RequestOK`), a search on its way is the one Query would make of
the call itself and Query has nothing to refuse (`SearchOK`), the answer decodes to what Query said
(`AnswerOK`). Each of the four operations with a search has a lemma (`ListArrives`, `TotalArrives`, `RightsArrive`,
`CheckArrives`) that the way through its endpoint changes neither what is refused nor what is searched: what is left
of any options after the URL is their normal form (`OptionsArrive`), and the status code of every error of the operation
decodes to that error again (`ErrorsDecoded`). For `AnswersTellOutcome`, `PartOK` says which error,
which code and which failed parts a query message may have in front of each part: what failed lies before the part
(`FailedBefore`); if no error is left, every failure was overwritten; the code 200 comes only from an added modifier, and an
error beside it from a part behind that (`FailedBehind`); every other code comes with the error that ended the message.

*Only model-checked:* all liveness (`PermCatchesUp`, `ResourceCatchesUp`, `AnnotationCatchesUp`,
`EveryoneStarts`, `ReplayEnds`, `LoopEnds`, `ConsumedIfStarted`), which is beyond this prover under
fairness. Every safety invariant and action property of a passing run is a theorem
(`InitialRightsAsConfigured` for the configurations named above). No module
declares a RECURSIVE operator.

## 6. Abstractions and what is not modelled

*Worker.* The topics are fixed in the initial state; as nothing is read before its time,
this is the same as producing meanwhile. Each consumer reads one topic with one
partition; a consumer of several topics sees one merged log. A request is executed before its response
is lost, never later; LateWrites drops that restriction for the resource consumer. Conflicts of partial updates are counted as
`BulkLost`. With one bulk worker items are flushed in order, with more in any. An update that
changes nothing still counts as a write. All kinds of an annotation topic configure the same
fields. The guard on an empty `entry.Resource` cannot be reached, as a stored document has one. That two group lists may share
one array (model.go:70 appends to the admin list) shows only from five groups on and is left out.
The retry stops the process after ten minutes, which is a `Crash`, as
is the end of a call after one minute.

*LateWrites.* Only valid PUT, RIGHTS and DELETE commands; the permission handler reads and sends in one step,
its answer is of no interest. The default of `FatalErrHandler` ends the process; what tests put
in its place is not modelled. Sequence numbers are per document and never start again.

*RightsApi.* The permission topic is left out: its commands may take any right from any document, so that
with them `AdminUserKept` would say nothing. Ids with a "/" of their own are left out. The order in which
two topics of one kind are read does not occur, as a kind has one resource topic.

*Http.* CORS, the log of deprecated calls and the health check are left out. A `filter` without
":" and ids with commas are not told apart from others, JSON values are opaque. Selections
and aggregations only travel: they are translated to a query that OpenSearch evaluates.

*Indexes.* One kind. An index that a migration left behind between its creation and its swap blocks later
migrations until somebody removes it: this is in the model, and no property forbids it.

*Pages.* Replies of searches with `search_after` are part of Replay.

*Replay.* One kind, one search view of the index; ids are ordered as numbers. Older rights win over those
given between the search and the command, as in the code. An error ends a scan like a last page, and
the exit code is 0. Replay may fill an empty creator.

*Access.* Text search, selection and filter are one condition on the features. Sorting, aggregation, validation,
several parts in one query message, raw ids with a modifier the configuration does not know, and what templates
write into the features are left out. A list request that fails and adds a modifier is
answered through `POST query` with an empty list and status 200; the model has it and
`AnswersAfterFailure` allows exactly that.

*Not modelled:* what a selection, an aggregation or a template computes (`lib/query/selection.go`,
`aggregation.go`, `lib/query/modifier/templatemodifier.go`): they are translated, without state, for a library or for OpenSearch
to evaluate, and a model of them would restate the translation. Loading of the
configuration, creation of topics, the file format of the export, the test client: pure input and
output. `components` of PROJECT.json says for each part what is left out.

## 7. What is left

1. Permission commands beside RightsApi, with a property about what they may take.
2. Export followed by import into a new database, while its workers already consume.
