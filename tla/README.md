# A TLA+ model of go_testapi

go_testapi is a REST and SOAP test server. It keeps users, persons and contracts in two
in-memory stores, saves each store to one JSON file after every change, and serves them
through four front ends: its own REST and SOAP routes, and the REST and SOAP routes that
a *profile* (a JSON file) declares to mimic another product.

This directory models how the stores stay correct under concurrent requests, failed
saves and loads, a process that dies at any point, and long sequences of calls from all
the front ends; and the parts around them: authentication and rate limits, the OIDC
login, list pages, and the mapping of profiles. The TLC configurations check small
instances. The proof modules prove the safety properties for every size.

## 1. The system

### Parts, state and operations

| Part | State it keeps | Operations | Source |
|---|---|---|---|
| Store | `users` map, RWMutex | Create, Update, SetEnabled, SetManager, Delete, AddPermission, RemovePermission, Seed; List, Get, GetPermissions | `store.go` |
| PersonStore | `persons` and `contracts` maps, RWMutex | create, update and delete of both, SeedPersons; lists and gets | `store_person.go` |
| Persistence | `users.json`, `persons.json`, a `.tmp` beside each | saveJSON, loadJSON | `persistence.go` |
| REST front end | none | 24 routes under `/api` | `handlers.go`, `handlers_person.go` |
| SOAP front end | the profile's operation table | one endpoint, 20 operations | `soap.go` |
| Profile front end | the profile | 24 actions over REST, 17 over SOAP | `handlers_profile.go` |
| Profile transforms | none | map a body to a row and a row to a response, merge contracts into a person | `profile.go` |
| AuthService | `tokens` map, RWMutex | issue a token, check a request | `auth.go` |
| OIDCService | `sessions` and `states` maps, RWMutex | login, callback, logout, me | `oidc.go` |
| ResourceLimiter | a token bucket | admit or refuse a request | `middleware.go` |
| Pagination | none | page parameters, slice of a list, next-page link | `middleware.go` |
| RequestLogger | the log file | snapshot of body and response | `logging.go` |
| Config | none after boot | defaults, decoding, repair of limits | `config.go` |

`main.go` builds the parts in this order: configuration, both stores (each loads its
file), seeding, then the routes. A request runs in a goroutine of its own. It passes the
logger, authentication and the limiter of its group, and ends in a handler that makes
one or more calls of a store. The stores share nothing. A store call takes the store's
lock once, so there are three kinds of multi-step behaviour: *inside* a call (lock,
check, change, save, unlock); *between* the calls of a handler that makes several (a
profile's update of a user makes two, a merged list of persons one per person, the
profile page of an OIDC session two); and *after* the last call, while the handler
encodes what it was given.

### What is hard about it

- **Concurrency.** The check of a username and the insertion must be one critical
  section; a list copies row by row while writers wait; tokens and sessions are read
  under a lock and judged after it.
- **Sharing.** What a store hands out still refers to its own maps and arrays.
- **Durability.** The save is made under the lock and its failure is only logged, so the
  map may run ahead of the file. The process may die between any two system calls.
- **Boot.** A failed load is only logged; what follows treats the store as empty. A
  configuration that decodes half way is used as it is.
- **Long call sequences.** Four front ends validate differently and all end in the same
  operations: unique names, the foreign key of contracts, custom fields and permission
  lists must survive every mixture of them, and restarts.
- **Handlers of several calls.** Anything may happen between two store calls.
- **Time.** Tokens, login states, sessions and buckets live by the clock, which moves
  between any two steps of a request.
- **Clients of several requests.** A client that follows `next_page`, or sends back an
  item it was shown, acts on what the store was some time ago.
- **Order of Go maps.** Both transforms range over a map, in another order every time.

`PROJECT.json` lists each of these hazards at its line, with the properties that watch
it, or the reason why no property does.

### What makes each part correct

| Part | Properties |
|---|---|
| Persistence | The data file is whole whatever fails; a save that reports success is in it; an error leaves the old file. |
| Locking and saving | Checks hold until the change is made; lists are snapshots; what is answered is durable unless a failure was logged; every request is answered. |
| Store | Usernames are unique; custom fields survive; permissions do not repeat; the store is a durable table of names. |
| PersonStore | Contracts have persons and never move; phones are never null; custom fields survive. |
| Merged lists | Each row is true of its person. |
| Lists and pages | Pages cut the list without gap or overlap; a client that follows the links reads nothing twice and misses no more rows than were deleted. |
| Tokens and limiters | A token lives as long as its client was told; a group admits at most its rate and burst, and refuses only when they are used up. |
| OIDC login | A state leads to one exchange, in time; no dead session is shown; a session ends only by logout or expiry. |
| Transforms | An update makes exactly the changes its body asks for; an answer shows every mapped field; an item may be sent back. |

## 2. Modules

| Module | Models | Depends on |
|---|---|---|
| `RWMutex` | `sync.RWMutex` as used here (a library, modelled from its use): a writer announces itself, waits for the readers inside, parks the readers that come later and lets them in when it leaves | |
| `AtomicFile` | `persistence.go` | |
| `UserTable` | the `users` map reduced to id and username | |
| `DurableTable` | the abstract specification of a store: whole operations on a table, a disk copy that is the table as of some earlier operation | `UserTable` |
| `StoreProtocol` | goroutines that go through lock, check, change, save, unlock, or through a list; boot and crash; with a data directory or without | `UserTable`; instances of `RWMutex`, `AtomicFile`, `DurableTable` |
| `UserStore` | every operation of Store on whole rows, reached from the four front ends | `UserTable`; an instance of `DurableTable` |
| `ProfileUpdates` | the two calls of a profile update, and what others do between them | `UserStore` |
| `PersonStore` | every operation of PersonStore, reached from the four front ends | |
| `MergedPersons` | a merged list made while others call PersonStore | `PersonStore` |
| `Config` | the numbers of `config.go`: decoding, defaults and repair | |
| `Paging` | the page arithmetic of `middleware.go`, in integers that wrap | |
| `Listing` | the order of the lists, and a client that follows `next_page` while others create and delete | `Config`, `Paging` |
| `SharedRows` | the maps and arrays of one user: which are handed out, which are written in place | an instance of `RWMutex` |
| `Gateway` | token issue, authentication and the two limiters, with a clock | `Config` |
| `OidcLogin` | `oidc.go`: every handler by single accesses of its maps, and the browsers' cookies | |
| `Transform` | both transforms of `profile.go`, entry by entry, and the update route around them | |
| `MC*` | definitions for TLC's instances | the module named |
| `*Proofs` | theorems and proofs | the module named, `TLAPS` |

The grain of the models follows one argument. `StoreProtocol` takes a store call apart:
every lock operation, every row copied, every system call of the save is a step. It
shows that callers nevertheless see whole operations (`DurableTable`). `UserStore`,
`PersonStore`, `Listing` and `Transform` rest on that and make each store call one step,
which leaves room for the full rows and for all front ends; what is several calls in the
code is several steps there too. PersonStore uses the same lock and save discipline as
Store, line for line (`defer Unlock`, `persist` as the last statement), so the protocol
is modelled once, on Store. That the rows a call returns are copies is where the
argument ends: `SharedRows` shows what the copies share.

### How state and actions correspond to the code

`AtomicFile`. `file` and `tmp` are the two files; each is absent, a whole value, or
`Torn`. `stage[s]` is the system call at which goroutine `s` is inside saveJSON. Each of
`CreateTmp`, `Encode`, `Close` and `Rename` may fail, and `Discard` is the `os.Remove`
of the error paths. A crash leaves the files as they are. A power failure that loses a
rename or written blocks is outside the model: saveJSON calls no fsync and promises
nothing about it.

`StoreProtocol`. `pc[t]` walks `lock, check, apply, persist, saving, unlock, reply` for
a change and `rlock, copy, runlock, reply` for a list. `Verdict` is the decision each
operation takes under the lock, `Changed` the table it makes. `storage` is `memory` for
a store without a file name, which loads and saves nothing. `committed` (the table as of
the last completed change) and `unsaved` (the last save or load was logged as failed)
are history variables: they constrain nothing. Main seeds before any request is served,
as in `main.go`.

`UserStore`. A row has the username, enabled, manager, the permission list and the set
of attribute *keys*; `origin` is history. E-mail and the two names are left out: they
are set under the same guard as the username and nothing depends on them. The front ends
differ in what they check and in what their body can carry: REST refuses an empty
username and permission, SOAP checks neither and carries no manager, permissions or
attributes, a profile's SOAP element is a string, so a boolean or a list in it does not
decode. `half[c]` is the second call that a profile update (`actUpdateUser`) still has
to make.

`ProfileUpdates`. `target[c]` is the user of the update under way and `updated[c]` the
handler's variable of that name: the copy its last call returned, or nothing after an
error. `due[c]` is history: the user as it should be, from what the body asks for
(`Meant`) and, field by field, from what every later step of others has changed
(`Since`). That a crash between the two calls leaves half of an update in the file is
what the code does; no text promises otherwise. What the answered copy shares with the
row is the subject of `SharedRows`.

`PersonStore`. Persons keep `phones` (a list, or the null of a nil slice) and attribute
keys, contracts their person and attribute keys. The file to start from may have been
written by hand, with null phones, but has no contracts: NewPersonStore does not look for
the persons of the contracts it loads, so an orphan that somebody writes into the file
stays one. One demo person with one contract stands for the two
persons and three contracts of SeedPersons.

`MergedPersons`. `todo[r]` and `merged[r]` are the progress of one list request; `kept`
and `had` record, for each person, the contracts it had *throughout* and *at some time
during* the request. A single person (`get_person`) is a list of one.

`Config`. A key of the file is a sequence of at most one number: empty when the key is
missing, and also when its value has a wrong type, because the decoder skips such a
value, goes on, and reports the error at the end. `Repaired` is the code after the
decoding, which also runs after an error.

`Paging` and `Listing`. `Paginate`, `TotalPages` and `NextPage` compute modulo `2 *
(MaxInt + 1)` as the machine does, and `Panics` says when the slice expression or the
division would end the request. Users, persons and contracts are alike here: a row has
an id and `born`, the reading of the clock under the write lock. The walk is `next`,
`size` and `seen`; `kept`, `losses` and `wedged` are history.

`SharedRows`. A map is one cell, an array one cell for each element. `cells[t]` are the
cells that a goroutine writes under the lock, `Encoding(t)` those that the encoding of
its answer reads after the unlock.

`Gateway`. A bucket counts in parts of a token, `Period` of them, `Period` being the
ticks of ten seconds, so that a refill is a whole number. `Stamp`, `StoreToken` and
`HandToken` are the three points of issuing a token, `LookUp` and `Compare` those of
checking one. `Group` is the configured group a route belongs to, `Limiter` the bucket
it really passes. `/soap` passes none. `asked`, `handed`, `began`, `total` and `before`
are history.

`OidcLogin`. A handler goes to the server's maps one access at a time: `Login` stores
the state, `Redirect` answers with the cookie, `Claim` takes the state out, `Exchange`
is the provider, `StoreSession` and `Welcome` end the callback; `ReadSession`,
`CheckExpiry` and `Remove` are the three steps of sessionFromCookie. A browser may have
several logins under way, repeat a callback, and lose the answer to a logout.

`Transform`. A JSON value is a scalar or a function from its keys. `ForwardField` and
`ReverseField` take one entry of `field_map` each, any that is left. `Present` is the
test by which actUpdateUser decides on the second call. `asked` is what the request
means, kept apart from the shape of its body. Other front ends change the row between
requests (`Touch`); what they do between the two calls of one is in `ProfileUpdates`.

## 3. Runs

| Run | Question | Result |
|---|---|---|
| `store_protocol` | Do lock, check and save together keep names unique, lists whole and answers durable, with failing saves and loads and a crash at any step, and look like a table of whole operations? Can a failing call leave part of an encoding, or change the file on an error path? | yes; no: `StoreInv` (the invariant of the proofs, types included), `UniqueNames`, `ListIsSnapshot`, `ListIsDurable`, `AckIsDurable`, `FileIsWhole`, `SuccessMeansSaved`, `OldUntilRenamed`, `ImplementsDurableTable` |
| `store_liveness` | Is every request answered? Does seeding ever write over loaded records? | `Answered` and `SeedKeepsData` hold |
| `user_store` | Do the invariants of users survive every mixture of calls of all front ends? Do the two calls of a profile update lose anything that was asked for, or that others changed between them, and does its answer show the result? | yes: `UniqueUsernames`, `CustomFieldsKept`, `PermissionsStayDistinct`; no, and yes: `UpdatesAddUp`, `AnswersShowOutcome` |
| `user_store_faults` | And with saves that fail? Is the store a DurableTable? | yes: `TypeOK`, `ImplementsDurableTable` |
| `person_store` | Are there orphans, null phones or lost fields? | no: `TypeOK`, `ContractsHavePersons`, `PhonesAreLists`, `CustomFieldsKept` |
| `merged_persons` | Is a row of a merged list true of its person although others change the store meanwhile? | yes: `RowsAreTrue` |
| `listing` | What does a client that follows `next_page` read and miss? Do the pages cut the list for every size it can get? | `TypeOK`, `SeenInOrder`, `MissedAtMostLosses`, `PagesPartition` hold |
| `gateway` | Does a token live as long as its client was told? Does a group admit its rate and burst, no more and no less? | yes: `TypeOK`, `TokensLiveTheirLife`, `AdmitsWithinRate`, `RefusesOnlySpent` |
| `oidc_login` | Repeated callbacks, logouts and expiring sessions at once: is a state used twice or late, a dead session shown, a live one lost? | no: `TypeOK`, `OneExchangePerState`, `LoginsAreInTime`, `ShownIsLive`, `SessionsEndForCause` |
| `transform` | Does an update change what its body asks for and nothing else, in whatever shape and order, and does the answer show it? | yes: `TypeOK`, `AsAsked`, `RefusedForTypes`, `AnswerShowsRow` |

Two runs show where the code and a sentence of the repository disagree. TLC finds a
behaviour that violates what the sentence says:

| Run | The sentence | The code |
|---|---|---|
| `load_error` | `config.json:34`: "When seed_data is true and a data file already has records, seeding is skipped", "so existing data is preserved across restarts." | A load error is logged and the store stays empty (`store.go:61`), so Seed runs and its save replaces the file. |
| `shared_rows` | `store.go:46`: "Store is a thread-safe user store with optional file persistence." | Rows are copied but their Attributes map and Permissions array are not (`store.go:122, 141, 175, 214`). A handler encodes them after the unlock, while Update writes the same map and RemovePermission the same array. Go ends the process when it notices a map written during an iteration. |

`load_error` differs from `store_liveness` in one constant (`LoadMayFail`):
`SeedKeepsData` holds exactly as long as the file can be read. Without seeding it is the
first change after the failed load that replaces the file, with that change alone. The
models have this too (`Load`, and `Boot` of `DurableTable`); no text promises otherwise.

`SeenInOrder` has a condition, `~wedged`: two rows created at one reading of the clock
are ordered by their random ids, so the later one may sort before the earlier one and
shift a page. Then a row can be read twice. `MissedAtMostLosses` has no such condition:
nothing is skipped.

### Bounds, and why they are enough

- Stores: two clients and the booting goroutine, that is a writer with a waiting writer,
  and a writer with a reader. Two ids and two usernames: enough for a collision, a
  rename to a taken or to a free name, and a delete followed by a reuse of the name.
  `store_liveness` has one id: it asks about the lock, not about names.
- `user_store`: one client whose update is under way, while all other requests rename,
  enable, disable, grant, revoke or delete. A second client would add nothing: each of
  the two calls of its update is one that others make too (`OneCall`). A new user does
  not get the id of one that is being updated (`FreshIds`). The manager stays empty (it
  is merged like the username, and nothing is checked of it), and no saves fail: the two
  calls meet in the map. The proofs have managers, failing saves and any number of
  clients. `user_store_faults` has failing saves, and one permission in place of two.
- Two persons and two contracts: a contract of one's own, one of somebody else's, and a
  cascade that must take one and leave the other. One attribute key, configured.
- A create needs a free id (`RoomToCreate`, `CanCreate`, `RoomForPerson`,
  `RoomForContract`): the ids of the code are 64 random bits and do not run out. A
  collision of random ids is not modelled. The same goes for the states and sessions of
  `OidcLogin` and the tokens of `Gateway`: each is drawn once (`used`, `asked`).
- A body of a create carries no permission or the same one twice (`BodyPerms`). A list
  grows only by AddPermission, at most once for each of the two permissions, so it is
  finite.
- `listing`: four rows and two readings of the clock; pages of 1, 2 and 3 rows, from
  missing, zero and negative keys, and from page_size absent, 0, 1 and above the
  maximum. Four rows on pages of one or two give a walk of several pages with deletions
  before and behind the reader. `MaxInt` is 15, more than three times the rows, as
  `ListingFits` asks. `PagesPartition` speaks of pages whose products fit an int. A page number near the limit of the machine wraps and
  panics or answers a wrong page; no text of the repository promises otherwise.
- `gateway`: two clients, one token, three ticks, a life of one tick and two ticks in
  ten seconds; a rate below and one above a token per tick, each with a burst that is
  missing or repaired, and a group without a limit. The clock does not step back. Tokens
  and buckets are lost when the process ends, so a restart is a new `Init`.
- `oidc_login`: two of everything, a state that lives one tick, a session cookie of two,
  a token of one or without an expiry. Two goroutines suffice for each race: two
  callbacks with one state, a logout or another page between the two looks at a session.
- `transform`: two texts, two attribute keys, three mappings that have the shapes of the
  profiles shipped with the program (flat with item_extra, labeled under an item key
  with a template, two fields at one key). `Templates` is the one template and its parts,
  two objects deep.
- `shared_rows`: two goroutines, two maps, two arrays, two permissions.
- Symmetry is used in runs of invariants and action properties, and of the refinement
  without fairness, only: over random ids, states and sessions, and over interchangeable
  clients and browsers.

Deadlock is checked in every run in which the system never stops. `gateway`, `listing`,
`oidc_login` and `shared_rows` do stop, at the bounds of the clock or of what can be
drawn, and `transform` and the stores do not.

### Fairness

`Fairness` of `StoreProtocol` has weak fairness of each goroutine's next step: the Go
scheduler runs every runnable goroutine. It has strong fairness of `EnterLock`, because
a goroutine in `Lock` may find the inner mutex taken again and again: `sync.Mutex` hands
the mutex to a waiter that has waited for a millisecond (starvation mode), so a writer
that can repeatedly have the lock eventually gets it. Readers need no such assumption:
Unlock lets in all that are parked. No fairness is assumed of new requests, of crashes
or of any call's success; a crash ends the requests it interrupts. The other modules
state safety only: their handlers wait for nothing but a lock that is held for one map
access.

## 4. Proofs

| Module | Theorem | Statement |
|---|---|---|
| `StoreProtocolProofs` | `ProtocolInvariant`, `StoreInvariant` | `Spec => []StoreInv`, and the part of it that concerns lock, map and file |
| | `TypeCorrect`, `NamesStayUnique`, `ListsAreSnapshots`, `ListsAreDurable`, `AnswersAreDurable`, `FileStaysWhole`, `SuccessIsSaved`, `FileIsOldUntilRenamed` | the safety properties of `store_protocol`, from it |
| | `SeedKeepsRecords` | `SeedKeepsData`, if loads do not fail |
| | `StoreRefinesTable` | `Spec => ImplementsDurableTable` |
| `UserStoreProofs` | `UsernamesStayUnique`, `FieldsStay`, `UsersRefineTable` | `UniqueUsernames`, `CustomFieldsKept`, `ImplementsDurableTable` |
| | `TypeCorrect`, `PermissionsStay` | types, `PermissionsStayDistinct` |
| | `UpdatesLoseNothing`, `UpdatesAnswerOutcome` | `UpdatesSpec => []UpdatesAddUp`, `UpdatesSpec => AnswersShowOutcome` (of `ProfileUpdates`) |
| `PersonStoreProofs` | `PersonInvariant`, `TypeCorrect`, `NoOrphans`, `NoContractMoves` | types, no contract without its person; `ContractsStay`, which no run checks |
| | `RowsInvariant`, `PhonesStayLists`, `FieldsStay` | `PhonesAreLists`, `CustomFieldsKept` |
| `MergedPersonsProofs` | `RowsStayTrue` | `MergedSpec => []RowsAreTrue` |
| `OidcLoginProofs` | `LoginInvariant`, `TypeCorrect`, `ExchangesOnce`, `LoginsEndInTime`, `ShowsLiveSessions`, `SessionsEndWithCause` | `Spec => []LoginInv`, and all properties of `oidc_login` from it |
| `GatewayProofs` | `GatewayInvariant`, `TypeCorrect`, `TokensLive`, `AdmitsInRate`, `RefusesSpent` | `Spec => []GatewayInv`, and all properties of `gateway` from it |
| `ListingProofs` | `WalkInvariant`, `TypeCorrect`, `WalkIsInOrder`, `WalkMissesFew` | `Spec => []WalkInv`, and types, `SeenInOrder`, `MissedAtMostLosses` from it |
| | `PagesAreExact` | `Spec => []PagesPartition` |
| `TransformProofs` | `TransformInvariant`, `TypeCorrect`, `UpdatesAsAsked`, `RefusedBeforeStored`, `AnswersShowRows` | `Spec => []TransformInv`, and types, `AsAsked`, `RefusedForTypes`, `AnswerShowsRow` from it |

They hold for any number of goroutines, ids, names, fields, tokens, browsers and
sessions, any lives, rates and bursts, lists of any length, profiles and templates of
any depth, and for both values of each switch. They assume only what the modules assume of their constants: `StoreAssumption`
(markers such as `Nobody` and `Torn` are not goroutines or tables), `PersonData`,
`UserData`, `NoUserIsNoId`, `OidcData` and `GatewayData` (the same for theirs, and that lives and
periods are numbers), `ConfigData` (the built-in defaults are positive), `IntWidth`,
`ListingData`, and `ListingFits`: a configured maximum is an int of the machine, because
the decoder refuses a larger number, and three times the number of rows that could ever
be created is one too, because no memory holds a third of 2^63 rows. Without the second
part `(p - 1) * size` can wrap, and a walk would be answered a wrong page.

`Transform` assumes that JSON has no object that is a scalar (`ScalarData`,
`ObjectsAreNoScalars`), that templates are nested finitely deep (`TemplatesEnd`, over
`Templates`, which has the templates of the profiles and all their parts), and
`ProfileData`, which is what an operator has to see to: fields at one external key have
one type, no field has the item's key, a default for a field has its type, and a value
path leads to the `"$"` of its template. The shipped profiles do, and nothing in the code
checks it: with a value path that misses, a labeled field is read back as an object.

**StoreProtocol.** `UniqueNames` is not inductive: a state in which a goroutine is about
to apply a create whose name somebody has just taken satisfies it, and its next step
does not. `StoreInv` adds what the lock gives. `LockInv`: at most one goroutine is in a
critical section, it owns the lock, and past `check` no reader is inside. `ReqInv`: the
verdict a goroutine took under the lock still holds when it applies the change; this is
the step from mutual exclusion to uniqueness. `CopyInv`: rows copied under the read lock
are rows of the current map. `SaveInv`: a save in progress writes the current map, and a
`.tmp` that may be renamed holds it. `CommitInv`: the map differs from the last
completed change only during a save, and without a logged failure the file holds that
change. One lemma for each action shows that it preserves the conjunction, conjunct by
conjunct.

The refinement maps the table to `committed` and the disk copy to what a boot would
load. `ChangeInv` says that during a save the map is one operation ahead of `committed`,
and which one. The last system call of a save, or the `persist` that has no file to
write, is therefore that operation; every other step of a goroutine is a stutter,
because only the rename of a finished encoding changes what would be loaded
(`OldUntilRenamed`). `BootInv` orders boot, seeding and the first request.

**UserStore.** Uniqueness depends on little of the rows: `NamesInv` says that every row
has a username and that no two are equal, in the map and in the file. All operations but
Create, Update and Seed go through one lemma, "a change of another field leaves the
username alone". The refinement adds that usernames are members of `Names`: then a
change of another field is a rename to the name the user has, which matters because its
save may bring to the disk what an earlier one has missed.

The types and the permissions are proved together, operation by operation: each keeps
`StoreOK` and satisfies `PermsStay`, the step part of `PermissionsStayDistinct`. What
RemovePermission keeps is a loop over the list. `LoopEnds` shows that the loop has a
result for a list of any length and `WithoutIs` what that is: every entry but the given
permission, and no repetition that was not there. Both are inductions over the rounds,
through the least round that fails (`AllNumbers`). `UserInv` adds to the types that a
server that is down has no users: so a boot, which loads older rows of the same ids,
replaces no list of permissions.

`UpdatesInv` carries the two calls of a profile update: while the second one is pending,
the user differs from what is due in `enabled` at most, and the call is about the user
that the first one was. A step of somebody else moves both alike (`WatchedFollows`),
because `Since` takes over exactly the fields in which the row changed; the second call
makes them equal. Every step of `ProfileUpdates` is one of `UserStore`
(`UpdatesStepIsStep`), so the types come from `UserInv`.

**PersonStore.** `TypeOK /\ ContractsHavePersons` is inductive, because the file is
always an earlier pair of maps. The action property is proved along with it: each
operation is shown to end in `Kept`, the invariant and "no remaining contract has
changed its person". `RowsInv` adds the phones and fields of the rows in memory, and the
fields of those in the file.

**MergedPersons.** While a list is under way, what each person has now lies between
`kept` and `had`; since a person that is gone has no contracts (`ContractsHavePersons`),
the second call finds what the person has, whether it is still there or not.

**OidcLogin.** `StateInv`: a state leaves the map before its one exchange, and the
cookie that carries it ends `StateLife` after it was offered. This is why it does no
harm that the server never reads the expiry it stores. `SessionInv`: a session that is
gone stays gone, so what a request has read of a session is what the map still holds,
unless it is gone.

**Gateway.** `LifeInv` puts the expiry of a token between its life from the question and
from the answer; `IssueInv` says that nobody else can have a token before it is
answered; `CallInv` that what a request has read of its token is still so. `BucketInv`
is about spans of time: for each moment `s`, the requests admitted since, and what is
left in the bucket, come to at most the burst and the refills since `s`, and there is a
moment (the last time the bucket was full) at which they come to exactly that. The first
half gives `AdmitsWithinRate`, the second `RefusesOnlySpent`.

**Listing.** The page arithmetic is exact as long as the products fit an integer: the
bounds of a page do not wrap, and page `p` lies before the last one exactly when rows
remain behind it. The rank of a row is the number of rows before it. Ranks are distinct
and less than the number of rows, so they number the rows without gap (`ListByRank`), row
`k` of the list has rank `k - 1`, and a page is a range of ranks. `SeenInOrder` is not
inductive: nothing in it keeps the next page from showing a row again. `WalkInv` says
what lies in front of the next page. `OrderInv`: at least all rows of the store that the
client has passed (`PassedBy`: those that do not sort behind all it has read); a new row
sorts last and a deleted one only makes room, so this stays so, and the next page starts
behind everything read. `SkipInv`: among the lasting rows in front of the next page at
most one for each deletion is unread, because a deletion lets at most the one row slip
over the boundary that stands there (`DeleteKeeps`). `LinkInv` bounds the rows in front
by the rows there are: a link is given only when rows remain behind the page. With
`ListingFits` it keeps the arithmetic of the next page exact.

**Transform.** getNestedValue, setNestedValue and applyValueTemplate are recursive
functions, over the position in the path or over the parts of a template. `PathEnds` and
`TemplatesFill` show that they have a result, by induction over the length of the path
and the depth of the template; `TemplateReadBack` that the value path of a template
leads, in what the template becomes, to the value that was put there. So every shape a
client may give a value is read as that value (`ReadBack`), and the body as a whole says
what is asked (`SendSays`; `ItemSays` for an item that is sent back). `AsAsked` speaks of
the end of an update and says nothing of the loop before it. `TransformInv` has the map
that is built for any set of entries taken: reverseTransform has `InternalOf(D)` and
forwardTransform `FieldsOf(shown)`, where `shown` has what the row has at the paths of
`D`. `BuiltMore` and `ShowsMore` take one more entry, whichever it is: for an attribute
this needs that the object on the way keeps the attributes it already has. `RequestInv`
then follows the row from the patch to the second call, and `TypesDecide` says which
bodies json.Unmarshal refuses. The invariant was checked on the instance of run
`transform` before it was proved.

Checked by TLC only: `Answered`, because liveness under fairness is out of the proof
system's reach here. No module declares a RECURSIVE operator.

## 5. Mutants

The definitions named `Op_SomethingWrong` are variants of `Op` as a plausible mistake
would have it: a shared in place of an exclusive lock, a save of the rows before the
change, a delete without the cascade, a state that is looked up and not removed, a
limiter that comes before authentication, a nested object made anew for every field.
Each property is paired in `PROJECT.json` with a variant under which TLC finds it
violated. They take part in no specification.

## 6. Not modelled, and why

- The JSON and XML encodings, CSV exports, the WSDL, HTML pages and the banner:
  formatting without state.
- Reads of one row (Get, GetPermissions, GetContract), and profile routes that only
  read: look-ups by another field, the manager of a user. Each call is one copy under
  the read lock; a manager that goes between the two calls is shown as missing, as if it
  had gone before. `SharedRows` has Get for what the copy shares.
- Values of e-mail, names, dates and addresses: set under the same guards as the fields
  that are modelled.
- The request logger. It replaces the body by the part it has read, at most 64 KB
  (`logging.go:49`), and says "so handlers can still read it" (`logging.go:46`): a
  handler of a longer body finds it cut. This follows from two lines; there is no
  behaviour to explore.
- `field_formats`, list envelopes and the text of labels and types in `Transform`. Under
  `attribute_style` "labeled" an object without a `value` counts as labeled with null as
  its value (`profile.go:336` says that plain values are accepted); the properties
  except a template sent without its label.
- A load that fails half way. The file is one that an earlier run has left, which is a
  whole encoding (`FileIsWhole`); what fails is opening or reading it, before any row is
  decoded. In a file that somebody has edited, a value of a wrong type makes the decoder
  return an error and the rows it could read, and the store keeps those
  (`store.go:64`).
- A negative `token_expiry_s`, which `config.go` does not repair: its tokens are over
  when they are issued. `Life` is a natural number.
- Storage that loses writes the system has acknowledged (no fsync), and two server
  processes that share a data directory.
- The choice between a profile's SOAP operation and the built-in one (one table
  look-up), merge_first_contract's choice of the first row, exact fractions of a rate (a
  rate is a whole number of requests per ten seconds).

Places where the code and a text of the repository differ in a way that needs no run to
be seen:

| Text | Code |
|---|---|
| `profiles/GUIDE.md:222`: `username` is "required on create" | a profile's SOAP create does not look at it (`handlers_profile.go:872`) |
| `README.md:82`: every new entity gets the configured defaults | Seed bypasses `initAttributes` (`store.go:97`) |
| `docs.html:1085`: UpdateUser takes any of the create fields | the patch has no Enabled (`soap.go:187`) |
| `config.go:23`, `docs.html:435`: requests allowed per 10-second window | ten seconds admit the rate and, once, the burst as well (`AdmitsWithinRate` states the bound) |
| `oidc.go:42` "nonce → expiry", `oidc.go:109` "OIDC state expired or unknown" | the expiry of a state is never read; the cookie's Max-Age ends a login |
| `config.go:156` "using defaults" | what was decoded before the error is kept |
| `profile.go:14` "external key → internal key" | the loop reads it from internal to external (`profile.go:354`) |
| `docs.html:1260` documents `/oidc/token` | there is no such route |

## 7. Plan

Done: persistence and lock, the store protocol and its abstract specification, users,
profile updates, persons and contracts, merged lists, configuration, lists and pages, shared rows, tokens
and limiters, OIDC login, transforms; every safety property of the passing runs proved.

Next:

1. `ProfileReads`: look-up chains, manager routes and `merge_first_contract` as steps of
   one request, with the rows changing in between.
