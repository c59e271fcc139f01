# BadgeKeeper iOS in TLA+

TLA+ models of the BadgeKeeper iOS library, of its sample application and of the
Realm bindings it stores rewards with; the TLC configurations that check them on
small instances; and theorems about them that TLAPS checks for every value of the
constants.

BadgeKeeper is a client library for a gamification service. An application sets
the active project and user, *prepares* values (absolute ones to post, relative
ones to increment), sends what it prepared, and is told which achievements the
server unlocked. The rewards of unlocked achievements are stored in a Realm
database, from which the application reads them later.

## Inventory

| Component | State it keeps | Operations | Correct when |
|---|---|---|---|
| `BadgeKeeper` facade (`BadgeKeeper.m`) | `userId`, `projectId`, the dictionaries `postValues` and `incrementValues` of prepared pairs per user | set user and project, prepare, send for the active or a given user, two queries, the internal callbacks, the reward loop, reading rewards | a value stays with its user, is sent in order, never twice; rewards go to the right user, once, in order; the application hears of each request once and truly; calls of two threads that overlap harm no other call |
| Network service (`BKApiService.m`) | one `NSURLSession`; a data task per request | `sendRequest:onSuccess:onFailure:` and its completion handler | exactly one block per request; handlers never overlap; every request of a living process is answered |
| Request packets, `BKPair` | the pairs of one request | path, method, hand-written JSON body | the server reads the pairs of the request in their order; two requests that ask different things look different; both as far as text that is not escaped allows |
| Response packets and models | none | build objects from a JSON document | a document is an error or the list of rewards it grants; one that raises leaves no gap in what is stored |
| Reward storage (`BKEntityStorage.m`, `BKEntityReward`) | the `BKEntityReward` table | save one reward per transaction, read by name and user | rows are never lost, undone or half written; readers never go back in time, and the main thread catches up |
| Sample application | the login, the loading flag, the buttons | launch, clicks, blocks that go back to the main queue | one request at a time, for the login shown; no lock-up; the buttons come back |
| Realm: opening (`RLMRealm.mm`, `RLMObjectStore.mm`, `ObjectStore/`) | the group of the file, the write lock, the columns each process works with | open, create tables, migrate, check keys, add objects | who opens a file sees its schema; versions grow; no value that stays moves or is lost |
| Realm: transactions (`RLMRealm.mm`, `group_shared.hpp`) | per realm its transaction stage and readlock; the lock of the file | begin, promote, commit, cancel, invalidate, refresh, handle a commit of others | one writer, on the newest version; who moves tells its application |
| Realm: notifier (`RLMRealmUtil.mm`) | a named pipe, a kqueue and a run loop source per realm | signal a commit, listen, make room in a full pipe | every realm hears of every commit |
| Realm: log (`impl/transact_log.hpp`) | the log of a transaction, the encoder's selections | numbers, instructions, parsing, reversing | what is written reads back; another group follows; a rollback restores |
| Realm: observation (`RLMObservation.mm`) | infos of observed objects, the handler of a log | observe, release, delete, clear; follow rows and lists through a log | observers hear of what changes, and of nothing else |
| `BKEntityAchievement` | empty class, unused | none | - |

### How they interact

* The application calls the facade, normally on its main thread. A call that sends
  removes the user's values from the dictionary, makes a request packet and hands
  it to `sendPacket:`, which passes two blocks to the network service.
* The network service makes a data task and resumes it. Tasks are independent
  of each other; they reach the server and complete in any order.
* The session was made with `sessionWithConfiguration:`, without a queue, so all
  completion handlers run on one serial queue of the session, never on the
  caller's thread. On it the document is parsed, `sendPacket:` looks for an
  error, the internal callback saves the rewards one transaction at a time
  through the storage, and the application's block is called. The repository's
  `README.md` (line 108) warns applications of this. A block that calls the library
  again does so beside the main thread, and nothing in the library takes a lock.
* The storage is called on the session's queue (saving) and by the application,
  on the main thread (reading). Realm gives each thread a realm of its own.
* A commit of one realm is signalled through the pipe to the run loops of the others,
  which move their realm forward; the log of what they move over is read twice,
  once by the handler that looks for observed objects and once by the accessors.
* The process may end at any time. Prepared values and requests in flight go
  with it; the reward table and whatever the server did stay.

### What is hard

Concurrency (a serial handler queue beside the main thread; two unlocked
dictionaries; realms pinned per thread; processes of different releases on one
file), ordering (independent data tasks; a log that is read backwards), ambiguous
failure (a transport error says nothing about the server), partial failure (values
dropped before they are sent; rewards saved one by one; an exception in the middle
of a promotion), crashes and restarts, a full pipe, and selections, columns, rows and
infos that are remembered while what they name moves. `PROJECT.json` lists each
hazard at its line, with the properties meant for it or the reason none covers it.

## Modules

| Module | Models | Extends |
|---|---|---|
| `BKApiService` | the network service; server and `NSURLSession` as its environment | - |
| `BadgeKeeper` | the facade over the network service and the reward table | `BKApiService` |
| `BadgeKeeperCalls` | three documented statements about the value calls | `BadgeKeeper` |
| `Outbox` | abstract: what the value calls promise | - |
| `BadgeKeeperOutbox` | the refinement mapping from the facade to `Outbox` | `BadgeKeeper` |
| `PreparedValues` | one of the two dictionaries under several threads, message by message | - |
| `BKRequests` | paths, methods and the body of a request | - |
| `BKResponses` | one answer: parsers, reward loop, blocks, exceptions | - |
| `BKEntityStorage` | the reward storage over Realm's per-thread realms | - |
| `RewardTable` | abstract: a log of which every thread reads growing prefixes | - |
| `BKSampleController` | the sample's screen, main queue and session queue | `BadgeKeeper` |
| `ObjectStore` | the functions that bring a group to a schema, as operators | - |
| `RealmOpening` | processes that open and migrate one file | `ObjectStore` |
| `RealmTransactions` | transactions and notifications of the realms of one file | - |
| `RealmNotifier` | commits signalled through a named pipe | - |
| `TransactLogInts` | the encoding of the numbers of a log | - |
| `TransactLog` | a write transaction, its log, who applies it, and its reverse | - |
| `RealmObservation` | the handler that follows observed objects through a log | - |
| `ListChanges` | the same handler, for the links of one list | - |
| `ObservationInfos` | the linked infos of observed rows | - |
| `...Proofs` | theorems and proofs; `BadgeKeeperProofs` of network service, facade, both refinements and sample, `PreparedValuesProofs` also of the outbox, `BKPacketsProofs` of requests and responses, `RealmCommitsProofs` of transactions, notifier, observation and list changes, `RealmLogProofs` of log, numbers and infos | the module(s) they are about |
| `InductionLemmas` | lemmas several proofs need: induction over a set of naturals, functions built step by step, sequences with one element more or less | - |
| `MC...` | small instances for TLC | the module(s) they instantiate |

`MCClient`, `MCRealmCommits` and `MCRealmLog` check several modules in one run. These
modules share no variable; the variable `part` is chosen at the start, the chosen
module moves and the others rest, so the behaviours are the sum of those of
the parts, not their product. Each conjunct `part = ... /\ ...Next` is the module's
own next-state relation, unchanged.

A definition marked `Mutant:` is a plausible mistake in the definition after it.
It is used by no specification; with it in place of that definition, TLC finds
the property it is listed with violated, so the property can see the mistake.

### `BKApiService`

| State | Code |
|---|---|
| `task[t]` | the life of the `t`-th data task: `new`, `resumed` (`BKApiService.m:87`), `handling` (inside `success(json)`, line 81), `done` (the handler returned), `dead` (the process ended first) |
| `running` | the task whose handler occupies the serial queue |
| `called[t]` | the blocks the handler called: `json`, or a failure with one of the codes of lines 22-23 |
| `reply[t]`, `applied` | external: what the server answered, and what it carried out, in its order |

Actions: `SendRequest`; `HandlerTransportError` (lines 64-68), `HandlerParsingError`
(70-79), `HandlerCallsSuccess` (80-82) and `HandlerReturns`; `ServerAccepts` and
`ServerRejects`; `ServiceCrash`. A failure is one step, because the facade's
failure block does nothing but call the application's. The success block is the
long one, so entering and leaving it are separate steps and other things may
happen in between. A transport error or an unparsable body may be seen whether or
not the server was reached, and the server may be reached after the client gave up.

### `BadgeKeeper`

| State | Code |
|---|---|
| `userId`, `projectId` | the properties (`BadgeKeeper.h:42-45`) |
| `prepared[kind][user]` | `postValues` and `incrementValues` (`BadgeKeeper.m:36-37`); an absent array is an empty one |
| `packet[t]` | the request of task `t`: kind, project, user, pairs |
| `rewards`, `saved` | the rows committed through the storage; how far the reward loop of the running handler is |
| `callback[t]` | the application's blocks that were called for task `t` |
| `pair`, `launch` | history: every `BKPair` made, for whom and in which launch |

| Action | Code |
|---|---|
| `PrepareValue` | `preparePostValue:`, `prepareIncrementValue:`, lines 116-132 |
| `SendPreparedValuesForUserId`, `SendPreparedValues` | lines 134-206: guard, request, removal and `sendPacket:` in one step |
| `SendPreparedValuesIgnored` | the same calls with nothing to send (or nil), lines 145-147 and 182-184 |
| `GetProjectAchievements`, `GetUserAchievements` | lines 81-114 |
| `TransportFailure`, `ParsingFailure` | the failure block passed on, line 272 |
| `ReceiveJSON`, `ApiFailure` | lines 262-268 |
| `SaveReward`, `DeliverSuccess` | line 270, lines 156-165 and 193-202, lines 213-225 |
| `ServerAnswers`, `Crash` | external |

Values, keys and rewards are numbers and model values: the properties only tell
pairs apart. One reward list stands for the rewards of all unlocked achievements
of a document in the order in which the two nested loops visit them.

### `Outbox` and the refinement

`Outbox` forgets dictionaries, tasks and handlers. A value waits in a group (a
kind and a user) or is in a batch; a send takes all its group holds; the server
applies or refuses a batch as a whole; the application hears at most one verdict
of a batch, and a definite one is true; what was not sent when the process ends is
lost. The mapping reads the group contents off the dictionaries, the batches off
the packets, the fate off the server's reply, the verdict off the callbacks. The
refinement says that a send takes everything exactly once, that nothing of a
failed request comes back, and that only the end of the process loses a value
that waits.

### `PreparedValues`

`BadgeKeeper` takes each call as one step of one thread. `PreparedValues` takes the
calls of one dictionary apart, over any number of threads: `arrays` are objects, and
the dictionary, a call's local variable `pairs` and a request may name the same one
(an increment shares the array, `BadgeKeeper.m:188`; a post copies it, line 151).

| Action | Code |
|---|---|
| `PrepareBegins` ... `PrepareAdds` | `prepareValue:`, lines 124-132: user read, lookup, new array set, fetched again, pair added |
| `SendBegins`, `SendLooksUp`, `SendTakes`, `SendRemoves` | lines 140-154 and 177-191 |
| `EnumerationBegins`, `EnumerationRaises`, `BodyTested`, `BodySent` | the body is built twice, `BKApiService.m:54-55`; an array that grew meanwhile raises |

`raced` is a history variable: the calls that met another one halfway and could
have gone wrong by it. The properties say what a race costs at most, and that
nothing happens to a call that met none.

### `BKRequests`, `BKResponses`

A body is a sequence of tokens: the brackets and commas of the loop, what the format of a
node has around key and value, and what `%@` puts between, which is not escaped. So a key is a sequence of
tokens too, and may hold quotes, braces and commas of its own; a value is a number, or a word if it is not
finite. `AppendPair` is one turn of
the loop in `BKApiRequestSetUserChanges.m:34-41`, which writes a comma unless the pair
*is* the last object; `AppendEnd` writes the bracket. A path is the sequence of its
segments. An ID is put into it as it prints (nil as `(null)`), and one that holds slashes is several
segments, of which some may be words of a path, as in `a/users/get/b`.

In `BKResponses` an answer is any JSON value. `Field`, `Items`, `Numeric` say what
the messages the parsers send do to an object of each class; a message that is
not understood raises, and nothing catches it. `Document`, `ApiError`,
`ResponseParsed` and `DocumentRaises` are the parse; the reward loop is
`BeginWriteTransaction`, `CommitWriteTransaction` and `AddObjectRaises`; then
`Success`, or the end of the process.

### `BKEntityStorage` and `RewardTable`

`version[th]` is the version of the file that the realm of thread `th` shows, or
`Closed` when none is cached for it. `BeginWriteTransaction` waits for the lock and
moves the realm to the latest version; `CommitWriteTransaction` publishes the row
and signals the realms of run loops; `ReadRewardValues` uses the realm as it is or
opens one at the latest version; `HandleExternalCommit` is the notice a run loop
handles, with autorefresh on; `Release` is the realm's dealloc. The session's queue
has no run loop, so its realms hear no notice. `RewardTable` promises a log that
survives the process, of which each thread reads ever longer prefixes that hold
its own rows.

`BadgeKeeper` uses the storage as a sequence of committed rows (`rewards`): each
`saveReward...` call is one committed transaction, which is what
`ImplementsRewardTable` justifies.

### `BKSampleController`

The whole of `BadgeKeeper` composed with the screen of the sample. `main` is what the
main thread does next, `waiting` the task whose block is in `dispatch_sync`. A click
goes through `Click`, `SetActiveUser`, `PrepareKey` and `MakeRequest`
(`BKAchievementViewController.m:83-147`), each one call of the library; `SessionQueue` is
any step of the facade's handlers, and when it calls a block the queue waits until
`RunMainBlock` has shown the answer. While it waits no other handler runs.

### Realm: opening

`ObjectStore` translates `object_store.cpp` and `object_schema.cpp` into operators on
a group: which tables to make or update, the order in which columns are removed,
nullable copies, indexes, the check that keys are unique, and what each throws.
`RealmOpening` composes them: `Launch`, `OpenFast` (already at the version, columns
mapped in a read transaction), `NeedsWrite`, `BeginWrite`, `Commit`, `Cancel`,
`BlockFails` (the user's migration block returns an error) and `OpenFails`. `Die` may happen at any
place; the lock goes with the process. What a process found when it decided to
write may be old when it gets the lock.

### Realm: transactions and notifier

`RealmTransactions` has, for each realm, `stage` (`m_transact_stage`), `readlock`,
`writing` (`_inWriteTransaction`), `observed`, `signalled`; the file has `newest`, `lock` and
the versions that changed the schema. `beginWriteTransaction` is two actions: it looks at
whether the file changed (`announce`), then waits for the lock (`PromoteToWrite`). A realm with
observed objects lets its handler read the log first, and the handler throws at a
schema change: `Refused`. Three variables describe what goes out of step
and stay true to the code: `told` (the newest version when the application was last told),
`overtaken` (a commit came between the look and the lock) and `missed` (the
accessors were left behind by a throw).

`RealmNotifier` has the pipe as a number of bytes, and a kqueue event with `EV_CLEAR` per
listener. `Commit` starts a write; the writer's thread writes a byte, or finds the pipe
full and reads a batch to make room; a listener is woken, signals its run loop, and the run
loop brings the realm to the file's version.

### Realm: log and observation

`TransactLogInts` writes and reads numbers digit by digit of base 2^7, with the sign in the
last byte, for any width and signedness; `inputBegin` is the parser's `m_input_begin`. `TransactLog` has two accessors of lists and the encoder's cache
of what is selected; each modification is one action that changes `group` and appends to
`log` what the encoder would. `Applied` is the parser, `Reversed` is `TransactReverser`
with `sync_table` and `sync_linkview`. `RealmObservation` lets the log move rows by
`move_last_over` and its reverse under the handler of `RLMObservation.mm:383-648` (`Only` picks the rows somebody observes);
`moved` keeps which objects are in another row than before, `lost` whose list changed through a pointer
that dangled, and `Receivers` is where such a change may go: to nobody, or into the vector of any observer;
`ListChanges` adds up the steps on one list as the handler does; `ObservationInfos`
has the doubly linked infos, `RLMClearTable` and the destructor.

## Runs

| Run | Instance | Shows |
|---|---|---|
| `facade` | 2 users, 2 values, 2 requests, answers with 0 or 2 rewards, 2 launches | `ServiceSound`, `Owned`, `SentInOrder`, `NeverAppliedTwice`, `NothingMislaid`, `RewardsStoredFaithfully`, `ToldOnceAndTruly`, `TypeOK` |
| `facade_live` | 1 user, 2 kinds, 2 values, 2 requests, 2 launches, fairness | `ImplementsOutbox`, `EveryCallAnswered`, `GrantsStored` |
| `client` | 2 threads, 2 users, 3 values, 4 calls; lists of up to 3 pairs with plain and injecting keys, IDs with up to 3 slashes; documents built field by field | `LostOnlyInARace`, `TwiceOnlyInARace`, `SentForItsUser`, `RaisesOnlySharedAndRaced`; `RequestReadsBack`; `StoredIsPrefix`, `HalfSavedOnlyByName`, `TopLevelDecides` |
| `storage` | 3 threads, 3 rows of 2 kinds, 2 launches, fairness | `RealmNeverBehind`, `StaleOnlyUntilNotice`, `ImplementsRewardTable`, `MainCatchesUp` |
| `sample` | 3 requests, 2 logins, fairness | `ScreenFollows`, `EnabledAgainEventually` |
| `realm_opening` | 2 processes, 9 schemas, 3 launches, up to 2 rows | `OpenMeansAligned`, `KeysSound`, `VersionsGrow`, `DataKept`, `FailsOnlyForCause` |
| `realm_commits` | 3 realms and 3 versions; 3 listeners, a pipe of 2 bytes, 2 commits, fairness | `WritesOneByOne`, `ToldUnlessOvertaken`; `NothingSlips`, `EveryCommitHeard` |
| `realm_log` | 5 integer types at their borders; 2 tables, 2 accessors, 3 modifications; 4 objects, 4 instructions; lists of up to 4 links, 4 steps; 3 infos of 2 rows | `ReadsBack`; `AnotherGroupFollows`, `RollbackRestores`; `ObserversTold`; `TheChangeExplainsTheList`; `ObserversKept` |
| `calls_nil`, `calls_increments`, `calls_newest` | 1 user, 2 values, 2 requests | each finds a documented statement violated |
| `infos_cleared` | 3 infos of 2 rows | finds an assertion of the code violated |

The passing runs have between a hundred thousand and 1.3 million distinct states and each
ends in less than two minutes on a small machine.

Bounds, each a guard of the action that would exceed it, and why they are enough:

* *Facade* (`MaxTasks`, `MaxPairs`, `MaxLaunches`). Every trouble needs at most two requests (a
  value in two requests, two handlers, an old request overtaken by a new one),
  two users (a value or a reward with the wrong one), two rewards (one saved, one
  not) and two launches. The project is nil in these runs: it rides along in the
  packet and no property reads it; in the theorems it is arbitrary.
* *Prepared values* (`MaxPrepared`, `MaxCalls`). Two calls race; a third finds what they left
  (a second array, an array nobody sends); a fourth sends it.
* *Requests* (`MaxPairs`). With three pairs there are a first, an inner and a last one, and the
  objects differ where key and value are the same. One key is plain and one ends its node and begins another; one
  value is not finite; one project and one user have three slashes in their IDs, and others are called as words of a path.
* *Answers* (`Answers`). Each field is there, missing, null, or of a wrong type, and
  lists have up to two items, so that one reward can be stored before the next one raises.
* *Storage* (`MaxRows`, `MaxLaunches`). A run loop thread and two of the session's queue; with three rows
  a thread can be two behind.
* *Sample* (`MaxTasks`). Two requests that could overlap and one after them.
* *Opening* (`Schemas`, `MaxLaunches`, `MaxRows`). The schemas add, drop and reorder
  properties, make one optional, move or retype the primary key, ask for an index a type does not have,
  and forget to raise the version. A third launch opens what two others left; two
  rows can share a key.
* *Commits* (`MaxVersion`, `MaxCommits`, `Capacity`, `Batch`). One commit to be overtaken by and one to build on it; two
  writers that both find the pipe full and a listener in between. The pipe may hold any number of bytes at the start.
* *Log* (`MaxModifications`, `MaxInstructions`, `MaxListSteps`, `MaxLength`, `MaxNumbers`). Cache errors need a
  selection, something that spoils it, and a use of it. A row that moves needs a row that is
  erased before the last one. Numbers run at all borders of bits and bytes, in pairs, so
  that one can run into the next. It takes four observed objects for the search to miss one that stayed because another
  got a lower row. `ObserversTold` was also checked with three objects and six instructions and with four and five, which take longer.

Users, worker threads, tables, accessors, processes and reward kinds are symmetric where
a run says `SYMMETRY`; runs with liveness do not use it. Deadlock is not checked: a program
whose application makes no more calls may stop.

### Fairness

`FairSpec` of `BadgeKeeper` assumes weak fairness of the handlers only: `NSURLSession`
completes every task, at the latest when the configuration's timeout expires, and the
serial queue runs each handler to its end, which includes that the application's block
returns. Nothing is assumed of the application, which may stop calling, or of the
server, which may never answer. `SampleFairSpec` assumes that the main thread goes on with a
click and with the blocks of its queue, and that the session's queue goes on; here it is
the sample's own blocks that have to return, and nothing is assumed of the user.
`FairSpec` of `BKEntityStorage` assumes that a run loop gets to its sources and
that a transaction that was begun is finished, as the three calls follow each
other on one thread; nobody has to start a transaction, read or let go of a realm.
`NotifierFairness` assumes that a thread in `notifyFd` goes on, that a listener's thread
runs and that the run loop runs; no commit has to happen.

### Disagreements with the text

The three `calls_...` runs compare the header with the code: `nil` for the user does not
mean the active user (`BadgeKeeper.h:100` against `BadgeKeeper.m:145`); the values of an
increment are not kept until it succeeded (`BadgeKeeper.h:110` against `BadgeKeeper.m:191`); a
newer post need not overwrite an older one (`BadgeKeeper.h:76` against `BKApiService.m:87`).
`infos_cleared` finds the assertion of `RLMObservation.mm:70` (an info's predecessor
leads back to it) violated after `RLMClearTable` (line 286) emptied the schema's list without
unlinking the infos of a row. They are plain safety runs: each counterexample is a finite
behaviour of the code.

### What the conditions of the properties tell

Several properties hold under a condition that the code needs; it is part of what was found.

* `LostOnlyInARace`, `TwiceOnlyInARace`, `RaisesOnlySharedAndRaced`: calls from the blocks of a request can
  lose values, send them twice, or end the process; only an increment can do the last.
* `RequestReadsBack`: keys and IDs are printed into the body and the path without an escape. A key with a quote may
  spoil the body, and one that holds the end of a node and the beginning of the next makes more pairs of one, so what
  the server reads is claimed of plain keys only (`AllPlain`). An ID may be the text `(null)`, which is how `%@` prints one
  that is not set (`PrintsAsNil`), and may hold slashes, which the path does not escape either: user `c` of project
  `a/users/get/b` and user `b/users/get/c` of project `a` have one path. That is the only way: while the project IDs
  have equally many slashes (none, in practice) user IDs may hold any. Without either condition the run finds a
  counterexample.
* `HalfSavedOnlyByName`: the parsers raise before anything is stored; a name that is neither string nor null
  raises in the reward loop, with the first rewards stored and a transaction open.
* `TopLevelDecides`: any JSON dictionary without an `Error` is a success, whatever the HTTP status.
* `ToldUnlessOvertaken`: `beginWriteTransaction` looks at the version before it waits for the lock, so a
  commit that comes meanwhile is not announced; a throwing handler leaves the accessors behind the readlock.
* `OpenMeansAligned`: holds while the file is at the version of the program; a process that stays open
  while another one migrates keeps its old columns.
* `RollbackRestores`: rows and columns that the transaction itself erased come back as new ones, and a table it
  cleared stays empty.
* `ObserversTold` is about objects that stay in their rows, in a rollback too. Who observes an object that *moves* may
  hear of another one's changes, or of none: `erase_rows` takes the third number of the log for the last row, but it is the
  count of rows before (`RLMObservation.mm:564`, `transact_log.hpp:1943`); and `insert_empty_rows` does nothing
  because "rows are only inserted at the end" (`RLMObservation.mm:552`), which is not so in the reverse of an erasure.
  An observer that took another row also leaves the order that the binary search needs, so in a log that is not rolled back the
  fields of the others may go untold once an observed object moved (it takes four objects to see that). A change of a
  list is lost, or told of another object, when the vector that `activeLinkList` points into was left
  (`RLMObservation.mm:423`): only if a later column of the object changed while its list was selected. Each of
  these conditions is needed: without any one of them TLC finds a counterexample.

## Theorems

| Theorem | States |
|---|---|
| `ServiceSafe` | network layer: `ServiceSound` (types, `OneBlockPerTask`, `HandlersSerial`, `AnswersAreReal`) |
| `FacadeImplementsService` | the facade uses the network layer only through its operations |
| `TypeCorrect`, `ValuesOwned`, `ValuesSentInOrder`, `NoValueMislaid`, `AtMostOnce`, `ToldOnce`, `RewardsFaithful` | facade: `TypeOK`, `Owned`, `SentInOrder`, `NothingMislaid`, `NeverAppliedTwice`, `ToldOnceAndTruly`, `RewardsStoredFaithfully` |
| `OutboxSafe` | outbox: `TypeOK`, `OnePlace`, `VerdictsTrue` |
| `FacadeImplementsOutbox` | `ImplementsOutbox`: the facade implements the outbox |
| `AlwaysForItsUser`, `OnlyRacesLose`, `OnlyRacesRepeat`, `OnlyRacesRaise` | prepared values: `SentForItsUser`, `LostOnlyInARace`, `TwiceOnlyInARace`, `RaisesOnlySharedAndRaced` |
| `RequestsReadBack` | requests: `RequestReadsBack` |
| `RewardsStoredInOrder`, `HalfwayOnlyByName`, `ErrorAndResultDecide` | responses: `StoredIsPrefix`, `HalfSavedOnlyByName`, `TopLevelDecides` |
| `StorageSafe`, `NoticeOnItsWay` | storage: `TypeOK` and `RealmNeverBehind`; `StaleOnlyUntilNotice` |
| `StorageImplementsTable` | `ImplementsRewardTable`: the storage implements the reward table |
| `SampleIsAClient` | the sample uses the library only through the facade's calls: `SampleSpec => Spec` |
| `ScreenAlwaysFollows` | sample: `ScreenFollows` |
| `OpenProcessesAgree`, `PrimaryKeysHold`, `FilesOnlyAdvance`, `MigrationsKeepData`, `FailuresHaveACause` | opening: `OpenMeansAligned`, `KeysSound`, `VersionsGrow`, `DataKept`, `FailsOnlyForCause` |
| `RealmsWriteOneByOne`, `MovesAreTold` | transactions: `WritesOneByOne` (`OneWriter`, `BuildsOnNewest`), `ToldUnlessOvertaken` |
| `NoCommitSlips` | notifier: `NothingSlips` |
| `EveryObserverTold` | observation infos: `ObserversKept` |
| `LogReadsAlike`, `RollbackGivesBack` | log: `AnotherGroupFollows`, `RollbackRestores` |
| `NumbersReadBack` | numbers: `ReadsBack` |
| `ObservedAreTold` | observation: `ObserversTold` |
| `ChangeExplainsTheList` | list changes: `TheChangeExplainsTheList` |

All are checked by `tlapm` for every value of the constants: any number of users,
threads, processes, calls, values, requests, realms, schemas, versions, rewards and launches, bodies,
documents, logs and tables of any size, integer types of any width, and a pipe of any size.

Assumptions. The theorems use the named assumptions on the constants, which TLC evaluates on
every instance. Most say that bounds are naturals and that a model value such as `Nil` is none of those
it stands beside (`ServiceAssumption`, `BadgeKeeperAssumption`, `StorageAssumption`,
`PreparedValuesAssumption`, `RequestsAssumption`, `SampleAssumption`,
`RealmTransactionsAssumption`, `RealmNotifierAssumption`, `ObservationInfosAssumption`,
`TransactLogAssumption`, `RealmObservationAssumption`, `TransactLogIntsAssumption`, `ListChangesAssumption`). Two say more:

* `AnswersAssumption`: where an answer has rewards, an array has its items at 1 to its length and a dictionary finitely many
  keys, which is what `NSArray` and `NSDictionary` are. Nothing is assumed of the server.
* `ObjectStoreAssumption`, `RealmOpeningAssumption`: property names are not empty, those of a class differ, and its
  primary key is one of them and an int or a string, which can be indexed. `RLMObjectSchema.mm:105-131` throws for any other class.

### The argument

*Network layer* (`BadgeKeeperProofs`, first part). The inductive invariant `ServiceInd` is the
conjunction of the three properties, the types, and the fact that a handler inside its success
block has called only that one. One lemma per action.

*Facade over network layer.* Every action of the facade either conjoins one
operation of the network layer or leaves its variables alone, so
`Spec => ServiceSpec` and the network layer's theorem carries over.

*Facade.* `Owned` and `SentInOrder` are not inductive: a new pair
must be later than all pairs that exist, and the packets of tasks that were not
created must be empty. The inductive invariant therefore adds `Fresh` (a new
task has an empty packet), `MadeByNow` (no pair is from a later launch) and
`ValuesHaveUser` (a packet with pairs has a user). `AtMostOnce` follows from `SentInOrder` (two
requests of one queue share no pair), `Owned` (nor do requests of different queues) and the network
layer's fact that the server carries a task out once. `ToldOnce` needs
`ToldTheReply`, which states the same of `reply` instead of `applied`.

*Rewards.* `RewardsStoredFaithfully` is inductive together with `LoopUnderWay`: the rows of the running task are the
first `saved` rewards of its answer. A row belongs to one task, so the loop of one handler changes nothing for
the others; a task that was not handled yet has no rows.

*Refinement.* One lemma per action: it is one action of the
outbox, or the outbox does not see it. Beside `Ind` the mapping needs `CarriesValues`,
that a request of a value call carries at least one value (the guards of lines 147
and 184), because an empty batch is one that was not sent. With `OutboxSafe` it
follows that a value of the facade is in one place and that verdicts are true.

*Prepared values* (`PreparedValuesProofs`). `SentForItsUser` says nothing of arrays, yet holds
because an array is made for one user and never changes hands, however many calls share it.
The invariant says so with an existential quantifier: there is an `owner` of every array such
that the dictionary, the calls and the pairs in the arrays all agree with it
(`DictionaryOwned`, `CallsOwned`, `PairsOwned`), with `PairIsOfItsCall` and
`BodiesOwned` beside it. A step that makes an array extends the owner; every other step keeps it.
The three race properties rest on it and on `CallsMeet`: two calls for one user that are under way
together, and of which one could disturb the other, have both met. `LostInd` then follows a pair that met nobody from its call
into the array, the hands of a send and the body; `TwiceInd` says in how many of these it is;
`RaisesInd` says that a post holds a copy of its own and that an array only grows under a request by a call it met.

*Requests and answers* (`BKPacketsProofs`). Of a request with plain keys node k of the body begins at place 6k - 4 (`Place`), in the order of the pairs,
because each turn of the loop writes a node and a comma and only the last one leaves the comma out;
"last" is the same object, not an equal one, and the objects of a request differ. Two equal paths of one method are equally long, and
if what the projects print has equally many segments, they can be cut at the same places: project, words, user. In an answer the rows stored are the rewards before the one
the loop is at, a transaction that is open holds a row that is not stored, and an end of the process in the loop is at a name the
realm does not take. What a document grants is a recursive *function* over its list; that there is one, and that it yields
a sequence, is an induction over the length (`SetInduction`: induction for a set in place of a predicate).

*Storage* (`BKEntityStorageProofs`). The properties and the types are inductive with
one addition, `OneRowAdded`: a transaction holds at most one object, so a commit is
one row. A read is allowed by the reward table because the realm's version is not
behind what the thread read or stored.

*Sample* (`BadgeKeeperProofs`, last part). Each step of the screen is a call of the facade, or the facade does not see it; this needs only
that the login is a user or nothing. So the facade's invariant holds of the sample, and `ViewInd` adds to it where a click
has got to, that nothing is shown while a request is under way, and that such a request is the last one made.

*Opening* (`RealmOpeningProofs`). The functions of the object store come first: what `AddColumns` and `RemoveColumns` make of a
table is an induction over the properties they have seen (they are recursive functions, so the prover can be taken
through it). The columns of the old table stay where they were until the extra ones go, and as those go from the last to the first, the
places of the others still hold: this is where the order of removal matters. `Brought` states the result: the table fits the class,
column for property, with all its rows, and what survives has its values. On top of it come the group after a commit
(`Commits`), its keys (`KeysSurvive`), its version and its data. The invariant `OpeningInd` says that
the file is sound (its keys are indexed columns of different values), and that an open process is of a version no later than the file's,
whose schema fits the file when the versions are equal. `OpenMeansAligned` alone is not inductive: a file that could go back to an earlier
version would be migrated a second time under an open process. `FailuresHaveACause` needs the invariant too: a key that keeps its name and type
had different values before (`KeySound`), keeps them (`ValuesKept`), and so cannot clash. TLC showed while this was
being proved that the type matters: a key that changes its type loses its values, so it counts as a new key (`KeyStays`).

*Transactions* (`RealmCommitsProofs`). `OneWriter` and `BuildsOnNewest` need that a realm that
waits for the lock is in a read transaction (`WaitingReads`). Only the holder of the lock
commits, and while it holds it nothing else changes the newest version or its readlock.
Given that invariant, `ToldUnlessOvertaken` is kept up by each step.

*Notifier* (`RealmCommitsProofs`). `NothingSlips` is inductive beside the types: a commit puts its own
thread into `notifyFd`; that leaves it only by a byte in the pipe, which activates every registered event and
waits for those that register later; making room is done by a thread that still has its byte to write.

*Observers of a row* (`RealmLogProofs`). That the links lead from the head to every info of the row says little of where
they lead after one is taken out of the middle. The invariant, `ListsKept`, says instead that links pair up (`next` of one is
`prev` of the other), stay among live infos of one row, and that every set of infos has one
whose `prev` is outside of it: there is no circle. So every info leads back to one without a `prev`, which is the row's only one and the
head in the schema's list. It holds until a table is cleared of a row with several observers, which is where the code's assertion fails (`infos_cleared`).

*Log* (`RealmLogProofs`). `AnotherGroupFollows` says nothing of what is selected, so a step that leaves a selection out
could not be shown to keep it. `LogInd` adds that a reader of the log has selected what the encoder's cache
says: the same table, the same list, at the place where the accessor's list is *now*, after rows moved; and that every
attached accessor has a row, every table its column of lists. What a log makes of a group is a recursive function
over its instructions; one more instruction is one more step of it (`OneMoreApplied`). An instruction then *reaches* its
table or list (`Reaches`: `TableReached`, `DescriptorReached`, `ListReached`, with zero, one or two selections before it), and
what it does there is what the modification did; one lemma for each.

*Rollback* (`RealmLogProofs`). "The reversed log leads back from the transaction's group" is not inductive:
the inverse of the last instruction leaves a group that may differ from the one before it, in a row that comes back empty. `RollInd`
therefore speaks of *every* group that is `Undone` up to the transaction's, and says that the reversed log takes it to one undone up to
the start. How much may differ depends on what was logged (`Barred`): in any case a row may have come back empty;
if no table was cleared, rows and columns correspond place by place; if no row was erased and no column came or went either, the links are all back. The reverser holds
back the last selections, to write them before what follows; by `CacheReads` they are what the encoder's cache says is selected, so `sync_table` and
`sync_linkview` give each inverse the table and the list it is meant for. Then one lemma for each instruction says that its
inverse undoes it; that of `ListClear` is a number of insertions, and goes by induction over the links.

*Numbers* (`RealmLogProofs`, last part). Encoder and reader meet in one equation (`BytesAddUp`): after any number of bytes, the bits read so far and what is left to
write, shifted back, are the number. It gives the value; with "what is left is at least 64 before the last byte and less at it" it also gives that no byte too
many is read (`MoreToCome`: another byte means more than six bits are left of the type) and that the last shift does not overflow. The sign costs a case:
only a signed type holds a negative number, and `-(v + 1)` is in range where `-v` need not be. Powers of two are a recursive function of the model, because `^` means
nothing to the provers. For a log of several numbers `IntsInd` says that there are places, one after the other, at which their bytes start, and that
the reader is at one of them as long as its types held what it read.

*Lists* (`RealmCommitsProofs`). The handler keeps the indexes of what it removed in terms of the old list and those of what it inserted in terms of the new one, and has
to shift them at each step. `ChangeInd` says in which of three states the record is: nothing told yet and the list as it was, given up, or of one kind
whose indexes explain the list. The work is in what one more removal or insertion does to a list without some of its places (`Without`)
and to the indexes that are passed over (`WithRemoved`), both recursive functions; each step is led back to the sequence with one element less or more
(`OneLess`, `OneMore`).

*Observation* (`RealmCommitsProofs`, last part). The invariant says of every log what is left of the handler's order. An
observer is in the row of its object as long as that has not moved, and afterwards in no row of an object that stayed
(`InPlace`), so what is found by a row concerns the object in it or one that moved. Observers are sorted by row in a
rollback, which only erases last rows, and in any log in which no observed object moved (`Sorted`); then the
handler's binary search finds the observer of the row that changes (`FoundBySearch`, an induction over the length
of the stretch: all before it are lower, none behind it is). `activeLinkList` is for the list that is
selected (`ListFollowed`) and points into a vector that has the list's column; when it does no more, a later column of
that object was changed (`PointsInto`), or the object was erased and its list with it. Moves only make the
claims fewer, so each step is shown for what stays.

### Only model-checked

Liveness under fairness (`EveryCallAnswered`, `GrantsStored`, `MainCatchesUp`,
`EnabledAgainEventually`, `EveryCommitHeard`) is out of reach of the prover and is checked on the instances above.
Every invariant and every action property of the passing runs is also proved. The four
refuted statements are refuted, not proved.

## What the models assume and leave out

* In `BadgeKeeper` the application calls the library from one thread and each call is one step;
  `PreparedValues` drops both for the two dictionaries. What Foundation's collections do when two
  threads are inside one of them at the same instant is undefined and not modelled.
* The application passes both blocks (the code accepts nil for each) and sets a
  user before it prepares: with none, `setObject:forKey:` raises and the program
  ends, which is the action `Crash`.
* In `BadgeKeeper` the server answers with an `Error` or a `Result`, and queries grant no rewards;
  `BKResponses` takes any document.
* The project a value goes to is the one set when it is sent (`BadgeKeeper.m:149`); the header does not
  say which it should be, so no property is stated.
* `ListChanges` has the set, insert, erase, swap, move and clear of a list. `instr_LinkListSetAll` is left
  out: the handler meets it only as one `link_list_set` after another (`transact_log.hpp:1498-1507`), which
  `LinkListSet` is, while the list it leaves may be shorter or longer than the one before.
* A user's migration block leaves the rows alone or fails; links between classes are left out of
  `ObjectStore`.

### Not modelled

* `BKEntityAchievement` (empty, unused), `buildImageWithIconString:` (a pure decoding of an image), `main` and
  all of `AppDelegate` but the call that sets the project.
* Realm's core library: arrays, B+-trees, tables, columns, queries, the file format, allocation,
  encryption. It is compiled into `librealm-ios.a`, whose source is not in the repository; only its headers are, and most of the
  repository's lines are in them: declarations, template machinery, and the inline parts of data structures whose other half is
  compiled. Where the bindings rely on it, it is modelled from how they use it. Of the headers, `impl/transact_log.hpp` and
  the transaction functions of `group_shared.hpp` hold whole protocols and are modelled. That is why a small share of
  all lines is covered, although all of the library's own code is.
* `util/network.hpp`: no file of the repository includes it.
* Arrays, results, queries and the dynamic property accessors of the bindings: thin layers over the core's
  views.
* A second realm of a path that copies the cached schema without looking at the file (`RLMRealm.mm:425`): within a
  process all realms are of one schema; what another process migrates meanwhile is the
  condition of `OpenMeansAligned`.
* A commit that throws for want of disk space (`RLMRealm.mm:617`): what is then in the file
  is decided in the compiled core.
* Liveness of opening: whether a process gets the file's write lock is up to the operating system's
  lock, which promises no order.

## Plan

1. Done: network service, facade, documented calls, outbox and refinement, reward
   storage and reward table; their safety theorems and both refinements.
2. Done: prepared values under threads, requests, responses, the sample over the facade; Realm's opening,
   transactions, notifier, log and observation.
3. Done: theorems of every safety property the passing runs check, and of both refinements.
4. Models next: an observed object over the whole path, from a commit in one process through the notifier
   and the handler to its observers in another.
