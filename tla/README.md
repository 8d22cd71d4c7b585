# Verification of the Berkeley DB bindings (pybsddb)

The repository wraps the Berkeley DB C library for Python. The core is one C
extension, `src/src/Module/berkeleydb.c` ("C" below, with line numbers), and a
thin Python package, `src/src/berkeleydb/`. Berkeley DB itself is outside the
repository; what is assumed of it is marked external in `PROJECT.json` and
listed under "Assumptions".

What the extension adds to the library, and what can go wrong in it, is the
*lifetime* of handles: a native handle may be used only until it is closed or
resolved, and closing a parent first invalidates its children. The extension
promises Python programs that they cannot break this order. That promise is the
centre of this project.

## 1. Inventory

| Component | State | Operations | What is hard | What makes it correct |
|---|---|---|---|---|
| Handle tree (C 842-1288, 1603-1760, 2326-2411, 4080-4412, 5072-5372, 6316-6410, 8287-8471, 8589-8748) | a handle pointer, owner and children lists in every wrapper; `txn` and the transaction's lists; `closed`, `flag_prepare` | new, open, close, dup, begin, commit, abort, discard, prepare, recover, remove, deallocation | a wrapper sits in two lists and can be closed along either; cascades; promotion at commit; creation that fails half-way; Python may drop any reference at any time | lists exact; nothing open over a closed owner; nothing released twice or never; prepared transactions resolved only on request |
| Transaction lists (macros C 213-260) | `children_*`, `sibling_next_txn`, `sibling_prev_p_txn` | INSERT, EXTRACT, the loops over the head | stale pointers of a wrapper that left; loops that end only if each turn takes the head out | every pointer into a list is answered; loops end |
| Interpreter-lock windows (every MYDB_BEGIN/END_ALLOW_THREADS, C 117) | the C locals of each call in progress | close, commit, abort, cursor creation by several threads | another thread runs between the test of a pointer and its clearing | no native handle closed twice; children before parents; calls return |
| Data access (C 689-778, 1664-2464, 3743-4032, 4376-5028) | the records; `setflags`, `moduleFlags` | get, put, delete, consume, dictionary methods, lists, cursor reads and writes | an assignment is up to three native calls; a list is one per record | no record lost, no key duplicated, lists complete, `None` only where asked |
| Legacy dictionary (`__init__.py`) | `dbc`, `saved_dbc_key`, `_cursor_refs`, `_in_iter`, `_kill_iteration` | iteration, writes, positioning, close | generators are suspended while writes close their cursors | counters exact, place kept, iteration complete |
| Two-phase commit and recovery (C 6316-6411, 8334-8471) | `flag_prepare`; the library's log | prepare, txn_recover, commit, abort, discard | crash between the phases, batches of 16, transactions already held | a prepared transaction survives until its outcome is applied; recover lists each once; nothing unprepared is lost with its locks |
| Callbacks (C 1427-1600, 2700-2932, 7481-7667) | callables stored in DBs and environments | associate, comparisons, event and transport notification | called from native code, on any thread, while being replaced; native calls that fail | a callable is alive when it is called, counted exactly, and there when the library calls |
| Locks (C 1222-1258, 6122-6135, 6511-6596) | `lock_initialized` | lock_get, lock_put, lock_id, lock_id_free, lock_detect | waiting without the interpreter lock; dropped without release | every lock counted belongs to a DBLock; everybody who can go on does |
| Conversion (C 312-444, 492-576, and the DBTs of every method of DB and DBCursor) | the memory of each DBT | make_key_dbt, make_dbt, BuildValue | integers of three widths, signed and not; memory of malloc, of the handle, of a cursor | a number told names its record; an answer is the call's own; nothing leaks |
| Cursor positions | kept by the library | next, dup, set ... | -- | -- |
| Configuration, statistics, replication | none | some 350 calls of one native call each | NULL handles | -- |
| Error translation (C 464-660) | one message buffer for the process | makeDBError | shared by threads | -- |
| DeadlockWrap (`dbutils.py` 47-75) | sleep time, retries left | retry with backoff | retries of functions that hold locks, for ever | gives up after `max_retries` and not before |
| Shelf (`dbshelve.py`) | `_closed` | pickling around a DB | failed close | -- |
| `dbobj.py`, `db.py` | none | forwarding | -- | -- |
| `dbrecio.py` | position, length | unfinished file interface | -- | -- |

Interactions. An environment owns DBs, transactions, log cursors and sites; a DB
owns cursors and sequences; owners are held by strong references, the link from
a DB, cursor or sequence to its transaction is weak. A transaction's commit
closes its cursors and hands its DBs and sequences to its parent transaction, an
abort closes all of them, the close of an environment aborts its transactions
and closes the rest. All of this runs under the interpreter lock but for the
native calls. The legacy dictionary and the shelf sit on top of DB and DBCursor.

## 2. Modules

| Module | Models | State and actions in terms of the code |
|---|---|---|
| `HandleTree` | the handle tree | `st[o]` says whether the wrapper exists and its handle pointer is set; `owner` is `myenvobj`/`mydb`/`env`/`parent_txn`; `txnOf` is `self->txn` of a DB, cursor or sequence; `kids` and `txnKids` are the two families of lists; `held` is what the program references; `native`, `anc` and `openIn` are the library's side and history. One action per call of the program or per `tp_dealloc`; every action contains the whole cascade (`DBCascade`, `TxnCascade`, `EnvCascade` compute what the C loops visit; `CloseAll` applies it). |
| `ChildLists` | the list macros and the loops of commit, abort and close | every pointer field is a function; one action is one turn of a loop |
| `TxnQueues` | what those lists promise | a sequence of handles per transaction: the abstract specification `ChildLists` implements |
| `GilWindows` | the close functions, commit, abort and `DB.cursor` with the lock released | one stack of C frames per thread; an action runs from one window or call to the next |
| `TwoPhaseCommit` | prepare, recovery and resolution of distributed transactions | `nat[e][g]` is the native transaction of branch g in environment e, `own` the wrapper it was begun with and its `flag_prepare`, `rec` the wrappers from `txn_recover`; `flags`, `list` and `collected` are the loop of `DBEnv_txn_recover`, one action per native call; `Crash` loses the wrappers and what was not flushed |
| `AtomicCommit` | what environments promise a coordinator | where each branch is, and the outcome: the abstract specification `TwoPhaseCommit` implements |
| `Callbacks` | the five calls that store a callable and the C functions the library calls | `slot` is the field of the DB or environment, `refs` the reference counts; one frame per thread; an action runs to the next place where the interpreter lock may change hands: a native call, called Python code, a deallocated callable |
| `DataAccess` | reads and writes of one DB by several threads | `rec` counts the records of a key; `call` is the C frame of each thread; an action is the code up to the next native call |
| `RecordNumbers` | record numbers and the memory of DBTs in the methods of DB and DBCursor | a record number has `Size` values, a C long `Long`; a DBT is its memory flag and where its data lies; `Begin`, one native call, `Result` or an error return |
| `LegacyDB` | `_DBWithCursor` and `_iter_mixin` | the Python attributes under their names, two generators with a program counter; an action runs to the next yield or return |
| `LockRetry` | the lock calls, `DBLock`, and `DeadlockWrap` around them | `owner` and `refs` are the library's lock table; `gil` the interpreter lock; `at`, `goal`, `left` the thread's place in `DeadlockWrap`; three styles of program: one `DeadlockWrap` around a function that cleans up, one around each `lock_get`, one around a function that drops its locks |
| `..._proofs` | -- | the proofs about the module they are named after; `DataAccess_proofs` has those about `LegacyDB` as well |
| `MC...` | -- | the small sets TLC uses |

How they divide the work. `HandleTree` takes each call as one step and covers
every kind of handle, with lists as sets. Two things that abstracts from are
models of their own: that the C lists are what those sets say (`ChildLists`), and
what happens when calls of threads overlap (`GilWindows`, which therefore has
only the kinds that matter for it: environment, transactions, DBs, cursors).
`TwoPhaseCommit` takes the prepare, recover and close of `HandleTree` apart and
adds what outlives the process. `DataAccess`, `RecordNumbers` and `LockRetry`
take handles as open; `Callbacks` looks at one slot, for slots share nothing.

## 3. Runs

The bounds are the `CONSTANTS` of the `.cfg` files. Handles of a kind are
symmetric; symmetry is used only in runs whose properties are safety.

Passing:

- **tree_nested** -- environment, DB, cursor, log cursor, two transactions that
  may nest (165,590 states). With two transactions one can be the other's
  parent, so promotion, abort of a parent and recovery of a prepared
  transaction all happen; deeper nesting is settled by proof.
  `TxnLists`, `EnclosedUnderLiveTxn`: what is in a transaction's list points
  back, and is gone when the transaction is resolved. `InheritedStepByStep`: a
  DB is where its opening transaction's resolved ancestors handed it.
  `StaleOnlyWhereKnown`: only two known cases (below) leave a pointer to
  a native handle that is gone. `PreparedResolvedExplicitly`: a prepared
  transaction changes only by an explicit commit, abort or discard.
  `EnvCloseLeavesNothingOpen`: after the close of an environment nothing under
  it is open.
- **tree_wide** -- one DB, two cursors, a sequence, one transaction (69,203
  states): the run where lists have several members. `SiblingLists`, `ChildrenUnderOpenDB`,
  `NothingLeaks` (what a wrapper let go was released natively, or is one of the
  known exceptions), `ClosedForGood` (no call reopens or closes a closed handle
  again).
- **lists** -- three DBs, a transaction and its nested transaction, each DB
  opened once (11,919 states). Three members give a first, a middle and a last. `WellLinked`:
  each pointer into a list is answered. `ResolveEnds`: commit and abort end.
  `ImplementsQueues`: refinement to `TxnQueues`.
- **gil_shared** -- two threads, two transactions, two DBs, three cursors
  (143,379 states). Each thread closes only its own cursors, but commits and aborts overlap, and the
  environment is closed when no other call is running. `ClosedOnce`: no handle,
  transactions included, is closed natively twice. `NativeOrder`, `QuietLists`,
  and the liveness `CallsReturn`.
- **two_phase** -- two environments, a transaction with a branch in each and one
  in the first only, batches of one, two mishaps: a crash, a close, a dropped
  wrapper, a discard, a failed prepare or recover, an extra recover (180,708
  states). Two branches are what it takes for one to be committed while the
  other is lost; two mishaps let a crash hit a recovery. `ImplementsAtomicCommit`:
  refinement to `AtomicCommit`. `RecoverExact`: `txn_recover` lists what is
  prepared, each once. `NoStaleWrapper`: only a recover that was not called for
  makes a wrapper of a resolved transaction. `NoOrphan`: no unprepared
  transaction is left behind with its locks, unless its prepare failed.
  `DecisionsReachBranches`: a decision reaches every prepared branch in the end.
- **callbacks** -- three threads, two callables, three calls that set the slot
  (64,229 states): two threads can set it and a third be called in between, and a
  callable can be replaced and come back. `CountsExact`: reference counts are
  those of program and slot unless two sets overlap. `CalledAlive`: only a
  callable that was replaced is freed while it runs. `Served`: the library finds
  a callable unless a set failed.
- **numbers** -- two threads, record numbers of two bits, C longs of four, Python
  integers to 9, so beyond both; three records; a queue and a btree (1,023,987
  states). Numbers wrap, records are overwritten and deleted. `NamesHold`: a
  number told, signed or not, is the key of that record while it is stored.
  `AnswersOwn`: no thread is answered with what another read. `MemoryExact`:
  every return frees what was allocated for the call and nothing else.
- **legacy** -- three keys, two generators, three writes, a hash or a btree (355,892
  states): a
  write can hit every position of a suspended generator, and one can follow
  another. `CursorsKnown`, `InIterExact`, `PlaceKept`, `IterationComplete`.
- **data** -- two threads, two keys, at most two records by `put` (383,115
  states; three keys, 5.4 million states, pass too). `NoDuplicates`: only `put`
  gives a key a second record, however assignments overlap. `StoredIsKept`: the
  delete inside an assignment loses nothing unless the library then fails.
  `RefusedOnlyByRace`: an assignment is refused with "key exists" only because
  of a race or a failed delete. `ListsAreComplete`: `keys()` contains what was
  there throughout. `NoneOnlyWhenAsked`: `None` for a missing record agrees with
  `set_get_returns_none` at some time in the call.
- **locks** -- two threads, two locks taken in one order or the other, no
  `max_retries` or one of 1, with and without timeouts and a detector that runs
  at each conflict (301,906 states). Two threads and two locks are the smallest
  deadlock; its invariants hold for three threads as well, which takes too long
  to be a run. `LocksAccounted`: every lock the library counts is that of a
  `DBLock`, of a call, or of a dropped `DBLock`. `TriesExact`: `max_retries`
  retries, neither more nor fewer. `WrapEnds`: all calls end if nobody drops
  locks and everyone without a limit wraps a function that puts its locks back,
  without timeouts.

Violations, each a disagreement between the code and a sentence of the repository
(quoted in `PROJECT.json` under findings):

- **lists_twice** -- a second `DB.open` corrupts the list and the loop of abort never ends.
- **gil_closing** -- two overlapping `DBEnv.close` close the native environment twice.

Met while modelling, and not among the runs. In handles:

- Aborting a transaction leaves its nested DBTxn open: `DBTxn_abort_discard_internal`
  (C 8406) never walks `children_txns`, although `changelog-bsddb3.rst:681` says
  that enclosed db handles, cursors and transactions are closed. One of the two
  cases of `StaleOnlyWhereKnown`.
- `DBEnv.remove` (C 5362) before `open` leaves the wrapper on a destroyed handle:
  `DBEnv_close_internal` does nothing while `closed` is 1 and `db_env` is not
  cleared, although the comment at C 5360 says that remove acts as destructor.
  The other case.
- `newDBObject` (C 897) links the wrapper into `children_dbs` before `db_create`
  and frees it without taking it out if that fails; `changelog-bsddb3.rst:544`
  says "Solved a crash when DB handle creation fails."
- A resolved DBTxn passed as `txn=` is taken for "no transaction" (C 672): the
  operation runs outside any transaction.
- An environment that was never opened is not released when it goes out of scope
  (C 5078): the exception in `NothingLeaks`.
- `DBEnv.close` while another thread is inside `abort` of one of its transactions:
  `self->txn` is NULL and the wrapper is still in the list, so that the loop at
  C 5079 spins with the lock held. `gil_shared` therefore closes the environment
  when no other call runs (`Alone`).
- A `DB.close` in the window of `DB.cursor` leaves a cursor over a closed DB; in
  `gil_shared` threads share DBs for cursor creation but close only their own.
- `txn_recover` called while the program has a wrapper for a prepared transaction
  makes a second one; when one of them is resolved the other is stale (`twins`).
- A transaction whose `prepare` failed is no more aborted when it is dropped
  (`failed`, C 8397).

In data and callables:

- Changing the dictionary during iteration raises KeyError from the second `del`
  at `__init__.py:73`, not the RuntimeError of `changelog-bsddb3.rst:572`.
- Assignment to a DB with duplicates by two threads: one `d[k] = v` can fail with
  DBKeyExistError, although `changelog-bsddb3.rst:712` says that it "will now
  replace all values". `RefusedOnlyByRace` states exactly when. If the first put
  fails for another reason (say a full disk), the old record is deleted first.
- A failed second `associate` clears the slot while the first one's C function
  stays registered: later records are silently not indexed. The error path of
  `set_event_notify` drops its own argument even if another thread has replaced
  it meanwhile. Both need the exceptions that `Served` and `CountsExact` name.
- The first transport is registered before it is stored (C 7656, 7667); a message
  sent in the window finds none. A replaced callable is dropped while the slot
  still points to it, so that its destructor can see it there.
- A Python integer outside the range of a record number names the record of its
  remainder, and one outside the range of a C long is -1 with an exception pending
  (C 405). `append`, `keys` and `get_recno` tell record numbers as C
  longs, `consume` as they are, `items`, `pget` and the reads of a cursor as signed
  C ints; as a key each of them names the record while it is stored, which is what
  `NamesHold` says. `set_recno` takes only a
  signed int, so that numbers from 2^31 on cannot be given to it.
- Two loops of `DeadlockWrap` around each `lock_get`, both without a limit, can
  refuse each other for ever, as can functions that meet timeouts: the premise of
  `WrapEnds`. `DeadlockWrap` sleeps once more before it gives up.

Deadlock is checked in `data`, `two_phase` and `numbers`. The other configurations switch it
off: `HandleTree`, `GilWindows` and `Callbacks` stop where C is undefined or when
every handle, or the slot, is gone; `ChildLists` and `LegacyDB` when all
transactions are resolved or the dictionary is closed; in `LockRetry` the
threads end.

## 4. Assumptions

Fairness. `ChildLists` assumes `WF` of a turn of the running loop: a C loop
runs. `GilWindows` assumes `WF` of each thread's next step: a native close, commit
or abort returns, and the interpreter hands its lock to a thread that waits for
it. `TwoPhaseCommit` assumes `WF` that a lost environment is opened again, that
lost wrappers are recovered, that a `txn_recover` which has begun goes on, and
that the program applies a decision it knows; none of failures, closes or crashes.
`LockRetry` assumes `WF` of a native call that is not blocked and of a thread that
has the interpreter lock, `SF` of regaining that lock, since it is free again and
again (CPython hands it to a waiting thread), and `SF` of `lock_detect`, which the
program runs over and over in another thread. No other module assumes fairness,
and no fairness is given to the calls a program may make.

Berkeley DB (external): commit, abort and environment close take a transaction's
children along; only an outermost transaction can be prepared; handles of
different environments do not mix; each call is atomic for the records; recovery
keeps prepared transactions, ends others, and may undo a resolution that was not
flushed; `DB_FIRST` starts the listing of prepared transactions again; an
associated secondary cannot be associated again; the detector refuses one request
of each deadlock.
CPython (external): a wrapper without references is deallocated; the program may
drop a reference at any time.

Simplifications, per module:

- `HandleTree`: a call is one step (see `GilWindows`). A second `DB.open` is left
  to `ChildLists`. `discard` is taken for prepared transactions, where the
  library permits it. A native close may fail; the wrapper is closed all the same,
  as in the code. Log cursors and sites, which behave alike, are one kind, `Leaf`.
- `GilWindows`: no sequences and no nested transactions. The code of `DBSequence`
  repeats that of `DBCursor` and `DB`; nesting is left to `HandleTree`.
- `TwoPhaseCommit`: the coordinator is the application and keeps its decisions.
  The record of a distributed transaction is its global id. An environment is not
  closed while its `txn_recover` runs.
- `Callbacks`: what a callable computes is left out, and so are its exceptions but
  for those of a comparator's test. A DB is not deallocated while a call on it
  runs. In a comparator's slot the library's refusal undoes a store at once.
- `DataAccess`: the entry of a method and its first native call are one step, for
  between them only the thread's own arguments are read. A cursor may stand
  anywhere. The records of a key are counted, not told apart.
- `RecordNumbers`: a DB is shared by threads only with `DB_THREAD`, as the library
  asks. A cursor is used by one thread. Records are told apart by a stamp.
  The Recno type behaves as a queue that neither consumes nor wraps. A C long has
  as many bits as a record number (Windows) or more: the run has it wider, TLC has
  passed the other case too (`Long = 2`), and the theorems are about both. With
  32 bits the number that `consume` tells may not fit a long, which does no harm
  since its record is gone. `BuildValue_US` (C 559) hands an unsigned int to a
  format for an unsigned long; the model takes it as extended by zeros, as the
  usual calling conventions do.
- `LegacyDB`: one thread, as the class's own comment asks of its users. A hash has
  some fixed order of its keys; `set_location` finds the next key in a btree only,
  as `tests/test_compat.py:159` says. `iteritems` and `__iter__` differ only on a
  dictionary that is empty or closed (`ItemsReturn`).
- `LockRetry`: exclusive locks; any waiting request may get a free lock. Without a
  limit neither retries nor tries are counted, so that the states are finite, and
  only who has a limit drops locks.

## 5. Proofs

Everything here is for any values of the constants that satisfy the named
`ASSUME` of the module, which say of each constant only what it is.

For any set of handles of any kinds, `HandleTree_proofs` proves of
`Spec`: `TypeCorrect`; `SiblingListsHold` and `TxnListsHold`; `ChildrenCloseWithTheirDB`;
`EnclosedNeverDangle`; `OwnersStayAllocated`; `NothingEverLeaks`;
`StalenessIsConfined`; and, as an action property, `PreparedIsKept`.

The argument. The list invariants are not inductive alone: a cascade closes
exactly the right handles only if each list contains what its owner's list says
*and* owners are of the right kind and alive. `IInv` is the conjunction of

- `TreeInv`: the two families of lists are exact; children are under an open DB,
  enclosed handles under a live transaction; `Shape`: fresh and dead wrappers are
  in no list, owners are of the right kind;
- `NativeInv`: the native state behind each wrapper follows its `st`, except for
  children of a resolved transaction; needed for staleness, since the library
  resolves more than the wrapper being closed;
- `NothingLeaks` and `OwnersAllocated`.

`Inductive` proves `Spec => [](TypeOK /\ IInv)` with one lemma per action, on top
of lemmas about the cascades (`DBCascadeClosed`, `TxnCascadeClosed`,
`EnvCascadeClosed`: what a cascade returns is closed under "child of") and about
closing any such set (`CloseKeepsTree`, `CloseKeepsNative`).

`InheritanceIsStepwise`, for transactions nested to any depth, needs two more
invariants, `AncestryInv` (the line of parents is transitive, and the same for
wrapper and native transaction) and `PassedInv` (whoever handed a DB up is
resolved).

Two action properties. `ClosedStaysClosed` says that
no call reopens a wrapper or touches a native handle it gave up; it needs `Life`,
that a wrapper not yet created has no native handle and that only a closed
transaction is left to the library. `EnvTakesAllAlong` says that when an
environment gives up its handle nothing under it stays open; its lemma
`CascadeReaches` shows that the loops of the close visit everything that hangs
under the environment, and `GarbageHasNone` that one being deallocated has
nothing left to visit.

`ChildLists_proofs` proves `ListsStayLinked`, for any number of DBs and
transactions, from `MaxOpens = 1`; `lists_twice` shows that this assumption is
needed. Its core is two lemmas about memory, `InsertKeepsLinks` and
`ExtractKeepsLinks`.

It also proves `QueuesRefined`, `Spec => ImplementsQueues`, under the same
assumption. What the abstract lists are is defined by following pointers, so that
a proof needs to know where the walk ends. `Gives(m, x, s)` says without a walk
that the pointers `m` read from `x` on give the sequence `s`, and `ChainIs` that
then the walk gives `s`: there is no least turn at which the two differ
(`LeastNumber`, an instance of the well-foundedness of the naturals), and `Chain`
takes enough turns because no DB is in `s` twice and the handles are
finitely many. `InsertGives` and `ExtractGives` then say of the two macros that
they put a DB at the head and take it out where it is; one lemma per action shows
that it is the step of `TxnQueues` of that name, and that a turn of a loop that
only tests is a stutter.

`GilWindows_proofs` proves `ClosedOnceHolds`, `NativeOrderHolds` and
`QuietListsHold` for any number of threads, transactions, DBs and cursors, of
programs that are `Orderly`: the environment is closed when no other call runs;
each cursor wrapper is made by one call; and what a call of one thread may close,
with everything the cascade takes along, no other thread closes or uses to make a
cursor, except that several may commit or abort a transaction in which nothing is
opened. This is what the library asks of threads that share its handles; that
it is needed the run `gil_closing` and the cases listed in section 3 show. It
restricts what the program calls, never when the lock changes hands, and
`MCGilWindows` lets TLC evaluate that the program of `gil_shared` is orderly. The
invariant has to say where each C function stands. `StackInv`: frames are
ordered by who calls whom, all of them on what the outermost call reaches.
`ListInv`: a wrapper whose pointer is set is in its lists unless a frame has taken
it out and not yet closed it (`Leaving`). `EndsInv`: a handle has been closed
natively exactly if its pointer is cleared or a frame is about to clear it.
`CloseInv`: whoever is at the native close of a parent has seen its lists empty,
and they stay empty. `Orderly` enters where a step of one thread could disturb
what the frame of another has seen.

`DataAccess_proofs` proves `NoDuplicatesHolds`, `StoredIsKeptHolds`,
`RefusedOnlyByRaceHolds`, `ListsAreCompleteHolds` and `NoneOnlyWhenAskedHolds`,
for any number of threads, keys and records. `AssignInv` says that a key is there
between the delete and the second put of an assignment only by a race, and that
nothing else makes the second put fail for it; `ListInv` that a list in progress
has what was there throughout, up to where it is; `ReadInv` that what a method
read of its flag is among what the flag has been.

Of `LegacySpec` it proves `CursorsAreKnown`, `InIterIsExact`, `PlaceIsKept` and
the action property `IterationIsComplete`, for any number of records and
generators. `LegacyInv` adds what a suspended generator knows: as long as its
cursor is among `_cursor_refs` it is on a record and has given exactly the
records up to that one; after a write it is not among them. `Extremes` gives
the least and greatest element of a finite set of numbers, by well-foundedness of
the subset order.

`TwoPhaseCommit_proofs` proves `NeverOrphan`, the refinement itself (`Refinement`:
`Spec => ImplementsAtomicCommit`, steps and initial states) and from it
`AllOrNothing`: no transaction is committed in one environment and aborted in
another. The invariant `Sound` ties wrapper, native transaction, vote and
decision of each branch: a plain wrapper stands for an unprepared transaction, a
prepared branch has voted, a committed one was decided so. With it every step
moves the branches of one environment only (`OneMoves`) and each of them as
`AtomicCommit` permits (`MayGo`), a crash that undoes a commit included: what was
unflushed has voted, so it is prepared again and its decision is known.
`RecoverIsExact` and `WrappersAreFresh` need more of the loop in
`DBEnv_txn_recover`: `RInv` says that its list has each branch once and that what
is collected so far is what is listed, and that a branch has one wrapper at a
time, in the hands of the program or in that list, unless a second one was
recovered while the first was there.

`Callbacks_proofs` proves `CountsAreExact`, `CallbacksServed`,
`NeverFreedUnderCall` and the action property `ComparatorStays`. Counts and slot
agree only up to the calls in progress; `Frame` says what each of them has found
and done, and that without an overlap at most one sets the slot.

`RecordNumbers_proofs` proves `NamesAlwaysHold`, `AnswersAreOwn` and
`MemoryIsExact` for every width. `RoundTrip` is the arithmetic: a number told as a C
long, of 32 bits or more than that, or as a signed int comes back. `CallInv` says of each DBT in flight that freeing
it is right, which for `get_both` depends on where the data lies.

`LockRetry_proofs` proves `NothingElseIsLost`, `AsleepWithoutLocks` (a thread that
sleeps has no locks if its function cleans up, the reason why nobody waits for
it) and `RetriesAreCounted`. `AmongFirst` relates the count of an object among
the first n of an order to that among the first n + 1; every step changes at most
one count of the table and one of a thread.

Each invariant is stated in the module it is about or at the head of its proof,
with type correctness as its first part (`InvariantHolds`), and was checked by
TLC on the instances of section 3 before it was proved.

Only model-checked: liveness (`ResolveEnds`, `CallsReturn`,
`DecisionsReachBranches`, `WrapEnds`), which is out of the prover's reach. Every
other property of the passing runs is a theorem. Induction over data is
used only in the instances the library proves well-founded, the naturals
and the subsets of a finite set.

The proofs found one fault in the models: the outcome of a call in `DataAccess`
and the step of `Reposition` in `LegacyDB` were a `CASE` whose arms overlapped, of
which TLC takes the first and the semantics any. They also found what `gil_shared`
had assumed without saying so, which is now `Orderly`.

## 6. Not modelled

Cursor positions, partial records, joins and the contents of secondary indexes:
Berkeley DB keeps and computes them, the extension passes arguments through.
Replication, configuration and statistics: a test of the handle and one native
call each. Error texts; the shelf, `dbobj` and `dbrecio`; module initialisation.
`PROJECT.json` gives the reason for each, and its hazards without a property say
what each could hide.

## 7. Plan

Done, in this order: `HandleTree` with its proofs; `ChildLists` and `TxnQueues`;
`GilWindows`; `LegacyDB`; `DataAccess`; `Callbacks`; `TwoPhaseCommit` and
`AtomicCommit`; `RecordNumbers`; `LockRetry`, all with their proofs.

Left, the most important first:

1. `LegacyDB` with two threads: `_checkCursor` and `_closeCursors` are not atomic.
2. `DataAccess` composed with a `DB.close` of another thread.
3. The native references of a join cursor; `DBShelf`'s `_closed` flag.

Theorems to come: that the program of `DataAccess` loses no record by its own
assignments when threads write different keys; that `Orderly` can be weakened to
let a DB be closed while another thread has a cursor over another DB of the same
transaction.

## 8. Use

`tlc -config X.cfg M` for a run, `tlapm M.tla` for the proof modules; the module of
each run is in `PROJECT.json`. The modules use the standard modules, `SequencesExt`
of the community modules and the TLAPS library.
