# atomic_sync in TLA+

Specifications of the locks of `atomic_sync`, the TLC configurations that check
them on small instances, and TLAPS proofs of their main properties for every
number of clients. Paths are relative to the repository root, which is the
directory `src/` beside this one.

## The system

The crate has two locks in use and the beginnings of a third that is switched off.

| component | source | state | operations |
|---|---|---|---|
| state word of the read-write lock | `src/rwlock/preemptive/rwlock_.rs` (`RwLockState`) | one unsigned integer: writer-active, writer-queued and upgrade-active bits, reader count | eleven predicate/update pairs, each given to one compare-exchange loop |
| read-write lock, tasks and guards | `src/rwlock/preemptive/{rwlock_,reader_,writer_,upgrade_}.rs` | which `Acquire` handle has which guard, which task is waiting | read, write, upgradable read, with or without a token; the two upgrades; three downgrades; three drops |
| mutex | `src/mutex/preemptive.rs` | the client's atomic cell | `lock`, `try_lock`, drop of the guard |
| mutex signals | same file | none | what "acquired" means for an integer (top bit) and for a pointer (odd) |
| tasks and cancellation | `may_cancel_with_impl_`, `UpgradeTask`, `LockAcqTask` | the value last seen, the token | try, test the token, try again |
| list of the sequential (FIFO) read-write lock | `src/rwlock/sequential/acquire_.rs` | the `prev_` and `next_` links of each `AcqLink`; a `prev_` is also the lock of its node | `try_insert_next_`, `AcqLinkGuard::try_acquire`, `update_prev`, drop of the guard |
| rest of the sequential lock | `src/rwlock/sequential/` | none yet | all `todo!()`; the module is commented out in `src/rwlock/mod.rs` |
| re-exports, `Deref`, `Debug`, `Send`/`Sync` | `src/lib.rs`, `mod.rs` files | none | none |
| `atomex`, `abs_sync` | external crates | the atomic cell | weak and looping compare-exchange, task and lock traits |

Threads interact only through one atomic cell per lock. Guards are affine: a
guard borrows its `Acquire` handle mutably, so a handle has one task or one
guard at a time. The exception is `Upgrade`, which keeps an upgradable guard and
lends a writer guard out of it; the inherent method of its task lends a guard that
no longer borrows it. The sequential lock's threads meet at the links of its nodes.

What is hard here: the order in which loops of different handles take effect
between the two loops of `try_write` and of the consuming `try_upgrade`; flags
that survive the call that raised them; counts at their limits, where addition
on the packed word carries; legal chains of upgrades and downgrades; values read
once and used for the whole wait; results that are ignored. `PROJECT.json` lists
these at their lines, under "hazards".

What makes each part correct: for the word, that its predicates and updates are
what the bits do; for the read-write lock, that writing is exclusive, that the
count and the flags are those of the guards there are, that no assertion of a
drop can fail, that writers, readers and upgrades get on, and that each loop takes
effect at one instant although it reads and exchanges in two; for the list, that a
node has one holder at a time and no link is lost; for the mutex, exclusion, that a
release always takes effect, that the payload of the cell survives, that a free
mutex can be had.

## Modules

* `RwWord`: the state word as a record `[w, q, u, r]` and every `expect_`/`desire_`
  function of `RwLockState`. Addition and subtraction carry and borrow between
  the fields as they do in the integer. `MaxReaderCount` is a constant.
* `BitWords`: the unsigned integers of `BITS` bits and Rust's `<<`, `&`, `|`, `!` on them,
  as recursive functions over the bits, so that they can be proved about.
* `RwBits`: the functions of `RwLockState` on such an integer, with masks and
  addition modulo `2^BITS`, and the comparison with the record.
* `RwLock`: the lock with its handles. Variables: `word`; `pc`, what each handle is
  doing; `base`, the guard made from a handle; `inner`, the guard lent by the
  `Upgrade` that keeps the base guard. One action is one compare-exchange loop,
  taken to happen at its deciding access. The operations each client uses are the
  constant `Calls`, so that a run or a theorem can speak of well-behaved clients.
* `RwLockAbs`: what a client is promised, in terms of modes held (none, shared,
  upgradable, exclusive), their compatibility and the changes of mode a client
  can ask for.
* `RwSpin`: `RwLock` with `try_spin_update_` spelled out. `loop` is the loop a handle is
  in the middle of and `seen` the value it has in hand. A loop begins by reading
  and testing the word (`Begin`), then exchanges (`Exchange`, which is where the call's
  result is decided) or fails to and tests what it found (`Retry`). The loops, their
  predicates, updates and results are tables (`Expects`, `Desires`, `Granted`, `Refused`)
  indexed by the name of the loop.
* `RwLoan`: `RwLock` with the inherent `UpgradeTask::may_cancel_with` (`Lend`). `loose`
  counts the guards it has handed out, which live beside the guard that lent them.
* `RwCrowd`: the lock with guards counted rather than named, to drive an 8-bit word
  to the limit of its count. Its clients do not upgrade.
* `SpinMutex`: the mutex, one access of the cell per action, with weak exchanges
  that may fail for no reason. The signal is a parameter; `MutexSignal` has the two
  of the code.
* `AcqLink`: the list of the sequential lock, one access of a link per action.
  Variables: the links `prev` and `next`; per thread `pc`, the arguments of its call
  `job`, the link its next exchange expects `current`, and the links its two
  `AcqLinkGuard`s keep, `saved`. `AcqLinkAbs` is what the node locks promise: one holder
  per node, and a link that only the holder of both nodes can change.
* `MCRwLock`, `MCRwSpin`, `MCRwLoan`, `MCSpinMutex`: values of the constants for the runs.
* `RwWordProofs`, `BitProofs`, `RwLockProofs`, `RwLockExactProofs`, `RwSpinProofs`,
  `RwCrowdProofs`, `AcqLinkProofs`, `SpinMutexProofs`: the proofs.

`RwLock` and `RwCrowd` extend `RwWord`, `RwSpin` and `RwLoan` extend `RwLock`, `RwBits` and
`MutexSignal` extend `BitWords`; `RwBits`, `RwLock` and `AcqLink` instantiate
`RwWord`, `RwLockAbs` and `AcqLinkAbs`. The operators that come before an
action or update and change it in one respect (`CanReadPastWriter`, `KeepOldGuard`,
`BlindSpinSucceeds`, ...) are plausible mistakes in that code; each property is
known to catch at least one of them, listed in `PROJECT.json` under "mutants".

### How actions correspond to code

`try_spin_update_` retries a weak exchange until it succeeds on a value its
predicate accepts or reads a value it refuses. Nothing is visible of its failed
rounds, so `RwLock` takes it as one step: `SpinUpdate`. `RwSpin` does not, and is
shown to implement `RwLock`. `try_write` runs two such
loops and is `TryWrite` then `EnqueueWriter`; the consuming `try_upgrade` runs one
and then drops the guard it was given, which runs another: `TryUpgrade` then
`ShedUpgradable`. The waiting loop of a task is the repetition of its action;
`GiveUpRead` and its siblings (for a writer, `WriteAgain`) are the test of the token after
a try that failed. The
`try_` calls are tasks whose token is cancelled from the start. A refused
downgrade panics after `destruct_guard_` has taken the guard apart, so the guard
goes and its count stays; a refused drop trips a `debug_assert!` and, in a release
build, changes nothing. Both are in the model, as the `ok` of `Downgrade` and `Drop`.

A lock starts with a word of zero, as `new_owned` makes it. `SpinningRwLock::new` takes
whatever cell it is given; that its value is zero is assumed here, since any other
tells of guards that do not exist. An upgrade can also be started by the guard that
a nested downgrade has left within another `Upgrade` (`StartUpgrade`); it is never
granted, for the two guards make a count of two, so no third level of guards is needed.

In `SpinMutex` the same loop is spelled out (`ReadToRelease`, `ReleaseFails`,
`ReleaseEnds`), because there the question is what happens between its accesses.
`try_once_compare_exchange_weak` is modelled from its use: it tests the value it is
handed and exchanges once; a failed exchange returns the value found. Where the
cell is found acquired it may also report it as `Unexpected`.

In `AcqLink` a call of `try_insert_next_` is `Start`, `AcquireCandidate`, `AcquireNode`,
`Insert`, `DropNodeGuard`, `DropCandidateGuard`, in this order. `Retry` is an exchange of
`try_acquire` that fails, whether the link was another or for no reason; a token
cancelled at that point is `CancelCandidate` or `CancelNode`. An insertion that finds
`next_` set drops its guards in the same order, the later one first. `update_prev`
writes to the guard, so the new link is in the node only after `DropCandidateGuard`;
the refinement mapping `link` looks for a locked node's link in the guard.

## Runs

Each takes less than a minute.

| run | instance | shows |
|---|---|---|
| `rw_any` | 4 handles, every call, count to 7, symmetry | `TypeOK`, `MutualExclusion`, `AtMostOneLeak`, `QueueDrains` |
| `rw_no_nesting` | 4 handles, every call but the nested downgrade, fair | `CountIsExact`, `NoAssertionFails`, `RefusedForCause`, `ImplementsAbs`, `UpgradeKeepsItsPlace`, `WriterProgress`, `UpgradeYieldsOnlyToReaders` |
| `rw_patient` | 3 handles that wait and keep their writers, fair | `QueuedHasWriter`, `UpgradeAheadOfWriter`, `ReaderYieldsOnlyToWriters`, no deadlock |
| `rw_spin` | a reader, a writer and an upgrader with all their calls, fair | `SpinTypeOK`, `ImplementsLock`, `DeliversFairness` |
| `rw_bits` | all words of 8 bits | `ExpectationsAgree`, `UpdatesAgree` |
| `rw_crowd` | count to 31 (an `AtomicU8`), readers up to that limit and refused there | `ReadersBlockWriter`, `CountIsGuards` |
| `acq_link` | 2 threads, 3 nodes, one cancelled token, fair | `TypeOK`, `GuardsMatchLocks`, `ImplementsLinkLocks`, `InsertionsEnd` |
| `mutex_retry` | 3 handles, two of them with tokens that may be cancelled, fair; pointer signal, 2 addresses | `MutualExclusion`, `GuardMeansAcquired`, `PayloadKept`, `WaitsForCause`, `MutexIsTakenAgain` |

Two action properties are the safety side of the liveness below, and unlike it they
are proved. `QueueDrains`: from the moment a writer is queued until one is in, the
count only falls and the flag stays, whatever the clients call. `UpgradeKeepsItsPlace`:
an upgrade that waits keeps its flag, meets no writer, and is put off by readers
that come in and by nothing else. `RefusedForCause` says that every refusal is down to a
guard there is or, for readers, to the queue flag: no writer flag, upgrade flag or
count of a guard that has gone refuses anybody. The queue flag itself it takes as
a cause without asking who raised it; `QueuedHasWriter` asks, and holds when clients are
patient only, since a write that is given up or downgraded leaves the flag up.

What the liveness properties say, in words: a writer that waits is served, or another
is, whatever readers do. A reader may be kept waiting for ever by writers that
keep coming and by nothing else, and an upgrade by readers that keep coming and by
nothing else; neither is a defect of the lock, which promises no order. An
upgrade with a writer queued behind it is served, since the queue keeps readers
out. An insertion ends if all tokens but one are cancelled in the end; two
crosswise insertions that nobody cancels wait for each other for ever, and the
documentation of `try_insert_next_` does not say otherwise. `WaitsForCause` is about
`lock()` on the mutex: a task that never returns is overtaken by others for ever or
holds on to an acquired value that it read at its start, which is the defect
`mutex_wait` shows; no cancelled or failed try of another handle, and no release, leaves it
waiting for any other reason. `MutexIsTakenAgain` says that the defect goes no
further: if clients retry with cancelled tokens the mutex keeps being taken.

Four runs end in a counterexample, each a disagreement between the code and what
it says of itself ("findings" in `PROJECT.json`):

* `rw_nested_downgrade`: `NoAssertionFails` fails. upgradable read, `upgrade()`,
  `try_upgrade()`, `downgrade_to_upgradable()`, drop, drop: the second drop finds the
  flag gone. In a release build one reader count stays in the word for good
  and nobody writes again. `AtMostOneLeak` says it gets no worse.
* `rw_loan`: `LooseWriterHasFlag` fails. upgradable read, `upgrade()`, the task's
  inherent `may_cancel_with`, then, beside the writer it returned,
  `into_guard().try_upgrade()`, and one of the two writers dropped: the other is left
  without the flag that its own drop asserts. The two were writers at the same time
  before that.
* `rw_crowd_overflow`: `ReadersBlockWriter` fails when an upgradable reader comes on a
  full count, because `try_upgradable_read` does not look at the count.
* `mutex_wait`: `NoWaitOnFreeMutex` fails. A `lock()` that first reads the cell while
  it is acquired keeps that value, is refused on it every time, and never looks
  again.

### Bounds

Four handles let two readers, an upgradable reader and a writer meet, with one
pinned upgrade; three suffice for patient clients, a waiting one, one that it waits
for and one that interferes. `rw_spin` has a handle for each kind of guard
a client sets out for, so that a loop of each kind can meet each other one between its
read and its exchange; what a fourth handle would add is in the proof. The count has the form `2^k - 1` it has in the code; 7 is room for
four guards, an inner guard and a lost count. A queue flag, an upgrade flag and a
writer flag are one bit each, so nothing else is bounded. Two threads and three
nodes let insertions share a node, cross each other, and follow in a
chain; one token is cancelled and one is not. `rw_loan` has two handles and at most two
loose writers of each. `Crowd` is the width's own
limit and one more. `rw_bits` takes all
words of eight bits, and `BitProofs` every other width. The cell of the mutex has 3
bits: two of payload and the signal's. Symmetry is used in safety runs only, where
every handle uses the same calls.

### Fairness

`RwLock!Fairness` is weak fairness of each handle's running call (`Spin`): a thread
that spins is scheduled, and a loop on an exchange that keeps being possible
succeeds. It is strong fairness of dropping the usable guard: a client may trade
guards for each other as often as it likes, but lets go in the end; without that
nobody else could be promised anything. No fairness is assumed of starting tasks,
giving up, upgrading by value or downgrading. `RwSpin!SpinFairness` asks that a thread
in a loop keeps running, that a weak exchange that could succeed over and over
does so, and again that guards are dropped; `DeliversFairness` shows that this gives the
loops of `RwLock` the fairness assumed there. `AcqLink!Fairness` is the same for the
exchanges of `try_acquire`, whose node may be locked and unlocked by others meanwhile
(strong fairness), and for the test of a cancelled token (weak: the token stays
cancelled). `SpinMutex!Fairness` adds strong
fairness of the exchanges themselves, since a weak exchange that could fail
spuriously for ever would promise nothing. That clients keep asking and that cancelled
tokens are noticed, as in the tests, is the premise `Retries` of `MutexIsTakenAgain`, and
not assumed by any other property.

## Proofs

`tlapm` checks every theorem below. The read-write theorems assume `Roomy`: finitely
many handles, and a reader count with room for all of them, one inner guard and one
lost count (an `AtomicUsize` has room for 2^61-1). `rw_crowd_overflow` shows that
without room exclusion is lost.

* `RwWordProofs`: what each update does to the four fields when it neither carries
  nor borrows, that every update gives a word, and `FullCountCarries`, the carry out
  of a full count that `rw_crowd_overflow` runs into. The other proofs cite these
  lemmas and never expand an update.
* `BitProofs`: the record of `RwWord` is the integer of the code, at every width of more
  than three bits (the code's have eight or more). `BitsUpdateTheRecord` and
  `BitsGrantTheRecord` are the two invariants of `rw_bits`; `RecordsAreWords` says that
  records and integers correspond one for one and that the width satisfies the
  assumption of `RwWord`. The operators recurse over the bits, so this is a proof by
  induction: `NatSetInduction` states it of a set of numbers and follows from the
  well-foundedness of `<`; `Recursion` shows that a function defined by
  recursion exists and satisfies its equation, from which `common` gets its own. What
  a mask does (`CommonWithOneBit`, `CommonWithLowBits`, `CommonWithNot`) then gives the
  form every word has, three flags above a count (`Packs`), and each update in
  it. `MsbIsSignal` and `PtrIsSignal`: the two signals of the mutex satisfy
  what `SpinMutex` assumes of one (`SignalAssumption`), the first at every width, the second for
  every set of even addresses.
* `RwLockProofs`: `TypeCorrect`, without `Roomy`; `Exclusion`, `OneLeak`, `QueueOnlyDrains`, and,
  for patient clients, `QueueServed`. None of the properties is inductive. `Inv` joins
  `AtMostOneLeak` to `Shape`: the writer flag is up exactly while there is a writer
  guard; what a handle is doing fits its guards; only one inner guard exists; and
  beside a writer there is no other base guard, with the count and the upgrade flag
  those of the guard it came from. The accounts and the shape need each other: a
  writer is granted on a count of zero, which by the accounts means no guards; an
  upgrade on a count of one, which by the accounts is its own; and the accounts
  stay balanced since by the shape no reader is beside a writer that downgrades.
  Cardinalities are handled once: `Ledger` says that a step of one handle changes
  `Lost` and `Orphans` by the difference between what happens to the word and what
  happens to that handle's guards (`Own`, `Claim`). One lemma per action follows.
* `RwLockExactProofs`: if no client makes the nested downgrade (`NotNested`), the
  accounts are exact (`ExactCount`), no assertion fails (`AssertionsHold`), every refusal
  has a guard or the queue flag as its cause (`RefusalsHaveCauses`), and `UpgradesKeepTheirPlace`. `Refinement`, under
  the same assumption: the modes held are always compatible, which includes that
  a second upgradable guard would be one more than the flag accounts for; so a step
  of one handle is a step of `RwLockAbs` as soon as the client could ask for the change.
* `RwSpinProofs`: `SpinTypeCorrect`, and `SpinRefinement`: every step of `RwSpin` is a step
  of `RwLock` or a stutter, for all handles and calls. The invariant is that a handle
  in a loop may run it and has a value in hand that the loop accepts; then an
  exchange that succeeds does what `RwLock` does in one step, and a refusal what
  `RwLock` does on the word just read. What is proved of `RwLock` then holds one access at a time:
  `SpinExclusion`, `SpinAccounts`, `SpinIsExact`, `SpinQueueServed`, and `SpinImplementsAbs`, the
  two refinements composed.
* `RwCrowdProofs`: `CrowdIsSafe` and `CrowdIsCounted`, for every `Crowd <= MaxReaderCount`.
* `AcqLinkProofs`: `TypeCorrect`, `LocksAreGuarded` and `Refinement`, for all threads, nodes
  and tokens. The invariant adds to `GuardsMatchLocks` that a thread in a call
  has its two nodes (`HasJob`). It is inductive because no expected link is ever the
  lock value: an exchange that succeeds has found the node unlocked, so nobody
  has it, and a drop unlocks what one thread has.
* `SpinMutexProofs`: `TypeCorrect`, `Exclusion`, `ReleaseIsGranted` and
  `PayloadSurvives`, for every signal that satisfies `SignalAssumption` and every set of
  handles. The invariant ties the holders to the cell and says that a guard being
  dropped has an acquired value in hand. `BitProofs` shows the assumption of the
  code's two signals.

Only model-checked: the liveness properties and `DeliversFairness`, since the prover has
no rules for fairness and `ENABLED`; and the four counterexamples, which are runs of
their instances.

## Not modelled

* The sequential lock but for its list: everything else of it is `todo!()` at this
  commit. Of the list, `try_detach_` is `todo!()`, and `next_` is written nowhere, so that
  every insertion after a node is granted and several candidates end up
  with the same predecessor. Nothing reads these links yet, and what they are to be in
  the end is not to be had from the code, so no property speaks of it. `acq_ptr`
  is pointer arithmetic.
* Upgrades in `RwCrowd`: they do not touch the count, whose limit that module is
  about; `RwLock` has them.
* A proof for `RwLoan`: its one property is refuted.
* `as_mut_ptr`, `into_inner`, `Deref`, `Debug`, `Send`/`Sync`: no part in the locking.
* Weaker memory orderings than `StrictOrderings`: TLA+ steps are sequentially
  consistent.
* Clients that `mem::forget` a guard and use its handle again: the count and the
  flags stay as if the guard were held.

## Plan

Done: `RwWord`, `RwBits`, `RwLock` with `RwLockAbs`, `RwSpin`, `RwLoan`, `RwCrowd`, `SpinMutex` with
`MutexSignal`, `AcqLink` with `AcqLinkAbs`, and their proofs. What would come
next depends on the code: the sequential lock's `next_`, `try_detach_` and grants, once
they are written, extend `AcqLink`; the abstract lock they have to implement is
`RwLockAbs` with an order of arrival.
