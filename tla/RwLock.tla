------------------------------- MODULE RwLock -------------------------------
(***************************************************************************)
(* The preemptive spinning read-write lock, SpinningRwLock of              *)
(* src/rwlock/preemptive, with the tasks and guards that work on it.       *)
(*                                                                         *)
(* The actors are the Acquire handles.  A handle is borrowed mutably by    *)
(* the task or guard made from it, so it runs one task or carries one      *)
(* guard at a time, whichever thread owns it.  The one exception is        *)
(* Upgrade: it keeps the UpgradableReaderGuard (slot base) and lends it to *)
(* the WriterGuard of a pinned upgrade (slot inner); until the inner guard *)
(* is gone the base guard cannot be used.                                  *)
(*                                                                         *)
(* The lock is new: its cell is zero, as new_owned makes it.  A client who *)
(* hands SpinningRwLock::new a cell of his own is taken to hand in a zero, *)
(* for any other value tells of guards that do not exist.                  *)
(*                                                                         *)
(* One action is one compare-exchange loop on the state word, which takes  *)
(* effect at a single instant: either its successful exchange or the read  *)
(* whose value the "expect" predicate refuses.  try_write and the          *)
(* consuming try_upgrade run two such loops and are two actions each.      *)
(***************************************************************************)
EXTENDS RwWord, FiniteSets

CONSTANTS
  Acq,     \* the Acquire handles
  Calls    \* the operations the client of each handle uses

\* "cancel" stands for a cancelled token and for the one-shot try_ calls,
\* which behave as a task whose token is cancelled from the start.
\* "nested_downgrade" is downgrade_to_upgradable on the guard of a pinned
\* upgrade.
Op == {"read", "write", "upgradable_read", "cancel", "downgrade", "try_upgrade",
       "upgrade", "downgrade_to_reader", "downgrade_to_upgradable",
       "nested_downgrade"}

ASSUME CallsAssumption == Calls \in [Acq -> SUBSET Op]

Guard == {"none", "reader", "upgradable", "writer"}

\* "queue": try_write lost its first loop and will set K_WRITER_QUEUED.
\* "shed": try_upgrade has the writer guard and will drop the old one.
Pc == {"idle", "read", "write", "queue", "upgradable_read", "upgrade", "shed"}

VARIABLES
  word,    \* the state word
  pc,      \* what each handle is doing
  base,    \* the guard made from each handle
  inner    \* the guard lent by the Upgrade that holds the base guard

vars == <<word, pc, base, inner>>

TypeOK ==
  /\ word \in Word
  /\ pc \in [Acq -> Pc]
  /\ base \in [Acq -> Guard]
  /\ inner \in [Acq -> Guard]

Init ==
  /\ word = NotLocked
  /\ pc = [a \in Acq |-> "idle"]
  /\ base = [a \in Acq |-> "none"]
  /\ inner = [a \in Acq |-> "none"]

----------------------------------------------------------------------------

\* try_spin_update_: one exchange if the word is as expected, else nothing.
SpinUpdate(ok, new) == word' = IF ok THEN new ELSE word

Goto(a, p) == pc' = [pc EXCEPT ![a] = p]

\* The guard of handle a that its client can use now.
Top(a) == IF inner[a] = "none" THEN base[a] ELSE inner[a]

Holds(a, g) == pc[a] = "idle" /\ Top(a) = g

\* The usable guard of a becomes g.
Replace(a, g) ==
  IF inner[a] = "none"
  THEN base' = [base EXCEPT ![a] = g] /\ UNCHANGED inner
  ELSE inner' = [inner EXCEPT ![a] = g] /\ UNCHANGED base

----------------------------------------------------------------------------
\* Tasks.  ReadTask, WriteTask and UpgradableReadTask borrow a free handle.

StartTask(a) ==
  /\ Holds(a, "none")
  /\ \E t \in {"read", "write", "upgradable_read"} \cap Calls[a] : Goto(a, t)
  /\ UNCHANGED <<word, base, inner>>

\* may_cancel_with_impl_: a task repeats its try until it is granted, or leaves
\* if its token is cancelled after a try that failed.
Leave(a, t) ==
  /\ pc[a] = t
  /\ "cancel" \in Calls[a]
  /\ Goto(a, "idle")
  /\ UNCHANGED <<word, base, inner>>

GiveUpRead(a) == ~ExpectCanRead(word) /\ Leave(a, "read")

GiveUpUpgradableRead(a) ==
  ~ExpectWriteNotQueuedAndUpgradeInactive(word) /\ Leave(a, "upgradable_read")

GiveUpUpgrade(a) == ~ExpectCanUpgrade(word) /\ Leave(a, "upgrade")

GiveUp(a) == GiveUpRead(a) \/ GiveUpUpgradableRead(a) \/ GiveUpUpgrade(a)

TryRead(a) ==
  /\ pc[a] = "read"
  /\ ExpectCanRead(word)
  /\ word' = DesireIncReader(word)
  /\ Goto(a, "idle")
  /\ Replace(a, "reader")

TryUpgradableRead(a) ==
  /\ pc[a] = "upgradable_read"
  /\ ExpectWriteNotQueuedAndUpgradeInactive(word)
  /\ word' = DesireUpgradeActiveAndReaderInc(word)
  /\ Goto(a, "idle")
  /\ Replace(a, "upgradable")

\* First loop of try_write.
TryWrite(a) ==
  /\ pc[a] = "write"
  /\ SpinUpdate(ExpectCanWrite(word), DesireWriterActive(word))
  /\ IF ExpectCanWrite(word)
     THEN Goto(a, "idle") /\ Replace(a, "writer")
     ELSE Goto(a, "queue") /\ UNCHANGED <<base, inner>>

\* A WriteTask whose try has failed tests its token and goes round or leaves.
WriteAgain(a) == Goto(a, "write") \/ ("cancel" \in Calls[a] /\ Goto(a, "idle"))

\* Second loop of try_write, whose result is ignored: the try has failed.
EnqueueWriter(a) ==
  /\ pc[a] = "queue"
  /\ SpinUpdate(~word.q, DesireWriterQueued(word))
  /\ WriteAgain(a)
  /\ UNCHANGED <<base, inner>>

----------------------------------------------------------------------------
\* Upgrades.

\* UpgradableReaderGuard::try_upgrade takes the guard by value.  On failure
\* it hands the guard back, which changes nothing.
TryUpgrade(a) ==
  /\ Holds(a, "upgradable")
  /\ "try_upgrade" \in Calls[a]
  /\ ExpectCanUpgrade(word)
  /\ word' = DesireWriterActive(word)
  /\ Goto(a, "shed")
  /\ Replace(a, "writer")

KeepOldGuard(a) ==
  /\ pc[a] = "shed"
  /\ Goto(a, "idle")
  /\ UNCHANGED <<word, base, inner>>

\* ... and on success the old guard is dropped when the call returns.
ShedUpgradable(a) ==
  /\ pc[a] = "shed"
  /\ SpinUpdate(word.u, DesireUpgradeInactiveAndReaderDec(word))
  /\ Goto(a, "idle")
  /\ UNCHANGED <<base, inner>>

\* An UpgradeTask borrows the guard kept in an Upgrade.
StartUpgrade(a) ==
  /\ Holds(a, "upgradable")
  /\ "upgrade" \in Calls[a]
  /\ Goto(a, "upgrade")
  /\ UNCHANGED <<word, base, inner>>

\* The guard that a nested downgrade has left in inner may start an upgrade of
\* its own.  It is never granted, for its count and that of the base guard are
\* two, so there is no guard lent by a lent guard.
UpgradePinned(a) ==
  /\ pc[a] = "upgrade"
  /\ ExpectCanUpgrade(word)
  /\ word' = DesireWriterActive(word)
  /\ Goto(a, "idle")
  /\ inner' = [inner EXCEPT ![a] = "writer"]
  /\ UNCHANGED base

----------------------------------------------------------------------------
\* Downgrades.  The guard is taken apart before the word is updated; when the
\* word is not as expected the call panics ("unreachable") and the guard is
\* gone without having given its count back.

Downgrade(a, op, from, to, ok, new) ==
  /\ Holds(a, from)
  /\ op \in Calls[a]
  /\ SpinUpdate(ok, new)
  /\ Replace(a, IF ok THEN to ELSE "none")
  /\ UNCHANGED pc

DowngradeWriterToReader(a) ==
  Downgrade(a, "downgrade_to_reader", "writer", "reader",
            word.w, DesireWriteToRead(word))

DowngradeWriterToUpgradable(a) ==
  Downgrade(a, IF inner[a] = "none" THEN "downgrade_to_upgradable"
                                    ELSE "nested_downgrade",
            "writer", "upgradable", word.w, DesireWriteToUpgradable(word))

DowngradeUpgradableToReader(a) ==
  Downgrade(a, "downgrade", "upgradable", "reader",
            ExpectCanDowngradeToRead(word), DesireUpgradeInactive(word))

----------------------------------------------------------------------------
\* Guards going out of scope.  A refused update trips a debug_assert; release
\* builds carry on with the word as it is.

Drop(a, from, ok, new) ==
  /\ Holds(a, from)
  /\ SpinUpdate(ok, new)
  /\ Replace(a, "none")
  /\ UNCHANGED pc

DropReader(a) == Drop(a, "reader", word.r > 0, DesireDecReader(word))

DropWriter(a) == Drop(a, "writer", word.w, DesireWriterNotQueuedInactive(word))

DropUpgradable(a) ==
  Drop(a, "upgradable", word.u, DesireUpgradeInactiveAndReaderDec(word))

----------------------------------------------------------------------------

DropTop(a) == DropReader(a) \/ DropWriter(a) \/ DropUpgradable(a)

\* A step of a task or of a call that has begun.
Spin(a) ==
  \/ TryRead(a)
  \/ TryUpgradableRead(a)
  \/ TryWrite(a)
  \/ EnqueueWriter(a)
  \/ UpgradePinned(a)
  \/ ShedUpgradable(a)

Next ==
  \E a \in Acq :
    \/ StartTask(a)
    \/ GiveUp(a)
    \/ TryRead(a)
    \/ TryUpgradableRead(a)
    \/ TryWrite(a)
    \/ EnqueueWriter(a)
    \/ TryUpgrade(a)
    \/ ShedUpgradable(a)
    \/ StartUpgrade(a)
    \/ UpgradePinned(a)
    \/ DowngradeWriterToReader(a)
    \/ DowngradeWriterToUpgradable(a)
    \/ DowngradeUpgradableToReader(a)
    \/ DropReader(a)
    \/ DropWriter(a)
    \/ DropUpgradable(a)

Spec == Init /\ [][Next]_vars

\* A thread that spins keeps running, and clients let go of the guard they
\* can use, sooner or later.
Fairness == \A a \in Acq : WF_vars(Spin(a)) /\ SF_vars(DropTop(a))

FairSpec == Spec /\ Fairness
----------------------------------------------------------------------------
(***************************************************************************)
(* What the lock promises                                                  *)
(***************************************************************************)

\* Handles whose base guard has its one in the reader count, and handles
\* whose inner guard has.
Counted ==
  {a \in Acq : base[a] \in {"reader", "upgradable"} \/ pc[a] = "shed"}
InnerCounted == {a \in Acq : inner[a] \in {"reader", "upgradable"}}

\* Guards that take the upgrade flag to be theirs.
Claims == {a \in Acq : base[a] = "upgradable" \/ pc[a] = "shed"}
InnerClaims == {a \in Acq : inner[a] = "upgradable"}

\* Part of the reader count that no guard will give back, and guards whose
\* upgrade flag is gone.
Lost == word.r - Cardinality(Counted) - Cardinality(InnerCounted)
Orphans == Cardinality(Claims) + Cardinality(InnerClaims)
           - IF word.u THEN 1 ELSE 0

\* While the guard a client can use lets it write, no other client has a
\* guard it can use.  This is what deref_mut_impl relies on.
MutualExclusion ==
  \A a, b \in Acq : a # b /\ Top(a) = "writer" => Top(b) = "none"

\* Whatever the clients do, at most one count or one upgrade flag goes
\* astray over the whole life of the lock, and the count never falls below
\* the guards it stands for.
AtMostOneLeak == Lost >= 0 /\ Orphans >= 0 /\ Lost + Orphans <= 1

\* The reader count is exactly what the guards will give back, so that a lock
\* whose guards are all gone can be written again (reader_count in
\* rwlock_.rs, and the tests that end with a count of zero).
CountIsExact == Lost = 0 /\ Orphans = 0

\* No debug_assert and no unreachable! of a drop or downgrade can be reached:
\* at any time, whatever the other clients do, the word grants every guard
\* in scope its way out.
NoAssertionFails ==
  \A a \in Acq :
    /\ Holds(a, "reader") => word.r > 0
    /\ Holds(a, "writer") => word.w
    /\ Holds(a, "upgradable") => ExpectCanDowngradeToRead(word)
    /\ pc[a] = "shed" => word.u

\* K_WRITER_QUEUED, which keeps readers out, is up only while some writer is
\* waiting or about to clear it.  Clients that cancel a write or downgrade a
\* writer void this: the flag then stays up with nobody behind it.
QueuedHasWriter ==
  word.q => \E a \in Acq : pc[a] \in {"write", "queue"} \/ Top(a) = "writer"

\* The word refuses nobody without cause: a writer only for a guard that is out,
\* an upgrade only for a reader, and a reader only for a writer or, if readers
\* are to wait for it, the queue flag.  So nothing of a guard that has gone, the
\* writer flag, the upgrade flag or a count, stays behind to refuse others.  The
\* queue flag is a cause by itself: a write that is given up may leave it up,
\* and QueuedHasWriter says for whom it does not.
RefusedForCause ==
  LET BehindWriter == word.q \/ \E a \in Acq : Top(a) = "writer" IN
  /\ ~ExpectCanWrite(word) => \E a \in Acq : base[a] # "none"
  /\ ~ExpectCanRead(word) => BehindWriter
  /\ ~ExpectWriteNotQueuedAndUpgradeInactive(word) =>
       BehindWriter \/ \E a \in Acq : base[a] = "upgradable"
  /\ ~ExpectCanUpgrade(word) =>
       \A a \in Acq : base[a] = "upgradable" =>
         \E b \in Acq : Top(b) = "reader"

\* A queue flag that is up while nobody writes stays up until a writer is in,
\* and the count of those who read only falls: this, and not the order in which
\* they came, is what gets a writer past readers that keep coming.
QueueDrains ==
  [][word.q /\ ~word.w => word'.q /\ word'.r <= word.r]_vars

\* An upgrade that waits keeps its flag and meets no writer, and what it waits
\* for, that the count falls to its own, is put off by new readers alone: no
\* upgradable reader and no guard that is dropped or traded undoes it.
UpgradeKeepsItsPlace ==
  [][\A a \in Acq : pc[a] = "upgrade" /\ pc'[a] = "upgrade" =>
       /\ word'.u /\ ~word'.w
       /\ word'.r > word.r => \E b \in Acq : TryRead(b)]_vars

\* A waiting writer is not overtaken by readers for ever: with patient
\* clients some writer, this one or another, gets the lock.
WriterProgress ==
  \A a \in Acq :
    pc[a] \in {"write", "queue"} ~> word.w \/ pc[a] \notin {"write", "queue"}

\* A writer that queues behind a pinned upgrade does not deadlock with it:
\* the upgrade needs neither the queue nor the writer flag and goes first.
UpgradeAheadOfWriter ==
  \A a \in Acq : pc[a] = "upgrade" /\ word.q ~> inner[a] = "writer"

\* An upgrade raises no flag that keeps readers out, so it may be passed over,
\* but by nothing else than readers that keep coming: not by upgradable
\* readers, nor by writers, their queue flags and their cancelled tries.
UpgradeYieldsOnlyToReaders ==
  \A a \in Acq :
    <>[](pc[a] = "upgrade") => []<><<\E b \in Acq : TryRead(b)>>_vars

\* A reader that waits for ever is passed over by writers for ever: no flag
\* stays up that keeps readers out while nobody writes.
ReaderYieldsOnlyToWriters ==
  \A a \in Acq : <>[](pc[a] = "read") => []<><<~word.w /\ word'.w>>_vars

\* What a handle holds, in the terms of RwLockAbs.
Mode(a) ==
  IF "writer" \in {base[a], inner[a]} THEN "exclusive"
  ELSE IF base[a] = "upgradable" THEN "upgradable"
  ELSE IF base[a] = "reader" THEN "shared"
  ELSE "none"

Abs == INSTANCE RwLockAbs WITH hold <- [a \in Acq |-> Mode(a)]

\* The packed word with its separate loops implements the lock a client is
\* told of, whose grants and changes of mode each happen at one instant.
ImplementsAbs == Abs!Spec
=============================================================================
