------------------------------- MODULE RwWord -------------------------------
(***************************************************************************)
(* The state word of the preemptive read-write lock (RwLockState in        *)
(* src/rwlock/preemptive/rwlock_.rs) and the predicates ("expect") and     *)
(* updates ("desire") that the lock passes to its compare-exchange loop.   *)
(*                                                                         *)
(* The code packs three flags and a counter into one unsigned integer of   *)
(* D::BITS bits.  Here the word is a record with one field per bit field:  *)
(*   w   bit BITS-1   K_WRITER_ACTIVE                                      *)
(*   q   bit BITS-2   K_WRITER_QUEUED                                      *)
(*   u   bit BITS-3   K_UPGRADE_ACTIVE                                     *)
(*   r   the bits below, of which K_MAX_READER_COUNT is the mask           *)
(* Adding or subtracting one is done on the whole integer, so a full       *)
(* counter carries into the flags and an empty one borrows from them.      *)
(* Module RwBits compares every operator below with bit arithmetic.        *)
(***************************************************************************)
EXTENDS Integers

CONSTANT MaxReaderCount   \* K_MAX_READER_COUNT = D::MAX >> 3

ASSUME MaxReaderCountAssumption == MaxReaderCount \in Nat \ {0}

Word == [w : BOOLEAN, q : BOOLEAN, u : BOOLEAN, r : 0 .. MaxReaderCount]

\* The word of a lock nobody holds.
NotLocked == [w |-> FALSE, q |-> FALSE, u |-> FALSE, r |-> 0]

DecUpwards(s) == [s EXCEPT !.r = @ + 1]

\* s + 1 on the whole word.
DesireIncReader(s) ==
  IF s.r < MaxReaderCount
  THEN [s EXCEPT !.r = @ + 1]
  ELSE [w |-> s.w # (s.q /\ s.u), q |-> s.q # s.u, u |-> ~s.u, r |-> 0]

\* s - 1 on the whole word.
DesireDecReader(s) ==
  IF s.r > 0
  THEN [s EXCEPT !.r = @ - 1]
  ELSE [w |-> s.w # (~s.q /\ ~s.u), q |-> s.q # ~s.u, u |-> ~s.u,
        r |-> MaxReaderCount]

----------------------------------------------------------------------------
\* try_read

CanReadPastQueue(s) == s.r < MaxReaderCount /\ ~s.w

CanReadBeyondMax(s) == ~s.q /\ ~s.w

CanReadPastWriter(s) == s.r < MaxReaderCount /\ ~s.q

CanReadBesideNoUpgrade(s) == s.r < MaxReaderCount /\ ~s.q /\ ~s.w /\ ~s.u

ExpectCanRead(s) == s.r < MaxReaderCount /\ ~s.q /\ ~s.w

\* try_write: the first loop takes the lock, the second one queues.

CanWriteWithOneReader(s) == s.r <= 1 /\ ~s.w

ExpectCanWrite(s) == s.r = 0 /\ ~s.w

DesireWriterActive(s) == [s EXCEPT !.w = TRUE]

DesireWriterQueued(s) == [s EXCEPT !.q = TRUE]

\* on_writer_guard_drop

KeepQueued(s) == [s EXCEPT !.w = FALSE]

DesireWriterNotQueuedInactive(s) == [s EXCEPT !.w = FALSE, !.q = FALSE]

\* try_upgradable_read: the counter is not compared with its maximum.

CanUpgradableReadTwice(s) == ~s.q /\ ~s.w

ExpectWriteNotQueuedAndUpgradeInactive(s) == ~s.q /\ ~s.w /\ ~s.u

DesireUpgradeActiveAndReaderInc(s) == DesireIncReader([s EXCEPT !.u = TRUE])

\* on_upgradable_read_drop

KeepUpgradeActive(s) == DesireDecReader(s)

DesireUpgradeInactiveAndReaderDec(s) == DesireDecReader([s EXCEPT !.u = FALSE])

\* The three downgrades.

WriteToReadUncounted(s) == [s EXCEPT !.w = FALSE]

DesireWriteToRead(s) == DesireIncReader([s EXCEPT !.w = FALSE])

DesireWriteToUpgradable(s) == DesireIncReader([s EXCEPT !.w = FALSE, !.u = TRUE])

ExpectCanDowngradeToRead(s) == s.u /\ ~s.w /\ s.r > 0

DesireUpgradeInactive(s) == [s EXCEPT !.u = FALSE]

\* try_upgrade_upgradable_to_write: no test of K_WRITER_ACTIVE or
\* K_WRITER_QUEUED, and the upgrade flag and the count stay as they are.

CanUpgradeWithReaders(s) == s.u

CanUpgradeUnlessQueued(s) == s.u /\ s.r = 1 /\ ~s.q

ExpectCanUpgrade(s) == s.u /\ s.r = 1
=============================================================================
