------------------------------- MODULE RwBits -------------------------------
(***************************************************************************)
(* The state word of the read-write lock as the code computes it: one      *)
(* unsigned integer of BITS bits, masks, and machine addition.  RwLock and *)
(* RwCrowd work on the record of module RwWord instead; this module shows  *)
(* that nothing is lost by that.                                           *)
(***************************************************************************)
EXTENDS BitWords

\* Three flags and a count of at least one bit; D::BITS is 8 or more.
ASSUME FlagsFit == BITS > 3

K_WRITER_ACTIVE == shl[BITS - 1]
K_WRITER_QUEUED == shl[BITS - 2]
K_UPGRADE_ACTIVE == shl[BITS - 3]
K_MAX_READER_COUNT == MAX \div 8

has(s, flag) == s & flag = flag
with(s, flag) == s | flag
without(s, flag) == s & not(flag)

get_reader_count(s) == s & K_MAX_READER_COUNT

\* Addition that stays within the count field.
inc_within_count(s) ==
  with(without(s, K_MAX_READER_COUNT), get_reader_count(s + 1))

desire_inc_reader(s) == (s + 1) % (MAX + 1)
desire_dec_reader(s) == (s - 1) % (MAX + 1)

expect_can_read(s) ==
  /\ get_reader_count(s) < K_MAX_READER_COUNT
  /\ ~has(s, K_WRITER_QUEUED)
  /\ ~has(s, K_WRITER_ACTIVE)

\* Only a word without any flag and count can be written.
expect_not_locked(s) == s = 0

expect_can_write(s) == get_reader_count(s) = 0 /\ ~has(s, K_WRITER_ACTIVE)

expect_write_not_queued_and_upgrade_inactive(s) ==
  /\ ~has(s, K_WRITER_QUEUED)
  /\ ~has(s, K_WRITER_ACTIVE)
  /\ ~has(s, K_UPGRADE_ACTIVE)

expect_can_downgrade_to_read_(s) ==
  /\ has(s, K_UPGRADE_ACTIVE)
  /\ ~has(s, K_WRITER_ACTIVE)
  /\ get_reader_count(s) > 0

expect_can_upgrade_(s) == has(s, K_UPGRADE_ACTIVE) /\ get_reader_count(s) = 1

----------------------------------------------------------------------------
(***************************************************************************)
(* The closures each method of RwLockState gives to try_spin_update_, by   *)
(* the name of the method.                                                 *)
(***************************************************************************)
Methods == {"try_read", "try_write", "queue_writer", "on_writer_guard_drop",
            "try_upgradable_read", "on_upgradable_read_drop",
            "decrease_reader_count", "try_downgrade_write_to_read",
            "try_downgrade_write_to_upgradable",
            "try_downgrade_upgradable_to_read",
            "try_upgrade_upgradable_to_write"}

expect(m, s) ==
  CASE m = "try_read" -> expect_can_read(s)
    [] m = "try_write" -> expect_can_write(s)
    [] m = "queue_writer" -> ~has(s, K_WRITER_QUEUED)
    [] m = "try_upgradable_read" ->
         expect_write_not_queued_and_upgrade_inactive(s)
    [] m = "on_upgradable_read_drop" -> has(s, K_UPGRADE_ACTIVE)
    [] m = "decrease_reader_count" -> get_reader_count(s) > 0
    [] m = "try_downgrade_upgradable_to_read" -> expect_can_downgrade_to_read_(s)
    [] m = "try_upgrade_upgradable_to_write" -> expect_can_upgrade_(s)
    [] OTHER -> has(s, K_WRITER_ACTIVE)

desire(m, s) ==
  CASE m = "try_read" -> desire_inc_reader(s)
    [] m = "queue_writer" -> with(s, K_WRITER_QUEUED)
    [] m = "on_writer_guard_drop" ->
         without(without(s, K_WRITER_ACTIVE), K_WRITER_QUEUED)
    [] m = "try_upgradable_read" -> desire_inc_reader(with(s, K_UPGRADE_ACTIVE))
    [] m = "on_upgradable_read_drop" ->
         desire_dec_reader(without(s, K_UPGRADE_ACTIVE))
    [] m = "decrease_reader_count" -> desire_dec_reader(s)
    [] m = "try_downgrade_write_to_read" ->
         desire_inc_reader(without(s, K_WRITER_ACTIVE))
    [] m = "try_downgrade_write_to_upgradable" ->
         desire_inc_reader(with(without(s, K_WRITER_ACTIVE), K_UPGRADE_ACTIVE))
    [] m = "try_downgrade_upgradable_to_read" -> without(s, K_UPGRADE_ACTIVE)
    [] OTHER -> with(s, K_WRITER_ACTIVE)

----------------------------------------------------------------------------
VARIABLE cell   \* any value of the cell

\* The cell belongs to the caller of SpinningRwLock::new, who may hand over
\* any value, so every value is a start.
Init == cell \in BitWord

try_spin_update_(m) == expect(m, cell) /\ cell' = desire(m, cell)

Next == \E m \in Methods : try_spin_update_(m)

Spec == Init /\ [][Next]_cell

----------------------------------------------------------------------------
W == INSTANCE RwWord WITH MaxReaderCount <- K_MAX_READER_COUNT

\* The record a word stands for.
Decode(x) == [w |-> has(x, K_WRITER_ACTIVE), q |-> has(x, K_WRITER_QUEUED),
              u |-> has(x, K_UPGRADE_ACTIVE), r |-> get_reader_count(x)]

RecordExpects(m, x) ==
  CASE m = "try_read" -> W!ExpectCanRead(x)
    [] m = "try_write" -> W!ExpectCanWrite(x)
    [] m = "queue_writer" -> ~x.q
    [] m = "try_upgradable_read" -> W!ExpectWriteNotQueuedAndUpgradeInactive(x)
    [] m = "on_upgradable_read_drop" -> x.u
    [] m = "decrease_reader_count" -> x.r > 0
    [] m = "try_downgrade_upgradable_to_read" -> W!ExpectCanDowngradeToRead(x)
    [] m = "try_upgrade_upgradable_to_write" -> W!ExpectCanUpgrade(x)
    [] OTHER -> x.w

RecordDesires(m, x) ==
  CASE m = "try_read" -> W!DesireIncReader(x)
    [] m = "queue_writer" -> W!DesireWriterQueued(x)
    [] m = "on_writer_guard_drop" -> W!DesireWriterNotQueuedInactive(x)
    [] m = "try_upgradable_read" -> W!DesireUpgradeActiveAndReaderInc(x)
    [] m = "on_upgradable_read_drop" -> W!DesireUpgradeInactiveAndReaderDec(x)
    [] m = "decrease_reader_count" -> W!DesireDecReader(x)
    [] m = "try_downgrade_write_to_read" -> W!DesireWriteToRead(x)
    [] m = "try_downgrade_write_to_upgradable" -> W!DesireWriteToUpgradable(x)
    [] m = "try_downgrade_upgradable_to_read" -> W!DesireUpgradeInactive(x)
    [] OTHER -> W!DesireWriterActive(x)

\* On every word, a method is granted by the record exactly when it is
\* granted by the bits.
ExpectationsAgree ==
  \A m \in Methods : RecordExpects(m, Decode(cell)) <=> expect(m, cell)

\* On every word, expected or not, the update of the record is the record of
\* the updated bits; this includes the carry out of a full count and the
\* borrow of an empty one.
UpdatesAgree ==
  \A m \in Methods : Decode(desire(m, cell)) = RecordDesires(m, Decode(cell))
=============================================================================
