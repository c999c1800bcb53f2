------------------------------ MODULE RwCrowd ------------------------------
(***************************************************************************)
(* The read-write lock with more clients than RwLock can name: guards are  *)
(* counted instead of attributed to handles, so that the reader count can  *)
(* be driven to its limit at the real width of the state word.  Tasks that *)
(* wait are calls that have not happened yet.  The clients of this module  *)
(* do not upgrade.                                                         *)
(***************************************************************************)
EXTENDS RwWord

\* An upgradable reader comes only while there are fewer guards than this.
\* The other guards are limited by the word alone.
CONSTANT Crowd

ASSUME CrowdAssumption == Crowd \in Nat \ {0}

VARIABLES
  word,         \* the state word
  readers,      \* number of ReaderGuards
  upgradables,  \* number of UpgradableReaderGuards
  writers,      \* number of WriterGuards
  refused       \* a try_write lost its first loop and has the second to run

vars == <<word, readers, upgradables, writers, refused>>

counts == <<readers, upgradables, writers>>

Guards == readers + upgradables + writers

Init ==
  /\ word = NotLocked
  /\ readers = 0 /\ upgradables = 0 /\ writers = 0
  /\ refused = FALSE

----------------------------------------------------------------------------

TryRead ==
  /\ ExpectCanRead(word)
  /\ word' = DesireIncReader(word)
  /\ readers' = readers + 1
  /\ UNCHANGED <<upgradables, writers, refused>>

TryUpgradableRead ==
  /\ Guards < Crowd
  /\ ExpectWriteNotQueuedAndUpgradeInactive(word)
  /\ word' = DesireUpgradeActiveAndReaderInc(word)
  /\ upgradables' = upgradables + 1
  /\ UNCHANGED <<readers, writers, refused>>

\* try_write, when its first loop is granted.
TryWrite ==
  /\ ExpectCanWrite(word)
  /\ word' = DesireWriterActive(word)
  /\ writers' = writers + 1
  /\ UNCHANGED <<readers, upgradables, refused>>

\* try_write, when it is not; one such call at a time.
RefuseWriter ==
  /\ ~ExpectCanWrite(word)
  /\ refused' = TRUE
  /\ UNCHANGED <<word, counts>>

EnqueueWriter ==
  /\ refused
  /\ word' = IF word.q THEN word ELSE DesireWriterQueued(word)
  /\ refused' = FALSE
  /\ UNCHANGED counts

DropReader ==
  /\ readers > 0
  /\ word' = IF word.r > 0 THEN DesireDecReader(word) ELSE word
  /\ readers' = readers - 1
  /\ UNCHANGED <<upgradables, writers, refused>>

DropUpgradable ==
  /\ upgradables > 0
  /\ word' = IF word.u THEN DesireUpgradeInactiveAndReaderDec(word) ELSE word
  /\ upgradables' = upgradables - 1
  /\ UNCHANGED <<readers, writers, refused>>

DropWriter ==
  /\ writers > 0
  /\ word' = IF word.w THEN DesireWriterNotQueuedInactive(word) ELSE word
  /\ writers' = writers - 1
  /\ UNCHANGED <<readers, upgradables, refused>>

DowngradeWriterToReader ==
  /\ writers > 0
  /\ word' = IF word.w THEN DesireWriteToRead(word) ELSE word
  /\ writers' = writers - 1
  /\ readers' = readers + IF word.w THEN 1 ELSE 0
  /\ UNCHANGED <<upgradables, refused>>

DowngradeWriterToUpgradable ==
  /\ writers > 0
  /\ word' = IF word.w THEN DesireWriteToUpgradable(word) ELSE word
  /\ writers' = writers - 1
  /\ upgradables' = upgradables + IF word.w THEN 1 ELSE 0
  /\ UNCHANGED <<readers, refused>>

DowngradeUpgradableToReader ==
  /\ upgradables > 0
  /\ LET ok == ExpectCanDowngradeToRead(word) IN
       /\ word' = IF ok THEN DesireUpgradeInactive(word) ELSE word
       /\ readers' = readers + IF ok THEN 1 ELSE 0
  /\ upgradables' = upgradables - 1
  /\ UNCHANGED <<writers, refused>>

Next ==
  \/ TryRead \/ TryUpgradableRead \/ TryWrite \/ RefuseWriter \/ EnqueueWriter
  \/ DropReader \/ DropUpgradable \/ DropWriter
  \/ DowngradeWriterToReader \/ DowngradeWriterToUpgradable
  \/ DowngradeUpgradableToReader

Spec == Init /\ [][Next]_vars

----------------------------------------------------------------------------

\* A reader guard blocks a writer guard, whatever the number of readers (the
\* test acquire_reader_guard_should_block_acq_writer_guard).
ReadersBlockWriter == writers = 0 \/ (writers = 1 /\ readers + upgradables = 0)

\* As long as no upgradable reader comes on a full count, the count is the
\* number of guards that read, each flag is up exactly while its guard exists,
\* and the counting never reaches the flags: readers are refused in time.
CountIsGuards ==
  /\ word.r = readers + upgradables
  /\ word.u <=> upgradables = 1
  /\ word.w <=> writers = 1
  /\ upgradables <= 1
=============================================================================
