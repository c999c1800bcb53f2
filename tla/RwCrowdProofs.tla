--------------------------- MODULE RwCrowdProofs ---------------------------
(***************************************************************************)
(* Proofs about RwCrowd, for every width of the state word: the guards     *)
(* exclude each other as long as no upgradable reader comes when the       *)
(* reader count is full.  The run rw_crowd_overflow shows what one that    *)
(* does come then brings about.                                            *)
(***************************************************************************)
EXTENDS RwCrowd, RwWordProofs

TypeOK ==
  /\ word \in Word
  /\ readers \in Nat /\ upgradables \in Nat /\ writers \in Nat
  /\ refused \in BOOLEAN
  /\ Guards <= MaxReaderCount

\* CountIsGuards is inductive only with the bound on the guards, and with the
\* exclusion that it is there to show.
Inv == TypeOK /\ CountIsGuards /\ ReadersBlockWriter

\* A new lock satisfies the invariant.
LEMMA Initially == Init => Inv
<1> SUFFICES ASSUME Init PROVE Inv
  OBVIOUS
<1>1. Fields(word, FALSE, FALSE, FALSE, 0)
  BY NotLockedFields DEF Init
<1>2. CountIsGuards /\ ReadersBlockWriter
  BY <1>1 DEF Init, CountIsGuards, ReadersBlockWriter, Fields
<1>3. refused \in BOOLEAN
  BY DEF Init
<1>4. word \in Word /\ Guards <= MaxReaderCount
  BY <1>1, MaxReaderCountAssumption DEF Init, Fields, Guards
<1> QED
  BY <1>2, <1>3, <1>4 DEF Init, Inv, TypeOK

\* The guards leave room for one more reader, and the fields are of their
\* types: what the steps need of the word.
LEMMA Room ==
  ASSUME Crowd <= MaxReaderCount, Inv
  PROVE  /\ word.w \in BOOLEAN /\ word.q \in BOOLEAN /\ word.u \in BOOLEAN
         /\ word.r \in Nat
         /\ Guards < Crowd \/ word.w => word.r < MaxReaderCount
         /\ word.u \/ readers > 0 => word.r > 0
<1>1. word.w \in BOOLEAN /\ word.q \in BOOLEAN /\ word.u \in BOOLEAN
  BY DEF Inv, TypeOK, Word
<1>2. word.r = readers + upgradables /\ Guards <= MaxReaderCount
  BY DEF Inv, TypeOK, CountIsGuards
<1>3. Guards < Crowd \/ word.w => word.r < MaxReaderCount
  BY <1>2, CrowdAssumption, MaxReaderCountAssumption
     DEF Inv, TypeOK, CountIsGuards, ReadersBlockWriter, Guards
<1>4. word.u \/ readers > 0 => word.r > 0
  BY <1>2 DEF Inv, TypeOK, CountIsGuards
<1> QED
  BY <1>1, <1>2, <1>3, <1>4 DEF Inv, TypeOK

\* Guards that are handed out are counted, and writers only while nobody reads.
LEMMA Acquisitions ==
  ASSUME Crowd <= MaxReaderCount, Inv,
         TryRead \/ TryUpgradableRead \/ TryWrite
  PROVE  Inv'
<1> USE Room, CrowdAssumption, MaxReaderCountAssumption
    DEF Inv, TypeOK, CountIsGuards, ReadersBlockWriter, Guards, Fields
<1>1. CASE TryRead
  BY <1>1, IncReaderFields DEF TryRead, ExpectCanRead
<1>2. CASE TryUpgradableRead
  BY <1>2, UpgradeActiveAndReaderIncFields
     DEF TryUpgradableRead, ExpectWriteNotQueuedAndUpgradeInactive
<1>3. CASE TryWrite
  BY <1>3, WriterActiveFields DEF TryWrite, ExpectCanWrite
<1> QED
  BY <1>1, <1>2, <1>3

\* A refused writer touches nothing but the queue flag.
LEMMA Queueing ==
  ASSUME Inv, RefuseWriter \/ EnqueueWriter
  PROVE  Inv'
BY WriterQueuedFields
   DEF Inv, TypeOK, CountIsGuards, ReadersBlockWriter, Guards, Fields, counts,
       RefuseWriter, EnqueueWriter

\* Every guard takes out of the word what it put in.
LEMMA Drops ==
  ASSUME Crowd <= MaxReaderCount, Inv, DropReader \/ DropUpgradable \/ DropWriter
  PROVE  Inv'
<1> USE Room, CrowdAssumption, MaxReaderCountAssumption
    DEF Inv, TypeOK, CountIsGuards, ReadersBlockWriter, Guards, Fields
<1>1. CASE DropReader
  BY <1>1, DecReaderFields DEF DropReader
<1>2. CASE DropUpgradable
  BY <1>2, UpgradeInactiveAndReaderDecFields DEF DropUpgradable
<1>3. CASE DropWriter
  BY <1>3, WriterNotQueuedInactiveFields DEF DropWriter
<1> QED
  BY <1>1, <1>2, <1>3

\* A downgrade trades what the one guard has in the word for what the other has.
LEMMA Downgrades ==
  ASSUME Crowd <= MaxReaderCount, Inv,
         DowngradeWriterToReader \/ DowngradeWriterToUpgradable
           \/ DowngradeUpgradableToReader
  PROVE  Inv'
<1> USE Room, CrowdAssumption, MaxReaderCountAssumption
    DEF Inv, TypeOK, CountIsGuards, ReadersBlockWriter, Guards, Fields
<1>1. CASE DowngradeWriterToReader
  BY <1>1, WriteToReadFields DEF DowngradeWriterToReader
<1>2. CASE DowngradeWriterToUpgradable
  BY <1>2, WriteToUpgradableFields DEF DowngradeWriterToUpgradable
<1>3. CASE DowngradeUpgradableToReader
  BY <1>3, UpgradeInactiveFields
     DEF DowngradeUpgradableToReader, ExpectCanDowngradeToRead
<1> QED
  BY <1>1, <1>2, <1>3

\* The invariant holds throughout if there is room for every upgradable reader.
LEMMA Invariance ==
  ASSUME Crowd <= MaxReaderCount
  PROVE  Spec => []Inv
<1>1. Inv /\ [Next]_vars => Inv'
  <2> SUFFICES ASSUME Inv, [Next]_vars PROVE Inv'
    OBVIOUS
  <2>1. CASE UNCHANGED vars
    BY <2>1 DEF vars, Inv, TypeOK, CountIsGuards, ReadersBlockWriter, Guards
  <2> QED
    BY <2>1, Acquisitions, Queueing, Drops, Downgrades DEF Next
<1> QED
  BY Initially, <1>1, PTL DEF Spec

\* With room for every upgradable reader, a reader of either kind keeps writers out,
\* as ExpectCanWrite (expect_can_write) is to see to.
THEOREM CrowdIsSafe ==
  ASSUME Crowd <= MaxReaderCount
  PROVE  Spec => []ReadersBlockWriter
<1>1. Inv => ReadersBlockWriter
  BY DEF Inv
<1> QED
  BY Invariance, <1>1, PTL

\* With that room the reader count is exact, and so are the flags: what the
\* guards have put into the word is what they take out (desire_inc_reader,
\* desire_dec_reader and the flags that go with them).
THEOREM CrowdIsCounted ==
  ASSUME Crowd <= MaxReaderCount
  PROVE  Spec => []CountIsGuards
<1>1. Inv => CountIsGuards
  BY DEF Inv
<1> QED
  BY Invariance, <1>1, PTL
=============================================================================
