--------------------------- MODULE RwWordProofs ----------------------------
(***************************************************************************)
(* What each update of the state word does to its four fields, as long as  *)
(* it neither carries nor borrows.  The proofs about the locks use these   *)
(* lemmas and leave the updates unexpanded.                                *)
(***************************************************************************)
EXTENDS RwWord, TLAPS

\* The fields of x, so that a lemma can name all four at once.
Fields(x, w, q, u, r) ==
  x \in Word /\ (x.w <=> w) /\ (x.q <=> q) /\ (x.u <=> u) /\ x.r = r

\* The word of a free lock.
LEMMA NotLockedFields == Fields(NotLocked, FALSE, FALSE, FALSE, 0)
BY MaxReaderCountAssumption DEF Fields, NotLocked, Word

\* One reader more, below the maximum.
LEMMA IncReaderFields ==
  ASSUME NEW s \in Word, s.r < MaxReaderCount
  PROVE  Fields(DesireIncReader(s), s.w, s.q, s.u, s.r + 1)
<1>1. s.r \in 0 .. MaxReaderCount
  BY DEF Word
<1>2. s.r + 1 \in 0 .. MaxReaderCount
  BY <1>1, MaxReaderCountAssumption
<1>3. DesireIncReader(s) = [s EXCEPT !.r = s.r + 1]
  BY DEF DesireIncReader
<1> QED
  BY <1>2, <1>3 DEF Fields, Word

\* One reader less, above zero.
LEMMA DecReaderFields ==
  ASSUME NEW s \in Word, s.r > 0
  PROVE  Fields(DesireDecReader(s), s.w, s.q, s.u, s.r - 1)
<1>1. s.r \in 0 .. MaxReaderCount
  BY DEF Word
<1>2. s.r - 1 \in 0 .. MaxReaderCount
  BY <1>1, MaxReaderCountAssumption
<1>3. DesireDecReader(s) = [s EXCEPT !.r = s.r - 1]
  BY DEF DesireDecReader
<1> QED
  BY <1>2, <1>3 DEF Fields, Word

\* A writer comes.
LEMMA WriterActiveFields ==
  ASSUME NEW s \in Word
  PROVE  Fields(DesireWriterActive(s), TRUE, s.q, s.u, s.r)
BY DEF Fields, Word, DesireWriterActive

\* A writer queues.
LEMMA WriterQueuedFields ==
  ASSUME NEW s \in Word
  PROVE  Fields(DesireWriterQueued(s), s.w, TRUE, s.u, s.r)
BY DEF Fields, Word, DesireWriterQueued

\* A writer goes.
LEMMA WriterNotQueuedInactiveFields ==
  ASSUME NEW s \in Word
  PROVE  Fields(DesireWriterNotQueuedInactive(s), FALSE, FALSE, s.u, s.r)
BY DEF Fields, Word, DesireWriterNotQueuedInactive

\* The upgrade flag is given up and the count kept.
LEMMA UpgradeInactiveFields ==
  ASSUME NEW s \in Word
  PROVE  Fields(DesireUpgradeInactive(s), s.w, s.q, FALSE, s.r)
BY DEF Fields, Word, DesireUpgradeInactive

\* An upgradable reader comes.
LEMMA UpgradeActiveAndReaderIncFields ==
  ASSUME NEW s \in Word, s.r < MaxReaderCount
  PROVE  Fields(DesireUpgradeActiveAndReaderInc(s), s.w, s.q, TRUE, s.r + 1)
<1> DEFINE t == [s EXCEPT !.u = TRUE]
<1>1. Fields(t, s.w, s.q, TRUE, s.r)
  BY DEF Fields, Word
<1> HIDE DEF t
<1>2. Fields(DesireIncReader(t), t.w, t.q, t.u, t.r + 1)
  BY <1>1, IncReaderFields DEF Fields
<1> QED
  BY <1>1, <1>2 DEF Fields, t, DesireUpgradeActiveAndReaderInc

\* An upgradable reader goes.
LEMMA UpgradeInactiveAndReaderDecFields ==
  ASSUME NEW s \in Word, s.r > 0
  PROVE  Fields(DesireUpgradeInactiveAndReaderDec(s), s.w, s.q, FALSE, s.r - 1)
<1> DEFINE t == [s EXCEPT !.u = FALSE]
<1>1. Fields(t, s.w, s.q, FALSE, s.r)
  BY DEF Fields, Word
<1> HIDE DEF t
<1>2. Fields(DesireDecReader(t), t.w, t.q, t.u, t.r - 1)
  BY <1>1, DecReaderFields DEF Fields
<1> QED
  BY <1>1, <1>2 DEF Fields, t, DesireUpgradeInactiveAndReaderDec

\* A writer becomes a reader.
LEMMA WriteToReadFields ==
  ASSUME NEW s \in Word, s.r < MaxReaderCount
  PROVE  Fields(DesireWriteToRead(s), FALSE, s.q, s.u, s.r + 1)
<1> DEFINE t == [s EXCEPT !.w = FALSE]
<1>1. Fields(t, FALSE, s.q, s.u, s.r)
  BY DEF Fields, Word
<1> HIDE DEF t
<1>2. Fields(DesireIncReader(t), t.w, t.q, t.u, t.r + 1)
  BY <1>1, IncReaderFields DEF Fields
<1> QED
  BY <1>1, <1>2 DEF Fields, t, DesireWriteToRead

\* A writer becomes an upgradable reader.
LEMMA WriteToUpgradableFields ==
  ASSUME NEW s \in Word, s.r < MaxReaderCount
  PROVE  Fields(DesireWriteToUpgradable(s), FALSE, s.q, TRUE, s.r + 1)
<1> DEFINE t == [s EXCEPT !.w = FALSE, !.u = TRUE]
<1>1. Fields(t, FALSE, s.q, TRUE, s.r)
  BY DEF Fields, Word
<1> HIDE DEF t
<1>2. Fields(DesireIncReader(t), t.w, t.q, t.u, t.r + 1)
  BY <1>1, IncReaderFields DEF Fields
<1> QED
  BY <1>1, <1>2 DEF Fields, t, DesireWriteToUpgradable

----------------------------------------------------------------------------

\* Any four fields of the right types make a word.
LEMMA RecordIsWord ==
  ASSUME NEW w \in BOOLEAN, NEW q \in BOOLEAN, NEW u \in BOOLEAN,
         NEW r \in 0 .. MaxReaderCount
  PROVE  [w |-> w, q |-> q, u |-> u, r |-> r] \in Word
BY DEF Word

\* Counting up and down on the whole word always gives a word, with the carry
\* of a full count and the borrow of an empty one.
LEMMA CountingClosed ==
  ASSUME NEW s \in Word
  PROVE  DesireIncReader(s) \in Word /\ DesireDecReader(s) \in Word
<1>1. s.w \in BOOLEAN /\ s.q \in BOOLEAN /\ s.u \in BOOLEAN
      /\ s.r \in 0 .. MaxReaderCount
  BY DEF Word
<1>2. DesireIncReader(s) \in Word
  <2>1. CASE s.r < MaxReaderCount
    BY <2>1, IncReaderFields DEF Fields
  <2>2. CASE ~(s.r < MaxReaderCount)
    <3>1. (s.w # (s.q /\ s.u)) \in BOOLEAN /\ (s.q # s.u) \in BOOLEAN
          /\ (~s.u) \in BOOLEAN
      OBVIOUS
    <3>2. 0 \in 0 .. MaxReaderCount
      BY MaxReaderCountAssumption
    <3> QED
      BY <2>2, <3>1, <3>2, RecordIsWord DEF DesireIncReader
  <2> QED
    BY <2>1, <2>2
<1>3. DesireDecReader(s) \in Word
  <2>1. CASE s.r > 0
    BY <2>1, DecReaderFields DEF Fields
  <2>2. CASE ~(s.r > 0)
    <3>1. (s.w # (~s.q /\ ~s.u)) \in BOOLEAN /\ (s.q # ~s.u) \in BOOLEAN
          /\ (~s.u) \in BOOLEAN
      OBVIOUS
    <3>2. MaxReaderCount \in 0 .. MaxReaderCount
      BY MaxReaderCountAssumption
    <3> QED
      BY <2>2, <3>1, <3>2, RecordIsWord DEF DesireDecReader
  <2> QED
    BY <2>1, <2>2
<1> QED
  BY <1>2, <1>3

\* Every update gives a word, expected or not.
LEMMA UpdatesClosed ==
  ASSUME NEW s \in Word
  PROVE  /\ DesireIncReader(s) \in Word
         /\ DesireDecReader(s) \in Word
         /\ DesireWriterActive(s) \in Word
         /\ DesireWriterQueued(s) \in Word
         /\ DesireWriterNotQueuedInactive(s) \in Word
         /\ DesireUpgradeActiveAndReaderInc(s) \in Word
         /\ DesireUpgradeInactiveAndReaderDec(s) \in Word
         /\ DesireWriteToRead(s) \in Word
         /\ DesireWriteToUpgradable(s) \in Word
         /\ DesireUpgradeInactive(s) \in Word
<1>1. /\ [s EXCEPT !.u = TRUE] \in Word
      /\ [s EXCEPT !.u = FALSE] \in Word
      /\ [s EXCEPT !.w = FALSE] \in Word
      /\ [s EXCEPT !.w = FALSE, !.u = TRUE] \in Word
  BY DEF Word
<1>2. DesireUpgradeActiveAndReaderInc(s) \in Word
  BY <1>1, CountingClosed DEF DesireUpgradeActiveAndReaderInc
<1>3. DesireUpgradeInactiveAndReaderDec(s) \in Word
  BY <1>1, CountingClosed DEF DesireUpgradeInactiveAndReaderDec
<1>4. DesireWriteToRead(s) \in Word
  BY <1>1, CountingClosed DEF DesireWriteToRead
<1>5. DesireWriteToUpgradable(s) \in Word
  BY <1>1, CountingClosed DEF DesireWriteToUpgradable
<1> QED
  BY <1>2, <1>3, <1>4, <1>5, CountingClosed, WriterActiveFields,
     WriterQueuedFields, WriterNotQueuedInactiveFields, UpgradeInactiveFields
     DEF Fields

\* try_upgradable_read on a full count: the carry takes the upgrade flag away
\* again, raises the queue flag and empties the count.
LEMMA FullCountCarries ==
  ASSUME NEW s \in Word, s.r = MaxReaderCount,
         ExpectWriteNotQueuedAndUpgradeInactive(s)
  PROVE  /\ DesireUpgradeActiveAndReaderInc(s).q
         /\ ~DesireUpgradeActiveAndReaderInc(s).u
         /\ ExpectCanWrite(DesireUpgradeActiveAndReaderInc(s))
<1> DEFINE t == [s EXCEPT !.u = TRUE]
<1>1. Fields(t, FALSE, FALSE, TRUE, MaxReaderCount)
  BY DEF Fields, Word, ExpectWriteNotQueuedAndUpgradeInactive
<1> HIDE DEF t
<1>2. DesireIncReader(t) = [w |-> t.w # (t.q /\ t.u), q |-> t.q # t.u,
                            u |-> ~t.u, r |-> 0]
  BY <1>1, MaxReaderCountAssumption DEF DesireIncReader, Fields
<1>3. DesireUpgradeActiveAndReaderInc(s) = DesireIncReader(t)
  BY DEF DesireUpgradeActiveAndReaderInc, t
<1>4. t.w = FALSE /\ t.q = FALSE /\ t.u = TRUE
  BY <1>1 DEF Fields, Word
<1>5. (t.w # (t.q /\ t.u)) = FALSE /\ (t.q # t.u) = TRUE /\ (~t.u) = FALSE
  BY <1>4
<1>6. DesireIncReader(t) = [w |-> FALSE, q |-> TRUE, u |-> FALSE, r |-> 0]
  BY <1>2, <1>5
<1> QED
  BY <1>3, <1>6 DEF ExpectCanWrite
=============================================================================
