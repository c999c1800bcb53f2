------------------------- MODULE RwLockExactProofs -------------------------
(***************************************************************************)
(* Proofs about RwLock when no client downgrades the writer of a pinned    *)
(* upgrade to upgradable: the count is exact, no assertion fails, and the  *)
(* lock implements RwLockAbs.                                              *)
(***************************************************************************)
EXTENDS RwLockProofs

NotNested == \A a \in Acq : "nested_downgrade" \notin Calls[a]

ExactInv == Inv /\ CountIsExact /\ \A a \in Acq : inner[a] # "upgradable"

\* With exact accounts every guard finds its count and its flag in the word,
\* and the flag is up for some guard.
LEMMA WordServesGuards ==
  ASSUME Roomy, ExactInv
  PROVE  /\ \A a \in Acq : base[a] \in {"reader", "upgradable"} => word.r > 0
         /\ \A a \in Acq : base[a] = "upgradable" \/ pc[a] = "shed" => word.u
<1>1. ASSUME NEW a \in Acq, base[a] \in {"reader", "upgradable"}
      PROVE  word.r > 0
  <2>1. a \in Counted
    BY <1>1 DEF Counted
  <2> QED
    BY <2>1, CountFacts DEF ExactInv
<1>2. ASSUME NEW a \in Acq, base[a] = "upgradable" \/ pc[a] = "shed"
      PROVE  word.u
  <2>1. a \in Claims
    BY <1>2 DEF Claims
  <2>2. k >= 1 /\ k \in Nat /\ ik \in Nat
    BY <2>1, CountFacts DEF ExactInv
  <2> QED
    BY <2>2 DEF ExactInv, CountIsExact, Orphans, k, ik
<1> QED
  BY <1>1, <1>2

\* The accounts of a new lock are exact.
LEMMA InitExact == Roomy /\ Init => ExactInv
<1> SUFFICES ASSUME Roomy, Init PROVE ExactInv
  OBVIOUS
<1>1. ~word.w /\ ~word.u /\ word.r = 0
  BY NotLockedFields DEF Init, Fields
<1>2. Counted = {} /\ InnerCounted = {} /\ Claims = {} /\ InnerClaims = {}
  BY DEF Init, Counted, InnerCounted, Claims, InnerClaims
<1>3. CountIsExact
  BY <1>1, <1>2, FS_EmptySet DEF CountIsExact, Lost, Orphans
<1> QED
  BY <1>3, InitInv DEF Init, ExactInv

\* No step moves the accounts: the two that could need a second guard that
\* claims the upgrade flag.
LEMMA StepKeeps ==
  ASSUME Roomy, NotNested, ExactInv, Next
  PROVE  Kept /\ \A b \in Acq : inner'[b] # "upgradable"
<1>1. TypeOK'
  BY TypeStep DEF ExactInv, Inv
<1>2. PICK a \in Acq :
        \/ StartTask(a) \/ GiveUp(a) \/ StartUpgrade(a) \/ TryRead(a)
        \/ TryUpgradableRead(a) \/ TryWrite(a) \/ EnqueueWriter(a)
        \/ TryUpgrade(a) \/ ShedUpgradable(a) \/ UpgradePinned(a)
        \/ DowngradeWriterToReader(a) \/ DowngradeWriterToUpgradable(a)
        \/ DowngradeUpgradableToReader(a) \/ DropReader(a)
        \/ DropWriter(a) \/ DropUpgradable(a)
  BY DEF Next
<1>3. CASE \/ StartTask(a) \/ GiveUp(a) \/ StartUpgrade(a) \/ TryRead(a)
           \/ TryUpgradableRead(a) \/ TryWrite(a) \/ EnqueueWriter(a)
  <2>1. Kept
    BY <1>1, <1>3, TaskStep, TryReadStep, TryUpgradableReadStep, TryWriteStep,
       EnqueueWriterStep DEF ExactInv
  <2>2. inner' = inner
    BY <1>3, GivenUp DEF StartTask, StartUpgrade, TryRead, TryUpgradableRead,
       TryWrite, EnqueueWriter, Replace, ExactInv, Inv, Shape, PcFits
  <2> QED
    BY <2>1, <2>2 DEF ExactInv
<1>4. CASE TryUpgrade(a) \/ ShedUpgradable(a) \/ UpgradePinned(a)
  <2>1. Kept
    BY <1>1, <1>4, TryUpgradeStep, ShedUpgradableStep, UpgradePinnedStep
       DEF ExactInv
  <2> QED
    BY <1>4, <2>1 DEF TryUpgrade, ShedUpgradable, UpgradePinned, Replace,
       ExactInv, Inv, TypeOK
<1>5. CASE DowngradeWriterToReader(a) \/ DropReader(a) \/ DropWriter(a)
  <2>1. Kept
    BY <1>1, <1>5, DowngradeWriterToReaderStep, DropReaderStep, DropWriterStep
       DEF ExactInv
  <2> QED
    BY <1>5, <2>1 DEF DowngradeWriterToReader, Downgrade, DropReader,
       DropWriter, Drop, Replace, ExactInv, Inv, TypeOK
<1>6. CASE DowngradeWriterToUpgradable(a)
  <2>1. inner[a] = "none"
    BY <1>6 DEF DowngradeWriterToUpgradable, Downgrade, NotNested
  <2>2. Kept
    BY <1>1, <1>6, <2>1, DowngradeWriterToUpgradableStep DEF ExactInv
  <2>3. inner' = inner
    BY <1>6, <2>1 DEF DowngradeWriterToUpgradable, Downgrade, Replace
  <2> QED
    BY <2>2, <2>3 DEF ExactInv
<1>7. CASE DowngradeUpgradableToReader(a) \/ DropUpgradable(a)
  <2>1. base[a] = "upgradable"
    BY <1>7 DEF DowngradeUpgradableToReader, Downgrade, DropUpgradable, Drop,
       Holds, Top, ExactInv
  <2>2. word.u
    BY <2>1, WordServesGuards
  <2>3. Kept
    BY <1>1, <1>7, <2>2, DowngradeUpgradableToReaderStep, DropUpgradableStep
       DEF ExactInv
  <2> QED
    BY <1>7, <2>3 DEF DowngradeUpgradableToReader, Downgrade, DropUpgradable,
       Drop, Replace, ExactInv, Inv, TypeOK
<1> QED
  BY <1>2, <1>3, <1>4, <1>5, <1>6, <1>7

\* The exact invariant is inductive.
LEMMA ExactStep == Roomy /\ NotNested /\ ExactInv /\ [Next]_vars => ExactInv'
<1> SUFFICES ASSUME Roomy, NotNested, ExactInv, [Next]_vars PROVE ExactInv'
  OBVIOUS
<1>1. Inv'
  BY InvStep DEF ExactInv
<1>2. Kept /\ \A b \in Acq : inner'[b] # "upgradable"
  <2>1. CASE Next
    BY <2>1, StepKeeps
  <2>2. CASE UNCHANGED vars
    BY <2>2 DEF vars, Kept, Lost, Orphans, Counted, InnerCounted, Claims,
       InnerClaims, ExactInv
  <2> QED
    BY <2>1, <2>2
<1> QED
  BY <1>1, <1>2 DEF ExactInv, Kept, CountIsExact

\* The reader count is what the guards will give back.
THEOREM ExactCount ==
  ASSUME Roomy, NotNested PROVE Spec => []CountIsExact
<1>1. ExactInv => CountIsExact
  BY DEF ExactInv
<1>2. Init => ExactInv
  BY InitExact
<1>3. ExactInv /\ [Next]_vars => ExactInv'
  BY ExactStep
<1> QED
  BY <1>1, <1>2, <1>3, PTL DEF Spec

\* No debug_assert and no unreachable! of a drop or downgrade can be reached.
THEOREM AssertionsHold ==
  ASSUME Roomy, NotNested PROVE Spec => []NoAssertionFails
<1>1. ExactInv => NoAssertionFails
  <2> SUFFICES ASSUME ExactInv, NEW a \in Acq
               PROVE  /\ Holds(a, "reader") => word.r > 0
                      /\ Holds(a, "writer") => word.w
                      /\ Holds(a, "upgradable") => ExpectCanDowngradeToRead(word)
                      /\ pc[a] = "shed" => word.u
    BY DEF NoAssertionFails
  <2>1. Holds(a, "reader") => word.r > 0
    BY NoWriterWithReader, WordServesGuards DEF ExactInv, Holds
  <2>2. Holds(a, "writer") => word.w
    BY DEF ExactInv, Inv, Shape, WriterFlag, Holds, Top
  <2>3. Holds(a, "upgradable") => ExpectCanDowngradeToRead(word)
    <3>1. Holds(a, "upgradable") => base[a] = "upgradable"
      BY DEF Holds, Top, ExactInv
    <3> QED
      BY <3>1, NoWriterWithReader, WordServesGuards
         DEF ExactInv, Holds, ExpectCanDowngradeToRead
  <2> QED
    BY <2>1, <2>2, <2>3, WordServesGuards
<1>2. Init => ExactInv
  BY InitExact
<1>3. ExactInv /\ [Next]_vars => ExactInv'
  BY ExactStep
<1> QED
  BY <1>1, <1>2, <1>3, PTL DEF Spec

\* Only one guard claims the upgrade flag.
LEMMA OneClaim ==
  ASSUME Roomy, ExactInv, NEW a \in Claims PROVE Claims = {a}
<1>1. k \in Nat /\ ik \in Nat /\ k <= 1
  BY CountFacts DEF ExactInv, CountIsExact, Orphans, k, ik
<1>2. IsFiniteSet(Claims)
  BY FS_Subset DEF Claims, Roomy
<1>3. Cardinality(Claims) = 1
  BY <1>1, <1>2, FS_EmptySet DEF k
<1> QED
  BY <1>2, <1>3, FS_Singleton

\* Whatever has been given up, dropped or downgraded before, a refusal has a
\* guard or, for readers, the queue flag as its cause.
THEOREM RefusalsHaveCauses ==
  ASSUME Roomy, NotNested PROVE Spec => []RefusedForCause
<1>1. ExactInv => RefusedForCause
  <2> SUFFICES ASSUME ExactInv PROVE RefusedForCause
    OBVIOUS
  <2>1. word.r = c + ic /\ c \in Nat /\ ic \in Nat /\ word.r < MaxReaderCount
    BY CountFacts DEF ExactInv, CountIsExact, Lost, c, ic
  <2>2. word.w => \E a \in Acq : Top(a) = "writer"
    BY DEF ExactInv, Inv, Shape, WriterFlag, PcFits, Top
  <2>3. ~ExpectCanWrite(word) => \E a \in Acq : base[a] # "none"
    <3>1. IsFiniteSet(Counted) /\ IsFiniteSet(InnerCounted)
      BY FS_Subset DEF Roomy, Counted, InnerCounted
    <3>2. word.r # 0 => Counted # {} \/ InnerCounted # {}
      BY <2>1, <3>1, FS_EmptySet DEF c, ic
    <3>3. \A a \in Counted \cup InnerCounted : a \in Acq /\ base[a] # "none"
      BY DEF Counted, InnerCounted, ExactInv, Inv, Shape, PcFits
    <3>4. \A a \in Acq : Top(a) # "none" => base[a] # "none"
      BY DEF ExactInv, Inv, Shape, PcFits, Top
    <3> QED
      BY <2>2, <3>2, <3>3, <3>4 DEF ExpectCanWrite
  <2>4. word.u => \E a \in Acq : base[a] = "upgradable" \/ Top(a) = "writer"
    <3>1. word.u => k + ik # 0
      BY CountFacts DEF ExactInv, CountIsExact, Orphans, k, ik
    <3>2. InnerClaims = {}
      BY DEF ExactInv, InnerClaims
    <3>3. word.u => Claims # {}
      BY <3>1, <3>2, FS_EmptySet DEF k, ik
    <3>4. \A a \in Claims : a \in Acq /\ (base[a] = "upgradable" \/ Top(a) = "writer")
      BY DEF Claims, ExactInv, Inv, Shape, PcFits, Top
    <3> QED
      BY <3>3, <3>4
  <2>5. ASSUME ~ExpectCanUpgrade(word), NEW a \in Acq, base[a] = "upgradable"
        PROVE  \E b \in Acq : Top(b) = "reader"
    <3>1. a \in Counted /\ a \in Claims
      BY <2>5 DEF Counted, Claims
    <3>2. CASE InnerCounted # {}
      BY <3>2 DEF InnerCounted, ExactInv, Top
    <3>3. CASE InnerCounted = {}
      <4>1. c # 1
        BY <2>1, <2>5, <3>3, WordServesGuards, FS_EmptySet
           DEF ExpectCanUpgrade, ic
      <4>2. Counted # {a}
        BY <4>1, FS_Singleton DEF c
      <4>3. PICK b \in Counted : b # a
        BY <3>1, <4>2
      <4>4. b \notin Claims
        BY <3>1, <4>3, OneClaim
      <4>5. b \in Acq /\ base[b] = "reader"
        BY <4>4 DEF Counted, Claims
      <4> QED
        BY <4>5 DEF ExactInv, Inv, Shape, PcFits, Top
    <3> QED
      BY <3>2, <3>3
  <2> QED
    BY <2>1, <2>2, <2>3, <2>4, <2>5 DEF RefusedForCause, ExpectCanRead,
       ExpectWriteNotQueuedAndUpgradeInactive
<1>2. Init => ExactInv
  BY InitExact
<1>3. ExactInv /\ [Next]_vars => ExactInv'
  BY ExactStep
<1> QED
  BY <1>1, <1>2, <1>3, PTL DEF Spec

\* While an upgrade waits its flag is up and nobody writes.
UpgradesWaitFlagged == \A a \in Acq : pc[a] = "upgrade" => word.u /\ ~word.w

LEMMA WaitingUpgrades == ASSUME Roomy, ExactInv PROVE UpgradesWaitFlagged
<1>1. \A a \in Acq : pc[a] = "upgrade" =>
        base[a] = "upgradable" /\ inner[a] = "none"
  BY DEF ExactInv, Inv, Shape, PcFits
<1> QED
  BY <1>1, WordServesGuards, NoWriterWithReader
     DEF UpgradesWaitFlagged, ExactInv, Top

\* A waiting upgrade keeps its flag and meets no writer, and only a reader that
\* comes in puts it off.
THEOREM UpgradesKeepTheirPlace ==
  ASSUME Roomy, NotNested PROVE Spec => UpgradeKeepsItsPlace
<1>1. ExactInv /\ UpgradesWaitFlagged' /\ [Next]_vars =>
        [\A a \in Acq : pc[a] = "upgrade" /\ pc'[a] = "upgrade" =>
           /\ word'.u /\ ~word'.w
           /\ word'.r > word.r => \E b \in Acq : TryRead(b)]_vars
  <2> SUFFICES ASSUME ExactInv, UpgradesWaitFlagged', Next,
                      NEW a \in Acq, pc[a] = "upgrade", pc'[a] = "upgrade"
               PROVE  /\ word'.u /\ ~word'.w
                      /\ word'.r > word.r => \E b \in Acq : TryRead(b)
    OBVIOUS
  <2>1. word.u /\ ~word.w /\ word'.u /\ ~word'.w
    BY WaitingUpgrades DEF UpgradesWaitFlagged
  <2>2. word.r \in Nat /\ word'.r \in Nat
    BY TypeStep DEF ExactInv, Inv, TypeOK, Word
  <2>3. \A b \in Acq : ~TryUpgradableRead(b)
    BY <2>1 DEF TryUpgradableRead, ExpectWriteNotQueuedAndUpgradeInactive
  <2> QED
    BY <2>1, <2>2, <2>3, FallingCount DEF ExactInv
<1>2. Init => ExactInv
  BY InitExact
<1>3. ExactInv /\ [Next]_vars => ExactInv'
  BY ExactStep
<1>4. ExactInv => UpgradesWaitFlagged
  BY WaitingUpgrades
<1> QED
  BY <1>1, <1>2, <1>3, <1>4, PTL DEF Spec, UpgradeKeepsItsPlace

----------------------------------------------------------------------------
(***************************************************************************)
(* RwLock implements RwLockAbs: every step of the packed word and its two- *)
(* loop operations is one grant, release or change of mode of one handle,  *)
(* compatible with what the others hold, or nothing to a client.           *)
(***************************************************************************)

AbsHold == [a \in Acq |-> Mode(a)]

Exclusive(a) == Mode(a) = "exclusive"

\* Modes by the guards that make them.
LEMMA Modes ==
  ASSUME ExactInv, NEW a \in Acq
  PROVE  /\ Mode(a) \in Abs!Modes
         /\ Exclusive(a) <=> base[a] = "writer" \/ inner[a] = "writer"
         /\ Mode(a) = "none" <=> base[a] = "none"
         /\ Mode(a) = "upgradable" <=>
              base[a] = "upgradable" /\ inner[a] # "writer"
         /\ Mode(a) = "shared" <=> base[a] = "reader"
BY DEF Mode, Exclusive, Abs!Modes, ExactInv, Inv, TypeOK, Guard, Shape, PcFits

\* Modes held at the same time are compatible: a writer is alone, and a
\* second upgradable guard would be one more than the flag accounts for.
LEMMA HeldAreCompatible == ASSUME Roomy, ExactInv PROVE Abs!AllCompatible
<1> SUFFICES ASSUME NEW a \in Acq, NEW b \in Acq, a # b
             PROVE  Abs!Compatible(Mode(a), Mode(b))
  BY DEF Abs!AllCompatible
<1>1. CASE Exclusive(a) \/ Exclusive(b)
  BY <1>1, Modes DEF ExactInv, Inv, Shape, WriterAlone, PcFits, Abs!Compatible
<1>2. CASE Mode(a) = "upgradable" /\ Mode(b) = "upgradable"
  <2>1. a \in Claims /\ b \in Claims
    BY <1>2, Modes DEF Claims
  <2> QED
    BY <2>1, OneClaim
<1> QED
  BY <1>1, <1>2, Modes DEF Abs!Compatible, Abs!Modes, Exclusive

\* A step of one handle is a step of the abstract lock, or none, if it does
\* not turn a shared guard into something else than nothing.
LEMMA ChangeStep ==
  ASSUME Abs!AllCompatible', NEW a \in Acq, Same(a),
         Mode(a) = "shared" => Mode(a)' \in {"shared", "none"}
  PROVE  [Abs!Next]_AbsHold
<1>1. \A b \in Acq \ {a} : Mode(b)' = Mode(b)
  BY DEF Same, Mode
<1>2. AbsHold' = [b \in Acq |-> Mode(b)']
  BY DEF AbsHold
<1>3. CASE Mode(a)' = Mode(a)
  BY <1>1, <1>2, <1>3 DEF AbsHold
<1>4. CASE Mode(a)' # Mode(a)
  <2>1. AbsHold' = [AbsHold EXCEPT ![a] = Mode(a)']
    BY <1>1, <1>2 DEF AbsHold
  <2>2. Mode(a)' \in Abs!Modes
    BY DEF Mode, Abs!Modes
  <2>3. ASSUME NEW b \in Acq \ {a} PROVE Abs!Compatible(Mode(a)', Mode(b))
    BY <1>1 DEF Abs!AllCompatible
  <2>4. Abs!CanBecome(Mode(a), Mode(a)')
    BY <1>4 DEF Abs!CanBecome
  <2>5. Abs!Change(a, Mode(a)')
    BY <2>1, <2>3, <2>4 DEF Abs!Change, AbsHold
  <2> QED
    BY <2>2, <2>5 DEF Abs!Next
<1> QED
  BY <1>3, <1>4

\* Every step is the step of one handle, and the only one of a handle with a
\* reader guard drops it.
LEMMA StepOfOne ==
  ASSUME ExactInv, Next
  PROVE  \E a \in Acq :
           /\ Same(a)
           /\ Mode(a) = "shared" => Mode(a)' \in {"shared", "none"}
<1> USE DEF ExactInv, Inv, TypeOK, Same, Goto, Replace, Holds, Top
<1>1. \A a \in Acq : Mode(a) = "shared" =>
        base[a] = "reader" /\ inner[a] = "none" /\ pc[a] = "idle"
  BY DEF Mode, Shape, PcFits, Guard, Pc
<1>2. ASSUME NEW a \in Acq,
             StartTask(a) \/ GiveUp(a) \/ StartUpgrade(a) \/ TryRead(a)
               \/ TryUpgradableRead(a) \/ TryWrite(a) \/ EnqueueWriter(a)
      PROVE  Same(a) /\ Mode(a) # "shared"
  BY <1>1, <1>2, GivenUp DEF StartTask, StartUpgrade, TryRead,
     TryUpgradableRead, TryWrite, EnqueueWriter, WriteAgain
<1>3. ASSUME NEW a \in Acq,
             TryUpgrade(a) \/ ShedUpgradable(a) \/ UpgradePinned(a)
               \/ DowngradeWriterToReader(a) \/ DowngradeWriterToUpgradable(a)
               \/ DowngradeUpgradableToReader(a) \/ DropWriter(a)
               \/ DropUpgradable(a)
      PROVE  Same(a) /\ Mode(a) # "shared"
  BY <1>1, <1>3 DEF TryUpgrade, ShedUpgradable, UpgradePinned,
     DowngradeWriterToReader, DowngradeWriterToUpgradable,
     DowngradeUpgradableToReader, Downgrade, DropWriter, DropUpgradable, Drop
<1>4. ASSUME NEW a \in Acq, DropReader(a)
      PROVE  Same(a) /\ (Mode(a) = "shared" => Mode(a)' = "none")
  BY <1>1, <1>4 DEF DropReader, Drop, Mode
<1> QED
  BY <1>2, <1>3, <1>4 DEF Next

\* Nobody holds a new lock.
LEMMA AbsInit == Init => Abs!Init
BY DEF Init, Abs!Init, Mode

\* The packed word with its separate loops implements the abstract lock.
THEOREM Refinement == ASSUME Roomy, NotNested PROVE Spec => ImplementsAbs
<1>1. ExactInv /\ Abs!AllCompatible' /\ [Next]_vars => [Abs!Next]_AbsHold
  <2> SUFFICES ASSUME ExactInv, Abs!AllCompatible', [Next]_vars
               PROVE  [Abs!Next]_AbsHold
    OBVIOUS
  <2>1. CASE Next
    BY <2>1, StepOfOne, ChangeStep
  <2>2. CASE UNCHANGED vars
    BY <2>2 DEF vars, AbsHold, Mode
  <2> QED
    BY <2>1, <2>2
<1>2. Init => ExactInv
  BY InitExact
<1>3. ExactInv /\ [Next]_vars => ExactInv'
  BY ExactStep
<1>4. ExactInv => Abs!AllCompatible
  BY HeldAreCompatible
<1> QED
  BY <1>1, <1>2, <1>3, <1>4, AbsInit, PTL DEF Spec, ImplementsAbs, Abs!Spec, AbsHold
=============================================================================
