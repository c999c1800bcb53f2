-------------------------- MODULE SpinMutexProofs --------------------------
(***************************************************************************)
(* Proofs about SpinMutex, for every set of handles and every signal that  *)
(* meets SignalAssumption.                                                 *)
(*                                                                         *)
(* What makes the mutex exclusive is that an exchange only replaces a      *)
(* released value that was tested before, and that the cell says acquired  *)
(* exactly while a guard exists; what a handle has seen may be stale, but  *)
(* an exchange on a stale value fails.                                     *)
(***************************************************************************)
EXTENDS SpinMutex, TLAPS

\* The states of SpinMutex are well typed, whatever the signal.
THEOREM TypeCorrect == Spec => []TypeOK
<1>1. Init => TypeOK
  BY DEF Init, TypeOK, Pc, Released
<1>2. TypeOK /\ [Next]_vars => TypeOK'
  <2> SUFFICES ASSUME TypeOK, [Next]_vars PROVE TypeOK'
    OBVIOUS
  <2> USE DEF TypeOK, Pc, Goto, Load, Fails, Unexpected, Exchange
  <2>1. CASE UNCHANGED vars
    BY <2>1 DEF vars
  <2>2. ASSUME NEW a \in Acq, Lock(a) \/ TryLock(a) \/ Drop(a)
        PROVE  TypeOK'
    BY <2>2 DEF Lock, TryLock, Drop
  <2>3. ASSUME NEW a \in Acq, SpinSucceeds(a) \/ OnceSucceeds(a) PROVE TypeOK'
    BY <2>3, SignalAssumption DEF SpinSucceeds, OnceSucceeds, Released
  <2>4. ASSUME NEW a \in Acq,
               SpinFails(a) \/ SpinUnexpected(a) \/ KeepSpinning(a)
                 \/ Cancel(a) \/ OnceFails(a)
        PROVE  TypeOK'
    BY <2>4 DEF SpinFails, SpinUnexpected, KeepSpinning, Cancel, OnceFails
  <2>5. ASSUME NEW a \in Acq, ReadToRelease(a) \/ ReleaseFails(a) PROVE TypeOK'
    BY <2>5 DEF ReadToRelease, ReleaseFails
  <2>6. ASSUME NEW a \in Acq, ReleaseEnds(a) PROVE TypeOK'
    BY <2>6, SignalAssumption DEF ReleaseEnds, Released
  <2> QED
    BY <2>1, <2>2, <2>3, <2>4, <2>5, <2>6 DEF Next, Progress
<1> QED
  BY <1>1, <1>2, PTL DEF Spec

----------------------------------------------------------------------------

\* A guard that is being dropped has read an acquired value.
ReleaseHasSeen == \A a \in Acq : pc[a] = "release" => seen[a] \in Acquired

Inv == MutualExclusion /\ GuardMeansAcquired /\ ReleaseHasSeen

\* The three things a step can do, seen from the outside.
Quiet == cell' = cell /\ Holders' = Holders

Taking(a) ==
  /\ cell \in Released /\ cell' = MakeAcquired[cell]
  /\ Holders' = Holders \cup {a}

Giving(a) ==
  /\ cell \in Acquired /\ cell' = MakeReleased[cell]
  /\ a \in Holders /\ Holders' = Holders \ {a}

\* Every step is quiet, or takes the mutex, or gives it back.
LEMMA StepKinds ==
  ASSUME TypeOK, TypeOK', Inv, [Next]_vars
  PROVE  Quiet \/ \E a \in Acq : Taking(a) \/ Giving(a)
<1> USE DEF TypeOK, Pc, Goto, Load, Fails, Unexpected, Exchange, Holders
<1>1. CASE UNCHANGED vars
  BY <1>1 DEF vars, Quiet
<1>2. ASSUME NEW a \in Acq,
             Lock(a) \/ TryLock(a) \/ Drop(a) \/ SpinFails(a)
               \/ SpinUnexpected(a) \/ KeepSpinning(a) \/ Cancel(a)
               \/ OnceFails(a) \/ ReadToRelease(a) \/ ReleaseFails(a)
      PROVE  Quiet
  BY <1>2 DEF Quiet, Lock, TryLock, Drop, SpinFails, SpinUnexpected,
              KeepSpinning, Cancel, OnceFails, ReadToRelease, ReleaseFails
<1>3. ASSUME NEW a \in Acq, SpinSucceeds(a) \/ OnceSucceeds(a) PROVE Taking(a)
  BY <1>3 DEF Taking, SpinSucceeds, OnceSucceeds
<1>4. ASSUME NEW a \in Acq, ReleaseEnds(a) PROVE Giving(a)
  BY <1>4 DEF Giving, ReleaseEnds, Inv, ReleaseHasSeen
<1> QED
  BY <1>1, <1>2, <1>3, <1>4 DEF Next, Progress

\* A guard that is being dropped keeps an acquired value in hand.
LEMMA ReleaseHasSeenStep ==
  ASSUME TypeOK, Inv, [Next]_vars
  PROVE  ReleaseHasSeen'
<1> USE DEF TypeOK, Pc, Goto, Load, Fails, Unexpected, Exchange, Holders,
            Inv, ReleaseHasSeen
<1>1. CASE UNCHANGED vars
  BY <1>1 DEF vars
<1>2. ASSUME NEW a \in Acq,
             Lock(a) \/ TryLock(a) \/ Drop(a) \/ SpinFails(a)
               \/ SpinUnexpected(a) \/ KeepSpinning(a) \/ Cancel(a)
               \/ OnceFails(a) \/ SpinSucceeds(a) \/ OnceSucceeds(a)
               \/ ReleaseEnds(a)
      PROVE  ReleaseHasSeen'
  BY <1>2 DEF Lock, TryLock, Drop, SpinFails, SpinUnexpected, KeepSpinning,
              Cancel, OnceFails, SpinSucceeds, OnceSucceeds, ReleaseEnds
<1>3. ASSUME NEW a \in Acq, ReadToRelease(a) \/ ReleaseFails(a)
      PROVE  ReleaseHasSeen'
  <2>1. cell \in Acquired
    BY <1>3 DEF GuardMeansAcquired, ReadToRelease, ReleaseFails
  <2> QED
    BY <1>3, <2>1 DEF ReadToRelease, ReleaseFails
<1> QED
  BY <1>1, <1>2, <1>3 DEF Next, Progress

\* Taking finds no holder and leaves one.
LEMMA TakingAlone ==
  ASSUME Inv, NEW a \in Acq, Taking(a)
  PROVE  Holders = {} /\ Holders' = {a} /\ cell' \in Acquired
BY SignalAssumption DEF Inv, GuardMeansAcquired, Taking, Released

\* Giving back finds the one holder and leaves none.
LEMMA GivingAlone ==
  ASSUME Inv, NEW a \in Acq, Giving(a)
  PROVE  Holders = {a} /\ Holders' = {} /\ cell' \in Released
BY SignalAssumption DEF Inv, MutualExclusion, Giving

\* The invariant is inductive.
LEMMA Inductive == TypeOK /\ TypeOK' /\ Inv /\ [Next]_vars => Inv'
<1> SUFFICES ASSUME TypeOK, TypeOK', Inv, [Next]_vars
             PROVE  (MutualExclusion /\ GuardMeansAcquired)'
  BY ReleaseHasSeenStep DEF Inv
<1> USE DEF MutualExclusion, GuardMeansAcquired
<1>1. CASE Quiet
  BY <1>1 DEF Quiet, Inv
<1>2. ASSUME NEW a \in Acq, Taking(a)
      PROVE  (MutualExclusion /\ GuardMeansAcquired)'
  BY <1>2, TakingAlone
<1>3. ASSUME NEW a \in Acq, Giving(a)
      PROVE  (MutualExclusion /\ GuardMeansAcquired)'
  BY <1>3, GivingAlone DEF Released
<1> QED
  BY <1>1, <1>2, <1>3, StepKinds

\* The inductive invariant holds in every state.
THEOREM Invariance == Spec => []Inv
<1>1. Init => Inv
  BY DEF Init, Inv, MutualExclusion, GuardMeansAcquired, ReleaseHasSeen,
         Holders, Released
<1> QED
  BY <1>1, Inductive, TypeCorrect, PTL DEF Spec

\* No two guards exist at one time: what Deref and DerefMut of MutexGuard
\* rely on.
THEOREM Exclusion == Spec => []MutualExclusion
BY Invariance, PTL DEF Inv

\* The drop of a guard always finds the cell acquired, so the result that it
\* ignores is always a success.
THEOREM ReleaseIsGranted == Spec => []GuardMeansAcquired
BY Invariance, PTL DEF Inv

\* Every change of the cell is an acquisition or undoes one, so the payload
\* of the cell is the client's at every time.
THEOREM PayloadSurvives == Spec => PayloadKept
<1> DEFINE Kept == \/ cell \in Released /\ cell' = MakeAcquired[cell]
                   \/ cell' \in Released /\ cell = MakeAcquired[cell']
           Twin == cell \in Acquired => cell = MakeAcquired[MakeReleased[cell]]
<1>1. Init => Twin
  BY DEF Init, Released
<1>2. TypeOK /\ TypeOK' /\ Inv /\ Twin /\ [Next]_vars => Twin' /\ [Kept]_cell
  <2> SUFFICES ASSUME TypeOK, TypeOK', Inv, Twin, [Next]_vars
               PROVE  Twin' /\ [Kept]_cell
    OBVIOUS
  <2>1. CASE Quiet
    BY <2>1 DEF Quiet
  <2>2. ASSUME NEW a \in Acq, Taking(a) PROVE Twin' /\ [Kept]_cell
    BY <2>2, SignalAssumption DEF Taking
  <2>3. ASSUME NEW a \in Acq, Giving(a) PROVE Twin' /\ [Kept]_cell
    BY <2>3, SignalAssumption DEF Giving, Released
  <2> QED
    BY <2>1, <2>2, <2>3, StepKinds
<1> QED
  BY <1>1, <1>2, TypeCorrect, Invariance, PTL DEF Spec, PayloadKept
=============================================================================
