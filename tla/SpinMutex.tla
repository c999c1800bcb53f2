----------------------------- MODULE SpinMutex -----------------------------
(***************************************************************************)
(* The preemptive spinning mutex, SpinningMutex of src/mutex/preemptive.rs *)
(* with its Acquire, LockAcqTask and MutexGuard, one atomic access of the  *)
(* cell per step.                                                          *)
(*                                                                         *)
(* The cell is the client's: part of its value says whether the mutex is   *)
(* acquired, the rest is a payload the mutex has to leave alone.  The      *)
(* signal, TrMutexSignal, is a parameter here; module MutexSignal has the  *)
(* two signals of the code.                                                *)
(*                                                                         *)
(* The two loops are of the crate atomex and are modelled from their use:  *)
(* try_once_compare_exchange_weak tests the value it is given and then     *)
(* makes one weak exchange, which may fail for no reason;                  *)
(* try_spin_compare_exchange_weak repeats that with the value it found     *)
(* until it succeeds or finds one it does not expect.                      *)
(***************************************************************************)
EXTENDS Naturals

CONSTANTS
  Acq,           \* the Acquire handles
  Value,         \* values of the cell
  Acquired,      \* those with S::is_acquired
  MakeAcquired,  \* S::make_acquired
  MakeReleased,  \* S::make_released
  Cancels        \* the handles whose token may be cancelled

Released == Value \ Acquired

\* What the mutex needs of a signal.  Nothing is asked of make_acquired on an
\* acquired value, nor of make_released on a released one.
ASSUME SignalAssumption ==
  /\ Acquired \subseteq Value
  /\ MakeAcquired \in [Released -> Acquired]
  /\ MakeReleased \in [Acquired -> Released]
  /\ \A v \in Released : MakeReleased[MakeAcquired[v]] = v

ASSUME CancelsAssumption == Cancels \subseteq Acq

\* "spin": try_spin_acquire_ is about to run try_once with what it has seen.
\* "test": the try failed and the token is to be tested.
\* "once": try_lock has read the cell and is about to exchange it.
\* "release": the guard is being dropped; its loop has read seen.
Pc == {"idle", "spin", "test", "once", "locked", "drop", "release"}

VARIABLES
  cell,   \* the atomic cell
  pc,
  seen    \* what each handle last read of the cell

vars == <<cell, pc, seen>>

TypeOK ==
  /\ cell \in Value
  /\ pc \in [Acq -> Pc]
  /\ seen \in [Acq -> Value]

\* new_embedded and new_owned store a default, and new takes the cell as it
\* is: any value that does not say the mutex is acquired.
Init ==
  /\ cell \in Released
  /\ pc = [a \in Acq |-> "idle"]
  /\ seen = [a \in Acq |-> cell]

----------------------------------------------------------------------------

Goto(a, from, to) == pc[a] = from /\ pc' = [pc EXCEPT ![a] = to]

\* self.0.value()
Load(a) == seen' = [seen EXCEPT ![a] = cell] /\ UNCHANGED cell

\* A weak exchange of the cell that succeeds,
Exchange(a, new) == cell = seen[a] /\ cell' = new

\* one that leaves the found value with the caller,
Fails(a) == Load(a)

\* and one that leaves nothing.
Unexpected == UNCHANGED <<cell, seen>>

\* LockAcqTask runs try_spin_acquire_, which reads the cell once ...
Lock(a) == Goto(a, "idle", "spin") /\ Load(a)

\* (A store instead of the exchange, as a bug would have it.)
BlindSpinSucceeds(a) ==
  /\ Goto(a, "spin", "locked")
  /\ seen[a] \in Released
  /\ cell' = MakeAcquired[seen[a]]
  /\ UNCHANGED seen

\* ... and takes its result for granted until an exchange has failed.  The
\* exchange is tried only if the value at hand is a released one.
SpinSucceeds(a) ==
  /\ Goto(a, "spin", "locked")
  /\ seen[a] \in Released
  /\ Exchange(a, MakeAcquired[seen[a]])
  /\ UNCHANGED seen

\* A failed exchange refreshes the value at hand; atomex may report a found
\* value that is not expected as Unexpected, which does not.
SpinFails(a) ==
  /\ Goto(a, "spin", "test")
  /\ seen[a] \in Released
  /\ \/ Fails(a)
     \/ cell \in Acquired /\ Unexpected

\* CmpxchResult::Unexpected(_) => ()
SpinUnexpected(a) ==
  /\ Goto(a, "spin", "test")
  /\ seen[a] \in Acquired
  /\ Unexpected

KeepSpinning(a) == Goto(a, "test", "spin") /\ UNCHANGED <<cell, seen>>

Cancel(a) ==
  /\ a \in Cancels
  /\ Goto(a, "test", "idle")
  /\ UNCHANGED <<cell, seen>>

----------------------------------------------------------------------------
\* try_lock

TryLock(a) == Goto(a, "idle", "once") /\ Load(a)

\* (A success that is not told to the caller, as a bug would have it.)
OnceForgets(a) ==
  /\ Goto(a, "once", "idle")
  /\ seen[a] \in Released
  /\ Exchange(a, MakeAcquired[seen[a]])
  /\ UNCHANGED seen

OnceSucceeds(a) ==
  /\ Goto(a, "once", "locked")
  /\ seen[a] \in Released
  /\ Exchange(a, MakeAcquired[seen[a]])
  /\ UNCHANGED seen

OnceFails(a) == Goto(a, "once", "idle") /\ UNCHANGED <<cell, seen>>

----------------------------------------------------------------------------
\* MutexGuard::drop runs try_spin_release_ and ignores its result.

Drop(a) == Goto(a, "locked", "drop") /\ UNCHANGED <<cell, seen>>

ReadToRelease(a) == Goto(a, "drop", "release") /\ Load(a)

ReleaseToDefault(a) ==
  /\ Goto(a, "release", "idle")
  /\ Exchange(a, CHOOSE v \in Released : TRUE)
  /\ UNCHANGED seen

ReleaseEnds(a) ==
  /\ Goto(a, "release", "idle")
  /\ IF seen[a] \in Acquired THEN Exchange(a, MakeReleased[seen[a]])
                            ELSE UNCHANGED cell
  /\ UNCHANGED seen

ReleaseGivesUp(a) ==
  /\ Goto(a, "release", "idle")
  /\ seen[a] \in Acquired
  /\ Fails(a)

ReleaseFails(a) ==
  /\ Goto(a, "release", "release")
  /\ seen[a] \in Acquired
  /\ Fails(a)

----------------------------------------------------------------------------

\* A step of a call that has begun.
Progress(a) ==
  \/ SpinSucceeds(a) \/ SpinFails(a) \/ SpinUnexpected(a)
  \/ KeepSpinning(a) \/ Cancel(a)
  \/ OnceSucceeds(a) \/ OnceFails(a)
  \/ ReadToRelease(a)
  \/ ReleaseEnds(a) \/ ReleaseFails(a)

Next == \E a \in Acq : Lock(a) \/ TryLock(a) \/ Drop(a) \/ Progress(a)

Spec == Init /\ [][Next]_vars

\* A thread that has begun a call keeps running, a weak exchange that could
\* succeed again and again does so in the end, and guards are dropped.
Fairness ==
  \A a \in Acq :
    /\ WF_vars(Progress(a)) /\ WF_vars(Drop(a))
    /\ SF_vars(SpinSucceeds(a)) /\ SF_vars(OnceSucceeds(a))
    /\ SF_vars(ReleaseEnds(a))

FairSpec == Spec /\ Fairness

\* Clients with a token that is cancelled, who then ask again.
Retries ==
  \A a \in Cancels : WF_vars(Lock(a) \/ TryLock(a)) /\ SF_vars(Cancel(a))

----------------------------------------------------------------------------

Holders == {a \in Acq : pc[a] \in {"locked", "drop", "release"}}

\* No two guards exist at one time: what Deref and DerefMut of MutexGuard rely
\* on.
MutualExclusion == \A a, b \in Holders : a = b

\* The release of a guard is never refused, so ignoring its result loses
\* nothing: as long as a guard exists the cell says acquired, and is_acquired
\* says so to everyone.
GuardMeansAcquired == Holders # {} <=> cell \in Acquired

\* The payload survives: the cell changes only by being acquired and by the
\* inverse of that, so a round trip brings back the client's value (the test
\* ptr_smoke_test compares the pointer in the cell before and after).
PayloadKept ==
  [][ \/ cell \in Released /\ cell' = MakeAcquired[cell]
      \/ cell' \in Released /\ cell = MakeAcquired[cell'] ]_cell

\* A mutex that is given back does not stay out of reach: a task that waits
\* does not spin for ever on a mutex that is and stays free.
NoWaitOnFreeMutex ==
  \A a \in Acq : ~<>[](pc[a] \in {"spin", "test"} /\ cell \in Released)

\* A task waits for ever for one of two reasons: others take the mutex over and
\* over, or it has an acquired value in hand that it will not part with
\* (NoWaitOnFreeMutex).  No guard that is dropped, no try that fails or is
\* cancelled and no exchange that fails for no reason keeps it out.
WaitsForCause ==
  \A a \in Acq :
    <>[](pc[a] \in {"spin", "test"}) =>
      \/ <>[](seen[a] \in Acquired)
      \/ []<><<cell \in Released /\ cell' \in Acquired>>_vars

\* When handles cancel and ask again, somebody gets the mutex over and over:
\* no failed or cancelled try leaves anything behind, and no task that waits
\* is in their way (smoke_tests_.rs retries lock with a cancelled token until
\* it succeeds).
MutexIsTakenAgain ==
  Retries => []<>(cell \in Acquired) /\ []<>(cell \in Released)
=============================================================================
