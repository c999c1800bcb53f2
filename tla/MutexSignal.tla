---------------------------- MODULE MutexSignal ----------------------------
(***************************************************************************)
(* The two signals of src/mutex/preemptive.rs, in the form SpinMutex takes *)
(* them: the acquired values, and what make_acquired and make_released     *)
(* make of the values they are used on.                                    *)
(***************************************************************************)
EXTENDS BitWords

CONSTANT Cells   \* addresses a cell of PtrAsMutexSignal may point to

\* They are aligned.
ASSUME CellsAssumption == \A p \in Cells : p \in Nat /\ p % 2 = 0

\* MsbAsMutexSignal
K_MSB_FLAG == shl[BITS - 1]

MsbValue == BitWord
MsbAcquired == {v \in MsbValue : v & K_MSB_FLAG = K_MSB_FLAG}
MsbMakeAcquired == [v \in MsbValue \ MsbAcquired |-> v | K_MSB_FLAG]
MsbMakeReleased == [v \in MsbAcquired |-> v & not(K_MSB_FLAG)]

\* PtrAsMutexSignal
K_MOD == 2
K_RES == 1

PtrValue == Cells \cup {p + K_RES : p \in Cells}
PtrAcquired == {p \in PtrValue : p % K_MOD = K_RES}
PtrMakeAcquired == [p \in PtrValue \ PtrAcquired |-> p + K_RES]
PtrMakeReleased == [p \in PtrAcquired |-> p - K_RES]
=============================================================================
