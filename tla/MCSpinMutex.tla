---------------------------- MODULE MCSpinMutex ----------------------------
(***************************************************************************)
(* SpinMutex with the signals of the code, for the model checker.          *)
(***************************************************************************)
EXTENDS SpinMutex, MutexSignal
=============================================================================
