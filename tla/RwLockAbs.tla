----------------------------- MODULE RwLockAbs -----------------------------
(***************************************************************************)
(* What a read-write lock with an upgradable mode promises its clients:    *)
(* which modes exist side by side, and which changes of mode a client can  *)
(* ask for.  Nothing is said of a state word.                              *)
(***************************************************************************)
CONSTANT Acq

VARIABLE hold   \* the mode in which each handle holds the lock

Modes == {"none", "shared", "upgradable", "exclusive"}

Compatible(m, n) ==
  "none" \in {m, n} \/ {m, n} = {"shared"} \/ {m, n} = {"shared", "upgradable"}

\* A shared guard can only be released.
CanBecome(m, n) == m # n /\ (m = "shared" => n = "none")

TypeOK == hold \in [Acq -> Modes]

Init == hold = [a \in Acq |-> "none"]

Change(a, m) ==
  /\ CanBecome(hold[a], m)
  /\ \A b \in Acq \ {a} : Compatible(m, hold[b])
  /\ hold' = [hold EXCEPT ![a] = m]

Next == \E a \in Acq, m \in Modes : Change(a, m)

Spec == Init /\ [][Next]_hold

\* Modes held at the same time are compatible.
AllCompatible == \A a, b \in Acq : a # b => Compatible(hold[a], hold[b])
=============================================================================
