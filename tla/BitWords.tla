------------------------------ MODULE BitWords ------------------------------
(***************************************************************************)
(* The unsigned integers of BITS bits that the state words are made of,    *)
(* and the operators of Rust the code uses on them.  The operators are     *)
(* recursive functions, so that they can be proved about.                  *)
(***************************************************************************)
EXTENDS Integers

CONSTANT BITS   \* D::BITS of RwLockState, V::BITS of MsbAsMutexSignal

ASSUME BitsAssumption == BITS \in Nat \ {0}

\* ONE << n, as long as the bit stays in the word.
shl[n \in Nat] == IF n = 0 THEN 1 ELSE 2 * shl[n - 1]

MAX == shl[BITS] - 1

BitWord == 0 .. MAX

\* The bits x and y have in common among their lowest n, from bit 0 upwards.
common[n \in Nat] ==
  [x \in Nat |-> [y \in Nat |->
    IF n = 0 THEN 0
    ELSE (x % 2) * (y % 2) + 2 * common[n - 1][x \div 2][y \div 2]]]

x & y == common[BITS][x][y]

\* What both have counts once.
x | y == x + y - (x & y)

\* !x
not(x) == MAX - x
=============================================================================
