------------------------------- MODULE RwSpin -------------------------------
(***************************************************************************)
(* The read-write lock with try_spin_update_ spelled out: the loops of     *)
(* RwLockState one access of the state word at a time, where RwLock lets   *)
(* each take effect at one instant.                                        *)
(*                                                                         *)
(* The loop is try_spin_compare_exchange_weak of the crate atomex, as the  *)
(* code uses it: it reads the word; a value the predicate refuses ends it  *)
(* without effect; else it makes a weak exchange, which succeeds only on   *)
(* that value and may fail for no reason, and goes on with the value that  *)
(* a failed exchange has found.                                            *)
(***************************************************************************)
EXTENDS RwLock

\* The loops: of tasks, by the name of their program counter, of the
\* consuming try_upgrade, of the three downgrades and of the three drops.
Tasks == {"read", "upgradable_read", "write", "queue", "upgrade", "shed"}
Changes == {"try_upgrade", "downgrade_to_reader", "downgrade_to_upgradable",
            "downgrade"}
Drops == {"drop_reader", "drop_writer", "drop_upgradable"}
Loops == Tasks \cup Changes \cup Drops

VARIABLES
  loop,   \* the loop each handle is in the middle of, or "none"
  seen    \* the value the loop has in hand

spinVars == <<word, pc, base, inner, loop, seen>>

SpinTypeOK ==
  /\ TypeOK
  /\ loop \in [Acq -> Loops \cup {"none"}]
  /\ seen \in [Acq -> Word]

SpinInit ==
  /\ Init
  /\ loop = [a \in Acq |-> "none"]
  /\ seen = [a \in Acq |-> NotLocked]

----------------------------------------------------------------------------

\* The first argument of try_spin_update_ in each loop, and the second.
Expects(l, s) ==
  CASE l = "read" -> ExpectCanRead(s)
    [] l = "upgradable_read" -> ExpectWriteNotQueuedAndUpgradeInactive(s)
    [] l = "write" -> ExpectCanWrite(s)
    [] l = "queue" -> ~s.q
    [] l \in {"upgrade", "try_upgrade"} -> ExpectCanUpgrade(s)
    [] l = "drop_reader" -> s.r > 0
    [] l \in {"shed", "drop_upgradable"} -> s.u
    [] l = "downgrade" -> ExpectCanDowngradeToRead(s)
    [] OTHER -> s.w

Desires(l, s) ==
  CASE l = "read" -> DesireIncReader(s)
    [] l = "upgradable_read" -> DesireUpgradeActiveAndReaderInc(s)
    [] l \in {"write", "upgrade", "try_upgrade"} -> DesireWriterActive(s)
    [] l = "queue" -> DesireWriterQueued(s)
    [] l = "downgrade" -> DesireUpgradeInactive(s)
    [] l = "downgrade_to_reader" -> DesireWriteToRead(s)
    [] l = "downgrade_to_upgradable" -> DesireWriteToUpgradable(s)
    [] l = "drop_reader" -> DesireDecReader(s)
    [] l = "drop_writer" -> DesireWriterNotQueuedInactive(s)
    [] OTHER -> DesireUpgradeInactiveAndReaderDec(s)

\* The guard a change or a drop is a call on, and what the client calls it.
On(l) ==
  CASE l \in {"try_upgrade", "downgrade", "drop_upgradable"} -> "upgradable"
    [] l = "drop_reader" -> "reader"
    [] OTHER -> "writer"

Called(a, l) ==
  IF l = "downgrade_to_upgradable" /\ inner[a] # "none" THEN "nested_downgrade" ELSE l

MayRun(a, l) ==
  \/ l \in Tasks /\ pc[a] = l
  \/ l \in Changes /\ Holds(a, On(l)) /\ Called(a, l) \in Calls[a]
  \/ l \in Drops /\ Holds(a, On(l))

\* The test of the token after a failed try.
Again(a, p) == Goto(a, p) \/ ("cancel" \in Calls[a] /\ Goto(a, "idle"))

\* What a call does when its loop has succeeded,
Granted(a, l) ==
  CASE l \in {"read", "downgrade_to_reader", "downgrade"} ->
         Goto(a, "idle") /\ Replace(a, "reader")
    [] l \in {"upgradable_read", "downgrade_to_upgradable"} ->
         Goto(a, "idle") /\ Replace(a, "upgradable")
    [] l = "write" -> Goto(a, "idle") /\ Replace(a, "writer")
    [] l = "queue" -> Again(a, "write") /\ UNCHANGED <<base, inner>>
    [] l = "try_upgrade" -> Goto(a, "shed") /\ Replace(a, "writer")
    [] l = "shed" -> Goto(a, "idle") /\ UNCHANGED <<base, inner>>
    [] l = "upgrade" -> /\ Goto(a, "idle")
                        /\ inner' = [inner EXCEPT ![a] = "writer"]
                        /\ UNCHANGED base
    [] OTHER -> Goto(a, "idle") /\ Replace(a, "none")

\* and when its value was refused.
Refused(a, l) ==
  CASE l \in {"read", "upgradable_read", "upgrade"} ->
         Again(a, l) /\ UNCHANGED <<base, inner>>
    [] l = "write" -> Goto(a, "queue") /\ UNCHANGED <<base, inner>>
    [] l = "queue" -> Again(a, "write") /\ UNCHANGED <<base, inner>>
    [] l \in {"try_upgrade", "shed"} -> Goto(a, "idle") /\ UNCHANGED <<base, inner>>
    [] OTHER -> Goto(a, "idle") /\ Replace(a, "none")

----------------------------------------------------------------------------

Enter(a, l, s) ==
  /\ loop' = [loop EXCEPT ![a] = l]
  /\ seen' = [seen EXCEPT ![a] = s]

\* A loop tests the value it has just read and goes on with it, or ends.
Test(a, l) ==
  /\ UNCHANGED word
  /\ \/ Expects(l, word) /\ Enter(a, l, word) /\ UNCHANGED <<pc, base, inner>>
     \/ ~Expects(l, word) /\ Enter(a, "none", NotLocked) /\ Refused(a, l)

Begin(a, l) == loop[a] = "none" /\ MayRun(a, l) /\ Test(a, l)

\* (A failed exchange that leaves the old value in hand.)
RetryStale(a) == loop[a] # "none" /\ UNCHANGED spinVars

\* A weak exchange that fails leaves the word's value to be tested.
Retry(a) == loop[a] # "none" /\ Test(a, loop[a])

\* (A store of the new value, whatever the word has become.)
Store(a) ==
  /\ loop[a] # "none"
  /\ word' = Desires(loop[a], seen[a])
  /\ Enter(a, "none", NotLocked)
  /\ Granted(a, loop[a])

\* A weak exchange that succeeds, and with it the loop.
Exchange(a) ==
  /\ loop[a] # "none"
  /\ word = seen[a]
  /\ word' = Desires(loop[a], seen[a])
  /\ Enter(a, "none", NotLocked)
  /\ Granted(a, loop[a])

\* Tasks are made, and upgrades begun, without an access of the word.
Quietly(a) ==
  /\ loop[a] = "none"
  /\ StartTask(a) \/ StartUpgrade(a)
  /\ UNCHANGED <<loop, seen>>

SpinNext ==
  \E a \in Acq :
    \/ Quietly(a)
    \/ \E l \in Loops : Begin(a, l)
    \/ Retry(a)
    \/ Exchange(a)

SpinSpec == SpinInit /\ [][SpinNext]_spinVars

\* A thread in a loop or a task keeps running; a weak exchange that could
\* succeed again and again does so; clients drop the guard they can use.
SpinFairness ==
  \A a \in Acq :
    /\ WF_spinVars(\E l \in Tasks : Begin(a, l))
    /\ SF_spinVars(\E l \in Drops : Begin(a, l))
    /\ WF_spinVars(Retry(a))
    /\ SF_spinVars(Exchange(a))

FairSpinSpec == SpinSpec /\ SpinFairness

----------------------------------------------------------------------------

\* Each loop takes effect at one instant between its first read and its end:
\* the value it has tested is the one it replaces, and what it saw in between
\* cannot be told from outside.
ImplementsLock == Spec

\* The fairness assumed of the one-step loops is what the loops deliver.
DeliversFairness == Fairness
=============================================================================
