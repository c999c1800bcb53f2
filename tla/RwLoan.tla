------------------------------- MODULE RwLoan -------------------------------
(***************************************************************************)
(* The read-write lock with the inherent method                            *)
(* UpgradeTask::may_cancel_with of src/rwlock/preemptive/upgrade_.rs.      *)
(*                                                                         *)
(* The trait's method of that name types the writer it returns with the    *)
(* borrow of the Upgrade, which therefore cannot be used while the writer  *)
(* exists; RwLock follows it (UpgradePinned).  The inherent method types   *)
(* it with the borrow of the Acquire handle: the Upgrade is free again as  *)
(* soon as the task has ended, and its guard can be dropped, or upgraded   *)
(* once more, beside the writer.  Such a writer is loose here.  A loose    *)
(* upgradable guard, which is what a downgraded loose writer may be, is    *)
(* only dropped or downgraded.                                             *)
(***************************************************************************)
EXTENDS RwLock

CONSTANT MaxLoans   \* how many loose writers a handle may have at a time

LooseKinds == {"writer", "reader", "upgradable"}

VARIABLE loose   \* how many loose guards of each kind there are of a handle

loanVars == <<word, pc, base, inner, loose>>

NoLoose == [g \in LooseKinds |-> 0]

LoanInit == Init /\ loose = [a \in Acq |-> NoLoose]

----------------------------------------------------------------------------

Lend(a) ==
  /\ pc[a] = "upgrade"
  /\ ExpectCanUpgrade(word)
  /\ loose[a]["writer"] < MaxLoans
  /\ word' = DesireWriterActive(word)
  /\ Goto(a, "idle")
  /\ loose' = [loose EXCEPT ![a]["writer"] = @ + 1]
  /\ UNCHANGED <<base, inner>>

\* The calls on a loose guard are those on any other.
Trade(a, from, to, ok, new) ==
  /\ loose[a][from] > 0
  /\ SpinUpdate(ok, new)
  /\ loose' = [loose EXCEPT ![a] = [g \in LooseKinds |->
                 CASE g = from -> @[g] - 1
                   [] g = to /\ ok -> @[g] + 1
                   [] OTHER -> @[g]]]
  /\ UNCHANGED <<pc, base, inner>>

DropLoose(a) ==
  \/ Trade(a, "writer", "none", word.w, DesireWriterNotQueuedInactive(word))
  \/ Trade(a, "reader", "none", word.r > 0, DesireDecReader(word))
  \/ Trade(a, "upgradable", "none", word.u,
           DesireUpgradeInactiveAndReaderDec(word))

DowngradeLoose(a) ==
  \/ Trade(a, "writer", "reader", word.w, DesireWriteToRead(word))
  \/ Trade(a, "writer", "upgradable", word.w, DesireWriteToUpgradable(word))
  \/ Trade(a, "upgradable", "reader", ExpectCanDowngradeToRead(word),
           DesireUpgradeInactive(word))

\* Whatever else a client does it does as before; a handle is not free for
\* another task until its loose guards are gone.
Unloosed(a) == StartTask(a) => loose[a] = NoLoose

LoanNext ==
  \/ Next /\ (\A a \in Acq : Unloosed(a)) /\ UNCHANGED loose
  \/ \E a \in Acq : Lend(a) \/ DropLoose(a) \/ DowngradeLoose(a)

LoanSpec == LoanInit /\ [][LoanNext]_loanVars

----------------------------------------------------------------------------

\* The assertion in the drop of a writer guard, debug_assert!(r.is_ok()):
\* while a loose writer exists the writer flag is up.
LooseWriterHasFlag == \A a \in Acq : loose[a]["writer"] > 0 => word.w
=============================================================================
