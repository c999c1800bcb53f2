---------------------------- MODULE RwSpinProofs ----------------------------
(***************************************************************************)
(* Proofs that the loops of RwSpin implement the one-step loops of RwLock, *)
(* for every set of handles, whatever calls their clients make.            *)
(*                                                                         *)
(* A loop in progress has in hand a value that its predicate has accepted, *)
(* and nobody but its own thread can end the call it belongs to.  So the   *)
(* exchange, which succeeds only on that value, is the granted case of the *)
(* action of RwLock, and a refusal is the other case at the instant the    *)
(* word was read.                                                          *)
(***************************************************************************)
EXTENDS RwSpin, RwLockExactProofs

\* A loop in progress works for a call that has begun, on a tested value.
InHand(a) ==
  loop[a] # "none" => MayRun(a, loop[a]) /\ Expects(loop[a], seen[a])

SpinInv == SpinTypeOK /\ \A a \in Acq : InHand(a)

\* A loop that succeeds on the word is a step of RwLock.
LEMMA GrantedStep ==
  ASSUME TypeOK, NEW a \in Acq, NEW l \in Loops, MayRun(a, l),
         Expects(l, word), word' = Desires(l, word), Granted(a, l)
  PROVE  Next
<1> USE DEF TypeOK, Goto, Holds, Again, MayRun, Expects, Desires, Granted,
            Tasks, Changes, Drops, On, Called
<1>1. CASE l = "read"
  BY <1>1 DEF Next, TryRead
<1>2. CASE l = "upgradable_read"
  BY <1>2 DEF Next, TryUpgradableRead
<1>3. CASE l = "write"
  BY <1>3 DEF Next, TryWrite, SpinUpdate
<1>4. CASE l = "queue"
  BY <1>4 DEF Next, EnqueueWriter, WriteAgain, SpinUpdate
<1>5. CASE l = "upgrade"
  BY <1>5 DEF Next, UpgradePinned
<1>6. CASE l = "shed"
  BY <1>6 DEF Next, ShedUpgradable, SpinUpdate
<1>7. CASE l = "try_upgrade"
  BY <1>7 DEF Next, TryUpgrade
<1>8. CASE l = "downgrade_to_reader"
  BY <1>8 DEF Next, DowngradeWriterToReader, Downgrade, SpinUpdate
<1>9. CASE l = "downgrade_to_upgradable"
  BY <1>9 DEF Next, DowngradeWriterToUpgradable, Downgrade, SpinUpdate
<1>10. CASE l = "downgrade"
  BY <1>10 DEF Next, DowngradeUpgradableToReader, Downgrade, SpinUpdate
<1>11. CASE l = "drop_reader"
  BY <1>11 DEF Next, DropReader, Drop, SpinUpdate
<1>12. CASE l = "drop_writer"
  BY <1>12 DEF Next, DropWriter, Drop, SpinUpdate
<1>13. CASE l = "drop_upgradable"
  BY <1>13 DEF Next, DropUpgradable, Drop, SpinUpdate
<1> QED
  BY <1>1, <1>2, <1>3, <1>4, <1>5, <1>6, <1>7, <1>8, <1>9, <1>10, <1>11,
     <1>12, <1>13 DEF Loops

\* A loop that is refused the word is one too, or nothing.
LEMMA RefusedStep ==
  ASSUME TypeOK, NEW a \in Acq, NEW l \in Loops, MayRun(a, l),
         ~Expects(l, word), UNCHANGED word, Refused(a, l)
  PROVE  [Next]_vars
<1> USE DEF TypeOK, Goto, Holds, Again, MayRun, Expects, Refused,
            Tasks, Changes, Drops, On, Called
<1>1. CASE l \in {"read", "upgradable_read", "upgrade"}
  BY <1>1 DEF Next, GiveUp, GiveUpRead, GiveUpUpgradableRead, GiveUpUpgrade,
     Leave, vars
<1>2. CASE l = "write"
  BY <1>2 DEF Next, TryWrite, SpinUpdate
<1>3. CASE l = "queue"
  BY <1>3 DEF Next, EnqueueWriter, WriteAgain, SpinUpdate
<1>4. CASE l = "shed"
  BY <1>4 DEF Next, ShedUpgradable, SpinUpdate
<1>5. CASE l = "try_upgrade"
  BY <1>5 DEF vars
<1>6. CASE l = "downgrade_to_reader"
  BY <1>6 DEF Next, DowngradeWriterToReader, Downgrade, SpinUpdate
<1>7. CASE l = "downgrade_to_upgradable"
  BY <1>7 DEF Next, DowngradeWriterToUpgradable, Downgrade, SpinUpdate
<1>8. CASE l = "downgrade"
  BY <1>8 DEF Next, DowngradeUpgradableToReader, Downgrade, SpinUpdate
<1>9. CASE l = "drop_reader"
  BY <1>9 DEF Next, DropReader, Drop, SpinUpdate
<1>10. CASE l = "drop_writer"
  BY <1>10 DEF Next, DropWriter, Drop, SpinUpdate
<1>11. CASE l = "drop_upgradable"
  BY <1>11 DEF Next, DropUpgradable, Drop, SpinUpdate
<1> QED
  BY <1>1, <1>2, <1>3, <1>4, <1>5, <1>6, <1>7, <1>8, <1>9, <1>10, <1>11
     DEF Loops, Tasks, Changes, Drops

\* A step of one handle leaves the loops of the others to them.
LEMMA OthersKeep ==
  ASSUME SpinInv, NEW a \in Acq, NEW l, NEW s, Enter(a, l, s),
         \A b \in Acq \ {a} :
           pc'[b] = pc[b] /\ base'[b] = base[b] /\ inner'[b] = inner[b]
  PROVE  \A b \in Acq \ {a} : InHand(b)'
<1> SUFFICES ASSUME NEW b \in Acq \ {a}, loop[b] # "none"
             PROVE  (MayRun(b, loop[b]) /\ Expects(loop[b], seen[b]))'
  BY DEF SpinInv, SpinTypeOK, Enter, InHand
<1>1. loop'[b] = loop[b] /\ seen'[b] = seen[b]
  BY DEF SpinInv, SpinTypeOK, Enter
<1>2. MayRun(b, loop[b]) /\ Expects(loop[b], seen[b])
  BY DEF SpinInv, InHand
<1>3. MayRun(b, loop[b])'
  BY <1>1, <1>2 DEF MayRun, Holds, Top, Called
<1>4. Expects(loop[b], seen[b])'
  BY <1>1, <1>2 DEF Expects
<1> QED
  BY <1>3, <1>4

\* The end of a loop touches the guards of its own handle only.
LEMMA EndsAlone ==
  ASSUME TypeOK, NEW a \in Acq, NEW l \in Loops, Granted(a, l) \/ Refused(a, l)
  PROVE  \A b \in Acq \ {a} :
           pc'[b] = pc[b] /\ base'[b] = base[b] /\ inner'[b] = inner[b]
BY DEF TypeOK, Loops, Tasks, Changes, Drops, Granted, Refused, Again, Goto, Replace

\* A read of the word that is tested is a step of RwLock or nothing, and
\* leaves the loops with tested values.
LEMMA TestStep ==
  ASSUME SpinInv, NEW a \in Acq, NEW l \in Loops, MayRun(a, l), Test(a, l)
  PROVE  [Next]_vars /\ SpinInv'
<1>1. CASE Expects(l, word)
  <2>1. UNCHANGED vars /\ Enter(a, l, word)
    BY <1>1 DEF Test, vars
  <2>2. SpinTypeOK'
    BY <2>1 DEF SpinInv, SpinTypeOK, TypeOK, vars, Enter
  <2>3. InHand(a)'
    <3>1. loop'[a] = l /\ seen'[a] = word
      BY <2>1 DEF SpinInv, SpinTypeOK, Enter
    <3>2. MayRun(a, l)'
      BY <2>1 DEF MayRun, Holds, Top, Called, vars
    <3> QED
      BY <1>1, <3>1, <3>2 DEF InHand, MayRun, Expects
  <2> QED
    BY <2>1, <2>2, <2>3, OthersKeep DEF vars, SpinInv
<1>2. CASE ~Expects(l, word)
  <2>1. UNCHANGED word /\ Enter(a, "none", NotLocked) /\ Refused(a, l)
    BY <1>2 DEF Test
  <2>2. TypeOK
    BY DEF SpinInv, SpinTypeOK
  <2>3. [Next]_vars
    BY <1>2, <2>1, <2>2, RefusedStep
  <2>4. SpinTypeOK'
    BY <2>1, <2>2, <2>3, TypeStep, NotLockedFields
       DEF SpinInv, SpinTypeOK, Enter, Fields
  <2>5. InHand(a)'
    BY <2>1 DEF SpinInv, SpinTypeOK, Enter, InHand
  <2> QED
    BY <2>1, <2>2, <2>3, <2>4, <2>5, EndsAlone, OthersKeep DEF SpinInv
<1> QED
  BY <1>1, <1>2

\* An exchange that succeeds is a step of RwLock.
LEMMA ExchangeStep ==
  ASSUME SpinInv, NEW a \in Acq, Exchange(a)
  PROVE  Next /\ SpinInv'
<1> DEFINE l == loop[a]
<1>1. l \in Loops /\ MayRun(a, l) /\ Expects(l, word)
  BY DEF SpinInv, SpinTypeOK, InHand, Exchange
<1>2. TypeOK /\ word' = Desires(l, word) /\ Granted(a, l)
      /\ Enter(a, "none", NotLocked)
  BY DEF SpinInv, SpinTypeOK, Exchange
<1>3. Next
  BY <1>1, <1>2, GrantedStep
<1>4. SpinTypeOK'
  BY <1>2, <1>3, TypeStep, NotLockedFields
     DEF SpinInv, SpinTypeOK, Enter, Fields
<1>5. InHand(a)'
  BY <1>2 DEF SpinInv, SpinTypeOK, Enter, InHand
<1> HIDE DEF l
<1> QED
  BY <1>1, <1>2, <1>3, <1>4, <1>5, EndsAlone, OthersKeep DEF SpinInv

\* A task that is made has no loop yet.
LEMMA QuietlyStep ==
  ASSUME SpinInv, NEW a \in Acq, Quietly(a)
  PROVE  Next /\ SpinInv'
<1>1. Next
  BY DEF Quietly, Next
<1>2. SpinTypeOK'
  BY <1>1, TypeStep DEF SpinInv, SpinTypeOK, Quietly
<1>3. Enter(a, "none", seen[a])
  BY DEF Quietly, Enter, SpinInv, SpinTypeOK
<1>4. \A b \in Acq \ {a} :
        pc'[b] = pc[b] /\ base'[b] = base[b] /\ inner'[b] = inner[b]
  BY DEF Quietly, StartTask, StartUpgrade, Goto, SpinInv, SpinTypeOK, TypeOK
<1>5. InHand(a)'
  BY DEF Quietly, InHand
<1> QED
  BY <1>1, <1>2, <1>3, <1>4, <1>5, OthersKeep DEF SpinInv

\* Every step of the loops is a step of RwLock or nothing.
LEMMA SpinStep == SpinInv /\ [SpinNext]_spinVars => [Next]_vars /\ SpinInv'
<1> SUFFICES ASSUME SpinInv, [SpinNext]_spinVars PROVE [Next]_vars /\ SpinInv'
  OBVIOUS
<1>1. CASE UNCHANGED spinVars
  BY <1>1 DEF spinVars, vars, SpinInv, SpinTypeOK, TypeOK, InHand, MayRun,
              Holds, Top, Called, Expects
<1>2. ASSUME NEW a \in Acq, Quietly(a) PROVE [Next]_vars /\ SpinInv'
  BY <1>2, QuietlyStep
<1>3. ASSUME NEW a \in Acq, NEW l \in Loops, Begin(a, l)
      PROVE  [Next]_vars /\ SpinInv'
  BY <1>3, TestStep DEF Begin
<1>4. ASSUME NEW a \in Acq, Retry(a) PROVE [Next]_vars /\ SpinInv'
  <2>1. loop[a] \in Loops /\ MayRun(a, loop[a]) /\ Test(a, loop[a])
    BY <1>4 DEF Retry, SpinInv, SpinTypeOK, InHand
  <2> QED
    BY <2>1, TestStep
<1>5. ASSUME NEW a \in Acq, Exchange(a) PROVE [Next]_vars /\ SpinInv'
  BY <1>5, ExchangeStep
<1> QED
  BY <1>1, <1>2, <1>3, <1>4, <1>5 DEF SpinNext

\* The inductive invariant holds at the start.
LEMMA SpinInitInv == SpinInit => SpinInv
BY NotLockedFields
   DEF SpinInit, Init, SpinInv, SpinTypeOK, TypeOK, InHand, Fields, Pc, Guard

\* What a loop has in hand is a value of the word, at any width of it.
THEOREM SpinTypeCorrect == SpinSpec => []SpinTypeOK
BY SpinInitInv, SpinStep, PTL DEF SpinSpec, SpinInv

\* The loops implement the one-step loops, so what is proved of RwLock holds
\* of the lock one access at a time.
THEOREM SpinRefinement == SpinSpec => ImplementsLock
<1>1. SpinInit => Init
  BY DEF SpinInit
<1> QED
  BY <1>1, SpinInitInv, SpinStep, PTL DEF SpinSpec, ImplementsLock, Spec

\* Writing is exclusive with the loops spelled out.
THEOREM SpinExclusion ==
  ASSUME Roomy PROVE SpinSpec => []MutualExclusion
BY SpinRefinement, Exclusion, PTL DEF ImplementsLock

\* No loop interrupted between its test and its exchange loses more than one
\* count or flag, or lets the count of those ahead of a queued writer rise.
THEOREM SpinAccounts ==
  ASSUME Roomy PROVE SpinSpec => []AtMostOneLeak /\ QueueDrains
BY SpinRefinement, OneLeak, QueueOnlyDrains, PTL DEF ImplementsLock

\* Without the nested downgrade the accounts are exact, no assertion fails, a
\* waiting upgrade is put off by readers alone and nobody is refused without
\* cause, at every access.
THEOREM SpinIsExact ==
  ASSUME Roomy, NotNested
  PROVE  SpinSpec => /\ []CountIsExact /\ []NoAssertionFails
                     /\ []RefusedForCause /\ UpgradeKeepsItsPlace
BY SpinRefinement, ExactCount, AssertionsHold, RefusalsHaveCauses,
   UpgradesKeepTheirPlace, PTL DEF ImplementsLock

\* The lock one access at a time is the abstract lock.
THEOREM SpinImplementsAbs ==
  ASSUME Roomy, NotNested PROVE SpinSpec => ImplementsAbs
BY SpinRefinement, Refinement, PTL DEF ImplementsLock

\* With patient clients a queue flag has a writer behind it, though the writer
\* may be between the test and the exchange of either of its loops.
THEOREM SpinQueueServed ==
  ASSUME Roomy, PatientClients PROVE SpinSpec => []QueuedHasWriter
BY SpinRefinement, QueueServed, PTL DEF ImplementsLock
=============================================================================
