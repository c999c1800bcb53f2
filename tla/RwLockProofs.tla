---------------------------- MODULE RwLockProofs ----------------------------
(***************************************************************************)
(* Proofs about RwLock, for every set of handles and whatever operations   *)
(* their clients use.                                                      *)
(*                                                                         *)
(* The theorems on exclusion need the reader count to have room for every  *)
(* guard (Roomy); RwCrowd shows what happens when it has not.              *)
(***************************************************************************)
EXTENDS RwLock, RwWordProofs, FiniteSetTheorems

\* A task that is given up had not been granted anything.
LEMMA GivenUp ==
  ASSUME NEW a \in Acq, GiveUp(a)
  PROVE  /\ pc[a] \in {"read", "upgradable_read", "upgrade"}
         /\ "cancel" \in Calls[a]
         /\ Goto(a, "idle")
         /\ UNCHANGED <<word, base, inner>>
BY DEF GiveUp, GiveUpRead, GiveUpUpgradableRead, GiveUpUpgrade, Leave

\* A step keeps every variable within its type.
LEMMA TypeStep == TypeOK /\ [Next]_vars => TypeOK'
<1> SUFFICES ASSUME TypeOK, [Next]_vars PROVE TypeOK'
  OBVIOUS
<1> USE UpdatesClosed DEF TypeOK, Guard, Pc, Goto, Replace, SpinUpdate, Holds
<1>1. CASE UNCHANGED vars
  BY <1>1 DEF vars
<1>2. ASSUME NEW a \in Acq, StartTask(a) \/ GiveUp(a) \/ StartUpgrade(a)
      PROVE  TypeOK'
  BY <1>2, GivenUp DEF StartTask, StartUpgrade
<1>3. ASSUME NEW a \in Acq, TryRead(a) \/ TryUpgradableRead(a)
      PROVE  TypeOK'
  BY <1>3 DEF TryRead, TryUpgradableRead
<1>4. ASSUME NEW a \in Acq, TryWrite(a) \/ EnqueueWriter(a) PROVE TypeOK'
  BY <1>4 DEF TryWrite, EnqueueWriter, WriteAgain
<1>5. ASSUME NEW a \in Acq,
             TryUpgrade(a) \/ ShedUpgradable(a) \/ UpgradePinned(a)
      PROVE  TypeOK'
  BY <1>5 DEF TryUpgrade, ShedUpgradable, UpgradePinned
<1>6. ASSUME NEW a \in Acq,
             DowngradeWriterToReader(a) \/ DowngradeWriterToUpgradable(a)
               \/ DowngradeUpgradableToReader(a)
      PROVE  TypeOK'
  BY <1>6 DEF DowngradeWriterToReader, DowngradeWriterToUpgradable,
              DowngradeUpgradableToReader, Downgrade
<1>7. ASSUME NEW a \in Acq, DropReader(a) \/ DropWriter(a) \/ DropUpgradable(a)
      PROVE  TypeOK'
  BY <1>7 DEF DropReader, DropWriter, DropUpgradable, Drop
<1> QED
  BY <1>1, <1>2, <1>3, <1>4, <1>5, <1>6, <1>7 DEF Next

\* Every state is well typed, at any width of the word and with no room
\* assumed: carries and borrows stay within the word.
THEOREM TypeCorrect == Spec => []TypeOK
<1>1. Init => TypeOK
  BY NotLockedFields DEF Init, TypeOK, Fields, Pc, Guard
<1> QED
  BY <1>1, TypeStep, PTL DEF Spec

----------------------------------------------------------------------------
(***************************************************************************)
(* Counting guards.                                                        *)
(***************************************************************************)

One(p) == IF p THEN 1 ELSE 0

\* Two sets that agree but for one element differ in size by that element.
LEMMA DifferAtOne ==
  ASSUME NEW S, IsFiniteSet(S), NEW T, NEW a, T \ {a} = S \ {a}
  PROVE  /\ IsFiniteSet(T)
         /\ Cardinality(S) \in Nat /\ Cardinality(T) \in Nat
         /\ Cardinality(T) + One(a \in S) = Cardinality(S) + One(a \in T)
<1> DEFINE U == S \ {a}
<1>1. IsFiniteSet(U) /\ Cardinality(U) \in Nat /\ Cardinality(S) \in Nat
  BY FS_RemoveElement, FS_CardinalityType
<1>2. Cardinality(S) = Cardinality(U) + One(a \in S)
  BY <1>1, FS_RemoveElement DEF One
<1>3. T = IF a \in T THEN U \cup {a} ELSE U
  OBVIOUS
<1>4. IsFiniteSet(T) /\ Cardinality(T) = Cardinality(U) + One(a \in T)
  <2>1. CASE a \in T
    <3>1. a \notin U /\ T = U \cup {a}
      BY <2>1
    <3> HIDE DEF U
    <3> QED
      BY <2>1, <3>1, <1>1, FS_AddElement DEF One
  <2>2. CASE a \notin T
    <3>1. T = U
      BY <2>2
    <3> HIDE DEF U
    <3> QED
      BY <2>2, <3>1, <1>1 DEF One
  <2> QED
    BY <2>1, <2>2
<1> QED
  BY <1>1, <1>2, <1>4, FS_CardinalityType DEF One

\* The four numbers the accounting is about.
c == Cardinality(Counted)
ic == Cardinality(InnerCounted)
k == Cardinality(Claims)
ik == Cardinality(InnerClaims)

\* A step of handle a changes each of the four numbers by what it does to a.
LEMMA CountsStep ==
  ASSUME IsFiniteSet(Acq), NEW a \in Acq,
         \A b \in Acq \ {a} :
           base'[b] = base[b] /\ inner'[b] = inner[b] /\ pc'[b] = pc[b]
  PROVE  /\ c \in Nat /\ ic \in Nat /\ k \in Nat /\ ik \in Nat
         /\ c' \in Nat /\ ic' \in Nat /\ k' \in Nat /\ ik' \in Nat
         /\ c' + One(a \in Counted) = c + One(a \in Counted')
         /\ ic' + One(a \in InnerCounted) = ic + One(a \in InnerCounted')
         /\ k' + One(a \in Claims) = k + One(a \in Claims')
         /\ ik' + One(a \in InnerClaims) = ik + One(a \in InnerClaims')
<1>1. /\ IsFiniteSet(Counted) /\ IsFiniteSet(InnerCounted)
      /\ IsFiniteSet(Claims) /\ IsFiniteSet(InnerClaims)
  BY FS_Subset DEF Counted, InnerCounted, Claims, InnerClaims
<1>2. /\ Counted' \ {a} = Counted \ {a}
      /\ InnerCounted' \ {a} = InnerCounted \ {a}
      /\ Claims' \ {a} = Claims \ {a}
      /\ InnerClaims' \ {a} = InnerClaims \ {a}
  BY DEF Counted, InnerCounted, Claims, InnerClaims
<1> QED
  BY <1>1, <1>2, DifferAtOne DEF c, ic, k, ik

----------------------------------------------------------------------------
(***************************************************************************)
(* The inductive invariant.                                                *)
(***************************************************************************)

\* Room in the reader count for every handle, the guard of one pinned upgrade
\* and one lost count.
Roomy == IsFiniteSet(Acq) /\ MaxReaderCount > Cardinality(Acq) + 2

\* The writer flag is up exactly while there is a writer guard.
WriterFlag ==
  word.w <=> \E a \in Acq : base[a] = "writer" \/ inner[a] = "writer"

\* What a handle is doing goes with the guards it has.
PcFits ==
  \A a \in Acq :
    /\ pc[a] \in {"read", "write", "queue", "upgradable_read"} => base[a] = "none"
    /\ pc[a] = "upgrade" =>
         base[a] = "upgradable" /\ inner[a] \in {"none", "upgradable"}
    /\ pc[a] = "shed" => base[a] = "writer"
    /\ inner[a] # "none" =>
         pc[a] \in {"idle", "upgrade"} /\ base[a] = "upgradable"

OneInner ==
  \A a, b \in Acq : inner[a] # "none" /\ inner[b] # "none" => a = b

\* A writer guard is the only base guard there is, or its base is; the count
\* and the upgrade flag are those of the guard it was upgraded from, if any.
WriterAlone ==
  \A a \in Acq :
    base[a] = "writer" \/ inner[a] = "writer" =>
      /\ \A b \in Acq \ {a} : base[b] = "none"
      /\ word.u <=> inner[a] = "writer" \/ pc[a] = "shed"
      /\ word.r = One(inner[a] = "writer" \/ pc[a] = "shed")

Shape == WriterFlag /\ PcFits /\ OneInner /\ WriterAlone

Inv == TypeOK /\ AtMostOneLeak /\ Shape

\* What the counts of a state tell of its guards.
LEMMA CountFacts ==
  ASSUME Roomy, Inv
  PROVE  /\ c \in Nat /\ ic \in Nat /\ k \in Nat /\ ik \in Nat
         /\ c <= Cardinality(Acq) /\ ic <= 1 /\ k <= c /\ ik <= ic
         /\ Cardinality(Acq) \in Nat /\ word.r \in Nat
         /\ \A a \in Counted : c >= 1 /\ (c = 1 => Counted = {a})
         /\ \A a \in InnerCounted : ic = 1 /\ c >= 1
         /\ \A a \in Claims : k >= 1
         /\ \A a \in InnerClaims : ik >= 1
         /\ c + ic <= word.r /\ word.r <= c + ic + 1
         /\ word.r < MaxReaderCount
<1>1. Cardinality(Acq) \in Nat
  BY FS_CardinalityType DEF Roomy
<1>2. /\ IsFiniteSet(Counted) /\ c \in Nat /\ c <= Cardinality(Acq)
      /\ IsFiniteSet(InnerCounted) /\ ic \in Nat
      /\ IsFiniteSet(Claims) /\ k \in Nat /\ k <= c
      /\ IsFiniteSet(InnerClaims) /\ ik \in Nat /\ ik <= ic
  <2>1. /\ Counted \subseteq Acq /\ InnerCounted \subseteq Acq
        /\ Claims \subseteq Counted /\ InnerClaims \subseteq InnerCounted
    BY DEF Counted, InnerCounted, Claims, InnerClaims
  <2>2. IsFiniteSet(Counted) /\ c \in Nat /\ c <= Cardinality(Acq)
    BY <2>1, FS_Subset, FS_CardinalityType DEF Roomy, c
  <2>3. IsFiniteSet(InnerCounted) /\ ic \in Nat
    BY <2>1, FS_Subset, FS_CardinalityType DEF Roomy, ic
  <2> QED
    BY <2>1, <2>2, <2>3, FS_Subset, FS_CardinalityType DEF c, ic, k, ik
<1>3. ASSUME NEW a \in Counted PROVE c >= 1 /\ (c = 1 => Counted = {a})
  BY <1>2, FS_EmptySet, FS_Singleton DEF c
<1>4. ASSUME NEW a \in Claims PROVE k >= 1
  BY <1>2, FS_EmptySet DEF k
<1>5. ASSUME NEW a \in InnerClaims PROVE ik >= 1
  BY <1>2, FS_EmptySet DEF ik
<1>6. ASSUME NEW a \in InnerCounted PROVE ic = 1 /\ c >= 1
  <2>1. InnerCounted = {a}
    BY DEF InnerCounted, Inv, Shape, OneInner
  <2>2. a \in Counted
    BY DEF InnerCounted, Counted, Inv, Shape, PcFits
  <2> QED
    BY <2>1, <2>2, <1>3, FS_Singleton DEF ic
<1>7. ic <= 1
  BY <1>6, <1>2, FS_EmptySet DEF ic
<1>8. word.r \in Nat
  BY DEF Inv, TypeOK, Word
<1>9. c + ic <= word.r /\ word.r <= c + ic + 1
  BY <1>2, <1>8 DEF Inv, AtMostOneLeak, Lost, Orphans, c, ic, k, ik
<1>10. word.r < MaxReaderCount
  BY <1>1, <1>2, <1>7, <1>8, <1>9, MaxReaderCountAssumption DEF Roomy
<1> QED
  BY <1>1, <1>2, <1>3, <1>4, <1>5, <1>6, <1>7, <1>8, <1>9, <1>10

----------------------------------------------------------------------------
(***************************************************************************)
(* How a step of one handle moves the accounts.                            *)
(***************************************************************************)

Same(a) ==
  \A b \in Acq \ {a} :
    base'[b] = base[b] /\ inner'[b] = inner[b] /\ pc'[b] = pc[b]

\* What the guards of handle a have in the reader count, and how many of them
\* claim the upgrade flag.
Own(a) ==
  One(base[a] \in {"reader", "upgradable"} \/ pc[a] = "shed")
    + One(inner[a] \in {"reader", "upgradable"})
Claim(a) ==
  One(base[a] = "upgradable" \/ pc[a] = "shed") + One(inner[a] = "upgradable")

\* The accounts change by the difference between what happens to the word and
\* what happens to the guards of the handle.
LEMMA Ledger ==
  ASSUME Roomy, Inv, TypeOK', NEW a \in Acq, Same(a)
  PROVE  /\ Lost \in Int /\ Orphans \in Int
         /\ Lost' = Lost + (word'.r - word.r) - (Own(a)' - Own(a))
         /\ Orphans' = Orphans + (Claim(a)' - Claim(a))
                       - (One(word'.u) - One(word.u))
<1> DEFINE oc == One(a \in Counted)      oi == One(a \in InnerCounted)
           ok == One(a \in Claims)       ol == One(a \in InnerClaims)
           ou == One(word.u)
<1>1. word.r \in Nat /\ word'.r \in Nat
  BY DEF Inv, TypeOK, Word
<1>2. /\ c \in Nat /\ ic \in Nat /\ k \in Nat /\ ik \in Nat
      /\ c' \in Nat /\ ic' \in Nat /\ k' \in Nat /\ ik' \in Nat
      /\ c' + oc = c + oc' /\ ic' + oi = ic + oi'
      /\ k' + ok = k + ok' /\ ik' + ol = ik + ol'
  BY CountsStep DEF Same, Roomy
<1>3. /\ Own(a) = oc + oi /\ Own(a)' = oc' + oi'
      /\ Claim(a) = ok + ol /\ Claim(a)' = ok' + ol'
  BY DEF Own, Claim, Counted, InnerCounted, Claims, InnerClaims
<1>4. /\ Lost = word.r - c - ic /\ Lost' = word'.r - c' - ic'
      /\ Orphans = k + ik - ou /\ Orphans' = k' + ik' - ou'
  BY DEF Lost, Orphans, c, ic, k, ik, One
<1>5. /\ oc \in Int /\ oc' \in Int /\ oi \in Int /\ oi' \in Int
      /\ ok \in Int /\ ok' \in Int /\ ol \in Int /\ ol' \in Int
      /\ ou \in Int /\ ou' \in Int
  BY DEF One
<1>6. ou = One(word.u) /\ ou' = One(word'.u)
  OBVIOUS
<1> HIDE DEF c, ic, k, ik, oc, oi, ok, ol, ou
<1>7. Lost' = Lost + (word'.r - word.r) - (Own(a)' - Own(a))
  BY <1>1, <1>2, <1>3, <1>4, <1>5
<1>8. Orphans' = Orphans + (Claim(a)' - Claim(a)) - (ou' - ou)
  <2>1. Claim(a)' - Claim(a) = (k' - k) + (ik' - ik)
    BY <1>2, <1>3, <1>5
  <2>2. Orphans' - Orphans = (k' - k) + (ik' - ik) - (ou' - ou)
    BY <1>2, <1>4, <1>5
  <2> QED
    BY <2>1, <2>2, <1>2, <1>4, <1>5
<1>9. Lost \in Int /\ Orphans \in Int
  BY <1>1, <1>2, <1>4, <1>5
<1> QED
  BY <1>6, <1>7, <1>8, <1>9

\* A step that leaves the accounts as they are.
Kept == Lost' = Lost /\ Orphans' = Orphans

\* Accounts that are kept stay as good as they were.
LEMMA KeptMeansNoLeak == AtMostOneLeak /\ Kept => AtMostOneLeak'
BY DEF AtMostOneLeak, Kept

\* A step keeps the accounts if the word changes as the guards do.
LEMMA Balanced ==
  ASSUME Roomy, Inv, TypeOK', NEW a \in Acq, Same(a),
         word'.r - word.r = Own(a)' - Own(a),
         One(word'.u) - One(word.u) = Claim(a)' - Claim(a)
  PROVE  Kept
<1>1. /\ Lost \in Int /\ Orphans \in Int
      /\ Lost' = Lost + (word'.r - word.r) - (Own(a)' - Own(a))
      /\ Orphans' = Orphans + (Claim(a)' - Claim(a))
                    - (One(word'.u) - One(word.u))
  BY Ledger
<1>2. /\ word'.r - word.r \in Int /\ Own(a)' - Own(a) \in Int
      /\ One(word'.u) - One(word.u) \in Int /\ Claim(a)' - Claim(a) \in Int
  BY DEF Inv, TypeOK, Word, Own, Claim, One
<1> QED
  BY <1>1, <1>2 DEF Kept

----------------------------------------------------------------------------
(***************************************************************************)
(* What the word tells a step of the guards.                               *)
(***************************************************************************)

\* A lock that looks free has no guards at all and no upgrade flag.
LEMMA FreeWord ==
  ASSUME Roomy, Inv, ExpectCanWrite(word)
  PROVE  /\ ~word.u
         /\ \A b \in Acq : base[b] = "none" /\ inner[b] = "none"
<1>1. c = 0 /\ ic = 0 /\ k = 0 /\ ik = 0
  BY CountFacts DEF ExpectCanWrite
<1>2. ~word.u
  BY <1>1 DEF Inv, AtMostOneLeak, Orphans, k, ik
<1>3. Counted = {}
  BY <1>1, CountFacts
<1> QED
  BY <1>2, <1>3 DEF Counted, ExpectCanWrite, Inv, Shape, WriterFlag, PcFits,
     TypeOK, Guard

\* While a reader or an upgradable guard is in use nobody writes.
LEMMA NoWriterWithReader ==
  ASSUME Inv, NEW a \in Acq, Top(a) \in {"reader", "upgradable"}
  PROVE  /\ ~word.w
         /\ \A b \in Acq : base[b] # "writer" /\ inner[b] # "writer"
         /\ base[a] \in {"reader", "upgradable"}
BY DEF Inv, Shape, WriterFlag, PcFits, WriterAlone, Top, TypeOK, Guard

\* An upgrade the word allows is that of the only guard there is.
LEMMA SoleUpgradable ==
  ASSUME Roomy, Inv, NEW a \in Acq, base[a] = "upgradable",
         ExpectCanUpgrade(word)
  PROVE  /\ inner[a] \notin {"reader", "upgradable"}
         /\ \A b \in Acq \ {a} :
              base[b] \in {"none", "writer"} /\ inner[b] = "none"
<1>1. a \in Counted
  BY DEF Counted
<1>2. c = 1 /\ ic = 0 /\ Counted = {a}
  BY <1>1, CountFacts DEF ExpectCanUpgrade
<1>3. a \notin InnerCounted
  BY <1>2, CountFacts
<1> QED
  BY <1>2, <1>3 DEF Counted, InnerCounted, Inv, Shape, PcFits, TypeOK, Guard

----------------------------------------------------------------------------
(***************************************************************************)
(* The steps, one action at a time.                                        *)
(***************************************************************************)

\* Taking up a task and giving it up touch neither the word nor a guard.
LEMMA TaskStep ==
  ASSUME Roomy, Inv, TypeOK', NEW a \in Acq,
         StartTask(a) \/ GiveUp(a) \/ StartUpgrade(a)
  PROVE  Kept /\ Shape'
<1> USE DEF Inv, TypeOK
<1>1. /\ word' = word /\ base' = base /\ inner' = inner
      /\ pc'[a] # "shed" /\ pc[a] # "shed" /\ Same(a)
  BY GivenUp DEF StartTask, StartUpgrade, Goto, Holds, Same
<1>2. Kept
  BY <1>1, Balanced DEF Own, Claim, One, Word
<1>3. PcFits'
  BY <1>1, GivenUp DEF Shape, PcFits, StartTask, StartUpgrade, Goto, Holds, Top,
     Guard
<1> QED
  BY <1>1, <1>2, <1>3 DEF Shape, WriterFlag, OneInner, WriterAlone, Same

\* A reader comes in.
LEMMA TryReadStep ==
  ASSUME Roomy, Inv, TypeOK', NEW a \in Acq, TryRead(a)
  PROVE  Kept /\ Shape'
<1> USE DEF Inv, TypeOK
<1>1. Fields(word', word.w, word.q, word.u, word.r + 1)
  BY IncReaderFields DEF TryRead, ExpectCanRead
<1>2. /\ pc[a] = "read" /\ base[a] = "none" /\ inner[a] = "none"
      /\ pc' = [pc EXCEPT ![a] = "idle"]
      /\ base' = [base EXCEPT ![a] = "reader"] /\ inner' = inner
      /\ ~word.w
  BY DEF TryRead, Shape, PcFits, Goto, Replace, ExpectCanRead
<1>3. Kept
  BY <1>1, <1>2, Balanced DEF Same, Own, Claim, One, Fields, Word
<1> QED
  BY <1>1, <1>2, <1>3
     DEF Shape, WriterFlag, PcFits, OneInner, WriterAlone, Fields

\* An upgradable reader comes in: nobody claims the upgrade flag.
LEMMA TryUpgradableReadStep ==
  ASSUME Roomy, Inv, TypeOK', NEW a \in Acq, TryUpgradableRead(a)
  PROVE  Kept /\ Shape'
<1>0. word.r < MaxReaderCount
  BY CountFacts
<1> USE DEF Inv, TypeOK
<1>1. Fields(word', word.w, word.q, TRUE, word.r + 1) /\ ~word.w /\ ~word.u
  BY <1>0, UpgradeActiveAndReaderIncFields
     DEF TryUpgradableRead, ExpectWriteNotQueuedAndUpgradeInactive
<1>2. /\ pc[a] = "upgradable_read" /\ base[a] = "none" /\ inner[a] = "none"
      /\ pc' = [pc EXCEPT ![a] = "idle"]
      /\ base' = [base EXCEPT ![a] = "upgradable"] /\ inner' = inner
  BY DEF TryUpgradableRead, Shape, PcFits, Goto, Replace
<1>3. Kept
  BY <1>1, <1>2, Balanced DEF Same, Own, Claim, One, Fields, Word
<1> QED
  BY <1>1, <1>2, <1>3
     DEF Shape, WriterFlag, PcFits, OneInner, WriterAlone, Fields

\* A writer takes a free lock, or goes to queue.
LEMMA TryWriteStep ==
  ASSUME Roomy, Inv, TypeOK', NEW a \in Acq, TryWrite(a)
  PROVE  Kept /\ Shape'
<1>1. CASE ExpectCanWrite(word)
  <2>1. ~word.u /\ \A b \in Acq : base[b] = "none" /\ inner[b] = "none"
    BY <1>1, FreeWord
  <2> USE DEF Inv, TypeOK
  <2>2. Fields(word', TRUE, word.q, FALSE, word.r) /\ word.r = 0
    BY <1>1, <2>1, WriterActiveFields
       DEF TryWrite, SpinUpdate, ExpectCanWrite, Fields
  <2>3. /\ pc[a] = "write"
        /\ pc' = [pc EXCEPT ![a] = "idle"]
        /\ base' = [base EXCEPT ![a] = "writer"] /\ inner' = inner
    BY <1>1, <2>1 DEF TryWrite, Goto, Replace
  <2>4. Kept
    BY <2>1, <2>2, <2>3, Balanced DEF Same, Own, Claim, One, Fields, Word
  <2> QED
    BY <2>1, <2>2, <2>3, <2>4
       DEF Shape, WriterFlag, PcFits, OneInner, WriterAlone, Fields, One
<1>2. CASE ~ExpectCanWrite(word)
  <2> USE DEF Inv, TypeOK
  <2>1. /\ pc[a] = "write" /\ pc' = [pc EXCEPT ![a] = "queue"]
        /\ word' = word /\ base' = base /\ inner' = inner
    BY <1>2 DEF TryWrite, SpinUpdate, Goto
  <2>2. Kept
    BY <2>1, Balanced DEF Same, Own, Claim, One, Word
  <2> QED
    BY <2>1, <2>2 DEF Shape, WriterFlag, PcFits, OneInner, WriterAlone
<1> QED
  BY <1>1, <1>2

\* A writer that queues raises a flag no guard depends on.
LEMMA EnqueueWriterStep ==
  ASSUME Roomy, Inv, TypeOK', NEW a \in Acq, EnqueueWriter(a)
  PROVE  Kept /\ Shape'
<1> USE DEF Inv, TypeOK
<1>1. (word'.w <=> word.w) /\ (word'.u <=> word.u) /\ word'.r = word.r
  BY WriterQueuedFields DEF EnqueueWriter, SpinUpdate, Fields
<1>2. /\ pc[a] = "queue" /\ base' = base /\ inner' = inner
      /\ \E p \in {"write", "idle"} : pc' = [pc EXCEPT ![a] = p]
  BY DEF EnqueueWriter, WriteAgain, Goto
<1>3. Kept
  BY <1>1, <1>2, Balanced DEF Same, Own, Claim, One, Word
<1> QED
  BY <1>1, <1>2, <1>3 DEF Shape, WriterFlag, PcFits, OneInner, WriterAlone

\* The only guard there is becomes a writer and keeps its count for a while.
LEMMA TryUpgradeStep ==
  ASSUME Roomy, Inv, TypeOK', NEW a \in Acq, TryUpgrade(a)
  PROVE  Kept /\ Shape'
<1>1. base[a] = "upgradable" /\ ~word.w
      /\ \A b \in Acq : base[b] # "writer" /\ inner[b] # "writer"
  BY NoWriterWithReader
     DEF TryUpgrade, Holds, Inv, TypeOK, Top, Shape, PcFits, Guard
<1>2. /\ inner[a] = "none"
      /\ \A b \in Acq \ {a} : base[b] = "none" /\ inner[b] = "none"
  BY <1>1, SoleUpgradable DEF TryUpgrade, Inv, TypeOK, Guard
<1> USE DEF Inv, TypeOK
<1>3. Fields(word', TRUE, word.q, TRUE, word.r) /\ word.u /\ word.r = 1
  BY WriterActiveFields DEF TryUpgrade, ExpectCanUpgrade, Fields
<1>4. /\ pc[a] = "idle" /\ pc' = [pc EXCEPT ![a] = "shed"]
      /\ base' = [base EXCEPT ![a] = "writer"] /\ inner' = inner
  BY <1>2 DEF TryUpgrade, Goto, Replace, Holds
<1>5. Kept
  BY <1>1, <1>2, <1>3, <1>4, Balanced DEF Same, Own, Claim, One, Fields, Word
<1> QED
  BY <1>1, <1>2, <1>3, <1>4, <1>5
     DEF Shape, WriterFlag, PcFits, OneInner, WriterAlone, Fields, One

\* The only guard there is lends a writer.
LEMMA UpgradePinnedStep ==
  ASSUME Roomy, Inv, TypeOK', NEW a \in Acq, UpgradePinned(a)
  PROVE  Kept /\ Shape'
<1>1. base[a] = "upgradable" /\ inner[a] = "none" /\ ~word.w
      /\ \A b \in Acq : base[b] # "writer" /\ inner[b] # "writer"
  <2>1. base[a] = "upgradable" /\ inner[a] \in {"none", "upgradable"}
    BY DEF UpgradePinned, Inv, Shape, PcFits
  <2>2. inner[a] = "none"
    BY <2>1, SoleUpgradable DEF UpgradePinned
  <2> QED
    BY <2>1, <2>2, NoWriterWithReader DEF Top
<1>2. \A b \in Acq \ {a} : base[b] = "none" /\ inner[b] = "none"
  BY <1>1, SoleUpgradable DEF UpgradePinned
<1> USE DEF Inv, TypeOK
<1>3. Fields(word', TRUE, word.q, TRUE, word.r) /\ word.u /\ word.r = 1
  BY WriterActiveFields DEF UpgradePinned, ExpectCanUpgrade, Fields
<1>4. /\ pc[a] = "upgrade" /\ pc' = [pc EXCEPT ![a] = "idle"]
      /\ inner' = [inner EXCEPT ![a] = "writer"] /\ base' = base
  BY DEF UpgradePinned, Goto
<1>5. Kept
  BY <1>1, <1>3, <1>4, Balanced DEF Same, Own, Claim, One, Fields, Word
<1> QED
  BY <1>1, <1>2, <1>3, <1>4, <1>5
     DEF Shape, WriterFlag, PcFits, OneInner, WriterAlone, Fields, One

\* The guard try_upgrade took goes: its count and its flag are still there.
LEMMA ShedUpgradableStep ==
  ASSUME Roomy, Inv, TypeOK', NEW a \in Acq, ShedUpgradable(a)
  PROVE  Kept /\ Shape'
<1> USE DEF Inv, TypeOK
<1>1. base[a] = "writer" /\ pc[a] = "shed" /\ word.u /\ word.r = 1
  BY DEF ShedUpgradable, Shape, PcFits, WriterAlone, One
<1>2. Fields(word', word.w, word.q, FALSE, 0)
  BY <1>1, UpgradeInactiveAndReaderDecFields
     DEF ShedUpgradable, SpinUpdate, Fields
<1>3. pc' = [pc EXCEPT ![a] = "idle"] /\ base' = base /\ inner' = inner
  BY DEF ShedUpgradable, Goto
<1>4. Kept
  BY <1>1, <1>2, <1>3, Balanced DEF Same, Own, Claim, One, Fields, Word
<1> QED
  BY <1>1, <1>2, <1>3, <1>4
     DEF Shape, WriterFlag, PcFits, OneInner, WriterAlone, Fields, One

\* A reader leaves: the count is there for it.
LEMMA DropReaderStep ==
  ASSUME Roomy, Inv, TypeOK', NEW a \in Acq, DropReader(a)
  PROVE  Kept /\ Shape'
<1>1. /\ ~word.w /\ \A b \in Acq : base[b] # "writer" /\ inner[b] # "writer"
      /\ base[a] \in {"reader", "upgradable"} /\ pc[a] = "idle"
  BY NoWriterWithReader DEF DropReader, Drop, Holds
<1>2. word.r > 0
  <2>1. a \in Counted
    BY <1>1 DEF Counted
  <2> QED
    BY <2>1, CountFacts
<1> USE DEF Inv, TypeOK
<1>3. Fields(word', word.w, word.q, word.u, word.r - 1)
  BY <1>2, DecReaderFields DEF DropReader, Drop, SpinUpdate
<1>4. /\ pc' = pc
      /\ \/ /\ inner[a] = "none" /\ base[a] = "reader"
            /\ base' = [base EXCEPT ![a] = "none"] /\ inner' = inner
         \/ /\ inner[a] = "reader" /\ base[a] = "upgradable"
            /\ inner' = [inner EXCEPT ![a] = "none"] /\ base' = base
  BY DEF DropReader, Drop, Holds, Replace, Top, Shape, PcFits
<1>5. Kept
  BY <1>1, <1>3, <1>4, Balanced DEF Same, Own, Claim, One, Fields, Word
<1> QED
  BY <1>1, <1>3, <1>4, <1>5
     DEF Shape, WriterFlag, PcFits, OneInner, WriterAlone, Fields

\* A writer leaves, and with it the queue flag.
LEMMA DropWriterStep ==
  ASSUME Roomy, Inv, TypeOK', NEW a \in Acq, DropWriter(a)
  PROVE  Kept /\ Shape'
<1> USE DEF Inv, TypeOK
<1>1. /\ word.w /\ pc[a] = "idle"
      /\ \A b \in Acq \ {a} : base[b] = "none" /\ inner[b] = "none"
  BY DEF DropWriter, Drop, Holds, Top, Shape, WriterFlag, WriterAlone, PcFits
<1>2. Fields(word', FALSE, FALSE, word.u, word.r)
  BY <1>1, WriterNotQueuedInactiveFields DEF DropWriter, Drop, SpinUpdate
<1>3. /\ pc' = pc
      /\ \/ /\ inner[a] = "none" /\ base[a] = "writer"
            /\ base' = [base EXCEPT ![a] = "none"] /\ inner' = inner
         \/ /\ inner[a] = "writer" /\ base[a] = "upgradable"
            /\ inner' = [inner EXCEPT ![a] = "none"] /\ base' = base
  BY DEF DropWriter, Drop, Holds, Replace, Top, Shape, PcFits
<1>4. Kept
  BY <1>1, <1>2, <1>3, Balanced DEF Same, Own, Claim, One, Fields, Word
<1> QED
  BY <1>1, <1>2, <1>3, <1>4
     DEF Shape, WriterFlag, PcFits, OneInner, WriterAlone, Fields

\* A guard that finds its upgrade flag gone takes its count away with it: the
\* guard that was one too many becomes the count that is one too many.
LEMMA FlagGone ==
  ASSUME Roomy, Inv, TypeOK', NEW a \in Acq, Same(a), word' = word, ~word.u,
         Top(a) = "upgradable", Own(a)' = Own(a) - 1, Claim(a)' = Claim(a) - 1
  PROVE  AtMostOneLeak'
<1>1. a \in Claims
  BY DEF Top, Claims, Inv, Shape, PcFits
<1>2. k >= 1 /\ k \in Nat /\ ik \in Nat
  BY <1>1, CountFacts
<1>3. Orphans >= 1
  BY <1>2 DEF Orphans, k, ik
<1>4. /\ Lost \in Int /\ Orphans \in Int
      /\ Lost' = Lost + (word'.r - word.r) - (Own(a)' - Own(a))
      /\ Orphans' = Orphans + (Claim(a)' - Claim(a))
                    - (One(word'.u) - One(word.u))
  BY Ledger
<1>5. Lost' = Lost + 1 /\ Orphans' = Orphans - 1
  <2>1. word.r \in Int /\ Own(a) \in Int /\ Claim(a) \in Int
        /\ One(word.u) \in Int /\ One(word'.u) = One(word.u)
    BY DEF Inv, TypeOK, Word, Own, Claim, One
  <2>2. Own(a)' - Own(a) = -1 /\ Claim(a)' - Claim(a) = -1
    BY <2>1
  <2> QED
    BY <1>4, <2>1, <2>2
<1>6. AtMostOneLeak
  BY DEF Inv
<1> QED
  BY <1>3, <1>4, <1>5, <1>6 DEF AtMostOneLeak

\* An upgradable guard leaves with its count and its flag, or finds the flag
\* gone.
LEMMA DropUpgradableStep ==
  ASSUME Roomy, Inv, TypeOK', NEW a \in Acq, DropUpgradable(a)
  PROVE  AtMostOneLeak' /\ (word.u => Kept) /\ Shape'
<1>1. /\ ~word.w /\ \A b \in Acq : base[b] # "writer" /\ inner[b] # "writer"
      /\ base[a] = "upgradable" /\ pc[a] = "idle" /\ Top(a) = "upgradable"
  BY NoWriterWithReader
     DEF DropUpgradable, Drop, Holds, Top, Inv, Shape, PcFits, TypeOK
<1>2. word.r > 0
  <2>1. a \in Counted
    BY <1>1 DEF Counted
  <2> QED
    BY <2>1, CountFacts
<1>3. /\ pc' = pc
      /\ \/ /\ inner[a] = "none" /\ base' = [base EXCEPT ![a] = "none"]
            /\ inner' = inner
         \/ /\ inner[a] = "upgradable" /\ inner' = [inner EXCEPT ![a] = "none"]
            /\ base' = base
  BY DEF DropUpgradable, Drop, Holds, Replace, Top
<1> USE DEF Inv, TypeOK
<1>4. (word'.w <=> word.w) /\ AtMostOneLeak' /\ (word.u => Kept)
  <2>1. CASE word.u
    <3>1. Fields(word', word.w, word.q, FALSE, word.r - 1)
      BY <1>2, <2>1, UpgradeInactiveAndReaderDecFields
         DEF DropUpgradable, Drop, SpinUpdate
    <3>2. Kept
      BY <1>1, <1>3, <2>1, <3>1, Balanced
         DEF Same, Own, Claim, One, Fields, Word
    <3> QED
      BY <3>1, <3>2, KeptMeansNoLeak DEF Fields
  <2>2. CASE ~word.u
    <3>1. word' = word
      BY <2>2 DEF DropUpgradable, Drop, SpinUpdate
    <3>2. Same(a) /\ Own(a)' = Own(a) - 1 /\ Claim(a)' = Claim(a) - 1
      BY <1>1, <1>3 DEF Same, Own, Claim, One
    <3> QED
      BY <1>1, <2>2, <3>1, <3>2, FlagGone
  <2> QED
    BY <2>1, <2>2
<1> QED
  BY <1>1, <1>3, <1>4 DEF Shape, WriterFlag, PcFits, OneInner, WriterAlone

\* An upgradable guard becomes a reader and leaves its flag, or finds it gone.
LEMMA DowngradeUpgradableToReaderStep ==
  ASSUME Roomy, Inv, TypeOK', NEW a \in Acq, DowngradeUpgradableToReader(a)
  PROVE  AtMostOneLeak' /\ (word.u => Kept) /\ Shape'
<1>1. /\ ~word.w /\ \A b \in Acq : base[b] # "writer" /\ inner[b] # "writer"
      /\ base[a] = "upgradable" /\ pc[a] = "idle" /\ Top(a) = "upgradable"
  BY NoWriterWithReader
     DEF DowngradeUpgradableToReader, Downgrade, Holds, Top, Inv, Shape, PcFits,
         TypeOK
<1>2. word.r > 0
  <2>1. a \in Counted
    BY <1>1 DEF Counted
  <2> QED
    BY <2>1, CountFacts
<1> DEFINE g == IF word.u THEN "reader" ELSE "none"
<1>3. /\ pc' = pc
      /\ \/ /\ inner[a] = "none" /\ base' = [base EXCEPT ![a] = g]
            /\ inner' = inner
         \/ /\ inner[a] = "upgradable" /\ inner' = [inner EXCEPT ![a] = g]
            /\ base' = base
  BY <1>1, <1>2 DEF DowngradeUpgradableToReader, Downgrade, Holds, Replace, Top,
     ExpectCanDowngradeToRead
<1> USE DEF Inv, TypeOK
<1>4. (word'.w <=> word.w) /\ AtMostOneLeak' /\ (word.u => Kept)
  <2>1. CASE word.u
    <3>1. Fields(word', word.w, word.q, FALSE, word.r)
      BY <1>1, <1>2, <2>1, UpgradeInactiveFields
         DEF DowngradeUpgradableToReader, Downgrade, SpinUpdate,
             ExpectCanDowngradeToRead
    <3>2. Kept
      BY <1>1, <1>3, <2>1, <3>1, Balanced
         DEF Same, Own, Claim, One, Fields, Word
    <3> QED
      BY <3>1, <3>2, KeptMeansNoLeak DEF Fields
  <2>2. CASE ~word.u
    <3>1. word' = word
      BY <2>2 DEF DowngradeUpgradableToReader, Downgrade, SpinUpdate,
                  ExpectCanDowngradeToRead
    <3>2. Same(a) /\ Own(a)' = Own(a) - 1 /\ Claim(a)' = Claim(a) - 1
      BY <1>1, <1>3, <2>2 DEF Same, Own, Claim, One
    <3> QED
      BY <1>1, <2>2, <3>1, <3>2, FlagGone
  <2> QED
    BY <2>1, <2>2
<1> QED
  BY <1>1, <1>3, <1>4 DEF Shape, WriterFlag, PcFits, OneInner, WriterAlone

\* A writer becomes a reader, counted for the first time.
LEMMA DowngradeWriterToReaderStep ==
  ASSUME Roomy, Inv, TypeOK', NEW a \in Acq, DowngradeWriterToReader(a)
  PROVE  Kept /\ Shape'
<1>0. word.r < MaxReaderCount
  BY CountFacts
<1> USE DEF Inv, TypeOK
<1>1. /\ word.w /\ pc[a] = "idle"
      /\ \A b \in Acq \ {a} : base[b] = "none" /\ inner[b] = "none"
  BY DEF DowngradeWriterToReader, Downgrade, Holds, Top, Shape, WriterFlag,
         WriterAlone, PcFits
<1>2. Fields(word', FALSE, word.q, word.u, word.r + 1)
  BY <1>0, <1>1, WriteToReadFields
     DEF DowngradeWriterToReader, Downgrade, SpinUpdate
<1>3. /\ pc' = pc
      /\ \/ /\ inner[a] = "none" /\ base[a] = "writer"
            /\ base' = [base EXCEPT ![a] = "reader"] /\ inner' = inner
         \/ /\ inner[a] = "writer" /\ base[a] = "upgradable"
            /\ inner' = [inner EXCEPT ![a] = "reader"] /\ base' = base
  BY <1>1 DEF DowngradeWriterToReader, Downgrade, Holds, Replace, Top, Shape,
     PcFits
<1>4. Kept
  BY <1>1, <1>2, <1>3, Balanced DEF Same, Own, Claim, One, Fields, Word
<1> QED
  BY <1>1, <1>2, <1>3, <1>4
     DEF Shape, WriterFlag, PcFits, OneInner, WriterAlone, Fields

\* A writer becomes upgradable.  If it was lent by an upgradable guard there
\* are now two that claim the flag; nothing had gone astray before, for the
\* count was the one of the lending guard.
LEMMA DowngradeWriterToUpgradableStep ==
  ASSUME Roomy, Inv, TypeOK', NEW a \in Acq, DowngradeWriterToUpgradable(a)
  PROVE  AtMostOneLeak' /\ (inner[a] = "none" => Kept) /\ Shape'
<1>0. word.r < MaxReaderCount
  BY CountFacts
<1>1. /\ word.w /\ pc[a] = "idle"
      /\ \A b \in Acq \ {a} : base[b] = "none" /\ inner[b] = "none"
      /\ inner[a] = "writer" => base[a] = "upgradable" /\ word.u /\ word.r = 1
      /\ inner[a] = "none" => ~word.u
  BY DEF DowngradeWriterToUpgradable, Downgrade, Holds, Top, Shape, WriterFlag,
         WriterAlone, PcFits, Inv, TypeOK, One
<1>2. Fields(word', FALSE, word.q, TRUE, word.r + 1)
  BY <1>0, <1>1, WriteToUpgradableFields
     DEF DowngradeWriterToUpgradable, Downgrade, SpinUpdate, Inv, TypeOK
<1>3. /\ pc' = pc
      /\ \/ /\ inner[a] = "none" /\ base[a] = "writer"
            /\ base' = [base EXCEPT ![a] = "upgradable"] /\ inner' = inner
         \/ /\ inner[a] = "writer" /\ base[a] = "upgradable"
            /\ inner' = [inner EXCEPT ![a] = "upgradable"] /\ base' = base
  BY <1>1 DEF DowngradeWriterToUpgradable, Downgrade, Holds, Replace, Top,
     Shape, PcFits, Inv
<1>4. AtMostOneLeak' /\ (inner[a] = "none" => Kept)
  <2>1. CASE inner[a] = "none"
    <3>1. Kept
      BY <1>1, <1>2, <1>3, <2>1, Balanced
         DEF Same, Own, Claim, One, Fields, Word, Inv, TypeOK
    <3> QED
      BY <3>1, KeptMeansNoLeak DEF Inv
  <2>2. CASE inner[a] = "writer"
    <3>1. a \in Counted
      BY <1>1, <2>2 DEF Counted
    <3>2. c = 1 /\ ic = 0 /\ k <= 1 /\ ik = 0 /\ word.r = 1 /\ k \in Nat
      BY <1>1, <2>2, <3>1, CountFacts
    <3>3. Lost = 0 /\ Orphans <= 0
      BY <1>1, <2>2, <3>2 DEF Lost, Orphans, c, ic, k, ik
    <3>4. Orphans = 0
      BY <3>3, <3>2 DEF Inv, AtMostOneLeak, Orphans, k, ik
    <3>5. Same(a) /\ Own(a) = 1 /\ Own(a)' = 2 /\ Claim(a) = 1 /\ Claim(a)' = 2
      BY <1>1, <1>3, <2>2 DEF Same, Own, Claim, One, Inv, TypeOK
    <3>6. word'.r = 2 /\ One(word'.u) = 1 /\ One(word.u) = 1
      BY <1>1, <1>2, <2>2 DEF Fields, One
    <3>7. /\ Lost' = Lost + (word'.r - word.r) - (Own(a)' - Own(a))
          /\ Orphans' = Orphans + (Claim(a)' - Claim(a))
                        - (One(word'.u) - One(word.u))
      BY <3>5, Ledger
    <3>8. Lost' = 0 /\ Orphans' = 1
      BY <3>2, <3>3, <3>4, <3>5, <3>6, <3>7
    <3> QED
      BY <2>2, <3>8 DEF AtMostOneLeak
  <2> QED
    BY <1>3, <2>1, <2>2
<1> QED
  BY <1>1, <1>2, <1>3, <1>4
     DEF Shape, WriterFlag, PcFits, OneInner, WriterAlone, Fields, Inv, TypeOK

----------------------------------------------------------------------------
(***************************************************************************)
(* The theorems on exclusion and on the counts.                            *)
(***************************************************************************)

\* A new lock has no guards and nothing in its word.
LEMMA InitInv == Roomy /\ Init => Inv
<1> SUFFICES ASSUME Roomy, Init PROVE Inv
  OBVIOUS
<1>1. ~word.w /\ ~word.u /\ word.r = 0
  BY NotLockedFields DEF Init, Fields
<1>2. TypeOK
  BY NotLockedFields DEF Init, TypeOK, Fields, Pc, Guard
<1>3. Counted = {} /\ InnerCounted = {} /\ Claims = {} /\ InnerClaims = {}
  BY DEF Init, Counted, InnerCounted, Claims, InnerClaims
<1>4. AtMostOneLeak
  BY <1>1, <1>3, FS_EmptySet DEF AtMostOneLeak, Lost, Orphans
<1>5. Shape
  BY <1>1 DEF Init, Shape, WriterFlag, PcFits, OneInner, WriterAlone
<1> QED
  BY <1>2, <1>4, <1>5 DEF Inv

\* The invariant is inductive.
LEMMA InvStep == Roomy /\ Inv /\ [Next]_vars => Inv'
<1> SUFFICES ASSUME Roomy, Inv, [Next]_vars PROVE Inv'
  OBVIOUS
<1>1. TypeOK'
  BY TypeStep DEF Inv
<1>2. CASE UNCHANGED vars
  <2>1. word' = word /\ pc' = pc /\ base' = base /\ inner' = inner
    BY <1>2 DEF vars
  <2>2. AtMostOneLeak' /\ Shape'
    BY <2>1 DEF Inv, AtMostOneLeak, Lost, Orphans, Counted, InnerCounted, Claims,
       InnerClaims, Shape, WriterFlag, PcFits, OneInner, WriterAlone
  <2> QED
    BY <1>1, <2>2 DEF Inv
<1>3. ASSUME NEW a \in Acq,
             StartTask(a) \/ GiveUp(a) \/ StartUpgrade(a) \/ TryRead(a)
               \/ TryUpgradableRead(a) \/ TryWrite(a) \/ EnqueueWriter(a)
               \/ TryUpgrade(a) \/ ShedUpgradable(a) \/ UpgradePinned(a)
      PROVE  AtMostOneLeak' /\ Shape'
  BY <1>1, <1>3, KeptMeansNoLeak, TaskStep, TryReadStep, TryUpgradableReadStep, TryWriteStep,
     EnqueueWriterStep, TryUpgradeStep, ShedUpgradableStep, UpgradePinnedStep
     DEF Inv
<1>4. ASSUME NEW a \in Acq,
             DowngradeWriterToReader(a) \/ DowngradeWriterToUpgradable(a)
               \/ DowngradeUpgradableToReader(a) \/ DropReader(a)
               \/ DropWriter(a) \/ DropUpgradable(a)
      PROVE  AtMostOneLeak' /\ Shape'
  BY <1>1, <1>4, KeptMeansNoLeak, DowngradeWriterToReaderStep,
     DowngradeWriterToUpgradableStep, DowngradeUpgradableToReaderStep,
     DropReaderStep, DropWriterStep, DropUpgradableStep DEF Inv
<1> QED
  BY <1>1, <1>2, <1>3, <1>4 DEF Next, Inv

\* However many handles share the lock, and whatever their clients call in
\* whatever order, a client that can write is alone.
THEOREM Exclusion == ASSUME Roomy PROVE Spec => []MutualExclusion
<1>1. Inv => MutualExclusion
  BY DEF Inv, Shape, WriterAlone, PcFits, MutualExclusion, Top
<1>2. Init => Inv
  BY InitInv
<1>3. Inv /\ [Next]_vars => Inv'
  BY InvStep
<1> QED
  BY <1>1, <1>2, <1>3, PTL DEF Spec

\* Over the whole life of the lock no more than one count or flag is lost.
THEOREM OneLeak == ASSUME Roomy PROVE Spec => []AtMostOneLeak
<1>1. Inv => AtMostOneLeak
  BY DEF Inv
<1>2. Init => Inv
  BY InitInv
<1>3. Inv /\ [Next]_vars => Inv'
  BY InvStep
<1> QED
  BY <1>1, <1>2, <1>3, PTL DEF Spec

----------------------------------------------------------------------------
(***************************************************************************)
(* The queue flag.                                                         *)
(***************************************************************************)

\* Clients that wait for what they ask and keep a writer until they drop it.
PatientClients ==
  \A a \in Acq : Calls[a] \cap {"cancel", "downgrade_to_reader",
    "downgrade_to_upgradable", "nested_downgrade"} = {}

Writing(a) == pc[a] \in {"write", "queue"} \/ Top(a) = "writer"

\* A step that does not raise the queue flag keeps it served if it takes no
\* handle away from writing.
LEMMA StillServed ==
  ASSUME QueuedHasWriter, NEW a \in Acq, Same(a), word'.q => word.q,
         Writing(a) => Writing(a)'
  PROVE  QueuedHasWriter'
BY DEF QueuedHasWriter, Writing, Same, Top

\* With patient clients the flag is down again before its last writer is gone.
LEMMA QueueStep ==
  PatientClients /\ Roomy /\ Inv /\ QueuedHasWriter /\ [Next]_vars
    => QueuedHasWriter'
<1> SUFFICES ASSUME PatientClients, Roomy, Inv, QueuedHasWriter, [Next]_vars
             PROVE  QueuedHasWriter'
  OBVIOUS
<1>0. word \in Word /\ word.r < MaxReaderCount
  BY CountFacts DEF Inv, TypeOK
<1> USE DEF Same, Writing, Top, Goto, Replace, Holds
<1>1. CASE UNCHANGED vars
  BY <1>1 DEF vars, QueuedHasWriter
<1>2. ASSUME NEW a \in Acq, StartTask(a) \/ GiveUp(a) \/ StartUpgrade(a)
      PROVE  QueuedHasWriter'
  BY <1>2, GivenUp, StillServed
     DEF StartTask, StartUpgrade, PatientClients, Inv, TypeOK
<1>3. ASSUME NEW a \in Acq, TryRead(a) PROVE QueuedHasWriter'
  <2>1. ~word'.q
    BY <1>0, <1>3, IncReaderFields DEF TryRead, ExpectCanRead, Fields
  <2> QED
    BY <2>1 DEF QueuedHasWriter
<1>4. ASSUME NEW a \in Acq, TryUpgradableRead(a) PROVE QueuedHasWriter'
  <2>1. ~word'.q
    BY <1>0, <1>4, UpgradeActiveAndReaderIncFields
       DEF TryUpgradableRead, ExpectWriteNotQueuedAndUpgradeInactive, Fields
  <2> QED
    BY <2>1 DEF QueuedHasWriter
<1>5. ASSUME NEW a \in Acq, TryWrite(a) PROVE QueuedHasWriter'
  <2>1. word'.q => word.q
    BY <1>0, <1>5, WriterActiveFields DEF TryWrite, SpinUpdate, Fields
  <2>2. Same(a) /\ Writing(a)'
    BY <1>5 DEF TryWrite, Inv, TypeOK
  <2> QED
    BY <2>1, <2>2, StillServed
<1>6. ASSUME NEW a \in Acq, EnqueueWriter(a) PROVE QueuedHasWriter'
  <2>1. pc'[a] = "write"
    BY <1>6 DEF EnqueueWriter, WriteAgain, PatientClients, Inv, TypeOK
  <2> QED
    BY <2>1 DEF QueuedHasWriter
<1>7. ASSUME NEW a \in Acq, TryUpgrade(a) \/ UpgradePinned(a)
      PROVE  QueuedHasWriter'
  <2>1. Top(a)' = "writer"
    BY <1>7 DEF TryUpgrade, UpgradePinned, Inv, TypeOK
  <2> QED
    BY <2>1 DEF QueuedHasWriter
<1>8. ASSUME NEW a \in Acq, ShedUpgradable(a) PROVE QueuedHasWriter'
  <2>1. Top(a)' = "writer"
    BY <1>8 DEF ShedUpgradable, Inv, Shape, PcFits
  <2> QED
    BY <2>1 DEF QueuedHasWriter
<1>9. ASSUME NEW a \in Acq, DowngradeUpgradableToReader(a) \/ DropReader(a)
               \/ DropUpgradable(a)
      PROVE  QueuedHasWriter'
  <2>1. ~Writing(a) /\ Same(a)
    BY <1>9 DEF DowngradeUpgradableToReader, Downgrade, DropReader,
       DropUpgradable, Drop, Inv, TypeOK
  <2>2. word.r > 0
    <3>1. a \in Counted
      BY <1>9, NoWriterWithReader DEF DowngradeUpgradableToReader, Downgrade,
         DropReader, DropUpgradable, Drop, Counted
    <3> QED
      BY <3>1, CountFacts
  <2>3. word'.q => word.q
    BY <1>0, <1>9, <2>2, UpgradeInactiveFields, DecReaderFields,
       UpgradeInactiveAndReaderDecFields
       DEF DowngradeUpgradableToReader, Downgrade, DropReader, DropUpgradable,
           Drop, SpinUpdate, Fields
  <2> QED
    BY <2>1, <2>3, StillServed
<1>10. ASSUME NEW a \in Acq, DropWriter(a) PROVE QueuedHasWriter'
  <2>1. word.w
    BY <1>10 DEF DropWriter, Drop, Inv, Shape, WriterFlag
  <2>2. ~word'.q
    BY <1>0, <1>10, <2>1, WriterNotQueuedInactiveFields
       DEF DropWriter, Drop, SpinUpdate, Fields
  <2> QED
    BY <2>2 DEF QueuedHasWriter
<1>11. ASSUME NEW a \in Acq,
              DowngradeWriterToReader(a) \/ DowngradeWriterToUpgradable(a)
       PROVE  FALSE
  BY <1>11 DEF DowngradeWriterToReader, DowngradeWriterToUpgradable, Downgrade,
     PatientClients
<1> QED
  BY <1>1, <1>2, <1>3, <1>4, <1>5, <1>6, <1>7, <1>8, <1>9, <1>10, <1>11
     DEF Next

\* With patient clients readers are kept out by the queue flag only for the
\* sake of a writer that is there.
THEOREM QueueServed ==
  ASSUME Roomy, PatientClients PROVE Spec => []QueuedHasWriter
<1>1. Init => Inv /\ QueuedHasWriter
  BY InitInv DEF Init, QueuedHasWriter, NotLocked
<1>2. Inv /\ QueuedHasWriter /\ [Next]_vars => (Inv /\ QueuedHasWriter)'
  BY InvStep, QueueStep
<1> QED
  BY <1>1, <1>2, PTL DEF Spec

----------------------------------------------------------------------------
(***************************************************************************)
(* What a queued writer waits for.                                         *)
(***************************************************************************)

\* While nobody writes, only a reader coming in raises the count, which takes
\* that no writer is queued, and nothing lowers the queue flag.
LEMMA FallingCount ==
  ASSUME Roomy, Inv, Next, ~word.w
  PROVE  \/ word'.r <= word.r /\ (word.q => word'.q)
         \/ ~word.q /\ \E a \in Acq : TryRead(a) \/ TryUpgradableRead(a)
<1>0. word \in Word /\ word.r \in Nat
  BY CountFacts DEF Inv, TypeOK
<1> DEFINE Falls == word'.r <= word.r /\ (word.q => word'.q)
<1>1. ASSUME NEW a \in Acq,
             \/ StartTask(a) \/ GiveUp(a) \/ StartUpgrade(a) \/ DropWriter(a)
             \/ DowngradeWriterToReader(a) \/ DowngradeWriterToUpgradable(a)
      PROVE  Falls
  <2>1. word' = word
    BY <1>1, GivenUp DEF StartTask, StartUpgrade, DropWriter, Drop,
       DowngradeWriterToReader, DowngradeWriterToUpgradable, Downgrade,
       SpinUpdate
  <2> QED
    BY <1>0, <2>1
<1>2. ASSUME NEW a \in Acq, TryRead(a) \/ TryUpgradableRead(a) PROVE ~word.q
  BY <1>2 DEF TryRead, TryUpgradableRead, ExpectCanRead,
     ExpectWriteNotQueuedAndUpgradeInactive
<1>3. ASSUME NEW a \in Acq,
             \/ TryWrite(a) \/ EnqueueWriter(a) \/ TryUpgrade(a)
             \/ UpgradePinned(a)
      PROVE  Falls
  BY <1>0, <1>3, WriterActiveFields, WriterQueuedFields
     DEF TryWrite, EnqueueWriter, TryUpgrade, UpgradePinned, SpinUpdate, Fields
<1>4. ASSUME NEW a \in Acq, ShedUpgradable(a) PROVE FALSE
  BY <1>4 DEF ShedUpgradable, Inv, Shape, WriterFlag, PcFits
<1>5. ASSUME NEW a \in Acq, DowngradeUpgradableToReader(a) PROVE Falls
  BY <1>0, <1>5, UpgradeInactiveFields
     DEF DowngradeUpgradableToReader, Downgrade, SpinUpdate, Fields
<1>6. ASSUME NEW a \in Acq, DropReader(a) PROVE Falls
  BY <1>0, <1>6, DecReaderFields DEF DropReader, Drop, SpinUpdate, Fields
<1>7. ASSUME NEW a \in Acq, DropUpgradable(a) PROVE Falls
  <2>1. a \in Counted
    BY <1>7 DEF DropUpgradable, Drop, Holds, Top, Counted, Inv, Shape, PcFits
  <2>2. word.r > 0
    BY <2>1, CountFacts
  <2> QED
    BY <1>0, <1>7, <2>2, UpgradeInactiveAndReaderDecFields
       DEF DropUpgradable, Drop, SpinUpdate, Fields
<1> QED
  BY <1>1, <1>2, <1>3, <1>4, <1>5, <1>6, <1>7 DEF Next

\* A queue flag that is up while nobody writes stays up and lets the count only
\* fall, whatever the clients call.
THEOREM QueueOnlyDrains == ASSUME Roomy PROVE Spec => QueueDrains
<1>1. Inv /\ [Next]_vars =>
        [word.q /\ ~word.w => word'.q /\ word'.r <= word.r]_vars
  BY FallingCount
<1>2. Init => Inv
  BY InitInv
<1>3. Inv /\ [Next]_vars => Inv'
  BY InvStep
<1> QED
  BY <1>1, <1>2, <1>3, PTL DEF Spec, QueueDrains
=============================================================================
