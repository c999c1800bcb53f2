--------------------------- MODULE AcqLinkProofs ---------------------------
(***************************************************************************)
(* Proofs about AcqLink, for every set of threads and nodes.               *)
(*                                                                         *)
(* A link is at one of two places: in the node, or in the guard of the one *)
(* thread that has locked the node.  Every step leaves all links where     *)
(* they are, moves one from a node to a guard or back, or is an insertion. *)
(***************************************************************************)
EXTENDS AcqLink, TLAPS

\* A call that runs has two different nodes to work on.
HasJob == \A t \in Thr : pc[t] # "idle" => job[t] \in Job

\* Types, with the arguments of the calls that run.
THEOREM TypeCorrect == Spec => [](TypeOK /\ HasJob)
<1> USE DEF TypeOK, HasJob, Pc, Link, Roles, None
<1>1. Init => TypeOK /\ HasJob
  BY DEF Init
<1>2. TypeOK /\ HasJob /\ [Next]_vars => TypeOK' /\ HasJob'
  <2> SUFFICES ASSUME TypeOK, HasJob, [Next]_vars PROVE TypeOK' /\ HasJob'
    OBVIOUS
  <2> USE DEF Goto, Expect, Return
  <2>1. CASE UNCHANGED vars
    BY <2>1 DEF vars
  <2>2. ASSUME NEW t \in Thr, Start(t) PROVE TypeOK' /\ HasJob'
    BY <2>2 DEF Start, Job
  <2>3. ASSUME NEW t \in Thr, AcquireCandidate(t) \/ AcquireNode(t)
        PROVE  TypeOK' /\ HasJob'
    <3>1. job[t] \in Job
      BY <2>3 DEF AcquireCandidate, AcquireNode
    <3>2. PICK r \in Roles : LockNode(t, r)
      BY <2>3 DEF AcquireCandidate, AcquireNode
    <3>3. job[t][r] \in Node
      BY <3>1 DEF Job
    <3>4. prev' \in [Node -> Link \cup {Guarded}]
      BY <3>2, <3>3 DEF LockNode
    <3>5. saved' \in [Thr -> [Roles -> Link]]
      BY <3>2 DEF LockNode
    <3> QED
      BY <2>3, <3>2, <3>4, <3>5 DEF AcquireCandidate, AcquireNode, LockNode
  <2>4. ASSUME NEW t \in Thr, Retry(t) PROVE TypeOK' /\ HasJob'
    BY <2>4 DEF Retry, Job
  <2>5. ASSUME NEW t \in Thr, CancelCandidate(t) PROVE TypeOK' /\ HasJob'
    BY <2>5 DEF CancelCandidate, Job
  <2>9. ASSUME NEW t \in Thr, CancelNode(t) PROVE TypeOK' /\ HasJob'
    BY <2>9 DEF CancelNode, Job
  <2>6. ASSUME NEW t \in Thr, Insert(t) PROVE TypeOK' /\ HasJob'
    BY <2>6 DEF Insert, Job
  <2>7. ASSUME NEW t \in Thr, DropNodeGuard(t) PROVE TypeOK' /\ HasJob'
    BY <2>7 DEF DropNodeGuard, Unlock, Job
  <2>8. ASSUME NEW t \in Thr, DropCandidateGuard(t) PROVE TypeOK' /\ HasJob'
    BY <2>8 DEF DropCandidateGuard, Unlock, Job
  <2> QED
    BY <2>1, <2>2, <2>3, <2>4, <2>5, <2>6, <2>7, <2>8, <2>9 DEF Next
<1> QED
  BY <1>1, <1>2, PTL DEF Spec

----------------------------------------------------------------------------

Inv == TypeOK /\ HasJob /\ GuardsMatchLocks

\* The guards of all threads but t are left alone.
Others(t) ==
  \A s \in Thr \ {t} :
    has'[s] = has[s] /\ job'[s] = job[s] /\ saved'[s] = saved[s]

\* The four things a step of thread t can do to the guards.
Quiet(t) ==
  /\ Others(t)
  /\ prev' = prev
  /\ has'[t] = has[t]
  /\ has[t] = {} \/ (job'[t] = job[t] /\ saved'[t] = saved[t])

Locking(t, r) ==
  /\ Others(t)
  /\ r \in Roles \ has[t] /\ has'[t] = has[t] \cup {r}
  /\ job' = job /\ job[t] \in Job
  /\ prev[job[t][r]] \in Link
  /\ prev' = [prev EXCEPT ![job[t][r]] = Guarded]
  /\ saved'[t] = [saved[t] EXCEPT ![r] = prev[job[t][r]]]

Unlocking(t, r) ==
  /\ Others(t)
  /\ r \in has[t] /\ has'[t] = has[t] \ {r}
  /\ prev' = [prev EXCEPT ![job[t][r]] = saved[t][r]]
  /\ \A q \in has'[t] : job'[t] = job[t] /\ saved'[t][q] = saved[t][q]

Linking(t) ==
  /\ Others(t)
  /\ prev' = prev /\ job' = job
  /\ has[t] = Roles /\ has'[t] = Roles
  /\ saved'[t] = [saved[t] EXCEPT !["candidate"] = job[t]["node"]]

\* Every step is one of them.
LEMMA StepKinds ==
  ASSUME Inv, [Next]_vars
  PROVE  \/ UNCHANGED vars
         \/ \E t \in Thr :
              \/ Quiet(t) \/ Linking(t)
              \/ \E r \in Roles : Locking(t, r) \/ Unlocking(t, r)
<1> USE DEF Inv, TypeOK, HasJob, Pc, Roles, Goto, Expect, Return, has, Others
<1>1. ASSUME NEW t \in Thr, Start(t) PROVE Quiet(t)
  BY <1>1 DEF Start, Quiet
<1>2. ASSUME NEW t \in Thr, AcquireCandidate(t) PROVE Locking(t, "candidate")
  BY <1>2 DEF AcquireCandidate, LockNode, Locking
<1>3. ASSUME NEW t \in Thr, AcquireNode(t) PROVE Locking(t, "node")
  BY <1>3 DEF AcquireNode, LockNode, Locking
<1>4. ASSUME NEW t \in Thr, Retry(t) \/ CancelCandidate(t) \/ CancelNode(t)
      PROVE  Quiet(t)
  BY <1>4 DEF Retry, CancelCandidate, CancelNode, Quiet
<1>5. ASSUME NEW t \in Thr, Insert(t) PROVE Linking(t) \/ Quiet(t)
  BY <1>5 DEF Insert, Linking, Quiet
<1>6. ASSUME NEW t \in Thr, NEW r \in has[t] PROVE prev[job[t][r]] = Guarded
  BY <1>6 DEF GuardsMatchLocks, Holds, Job
<1>7. ASSUME NEW t \in Thr, DropNodeGuard(t) PROVE Unlocking(t, "node")
  BY <1>6, <1>7 DEF DropNodeGuard, Unlock, Unlocking
<1>8. ASSUME NEW t \in Thr, DropCandidateGuard(t)
      PROVE  Unlocking(t, "candidate")
  BY <1>6, <1>8 DEF DropCandidateGuard, Unlock, Unlocking
<1> QED
  BY <1>1, <1>2, <1>3, <1>4, <1>5, <1>7, <1>8 DEF Next

\* An unlocked node has its link; the link of a locked one is with the guard.
Located ==
  /\ \A n \in Node : prev[n] \in Link => holder[n] = Null /\ link[n] = prev[n]
  /\ \A t \in Thr : \A r \in has[t] :
       LET n == job[t][r] IN
         /\ n \in Node /\ prev[n] = Guarded
         /\ holder[n] = t /\ link[n] = saved[t][r]

\* Where each link and the holder of each node is found.
LEMMA Whereabouts == Inv => Located
<1> SUFFICES ASSUME Inv PROVE Located
  OBVIOUS
<1>1. ASSUME NEW n \in Node, prev[n] \in Link
      PROVE  holder[n] = Null /\ link[n] = prev[n]
  BY <1>1, PointerAssumption DEF Inv, GuardsMatchLocks, holder, link, Link
<1>2. ASSUME NEW t \in Thr, NEW r \in has[t]
      PROVE  LET n == job[t][r] IN
               /\ n \in Node /\ prev[n] = Guarded
               /\ holder[n] = t /\ link[n] = saved[t][r]
  <2> DEFINE n == job[t][r]
  <2>1. job[t] \in Job /\ r \in Roles
    BY DEF Inv, TypeOK, HasJob, has, Roles
  <2>2. n \in Node /\ Holds(t, n)
    BY <2>1 DEF Job, Holds
  <2>3. prev[n] = Guarded /\ \A s \in Thr : Holds(s, n) => s = t
    BY <2>2 DEF Inv, GuardsMatchLocks
  <2>4. holder[n] = t
    BY <2>2, <2>3 DEF holder
  <2>5. \A q \in has[t] : job[t][q] = n => q = r
    BY <2>1 DEF Job, Roles, has
  <2>6. link[n] = saved[t][r]
    <3>1. link[n] = saved[t][CHOOSE q \in has[t] : job[t][q] = n]
      BY <2>2, <2>3, <2>4, PointerAssumption DEF link, Link
    <3>2. r = CHOOSE q \in has[t] : job[t][q] = n
      BY <2>5
    <3> QED
      BY <3>1, <3>2
  <2> QED
    BY <2>2, <2>3, <2>4, <2>6
<1> QED
  BY <1>1, <1>2 DEF Located

\* What a thread holds after a node has been locked,
LEMMA HoldsLocked ==
  ASSUME Inv, NEW t \in Thr, NEW r \in Roles, Locking(t, r)
  PROVE  \A s \in Thr, n \in Node :
           Holds(s, n)' <=> Holds(s, n) \/ (s = t /\ n = job[t][r])
<1>1. ASSUME NEW s \in Thr \ {t}, NEW n \in Node
      PROVE  Holds(s, n)' <=> Holds(s, n)
  BY DEF Locking, Others, Holds
<1>2. ASSUME NEW n \in Node
      PROVE  Holds(t, n)' <=> Holds(t, n) \/ n = job[t][r]
  BY DEF Locking, Holds
<1> QED
  BY <1>1, <1>2

\* and after it has been unlocked.
LEMMA HoldsUnlocked ==
  ASSUME Inv, NEW t \in Thr, NEW r \in Roles, Unlocking(t, r)
  PROVE  \A s \in Thr, n \in Node :
           Holds(s, n)' <=> Holds(s, n) /\ ~(s = t /\ n = job[t][r])
<1>1. ASSUME NEW s \in Thr \ {t}, NEW n \in Node
      PROVE  Holds(s, n)' <=> Holds(s, n)
  BY DEF Unlocking, Others, Holds
<1>2. ASSUME NEW n \in Node
      PROVE  Holds(t, n)' <=> Holds(t, n) /\ n # job[t][r]
  <2>1. job[t] \in Job /\ has[t] \subseteq Roles
    BY DEF Inv, HasJob, TypeOK, has, Unlocking, Roles
  <2>2. \A q \in has[t] : job[t][q] = job[t][r] => q = r
    BY <2>1 DEF Job, Roles
  <2> QED
    BY <2>2 DEF Unlocking, Holds
<1> QED
  BY <1>1, <1>2

\* Locked nodes keep one guard each.
LEMMA LocksStep ==
  ASSUME Inv, [Next]_vars
  PROVE  GuardsMatchLocks'
<1> USE DEF GuardsMatchLocks
<1>1. CASE UNCHANGED vars
  BY <1>1 DEF vars, Inv, has, Holds
<1>2. ASSUME NEW t \in Thr, Quiet(t) PROVE GuardsMatchLocks'
  BY <1>2 DEF Quiet, Others, Inv, Holds
<1>3. ASSUME NEW t \in Thr, NEW r \in Roles, Locking(t, r)
      PROVE  GuardsMatchLocks'
  <2>1. prev[job[t][r]] # Guarded /\ job[t][r] \in Node
    BY <1>3, PointerAssumption DEF Locking, Link, Job
  <2>2. \A n \in Node :
          prev'[n] = Guarded <=> prev[n] = Guarded \/ n = job[t][r]
    BY <1>3, <2>1 DEF Locking, Inv, TypeOK
  <2> QED
    BY <1>3, <2>1, <2>2, HoldsLocked DEF Inv
<1>4. ASSUME NEW t \in Thr, NEW r \in Roles, Unlocking(t, r)
      PROVE  GuardsMatchLocks'
  <2>1. Holds(t, job[t][r]) /\ saved[t][r] # Guarded /\ job[t][r] \in Node
    BY <1>4, PointerAssumption
       DEF Unlocking, Holds, Inv, HasJob, TypeOK, Job, Link, has
  <2>2. \A n \in Node :
          prev'[n] = Guarded <=> prev[n] = Guarded /\ n # job[t][r]
    BY <1>4, <2>1 DEF Unlocking, Inv, TypeOK
  <2> QED
    BY <1>4, <2>1, <2>2, HoldsUnlocked DEF Inv
<1>5. ASSUME NEW t \in Thr, Linking(t) PROVE GuardsMatchLocks'
  BY <1>5 DEF Linking, Others, Inv, Holds
<1> QED
  BY <1>1, <1>2, <1>3, <1>4, <1>5, StepKinds

\* The inductive invariant holds in every state.
THEOREM Invariance == Spec => []Inv
<1>1. Init => GuardsMatchLocks
  BY PointerAssumption DEF Init, GuardsMatchLocks, Holds, has
<1>2. Inv /\ [Next]_vars => GuardsMatchLocks'
  BY LocksStep
<1> QED
  BY <1>1, <1>2, TypeCorrect, PTL DEF Spec, Inv

\* The assertion in the drop of a guard holds, however the calls of any
\* number of threads interleave and whichever of them are cancelled.
THEOREM LocksAreGuarded == Spec => []GuardsMatchLocks
BY Invariance, PTL DEF Inv

\* A node that no step touches.
Untouched(n) ==
  /\ prev'[n] = prev[n]
  /\ \A t \in Thr : \A r \in has[t] :
       job[t][r] = n => /\ r \in has'[t] /\ job'[t][r] = n
                        /\ saved'[t][r] = saved[t][r]

\* The other threads touch no node.
LEMMA OthersTouchNone ==
  ASSUME NEW t \in Thr, Others(t), NEW n \in Node, prev'[n] = prev[n],
         \A r \in has[t] :
           job[t][r] = n => /\ r \in has'[t] /\ job'[t][r] = n
                            /\ saved'[t][r] = saved[t][r]
  PROVE  Untouched(n)
BY DEF Others, Untouched

\* Such a node keeps its holder and its link.
LEMMA UntouchedStays ==
  ASSUME Inv, Inv', NEW n \in Node, Untouched(n)
  PROVE  holder'[n] = holder[n] /\ link'[n] = link[n]
<1>1. Located /\ Located'
  BY Whereabouts, PTL
<1>2. CASE prev[n] \in Link
  BY <1>1, <1>2 DEF Untouched, Located
<1>3. CASE prev[n] = Guarded
  <2>1. PICK t \in Thr : Holds(t, n)
    BY <1>3 DEF Inv, GuardsMatchLocks
  <2>2. PICK r \in has[t] : job[t][r] = n
    BY <2>1 DEF Holds
  <2> QED
    BY <1>1, <2>2 DEF Untouched, Located
<1> QED
  BY <1>2, <1>3 DEF Inv, TypeOK

\* The links that double as locks implement AcqLinkAbs.
THEOREM Refinement == Spec => ImplementsLinkLocks
<1>1. Init => Abs!Init
  BY PointerAssumption DEF Init, Abs!Init, holder, Holds, has, link, Link
<1>2. Inv /\ Inv' /\ [Next]_vars => [Abs!Next]_<<holder, link>>
  <2> SUFFICES ASSUME Inv, Inv', [Next]_vars
               PROVE  [Abs!Next]_<<holder, link>>
    OBVIOUS
  <2>0. Located /\ Located'
    BY Whereabouts, PTL
  <2>6. /\ holder = [n \in Node |-> holder[n]] /\ link = [n \in Node |-> link[n]]
        /\ holder' = [n \in Node |-> holder'[n]] /\ link' = [n \in Node |-> link'[n]]
    BY DEF holder, link
  <2>1. CASE UNCHANGED vars
    <3>1. \A n \in Node : Untouched(n)
      BY <2>1 DEF vars, Untouched, has
    <3> QED
      BY <2>6, <3>1, UntouchedStays
  <2>2. ASSUME NEW t \in Thr, Quiet(t) PROVE UNCHANGED <<holder, link>>
    <3>1. \A n \in Node : Untouched(n)
      BY <2>2 DEF Quiet, Others, Untouched
    <3> QED
      BY <2>6, <3>1, UntouchedStays
  <2>3. ASSUME NEW t \in Thr, NEW r \in Roles, Locking(t, r)
        PROVE  Abs!Take(t, job[t][r]) /\ job[t][r] \in Node
    <3> DEFINE n == job[t][r]
    <3>1. n \in Node /\ prev[n] \in Link /\ r \in has'[t]
          /\ job'[t][r] = n /\ saved'[t][r] = prev[n]
      BY <2>3 DEF Locking, Job, Inv, TypeOK
    <3>2. \A m \in Node \ {n} : Untouched(m)
      <4> SUFFICES ASSUME NEW m \in Node \ {n} PROVE Untouched(m)
        OBVIOUS
      <4>1. prev'[m] = prev[m]
        BY <2>3 DEF Locking, Inv, TypeOK
      <4>2. \A q \in has[t] : /\ q \in has'[t] /\ job'[t][q] = job[t][q]
                              /\ saved'[t][q] = saved[t][q]
        BY <2>3 DEF Locking, Inv, TypeOK
      <4> QED
        BY <2>3, <4>1, <4>2, OthersTouchNone DEF Locking
    <3>3. holder[n] = Null /\ link[n] = prev[n]
      BY <2>0, <3>1 DEF Located
    <3>4. holder'[n] = t /\ link'[n] = prev[n]
      BY <2>0, <3>1 DEF Located
    <3> QED
      BY <2>6, <3>1, <3>2, <3>3, <3>4, UntouchedStays DEF Abs!Take
  <2>4. ASSUME NEW t \in Thr, NEW r \in Roles, Unlocking(t, r)
        PROVE  Abs!Give(t, job[t][r]) /\ job[t][r] \in Node
    <3> DEFINE n == job[t][r]
    <3>1. n \in Node /\ holder[n] = t /\ link[n] = saved[t][r]
      BY <2>0, <2>4 DEF Unlocking, Located
    <3>2. prev'[n] = saved[t][r] /\ saved[t][r] \in Link
      BY <2>4, <3>1 DEF Unlocking, Inv, TypeOK
    <3>3. \A m \in Node \ {n} : Untouched(m)
      <4> SUFFICES ASSUME NEW m \in Node \ {n} PROVE Untouched(m)
        OBVIOUS
      <4>1. prev'[m] = prev[m]
        BY <2>4 DEF Unlocking, Inv, TypeOK
      <4>2. \A q \in has[t] \ {r} : /\ q \in has'[t] /\ job'[t][q] = job[t][q]
                                    /\ saved'[t][q] = saved[t][q]
        BY <2>4 DEF Unlocking
      <4> QED
        BY <2>4, <4>1, <4>2, OthersTouchNone DEF Unlocking
    <3>4. holder'[n] = Null /\ link'[n] = saved[t][r]
      BY <2>0, <3>1, <3>2 DEF Located
    <3> QED
      BY <2>6, <3>1, <3>3, <3>4, UntouchedStays DEF Abs!Give
  <2>5. ASSUME NEW t \in Thr, Linking(t)
        PROVE  /\ Abs!Insert(t, job[t]["node"], job[t]["candidate"])
               /\ job[t]["node"] \in Node /\ job[t]["candidate"] \in Node
    <3> DEFINE n == job[t]["node"]
               c == job[t]["candidate"]
    <3>1. n \in Node /\ c \in Node /\ n # c
      <4>1. pc[t] # "idle"
        BY <2>5 DEF Linking, has, Roles
      <4> QED
        BY <4>1 DEF Inv, HasJob, Job, Roles
    <3>2. holder[n] = t /\ holder[c] = t
      BY <2>0, <2>5 DEF Linking, Roles, Located
    <3>3. \A m \in Node \ {c} : Untouched(m)
      <4> SUFFICES ASSUME NEW m \in Node \ {c} PROVE Untouched(m)
        OBVIOUS
      <4>1. saved'[t]["node"] = saved[t]["node"] /\ saved[t] \in [Roles -> Link]
        BY <2>5 DEF Linking, Inv, TypeOK, Roles
      <4> QED
        BY <2>5, <4>1, OthersTouchNone DEF Linking, Roles
    <3>4. "candidate" \in has'[t] /\ saved'[t]["candidate"] = n /\ job'[t]["candidate"] = c
      BY <2>5 DEF Linking, Inv, TypeOK, Roles
    <3>5. holder'[c] = t /\ link'[c] = n
      BY <2>0, <3>4 DEF Located
    <3> QED
      BY <2>6, <3>1, <3>2, <3>3, <3>5, UntouchedStays DEF Abs!Insert
  <2> QED
    BY <2>1, <2>2, <2>3, <2>4, <2>5, StepKinds DEF Abs!Next
<1> QED
  BY <1>1, <1>2, Invariance, PTL DEF Spec, ImplementsLinkLocks, Abs!Spec, Abs!vars
=============================================================================
