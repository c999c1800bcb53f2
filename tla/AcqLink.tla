------------------------------ MODULE AcqLink ------------------------------
(***************************************************************************)
(* The list of the sequential read-write lock, AcqLink and AcqLinkGuard of *)
(* src/rwlock/sequential/acquire_.rs: try_insert_next_, one access of a    *)
(* node per step.                                                          *)
(*                                                                         *)
(* The back link prev_ of a node "also plays the role as a mutex": a       *)
(* thread locks the node by exchanging the link for the value guarded(),   *)
(* keeps the link in its AcqLinkGuard, and unlocks the node by putting     *)
(* back the link or the one that takes its place.  A link is a pointer to  *)
(* the node itself; next_ is read and never written.                       *)
(***************************************************************************)
EXTENDS Naturals

CONSTANTS
  Thr,       \* the threads
  Node,      \* the nodes
  Null,      \* the null pointer
  Guarded,   \* AcqLinkGuard::guarded()
  Cancels    \* the threads whose token is cancelled

ASSUME PointerAssumption ==
  Null \notin Node /\ Guarded \notin Node /\ Null # Guarded

ASSUME LinkCancelsAssumption == Cancels \subseteq Thr

\* "candidate", "node": try_acquire is locking the candidate, then the node to
\* insert after.  "insert": both guards are there and next_ is to be looked
\* at.  "leave", "release": the guard of the node, then that of the
\* candidate, is to be dropped.
Pc == {"idle", "candidate", "node", "insert", "leave", "release"}

Link == Node \cup {Null}

VARIABLES
  prev,      \* prev_ of each node
  next,      \* next_ of each node
  pc,
  job,       \* arguments of the call: the node and the candidate
  current,   \* the link try_acquire expects to find
  saved      \* prev_ of the two guards

vars == <<prev, next, pc, job, current, saved>>

Roles == {"node", "candidate"}

\* Two nodes: a thread that locked its candidate would wait for itself.
Job == {j \in [Roles -> Node] : j["node"] # j["candidate"]}

\* Locals that are not there yet or not any more.
None == [r \in Roles |-> Null]

TypeOK ==
  /\ prev \in [Node -> Link \cup {Guarded}]
  /\ next \in [Node -> Link]
  /\ pc \in [Thr -> Pc]
  /\ job \in [Thr -> Job \cup {None}]
  /\ current \in [Thr -> Link]
  /\ saved \in [Thr -> [Roles -> Link]]

\* Nodes are made by new_unlinked.
Init ==
  /\ prev = [n \in Node |-> Null]
  /\ next = [n \in Node |-> Null]
  /\ pc = [t \in Thr |-> "idle"]
  /\ job = [t \in Thr |-> None]
  /\ current = [t \in Thr |-> Null]
  /\ saved = [t \in Thr |-> None]

----------------------------------------------------------------------------

Goto(t, from, to) == pc[t] = from /\ pc' = [pc EXCEPT ![t] = to]

\* The next exchange of try_acquire expects p; the first one expects Null.
Expect(t, p) == current' = [current EXCEPT ![t] = p]

\* try_insert_next_ returns.
Return(t, from) ==
  /\ Goto(t, from, "idle")
  /\ job' = [job EXCEPT ![t] = None]
  /\ saved' = [saved EXCEPT ![t] = None]
  /\ Expect(t, Null)

Start(t) ==
  /\ Goto(t, "idle", "candidate")
  /\ \E j \in Job : job' = [job EXCEPT ![t] = j]
  /\ UNCHANGED <<prev, next, current, saved>>

\* (A store instead of the exchange: it locks the node whoever has it.)
SeizeNode(t, role) ==
  LET n == job[t][role] IN
    /\ prev' = [prev EXCEPT ![n] = Guarded]
    /\ saved' = [saved EXCEPT ![t][role] = current[t]]
    /\ Expect(t, Null)
    /\ UNCHANGED <<next, job>>

\* The exchange of try_acquire, which puts the link it found into the guard.
LockNode(t, role) ==
  LET n == job[t][role] IN
    /\ prev[n] = current[t]
    /\ prev' = [prev EXCEPT ![n] = Guarded]
    /\ saved' = [saved EXCEPT ![t][role] = current[t]]
    /\ Expect(t, Null)
    /\ UNCHANGED <<next, job>>

AcquireCandidate(t) == Goto(t, "candidate", "node") /\ LockNode(t, "candidate")

AcquireNode(t) == Goto(t, "node", "insert") /\ LockNode(t, "node")

\* (A retry that expects the lock value once it has seen it.)
RetryWithFound(t) ==
  /\ pc[t] \in Roles
  /\ Expect(t, prev[job[t][pc[t]]])
  /\ UNCHANGED <<prev, next, pc, job, saved>>

\* An exchange that fails, with or without a reason, and a token that is not
\* cancelled: the next try expects the link found, unless the node is locked.
Retry(t) ==
  /\ pc[t] \in Roles
  /\ LET x == prev[job[t][pc[t]]] IN Expect(t, IF x = Guarded THEN current[t] ELSE x)
  /\ UNCHANGED <<prev, next, pc, job, saved>>

CancelCandidate(t) ==
  /\ t \in Cancels
  /\ Return(t, "candidate")
  /\ UNCHANGED <<prev, next>>

\* (A return that keeps the guard of the candidate.)
CancelAndKeep(t) ==
  /\ t \in Cancels
  /\ Return(t, "node")
  /\ UNCHANGED <<prev, next>>

CancelNode(t) ==
  /\ t \in Cancels
  /\ Goto(t, "node", "release")
  /\ Expect(t, Null)
  /\ UNCHANGED <<prev, next, job, saved>>

\* update_prev writes to the guard of the candidate; the node sees it when
\* that guard is dropped.
Insert(t) ==
  /\ Goto(t, "insert", "leave")
  /\ saved' = IF next[job[t]["node"]] = Null
              THEN [saved EXCEPT ![t]["candidate"] = job[t]["node"]]
              ELSE saved
  /\ UNCHANGED <<prev, next, job, current>>

\* (A drop that unlocks and forgets the link.)
Unlink(t, role) ==
  LET n == job[t][role] IN
    prev' = IF prev[n] = Guarded THEN [prev EXCEPT ![n] = Null] ELSE prev

\* Drop for AcqLinkGuard.  The assertion is that the node is still locked.
Unlock(t, role) ==
  LET n == job[t][role] IN
    prev' = IF prev[n] = Guarded THEN [prev EXCEPT ![n] = saved[t][role]]
                                 ELSE prev

DropNodeGuard(t) ==
  /\ Goto(t, "leave", "release")
  /\ Unlock(t, "node")
  /\ saved' = [saved EXCEPT ![t]["node"] = Null]
  /\ UNCHANGED <<next, job, current>>

DropCandidateGuard(t) ==
  /\ Return(t, "release")
  /\ Unlock(t, "candidate")
  /\ UNCHANGED next

----------------------------------------------------------------------------

Next ==
  \E t \in Thr :
    \/ Start(t)
    \/ AcquireCandidate(t) \/ AcquireNode(t)
    \/ Retry(t)
    \/ CancelCandidate(t) \/ CancelNode(t)
    \/ Insert(t)
    \/ DropNodeGuard(t) \/ DropCandidateGuard(t)

Spec == Init /\ [][Next]_vars

\* Calls run on; a cancelled token is noticed; and a thread that tries over
\* and over on a node that is unlocked over and over finds it unlocked, and
\* exchanges its link, in the end.
Fairness ==
  \A t \in Thr :
    /\ SF_vars(AcquireCandidate(t)) /\ SF_vars(AcquireNode(t))
    /\ SF_vars(Retry(t))
    /\ WF_vars(CancelCandidate(t) \/ CancelNode(t))
    /\ WF_vars(Insert(t) \/ DropNodeGuard(t) \/ DropCandidateGuard(t))

FairSpec == Spec /\ Fairness

----------------------------------------------------------------------------

\* The guards each thread has.
has ==
  [t \in Thr |->
     CASE pc[t] \in {"node", "release"} -> {"candidate"}
       [] pc[t] \in {"insert", "leave"} -> Roles
       [] OTHER -> {}]

Holds(t, n) == \E r \in has[t] : job[t][r] = n

\* The thread that has locked each node.
holder ==
  [n \in Node |-> IF \E t \in Thr : Holds(t, n)
                  THEN CHOOSE t \in Thr : Holds(t, n)
                  ELSE Null]

\* The back link of each node, wherever it is kept at the moment.
link ==
  [n \in Node |->
     IF prev[n] \in Link THEN prev[n]
     ELSE LET t == holder[n]
              r == CHOOSE r \in has[t] : job[t][r] = n
          IN saved[t][r]]

Abs == INSTANCE AcqLinkAbs WITH Nobody <- Null

\* The links that serve as locks implement locks beside the links: a node is
\* locked by one thread at a time, and no lock, cancellation or unlock, in
\* whatever order, loses or changes a link; only an insertion that has both
\* nodes changes one ("Also plays the role as a mutex of current node").
ImplementsLinkLocks == Abs!Spec

\* The assertion in the drop of a guard holds, and a guard never puts the
\* lock value back: a node that is locked has a guard, one only.
GuardsMatchLocks ==
  \A n \in Node :
    /\ prev[n] = Guarded <=> \E t \in Thr : Holds(t, n)
    /\ \A t, s \in Thr : Holds(t, n) /\ Holds(s, n) => t = s

\* An insertion ends, by success or by its token, if all tokens but one are
\* cancelled in the end.  (Two insertions crosswise that nobody cancels wait
\* for each other: the candidate is locked before the node.)
InsertionsEnd == \A t \in Thr : pc[t] # "idle" ~> pc[t] = "idle"
=============================================================================
