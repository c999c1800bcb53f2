---------------------------- MODULE AcqLinkAbs -----------------------------
(***************************************************************************)
(* What the node locks of the sequential lock's list promise: a node is    *)
(* held by one thread at a time, and its back link is changed only by a    *)
(* thread that holds the node and the node it is linked to.                *)
(***************************************************************************)
CONSTANTS Thr, Node, Null, Nobody

VARIABLES
  holder,   \* the thread that holds each node
  link      \* the node each node comes after, or Null

vars == <<holder, link>>

Init ==
  /\ holder = [n \in Node |-> Nobody]
  /\ link = [n \in Node |-> Null]

Take(t, n) ==
  /\ holder[n] = Nobody
  /\ holder' = [holder EXCEPT ![n] = t]
  /\ UNCHANGED link

Give(t, n) ==
  /\ holder[n] = t
  /\ holder' = [holder EXCEPT ![n] = Nobody]
  /\ UNCHANGED link

Insert(t, n, c) ==
  /\ holder[n] = t /\ holder[c] = t
  /\ link' = [link EXCEPT ![c] = n]
  /\ UNCHANGED holder

Next ==
  \E t \in Thr, n \in Node :
    Take(t, n) \/ Give(t, n) \/ \E c \in Node : Insert(t, n, c)

Spec == Init /\ [][Next]_vars
=============================================================================
