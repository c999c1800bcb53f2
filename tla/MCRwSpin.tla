------------------------------ MODULE MCRwSpin ------------------------------
(***************************************************************************)
(* Clients of RwSpin for the model checker: one handle for each kind of    *)
(* guard a client sets out for, with all that can become of that guard.    *)
(***************************************************************************)
EXTENDS RwSpin

CONSTANTS Reader, Writer, Upgrader

Cast ==
  [a \in {Reader, Writer, Upgrader} |->
     CASE a = Reader -> {"read", "cancel"}
       [] a = Writer -> Op \ {"read", "upgradable_read"}
       [] a = Upgrader -> Op \ {"read", "write"}]
=============================================================================
