------------------------------ MODULE MCRwLoan ------------------------------
(***************************************************************************)
(* Clients of RwLoan for the model checker.                                *)
(***************************************************************************)
EXTENDS RwLoan

\* Nobody uses the nested downgrade, nor downgrades a writer at all.
Upgraders ==
  [a \in Acq |-> {"read", "write", "upgradable_read", "cancel", "upgrade",
                  "try_upgrade"}]
=============================================================================
