----------------------------- MODULE MCRwLock ------------------------------
(***************************************************************************)
(* Clients for the model checker.                                          *)
(***************************************************************************)
EXTENDS RwLock, TLC

\* Everything the interface offers.
AnyCall == [a \in Acq |-> Op]

\* Everything but downgrade_to_upgradable on the guard of a pinned upgrade.
NoNesting == [a \in Acq |-> Op \ {"nested_downgrade"}]

\* Clients that wait for what they ask and do not downgrade a writer.
Patient ==
  [a \in Acq |-> {"read", "write", "upgradable_read", "downgrade",
                  "try_upgrade", "upgrade"}]

Symmetry == Permutations(Acq)
=============================================================================
