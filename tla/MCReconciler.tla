----------------------------- MODULE MCReconciler -----------------------------
(* Two valid specs and one whose sources are rejected.                       *)
EXTENDS Reconciler

CONSTANTS l1, l2, bad, t1, t2

SpecOf(list, destinations) == [sources |-> list, destinations |-> destinations]

MCSpecs        == {SpecOf(l1, t1), SpecOf(l2, t2), SpecOf(bad, t1)}
MCValidSources == {l1, l2}
================================================================================
