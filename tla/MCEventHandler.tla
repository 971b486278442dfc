---------------------------- MODULE MCEventHandler ----------------------------
(* Two events.  One list of destinations has a Deployment, which only the   *)
(* first event is about, and an ExternalSecret with an invalid expression;  *)
(* the other a PushSecret and a WorkflowRunTemplate.  In the second         *)
(* instance the events are about two Deployments, which the second of two   *)
(* destinations selects; the selector of the first is invalid.              *)
EXTENDS EventHandler, TLC

CONSTANTS e1, e2, d1, d2, w1, x1, p1, k1, k2

Object1(kind, namespace) ==
    [kind |-> kind, name |-> kind, namespace |-> namespace, labels |-> {namespace}]

From(extract, find) == [extract |-> extract, find |-> find]

Deployment1 == Object1("Deployment", "ns1") @@
    [containers |-> {[env |-> {}, envFrom |-> {}], [env |-> {}, envFrom |-> {k1}]}]
Workflow1   == Object1("WorkflowRunTemplate", "ns2")
PushSecret1 == Object1("PushSecret", "ns2") @@ [selector |-> k1, remoteKeys |-> {}]
ExternalSecret1 == Object1("ExternalSecret", "ns1") @@
    [data |-> {k2}, templateFrom |-> {},
     dataFrom |-> << From(None, [compiles |-> FALSE, matches |-> {}]), From(k1, None) >>]

MCManifest == (d1 :> Deployment1) @@ (d2 :> Deployment1) @@ (w1 :> Workflow1)
              @@ (p1 :> PushSecret1) @@ (x1 :> ExternalSecret1)

MCManifestOf == [o \in Objects |-> MCManifest[o]]

MCNamespaceLabels == [ns1 |-> {"watched"}, ns2 |-> {}]

Select(labels)  == [valid |-> TRUE, labels |-> labels]
InvalidSelector == [valid |-> FALSE, labels |-> {}]
All             == [namespaceSelectors |-> {}, labelSelectors |-> None, names |-> {}]

Watch(type, criteria) ==
    [t \in {"type"} \cup Types |-> CASE t = "type" -> type [] t = type -> criteria [] OTHER -> None]

WatchDeployments ==
    Watch("Deployment", [All EXCEPT !.namespaceSelectors = {Select({"watched"}), Select({"no"})}])

MCLists == {
    << WatchDeployments,
       Watch("ExternalSecret", [All EXCEPT !.labelSelectors = Select({"ns1"})]) >>,
    << Watch("PushSecret", [All EXCEPT !.names = {"PushSecret"}]),
       Watch("WorkflowRunTemplate", All) >> }

MCIdentifier == (e1 :> k1) @@ (e2 :> k2)
MCNamespace  == (e1 :> "ns1") @@ (e2 :> None)

OneList ==
    { << Watch("Deployment", [All EXCEPT !.labelSelectors = InvalidSelector]), WatchDeployments >> }
SameIdentifier == [e \in Events |-> k1]
AnyNamespace   == [e \in Events |-> None]

MCStamp == [e \in Events |-> e]
================================================================================
