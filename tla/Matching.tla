-------------------------------- MODULE Matching --------------------------------
(***************************************************************************)
(* Which objects an event is about: the Filter and _references of the four *)
(* destination handlers (internal/handler/...) and the matching they share *)
(* (internal/util).  A name stands for the name of a Secret or ConfigMap,  *)
(* or for a key of a provider: an event and an object are compared by it.  *)
(***************************************************************************)
EXTENDS Naturals, Sequences

CONSTANTS
    Objects,          \* objects that may be destinations
    Manifest,         \* by object: [kind, name, namespace, labels] and its references
    NamespaceLabels,  \* by namespace: its labels
    None              \* an absent field

ASSUME MatchingAssumption == None \notin Objects /\ DOMAIN Manifest = Objects

OfKind(kind) == {o \in Objects : Manifest[o].kind = kind}

--------------------------------------------------------------------------------
(* Criteria: [namespaceSelectors, labelSelectors, names]                   *)

Matches(selector, labels) == selector.labels \subseteq labels

MatchesAnyNamespaceSelector(o, selectors) ==
    \/ selectors = {}
    \/ \E s \in selectors : Matches(s, NamespaceLabels[Manifest[o].namespace])

MatchesLabelSelectors(o, selector) == selector = None \/ Matches(selector, Manifest[o].labels)

IsNameInList(o, names) == names = {} \/ Manifest[o].name \in names

\* Selectors that LabelSelectorAsSelector refuses make every check an error.
Rejected(w) == \E s \in w.namespaceSelectors \cup ({w.labelSelectors} \ {None}) : ~s.valid

isResourceWatched(o, w) ==
    /\ ~Rejected(w)
    /\ MatchesAnyNamespaceSelector(o, w.namespaceSelectors)
    /\ MatchesLabelSelectors(o, w.labelSelectors)
    /\ IsNameInList(o, w.names)

ExternalSecretWatched(o, d) == isResourceWatched(o, d.ExternalSecret)

PushSecretWatched(o, d) == isResourceWatched(o, d.PushSecret)

WorkflowWatched(o, d) == isResourceWatched(o, d.WorkflowRunTemplate)

--------------------------------------------------------------------------------
(* Filter                                                                  *)

\* Only the List of Deployments is limited to the namespace of the event.
ListedDeployments(namespace) ==
    {o \in OfKind("Deployment") : namespace = None \/ Manifest[o].namespace = namespace}

FilterDeployments(d, namespace) ==
    {o \in ListedDeployments(namespace) : isResourceWatched(o, d.Deployment)}

FilterExternalSecrets(d) == {o \in OfKind("ExternalSecret") : ExternalSecretWatched(o, d)}

FilterPushSecrets(d) == {o \in OfKind("PushSecret") : PushSecretWatched(o, d)}

FilterWorkflows(d) == {o \in OfKind("WorkflowRunTemplate") : WorkflowWatched(o, d)}

Filtered(d, namespace) ==
    CASE d.type = "Deployment"          -> FilterDeployments(d, namespace)
      [] d.type = "ExternalSecret"      -> FilterExternalSecrets(d)
      [] d.type = "PushSecret"          -> FilterPushSecrets(d)
      [] d.type = "WorkflowRunTemplate" -> FilterWorkflows(d)

--------------------------------------------------------------------------------
(* References                                                              *)

\* Secrets and ConfigMaps of environment variables; not those of init containers,
\* volumes and image pulls.
containsKey(container, id) == id \in container.env \/ id \in container.envFrom

DeploymentReferences(o, id) == \E c \in Manifest[o].containers : containsKey(c, id)

\* An entry of dataFrom that names the identifier, or finds it by a regular expression.
Hits(from, id) ==
    \/ from.extract = id
    \/ from.find # None /\ from.find.compiles /\ id \in from.find.matches

\* MustCompile panics at an entry whose expression is invalid, unless data, an earlier
\* entry or extract of the same entry decides.
ExternalSecretPanics(o, id) ==
    LET from == Manifest[o].dataFrom
    IN  /\ id \notin Manifest[o].data
        /\ \E i \in DOMAIN from :
              /\ from[i].find # None /\ ~from[i].find.compiles
              /\ from[i].extract # id
              /\ \A j \in 1..(i - 1) : ~Hits(from[j], id)

ExternalSecretReferences(o, id) ==
    \/ id \in Manifest[o].data
    \/ \E i \in DOMAIN Manifest[o].dataFrom : Hits(Manifest[o].dataFrom[i], id)
    \/ id \in Manifest[o].templateFrom

PushSecretReferences(o, id) == id = Manifest[o].selector \/ id \in Manifest[o].remoteKeys

\* Workflows are triggered by every event.
WorkflowReferences(o, id) == TRUE

Panics(o, id) == Manifest[o].kind = "ExternalSecret" /\ ExternalSecretPanics(o, id)

References(o, id) ==
    CASE Manifest[o].kind = "Deployment"          -> DeploymentReferences(o, id)
      [] Manifest[o].kind = "ExternalSecret"      -> ExternalSecretReferences(o, id)
      [] Manifest[o].kind = "PushSecret"          -> PushSecretReferences(o, id)
      [] Manifest[o].kind = "WorkflowRunTemplate" -> WorkflowReferences(o, id)
================================================================================
