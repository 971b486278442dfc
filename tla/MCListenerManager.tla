-------------------------- MODULE MCListenerManager --------------------------
(* Small instances of ListenerManager.  Two Configs compete for one address *)
(* and one suffix; the lists change one source at a time, replace a source  *)
(* by another with the same suffix or address, and break validation.        *)
EXTENDS ListenerManager, TLC

CONSTANTS s1, a1, v1, v2

Block(suffix, addr, body) == [suffix |-> suffix, addr |-> addr, body |-> body]
Source(type, block)       == [type |-> type, block |-> block, stray |-> FALSE]

Plain   == Source("Webhook", Block(NoSuffix, None, v1))
Plain2  == Source("Webhook", Block(NoSuffix, None, v2))
Suffix  == Source("Webhook", Block(s1, None, v1))
Suffix2 == Source("Webhook", Block(s1, None, v2))
Bare    == Source("Webhook", None)
Stray   == [type |-> "Webhook", block |-> None, stray |-> TRUE]
Tcp     == Source("TCPSocket", Block(NoSuffix, a1, v1))
Vault   == Source("HashicorpVault", Block(NoSuffix, a1, v1))
Grid    == Source("AzureEventGrid", Block(NoSuffix, a1, v1))

AuthBlock(auth, body) == [suffix |-> NoSuffix, addr |-> None, body |-> body, auth |-> auth]

\* Polling sources with every way to authenticate, usable or not.
Aws(method, ref, account) ==
    Source("AwsSqs", AuthBlock([authMethod |-> method, secretRef |-> ref,
                                serviceAccountRef |-> account], v1))
Google(auth) == Source("GooglePubSub", AuthBlock(auth, v1))

Keys2(id, key) == [accessKeyId |-> id, secretAccessKey |-> key]
SqsKeys    == Aws("static", Keys2("id", "key"), None)
SqsMissing == Aws("static", Keys2("id", "missing"), None)
SqsNoRef   == Aws("static", None, None)
SqsRole    == Aws("irsa", None, "annotated")
SqsNoRole  == Aws("irsa", None, "plain")
SqsOther   == Aws("other", None, None)

PubSubPlain    == Google(None)
PubSubKey      == Google([secretRef |-> "key", workloadIdentity |-> None])
PubSubIdentity == Google([secretRef |-> None, workloadIdentity |-> "plain"])
PubSubUnknown  == Google([secretRef |-> None, workloadIdentity |-> "unknown"])

\* Watches of Secrets, which differ in how they reach the cluster.
Kube(kubeConfig, ca, token, account) ==
    [kubeConfigRef |-> kubeConfig, serverURL |-> TRUE, caBundle |-> ca,
     tokenRef |-> token, serviceAccountRef |-> account]
Watch(auth, body) == Source("KubernetesSecret", AuthBlock(auth, body))

WatchHere    == Watch(None, v1)
WatchHere2   == Watch(None, v2)
WatchToken   == Watch(Kube(None, "pem", "key", None), v1)
WatchBadCA   == Watch(Kube(None, "text", "key", None), v1)
WatchConfig  == Watch(Kube("missing", "none", None, None), v1)
WatchAccount == Watch(Kube(None, "none", None, "plain"), v1)
Maps         == Source("KubernetesConfigMap", AuthBlock(None, v1))
Mock         == Source("Mock", Block(NoSuffix, None, v1))

MCSecretKeys      == {"id", "key"}
MCServiceAccounts == [a \in {"annotated", "plain"} |-> IF a = "annotated" THEN {"role-arn"} ELSE {}]

\* Nothing tells one Config from another.
ConfigSymmetry == Permutations(Configs)

MCSuffixes == {s1}
MCAddrs    == {a1}

SourcesOf(lists) == UNION {{l[i] : i \in DOMAIN l} : l \in lists}

SharedLists ==
    { <<>>, <<Plain>>, <<Suffix, Tcp>>, <<Stray, Suffix>>, <<Plain, Suffix>>,
      <<Suffix2, Plain2>>, <<Plain, Plain2>>, <<Suffix, Suffix2>>,
      <<Tcp, Grid>>, <<WatchAccount, Vault>> }
SharedSources == SourcesOf(SharedLists)

\* Every way to reach a remote source, several in a list so that some fail or panic,
\* and an address that passes between an Event Grid and a TCP source.
SingleLists ==
    { <<>>, <<Grid>>, <<Tcp>>, <<Bare, SqsKeys>>, <<SqsNoRef, SqsOther>>,
      <<SqsMissing, SqsRole, SqsNoRole>>, <<PubSubPlain, PubSubUnknown>>,
      <<PubSubKey, PubSubIdentity>>, <<WatchToken, WatchBadCA>>, <<WatchAccount, Tcp>>,
      <<WatchHere, Grid>>, <<Maps, WatchConfig>>, <<Mock>> }
SingleSources == SourcesOf(SingleLists)

WatchSources == {WatchHere, WatchHere2}
WatchLists   == {<<>>, <<WatchHere>>, <<WatchHere2>>}
================================================================================
