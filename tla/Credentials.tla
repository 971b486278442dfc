------------------------------ MODULE Credentials ------------------------------
(***************************************************************************)
(* How a listener obtains its credentials when it is created: AWS          *)
(* (pkg/auth/aws), Google (pkg/auth/gcp) and the Kubernetes watches        *)
(* (internal/listener/kubernetes).  The outcome is                         *)
(*   "renewed"  credentials that are fetched again when they expire,       *)
(*   "fixed"    one token, which is not replaced,                          *)
(*   "error"    an error that is returned,                                 *)
(*   "panic"    the use of a nil pointer.                                  *)
(***************************************************************************)
EXTENDS Naturals

CONSTANTS
    SecretKeys,       \* the keys of Secrets that can be read
    ServiceAccounts,  \* by service account: the set of its annotations
    Ambient,          \* whether the environment has credentials of its own
    None              \* nil

Outcomes == {"renewed", "fixed", "error", "panic"}

\* GetSecret and the lookup of the key.
Fetched(key, outcome) == IF key \in SecretKeys THEN outcome ELSE "error"

FromEnvironment == IF Ambient THEN "renewed" ELSE "error"

--------------------------------------------------------------------------------
(* AWS: [authMethod, secretRef, serviceAccountRef]                         *)

loadConfigWithSecret(ref) ==
    IF ref = None THEN "panic"
    ELSE IF ref.accessKeyId \in SecretKeys THEN Fetched(ref.secretAccessKey, "fixed")
    ELSE "error"

getRoleARN(account) ==
    /\ account \in DOMAIN ServiceAccounts
    /\ "role-arn" \in ServiceAccounts[account]

\* The token of the service account is requested whenever the role is assumed again.
loadConfigWithServiceAccount(account) ==
    IF account = None THEN "panic"
    ELSE IF getRoleARN(account) THEN "renewed" ELSE "error"

CreateAWSSDKConfig(auth) ==
    CASE auth.authMethod = "static" -> loadConfigWithSecret(auth.secretRef)
      [] auth.authMethod = "irsa"   -> loadConfigWithServiceAccount(auth.serviceAccountRef)
      [] OTHER                      -> "error"

--------------------------------------------------------------------------------
(* Google: None or [secretRef, workloadIdentity]                           *)

\* The identity token is traded for a token once.
workloadIdentityTokenSource(account) ==
    IF account = None \/ ~Ambient THEN FromEnvironment
    ELSE IF account \in DOMAIN ServiceAccounts THEN "fixed" ELSE "error"

NewTokenSource(auth) ==
    IF auth = None THEN FromEnvironment
    ELSE IF auth.secretRef # None THEN Fetched(auth.secretRef, "renewed")
    ELSE workloadIdentityTokenSource(auth.workloadIdentity)

--------------------------------------------------------------------------------
(* Kubernetes: None or [kubeConfigRef, serverURL, caBundle, tokenRef,      *)
(* serviceAccountRef]                                                      *)

\* A bundle that is given has to be a certificate, as it is or in base64.
fetchCACertFromSource(bundle) == bundle \in {"none", "pem", "base64"}

\* CtrlClientSet is made from the result of getKubeConfig, and nil before.
serviceAccountToken(account) == "panic"

getKubeConfig(auth) ==
    IF auth = None THEN FromEnvironment
    ELSE IF auth.kubeConfigRef # None THEN Fetched(auth.kubeConfigRef, "fixed")
    ELSE IF ~auth.serverURL \/ ~fetchCACertFromSource(auth.caBundle) THEN "error"
    ELSE IF auth.tokenRef # None THEN Fetched(auth.tokenRef, "fixed")
    ELSE IF auth.serviceAccountRef # None THEN serviceAccountToken(auth.serviceAccountRef)
    ELSE "error"
================================================================================
