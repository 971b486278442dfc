----------------------------- MODULE ConfigService -----------------------------
(***************************************************************************)
(* What the controller promises about the listeners of a Config, whatever  *)
(* the informer, the API server and crashes do to it:                      *)
(*   - a Config that does not exist has no listeners;                      *)
(*   - listeners are those of a state of the Config that was written, and  *)
(*     never go back to an older state than one acted upon;                *)
(*   - they are stopped for a deletion and by a crash, and for nothing     *)
(*     else;                                                               *)
(*   - the newest state is not lost before it is acted upon or replaced.   *)
(***************************************************************************)
EXTENDS Naturals

CONSTANTS Configs, Specs, ValidSources, Nothing

VARIABLES
    current,    \* the spec of a Config, Nothing if it does not exist
    version,    \* the version of its last write
    known,      \* states the controller may still act upon
    listening   \* the list of sources it listens to, or Nothing

vars == <<current, version, known, listening>>

State == [version : Nat, spec : Specs, deleting : BOOLEAN]

Init ==
    /\ current = [c \in Configs |-> Nothing]
    /\ version = [c \in Configs |-> 0]
    /\ known = [c \in Configs |-> {}]
    /\ listening = [c \in Configs |-> Nothing]

Newest(c) == {k \in known[c] : k.version = version[c]}

Oldest(c, k) == k \in known[c] /\ \A o \in known[c] : k.version <= o.version

\* What is forgotten does not come back.
Forget(c) ==
    \E kept \in SUBSET known[c] :
        Newest(c) \subseteq kept /\ known' = [known EXCEPT ![c] = kept]

Write(c, spec, deleting) ==
    LET new == [version |-> version[c] + 1, spec |-> spec, deleting |-> deleting]
    IN  /\ current' = [current EXCEPT ![c] = spec]
        /\ version' = [version EXCEPT ![c] = @ + 1]
        /\ \E kept \in SUBSET known[c] : known' = [known EXCEPT ![c] = kept \cup {new}]
        /\ UNCHANGED listening

Remove(c) ==
    /\ current[c] # Nothing /\ listening[c] = Nothing
    /\ current' = [current EXCEPT ![c] = Nothing]
    /\ version' = [version EXCEPT ![c] = @ + 1]
    /\ \E kept \in SUBSET known[c] : known' = [known EXCEPT ![c] = kept]
    /\ UNCHANGED listening

Read(c) == Forget(c) /\ UNCHANGED <<current, version, listening>>

Listen(c) ==
    /\ current[c] # Nothing
    /\ \E k \in known[c] :
          /\ Oldest(c, k) /\ ~k.deleting /\ k.spec.sources \in ValidSources
          /\ listening' = [listening EXCEPT ![c] = k.spec.sources]
    /\ Forget(c)
    /\ UNCHANGED <<current, version>>

Quiet(c) ==
    /\ \E k \in known[c] : Oldest(c, k) /\ k.deleting
    /\ listening' = [listening EXCEPT ![c] = Nothing]
    /\ Forget(c)
    /\ UNCHANGED <<current, version>>

Restart ==
    /\ listening' = [c \in Configs |-> Nothing]
    /\ known' = [c \in Configs |-> Newest(c)]
    /\ UNCHANGED <<current, version>>

Next ==
    \/ \E c \in Configs :
          \/ \E spec \in Specs, deleting \in BOOLEAN : Write(c, spec, deleting)
          \/ Remove(c) \/ Read(c) \/ Listen(c) \/ Quiet(c)
    \/ Restart

Spec == Init /\ [][Next]_vars
================================================================================
