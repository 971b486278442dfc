------------------------------ MODULE EventChannel ------------------------------
(***************************************************************************)
(* The channel of SecretRotationEvents (internal/controller) as a listener *)
(* sees it: room for Capacity events, a consumer, the context of the       *)
(* process, and all the other listeners that send to it.  What an event    *)
(* says does not matter to a sender, so the channel is a number here.      *)
(***************************************************************************)
EXTENDS Naturals, Sequences

CONSTANT Capacity  \* events the channel holds

ASSUME ChannelAssumption == Capacity \in Nat \ {0}

VARIABLES
    waiting,    \* events in the channel
    up,         \* the context of the listener manager is not cancelled
    consuming   \* processEvents has not returned

channelVars == <<waiting, up, consuming>>

ChannelInit == waiting = 0 /\ up = TRUE /\ consuming = TRUE

Room == waiting < Capacity

\* eventChan <- event
Send == Room /\ waiting' = waiting + 1 /\ UNCHANGED <<up, consuming>>

Take == consuming /\ waiting > 0 /\ waiting' = waiting - 1 /\ UNCHANGED <<up, consuming>>

\* Fault: the loop ends when an event cannot be handled.
ConsumerReturnsEarly == consuming /\ consuming' = FALSE /\ UNCHANGED <<waiting, up>>

\* processEvents ends with its context and for no other reason.
ConsumerReturns == consuming /\ ~up /\ consuming' = FALSE /\ UNCHANGED <<waiting, up>>

Shutdown == up /\ up' = FALSE /\ UNCHANGED <<waiting, consuming>>

\* Another listener, such as the mock, which watches no context.
OthersSend == Send

ChannelNext == Take \/ ConsumerReturns \/ Shutdown \/ OthersSend

ChannelTypeOK ==
    /\ waiting \in 0..Capacity
    /\ up \in BOOLEAN /\ consuming \in BOOLEAN
================================================================================
