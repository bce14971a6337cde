------------------------ MODULE MCBrokerSessionLoss ------------------------
(***************************************************************************)
(* BrokerSession with connections that break, in two scenes.  The first    *)
(* ("reconnect", the constants of the .cfg) has two incoming messages, one *)
(* of them denied, and two losses.  The second ("inorder") has one         *)
(* incoming message, four outgoing ones and ids that wrap: two incoming    *)
(* ones would meet the echo of queued messages at a reconnect, which       *)
(* breaks the limits and the order.                                        *)
(***************************************************************************)
EXTENDS BrokerSession

VARIABLE scene

Ordered == INSTANCE BrokerSession
    WITH OutMsgs <- {1, 2, 3, 4}, InMsgs <- {11}, OutQos <- {1, 2},
         InQos <- {2}, Denied <- {}, LastMid <- 3, MaxLosses <- 1

LossInit ==
    \/ scene = "reconnect" /\ Init
    \/ scene = "inorder" /\ Ordered!Init

LossNext ==
    /\ UNCHANGED scene
    /\ \/ scene = "reconnect" /\ Next
       \/ scene = "inorder" /\ Ordered!Next

LossSpec == LossInit /\ [][LossNext]_<<vars, scene>>

\* msg_count12, which four functions update, counts the messages of the list,
\* and so max_inflight_messages and max_queued_messages bound what a session
\* holds, also after the reset at a reconnect.
LimitsKept == CountMatches /\ (scene = "inorder" => Ordered!WithinLimits)

\* With max_inflight_messages 1, QoS 1 and 2 messages arrive in the order in
\* which they were published, although ids wrap, messages are dropped and a
\* connection is lost.
OrderKept == scene = "inorder" => Ordered!DeliveryInOrder

=============================================================================
