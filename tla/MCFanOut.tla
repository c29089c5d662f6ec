------------------------------ MODULE MCFanOut ------------------------------
(***************************************************************************)
(* From the frame buffer to the viewers: the buffer with its readers, and  *)
(* a viewer over gRPC, WebSocket or WebRTC (or a reader of the logs) until *)
(* the process ends.  The two share no state, so a behaviour is about the  *)
(* one that lane names.  The other one rests in its initial state, where   *)
(* its fairness asks for no step.                                          *)
(***************************************************************************)
EXTENDS MCRingBuffer, Delivery

CONSTANT w1

VARIABLE lane

fanOutVars == <<lane, vars, deliveryVars>>

MCAudiences == [{w1} -> {"grpc", "ws", "webrtc", "logs"}]

MCInit ==
    /\ Init /\ DeliveryInit
    /\ \/ lane = "ring" /\ kind = [c \in Clients |-> "logs"]
       \/ lane = "delivery"

MCNext ==
    /\ UNCHANGED lane
    /\ \/ lane = "ring" /\ Next /\ UNCHANGED deliveryVars
       \/ lane = "delivery" /\ DeliveryNext /\ UNCHANGED vars

MCSpec ==
    /\ MCInit /\ [][MCNext]_fanOutVars
    /\ \A r \in Readers : WF_vars(Read(r))
    /\ DeliveryFairness
=============================================================================
