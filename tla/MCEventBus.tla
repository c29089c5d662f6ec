----------------------------- MODULE MCEventBus -----------------------------
(* EventBus on small instances.                                            *)
EXTENDS EventBus, TLC

CONSTANTS w1, w2, camA, online, offline, url1, url2

MCHash == [x \in {camA, online} |-> w1] @@ [x \in {offline} |-> w2]

(* An endpoint with a filter and one without.                              *)
MCWebhooks == << [url |-> url1, topics |-> {online}], [url |-> url2, topics |-> {}] >>
=============================================================================
