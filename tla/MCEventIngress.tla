-------------------------- MODULE MCEventIngress --------------------------
(* Two producers race on an ingress that holds two messages, each calling   *)
(* `send' up to three times, so the queue fills, empties, and is closed with*)
(* messages waiting and with producers stopped between admission and notify.*)
EXTENDS EventIngress
===========================================================================
