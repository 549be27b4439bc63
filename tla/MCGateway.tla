----------------------------- MODULE MCGateway ------------------------------
(* One handle of one controller; provisions that grant and withdraw a         *)
(* trigger, and wakes of that trigger.                                        *)
EXTENDS GatewayProofs, TLC

CONSTANTS h1, t1, vta, trigger

Provisioning(n, tr, t) == [kind |-> "provision", issuer |-> vta, id |-> n, handle |-> h1,
                        triggers |-> tr, issued |-> t, expires |-> {}]
Waking(n, t) == [kind |-> "wake", issuer |-> trigger, id |-> n, handle |-> h1,
                 triggers |-> {}, issued |-> t, expires |-> {}]

Grant   == Provisioning("id1", {trigger}, 0)
Regrant == Provisioning("id2", {trigger}, 0)
Revoke  == Provisioning("id3", {}, 1)
Wake    == Waking("id1", 0)
Clash   == Waking("id1", 1)

DocsAll     == {Grant, Revoke, Wake, Clash}
DocsRegrant == {Grant, Regrant, Revoke}

BareDid    == [n \in Did |-> n]
Unopened   == [h \in {} |-> h]
Opened(tr) == [h \in {h1} |-> [token |-> t1, controller |-> vta, triggers |-> tr, createdAt |-> 0]]
Ready      == Opened({trigger})
=============================================================================
