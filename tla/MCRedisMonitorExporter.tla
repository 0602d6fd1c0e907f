----------------------- MODULE MCRedisMonitorExporter -----------------------
(***************************************************************************)
(* Values for the constants of RedisMonitorExporter that a .cfg cannot     *)
(* write down.                                                             *)
(***************************************************************************)
EXTENDS RedisMonitorExporter

Denial == [reason |-> "command", emergency |-> FALSE]
EmergencyDenial == [reason |-> "command", emergency |-> TRUE]
EmergencyAuth == [reason |-> "auth", emergency |-> TRUE]

TwoKinds == {EmergencyDenial, EmergencyAuth}
OneKind == {Denial}

OneBinding == {<<"k1", "m1">>}
TwoMembers == {<<"k1", "m1">>, <<"k1", "m2">>}
TwoSets == {<<"k1", "m1">>, <<"k2", "m1">>}
=============================================================================
