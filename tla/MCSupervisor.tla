---------------------------- MODULE MCSupervisor ----------------------------
(* The bridge, which has a readiness gate, and the brain, which has none.    *)
EXTENDS Supervisor

MCOrder == <<"bridge", "brain">>
=============================================================================
