----------------------------- MODULE MCObserve -----------------------------
(* Observe with Telemetry for TLC: our node's esc.Status, that of another  *)
(* node, and the esc.RawCommand of the autopilot with many channels.       *)
EXTENDS Observe, TLC

MCNode == <<"status", 50>>
MCOther == <<"status", 51>>
MCRaw == <<"raw", 10>>

MCStreams == {MCNode, MCOther}
MCLength == [s \in MCStreams |-> 3]
MCMaxLost == MCNode :> 5 @@ MCOther :> 0

MCManyChannels == {MCRaw}
MCRawLength == MCRaw :> 5
MCRawLost == MCRaw :> 2
=============================================================================
