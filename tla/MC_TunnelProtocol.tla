------------------------- MODULE MC_TunnelProtocol -------------------------
(* Small instances of TunnelProtocol for TLC. *)
EXTENDS TunnelProtocol

MCModes == {"grid", "peer"}
=============================================================================
