-------------------------- MODULE MCDeviceRegistry --------------------------
(* Model checking of DeviceRegistry.                                       *)
EXTENDS DeviceRegistry, TLC
=============================================================================
