---------------------------- MODULE MCDeviceLoop ----------------------------
(* Instances of DeviceLoop for TLC. *)
EXTENDS DeviceLoop

CONSTANTS d1, d2

(* A configuration without a device, and one with a device. *)
MCConfig == {{}, {d1}}
=============================================================================
