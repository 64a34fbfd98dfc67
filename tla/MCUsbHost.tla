------------------------------ MODULE MCUsbHost ------------------------------
(* UsbHost with short waits, a keyboard or two and a failure or two. *)
EXTENDS UsbHost

MCSettleMS == 1
MCWaitMS   == 2

(* Removed anywhere but between a read of USB_HostState and a write that   *)
(* rests on it, the reset of the bus and the return from it included; the  *)
(* run that expects a violation shows what goes wrong there.  Plugged in   *)
(* again when the main program is back in its loop.                        *)
MCOutside ==
  Place \ {"Powered", "WaitForDeviceSettle", "connect", "DoReset", "look", "looked",
           "reset", "ConfigPipe", "PostAddressSet", "waited", "answered"}
MCInLoop  == {"keyboard"}
MCAnywhere == Place

MCPlugs == 2
MCOne   == 1
MCNone  == 0

MCNothing       == {}
MCAnythingFails == Faults
=============================================================================
