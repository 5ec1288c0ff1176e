----------------------------- MODULE MCUsbBridge -----------------------------
(* UsbBridge with two pods. *)
EXTENDS UsbBridge

CONSTANTS p1, p2

TwoPods == {p1, p2}
OneName == {NoPod, p1}
=============================================================================
