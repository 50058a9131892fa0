---------------------------- MODULE MCUsbReceiver ----------------------------
(* UsbReceiver for TLC. *)
EXTENDS UsbReceiver
=============================================================================
