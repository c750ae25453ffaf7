------------------------------- MODULE MCUsbDfu -----------------------------
(* Small instances of the USB DFU class for TLC.                           *)
EXTENDS UsbDfu, TLC

Areas == ("image0" :> 2) @@ ("image1" :> 3)
=============================================================================
