---------------------------- MODULE MCUsbStorage ----------------------------
(* Both ports with or without a stick, two sectors, packets that hold a    *)
(* sector or a part of one, and three faults at any place.                 *)
EXTENDS UsbStorage

MCLbas == {"boot sector", "folder"}
=============================================================================
