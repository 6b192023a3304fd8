---------------------------- MODULE MCDiskDrives ----------------------------
(* Two SATA ports, one USB stick that may be found, and a list that has    *)
(* room for two: every place can be taken by a disk or by the stick.       *)
EXTENDS DiskDrives

MCBufs == {Boot, Out}
MCLbas == {0, SaveLba}
=============================================================================
