--------------------------- MODULE MCOs1Explorer ---------------------------
(* Small disks for OS1's disk manager.                                     *)
EXTENDS Os1Explorer

TwoSlots == 0 .. 1
\* A directory with a file in its first slot, and one with a folder there.
FileFirst   == [NoDirectory EXCEPT ![0] = Entry(1, "typed", Sector(0))]
FolderFirst == [NoDirectory EXCEPT ![0] = Entry(2, "typed", 0)]
SomeDirs == {FileFirst, FolderFirst}
\* The file of the FAT disk lies in the sector of slot 0.
FatFile == Sector(0)
=============================================================================
