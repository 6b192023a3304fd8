--------------------------- MODULE MCCfsExplorer ---------------------------
(***************************************************************************)
(* The disk manager with small constants for TLC: drives named by what     *)
(* they hold at first.                                                     *)
(***************************************************************************)
EXTENDS CfsExplorer

None == {}

CfsAndNtfs  == {"sata_cfs", "sata_ntfs"}
CfsAndFat32 == {"sata_cfs", "usb_fat32"}
CfsAndBlank == {"sata_cfs", "sata_blank"}
CfsOnly     == {"sata_cfs"}
Fat32Only   == {"usb_fat32"}

FormatOf ==
  [d \in Drives |-> CASE d = "sata_cfs"   -> "cfs"
                      [] d = "sata_ntfs"  -> "ntfs"
                      [] d = "usb_fat32"  -> "fat32"
                      [] d = "sata_blank" -> "blank"]

NoFilesThere  == << >>
\* A folder, and a file whose sector has the number of the directory's.
FolderAndFile == <<0, DirLba>>
\* Two files of an NTFS drive: their records have the numbers 16 and 17.
TwoRecords == <<16, 17>>
FirstIsFolder == {0}

CopyPaste     == {"copy", "paste"}
Dialog        == {"newfolder", "saveas"}
FileMkdirSave == {"file", "mkdir", "save"}
=============================================================================
