--------------------------- MODULE MCDiskReaders ---------------------------
(* Roots of three entries, every one that a system may have written:       *)
(* the parts of a long name stand before their file, last part first, or   *)
(* before a file that was deleted by a system that knows no long names.    *)
EXTENDS DiskReaders

Entries == {End, Deleted, DeletedPart, VolumeId, Part("a", 1), Part("a", 2), File("a"), File("b"),
            Folder("near"), Folder("far")}

Distinct(dir) == \A i, j \in DOMAIN dir : i < j /\ dir[i] = dir[j] => ~IsLive(dir[i])

MCRootDirs == {dir \in [1 .. 3 -> Entries] : Distinct(dir) /\ Written(dir)}
MCSubDirs  == {<<Parent, File("b"), End, End>>,
               <<Parent, Part("a", 1), File("a"), Folder("far")>>}
MCJunk     == {<<End, End, End, End>>, <<File("junk"), VolumeId, File("junk"), End>>}
MCCluster  == [root |-> 2, near |-> 3, far |-> 9000]
MCTables   == {<<0, 0>>, <<40, 0>>, <<40, 80>>}
MCMbrs     == {<< <<0, 9>>, <<7, 0>> >>, << <<238, 1>>, <<0, 0>> >>, << <<0, 0>>, <<12, 60>> >>}
=============================================================================
