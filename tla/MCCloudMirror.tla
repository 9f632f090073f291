---------------------------- MODULE MCCloudMirror ----------------------------
(* Instances of CloudMirror for TLC. *)
EXTENDS CloudMirror

\* VMs 1 and 2 in one folder, VM 3 in another; disk 4 belongs to VM 1.
MCCloudOf  == [f \in Folders |-> 1]
MCFolderOf == [v \in Vms |-> IF v = 3 THEN 2 ELSE 1]
MCBootOf   == [v \in Vms |-> v]
MCOwnerOf  == [d \in Disks |-> IF d = 4 THEN 1 ELSE d]
\* VM 2 and disk 4 are there, or may come.
MCInitial  == {[vms |-> {1, 2, 3}, disks |-> {4}], [vms |-> {1, 3}, disks |-> {}]}
MCZoneOf   == [v \in Vms |-> IF v = 2 THEN "new" ELSE "a"]
==============================================================================
