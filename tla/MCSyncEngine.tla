---------------------------- MODULE MCSyncEngine ----------------------------
(* Instances of SyncEngine for TLC. *)
EXTENDS SyncEngine, TLC

CONSTANTS y, z, v,       \* accounts
          f, g, h, k,    \* folders
          p, q           \* names of VMs

\* Two accounts of Yandex Cloud and one of vCloud; y has a cloud with two
\* folders.
Two   == <<y, z>>
Three == <<y, v, z>>

MCTypeOf == [a \in Accounts |-> IF a = v THEN "vcloud" ELSE "yandex_cloud"]
MCFolders == {f, g, h} \cup (IF v \in Accounts THEN {k} ELSE {})
MCCloudOf == [x \in Folders |-> IF x \in {f, g} THEN 1 ELSE IF x = h THEN 2 ELSE 3]
MCOwnerOf == <<y, z, v>>

\* The world in which VM n is in the folders at[n], at most one of an account,
\* and accounts other than those of vCloud also have the folders in empty.
Clouds(empty, at) ==
    LET In_(a) == Own(a) \cap UNION {at[n] : n \in Names} IN
    [folders |-> [a \in Accounts |->
                    In_(a) \cup IF TypeOf[a] = "vcloud" THEN {} ELSE empty \cap Own(a)],
     vms |-> [a \in Accounts |-> [n \in Names |->
                IF at[n] \cap Own(a) = {} THEN NoFolder
                ELSE CHOOSE x \in at[n] : x \in Own(a)]]]

\* p is anywhere, also in both f and h, or nowhere; q is in f or h.  Account z
\* always has its folder.
SomeWorlds ==
    {Clouds({h} \cup empty, at) :
        empty \in {{}, {f}, {f, g}},
        at \in {(p :> x @@ q :> w) : x \in {{}, {f}, {g}, {h}, {k}, {f, h}} \cap SUBSET Folders,
                                  w \in {{f}, {h}}}}

\* Folders without VMs.
EmptyWorlds == {Clouds(empty, [n \in Names |-> {}]) : empty \in SUBSET Folders}
=============================================================================
