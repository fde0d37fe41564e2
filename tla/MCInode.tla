------------------------------- MODULE MCInode -------------------------------
(***************************************************************************)
(* A small file tree for the inode model: an empty directory and a file in *)
(* the root, so that one call can take the last name of either, and one    *)
(* free inode.                                                             *)
(***************************************************************************)
EXTENDS Inode

Entries(f) == [n \in Elem |-> IF n \in DOMAIN f THEN f[n] ELSE 0]
FsTree ==
  (1 :> [type |-> "dir", nlink |-> 2,
         ents |-> Entries([a |-> 3, d |-> 2] @@ ("." :> 1) @@ (".." :> 1))])
  @@ (2 :> [type |-> "dir", nlink |-> 1,
            ents |-> Entries(("." :> 2) @@ (".." :> 1))])
  @@ (3 :> [type |-> "file", nlink |-> 1, ents |-> NoEnts])
  @@ [i \in Inum |-> [type |-> "none", nlink |-> 0, ents |-> NoEnts]]
FsPaths == {<<>>, <<"a">>, <<"d">>, <<"d", "a">>}

\* The file has two names in the directory, and both are looked up.
TwoNamesTree == [FsTree EXCEPT ![2].ents["a"] = 3, ![2].ents["d"] = 3, ![3].nlink = 3]
TwoNames == {<<"d", "a">>, <<"d", "d">>}
==============================================================================
