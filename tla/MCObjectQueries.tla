--------------------------- MODULE MCObjectQueries ---------------------------
(* Instance of ObjectQueries for TLC: a folder with a file in it in the    *)
(* first storage, nothing in the second.                                   *)
EXTENDS ObjectQueries

TwoStores == <<"s1", "s2">>

Folder(name) == [parent |-> 0, dir |-> TRUE, name |-> name]
File(parent, name) == [parent |-> parent, dir |-> FALSE, name |-> name]

FolderAndFile == [s1 |-> (1 :> Folder("d")) @@ (2 :> File(1, "b")), s2 |-> <<>>]
=============================================================================
