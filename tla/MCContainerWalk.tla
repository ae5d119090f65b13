--------------------------- MODULE MCContainerWalk ---------------------------
(* ContainerWalk on small trees: see the .cfg files. *)
EXTENDS ContainerWalk

\* A directory with a directory in it, beside another entry.
MCPaths == {<<"a">>, <<"a", "x">>, <<"a", "x", "u">>, <<"b">>}
MCSize == [p \in MCPaths |-> IF p = <<"b">> THEN 0 ELSE 2]
=============================================================================
