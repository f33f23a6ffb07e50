------------------------ MODULE MCRepositoryRegistry ------------------------
(* A small instance of RepositoryRegistry: the first checkout under the      *)
(* workspace depends on the second, by a reviewed edge.                      *)
EXTENDS RepositoryRegistry

MCKey(path, from) == [path |-> path, remote |-> from]
MCEdges == {[from |-> MCKey(1, 1), to |-> MCKey(2, 1), prior |-> 85]}
=============================================================================
