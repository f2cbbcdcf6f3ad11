------------------------------- MODULE MCRsync -----------------------------
(* Two names at the top, one of which may be a directory with a directory   *)
(* in it.  Files of no, one or two blocks; the source holds one whose time is  *)
(* that of the run.                                                         *)
EXTENDS Rsync

MCPaths == {<<"a">>, <<"b">>, <<"a", "c">>, <<"a", "c", "d">>}
MCMasked == [m \in Modes |-> "rw-r--r--"]
Trees(files) == {t \in [MCPaths -> {None, Dir} \union files] : IsTree(t)}
MCSources == Trees({File(<<"x", "y">>, 2, "rw-rw-rw-"), File(<<"x">>, 1, "rw-r--r--")})
MCTargets == Trees({File(<<"y">>, 1, "rw-rw-rw-"), File(<<"x", "x">>, 1, "rw-r--r--"), File(<<>>, 2, "rw-r--r--")})
=============================================================================
