------------------------------- MODULE MCInode -------------------------------
(* Model-checking instances of Inode. *)
EXTENDS Inode, TLC

CONSTANTS p1, p2

TwoProcs == {p1, p2}
Symmetry == Permutations(TwoProcs)

TwoNames == {"a", "b"}

(* Open files that processes share; a file with two names, one of them in   *)
(* a directory; current directories that are removed, and walks through     *)
(* their "."  and ".."; devices.                                            *)
Mixed ==
    {[calls |-> {"unlink", "file", "O_RDONLY", "close", "dup", "fork"},
      paths |-> {<<"a">>, <<"/", "a">>, <<"/", "b">>}],
     [calls |-> {"link", "unlink", "dir", "dev"},
      paths |-> {<<"/", "a">>, <<"/", "b">>, <<"/", "a", "b">>}],
     [calls |-> {"unlink", "dir", "chdir", "fork"},
      paths |-> {<<"a">>, <<"/", "a">>, <<"/", "a", "b">>, <<"..">>}],
     [calls |-> {"link", "unlink", "file", "O_RDWR", "close"},
      paths |-> {<<"/", "a">>, <<"/", "b">>, <<".">>}]}

CreateAndUnlink ==
    {[calls |-> {"file", "unlink", "close"}, paths |-> {<<"/", "a">>, <<"/", "b">>}]}

(* Exploration stops where an accident recorded in ill has happened. *)
Healthy == ill = {}

=============================================================================
