-------------------------------- MODULE MCFs --------------------------------
(* An instance of Fs for TLC: a directory /a, a file or directory in it, and *)
(* a name in the working directory; "/", ".." as a directory to go to, and   *)
(* /a/. and /a/.. as new names for link().  p2 only removes what p1 makes.   *)
EXTENDS Fs, TLC

CONSTANTS p1, p2

Abs(s) == [abs |-> TRUE, elems |-> s]
Rel(s) == [abs |-> FALSE, elems |-> s]
Paths == {Abs(<<"a">>), Abs(<<"a", "b">>), Rel(<<"b">>)}
Dots == {Abs(<<"a", ".">>), Abs(<<"a", "..">>)}

OneName(ops, paths) == [op : ops, path : paths, new : {NoPath}]
MCCalls ==
  p1 :> OneName({"open"}, {Abs(<<"a">>), Rel(<<"b">>)})
        \cup OneName({"create", "unlink"}, Paths)
        \cup OneName({"mkdir"}, {Abs(<<"a">>), Abs(<<"a", "b">>)})
        \cup OneName({"chdir"}, {Abs(<<"a">>), Abs(<<"a", "b">>), Rel(<<"..">>), Abs(<<>>)})
        \cup [op : {"link"}, path : {Rel(<<"b">>)}, new : Paths \cup Dots]
  @@ p2 :> OneName({"unlink"}, Paths)
==============================================================================
