----------------------------- MODULE MCFileSys ------------------------------
EXTENDS FileSys, TLC

\* "/" with a directory "a", which holds a directory "a".
MCImage ==
  1 :> [type |-> "DIR", nlink |-> 2, ents |-> (".." :> 1 @@ "a" :> 2)]
  @@ 2 :> [type |-> "DIR", nlink |-> 2, ents |-> (".." :> 1 @@ "a" :> 3)]
  @@ 3 :> [type |-> "DIR", nlink |-> 1, ents |-> (".." :> 2)]

C(op, path) == [op |-> op, path |-> path, new |-> << >>]

Link(old, new) == [op |-> "link", path |-> old, new |-> new]

\* Both directories may be removed while a process is in the inner one, which goes on
\* to use names there and ".."; their inodes are used again.  A link fails because the
\* new name is in use, or is ".", where it waits for itself.
MCCalls == {
  C("creat", <<"a">>), C("mkdir", <<"a">>), C("chdir", <<"/", "a", "a">>), C("openw", <<"..">>),
  C("unlink", <<"/", "a">>), C("unlink", <<"/", "a", "a">>), C("unlink", <<"/">>),
  Link(<<"a">>, <<"/", "a">>), Link(<<"a">>, <<".">>) }

Symmetry == Permutations(Proc)
=============================================================================
