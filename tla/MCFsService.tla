---------------------------- MODULE MCFsService ----------------------------
(* A disk with two levels of directories, and paths to files, directories, *)
(* nothing, through a file, up and down, above the root, and without a     *)
(* file at the end.                                                        *)
EXTENDS FsService, TLC

MCEntries ==
  (1 :> ("a" :> 2 @@ "f" :> 3)) @@ (2 :> ("b" :> 4 @@ "f" :> 5)) @@ (4 :> ("g" :> 6))

P(names) == [names |-> names, slash |-> FALSE]
MCPaths ==
  {P(<<"a", "b", "..", "f">>), P(<<"..", "a", "f">>), P(<<"f", "..">>),
   [names |-> <<>>, slash |-> TRUE], [names |-> <<"a">>, slash |-> TRUE]}

=============================================================================
