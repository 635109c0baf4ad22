------------------------------ MODULE MCDriver ------------------------------
(* Two processes with the same command line, the second perhaps while the   *)
(* first is still running, and one that compiles the same source file into a *)
(* program of its own and refers to the output of the others; or two that    *)
(* compile different programs and refer to the same assembly.                *)
EXTENDS Driver, TLC

CONSTANTS p, q, r,                  \* processes
          source1, source2, source3, assembly2, assembly3,
          compilation1, compilation2, compilation3

Tasks == {source1, source2, source3, assembly3, compilation1, compilation2, compilation3}
ProcessOfTask == [w \in Tasks |->
  CASE w \in {source1, compilation1}                     -> p
    [] w \in {source2, compilation2}                     -> q
    [] w \in {source3, assembly3, compilation3} -> r]
TrapFileOfTask == [w \in Tasks |->
  CASE w \in {source1, source2, source3}             -> "Shared.cs"
    [] w \in {assembly3, compilation1, compilation2} -> "Shared.dll"
    [] w = compilation3                              -> "Main.dll"]
SourceOfTask == [w \in Tasks |->
  CASE w \in {source1, source2, source3} -> "Shared.cs"
    [] OTHER                             -> None]

\* The process q works in another directory.
TrapFileElsewhere == [w \in Tasks |->
  CASE w = source2      -> "other/Shared.cs"
    [] w = compilation2 -> "other/Shared.dll"
    [] OTHER            -> TrapFileOfTask[w]]

\* The same program gives the same tuples.
Outputs == [w \in Tasks |-> IF w = source2 THEN source1 ELSE w]

CommandLine == [x \in {p, q, r} |-> IF x = q THEN p ELSE x]

Referring == {source2, assembly2, compilation2, source3, assembly3, compilation3}
ProcessReferring == [w \in Referring |->
  IF w \in {source2, assembly2, compilation2} THEN q ELSE r]
TrapFileReferring == [w \in Referring |->
  CASE w \in {assembly2, assembly3} -> "Shared.dll"
    [] w = source2                 -> "Tool.cs"
    [] w = source3                 -> "Main.cs"
    [] w = compilation2            -> "Tool.dll"
    [] w = compilation3            -> "Main.dll"]
SourceReferring == [w \in Referring |->
  IF w \in {source2, source3} THEN TrapFileReferring[w] ELSE None]
OutputsReferring == [w \in Referring |-> IF w = assembly2 THEN assembly3 ELSE w]
OwnCommandLine == [x \in {q, r} |-> x]
=============================================================================
