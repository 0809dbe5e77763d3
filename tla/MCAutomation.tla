---------------------------- MODULE MCAutomation ----------------------------
(***************************************************************************)
(* Three graphs for TLC.  The first: a tool that needs an approval and has *)
(* an error branch, an agent node that has none, and an output.  The       *)
(* second: an approval before them, so that two questions are asked.  The  *)
(* third: two nodes that nobody touches.                                   *)
(***************************************************************************)
EXTENDS Automation, TLC

\* Handlers are alike, and so are the users' devices.
Symmetry == Permutations(Workers) \cup Permutations(Devices)

ToolNodes == 1..3
ToolKind == [n \in ToolNodes |-> CASE n = 1 -> "tool" [] n = 2 -> "agent" [] n = 3 -> "plain"]
ToolGuarded == {1}
ToolEdges == {[src |-> 1, port |-> "success", dst |-> 2],
              [src |-> 1, port |-> "error",   dst |-> 3],
              [src |-> 2, port |-> "success", dst |-> 3]}

AskNodes == 1..4
AskKind == [n \in AskNodes |-> CASE n = 1 -> "approval" [] n = 2 -> "tool"
                                [] n = 3 -> "agent" [] n = 4 -> "plain"]
AskGuarded == {2}
AskEdges == {[src |-> 1, port |-> "approved", dst |-> 2],
             [src |-> 1, port |-> "rejected", dst |-> 4],
             [src |-> 2, port |-> "success",  dst |-> 3],
             [src |-> 2, port |-> "error",    dst |-> 4],
             [src |-> 3, port |-> "success",  dst |-> 4]}

ShortNodes == 1..2
ShortKind == [n \in ShortNodes |-> CASE n = 1 -> "tool" [] n = 2 -> "plain"]
ShortGuarded == {}
ShortEdges == {[src |-> 1, port |-> "success", dst |-> 2]}
=============================================================================
