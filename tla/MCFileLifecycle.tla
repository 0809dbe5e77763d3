--------------------------- MODULE MCFileLifecycle ---------------------------
(* A thread with two versions of one file, the fork of it, an upload of each *)
(* version (the first with a data set), and the copy made by the fork.       *)
EXTENDS FileLifecycle, TLC

CONSTANTS home, fork, first, second, copied, a1, a2, k1, one, two, key

TwoThreads  == {home, fork}
ThreeFiles  == {first, second, copied}
TwoContents == {one, two}
OneKey      == {key}
TwoUploads  == {a1, a2}
OneCopy     == {k1}
AllAttempts == {a1, a2, k1}
OneIndexed  == {a1}
Place  == (first :> home) @@ (second :> home) @@ (copied :> fork)
Bytes  == (first :> one) @@ (second :> two) @@ (copied :> one)
Name   == [f \in ThreeFiles |-> key]
Target == (a1 :> first) @@ (a2 :> second) @@ (k1 :> copied)
Origin == (k1 :> first)
=============================================================================
