----------------------------- MODULE MCGitSource -----------------------------
(***************************************************************************)
(* Instances of GitSource for TLC.                                         *)
(***************************************************************************)
EXTENDS GitSource

Branch == [kind |-> "branch", commit |-> None]
Pin == [kind |-> "commit", commit |-> 1]
Short == [kind |-> "short", commit |-> 2]

AllRefs == {Branch, Pin, Short}
Pinned == {Branch, Pin}
==============================================================================
