----------------------------- MODULE MCPipeline -----------------------------
(***************************************************************************)
(* Small instances of Pipeline for TLC.                                    *)
(***************************************************************************)
EXTENDS Pipeline

CONSTANTS f1, f2, f3

TwoFlows == {f1, f2}
ThreeFlows == {f1, f2, f3}

AllCommands == {"read", "watch", "serve", "show"}
OnlyWatch == {"watch"}

=============================================================================
