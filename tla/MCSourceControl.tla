---------------------------- MODULE MCSourceControl ----------------------------
(* Two adapters: one on by default, one off by default.                    *)
EXTENDS SourceControl

CONSTANTS blueferry, tether

MCOrder == <<blueferry, tether>>

MCDefault == [s \in Sources |-> s = blueferry]

MCPinnedTo == [s \in Sources |-> FALSE]
=============================================================================
