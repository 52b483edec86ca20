--------------------------- MODULE MCSunspecChain ---------------------------
(* SunspecChain with two unit IDs per open port.                            *)
EXTENDS SunspecChain

Units == <<1, 247>>
=============================================================================
