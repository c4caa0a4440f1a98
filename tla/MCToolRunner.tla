---------------------------- MODULE MCToolRunner ----------------------------
(* ToolRunner for TLC: its constants are numbers.                          *)
EXTENDS ToolRunner

=============================================================================
