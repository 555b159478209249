---- MODULE MCBashTool ----
(* One call of the bash tool.  What the output holds is left to the run of *)
(* TextTools; here every read returns one line, and the third one makes it *)
(* overflow.                                                               *)
EXTENDS BashTool

MCChunks == {<<"x", NL>>}
====
