------------------------------ MODULE MCShell ------------------------------
(* A screen of three rows of three cells: a command of five characters wraps *)
(* from row to row and reaches the end of the screen.                        *)
EXTENDS Shell

MCPrompt  == <<">">>
MCOutputs == {<<>>, <<"o", NewLine>>, <<"o", "o", "o", "o", NewLine>>}
=============================================================================
