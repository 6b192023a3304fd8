-------------------------- MODULE MCWindowManager --------------------------
(* WindowManager with a window of each kind: the launcher and a game it    *)
(* opens, the notepad and its SAVE AS dialog.                              *)
EXTENDS WindowManager
=============================================================================
