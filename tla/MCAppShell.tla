---------------------------- MODULE MCAppShell ----------------------------
(* A small instance of AppShell: three tabs and their theme, or one tab    *)
(* the user moves about in.                                                *)
EXTENDS AppShell

CONSTANTS t1, t2, t3

ThemesOrMoves == {[tabs |-> Tabs, moves |-> FALSE], [tabs |-> {t1}, moves |-> TRUE]}
=============================================================================
