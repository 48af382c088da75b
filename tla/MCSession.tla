----------------------------- MODULE MCSession -----------------------------
(* An instance of BrowserSession for TLC: one tab with two requests under  *)
(* way, or two menus with two.                                             *)
EXTENDS BrowserSession

CONSTANTS light, zh, square

\* The preferences of a new account.
FirstPreferences == [theme |-> light, language |-> zh, ratio |-> square]
=============================================================================
