----------------------------- MODULE MCTerminal -----------------------------
(* Messages to print, which a configuration cannot write down.             *)
EXTENDS Terminal

MCMessages == {<<"a">>}
=============================================================================
