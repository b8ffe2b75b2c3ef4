-------------------------------- MODULE MCLive --------------------------------
(***************************************************************************)
(* Settings for LiveMapping: threads that the GIL orders, and threads      *)
(* without it whose key functions may raise.                               *)
(***************************************************************************)
EXTENDS LiveMapping

Ordered == [gil |-> TRUE, raises |-> FALSE]

Shared == [gil |-> FALSE, raises |-> TRUE]

MCSettings == {Ordered, Shared}

\* One thread whose key functions may raise.
MCSort == {[gil |-> TRUE, raises |-> TRUE]}
===============================================================================
