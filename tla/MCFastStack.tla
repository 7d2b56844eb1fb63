----------------------------- MODULE MCFastStack ----------------------------
(* Two stacks, three blocks: enough for both to be on the heap while one   *)
(* of them grows.                                                          *)
EXTENDS FastStack
=============================================================================
