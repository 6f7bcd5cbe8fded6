--------------------------- MODULE MCScrubSession ---------------------------
(* A small instance of ScrubSession for TLC. *)
EXTENDS ScrubSession

CONSTANTS d, u, r

\* A tool result of two blocks.
MCResults == {<<{d}, {u, r}>>}
=============================================================================
