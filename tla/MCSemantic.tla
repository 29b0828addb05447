----------------------------- MODULE MCSemantic -----------------------------
(***************************************************************************)
(* The Flowscript parser on short files.  Its constants are bounds: the    *)
(* configurations give them.                                               *)
(***************************************************************************)
EXTENDS SemanticProps
=============================================================================
