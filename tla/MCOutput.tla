------------------------------- MODULE MCOutput -------------------------------
(***************************************************************************)
(* Texts with a newline nowhere, at the end, at the start and inside, and  *)
(* one that fills the buffer.                                              *)
(***************************************************************************)
EXTENDS StandardOutput

MCTexts   == {<<FALSE>>, <<FALSE, TRUE>>, <<TRUE, FALSE>>, <<FALSE, FALSE, FALSE>>}
MCMessage == <<FALSE, TRUE>>
===============================================================================
