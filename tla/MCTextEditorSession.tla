------------------------ MODULE MCTextEditorSession ------------------------
(* One edit of each origin: an operation can then meet a document and a    *)
(* file that both changed behind its back.                                 *)
EXTENDS TextEditorSession
=============================================================================
