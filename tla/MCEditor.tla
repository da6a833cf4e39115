------------------------------ MODULE MCEditor ------------------------------
(***************************************************************************)
(* Instance of RecordEditor: two pages, two saves.                         *)
(***************************************************************************)
EXTENDS RecordEditor
=============================================================================
