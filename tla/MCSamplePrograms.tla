--------------------------- MODULE MCSamplePrograms ---------------------------
(* Small instances of the sample programs. *)
EXTENDS SamplePrograms
=============================================================================
