--------------------------- MODULE MCReaderThread ---------------------------
(* Instances of ReaderThread for TLC. *)
EXTENDS ReaderThread
=============================================================================
