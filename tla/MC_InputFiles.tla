--------------------------- MODULE MC_InputFiles ---------------------------
(* An HTTP file that is read in any way, or an input file below one or two  *)
(* checksum files.                                                          *)
EXTENDS MXFHTTPFile, MXFChecksumFile

VARIABLE part  \* the kind of file

MCInit == part \in {"http", "checksum"} /\ HTTPInit /\ ChecksumInit
MCNext ==
  /\ UNCHANGED part
  /\ \/ part = "http" /\ HTTPNext /\ UNCHANGED checksumVars
     \/ part = "checksum" /\ ChecksumNext /\ UNCHANGED httpVars
MCSpec == MCInit /\ [][MCNext]_<<part, httpVars, checksumVars>>
=============================================================================
