-------------------------- MODULE MCSeasmartStream --------------------------
(* Instances of SeasmartStream for TLC.                                    *)
EXTENDS SeasmartStream

OneOrAll == {{}, {1}}
=============================================================================
