-------------------------- MODULE MCSharedNFSLock --------------------------
(* Small instances of SharedNFSLock for TLC.                               *)
EXTENDS SharedNFSLock
=============================================================================
