---------------------------- MODULE MCFileTransfer ----------------------------
(* Instances of FileTransfer: chunks of two units and files of none, one, two, *)
(* three and four, so that a chunk is absent, incomplete, exact and doubled.   *)
EXTENDS FileTransfer

AnySize  == 0..4

===============================================================================
