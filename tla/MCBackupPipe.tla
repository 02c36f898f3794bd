---------------------------- MODULE MCBackupPipe ----------------------------
(* An instance of BackupPipe for TLC: streams of one to seven chunks, around *)
(* the boundaries of parts of two chunks and of an upload of three parts.    *)
EXTENDS BackupPipe

Lengths == 0..6
=============================================================================
