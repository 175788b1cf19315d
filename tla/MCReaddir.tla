----------------------------- MODULE MCReaddir -----------------------------
(* Readdir for TLC: four names, two of them links to one file, whose inode    *)
(* numbers do not follow the order of the names.                              *)
EXTENDS Readdir

MCIno == <<7, 9, 7, 3>>
=============================================================================
