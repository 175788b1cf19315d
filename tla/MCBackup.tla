------------------------------ MODULE MCBackup ------------------------------
(* Backup for TLC: link l and directory s in the root, directory m and file b  *)
(* in s.  On m another device is mounted, with file c; its root happens to     *)
(* have the inode of s, and c that of b.                                       *)
EXTENDS Backup

MCChildren == [r |-> <<"l", "s">>, s |-> <<"m", "b">>, m |-> <<"c">>]
MCPath     == [b |-> <<"s", "b">>, l |-> <<"l">>, c |-> <<"s", "m", "c">>]
MCIno      == [r |-> 2, s |-> 3, m |-> 3, b |-> 11, l |-> 12, c |-> 11]

MCContents == {<<>>, <<"x", "y">>}
MCStart    == <<"x", "y">>

TinyContents == {<<"x">>, <<"y">>}
TinyStart    == <<"x">>
=============================================================================
