----------------------------- MODULE MCRestore -----------------------------
(***************************************************************************)
(* A directory with a file of two blobs, a link, a subdirectory and a      *)
(* named pipe; a file and nothing else in the subdirectory.  The modes of  *)
(* both directories, and the owner of the first file, vary.                *)
(***************************************************************************)
EXTENDS Restore

Some(kind, data, mode, suid, uid, names) ==
  [kind |-> kind, data |-> data, mode |-> mode, suid |-> suid, uid |-> uid,
   names |-> names, mtime |-> Len(data) + Len(names) + 1]

Backup(rootMode, subMode, uid) ==
     <<>> :> Some("DIR", <<>>, rootMode, FALSE, 0, <<"a", "l", "s", "z">>)
  @@ <<"a">> :> Some("REG", <<"x", "y">>, "rw", TRUE, uid, <<>>)
  @@ <<"l">> :> Some("LNK", <<"x">>, "rw", FALSE, 2, <<>>)
  @@ <<"s">> :> Some("DIR", <<>>, subMode, FALSE, 2, <<"b">>)
  @@ <<"s", "b">> :> Some("REG", <<>>, "none", FALSE, 2, <<>>)
  @@ <<"z">> :> Some("FIFO", <<>>, "rw", FALSE, 2, <<>>)

MCTrees == {Backup(r, s, u) : r \in Modes, s \in Modes, u \in {2, 4}}
=============================================================================
