------------------------------ MODULE MCSqlPool ------------------------------
(* PoolLife for TLC: two processes and four chunks.  "small" stays in its    *)
(* row, "even" does too and is exactly as long compressed as plain, "big1"   *)
(* and "big2" go to files of one directory, the first one packed.  Two       *)
(* processes create the pool, unless it is there from an older program.      *)
(* "ctime_cache" stands for ctime_dirs as well.                              *)
EXTENDS PoolLife, TLC

CONSTANTS p1, p2, c1, c2, small, even, big1, big2

MCDirOf   == small :> "00" @@ even :> "00" @@ big1 :> "ab" @@ big2 :> "ab"
MCDataLen == small :> 3 @@ even :> 4 @@ big1 :> 9 @@ big2 :> 7
MCZLen    == small :> 5 @@ even :> 4 @@ big1 :> 6 @@ big2 :> 8

MCLines == <<"blobs", "props", "filesystems", "ctime_cache">>
MCTables == {"blobs", "props", "filesystems", "ctime_cache", "schema_version"}
Alike == Permutations(Procs) \cup Permutations(Creators)

MCLacks == "old" :> {"filesystems", "ctime_cache"}
=============================================================================
