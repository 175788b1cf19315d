-------------------------------- MODULE Pool --------------------------------
(***************************************************************************)
(* What a storage pool promises to its clients (the Pool interface of      *)
(* pool.go), with nothing of how it is stored.                             *)
(*                                                                         *)
(* A pool holds chunks, named by their content.  A session adds chunks to  *)
(* its own open transaction; Flush makes all of them durable in one step;  *)
(* a session that ends in any other way (Close, an error, a panic, the     *)
(* death of the process) leaves nothing behind.  A durable chunk can be    *)
(* read back by every session, for ever: the interface has no removal.     *)
(*                                                                         *)
(* SqlPool is shown to implement this module, Backup is built on it.       *)
(***************************************************************************)
CONSTANTS
  Procs,   \* processes that may open the pool
  Chunks   \* chunks a client may insert

VARIABLES
  durable, \* chunks that every session can read back
  pending  \* pending[p]: chunks inserted in the open transaction of p

poolVars == <<durable, pending>>

PoolTypeOK ==
  /\ durable \in SUBSET Chunks
  /\ pending \in [Procs -> SUBSET Chunks]

PoolInit ==
  /\ durable = {}
  /\ pending = [p \in Procs |-> {}]

\* Contains: the chunks the transaction of p sees.
Visible(p) == durable \cup pending[p]

\* Insert: a chunk that is already there is not stored again.
PoolInsert(p, c) ==
  /\ c \notin Visible(p)
  /\ pending' = [pending EXCEPT ![p] = @ \cup {c}]
  /\ UNCHANGED durable

\* Flush: all the chunks of the transaction, or none of them.
PoolFlush(p) ==
  /\ durable' = durable \cup pending[p]
  /\ pending' = [pending EXCEPT ![p] = {}]

\* The session ends without a flush.
PoolAbandon(p) ==
  /\ pending' = [pending EXCEPT ![p] = {}]
  /\ UNCHANGED durable

PoolNext ==
  \E p \in Procs :
    \/ \E c \in Chunks : PoolInsert(p, c)
    \/ PoolFlush(p)
    \/ PoolAbandon(p)

PoolSpec == PoolInit /\ [][PoolNext]_poolVars
=============================================================================
