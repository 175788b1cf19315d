----------------------------- MODULE MCManager -----------------------------
(* Manager for TLC: a host like the one of godump.toml, with a plain file     *)
(* system first and two volumes of one group.                                 *)
EXTENDS Manager, TLC

CONSTANTS p1, p2

MCFs == <<[volume |-> "boot",   vg |-> "none", style |-> "plain"],
          [volume |-> "home",   vg |-> "f120", style |-> "ext4-lvm"],
          [volume |-> "fedora", vg |-> "f120", style |-> "ext4-lvm"]>>

\* Nothing tells one process from another, and no property is about fairness.
Alike == Permutations(Procs)
=============================================================================
