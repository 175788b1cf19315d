------------------------------ MODULE Manager ------------------------------
(***************************************************************************)
(* The managed backup of a host (godump/manager).                          *)
(*                                                                         *)
(* Every file system has a set of steps, according to its style.  Setup is *)
(* stage by stage: all file systems go through a stage before any of them  *)
(* enters the next one.  The first failure ends the setup; whatever        *)
(* succeeded is then undone in reverse order, with failures only logged.   *)
(*                                                                         *)
(* Only two steps leave something behind: the LVM snapshot and its mount.  *)
(* Snapshots and mounts belong to the machine, outlive the process, and    *)
(* are shared by all the processes that run: a snapshot that exists cannot *)
(* be created, one that is mounted cannot be removed.  The commands are    *)
(* external: each may fail whenever it pleases, and can only succeed when  *)
(* the machine is in a state that allows it.                               *)
(***************************************************************************)
EXTENDS Integers, Sequences, SequencesExt

CONSTANTS
  Procs,    \* processes that may run "godump managed" for the host
  Fs,       \* the host's file systems: records [volume, vg, style]
  NoVg,     \* the vg of a file system that names none
  Mirror,   \* does the host have a mirror?
  Gosure,   \* is there a command "gosure"?
  MaxRuns   \* bound on the runs started

ASSUME ManagerAssumption ==
  /\ Fs \in Seq(Range(Fs))
  /\ \A i \in DOMAIN Fs : Fs[i].style \in {"ext4-lvm", "plain"}
  /\ {Mirror, Gosure} \subseteq BOOLEAN
  /\ MaxRuns \in Nat

VARIABLES
  snap,       \* snap[d]: the run that made the snapshot of device d, or 0
  mnt,        \* mnt[v]: what is mounted on /mnt/snap/v, the visible mount last
  pc,         \* what the process is doing
  at,         \* the step of Plan its loops have come to
  performed,  \* the steps it has set up and not yet undone
  run,        \* the number of its run
  runs,       \* runs started
  dumped,     \* history: file systems its run has dumped, and from where
  warned,     \* history: "no" command failed in the undo of its run, one did
              \* though it could have succeeded ("flaky"), one could not ("blocked")
  ended       \* history: how its last run ended

world == <<snap, mnt>>
vars == <<world, pc, at, performed, run, runs, dumped, warned, ended>>

-----------------------------------------------------------------------------
(* The plan, fixed by the configuration. *)

sequence == <<"lvm-snapshot", "mount-snapshot", "clean", "sure-update",
              "sure-write", "rsync", "dump">>

StepsOf(fs) ==
  {"sure-update", "sure-write", "dump"}
    \cup (IF fs.style = "ext4-lvm" THEN {"lvm-snapshot", "mount-snapshot", "clean"} ELSE {})
    \cup (IF Mirror THEN {"rsync"} ELSE {})

\* A step of the plan: the number of its stage, that of its file system.
Plan ==
  {x \in (1..Len(sequence)) \X DOMAIN Fs : sequence[x[1]] \in StepsOf(Fs[x[2]])}

StepName(x) == sequence[x[1]]
FsOf(x)     == Fs[x[2]]

\* Mutant: one file system after the other.
BeforeByFs(x, y) == x[2] < y[2] \/ (x[2] = y[2] /\ x[1] < y[1])

\* Stage by stage, and in each stage the file systems in their order.
Before(x, y) == x[1] < y[1] \/ (x[1] = y[1] /\ x[2] < y[2])

Nowhere == <<0, 0>>

Devices == {<<Fs[i].vg, Fs[i].volume>> : i \in DOMAIN Fs}
Volumes == {Fs[i].volume : i \in DOMAIN Fs}

Device(fs) == <<fs.vg, fs.volume>>

\* backupDir: the snapshot's mount point as soon as there is a vg.
Base(fs) == [dev |-> Device(fs), made |-> -1]

Visible(fs) ==
  IF fs.vg = NoVg THEN Base(fs)
  ELSE IF mnt[fs.volume] = <<>> THEN [dev |-> <<>>, made |-> 0]
  ELSE [dev |-> Last(mnt[fs.volume]).dev, made |-> snap[Last(mnt[fs.volume]).dev]]

-----------------------------------------------------------------------------
Init ==
  /\ snap = [d \in Devices |-> 0]
  /\ mnt = [v \in Volumes |-> <<>>]
  /\ pc = [p \in Procs |-> "idle"]
  /\ at = [p \in Procs |-> Nowhere]
  /\ performed = [p \in Procs |-> <<>>]
  /\ run = [p \in Procs |-> 0]
  /\ runs = 0
  /\ dumped = [p \in Procs |-> {}]
  /\ warned = [p \in Procs |-> "no"]
  /\ ended = [p \in Procs |-> "-"]

\* validateConfig up to its main loop: the pool and the logs can be opened.
Start(p) ==
  /\ pc[p] = "idle" /\ runs < MaxRuns
  /\ runs' = runs + 1
  /\ run' = [run EXCEPT ![p] = runs + 1]
  /\ pc' = [pc EXCEPT ![p] = "setup"]
  /\ at' = [at EXCEPT ![p] = Nowhere]
  /\ performed' = [performed EXCEPT ![p] = <<>>]
  /\ dumped' = [dumped EXCEPT ![p] = {}]
  /\ warned' = [warned EXCEPT ![p] = "no"]
  /\ ended' = [ended EXCEPT ![p] = "-"]
  /\ UNCHANGED world

Mounted(d) == \E v \in Volumes : \E k \in DOMAIN mnt[v] : mnt[v][k].dev = d

\* Mutant: a snapshot that exists already is taken for one's own.
LvCreateOrReuse(p, fs) ==
  /\ fs.vg # NoVg
  /\ snap' = [snap EXCEPT ![Device(fs)] = IF @ = 0 THEN run[p] ELSE @]
  /\ UNCHANGED mnt

\* What a command needs from the machine, and what it does to it.
LvCreate(p, fs) ==
  /\ fs.vg # NoVg /\ snap[Device(fs)] = 0
  /\ snap' = [snap EXCEPT ![Device(fs)] = run[p]]
  /\ UNCHANGED mnt

MountSnap(p, fs) ==
  /\ snap[Device(fs)] # 0 /\ ~Mounted(Device(fs))
  /\ mnt' = [mnt EXCEPT ![fs.volume] = Append(@, [dev |-> Device(fs), by |-> run[p]])]
  /\ UNCHANGED snap

CanUmount(fs) == mnt[fs.volume] # <<>>
CanLvRemove(fs) == snap[Device(fs)] # 0 /\ ~Mounted(Device(fs))

Umount(fs) == mnt' = [mnt EXCEPT ![fs.volume] = Front(@)] /\ UNCHANGED snap
LvRemove(fs) == snap' = [snap EXCEPT ![Device(fs)] = 0] /\ UNCHANGED mnt

\* step.Setup returns nil.
Performs(p, x) ==
  CASE StepName(x) = "lvm-snapshot"   -> LvCreate(p, FsOf(x)) /\ UNCHANGED dumped
    [] StepName(x) = "mount-snapshot" -> MountSnap(p, FsOf(x)) /\ UNCHANGED dumped
    [] StepName(x) = "dump" ->
         /\ dumped' = [dumped EXCEPT ![p] = @ \cup {[fs |-> FsOf(x), from |-> Visible(FsOf(x))]}]
         /\ UNCHANGED world
    [] StepName(x) \in {"sure-update", "sure-write"} -> Gosure /\ UNCHANGED <<world, dumped>>
    [] OTHER -> UNCHANGED <<world, dumped>>

\* The loops of p come to step x.
Reaches(p, x) ==
  /\ pc[p] = "setup"
  /\ Before(at[p], x)
  /\ \A y \in Plan : Before(at[p], y) => y = x \/ Before(x, y)

\* Mutant: a step counts as performed whether or not it succeeded.
SetupUnchecked(p) ==
  \E x \in Plan :
    /\ Reaches(p, x)
    /\ \/ Performs(p, x) /\ UNCHANGED pc
       \/ pc' = [pc EXCEPT ![p] = "undo"] /\ UNCHANGED <<world, dumped>>
    /\ performed' = [performed EXCEPT ![p] = Append(@, x)]
    /\ at' = [at EXCEPT ![p] = x]
    /\ UNCHANGED <<run, runs, warned, ended>>

\* Mutant: a failed step is passed over.
SetupSkips(p) ==
  \E x \in Plan :
    /\ Reaches(p, x)
    /\ \/ /\ Performs(p, x)
          /\ performed' = [performed EXCEPT ![p] = Append(@, x)]
       \/ UNCHANGED <<world, dumped, performed>>
    /\ at' = [at EXCEPT ![p] = x]
    /\ UNCHANGED <<pc, run, runs, warned, ended>>

Setup(p) ==
  \E x \in Plan :
    /\ Reaches(p, x)
    /\ Performs(p, x)
    /\ performed' = [performed EXCEPT ![p] = Append(@, x)]
    /\ at' = [at EXCEPT ![p] = x]
    /\ UNCHANGED <<pc, run, runs, warned, ended>>

\* step.Setup returns an error, having changed nothing; or there are no more.
EndSetup(p) ==
  /\ pc[p] = "setup"
  /\ pc' = [pc EXCEPT ![p] = "undo"]
  /\ UNCHANGED <<world, at, performed, run, runs, dumped, warned, ended>>

\* A dump panics over a file it cannot read; an ext4-lvm file system without
\* vg is a nil pointer.  Nothing recovers: the process is gone.
Panic(p) ==
  /\ \E x \in Plan :
       /\ Reaches(p, x)
       /\ \/ StepName(x) = "dump"
          \/ StepName(x) = "lvm-snapshot" /\ FsOf(x).vg = NoVg
  /\ pc' = [pc EXCEPT ![p] = "idle"]
  /\ ended' = [ended EXCEPT ![p] = "panic"]
  /\ UNCHANGED <<world, at, performed, run, runs, dumped, warned>>

\* step.Teardown, of the last step performed.
CanUndo(x) ==
  CASE StepName(x) = "lvm-snapshot"   -> CanLvRemove(FsOf(x))
    [] StepName(x) = "mount-snapshot" -> CanUmount(FsOf(x))
    [] OTHER -> TRUE

Undoes(x) ==
  CASE StepName(x) = "lvm-snapshot"   -> LvRemove(FsOf(x))
    [] StepName(x) = "mount-snapshot" -> Umount(FsOf(x))
    [] OTHER -> UNCHANGED world

\* Mutant: the steps are undone in the order they were performed.
UndoForward(p) ==
  LET x == Head(performed[p]) IN
  /\ pc[p] = "undo" /\ performed[p] # <<>>
  /\ performed' = [performed EXCEPT ![p] = Tail(@)]
  /\ \/ CanUndo(x) /\ Undoes(x) /\ UNCHANGED warned
     \/ /\ StepName(x) \in {"lvm-snapshot", "mount-snapshot"}
        /\ UNCHANGED world
        /\ warned' = [warned EXCEPT ![p] = IF @ # "no" THEN @
                                           ELSE IF CanUndo(x) THEN "flaky" ELSE "blocked"]
  /\ UNCHANGED <<pc, at, run, runs, dumped, ended>>

Undo(p) ==
  LET x == Last(performed[p]) IN
  /\ pc[p] = "undo" /\ performed[p] # <<>>
  /\ performed' = [performed EXCEPT ![p] = Front(@)]
  /\ \/ CanUndo(x) /\ Undoes(x) /\ UNCHANGED warned
     \/ /\ StepName(x) \in {"lvm-snapshot", "mount-snapshot"}
        /\ UNCHANGED world
        /\ warned' = [warned EXCEPT ![p] = IF @ # "no" THEN @
                                           ELSE IF CanUndo(x) THEN "flaky" ELSE "blocked"]
  /\ UNCHANGED <<pc, at, run, runs, dumped, ended>>

Return(p) ==
  /\ pc[p] = "undo" /\ performed[p] = <<>>
  /\ pc' = [pc EXCEPT ![p] = "idle"]
  /\ ended' = [ended EXCEPT ![p] = "return"]
  /\ UNCHANGED <<world, at, performed, run, runs, dumped, warned>>

Kill(p) ==
  /\ pc[p] # "idle"
  /\ pc' = [pc EXCEPT ![p] = "idle"]
  /\ ended' = [ended EXCEPT ![p] = "kill"]
  /\ UNCHANGED <<world, at, performed, run, runs, dumped, warned>>

\* The administrator cleans up when nothing runs.
NobodyRuns == \A p \in Procs : pc[p] = "idle"

CleanUp(fs) ==
  /\ NobodyRuns
  /\ \/ CanUmount(fs) /\ Umount(fs)
     \/ CanLvRemove(fs) /\ LvRemove(fs)
  /\ UNCHANGED <<pc, at, performed, run, runs, dumped, warned, ended>>

Step(p) == Start(p) \/ Setup(p) \/ EndSetup(p) \/ Panic(p) \/ Undo(p) \/ Return(p) \/ Kill(p)

Next == (\E p \in Procs : Step(p)) \/ (\E i \in DOMAIN Fs : CleanUp(Fs[i]))

Spec == Init /\ [][Next]_vars

-----------------------------------------------------------------------------
(* Properties. *)

TypeOK ==
  /\ snap \in [Devices -> 0..runs]
  /\ mnt \in [Volumes -> Seq([dev : Devices, by : 1..runs])]
  /\ pc \in [Procs -> {"idle", "setup", "undo"}]
  /\ at \in [Procs -> Plan \cup {Nowhere}]
  /\ performed \in [Procs -> Seq(Plan)]
  /\ run \in [Procs -> 0..runs] /\ runs \in 0..MaxRuns
  /\ DOMAIN dumped = Procs
  /\ warned \in [Procs -> {"no", "flaky", "blocked"}]
  /\ ended \in [Procs -> {"-", "return", "panic", "kill"}]

\* A dump, whoever else runs and whatever crashed runs left on the machine,
\* reads the file system it is the dump of: a snapshot made by its own run, or
\* the base directory of a plain file system.
RightSource ==
  \A p \in Procs : \A d \in dumped[p] :
    d.from = IF d.fs.style = "ext4-lvm" THEN [dev |-> Device(d.fs), made |-> run[p]]
                                        ELSE Base(d.fs)

\* No dump starts before every snapshot of the host is made: what the dumps of
\* one run show is as close in time as the snapshots are.
AllFrozen ==
  \A p \in Procs : pc[p] = "setup" /\ dumped[p] # {} =>
    \A i \in DOMAIN Fs : Fs[i].style = "ext4-lvm" => snap[Device(Fs[i])] = run[p]

\* A run undoes only what it has done itself: never a snapshot or a mount of a
\* concurrent run, or one that it found there.
Undoing(r) == NobodyRuns \/ \E p \in Procs : pc[p] = "undo" /\ run[p] = r

OnlyOwn ==
  [][/\ \A d \in Devices : snap[d] # 0 /\ snap'[d] = 0 => Undoing(snap[d])
     /\ \A v \in Volumes : Len(mnt'[v]) < Len(mnt[v]) => Undoing(Last(mnt[v]).by)]_vars

Left(p) ==
  \/ \E d \in Devices : run[p] # 0 /\ snap[d] = run[p]
  \/ \E v \in Volumes : \E k \in DOMAIN mnt[v] : mnt[v][k].by = run[p]

\* A run that returns, with or without an error, leaves nothing on the machine,
\* unless a command of the undo failed by itself.  In particular the undo never
\* asks for what the machine must refuse: unmounting what is not mounted, removing
\* a snapshot in use.
LeavesNothing ==
  \A p \in Procs :
    /\ warned[p] # "blocked"
    /\ ended[p] = "return" /\ warned[p] = "no" => ~Left(p)

(***************************************************************************)
(* Why: the steps performed are those up to where the loops are, in their  *)
(* order; each holds what it made, and while a snapshot is mounted nobody  *)
(* can remove it.                                                          *)
(***************************************************************************)

Active(p) == pc[p] # "idle"
Did(p)    == Range(performed[p])

Runs ==
  /\ \A p \in Procs : Active(p) => run[p] # 0 /\ ended[p] = "-"
  /\ \A p, q \in Procs : run[p] = run[q] /\ run[p] # 0 => p = q

InOrder ==
  \A p \in Procs : \A k \in DOMAIN performed[p] : \A j \in 1..(k - 1) :
    Before(performed[p][j], performed[p][k])

Reached ==
  \A p \in Procs : pc[p] = "setup" =>
    Did(p) = {x \in Plan : x = at[p] \/ Before(x, at[p])}

\* A run has each of the snapshots that it made and has not removed.
HoldsSnaps ==
  \A p \in Procs : Active(p) => \A x \in Did(p) : StepName(x) = "lvm-snapshot" =>
    /\ snap[Device(FsOf(x))] = run[p] /\ FsOf(x).vg # NoVg
    /\ \A y \in Did(p) \ {x} :
         StepName(y) = "lvm-snapshot" => Device(FsOf(y)) # Device(FsOf(x))

Dumps ==
  \A p \in Procs : pc[p] = "setup" /\ dumped[p] # {} =>
    \E x \in Did(p) : StepName(x) = "dump"

SetupInv == TypeOK /\ Runs /\ InOrder /\ Reached /\ HoldsSnaps /\ Dumps

(* What follows asks for a configuration in which volumes of two groups do *)
(* not share their name, and with it their mount point, and in which a     *)
(* plain file system names no group.  Nothing in the code refuses others.  *)

OwnMountPoints ==
  \A i, j \in DOMAIN Fs :
    Fs[i].vg # NoVg /\ Fs[j].vg # NoVg /\ Fs[i].volume = Fs[j].volume => Fs[i].vg = Fs[j].vg

PlainHasNoVg == \A i \in DOMAIN Fs : Fs[i].style = "plain" => Fs[i].vg = NoVg

\* One snapshot at most is mounted on a mount point, by the run that made it.
Mounts ==
  /\ \A d \in Devices : snap[d] # 0 => d[1] # NoVg
  /\ \A v \in Volumes : mnt[v] = <<>> \/
       \E d \in Devices : d[2] = v /\ snap[d] # 0 /\ mnt[v] = <<[dev |-> d, by |-> snap[d]]>>

\* A run has each of the mounts that it made and has not removed.
HoldsMounts ==
  \A p \in Procs : Active(p) => \A x \in Did(p) : StepName(x) = "mount-snapshot" =>
    /\ mnt[FsOf(x).volume] = <<[dev |-> Device(FsOf(x)), by |-> run[p]]>>
    /\ \A y \in Did(p) \ {x} :
         StepName(y) = "mount-snapshot" => FsOf(y).volume # FsOf(x).volume

\* Unless a command has failed, a run will undo whatever it has left so far.
Accounted ==
  \A p \in Procs : Active(p) /\ warned[p] = "no" =>
    /\ \A d \in Devices : snap[d] = run[p] =>
         \E x \in Did(p) : StepName(x) = "lvm-snapshot" /\ Device(FsOf(x)) = d
    /\ \A v \in Volumes : mnt[v] # <<>> /\ mnt[v][1].by = run[p] =>
         \E x \in Did(p) : StepName(x) = "mount-snapshot" /\ FsOf(x).volume = v

MachineInv == Mounts /\ HoldsMounts /\ Accounted /\ RightSource /\ LeavesNothing

IInv == SetupInv /\ (OwnMountPoints /\ PlainHasNoVg => MachineInv)

\* run.go:106: "All of the successfully performed steps, will be undone when
\* we're finished."
UndoneWhenFinished ==
  \A p \in Procs : ended[p] \in {"return", "panic"} /\ warned[p] = "no" => ~Left(p)
=============================================================================
