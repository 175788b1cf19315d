--------------------------- MODULE Manager_proofs ---------------------------
(***************************************************************************)
(* What managed backups guarantee for any list of file systems, any number *)
(* of processes and of runs, whatever commands fail and whoever dies.      *)
(***************************************************************************)
EXTENDS Manager, SequenceTheorems, TLAPS

-----------------------------------------------------------------------------
(* The plan. *)

(* The number of a stage and its name.                                     *)
LEMMA Stages ==
  /\ Len(sequence) = 7
  /\ \A x \in Plan :
       /\ x[1] \in 1..7 /\ x[2] \in DOMAIN Fs /\ x[2] \in Nat /\ x[1] \in Nat
       /\ x = <<x[1], x[2]>>
       /\ StepName(x) = "lvm-snapshot" <=> x[1] = 1
       /\ StepName(x) = "mount-snapshot" <=> x[1] = 2
       /\ StepName(x) = "dump" <=> x[1] = 7
<1>1. /\ Len(sequence) = 7 /\ sequence[1] = "lvm-snapshot" /\ sequence[2] = "mount-snapshot"
      /\ sequence[3] = "clean" /\ sequence[4] = "sure-update" /\ sequence[5] = "sure-write"
      /\ sequence[6] = "rsync" /\ sequence[7] = "dump"
  BY DEF sequence
<1>2. DOMAIN Fs \subseteq Nat
  BY ManagerAssumption DEF ManagerAssumption
<1>3. ASSUME NEW x \in Plan
      PROVE  /\ x[1] \in 1..7 /\ x[2] \in DOMAIN Fs /\ x[2] \in Nat /\ x[1] \in Nat
             /\ x = <<x[1], x[2]>>
  BY <1>1, <1>2 DEF Plan
<1>4. \A k \in 1..7 : k = 1 \/ k = 2 \/ k = 3 \/ k = 4 \/ k = 5 \/ k = 6 \/ k = 7
  OBVIOUS
<1>5. ASSUME NEW x \in Plan
      PROVE  /\ StepName(x) = "lvm-snapshot" <=> x[1] = 1
             /\ StepName(x) = "mount-snapshot" <=> x[1] = 2
             /\ StepName(x) = "dump" <=> x[1] = 7
  BY <1>1, <1>3, <1>4 DEF StepName
<1>6. QED
  BY <1>1, <1>3, <1>5

(* The steps are in a total order.                                         *)
LEMMA Order ==
  \A x, y, z \in Plan \cup {Nowhere} :
    /\ Before(x, y) /\ Before(y, z) => Before(x, z)
    /\ Before(x, y) => ~Before(y, x) /\ x # y
    /\ x = y \/ Before(x, y) \/ Before(y, x)
<1>1. \A x \in Plan \cup {Nowhere} : x[1] \in Nat /\ x[2] \in Nat /\ x = <<x[1], x[2]>>
  BY Stages DEF Nowhere
<1>2. QED
  BY <1>1 DEF Before

(* An ext4-lvm file system has its snapshot made, mounted, and dumped.     *)
LEMMA LvmSteps ==
  ASSUME NEW i \in DOMAIN Fs, Fs[i].style = "ext4-lvm"
  PROVE  /\ <<1, i>> \in Plan /\ StepName(<<1, i>>) = "lvm-snapshot"
         /\ <<2, i>> \in Plan /\ StepName(<<2, i>>) = "mount-snapshot"
         /\ FsOf(<<1, i>>) = Fs[i] /\ FsOf(<<2, i>>) = Fs[i]
  BY DEF Plan, StepsOf, sequence, StepName, FsOf

(* Only an ext4-lvm file system has a snapshot.                            *)
LEMMA OnlyLvm ==
  ASSUME NEW x \in Plan, StepName(x) \in {"lvm-snapshot", "mount-snapshot"}
  PROVE  FsOf(x).style = "ext4-lvm"
<1>1. StepName(x) \in StepsOf(FsOf(x))
  BY DEF Plan, StepName, FsOf
<1>2. StepName(x) \notin {"sure-update", "sure-write", "dump", "rsync"}
  OBVIOUS
<1>3. QED
  BY <1>1, <1>2 DEF StepsOf

LEMMA FsOfStep ==
  ASSUME NEW x \in Plan
  PROVE  /\ \E i \in DOMAIN Fs : FsOf(x) = Fs[i]
         /\ Device(FsOf(x)) \in Devices /\ FsOf(x).volume \in Volumes
         /\ Device(FsOf(x))[1] = FsOf(x).vg /\ Device(FsOf(x))[2] = FsOf(x).volume
<1>1. x[2] \in DOMAIN Fs
  BY Stages
<1>2. QED
  BY <1>1 DEF FsOf, Device, Devices, Volumes

-----------------------------------------------------------------------------
(* Sequences of steps. *)

LEMMA Added ==
  ASSUME NEW S, NEW s \in Seq(S), NEW x \in S
  PROVE  LET t == Append(s, x) IN
         /\ t \in Seq(S) /\ Range(t) = Range(s) \cup {x}
         /\ DOMAIN t = 1..(Len(s) + 1) /\ DOMAIN s = 1..Len(s) /\ Len(s) \in Nat
         /\ \A k \in 1..Len(s) : t[k] = s[k]
         /\ t[Len(s) + 1] = x
<1> DEFINE t == Append(s, x)
<1>1. /\ t \in Seq(S) /\ Len(t) = Len(s) + 1 /\ DOMAIN t = 1..Len(t)
      /\ DOMAIN s = 1..Len(s) /\ Len(s) \in Nat
      /\ \A k \in 1..Len(s) : t[k] = s[k]
      /\ t[Len(s) + 1] = x
  BY AppendProperties
<1> HIDE DEF t
<1>2. Range(t) = Range(s) \cup {x}
  <2>1. Range(t) \subseteq Range(s) \cup {x}
    BY <1>1 DEF Range
  <2>2. Range(s) \subseteq Range(t) /\ x \in Range(t)
    BY <1>1 DEF Range
  <2>3. QED
    BY <2>1, <2>2
<1>3. QED
  BY <1>1, <1>2 DEF t

LEMMA Taken ==
  ASSUME NEW S, NEW s \in Seq(S), s # <<>>
  PROVE  LET t == Front(s) IN
         /\ t \in Seq(S) /\ Last(s) \in Range(s) /\ Last(s) = s[Len(s)]
         /\ Len(s) \in Nat \ {0} /\ DOMAIN s = 1..Len(s) /\ DOMAIN t = 1..(Len(s) - 1)
         /\ Range(t) \subseteq Range(s) /\ Range(s) \subseteq Range(t) \cup {Last(s)}
         /\ \A k \in DOMAIN t : t[k] = s[k]
<1> DEFINE t == Front(s)
<1>1. Len(s) \in Nat \ {0} /\ DOMAIN s = 1..Len(s) /\ Last(s) = s[Len(s)]
  BY DEF Last
<1>2. \A k \in 1..(Len(s) - 1) : s[k] \in S
  BY <1>1
<1>3. /\ t \in Seq(S) /\ Len(t) = Len(s) - 1
      /\ \A k \in 1..Len(t) : t[k] = s[k]
  BY <1>1, <1>2, SubSeqProperties DEF Front
<1> HIDE DEF t
<1>4. DOMAIN t = 1..(Len(s) - 1)
  BY <1>1, <1>3
<1>5. Last(s) \in Range(s)
  BY <1>1 DEF Range
<1>6. Range(t) \subseteq Range(s)
  BY <1>1, <1>3, <1>4 DEF Range
<1>7. Range(s) \subseteq Range(t) \cup {Last(s)}
  <2>1. \A k \in DOMAIN s : k = Len(s) \/ k \in DOMAIN t
    BY <1>1, <1>4
  <2>2. QED
    BY <1>1, <1>3, <1>4, <2>1 DEF Range
<1>8. QED
  BY <1>1, <1>3, <1>4, <1>5, <1>6, <1>7 DEF t

(* The last step performed comes after all the others.                     *)
LEMMA LastOfAll ==
  ASSUME TypeOK, InOrder, NEW p \in Procs, performed[p] # <<>>
  PROVE  /\ Last(performed[p]) \in Plan /\ Last(performed[p]) \in Did(p)
         /\ Range(Front(performed[p])) = Did(p) \ {Last(performed[p])}
         /\ \A y \in Did(p) : y # Last(performed[p]) => Before(y, Last(performed[p]))
<1> DEFINE s == performed[p]
<1>1. s \in Seq(Plan) /\ s # <<>>
  BY DEF TypeOK
<1>2. \A k \in DOMAIN s : \A j \in 1..(k - 1) : Before(s[j], s[k])
  BY DEF InOrder
<1>3. Did(p) = Range(s)
  BY DEF Did
<1> HIDE DEF s
<1>4. /\ Front(s) \in Seq(Plan) /\ Last(s) \in Range(s) /\ Last(s) = s[Len(s)]
      /\ Len(s) \in Nat \ {0} /\ DOMAIN s = 1..Len(s) /\ DOMAIN Front(s) = 1..(Len(s) - 1)
      /\ Range(Front(s)) \subseteq Range(s) /\ Range(s) \subseteq Range(Front(s)) \cup {Last(s)}
      /\ \A k \in DOMAIN Front(s) : Front(s)[k] = s[k]
  BY <1>1, Taken
<1>5. Len(s) \in DOMAIN s
  BY <1>4
<1>6. \A y \in Range(Front(s)) : Before(y, Last(s))
  BY <1>2, <1>4, <1>5 DEF Range
<1>7. Last(s) \in Plan /\ Range(s) \subseteq Plan
  BY <1>1, <1>4, RangeOfSeq
<1>8. Last(s) \notin Range(Front(s))
  BY <1>6, <1>7, Order
<1>9. QED
  BY <1>3, <1>4, <1>6, <1>7, <1>8 DEF s

-----------------------------------------------------------------------------
(* What a step does, kind by kind. *)

LEMMA Performing ==
  ASSUME NEW p \in Procs, NEW x \in Plan, Performs(p, x)
  PROVE  \/ /\ StepName(x) = "lvm-snapshot"
            /\ FsOf(x).vg # NoVg /\ snap[Device(FsOf(x))] = 0
            /\ snap' = [snap EXCEPT ![Device(FsOf(x))] = run[p]]
            /\ mnt' = mnt /\ dumped' = dumped
         \/ /\ StepName(x) = "mount-snapshot"
            /\ snap[Device(FsOf(x))] # 0 /\ ~Mounted(Device(FsOf(x)))
            /\ mnt' = [mnt EXCEPT ![FsOf(x).volume] =
                         Append(@, [dev |-> Device(FsOf(x)), by |-> run[p]])]
            /\ snap' = snap /\ dumped' = dumped
         \/ /\ StepName(x) = "dump"
            /\ dumped' = [dumped EXCEPT ![p] =
                            @ \cup {[fs |-> FsOf(x), from |-> Visible(FsOf(x))]}]
            /\ snap' = snap /\ mnt' = mnt
         \/ /\ StepName(x) \notin {"lvm-snapshot", "mount-snapshot", "dump"}
            /\ snap' = snap /\ mnt' = mnt /\ dumped' = dumped
<1>1. CASE StepName(x) = "lvm-snapshot"
  BY <1>1 DEF Performs, LvCreate
<1>2. CASE StepName(x) = "mount-snapshot"
  BY <1>2 DEF Performs, MountSnap
<1>3. CASE StepName(x) = "dump"
  BY <1>3 DEF Performs, world
<1>4. CASE StepName(x) \notin {"lvm-snapshot", "mount-snapshot", "dump"}
  BY <1>4 DEF Performs, world
<1>5. QED
  BY <1>1, <1>2, <1>3, <1>4

LEMMA Undone ==
  ASSUME NEW p \in Procs, Undo(p)
  PROVE  LET x == Last(performed[p]) IN
         /\ pc[p] = "undo" /\ performed[p] # <<>>
         /\ performed' = [performed EXCEPT ![p] = Front(@)]
         /\ UNCHANGED <<pc, at, run, runs, dumped, ended>>
         /\ \/ /\ StepName(x) = "lvm-snapshot" /\ CanLvRemove(FsOf(x))
               /\ snap' = [snap EXCEPT ![Device(FsOf(x))] = 0]
               /\ mnt' = mnt /\ warned' = warned
            \/ /\ StepName(x) = "mount-snapshot" /\ CanUmount(FsOf(x))
               /\ mnt' = [mnt EXCEPT ![FsOf(x).volume] = Front(@)]
               /\ snap' = snap /\ warned' = warned
            \/ /\ StepName(x) \notin {"lvm-snapshot", "mount-snapshot"}
               /\ snap' = snap /\ mnt' = mnt /\ warned' = warned
            \/ /\ StepName(x) \in {"lvm-snapshot", "mount-snapshot"}
               /\ snap' = snap /\ mnt' = mnt
               /\ warned' = [warned EXCEPT ![p] = IF @ # "no" THEN @
                                                 ELSE IF CanUndo(x) THEN "flaky" ELSE "blocked"]
<1> DEFINE x == Last(performed[p])
<1>1. /\ pc[p] = "undo" /\ performed[p] # <<>>
      /\ performed' = [performed EXCEPT ![p] = Front(@)]
      /\ UNCHANGED <<pc, at, run, runs, dumped, ended>>
  BY DEF Undo
<1>2. CASE CanUndo(x) /\ Undoes(x) /\ UNCHANGED warned
  <2>1. CASE StepName(x) = "lvm-snapshot"
    BY <1>1, <1>2, <2>1 DEF CanUndo, Undoes, LvRemove
  <2>2. CASE StepName(x) = "mount-snapshot"
    BY <1>1, <1>2, <2>2 DEF CanUndo, Undoes, Umount
  <2>3. CASE StepName(x) \notin {"lvm-snapshot", "mount-snapshot"}
    BY <1>1, <1>2, <2>3 DEF Undoes, world
  <2> HIDE DEF x
  <2>4. QED
    BY <1>1, <2>1, <2>2, <2>3 DEF x
<1>3. CASE ~(CanUndo(x) /\ Undoes(x) /\ UNCHANGED warned)
  BY <1>1, <1>3 DEF Undo, world
<1>4. QED
  BY <1>2, <1>3

-----------------------------------------------------------------------------
(* The steps performed, in any configuration. *)

LEMMA SetupInvInit == Init => SetupInv
<1> SUFFICES ASSUME Init PROVE SetupInv
  OBVIOUS
<1>1. TypeOK
  <2>1. runs \in 0..MaxRuns
    BY ManagerAssumption DEF ManagerAssumption, Init
  <2>2. <<>> \in Seq(Plan) /\ <<>> \in Seq([dev : Devices, by : 1..runs])
    OBVIOUS
  <2>3. QED
    BY <2>1, <2>2 DEF Init, TypeOK
<1>2. Runs /\ InOrder /\ Reached /\ HoldsSnaps /\ Dumps
  BY DEF Init, Runs, InOrder, Reached, HoldsSnaps, Dumps, Active
<1>3. QED
  BY <1>1, <1>2 DEF SetupInv

(* A process that begins or ends something.                                *)
LEMMA SetupInvTurns ==
  ASSUME SetupInv, UNCHANGED <<world, at, performed, run, runs, dumped, warned>>,
         pc' \in [Procs -> {"idle", "setup", "undo"}],
         ended' \in [Procs -> {"-", "return", "panic", "kill"}],
         \A q \in Procs : /\ pc'[q] = "setup" => pc[q] = "setup"
                          /\ pc'[q] # "idle" => pc[q] # "idle" /\ ended'[q] = ended[q]
  PROVE  SetupInv'
<1>1. /\ snap' = snap /\ mnt' = mnt /\ at' = at /\ performed' = performed /\ run' = run
      /\ runs' = runs /\ dumped' = dumped /\ warned' = warned
  BY DEF world
<1>2. TypeOK'
  BY <1>1 DEF SetupInv, TypeOK
<1>3. Runs' /\ InOrder'
  BY <1>1 DEF SetupInv, Runs, InOrder, Active
<1>4. Reached' /\ HoldsSnaps' /\ Dumps'
  BY <1>1 DEF SetupInv, Reached, HoldsSnaps, Dumps, Active, Did
<1>5. QED
  BY <1>2, <1>3, <1>4 DEF SetupInv

LEMMA SetupInvStart ==
  ASSUME SetupInv, NEW p \in Procs, Start(p)
  PROVE  SetupInv'
<1>1. /\ pc[p] = "idle" /\ runs < MaxRuns /\ runs' = runs + 1
      /\ run' = [run EXCEPT ![p] = runs + 1]
      /\ pc' = [pc EXCEPT ![p] = "setup"]
      /\ at' = [at EXCEPT ![p] = Nowhere]
      /\ performed' = [performed EXCEPT ![p] = <<>>]
      /\ dumped' = [dumped EXCEPT ![p] = {}]
      /\ warned' = [warned EXCEPT ![p] = "no"]
      /\ ended' = [ended EXCEPT ![p] = "-"]
      /\ snap' = snap /\ mnt' = mnt
  BY DEF Start, world
<1>2. TypeOK
  BY DEF SetupInv
<1>3. /\ runs \in Nat /\ MaxRuns \in Nat /\ runs' \in 0..MaxRuns /\ runs + 1 \in 0..runs'
      /\ 0..runs \subseteq 0..runs' /\ 1..runs \subseteq 1..runs'
  BY <1>1, <1>2, ManagerAssumption DEF ManagerAssumption, TypeOK
<1>4. TypeOK'
  <2>1. Seq([dev : Devices, by : 1..runs]) \subseteq Seq([dev : Devices, by : 1..runs'])
    <3>1. \A S, T : S \subseteq T => Seq(S) \subseteq Seq(T)
      OBVIOUS
    <3>2. [dev : Devices, by : 1..runs] \subseteq [dev : Devices, by : 1..runs']
      BY <1>3
    <3>3. QED
      BY <3>1, <3>2
  <2>2. snap' \in [Devices -> 0..runs'] /\ mnt' \in [Volumes -> Seq([dev : Devices, by : 1..runs'])]
    BY <1>1, <1>2, <1>3, <2>1 DEF TypeOK
  <2>3. run' \in [Procs -> 0..runs']
    BY <1>1, <1>2, <1>3 DEF TypeOK
  <2>4. <<>> \in Seq(Plan)
    OBVIOUS
  <2>5. QED
    BY <1>1, <1>2, <1>3, <2>2, <2>3, <2>4 DEF TypeOK
<1>5. Runs'
  <2>1. \A q \in Procs : run[q] \in Nat /\ run[q] <= runs
    BY <1>2, <1>3 DEF TypeOK
  <2>2. /\ run'[p] = runs + 1 /\ ended'[p] = "-"
        /\ \A q \in Procs \ {p} : run'[q] = run[q] /\ pc'[q] = pc[q] /\ ended'[q] = ended[q]
    BY <1>1, <1>2 DEF TypeOK
  <2>3. \A q \in Procs \ {p} : run'[q] # run'[p]
    BY <1>3, <2>1, <2>2
  <2>4. run'[p] # 0
    BY <1>3, <2>2
  <2>5. QED
    BY <2>2, <2>3, <2>4 DEF SetupInv, Runs, Active
<1>6. /\ performed'[p] = <<>> /\ dumped'[p] = {} /\ at'[p] = Nowhere
      /\ \A q \in Procs \ {p} : /\ performed'[q] = performed[q] /\ dumped'[q] = dumped[q]
                                /\ at'[q] = at[q] /\ pc'[q] = pc[q] /\ run'[q] = run[q]
  BY <1>1, <1>2 DEF TypeOK
<1>7. InOrder'
  BY <1>6 DEF SetupInv, InOrder
<1>8. Reached'
  <2>1. ASSUME NEW x \in Plan PROVE x # Nowhere /\ ~Before(x, Nowhere)
    BY Stages DEF Nowhere, Before
  <2>2. Did(p)' = {}
    BY <1>6 DEF Did, Range
  <2>3. Did(p)' = {x \in Plan : x = at'[p] \/ Before(x, at'[p])}
    BY <1>6, <2>1, <2>2
  <2>4. QED
    BY <1>6, <2>3 DEF SetupInv, Reached, Did
<1>9. HoldsSnaps' /\ Dumps'
  BY <1>1, <1>6 DEF SetupInv, HoldsSnaps, Dumps, Active, Did, Range
<1>10. QED
  BY <1>4, <1>5, <1>7, <1>8, <1>9 DEF SetupInv

(* The loops have performed what comes before the step they are at.        *)
LEMMA Behind ==
  ASSUME SetupInv, NEW p \in Procs, NEW x \in Plan, Reaches(p, x)
  PROVE  /\ Did(p) = {y \in Plan : Before(y, x)}
         /\ Did(p) \cup {x} = {y \in Plan : y = x \/ Before(y, x)}
         /\ x \notin Did(p)
<1>1. Did(p) = {y \in Plan : y = at[p] \/ Before(y, at[p])}
  BY DEF SetupInv, Reached, Reaches
<1>2. at[p] \in Plan \cup {Nowhere} /\ Before(at[p], x)
  BY DEF SetupInv, TypeOK, Reaches
<1>3. \A y \in Plan : Before(at[p], y) => y = x \/ Before(x, y)
  BY DEF Reaches
<1>4. ASSUME NEW y \in Plan PROVE (y = at[p] \/ Before(y, at[p])) <=> Before(y, x)
  BY <1>2, <1>3, Order
<1>5. Did(p) = {y \in Plan : Before(y, x)}
  BY <1>1, <1>4
<1>6. ~Before(x, x)
  BY Order
<1>7. QED
  BY <1>5, <1>6

LEMMA SetupInvSetup ==
  ASSUME SetupInv, NEW p \in Procs, Setup(p)
  PROVE  SetupInv'
<1>1. PICK x \in Plan :
        /\ Reaches(p, x) /\ Performs(p, x)
        /\ performed' = [performed EXCEPT ![p] = Append(@, x)]
        /\ at' = [at EXCEPT ![p] = x]
        /\ UNCHANGED <<pc, run, runs, warned, ended>>
  BY DEF Setup
<1>2. TypeOK
  BY DEF SetupInv
<1> DEFINE fs == FsOf(x)
<1>3. Device(fs) \in Devices /\ fs.volume \in Volumes
  BY FsOfStep
<1>4. pc[p] = "setup" /\ run[p] \in 1..runs /\ run[p] # 0
  BY <1>1, <1>2 DEF Reaches, SetupInv, Runs, Active, TypeOK
<1>5. /\ performed'[p] \in Seq(Plan) /\ Did(p)' = Did(p) \cup {x}
      /\ DOMAIN performed'[p] = 1..(Len(performed[p]) + 1)
      /\ DOMAIN performed[p] = 1..Len(performed[p]) /\ Len(performed[p]) \in Nat
      /\ \A k \in 1..Len(performed[p]) : performed'[p][k] = performed[p][k]
      /\ performed'[p][Len(performed[p]) + 1] = x
  <2>1. performed[p] \in Seq(Plan) /\ performed'[p] = Append(performed[p], x)
    BY <1>1, <1>2 DEF TypeOK
  <2>2. QED
    BY <2>1, Added DEF Did
<1>6. \A q \in Procs \ {p} : performed'[q] = performed[q] /\ at'[q] = at[q] /\ Did(q)' = Did(q)
  BY <1>1, <1>2 DEF TypeOK, Did
<1>7. at'[p] = x /\ pc' = pc /\ run' = run /\ runs' = runs /\ ended' = ended
  BY <1>1, <1>2 DEF TypeOK
<1>8. TypeOK'
  <2>1. performed' \in [Procs -> Seq(Plan)] /\ at' \in [Procs -> Plan \cup {Nowhere}]
    BY <1>1, <1>2, <1>5 DEF TypeOK
  <2>2. snap' \in [Devices -> 0..runs]
    BY <1>1, <1>2, <1>4, Performing DEF TypeOK
  <2>3. mnt' \in [Volumes -> Seq([dev : Devices, by : 1..runs])]
    <3>1. PICK m : m = [dev |-> Device(fs), by |-> run[p]]
      OBVIOUS
    <3>2. m \in [dev : Devices, by : 1..runs]
      BY <1>3, <1>4, <3>1
    <3>3. mnt' = mnt \/ mnt' = [mnt EXCEPT ![fs.volume] = Append(@, m)]
      BY <1>1, <3>1, Performing
    <3>4. mnt[fs.volume] \in Seq([dev : Devices, by : 1..runs])
      BY <1>2, <1>3 DEF TypeOK
    <3>5. Append(mnt[fs.volume], m) \in Seq([dev : Devices, by : 1..runs])
      BY <3>2, <3>4, AppendProperties
    <3> HIDE DEF fs
    <3>6. QED
      BY <1>2, <3>3, <3>5 DEF TypeOK
  <2>4. DOMAIN dumped' = Procs
    BY <1>1, <1>2, Performing DEF TypeOK
  <2>5. QED
    BY <1>1, <1>2, <2>1, <2>2, <2>3, <2>4 DEF TypeOK
<1>9. Runs'
  BY <1>7 DEF SetupInv, Runs, Active
<1>10. Did(p) = {y \in Plan : Before(y, x)} /\ x \notin Did(p)
       /\ Did(p)' = {y \in Plan : y = x \/ Before(y, x)}
  BY <1>1, <1>5, Behind
<1>11. InOrder'
  <2>1. ASSUME NEW k \in DOMAIN performed'[p], NEW j \in 1..(k - 1)
        PROVE  Before(performed'[p][j], performed'[p][k])
    <3>1. j \in 1..Len(performed[p]) /\ performed'[p][j] = performed[p][j]
      BY <1>5
    <3>2. CASE k \in DOMAIN performed[p]
      BY <1>5, <3>1, <3>2 DEF SetupInv, InOrder
    <3>3. CASE k = Len(performed[p]) + 1
      <4>1. performed[p][j] \in Did(p)
        BY <1>5, <3>1 DEF Did, Range
      <4>2. QED
        BY <1>5, <1>10, <3>1, <3>3, <4>1
    <3>4. QED
      BY <1>5, <3>2, <3>3
  <2>2. QED
    BY <1>6, <2>1 DEF SetupInv, InOrder
<1>12. Reached'
  BY <1>6, <1>7, <1>10 DEF SetupInv, Reached
<1>13. HoldsSnaps'
  <2>1. CASE StepName(x) = "lvm-snapshot"
    <3>1. /\ fs.vg # NoVg /\ snap[Device(fs)] = 0
          /\ snap' = [snap EXCEPT ![Device(fs)] = run[p]]
      BY <1>1, <2>1, Performing
    <3>2. ASSUME NEW q \in Procs, Active(q), NEW y \in Did(q), StepName(y) = "lvm-snapshot"
          PROVE  /\ Device(FsOf(y)) # Device(fs) /\ FsOf(y).vg # NoVg
                 /\ snap'[Device(FsOf(y))] = run[q]
                 /\ \A z \in Did(q) \ {y} :
                      StepName(z) = "lvm-snapshot" => Device(FsOf(z)) # Device(FsOf(y))
      <4>1. snap[Device(FsOf(y))] = run[q] /\ run[q] # 0
        BY <3>2 DEF SetupInv, HoldsSnaps, Runs
      <4>2. Device(FsOf(y)) # Device(fs)
        BY <3>1, <4>1
      <4> HIDE DEF fs
      <4>3. snap'[Device(FsOf(y))] = run[q]
        BY <1>2, <3>1, <4>1, <4>2 DEF TypeOK
      <4>4. QED
        BY <3>2, <4>2, <4>3 DEF SetupInv, HoldsSnaps
    <3>3. snap'[Device(fs)] = run[p]
      BY <1>2, <1>3, <3>1 DEF TypeOK
    <3>4. QED
      BY <1>5, <1>6, <1>7, <3>1, <3>2, <3>3 DEF HoldsSnaps, Active
  <2>2. CASE StepName(x) # "lvm-snapshot"
    <3>1. snap' = snap
      BY <1>1, <2>2, Performing
    <3>2. QED
      BY <1>5, <1>6, <1>7, <2>2, <3>1 DEF SetupInv, HoldsSnaps, Active
  <2>3. QED
    BY <2>1, <2>2
<1>14. Dumps'
  <2>1. \A q \in Procs \ {p} : dumped'[q] = dumped[q]
    BY <1>1, <1>2, Performing DEF TypeOK
  <2>2. dumped'[p] = dumped[p] \/ StepName(x) = "dump"
    BY <1>1, <1>2, Performing DEF TypeOK
  <2>3. QED
    BY <1>5, <1>6, <1>7, <2>1, <2>2 DEF SetupInv, Dumps
<1>15. QED
  BY <1>8, <1>9, <1>11, <1>12, <1>13, <1>14 DEF SetupInv


(* A mount point of which the visible mount is removed.                    *)
LEMMA MountsLeft ==
  ASSUME TypeOK, NEW v \in Volumes, mnt[v] # <<>>, mnt' = [mnt EXCEPT ![v] = Front(@)]
  PROVE  mnt' \in [Volumes -> Seq([dev : Devices, by : 1..runs])]
<1>1. PICK S : S = [dev : Devices, by : 1..runs]
  OBVIOUS
<1>2. mnt \in [Volumes -> Seq(S)]
  BY <1>1 DEF TypeOK
<1>3. Front(mnt[v]) \in Seq(S)
  BY <1>2, Taken
<1>4. QED
  BY <1>1, <1>2, <1>3

LEMMA SetupInvUndo ==
  ASSUME SetupInv, NEW p \in Procs, Undo(p)
  PROVE  SetupInv'
<1>1. PICK x : x = Last(performed[p])
  OBVIOUS
<1>2. TypeOK /\ InOrder
  BY DEF SetupInv
<1>3. /\ pc[p] = "undo" /\ performed[p] # <<>>
      /\ performed' = [performed EXCEPT ![p] = Front(@)]
      /\ UNCHANGED <<pc, at, run, runs, dumped, ended>>
  BY Undone
<1>4. /\ x \in Plan /\ x \in Did(p) /\ Range(Front(performed[p])) = Did(p) \ {x}
  BY <1>1, <1>2, <1>3, LastOfAll
<1>5. /\ performed'[p] = Front(performed[p]) /\ Did(p)' = Did(p) \ {x}
      /\ \A q \in Procs \ {p} : performed'[q] = performed[q] /\ Did(q)' = Did(q)
  BY <1>2, <1>3, <1>4 DEF TypeOK, Did
<1>6. /\ performed'[p] \in Seq(Plan)
      /\ \A k \in DOMAIN performed'[p] : performed'[p][k] = performed[p][k]
      /\ DOMAIN performed'[p] = 1..(Len(performed[p]) - 1)
      /\ DOMAIN performed[p] = 1..Len(performed[p]) /\ Len(performed[p]) \in Nat \ {0}
  <2>1. performed[p] \in Seq(Plan)
    BY <1>2 DEF TypeOK
  <2>2. QED
    BY <1>3, <1>5, <2>1, Taken
<1> DEFINE fs == FsOf(x)
<1>7. Device(fs) \in Devices /\ fs.volume \in Volumes
  BY <1>4, FsOfStep
<1>8. TypeOK'
  <2>1. performed' \in [Procs -> Seq(Plan)]
    BY <1>2, <1>3, <1>6 DEF TypeOK
  <2>2. snap' \in [Devices -> 0..runs]
    <3>1. snap' = snap \/ snap' = [snap EXCEPT ![Device(fs)] = 0]
      BY <1>1, Undone
    <3>2. 0 \in 0..runs
      BY <1>2, ManagerAssumption DEF ManagerAssumption, TypeOK
    <3> HIDE DEF fs
    <3>3. QED
      BY <1>2, <3>1, <3>2 DEF TypeOK
  <2>3. mnt' \in [Volumes -> Seq([dev : Devices, by : 1..runs])]
    <3>1. \/ mnt' = mnt
          \/ mnt[fs.volume] # <<>> /\ mnt' = [mnt EXCEPT ![fs.volume] = Front(@)]
      BY <1>1, Undone DEF CanUmount
    <3> HIDE DEF fs
    <3>2. QED
      BY <1>2, <1>7, <3>1, MountsLeft DEF TypeOK
  <2>4. warned' \in [Procs -> {"no", "flaky", "blocked"}]
    <3>1. \/ warned' = warned
          \/ \E w \in {"no", "flaky", "blocked"} : warned' = [warned EXCEPT ![p] = w]
      <4>1. \/ warned' = warned
            \/ warned' = [warned EXCEPT ![p] = IF @ # "no" THEN @
                                              ELSE IF CanUndo(x) THEN "flaky" ELSE "blocked"]
        BY <1>1, Undone
      <4>2. warned[p] \in {"no", "flaky", "blocked"}
        BY <1>2 DEF TypeOK
      <4>3. QED
        BY <4>1, <4>2
    <3>2. QED
      BY <1>2, <3>1 DEF TypeOK
  <2>5. QED
    BY <1>2, <1>3, <2>1, <2>2, <2>3, <2>4 DEF TypeOK
<1>9. Runs'
  BY <1>3 DEF SetupInv, Runs, Active
<1>10. InOrder'
  <2>1. ASSUME NEW k \in DOMAIN performed'[p], NEW j \in 1..(k - 1)
        PROVE  Before(performed'[p][j], performed'[p][k])
    <3>1. k \in DOMAIN performed[p] /\ j \in DOMAIN performed'[p]
      BY <1>6
    <3>2. QED
      BY <1>6, <3>1 DEF SetupInv, InOrder
  <2>2. QED
    BY <1>5, <2>1 DEF SetupInv, InOrder
<1>11. Reached' /\ Dumps'
  BY <1>3, <1>5 DEF SetupInv, Reached, Dumps
<1>12. HoldsSnaps'
  <2>1. ASSUME NEW q \in Procs, Active(q), NEW y \in Did(q)', StepName(y) = "lvm-snapshot"
        PROVE  /\ snap'[Device(FsOf(y))] = run[q] /\ FsOf(y).vg # NoVg
               /\ \A z \in Did(q)' \ {y} :
                    StepName(z) = "lvm-snapshot" => Device(FsOf(z)) # Device(FsOf(y))
    <3>1. y \in Did(q) /\ Did(q)' \subseteq Did(q) /\ (q = p => y # x)
      BY <1>5
    <3>2. /\ snap[Device(FsOf(y))] = run[q] /\ FsOf(y).vg # NoVg
          /\ \A z \in Did(q) \ {y} :
               StepName(z) = "lvm-snapshot" => Device(FsOf(z)) # Device(FsOf(y))
      BY <2>1, <3>1 DEF SetupInv, HoldsSnaps
    <3>3. snap'[Device(FsOf(y))] = snap[Device(FsOf(y))]
      <4>1. CASE snap' = snap
        BY <4>1
      <4>2. CASE snap' # snap
        <5>1. StepName(x) = "lvm-snapshot" /\ snap' = [snap EXCEPT ![Device(fs)] = 0]
          BY <1>1, <4>2, Undone
        <5>2. snap[Device(fs)] = run[p] /\ run[p] # 0
          BY <1>3, <1>4, <5>1 DEF SetupInv, HoldsSnaps, Runs, Active
        <5>3. Device(FsOf(y)) # Device(fs)
          <6>1. CASE q = p
            BY <1>4, <3>1, <3>2, <5>1, <6>1
          <6>2. CASE q # p
            BY <3>2, <5>2, <6>2 DEF SetupInv, Runs
          <6>3. QED
            BY <6>1, <6>2
        <5> HIDE DEF fs
        <5>4. QED
          BY <5>1, <5>3
      <4>3. QED
        BY <4>1, <4>2
    <3>4. QED
      BY <3>1, <3>2, <3>3
  <2>2. QED
    BY <1>3, <2>1 DEF HoldsSnaps, Active
<1>13. QED
  BY <1>8, <1>9, <1>10, <1>11, <1>12 DEF SetupInv

LEMMA SetupInvCleanUp ==
  ASSUME SetupInv, NEW i \in DOMAIN Fs, CleanUp(Fs[i])
  PROVE  SetupInv'
<1>1. /\ \A q \in Procs : pc[q] = "idle"
      /\ UNCHANGED <<pc, at, performed, run, runs, dumped, warned, ended>>
  BY DEF CleanUp, NobodyRuns
<1>2. Device(Fs[i]) \in Devices /\ Fs[i].volume \in Volumes
  BY DEF Device, Devices, Volumes
<1>3. TypeOK
  BY DEF SetupInv
<1>4. TypeOK'
  <2>1. CASE CanUmount(Fs[i]) /\ Umount(Fs[i])
    <3>1. /\ mnt[Fs[i].volume] # <<>> /\ mnt' = [mnt EXCEPT ![Fs[i].volume] = Front(@)]
          /\ snap' = snap
      BY <2>1 DEF CanUmount, Umount
    <3>2. mnt' \in [Volumes -> Seq([dev : Devices, by : 1..runs])]
      BY <1>2, <1>3, <3>1, MountsLeft
    <3>3. QED
      BY <1>1, <1>3, <3>1, <3>2 DEF TypeOK
  <2>2. CASE CanLvRemove(Fs[i]) /\ LvRemove(Fs[i])
    <3>1. snap' = [snap EXCEPT ![Device(Fs[i])] = 0] /\ mnt' = mnt
      BY <2>2 DEF LvRemove
    <3>2. 0 \in 0..runs
      BY <1>3, ManagerAssumption DEF ManagerAssumption, TypeOK
    <3>3. snap' \in [Devices -> 0..runs]
      BY <1>3, <3>1, <3>2 DEF TypeOK
    <3>4. QED
      BY <1>1, <1>3, <3>1, <3>3 DEF TypeOK
  <2>3. QED
    BY <2>1, <2>2 DEF CleanUp
<1>5. Runs' /\ InOrder' /\ Reached' /\ HoldsSnaps' /\ Dumps'
  BY <1>1 DEF SetupInv, Runs, InOrder, Reached, HoldsSnaps, Dumps, Active
<1>6. QED
  BY <1>4, <1>5 DEF SetupInv

LEMMA SetupInvTurn ==
  ASSUME SetupInv, NEW p \in Procs, EndSetup(p) \/ Panic(p) \/ Return(p) \/ Kill(p)
  PROVE  SetupInv'
<1>1. /\ UNCHANGED <<world, at, performed, run, runs, dumped, warned>>
      /\ \/ pc[p] = "setup" /\ pc' = [pc EXCEPT ![p] = "undo"] /\ ended' = ended
         \/ /\ pc' = [pc EXCEPT ![p] = "idle"]
            /\ \E how \in {"return", "panic", "kill"} : ended' = [ended EXCEPT ![p] = how]
  BY DEF EndSetup, Panic, Return, Kill
<1>2. TypeOK
  BY DEF SetupInv
<1>3. pc' \in [Procs -> {"idle", "setup", "undo"}]
  BY <1>1, <1>2 DEF TypeOK
<1>4. ended' \in [Procs -> {"-", "return", "panic", "kill"}]
  BY <1>1, <1>2 DEF TypeOK
<1>5. \A q \in Procs : /\ pc'[q] = "setup" => pc[q] = "setup"
                       /\ pc'[q] # "idle" => pc[q] # "idle" /\ ended'[q] = ended[q]
  BY <1>1, <1>2 DEF TypeOK
<1>6. QED
  BY <1>1, <1>3, <1>4, <1>5, SetupInvTurns

LEMMA SetupInvNext == SetupInv /\ [Next]_vars => SetupInv'
<1> SUFFICES ASSUME SetupInv, [Next]_vars PROVE SetupInv'
  OBVIOUS
<1>1. ASSUME NEW p \in Procs, Step(p) PROVE SetupInv'
  BY <1>1, SetupInvStart, SetupInvSetup, SetupInvTurn, SetupInvUndo DEF Step
<1>2. ASSUME NEW i \in DOMAIN Fs, CleanUp(Fs[i]) PROVE SetupInv'
  BY <1>2, SetupInvCleanUp
<1>3. CASE UNCHANGED vars
  <2>1. UNCHANGED <<world, at, performed, run, runs, dumped, warned>> /\ pc' = pc /\ ended' = ended
    BY <1>3 DEF vars
  <2>2. QED
    BY <2>1, SetupInvTurns DEF SetupInv, TypeOK
<1>4. QED
  BY <1>1, <1>2, <1>3 DEF Next

(* The first dump of a run comes after the last of its snapshots: all of   *)
(* them are there while it dumps.                                          *)
LEMMA FrozenFirst == SetupInv => AllFrozen
<1> SUFFICES ASSUME SetupInv, NEW p \in Procs, pc[p] = "setup", dumped[p] # {},
                    NEW i \in DOMAIN Fs, Fs[i].style = "ext4-lvm"
             PROVE  snap[Device(Fs[i])] = run[p]
  BY DEF AllFrozen
<1>1. PICK x \in Did(p) : StepName(x) = "dump"
  BY DEF SetupInv, Dumps
<1>2. x \in Plan /\ (x = at[p] \/ Before(x, at[p])) /\ at[p] \in Plan \cup {Nowhere}
  BY DEF SetupInv, Reached, TypeOK
<1>3. PICK y : y = <<1, i>>
  OBVIOUS
<1>4. y \in Plan /\ StepName(y) = "lvm-snapshot" /\ FsOf(y) = Fs[i]
  BY <1>3, LvmSteps
<1>5. Before(y, x)
  BY <1>1, <1>2, <1>4, Stages DEF Before
<1>6. Before(y, at[p])
  BY <1>2, <1>4, <1>5, Order
<1>7. y \in Did(p)
  BY <1>4, <1>6 DEF SetupInv, Reached
<1>8. QED
  BY <1>4, <1>7 DEF SetupInv, HoldsSnaps, Active


(* Under the configurations of IInv's hypothesis, a mount point is that of *)
(* one device.                                                             *)
LEMMA OwnDevice ==
  ASSUME OwnMountPoints, NEW d \in Devices, NEW e \in Devices,
         d[1] # NoVg, e[1] # NoVg, d[2] = e[2]
  PROVE  d = e
<1>1. PICK i \in DOMAIN Fs : d = <<Fs[i].vg, Fs[i].volume>>
  BY DEF Devices
<1>2. PICK j \in DOMAIN Fs : e = <<Fs[j].vg, Fs[j].volume>>
  BY DEF Devices
<1>3. Fs[i].vg = Fs[j].vg
  BY <1>1, <1>2 DEF OwnMountPoints
<1>4. QED
  BY <1>1, <1>2, <1>3

(* A snapshot that exists and is not mounted: its mount point is free, and *)
(* the other way round.                                                    *)
LEMMA FreeMountPoint ==
  ASSUME OwnMountPoints, TypeOK, Mounts, NEW d \in Devices, d[2] \in Volumes, snap[d] # 0
  PROVE  /\ ~Mounted(d) => mnt[d[2]] = <<>>
         /\ Mounted(d) => mnt[d[2]] = <<[dev |-> d, by |-> snap[d]]>>
<1>1. ASSUME mnt[d[2]] # <<>>
      PROVE  mnt[d[2]] = <<[dev |-> d, by |-> snap[d]]>> /\ Mounted(d)
  <2>1. PICK e \in Devices :
          e[2] = d[2] /\ snap[e] # 0 /\ mnt[d[2]] = <<[dev |-> e, by |-> snap[e]]>>
    BY <1>1 DEF Mounts
  <2>2. e = d
    BY <2>1, OwnDevice DEF Mounts
  <2>3. 1 \in DOMAIN mnt[d[2]] /\ mnt[d[2]][1].dev = d
    BY <2>1, <2>2
  <2>4. QED
    BY <2>1, <2>2, <2>3 DEF Mounted
<1>2. ASSUME Mounted(d) PROVE mnt[d[2]] # <<>>
  <2>1. PICK v \in Volumes : \E k \in DOMAIN mnt[v] : mnt[v][k].dev = d
    BY <1>2 DEF Mounted
  <2>2. mnt[v] # <<>>
    BY <2>1
  <2>3. PICK e \in Devices : e[2] = v /\ mnt[v] = <<[dev |-> e, by |-> snap[e]]>>
    BY <2>2 DEF Mounts
  <2>4. e = d
    BY <2>1, <2>3
  <2>5. QED
    BY <2>2, <2>3, <2>4
<1>3. QED
  BY <1>1, <1>2

LEMMA OneMount == \A m : <<m>> # <<>> /\ Len(<<m>>) = 1 /\ Last(<<m>>) = m
  BY DEF Last

LEMMA FrontOfOne == \A m : Front(<<m>>) = <<>>
<1> TAKE m
<1>1. Front(<<m>>) = SubSeq(<<m>>, 1, 0)
  BY DEF Front
<1>2. <<m>> \in Seq({m})
  OBVIOUS
<1>3. SubSeq(<<m>>, 1, 0) = <<>>
  BY <1>2, SubSeqProperties
<1>4. QED
  BY <1>1, <1>3


-----------------------------------------------------------------------------
(* What a run holds, step by step. *)

LEMMA MachineInvStart ==
  ASSUME SetupInv, MachineInv, NEW p \in Procs, Start(p)
  PROVE  MachineInv'
<1>1. TypeOK /\ runs \in Nat
  <2>1. TypeOK
    BY DEF SetupInv
  <2>2. runs \in 0..MaxRuns
    BY <2>1 DEF TypeOK
  <2>3. MaxRuns \in Nat
    BY ManagerAssumption DEF ManagerAssumption
  <2>4. QED
    BY <2>1, <2>2, <2>3
<1>2. /\ snap' = snap /\ mnt' = mnt
      /\ run'[p] = runs + 1 /\ performed'[p] = <<>> /\ dumped'[p] = {}
      /\ warned'[p] = "no" /\ ended'[p] = "-"
      /\ \A q \in Procs \ {p} :
           /\ run'[q] = run[q] /\ performed'[q] = performed[q] /\ dumped'[q] = dumped[q]
           /\ warned'[q] = warned[q] /\ ended'[q] = ended[q] /\ pc'[q] = pc[q]
  BY <1>1 DEF Start, world, TypeOK
<1>3. Mounts'
  BY <1>2 DEF MachineInv, Mounts
<1>4. Did(p)' = {} /\ \A q \in Procs \ {p} : Did(q)' = Did(q)
  BY <1>2 DEF Did, Range
<1>5. HoldsMounts'
  BY <1>2, <1>4 DEF MachineInv, HoldsMounts, Active
<1>6. Accounted'
  <2>1. \A d \in Devices : snap[d] # runs + 1
    BY <1>1 DEF TypeOK
  <2>2. ASSUME NEW v \in Volumes, mnt[v] # <<>> PROVE mnt[v][1].by # runs + 1
    <3>1. PICK S : S = [dev : Devices, by : 1..runs]
      OBVIOUS
    <3>2. mnt[v] \in Seq(S)
      BY <1>1, <3>1 DEF TypeOK
    <3>3. mnt[v][1] \in S
      BY <2>2, <3>2
    <3>4. mnt[v][1].by \in 1..runs
      BY <3>1, <3>3
    <3>5. QED
      BY <1>1, <3>4
  <2>3. QED
    BY <1>2, <1>4, <2>1, <2>2 DEF MachineInv, Accounted, Active
<1>7. RightSource'
  BY <1>2 DEF MachineInv, RightSource, Base
<1>8. LeavesNothing'
  BY <1>2 DEF MachineInv, LeavesNothing, Left
<1>9. QED
  BY <1>3, <1>5, <1>6, <1>7, <1>8 DEF MachineInv

(* A run all of whose steps are undone, without a failure, has left nothing. *)
LEMMA NothingLeft ==
  ASSUME MachineInv, NEW p \in Procs, Active(p), warned[p] = "no", performed[p] = <<>>
  PROVE  ~Left(p)
<1>1. Did(p) = {}
  BY DEF Did, Range
<1>2. \A d \in Devices : snap[d] # run[p]
  BY <1>1 DEF MachineInv, Accounted
<1>3. ASSUME NEW v \in Volumes, NEW k \in DOMAIN mnt[v] PROVE mnt[v][k].by # run[p]
  <2>1. mnt[v] # <<>>
    BY <1>3
  <2>2. mnt[v][1].by # run[p]
    BY <1>1, <2>1 DEF MachineInv, Accounted
  <2>3. k = 1
    <3>1. \E m : mnt[v] = <<m>>
      BY <1>3, <2>1 DEF MachineInv, Mounts
    <3>2. QED
      BY <3>1
  <2>4. QED
    BY <2>2, <2>3
<1>4. QED
  BY <1>2, <1>3 DEF Left

LEMMA MachineInvTurn ==
  ASSUME SetupInv, MachineInv, NEW p \in Procs,
         EndSetup(p) \/ Panic(p) \/ Return(p) \/ Kill(p)
  PROVE  MachineInv'
<1>1. /\ UNCHANGED <<world, at, performed, run, runs, dumped, warned>>
      /\ Active(p)
      /\ \/ pc' = [pc EXCEPT ![p] = "undo"] /\ ended' = ended
         \/ /\ pc' = [pc EXCEPT ![p] = "idle"]
            /\ \/ ended' = [ended EXCEPT ![p] = "return"] /\ performed[p] = <<>>
               \/ ended' = [ended EXCEPT ![p] = "panic"]
               \/ ended' = [ended EXCEPT ![p] = "kill"]
  BY DEF EndSetup, Panic, Return, Kill, Active, Reaches
<1>2. TypeOK
  BY DEF SetupInv
<1>3. /\ snap' = snap /\ mnt' = mnt /\ performed' = performed /\ run' = run
      /\ dumped' = dumped /\ warned' = warned
  BY <1>1 DEF world
<1>4. \A q \in Procs : Active(q)' => Active(q)
  BY <1>1, <1>2 DEF Active, TypeOK
<1>5. Mounts' /\ HoldsMounts' /\ RightSource'
  BY <1>3, <1>4 DEF MachineInv, Mounts, HoldsMounts, RightSource, Did, Base
<1>6. Accounted'
  BY <1>3, <1>4 DEF MachineInv, Accounted, Did
<1>7. LeavesNothing'
  <2>1. \A q \in Procs : Left(q)' <=> Left(q)
    BY <1>3 DEF Left
  <2>2. \A q \in Procs : ended'[q] = "return" =>
          ended[q] = "return" \/ (q = p /\ performed[p] = <<>>)
    BY <1>1, <1>2 DEF TypeOK
  <2>3. warned[p] = "no" /\ performed[p] = <<>> => ~Left(p)
    BY <1>1, NothingLeft
  <2>4. QED
    BY <1>3, <2>1, <2>2, <2>3 DEF MachineInv, LeavesNothing
<1>8. QED
  BY <1>5, <1>6, <1>7 DEF MachineInv


LEMMA MachineInvSetup ==
  ASSUME OwnMountPoints, PlainHasNoVg, SetupInv, SetupInv', MachineInv,
         NEW p \in Procs, Setup(p)
  PROVE  MachineInv'
<1>1. PICK x \in Plan :
        /\ Reaches(p, x) /\ Performs(p, x)
        /\ performed' = [performed EXCEPT ![p] = Append(@, x)]
        /\ at' = [at EXCEPT ![p] = x]
        /\ UNCHANGED <<pc, run, runs, warned, ended>>
  BY DEF Setup
<1>2. TypeOK /\ performed[p] \in Seq(Plan)
  BY DEF SetupInv, TypeOK
<1>3. PICK f : f = FsOf(x)
  OBVIOUS
<1>4. PICK d : d = Device(f)
  OBVIOUS
<1>5. d \in Devices /\ f.volume \in Volumes /\ d[1] = f.vg /\ d[2] = f.volume
  BY <1>3, <1>4, FsOfStep
<1>6. pc[p] = "setup" /\ Active(p) /\ run[p] \in 1..runs /\ run[p] # 0
  BY <1>1, <1>2 DEF Reaches, SetupInv, Runs, Active, TypeOK
<1>7. Did(p)' = Did(p) \cup {x} /\ \A q \in Procs \ {p} : Did(q)' = Did(q)
  <2>1. performed'[p] = Append(performed[p], x)
    BY <1>1, <1>2 DEF TypeOK
  <2>2. QED
    BY <1>1, <1>2, <2>1, Added DEF Did, TypeOK
<1>8. pc' = pc /\ run' = run /\ warned' = warned /\ ended' = ended /\ \A q \in Procs : Active(q)' <=> Active(q)
  BY <1>1 DEF Active
<1>9. Did(p) = {y \in Plan : Before(y, x)} /\ x \notin Did(p)
  BY <1>1, Behind
<1>10. \A q \in Procs : run[q] = run[p] => q = p
  BY <1>6 DEF SetupInv, Runs
<1>11. \A q \in Procs : ended[q] = "return" => q # p /\ run[q] # run[p]
  BY <1>6, <1>10 DEF SetupInv, Runs
<1>12. CASE StepName(x) = "lvm-snapshot"
  <2>1. /\ f.vg # NoVg /\ snap[d] = 0 /\ snap' = [snap EXCEPT ![d] = run[p]]
        /\ mnt' = mnt /\ dumped' = dumped
    BY <1>1, <1>3, <1>4, <1>12, Performing
  <2>2. snap'[d] = run[p] /\ \A e \in Devices \ {d} : snap'[e] = snap[e]
    BY <1>2, <1>5, <2>1 DEF TypeOK
  <2>3. Mounts'
    <3>1. \A e \in Devices : snap'[e] # 0 => e[1] # NoVg
      BY <1>5, <2>1, <2>2 DEF MachineInv, Mounts
    <3>2. ASSUME NEW v \in Volumes, mnt'[v] # <<>>
          PROVE  \E e \in Devices : /\ e[2] = v /\ snap'[e] # 0
                                    /\ mnt'[v] = <<[dev |-> e, by |-> snap'[e]]>>
      <4>1. PICK e \in Devices :
              e[2] = v /\ snap[e] # 0 /\ mnt[v] = <<[dev |-> e, by |-> snap[e]]>>
        BY <2>1, <3>2 DEF MachineInv, Mounts
      <4>2. snap'[e] = snap[e]
        BY <2>1, <2>2, <4>1
      <4>3. QED
        BY <2>1, <4>1, <4>2
    <3>3. QED
      BY <3>1, <3>2 DEF Mounts
  <2>4. HoldsMounts'
    BY <1>7, <1>8, <1>12, <2>1 DEF MachineInv, HoldsMounts
  <2>5. Accounted'
    <3>1. ASSUME NEW q \in Procs, Active(q), warned[q] = "no", NEW e \in Devices, snap'[e] = run[q]
          PROVE  \E y \in Did(q)' : StepName(y) = "lvm-snapshot" /\ Device(FsOf(y)) = e
      <4>1. CASE e = d
        BY <1>3, <1>4, <1>7, <1>10, <1>12, <2>2, <3>1, <4>1
      <4>2. CASE e # d
        BY <1>7, <2>2, <3>1, <4>2 DEF MachineInv, Accounted
      <4>3. QED
        BY <4>1, <4>2
    <3>2. QED
      BY <1>7, <1>8, <2>1, <3>1 DEF MachineInv, Accounted
  <2>6. RightSource'
    BY <1>8, <2>1 DEF MachineInv, RightSource, Base
  <2>7. LeavesNothing'
    BY <1>8, <1>11, <2>1, <2>2 DEF MachineInv, LeavesNothing, Left
  <2>8. QED
    BY <2>3, <2>4, <2>5, <2>6, <2>7 DEF MachineInv
<1>13. CASE StepName(x) = "mount-snapshot"
  <2>1. PICK m : m = [dev |-> d, by |-> run[p]]
    OBVIOUS
  <2>2. /\ snap[d] # 0 /\ ~Mounted(d)
        /\ mnt' = [mnt EXCEPT ![f.volume] = Append(@, m)]
        /\ snap' = snap /\ dumped' = dumped
    BY <1>1, <1>3, <1>4, <1>13, <2>1, Performing
  <2>3. mnt[f.volume] = <<>>
    BY <1>2, <1>5, <2>2, FreeMountPoint DEF MachineInv
  <2>4. mnt'[f.volume] = <<m>> /\ \A v \in Volumes \ {f.volume} : mnt'[v] = mnt[v]
    BY <1>2, <1>5, <2>2, <2>3 DEF TypeOK
  <2>5. snap[d] = run[p]
    <3>1. f.style = "ext4-lvm" /\ x[2] \in DOMAIN Fs /\ f = Fs[x[2]]
      BY <1>3, <1>13, OnlyLvm, Stages DEF FsOf
    <3>2. PICK y : y = <<1, x[2]>>
      OBVIOUS
    <3>3. y \in Plan /\ StepName(y) = "lvm-snapshot" /\ FsOf(y) = f
      BY <3>1, <3>2, LvmSteps
    <3>4. Before(y, x)
      BY <1>13, <3>3, Stages DEF Before
    <3>5. y \in Did(p)
      BY <1>9, <3>3, <3>4
    <3>6. QED
      BY <1>4, <1>6, <3>3, <3>5 DEF SetupInv, HoldsSnaps
  <2>6. Mounts'
    <3>1. \A e \in Devices : snap'[e] # 0 => e[1] # NoVg
      BY <2>2 DEF MachineInv, Mounts
    <3>2. ASSUME NEW v \in Volumes, mnt'[v] # <<>>
          PROVE  \E e \in Devices : /\ e[2] = v /\ snap'[e] # 0
                                    /\ mnt'[v] = <<[dev |-> e, by |-> snap'[e]]>>
      <4>1. CASE v = f.volume
        <5>1. d \in Devices /\ d[2] = v /\ snap'[d] # 0 /\ snap'[d] = run[p]
          BY <1>5, <2>2, <2>5, <4>1
        <5>2. mnt'[v] = <<[dev |-> d, by |-> snap'[d]]>>
          BY <2>1, <2>4, <4>1, <5>1
        <5>3. QED
          BY <5>1, <5>2
      <4>2. CASE v # f.volume
        <5>1. mnt'[v] = mnt[v]
          BY <2>4, <4>2
        <5>2. PICK e \in Devices :
                e[2] = v /\ snap[e] # 0 /\ mnt[v] = <<[dev |-> e, by |-> snap[e]]>>
          BY <3>2, <5>1 DEF MachineInv, Mounts
        <5>3. QED
          BY <2>2, <5>1, <5>2
      <4>3. QED
        BY <4>1, <4>2
    <3>3. QED
      BY <3>1, <3>2 DEF Mounts
  <2>7. HoldsMounts'
    <3>1. ASSUME NEW q \in Procs, Active(q), NEW y \in Did(q), StepName(y) = "mount-snapshot"
          PROVE  /\ FsOf(y).volume # f.volume
                 /\ mnt'[FsOf(y).volume] = <<[dev |-> Device(FsOf(y)), by |-> run[q]]>>
                 /\ \A z \in Did(q) \ {y} :
                      StepName(z) = "mount-snapshot" => FsOf(z).volume # FsOf(y).volume
      <4>1. /\ mnt[FsOf(y).volume] = <<[dev |-> Device(FsOf(y)), by |-> run[q]]>>
            /\ \A z \in Did(q) \ {y} :
                 StepName(z) = "mount-snapshot" => FsOf(z).volume # FsOf(y).volume
        BY <3>1 DEF MachineInv, HoldsMounts
      <4>2. FsOf(y).volume # f.volume
        <5>1. mnt[FsOf(y).volume] # <<>>
          BY <4>1, OneMount
        <5>2. QED
          BY <2>3, <5>1
      <4>3. FsOf(y).volume \in Volumes
        <5>1. y \in Plan
          BY <1>2, <3>1, RangeOfSeq DEF Did, TypeOK
        <5>2. QED
          BY <5>1, FsOfStep
      <4>4. QED
        BY <2>4, <4>1, <4>2, <4>3
    <3>2. mnt'[f.volume] = <<[dev |-> Device(f), by |-> run[p]]>>
      BY <1>4, <2>1, <2>4
    <3>3. ASSUME NEW q \in Procs, Active(q), NEW y \in Did(q)', StepName(y) = "mount-snapshot"
          PROVE  /\ mnt'[FsOf(y).volume] = <<[dev |-> Device(FsOf(y)), by |-> run[q]]>>
                 /\ \A z \in Did(q)' \ {y} :
                      StepName(z) = "mount-snapshot" => FsOf(z).volume # FsOf(y).volume
      <4>1. CASE q = p /\ y = x
        BY <1>3, <1>6, <1>7, <3>1, <3>2, <4>1
      <4>2. CASE ~(q = p /\ y = x)
        <5>1. y \in Did(q) /\ Did(q)' \subseteq Did(q) \cup {x}
          BY <1>7, <3>3, <4>2
        <5>2. QED
          BY <1>3, <3>1, <3>3, <5>1
      <4>3. QED
        BY <4>1, <4>2
    <3>4. QED
      BY <1>8, <3>3 DEF HoldsMounts
  <2>8. Accounted'
    <3>1. ASSUME NEW q \in Procs, Active(q), warned[q] = "no",
                 NEW v \in Volumes, mnt'[v] # <<>>, mnt'[v][1].by = run[q]
          PROVE  \E y \in Did(q)' : StepName(y) = "mount-snapshot" /\ FsOf(y).volume = v
      <4>1. CASE v = f.volume
        <5>1. mnt'[v][1].by = run[p]
          BY <2>1, <2>4, <4>1
        <5>2. q = p
          BY <1>10, <3>1, <5>1
        <5>3. QED
          BY <1>3, <1>7, <1>13, <4>1, <5>2
      <4>2. CASE v # f.volume
        BY <1>7, <2>4, <3>1, <4>2 DEF MachineInv, Accounted
      <4>3. QED
        BY <4>1, <4>2
    <3>2. QED
      BY <1>7, <1>8, <2>2, <3>1 DEF MachineInv, Accounted
  <2>9. RightSource'
    BY <1>8, <2>2 DEF MachineInv, RightSource, Base
  <2>10. LeavesNothing'
    <3>1. ASSUME NEW q \in Procs, q # p, run[q] # run[p], Left(q)' PROVE Left(q)
      <4>1. CASE \E e \in Devices : run'[q] # 0 /\ snap'[e] = run'[q]
        BY <1>8, <2>2, <4>1 DEF Left
      <4>2. CASE \E v \in Volumes : \E k \in DOMAIN mnt'[v] : mnt'[v][k].by = run'[q]
        <5>1. PICK v \in Volumes : \E k \in DOMAIN mnt'[v] : mnt'[v][k].by = run[q]
          BY <1>8, <4>2
        <5>2. v # f.volume
          BY <2>1, <2>4, <3>1, <5>1
        <5>3. QED
          BY <2>4, <5>1, <5>2 DEF Left
      <4>3. QED
        BY <3>1, <4>1, <4>2 DEF Left
    <3>2. QED
      BY <1>8, <1>11, <3>1 DEF MachineInv, LeavesNothing
  <2>11. QED
    BY <2>6, <2>7, <2>8, <2>9, <2>10 DEF MachineInv
<1>14. CASE StepName(x) \notin {"lvm-snapshot", "mount-snapshot"}
  <2>1. snap' = snap /\ mnt' = mnt
    BY <1>1, <1>14, Performing
  <2>2. Mounts' /\ HoldsMounts'
    <3>1. Mounts'
      BY <2>1 DEF MachineInv, Mounts
    <3>2. ASSUME NEW q \in Procs, Active(q), NEW y \in Did(q)', StepName(y) = "mount-snapshot"
          PROVE  /\ mnt'[FsOf(y).volume] = <<[dev |-> Device(FsOf(y)), by |-> run[q]]>>
                 /\ \A z \in Did(q)' \ {y} :
                      StepName(z) = "mount-snapshot" => FsOf(z).volume # FsOf(y).volume
      <4>1. y \in Did(q) /\ \A z \in Did(q)' : StepName(z) = "mount-snapshot" => z \in Did(q)
        BY <1>7, <1>14, <3>2
      <4>2. QED
        BY <2>1, <3>2, <4>1 DEF MachineInv, HoldsMounts
    <3>3. QED
      BY <1>8, <3>1, <3>2 DEF HoldsMounts
  <2>3. Accounted'
    BY <1>7, <1>8, <2>1 DEF MachineInv, Accounted
  <2>4. LeavesNothing'
    BY <1>8, <2>1 DEF MachineInv, LeavesNothing, Left
  <2>5. PICK new : new = [fs |-> f, from |-> Visible(f)]
    OBVIOUS
  <2>6. \/ dumped' = dumped
        \/ StepName(x) = "dump" /\ dumped' = [dumped EXCEPT ![p] = @ \cup {new}]
    BY <1>1, <1>3, <1>14, <2>5, Performing
  <2>7. RightSource'
    <3>1. ASSUME StepName(x) = "dump"
          PROVE  new.from = IF new.fs.style = "ext4-lvm"
                            THEN [dev |-> Device(new.fs), made |-> run[p]] ELSE Base(new.fs)
      <4>1. x[2] \in DOMAIN Fs /\ f = Fs[x[2]]
        BY <1>3, Stages DEF FsOf
      <4>2. CASE f.style = "ext4-lvm"
        <5>1. PICK y, z : y = <<1, x[2]>> /\ z = <<2, x[2]>>
          OBVIOUS
        <5>2. /\ y \in Plan /\ StepName(y) = "lvm-snapshot" /\ FsOf(y) = f
              /\ z \in Plan /\ StepName(z) = "mount-snapshot" /\ FsOf(z) = f
          BY <4>1, <4>2, <5>1, LvmSteps
        <5>3. Before(y, x) /\ Before(z, x)
          BY <3>1, <5>2, Stages DEF Before
        <5>4. y \in Did(p) /\ z \in Did(p)
          BY <1>9, <5>2, <5>3
        <5>5. snap[d] = run[p] /\ f.vg # NoVg
          BY <1>4, <1>6, <5>2, <5>4 DEF SetupInv, HoldsSnaps
        <5>6. mnt[f.volume] = <<[dev |-> d, by |-> run[p]]>>
          BY <1>4, <1>6, <5>2, <5>4 DEF MachineInv, HoldsMounts
        <5>7. Last(mnt[f.volume]).dev = d
          BY <5>6 DEF Last
        <5>8. Visible(f) = [dev |-> d, made |-> run[p]]
          BY <5>5, <5>6, <5>7 DEF Visible
        <5>9. QED
          BY <1>4, <2>5, <4>2, <5>8
      <4>3. CASE f.style # "ext4-lvm"
        <5>1. f.style = "plain"
          BY <4>1, <4>3, ManagerAssumption DEF ManagerAssumption
        <5>2. Visible(f) = Base(f)
          BY <4>1, <5>1 DEF PlainHasNoVg, Visible
        <5>3. QED
          BY <2>5, <4>3, <5>2
      <4>4. QED
        BY <4>2, <4>3
    <3>2. ASSUME NEW q \in Procs, NEW e \in dumped'[q]
          PROVE  e.from = IF e.fs.style = "ext4-lvm"
                          THEN [dev |-> Device(e.fs), made |-> run[q]] ELSE Base(e.fs)
      <4>1. e \in dumped[q] \/ (q = p /\ e = new /\ StepName(x) = "dump")
        BY <1>2, <2>6, <3>2 DEF TypeOK
      <4>2. QED
        BY <3>1, <4>1 DEF MachineInv, RightSource
    <3>3. QED
      BY <1>8, <3>2 DEF RightSource, Base
  <2>8. QED
    BY <2>2, <2>3, <2>4, <2>7 DEF MachineInv
<1>15. QED
  BY <1>12, <1>13, <1>14


(* A snapshot that is removed while it is not mounted.                     *)
LEMMA MountsUnsnapped ==
  ASSUME TypeOK, Mounts, NEW f, Device(f) \in Devices, CanLvRemove(f),
         snap' = [snap EXCEPT ![Device(f)] = 0], mnt' = mnt
  PROVE  Mounts'
<1>1. PICK d \in Devices : d = Device(f)
  OBVIOUS
<1>2. snap'[d] = 0 /\ \A e \in Devices \ {d} : snap'[e] = snap[e]
  BY <1>1 DEF TypeOK
<1>3. \A e \in Devices : snap'[e] # 0 => e[1] # NoVg
  BY <1>2 DEF Mounts
<1>4. ASSUME NEW v \in Volumes, mnt'[v] # <<>>
      PROVE  \E e \in Devices : /\ e[2] = v /\ snap'[e] # 0
                                /\ mnt'[v] = <<[dev |-> e, by |-> snap'[e]]>>
  <2>1. PICK e \in Devices :
          e[2] = v /\ snap[e] # 0 /\ mnt[v] = <<[dev |-> e, by |-> snap[e]]>>
    BY <1>4 DEF Mounts
  <2>2. 1 \in DOMAIN mnt[v] /\ mnt[v][1].dev = e
    BY <2>1
  <2>3. Mounted(e)
    BY <2>2 DEF Mounted
  <2>4. e # d
    BY <1>1, <2>3 DEF CanLvRemove
  <2>5. QED
    BY <1>2, <2>1, <2>4
<1>5. QED
  BY <1>3, <1>4 DEF Mounts


(* Removing what a run holds takes nothing from the others.                *)
LEMMA MachineInvUndo ==
  ASSUME OwnMountPoints, SetupInv, SetupInv', MachineInv, NEW p \in Procs, Undo(p)
  PROVE  MachineInv'
<1>1. PICK x : x = Last(performed[p])
  OBVIOUS
<1>2. TypeOK /\ InOrder
  BY DEF SetupInv
<1>3. /\ pc[p] = "undo" /\ performed[p] # <<>>
      /\ performed' = [performed EXCEPT ![p] = Front(@)]
      /\ pc' = pc /\ run' = run /\ dumped' = dumped /\ ended' = ended
  BY Undone
<1>4. /\ x \in Plan /\ x \in Did(p) /\ Range(Front(performed[p])) = Did(p) \ {x}
      /\ \A y \in Did(p) : y # x => Before(y, x)
  BY <1>1, <1>2, <1>3, LastOfAll
<1>5. Did(p)' = Did(p) \ {x} /\ \A q \in Procs \ {p} : Did(q)' = Did(q)
  BY <1>2, <1>3, <1>4 DEF TypeOK, Did
<1>6. \A q \in Procs : Did(q)' \subseteq Did(q) /\ Did(q) \subseteq Plan
  <2>1. \A q \in Procs : Did(q)' \subseteq Did(q)
    BY <1>5
  <2>2. \A q \in Procs : performed[q] \in Seq(Plan)
    BY <1>2 DEF TypeOK
  <2>3. QED
    BY <2>1, <2>2, RangeOfSeq DEF Did
<1>7. PICK f : f = FsOf(x)
  OBVIOUS
<1>8. PICK d : d = Device(f)
  OBVIOUS
<1>9. d \in Devices /\ f.volume \in Volumes /\ d[1] = f.vg /\ d[2] = f.volume
  BY <1>4, <1>7, <1>8, FsOfStep
<1>10. /\ Active(p) /\ run[p] # 0
       /\ \A q \in Procs : run[q] = run[p] => q = p
       /\ \A q \in Procs : Active(q)' <=> Active(q)
  BY <1>3 DEF SetupInv, Runs, Active
<1>11. RightSource'
  BY <1>3 DEF MachineInv, RightSource, Base
<1>12. CASE /\ StepName(x) = "lvm-snapshot" /\ CanLvRemove(f)
            /\ snap' = [snap EXCEPT ![d] = 0] /\ mnt' = mnt /\ warned' = warned
  <2>1. snap'[d] = 0 /\ \A e \in Devices \ {d} : snap'[e] = snap[e]
    BY <1>2, <1>9, <1>12 DEF TypeOK
  <2>2. Mounts'
    <3>1. Mounts
      BY DEF MachineInv
    <3>2. /\ Device(f) \in Devices /\ CanLvRemove(f)
          /\ snap' = [snap EXCEPT ![Device(f)] = 0] /\ mnt' = mnt
      BY <1>8, <1>9, <1>12
    <3>3. QED
      BY <1>2, <3>1, <3>2, MountsUnsnapped
  <2>3. HoldsMounts'
    BY <1>3, <1>6, <1>12 DEF MachineInv, HoldsMounts, Active
  <2>4. Accounted'
    <3>1. ASSUME NEW q \in Procs, Active(q), warned[q] = "no", NEW e \in Devices, snap'[e] = run[q]
          PROVE  \E y \in Did(q)' : StepName(y) = "lvm-snapshot" /\ Device(FsOf(y)) = e
      <4>1. run[q] # 0 /\ e # d /\ snap[e] = run[q]
        BY <2>1, <3>1 DEF SetupInv, Runs
      <4>2. PICK y \in Did(q) : StepName(y) = "lvm-snapshot" /\ Device(FsOf(y)) = e
        BY <3>1, <4>1 DEF MachineInv, Accounted
      <4>3. y # x
        BY <1>7, <1>8, <4>1, <4>2
      <4>4. QED
        BY <1>5, <4>2, <4>3
    <3>2. ASSUME NEW q \in Procs, Active(q), warned[q] = "no",
                 NEW v \in Volumes, mnt[v] # <<>>, mnt[v][1].by = run[q]
          PROVE  \E y \in Did(q)' : StepName(y) = "mount-snapshot" /\ FsOf(y).volume = v
      <4>1. PICK y \in Did(q) : StepName(y) = "mount-snapshot" /\ FsOf(y).volume = v
        BY <3>2 DEF MachineInv, Accounted
      <4>2. y # x
        BY <1>12, <4>1
      <4>3. QED
        BY <1>5, <4>1, <4>2
    <3>3. QED
      BY <1>3, <1>10, <1>12, <3>1, <3>2 DEF Accounted
  <2>5. LeavesNothing'
    BY <1>3, <1>12, <2>1 DEF MachineInv, LeavesNothing, Left
  <2>6. QED
    BY <1>11, <2>2, <2>3, <2>4, <2>5 DEF MachineInv
<1>13. CASE /\ StepName(x) = "mount-snapshot" /\ CanUmount(f)
            /\ mnt' = [mnt EXCEPT ![f.volume] = Front(@)] /\ snap' = snap /\ warned' = warned
  <2>1. /\ mnt[f.volume] = <<[dev |-> d, by |-> run[p]]>>
        /\ \A y \in Did(p) \ {x} :
             StepName(y) = "mount-snapshot" => FsOf(y).volume # f.volume
    BY <1>4, <1>7, <1>8, <1>10, <1>13 DEF MachineInv, HoldsMounts
  <2>2. mnt'[f.volume] = <<>> /\ \A v \in Volumes \ {f.volume} : mnt'[v] = mnt[v]
    BY <1>2, <1>9, <1>13, <2>1, FrontOfOne DEF TypeOK
  <2>3. Mounts'
    BY <1>13, <2>2 DEF MachineInv, Mounts
  <2>4. HoldsMounts'
    <3>1. ASSUME NEW q \in Procs, Active(q), NEW y \in Did(q)', StepName(y) = "mount-snapshot"
          PROVE  /\ mnt'[FsOf(y).volume] = <<[dev |-> Device(FsOf(y)), by |-> run[q]]>>
                 /\ \A z \in Did(q)' \ {y} :
                      StepName(z) = "mount-snapshot" => FsOf(z).volume # FsOf(y).volume
      <4>1. y \in Did(q) /\ Did(q)' \subseteq Did(q)
        BY <1>6, <3>1
      <4>2. /\ mnt[FsOf(y).volume] = <<[dev |-> Device(FsOf(y)), by |-> run[q]]>>
            /\ \A z \in Did(q) \ {y} :
                 StepName(z) = "mount-snapshot" => FsOf(z).volume # FsOf(y).volume
        BY <3>1, <4>1 DEF MachineInv, HoldsMounts
      <4>3. FsOf(y).volume # f.volume
        <5>1. CASE q = p
          BY <1>5, <2>1, <3>1, <5>1
        <5>2. CASE q # p
          <6>1. run[q] # run[p]
            BY <1>10, <5>2
          <6>2. <<[dev |-> Device(FsOf(y)), by |-> run[q]]>> # <<[dev |-> d, by |-> run[p]]>>
            BY <6>1
          <6>3. QED
            BY <2>1, <4>2, <6>2
        <5>3. QED
          BY <5>1, <5>2
      <4>4. FsOf(y).volume \in Volumes
        BY <1>6, <4>1, FsOfStep
      <4>5. QED
        BY <2>2, <4>1, <4>2, <4>3, <4>4
    <3>2. QED
      BY <1>3, <1>10, <3>1 DEF HoldsMounts
  <2>5. Accounted'
    <3>1. ASSUME NEW q \in Procs, Active(q), warned[q] = "no", NEW e \in Devices, snap[e] = run[q]
          PROVE  \E y \in Did(q)' : StepName(y) = "lvm-snapshot" /\ Device(FsOf(y)) = e
      <4>1. PICK y \in Did(q) : StepName(y) = "lvm-snapshot" /\ Device(FsOf(y)) = e
        BY <3>1 DEF MachineInv, Accounted
      <4>2. y # x
        BY <1>13, <4>1
      <4>3. QED
        BY <1>5, <4>1, <4>2
    <3>2. ASSUME NEW q \in Procs, Active(q), warned[q] = "no",
                 NEW v \in Volumes, mnt'[v] # <<>>, mnt'[v][1].by = run[q]
          PROVE  \E y \in Did(q)' : StepName(y) = "mount-snapshot" /\ FsOf(y).volume = v
      <4>1. v # f.volume /\ mnt'[v] = mnt[v]
        BY <2>2, <3>2
      <4>2. PICK y \in Did(q) : StepName(y) = "mount-snapshot" /\ FsOf(y).volume = v
        BY <3>2, <4>1 DEF MachineInv, Accounted
      <4>3. y # x
        BY <1>7, <4>1, <4>2
      <4>4. QED
        BY <1>5, <4>2, <4>3
    <3>3. QED
      BY <1>3, <1>10, <1>13, <3>1, <3>2 DEF Accounted
  <2>6. LeavesNothing'
    BY <1>3, <1>13, <2>2 DEF MachineInv, LeavesNothing, Left
  <2>7. QED
    BY <1>11, <2>3, <2>4, <2>5, <2>6 DEF MachineInv
<1>14. CASE /\ StepName(x) \notin {"lvm-snapshot", "mount-snapshot"}
            /\ snap' = snap /\ mnt' = mnt /\ warned' = warned
  <2>1. Mounts' /\ HoldsMounts'
    BY <1>6, <1>10, <1>14, <1>3 DEF MachineInv, Mounts, HoldsMounts
  <2>2. Accounted'
    BY <1>3, <1>5, <1>10, <1>14 DEF MachineInv, Accounted
  <2>3. LeavesNothing'
    BY <1>3, <1>14 DEF MachineInv, LeavesNothing, Left
  <2>4. QED
    BY <1>11, <2>1, <2>2, <2>3 DEF MachineInv
<1>15. CASE /\ StepName(x) \in {"lvm-snapshot", "mount-snapshot"}
            /\ snap' = snap /\ mnt' = mnt
            /\ warned' = [warned EXCEPT ![p] = IF @ # "no" THEN @
                                              ELSE IF CanUndo(x) THEN "flaky" ELSE "blocked"]
  <2>1. CanUndo(x) \/ warned[p] # "no"
    <3>1. SUFFICES ASSUME warned[p] = "no" PROVE CanUndo(x)
      OBVIOUS
    <3>2. CASE StepName(x) = "lvm-snapshot"
      <4>1. snap[d] = run[p] /\ snap[d] # 0
        BY <1>4, <1>7, <1>8, <1>10, <3>2 DEF SetupInv, HoldsSnaps
      <4>2. ASSUME Mounted(d) PROVE FALSE
        <5>1. mnt[f.volume] = <<[dev |-> d, by |-> run[p]]>>
          BY <1>2, <1>9, <4>1, <4>2, FreeMountPoint DEF MachineInv
        <5>2. mnt[f.volume] # <<>> /\ mnt[f.volume][1].by = run[p]
          BY <5>1
        <5>3. PICK y \in Did(p) : StepName(y) = "mount-snapshot"
          BY <1>9, <1>10, <3>1, <5>2 DEF MachineInv, Accounted
        <5>4. y \in Plan /\ Before(y, x)
          BY <1>4, <1>6, <3>2, <5>3
        <5>5. QED
          BY <1>4, <3>2, <5>3, <5>4, Stages DEF Before
      <4>3. QED
        BY <1>7, <1>8, <3>2, <4>1, <4>2 DEF CanUndo, CanLvRemove
    <3>3. CASE StepName(x) = "mount-snapshot"
      <4>1. mnt[f.volume] # <<>>
        <5>1. mnt[FsOf(x).volume] = <<[dev |-> Device(FsOf(x)), by |-> run[p]]>>
          BY <1>4, <1>10, <3>3 DEF MachineInv, HoldsMounts
        <5>2. QED
          BY <1>7, <5>1, OneMount
      <4>2. QED
        BY <1>7, <3>3, <4>1 DEF CanUndo, CanUmount
    <3>4. QED
      BY <1>15, <3>2, <3>3
  <2>2. warned'[p] # "no" /\ (warned'[p] = "blocked" => warned[p] = "blocked")
    BY <1>2, <1>15, <2>1 DEF TypeOK
  <2>3. \A q \in Procs \ {p} : warned'[q] = warned[q]
    BY <1>2, <1>15 DEF TypeOK
  <2>4. Mounts'
    BY <1>15 DEF MachineInv, Mounts
  <2>8. HoldsMounts'
    <3>1. \A q \in Procs : Active(q)' => Active(q) /\ Did(q)' \subseteq Did(q)
      BY <1>6, <1>10
    <3>2. mnt' = mnt /\ run' = run
      BY <1>3, <1>15
    <3>3. QED
      BY <3>1, <3>2 DEF MachineInv, HoldsMounts
  <2>5. Accounted'
    BY <1>3, <1>5, <1>10, <1>15, <2>2, <2>3 DEF MachineInv, Accounted
  <2>6. LeavesNothing'
    BY <1>3, <1>15, <2>2, <2>3 DEF MachineInv, LeavesNothing, Left
  <2>7. QED
    BY <1>11, <2>4, <2>5, <2>6, <2>8 DEF MachineInv
<1>16. QED
  <2>1. \/ /\ StepName(x) = "lvm-snapshot" /\ CanLvRemove(f)
           /\ snap' = [snap EXCEPT ![d] = 0] /\ mnt' = mnt /\ warned' = warned
        \/ /\ StepName(x) = "mount-snapshot" /\ CanUmount(f)
           /\ mnt' = [mnt EXCEPT ![f.volume] = Front(@)] /\ snap' = snap /\ warned' = warned
        \/ /\ StepName(x) \notin {"lvm-snapshot", "mount-snapshot"}
           /\ snap' = snap /\ mnt' = mnt /\ warned' = warned
        \/ /\ StepName(x) \in {"lvm-snapshot", "mount-snapshot"}
           /\ snap' = snap /\ mnt' = mnt
           /\ warned' = [warned EXCEPT ![p] = IF @ # "no" THEN @
                                             ELSE IF CanUndo(x) THEN "flaky" ELSE "blocked"]
    BY <1>1, <1>7, <1>8, Undone
  <2>2. QED
    BY <2>1, <1>12, <1>13, <1>14, <1>15


LEMMA MachineInvCleanUp ==
  ASSUME SetupInv, MachineInv, NEW i \in DOMAIN Fs, CleanUp(Fs[i])
  PROVE  MachineInv'
<1>1. /\ \A q \in Procs : ~Active(q) /\ ~Active(q)'
      /\ run' = run /\ dumped' = dumped /\ warned' = warned /\ ended' = ended
  BY DEF CleanUp, NobodyRuns, Active
<1>2. PICK f : f = Fs[i]
  OBVIOUS
<1>3. Device(f) \in Devices /\ f.volume \in Volumes
  BY <1>2 DEF Device, Devices, Volumes
<1>4. TypeOK /\ Mounts
  BY DEF SetupInv, MachineInv
<1>5. HoldsMounts' /\ Accounted' /\ RightSource'
  BY <1>1 DEF MachineInv, HoldsMounts, Accounted, RightSource, Base
<1>6. CASE CanUmount(f) /\ Umount(f)
  <2>1. snap' = snap /\ mnt[f.volume] # <<>> /\ mnt' = [mnt EXCEPT ![f.volume] = Front(@)]
    BY <1>6 DEF CanUmount, Umount
  <2>2. \E m : mnt[f.volume] = <<m>>
    BY <1>3, <1>4, <2>1 DEF Mounts
  <2>3. Front(mnt[f.volume]) = <<>>
    BY <2>2, FrontOfOne
  <2>4. mnt'[f.volume] = <<>> /\ \A v \in Volumes \ {f.volume} : mnt'[v] = mnt[v]
    BY <1>3, <1>4, <2>1, <2>3 DEF TypeOK
  <2>5. Mounts'
    <3>1. \A e \in Devices : snap'[e] # 0 => e[1] # NoVg
      BY <1>4, <2>1 DEF Mounts
    <3>2. ASSUME NEW v \in Volumes
          PROVE  \/ mnt'[v] = <<>>
                 \/ \E e \in Devices : e[2] = v /\ snap'[e] # 0
                                        /\ mnt'[v] = <<[dev |-> e, by |-> snap'[e]]>>
      <4>1. CASE v # f.volume /\ mnt[v] # <<>>
        <5>1. PICK e \in Devices : e[2] = v /\ snap[e] # 0
                                   /\ mnt[v] = <<[dev |-> e, by |-> snap[e]]>>
          BY <1>4, <4>1, Zenon DEF Mounts
        <5>2. mnt'[v] = mnt[v] /\ snap'[e] = snap[e]
          BY <2>1, <2>4, <4>1
        <5>3. QED
          BY <5>1, <5>2, Zenon
      <4>2. QED
        BY <2>4, <4>1
    <3>3. QED
      BY <3>1, <3>2, Zenon DEF Mounts
  <2>6. LeavesNothing'
    BY <1>1, <2>1, <2>4 DEF MachineInv, LeavesNothing, Left
  <2>7. QED
    BY <1>5, <2>5, <2>6 DEF MachineInv
<1>7. CASE CanLvRemove(f) /\ LvRemove(f)
  <2>1. snap' = [snap EXCEPT ![Device(f)] = 0] /\ mnt' = mnt
    BY <1>7 DEF LvRemove
  <2>2. Mounts'
    BY <1>3, <1>4, <1>7, <2>1, MountsUnsnapped
  <2>3. \A d \in Devices : snap'[d] # 0 => snap'[d] = snap[d]
    BY <1>3, <1>4, <2>1 DEF TypeOK
  <2>4. LeavesNothing'
    BY <1>1, <2>1, <2>3 DEF MachineInv, LeavesNothing, Left
  <2>5. QED
    BY <1>5, <2>2, <2>4 DEF MachineInv
<1>8. QED
  BY <1>2, <1>6, <1>7 DEF CleanUp

LEMMA MachineInvInit == SetupInv /\ Init => MachineInv
<1> SUFFICES ASSUME SetupInv, Init PROVE MachineInv
  OBVIOUS
<1>1. Mounts /\ HoldsMounts /\ Accounted /\ RightSource
  BY DEF Init, Mounts, HoldsMounts, Accounted, RightSource, Active
<1>2. LeavesNothing
  BY DEF Init, LeavesNothing
<1>3. QED
  BY <1>1, <1>2 DEF MachineInv

LEMMA MachineInvNext ==
  ASSUME OwnMountPoints, PlainHasNoVg, SetupInv, SetupInv', MachineInv, [Next]_vars
  PROVE  MachineInv'
<1>1. ASSUME NEW p \in Procs, Step(p) PROVE MachineInv'
  BY <1>1, MachineInvStart, MachineInvSetup, MachineInvTurn, MachineInvUndo DEF Step
<1>2. ASSUME NEW i \in DOMAIN Fs, CleanUp(Fs[i]) PROVE MachineInv'
  BY <1>2, MachineInvCleanUp
<1>3. CASE UNCHANGED vars
  <2>1. /\ snap' = snap /\ mnt' = mnt /\ pc' = pc /\ performed' = performed /\ run' = run
        /\ dumped' = dumped /\ warned' = warned /\ ended' = ended
    BY <1>3 DEF vars, world
  <2>2. Mounts' /\ HoldsMounts' /\ Accounted' /\ RightSource'
    BY <2>1 DEF MachineInv, Mounts, HoldsMounts, Accounted, RightSource, Active, Did, Base
  <2>3. LeavesNothing'
    BY <2>1 DEF MachineInv, LeavesNothing, Left
  <2>4. QED
    BY <2>2, <2>3 DEF MachineInv
<1>4. QED
  BY <1>1, <1>2, <1>3 DEF Next

(* Only the undo takes a snapshot or a mount away, and only its own; or    *)
(* the administrator, when nothing runs.                                   *)
LEMMA OwnStep ==
  ASSUME SetupInv, MachineInv, [Next]_vars
  PROVE  /\ \A d \in Devices : snap[d] # 0 /\ snap'[d] = 0 => Undoing(snap[d])
         /\ \A v \in Volumes : Len(mnt'[v]) < Len(mnt[v]) => Undoing(Last(mnt[v]).by)
<1>1. TypeOK /\ InOrder
  BY DEF SetupInv
<1>2. ASSUME NEW p \in Procs, Undo(p)
      PROVE  /\ \A d \in Devices : snap[d] # 0 /\ snap'[d] = 0 => Undoing(snap[d])
             /\ \A v \in Volumes : Len(mnt'[v]) < Len(mnt[v]) => Undoing(Last(mnt[v]).by)
  <2>1. PICK x : x = Last(performed[p])
    OBVIOUS
  <2>2. pc[p] = "undo" /\ Active(p) /\ performed[p] # <<>>
    BY <1>2, Undone DEF Active
  <2>3. x \in Plan /\ x \in Did(p)
    BY <1>1, <2>1, <2>2, LastOfAll
  <2>4. PICK f : f = FsOf(x)
    OBVIOUS
  <2>5. \/ snap' = snap
        \/ StepName(x) = "lvm-snapshot" /\ snap' = [snap EXCEPT ![Device(f)] = 0]
    BY <1>2, <2>1, <2>4, Undone
  <2>6. \/ mnt' = mnt
        \/ StepName(x) = "mount-snapshot" /\ mnt' = [mnt EXCEPT ![f.volume] = Front(@)]
    BY <1>2, <2>1, <2>4, Undone
  <2>7. Undoing(run[p])
    BY <2>2 DEF Undoing
  <2>8. ASSUME NEW d \in Devices, snap[d] # 0, snap'[d] = 0 PROVE Undoing(snap[d])
    <3>1. StepName(x) = "lvm-snapshot" /\ d = Device(f)
      BY <1>1, <2>5, <2>8 DEF TypeOK
    <3>2. snap[d] = run[p]
      BY <2>2, <2>3, <2>4, <3>1 DEF SetupInv, HoldsSnaps
    <3>3. QED
      BY <2>7, <3>2
  <2>9. ASSUME NEW v \in Volumes, Len(mnt'[v]) < Len(mnt[v]) PROVE Undoing(Last(mnt[v]).by)
    <3>1. mnt'[v] # mnt[v]
      <4>1. Len(mnt[v]) \in Nat
        BY <1>1 DEF TypeOK
      <4>2. QED
        BY <2>9, <4>1
    <3>2. StepName(x) = "mount-snapshot" /\ v = f.volume
      BY <1>1, <2>6, <3>1 DEF TypeOK
    <3>3. mnt[v] = <<[dev |-> Device(f), by |-> run[p]]>>
      BY <2>2, <2>3, <2>4, <3>2 DEF MachineInv, HoldsMounts
    <3>4. Last(mnt[v]).by = run[p]
      BY <3>3 DEF Last
    <3>5. QED
      BY <2>7, <3>4
  <2>10. QED
    BY <2>8, <2>9
<1>3. ASSUME NEW i \in DOMAIN Fs, CleanUp(Fs[i])
      PROVE  /\ \A d \in Devices : snap[d] # 0 /\ snap'[d] = 0 => Undoing(snap[d])
             /\ \A v \in Volumes : Len(mnt'[v]) < Len(mnt[v]) => Undoing(Last(mnt[v]).by)
  BY <1>3 DEF CleanUp, Undoing
<1>4. ASSUME mnt' = mnt
      PROVE  \A v \in Volumes : Len(mnt'[v]) < Len(mnt[v]) => Undoing(Last(mnt[v]).by)
  <2>1. \A v \in Volumes : Len(mnt[v]) \in Nat
    BY <1>1 DEF TypeOK
  <2>2. QED
    BY <1>4, <2>1
<1>5. ASSUME NEW p \in Procs, Setup(p)
      PROVE  /\ \A d \in Devices : snap[d] # 0 /\ snap'[d] = 0 => Undoing(snap[d])
             /\ \A v \in Volumes : Len(mnt'[v]) < Len(mnt[v]) => Undoing(Last(mnt[v]).by)
  <2>1. PICK x \in Plan : Reaches(p, x) /\ Performs(p, x)
    BY <1>5 DEF Setup
  <2>2. PICK f, m : f = FsOf(x) /\ m = [dev |-> Device(f), by |-> run[p]]
    OBVIOUS
  <2>3. run[p] # 0
    BY <2>1 DEF SetupInv, Runs, Active, Reaches
  <2>4. snap' = snap \/ snap' = [snap EXCEPT ![Device(f)] = run[p]]
    BY <2>1, <2>2, Performing
  <2>5. \A d \in Devices : snap[d] # 0 => snap'[d] # 0
    BY <1>1, <2>3, <2>4 DEF TypeOK
  <2>6. mnt' = mnt \/ mnt' = [mnt EXCEPT ![f.volume] = Append(@, m)]
    BY <2>1, <2>2, Performing
  <2>7. ASSUME NEW v \in Volumes PROVE ~(Len(mnt'[v]) < Len(mnt[v]))
    <3>1. \A T, s, e : s \in Seq(T) => Len(s) \in Nat /\ Len(Append(s, e)) = Len(s) + 1
      OBVIOUS
    <3>2. \E T : mnt[v] \in Seq(T)
      BY <1>1 DEF TypeOK
    <3>3. mnt'[v] = mnt[v] \/ mnt'[v] = Append(mnt[v], m)
      BY <1>1, <2>6 DEF TypeOK
    <3>4. QED
      BY <3>1, <3>2, <3>3
  <2>8. QED
    BY <2>5, <2>7
<1>6. CASE UNCHANGED world
  BY <1>4, <1>6 DEF world
<1>7. ASSUME NEW p \in Procs, Start(p) \/ EndSetup(p) \/ Panic(p) \/ Return(p) \/ Kill(p)
      PROVE  UNCHANGED world
  BY <1>7 DEF Start, EndSetup, Panic, Return, Kill
<1>8. UNCHANGED vars => UNCHANGED world
  BY DEF vars
<1>9. QED
  BY <1>2, <1>3, <1>5, <1>6, <1>7, <1>8 DEF Next, Step

-----------------------------------------------------------------------------
(* The theorems. *)

(* Whatever the configuration, what a run performs follows the order of    *)
(* the plan, and it holds every snapshot that it has made and not removed. *)
THEOREM SetupInvariant == Spec => []SetupInv
<1>1. Init => SetupInv
  BY SetupInvInit
<1>2. SetupInv /\ [Next]_vars => SetupInv'
  BY SetupInvNext
<1>3. QED
  BY <1>1, <1>2, PTL DEF Spec

(* Manager.run goes stage by stage: in every configuration, no file system *)
(* of a host is dumped before all the snapshots of the run exist, nor      *)
(* after one of them is gone.                                              *)
THEOREM FrozenTogether == Spec => []AllFrozen
  BY SetupInvariant, FrozenFirst, PTL

(* What the runs, concurrent or crashed, leave on the machine and account  *)
(* for, in every configuration the code can be trusted with.               *)
THEOREM ManagerInvariant == Spec => []IInv
<1>1. Init => IInv
  BY SetupInvInit, MachineInvInit DEF IInv
<1>2. IInv /\ [Next]_vars => IInv'
  <2> SUFFICES ASSUME IInv, [Next]_vars PROVE IInv'
    OBVIOUS
  <2>1. SetupInv /\ SetupInv'
    BY SetupInvNext DEF IInv
  <2>2. OwnMountPoints /\ PlainHasNoVg => MachineInv'
    BY <2>1, MachineInvNext DEF IInv
  <2>3. OwnMountPoints' <=> OwnMountPoints
    BY DEF OwnMountPoints
  <2>4. PlainHasNoVg' <=> PlainHasNoVg
    BY DEF PlainHasNoVg
  <2>5. QED
    BY <2>1, <2>2, <2>3, <2>4 DEF IInv
<1>3. QED
  BY <1>1, <1>2, PTL DEF Spec

(* Every dump of a snapshot reads the snapshot that its own run has made,  *)
(* whatever other runs and earlier crashes left behind; where mount points *)
(* are shared by no two devices, and plain file systems have no group.     *)
THEOREM DumpsOwnSnapshot ==
  ASSUME OwnMountPoints, PlainHasNoVg PROVE Spec => []RightSource
<1>1. IInv => RightSource
  BY DEF IInv, MachineInv
<1>2. QED
  BY <1>1, ManagerInvariant, PTL

(* There, the undo never asks for what the machine refuses, and a run that *)
(* returns without a failed command has removed all that it made.          *)
THEOREM UndoneOnReturn ==
  ASSUME OwnMountPoints, PlainHasNoVg PROVE Spec => []LeavesNothing
<1>1. IInv => LeavesNothing
  BY DEF IInv, MachineInv
<1>2. QED
  BY <1>1, ManagerInvariant, PTL

(* There, no run ever removes the snapshot or the mount of another one.    *)
THEOREM UndoesOnlyOwn ==
  ASSUME OwnMountPoints, PlainHasNoVg PROVE Spec => OnlyOwn
<1>1. IInv /\ [Next]_vars =>
        [/\ \A d \in Devices : snap[d] # 0 /\ snap'[d] = 0 => Undoing(snap[d])
         /\ \A v \in Volumes : Len(mnt'[v]) < Len(mnt[v]) => Undoing(Last(mnt[v]).by)]_vars
  BY OwnStep DEF IInv
<1>2. QED
  BY <1>1, ManagerInvariant, PTL DEF Spec, OnlyOwn


=============================================================================
