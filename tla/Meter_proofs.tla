---------------------------- MODULE Meter_proofs ----------------------------
(***************************************************************************)
(* What the progress meter guarantees for meters of any heights and any    *)
(* number of operations: no message is lost, doubled, moved or cleared     *)
(* away, and without output past it the screen is what was drawn.          *)
(***************************************************************************)
EXTENDS Meter, SequenceTheorems, TLAPS

USE MeterAssumption DEF MeterAssumption

(* The initial state satisfies the inductive invariant.                    *)
LEMMA InitIInv == Init => IInv
<1> SUFFICES ASSUME Init PROVE IInv
  OBVIOUS
<1>1. TypeOK /\ screen \in Seq(Lines) /\ Agreed
  BY DEF Init, TypeOK, Agreed, Lines
<1>5. Flags
  BY DEF Init, Flags
<1>2. NoLogInMeter /\ LogsKept
  BY DEF Init, NoLogInMeter, LogsKept, Drawn, Printed
<1>3. AsDrawn
  BY DEF Init, AsDrawn, Picture, Drawn, Printed
<1>4. QED
  BY <1>1, <1>2, <1>3, <1>5 DEF IInv, Lines

(* What the goroutines know of each other, and the types, do not depend on *)
(* what is on the screen.                                                  *)
LEMMA TypeStep ==
  ASSUME IInv, [Next]_vars
  PROVE  TypeOK' /\ Flags' /\ Agreed'
<1> USE DEF IInv, TypeOK, Flags, Agreed
<1>1. CASE Log          BY <1>1 DEF Log, Ready
<1>2. CASE Sync
  <2>1. Flags'            BY <1>2, Zenon DEF Sync
  <2>2. TypeOK' /\ Agreed' BY <1>2 DEF Sync, Ready
  <2>3. QED               BY <2>1, <2>2
<1>3. CASE DirectPrint  BY <1>3 DEF DirectPrint, Ready
<1>4. CASE Shutdown     BY <1>4 DEF Shutdown
<1>5. CASE Ticker       BY <1>5 DEF Ticker
<1>6. CASE ReceiveLog   BY <1>6 DEF ReceiveLog
<1>7. CASE ReceiveMeter BY <1>7 DEF ReceiveMeter
<1>8. CASE ReceiveClosed BY <1>8 DEF ReceiveClosed
<1>9. CASE Clear        BY <1>9 DEF Clear
<1>10. CASE PrintLog    BY <1>10 DEF PrintLog
<1>11. CASE Show        BY <1>11 DEF Show
<1>12. CASE Done        BY <1>12 DEF Done
<1>13. CASE UNCHANGED vars BY <1>13 DEF vars
<1>14. QED
  BY <1>1, <1>2, <1>3, <1>4, <1>5, <1>6, <1>7, <1>8, <1>9, <1>10, <1>11, <1>12, <1>13
  DEF Next, Run

(* The picture, line by line.                                              *)
LEMMA PictureLines ==
  ASSUME NEW n \in Nat, NEW h \in Nat
  PROVE  /\ Picture(n, h) \in Seq(Lines)
         /\ Len(Picture(n, h)) = n + h
         /\ \A i \in 1..(n + h) :
              Picture(n, h)[i] = IF i <= n THEN LogLine(i) ELSE Line(i - n)
<1> DEFINE logs  == [i \in 1..n |-> LogLine(i)]
           meter == [k \in 1..h |-> Line(k)]
<1>1. logs \in Seq(Lines) /\ meter \in Seq(Lines) /\ Len(logs) = n /\ Len(meter) = h
  BY DEF LogLine, Line, Lines
<1>2. QED
  BY <1>1, ConcatProperties DEF Picture

(* The picture without a meter.                                            *)
LEMMA MessagesAlone ==
  ASSUME NEW n \in Nat
  PROVE  /\ Picture(n, 0) \in Seq(Lines) /\ Len(Picture(n, 0)) = n
         /\ \A k \in 1..n : Picture(n, 0)[k] = LogLine(k)
<1>1. n + 0 = n /\ 0 \in Nat
  OBVIOUS
<1>2. QED
  BY <1>1, PictureLines

(* A step that draws nothing.                                              *)
LEMMA NothingDrawn ==
  ASSUME IInv, UNCHANGED screen, Printed' = Printed, Drawn' = Drawn, direct' = direct
  PROVE  NoLogInMeter' /\ LogsKept' /\ AsDrawn'
<1>1. NoLogInMeter'
  BY DEF IInv, NoLogInMeter
<1>2. LogsKept'
  BY DEF IInv, LogsKept
<1>3. AsDrawn'
  BY DEF IInv, AsDrawn
<1>4. QED
  BY <1>1, <1>2, <1>3

(* What Drawn and Printed are, and that they count.                        *)
LEMMA Counts ==
  ASSUME TypeOK, Agreed
  PROVE  Printed \in Nat /\ Drawn \in Nat /\ msg \in Nat /\ line \in Nat
  BY DEF TypeOK, Agreed, Printed, Drawn

(* A line that is no message, below everything.                            *)
LEMMA OtherLine ==
  ASSUME IInv, NEW l \in Lines, ~IsLog(l), screen' = Append(screen, l), Printed' = Printed,
         Drawn' \in {Drawn, Drawn + 1}
  PROVE  NoLogInMeter' /\ LogsKept'
<1>1. /\ Len(screen') = Len(screen) + 1
      /\ \A i \in 1..Len(screen) : screen'[i] = screen[i]
      /\ screen'[Len(screen) + 1] = l
      /\ screen \in Seq(Lines) /\ screen' \in Seq(Lines)
  BY AppendProperties DEF IInv, Lines
<1>2. Drawn \in Nat
  BY Counts DEF IInv
<1>3. NoLogInMeter'
  BY <1>1, <1>2 DEF IInv, NoLogInMeter
<1>4. {k \in DOMAIN screen' : IsLog(screen'[k])} = {k \in DOMAIN screen : IsLog(screen[k])}
  BY <1>1
<1>5. LogsKept'
  BY <1>1, <1>4 DEF IInv, LogsKept
<1>6. QED
  BY <1>3, <1>5

(* Output past the meter goes below it, and counts as the end of the        *)
(* picture.                                                                 *)
LEMMA DirectPrintStep ==
  ASSUME IInv, DirectPrint
  PROVE  NoLogInMeter' /\ LogsKept' /\ AsDrawn'
<1>1. OutLine \in Lines /\ ~IsLog(OutLine)
  BY DEF OutLine, Lines, IsLog
<1>2. Printed' = Printed /\ Drawn' = Drawn
  BY DEF DirectPrint, Printed, Drawn
<1>3. NoLogInMeter' /\ LogsKept'
  BY <1>1, <1>2, OtherLine DEF DirectPrint
<1>4. AsDrawn'
  BY DEF DirectPrint, AsDrawn
<1>5. QED
  BY <1>3, <1>4

(* What Clear takes away holds no message, and is the meter, if nobody     *)
(* else has printed.                                                       *)
LEMMA ClearStep ==
  ASSUME IInv, Clear
  PROVE  NoLogInMeter' /\ LogsKept' /\ AsDrawn'
<1> DEFINE n == Len(screen) - msg
<1>1. /\ Drawn = msg /\ Drawn' = 0 /\ Printed' = Printed /\ direct' = direct
      /\ Printed \in Nat /\ msg \in Nat
  BY Counts DEF IInv, TypeOK, Clear, Drawn, Printed
<1>2. screen \in Seq(Lines) /\ n \in 0..Len(screen)
  BY <1>1 DEF IInv, NoLogInMeter, Lines
<1>3. screen' = SubSeq(screen, 1, n)
  BY <1>1, <1>2 DEF Clear
<1>4. /\ screen' \in Seq(Lines) /\ Len(screen') = n
      /\ \A k \in 1..n : screen'[k] = screen[k]
  BY <1>2, <1>3, SubSeqProperties
<1>5. NoLogInMeter'
  BY <1>1, <1>4 DEF NoLogInMeter
<1>6. {k \in DOMAIN screen' : IsLog(screen'[k])} = {k \in DOMAIN screen : IsLog(screen[k])}
  <2>1. DOMAIN screen' = 1..n /\ DOMAIN screen = 1..Len(screen)
    BY <1>2, <1>4
  <2>2. \A k \in DOMAIN screen : k > n => ~IsLog(screen[k])
    BY <1>1 DEF IInv, NoLogInMeter
  <2>3. QED
    BY <1>2, <1>4, <2>1, <2>2
<1>7. LogsKept'
  <2> DEFINE logs == {k \in DOMAIN screen : IsLog(screen[k])}
  <2>1. {k \in DOMAIN screen' : IsLog(screen'[k])} = logs
    BY <1>6
  <2>2. \A k \in logs : screen'[k] = screen[k]
    <3>1. \A k \in logs : k \in DOMAIN screen'
      BY <2>1
    <3>2. QED
      BY <1>4, <3>1
  <2>3. {screen'[k][2] : k \in logs} = {screen[k][2] : k \in logs}
    BY <2>2
  <2>4. QED
    BY <1>1, <2>1, <2>2, <2>3 DEF IInv, LogsKept
<1>8. AsDrawn'
  <2> SUFFICES ASSUME ~direct PROVE screen' = Picture(Printed, 0)
    BY <1>1 DEF AsDrawn
  <2>1. screen = Picture(Printed, msg)
    BY <1>1 DEF IInv, AsDrawn
  <2>2. /\ Len(screen) = Printed + msg
        /\ \A k \in 1..(Printed + msg) :
             screen[k] = IF k <= Printed THEN LogLine(k) ELSE Line(k - Printed)
    BY <1>1, <2>1, PictureLines
  <2>3. n = Printed
    BY <1>1, <2>2
  <2>4. /\ Picture(Printed, 0) \in Seq(Lines) /\ Len(Picture(Printed, 0)) = Printed
        /\ \A k \in 1..Printed : Picture(Printed, 0)[k] = LogLine(k)
    BY <1>1, MessagesAlone
  <2>5. \A k \in 1..Printed : screen'[k] = LogLine(k)
    BY <1>1, <1>4, <2>2, <2>3
  <2>6. QED
    BY <1>4, <2>3, <2>4, <2>5, SeqEqual
<1>9. QED
  BY <1>5, <1>7, <1>8

(* A message goes below the ones before it, where the meter was.           *)
LEMMA PrintLogStep ==
  ASSUME IInv, TypeOK', PrintLog
  PROVE  NoLogInMeter' /\ LogsKept' /\ AsDrawn'
<1>1. /\ Printed = written - 1 /\ Printed' = written /\ written \in Nat \ {0}
      /\ Drawn = 0 /\ direct' = direct
  BY DEF IInv, TypeOK, Agreed, PrintLog, Printed, Drawn
<1>2. LogLine(written) \in Lines /\ IsLog(LogLine(written)) /\ LogLine(written)[2] = written
  BY <1>1 DEF LogLine, Lines, IsLog
<1>3. screen \in Seq(Lines)
  BY DEF IInv, Lines
<1>4. /\ Len(screen') = Len(screen) + 1 /\ screen' \in Seq(Lines)
      /\ \A i \in 1..Len(screen) : screen'[i] = screen[i]
      /\ screen'[Len(screen) + 1] = LogLine(written)
  BY <1>2, <1>3, AppendProperties DEF PrintLog
<1>5. LogsKept'
  <2> DEFINE logs == {k \in DOMAIN screen : IsLog(screen[k])}
             m    == Len(screen) + 1
  <2>1. m \in Nat /\ \A k \in logs : k < m /\ screen'[k] = screen[k]
    BY <1>3, <1>4
  <2>2. {k \in DOMAIN screen' : IsLog(screen'[k])} = logs \cup {m}
    BY <1>2, <1>3, <1>4
  <2>3. /\ {screen[k][2] : k \in logs} = 1..(written - 1)
        /\ \A j, k \in logs : j < k => screen[j][2] < screen[k][2]
    BY <1>1 DEF IInv, LogsKept
  <2>4. \A k \in logs : screen[k][2] \in 1..(written - 1)
    BY <2>3
  <2>5. {screen'[k][2] : k \in logs \cup {m}} = {screen[k][2] : k \in logs} \cup {written}
    BY <1>2, <1>4, <2>1
  <2>6. @ = 1..written
    BY <1>1, <2>3
  <2>7. \A j, k \in logs \cup {m} : j < k => screen'[j][2] < screen'[k][2]
    <3> SUFFICES ASSUME NEW j \in logs \cup {m}, NEW k \in logs \cup {m}, j < k
                 PROVE  screen'[j][2] < screen'[k][2]
      OBVIOUS
    <3>1. CASE j \in logs /\ k \in logs
      BY <2>1, <2>3, <3>1
    <3>2. CASE j \in logs /\ k = m
      BY <1>1, <1>2, <1>4, <2>1, <2>4, <3>2
    <3>3. CASE j = m
      BY <2>1, <3>3
    <3>4. QED
      BY <3>1, <3>2, <3>3
  <2>8. QED
    BY <1>1, <2>2, <2>5, <2>6, <2>7 DEF LogsKept
<1>6. Drawn' = 0
  BY DEF IInv, Agreed, PrintLog, Drawn
<1>7. NoLogInMeter'
  BY <1>4, <1>6 DEF NoLogInMeter
<1>8. AsDrawn'
  <2> SUFFICES ASSUME ~direct PROVE screen' = Picture(written, 0)
    BY <1>1, <1>6 DEF AsDrawn
  <2>1. screen = Picture(written - 1, 0)
    BY <1>1 DEF IInv, AsDrawn
  <2>2. /\ Len(screen) = written - 1
        /\ \A k \in 1..(written - 1) : screen[k] = LogLine(k)
    <3>1. written - 1 \in Nat
      BY <1>1
    <3>2. QED
      BY <2>1, <3>1, MessagesAlone
  <2>3. /\ Picture(written, 0) \in Seq(Lines) /\ Len(Picture(written, 0)) = written
        /\ \A k \in 1..written : Picture(written, 0)[k] = LogLine(k)
    BY <1>1, MessagesAlone
  <2>4. \A k \in 1..written : screen'[k] = LogLine(k)
    BY <1>1, <1>4, <2>2
  <2>5. QED
    BY <1>1, <1>4, <2>2, <2>3, <2>4, SeqEqual
<1>9. QED
  BY <1>5, <1>7, <1>8

(* Show adds one line of the meter after the other.                        *)
LEMMA ShowStep ==
  ASSUME IInv, Show
  PROVE  NoLogInMeter' /\ LogsKept' /\ AsDrawn'
<1>1. /\ line \in Nat /\ msg \in Nat /\ line <= msg /\ Printed \in Nat
      /\ Drawn = line /\ Printed = written
  BY Counts DEF IInv, TypeOK, Show, Drawn, Printed
<1>2. CASE line < msg
  <2>1. /\ Drawn' = line + 1 /\ Printed' = Printed /\ direct' = direct
        /\ screen' = Append(screen, Line(line + 1))
    BY <1>1, <1>2 DEF Show, Drawn, Printed
  <2>2. Line(line + 1) \in Lines /\ ~IsLog(Line(line + 1))
    BY <1>1 DEF Line, Lines, IsLog
  <2>3. NoLogInMeter' /\ LogsKept'
    BY <1>1, <2>1, <2>2, OtherLine
  <2>4. AsDrawn'
    <3> SUFFICES ASSUME ~direct PROVE screen' = Picture(Printed, line + 1)
      BY <2>1 DEF AsDrawn
    <3>1. screen = Picture(Printed, line)
      BY <1>1 DEF IInv, AsDrawn
    <3>2. /\ Len(screen) = Printed + line
          /\ \A k \in 1..(Printed + line) :
               screen[k] = IF k <= Printed THEN LogLine(k) ELSE Line(k - Printed)
      BY <1>1, <3>1, PictureLines
    <3>3. /\ screen' \in Seq(Lines) /\ Len(screen') = Len(screen) + 1
          /\ \A k \in 1..Len(screen) : screen'[k] = screen[k]
          /\ screen'[Len(screen) + 1] = Line(line + 1)
      BY <2>1, <2>2, AppendProperties DEF IInv, Lines
    <3>4. /\ Picture(Printed, line + 1) \in Seq(Lines)
          /\ Len(Picture(Printed, line + 1)) = Printed + line + 1
          /\ \A k \in 1..(Printed + line + 1) : Picture(Printed, line + 1)[k] =
               IF k <= Printed THEN LogLine(k) ELSE Line(k - Printed)
      BY <1>1, PictureLines
    <3>5. \A k \in 1..(Printed + line + 1) :
            screen'[k] = IF k <= Printed THEN LogLine(k) ELSE Line(k - Printed)
      BY <1>1, <3>2, <3>3
    <3>6. QED
      BY <1>1, <3>2, <3>3, <3>4, <3>5, SeqEqual
  <2>5. QED
    BY <2>3, <2>4
<1>3. CASE ~(line < msg)
  <2>1. UNCHANGED <<screen, direct>> /\ Printed' = Printed /\ Drawn' = Drawn
    BY <1>1, <1>3 DEF Show, Drawn, Printed
  <2>2. QED
    BY <2>1, NothingDrawn
<1>4. QED
  BY <1>2, <1>3

(* Every step keeps the invariant.                                         *)
LEMMA NextIInv == IInv /\ [Next]_vars => IInv'
<1> SUFFICES ASSUME IInv, [Next]_vars PROVE IInv'
  OBVIOUS
<1>1. TypeOK' /\ Flags' /\ Agreed'
  BY TypeStep
<1>2. screen' \in Seq(Lines)
  <2>1. screen \in Seq(Lines) /\ line \in Nat /\ written \in Nat
    BY DEF IInv, TypeOK, Lines
  <2>2. LogLine(written) \in Lines /\ Line(line + 1) \in Lines /\ OutLine \in Lines
    BY <2>1 DEF LogLine, Line, OutLine, Lines
  <2>3. CASE DirectPrint
    BY <2>1, <2>2, <2>3, AppendProperties DEF DirectPrint
  <2>4. CASE Clear
    <3>1. NoLogInMeter /\ msg \in Nat /\ Drawn = msg
      BY <2>4, Counts DEF IInv, Clear, Drawn
    <3>2. Len(screen) - msg \in 0..Len(screen)
      BY <2>1, <3>1 DEF NoLogInMeter
    <3>3. screen' = SubSeq(screen, 1, Len(screen) - msg)
      BY <2>1, <2>4, <3>1, <3>2 DEF Clear
    <3>4. QED
      BY <2>1, <3>2, <3>3, SubSeqProperties
  <2>5. CASE PrintLog
    BY <2>1, <2>2, <2>5, AppendProperties DEF PrintLog
  <2>6. CASE Show
    BY <2>1, <2>2, <2>6, AppendProperties DEF Show
  <2>7. CASE UNCHANGED screen
    BY <2>1, <2>7
  <2>8. QED
    BY <2>3, <2>4, <2>5, <2>6, <2>7 DEF Next, Run, Log, Sync, Shutdown, Ticker,
       ReceiveLog, ReceiveMeter, ReceiveClosed, Done, vars
<1>3. NoLogInMeter' /\ LogsKept' /\ AsDrawn'
  <2> USE DEF Drawn, Printed
  <2>1. CASE Log \/ Sync \/ Shutdown \/ Ticker \/ UNCHANGED vars
    <3>1. UNCHANGED <<screen, direct, run, job, msg, line, written>>
      BY <2>1 DEF Log, Sync, Shutdown, Ticker, vars
    <3>2. QED
      BY <3>1, NothingDrawn
  <2>2. CASE ReceiveLog
    <3>1. UNCHANGED <<screen, direct>> /\ Printed' = Printed /\ Drawn' = Drawn
      BY <2>2 DEF ReceiveLog, IInv, TypeOK
    <3>2. QED
      BY <3>1, NothingDrawn
  <2>3. CASE ReceiveMeter
    <3>1. UNCHANGED <<screen, direct>> /\ Printed' = Printed /\ Drawn' = Drawn
      BY <2>3 DEF ReceiveMeter, IInv, TypeOK, Agreed
    <3>2. QED
      BY <3>1, NothingDrawn
  <2>4. CASE ReceiveClosed \/ Done
    <3>1. UNCHANGED <<screen, direct>> /\ Printed' = Printed /\ Drawn' = Drawn
      BY <2>4 DEF ReceiveClosed, Done
    <3>2. QED
      BY <3>1, NothingDrawn
  <2>5. CASE DirectPrint \/ Clear \/ PrintLog \/ Show
    BY <1>1, <2>5, DirectPrintStep, ClearStep, PrintLogStep, ShowStep
  <2>6. QED
    BY <2>1, <2>2, <2>3, <2>4, <2>5 DEF Next, Run
<1>4. QED
  BY <1>1, <1>2, <1>3 DEF IInv, Lines

(* The invariant that MCMeter checks holds for all heights and bounds.     *)
THEOREM MeterInvariant == Spec => []IInv
  BY InitIInv, NextIInv, PTL DEF Spec

(* No message is lost, shown twice, out of order, or cleared away again,   *)
(* whatever meters are drawn and whatever is printed past them.            *)
THEOREM MessagesKept == Spec => []LogsKept
<1>1. IInv => LogsKept
  BY DEF IInv
<1>2. QED
  BY <1>1, MeterInvariant, PTL

(* Without output past it, the terminal holds the messages and one whole   *)
(* meter below them whenever Run has finished drawing.                     *)
THEOREM ScreenCoordinated == Spec => []Coordinated
<1>1. IInv => Coordinated
  BY DEF IInv, AsDrawn, Coordinated, Printed, Drawn
<1>2. QED
  BY <1>1, MeterInvariant, PTL

(* When Shutdown returns, every message handed over is on the terminal     *)
(* (meter.go:37).                                                          *)
THEOREM ShutdownFlushes ==
  Spec => [](main = "over" =>
               {screen[k][2] : k \in {j \in DOMAIN screen : IsLog(screen[j])}} = 1..written)
<1>1. IInv => (main = "over" =>
               {screen[k][2] : k \in {j \in DOMAIN screen : IsLog(screen[j])}} = 1..written)
  BY DEF IInv, TypeOK, LogsKept, Printed
<1>2. QED
  BY <1>1, MeterInvariant, PTL
=============================================================================
