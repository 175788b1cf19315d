------------------------------- MODULE Meter -------------------------------
(***************************************************************************)
(* The progress meter (meter/meter.go): two goroutines that meet on        *)
(* unbuffered channels.                                                    *)
(*                                                                         *)
(* The program logs, offers meters, and runs commands that print for       *)
(* themselves; Run is the only one that writes log messages and meters.  A *)
(* send is over as soon as Run has received: the program goes on while Run *)
(* is still drawing.  The terminal is a sequence of lines with the cursor  *)
(* below the last one; clearing moves the cursor up and drops what is      *)
(* below it, whoever printed it.                                           *)
(***************************************************************************)
EXTENDS Naturals, Sequences

CONSTANTS
  Heights,   \* numbers of lines GetMeter may return
  MaxOps     \* bound on what the program does before Shutdown

ASSUME MeterAssumption ==
  Heights \subseteq Nat \ {0} /\ MaxOps \in Nat

VARIABLES
  main,     \* the program: "ready", in a send ("log", "meter"), in Shutdown
            \* ("wait") or after it ("over")
  ops,      \* what it has done so far
  offer,    \* height of the meter it is sending
  written,  \* log messages handed over
  tick,     \* the ticker's channel, which holds one tick
  closed,   \* is the log channel closed?
  run,      \* Run: in its select, drawing ("clear", "print", "show"), or ending
  job,      \* what it draws: 0 for a log message, else the height of a meter
  msg,      \* height of the last meter shown, 0 for none
  line,     \* lines of it that Show has printed
  screen,   \* lines on the terminal
  direct    \* has anything been printed past the meter (commands, listings)?

vars == <<main, ops, offer, written, tick, closed, run, job, msg, line, screen, direct>>

LogLine(i) == <<"log", i>>
Line(k)    == <<"meter", k>>
OutLine    == <<"out", 0>>

IsLog(l) == l[1] = "log"

Lines == {"log", "meter", "out"} \X Nat

\* Setup: the channels are made and Run is started.
Init ==
  /\ main = "ready" /\ ops = 0 /\ offer = 0 /\ written = 0
  /\ tick = FALSE /\ closed = FALSE
  /\ run = "select" /\ job = 0 /\ msg = 0 /\ line = 0
  /\ screen = <<>> /\ direct = FALSE

Ready == main = "ready" /\ ops < MaxOps

\* log.Printf, which ends in Write and its send.
Log ==
  /\ Ready
  /\ main' = "log" /\ ops' = ops + 1
  /\ UNCHANGED <<offer, written, tick, closed, run, job, msg, line, screen, direct>>

\* Sync: takes a tick if there is one, sends if it did or if forced.
Sync ==
  /\ Ready
  /\ ops' = ops + 1
  /\ tick' = FALSE
  /\ \/ /\ \E h \in Heights : offer' = h   \* tick or force
        /\ main' = "meter"
     \/ /\ ~tick                           \* neither
        /\ UNCHANGED <<offer, main>>
  /\ UNCHANGED <<written, closed, run, job, msg, line, screen, direct>>

\* A command's output, or a listing.
DirectPrint ==
  /\ Ready
  /\ direct' = TRUE
  /\ ops' = ops + 1
  /\ screen' = Append(screen, OutLine)
  /\ UNCHANGED <<main, offer, written, tick, closed, run, job, msg, line>>

Shutdown ==
  /\ main = "ready"
  /\ closed' = TRUE
  /\ main' = "wait"
  /\ UNCHANGED <<ops, offer, written, tick, run, job, msg, line, screen, direct>>

\* The ticker drops a tick that nobody took.
Ticker ==
  /\ tick' = TRUE
  /\ UNCHANGED <<main, ops, offer, written, closed, run, job, msg, line, screen, direct>>

(* Run. *)

ReceiveLog ==
  /\ run = "select" /\ main = "log"
  /\ main' = "ready"
  /\ written' = written + 1
  /\ run' = "clear" /\ job' = 0
  /\ UNCHANGED <<ops, offer, tick, closed, msg, line, screen, direct>>

ReceiveMeter ==
  /\ run = "select" /\ main = "meter"
  /\ main' = "ready"
  /\ run' = "clear" /\ job' = offer
  /\ UNCHANGED <<ops, offer, written, tick, closed, msg, line, screen, direct>>

ReceiveClosed ==
  /\ run = "select" /\ closed
  /\ run' = "done"
  /\ UNCHANGED <<main, ops, offer, written, tick, closed, job, msg, line, screen, direct>>

\* Mutant: the height of the new meter is cleared, not that of the old one.
ClearNew ==
  LET h == IF job = 0 THEN msg ELSE job IN
  /\ run = "clear"
  /\ screen' = SubSeq(screen, 1, IF Len(screen) > h THEN Len(screen) - h ELSE 0)
  /\ msg' = h
  /\ run' = IF job = 0 THEN "print" ELSE "show"
  /\ line' = 0
  /\ UNCHANGED <<main, ops, offer, written, tick, closed, job, direct>>

\* Clear, and the new meter takes the place of the old one.
Clear ==
  /\ run = "clear"
  /\ screen' = SubSeq(screen, 1, IF Len(screen) > msg THEN Len(screen) - msg ELSE 0)
  /\ msg' = IF job = 0 THEN msg ELSE job
  /\ run' = IF job = 0 THEN "print" ELSE "show"
  /\ line' = 0
  /\ UNCHANGED <<main, ops, offer, written, tick, closed, job, direct>>

\* fmt.Print(msg)
PrintLog ==
  /\ run = "print"
  /\ screen' = Append(screen, LogLine(written))
  /\ run' = "show"
  /\ UNCHANGED <<main, ops, offer, written, tick, closed, job, msg, line, direct>>

\* Mutant: a message is not followed by the meter it has replaced.
ShowNotAfterLog ==
  /\ run = "show"
  /\ IF job # 0 /\ line < msg
       THEN /\ screen' = Append(screen, Line(line + 1))
            /\ line' = line + 1
            /\ UNCHANGED run
       ELSE run' = "select" /\ UNCHANGED <<line, screen>>
  /\ UNCHANGED <<main, ops, offer, written, tick, closed, job, msg, direct>>

\* Show, line by line.
Show ==
  /\ run = "show"
  /\ IF line < msg
       THEN /\ screen' = Append(screen, Line(line + 1))
            /\ line' = line + 1
            /\ UNCHANGED run
       ELSE run' = "select" /\ UNCHANGED <<line, screen>>
  /\ UNCHANGED <<main, ops, offer, written, tick, closed, job, msg, direct>>

\* Mutant: Shutdown does not wait.
DoneUnawaited ==
  /\ main = "wait"
  /\ main' = "over"
  /\ UNCHANGED <<ops, offer, written, tick, closed, run, job, msg, line, screen, direct>>

\* Mutant: Run leaves its loop without a word.
DoneUnsent ==
  /\ run = "done"
  /\ run' = "gone"
  /\ UNCHANGED <<main, ops, offer, written, tick, closed, job, msg, line, screen, direct>>

\* self.done <- true, which Shutdown waits for.
Done ==
  /\ run = "done" /\ main = "wait"
  /\ run' = "gone" /\ main' = "over"
  /\ UNCHANGED <<ops, offer, written, tick, closed, job, msg, line, screen, direct>>

Run == ReceiveLog \/ ReceiveMeter \/ ReceiveClosed \/ Clear \/ PrintLog \/ Show \/ Done

Next == Log \/ Sync \/ DirectPrint \/ Shutdown \/ Ticker \/ Run

\* Go runs a goroutine that can go on; the program does not sit idle for ever.
Fairness == WF_vars(Run) /\ WF_vars(Shutdown)

Spec == Init /\ [][Next]_vars /\ Fairness

-----------------------------------------------------------------------------
(* Properties. *)

TypeOK ==
  /\ main \in {"ready", "log", "meter", "wait", "over"}
  /\ run \in {"select", "clear", "print", "show", "done", "gone"}
  /\ ops \in 0..MaxOps /\ written \in 0..MaxOps
  /\ job \in Heights \cup {0} /\ msg \in Heights \cup {0} /\ offer \in Heights \cup {0}
  /\ line \in 0..msg
  /\ main = "over" <=> run = "gone"

\* The messages that are on the terminal: those handed over, but for the one that
\* Run is about to print.
Printed == IF run \in {"clear", "print"} /\ job = 0 THEN written - 1 ELSE written

\* Messages reach the terminal in order, once, and are never cleared away
\* again, whatever meters of whatever heights are drawn and whatever is printed
\* past them; with all of them there when Shutdown returns (meter.go:37).
LogsKept ==
  LET logs == {k \in DOMAIN screen : IsLog(screen[k])} IN
  /\ {screen[k][2] : k \in logs} = 1..Printed
  /\ \A j, k \in logs : j < k => screen[j][2] < screen[k][2]

\* Lines of a meter that are on the terminal.
Drawn ==
  CASE run = "print" -> 0
    [] run = "show"  -> line
    [] OTHER         -> msg

\* Logs and meter lines, n and h of them.
Picture(n, h) == [i \in 1..n |-> LogLine(i)] \o [k \in 1..h |-> Line(k)]

\* When nothing is printed past it, the terminal holds the messages with one
\* meter below them whenever Run is between two drawings: no half meter, no
\* second one.
Coordinated ==
  ~direct /\ run = "select" => screen = Picture(written, msg)

(***************************************************************************)
(* Why: the two goroutines agree on who is where, the lines that the next  *)
(* Clear takes away hold no message even if others printed among them, and *)
(* when nobody did they are exactly the meter that was drawn.              *)
(***************************************************************************)
Agreed ==
  /\ main = "log" => written < ops
  /\ written <= ops
  /\ main = "meter" => offer \in Heights
  /\ closed <=> main \in {"wait", "over"}
  /\ run \in {"done", "gone"} => closed
  /\ run \in {"clear", "print"} /\ job = 0 => written > 0
  /\ run = "print" => job = 0 /\ line = 0

NoLogInMeter ==
  /\ Drawn <= Len(screen)
  /\ \A k \in DOMAIN screen : k > Len(screen) - Drawn => ~IsLog(screen[k])

AsDrawn == ~direct => screen = Picture(Printed, Drawn)

Flags == tick \in BOOLEAN /\ closed \in BOOLEAN /\ direct \in BOOLEAN

IInv ==
  /\ TypeOK /\ Flags /\ screen \in Seq(Lines)
  /\ Agreed /\ NoLogInMeter /\ LogsKept /\ AsDrawn

\* No send and no Shutdown blocks for ever, and the program gets to its end.
Terminates == <>(main = "over")
=============================================================================
