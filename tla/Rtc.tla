--------------------------------- MODULE Rtc ---------------------------------
(***************************************************************************)
(* The real-time clock driver (rtc.c), its interrupt, and the end-of-      *)
(* interrupt protocol of the two interrupt controllers (i8259.c).          *)
(*                                                                         *)
(* All terminals' programs share one int_flag and one clock.  Code runs    *)
(* only in the terminal on the screen (module Tasks): a terminal switch    *)
(* stops what it interrupted, rtc_read or the RTC handler itself, until    *)
(* the terminal is shown again.                                            *)
(***************************************************************************)
EXTENDS Integers, FiniteSets

CONSTANTS NUMTERMINALS,
          FREQUENCIES       \* the rates programs ask rtc_write for

ASSUME TerminalsAssumption == NUMTERMINALS \in Nat \ {0}
ASSUME FrequenciesAssumption == FREQUENCIES \subseteq Nat

Terminals == 0 .. NUMTERMINALS - 1
KEYBOARD == 1
SLAVE == 2
RTC == 8
IRQ_MAX == 8
FREQ_MIN == 2
FREQ_MAX == 1024
THEORY_MAX == 32768

VARIABLES
  current_terminal,
  int_flag,        \* TRUE for HIGH
  pc,              \* where each terminal's program is
  handler,         \* the unfinished run of rtc_handler, and whose code it is on
  index,           \* the register selected at RTC_INDEX
  int_on,          \* register B: periodic interrupts are on
  rate,            \* register A
  flagged,         \* register C: an interrupt not yet acknowledged
  requested,       \* IRQ 8 is requested at the slave controller
  master, slave,   \* the in-service bits of the two controllers
  asked,           \* history: the frequency last set, 0 for none
  crossed,         \* history: the clock was set up while a handler was
                   \* suspended between selecting register C and reading it
  ticked           \* history: an interrupt was handled since its last read

clock == <<index, int_on, rate, flagged>>
pics == <<requested, master, slave>>
history == <<asked, crossed, ticked>>
vars == <<current_terminal, int_flag, pc, handler, clock, pics, history>>

Nobody == [at |-> "none", term |-> 0]

Init ==
  /\ current_terminal = 0
  /\ int_flag = FALSE
  /\ pc = [t \in Terminals |-> "program"]
  /\ handler = Nobody
  /\ index = "other"
  /\ int_on = FALSE
  /\ rate = 6                        \* 1024 Hz, the power-on value
  /\ flagged = FALSE
  /\ requested = FALSE
  /\ master = {}
  /\ slave = {}
  /\ asked = 0
  /\ crossed = FALSE
  /\ ticked = [t \in Terminals |-> FALSE]

shown == current_terminal
-----------------------------------------------------------------------------
(* A controller delivers a request over a lower-priority one in service     *)
(* only; those of the slave come in on IRQ 2 of the master.                 *)
Deliverable(irq) ==
  IF irq >= IRQ_MAX
  THEN (\A i \in slave : irq - IRQ_MAX < i) /\ (\A i \in master : SLAVE < i)
  ELSE \A i \in master : irq < i

(* send_eoi: specific end of interrupt, to both controllers for the slave's. *)
SendEoi_MasterOnly(irq) ==
  /\ slave' = slave
  /\ master' = master \ {IF irq >= IRQ_MAX THEN SLAVE ELSE irq}

SendEoi(irq) ==
  /\ slave' = IF irq >= IRQ_MAX THEN slave \ {irq - IRQ_MAX} ELSE slave
  /\ master' = master \ {IF irq >= IRQ_MAX THEN SLAVE ELSE irq}

(* The clock raises its line and keeps it up until register C is read.      *)
Tick ==
  /\ int_on
  /\ ~ flagged
  /\ flagged' = TRUE
  /\ requested' = TRUE
  /\ UNCHANGED <<current_terminal, int_flag, pc, handler, index, int_on, rate,
                 master, slave, history>>

Interrupt ==
  /\ requested
  /\ Deliverable(RTC)
  /\ requested' = FALSE
  /\ slave' = slave \cup {RTC - IRQ_MAX}
  /\ master' = master \cup {SLAVE}
  /\ handler' = [at |-> "flag", term |-> shown]
  /\ UNCHANGED <<current_terminal, int_flag, pc, clock, history>>

(* rtc_handler, with interrupts enabled: the flag, the selection of register *)
(* C, the read of whichever register is selected by then, the EOI.          *)
Handling(l) == handler.at = l /\ handler.term = shown

HandlerFlag ==
  /\ Handling("flag")
  /\ int_flag' = TRUE
  /\ ticked' = [t \in Terminals |-> TRUE]
  /\ handler' = [handler EXCEPT !.at = "select"]
  /\ UNCHANGED <<current_terminal, pc, clock, pics, asked, crossed>>

HandlerSelect_Skipped ==
  /\ Handling("select")
  /\ handler' = [handler EXCEPT !.at = "read"]
  /\ UNCHANGED <<current_terminal, int_flag, pc, clock, pics, history>>

HandlerSelect ==
  /\ Handling("select")
  /\ index' = "C"
  /\ handler' = [handler EXCEPT !.at = "read"]
  /\ UNCHANGED <<current_terminal, int_flag, pc, int_on, rate, flagged, pics,
                 history>>

HandlerRead ==
  /\ Handling("read")
  /\ handler' = [handler EXCEPT !.at = "eoi"]
  /\ flagged' = (flagged /\ index # "C")
  /\ UNCHANGED <<current_terminal, int_flag, pc, index, int_on, rate, pics,
                 history>>

HandlerEoi ==
  /\ Handling("eoi")
  /\ SendEoi(RTC)
  /\ handler' = Nobody
  /\ UNCHANGED <<current_terminal, int_flag, pc, clock, requested, history>>

HandlerStep == HandlerFlag \/ HandlerSelect \/ HandlerRead \/ HandlerEoi

(* Alt+Fn: the keyboard's interrupt is over before the switch (send_eoi in  *)
(* terminal_switch), the interrupted one's is not.                          *)
AltFn(t) ==
  /\ Deliverable(KEYBOARD)
  /\ t # current_terminal
  /\ current_terminal' = t
  /\ UNCHANGED <<int_flag, pc, handler, clock, pics, history>>
-----------------------------------------------------------------------------
(* The program on the screen, not interrupted by the handler.               *)
At(l) == pc[shown] = l /\ ~ (handler.at # "none" /\ handler.term = shown)
Goto(l) == pc' = [pc EXCEPT ![shown] = l]

(* What rtc_open and rtc_write do to the clock, in one system call with     *)
(* interrupts off: they leave register B selected.                          *)
SetUp(frequency, r) ==
  /\ index' = "B"
  /\ rate' = r
  /\ asked' = frequency
  /\ crossed' = (crossed \/ handler.at = "read")

(* rtc_open sets 2 Hz, for every program.                                   *)
Open_KeepsRate ==
  /\ At("program")
  /\ int_on' = TRUE
  /\ SetUp(FREQ_MIN, IF int_on THEN rate ELSE 15)
  /\ UNCHANGED <<current_terminal, int_flag, pc, handler, flagged, pics, ticked>>

Open ==
  /\ At("program")
  /\ int_on' = TRUE
  /\ SetUp(FREQ_MIN, 15)
  /\ UNCHANGED <<current_terminal, int_flag, pc, handler, flagged, pics, ticked>>

(* The first byte of the frequency, as rtc_write's char.                    *)
Char(f) == IF f % 256 < 128 THEN f % 256 ELSE (f % 256) - 256

Valid_NoMinimum(frequency) ==
  /\ frequency <= FREQ_MAX
  /\ \E k \in 0 .. 10 : frequency = 2 ^ k
Valid(frequency) ==
  /\ frequency \in FREQ_MIN .. FREQ_MAX
  /\ \E k \in 0 .. 10 : frequency = 2 ^ k

(* rtc_write's loop counts the halvings of THEORY_MAX / frequency.          *)
RateOf(frequency) ==
  1 + CHOOSE k \in 0 .. 15 : 2 ^ k = THEORY_MAX \div frequency

Write(f) ==
  /\ At("program")
  /\ int_on
  /\ Valid(Char(f))
  /\ SetUp(f, RateOf(Char(f)))
  /\ UNCHANGED <<current_terminal, int_flag, pc, handler, int_on, flagged, pics,
                 ticked>>

(* A frequency that is refused: -1, before the clock is touched.            *)
WriteFails(f) ==
  /\ At("program")
  /\ int_on
  /\ ~ Valid(Char(f))
  /\ UNCHANGED vars

(* rtc_read.  A descriptor of the RTC has been opened, so the clock runs.   *)
ReadCall ==
  /\ At("program")
  /\ int_on
  /\ Goto("spin")
  /\ UNCHANGED <<current_terminal, int_flag, handler, clock, pics, history>>

ReadWake ==
  /\ At("spin")
  /\ int_flag
  /\ Goto("clear")
  /\ UNCHANGED <<current_terminal, int_flag, handler, clock, pics, history>>

ReadClear_KeepsFlag ==
  /\ At("clear")
  /\ ticked' = [ticked EXCEPT ![shown] = FALSE]
  /\ Goto("program")
  /\ UNCHANGED <<current_terminal, int_flag, handler, clock, pics, asked, crossed>>

ReadClear ==
  /\ At("clear")
  /\ int_flag' = FALSE
  /\ ticked' = [ticked EXCEPT ![shown] = FALSE]
  /\ Goto("program")
  /\ UNCHANGED <<current_terminal, handler, clock, pics, asked, crossed>>

Next ==
  \/ Tick
  \/ Interrupt
  \/ HandlerStep
  \/ \E t \in Terminals : AltFn(t)
  \/ Open
  \/ \E f \in FREQUENCIES : Write(f) \/ WriteFails(f)
  \/ ReadCall
  \/ ReadWake
  \/ ReadClear

Spec == Init /\ [][Next]_vars

(* The clock ticks, the controllers deliver, the CPU executes the code of   *)
(* the terminal on the screen.  At 1024 Hz at most the handler leaves the   *)
(* program time between two interrupts, however often it stops it.          *)
FairSpec ==
  /\ Spec
  /\ WF_vars(Tick)
  /\ WF_vars(Interrupt)
  /\ WF_vars(HandlerStep)
  /\ SF_vars(ReadWake \/ ReadClear)
-----------------------------------------------------------------------------
(* Every variable stays within its type.  The rate is the power-on one or   *)
(* one of 2 to 64 Hz: what is written never reaches the other bits of       *)
(* register A, nor a rate above the highest a signed char can ask for.      *)
TypeOK ==
  /\ current_terminal \in Terminals
  /\ int_flag \in BOOLEAN
  /\ pc \in [Terminals -> {"program", "spin", "clear"}]
  /\ handler \in [at : {"none", "flag", "select", "read", "eoi"},
                 term : Terminals]
  /\ index \in {"B", "C", "other"}
  /\ int_on \in BOOLEAN
  /\ rate \in {6} \cup 10 .. 15
  /\ flagged \in BOOLEAN
  /\ requested \in BOOLEAN
  /\ master \subseteq {KEYBOARD, SLAVE}
  /\ slave \subseteq {RTC - IRQ_MAX}
  /\ asked \in FREQUENCIES \cup {0, FREQ_MIN}
  /\ crossed \in BOOLEAN
  /\ ticked \in [Terminals -> BOOLEAN]

(* An interrupt is in service exactly while a run of its handler is         *)
(* unfinished, on both controllers: no end of interrupt is forgotten, sent  *)
(* early or sent to the wrong one.                                          *)
InServiceWhileHandled ==
  IF handler.at = "none" THEN master = {} /\ slave = {}
                         ELSE master = {SLAVE} /\ slave = {RTC - IRQ_MAX}

(* The line of the clock is up only with its request pending or with the    *)
(* handler yet to "pick register c" and "throw away the contents"           *)
(* (rtc.c:39), which it finds selected: otherwise the clock, which waits    *)
(* for that read, never interrupts again.  That happens in one way only: a  *)
(* program opens the RTC or sets its rate while Alt+Fn has left a handler   *)
(* on another terminal between its two accesses.                            *)
LineIsAnswered ==
  flagged => \/ requested
             \/ handler.at \in {"flag", "select"}
             \/ handler.at = "read" /\ index = "C"
             \/ crossed

(* All programs share the clock: it runs at the frequency that rtc_open or  *)
(* an accepted rtc_write, by any of them, set last.  A refused rtc_write    *)
(* changes nothing.                                                         *)
RateIsLastSet == asked # 0 => asked * 2 ^ (rate - 1) = THEORY_MAX

(* "Waits for an RTC interrupt, and then returns" (rtc.c:75): a read in the *)
(* terminal on the screen returns.  It need not.                            *)
ReadReturns ==
  \A t \in Terminals :
    pc[t] = "spin" ~> pc[t] = "program" \/ current_terminal # t

(* It does unless Alt+Fn has left the handler, before its end of interrupt, *)
(* in a terminal that is not shown, or the clock fell silent because it was *)
(* set up between the two accesses of such a handler.                       *)
ReadReturnsUnlessSuspended ==
  \A t \in Terminals :
    pc[t] = "spin" ~> \/ pc[t] = "program"
                      \/ current_terminal # t
                      \/ handler.at # "none" /\ handler.term # t
                      \/ crossed

(* A program that reads in a loop is let go at most once per interrupt,     *)
(* though other programs raise and lower the same flag in between.          *)
OneReadPerTick == \A t \in Terminals : pc[t] = "clear" => ticked[t]
=============================================================================
