------------------------------ MODULE RtcProofs ------------------------------
(***************************************************************************)
(* What module Rtc keeps true for any number of terminals and any rates     *)
(* programs ask for.  IInv is the inductive invariant; two of the           *)
(* properties need what they do not say themselves: a handler that has yet  *)
(* to acknowledge or to end is in service, and a raised int_flag has been   *)
(* seen by no reader yet.                                                   *)
(***************************************************************************)
EXTENDS Rtc, TLAPS

(* A raised flag is an interrupt no terminal has had since its last read:   *)
(* any reader lowers it.                                                    *)
FlagIsTick == int_flag => \A t \in Terminals : ticked[t]

(* The rate and the byte it was last set from, whatever was asked for.      *)
RateIsByte ==
  asked # 0 => Valid(Char(asked)) /\ rate = RateOf(Char(asked))

IInv ==
  /\ TypeOK
  /\ InServiceWhileHandled
  /\ LineIsAnswered
  /\ FlagIsTick
  /\ OneReadPerTick
  /\ RateIsByte
-----------------------------------------------------------------------------
(* The powers of two that come up.                                          *)
LEMMA PowersOfTwo ==
  ASSUME NEW i
  PROVE  /\ i = 0 => 2 ^ i = 1
         /\ i = 1 => 2 ^ i = 2
         /\ i = 2 => 2 ^ i = 4
         /\ i = 3 => 2 ^ i = 8
         /\ i = 4 => 2 ^ i = 16
         /\ i = 5 => 2 ^ i = 32
         /\ i = 6 => 2 ^ i = 64
         /\ i = 7 => 2 ^ i = 128
         /\ i = 8 => 2 ^ i = 256
         /\ i = 9 => 2 ^ i = 512
         /\ i = 10 => 2 ^ i = 1024
         /\ i = 11 => 2 ^ i = 2048
         /\ i = 12 => 2 ^ i = 4096
         /\ i = 13 => 2 ^ i = 8192
         /\ i = 14 => 2 ^ i = 16384
         /\ i = 15 => 2 ^ i = 32768
<1>0. i = 0 => 2 ^ i = 1
  OBVIOUS
<1>1. i = 1 => 2 ^ i = 2
  OBVIOUS
<1>2. i = 2 => 2 ^ i = 4
  OBVIOUS
<1>3. i = 3 => 2 ^ i = 8
  OBVIOUS
<1>4. i = 4 => 2 ^ i = 16
  OBVIOUS
<1>5. i = 5 => 2 ^ i = 32
  OBVIOUS
<1>6. i = 6 => 2 ^ i = 64
  OBVIOUS
<1>7. i = 7 => 2 ^ i = 128
  OBVIOUS
<1>8. i = 8 => 2 ^ i = 256
  OBVIOUS
<1>9. i = 9 => 2 ^ i = 512
  OBVIOUS
<1>10. i = 10 => 2 ^ i = 1024
  OBVIOUS
<1>11. i = 11 => 2 ^ i = 2048
  OBVIOUS
<1>12. i = 12 => 2 ^ i = 4096
  OBVIOUS
<1>13. i = 13 => 2 ^ i = 8192
  OBVIOUS
<1>14. i = 14 => 2 ^ i = 16384
  OBVIOUS
<1>15. i = 15 => 2 ^ i = 32768
  OBVIOUS
<1> QED BY <1>0, <1>1, <1>2, <1>3, <1>4, <1>5, <1>6, <1>7, <1>8, <1>9, <1>10,
           <1>11, <1>12, <1>13, <1>14, <1>15

LEMMA PowersDiffer ==
  ASSUME NEW i \in 0 .. 15, NEW n \in 0 .. 15, 2 ^ i = 2 ^ n
  PROVE  i = n
<1>1. /\ i \in {0, 1, 2, 3, 4, 5, 6, 7, 8, 9, 10, 11, 12, 13, 14, 15}
      /\ n \in {0, 1, 2, 3, 4, 5, 6, 7, 8, 9, 10, 11, 12, 13, 14, 15}
  OBVIOUS
<1>2. PICK x : x = 2 ^ i
  OBVIOUS
<1>3. x = 2 ^ n
  BY <1>2
<1> QED BY <1>1, <1>2, <1>3, PowersOfTwo

(* The frequencies rtc_write accepts: a signed char reaches 64 only, and    *)
(* the loop of halvings finds for each the rate that gives it.              *)
LEMMA ValidRate ==
  ASSUME NEW f \in Nat, Valid(Char(f))
  PROVE  /\ Char(f) = f % 256
         /\ RateOf(Char(f)) \in 10 .. 15
         /\ Char(f) * 2 ^ (RateOf(Char(f)) - 1) = THEORY_MAX
<1> DEFINE c == Char(f)
           halvings == {k \in 0 .. 15 : 2 ^ k = THEORY_MAX \div c}
<1>1. c \in 2 .. 127 /\ c = f % 256
  BY DEF Valid, Char, FREQ_MIN, FREQ_MAX
<1>2. PICK k \in 0 .. 10 : c = 2 ^ k
  BY DEF Valid
<1>3. c \in {2, 4, 8, 16, 32, 64}
  <2>1. k \in {0, 1, 2, 3, 4, 5, 6, 7, 8, 9, 10}
    BY <1>2
  <2>2. c \in {1, 2, 4, 8, 16, 32, 64, 128, 256, 512, 1024}
    BY <1>2, <2>1, PowersOfTwo
  <2> QED BY <1>1, <2>2
<1> HIDE DEF c
<1>4. ASSUME NEW n \in 9 .. 14, THEORY_MAX \div c = 2 ^ n, c * 2 ^ n = THEORY_MAX
      PROVE  RateOf(c) = n + 1 /\ c * 2 ^ (RateOf(c) - 1) = THEORY_MAX
  <2>1. \A i \in 0 .. 15 : 2 ^ i = 2 ^ n => i = n
    <3>1. n \in 0 .. 15
      OBVIOUS
    <3> QED BY <3>1, PowersDiffer, Zenon
  <2>2. (CHOOSE i \in 0 .. 15 : 2 ^ i = THEORY_MAX \div c) = n
    BY <1>4, <2>1
  <2>3. RateOf(c) = n + 1
    <3>1. RateOf(c) = 1 + n
      BY <2>2, Zenon DEF RateOf
    <3> QED BY <3>1
  <2>4. RateOf(c) - 1 = n
    BY <2>3
  <2> QED BY <1>4, <2>3, <2>4
<1>5. \E n \in 9 .. 14 : THEORY_MAX \div c = 2 ^ n /\ c * 2 ^ n = THEORY_MAX
  <2>1. c = 2 => THEORY_MAX \div c = 2 ^ 14 /\ c * 2 ^ 14 = THEORY_MAX
    BY PowersOfTwo DEF THEORY_MAX
  <2>2. c = 4 => THEORY_MAX \div c = 2 ^ 13 /\ c * 2 ^ 13 = THEORY_MAX
    BY PowersOfTwo DEF THEORY_MAX
  <2>3. c = 8 => THEORY_MAX \div c = 2 ^ 12 /\ c * 2 ^ 12 = THEORY_MAX
    BY PowersOfTwo DEF THEORY_MAX
  <2>4. c = 16 => THEORY_MAX \div c = 2 ^ 11 /\ c * 2 ^ 11 = THEORY_MAX
    BY PowersOfTwo DEF THEORY_MAX
  <2>5. c = 32 => THEORY_MAX \div c = 2 ^ 10 /\ c * 2 ^ 10 = THEORY_MAX
    BY PowersOfTwo DEF THEORY_MAX
  <2>6. c = 64 => THEORY_MAX \div c = 2 ^ 9 /\ c * 2 ^ 9 = THEORY_MAX
    BY PowersOfTwo DEF THEORY_MAX
  <2> QED BY <1>3, <2>1, <2>2, <2>3, <2>4, <2>5, <2>6
<1>6. RateOf(c) \in 10 .. 15 /\ c * 2 ^ (RateOf(c) - 1) = THEORY_MAX
  <2>1. PICK n \in 9 .. 14 : THEORY_MAX \div c = 2 ^ n /\ c * 2 ^ n = THEORY_MAX
    BY <1>5
  <2>2. RateOf(c) = n + 1 /\ c * 2 ^ (RateOf(c) - 1) = THEORY_MAX
    BY <1>4, <2>1, Zenon
  <2>3. RateOf(c) \in 10 .. 15
    BY <2>2
  <2> QED BY <2>2, <2>3
<1> QED BY <1>1, <1>6 DEF c

(* The 2 Hz of rtc_open.                                                    *)
LEMMA TwoHertz == Valid(Char(FREQ_MIN)) /\ RateOf(Char(FREQ_MIN)) = 15
<1> DEFINE n == RateOf(Char(FREQ_MIN)) - 1
<1>1. Char(FREQ_MIN) = 2
  BY DEF Char, FREQ_MIN
<1>2. Valid(2)
  <2>1. 2 \in FREQ_MIN .. FREQ_MAX
    BY DEF FREQ_MIN, FREQ_MAX
  <2>2. 1 \in 0 .. 10 /\ 2 = 2 ^ 1
    BY PowersOfTwo
  <2> QED BY <2>1, <2>2 DEF Valid
<1>3. n \in 9 .. 14 /\ 2 * 2 ^ n = 32768
  <2>1. Valid(Char(FREQ_MIN)) /\ FREQ_MIN \in Nat
    BY <1>1, <1>2 DEF FREQ_MIN
  <2>2. RateOf(Char(FREQ_MIN)) \in 10 .. 15
        /\ Char(FREQ_MIN) * 2 ^ (RateOf(Char(FREQ_MIN)) - 1) = THEORY_MAX
    BY <2>1, ValidRate
  <2> QED BY <1>1, <2>2 DEF THEORY_MAX
<1> HIDE DEF n
<1>4. n \in {9, 10, 11, 12, 13, 14}
  BY <1>3
<1>5. n = 14
  BY <1>3, <1>4, PowersOfTwo
<1>6. RateOf(Char(FREQ_MIN)) = 15
  <2>1. RateOf(Char(FREQ_MIN)) \in 10 .. 15
    BY <1>1, <1>2, ValidRate DEF FREQ_MIN
  <2> QED BY <1>5, <2>1 DEF n
<1> QED BY <1>1, <1>2, <1>6

LEMMA InitIInv == Init => IInv
<1> SUFFICES ASSUME Init PROVE IInv
  OBVIOUS
<1>1. 0 \in Terminals
  BY TerminalsAssumption DEF Terminals
<1>2. TypeOK
  BY <1>1 DEF Init, TypeOK, Nobody
<1> QED BY <1>1, <1>2
   DEF Init, IInv, TypeOK, InServiceWhileHandled, LineIsAnswered, FlagIsTick,
       OneReadPerTick, RateIsByte, Nobody

(* The clock, the delivery of its interrupt, the handler and Alt+Fn.        *)
LEMMA InterruptStep ==
  ASSUME IInv, Tick \/ Interrupt \/ HandlerStep \/ \E t \in Terminals : AltFn(t)
  PROVE  IInv'
<1> USE DEF IInv, TypeOK, clock, pics, history
<1>1. CASE Tick
  BY <1>1 DEF Tick, InServiceWhileHandled, LineIsAnswered, FlagIsTick,
              OneReadPerTick, RateIsByte
<1>2. CASE Interrupt
  <2>1. handler.at = "none"
    BY <1>2 DEF Interrupt, Deliverable, InServiceWhileHandled, RTC, IRQ_MAX, SLAVE
  <2> QED BY <1>2, <2>1 DEF Interrupt, InServiceWhileHandled, LineIsAnswered,
             FlagIsTick, OneReadPerTick, RateIsByte, shown, KEYBOARD, SLAVE
<1>3. CASE HandlerFlag
  BY <1>3 DEF HandlerFlag, Handling, InServiceWhileHandled, LineIsAnswered,
              FlagIsTick, OneReadPerTick, RateIsByte
<1>4. CASE HandlerSelect
  BY <1>4 DEF HandlerSelect, Handling, InServiceWhileHandled,
              LineIsAnswered, FlagIsTick, OneReadPerTick, RateIsByte
<1>5. CASE HandlerRead
  BY <1>5 DEF HandlerRead, Handling, InServiceWhileHandled,
              LineIsAnswered, FlagIsTick, OneReadPerTick, RateIsByte
<1>6. CASE HandlerEoi
  <2>1. master' = {} /\ slave' = {} /\ handler' = Nobody
    BY <1>6 DEF HandlerEoi, Handling, SendEoi, InServiceWhileHandled, RTC,
                IRQ_MAX
  <2>2. TypeOK' /\ InServiceWhileHandled'
    BY <1>6, <2>1, TerminalsAssumption
       DEF HandlerEoi, Nobody, Terminals, InServiceWhileHandled
  <2>3. LineIsAnswered'
    BY <1>6, <2>1 DEF HandlerEoi, Handling, LineIsAnswered, Nobody
  <2> QED BY <1>6, <2>2, <2>3 DEF HandlerEoi, FlagIsTick, OneReadPerTick,
                                  RateIsByte
<1>7. CASE \E t \in Terminals : AltFn(t)
  BY <1>7 DEF AltFn, InServiceWhileHandled, LineIsAnswered, FlagIsTick,
              OneReadPerTick, RateIsByte
<1> QED BY <1>1, <1>2, <1>3, <1>4, <1>5, <1>6, <1>7 DEF HandlerStep

(* The system calls.                                                        *)
LEMMA CallStep ==
  ASSUME IInv,
         \/ Open
         \/ \E f \in FREQUENCIES : Write(f) \/ WriteFails(f)
         \/ ReadCall
         \/ ReadWake
         \/ ReadClear
  PROVE  IInv'
<1> USE DEF IInv, TypeOK, clock, pics, history
<1>1. CASE Open
  <2>1. asked' = FREQ_MIN /\ rate' = 15
    BY <1>1 DEF Open, SetUp
  <2>2. RateIsByte'
    BY <2>1, TwoHertz DEF RateIsByte
  <2> QED BY <1>1, <2>2 DEF Open, SetUp, InServiceWhileHandled, LineIsAnswered,
                            FlagIsTick, OneReadPerTick
<1>2. ASSUME NEW f \in FREQUENCIES, Write(f) PROVE IInv'
  <2>1. f \in Nat
    BY FrequenciesAssumption
  <2>2. Valid(Char(f)) /\ asked' = f /\ rate' = RateOf(Char(f))
    BY <1>2 DEF Write, SetUp
  <2>3. rate' \in 10 .. 15
    BY <2>1, <2>2, ValidRate
  <2>4. RateIsByte'
    BY <2>2 DEF RateIsByte
  <2>5. TypeOK'
    BY <1>2, <2>2, <2>3 DEF Write, SetUp
  <2> QED BY <1>2, <2>4, <2>5 DEF Write, SetUp, InServiceWhileHandled,
             LineIsAnswered, FlagIsTick, OneReadPerTick
<1>3. ASSUME NEW f \in FREQUENCIES, WriteFails(f) PROVE IInv'
  BY <1>3 DEF WriteFails, vars, InServiceWhileHandled, LineIsAnswered,
              FlagIsTick, OneReadPerTick, RateIsByte
<1>4. CASE ReadCall
  <2>1. TypeOK' /\ RateIsByte'
    BY <1>4 DEF ReadCall, Goto, RateIsByte
  <2>2. InServiceWhileHandled' /\ LineIsAnswered'
    BY <1>4 DEF ReadCall, Goto, InServiceWhileHandled, LineIsAnswered
  <2>3. FlagIsTick' /\ OneReadPerTick'
    BY <1>4 DEF ReadCall, Goto, FlagIsTick, OneReadPerTick
  <2> QED BY <2>1, <2>2, <2>3
<1>5. CASE ReadWake
  <2>1. TypeOK' /\ RateIsByte'
    BY <1>5 DEF ReadWake, Goto, shown, RateIsByte
  <2>2. InServiceWhileHandled' /\ LineIsAnswered'
    BY <1>5 DEF ReadWake, Goto, shown, InServiceWhileHandled, LineIsAnswered
  <2>3. FlagIsTick' /\ OneReadPerTick'
    BY <1>5 DEF ReadWake, Goto, shown, FlagIsTick, OneReadPerTick
  <2> QED BY <2>1, <2>2, <2>3
<1>6. CASE ReadClear
  <2>1. TypeOK' /\ RateIsByte'
    BY <1>6 DEF ReadClear, Goto, shown, RateIsByte
  <2>2. InServiceWhileHandled' /\ LineIsAnswered'
    BY <1>6 DEF ReadClear, Goto, shown, InServiceWhileHandled, LineIsAnswered
  <2>3. FlagIsTick' /\ OneReadPerTick'
    BY <1>6 DEF ReadClear, Goto, shown, FlagIsTick, OneReadPerTick
  <2> QED BY <2>1, <2>2, <2>3
<1> QED BY <1>1, <1>2, <1>3, <1>4, <1>5, <1>6

LEMMA NextIInv == IInv /\ [Next]_vars => IInv'
<1> SUFFICES ASSUME IInv, [Next]_vars PROVE IInv'
  OBVIOUS
<1>1. CASE Next
  BY <1>1, InterruptStep, CallStep DEF Next
<1>2. CASE UNCHANGED vars
  BY <1>2 DEF vars, clock, pics, history, IInv, TypeOK, InServiceWhileHandled,
     LineIsAnswered, FlagIsTick, OneReadPerTick, RateIsByte
<1> QED BY <1>1, <1>2
-----------------------------------------------------------------------------
(* The inductive invariant of the clock and its readers holds throughout.   *)
THEOREM Invariance == Spec => []IInv
<1> QED BY InitIInv, NextIInv, PTL DEF Spec

(* The rate in register A is the one of power-on or one a signed char can   *)
(* ask for, whatever programs write.                                        *)
THEOREM TypeCorrect == Spec => []TypeOK
<1>1. IInv => TypeOK
  BY DEF IInv
<1> QED BY <1>1, Invariance, PTL

(* The end-of-interrupt protocol, for any number of terminals among which   *)
(* Alt+Fn may leave the handler anywhere.                                   *)
THEOREM EoiExact == Spec => []InServiceWhileHandled
<1>1. IInv => InServiceWhileHandled
  BY DEF IInv
<1> QED BY <1>1, Invariance, PTL

(* The clock's line is never left up unanswered, unless the clock was set   *)
(* up between the two accesses of a suspended handler.                      *)
THEOREM LineAnswered == Spec => []LineIsAnswered
<1>1. IInv => LineIsAnswered
  BY DEF IInv
<1> QED BY <1>1, Invariance, PTL

(* However many terminals share int_flag, a program is let go at most once  *)
(* per interrupt.                                                           *)
THEOREM OneTickOneRead == Spec => []OneReadPerTick
<1>1. IInv => OneReadPerTick
  BY DEF IInv
<1> QED BY <1>1, Invariance, PTL

(* The clock runs at the frequency last set, by whichever program, if what  *)
(* rtc_write is asked for fits in the byte it looks at, or has a low byte   *)
(* of 0, as the powers of two from 256 to 1024.  (258 is taken for 2.)      *)
THEOREM RateLastSet ==
  ASSUME \A f \in FREQUENCIES : f < 256 \/ f % 256 = 0
  PROVE  Spec => []RateIsLastSet
<1>1. IInv => RateIsLastSet
  <2> SUFFICES ASSUME IInv, asked # 0
               PROVE  asked * 2 ^ (rate - 1) = THEORY_MAX
    BY DEF RateIsLastSet
  <2>1. Valid(Char(asked)) /\ rate = RateOf(Char(asked))
    BY DEF IInv, RateIsByte
  <2>2. asked \in FREQUENCIES \cup {0, FREQ_MIN}
    BY DEF IInv, TypeOK
  <2>3. asked \in Nat
    <3>1. CASE asked \in FREQUENCIES
      BY <3>1, FrequenciesAssumption
    <3> QED BY <2>2, <3>1 DEF FREQ_MIN
  <2>4. Char(asked) = asked % 256 /\ Char(asked) * 2 ^ (rate - 1) = THEORY_MAX
    BY <2>1, <2>3, ValidRate
  <2>5. asked < 256 \/ asked % 256 = 0
    BY <2>2 DEF FREQ_MIN
  <2>6. Char(asked) # 0
    BY <2>1 DEF Valid, FREQ_MIN, FREQ_MAX
  <2>7. Char(asked) = asked
    BY <2>3, <2>4, <2>5, <2>6
  <2> QED BY <2>4, <2>7
<1> QED BY <1>1, Invariance, PTL
=============================================================================
