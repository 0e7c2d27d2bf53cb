---------------------------- MODULE LaunchProofs ----------------------------
(***************************************************************************)
(* The first shell of a terminal, taken apart at its writes.  A program     *)
(* whose execute is unfinished has a PCB that is stale or half written, so  *)
(* the invariants of Tasks do not hold as they stand.  They do hold of the  *)
(* View: the PCBs as they would be had each unfinished execute got to its   *)
(* end.  Under it every step of Launch but the five by which execute goes   *)
(* on is one of Tasks, so what is proved there is cited here, of T.         *)
(***************************************************************************)
EXTENDS Launch, SequenceTheorems, FiniteSetTheorems, TLAPS

(* The terminal a program was started for.                                  *)
Home(p) == CHOOSE t \in TERMS : pcb_loc[t] = p

(* The PCB of program p when its execute is done.                           *)
Finished(p) ==
  [lastpcb_ptr |-> p,
   esp |-> IF stage[p] = "named" THEN [stack |-> BOOT, depth |-> 1]
                                 ELSE pcb[p].esp,
   pagedir |-> IF stage[p] = "named" THEN BOOT ELSE pcb[p].pagedir,
   curr_esp |-> IF pcb[p].curr_esp = NULL THEN [stack |-> p, depth |-> 0]
                                          ELSE pcb[p].curr_esp,
   curr_pd |-> p,
   term_num |-> Home(p)]

View == [p \in PIDS |-> IF stage[p] = "done" THEN pcb[p] ELSE Finished(p)]

(* An Alt+Fn may come with one frame more on the stack than in Tasks.       *)
T == INSTANCE FrameProofs WITH pcb <- View, NESTING <- NESTING + 1
-----------------------------------------------------------------------------
(* A program that is not done is in use, in one terminal only, and not the  *)
(* one that executes user code.                                             *)
UnfinishedOK ==
  \A p \in PIDS : stage[p] # "done" =>
    /\ p \in Live
    /\ \E t \in TERMS : /\ pcb_loc[t] = p
                        /\ \A u \in TERMS : pcb_loc[u] = p => u = t
                        /\ phase \in {"user", "wait", "launch"} =>
                             t # current_terminal

(* A terminal with programs has one in the foreground, even once control is *)
(* lost.                                                                    *)
ForegroundsLive == \A t \in TERMS : prog_count[t] # 0 => pcb_loc[t] \in Live

(* What of a PCB is written at which stage.                                 *)
WrittenOK ==
  \A p \in PIDS :
    /\ pcb[p].curr_pd \in {p, NULL}
    /\ pcb[p].curr_pd # NULL => pcb[p].curr_esp # NULL
    /\ stage[p] \in {"saved", "loaded"} => pcb[p].curr_pd = NULL
    /\ stage[p] = "ready" => pcb[p].curr_pd = p
    /\ stage[p] \in {"saved", "loaded", "ready"} =>
         /\ pcb[p].lastpcb_ptr = p
         /\ pcb[p].esp \in Context
         /\ pcb[p].pagedir \in Stacks

(* A terminal_switch that interrupted an execute lies right above it.       *)
NestedOK ==
  \A s \in Stacks : \A i \in 2 .. Len(kstack[s]) :
    kstack[s][i].back = "switch" /\ kstack[s][i - 1].kind = "execute" =>
      kstack[s][i - 1].pid = kstack[s][i].pid /\ kstack[s][i - 1].back = "launch"

(* The execute that goes on is that of the foreground program, with its     *)
(* directory and stack loaded once it got that far.                         *)
LaunchingOK ==
  Launching /\ Foreground # NULL =>
    /\ Top.pid = Foreground
    /\ Top.back = "launch"
    /\ stage[Foreground] # "done"
    /\ stage[Foreground] \in {"loaded", "ready"} =>
         esp0 = Foreground /\ cr3 = Foreground
    /\ stage[Foreground] = "ready" =>
         ~ Holds(kstack, pcb[Foreground].curr_esp, "switch", Foreground)

(* The context of program p leads back to p's unfinished execute, or to its *)
(* own code.                                                                *)
ContextOK(p) ==
  LET c == pcb[p].curr_esp
      f == kstack[c.stack][c.depth]
  IN Holds(kstack, c, "switch", p) =>
       IF f.back = "switch"
       THEN kstack[c.stack][c.depth - 1].kind = "execute" => stage[p] # "done"
       ELSE stage[p] = "done"

ContextsOK ==
  phase \notin {"panic", "wild"} =>
    \A p \in Live : ~ (Launching /\ Top.pid = p) => ContextOK(p)

(* The shell that entry starts is not suspended before it has an address    *)
(* space of its own.                                                        *)
FirstNamed == pcb_loc[0] \in PIDS /\ stage[pcb_loc[0]] = "named"

BootOK ==
  /\ phase = "boot" => cr3 = BOOT /\ current_terminal = 0
  /\ phase \notin {"panic", "wild"} /\ FirstNamed =>
       /\ phase = "switch" /\ current_terminal = 0 /\ cr3 = BOOT
       /\ running = BOOT /\ Len(kstack[BOOT]) = 1

(* Only launching loops execute programs on the boot stack.                 *)
BootFramesOK ==
  \A i \in 1 .. Len(kstack[BOOT]) :
    kstack[BOOT][i].kind = "execute" => kstack[BOOT][i].back = "launch"

LInv ==
  /\ T!CInv
  /\ LaunchTypeOK
  /\ UnfinishedOK
  /\ ForegroundsLive
  /\ WrittenOK
  /\ NestedOK
  /\ LaunchingOK
  /\ ContextsOK
  /\ BootOK
  /\ BootFramesOK
-----------------------------------------------------------------------------
(* What T assumes of its constants, and what it shares with Tasks.          *)
LEMMA Same ==
  /\ T!PIDS = PIDS /\ T!TERMS = TERMS /\ T!Stacks = Stacks
  /\ T!Context = Context /\ T!Frame = Frame /\ T!Phases = Phases /\ T!Pcb = Pcb
  /\ T!Live = Live /\ T!Foreground = Foreground /\ T!TaskCount = TaskCount
  /\ T!ScanResult = ScanResult /\ \A p : T!PrevPcb(p) = PrevPcb(p)
  /\ T!EntryStack = EntryStack /\ T!EntryFrames = EntryFrames
  /\ T!AfterEntry = AfterEntry
  /\ \A ks, c, kind, p : T!Holds(ks, c, kind, p) <=> Holds(ks, c, kind, p)
  /\ \A ks, s, d : T!Returned(ks, s, d) = Returned(ks, s, d)
<1>1. /\ T!PIDS = PIDS /\ T!TERMS = TERMS /\ T!Stacks = Stacks
      /\ T!Context = Context /\ T!Frame = Frame /\ T!Phases = Phases
      /\ T!Pcb = Pcb
  BY DEF T!PIDS, PIDS, T!TERMS, TERMS, T!Stacks, Stacks, T!Context, Context,
         T!Frame, Frame, T!Phases, Phases, T!Pcb, Pcb
<1>2. /\ T!Live = Live /\ T!Foreground = Foreground
      /\ T!TaskCount = TaskCount /\ T!ScanResult = ScanResult
  BY <1>1 DEF T!Live, Live, T!Foreground, Foreground, T!TaskCount, TaskCount,
              T!ScanResult, ScanResult
<1>3. \A p : T!PrevPcb(p) = PrevPcb(p)
  BY <1>2 DEF T!PrevPcb, PrevPcb
<1>4. /\ T!EntryStack = EntryStack /\ T!EntryFrames = EntryFrames
  BY DEF T!EntryStack, EntryStack, T!EntryFrames, EntryFrames
<1>5. T!AfterEntry = AfterEntry
  BY <1>4 DEF T!AfterEntry, AfterEntry
<1>6. /\ \A ks, c, kind, p : T!Holds(ks, c, kind, p) <=> Holds(ks, c, kind, p)
      /\ \A ks, s, d : T!Returned(ks, s, d) = Returned(ks, s, d)
  BY DEF T!Holds, Holds, T!Returned, Returned
<1> QED BY <1>1, <1>2, <1>3, <1>4, <1>5, <1>6

LEMMA Assumed ==
  /\ MaxAssumption /\ NullAssumption /\ BootAssumption
  /\ T!NestingAssumption /\ T!ContextAssumption
<1>1. T!NestingAssumption
  BY NestingAssumption
<1>2. T!ContextAssumption
  BY ContextAssumption, Same
<1> QED BY <1>1, <1>2, MaxAssumption, NullAssumption, BootAssumption

-----------------------------------------------------------------------------
(* The View of a program, and the terminal of an unfinished one.            *)
LEMMA ViewOf ==
  ASSUME NEW p \in PIDS
  PROVE  View[p] = IF stage[p] = "done" THEN pcb[p] ELSE Finished(p)
<1> QED BY DEF View

LEMMA HomeIs ==
  ASSUME UnfinishedOK, NEW p \in PIDS, stage[p] # "done"
  PROVE  /\ Home(p) \in TERMS /\ pcb_loc[Home(p)] = p /\ p \in Live
         /\ \A u \in TERMS : pcb_loc[u] = p => u = Home(p)
         /\ phase \in {"user", "wait", "launch"} => Home(p) # current_terminal
<1>1. PICK t \in TERMS : /\ pcb_loc[t] = p
                         /\ \A u \in TERMS : pcb_loc[u] = p => u = t
                         /\ phase \in {"user", "wait", "launch"} =>
                              t # current_terminal
  BY DEF UnfinishedOK
<1>2. Home(p) \in TERMS /\ pcb_loc[Home(p)] = p
  BY <1>1 DEF Home
<1>3. Home(p) = t
  BY <1>1, <1>2
<1> QED BY <1>1, <1>3 DEF UnfinishedOK

(* An unfinished program that stays where it is keeps its terminal.         *)
LEMMA HomeKept ==
  ASSUME UnfinishedOK, UnfinishedOK', NEW p \in PIDS, stage[p] # "done",
         stage'[p] # "done",
         \A t \in TERMS : pcb_loc[t] = p => pcb_loc'[t] = p
  PROVE  Home(p)' = Home(p)
<1>1. Home(p) \in TERMS /\ pcb_loc[Home(p)] = p
  BY HomeIs
<1>2. PICK t \in TERMS : /\ pcb_loc'[t] = p
                         /\ \A u \in TERMS : pcb_loc'[u] = p => u = t
  BY DEF UnfinishedOK
<1>3. Home(p)' \in TERMS /\ pcb_loc'[Home(p)'] = p
  BY <1>2 DEF Home
<1> QED BY <1>1, <1>2, <1>3

(* A step that writes no PCB and moves no unfinished program.               *)
LEMMA ViewSame ==
  ASSUME UnfinishedOK, UnfinishedOK', pcb' = pcb, stage' = stage,
         \A p \in PIDS : stage[p] # "done" =>
           \A t \in TERMS : pcb_loc[t] = p => pcb_loc'[t] = p
  PROVE  View' = View
<1>1. ASSUME NEW p \in PIDS, stage[p] # "done" PROVE Finished(p)' = Finished(p)
  <2>1. Home(p)' = Home(p)
    BY <1>1, HomeKept
  <2> QED BY <2>1 DEF Finished
<1> QED BY <1>1 DEF View

(* The PCB of an unfinished program is written as far as it is needed.      *)
LEMMA FinishedIs ==
  ASSUME LaunchTypeOK, UnfinishedOK, WrittenOK, NEW p \in PIDS,
         stage[p] # "done"
  PROVE  /\ Finished(p) \in Pcb
         /\ Finished(p).lastpcb_ptr = p
         /\ Finished(p).curr_pd = p
         /\ Finished(p).term_num = Home(p)
         /\ Finished(p).esp \in Context
         /\ Finished(p).pagedir \in Stacks
         /\ Finished(p).curr_esp \in Context
<1> USE Assumed
<1>1. Home(p) \in TERMS
  BY HomeIs
<1>2. p \in Stacks /\ BOOT \in Stacks /\ 0 \in Nat /\ 1 \in Nat
  BY DEF Stacks
<1>3. /\ [stack |-> p, depth |-> 0] \in Context
      /\ [stack |-> BOOT, depth |-> 1] \in Context
  BY <1>2 DEF Context
<1>4. pcb[p].curr_esp \in Context \cup {NULL}
  BY DEF LaunchTypeOK, TypeOK, Pcb
<1>5. stage[p] # "named" => pcb[p].esp \in Context /\ pcb[p].pagedir \in Stacks
  BY DEF LaunchTypeOK, Stages, WrittenOK
<1>6. /\ Finished(p).lastpcb_ptr = p
      /\ Finished(p).curr_pd = p
      /\ Finished(p).term_num = Home(p)
      /\ Finished(p).esp \in Context
      /\ Finished(p).pagedir \in Stacks
      /\ Finished(p).curr_esp \in Context
  BY <1>2, <1>3, <1>4, <1>5 DEF Finished
<1>7. Finished(p) = [lastpcb_ptr |-> Finished(p).lastpcb_ptr,
                     esp |-> Finished(p).esp, pagedir |-> Finished(p).pagedir,
                     curr_esp |-> Finished(p).curr_esp,
                     curr_pd |-> Finished(p).curr_pd,
                     term_num |-> Finished(p).term_num]
  BY DEF Finished
<1> QED BY <1>1, <1>2, <1>6, <1>7 DEF Pcb

(* Two states with the same stacks of frames and less on them.              *)
LEMMA PopsKeepFrames ==
  ASSUME LInv, kstack' \in [Stacks -> Seq(Frame)], T!OnlyPops(kstack', kstack)
  PROVE  /\ NestedOK' /\ BootFramesOK'
         /\ \A p \in Live :
              (/\ ContextOK(p) /\ stage'[p] = stage[p]
               /\ pcb'[p].curr_esp = pcb[p].curr_esp) => ContextOK(p)'
<1>1. \A r \in Stacks : \A i \in 1 .. Len(kstack'[r]) :
        i \in 1 .. Len(kstack[r]) /\ kstack'[r][i] = kstack[r][i]
  BY Same DEF T!OnlyPops
<1>2. \A r \in Stacks : /\ Len(kstack'[r]) \in Nat
                        /\ DOMAIN kstack'[r] = 1 .. Len(kstack'[r])
                        /\ DOMAIN kstack[r] = 1 .. Len(kstack[r])
  <2>1. kstack \in [Stacks -> Seq(Frame)]
    BY DEF LInv, LaunchTypeOK, TypeOK
  <2>2. ASSUME NEW r \in Stacks
        PROVE  /\ Len(kstack'[r]) \in Nat
               /\ DOMAIN kstack'[r] = 1 .. Len(kstack'[r])
               /\ DOMAIN kstack[r] = 1 .. Len(kstack[r])
    BY <2>1, LenProperties
  <2> QED BY <2>2
<1>3. NestedOK'
  <2> SUFFICES ASSUME NEW s \in Stacks, NEW i \in 2 .. Len(kstack'[s]),
                      kstack'[s][i].back = "switch",
                      kstack'[s][i - 1].kind = "execute"
               PROVE  /\ kstack'[s][i - 1].pid = kstack'[s][i].pid
                      /\ kstack'[s][i - 1].back = "launch"
    BY DEF NestedOK
  <2>1. i \in 1 .. Len(kstack'[s]) /\ i - 1 \in 1 .. Len(kstack'[s])
    BY <1>2
  <2>2. i \in 2 .. Len(kstack[s])
    BY <1>1, <2>1
  <2> QED BY <1>1, <2>1, <2>2 DEF LInv, NestedOK
<1>4. BootFramesOK'
  BY <1>1 DEF LInv, BootFramesOK, Stacks
<1>5. ASSUME NEW p \in Live, ContextOK(p), stage'[p] = stage[p],
             pcb'[p].curr_esp = pcb[p].curr_esp
      PROVE  ContextOK(p)'
  <2>1. PICK c : c = pcb[p].curr_esp
    OBVIOUS
  <2> SUFFICES ASSUME Holds(kstack', c, "switch", p)
               PROVE  IF kstack'[c.stack][c.depth].back = "switch"
                      THEN kstack'[c.stack][c.depth - 1].kind = "execute"
                             => stage[p] # "done"
                      ELSE stage[p] = "done"
    BY <1>5, <2>1 DEF ContextOK
  <2>2. c \in Context
    BY <2>1 DEF LInv, LaunchTypeOK, TypeOK, Pcb, Live, Holds
  <2>3. c.stack \in Stacks /\ c.depth \in 1 .. Len(kstack'[c.stack])
    BY <1>2, <2>2 DEF Holds, Context
  <2>4. /\ c.depth \in 1 .. Len(kstack[c.stack])
        /\ kstack'[c.stack][c.depth] = kstack[c.stack][c.depth]
    BY <1>1, <2>3
  <2>5. Holds(kstack, c, "switch", p)
    BY <1>2, <2>3, <2>4 DEF Holds
  <2>6. CASE kstack[c.stack][c.depth].back = "switch"
    <3>1. T!FrameOK(c.stack, c.depth)
      BY <2>3, <2>4, Same DEF LInv, T!CInv, T!IInv, T!FramesOK
    <3>2. c.depth - 1 \in 1 .. Len(kstack'[c.stack])
      BY <1>2, <2>3, <2>6, <3>1 DEF T!FrameOK
    <3> QED BY <1>1, <1>5, <2>1, <2>3, <2>4, <2>5, <2>6, <3>2 DEF ContextOK
  <2>7. CASE kstack[c.stack][c.depth].back # "switch"
    BY <1>5, <2>1, <2>4, <2>5, <2>7 DEF ContextOK
  <2> QED BY <2>6, <2>7
<1> QED BY <1>3, <1>4, <1>5

(* Pushing a frame that goes back into an execute or a terminal_switch only *)
(* above it.                                                                *)
LEMMA PushKeepsFrames ==
  ASSUME LInv, NEW s \in Stacks, NEW frames \in Seq(Frame),
         frames = kstack[s] \/ frames = <<>>, NEW f \in Frame,
         kstack' = [kstack EXCEPT ![s] = Append(frames, f)],
         f.back = "switch" =>
           /\ frames = kstack[s] /\ Len(frames) # 0
           /\ frames[Len(frames)].kind = "execute" =>
                /\ frames[Len(frames)].pid = f.pid
                /\ frames[Len(frames)].back = "launch",
         s = BOOT /\ f.kind = "execute" => f.back = "launch"
  PROVE  /\ kstack' \in [Stacks -> Seq(Frame)]
         /\ Len(kstack'[s]) = Len(frames) + 1
         /\ kstack'[s][Len(frames) + 1] = f
         /\ NestedOK' /\ BootFramesOK'
         /\ \A p \in Live :
              (/\ ContextOK(p) /\ stage'[p] = stage[p]
               /\ pcb'[p].curr_esp = pcb[p].curr_esp
               /\ f.kind = "execute" \/ f.pid # p) => ContextOK(p)'
<1>1. kstack \in [Stacks -> Seq(Frame)]
  BY DEF LInv, LaunchTypeOK, TypeOK
<1>2. /\ kstack' \in [Stacks -> Seq(Frame)]
      /\ Len(kstack'[s]) = Len(frames) + 1
      /\ kstack'[s][Len(frames) + 1] = f
      /\ \A r \in Stacks : \A i \in 1 .. Len(kstack'[r]) :
           \/ r = s /\ i = Len(frames) + 1
           \/ i \in 1 .. Len(kstack[r]) /\ kstack'[r][i] = kstack[r][i]
  BY <1>1, Same, Assumed, T!Push
<1>3. /\ \A r \in Stacks : /\ Len(kstack'[r]) \in Nat
                           /\ DOMAIN kstack'[r] = 1 .. Len(kstack'[r])
                           /\ DOMAIN kstack[r] = 1 .. Len(kstack[r])
      /\ Len(frames) \in Nat
  BY <1>1, <1>2, LenProperties
<1>4. NestedOK'
  <2> SUFFICES ASSUME NEW r \in Stacks, NEW i \in 2 .. Len(kstack'[r]),
                      kstack'[r][i].back = "switch",
                      kstack'[r][i - 1].kind = "execute"
               PROVE  /\ kstack'[r][i - 1].pid = kstack'[r][i].pid
                      /\ kstack'[r][i - 1].back = "launch"
    BY DEF NestedOK
  <2>1. i \in 1 .. Len(kstack'[r]) /\ i - 1 \in 1 .. Len(kstack'[r])
    BY <1>3
  <2>2. CASE r = s /\ i = Len(frames) + 1
    <3>1. kstack'[r][i] = f /\ i - 1 = Len(frames) /\ frames = kstack[s]
      BY <1>2, <1>3, <2>2
    <3>2. kstack'[r][i - 1] = frames[Len(frames)]
      BY <1>2, <1>3, <2>1, <2>2, <3>1
    <3> QED BY <3>1, <3>2
  <2>3. CASE ~ (r = s /\ i = Len(frames) + 1)
    <3>1. i \in 2 .. Len(kstack[r]) /\ kstack'[r][i] = kstack[r][i]
      BY <1>2, <2>1, <2>3
    <3>2. ~ (r = s /\ i - 1 = Len(frames) + 1)
      BY <1>2, <1>3, <2>1
    <3>3. kstack'[r][i - 1] = kstack[r][i - 1]
      BY <1>2, <2>1, <3>2
    <3> QED BY <3>1, <3>3 DEF LInv, NestedOK
  <2> QED BY <2>2, <2>3
<1>5. BootFramesOK'
  BY <1>2 DEF LInv, BootFramesOK, Stacks
<1>6. ASSUME NEW p \in Live, ContextOK(p), stage'[p] = stage[p],
             pcb'[p].curr_esp = pcb[p].curr_esp,
             f.kind = "execute" \/ f.pid # p
      PROVE  ContextOK(p)'
  <2>1. PICK c : c = pcb[p].curr_esp
    OBVIOUS
  <2> SUFFICES ASSUME Holds(kstack', c, "switch", p)
               PROVE  IF kstack'[c.stack][c.depth].back = "switch"
                      THEN kstack'[c.stack][c.depth - 1].kind = "execute"
                             => stage[p] # "done"
                      ELSE stage[p] = "done"
    BY <1>6, <2>1 DEF ContextOK
  <2>2. c \in Context
    BY <2>1 DEF LInv, LaunchTypeOK, TypeOK, Pcb, Live, Holds
  <2>3. c.stack \in Stacks /\ c.depth \in 1 .. Len(kstack'[c.stack])
    BY <1>3, <2>2 DEF Holds, Context
  <2>4. ~ (c.stack = s /\ c.depth = Len(frames) + 1)
    BY <1>2, <1>6 DEF Holds
  <2>5. /\ c.depth \in 1 .. Len(kstack[c.stack])
        /\ kstack'[c.stack][c.depth] = kstack[c.stack][c.depth]
    BY <1>2, <2>3, <2>4
  <2>6. Holds(kstack, c, "switch", p)
    BY <1>3, <2>3, <2>5 DEF Holds
  <2>7. CASE kstack[c.stack][c.depth].back = "switch"
    <3>1. T!FrameOK(c.stack, c.depth)
      BY <2>3, <2>5, Same DEF LInv, T!CInv, T!IInv, T!FramesOK
    <3>2. c.depth - 1 \in 1 .. Len(kstack'[c.stack])
      BY <1>3, <2>3, <2>7, <3>1 DEF T!FrameOK
    <3>3. ~ (c.stack = s /\ c.depth - 1 = Len(frames) + 1)
      BY <1>2, <1>3, <2>3
    <3>4. kstack'[c.stack][c.depth - 1] = kstack[c.stack][c.depth - 1]
      BY <1>2, <2>3, <3>2, <3>3
    <3> QED BY <1>6, <2>1, <2>5, <2>6, <2>7, <3>4 DEF ContextOK
  <2>8. CASE kstack[c.stack][c.depth].back # "switch"
    BY <1>6, <2>1, <2>5, <2>6, <2>8 DEF ContextOK
  <2> QED BY <2>7, <2>8
<1> QED BY <1>2, <1>4, <1>5, <1>6
-----------------------------------------------------------------------------
(* A step of Tasks under the View keeps what is proved there.               *)
LEMMA ViewStep ==
  ASSUME LInv, T!Next, ~ Launching \/ prog_count[current_terminal] # 0
  PROVE  T!CInv'
<1>1. ASSUME T!Strand PROVE T!SwitchRuns
  <2>1. phase = "switch" /\ prog_count[current_terminal] = 0
    BY <1>1 DEF T!Strand
  <2>2. kstack[running] # <<>> /\ running \in Stacks
    BY <2>1 DEF LInv, T!CInv, T!IInv, T!EmptyOK, LaunchTypeOK, TypeOK
  <2>3. kstack[running] \in Seq(Frame)
    BY <2>2 DEF LInv, LaunchTypeOK, TypeOK
  <2>4. Len(kstack[running]) \in 1 .. Len(kstack[running])
    BY <2>2, <2>3, LenProperties, EmptySeq
  <2>5. kstack[running][Len(kstack[running])] \in Frame
    BY <2>3, <2>4, LenProperties
  <2> QED BY <2>1, <2>2, <2>4, <2>5 DEF Launching, Top, T!SwitchRuns, Frame
<1>2. T!CInv
  BY DEF LInv
<1> QED BY <1>1, <1>2, T!NextCallers, Assumed

(* A step that only returns through frames, or takes none.                  *)
LEMMA QuietStep ==
  ASSUME LInv, ~ Launching, T!Next, phase \notin {"panic", "wild"},
         UNCHANGED <<prog_count, memoryspace, pcb_loc, pcb, stage>>,
         T!OnlyPops(kstack', kstack),
         UnfinishedOK', LaunchingOK', BootOK'
  PROVE  LInv'
<1>1. T!CInv' /\ T!TypeOK'
  BY ViewStep DEF T!CInv, T!IInv
<1>2. LaunchTypeOK'
  BY <1>1, Same DEF T!TypeOK, LInv, LaunchTypeOK, TypeOK
<1>3. Live' = Live
  BY DEF Live
<1>4. ForegroundsLive' /\ WrittenOK'
  BY <1>3 DEF LInv, ForegroundsLive, WrittenOK
<1>5. /\ NestedOK' /\ BootFramesOK'
      /\ \A p \in Live : ContextOK(p) => ContextOK(p)'
  <2>1. kstack' \in [Stacks -> Seq(Frame)]
    BY <1>2 DEF LaunchTypeOK, TypeOK
  <2> QED BY <2>1, PopsKeepFrames
<1>6. ContextsOK'
  BY <1>3, <1>5 DEF LInv, ContextsOK
<1> QED BY <1>1, <1>2, <1>4, <1>5, <1>6 DEF LInv

LEMMA WaitKeeps ==
  ASSUME LInv, WaitBegin \/ WaitEnd, stage' = stage
  PROVE  LInv'
<1>1. /\ phase \in {"user", "wait"} /\ phase' \in {"user", "wait"}
      /\ UNCHANGED <<current_terminal, prog_count, memoryspace, pcb_loc, pcb,
                     stage>>
      /\ kstack' = AfterEntry \/ kstack' = kstack
  BY DEF WaitBegin, WaitEnd
<1>2. View' = View
  BY <1>1 DEF View, Finished, Home
<1>3. T!WaitBegin \/ T!WaitEnd
  BY <1>2, Same DEF WaitBegin, WaitEnd, T!WaitBegin, T!WaitEnd
<1>4. T!OnlyPops(kstack', kstack)
  <2>1. T!TypeOK
    BY DEF LInv, T!CInv, T!IInv
  <2>2. T!OnlyPops(AfterEntry, kstack)
    BY <2>1, Same, Assumed, T!Entry
  <2> QED BY <1>1, <2>2 DEF T!OnlyPops
<1>5. UnfinishedOK'
  BY <1>1 DEF LInv, UnfinishedOK, Live
<1>6. LaunchingOK' /\ BootOK'
  BY <1>1 DEF LInv, LaunchingOK, Launching, BootOK, FirstNamed
<1>7. ~ Launching /\ T!Next
  BY <1>1, <1>3 DEF Launching, T!Next
<1> QED BY <1>1, <1>4, <1>5, <1>6, <1>7, QuietStep

(* What terminal_switch finds on a terminal with programs whose context can *)
(* be loaded.                                                               *)
LEMMA ResumeLoads ==
  ASSUME LInv, ~ Launching, ~ Unready, ResumeEffect, stage' = stage
  PROVE  /\ T!ResumeEffect
         /\ pcb[Foreground].curr_esp \in Context
         /\ View[Foreground].curr_esp = pcb[Foreground].curr_esp
         /\ View[Foreground].curr_pd = Foreground /\ View' = View
         /\ Foreground \in PIDS /\ Foreground \in Live
<1>1. PICK p : p = Foreground
  OBVIOUS
<1>2. p \in Live /\ p \in PIDS
  BY <1>1 DEF LInv, ForegroundsLive, ResumeEffect, Foreground, Live,
              LaunchTypeOK, TypeOK
<1>3. pcb[p].curr_pd # NULL /\ pcb[p].curr_pd = p /\ pcb[p].curr_esp # NULL
  BY <1>1, <1>2 DEF Unready, LInv, WrittenOK
<1>4. pcb[p].curr_esp \in Context
  BY <1>2, <1>3 DEF LInv, LaunchTypeOK, TypeOK, Pcb
<1>5. View[p].curr_esp = pcb[p].curr_esp /\ View[p].curr_pd = p
  <2>1. CASE stage[p] = "done"
    BY <1>2, <1>3, <2>1, ViewOf
  <2>2. CASE stage[p] # "done"
    <3>1. View[p] = Finished(p)
      BY <1>2, <2>2, ViewOf
    <3> QED BY <1>3, <3>1 DEF Finished
  <2> QED BY <2>1, <2>2
<1>6. View' = View
  <2>1. /\ pcb' = pcb /\ pcb_loc' = pcb_loc /\ memoryspace' = memoryspace
        /\ current_terminal' = current_terminal
    BY DEF ResumeEffect
  <2> QED BY <2>1 DEF View, Finished, Home
<1>7. T!ResumeEffect
  BY <1>1, <1>3, <1>5, <1>6, Same DEF ResumeEffect, T!ResumeEffect
<1> QED BY <1>1, <1>2, <1>4, <1>5, <1>6, <1>7

(* The frame a stack ends with, while control is in terminal_switch or in   *)
(* an execute that it called.                                               *)
LEMMA TopFrame ==
  ASSUME LInv, phase = "switch"
  PROVE  /\ running \in Stacks /\ kstack[running] \in Seq(Frame)
         /\ Len(kstack[running]) \in 1 .. Len(kstack[running])
         /\ Len(kstack[running]) \in Nat
         /\ Top \in Frame /\ T!FrameOK(running, Len(kstack[running]))
         /\ Top.kind = "execute" <=> Launching
         /\ Top.pid \in PIDS /\ Top.kind \in {"execute", "switch"}
<1>1. running \in Stacks /\ kstack[running] \in Seq(Frame)
  BY DEF LInv, LaunchTypeOK, TypeOK
<1>2. kstack[running] # <<>>
  BY DEF LInv, T!CInv, T!IInv, T!EmptyOK
<1>3. /\ Len(kstack[running]) \in 1 .. Len(kstack[running])
      /\ Len(kstack[running]) \in Nat
  BY <1>1, <1>2, LenProperties, EmptySeq
<1>4. Top \in Frame
  BY <1>1, <1>3, LenProperties DEF Top
<1>5. T!FrameOK(running, Len(kstack[running]))
  BY <1>1, <1>3, Same DEF LInv, T!CInv, T!IInv, T!FramesOK
<1>6. Top.pid \in PIDS /\ Top.kind \in {"execute", "switch"}
  BY <1>4 DEF Frame
<1> QED BY <1>1, <1>2, <1>3, <1>4, <1>5, <1>6 DEF Launching

(* The first shell is not suspended, so terminal_switch cannot be running   *)
(* while it has no address space.                                           *)
LEMMA NotFirst ==
  ASSUME LInv, phase = "switch", ~ Launching
  PROVE  ~ FirstNamed
<1> SUFFICES ASSUME FirstNamed PROVE FALSE
  OBVIOUS
<1>1. running = BOOT /\ Len(kstack[BOOT]) = 1
  BY DEF LInv, BootOK
<1>2. T!FrameOK(BOOT, 1) /\ kstack[BOOT][1].kind = "switch"
      /\ kstack[BOOT][1].pid \in PIDS
  BY <1>1, TopFrame DEF Top
<1>3. kstack[BOOT][1].pid = BOOT
  BY <1>2 DEF T!FrameOK
<1> QED BY <1>2, <1>3, Assumed DEF PIDS

LEMMA ResumeKeeps ==
  ASSUME LInv, ~ Launching, ~ Unready, Resume, stage' = stage
  PROVE  LInv'
<1>1. PICK p : p = Foreground
  OBVIOUS
<1>2. PICK c : c = pcb[p].curr_esp
  OBVIOUS
<1>3. /\ ResumeEffect /\ phase = "switch"
      /\ Holds(kstack, c, "switch", p)
      /\ phase' = kstack[c.stack][c.depth].back
      /\ kstack' = Returned(kstack, c.stack, c.depth)
  BY <1>1, <1>2 DEF Resume, ResumeEffect
<1>4. /\ UNCHANGED <<prog_count, memoryspace, pcb_loc, pcb, stage>>
      /\ current_terminal' = current_terminal
      /\ esp0' = p /\ cr3' = pcb[p].curr_pd /\ running' = c.stack
  BY <1>1, <1>2, <1>3 DEF ResumeEffect
<1>5. /\ T!ResumeEffect /\ c \in Context /\ View[p].curr_esp = c
      /\ View' = View /\ p \in PIDS /\ p \in Live
  BY <1>1, <1>2, <1>3, ResumeLoads
<1>6. pcb[p].curr_pd = p
  BY <1>1, <1>5 DEF Unready, LInv, WrittenOK
<1>7. T!Resume /\ T!Next
  BY <1>1, <1>3, <1>5, Same DEF T!Resume, T!Next
<1>8. /\ c.stack \in Stacks /\ c.depth \in 1 .. Len(kstack[c.stack])
      /\ kstack \in [Stacks -> Seq(Frame)]
  <2>1. kstack \in [Stacks -> Seq(Frame)] /\ c.stack \in Stacks
    BY <1>5 DEF LInv, LaunchTypeOK, TypeOK, Context
  <2> QED BY <1>3, <2>1, LenProperties DEF Holds
<1>9. /\ kstack' \in [Stacks -> Seq(Frame)]
      /\ Len(kstack'[c.stack]) = c.depth - 1
      /\ T!OnlyPops(kstack', kstack)
  BY <1>3, <1>8, Same, Assumed, T!Pop
<1>10. ContextOK(p)
  BY <1>3, <1>5 DEF LInv, ContextsOK
<1>11. /\ phase' \in {"user", "wait", "switch"}
       /\ phase' # "switch" => stage[p] = "done"
       /\ phase' = "switch" =>
            /\ c.depth >= 2
            /\ kstack[c.stack][c.depth - 1].kind = "execute" => stage[p] # "done"
  <2>1. T!FrameOK(c.stack, c.depth)
    BY <1>8, Same DEF LInv, T!CInv, T!IInv, T!FramesOK
  <2> QED BY <1>2, <1>3, <1>10, <2>1 DEF ContextOK, Holds, T!FrameOK
<1>12. UnfinishedOK'
  <2> SUFFICES ASSUME NEW q \in PIDS, stage[q] # "done"
               PROVE  /\ q \in Live'
                      /\ \E t \in TERMS :
                           /\ pcb_loc'[t] = q
                           /\ \A u \in TERMS : pcb_loc'[u] = q => u = t
                           /\ phase' \in {"user", "wait", "launch"} =>
                                t # current_terminal'
    BY <1>4 DEF UnfinishedOK
  <2>1. /\ Home(q) \in TERMS /\ pcb_loc[Home(q)] = q /\ q \in Live
        /\ \A u \in TERMS : pcb_loc[u] = q => u = Home(q)
    BY HomeIs DEF LInv
  <2>2. phase' # "switch" => Home(q) # current_terminal
    BY <1>1, <1>11, <2>1 DEF Foreground
  <2> QED BY <1>4, <2>1, <2>2 DEF Live
<1>13. LaunchingOK'
  <2> SUFFICES ASSUME Launching'
               PROVE  /\ Top'.pid = p /\ Top'.back = "launch"
                      /\ stage[p] # "done"
                      /\ esp0' = p /\ cr3' = p
                      /\ ~ Holds(kstack', c, "switch", p)
    BY <1>1, <1>2, <1>4 DEF LaunchingOK, Foreground
  <2>1. phase' = "switch" /\ Top'.kind = "execute" /\ kstack'[c.stack] # <<>>
    BY <1>4 DEF Launching
  <2>2. /\ c.depth \in 2 .. Len(kstack[c.stack])
        /\ c.depth - 1 \in 1 .. Len(kstack'[c.stack])
    BY <1>8, <1>9, <1>11, <2>1
  <2>3. Top' = kstack[c.stack][c.depth - 1]
    BY <1>4, <1>8, <1>9, <2>2, Same DEF Top, T!OnlyPops
  <2>4. /\ kstack[c.stack][c.depth - 1].pid = kstack[c.stack][c.depth].pid
        /\ kstack[c.stack][c.depth - 1].back = "launch"
    BY <1>3, <1>8, <2>1, <2>2, <2>3 DEF LInv, NestedOK
  <2>5. ~ Holds(kstack', c, "switch", p)
    <3>1. DOMAIN kstack'[c.stack] = 1 .. c.depth - 1 /\ c.depth \in Nat
      BY <1>8, <1>9, LenProperties
    <3> QED BY <3>1 DEF Holds
  <2> QED BY <1>3, <1>4, <1>6, <1>11, <2>1, <2>3, <2>4, <2>5 DEF Holds
<1>14. BootOK'
  <2>1. ~ FirstNamed'
    BY <1>3, <1>4, NotFirst DEF FirstNamed
  <2> QED BY <1>11, <2>1 DEF BootOK
<1> QED BY <1>3, <1>4, <1>7, <1>9, <1>12, <1>13, <1>14, QuietStep

LEMMA ResumeWildKeeps ==
  ASSUME LInv, ~ Launching, ~ Unready, ResumeWild, stage' = stage
  PROVE  LInv'
<1>1. /\ ResumeEffect /\ phase = "switch" /\ phase' = "wild"
      /\ kstack' = kstack
      /\ ~ Holds(kstack, pcb[Foreground].curr_esp, "switch", Foreground)
  BY DEF ResumeWild, ResumeEffect
<1>2. UNCHANGED <<prog_count, memoryspace, pcb_loc, pcb, stage>>
  BY <1>1 DEF ResumeEffect
<1>3. T!ResumeWild /\ T!Next
  BY <1>1, ResumeLoads, Same DEF T!ResumeWild, T!Next
<1>4. T!OnlyPops(kstack', kstack)
  BY <1>1 DEF T!OnlyPops
<1>5. UnfinishedOK'
  BY <1>1, <1>2 DEF LInv, UnfinishedOK, Live
<1>6. LaunchingOK' /\ BootOK'
  BY <1>1 DEF LaunchingOK, Launching, BootOK
<1> QED BY <1>1, <1>2, <1>3, <1>4, <1>5, <1>6, QuietStep

(* Giving up a switch to an empty terminal: what goes on has no PCB.        *)
LEMMA StrandKeeps ==
  ASSUME LInv, ~ Launching, Strand, stage' = stage
  PROVE  LInv'
<1>1. PICK d : d = Len(kstack[running])
  OBVIOUS
<1>2. /\ phase = "switch" /\ prog_count[current_terminal] = 0
      /\ phase' = kstack[running][d].back
      /\ kstack' = Returned(kstack, running, d)
      /\ UNCHANGED <<current_terminal, prog_count, memoryspace, pcb_loc, pcb,
                     running, stage>>
  BY <1>1 DEF Strand
<1>3. View' = View
  BY <1>2 DEF View, Finished, Home
<1>4. T!Strand /\ T!Next
  <2>1. T!Strand
    BY <1>3, Same DEF Strand, T!Strand
  <2> QED BY <2>1 DEF T!Next
<1>5. /\ running \in Stacks /\ d \in 1 .. Len(kstack[running])
      /\ kstack[running][d].kind = "switch" /\ T!FrameOK(running, d)
  BY <1>1, <1>2, TopFrame DEF Top
<1>6. T!OnlyPops(kstack', kstack)
  BY <1>2, <1>5, Same, Assumed, T!Pop DEF LInv, LaunchTypeOK, TypeOK
<1>7. pcb_loc[current_terminal] = NULL /\ current_terminal \in TERMS
  BY <1>2, Same DEF LInv, T!CInv, T!IInv, T!EmptyOK, LaunchTypeOK, TypeOK
<1>8. phase' \in {"user", "wait", "switch"}
  BY <1>2, <1>5 DEF T!FrameOK
<1>9. UnfinishedOK'
  <2> SUFFICES ASSUME NEW q \in PIDS, stage[q] # "done"
               PROVE  /\ q \in Live'
                      /\ \E t \in TERMS :
                           /\ pcb_loc'[t] = q
                           /\ \A u \in TERMS : pcb_loc'[u] = q => u = t
                           /\ phase' \in {"user", "wait", "launch"} =>
                                t # current_terminal'
    BY <1>2 DEF UnfinishedOK
  <2>1. /\ Home(q) \in TERMS /\ pcb_loc[Home(q)] = q /\ q \in Live
        /\ \A u \in TERMS : pcb_loc[u] = q => u = Home(q)
    BY HomeIs DEF LInv
  <2>2. Home(q) # current_terminal
    BY <1>7, <2>1, Assumed DEF PIDS
  <2> QED BY <1>2, <2>1, <2>2 DEF Live
<1>10. LaunchingOK'
  BY <1>2, <1>7 DEF LaunchingOK, Foreground
<1>11. BootOK'
  <2>1. ~ FirstNamed'
    BY <1>2, NotFirst DEF FirstNamed
  <2> QED BY <1>8, <2>1 DEF BootOK
<1> QED BY <1>2, <1>4, <1>6, <1>9, <1>10, <1>11, QuietStep

(* The exception handlers, and control lost to a null directory.            *)
LEMMA LostKeeps ==
  ASSUME LInv, phase # "wild", phase' \in {"panic", "wild"}, T!CInv',
         UNCHANGED <<current_terminal, prog_count, memoryspace, pcb_loc, pcb,
                     cr3, esp0, running, kstack, stage>>
  PROVE  LInv'
<1>1. LaunchTypeOK'
  BY DEF LInv, LaunchTypeOK, TypeOK, Phases
<1>2. UnfinishedOK' /\ ForegroundsLive' /\ WrittenOK' /\ NestedOK'
      /\ BootFramesOK'
  BY DEF LInv, UnfinishedOK, ForegroundsLive, WrittenOK, NestedOK, BootFramesOK,
         Live
<1>3. LaunchingOK' /\ ContextsOK' /\ BootOK'
  BY DEF LaunchingOK, Launching, ContextsOK, BootOK
<1> QED BY <1>1, <1>2, <1>3 DEF LInv

LEMMA PanicKeeps ==
  ASSUME LInv, Panic, phase # "wild", stage' = stage
  PROVE  LInv'
<1>1. /\ phase' = "panic"
      /\ UNCHANGED <<current_terminal, prog_count, memoryspace, pcb_loc, pcb,
                     cr3, esp0, running, kstack, stage>>
  BY DEF Panic
<1>2. View' = View
  BY <1>1 DEF View, Finished, Home
<1>3. T!Panic
  BY <1>1, <1>2 DEF T!Panic
<1>4. T!CInv'
  <2>1. T!IInv'
    BY <1>3, Assumed, T!PanicStep DEF LInv, T!CInv
  <2>2. T!CallersOK' /\ T!FirstOK'
    BY <1>3, Assumed, T!StillCallers DEF LInv
  <2> QED BY <2>1, <2>2 DEF T!CInv
<1> QED BY <1>1, <1>4, LostKeeps

(* The handler's while(1), and a step of somebody else.                     *)
LEMMA StillKeeps ==
  ASSUME LInv, UNCHANGED launchVars
  PROVE  LInv'
<1>1. UNCHANGED <<current_terminal, prog_count, memoryspace, pcb_loc, pcb,
                  cr3, esp0, running, kstack, phase, stage>>
  BY DEF launchVars, vars
<1>2. View' = View
  BY <1>1 DEF View, Finished, Home
<1>3. UNCHANGED T!vars
  BY <1>1, <1>2 DEF T!vars
<1>4. T!CInv'
  <2>1. T!IInv'
    BY <1>3, Assumed, T!NextIInv DEF LInv, T!CInv
  <2>2. T!CallersOK' /\ T!FirstOK'
    BY <1>3, Assumed, T!StillCallers DEF LInv
  <2> QED BY <2>1, <2>2 DEF T!CInv
<1>5. LaunchTypeOK'
  BY <1>1 DEF LInv, LaunchTypeOK, TypeOK
<1>6. UnfinishedOK' /\ ForegroundsLive' /\ WrittenOK' /\ NestedOK'
      /\ BootFramesOK' /\ BootOK'
  BY <1>1 DEF LInv, UnfinishedOK, ForegroundsLive, WrittenOK, NestedOK,
              BootFramesOK, BootOK, FirstNamed, Live
<1>7. LaunchingOK' /\ ContextsOK'
  BY <1>1 DEF LInv, LaunchingOK, Launching, Top, Foreground, ContextsOK,
              ContextOK, Live
<1> QED BY <1>4, <1>5, <1>6, <1>7 DEF LInv

(* The program that executes is done, and so are its ancestors.             *)
LEMMA ForegroundDone ==
  ASSUME LInv, phase = "user", Foreground # NULL
  PROVE  /\ Foreground \in Live /\ Foreground \in PIDS
         /\ prog_count[current_terminal] # 0 /\ current_terminal \in TERMS
         /\ stage[Foreground] = "done" /\ View[Foreground] = pcb[Foreground]
         /\ T!PcbOK(Foreground) /\ T!CallerOK(Foreground)
         /\ pcb[Foreground].term_num = current_terminal
         /\ pcb[Foreground].lastpcb_ptr \in PIDS
         /\ stage[pcb[Foreground].lastpcb_ptr] = "done"
<1>1. PICK f : f = Foreground
  OBVIOUS
<1>2. T!IInv /\ T!Foreground = f /\ f # NULL
  BY <1>1, Same DEF LInv, T!CInv
<1>3. /\ prog_count[current_terminal] # 0 /\ f \in Live
      /\ T!PcbOK(f) /\ T!CallerOK(f) /\ View[f].term_num = current_terminal
  BY <1>2, Same, Assumed, T!NoCallerOnForeground
<1>4. f \in PIDS /\ current_terminal \in TERMS /\ pcb_loc[current_terminal] = f
  BY <1>1, <1>3 DEF Live, LInv, LaunchTypeOK, TypeOK, Foreground
<1>5. stage[f] = "done"
  <2>1. stage[f] # "done" => Home(f) # current_terminal /\ Home(f) = current_terminal
    BY <1>4, HomeIs DEF LInv
  <2> QED BY <2>1
<1>6. View[f] = pcb[f]
  BY <1>4, <1>5, ViewOf
<1>7. PICK q : q = View[f].lastpcb_ptr
  OBVIOUS
<1>8. q \in PIDS
  BY <1>3, <1>7, Same DEF T!PcbOK
<1>9. stage[q] = "done"
  <2> SUFFICES ASSUME stage[q] # "done" PROVE FALSE
    OBVIOUS
  <2>1. q # f
    BY <1>5
  <2>2. PICK d \in [T!PIDS -> T!PIDS] : T!Levels(d) /\ T!ForegroundOK(d)
    BY <1>2 DEF T!IInv, T!ChainOK
  <2>3. View[q].term_num = current_terminal
    BY <1>3, <1>7, <2>1, <2>2, Same DEF T!Levels
  <2>4. View[q].term_num = Home(q)
    BY <1>8, ViewOf, FinishedIs DEF LInv
  <2> QED BY <1>8, <2>3, <2>4, HomeIs DEF LInv
<1> QED BY <1>1, <1>3, <1>4, <1>5, <1>6, <1>7, <1>8, <1>9

(* A halt that finds its frame goes on in the code that started the program. *)
LEMMA HaltReturns ==
  ASSUME LInv, Halt
  PROVE  T!OnlyPops(kstack', kstack) /\ phase' \in {"user", "launch"}
<1>1. PICK f : f = Foreground
  OBVIOUS
<1>2. PICK c : c = pcb[f].esp
  OBVIOUS
<1>3. T!PcbOK(f) /\ T!CallerOK(f) /\ View[f] = pcb[f]
  BY <1>1, ForegroundDone DEF Halt, HaltEffect
<1>4. /\ AfterEntry \in [Stacks -> Seq(Frame)]
      /\ T!OnlyPops(AfterEntry, kstack)
  <2>1. T!TypeOK
    BY DEF LInv, T!CInv, T!IInv
  <2> QED BY <2>1, Same, Assumed, T!Entry
<1>5. /\ Holds(AfterEntry, c, "execute", f)
      /\ phase' = AfterEntry[c.stack][c.depth].back
      /\ kstack' = Returned(AfterEntry, c.stack, c.depth)
  BY <1>1, <1>2 DEF Halt
<1>6. c \in Context /\ c.stack \in Stacks
  BY <1>2, <1>3, Same DEF T!PcbOK, Context
<1>7. c.depth \in 1 .. Len(AfterEntry[c.stack])
  BY <1>4, <1>5, <1>6, LenProperties DEF Holds
<1>8. T!OnlyPops(kstack', AfterEntry)
  BY <1>4, <1>5, <1>6, <1>7, Same, Assumed, T!Pop
<1>9. T!OnlyPops(kstack', kstack)
  BY <1>4, <1>8 DEF T!OnlyPops
<1>10. /\ c.depth \in 1 .. Len(kstack[c.stack])
       /\ AfterEntry[c.stack][c.depth] = kstack[c.stack][c.depth]
  BY <1>4, <1>6, <1>7, Same DEF T!OnlyPops
<1>11. Holds(kstack, c, "execute", f)
  <2>1. DOMAIN kstack[c.stack] = 1 .. Len(kstack[c.stack])
    BY <1>6, LenProperties DEF LInv, LaunchTypeOK, TypeOK
  <2> QED BY <1>5, <1>10, <2>1 DEF Holds
<1>12. phase' \in {"user", "launch"}
  BY <1>2, <1>3, <1>5, <1>10, <1>11, Same DEF T!CallerOK
<1> QED BY <1>9, <1>12

LEMMA HaltKeeps ==
  ASSUME LInv, Halt \/ HaltWild, stage' = stage
  PROVE  LInv'
<1>1. PICK f : f = Foreground
  OBVIOUS
<1>2. PICK t : t = current_terminal
  OBVIOUS
<1>3. PICK c : c = pcb[f].esp
  OBVIOUS
<1>4. /\ HaltEffect /\ phase = "user" /\ f # NULL
      /\ pcb' = pcb /\ current_terminal' = t
      /\ prog_count' = [prog_count EXCEPT ![t] = @ - 1]
      /\ memoryspace' = [memoryspace EXCEPT ![f] = 0]
  BY <1>1, <1>2 DEF Halt, HaltWild, HaltEffect
<1>5. /\ f \in Live /\ f \in PIDS /\ t \in TERMS
      /\ stage[f] = "done" /\ View[f] = pcb[f]
      /\ T!PcbOK(f) /\ T!CallerOK(f)
      /\ pcb[f].lastpcb_ptr \in PIDS
      /\ stage[pcb[f].lastpcb_ptr] = "done"
  BY <1>1, <1>2, <1>4, ForegroundDone
<1>6. Live' = Live \ {f}
  BY <1>4, <1>5 DEF Live, LInv, LaunchTypeOK, TypeOK
<1>7. /\ \A u \in TERMS \ {t} : pcb_loc'[u] = pcb_loc[u]
      /\ \/ pcb_loc'[t] = pcb_loc[t]
         \/ stage[pcb_loc'[t]] = "done"
  <2>1. \/ pcb_loc' = pcb_loc
        \/ pcb_loc' = [pcb_loc EXCEPT ![t] = pcb[f].lastpcb_ptr]
    BY <1>1, <1>2 DEF Halt, HaltWild
  <2> QED BY <1>5, <2>1 DEF LInv, LaunchTypeOK, TypeOK
<1>8. ASSUME NEW q \in PIDS, stage[q] # "done"
      PROVE  /\ q \in Live' /\ Home(q) \in TERMS /\ Home(q) # t
             /\ pcb_loc[Home(q)] = q /\ pcb_loc'[Home(q)] = q
             /\ \A u \in TERMS : pcb_loc'[u] = q => u = Home(q)
             /\ \A u \in TERMS : pcb_loc[u] = q => u = Home(q)
  <2>1. /\ Home(q) \in TERMS /\ Home(q) # t /\ q \in Live
        /\ pcb_loc[Home(q)] = q
        /\ \A u \in TERMS : pcb_loc[u] = q => u = Home(q)
    BY <1>2, <1>4, <1>8, HomeIs DEF LInv
  <2>2. ASSUME NEW u \in TERMS, pcb_loc'[u] = q
        PROVE  u = Home(q)
    BY <1>7, <1>8, <2>1, <2>2
  <2> QED BY <1>5, <1>6, <1>7, <1>8, <2>1, <2>2
<1>9. UnfinishedOK'
  <2> SUFFICES ASSUME NEW q \in PIDS, stage[q] # "done"
               PROVE  /\ q \in Live'
                      /\ \E u \in TERMS :
                           /\ pcb_loc'[u] = q
                           /\ \A v \in TERMS : pcb_loc'[v] = q => v = u
                           /\ u # current_terminal'
    BY DEF UnfinishedOK
  <2> QED BY <1>4, <1>8
<1>10. View' = View
  <2>1. \A q \in PIDS : stage[q] # "done" =>
          \A u \in TERMS : pcb_loc[u] = q => pcb_loc'[u] = q
    BY <1>8
  <2>2. UnfinishedOK
    BY DEF LInv
  <2> QED BY <1>4, <1>9, <2>1, <2>2, ViewSame
<1>11. T!Halt \/ T!HaltWild
  <2>1. T!HaltEffect
    BY <1>1, <1>4, <1>5, <1>10, Same DEF HaltEffect, T!HaltEffect
  <2>2. Halt => T!Halt
    BY <1>1, <1>5, <2>1, Same DEF Halt, T!Halt
  <2>3. HaltWild => T!HaltWild
    BY <1>1, <1>5, <2>1, Same DEF HaltWild, T!HaltWild
  <2> QED BY <2>2, <2>3
<1>12. T!CInv' /\ ~ Launching
  <2>1. T!Next
    BY <1>11 DEF T!Next
  <2>2. ~ Launching
    BY <1>4 DEF Launching
  <2> QED BY <2>1, <2>2, ViewStep
<1>13. LaunchTypeOK'
  BY <1>4, <1>12, Same DEF T!CInv, T!IInv, T!TypeOK, LInv, LaunchTypeOK, TypeOK
<1>14. /\ T!OnlyPops(kstack', kstack)
       /\ phase' \in {"user", "launch", "wild"}
       /\ \/ phase' # "wild"
          \/ HaltWild /\ T!HaltWild
  <2>1. /\ AfterEntry \in [Stacks -> Seq(Frame)]
        /\ T!OnlyPops(AfterEntry, kstack)
    <3>1. T!TypeOK
      BY DEF LInv, T!CInv, T!IInv
    <3> QED BY <3>1, Same, Assumed, T!Entry
  <2>2. CASE HaltWild
    <3>1. T!HaltWild
      BY <1>1, <1>4, <1>5, <1>10, <2>2, Same
         DEF HaltWild, T!HaltWild, HaltEffect, T!HaltEffect
    <3> QED BY <2>1, <2>2, <3>1 DEF HaltWild
  <2>3. CASE Halt
    BY <2>3, HaltReturns
  <2> QED BY <2>2, <2>3
<1>15. ForegroundsLive'
  <2> SUFFICES ASSUME NEW u \in TERMS, prog_count'[u] # 0
               PROVE  pcb_loc'[u] \in Live'
    BY DEF ForegroundsLive
  <2>1. CASE phase' # "wild"
    <3>1. T!ChainOK'
      BY <1>12 DEF T!CInv, T!IInv
    <3>2. T!Live' = Live'
      BY Same DEF T!Live, Live
    <3> QED BY <2>1, <3>1, <3>2, Same DEF T!ChainOK, T!ForegroundOK
  <2>2. CASE T!HaltWild
    <3>1. prog_count'[t] = 0
      BY <1>2, <2>2, Assumed, T!LastHaltWild DEF LInv
    <3>2. u # t /\ prog_count[u] # 0 /\ pcb_loc'[u] = pcb_loc[u]
      BY <1>4, <1>7, <3>1 DEF LInv, LaunchTypeOK, TypeOK
    <3>3. pcb_loc[u] \in Live
      BY <3>2 DEF LInv, ForegroundsLive
    <3>4. pcb_loc[u] # f
      BY <1>1, <1>2, <1>4, <1>5, <3>2, ForegroundDone, Same, Assumed,
         T!ForegroundsDistinct DEF LInv, T!CInv, Foreground
    <3> QED BY <1>6, <3>2, <3>3, <3>4
  <2> QED BY <1>14, <2>1, <2>2
<1>16. WrittenOK'
  BY <1>4 DEF LInv, WrittenOK
<1>17. /\ NestedOK' /\ BootFramesOK'
       /\ \A p \in Live : ContextOK(p) => ContextOK(p)'
  BY <1>4, <1>13, <1>14, PopsKeepFrames DEF LaunchTypeOK, TypeOK
<1>18. ContextsOK'
  BY <1>4, <1>6, <1>17 DEF LInv, ContextsOK, Launching
<1>19. LaunchingOK'
  BY <1>14 DEF LaunchingOK, Launching
<1>20. BootOK'
  <2>1. ASSUME FirstNamed' PROVE FALSE
    <3>1. PICK q \in PIDS : q = pcb_loc'[0] /\ stage[q] = "named"
      BY <2>1 DEF FirstNamed
    <3>2. pcb_loc[0] = q
      BY <1>8, <3>1 DEF TERMS
    <3> QED BY <1>4, <3>1, <3>2 DEF LInv, BootOK, FirstNamed
  <2> QED BY <1>14, <2>1 DEF BootOK
<1> QED BY <1>9, <1>12, <1>13, <1>15, <1>16, <1>17, <1>18, <1>19, <1>20 DEF LInv

(* What Alt+Fn does, whether or not it interrupts an execute.               *)
Suspends(t) ==
  /\ T!KeyboardOpen
  /\ t # current_terminal
  /\ Foreground # NULL
  /\ pcb' = [pcb EXCEPT ![Foreground].curr_esp =
               [stack |-> EntryStack, depth |-> Len(EntryFrames) + 1]]
  /\ kstack' = [kstack EXCEPT ![EntryStack] = Append(EntryFrames,
                  [kind |-> "switch", pid |-> Foreground, back |-> phase])]
  /\ running' = EntryStack
  /\ current_terminal' = t
  /\ phase' = "switch"
  /\ UNCHANGED <<prog_count, memoryspace, pcb_loc, cr3, esp0, stage>>
  /\ Launching => cr3 # BOOT

LEMMA SwitchSuspends ==
  ASSUME LInv, NEW t \in TERMS, stage' = stage,
         (~ Launching /\ SwitchOut(t)) \/ LaunchSwitchOut(t)
  PROVE  Suspends(t)
<1>1. CASE ~ Launching /\ SwitchOut(t)
  <2>1. T!KeyboardOpen
    <3>1. KeyboardOpen
      BY <1>1 DEF SwitchOut
    <3>2. CASE phase = "switch" /\ Len(kstack[running]) <= NESTING
      <4>1. Len(kstack[running]) \in Nat /\ NESTING \in Nat
        BY <3>2, TopFrame, NestingAssumption
      <4>2. Len(kstack[running]) <= NESTING + 1
        BY <3>2, <4>1
      <4> QED BY <3>2, <4>2 DEF T!KeyboardOpen
    <3> QED BY <3>1, <3>2 DEF KeyboardOpen, T!KeyboardOpen
  <2> QED BY <1>1, <2>1 DEF SwitchOut, Suspends
<1>2. CASE LaunchSwitchOut(t)
  <2>1. phase = "switch" /\ EntryStack = running /\ EntryFrames = kstack[running]
    BY <1>2 DEF LaunchSwitchOut, LaunchOpen, Launching, EntryStack, EntryFrames
  <2>2. T!KeyboardOpen
    BY <1>2, <2>1 DEF LaunchSwitchOut, LaunchOpen, T!KeyboardOpen
  <2> QED BY <1>2, <2>1, <2>2 DEF LaunchSwitchOut, Suspends
<1> QED BY <1>1, <1>2

LEMMA SuspendKeeps ==
  ASSUME LInv, NEW t \in TERMS, Suspends(t)
  PROVE  LInv'
<1>1. PICK f : f = Foreground
  OBVIOUS
<1>2. PICK s : s = EntryStack
  OBVIOUS
<1>3. PICK frames : frames = EntryFrames
  OBVIOUS
<1>4. PICK c : c = [stack |-> s, depth |-> Len(frames) + 1]
  OBVIOUS
<1>5. PICK fr : fr = [kind |-> "switch", pid |-> f, back |-> phase]
  OBVIOUS
<1>6. /\ T!KeyboardOpen /\ t # current_terminal /\ f # NULL
      /\ pcb' = [pcb EXCEPT ![f].curr_esp = c]
      /\ kstack' = [kstack EXCEPT ![s] = Append(frames, fr)]
      /\ running' = s /\ current_terminal' = t /\ phase' = "switch"
      /\ UNCHANGED <<prog_count, memoryspace, pcb_loc, cr3, esp0, stage>>
      /\ phase \in {"user", "wait", "switch"}
      /\ Launching => cr3 # BOOT
  BY <1>1, <1>2, <1>3, <1>4, <1>5 DEF Suspends, T!KeyboardOpen
<1>7. /\ current_terminal \in TERMS /\ pcb_loc[current_terminal] = f
      /\ kstack \in [Stacks -> Seq(Frame)] /\ pcb \in [PIDS -> Pcb]
      /\ running \in Stacks /\ esp0 \in Stacks
  BY <1>1 DEF LInv, LaunchTypeOK, TypeOK, Foreground
<1>8. prog_count[current_terminal] # 0 /\ f \in Live /\ f \in PIDS
  <2>1. prog_count[current_terminal] # 0
    BY <1>6, <1>7, Same DEF LInv, T!CInv, T!IInv, T!EmptyOK
  <2> QED BY <1>7, <2>1 DEF LInv, ForegroundsLive, Live
<1>9. /\ s \in Stacks /\ frames \in Seq(Frame) /\ Len(frames) \in Nat
      /\ frames = kstack[s] \/ frames = <<>>
      /\ phase # "user" => s = running /\ frames = kstack[s]
  <2>1. s \in Stacks /\ frames \in Seq(Frame)
        /\ (frames = kstack[s] \/ frames = <<>>)
        /\ (phase # "user" => s = running /\ frames = kstack[s])
    BY <1>2, <1>3, <1>7, EmptySeq DEF EntryStack, EntryFrames
  <2> QED BY <2>1, LenProperties
<1>10. fr \in Frame /\ fr.kind = "switch" /\ fr.pid = f /\ fr.back = phase
  BY <1>5, <1>6, <1>8 DEF Frame, Phases
<1>11. /\ c \in Context /\ c # NULL
       /\ c.stack = s /\ c.depth = Len(frames) + 1
  BY <1>4, <1>9, ContextAssumption DEF Context
<1>12. /\ pcb' \in [PIDS -> Pcb]
       /\ \A q \in PIDS \ {f} : pcb'[q] = pcb[q]
       /\ pcb'[f] = [pcb[f] EXCEPT !.curr_esp = c]
  <2>1. [pcb[f] EXCEPT !.curr_esp = c] \in Pcb
    BY <1>7, <1>8, <1>11 DEF Pcb
  <2> QED BY <1>6, <1>7, <1>8, <2>1
<1>13. /\ pcb'[f].lastpcb_ptr = pcb[f].lastpcb_ptr
       /\ pcb'[f].esp = pcb[f].esp /\ pcb'[f].pagedir = pcb[f].pagedir
       /\ pcb'[f].curr_pd = pcb[f].curr_pd
       /\ pcb'[f].term_num = pcb[f].term_num
       /\ pcb'[f].curr_esp = c
  BY <1>7, <1>8, <1>12 DEF Pcb
<1>14. UnfinishedOK'
  BY <1>6 DEF LInv, UnfinishedOK, Live
<1>15. WrittenOK'
  <2> SUFFICES ASSUME NEW p \in PIDS
               PROVE  /\ pcb'[p].curr_pd \in {p, NULL}
                      /\ pcb'[p].curr_pd # NULL => pcb'[p].curr_esp # NULL
                      /\ stage[p] \in {"saved", "loaded"} => pcb'[p].curr_pd = NULL
                      /\ stage[p] = "ready" => pcb'[p].curr_pd = p
                      /\ stage[p] \in {"saved", "loaded", "ready"} =>
                           /\ pcb'[p].lastpcb_ptr = p
                           /\ pcb'[p].esp \in Context
                           /\ pcb'[p].pagedir \in Stacks
    BY <1>6 DEF WrittenOK
  <2>1. CASE p = f
    BY <1>8, <1>11, <1>13, <2>1 DEF LInv, WrittenOK
  <2>2. CASE p # f
    BY <1>12, <2>2 DEF LInv, WrittenOK
  <2> QED BY <2>1, <2>2
<1>16. LaunchTypeOK'
  <2>1. kstack' \in [Stacks -> Seq(Frame)]
    BY <1>6, <1>7, <1>9, <1>10, Same, Assumed, T!Push
  <2> QED BY <1>6, <1>9, <1>12, <2>1 DEF LInv, LaunchTypeOK, TypeOK, Phases
<1>17. View' = [View EXCEPT ![f].curr_esp = c]
  <2>1. \A q \in PIDS : Home(q)' = Home(q)
    BY <1>6 DEF Home
  <2>2. ASSUME NEW q \in PIDS, q # f
        PROVE  View'[q] = View[q]
    BY <1>6, <1>12, <2>1, <2>2 DEF View, Finished
  <2>3. View'[f] = [View[f] EXCEPT !.curr_esp = c]
    <3>1. CASE stage[f] = "done"
      BY <1>6, <1>8, <1>12, <3>1 DEF View
    <3>2. CASE stage[f] # "done"
      <4>1. View[f] = Finished(f) /\ View'[f] = Finished(f)'
        BY <1>6, <1>8, <3>2 DEF View
      <4>2. Finished(f)' = [Finished(f) EXCEPT !.curr_esp = c]
        BY <1>6, <1>8, <1>11, <1>13, <2>1 DEF Finished
      <4> QED BY <4>1, <4>2
    <3> QED BY <3>1, <3>2
  <2> QED BY <1>8, <2>2, <2>3 DEF View
<1>18. T!CInv'
  <2>1. T!SwitchOut(t)
    BY <1>1, <1>2, <1>3, <1>4, <1>5, <1>6, <1>17, Same DEF T!SwitchOut
  <2>2. T!Next
    BY <2>1, Same DEF T!Next
  <2> QED BY <1>8, <2>2, ViewStep
<1>19. ForegroundsLive'
  BY <1>6 DEF LInv, ForegroundsLive, Live
<1>20. phase = "switch" =>
         /\ Len(frames) # 0 /\ Top = frames[Len(frames)]
         /\ Top.kind = "execute" => /\ Launching /\ Top.pid = f
                                    /\ Top.back = "launch" /\ stage[f] # "done"
  <2> SUFFICES ASSUME phase = "switch"
               PROVE  /\ Len(frames) # 0 /\ Top = frames[Len(frames)]
                      /\ Top.kind = "execute" =>
                           /\ Launching /\ Top.pid = f
                           /\ Top.back = "launch" /\ stage[f] # "done"
    OBVIOUS
  <2>1. Len(frames) # 0 /\ Top = frames[Len(frames)]
    BY <1>9, TopFrame DEF Top
  <2>2. Top.kind = "execute" <=> Launching
    BY TopFrame
  <2> QED BY <1>1, <1>6, <2>1, <2>2 DEF LInv, LaunchingOK
<1>21. /\ Len(kstack'[s]) = Len(frames) + 1
       /\ kstack'[s][Len(frames) + 1] = fr
       /\ NestedOK' /\ BootFramesOK'
       /\ \A p \in Live \ {f} : ContextOK(p) => ContextOK(p)'
  <2>1. fr.back = "switch" =>
          /\ frames = kstack[s] /\ Len(frames) # 0
          /\ frames[Len(frames)].kind = "execute" =>
               /\ frames[Len(frames)].pid = fr.pid
               /\ frames[Len(frames)].back = "launch"
    BY <1>9, <1>10, <1>20
  <2>2. \A p \in Live \ {f} : stage'[p] = stage[p]
                              /\ pcb'[p].curr_esp = pcb[p].curr_esp
    BY <1>6, <1>12 DEF Live
  <2>3. s = BOOT /\ fr.kind = "execute" => fr.back = "launch"
    BY <1>10
  <2>4. /\ Len(kstack'[s]) = Len(frames) + 1
        /\ kstack'[s][Len(frames) + 1] = fr
        /\ NestedOK' /\ BootFramesOK'
        /\ \A p \in Live :
             (/\ ContextOK(p) /\ stage'[p] = stage[p]
              /\ pcb'[p].curr_esp = pcb[p].curr_esp
              /\ fr.kind = "execute" \/ fr.pid # p) => ContextOK(p)'
    BY <1>6, <1>9, <1>10, <2>1, <2>3, PushKeepsFrames
  <2> QED BY <1>10, <2>2, <2>4
<1>22. ~ Launching'
  <2>1. Top' = fr
    BY <1>6, <1>21 DEF Top
  <2> QED BY <1>10, <2>1 DEF Launching
<1>23. ContextOK(f)'
  <2>1. kstack'[c.stack][c.depth] = fr /\ pcb'[f].curr_esp = c
    BY <1>11, <1>13, <1>21
  <2>2. CASE phase = "switch"
    <3>1. c.depth - 1 = Len(frames) /\ Len(frames) \in 1 .. Len(frames)
      BY <1>9, <1>11, <1>20, <2>2
    <3>2. kstack'[c.stack][c.depth - 1] = Top
      <4>1. /\ Len(Append(frames, fr)) = Len(frames) + 1
            /\ \A i \in 1 .. Len(frames) : Append(frames, fr)[i] = frames[i]
        BY <1>9, <1>10, AppendProperties
      <4>2. kstack'[s] = Append(frames, fr)
        BY <1>6, <1>7, <1>9
      <4> QED BY <1>11, <1>20, <2>2, <3>1, <4>1, <4>2
    <3> QED BY <1>6, <1>10, <1>20, <2>1, <2>2, <3>2 DEF ContextOK
  <2>3. CASE phase # "switch"
    <3>1. stage[f] = "done"
      <4>1. stage[f] # "done" =>
              Home(f) # current_terminal /\ Home(f) = current_terminal
        BY <1>6, <1>7, <1>8, <2>3, HomeIs DEF LInv
      <4> QED BY <4>1
    <3> QED BY <1>6, <1>10, <2>1, <2>3, <3>1 DEF ContextOK
  <2> QED BY <2>2, <2>3
<1>24. ContextsOK'
  <2> SUFFICES ASSUME NEW p \in Live PROVE ContextOK(p)'
    BY <1>6 DEF ContextsOK, Live
  <2>1. CASE p # f
    <3>1. ~ (Launching /\ Top.pid = p)
      BY <1>20, <2>1, TopFrame DEF Launching
    <3> QED BY <1>6, <1>21, <2>1, <3>1 DEF LInv, ContextsOK
  <2> QED BY <1>23, <2>1
<1>25. LaunchingOK'
  BY <1>22 DEF LaunchingOK
<1>26. BootOK'
  <2>1. ASSUME FirstNamed PROVE FALSE
    <3>1. phase = "switch" /\ cr3 = BOOT
      BY <1>6, <2>1 DEF LInv, BootOK
    <3> QED BY <1>6, <2>1, <3>1, NotFirst
  <2>2. FirstNamed' = FirstNamed
    BY <1>6 DEF FirstNamed
  <2> QED BY <1>6, <2>1, <2>2 DEF BootOK
<1> QED BY <1>14, <1>15, <1>16, <1>18, <1>19, <1>21, <1>24, <1>25, <1>26 DEF LInv

(* execute in one step: the system call, and the restart of a shell.        *)
LEMMA ExecuteKeeps ==
  ASSUME LInv, Execute \/ (phase = "launch" /\ Launch), stage' = stage
  PROVE  LInv'
<1>1. PICK t : t = current_terminal
  OBVIOUS
<1>2. /\ t \in TERMS /\ TaskCount < MAX_PROCESSES
      /\ kstack \in [Stacks -> Seq(Frame)] /\ pcb \in [PIDS -> Pcb]
      /\ esp0 \in Stacks /\ running \in Stacks /\ cr3 \in Stacks
      /\ pcb_loc \in [TERMS -> PIDS \cup {NULL}]
      /\ memoryspace \in [PIDS -> {0, 1}]
  BY <1>1 DEF LInv, LaunchTypeOK, TypeOK, Execute, Launch, ExecuteOn
<1>3. PICK s \in Stacks, frames \in Seq(Frame), back \in {"user", "launch"} :
        /\ ExecuteOn(s, frames, back)
        /\ T!ExecuteOn(s, frames, back) => T!Execute \/ T!Launch
        /\ frames = kstack[s] \/ frames = <<>>
        /\ s = BOOT => back = "launch"
        /\ phase \in {"user", "launch"}
  <2>1. CASE Execute
    <3>1. ExecuteOn(esp0, <<>>, "user") /\ phase = "user"
      BY <2>1 DEF Execute
    <3>2. T!ExecuteOn(esp0, <<>>, "user") => T!Execute
      BY <3>1 DEF T!Execute
    <3>3. prog_count[t] # 0
      BY <1>1, <1>2, <3>1, Same, Assumed DEF LInv, T!CInv, T!IInv, T!EmptyOK
    <3>4. esp0 = Foreground /\ Foreground \in Live
      BY <1>1, <3>1, <3>3, Same DEF LInv, T!CInv, T!IInv, T!CurrentIsRunning
    <3>5. esp0 # BOOT
      BY <3>4, Assumed DEF Live, PIDS
    <3> QED BY <1>2, <3>1, <3>2, <3>5, EmptySeq
  <2>2. CASE phase = "launch" /\ Launch
    <3>1. ExecuteOn(running, kstack[running], "launch")
      BY <2>2 DEF Launch
    <3>2. T!ExecuteOn(running, kstack[running], "launch") => T!Launch
      BY <2>2 DEF T!Launch
    <3> QED BY <1>2, <2>2, <3>1, <3>2
  <2> QED BY <2>1, <2>2
<1> DEFINE new(p) == [lastpcb_ptr |-> PrevPcb(p),
                      esp |-> [stack |-> s, depth |-> Len(frames) + 1],
                      pagedir |-> cr3,
                      curr_esp |-> [stack |-> p, depth |-> 0],
                      curr_pd |-> p,
                      term_num |-> t]
<1>4. PICK p \in ScanResult :
        /\ prog_count' = [prog_count EXCEPT ![t] = @ + 1]
        /\ memoryspace' = [memoryspace EXCEPT ![p] = 1]
        /\ pcb_loc' = [pcb_loc EXCEPT ![t] = p]
        /\ pcb' = [pcb EXCEPT ![p] = new(p)]
        /\ kstack' = [kstack EXCEPT ![s] = Append(frames,
                        [kind |-> "execute", pid |-> p, back |-> back])]
        /\ cr3' = p /\ esp0' = p /\ running' = p /\ phase' = "user"
        /\ current_terminal' = t
  BY <1>1, <1>3 DEF ExecuteOn, ProgInit
<1>5. p \in PIDS /\ p \notin Live
  BY <1>2, Same, Assumed, T!FreeNumber DEF LInv, T!CInv, T!IInv
<1>6. stage[p] = "done"
  BY <1>5 DEF LInv, UnfinishedOK
<1>7. Live' = Live \cup {p}
  BY <1>2, <1>4, <1>5 DEF Live
<1>8. /\ pcb_loc'[t] = p
      /\ \A u \in TERMS \ {t} : pcb_loc'[u] = pcb_loc[u]
      /\ \A q \in PIDS \ {p} : pcb'[q] = pcb[q]
      /\ pcb'[p] = new(p)
  BY <1>2, <1>4, <1>5
<1>9. ASSUME NEW q \in PIDS, stage[q] # "done"
      PROVE  /\ q \in Live' /\ Home(q) \in TERMS /\ Home(q) # t
             /\ pcb_loc[Home(q)] = q /\ pcb_loc'[Home(q)] = q
             /\ \A u \in TERMS : pcb_loc'[u] = q => u = Home(q)
             /\ \A u \in TERMS : pcb_loc[u] = q => u = Home(q)
  <2>1. /\ Home(q) \in TERMS /\ Home(q) # t /\ q \in Live
        /\ pcb_loc[Home(q)] = q
        /\ \A u \in TERMS : pcb_loc[u] = q => u = Home(q)
    BY <1>1, <1>3, <1>9, HomeIs DEF LInv
  <2> QED BY <1>6, <1>7, <1>8, <1>9, <2>1
<1>10. UnfinishedOK'
  <2> SUFFICES ASSUME NEW q \in PIDS, stage[q] # "done"
               PROVE  /\ q \in Live'
                      /\ \E u \in TERMS :
                           /\ pcb_loc'[u] = q
                           /\ \A v \in TERMS : pcb_loc'[v] = q => v = u
                           /\ u # current_terminal'
    BY DEF UnfinishedOK
  <2> QED BY <1>4, <1>9
<1>11. View' = [View EXCEPT ![p] = new(p)]
  <2> HIDE DEF new
  <2>1. ASSUME NEW q \in PIDS, q # p
        PROVE  View'[q] = View[q]
    <3>1. CASE stage[q] = "done"
      BY <1>8, <2>1, <3>1 DEF View
    <3>2. CASE stage[q] # "done"
      <4>1. Home(q)' = Home(q)
        BY <1>9, <1>10, <3>2, HomeKept DEF LInv
      <4> QED BY <1>8, <2>1, <3>2, <4>1 DEF View, Finished
    <3> QED BY <3>1, <3>2
  <2>2. View'[p] = new(p)
    BY <1>5, <1>6, <1>8 DEF View
  <2> QED BY <1>5, <2>1, <2>2 DEF View
<1>12. T!CInv'
  <2>1. T!ExecuteOn(s, frames, back)
    BY <1>1, <1>2, <1>3, <1>4, <1>11, Same DEF T!ExecuteOn, T!ProgInit
  <2>2. T!Next
    BY <1>3, <2>1 DEF T!Next
  <2>3. ~ Launching
    BY <1>3 DEF Launching
  <2> QED BY <2>2, <2>3, ViewStep
<1>13. /\ pcb'[p].curr_pd = p
       /\ pcb'[p].curr_esp = [stack |-> p, depth |-> 0]
  BY <1>8
<1>14. pcb' \in [PIDS -> Pcb]
  <2>1. View' \in [PIDS -> Pcb]
    BY <1>12, Same DEF T!CInv, T!IInv, T!TypeOK
  <2>2. View'[p] = new(p) /\ View'[p] \in Pcb
    BY <1>5, <1>11, <2>1 DEF View
  <2> QED BY <1>2, <1>4, <1>5, <2>2
<1>15. LaunchTypeOK'
  BY <1>12, <1>14, Same DEF T!CInv, T!IInv, T!TypeOK, LInv, LaunchTypeOK, TypeOK
<1>16. ForegroundsLive'
  <2>1. T!ChainOK' /\ T!Live' = Live'
    BY <1>12, Same DEF T!CInv, T!IInv, T!Live, Live
  <2> QED BY <1>4, <2>1, Same DEF ForegroundsLive, T!ChainOK, T!ForegroundOK
<1>17. WrittenOK'
  <2> SUFFICES ASSUME NEW q \in PIDS
               PROVE  /\ pcb'[q].curr_pd \in {q, NULL}
                      /\ pcb'[q].curr_pd # NULL => pcb'[q].curr_esp # NULL
                      /\ stage[q] \in {"saved", "loaded"} => pcb'[q].curr_pd = NULL
                      /\ stage[q] = "ready" => pcb'[q].curr_pd = q
                      /\ stage[q] \in {"saved", "loaded", "ready"} =>
                           /\ pcb'[q].lastpcb_ptr = q
                           /\ pcb'[q].esp \in Context
                           /\ pcb'[q].pagedir \in Stacks
    BY DEF WrittenOK
  <2>1. CASE q = p
    <3>1. [stack |-> p, depth |-> 0] \in Context
      BY <1>5 DEF Context, Stacks
    <3> QED BY <1>6, <1>13, <2>1, <3>1, Assumed, ContextAssumption
  <2>2. CASE q # p
    BY <1>8, <2>2 DEF LInv, WrittenOK
  <2> QED BY <2>1, <2>2
<1>18. /\ NestedOK' /\ BootFramesOK'
       /\ \A q \in Live : ContextOK(q) => ContextOK(q)'
  <2>1. PICK f \in Frame : f = [kind |-> "execute", pid |-> p, back |-> back]
    BY <1>5 DEF Frame, Phases
  <2>2. f.kind = "execute" /\ f.back # "switch"
        /\ (s = BOOT => f.back = "launch")
    BY <1>3, <2>1
  <2>3. kstack' = [kstack EXCEPT ![s] = Append(frames, f)]
    BY <1>4, <2>1
  <2>4. /\ NestedOK' /\ BootFramesOK'
        /\ \A q \in Live :
             (/\ ContextOK(q) /\ stage'[q] = stage[q]
              /\ pcb'[q].curr_esp = pcb[q].curr_esp
              /\ f.kind = "execute" \/ f.pid # q) => ContextOK(q)'
    BY <1>3, <2>2, <2>3, PushKeepsFrames
  <2>5. \A q \in Live : pcb'[q].curr_esp = pcb[q].curr_esp
    BY <1>5, <1>8 DEF Live
  <2> QED BY <2>2, <2>4, <2>5
<1>19. ContextsOK'
  <2> SUFFICES ASSUME NEW q \in Live' PROVE ContextOK(q)'
    BY DEF ContextsOK
  <2>1. CASE q = p
    <3>1. kstack' \in [Stacks -> Seq(Frame)] /\ p \in Stacks
      BY <1>5, <1>15 DEF LaunchTypeOK, TypeOK, Stacks
    <3>2. 0 \notin DOMAIN kstack'[p]
      <4>1. DOMAIN kstack'[p] = 1 .. Len(kstack'[p])
        BY <3>1, LenProperties
      <4> QED BY <4>1
    <3> QED BY <1>13, <2>1, <3>2 DEF ContextOK, Holds
  <2>2. CASE q \in Live
    <3>1. ContextOK(q)
      BY <1>3, <2>2 DEF LInv, ContextsOK, Launching
    <3> QED BY <1>18, <2>2, <3>1
  <2> QED BY <1>7, <2>1, <2>2
<1>20. LaunchingOK'
  BY <1>4 DEF LaunchingOK, Launching
<1>21. BootOK'
  <2>1. ASSUME FirstNamed' PROVE FALSE
    <3>1. PICK q \in PIDS : q = pcb_loc'[0] /\ stage[q] = "named"
      BY <2>1 DEF FirstNamed
    <3>2. pcb_loc[0] = q
      BY <1>9, <3>1 DEF TERMS
    <3> QED BY <1>3, <3>1, <3>2 DEF LInv, BootOK, FirstNamed
  <2> QED BY <1>4, <2>1 DEF BootOK
<1> QED BY <1>10, <1>12, <1>15, <1>16, <1>17, <1>18, <1>19, <1>20, <1>21 DEF LInv

(* A launching loop calls execute: the new program counts, and its PCB is   *)
(* the one of its terminal, though nothing is written into it.              *)
LEMMA BeginKeeps ==
  ASSUME LInv, LaunchBegin
  PROVE  LInv'
<1>1. PICK t : t = current_terminal
  OBVIOUS
<1>2. PICK s : s = running
  OBVIOUS
<1>3. PICK p \in ScanResult :
        /\ prog_count' = [prog_count EXCEPT ![t] = @ + 1]
        /\ memoryspace' = [memoryspace EXCEPT ![p] = 1]
        /\ pcb_loc' = [pcb_loc EXCEPT ![t] = p]
        /\ kstack' = [kstack EXCEPT ![s] = Append(kstack[s],
                        [kind |-> "execute", pid |-> p, back |-> "launch"])]
        /\ stage' = [stage EXCEPT ![p] = "named"]
  BY <1>1, <1>2 DEF LaunchBegin
<1>4. /\ phase \in {"boot", "switch"} /\ ~ Launching
      /\ phase = "switch" => prog_count[t] = 0
      /\ TaskCount < MAX_PROCESSES /\ phase' = "switch"
      /\ current_terminal' = t /\ pcb' = pcb /\ cr3' = cr3 /\ esp0' = esp0
      /\ running' = s
  BY <1>1, <1>2 DEF LaunchBegin
<1>5. /\ t \in TERMS /\ s \in Stacks /\ BOOT \in Stacks
      /\ kstack \in [Stacks -> Seq(Frame)] /\ kstack[s] \in Seq(Frame)
      /\ pcb \in [PIDS -> Pcb] /\ pcb_loc \in [TERMS -> PIDS \cup {NULL}]
      /\ memoryspace \in [PIDS -> {0, 1}] /\ stage \in [PIDS -> Stages]
      /\ prog_count \in [TERMS -> Nat]
  BY <1>1, <1>2 DEF LInv, LaunchTypeOK, TypeOK, Stacks
<1>6. prog_count[t] = 0
  BY <1>1, <1>4 DEF LInv, T!CInv, T!IInv, T!EmptyOK
<1>7. p \in PIDS /\ p \notin Live
  BY <1>4, Same, Assumed, T!FreeNumber DEF LInv, T!CInv, T!IInv
<1>8. stage[p] = "done" /\ stage'[p] = "named"
      /\ \A q \in PIDS \ {p} : stage'[q] = stage[q]
  BY <1>3, <1>5, <1>7 DEF LInv, UnfinishedOK
<1>9. Live' = Live \cup {p}
  BY <1>3, <1>5, <1>7 DEF Live
<1>10. /\ pcb_loc'[t] = p
       /\ \A u \in TERMS \ {t} : pcb_loc'[u] = pcb_loc[u] /\ pcb_loc[u] # p
  <2>1. ASSUME NEW u \in TERMS, u # t PROVE pcb_loc[u] # p
    <3>1. CASE prog_count[u] # 0
      BY <1>7, <3>1 DEF LInv, ForegroundsLive
    <3>2. CASE prog_count[u] = 0
      <4>1. pcb_loc[u] = NULL
        BY <1>1, <2>1, <3>2, Same DEF LInv, T!CInv, T!IInv, T!EmptyOK
      <4> QED BY <1>7, <4>1, Assumed DEF PIDS
    <3> QED BY <3>1, <3>2
  <2> QED BY <1>3, <1>5, <2>1
<1>11. ASSUME NEW q \in PIDS, stage[q] # "done"
       PROVE  /\ q \in Live /\ Home(q) \in TERMS /\ Home(q) # t
              /\ pcb_loc[Home(q)] = q /\ pcb_loc'[Home(q)] = q
              /\ \A u \in TERMS : pcb_loc'[u] = q => u = Home(q)
              /\ \A u \in TERMS : pcb_loc[u] = q => u = Home(q)
  <2>1. /\ Home(q) \in TERMS /\ q \in Live /\ pcb_loc[Home(q)] = q
        /\ \A u \in TERMS : pcb_loc[u] = q => u = Home(q)
    BY <1>11, HomeIs DEF LInv
  <2>2. PICK d \in [T!PIDS -> T!PIDS] : T!Levels(d) /\ T!ForegroundOK(d)
    BY DEF LInv, T!CInv, T!IInv, T!ChainOK
  <2>3. d[q] < prog_count[Home(q)] /\ d[q] \in Nat
    <3>1. View[q].term_num = Home(q)
      BY <1>11, ViewOf, FinishedIs DEF LInv
    <3> QED BY <2>1, <2>2, <3>1, Same DEF T!Levels, PIDS
  <2>4. Home(q) # t
    BY <1>6, <2>3
  <2> QED BY <1>7, <1>10, <2>1, <2>4
<1>12. UnfinishedOK'
  <2> SUFFICES ASSUME NEW q \in PIDS, stage'[q] # "done"
               PROVE  /\ q \in Live'
                      /\ \E u \in TERMS :
                           /\ pcb_loc'[u] = q
                           /\ \A v \in TERMS : pcb_loc'[v] = q => v = u
    BY <1>4 DEF UnfinishedOK
  <2>1. CASE q = p
    BY <1>5, <1>9, <1>10, <2>1
  <2>2. CASE q # p
    BY <1>8, <1>9, <1>11, <2>2
  <2> QED BY <2>1, <2>2
<1>13. /\ \A q \in PIDS \ {p} : View'[q] = View[q]
       /\ View'[p] = Finished(p)'
       /\ Home(p)' = t
  <2>1. ASSUME NEW q \in PIDS, q # p
        PROVE  View'[q] = View[q]
    <3>1. CASE stage[q] = "done"
      BY <1>4, <1>8, <2>1, <3>1 DEF View
    <3>2. CASE stage[q] # "done"
      <4>1. Home(q)' = Home(q)
        BY <1>8, <1>11, <1>12, <2>1, <3>2, HomeKept DEF LInv
      <4> QED BY <1>4, <1>8, <2>1, <3>2, <4>1 DEF View, Finished
    <3> QED BY <3>1, <3>2
  <2>2. View'[p] = Finished(p)'
    BY <1>7, <1>8 DEF View
  <2>3. Home(p)' \in TERMS /\ pcb_loc'[Home(p)'] = p
    BY <1>5, <1>10 DEF Home
  <2> QED BY <1>10, <2>1, <2>2, <2>3
<1>14. /\ View'[p].lastpcb_ptr = p
       /\ View'[p].esp = [stack |-> BOOT, depth |-> 1]
       /\ View'[p].pagedir = BOOT
       /\ View'[p].curr_esp \in Context
       /\ View'[p].curr_pd = p
       /\ View'[p].term_num = t
       /\ View'[p] \in Pcb
  <2>1. PICK f : f = Finished(p)'
    OBVIOUS
  <2>2. f = [lastpcb_ptr |-> p, esp |-> [stack |-> BOOT, depth |-> 1],
             pagedir |-> BOOT,
             curr_esp |-> IF pcb[p].curr_esp = NULL
                          THEN [stack |-> p, depth |-> 0]
                          ELSE pcb[p].curr_esp,
             curr_pd |-> p, term_num |-> t]
    BY <1>4, <1>8, <1>13, <2>1 DEF Finished
  <2>3. p \in Stacks /\ [stack |-> p, depth |-> 0] \in Context
        /\ [stack |-> BOOT, depth |-> 1] \in Context
    BY <1>5, <1>7 DEF Context, Stacks
  <2>4. pcb[p].curr_esp \in Context \cup {NULL}
    BY <1>5, <1>7 DEF Pcb
  <2>5. f.curr_esp \in Context
    BY <2>2, <2>3, <2>4
  <2>6. f \in Pcb
    BY <1>5, <1>7, <2>2, <2>3, <2>4 DEF Pcb
  <2> QED BY <1>13, <2>1, <2>2, <2>5, <2>6
<1>15. /\ T!Live' = Live' /\ T!Accounting' /\ T!Limit' /\ T!ChainOK'
  <2>1. T!IInv /\ phase # "wild" /\ T!TaskCount < MAX_PROCESSES
        /\ t \in T!TERMS /\ p \in T!ScanResult
    BY <1>4, <1>5, Same DEF LInv, T!CInv
  <2>2. View'[p].lastpcb_ptr = T!PrevPcb(p) /\ View'[p].term_num = t
    BY <1>1, <1>6, <1>14, Same DEF PrevPcb
  <2>3. \A q \in T!Live : /\ View'[q].lastpcb_ptr = View[q].lastpcb_ptr
                          /\ View'[q].term_num = View[q].term_num
    BY <1>7, <1>13, Same DEF Live
  <2>4. T!Accounting' /\ T!Limit' /\ T!ChainOK'
    BY <1>1, <1>3, <2>1, <2>2, <2>3, Assumed, T!ProgramAdded
  <2> QED BY <2>4, Same DEF T!Live, Live
<1>16. PICK f \in Frame : /\ f = [kind |-> "execute", pid |-> p, back |-> "launch"]
                          /\ f.kind = "execute" /\ f.pid = p /\ f.back = "launch"
  <2>1. [kind |-> "execute", pid |-> p, back |-> "launch"] \in Frame
    BY <1>7 DEF Frame, Phases
  <2> QED BY <2>1
<1>17. kstack' = [kstack EXCEPT ![s] = Append(kstack[s], f)]
  BY <1>3, <1>16
<1>18. /\ kstack' \in [Stacks -> Seq(Frame)]
       /\ Len(kstack'[s]) = Len(kstack[s]) + 1
       /\ kstack'[s][Len(kstack[s]) + 1] = f
       /\ NestedOK' /\ BootFramesOK'
       /\ \A q \in Live : ContextOK(q) => ContextOK(q)'
  <2>1. f.back # "switch" /\ (s = BOOT /\ f.kind = "execute" => f.back = "launch")
    BY <1>16
  <2>0. PICK frames \in Seq(Frame) : frames = kstack[s]
    BY <1>5
  <2>2. /\ kstack' \in [Stacks -> Seq(Frame)]
        /\ Len(kstack'[s]) = Len(kstack[s]) + 1
        /\ kstack'[s][Len(kstack[s]) + 1] = f
        /\ NestedOK' /\ BootFramesOK'
        /\ \A q \in Live :
             (/\ ContextOK(q) /\ stage'[q] = stage[q]
              /\ pcb'[q].curr_esp = pcb[q].curr_esp
              /\ f.kind = "execute" \/ f.pid # q) => ContextOK(q)'
    <3>1. kstack' = [kstack EXCEPT ![s] = Append(frames, f)] /\ s \in Stacks
      BY <1>5, <1>17, <2>0
    <3>2. f.back = "switch" =>
            /\ frames = kstack[s] /\ Len(frames) # 0
            /\ frames[Len(frames)].kind = "execute" =>
                 /\ frames[Len(frames)].pid = f.pid
                 /\ frames[Len(frames)].back = "launch"
      BY <2>1
    <3>3. /\ kstack' \in [Stacks -> Seq(Frame)]
          /\ Len(kstack'[s]) = Len(frames) + 1
          /\ kstack'[s][Len(frames) + 1] = f
          /\ NestedOK' /\ BootFramesOK'
          /\ \A q \in Live :
               (/\ ContextOK(q) /\ stage'[q] = stage[q]
                /\ pcb'[q].curr_esp = pcb[q].curr_esp
                /\ f.kind = "execute" \/ f.pid # q) => ContextOK(q)'
      BY <2>0, <2>1, <3>1, <3>2, PushKeepsFrames
    <3> QED BY <2>0, <3>3
  <2>3. \A q \in Live : stage'[q] = stage[q] /\ pcb'[q].curr_esp = pcb[q].curr_esp
    BY <1>4, <1>7, <1>8 DEF Live
  <2> QED BY <1>16, <2>2, <2>3
<1>19. /\ \A r \in Stacks : \A i \in 1 .. Len(kstack'[r]) :
            \/ r = s /\ i = Len(kstack[s]) + 1
            \/ i \in 1 .. Len(kstack[r]) /\ kstack'[r][i] = kstack[r][i]
  BY <1>5, <1>17, Same, Assumed, T!Push
<1>20. LaunchTypeOK' /\ T!TypeOK'
  <2>1. prog_count' \in [TERMS -> Nat] /\ memoryspace' \in [PIDS -> {0, 1}]
        /\ pcb_loc' \in [TERMS -> PIDS \cup {NULL}]
        /\ stage' \in [PIDS -> Stages]
    BY <1>3, <1>5, <1>7 DEF Stages
  <2>2. current_terminal' \in TERMS /\ cr3' \in Stacks /\ esp0' \in Stacks
        /\ running' \in Stacks /\ phase' \in Phases /\ pcb' \in [PIDS -> Pcb]
    BY <1>4, <1>5 DEF LInv, LaunchTypeOK, TypeOK, Phases
  <2>3. View' \in [PIDS -> Pcb]
    <3>1. View \in [PIDS -> Pcb]
      BY Same DEF LInv, T!CInv, T!IInv, T!TypeOK
    <3>2. \A q \in PIDS : View'[q] \in Pcb
      BY <1>13, <1>14, <3>1
    <3> QED BY <3>2 DEF View
  <2> QED BY <1>18, <2>1, <2>2, <2>3, Same DEF LaunchTypeOK, TypeOK, T!TypeOK
<1>21. T!PcbsOK'
  <2> SUFFICES ASSUME NEW q \in Live'
               PROVE  T!PcbOK(q)' /\ T!CallerOK(q)'
    BY <1>15 DEF T!PcbsOK
  <2>1. CASE q = p
    <3>1. T!PcbOK(p)'
      BY <1>5, <1>7, <1>14, Same DEF T!PcbOK, Pcb, Context
    <3>2. T!CallerOK(p)'
      <4>1. CASE Holds(kstack', [stack |-> BOOT, depth |-> 1], "execute", p)
        <5>1. 1 \in 1 .. Len(kstack'[BOOT]) /\ kstack'[BOOT][1].kind = "execute"
          BY <1>5, <1>18, <4>1, LenProperties DEF Holds
        <5>2. kstack'[BOOT][1].back = "launch"
          BY <1>18, <5>1 DEF BootFramesOK
        <5> QED BY <1>14, <5>2 DEF T!CallerOK
      <4>2. CASE ~ Holds(kstack', [stack |-> BOOT, depth |-> 1], "execute", p)
        BY <1>14, <4>2, Same DEF T!CallerOK
      <4> QED BY <4>1, <4>2
    <3> QED BY <2>1, <3>1, <3>2
  <2>2. CASE q # p
    <3>1. q \in Live /\ View'[q] = View[q]
      BY <1>9, <1>13, <2>2 DEF Live
    <3>2. T!PcbOK(q) /\ T!CallerOK(q)
      BY <3>1, Same DEF LInv, T!CInv, T!IInv, T!PcbsOK
    <3>3. T!PcbOK(q)'
      BY <3>1, <3>2 DEF T!PcbOK
    <3>4. T!CallerOK(q)'
      <4>1. PICK frames \in Seq(Frame) : frames = kstack[s]
        BY <1>5
      <4>2. View[q].esp \in Context
        BY <3>2, Same DEF T!PcbOK
      <4>3. /\ View'[q].esp = View[q].esp
            /\ View'[q].lastpcb_ptr = View[q].lastpcb_ptr
            /\ f.kind # "execute" \/ f.pid # q
        BY <1>16, <2>2, <3>1
      <4>4. kstack' = [kstack EXCEPT ![s] = Append(frames, f)]
        BY <1>17, <4>1
      <4>5. /\ kstack \in [T!Stacks -> Seq(T!Frame)] /\ s \in T!Stacks
            /\ frames \in Seq(T!Frame) /\ f \in T!Frame
            /\ View[q].esp \in T!Context
        BY <1>5, <4>1, <4>2, Same
      <4> QED BY <3>2, <4>1, <4>3, <4>4, <4>5, Assumed, T!PushKeepsCaller
    <3> QED BY <3>3, <3>4
  <2> QED BY <2>1, <2>2
<1>22. T!FramesOK'
  <2> SUFFICES ASSUME NEW r \in Stacks, NEW i \in 1 .. Len(kstack'[r])
               PROVE  T!FrameOK(r, i)'
    BY Same DEF T!FramesOK
  <2>1. CASE r = s /\ i = Len(kstack[s]) + 1
    BY <1>16, <1>18, <2>1 DEF T!FrameOK
  <2>2. CASE i \in 1 .. Len(kstack[r]) /\ kstack'[r][i] = kstack[r][i]
    <3>1. T!FrameOK(r, i)
      BY <2>2, Same DEF LInv, T!CInv, T!IInv, T!FramesOK
    <3> QED BY <2>2, <3>1 DEF T!FrameOK
  <2> QED BY <1>19, <2>1, <2>2
<1>23. T!EmptyOK'
  <2>1. ASSUME NEW u \in TERMS, prog_count'[u] = 0
        PROVE  pcb_loc'[u] = NULL
    <3>1. u # t /\ prog_count[u] = 0
      BY <1>3, <1>5, <2>1
    <3> QED BY <1>1, <1>10, <3>1, Same DEF LInv, T!CInv, T!IInv, T!EmptyOK
  <2>2. kstack'[s] # <<>>
    <3>1. Len(kstack[s]) \in Nat
      BY <1>5, LenProperties
    <3>2. Len(kstack'[s]) # 0
      BY <1>18, <3>1
    <3> QED BY <3>2
  <2> QED BY <1>4, <2>1, <2>2, Same DEF T!EmptyOK
<1>24. T!FirstOK'
  <2>1. ASSUME prog_count'[0] = 0 PROVE FALSE
    <3>1. t # 0 /\ prog_count[0] = 0
      BY <1>3, <1>5, <2>1
    <3> QED BY <1>1, <3>1 DEF LInv, T!CInv, T!FirstOK
  <2> QED BY <1>4, <2>1 DEF T!FirstOK
<1>25. T!CallersOK'
  <2> SUFFICES ASSUME NEW q \in Live', T!ReturnsTo(q)'
               PROVE  T!CallerFound(q)'
    BY <1>15 DEF T!CallersOK
  <2>1. CASE q = p
    <3>1. t = 0 /\ s = BOOT /\ kstack[s] = <<>>
      <4>1. t = 0
        BY <1>14, <2>1 DEF T!ReturnsTo
      <4> QED BY <1>1, <1>2, <1>4, <1>6, <4>1 DEF LInv, T!CInv, T!FirstOK
    <3>2. Len(kstack'[BOOT]) = 1 /\ kstack'[BOOT][1] = f
      BY <1>18, <3>1
    <3> QED BY <1>14, <1>16, <2>1, <3>2 DEF T!CallerFound, T!AtBottom
  <2>2. CASE q # p
    <3>1. q \in Live /\ View'[q] = View[q]
      BY <1>9, <1>13, <2>2 DEF Live
    <3>2. T!CallerFound(q) /\ View[q].esp.stack \in Stacks
      BY <1>4, <3>1, Same DEF LInv, T!CInv, T!CallersOK, T!ReturnsTo, T!IInv,
         T!PcbsOK, T!PcbOK, Context
    <3>3. T!KeepsBottom(kstack', kstack, View[q].esp.stack)
      <4>1. PICK frames \in Seq(Frame) : frames = kstack[s]
        BY <1>5
      <4> QED BY <1>5, <1>17, <3>2, <4>1, Same, Assumed, T!PushBottom
    <3> QED BY <3>1, <3>2, <3>3 DEF T!CallerFound, T!AtBottom, T!KeepsBottom
  <2> QED BY <2>1, <2>2
<1>26. T!CInv'
  <2>1. T!CurrentIsRunning'
    BY <1>4 DEF T!CurrentIsRunning
  <2> QED BY <1>15, <1>20, <1>21, <1>22, <1>23, <1>24, <1>25, <2>1
          DEF T!CInv, T!IInv
<1>27. ForegroundsLive'
  <2> SUFFICES ASSUME NEW u \in TERMS, prog_count'[u] # 0
               PROVE  pcb_loc'[u] \in Live'
    BY DEF ForegroundsLive
  <2>1. CASE u = t
    BY <1>9, <1>10, <2>1
  <2>2. CASE u # t
    BY <1>3, <1>5, <1>9, <1>10, <2>2 DEF LInv, ForegroundsLive
  <2> QED BY <2>1, <2>2
<1>28. WrittenOK'
  <2> SUFFICES ASSUME NEW q \in PIDS
               PROVE  /\ pcb[q].curr_pd \in {q, NULL}
                      /\ pcb[q].curr_pd # NULL => pcb[q].curr_esp # NULL
                      /\ stage'[q] \in {"saved", "loaded"} => pcb[q].curr_pd = NULL
                      /\ stage'[q] = "ready" => pcb[q].curr_pd = q
                      /\ stage'[q] \in {"saved", "loaded", "ready"} =>
                           /\ pcb[q].lastpcb_ptr = q
                           /\ pcb[q].esp \in Context
                           /\ pcb[q].pagedir \in Stacks
    BY <1>4 DEF WrittenOK
  <2> QED BY <1>8 DEF LInv, WrittenOK
<1>29. Top' = f
  BY <1>4, <1>18 DEF Top
<1>30. LaunchingOK'
  <2>1. Foreground' = p
    BY <1>4, <1>10 DEF Foreground
  <2> QED BY <1>8, <1>16, <1>29, <2>1 DEF LaunchingOK
<1>31. ContextsOK'
  <2> SUFFICES ASSUME NEW q \in Live', ~ (Launching' /\ Top'.pid = q)
               PROVE  ContextOK(q)'
    BY DEF ContextsOK
  <2>1. Launching'
    BY <1>4, <1>16, <1>23, <1>29 DEF Launching, T!EmptyOK
  <2>2. q \in Live
    BY <1>9, <1>16, <1>29, <2>1
  <2>3. ContextOK(q)
    BY <1>4, <2>2 DEF LInv, ContextsOK
  <2> QED BY <1>18, <2>2, <2>3
<1>32. BootOK'
  <2>1. CASE t = 0
    <3>1. phase = "boot"
      BY <1>1, <1>4, <1>6, <2>1 DEF LInv, T!CInv, T!FirstOK
    <3>2. cr3 = BOOT /\ s = BOOT /\ kstack[s] = <<>>
      BY <1>1, <1>2, <2>1, <3>1 DEF LInv, BootOK, T!CInv, T!FirstOK
    <3>3. Len(kstack'[BOOT]) = 1
      BY <1>18, <3>2
    <3> QED BY <1>4, <2>1, <3>2, <3>3 DEF BootOK
  <2>2. CASE t # 0
    <3>1. FirstNamed' => FirstNamed
      BY <1>8, <1>10, <2>2 DEF FirstNamed, TERMS
    <3>2. ~ FirstNamed
      BY <1>4, NotFirst DEF LInv, BootOK
    <3> QED BY <1>4, <3>1, <3>2 DEF BootOK
  <2> QED BY <2>1, <2>2
<1> QED BY <1>12, <1>18, <1>20, <1>26, <1>27, <1>28, <1>30, <1>31, <1>32 DEF LInv

(* The execute that goes on is the only one of the terminal on the screen.  *)
LEMMA GoesOn ==
  ASSUME LInv, Launching, Foreground # NULL
  PROVE  /\ Foreground \in PIDS /\ Foreground \in Live /\ phase = "switch"
         /\ stage[Foreground] # "done" /\ Home(Foreground) = current_terminal
         /\ View[Foreground] = Finished(Foreground)
         /\ Top.pid = Foreground /\ Top.back = "launch" /\ Top.kind = "execute"
         /\ current_terminal \in TERMS
         /\ pcb_loc[current_terminal] = Foreground
         /\ prog_count[current_terminal] # 0
<1>1. PICK f : f = Foreground
  OBVIOUS
<1>2. /\ f \in PIDS /\ current_terminal \in TERMS /\ phase = "switch"
      /\ pcb_loc[current_terminal] = f
  BY <1>1 DEF LInv, LaunchTypeOK, TypeOK, Foreground, Launching
<1>3. stage[f] # "done" /\ Top.pid = f /\ Top.back = "launch"
      /\ Top.kind = "execute"
  BY <1>1 DEF LInv, LaunchingOK, Launching
<1>4. Home(f) = current_terminal /\ f \in Live
  BY <1>2, <1>3, HomeIs DEF LInv
<1>5. prog_count[current_terminal] # 0
  BY <1>2, Assumed, Same DEF LInv, T!CInv, T!IInv, T!EmptyOK, PIDS
<1>6. View[f] = Finished(f)
  BY <1>2, <1>3, ViewOf
<1> QED BY <1>1, <1>2, <1>3, <1>4, <1>5, <1>6

(* Writing a PCB leaves the View its chains and frames, if it leaves the    *)
(* parent, the terminal and the frame to return to.                         *)
LEMMA WrittenView ==
  ASSUME LInv, Launching, NEW f, f = Foreground, f # NULL,
         UNCHANGED <<current_terminal, prog_count, memoryspace, pcb_loc, kstack>>,
         View' \in [PIDS -> Pcb],
         \A q \in PIDS \ {f} : View'[q] = View[q],
         T!PcbOK(f)',
         View'[f].lastpcb_ptr = f, View'[f].term_num = current_terminal,
         \/ View'[f].esp = View[f].esp
         \/ /\ current_terminal # 0
            /\ View'[f].esp = [stack |-> running, depth |-> Len(kstack[running])],
         cr3' \in Stacks, esp0' \in Stacks,
         \/ phase' = "switch" /\ running' = running
         \/ phase' = "user" /\ running' = f /\ esp0' = f /\ cr3' = f
  PROVE  T!CInv'
<1>1. /\ f \in PIDS /\ f \in Live /\ phase = "switch" /\ Top.pid = f
      /\ Top.back = "launch" /\ View[f] = Finished(f)
      /\ Home(f) = current_terminal /\ current_terminal \in TERMS
      /\ prog_count[current_terminal] # 0
  BY GoesOn
<1>2. View[f].lastpcb_ptr = f /\ View[f].term_num = current_terminal
  BY <1>1 DEF Finished
<1>3. \A q \in PIDS : /\ View'[q].lastpcb_ptr = View[q].lastpcb_ptr
                      /\ View'[q].term_num = View[q].term_num
  BY <1>2
<1>4. T!Live' = T!Live /\ T!Live \subseteq PIDS
  BY Same DEF T!Live
<1>5. /\ T!TypeOK /\ T!Accounting /\ T!Limit /\ T!PcbsOK /\ T!ChainOK
      /\ T!FramesOK /\ T!EmptyOK /\ T!CallersOK /\ T!FirstOK
  BY DEF LInv, T!CInv, T!IInv
<1>6. T!TypeOK'
  <2>1. f \in T!Stacks /\ {"switch", "user"} \subseteq T!Phases
    BY <1>1, Same DEF Stacks, Phases
  <2> QED BY <1>5, <2>1, Same DEF T!TypeOK
<1>7. T!Accounting' /\ T!Limit'
  <2>1. \A t : T!InTerminal(t)' = T!InTerminal(t)
    BY <1>3, <1>4 DEF T!InTerminal
  <2>2. T!Accounting'
    BY <1>5, <2>1 DEF T!Accounting
  <2>3. T!Limit'
    BY <1>5 DEF T!Limit, T!TaskCount
  <2> QED BY <2>2, <2>3
<1>8. T!ChainOK'
  <2>1. PICK d \in [T!PIDS -> T!PIDS] : T!Levels(d) /\ T!ForegroundOK(d)
    BY <1>5 DEF T!ChainOK
  <2>2. T!Levels(d)'
    <3>1. /\ \A q \in T!Live : View'[q].lastpcb_ptr = View[q].lastpcb_ptr
                               /\ View'[q].term_num = View[q].term_num
          /\ \A q \in T!Live : View[q].lastpcb_ptr # q =>
               View'[View[q].lastpcb_ptr].term_num
                 = View[View[q].lastpcb_ptr].term_num
      <4>1. \A q \in T!Live : View[q].lastpcb_ptr \in PIDS
        BY <1>5, Same DEF T!PcbsOK, T!PcbOK
      <4> QED BY <1>3, <1>4, <4>1
    <3> QED BY <1>4, <2>1, <3>1 DEF T!Levels
  <2>3. T!ForegroundOK(d)'
    <3>1. \A u \in T!TERMS : prog_count[u] # 0 => pcb_loc[u] \in PIDS
      BY <1>1, <1>4, <2>1 DEF T!ForegroundOK
    <3> QED BY <1>1, <1>3, <1>4, <2>1, <3>1 DEF T!ForegroundOK
  <2> QED BY <2>1, <2>2, <2>3 DEF T!ChainOK
<1>9. T!FramesOK'
  BY <1>5 DEF T!FramesOK, T!FrameOK
<1>10. T!EmptyOK'
  BY <1>1, <1>5 DEF T!EmptyOK
<1>11. T!CurrentIsRunning' /\ T!FirstOK'
  <2>1. T!CurrentIsRunning'
    BY <1>1, Same DEF T!CurrentIsRunning, T!Live, T!Foreground, Live, Foreground
  <2> QED BY <1>1, <1>5, <2>1 DEF T!FirstOK
<1>12. T!PcbsOK'
  <2> SUFFICES ASSUME NEW q \in T!Live
               PROVE  T!PcbOK(q)' /\ T!CallerOK(q)'
    BY <1>4 DEF T!PcbsOK
  <2>1. T!PcbOK(q) /\ T!CallerOK(q)
    BY <1>5 DEF T!PcbsOK
  <2>2. CASE q # f
    <3>1. View'[q] = View[q]
      BY <1>4, <2>2
    <3> QED BY <2>1, <3>1 DEF T!PcbOK, T!CallerOK
  <2>3. CASE q = f /\ View'[f].esp = View[f].esp
    BY <1>2, <2>1, <2>3 DEF T!CallerOK
  <2>4. CASE q = f
             /\ View'[f].esp = [stack |-> running, depth |-> Len(kstack[running])]
    <3>1. kstack[running][Len(kstack[running])].back = "launch"
      BY <1>1 DEF Top
    <3> QED BY <2>4, <3>1 DEF T!CallerOK
  <2> QED BY <2>2, <2>3, <2>4
<1>13. T!CallersOK'
  <2> SUFFICES ASSUME NEW q \in T!Live, T!ReturnsTo(q)'
               PROVE  T!CallerFound(q)'
    BY <1>4 DEF T!CallersOK
  <2>1. T!ReturnsTo(q) /\ View'[q].esp = View[q].esp
    <3>1. CASE q = f
      BY <1>2, <3>1 DEF T!ReturnsTo
    <3>2. CASE q # f
      BY <1>4, <3>2 DEF T!ReturnsTo
    <3> QED BY <3>1, <3>2
  <2>2. T!CallerFound(q)
    BY <1>1, <1>5, <2>1 DEF T!CallersOK
  <2>3. View'[q].lastpcb_ptr = View[q].lastpcb_ptr
    BY <1>3, <1>4
  <2> QED BY <2>1, <2>2, <2>3 DEF T!CallerFound, T!AtBottom
<1> QED BY <1>6, <1>7, <1>8, <1>9, <1>10, <1>11, <1>12, <1>13 DEF T!CInv, T!IInv

(* What execute writes on its way: into its own PCB, and its own directory  *)
(* and stack into CR3 and the TSS.                                          *)
LEMMA WriteKeeps ==
  ASSUME LInv, Launching, NEW f, f = Foreground, f # NULL,
         NEW st \in {"saved", "loaded", "ready"},
         UNCHANGED <<current_terminal, prog_count, memoryspace, pcb_loc, running,
                     kstack, phase>>,
         stage' = [stage EXCEPT ![f] = st],
         pcb' \in [PIDS -> Pcb], \A q \in PIDS \ {f} : pcb'[q] = pcb[q],
         pcb'[f].lastpcb_ptr = f, pcb'[f].esp \in Context,
         pcb'[f].pagedir \in Stacks,
         IF st = "ready" THEN pcb'[f].curr_pd = f /\ pcb'[f].curr_esp # NULL
                         ELSE pcb'[f].curr_pd = NULL,
         \/ pcb'[f].esp = View[f].esp
         \/ /\ current_terminal # 0
            /\ pcb'[f].esp = [stack |-> running, depth |-> Len(kstack[running])],
         cr3' \in Stacks, esp0' \in Stacks,
         st \in {"loaded", "ready"} => esp0' = f /\ cr3' = f,
         st = "ready" => ~ Holds(kstack, pcb'[f].curr_esp, "switch", f)
  PROVE  LInv'
<1>1. /\ f \in PIDS /\ f \in Live /\ phase = "switch" /\ stage[f] # "done"
      /\ Top.pid = f /\ Top.back = "launch" /\ View[f] = Finished(f)
      /\ Home(f) = current_terminal /\ current_terminal \in TERMS
      /\ pcb_loc[current_terminal] = f
  BY GoesOn
<1>2. stage \in [PIDS -> Stages] /\ st \in Stages
  BY DEF LInv, LaunchTypeOK, Stages
<1>3. /\ stage'[f] = st /\ st # "done" /\ st # "named"
      /\ \A q \in PIDS \ {f} : stage'[q] = stage[q]
      /\ stage' \in [PIDS -> Stages]
  BY <1>1, <1>2
<1>4. Live' = Live /\ \A q \in PIDS : Home(q)' = Home(q)
  BY DEF Live, Home
<1>5. /\ \A q \in PIDS \ {f} : View'[q] = View[q]
      /\ View'[f] = Finished(f)'
  BY <1>1, <1>3, <1>4 DEF View, Finished
<1>6. /\ View'[f].lastpcb_ptr = f /\ View'[f].esp = pcb'[f].esp
      /\ View'[f].pagedir = pcb'[f].pagedir
      /\ View'[f].curr_pd = f /\ View'[f].term_num = current_terminal
      /\ View'[f].curr_esp \in Context
      /\ View'[f] \in Pcb
  <2>1. PICK n : n = IF pcb'[f].curr_esp = NULL THEN [stack |-> f, depth |-> 0]
                                                ELSE pcb'[f].curr_esp
    OBVIOUS
  <2>2. View'[f] = [lastpcb_ptr |-> f, esp |-> pcb'[f].esp,
                    pagedir |-> pcb'[f].pagedir, curr_esp |-> n,
                    curr_pd |-> f, term_num |-> current_terminal]
    BY <1>1, <1>3, <1>4, <1>5, <2>1 DEF Finished
  <2>3. n \in Context /\ f \in Stacks
    <3>1. f \in Stacks /\ [stack |-> f, depth |-> 0] \in Context
      BY <1>1 DEF Context, Stacks
    <3>2. pcb'[f].curr_esp \in Context \cup {NULL}
      BY <1>1 DEF Pcb
    <3> QED BY <2>1, <3>1, <3>2
  <2>4. View'[f] \in Pcb
    BY <1>1, <2>2, <2>3 DEF Pcb
  <2> QED BY <2>2, <2>3, <2>4
<1>7. View' \in [PIDS -> Pcb]
  <2>1. \A q \in PIDS \ {f} : View[q] \in Pcb
    BY Same DEF LInv, T!CInv, T!IInv, T!TypeOK
  <2>2. \A q \in PIDS : View'[q] \in Pcb
    BY <1>5, <1>6, <2>1
  <2> QED BY <2>2 DEF View
<1>8. T!CInv'
  <2>1. T!PcbOK(f)'
    BY <1>1, <1>6, Same DEF T!PcbOK
  <2>2. phase' = "switch" /\ running' = running
    BY <1>1
  <2>3. \/ View'[f].esp = View[f].esp
        \/ /\ current_terminal # 0
           /\ View'[f].esp = [stack |-> running, depth |-> Len(kstack[running])]
    BY <1>6
  <2> QED BY <1>5, <1>6, <1>7, <2>1, <2>2, <2>3, WrittenView
<1>9. LaunchTypeOK'
  BY <1>3 DEF LInv, LaunchTypeOK, TypeOK
<1>10. UnfinishedOK'
  <2> SUFFICES ASSUME NEW q \in PIDS, stage'[q] # "done"
               PROVE  /\ q \in Live
                      /\ \E t \in TERMS :
                           /\ pcb_loc[t] = q
                           /\ \A u \in TERMS : pcb_loc[u] = q => u = t
    BY <1>1, <1>4 DEF UnfinishedOK
  <2>1. stage[q] # "done"
    BY <1>1, <1>3
  <2> QED BY <2>1 DEF LInv, UnfinishedOK
<1>11. ForegroundsLive'
  BY <1>4 DEF LInv, ForegroundsLive
<1>12. WrittenOK'
  <2> SUFFICES ASSUME NEW q \in PIDS
               PROVE  /\ pcb'[q].curr_pd \in {q, NULL}
                      /\ pcb'[q].curr_pd # NULL => pcb'[q].curr_esp # NULL
                      /\ stage'[q] \in {"saved", "loaded"} => pcb'[q].curr_pd = NULL
                      /\ stage'[q] = "ready" => pcb'[q].curr_pd = q
                      /\ stage'[q] \in {"saved", "loaded", "ready"} =>
                           /\ pcb'[q].lastpcb_ptr = q
                           /\ pcb'[q].esp \in Context
                           /\ pcb'[q].pagedir \in Stacks
    BY DEF WrittenOK
  <2>1. CASE q = f
    BY <1>3, <2>1
  <2>2. CASE q # f
    BY <1>3, <2>2 DEF LInv, WrittenOK
  <2> QED BY <2>1, <2>2
<1>13. NestedOK' /\ BootFramesOK'
  BY DEF LInv, NestedOK, BootFramesOK
<1>14. Launching' = Launching /\ Top' = Top /\ Foreground' = Foreground
  BY DEF Launching, Top, Foreground
<1>15. LaunchingOK'
  BY <1>1, <1>3, <1>14 DEF LaunchingOK
<1>16. ContextsOK'
  <2> SUFFICES ASSUME NEW q \in Live, q # f
               PROVE  ContextOK(q)'
    BY <1>1, <1>4, <1>14 DEF ContextsOK
  <2>1. ContextOK(q)
    BY <1>1 DEF LInv, ContextsOK
  <2> QED BY <1>3, <2>1 DEF ContextOK, Live
<1>17. BootOK'
  <2>1. ASSUME FirstNamed' PROVE FALSE
    <3>1. pcb_loc[0] \in PIDS /\ pcb_loc[0] # f /\ FirstNamed
      BY <1>1, <1>3, <2>1 DEF FirstNamed
    <3>2. current_terminal = 0
      BY <1>1, <3>1 DEF LInv, BootOK
    <3> QED BY <1>1, <3>1, <3>2
  <2> QED BY <1>1, <2>1 DEF BootOK
<1> QED BY <1>8, <1>9, <1>10, <1>11, <1>12, <1>13, <1>15, <1>16, <1>17 DEF LInv

LEMMA SaveKeeps ==
  ASSUME LInv, LaunchSave
  PROVE  LInv'
<1>1. PICK f : f = Foreground
  OBVIOUS
<1>2. /\ Launching /\ f # NULL /\ stage[Top.pid] = "named"
      /\ pcb' = [pcb EXCEPT ![f] = SavedPcb(f)]
      /\ stage' = [stage EXCEPT ![Top.pid] = "saved"]
      /\ UNCHANGED <<current_terminal, prog_count, memoryspace, pcb_loc, cr3,
                     esp0, running, kstack, phase>>
  BY <1>1 DEF LaunchSave, At, Reached
<1>3. /\ f \in PIDS /\ phase = "switch" /\ Top.pid = f
      /\ View[f] = Finished(f) /\ pcb_loc[current_terminal] = f
      /\ cr3 \in Stacks /\ esp0 \in Stacks /\ pcb \in [PIDS -> Pcb]
  BY <1>1, <1>2, GoesOn DEF LInv, LaunchTypeOK, TypeOK
<1>4. PICK c : c = [stack |-> running, depth |-> Len(kstack[running])]
  OBVIOUS
<1>5. c \in Context
  BY <1>3, <1>4, TopFrame DEF Context
<1>6. SavedPcb(f) = [lastpcb_ptr |-> f, esp |-> c, pagedir |-> cr3,
                     curr_esp |-> NULL, curr_pd |-> NULL, term_num |-> NULL]
  BY <1>4 DEF SavedPcb
<1>7. SavedPcb(f) \in Pcb
  BY <1>3, <1>5, <1>6 DEF Pcb
<1>8. /\ pcb' \in [PIDS -> Pcb] /\ \A q \in PIDS \ {f} : pcb'[q] = pcb[q]
      /\ pcb'[f] = SavedPcb(f)
  BY <1>2, <1>3, <1>7
<1>9. /\ pcb'[f].lastpcb_ptr = f /\ pcb'[f].esp = c /\ pcb'[f].pagedir = cr3
      /\ pcb'[f].curr_pd = NULL
  BY <1>6, <1>8
<1>10. pcb'[f].esp = View[f].esp \/ current_terminal # 0
  <2> SUFFICES ASSUME current_terminal = 0 PROVE c = View[f].esp
    BY <1>9
  <2>1. FirstNamed
    BY <1>2, <1>3 DEF FirstNamed
  <2>2. running = BOOT /\ Len(kstack[BOOT]) = 1
    BY <1>3, <2>1 DEF LInv, BootOK
  <2> QED BY <1>2, <1>3, <1>4, <2>2 DEF Finished
<1> QED BY <1>1, <1>2, <1>3, <1>4, <1>5, <1>8, <1>9, <1>10, WriteKeeps

LEMMA LoadKeeps ==
  ASSUME LInv, LaunchLoad
  PROVE  LInv'
<1>1. PICK f : f = Foreground
  OBVIOUS
<1>2. /\ Launching /\ f # NULL /\ stage[Top.pid] = "saved"
      /\ stage' = [stage EXCEPT ![Top.pid] = "loaded"]
      /\ cr3' = f /\ esp0' = f
      /\ UNCHANGED <<current_terminal, prog_count, memoryspace, pcb_loc, pcb,
                     running, kstack, phase>>
  BY <1>1 DEF LaunchLoad, At, Reached, ProgInit
<1>3. /\ f \in PIDS /\ Top.pid = f /\ f \in Stacks
      /\ View[f] = Finished(f) /\ pcb' \in [PIDS -> Pcb]
  BY <1>1, <1>2, GoesOn DEF LInv, LaunchTypeOK, TypeOK, Stacks
<1>4. /\ pcb'[f].lastpcb_ptr = f /\ pcb'[f].esp \in Context
      /\ pcb'[f].pagedir \in Stacks /\ pcb'[f].curr_pd = NULL
  BY <1>2, <1>3 DEF LInv, WrittenOK
<1>5. pcb'[f].esp = View[f].esp
  BY <1>2, <1>3 DEF Finished
<1> QED BY <1>1, <1>2, <1>3, <1>4, <1>5, WriteKeeps

LEMMA ContextKeeps ==
  ASSUME LInv, LaunchContext
  PROVE  LInv'
<1>1. PICK f : f = Foreground
  OBVIOUS
<1>2. PICK c : c = [stack |-> f, depth |-> 0]
  OBVIOUS
<1>3. /\ Launching /\ f # NULL /\ stage[Top.pid] = "loaded"
      /\ pcb' = [pcb EXCEPT ![f].curr_pd = cr3, ![f].curr_esp = c]
      /\ stage' = [stage EXCEPT ![Top.pid] = "ready"]
      /\ UNCHANGED <<current_terminal, prog_count, memoryspace, pcb_loc, cr3,
                     esp0, running, kstack, phase>>
  BY <1>1, <1>2 DEF LaunchContext, At, Reached
<1>4. /\ f \in PIDS /\ Top.pid = f /\ f \in Stacks
      /\ View[f] = Finished(f) /\ pcb \in [PIDS -> Pcb]
      /\ kstack \in [Stacks -> Seq(Frame)]
  BY <1>1, <1>3, GoesOn DEF LInv, LaunchTypeOK, TypeOK, Stacks
<1>5. cr3 = f /\ esp0 = f
  BY <1>1, <1>3, <1>4 DEF LInv, LaunchingOK
<1>6. c \in Context /\ c # NULL /\ c.stack = f /\ c.depth = 0
  BY <1>2, <1>4, ContextAssumption DEF Context
<1>7. /\ \A q \in PIDS \ {f} : pcb'[q] = pcb[q]
      /\ pcb'[f] = [pcb[f] EXCEPT !.curr_pd = f, !.curr_esp = c]
      /\ [pcb[f] EXCEPT !.curr_pd = f, !.curr_esp = c] \in Pcb
  <2>1. [pcb[f] EXCEPT !.curr_pd = f, !.curr_esp = c] \in Pcb
    BY <1>4, <1>6 DEF Pcb
  <2> QED BY <1>3, <1>4, <1>5, <2>1
<1>8. pcb' \in [PIDS -> Pcb] /\ \A q \in PIDS \ {f} : pcb'[q] = pcb[q]
  BY <1>3, <1>4, <1>5, <1>7
<1>9. /\ pcb'[f].lastpcb_ptr = pcb[f].lastpcb_ptr /\ pcb'[f].esp = pcb[f].esp
      /\ pcb'[f].pagedir = pcb[f].pagedir
      /\ pcb'[f].curr_pd = f /\ pcb'[f].curr_esp = c
  BY <1>4, <1>7 DEF Pcb
<1>10. /\ pcb[f].lastpcb_ptr = f /\ pcb[f].esp \in Context
       /\ pcb[f].pagedir \in Stacks
  BY <1>3, <1>4 DEF LInv, WrittenOK
<1>11. pcb[f].esp = View[f].esp
  BY <1>3, <1>4 DEF Finished
<1>12. ~ Holds(kstack, c, "switch", f)
  <2>1. DOMAIN kstack[f] = 1 .. Len(kstack[f])
    BY <1>4, LenProperties
  <2>2. 0 \notin DOMAIN kstack[f]
    BY <2>1
  <2> QED BY <1>6, <2>2 DEF Holds
<1>13. /\ stage' = [stage EXCEPT ![f] = "ready"] /\ Launching /\ f # NULL
       /\ UNCHANGED <<current_terminal, prog_count, memoryspace, pcb_loc, running,
                      kstack, phase>>
       /\ cr3' = f /\ esp0' = f /\ cr3' \in Stacks /\ esp0' \in Stacks
  BY <1>3, <1>4, <1>5
<1>14. /\ pcb'[f].lastpcb_ptr = f /\ pcb'[f].esp \in Context
       /\ pcb'[f].pagedir \in Stacks /\ pcb'[f].esp = View[f].esp
       /\ pcb'[f].curr_pd = f /\ pcb'[f].curr_esp # NULL
       /\ ~ Holds(kstack, pcb'[f].curr_esp, "switch", f)
  BY <1>6, <1>9, <1>10, <1>11, <1>12
<1> QED BY <1>1, <1>8, <1>13, <1>14, WriteKeeps

(* The iret of execute: the PCB is now what the View had for it.            *)
LEMMA EndKeeps ==
  ASSUME LInv, LaunchEnd
  PROVE  LInv'
<1>1. PICK f : f = Foreground
  OBVIOUS
<1>2. PICK t : t = current_terminal
  OBVIOUS
<1>3. /\ Launching /\ f # NULL /\ stage[Top.pid] = "ready"
      /\ pcb' = [pcb EXCEPT ![f].term_num = t]
      /\ stage' = [stage EXCEPT ![Top.pid] = "done"]
      /\ running' = f /\ phase' = "user"
      /\ UNCHANGED <<current_terminal, prog_count, memoryspace, pcb_loc, cr3,
                     esp0, kstack>>
  BY <1>1, <1>2 DEF LaunchEnd, At, Reached
<1>4. /\ f \in PIDS /\ f \in Live /\ Top.pid = f /\ phase = "switch"
      /\ View[f] = Finished(f) /\ Home(f) = t /\ t \in TERMS
      /\ pcb_loc[t] = f /\ f \in Stacks
      /\ pcb \in [PIDS -> Pcb] /\ stage \in [PIDS -> Stages]
      /\ cr3 \in Stacks /\ esp0 \in Stacks
  BY <1>1, <1>2, <1>3, GoesOn DEF LInv, LaunchTypeOK, TypeOK, Stacks
<1>5. /\ cr3 = f /\ esp0 = f
      /\ ~ Holds(kstack, pcb[f].curr_esp, "switch", f)
  BY <1>1, <1>3, <1>4 DEF LInv, LaunchingOK
<1>6. /\ pcb[f].lastpcb_ptr = f /\ pcb[f].esp \in Context
      /\ pcb[f].pagedir \in Stacks /\ pcb[f].curr_pd = f
      /\ pcb[f].curr_esp # NULL
  BY <1>3, <1>4, Assumed DEF LInv, WrittenOK, PIDS
<1>7. /\ stage'[f] = "done" /\ stage[f] = "ready"
      /\ \A q \in PIDS \ {f} : stage'[q] = stage[q]
      /\ stage' \in [PIDS -> Stages]
  BY <1>3, <1>4 DEF Stages
<1>8. /\ \A q \in PIDS \ {f} : pcb'[q] = pcb[q]
      /\ pcb'[f] = [pcb[f] EXCEPT !.term_num = t]
      /\ pcb' \in [PIDS -> Pcb]
  <2>1. [pcb[f] EXCEPT !.term_num = t] \in Pcb
    BY <1>4 DEF Pcb
  <2> QED BY <1>3, <1>4, <2>1
<1>9. /\ pcb'[f].lastpcb_ptr = f /\ pcb'[f].esp = pcb[f].esp
      /\ pcb'[f].pagedir = pcb[f].pagedir
      /\ pcb'[f].curr_pd = f /\ pcb'[f].curr_esp = pcb[f].curr_esp
      /\ pcb'[f].term_num = t
  BY <1>4, <1>6, <1>8 DEF Pcb
<1>10. Live' = Live /\ \A q \in PIDS : Home(q)' = Home(q)
  BY <1>3 DEF Live, Home
<1>11. /\ \A q \in PIDS \ {f} : View'[q] = View[q]
       /\ View'[f] = pcb'[f]
  BY <1>4, <1>7, <1>8, <1>10 DEF View, Finished
<1>12. T!CInv'
  <2>1. View' \in [PIDS -> Pcb]
    <3>1. \A q \in PIDS \ {f} : View[q] \in Pcb
      BY Same DEF LInv, T!CInv, T!IInv, T!TypeOK
    <3>2. \A q \in PIDS : View'[q] \in Pcb
      BY <1>4, <1>8, <1>11, <3>1
    <3> QED BY <3>2 DEF View
  <2>2. pcb[f].curr_esp \in Context
    BY <1>4, <1>6 DEF Pcb
  <2>3. T!PcbOK(f)'
    BY <1>4, <1>6, <1>9, <1>11, <2>2, Same DEF T!PcbOK
  <2>4. View'[f].esp = View[f].esp /\ View'[f].lastpcb_ptr = f
        /\ View'[f].term_num = current_terminal
    BY <1>2, <1>4, <1>7, <1>9, <1>11 DEF Finished
  <2>5. /\ cr3' \in Stacks /\ esp0' \in Stacks /\ phase' = "user"
        /\ running' = f /\ esp0' = f /\ cr3' = f
        /\ UNCHANGED <<current_terminal, prog_count, memoryspace, pcb_loc, kstack>>
    BY <1>3, <1>4, <1>5
  <2> QED BY <1>1, <1>3, <1>11, <2>1, <2>3, <2>4, <2>5, WrittenView
<1>13. LaunchTypeOK'
  BY <1>3, <1>4, <1>7, <1>8 DEF LInv, LaunchTypeOK, TypeOK, Phases
<1>14. UnfinishedOK'
  <2> SUFFICES ASSUME NEW q \in PIDS, stage'[q] # "done"
               PROVE  /\ q \in Live
                      /\ \E u \in TERMS :
                           /\ pcb_loc[u] = q
                           /\ \A v \in TERMS : pcb_loc[v] = q => v = u
                           /\ u # t
    BY <1>2, <1>3, <1>10 DEF UnfinishedOK
  <2>1. stage[q] # "done" /\ q # f
    BY <1>7
  <2> QED BY <1>4, <2>1 DEF LInv, UnfinishedOK
<1>15. ForegroundsLive'
  BY <1>3, <1>10 DEF LInv, ForegroundsLive
<1>16. WrittenOK'
  <2> SUFFICES ASSUME NEW q \in PIDS
               PROVE  /\ pcb'[q].curr_pd \in {q, NULL}
                      /\ pcb'[q].curr_pd # NULL => pcb'[q].curr_esp # NULL
                      /\ stage'[q] \in {"saved", "loaded"} => pcb'[q].curr_pd = NULL
                      /\ stage'[q] = "ready" => pcb'[q].curr_pd = q
                      /\ stage'[q] \in {"saved", "loaded", "ready"} =>
                           /\ pcb'[q].lastpcb_ptr = q
                           /\ pcb'[q].esp \in Context
                           /\ pcb'[q].pagedir \in Stacks
    BY DEF WrittenOK
  <2>1. CASE q = f
    BY <1>6, <1>7, <1>9, <2>1
  <2>2. CASE q # f
    BY <1>7, <1>8, <2>2 DEF LInv, WrittenOK
  <2> QED BY <2>1, <2>2
<1>17. NestedOK' /\ BootFramesOK'
  BY <1>3 DEF LInv, NestedOK, BootFramesOK
<1>18. LaunchingOK'
  BY <1>3 DEF LaunchingOK, Launching
<1>19. ContextsOK'
  <2> SUFFICES ASSUME NEW q \in Live PROVE ContextOK(q)'
    BY <1>10 DEF ContextsOK
  <2>1. CASE q = f
    BY <1>3, <1>5, <1>9, <2>1 DEF ContextOK
  <2>2. CASE q # f
    <3>1. ContextOK(q)
      BY <1>4, <2>2 DEF LInv, ContextsOK
    <3>2. q \in PIDS
      BY DEF Live
    <3> QED BY <1>3, <1>7, <1>8, <2>2, <3>1, <3>2 DEF ContextOK
  <2> QED BY <2>1, <2>2
<1>20. BootOK'
  <2>1. ASSUME FirstNamed' PROVE FALSE
    <3>1. pcb_loc[0] # f /\ FirstNamed
      BY <1>3, <1>7, <2>1 DEF FirstNamed
    <3>2. t = 0
      BY <1>2, <1>4, <3>1 DEF LInv, BootOK
    <3> QED BY <1>4, <3>1, <3>2
  <2> QED BY <1>3, <2>1 DEF BootOK
<1> QED BY <1>12, <1>13, <1>14, <1>15, <1>16, <1>17, <1>18, <1>19, <1>20 DEF LInv

(* A null CR3.                                                              *)
LEMMA UnreadyKeeps ==
  ASSUME LInv, ResumeUnready
  PROVE  LInv'
<1>1. /\ phase = "switch" /\ phase' = "wild"
      /\ UNCHANGED <<current_terminal, prog_count, memoryspace, pcb_loc, pcb,
                     cr3, esp0, running, kstack, stage>>
  BY DEF ResumeUnready
<1>2. View' = View
  BY <1>1 DEF View, Finished, Home
<1>3. T!CInv'
  <2>1. /\ T!TypeOK /\ T!Accounting /\ T!Limit /\ T!PcbsOK /\ T!ChainOK
        /\ T!FramesOK /\ T!EmptyOK /\ T!FirstOK
    BY DEF LInv, T!CInv, T!IInv
  <2>2. T!TypeOK'
    BY <1>1, <1>2, <2>1 DEF T!TypeOK, T!Phases
  <2>3. T!Accounting' /\ T!Limit'
    BY <1>1, <1>2, <2>1 DEF T!Accounting, T!InTerminal, T!Live, T!Limit,
                            T!TaskCount
  <2>4. T!PcbsOK' /\ T!FramesOK'
    BY <1>1, <1>2, <2>1 DEF T!PcbsOK, T!PcbOK, T!CallerOK, T!Live, T!FramesOK,
                            T!FrameOK
  <2>5. T!ChainOK'
    <3>1. PICK d \in [T!PIDS -> T!PIDS] : T!Levels(d)
      BY <2>1 DEF T!ChainOK
    <3>2. T!Levels(d)' /\ T!ForegroundOK(d)'
      BY <1>1, <1>2, <3>1 DEF T!Levels, T!Live, T!ForegroundOK
    <3> QED BY <3>1, <3>2 DEF T!ChainOK
  <2>6. T!EmptyOK' /\ T!CurrentIsRunning'
    BY <1>1, <2>1 DEF T!EmptyOK, T!CurrentIsRunning
  <2>7. T!CallersOK' /\ T!FirstOK'
    BY <1>1, <2>1 DEF T!CallersOK, T!FirstOK
  <2> QED BY <2>2, <2>3, <2>4, <2>5, <2>6, <2>7 DEF T!CInv, T!IInv
<1> QED BY <1>1, <1>3, LostKeeps
-----------------------------------------------------------------------------
LEMMA InitLInv == LaunchInit => LInv
<1> SUFFICES ASSUME LaunchInit PROVE LInv
  OBVIOUS
<1>1. Init /\ stage = [p \in PIDS |-> "done"]
  BY DEF LaunchInit
<1>2. View = pcb
  BY <1>1 DEF View, Init
<1>3. T!CInv
  <2>1. T!Init
    BY <1>1, <1>2, Same DEF Init, T!Init
  <2> QED BY <2>1, Assumed, T!InitFInv DEF T!FInv
<1>4. LaunchTypeOK
  <2>1. TypeOK
    BY <1>2, <1>3, Same DEF T!CInv, T!IInv, T!TypeOK, TypeOK
  <2> QED BY <1>1, <2>1 DEF LaunchTypeOK, Stages
<1>5. /\ phase = "boot" /\ cr3 = BOOT /\ current_terminal = 0
      /\ \A p \in PIDS : stage[p] = "done" /\ pcb[p].curr_pd = NULL
      /\ \A t \in TERMS : prog_count[t] = 0
      /\ \A s \in Stacks : Len(kstack[s]) = 0
      /\ Live = {}
  BY <1>1 DEF Init, Live
<1>6. UnfinishedOK /\ ForegroundsLive /\ WrittenOK
  BY <1>5 DEF UnfinishedOK, ForegroundsLive, WrittenOK
<1>7. NestedOK /\ BootFramesOK
  BY <1>5 DEF NestedOK, BootFramesOK, Stacks
<1>8. LaunchingOK /\ ContextsOK /\ BootOK
  BY <1>5 DEF LaunchingOK, Launching, ContextsOK, BootOK, FirstNamed
<1> QED BY <1>3, <1>4, <1>6, <1>7, <1>8 DEF LInv

(* Every step keeps the invariant.                                          *)
LEMMA NextLInv == LInv /\ [LaunchNext]_launchVars => LInv'
<1> SUFFICES ASSUME LInv, [LaunchNext]_launchVars PROVE LInv'
  OBVIOUS
<1>1. CASE UNCHANGED launchVars
  BY <1>1, StillKeeps
<1>2. CASE ~ Launching /\ Others /\ stage' = stage
  <2>1. CASE Execute \/ (phase = "launch" /\ Launch)
    BY <1>2, <2>1, ExecuteKeeps
  <2>2. CASE Halt \/ HaltWild
    BY <1>2, <2>2, HaltKeeps
  <2>3. CASE WaitBegin \/ WaitEnd
    BY <1>2, <2>3, WaitKeeps
  <2>4. ASSUME NEW t \in TERMS, SwitchOut(t) PROVE LInv'
    BY <1>2, <2>4, SwitchSuspends, SuspendKeeps
  <2>5. CASE prog_count[current_terminal] # 0 /\ ~ Unready
             /\ (Resume \/ ResumeWild)
    BY <1>2, <2>5, ResumeKeeps, ResumeWildKeeps
  <2>6. CASE Strand
    BY <1>2, <2>6, StrandKeeps
  <2>7. CASE SwitchFault \/ Exception
    <3>1. Panic /\ phase # "wild"
      BY <2>7 DEF SwitchFault, Exception, KeyboardOpen
    <3> QED BY <1>2, <3>1, PanicKeeps
  <2>8. CASE Hang
    <3>1. UNCHANGED launchVars
      BY <1>2, <2>8 DEF Hang, launchVars
    <3> QED BY <3>1, StillKeeps
  <2> QED BY <1>2, <2>1, <2>2, <2>3, <2>4, <2>5, <2>6, <2>7, <2>8 DEF Others
<1>3. CASE LaunchBegin
  BY <1>3, BeginKeeps
<1>4. CASE LaunchSave
  BY <1>4, SaveKeeps
<1>5. CASE LaunchLoad
  BY <1>5, LoadKeeps
<1>6. CASE LaunchContext
  BY <1>6, ContextKeeps
<1>7. CASE LaunchEnd
  BY <1>7, EndKeeps
<1>8. CASE LaunchFault \/ LaunchSwitchFault
  <2>1. Panic /\ phase # "wild" /\ stage' = stage
    BY <1>8 DEF LaunchFault, LaunchSwitchFault, LaunchOpen, Launching
  <2> QED BY <2>1, PanicKeeps
<1>9. ASSUME NEW t \in TERMS, LaunchSwitchOut(t) PROVE LInv'
  <2>1. stage' = stage
    BY <1>9 DEF LaunchSwitchOut
  <2> QED BY <1>9, <2>1, SwitchSuspends, SuspendKeeps
<1>10. CASE ResumeUnready
  BY <1>10, UnreadyKeeps
<1> QED BY <1>1, <1>2, <1>3, <1>4, <1>5, <1>6, <1>7, <1>8, <1>9, <1>10
        DEF LaunchNext
-----------------------------------------------------------------------------
(* LInv holds of every state, however many executes were suspended.         *)
THEOREM LaunchInvariance == LaunchSpec => []LInv
<1> QED BY InitLInv, NextLInv, PTL DEF LaunchSpec

(* Every variable stays within its type, with executes suspended half way   *)
(* (setup_pcb and the assignments after it in execute).                     *)
THEOREM LaunchTypesCorrect == LaunchSpec => []LaunchTypeOK
<1>1. LInv => LaunchTypeOK
  BY DEF LInv
<1> QED BY <1>1, LaunchInvariance, PTL

(* The program whose PCB the system calls use is the one that executes,     *)
(* also when its own execute, or that of others, was suspended and resumed. *)
THEOREM LaunchRunsAsItself == LaunchSpec => []CurrentIsRunning
<1>1. LInv => CurrentIsRunning
  BY Same DEF LInv, T!CInv, T!IInv, T!CurrentIsRunning, CurrentIsRunning
<1> QED BY <1>1, LaunchInvariance, PTL

(* prog_count counts each program in use once, those whose PCB does not say *)
(* yet which terminal they belong to by their terminal's pcb_loc.           *)
THEOREM CountsExactMidway == LaunchSpec => []AccountingMidway
<1>1. LInv => AccountingMidway
  <2> SUFFICES ASSUME LInv, NEW t \in TERMS
               PROVE  prog_count[t] =
                        Cardinality({p \in Live :
                          IF stage[p] = "done" THEN pcb[p].term_num = t
                                               ELSE pcb_loc[t] = p})
    BY DEF AccountingMidway
  <2>1. ASSUME NEW p \in Live
        PROVE  View[p].term_num = t <=>
                 IF stage[p] = "done" THEN pcb[p].term_num = t
                                      ELSE pcb_loc[t] = p
    <3>1. p \in PIDS
      BY DEF Live
    <3>2. CASE stage[p] = "done"
      BY <3>1, <3>2, ViewOf
    <3>3. CASE stage[p] # "done"
      <4>1. View[p].term_num = Home(p)
        BY <3>1, <3>3, ViewOf, FinishedIs DEF LInv
      <4>2. /\ pcb_loc[Home(p)] = p
            /\ \A u \in TERMS : pcb_loc[u] = p => u = Home(p)
        BY <3>1, <3>3, HomeIs DEF LInv
      <4> QED BY <3>3, <4>1, <4>2
    <3> QED BY <3>2, <3>3
  <2>2. T!InTerminal(t) = {p \in Live :
                             IF stage[p] = "done" THEN pcb[p].term_num = t
                                                  ELSE pcb_loc[t] = p}
    BY <2>1, Same DEF T!InTerminal
  <2>3. prog_count[t] = Cardinality(T!InTerminal(t))
    <3>1. T!Accounting /\ t \in T!TERMS
      BY Same DEF LInv, T!CInv, T!IInv
    <3> QED BY <3>1 DEF T!Accounting, T!Cardinality, Cardinality
  <2> QED BY <2>2, <2>3
<1> QED BY <1>1, LaunchInvariance, PTL

(* The frame halt returns to is still there for every program that was      *)
(* started, whichever executes were suspended meanwhile.                    *)
THEOREM StartedCallersStay == LaunchSpec => []StartedReturn
<1>1. LInv => StartedReturn
  <2> SUFFICES ASSUME LInv, phase # "wild", NEW p \in Live, stage[p] = "done",
                      pcb[p].lastpcb_ptr # p \/ pcb[p].term_num = 0
               PROVE  Holds(kstack, pcb[p].esp, "execute", p)
    BY DEF StartedReturn
  <2>1. View[p] = pcb[p]
    BY ViewOf DEF Live
  <2>2. T!CallerFound(p)
    BY <2>1, Same DEF LInv, T!CInv, T!CallersOK, T!ReturnsTo
  <2>3. PICK c : c = pcb[p].esp
    OBVIOUS
  <2>4. c \in T!Context
    BY <2>1, <2>3, Same DEF LInv, T!CInv, T!IInv, T!PcbsOK, T!PcbOK
  <2>5. c.depth = 1 /\ T!AtBottom(kstack, c.stack, "execute", p)
    BY <2>1, <2>2, <2>3 DEF T!CallerFound
  <2>6. T!Holds(kstack, c, "execute", p)
    <3>1. kstack \in [T!Stacks -> Seq(T!Frame)]
      BY Same DEF LInv, LaunchTypeOK, TypeOK
    <3> QED BY <2>4, <2>5, <3>1, Assumed, T!HoldsBottom
  <2> QED BY <2>3, <2>6, Same
<1> QED BY <1>1, LaunchInvariance, PTL

(* terminal_switch loads the directory of the program it goes back to, or   *)
(* the null one of a program that has none yet; never another program's.    *)
THEOREM NoOtherDirectory == LaunchSpec => []LoadsOwnDirectory
<1>1. LInv => LoadsOwnDirectory
  <2> SUFFICES ASSUME LInv, NEW t \in TERMS, prog_count[t] # 0
               PROVE  /\ pcb_loc[t] \in Live
                      /\ pcb[pcb_loc[t]].curr_pd \in {pcb_loc[t], NULL}
                      /\ pcb[pcb_loc[t]].curr_pd = NULL =>
                           stage[pcb_loc[t]] \in {"named", "saved", "loaded"}
    BY DEF LoadsOwnDirectory
  <2>1. PICK p : p = pcb_loc[t]
    OBVIOUS
  <2>2. p \in Live /\ p \in PIDS
    BY <2>1 DEF LInv, ForegroundsLive, Live
  <2>3. p # NULL
    BY <2>2, Assumed DEF PIDS
  <2>4. stage[p] = "done" => pcb[p].curr_pd = p
    <3>1. T!PcbOK(p)
      BY <2>2, Same DEF LInv, T!CInv, T!IInv, T!PcbsOK
    <3> QED BY <2>2, <3>1, ViewOf DEF T!PcbOK
  <2>5. stage[p] \in Stages
    BY <2>2 DEF LInv, LaunchTypeOK
  <2> QED BY <2>1, <2>2, <2>3, <2>4, <2>5 DEF LInv, WrittenOK, Stages
<1> QED BY <1>1, LaunchInvariance, PTL
-----------------------------------------------------------------------------
(***************************************************************************)
(* The refinement of ProcessStacks.  A program that is not done is the only *)
(* one of its terminal, so the stacks read off the PCBs are those read off  *)
(* the View.                                                                *)
(***************************************************************************)

(* No parent pointer on the way up comes from a program that is not done.   *)
LEMMA ParentsDone ==
  ASSUME LInv, phase # "wild", NEW t \in TERMS, NEW n \in Nat,
         n = prog_count[t], NEW q \in Live, View[q].term_num = t, n # 1
  PROVE  View[q] = pcb[q]
<1>1. q \in PIDS
  BY DEF Live
<1>2. CASE stage[q] = "done"
  BY <1>1, <1>2, ViewOf
<1>3. CASE stage[q] # "done"
  <2>1. View[q].lastpcb_ptr = q /\ View[q].term_num = Home(q)
    BY <1>1, <1>3, ViewOf, FinishedIs DEF LInv
  <2>2. pcb_loc[t] = q
    BY <1>1, <1>3, <2>1, HomeIs DEF LInv
  <2>3. PICK d \in [T!PIDS -> T!PIDS] : T!Levels(d) /\ T!ForegroundOK(d)
    BY DEF LInv, T!CInv, T!IInv, T!ChainOK
  <2>4. d[q] = 0
    BY <2>1, <2>3, Same DEF T!Levels
  <2>5. n # 0
    BY <2>1, <2>3, <2>4, Same DEF T!Levels
  <2>6. d[q] = n - 1
    BY <2>2, <2>3, <2>5, Same DEF T!ForegroundOK
  <2> QED BY <2>4, <2>6
<1> QED BY <1>2, <1>3

LEMMA SameStacks ==
  ASSUME LInv, phase # "wild", NEW t \in TERMS
  PROVE  StackOf[t] = T!StackOf[t] /\ T!IsStack(t, StackOf[t])
<1>1. PICK n \in Nat : n = prog_count[t]
  BY DEF LInv, LaunchTypeOK, TypeOK
<1>2. PICK s : s = T!StackOf[t]
  OBVIOUS
<1>3. PICK r : r = StackOf[t]
  OBVIOUS
<1>4. PICK h : h = Ancestry(t)
  OBVIOUS
<1>5. T!IsStack(t, s)
  <2>1. T!IInv /\ t \in T!TERMS
    BY Same DEF LInv, T!CInv
  <2> QED BY <1>2, <2>1, Assumed, T!StackFound
<1>6. /\ s \in Seq(PIDS) /\ Len(s) = n
      /\ \A i \in 1 .. n : s[i] \in Live /\ View[s[i]].term_num = t
      /\ n # 0 => s[n] = pcb_loc[t]
      /\ \A i \in 1 .. n - 1 : s[i] = View[s[i + 1]].lastpcb_ptr
  BY <1>1, <1>5, Same DEF T!IsStack
<1>7. r = [i \in 1 .. n |-> h[n - i]]
  BY <1>1, <1>3, <1>4 DEF StackOf
<1>8. s = [i \in 1 .. n |-> s[i]]
  <2>1. DOMAIN s = 1 .. n
    BY <1>6, LenProperties
  <2>2. s = [i \in DOMAIN s |-> s[i]]
    BY <1>6
  <2> QED BY <2>1, <2>2, Zenon
<1>9. \A i \in 1 .. n - 1 : s[i] = pcb[s[i + 1]].lastpcb_ptr
  <2> SUFFICES ASSUME NEW i \in 1 .. n - 1
               PROVE  s[i] = pcb[s[i + 1]].lastpcb_ptr
    OBVIOUS
  <2>1. i + 1 \in 1 .. n /\ n # 1
    OBVIOUS
  <2>2. View[s[i + 1]] = pcb[s[i + 1]]
    BY <1>1, <1>6, <2>1, ParentsDone
  <2> QED BY <1>6, <2>2
<1>10. PICK g : g = [k \in 0 .. n |->
                      IF k = 0 THEN pcb_loc[t]
                      ELSE IF k < n THEN s[n - k] ELSE pcb[s[1]].lastpcb_ptr]
  OBVIOUS
<1>11. \A k \in 0 .. n - 1 : g[k] = s[n - k]
  <2> SUFFICES ASSUME NEW k \in 0 .. n - 1 PROVE g[k] = s[n - k]
    OBVIOUS
  <2>1. k \in 0 .. n /\ k < n /\ n # 0 /\ n - 0 = n
    OBVIOUS
  <2>2. g[k] = IF k = 0 THEN pcb_loc[t] ELSE s[n - k]
    BY <1>10, <2>1
  <2> QED BY <1>6, <2>1, <2>2
<1>12. T!IsUp(g, pcb_loc[t], n, pcb)
  <2> SUFFICES ASSUME NEW k \in 0 .. n
               PROVE  g[k] = IF k = 0 THEN pcb_loc[t]
                             ELSE pcb[g[k - 1]].lastpcb_ptr
    <3>1. g = [k \in 0 .. n |-> g[k]]
      BY <1>10
    <3> QED BY <3>1 DEF T!IsUp
  <2>1. CASE k = 0
    BY <1>10, <2>1
  <2>2. CASE k # 0 /\ k = n
    <3>1. n - 1 \in 0 .. n - 1 /\ n - (n - 1) = 1
      BY <2>2
    <3>2. g[n - 1] = s[1]
      BY <1>11, <3>1
    <3> QED BY <1>10, <2>2, <3>2
  <2>3. CASE k # 0 /\ k # n
    <3>1. /\ k \in 0 .. n - 1 /\ k - 1 \in 0 .. n - 1 /\ n - k \in 1 .. n - 1
          /\ n - (k - 1) = (n - k) + 1
      BY <2>3
    <3>2. g[k] = s[n - k] /\ g[k - 1] = s[(n - k) + 1]
      BY <1>11, <3>1
    <3> QED BY <1>9, <2>3, <3>1, <3>2
  <2> QED BY <2>1, <2>2, <2>3
<1>13. T!IsUp(h, pcb_loc[t], n, pcb)
  <2>1. h = CHOOSE f : T!IsUp(f, pcb_loc[t], n, pcb)
    <3>1. Ancestry(t) = CHOOSE f : T!IsUp(f, pcb_loc[t], prog_count[t], pcb)
      BY Zenon DEF Ancestry, T!IsUp
    <3> QED BY <1>1, <1>4, <3>1, Zenon
  <2> QED BY <1>12, <2>1, Zenon
<1>14. \A k \in 0 .. n : h[k] = IF k = 0 THEN pcb_loc[t]
                                ELSE pcb[h[k - 1]].lastpcb_ptr
  <2>1. h = [k \in 0 .. n |-> IF k = 0 THEN pcb_loc[t]
                              ELSE pcb[h[k - 1]].lastpcb_ptr]
    BY <1>13, Zenon DEF T!IsUp
  <2> QED BY <2>1, Zenon
<1>15. \A k \in 0 .. n - 1 : h[k] = s[n - k]
  <2>1. PICK U : U = {k \in 0 .. n - 1 : h[k] # s[n - k]}
    OBVIOUS
  <2> SUFFICES ASSUME U # {} PROVE FALSE
    BY <2>1
  <2>2. U \subseteq Nat
    BY <2>1
  <2>3. PICK k \in U : \A j \in U : k <= j
    BY <2>2, Assumed, T!Least
  <2>4. k \in 0 .. n - 1 /\ k \in 0 .. n /\ h[k] # s[n - k]
    BY <2>1, <2>3
  <2>5. k # 0
    <3>1. 0 \in 0 .. n /\ n - 0 = n /\ n # 0
      BY <2>4
    <3> QED BY <1>6, <1>14, <2>4, <3>1
  <2>6. /\ k - 1 \in 0 .. n - 1 /\ k - 1 \notin U /\ n - k \in 1 .. n - 1
        /\ n - (k - 1) = (n - k) + 1
    BY <2>3, <2>4, <2>5
  <2>7. h[k - 1] = s[(n - k) + 1]
    BY <2>1, <2>6
  <2> QED BY <1>9, <1>14, <2>4, <2>5, <2>6, <2>7
<1>16. ASSUME NEW i \in 1 .. n PROVE r[i] = s[i]
  <2>1. n - i \in 0 .. n - 1 /\ n - (n - i) = i
    OBVIOUS
  <2> QED BY <1>7, <1>15, <2>1
<1>17. r = [i \in 1 .. n |-> r[i]]
  BY <1>7
<1>18. r = s
  BY <1>8, <1>16, <1>17
<1> QED BY <1>2, <1>3, <1>5, <1>18

(* The stacks are a function on the terminals.                              *)
LEMMA StackOfDomain ==
  /\ StackOf = [t \in TERMS |-> StackOf[t]]
  /\ StackOf' = [t \in TERMS |-> StackOf'[t]]
<1> QED BY DEF StackOf

(* As long as control is not lost, what a step does to the stacks can be    *)
(* read off the View.                                                       *)
ViewStacksOK ==
  /\ T!StacksOK
  /\ phase # "wild" =>
       StackOf = T!StackOf /\ \A t \in TERMS : T!IsStack(t, StackOf[t])

LEMMA ViewStacks == LInv => ViewStacksOK
<1> SUFFICES ASSUME LInv PROVE ViewStacksOK
  OBVIOUS
<1>1. T!StacksOK
  BY Assumed, T!StacksFound DEF LInv, T!CInv
<1>2. ASSUME phase # "wild" PROVE StackOf = T!StackOf
  <2>1. \A t \in TERMS : StackOf[t] = T!StackOf[t]
    BY <1>2, SameStacks
  <2>2. T!StackOf = [t \in TERMS |-> T!StackOf[t]]
    <3>1. T!StackOf = [t \in T!TERMS |-> T!StackOf[t]]
      BY DEF T!StackOf
    <3> QED BY <3>1, Same
  <2> QED BY <2>1, <2>2, StackOfDomain, Zenon
<1> QED BY <1>1, <1>2, SameStacks DEF ViewStacksOK

(* The stack of a terminal nothing of which is written.                     *)
LEMMA UntouchedStack ==
  ASSUME pcb' = pcb, NEW t \in TERMS, pcb_loc'[t] = pcb_loc[t],
         prog_count'[t] = prog_count[t]
  PROVE  StackOf'[t] = StackOf[t]
<1>1. Ancestry(t)' = Ancestry(t)
  BY Zenon DEF Ancestry
<1> QED BY <1>1 DEF StackOf

(* Most steps write nothing that a stack is read from.                      *)
LEMMA StacksUntouched ==
  ASSUME UNCHANGED <<current_terminal, prog_count, pcb_loc, pcb>>
  PROVE  UNCHANGED Abstract!stackVars
<1>1. \A t \in TERMS : StackOf'[t] = StackOf[t]
  BY UntouchedStack
<1>2. StackOf' = StackOf
  BY <1>1, StackOfDomain, Zenon
<1> QED BY <1>2 DEF Abstract!stackVars

(* Those that write PCBs but no parent pointer of the View move no program. *)
LEMMA StacksKept ==
  ASSUME LInv, ViewStacksOK, ViewStacksOK', phase # "wild", phase' # "wild",
         UNCHANGED <<prog_count, pcb_loc>>,
         \A q \in Live : View'[q].lastpcb_ptr = View[q].lastpcb_ptr
  PROVE  StackOf' = StackOf
<1>1. T!StacksOK /\ T!StacksOK'
  BY DEF ViewStacksOK
<1>2. ASSUME NEW t \in TERMS PROVE StackOf'[t] = StackOf[t]
  <2>1. t \in T!TERMS /\ prog_count[t] \in Nat
    BY Same DEF LInv, LaunchTypeOK, TypeOK
  <2>2. prog_count'[t] = prog_count[t] /\ pcb_loc'[t] = pcb_loc[t]
    OBVIOUS
  <2>3. \A q \in T!Live : View'[q].lastpcb_ptr = View[q].lastpcb_ptr
    BY Same
  <2>4. T!StackOf'[t] = T!StackOf[t]
    BY <1>1, <2>1, <2>2, <2>3, Assumed, T!KeepsStack
  <2>5. StackOf'[t] = T!StackOf'[t] /\ StackOf[t] = T!StackOf[t]
    BY DEF ViewStacksOK
  <2> QED BY <2>4, <2>5
<1> QED BY <1>2, StackOfDomain, Zenon

(* The writes of an unfinished execute: its program is its own parent, as   *)
(* the View says from the start.                                            *)
LEMMA WritesKeepStacks ==
  ASSUME LInv, LInv', ViewStacksOK, ViewStacksOK',
         LaunchSave \/ LaunchContext \/ LaunchEnd
  PROVE  UNCHANGED Abstract!stackVars
<1>1. PICK f : f = Foreground
  OBVIOUS
<1>2. /\ Launching /\ f # NULL /\ phase = "switch" /\ phase' # "wild"
      /\ UNCHANGED <<current_terminal, prog_count, pcb_loc>>
      /\ \A q \in PIDS \ {f} : pcb'[q] = pcb[q]
  <2>1. Launching /\ f # NULL /\ phase = "switch" /\ phase' # "wild"
        /\ UNCHANGED <<current_terminal, prog_count, pcb_loc>>
    BY <1>1 DEF LaunchSave, LaunchContext, LaunchEnd, At, Launching
  <2>2. pcb \in [PIDS -> Pcb]
    BY DEF LInv, LaunchTypeOK, TypeOK
  <2>3. \A q \in PIDS \ {f} : pcb'[q] = pcb[q]
    BY <1>1, <2>2 DEF LaunchSave, LaunchContext, LaunchEnd
  <2> QED BY <2>1, <2>3
<1>3. /\ f \in PIDS /\ f \in Live /\ Top.pid = f /\ View[f] = Finished(f)
  BY <1>1, <1>2, GoesOn
<1>4. \A q \in PIDS \ {f} : stage'[q] = stage[q]
  BY <1>3 DEF LaunchSave, LaunchContext, LaunchEnd, Reached, LInv, LaunchTypeOK
<1>5. View[f].lastpcb_ptr = f /\ View'[f].lastpcb_ptr = f
  <2>1. View[f].lastpcb_ptr = f
    BY <1>3 DEF Finished
  <2>2. stage'[f] = "done" => pcb'[f].lastpcb_ptr = f
    <3>1. stage \in [PIDS -> Stages] /\ pcb \in [PIDS -> Pcb]
      BY DEF LInv, LaunchTypeOK, TypeOK
    <3>2. CASE LaunchSave \/ LaunchContext
      BY <1>3, <3>1, <3>2 DEF LaunchSave, LaunchContext, Reached
    <3>3. CASE LaunchEnd
      <4>1. stage[f] = "ready"
        BY <1>3, <3>3 DEF LaunchEnd, At
      <4>2. pcb[f].lastpcb_ptr = f
        BY <1>3, <4>1 DEF LInv, WrittenOK
      <4> QED BY <1>1, <1>3, <3>1, <3>3, <4>2 DEF LaunchEnd, Pcb
    <3> QED BY <3>2, <3>3
  <2>3. stage'[f] # "done" => View'[f].lastpcb_ptr = f
    BY <1>3 DEF View, Finished
  <2>4. stage'[f] = "done" => View'[f] = pcb'[f]
    BY <1>3 DEF View
  <2> QED BY <2>1, <2>2, <2>3, <2>4
<1>6. \A q \in Live : View'[q].lastpcb_ptr = View[q].lastpcb_ptr
  <2> SUFFICES ASSUME NEW q \in Live, q # f
               PROVE  View'[q].lastpcb_ptr = View[q].lastpcb_ptr
    BY <1>5
  <2>1. q \in PIDS /\ pcb'[q] = pcb[q] /\ stage'[q] = stage[q]
    BY <1>2, <1>4 DEF Live
  <2> QED BY <2>1 DEF View, Finished
<1>7. StackOf' = StackOf
  BY <1>2, <1>6, StacksKept
<1> QED BY <1>2, <1>7 DEF Abstract!stackVars

(* Alt+Fn shows another terminal.                                           *)
LEMMA SuspendShows ==
  ASSUME LInv, ViewStacksOK, ViewStacksOK', NEW t \in TERMS, Suspends(t)
  PROVE  Abstract!Show(t)
<1>1. PICK f : f = Foreground
  OBVIOUS
<1>2. PICK c : c = [stack |-> EntryStack, depth |-> Len(EntryFrames) + 1]
  OBVIOUS
<1>3. /\ phase # "wild" /\ phase' # "wild" /\ current_terminal' = t
      /\ UNCHANGED <<prog_count, pcb_loc, stage>>
      /\ pcb' = [pcb EXCEPT ![f].curr_esp = c]
      /\ pcb \in [PIDS -> Pcb]
  BY <1>1, <1>2 DEF Suspends, T!KeyboardOpen, LInv, LaunchTypeOK, TypeOK
<1>4. ASSUME NEW q \in Live PROVE View'[q].lastpcb_ptr = View[q].lastpcb_ptr
  <2>1. q \in PIDS /\ pcb'[q].lastpcb_ptr = pcb[q].lastpcb_ptr
    BY <1>3 DEF Live, Pcb
  <2> QED BY <1>3, <2>1 DEF View, Finished
<1>5. StackOf' = StackOf
  BY <1>3, <1>4, StacksKept
<1> QED BY <1>3, <1>5 DEF Abstract!Show

(* execute in one step starts a program.                                    *)
LEMMA ExecuteStacks ==
  ASSUME LInv, LInv', ViewStacksOK, ViewStacksOK',
         Execute \/ (phase = "launch" /\ Launch), stage' = stage
  PROVE  \E p \in Abstract!Programs : Abstract!Start(p)
<1>1. PICK s, frames, back : /\ ExecuteOn(s, frames, back)
                             /\ phase \in {"user", "launch"}
  BY DEF Execute, Launch
<1>2. PICK t : t = current_terminal
  OBVIOUS
<1> DEFINE new(p) == [lastpcb_ptr |-> PrevPcb(p),
                      esp |-> [stack |-> s, depth |-> Len(frames) + 1],
                      pagedir |-> cr3,
                      curr_esp |-> [stack |-> p, depth |-> 0],
                      curr_pd |-> p,
                      term_num |-> t]
<1>3. /\ TaskCount < MAX_PROCESSES /\ t \in TERMS
      /\ pcb \in [PIDS -> Pcb] /\ pcb_loc \in [TERMS -> PIDS \cup {NULL}]
  BY <1>1, <1>2 DEF ExecuteOn, LInv, LaunchTypeOK, TypeOK
<1>4. PICK p \in ScanResult :
        /\ prog_count' = [prog_count EXCEPT ![t] = @ + 1]
        /\ memoryspace' = [memoryspace EXCEPT ![p] = 1]
        /\ pcb_loc' = [pcb_loc EXCEPT ![t] = p]
        /\ pcb' = [pcb EXCEPT ![p] = new(p)]
        /\ kstack' = [kstack EXCEPT ![s] = Append(frames,
                        [kind |-> "execute", pid |-> p, back |-> back])]
        /\ cr3' = p /\ esp0' = p /\ running' = p /\ phase' = "user"
        /\ current_terminal' = t
  BY <1>1, <1>2 DEF ExecuteOn, ProgInit
<1>5. p \in PIDS /\ p \notin Live
  BY <1>3, Same, Assumed, T!FreeNumber DEF LInv, T!CInv, T!IInv
<1>6. stage[p] = "done"
  BY <1>5 DEF LInv, UnfinishedOK
<1> HIDE DEF new
<1>7. View' = [View EXCEPT ![p] = new(p)]
  <2>1. ASSUME NEW q \in PIDS, q # p PROVE View'[q] = View[q]
    <3>1. pcb'[q] = pcb[q]
      BY <1>3, <1>4, <2>1
    <3>2. CASE stage[q] = "done"
      BY <3>1, <3>2 DEF View
    <3>3. CASE stage[q] # "done"
      <4>1. Home(q) # t /\ \A u \in TERMS : pcb_loc[u] = q => u = Home(q)
        BY <1>1, <1>2, <3>3, HomeIs DEF LInv
      <4>2. \A u \in TERMS : pcb_loc[u] = q => pcb_loc'[u] = q
        BY <1>3, <1>4, <4>1
      <4>3. Home(q)' = Home(q)
        BY <3>3, <4>2, HomeKept DEF LInv
      <4> QED BY <3>1, <3>3, <4>3 DEF View, Finished
    <3> QED BY <3>2, <3>3
  <2>2. View'[p] = new(p)
    BY <1>3, <1>4, <1>5, <1>6 DEF View
  <2> QED BY <1>5, <2>1, <2>2 DEF View
<1>8. T!ExecuteOn(s, frames, back)
  BY <1>2, <1>3, <1>4, <1>7, Same DEF T!ExecuteOn, T!ProgInit, new
<1>9. \E q \in T!Abstract!Programs : T!Abstract!Start(q)
  <2>1. T!IInv /\ T!StacksOK /\ T!StacksOK' /\ phase # "wild"
    BY <1>1 DEF LInv, T!CInv, ViewStacksOK
  <2> QED BY <1>8, <2>1, Assumed, T!ExecuteStarts
<1>10. StackOf = T!StackOf
  BY <1>1 DEF ViewStacksOK
<1>11. Abstract!InUse = T!Abstract!InUse
  BY <1>10 DEF Abstract!InUse, T!Abstract!InUse, Abstract!Terminals,
               T!Abstract!Terminals, Abstract!ToSet, T!Abstract!ToSet
<1>12. StackOf' = T!StackOf'
  BY <1>4 DEF ViewStacksOK
<1> QED BY <1>9, <1>10, <1>11, <1>12
        DEF Abstract!Start, T!Abstract!Start, Abstract!Programs,
            T!Abstract!Programs

(* So does the execute taken apart, at its first write.                     *)
LEMMA BeginStacks ==
  ASSUME LInv, LInv', ViewStacksOK, ViewStacksOK', LaunchBegin
  PROVE  \E p \in Abstract!Programs : Abstract!Start(p)
<1>1. PICK t : t = current_terminal
  OBVIOUS
<1>2. PICK p \in ScanResult :
        /\ prog_count' = [prog_count EXCEPT ![t] = @ + 1]
        /\ pcb_loc' = [pcb_loc EXCEPT ![t] = p]
  BY <1>1 DEF LaunchBegin
<1>3. /\ phase \in {"boot", "switch"} /\ phase' = "switch"
      /\ phase = "switch" => prog_count[t] = 0
      /\ TaskCount < MAX_PROCESSES /\ current_terminal' = t /\ pcb' = pcb
  BY <1>1 DEF LaunchBegin
<1>4. /\ t \in TERMS /\ pcb_loc \in [TERMS -> PIDS \cup {NULL}]
      /\ prog_count \in [TERMS -> Nat]
  BY <1>1 DEF LInv, LaunchTypeOK, TypeOK
<1>5. prog_count[t] = 0
  BY <1>1, <1>3 DEF LInv, T!CInv, T!IInv, T!EmptyOK
<1>6. p \in PIDS /\ p \notin Live
  BY <1>3, Same, Assumed, T!FreeNumber DEF LInv, T!CInv, T!IInv
<1>7. \A u \in TERMS \ {t} : StackOf'[u] = StackOf[u]
  BY <1>2, <1>3, <1>4, UntouchedStack
<1>8. StackOf[t] = <<>>
  BY <1>4, <1>5 DEF StackOf
<1>9. StackOf'[t] = <<p>>
  <2>1. PICK r : r = StackOf'[t]
    OBVIOUS
  <2>2. T!IsStack(t, StackOf[t])'
    BY <1>3, <1>4 DEF ViewStacksOK
  <2>3. prog_count'[t] = 1 /\ pcb_loc'[t] = p
    BY <1>2, <1>4, <1>5
  <2>4. r \in Seq(PIDS) /\ Len(r) = 1 /\ r[1] = p
    BY <2>1, <2>2, <2>3, Same DEF T!IsStack
  <2> QED BY <2>1, <2>4
<1>10. p \notin Abstract!InUse
  <2> SUFFICES ASSUME NEW u \in TERMS, p \in Abstract!ToSet(StackOf[u])
               PROVE  FALSE
    BY DEF Abstract!InUse, Abstract!Terminals, TERMS
  <2>1. PICK r : r = StackOf[u]
    OBVIOUS
  <2>2. r \in Seq(PIDS) /\ \A i \in 1 .. Len(r) : r[i] \in Live
    BY <1>3, <2>1, Same DEF ViewStacksOK, T!IsStack
  <2>3. DOMAIN r = 1 .. Len(r)
    BY <2>2, LenProperties
  <2>4. PICK i \in DOMAIN r : p = r[i]
    BY <2>1 DEF Abstract!ToSet
  <2> QED BY <1>6, <2>2, <2>3, <2>4
<1>11. StackOf' = [StackOf EXCEPT ![t] = Append(@, p)]
  <2>1. PICK old, new : old = StackOf /\ new = StackOf'
    OBVIOUS
  <2>2. old = [u \in TERMS |-> old[u]] /\ new = [u \in TERMS |-> new[u]]
    BY <2>1, StackOfDomain, Zenon
  <2>3. old[t] = <<>> /\ new[t] = <<p>> /\ Append(<<>>, p) = <<p>>
    BY <1>8, <1>9, <2>1
  <2>4. \A u \in TERMS : new[u] = IF u = t THEN Append(old[t], p) ELSE old[u]
    BY <1>7, <2>1, <2>3
  <2>5. new = [old EXCEPT ![t] = Append(old[t], p)]
    BY <2>2, <2>4
  <2> QED BY <2>1, <2>5, Zenon
<1>12. p \in Abstract!Programs
  BY <1>6 DEF Abstract!Programs, PIDS
<1> QED BY <1>1, <1>3, <1>10, <1>11, <1>12 DEF Abstract!Start

(* halt takes the top program off, also when it jumps to a frame that is    *)
(* gone; then it was the last one of its terminal.                          *)
LEMMA HaltStacks ==
  ASSUME LInv, LInv', ViewStacksOK, ViewStacksOK', Halt \/ HaltWild,
         stage' = stage
  PROVE  Abstract!Exit
<1>1. PICK f : f = Foreground
  OBVIOUS
<1>2. PICK t : t = current_terminal
  OBVIOUS
<1>3. /\ HaltEffect /\ phase = "user" /\ f # NULL
      /\ pcb' = pcb /\ current_terminal' = t
      /\ prog_count' = [prog_count EXCEPT ![t] = @ - 1]
  BY <1>1, <1>2 DEF Halt, HaltWild, HaltEffect
<1>4. /\ f \in PIDS /\ t \in TERMS /\ View[f] = pcb[f]
  BY <1>1, <1>2, <1>3, ForegroundDone
<1>5. /\ \A u \in TERMS \ {t} : pcb_loc'[u] = pcb_loc[u]
      /\ \A u \in TERMS \ {t} : prog_count'[u] = prog_count[u]
  <2>1. pcb_loc \in [TERMS -> PIDS \cup {NULL}] /\ prog_count \in [TERMS -> Nat]
    BY DEF LInv, LaunchTypeOK, TypeOK
  <2>2. \/ pcb_loc' = pcb_loc
        \/ pcb_loc' = [pcb_loc EXCEPT ![t] = pcb[f].lastpcb_ptr]
    BY <1>1, <1>2 DEF Halt, HaltWild
  <2> QED BY <1>3, <1>4, <2>1, <2>2
<1>6. View' = View
  <2>1. ASSUME NEW q \in PIDS, stage[q] # "done"
        PROVE  \A u \in TERMS : pcb_loc[u] = q => pcb_loc'[u] = q
    <3>1. Home(q) # t /\ \A u \in TERMS : pcb_loc[u] = q => u = Home(q)
      BY <1>2, <1>3, <2>1, HomeIs DEF LInv
    <3> QED BY <1>5, <3>1
  <2>2. UnfinishedOK /\ UnfinishedOK'
    BY DEF LInv
  <2> QED BY <1>3, <2>1, <2>2, ViewSame
<1>7. T!HaltEffect
  BY <1>1, <1>3, <1>4, <1>6, Same DEF HaltEffect, T!HaltEffect
<1>8. (Halt => T!Halt) /\ (HaltWild => T!HaltWild)
  <2>1. Halt => T!Halt
    BY <1>1, <1>4, <1>7, Same DEF Halt, T!Halt
  <2>2. HaltWild => T!HaltWild
    BY <1>1, <1>4, <1>7, Same DEF HaltWild, T!HaltWild
  <2> QED BY <2>1, <2>2
<1>9. T!CInv /\ T!StacksOK /\ T!StacksOK'
  BY DEF LInv, ViewStacksOK
<1>10. T!Abstract!Exit
  BY <1>8, <1>9, Assumed, T!HaltExits
<1>11. StackOf = T!StackOf
  BY <1>3 DEF ViewStacksOK
<1>12. StackOf' = T!StackOf'
  <2>1. CASE phase' # "wild"
    BY <2>1 DEF ViewStacksOK
  <2>2. CASE HaltWild
    <3>1. prog_count'[t] = 0
      BY <1>2, <1>8, <1>9, <2>2, Assumed, T!LastHaltWild
    <3>2. StackOf'[t] = <<>>
      BY <1>4, <3>1 DEF StackOf
    <3>3. T!StackOf'[t] = <<>>
      BY <1>4, <3>1, Same DEF T!StackOf
    <3>4. ASSUME NEW u \in TERMS, u # t PROVE StackOf'[u] = T!StackOf'[u]
      <4>1. StackOf'[u] = StackOf[u]
        BY <1>3, <1>5, <3>4, UntouchedStack
      <4>2. T!StackOf'[u] = T!StackOf[u]
        <5>1. u \in T!TERMS /\ T!TERMS = TERMS
          BY Same
        <5>2. View' = View /\ pcb_loc'[u] = pcb_loc[u]
              /\ prog_count'[u] = prog_count[u]
          BY <1>5, <1>6, <3>4
        <5> QED BY <5>1, <5>2, Assumed, T!StackOfSame
      <4> QED BY <1>11, <4>1, <4>2
    <3>5. T!StackOf' = [u \in TERMS |-> T!StackOf'[u]]
      <4>1. T!StackOf' = [u \in T!TERMS |-> T!StackOf'[u]]
        BY DEF T!StackOf
      <4> QED BY <4>1, Same
    <3>6. \A u \in TERMS : StackOf'[u] = T!StackOf'[u]
      BY <3>2, <3>3, <3>4
    <3> QED BY <3>5, <3>6, StackOfDomain, Zenon
  <2>3. CASE Halt
    BY <2>1, <2>3, HaltReturns
  <2> QED BY <2>2, <2>3
<1> QED BY <1>10, <1>11, <1>12
        DEF Abstract!Exit, T!Abstract!Exit, Abstract!Front, T!Abstract!Front

LEMMA InitViewStacks == LaunchInit => Abstract!StackInit
<1> SUFFICES ASSUME LaunchInit PROVE Abstract!StackInit
  OBVIOUS
<1>1. ASSUME NEW t \in TERMS PROVE StackOf[t] = <<>>
  <2>1. prog_count[t] = 0
    BY DEF LaunchInit, Init
  <2> QED BY <2>1 DEF StackOf
<1>2. StackOf = [t \in TERMS |-> StackOf[t]]
  BY StackOfDomain
<1>3. StackOf = [t \in Abstract!Terminals |-> <<>>]
  BY <1>1, <1>2 DEF Abstract!Terminals, TERMS
<1> QED BY <1>3 DEF LaunchInit, Init, Abstract!StackInit

LEMMA StepViewStacks ==
  LInv /\ LInv' /\ ViewStacksOK /\ ViewStacksOK' /\ [LaunchNext]_launchVars
    => [Abstract!StackNext]_(Abstract!stackVars)
<1> SUFFICES ASSUME LInv, LInv', ViewStacksOK, ViewStacksOK',
                    [LaunchNext]_launchVars
             PROVE  [Abstract!StackNext]_(Abstract!stackVars)
  OBVIOUS
<1>1. CASE stage' = stage /\ (Execute \/ (phase = "launch" /\ Launch))
  BY <1>1, ExecuteStacks DEF Abstract!StackNext
<1>2. CASE LaunchBegin
  BY <1>2, BeginStacks DEF Abstract!StackNext
<1>3. CASE stage' = stage /\ (Halt \/ HaltWild)
  BY <1>3, HaltStacks DEF Abstract!StackNext
<1>4. ASSUME NEW t \in TERMS,
             \/ ~ Launching /\ SwitchOut(t) /\ stage' = stage
             \/ LaunchSwitchOut(t)
      PROVE  Abstract!Show(t) /\ t \in Abstract!Terminals
  <2>1. stage' = stage
    BY <1>4 DEF LaunchSwitchOut
  <2> QED BY <1>4, <2>1, SwitchSuspends, SuspendShows
          DEF Abstract!Terminals, TERMS
<1>5. CASE LaunchSave \/ LaunchContext \/ LaunchEnd
  BY <1>5, WritesKeepStacks
<1>6. CASE WaitBegin \/ WaitEnd \/ Resume \/ ResumeWild \/ Strand \/ SwitchFault
           \/ Exception \/ Hang \/ LaunchLoad \/ LaunchFault
           \/ LaunchSwitchFault \/ ResumeUnready \/ UNCHANGED launchVars
  <2>1. UNCHANGED <<current_terminal, prog_count, pcb_loc, pcb>>
    BY <1>6 DEF WaitBegin, WaitEnd, Resume, ResumeWild, ResumeEffect, Strand,
                SwitchFault, Exception, Panic, Hang, vars, LaunchLoad,
                LaunchFault, LaunchSwitchFault, ResumeUnready, launchVars
  <2> QED BY <2>1, StacksUntouched
<1> QED BY <1>1, <1>2, <1>3, <1>4, <1>5, <1>6
        DEF LaunchNext, Others, Abstract!StackNext

(* The writes of an execute that terminal switches suspend and resume still *)
(* implement one stack of programs per terminal: the program is on top from *)
(* the moment it is counted, whatever its PCB holds, and nothing that runs  *)
(* before its execute is done moves it, or another one.                     *)
THEOREM SuspendedLaunchImplements == LaunchSpec => RefinesStacks
<1>1. LInv => ViewStacksOK
  BY ViewStacks
<1>2. LaunchInit => Abstract!StackInit
  BY InitViewStacks
<1>3. LInv /\ LInv' /\ ViewStacksOK /\ ViewStacksOK' /\ [LaunchNext]_launchVars
        => [Abstract!StackNext]_(Abstract!stackVars)
  BY StepViewStacks
<1> QED BY <1>1, <1>2, <1>3, LaunchInvariance, PTL
        DEF LaunchSpec, RefinesStacks, Abstract!StackSpec
=============================================================================
