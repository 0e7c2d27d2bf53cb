----------------------------- MODULE FrameProofs -----------------------------
(***************************************************************************)
(* Where the frames are that the kernel jumps back to.  A saved (esp, ebp) *)
(* pair is good only while the frame it was saved in is on its stack, and  *)
(* a kernel stack loses frames in three ways: the next entry from ring 3   *)
(* starts at its top, halt returns to execute, terminal_switch returns.    *)
(* The frames the two properties ask for are the first ones of their       *)
(* stacks, so what has to be shown is that none of the three reaches the   *)
(* bottom of such a stack.  The second part follows the parent pointers up *)
(* from the foreground programs: they are the stacks of ProcessStacks.     *)
(***************************************************************************)
EXTENDS TasksProofs, WellFoundedInduction

(* The oldest frame of a stack is of this kind and of this program.         *)
AtBottom(ks, s, kind, p) ==
  /\ Len(ks[s]) # 0
  /\ ks[s][1].kind = kind
  /\ ks[s][1].pid = p

(* The programs whose frame ReturnFrames asks for.                          *)
ReturnsTo(p) == pcb[p].lastpcb_ptr # p \/ pcb[p].term_num = 0

(* The execute call of such a program is the oldest thing on the stack of   *)
(* its parent; that of TERM_1's first shell is the oldest on the boot one.  *)
CallerFound(p) ==
  /\ pcb[p].esp.depth = 1
  /\ pcb[p].lastpcb_ptr = p => pcb[p].esp.stack = BOOT
  /\ AtBottom(kstack, pcb[p].esp.stack, "execute", p)

CallersOK ==
  phase # "wild" => \A p \in Live : ReturnsTo(p) => CallerFound(p)

(* The newest frame of the kernel stack in use is one of terminal_switch.   *)
SwitchRuns ==
  /\ Len(kstack[running]) # 0
  /\ kstack[running][Len(kstack[running])].kind = "switch"

(* A terminal_switch that interrupted another one lies right above it, and  *)
(* the one in progress is the newest frame of the stack it runs on.         *)
SwitchesOK ==
  /\ \A s \in Stacks : \A i \in 1 .. Len(kstack[s]) :
       kstack[s][i].back = "switch" => i >= 2 /\ kstack[s][i - 1].kind = "switch"
  /\ phase = "switch" => SwitchRuns

(* TERM_1 is empty only while entry's loop, on the boot stack, is about to  *)
(* start its shell.                                                         *)
FirstOK ==
  /\ prog_count[0] = 0 =>
       current_terminal = 0 /\ phase \in {"boot", "launch", "panic", "wild"}
  /\ phase \in {"boot", "launch"} /\ current_terminal = 0 =>
       running = BOOT /\ kstack[BOOT] = <<>>

(* The inductive invariant for ReturnFrames.  Its first part needs of the   *)
(* second only that terminal_switch gives up from a frame of its own.       *)
CInv == IInv /\ CallersOK /\ FirstOK
FInv == CInv /\ SwitchesOK
-----------------------------------------------------------------------------
KeepsBottom(new, old, s) ==
  Len(old[s]) # 0 => Len(new[s]) # 0 /\ new[s][1] = old[s][1]

(* A push keeps the bottom of every stack, unless it starts the stack anew. *)
LEMMA PushBottom ==
  ASSUME NEW ks \in [Stacks -> Seq(Frame)], NEW s \in Stacks,
         NEW frames \in Seq(Frame), NEW f \in Frame,
         NEW r \in Stacks, r # s \/ frames = ks[s]
  PROVE  KeepsBottom([ks EXCEPT ![s] = Append(frames, f)], ks, r)
<1> DEFINE new == [ks EXCEPT ![s] = Append(frames, f)]
<1>1. CASE r # s
  BY <1>1 DEF KeepsBottom
<1>2. CASE r = s /\ frames = ks[s]
  <2>1. /\ Len(Append(frames, f)) = Len(frames) + 1
        /\ \A i \in 1 .. Len(frames) : Append(frames, f)[i] = frames[i]
        /\ Len(frames) \in Nat
    BY AppendProperties, LenProperties
  <2>2. new[r] = Append(frames, f) /\ ks[r] = frames
    BY <1>2
  <2>3. Len(frames) # 0 => 1 \in 1 .. Len(frames)
    BY <2>1
  <2> HIDE DEF new
  <2>4. KeepsBottom(new, ks, r)
    BY <2>1, <2>2, <2>3 DEF KeepsBottom
  <2> QED BY <2>4 DEF new
<1> QED BY <1>1, <1>2

(* A return keeps every bottom but the one it returns through.              *)
LEMMA PopBottom ==
  ASSUME NEW ks \in [Stacks -> Seq(Frame)], NEW s \in Stacks,
         NEW d \in 1 .. Len(ks[s]), NEW r \in Stacks, r # s \/ d # 1
  PROVE  KeepsBottom(Returned(ks, s, d), ks, r)
<1> DEFINE new == Returned(ks, s, d)
<1>1. CASE r # s
  BY <1>1 DEF KeepsBottom, Returned
<1>2. CASE r = s /\ d # 1
  <2>1. Len(ks[s]) \in Nat
    BY LenProperties
  <2>2. Len(new[s]) = d - 1 /\ OnlyPops(new, ks)
    BY Pop
  <2> HIDE DEF new
  <2>3. 1 \in 1 .. Len(new[s])
    BY <1>2, <2>1, <2>2
  <2>4. KeepsBottom(new, ks, r)
    BY <1>2, <2>3, <2>2 DEF KeepsBottom, OnlyPops
  <2> QED BY <2>4 DEF new
<1> QED BY <1>1, <1>2

(* An entry from ring 3 keeps every bottom but that of esp0's stack.        *)
LEMMA EntryBottom ==
  ASSUME TypeOK, NEW r \in Stacks, r # EntryStack \/ phase # "user"
  PROVE  KeepsBottom(AfterEntry, kstack, r)
<1>1. AfterEntry[r] = kstack[r]
  BY Entry DEF AfterEntry, EntryFrames, EntryStack, TypeOK
<1> QED BY <1>1 DEF KeepsBottom

(* For a frame at depth 1, being held is being at the bottom.               *)
LEMMA HoldsBottom ==
  ASSUME NEW ks \in [Stacks -> Seq(Frame)], NEW c \in Context, c.depth = 1,
         NEW kind, NEW p
  PROVE  Holds(ks, c, kind, p) <=> AtBottom(ks, c.stack, kind, p)
<1>1. c.stack \in Stacks /\ c # NULL
  BY ContextAssumption DEF Context
<1>2. DOMAIN ks[c.stack] = 1 .. Len(ks[c.stack]) /\ Len(ks[c.stack]) \in Nat
  BY <1>1, LenProperties
<1>3. 1 \in DOMAIN ks[c.stack] <=> Len(ks[c.stack]) # 0
  BY <1>2
<1> QED BY <1>1, <1>3 DEF Holds, AtBottom
-----------------------------------------------------------------------------
(* The callers of programs whose stacks keep their bottoms stay found.      *)
LEMMA CallersKeep ==
  ASSUME IInv, CallersOK, phase # "wild",
         Live' \subseteq Live,
         \A q \in Live' : /\ pcb'[q].lastpcb_ptr = pcb[q].lastpcb_ptr
                          /\ pcb'[q].esp = pcb[q].esp
                          /\ pcb'[q].term_num = pcb[q].term_num,
         \A q \in Live' : CallerFound(q) =>
           KeepsBottom(kstack', kstack, pcb[q].esp.stack)
  PROVE  CallersOK'
<1> SUFFICES ASSUME NEW q \in Live', ReturnsTo(q)'
             PROVE  CallerFound(q)'
  BY DEF CallersOK
<1>1. ReturnsTo(q) /\ CallerFound(q)
  BY DEF ReturnsTo, CallersOK
<1>2. KeepsBottom(kstack', kstack, pcb[q].esp.stack)
  BY <1>1
<1> QED BY <1>1, <1>2 DEF CallerFound, AtBottom, KeepsBottom

(* No program in use returns to a frame on the foreground program's stack:  *)
(* its parent's stack is another one, and so is the boot stack.             *)
LEMMA NoCallerOnForeground ==
  ASSUME IInv, phase = "user", Foreground # NULL
  PROVE  /\ prog_count[current_terminal] # 0
         /\ Foreground \in Live /\ Foreground \in Stacks
         /\ esp0 = Foreground /\ EntryStack = Foreground /\ EntryFrames = <<>>
         /\ PcbOK(Foreground) /\ CallerOK(Foreground)
         /\ pcb[Foreground].term_num = current_terminal
         /\ \A q \in Live : CallerFound(q) => pcb[q].esp.stack # Foreground
<1>1. PICK d \in [PIDS -> PIDS] : Levels(d) /\ ForegroundOK(d)
  BY DEF IInv, ChainOK
<1>2. /\ prog_count[current_terminal] # 0
      /\ Foreground \in Live
      /\ PcbOK(Foreground) /\ CallerOK(Foreground)
      /\ pcb[Foreground].term_num = current_terminal
      /\ \A q \in Live \ {Foreground} : pcb[q].lastpcb_ptr # Foreground
  BY <1>1, HaltFinds
<1>3. /\ esp0 = Foreground /\ EntryStack = Foreground /\ EntryFrames = <<>>
      /\ Foreground \in Stacks /\ Foreground # BOOT
  BY <1>2, BootAssumption, MaxAssumption
     DEF IInv, CurrentIsRunning, EntryStack, EntryFrames, Live, Stacks, PIDS
<1>4. ASSUME NEW q \in Live, CallerFound(q)
      PROVE  pcb[q].esp.stack # Foreground
  <2>1. CASE pcb[q].lastpcb_ptr = q
    BY <1>3, <1>4, <2>1 DEF CallerFound
  <2>2. CASE pcb[q].lastpcb_ptr # q
    <3>1. pcb[q].esp.stack = pcb[q].lastpcb_ptr
      BY <2>2 DEF IInv, PcbsOK, PcbOK
    <3> QED BY <1>2, <2>2, <3>1
  <2> QED BY <2>1, <2>2
<1> QED BY <1>2, <1>3, <1>4

(* An entry into the kernel, from a program or a wait, loses no caller.     *)
LEMMA EntryKeepsCallers ==
  ASSUME IInv, Foreground # NULL,
         NEW q \in Live, CallerFound(q)
  PROVE  pcb[q].esp.stack # EntryStack \/ phase # "user"
<1> QED BY NoCallerOnForeground

(* execute finds the foreground program's stack or goes on above what its   *)
(* caller has on its stack; the new program's caller is found.              *)
LEMMA ExecuteCallers ==
  ASSUME CInv, phase \notin {"panic", "wild"},
         NEW s \in Stacks, NEW frames \in Seq(Frame), NEW back \in Phases,
         back # "switch",
         \/ prog_count[current_terminal] = 0 /\ frames = kstack[s] /\ s = running
         \/ /\ prog_count[current_terminal] # 0 /\ phase = "user"
            /\ s = Foreground /\ frames = <<>>,
         ExecuteOn(s, frames, back)
  PROVE  CallersOK' /\ FirstOK' /\ (SwitchesOK => SwitchesOK')
<1> USE MaxAssumption, NullAssumption, BootAssumption
<1>0. PICK t \in TERMS : t = current_terminal
  BY DEF CInv, IInv, TypeOK
<1> DEFINE entry(p) == [kind |-> "execute", pid |-> p, back |-> back]
<1>1. PICK p \in ScanResult :
        /\ prog_count' = [prog_count EXCEPT ![t] = @ + 1]
        /\ memoryspace' = [memoryspace EXCEPT ![p] = 1]
        /\ pcb' = [pcb EXCEPT ![p] =
                     [lastpcb_ptr |-> PrevPcb(p),
                      esp |-> [stack |-> s, depth |-> Len(frames) + 1],
                      pagedir |-> cr3,
                      curr_esp |-> [stack |-> p, depth |-> 0],
                      curr_pd |-> p,
                      term_num |-> t]]
        /\ kstack' = [kstack EXCEPT ![s] = Append(frames, entry(p))]
        /\ phase' = "user"
        /\ current_terminal' = t
  BY <1>0 DEF ExecuteOn, ProgInit
<1>2. TaskCount < MAX_PROCESSES /\ IInv /\ TypeOK
  BY DEF ExecuteOn, ProgInit, CInv, IInv
<1>3. p \in PIDS /\ p \notin Live
  BY <1>2, FreeNumber DEF IInv
<1>4. Live' = Live \cup {p}
  BY <1>1, <1>2, <1>3 DEF Live, TypeOK
<1>5. /\ \A q \in Live : pcb'[q] = pcb[q] /\ q # p
      /\ pcb'[p].lastpcb_ptr = PrevPcb(p) /\ pcb'[p].term_num = t
      /\ pcb'[p].esp = [stack |-> s, depth |-> Len(frames) + 1]
  BY <1>1, <1>2, <1>3 DEF Live, TypeOK
<1>6. entry(p) \in Frame /\ kstack \in [Stacks -> Seq(Frame)]
  BY <1>2, <1>3 DEF Frame, TypeOK
<1>7. /\ kstack' \in [Stacks -> Seq(Frame)]
      /\ Len(kstack'[s]) = Len(frames) + 1 /\ Len(frames) \in Nat
      /\ kstack'[s][Len(frames) + 1] = entry(p)
      /\ \A r \in Stacks : \A i \in 1 .. Len(kstack'[r]) :
           \/ r = s /\ i = Len(frames) + 1
           \/ i \in 1 .. Len(kstack[r]) /\ kstack'[r][i] = kstack[r][i]
  <2> HIDE DEF entry
  <2>1. frames = kstack[s] \/ frames = <<>>
    OBVIOUS
  <2> QED BY <1>1, <1>6, <2>1, Push, LenProperties
<1>8. CallersOK'
  <2> SUFFICES ASSUME NEW q \in Live', ReturnsTo(q)'
               PROVE  CallerFound(q)'
    BY DEF CallersOK
  <2>1. CASE q = p
    <3>1. frames = <<>> /\ (PrevPcb(p) = p => s = BOOT)
      <4>1. CASE prog_count[t] = 0
        <5>1. t = 0
          BY <1>5, <2>1, <4>1, <1>0 DEF ReturnsTo, PrevPcb
        <5> QED BY <1>0, <4>1, <5>1 DEF CInv, FirstOK
      <4>2. CASE prog_count[t] # 0
        <5>1. Foreground \in Live /\ prog_count[t] \in Nat
          BY <1>0, <1>2, <4>2 DEF IInv, ChainOK, ForegroundOK, Foreground, TypeOK
        <5> QED BY <1>0, <1>3, <4>2, <5>1 DEF PrevPcb
      <4> QED BY <4>1, <4>2
    <3>2. Len(frames) = 0
      BY <3>1
    <3>3. /\ pcb'[p].esp.depth = 1 /\ pcb'[p].esp.stack = s
          /\ Len(kstack'[s]) = 1 /\ kstack'[s][1] = entry(p)
      BY <1>5, <1>7, <3>2
    <3>4. AtBottom(kstack', s, "execute", p)
      BY <3>3 DEF AtBottom
    <3> QED BY <1>5, <2>1, <3>1, <3>3, <3>4 DEF CallerFound
  <2>2. CASE q \in Live
    <3>1. CallerFound(q) /\ pcb'[q] = pcb[q]
      BY <1>5, <2>2 DEF CInv, CallersOK, ReturnsTo
    <3>2. pcb[q].esp.stack \in Stacks
      BY <1>2, <2>2 DEF IInv, PcbsOK, PcbOK, Context
    <3>3. pcb[q].esp.stack # s \/ frames = kstack[s]
      <4>1. CASE prog_count[t] # 0
        <5>1. phase = "user" /\ s = Foreground
          BY <1>0, <4>1
        <5>2. Foreground \in Live
          BY <1>0, <1>2, <4>1, <5>1 DEF IInv, ChainOK, ForegroundOK, Foreground
        <5>3. Foreground # NULL
          BY <5>2 DEF Live, PIDS
        <5> QED BY <1>2, <2>2, <3>1, <5>1, <5>3, NoCallerOnForeground
      <4> QED BY <1>0, <4>1
    <3>4. KeepsBottom(kstack', kstack, pcb[q].esp.stack)
      <4> HIDE DEF entry
      <4> QED BY <1>1, <1>6, <3>2, <3>3, PushBottom
    <3> QED BY <3>1, <3>4 DEF CallerFound, AtBottom, KeepsBottom
  <2> QED BY <1>4, <2>1, <2>2
<1>9. SwitchesOK => SwitchesOK'
  <2> SUFFICES ASSUME SwitchesOK, NEW r \in Stacks, NEW i \in 1 .. Len(kstack'[r]),
                      kstack'[r][i].back = "switch"
               PROVE  i >= 2 /\ kstack'[r][i - 1].kind = "switch"
    BY <1>1 DEF SwitchesOK
  <2>1. i \in 1 .. Len(kstack[r]) /\ kstack'[r][i] = kstack[r][i]
    BY <1>7
  <2>2. i >= 2 /\ kstack[r][i - 1].kind = "switch"
    BY <2>1 DEF SwitchesOK
  <2>3. i - 1 \in 1 .. Len(kstack'[r]) /\ Len(kstack'[r]) \in Nat
    BY <1>7, <2>2, LenProperties
  <2>4. r = s => i - 1 # Len(frames) + 1
    BY <1>7
  <2> QED BY <1>7, <2>2, <2>3, <2>4
<1>10. FirstOK'
  <2>1. t = 0 => prog_count'[0] # 0
    BY <1>1, <1>2 DEF TypeOK
  <2>2. t # 0 => prog_count'[0] = prog_count[0] /\ prog_count[0] # 0
    BY <1>0, <1>1, <1>2 DEF CInv, FirstOK, TypeOK, TERMS
  <2> QED BY <1>1, <2>1, <2>2 DEF FirstOK
<1> QED BY <1>8, <1>9, <1>10

(* Losing frames leaves each nested terminal_switch above another one.      *)
LEMMA PopsKeepSwitches ==
  ASSUME SwitchesOK, kstack' \in [Stacks -> Seq(Frame)],
         OnlyPops(kstack', kstack),
         NEW s \in Stacks, NEW i \in 1 .. Len(kstack'[s]),
         kstack'[s][i].back = "switch"
  PROVE  i >= 2 /\ kstack'[s][i - 1].kind = "switch"
<1>1. i \in 1 .. Len(kstack[s]) /\ kstack'[s][i] = kstack[s][i]
  BY DEF OnlyPops
<1>2. i >= 2 /\ kstack[s][i - 1].kind = "switch"
  BY <1>1 DEF SwitchesOK
<1>3. i - 1 \in 1 .. Len(kstack'[s])
  BY <1>2, LenProperties
<1> QED BY <1>2, <1>3 DEF OnlyPops

(* halt, whether or not it finds its caller, loses no other program's one.  *)
LEMMA HaltCallers ==
  ASSUME CInv, Halt \/ HaltWild
  PROVE  CallersOK' /\ FirstOK' /\ (SwitchesOK => SwitchesOK')
<1> USE MaxAssumption, BootAssumption
<1>1. PICK t \in TERMS : t = current_terminal
  BY DEF CInv, IInv, TypeOK
<1>2. PICK p : p = Foreground
  OBVIOUS
<1>3. PICK c : c = pcb[p].esp
  OBVIOUS
<1>4. /\ IInv /\ TypeOK /\ CallersOK /\ FirstOK
      /\ HaltEffect /\ phase = "user" /\ p # NULL
  BY <1>2 DEF CInv, IInv, Halt, HaltWild, HaltEffect
<1>5. /\ prog_count[t] # 0 /\ p \in Live /\ p \in Stacks
      /\ EntryStack = p /\ EntryFrames = <<>>
      /\ PcbOK(p) /\ CallerOK(p) /\ pcb[p].term_num = t
      /\ \A q \in Live : CallerFound(q) => pcb[q].esp.stack # p
  BY <1>1, <1>2, <1>4, NoCallerOnForeground
<1>6. /\ Live' = Live \ {p} /\ pcb' = pcb /\ current_terminal' = t
      /\ prog_count' = [prog_count EXCEPT ![t] = @ - 1]
      /\ running' = c.stack
  <2>1. p \in PIDS /\ memoryspace' = [memoryspace EXCEPT ![p] = 0]
    BY <1>2, <1>4, <1>5 DEF HaltEffect, Live
  <2>2. Live' = Live \ {p}
    BY <1>4, <2>1 DEF Live, TypeOK
  <2> QED BY <1>1, <1>2, <1>3, <1>4, <2>2 DEF HaltEffect
<1>7. AfterEntry \in [Stacks -> Seq(Frame)] /\ OnlyPops(AfterEntry, kstack)
  BY <1>4, Entry
<1>8. c \in Context /\ c.stack \in Stacks
  BY <1>3, <1>5 DEF PcbOK, Context
<1>9. ASSUME NEW q \in Live, CallerFound(q)
      PROVE  /\ pcb[q].esp.stack \in Stacks
             /\ KeepsBottom(AfterEntry, kstack, pcb[q].esp.stack)
  <2>1. pcb[q].esp.stack \in Stacks /\ pcb[q].esp.stack # EntryStack
    BY <1>4, <1>5, <1>9 DEF IInv, PcbsOK, PcbOK, Context
  <2> QED BY <1>4, <2>1, EntryBottom
<1>10. CASE HaltWild
  <2>1. phase' = "wild" /\ kstack' = AfterEntry
    BY <1>10 DEF HaltWild
  <2>2. FirstOK'
    <3>1. t # 0 => prog_count'[0] = prog_count[0]
      BY <1>4, <1>6 DEF TypeOK, TERMS
    <3> QED BY <1>1, <1>4, <1>6, <2>1, <3>1 DEF FirstOK
  <2>3. SwitchesOK => SwitchesOK'
    <3> SUFFICES ASSUME SwitchesOK, NEW s \in Stacks, NEW i \in 1 .. Len(kstack'[s]),
                        kstack'[s][i].back = "switch"
                 PROVE  i >= 2 /\ kstack'[s][i - 1].kind = "switch"
      BY <2>1 DEF SwitchesOK
    <3> QED BY <1>4, <1>7, <2>1, PopsKeepSwitches
  <2> QED BY <2>1, <2>2, <2>3 DEF CallersOK
<1>11. CASE Halt
  <2>1. /\ Holds(AfterEntry, c, "execute", p)
        /\ phase' = AfterEntry[c.stack][c.depth].back
        /\ kstack' = Returned(AfterEntry, c.stack, c.depth)
    BY <1>2, <1>3, <1>11 DEF Halt
  <2>2. /\ c.depth \in 1 .. Len(AfterEntry[c.stack])
        /\ AfterEntry[c.stack][c.depth] = kstack[c.stack][c.depth]
        /\ c.depth \in 1 .. Len(kstack[c.stack])
    <3>1. c.depth \in 1 .. Len(AfterEntry[c.stack])
      BY <1>7, <1>8, <2>1, LenProperties DEF Holds
    <3> QED BY <1>7, <1>8, <3>1 DEF OnlyPops
  <2>3. phase' = IF pcb[p].lastpcb_ptr = p THEN "launch" ELSE "user"
    <3>1. Holds(kstack, c, "execute", p)
      <4>1. DOMAIN kstack[c.stack] = 1 .. Len(kstack[c.stack])
        BY <1>4, <1>8, LenProperties DEF TypeOK
      <4> QED BY <2>1, <2>2, <4>1 DEF Holds
    <3> QED BY <1>3, <1>5, <2>1, <2>2, <3>1 DEF CallerOK
  <2>4. /\ kstack' \in [Stacks -> Seq(Frame)] /\ OnlyPops(kstack', AfterEntry)
        /\ Len(kstack'[c.stack]) = c.depth - 1
    BY <1>7, <1>8, <2>1, <2>2, Pop
  <2>5. OnlyPops(kstack', kstack)
    BY <1>7, <2>4 DEF OnlyPops
  <2>6. CallersOK'
    <3>1. ASSUME NEW q \in Live', CallerFound(q)
          PROVE  KeepsBottom(kstack', kstack, pcb[q].esp.stack)
      <4>1. q \in Live /\ q # p
        BY <1>6
      <4>2. /\ pcb[q].esp.stack \in Stacks
            /\ KeepsBottom(AfterEntry, kstack, pcb[q].esp.stack)
        BY <1>9, <3>1, <4>1
      <4>3. pcb[q].esp.stack # c.stack \/ c.depth # 1
        BY <1>4, <2>1, <2>2, <3>1, <4>1 DEF CallerFound, AtBottom, Holds
      <4>4. KeepsBottom(kstack', AfterEntry, pcb[q].esp.stack)
        BY <1>7, <1>8, <2>1, <2>2, <4>2, <4>3, PopBottom
      <4> QED BY <4>2, <4>4 DEF KeepsBottom
    <3> QED BY <1>4, <1>6, <3>1, CallersKeep
  <2>7. SwitchesOK => SwitchesOK'
    <3> SUFFICES ASSUME SwitchesOK, NEW s \in Stacks, NEW i \in 1 .. Len(kstack'[s]),
                        kstack'[s][i].back = "switch"
                 PROVE  i >= 2 /\ kstack'[s][i - 1].kind = "switch"
      BY <2>3 DEF SwitchesOK
    <3> QED BY <1>4, <2>4, <2>5, PopsKeepSwitches
  <2>8. FirstOK'
    <3>1. CASE t # 0
      <4>1. prog_count'[0] = prog_count[0]
        BY <1>4, <1>6, <3>1 DEF TypeOK, TERMS
      <4> QED BY <1>1, <1>4, <1>6, <3>1, <4>1 DEF FirstOK
    <3>2. CASE t = 0
      <4>1. phase' \in {"boot", "launch"} =>
              c.stack = BOOT /\ kstack'[BOOT] = <<>>
        <5> SUFFICES ASSUME phase' \in {"boot", "launch"}
                     PROVE  c.stack = BOOT /\ kstack'[BOOT] = <<>>
          OBVIOUS
        <5>1. pcb[p].lastpcb_ptr = p /\ CallerFound(p)
          BY <1>4, <1>5, <2>3, <3>2 DEF CallersOK, ReturnsTo
        <5>2. c.stack = BOOT /\ c.depth = 1
          BY <1>3, <5>1 DEF CallerFound
        <5>3. kstack'[BOOT] = <<>>
          BY <1>8, <2>4, <5>2, EmptySeq
        <5> QED BY <5>2, <5>3
      <4>2. prog_count'[0] = 0 => phase' = "launch"
        <5>1. PICK d \in [PIDS -> PIDS] : Levels(d) /\ ForegroundOK(d)
          BY <1>4 DEF IInv, ChainOK
        <5>2. d[p] = prog_count[t] - 1 /\ prog_count[t] \in Nat
          BY <1>1, <1>2, <1>4, <5>1, HaltFinds DEF TypeOK
        <5>3. pcb[p].lastpcb_ptr = p <=> d[p] = 0
          BY <1>5, <5>1 DEF Levels
        <5>4. prog_count'[0] = prog_count[t] - 1
          BY <1>4, <1>6, <3>2 DEF TypeOK
        <5> QED BY <2>3, <5>2, <5>3, <5>4
      <4> QED BY <1>6, <3>2, <4>1, <4>2 DEF FirstOK
    <3> QED BY <3>1, <3>2
  <2> QED BY <2>6, <2>7, <2>8
<1> QED BY <1>10, <1>11

(* A driver's wait empties the foreground program's stack and nothing else. *)
LEMMA WaitCallers ==
  ASSUME CInv, WaitBegin \/ WaitEnd
  PROVE  CallersOK' /\ FirstOK' /\ (SwitchesOK => SwitchesOK')
<1>1. /\ UNCHANGED <<current_terminal, prog_count, memoryspace, pcb_loc, pcb>>
      /\ phase \in {"user", "wait"} /\ phase' \in {"user", "wait"}
      /\ \/ phase = "user" /\ Foreground # NULL /\ kstack' = AfterEntry
         \/ kstack' = kstack
      /\ IInv /\ TypeOK /\ CallersOK /\ FirstOK
  BY DEF WaitBegin, WaitEnd, CInv, IInv
<1>2. Live' = Live
  BY <1>1 DEF Live
<1>3. kstack' \in [Stacks -> Seq(Frame)] /\ OnlyPops(kstack', kstack)
  BY <1>1, Entry DEF TypeOK, OnlyPops
<1>4. CallersOK'
  <2>1. ASSUME NEW q \in Live', CallerFound(q)
        PROVE  KeepsBottom(kstack', kstack, pcb[q].esp.stack)
    <3>1. pcb[q].esp.stack \in Stacks /\ q \in Live
      BY <1>1, <1>2 DEF IInv, PcbsOK, PcbOK, Context
    <3>2. CASE kstack' = kstack
      BY <3>2 DEF KeepsBottom
    <3>3. CASE phase = "user" /\ Foreground # NULL /\ kstack' = AfterEntry
      BY <1>1, <2>1, <3>1, <3>3, EntryKeepsCallers, EntryBottom
    <3> QED BY <1>1, <3>2, <3>3
  <2> QED BY <1>1, <1>2, <2>1, CallersKeep
<1>5. SwitchesOK => SwitchesOK'
  <2> SUFFICES ASSUME SwitchesOK, NEW s \in Stacks, NEW i \in 1 .. Len(kstack'[s]),
                      kstack'[s][i].back = "switch"
               PROVE  i >= 2 /\ kstack'[s][i - 1].kind = "switch"
    BY <1>1 DEF SwitchesOK
  <2> QED BY <1>1, <1>3, PopsKeepSwitches
<1>6. FirstOK'
  BY <1>1 DEF FirstOK
<1> QED BY <1>4, <1>5, <1>6

(* Alt+Fn adds its frame above what it interrupts, or at the bottom of the  *)
(* foreground program's stack.                                              *)
LEMMA SwitchOutCallers ==
  ASSUME CInv, NEW t \in TERMS, SwitchOut(t), IInv'
  PROVE  CallersOK' /\ FirstOK' /\ (SwitchesOK => SwitchesOK')
<1>1. PICK p : p = Foreground
  OBVIOUS
<1>2. PICK s \in Stacks : s = EntryStack
  BY Entry DEF CInv, IInv
<1>3. PICK frames \in Seq(Frame) : frames = EntryFrames
  BY Entry DEF CInv, IInv
<1> DEFINE f == [kind |-> "switch", pid |-> p, back |-> phase]
           c == [stack |-> s, depth |-> Len(frames) + 1]
<1>4. /\ KeyboardOpen /\ p # NULL
      /\ pcb' = [pcb EXCEPT ![p] = [pcb[p] EXCEPT !.curr_esp = c]]
      /\ kstack' = [kstack EXCEPT ![s] = Append(frames, f)]
      /\ running' = s /\ current_terminal' = t /\ phase' = "switch"
      /\ UNCHANGED <<prog_count, memoryspace, pcb_loc>>
  BY <1>1, <1>2, <1>3 DEF SwitchOut
<1>5. /\ IInv /\ TypeOK /\ CallersOK /\ FirstOK
      /\ p \in PIDS /\ phase \in {"user", "wait", "switch"}
      /\ kstack \in [Stacks -> Seq(Frame)] /\ pcb \in [PIDS -> Pcb]
  BY <1>1, <1>4 DEF CInv, IInv, TypeOK, Foreground, KeyboardOpen
<1>6. f \in Frame
  BY <1>5 DEF Frame, Phases
<1>7. frames = kstack[s] \/ frames = <<>>
  BY <1>2, <1>3, <1>5, Entry
<1>8. /\ kstack' \in [Stacks -> Seq(Frame)]
      /\ Len(kstack'[s]) = Len(frames) + 1 /\ Len(frames) \in Nat
      /\ kstack'[s][Len(frames) + 1] = f
      /\ \A r \in Stacks : \A i \in 1 .. Len(kstack'[r]) :
           \/ r = s /\ i = Len(frames) + 1
           \/ i \in 1 .. Len(kstack[r]) /\ kstack'[r][i] = kstack[r][i]
  <2> HIDE DEF f
  <2> QED BY <1>4, <1>5, <1>6, <1>7, Push, LenProperties
<1>9. Live' = Live
  BY <1>4 DEF Live
<1>10. \A q \in PIDS : /\ pcb'[q].lastpcb_ptr = pcb[q].lastpcb_ptr
                       /\ pcb'[q].esp = pcb[q].esp
                       /\ pcb'[q].term_num = pcb[q].term_num
  <2> HIDE DEF c
  <2> QED BY <1>4, <1>5 DEF Pcb
<1>11. CallersOK'
  <2>1. ASSUME NEW q \in Live', CallerFound(q)
        PROVE  KeepsBottom(kstack', kstack, pcb[q].esp.stack)
    <3>1. pcb[q].esp.stack \in Stacks /\ q \in Live
      BY <1>5, <1>9 DEF IInv, PcbsOK, PcbOK, Context
    <3>2. pcb[q].esp.stack # s \/ frames = kstack[s]
      <4>1. pcb[q].esp.stack # EntryStack \/ phase # "user"
        BY <1>1, <1>4, <1>5, <2>1, <3>1, EntryKeepsCallers
      <4> QED BY <1>2, <1>3, <4>1 DEF EntryStack, EntryFrames
    <3> HIDE DEF f
    <3> QED BY <1>4, <1>5, <1>6, <3>1, <3>2, PushBottom
  <2>2. \A q \in Live' : q \in PIDS
    BY <1>9 DEF Live
  <2>3. phase # "wild"
    BY <1>5
  <2> QED BY <1>5, <1>9, <1>10, <2>1, <2>2, <2>3, CallersKeep
<1>12. SwitchesOK => SwitchesOK'
  <2> SUFFICES ASSUME SwitchesOK, NEW r \in Stacks, NEW i \in 1 .. Len(kstack'[r]),
                      kstack'[r][i].back = "switch"
               PROVE  i >= 2 /\ kstack'[r][i - 1].kind = "switch"
    BY <1>4, <1>8 DEF SwitchesOK, SwitchRuns
  <2>1. CASE i \in 1 .. Len(kstack[r]) /\ kstack'[r][i] = kstack[r][i]
    <3>1. i >= 2 /\ kstack[r][i - 1].kind = "switch"
      BY <1>5, <2>1 DEF SwitchesOK
    <3>2. i - 1 \in 1 .. Len(kstack'[r]) /\ Len(kstack'[r]) \in Nat
      BY <1>8, <3>1, LenProperties
    <3>3. r = s /\ i - 1 = Len(frames) + 1 => FALSE
      BY <1>8, <3>2
    <3> QED BY <1>8, <3>1, <3>2, <3>3
  <2>2. CASE r = s /\ i = Len(frames) + 1
    <3>1. phase = "switch"
      BY <1>8, <2>2
    <3>2. s = running /\ frames = kstack[s]
      BY <1>2, <1>3, <3>1 DEF EntryStack, EntryFrames
    <3>3. Len(frames) # 0 /\ kstack[s][Len(frames)].kind = "switch"
      BY <1>5, <3>1, <3>2 DEF SwitchesOK, SwitchRuns
    <3>4. i - 1 = Len(frames) /\ i >= 2 /\ i - 1 \in 1 .. Len(kstack'[s])
      BY <1>8, <2>2, <3>3
    <3>5. kstack'[s][i - 1] = kstack[s][i - 1]
      BY <1>8, <3>4
    <3> QED BY <2>2, <3>3, <3>4, <3>5
  <2> QED BY <1>8, <2>1, <2>2
<1>13. FirstOK'
  <2>1. prog_count[0] # 0
    BY <1>5 DEF FirstOK
  <2> QED BY <1>4, <2>1 DEF FirstOK
<1> QED BY <1>11, <1>12, <1>13

(* The frame at depth d of stack s is returned through by terminal_switch.  *)
LEMMA SwitchReturns ==
  ASSUME CInv, NEW s \in Stacks, NEW d \in 1 .. Len(kstack[s]),
         kstack[s][d].kind = "switch",
         kstack' = Returned(kstack, s, d), phase' = kstack[s][d].back,
         running' = s, phase = "switch",
         UNCHANGED <<current_terminal, prog_count, memoryspace, pcb>>
  PROVE  CallersOK' /\ FirstOK' /\ (SwitchesOK => SwitchesOK')
<1>1. /\ IInv /\ TypeOK /\ CallersOK /\ FirstOK
      /\ kstack \in [Stacks -> Seq(Frame)]
  BY DEF CInv, IInv, TypeOK
<1>2. /\ kstack' \in [Stacks -> Seq(Frame)] /\ OnlyPops(kstack', kstack)
      /\ Len(kstack'[s]) = d - 1
  BY <1>1, Pop
<1>3. Live' = Live
  BY DEF Live
<1>4. CallersOK'
  <2>1. ASSUME NEW q \in Live', CallerFound(q)
        PROVE  KeepsBottom(kstack', kstack, pcb[q].esp.stack)
    <3>1. pcb[q].esp.stack \in Stacks /\ q \in Live
      BY <1>1, <1>3 DEF IInv, PcbsOK, PcbOK, Context
    <3>2. pcb[q].esp.stack # s \/ d # 1
      BY <2>1 DEF CallerFound, AtBottom
    <3> QED BY <1>1, <3>1, <3>2, PopBottom
  <2> QED BY <1>1, <1>3, <2>1, CallersKeep
<1>5. SwitchesOK => SwitchesOK'
  <2> SUFFICES ASSUME SwitchesOK PROVE SwitchesOK'
    OBVIOUS
  <2>1. ASSUME phase' = "switch"
        PROVE  Len(kstack'[s]) # 0 /\ kstack'[s][Len(kstack'[s])].kind = "switch"
    <3>1. d >= 2 /\ kstack[s][d - 1].kind = "switch"
      BY <1>1, <2>1 DEF SwitchesOK
    <3>2. d - 1 \in 1 .. Len(kstack'[s])
      BY <1>1, <1>2, <3>1, LenProperties
    <3>3. kstack'[s][d - 1] = kstack[s][d - 1]
      BY <1>2, <3>2 DEF OnlyPops
    <3> QED BY <1>2, <3>1, <3>2, <3>3
  <2>2. ASSUME NEW r \in Stacks, NEW i \in 1 .. Len(kstack'[r]),
               kstack'[r][i].back = "switch"
        PROVE  i >= 2 /\ kstack'[r][i - 1].kind = "switch"
    BY <1>1, <1>2, <2>2, PopsKeepSwitches
  <2> QED BY <2>1, <2>2 DEF SwitchesOK, SwitchRuns
<1>6. FirstOK'
  <2>1. FrameOK(s, d)
    BY <1>1 DEF IInv, FramesOK
  <2> QED BY <1>1, <2>1 DEF FirstOK, FrameOK
<1> QED BY <1>4, <1>5, <1>6

(* Both ways out of terminal_switch onto a terminal, and giving up on it.   *)
LEMMA SwitchInCallers ==
  ASSUME CInv, Resume \/ ResumeWild \/ Strand, Strand => SwitchRuns
  PROVE  CallersOK' /\ FirstOK' /\ (SwitchesOK => SwitchesOK')
<1>1. /\ IInv /\ TypeOK /\ CallersOK /\ FirstOK
      /\ phase = "switch"
  BY DEF CInv, IInv, Resume, ResumeWild, ResumeEffect, Strand
<1>2. CASE Resume
  <2>1. PICK p : p = Foreground
    OBVIOUS
  <2>2. PICK c : c = pcb[p].curr_esp
    OBVIOUS
  <2>3. PcbOK(p) /\ UNCHANGED <<current_terminal, prog_count, memoryspace, pcb>>
    BY <1>1, <1>2, <2>1, ResumeFinds DEF Resume
  <2>4. /\ Holds(kstack, c, "switch", p) /\ running' = c.stack
        /\ phase' = kstack[c.stack][c.depth].back
        /\ kstack' = Returned(kstack, c.stack, c.depth)
    BY <1>2, <2>1, <2>2 DEF Resume, ResumeEffect
  <2>5. c.stack \in Stacks
    BY <2>2, <2>3 DEF PcbOK, Context
  <2>6. c.depth \in 1 .. Len(kstack[c.stack])
    BY <1>1, <2>4, <2>5, LenProperties DEF Holds, TypeOK
  <2>7. kstack[c.stack][c.depth].kind = "switch"
    BY <2>4 DEF Holds
  <2> QED BY <1>1, <2>3, <2>4, <2>5, <2>6, <2>7, SwitchReturns
<1>3. CASE Strand
  <2>1. /\ phase' = kstack[running][Len(kstack[running])].back
        /\ kstack' = Returned(kstack, running, Len(kstack[running]))
        /\ UNCHANGED <<current_terminal, prog_count, memoryspace, pcb, running>>
    BY <1>3 DEF Strand
  <2>2. running \in Stacks /\ Len(kstack[running]) # 0
        /\ kstack[running][Len(kstack[running])].kind = "switch"
    BY <1>1, <1>3 DEF SwitchRuns, TypeOK
  <2>3. Len(kstack[running]) \in 1 .. Len(kstack[running])
    BY <1>1, <2>2, LenProperties DEF TypeOK
  <2> QED BY <1>1, <2>1, <2>2, <2>3, SwitchReturns
<1>4. CASE ResumeWild
  <2>1. /\ UNCHANGED <<current_terminal, prog_count, kstack>>
        /\ phase' = "wild"
    BY <1>4 DEF ResumeWild, ResumeEffect
  <2> QED BY <1>1, <2>1 DEF CallersOK, SwitchesOK, FirstOK
<1> QED BY <1>2, <1>3, <1>4

(* A fault leaves every stack as it is.                                     *)
LEMMA StillCallers ==
  ASSUME CInv, (Panic /\ phase # "wild") \/ UNCHANGED vars
  PROVE  CallersOK' /\ FirstOK' /\ (SwitchesOK => SwitchesOK')
<1>1. /\ UNCHANGED <<current_terminal, prog_count, memoryspace, pcb, running,
                     kstack>>
      /\ phase' = phase \/ (phase' = "panic" /\ phase # "wild")
      /\ CallersOK /\ FirstOK
  <2>1. CASE Panic /\ phase # "wild"
    BY <2>1 DEF Panic, CInv
  <2>2. CASE UNCHANGED vars
    <3>1. /\ UNCHANGED <<current_terminal, prog_count, memoryspace, pcb,
                         running, kstack>>
          /\ phase' = phase
      BY <2>2 DEF vars
    <3> QED BY <3>1 DEF CInv
  <2> QED BY <2>1, <2>2
<1>2. Live' = Live
  BY <1>1 DEF Live
<1>3. CallersOK'
  BY <1>1, <1>2 DEF CallersOK, ReturnsTo, CallerFound, AtBottom
<1>4. FirstOK' /\ (SwitchesOK => SwitchesOK')
  BY <1>1 DEF SwitchesOK, SwitchRuns, FirstOK
<1> QED BY <1>3, <1>4

LEMMA InitFInv == Init => FInv
<1> SUFFICES ASSUME Init PROVE FInv
  OBVIOUS
<1>1. IInv
  BY InitIInv
<1>2. Live = {}
  BY DEF Init, Live
<1>3. \A s \in Stacks : Len(kstack[s]) = 0
  BY DEF Init
<1>4. CallersOK /\ SwitchesOK /\ FirstOK
  BY <1>2, <1>3 DEF Init, CallersOK, SwitchesOK, FirstOK, Stacks
<1> QED BY <1>1, <1>4 DEF FInv, CInv

(* Every step loses no caller, and leaves terminal_switch where it was, as  *)
(* long as terminal_switch does not give up from a frame of execute.        *)
LEMMA NextCallers ==
  ASSUME CInv, [Next]_vars, Strand => SwitchRuns
  PROVE  CInv' /\ (SwitchesOK => SwitchesOK')
<1>1. IInv /\ IInv'
  BY NextIInv DEF CInv
<1> SUFFICES CallersOK' /\ FirstOK' /\ (SwitchesOK => SwitchesOK')
  BY <1>1 DEF CInv
<1>2. CASE Execute
  <2>1. phase = "user" /\ TaskCount < MAX_PROCESSES
        /\ ExecuteOn(esp0, <<>>, "user")
    BY <1>2 DEF Execute, ExecuteOn, ProgInit
  <2>2. prog_count[current_terminal] # 0
    BY <1>1, <2>1, MaxAssumption DEF IInv, EmptyOK, TypeOK, TaskCount
  <2>3. esp0 = Foreground /\ esp0 \in Stacks
    BY <1>1, <2>1, <2>2 DEF IInv, CurrentIsRunning, TypeOK
  <2>4. <<>> \in Seq(Frame) /\ "user" \in Phases
    BY EmptySeq DEF Phases
  <2> QED BY <2>1, <2>2, <2>3, <2>4, ExecuteCallers
<1>3. CASE Launch
  <2>1. /\ ExecuteOn(running, kstack[running], "launch")
        /\ phase \notin {"panic", "wild"} /\ prog_count[current_terminal] = 0
    BY <1>1, <1>3 DEF Launch, IInv, EmptyOK
  <2>2. /\ running \in Stacks /\ kstack[running] \in Seq(Frame)
        /\ "launch" \in Phases
    BY <1>1 DEF IInv, TypeOK, Phases
  <2> QED BY <2>1, <2>2, ExecuteCallers
<1>4. CASE Halt \/ HaltWild
  BY <1>4, HaltCallers
<1>5. CASE WaitBegin \/ WaitEnd
  BY <1>5, WaitCallers
<1>6. CASE \E t \in TERMS : SwitchOut(t)
  BY <1>1, <1>6, SwitchOutCallers
<1>7. CASE Resume \/ ResumeWild \/ Strand
  BY <1>7, SwitchInCallers
<1>8. CASE SwitchFault \/ Exception \/ Hang \/ UNCHANGED vars
  <2>1. (Panic /\ phase # "wild") \/ UNCHANGED vars
    BY <1>8 DEF SwitchFault, Exception, Hang, KeyboardOpen
  <2> QED BY <2>1, StillCallers
<1> QED BY <1>2, <1>3, <1>4, <1>5, <1>6, <1>7, <1>8 DEF Next

LEMMA NextFInv == FInv /\ [Next]_vars => FInv'
<1>1. FInv => (Strand => SwitchRuns)
  BY DEF FInv, SwitchesOK, Strand
<1> QED BY <1>1, NextCallers DEF FInv

(* What a caller found says in the terms of the property.                   *)
LEMMA CInvReturns == CInv => ReturnFrames
<1> SUFFICES ASSUME CInv, phase # "wild", NEW p \in Live, ReturnsTo(p)
             PROVE  Holds(kstack, pcb[p].esp, "execute", p)
  BY DEF ReturnFrames, ReturnsTo
<1>1. CallerFound(p) /\ kstack \in [Stacks -> Seq(Frame)]
      /\ pcb[p].esp \in Context
  BY DEF CInv, CallersOK, IInv, TypeOK, PcbsOK, PcbOK
<1> QED BY <1>1, HoldsBottom DEF CallerFound

(* The frame halt returns to: however programs are started, halted and      *)
(* switched between, with any nesting of terminal switches, the execute     *)
(* call that started a program is still on its parent's kernel stack, and   *)
(* that of TERM_1's shell on the boot stack, until the program halts.       *)
THEOREM CallersStay == Spec => []ReturnFrames
<1>1. Spec => []FInv
  BY InitFInv, NextFInv, PTL DEF Spec
<1>2. FInv => ReturnFrames
  BY CInvReturns DEF FInv
<1> QED BY <1>1, <1>2, PTL
-----------------------------------------------------------------------------
(***************************************************************************)
(* The contexts of terminals in the background, when no Alt+Fn interrupts  *)
(* another terminal_switch (NESTING = 0; Tasks_nested_resume shows that    *)
(* with nesting they are lost).                                            *)
(***************************************************************************)

(* The context of a program in the background is the oldest frame of its    *)
(* own stack.                                                               *)
ContextFound(p) ==
  /\ pcb[p].curr_esp = [stack |-> p, depth |-> 1]
  /\ AtBottom(kstack, p, "switch", p)

(* A program runs under a terminal that has none.                           *)
Stranded == phase \in {"user", "wait"} /\ prog_count[current_terminal] = 0

InBackground(t) ==
  prog_count[t] # 0 /\ (t # current_terminal \/ phase = "switch")

BackgroundOK ==
  /\ phase \notin {"wild", "panic"} /\ ~ Stranded =>
       \A t \in TERMS : InBackground(t) => ContextFound(pcb_loc[t])
  /\ phase = "wait" /\ prog_count[current_terminal] # 0 =>
       kstack[running] = <<>>
  /\ \A s \in Stacks : \A i \in 1 .. Len(kstack[s]) :
       kstack[s][i].back # "switch"

BInv == FInv /\ BackgroundOK

(* Losing frames brings no nested terminal_switch.                          *)
LEMMA PopsKeepUnnested ==
  ASSUME BackgroundOK, OnlyPops(kstack', kstack),
         NEW s \in Stacks, NEW i \in 1 .. Len(kstack'[s])
  PROVE  kstack'[s][i].back # "switch"
<1> QED BY DEF BackgroundOK, OnlyPops

(* The programs shown by terminals are distinct.                            *)
LEMMA ForegroundsDistinct ==
  ASSUME IInv, phase # "wild"
  PROVE  /\ \A t \in TERMS : prog_count[t] # 0 =>
              pcb_loc[t] \in Live /\ pcb[pcb_loc[t]].term_num = t
         /\ \A t, u \in TERMS : prog_count[t] # 0 /\ prog_count[u] # 0
              /\ pcb_loc[t] = pcb_loc[u] => t = u
<1>1. PICK d \in [PIDS -> PIDS] : Levels(d) /\ ForegroundOK(d)
  BY DEF IInv, ChainOK
<1>2. \A t \in TERMS : prog_count[t] # 0 =>
        pcb_loc[t] \in Live /\ pcb[pcb_loc[t]].term_num = t
  BY <1>1 DEF ForegroundOK
<1> QED BY <1>2

(* execute, from the foreground program or on an empty terminal, leaves the *)
(* programs in the background alone.                                        *)
LEMMA ExecuteContexts ==
  ASSUME BInv, phase \notin {"panic", "wild"}, ~ Stranded,
         NEW s \in Stacks, NEW frames \in Seq(Frame), NEW back \in Phases,
         back # "switch",
         \/ prog_count[current_terminal] = 0 /\ frames = kstack[s]
         \/ /\ prog_count[current_terminal] # 0
            /\ s = Foreground /\ frames = <<>>,
         ExecuteOn(s, frames, back)
  PROVE  BackgroundOK'
<1> USE MaxAssumption
<1>0. PICK t \in TERMS : t = current_terminal
  BY DEF BInv, FInv, CInv, IInv, TypeOK
<1> DEFINE entry(p) == [kind |-> "execute", pid |-> p, back |-> back]
<1>1. PICK p \in ScanResult :
        /\ prog_count' = [prog_count EXCEPT ![t] = @ + 1]
        /\ pcb_loc' = [pcb_loc EXCEPT ![t] = p]
        /\ pcb' = [pcb EXCEPT ![p] =
                     [lastpcb_ptr |-> PrevPcb(p),
                      esp |-> [stack |-> s, depth |-> Len(frames) + 1],
                      pagedir |-> cr3,
                      curr_esp |-> [stack |-> p, depth |-> 0],
                      curr_pd |-> p,
                      term_num |-> t]]
        /\ kstack' = [kstack EXCEPT ![s] = Append(frames, entry(p))]
        /\ phase' = "user"
        /\ current_terminal' = t
  BY <1>0 DEF ExecuteOn, ProgInit
<1>2. TaskCount < MAX_PROCESSES /\ IInv /\ TypeOK /\ BackgroundOK
  BY DEF ExecuteOn, ProgInit, BInv, FInv, CInv, IInv
<1>3. p \in PIDS /\ p \notin Live
  BY <1>2, FreeNumber DEF IInv
<1>4. entry(p) \in Frame /\ kstack \in [Stacks -> Seq(Frame)]
  BY <1>2, <1>3 DEF Frame, TypeOK
<1>5. \A r \in Stacks : \A i \in 1 .. Len(kstack'[r]) :
        kstack'[r][i].back # "switch"
  <2> HIDE DEF entry
  <2>1. frames = kstack[s] \/ frames = <<>>
    OBVIOUS
  <2>2. /\ kstack'[s][Len(frames) + 1] = entry(p)
        /\ \A r \in Stacks : \A i \in 1 .. Len(kstack'[r]) :
             \/ r = s /\ i = Len(frames) + 1
             \/ i \in 1 .. Len(kstack[r]) /\ kstack'[r][i] = kstack[r][i]
    BY <1>1, <1>4, <2>1, Push
  <2>3. entry(p).back # "switch"
    BY DEF entry
  <2> QED BY <1>2, <2>2, <2>3 DEF BackgroundOK
<1>6. ASSUME NEW u \in TERMS, InBackground(u)'
      PROVE  ContextFound(pcb_loc[u])' /\ pcb_loc'[u] = pcb_loc[u]
  <2>1. u # t /\ prog_count[u] # 0
    BY <1>1, <1>2, <1>6 DEF InBackground, TypeOK
  <2>2. /\ ContextFound(pcb_loc[u])
        /\ pcb_loc[u] \in Live /\ pcb_loc[u] \in Stacks
    BY <1>0, <1>2, <2>1, ForegroundsDistinct
       DEF BackgroundOK, InBackground, Live, Stacks
  <2>3. pcb_loc[u] # s \/ frames = kstack[s]
    BY <1>0, <1>2, <2>1, ForegroundsDistinct DEF Foreground
  <2>4. KeepsBottom(kstack', kstack, pcb_loc[u])
    <3> HIDE DEF entry
    <3> QED BY <1>1, <1>4, <2>2, <2>3, PushBottom
  <2>5. pcb_loc'[u] = pcb_loc[u]
    BY <1>1, <1>2, <2>1 DEF TypeOK
  <2>6. pcb'[pcb_loc[u]] = pcb[pcb_loc[u]]
    BY <1>1, <1>2, <1>3, <2>2 DEF TypeOK, Live
  <2>7. ContextFound(pcb_loc[u])'
    BY <2>2, <2>4, <2>5, <2>6 DEF ContextFound, AtBottom, KeepsBottom
  <2> QED BY <2>5, <2>7
<1> QED BY <1>1, <1>5, <1>6 DEF BackgroundOK

(* halt returns through the frame of an execute call, and the background    *)
(* programs' oldest frames are those of terminal_switch.                    *)
LEMMA HaltContexts ==
  ASSUME BInv, Halt
  PROVE  BackgroundOK'
<1>1. PICK t \in TERMS : t = current_terminal
  BY DEF BInv, FInv, CInv, IInv, TypeOK
<1>2. PICK p : p = Foreground
  OBVIOUS
<1>3. PICK c : c = pcb[p].esp
  OBVIOUS
<1>4. /\ IInv /\ TypeOK /\ BackgroundOK
      /\ HaltEffect /\ phase = "user" /\ p # NULL
      /\ Holds(AfterEntry, c, "execute", p)
      /\ phase' = AfterEntry[c.stack][c.depth].back
      /\ kstack' = Returned(AfterEntry, c.stack, c.depth)
      /\ pcb_loc' = IF prog_count'[t] # 0
                    THEN [pcb_loc EXCEPT ![t] = pcb[p].lastpcb_ptr] ELSE pcb_loc
  BY <1>1, <1>2, <1>3 DEF BInv, FInv, CInv, IInv, Halt, HaltEffect
<1>5. /\ prog_count[t] # 0 /\ p \in Live /\ p \in Stacks
      /\ EntryStack = p /\ PcbOK(p) /\ CallerOK(p)
  BY <1>1, <1>2, <1>4, NoCallerOnForeground
<1>6. /\ prog_count' = [prog_count EXCEPT ![t] = @ - 1]
      /\ pcb' = pcb /\ current_terminal' = t
  BY <1>1, <1>4 DEF HaltEffect
<1>7. AfterEntry \in [Stacks -> Seq(Frame)] /\ OnlyPops(AfterEntry, kstack)
  BY <1>4, Entry
<1>8. /\ c.stack \in Stacks
      /\ c.depth \in 1 .. Len(AfterEntry[c.stack])
      /\ AfterEntry[c.stack][c.depth] = kstack[c.stack][c.depth]
      /\ c.depth \in 1 .. Len(kstack[c.stack])
  <2>1. c.stack \in Stacks
    BY <1>3, <1>5 DEF PcbOK, Context
  <2>2. c.depth \in 1 .. Len(AfterEntry[c.stack])
    BY <1>4, <1>7, <2>1, LenProperties DEF Holds
  <2> QED BY <1>7, <2>1, <2>2 DEF OnlyPops
<1>9. phase' \in {"launch", "user"}
  <2>1. Holds(kstack, c, "execute", p)
    <3>1. DOMAIN kstack[c.stack] = 1 .. Len(kstack[c.stack])
      BY <1>4, <1>8, LenProperties DEF TypeOK
    <3> QED BY <1>4, <1>8, <3>1 DEF Holds
  <2> QED BY <1>3, <1>4, <1>5, <1>8, <2>1 DEF CallerOK
<1>10. OnlyPops(kstack', kstack)
  <2>1. OnlyPops(kstack', AfterEntry)
    BY <1>4, <1>7, <1>8, Pop
  <2> QED BY <1>7, <2>1 DEF OnlyPops
<1>11. ASSUME NEW u \in TERMS, InBackground(u)'
       PROVE  ContextFound(pcb_loc[u])' /\ pcb_loc'[u] = pcb_loc[u]
  <2>1. u # t /\ prog_count[u] # 0
    BY <1>4, <1>6, <1>9, <1>11 DEF InBackground, TypeOK
  <2>2. /\ ContextFound(pcb_loc[u])
        /\ pcb_loc[u] \in Live /\ pcb_loc[u] \in Stacks /\ pcb_loc[u] # p
    BY <1>1, <1>2, <1>4, <1>5, <2>1, ForegroundsDistinct
       DEF BackgroundOK, InBackground, Stranded, Live, Stacks, Foreground
  <2>3. KeepsBottom(AfterEntry, kstack, pcb_loc[u])
    BY <1>4, <1>5, <2>2, EntryBottom
  <2>4. pcb_loc[u] # c.stack \/ c.depth # 1
    BY <1>4, <1>8, <2>2 DEF ContextFound, AtBottom, Holds
  <2>5. KeepsBottom(kstack', AfterEntry, pcb_loc[u])
    BY <1>4, <1>7, <1>8, <2>2, <2>4, PopBottom
  <2>6. pcb_loc'[u] = pcb_loc[u]
    BY <1>4, <2>1 DEF TypeOK
  <2>7. ContextFound(pcb_loc[u])'
    BY <1>6, <2>2, <2>3, <2>5, <2>6 DEF ContextFound, AtBottom, KeepsBottom
  <2> QED BY <2>6, <2>7
<1>12. \A s \in Stacks : \A i \in 1 .. Len(kstack'[s]) :
         kstack'[s][i].back # "switch"
  BY <1>4, <1>10, PopsKeepUnnested
<1> QED BY <1>9, <1>11, <1>12 DEF BackgroundOK

(* A wait starts on the foreground program's stack, emptied.                *)
LEMMA WaitContexts ==
  ASSUME BInv, WaitBegin \/ WaitEnd
  PROVE  BackgroundOK'
<1>1. /\ UNCHANGED <<current_terminal, prog_count, pcb_loc, pcb>>
      /\ phase \in {"user", "wait"} /\ phase' \in {"user", "wait"}
      /\ \/ /\ phase = "user" /\ Foreground # NULL
            /\ kstack' = AfterEntry /\ running' = esp0
         \/ kstack' = kstack /\ phase' = "user"
      /\ IInv /\ TypeOK /\ BackgroundOK
  BY DEF WaitBegin, WaitEnd, BInv, FInv, CInv, IInv
<1>2. kstack' \in [Stacks -> Seq(Frame)] /\ OnlyPops(kstack', kstack)
  BY <1>1, Entry DEF TypeOK, OnlyPops
<1>3. \A s \in Stacks : \A i \in 1 .. Len(kstack'[s]) :
        kstack'[s][i].back # "switch"
  BY <1>1, <1>2, PopsKeepUnnested
<1>4. ASSUME NEW u \in TERMS, InBackground(u)', ~ Stranded'
      PROVE  ContextFound(pcb_loc[u])'
  <2>1. /\ u # current_terminal /\ prog_count[u] # 0
        /\ prog_count[current_terminal] # 0
    BY <1>1, <1>4 DEF InBackground, Stranded
  <2>2. /\ ContextFound(pcb_loc[u])
        /\ pcb_loc[u] \in Stacks /\ pcb_loc[u] # Foreground
    BY <1>1, <2>1, ForegroundsDistinct
       DEF BackgroundOK, InBackground, Stranded, Live, Stacks, Foreground, TypeOK
  <2>3. KeepsBottom(kstack', kstack, pcb_loc[u])
    <3>1. CASE kstack' = kstack
      BY <3>1 DEF KeepsBottom
    <3>2. CASE phase = "user" /\ Foreground # NULL /\ kstack' = AfterEntry
      BY <1>1, <2>2, <3>2, NoCallerOnForeground, EntryBottom
    <3> QED BY <1>1, <3>1, <3>2
  <2> QED BY <1>1, <2>2, <2>3 DEF ContextFound, AtBottom, KeepsBottom
<1>5. phase' = "wait" => kstack'[running'] = <<>>
  <2> SUFFICES ASSUME phase' = "wait" PROVE kstack'[running'] = <<>>
    OBVIOUS
  <2>1. /\ phase = "user" /\ Foreground # NULL
        /\ kstack' = AfterEntry /\ running' = esp0
    BY <1>1
  <2> QED BY <1>1, <2>1, NoCallerOnForeground DEF AfterEntry, TypeOK
<1> QED BY <1>1, <1>3, <1>4, <1>5 DEF BackgroundOK

(* Alt+Fn saves the context of the program it interrupts at the bottom of   *)
(* that program's own stack.                                                *)
LEMMA SwitchOutContexts ==
  ASSUME NESTING = 0, BInv, NEW t \in TERMS, SwitchOut(t)
  PROVE  BackgroundOK'
<1>0. PICK p : p = Foreground
  OBVIOUS
<1> DEFINE f == [kind |-> "switch", pid |-> p, back |-> phase]
<1>1. /\ IInv /\ TypeOK /\ BackgroundOK
      /\ kstack \in [Stacks -> Seq(Frame)]
      /\ KeyboardOpen /\ Foreground # NULL
  BY DEF BInv, FInv, CInv, IInv, TypeOK, SwitchOut
<1>2. phase \in {"user", "wait"}
  <2>1. phase = "switch" => Len(kstack[running]) \in Nat \ {0}
    BY <1>1, LenProperties DEF BInv, FInv, SwitchesOK, SwitchRuns, TypeOK
  <2> QED BY <1>1, <2>1 DEF KeyboardOpen
<1>3. prog_count[current_terminal] # 0
  BY <1>1, <1>2 DEF IInv, EmptyOK, Foreground, TypeOK
<1>4. /\ p \in Live /\ p \in PIDS /\ p \in Stacks
      /\ EntryStack = p /\ EntryFrames = <<>>
  BY <1>0, <1>1, <1>2, <1>3 DEF IInv, CurrentIsRunning, EntryStack, EntryFrames,
     BackgroundOK, Live, Stacks
<1>5. /\ pcb' = [pcb EXCEPT ![p].curr_esp = [stack |-> p, depth |-> 1]]
      /\ kstack' = [kstack EXCEPT ![p] = Append(<<>>, f)]
      /\ current_terminal' = t /\ phase' = "switch"
      /\ UNCHANGED <<prog_count, pcb_loc>>
  <2>1. Len(<<>>) + 1 = 1
    OBVIOUS
  <2> QED BY <1>0, <1>4, <2>1 DEF SwitchOut
<1>6. f \in Frame /\ <<>> \in Seq(Frame)
  BY <1>2, <1>4, EmptySeq DEF Frame, Phases
<1> HIDE DEF f
<1>7. /\ kstack' \in [Stacks -> Seq(Frame)]
      /\ Len(kstack'[p]) = 1 /\ kstack'[p][1] = f
      /\ \A r \in Stacks : \A i \in 1 .. Len(kstack'[r]) :
           \/ r = p /\ i = 1
           \/ i \in 1 .. Len(kstack[r]) /\ kstack'[r][i] = kstack[r][i]
  <2>1. Len(<<>>) + 1 = 1
    OBVIOUS
  <2> QED BY <1>1, <1>4, <1>5, <1>6, <2>1, Push
<1>8. \A r \in Stacks : \A i \in 1 .. Len(kstack'[r]) :
        kstack'[r][i].back # "switch"
  <2>1. f.back # "switch"
    BY <1>2 DEF f
  <2> QED BY <1>1, <1>7, <2>1 DEF BackgroundOK
<1>9. ContextFound(p)'
  <2>1. pcb \in [PIDS -> Pcb]
    BY <1>1 DEF TypeOK
  <2>2. pcb'[p].curr_esp = [stack |-> p, depth |-> 1]
    BY <1>4, <1>5, <2>1 DEF Pcb
  <2>3. f.kind = "switch" /\ f.pid = p
    BY DEF f
  <2>4. AtBottom(kstack', p, "switch", p)
    BY <1>7, <2>3 DEF AtBottom
  <2> QED BY <2>2, <2>4 DEF ContextFound
<1>10. ASSUME NEW u \in TERMS, prog_count[u] # 0
       PROVE  ContextFound(pcb_loc[u])'
  <2>1. CASE u = current_terminal
    BY <1>0, <1>5, <1>9, <2>1 DEF ContextFound, Foreground
  <2>2. CASE u # current_terminal
    <3>1. /\ ContextFound(pcb_loc[u])
          /\ pcb_loc[u] \in Stacks /\ pcb_loc[u] # p
      BY <1>0, <1>1, <1>2, <1>3, <1>10, <2>2, ForegroundsDistinct
         DEF BackgroundOK, InBackground, Stranded, Live, Stacks, Foreground,
             TypeOK
    <3>2. kstack'[pcb_loc[u]] = kstack[pcb_loc[u]]
      BY <1>1, <1>4, <1>5, <3>1
    <3>3. pcb'[pcb_loc[u]] = pcb[pcb_loc[u]]
      BY <1>5, <3>1
    <3> QED BY <1>5, <3>1, <3>2, <3>3 DEF ContextFound, AtBottom
  <2> QED BY <2>1, <2>2
<1> QED BY <1>5, <1>8, <1>10 DEF BackgroundOK, InBackground

(* terminal_switch returning through the context it loads, or through its   *)
(* own frame on an empty terminal.                                          *)
LEMMA ResumeContexts ==
  ASSUME BInv, Resume
  PROVE  BackgroundOK'
<1>1. PICK p : p = Foreground
  OBVIOUS
<1>2. /\ IInv /\ TypeOK /\ BackgroundOK /\ phase = "switch"
      /\ kstack \in [Stacks -> Seq(Frame)] /\ current_terminal \in TERMS
      /\ prog_count[current_terminal] # 0
      /\ p \in Stacks /\ running' = pcb[p].curr_esp.stack
      /\ UNCHANGED <<current_terminal, prog_count, pcb_loc, pcb>>
  BY <1>1, ResumeFinds
     DEF Resume, ResumeEffect, BInv, FInv, CInv, IInv, TypeOK, Live, Stacks
<1>3. /\ pcb[p].curr_esp = [stack |-> p, depth |-> 1]
      /\ AtBottom(kstack, p, "switch", p)
  BY <1>1, <1>2 DEF BackgroundOK, InBackground, Foreground, ContextFound, Stranded
<1>4. /\ 1 \in 1 .. Len(kstack[p]) /\ running' = p
      /\ phase' = kstack[p][1].back
      /\ kstack' = Returned(kstack, p, 1)
  <2>1. 1 \in 1 .. Len(kstack[p])
    BY <1>2, <1>3, LenProperties DEF AtBottom
  <2> QED BY <1>1, <1>2, <1>3, <2>1 DEF Resume
<1>5. phase' # "switch"
  BY <1>2, <1>4 DEF BackgroundOK
<1>6. /\ kstack' \in [Stacks -> Seq(Frame)] /\ OnlyPops(kstack', kstack)
      /\ Len(kstack'[p]) = 1 - 1
  BY <1>2, <1>4, Pop
<1>7. kstack'[running'] = <<>>
  BY <1>2, <1>4, <1>6, EmptySeq
<1>8. ASSUME NEW u \in TERMS, InBackground(u)'
      PROVE  ContextFound(pcb_loc[u])'
  <2>1. u # current_terminal /\ prog_count[u] # 0
    BY <1>2, <1>5, <1>8 DEF InBackground
  <2>2. /\ ContextFound(pcb_loc[u])
        /\ pcb_loc[u] \in Stacks /\ pcb_loc[u] # p
    BY <1>1, <1>2, <2>1, ForegroundsDistinct
       DEF BackgroundOK, InBackground, Stranded, Live, Stacks, Foreground
  <2>3. KeepsBottom(kstack', kstack, pcb_loc[u])
    BY <1>2, <1>4, <2>2, PopBottom
  <2> QED BY <1>2, <2>2, <2>3 DEF ContextFound, AtBottom, KeepsBottom
<1>9. \A s \in Stacks : \A i \in 1 .. Len(kstack'[s]) :
        kstack'[s][i].back # "switch"
  BY <1>2, <1>6, PopsKeepUnnested
<1> QED BY <1>7, <1>8, <1>9 DEF BackgroundOK

LEMMA StrandContexts ==
  ASSUME BInv, Strand
  PROVE  BackgroundOK'
<1>1. /\ IInv /\ TypeOK /\ BackgroundOK /\ SwitchesOK
      /\ phase = "switch" /\ running \in Stacks
      /\ kstack \in [Stacks -> Seq(Frame)]
      /\ prog_count'[current_terminal'] = 0
      /\ phase' = kstack[running][Len(kstack[running])].back
      /\ kstack' = Returned(kstack, running, Len(kstack[running]))
  BY DEF Strand, BInv, FInv, CInv, IInv, TypeOK
<1>2. Len(kstack[running]) \in 1 .. Len(kstack[running])
  BY <1>1, LenProperties DEF SwitchesOK, SwitchRuns
<1>3. OnlyPops(kstack', kstack)
  BY <1>1, <1>2, Pop
<1>4. \A s \in Stacks : \A i \in 1 .. Len(kstack'[s]) :
        kstack'[s][i].back # "switch"
  BY <1>1, <1>3, PopsKeepUnnested
<1>5. Stranded'
  <2>1. /\ FrameOK(running, Len(kstack[running]))
        /\ kstack[running][Len(kstack[running])].back # "switch"
        /\ kstack[running][Len(kstack[running])].kind = "switch"
    BY <1>1, <1>2 DEF IInv, FramesOK, BackgroundOK, SwitchesOK, SwitchRuns
  <2> QED BY <1>1, <2>1 DEF FrameOK, Stranded
<1> QED BY <1>1, <1>4, <1>5 DEF BackgroundOK, Stranded

LEMMA InitBInv == Init => BInv
<1> SUFFICES ASSUME Init PROVE BackgroundOK
  BY InitFInv DEF BInv
<1>1. \A s \in Stacks : Len(kstack[s]) = 0
  BY DEF Init
<1>2. \A t \in TERMS : ~ InBackground(t)
  BY DEF Init, InBackground
<1> QED BY <1>1, <1>2 DEF Init, BackgroundOK

LEMMA NextBInv ==
  ASSUME NESTING = 0
  PROVE  BInv /\ [Next]_vars => BInv'
<1> SUFFICES ASSUME BInv, [Next]_vars PROVE BackgroundOK'
  BY NextFInv DEF BInv
<1>1. IInv /\ TypeOK /\ BackgroundOK
  BY DEF BInv, FInv, CInv, IInv
<1>2. CASE Execute
  <2>1. phase = "user" /\ TaskCount < MAX_PROCESSES
        /\ ExecuteOn(esp0, <<>>, "user")
    BY <1>2 DEF Execute, ExecuteOn, ProgInit
  <2>2. prog_count[current_terminal] # 0
    BY <1>1, <2>1, MaxAssumption DEF IInv, EmptyOK, TypeOK, TaskCount
  <2>3. esp0 = Foreground /\ esp0 \in Stacks /\ ~ Stranded
    BY <1>1, <2>1, <2>2 DEF IInv, CurrentIsRunning, TypeOK, Stranded
  <2>4. <<>> \in Seq(Frame) /\ "user" \in Phases
    BY EmptySeq DEF Phases
  <2> QED BY <2>1, <2>2, <2>3, <2>4, ExecuteContexts
<1>3. CASE Launch
  <2>1. /\ ExecuteOn(running, kstack[running], "launch")
        /\ phase \notin {"panic", "wild"} /\ prog_count[current_terminal] = 0
        /\ ~ Stranded
    BY <1>1, <1>3 DEF Launch, IInv, EmptyOK, Stranded
  <2>2. /\ running \in Stacks /\ kstack[running] \in Seq(Frame)
        /\ "launch" \in Phases
    BY <1>1 DEF TypeOK, Phases
  <2> QED BY <2>1, <2>2, ExecuteContexts
<1>4. CASE Halt
  BY <1>4, HaltContexts
<1>5. CASE WaitBegin \/ WaitEnd
  BY <1>5, WaitContexts
<1>6. CASE \E t \in TERMS : SwitchOut(t)
  BY <1>6, SwitchOutContexts
<1>7. CASE Resume
  BY <1>7, ResumeContexts
<1>8. CASE Strand
  BY <1>8, StrandContexts
<1>9. CASE ResumeWild
  <2>1. phase' = "wild" /\ kstack' = kstack
    BY <1>9 DEF ResumeWild
  <2> QED BY <1>1, <2>1 DEF BackgroundOK
<1>10. CASE HaltWild
  <2>1. phase' = "wild" /\ kstack' = AfterEntry
    BY <1>10 DEF HaltWild
  <2>2. OnlyPops(kstack', kstack)
    BY <1>1, <2>1, Entry
  <2>3. \A s \in Stacks : \A i \in 1 .. Len(kstack'[s]) :
          kstack'[s][i].back # "switch"
    BY <1>1, <2>2, PopsKeepUnnested
  <2> QED BY <2>1, <2>3 DEF BackgroundOK
<1>11. CASE SwitchFault \/ Exception
  <2>1. phase' = "panic" /\ kstack' = kstack
    BY <1>11 DEF SwitchFault, Exception, Panic
  <2> QED BY <1>1, <2>1 DEF BackgroundOK
<1>12. CASE Hang \/ UNCHANGED vars
  <2>1. UNCHANGED vars
    BY <1>12 DEF Hang
  <2>2. UNCHANGED <<current_terminal, prog_count, pcb_loc, pcb, running, kstack,
                    phase>>
    BY <2>1 DEF vars
  <2>3. (Stranded' <=> Stranded)
        /\ \A t : (InBackground(t)' <=> InBackground(t))
                  /\ (ContextFound(pcb_loc[t])' <=> ContextFound(pcb_loc[t]))
    BY <2>2 DEF Stranded, InBackground, ContextFound, AtBottom
  <2> QED BY <1>1, <2>2, <2>3 DEF BackgroundOK
<1> QED BY <1>2, <1>3, <1>4, <1>5, <1>6, <1>7, <1>8, <1>9, <1>10, <1>11, <1>12
        DEF Next

(* What a context found says in the terms of the property.                  *)
LEMMA BInvResumes == BInv => ResumeFrames
<1> SUFFICES ASSUME BInv, phase \notin {"wild", "panic"},
                    phase = "switch" \/ prog_count[current_terminal] # 0,
                    NEW t \in TERMS, InBackground(t)
             PROVE  Holds(kstack, pcb[pcb_loc[t]].curr_esp, "switch", pcb_loc[t])
  BY DEF ResumeFrames, InBackground
<1>1. ContextFound(pcb_loc[t])
  BY DEF BInv, BackgroundOK, Stranded
<1>2. pcb_loc[t] \in Stacks /\ kstack \in [Stacks -> Seq(Frame)]
  BY ForegroundsDistinct
     DEF BInv, FInv, CInv, IInv, TypeOK, InBackground, Live, Stacks
<1>3. [stack |-> pcb_loc[t], depth |-> 1] \in Context
  BY <1>2 DEF Context
<1> QED BY <1>1, <1>2, <1>3, HoldsBottom DEF ContextFound

(* The context terminal_switch loads: as long as no Alt+Fn interrupts an    *)
(* unfinished terminal_switch, the context saved for the program each       *)
(* background terminal shows is still on that program's own kernel stack,   *)
(* however programs run, wait and halt in the foreground.                   *)
THEOREM ContextsStay ==
  ASSUME NESTING = 0
  PROVE  Spec => []ResumeFrames
<1>1. Init => BInv
  BY InitBInv
<1>2. BInv /\ [Next]_vars => BInv'
  BY NextBInv
<1>3. BInv => ResumeFrames
  BY BInvResumes
<1> QED BY <1>1, <1>2, <1>3, PTL DEF Spec
-----------------------------------------------------------------------------
(***************************************************************************)
(* The refinement of ProcessStacks.  The stack of a terminal is its chain   *)
(* of parent pointers, read from the foreground program up.                 *)
(***************************************************************************)

(* A set of natural numbers has a least element.                            *)
LEMMA Least ==
  ASSUME NEW T, T \subseteq Nat, T # {}
  PROVE  \E x \in T : \A y \in T : x <= y
<1>1. PICK R : R = {ss \in Nat \X Nat : ss[1] < ss[2]}
  OBVIOUS
<1>2. IsWellFoundedOn(R, Nat)
  BY <1>1, NatLessThanWellFounded DEF OpToRel
<1>3. PICK x \in T : \A y \in T : ~ (<<y, x>> \in R)
  BY <1>2, WFMin
<1>4. ASSUME NEW y \in T PROVE x <= y
  <2>1. x \in Nat /\ y \in Nat
    OBVIOUS
  <2>2. y < x => <<y, x>> \in R
    BY <1>1, <2>1
  <2> QED BY <1>3, <2>1, <2>2
<1> QED BY <1>4

(* The programs from loc up, n parent pointers.                             *)
IsUp(g, loc, n, pcbs) ==
  g = [k \in 0 .. n |-> IF k = 0 THEN loc ELSE pcbs[g[k - 1]].lastpcb_ptr]

LEMMA AncestryIs ==
  \A t : Ancestry(t) = CHOOSE g : IsUp(g, pcb_loc[t], prog_count[t], pcb)
<1> QED BY Zenon DEF Ancestry, IsUp

(* A sequence of programs is the chain of terminal t.                       *)
IsStack(t, s) ==
  /\ s \in Seq(PIDS) /\ Len(s) = prog_count[t]
  /\ \A i \in 1 .. Len(s) : s[i] \in Live /\ pcb[s[i]].term_num = t
  /\ Len(s) # 0 => s[Len(s)] = pcb_loc[t]
  /\ \A i \in 1 .. Len(s) - 1 : s[i] = pcb[s[i + 1]].lastpcb_ptr

(* There is one program of each level in the chain of a terminal.           *)
LEMMA LevelsFilled ==
  ASSUME IInv, phase # "wild", NEW d \in [PIDS -> PIDS], Levels(d),
         ForegroundOK(d), NEW t \in TERMS, NEW k \in 0 .. prog_count[t] - 1
  PROVE  \E p \in Live : pcb[p].term_num = t /\ d[p] = k
<1>1. PICK n \in Nat : n = prog_count[t]
  BY DEF IInv, TypeOK
<1>2. PICK T : T = {j \in 0 .. n - 1 :
                     ~ \E p \in Live : pcb[p].term_num = t /\ d[p] = n - 1 - j}
  OBVIOUS
<1>3. Live \subseteq PIDS /\ PIDS \subseteq Nat
  BY MaxAssumption DEF Live, PIDS
<1>4. T = {}
  <2> SUFFICES ASSUME T # {} PROVE FALSE
    OBVIOUS
  <2>0. T \subseteq Nat
    BY <1>2
  <2>1. PICK j \in T : \A i \in T : j <= i
    BY <2>0, Least
  <2>2. j \in 0 .. n - 1 /\ n # 0
    BY <1>2, <2>1
  <2>3. CASE j = 0
    <3>1. /\ pcb_loc[t] \in Live /\ pcb[pcb_loc[t]].term_num = t
          /\ d[pcb_loc[t]] = n - 1
      BY <1>1, <2>2 DEF ForegroundOK
    <3>2. n - 1 - j = n - 1
      BY <1>1, <2>3
    <3> QED BY <1>2, <2>1, <3>1, <3>2
  <2>4. CASE j # 0
    <3>1. j - 1 \in 0 .. n - 1 /\ j - 1 \notin T
      BY <2>1, <2>2, <2>4
    <3>2. PICK p \in Live : pcb[p].term_num = t /\ d[p] = n - 1 - (j - 1)
      BY <1>2, <3>1
    <3>3. d[p] # 0
      BY <1>1, <2>2, <3>2
    <3>4. PICK q : q = pcb[p].lastpcb_ptr
      OBVIOUS
    <3>5. q \in Live /\ pcb[q].term_num = t /\ d[p] = d[q] + 1
      BY <3>2, <3>3, <3>4 DEF Levels
    <3>6. d[q] \in Nat
      BY <1>3, <3>5
    <3>7. d[q] = n - 1 - j
      BY <1>1, <2>2, <3>2, <3>5, <3>6
    <3> QED BY <1>2, <2>1, <3>5, <3>7
  <2> QED BY <2>3, <2>4
<1>5. n - 1 - k \in 0 .. n - 1 /\ n - 1 - (n - 1 - k) = k
  BY <1>1
<1>6. PICK j : j = n - 1 - k
  OBVIOUS
<1>7. j \in 0 .. n - 1 /\ n - 1 - j = k /\ j \notin T
  BY <1>4, <1>5, <1>6
<1> QED BY <1>2, <1>7

(* Read from the foreground program up, the parent pointers of a terminal   *)
(* are its programs, the first one at the bottom.                           *)
LEMMA StackFound ==
  ASSUME IInv, phase # "wild", NEW t \in TERMS
  PROVE  IsStack(t, StackOf[t])
<1>1. PICK n \in Nat : n = prog_count[t]
  BY DEF IInv, TypeOK
<1>2. PICK d \in [PIDS -> PIDS] : Levels(d) /\ ForegroundOK(d)
  BY DEF IInv, ChainOK
<1>3. StackOf[t] = [i \in 1 .. n |-> Ancestry(t)[n - i]]
  BY <1>1 DEF StackOf
<1>4. CASE n = 0
  <2>1. StackOf[t] = <<>>
    BY <1>3, <1>4
  <2> QED BY <1>1, <1>4, <2>1 DEF IsStack
<1>5. CASE n # 0
  <2>1. PICK P : P = [k \in 0 .. n - 1 |->
                       CHOOSE p \in Live : pcb[p].term_num = t /\ d[p] = k]
    OBVIOUS
  <2>2. ASSUME NEW k \in 0 .. n - 1
        PROVE  P[k] \in Live /\ pcb[P[k]].term_num = t /\ d[P[k]] = k
    <3>1. \E p \in Live : pcb[p].term_num = t /\ d[p] = k
      BY <1>1, <1>2, LevelsFilled
    <3>2. P[k] = CHOOSE p \in Live : pcb[p].term_num = t /\ d[p] = k
      BY <2>1
    <3> QED BY <3>1, <3>2, Zenon
  <2>3. P[n - 1] = pcb_loc[t]
    <3>1. n - 1 \in 0 .. n - 1
      BY <1>5
    <3>2. /\ pcb_loc[t] \in Live /\ pcb[pcb_loc[t]].term_num = t
          /\ d[pcb_loc[t]] = n - 1
      BY <1>1, <1>2, <1>5 DEF ForegroundOK
    <3> QED BY <1>2, <2>2, <3>1, <3>2 DEF Levels
  <2>4. ASSUME NEW k \in 1 .. n - 1 PROVE P[k - 1] = pcb[P[k]].lastpcb_ptr
    <3>1. k \in 0 .. n - 1 /\ k - 1 \in 0 .. n - 1 /\ k # 0 /\ k \in Nat
      OBVIOUS
    <3>2. PICK q : q = pcb[P[k]].lastpcb_ptr
      OBVIOUS
    <3>3. P[k] \in Live /\ pcb[P[k]].term_num = t /\ d[P[k]] = k
      BY <2>2, <3>1
    <3>4. q \in Live /\ pcb[q].term_num = t /\ k = d[q] + 1
      BY <1>2, <3>1, <3>2, <3>3 DEF Levels
    <3>5. d[q] = k - 1
      <4>1. d[q] \in Nat
        BY <3>4, MaxAssumption DEF Live, PIDS
      <4> QED BY <3>1, <3>4, <4>1
    <3>6. P[k - 1] \in Live /\ pcb[P[k - 1]].term_num = t /\ d[P[k - 1]] = k - 1
      BY <2>2, <3>1
    <3>7. \A x, y \in Live :
            pcb[x].term_num = pcb[y].term_num /\ d[x] = d[y] => x = y
      BY <1>2 DEF Levels
    <3>8. P[k - 1] = q
      BY <3>4, <3>5, <3>6, <3>7
    <3> QED BY <3>2, <3>8
  <2>5. PICK g : g = [k \in 0 .. n |-> IF k < n THEN P[n - 1 - k]
                                                ELSE pcb[P[0]].lastpcb_ptr]
    OBVIOUS
  <2>6. IsUp(g, pcb_loc[t], n, pcb)
    <3> SUFFICES ASSUME NEW k \in 0 .. n
                 PROVE  g[k] = IF k = 0 THEN pcb_loc[t]
                               ELSE pcb[g[k - 1]].lastpcb_ptr
      <4>1. g = [k \in 0 .. n |-> g[k]]
        BY <2>5
      <4> QED BY <4>1 DEF IsUp
    <3>1. CASE k = 0
      <4>1. g[0] = P[n - 1 - 0] /\ n - 1 - 0 = n - 1
        BY <1>5, <2>5
      <4> QED BY <2>3, <3>1, <4>1
    <3>2. CASE k = n
      <4>1. n - 1 \in 0 .. n /\ n - 1 < n /\ n - 1 - (n - 1) = 0
        BY <1>5
      <4>2. g[n - 1] = P[0]
        BY <2>5, <4>1
      <4>3. g[n] = pcb[P[0]].lastpcb_ptr
        BY <2>5
      <4> QED BY <1>5, <3>2, <4>2, <4>3
    <3>3. CASE k # 0 /\ k # n
      <4>1. /\ k - 1 \in 0 .. n /\ k - 1 < n /\ k < n
            /\ n - 1 - (k - 1) = n - k /\ n - k \in 1 .. n - 1
            /\ n - 1 - k = (n - k) - 1
        BY <3>3
      <4>2. g[k] = P[n - 1 - k] /\ g[k - 1] = P[n - 1 - (k - 1)]
        BY <2>5, <4>1
      <4>3. P[(n - k) - 1] = pcb[P[n - k]].lastpcb_ptr
        BY <2>4, <4>1
      <4> QED BY <3>3, <4>1, <4>2, <4>3
    <3> QED BY <3>1, <3>2, <3>3
  <2>7. PICK h : h = Ancestry(t)
    OBVIOUS
  <2>8. IsUp(h, pcb_loc[t], n, pcb)
    <3>1. h = CHOOSE f : IsUp(f, pcb_loc[t], n, pcb)
      BY <1>1, <2>7, AncestryIs, Zenon
    <3> QED BY <2>6, <3>1, Zenon
  <2>9. /\ h[0] = pcb_loc[t]
        /\ \A k \in 1 .. n : h[k] = pcb[h[k - 1]].lastpcb_ptr
    <3>1. h = [k \in 0 .. n |-> IF k = 0 THEN pcb_loc[t]
                                ELSE pcb[h[k - 1]].lastpcb_ptr]
      BY <2>8, Zenon DEF IsUp
    <3>2. \A k \in 0 .. n : h[k] = IF k = 0 THEN pcb_loc[t]
                                   ELSE pcb[h[k - 1]].lastpcb_ptr
      BY <3>1, Zenon
    <3>3. 0 \in 0 .. n /\ 1 .. n \subseteq 0 .. n
      OBVIOUS
    <3> QED BY <3>2, <3>3
  <2>10. \A k \in 0 .. n - 1 : h[k] = P[n - 1 - k]
    <3>1. PICK T : T = {k \in 0 .. n - 1 : h[k] # P[n - 1 - k]}
      OBVIOUS
    <3> SUFFICES ASSUME T # {} PROVE FALSE
      BY <3>1
    <3>0. T \subseteq Nat
      BY <3>1
    <3>2. PICK k \in T : \A j \in T : k <= j
      BY <3>0, Least
    <3>3. k \in 0 .. n - 1 /\ h[k] # P[n - 1 - k]
      BY <3>1, <3>2
    <3>4. k # 0
      <4>1. n - 1 - 0 = n - 1
        OBVIOUS
      <4> QED BY <2>3, <2>9, <3>3, <4>1
    <3>5. /\ k - 1 \in 0 .. n - 1 /\ k - 1 \notin T /\ k \in 1 .. n
          /\ n - 1 - (k - 1) = n - k /\ n - k \in 1 .. n - 1
          /\ n - 1 - k = (n - k) - 1
      BY <3>2, <3>3, <3>4
    <3>6. h[k - 1] = P[n - k]
      BY <3>1, <3>5
    <3>7. h[k] = pcb[P[n - k]].lastpcb_ptr
      BY <2>9, <3>5, <3>6
    <3>8. P[(n - k) - 1] = pcb[P[n - k]].lastpcb_ptr
      BY <2>4, <3>5
    <3> QED BY <3>3, <3>5, <3>7, <3>8
  <2>11. PICK s : s = StackOf[t]
    OBVIOUS
  <2>12. \A i \in 1 .. n : s[i] = P[i - 1]
    <3> SUFFICES ASSUME NEW i \in 1 .. n PROVE s[i] = P[i - 1]
      OBVIOUS
    <3>1. n - i \in 0 .. n - 1 /\ n - 1 - (n - i) = i - 1
      OBVIOUS
    <3>2. s[i] = h[n - i]
      BY <1>3, <2>7, <2>11
    <3> QED BY <2>10, <3>1, <3>2
  <2>13. \A i \in 1 .. n : s[i] \in Live /\ pcb[s[i]].term_num = t
    <3> SUFFICES ASSUME NEW i \in 1 .. n
                 PROVE  s[i] \in Live /\ pcb[s[i]].term_num = t
      OBVIOUS
    <3>1. i - 1 \in 0 .. n - 1
      OBVIOUS
    <3> QED BY <2>2, <2>12, <3>1
  <2>14. s \in Seq(PIDS) /\ Len(s) = n
    <3>1. s = [i \in 1 .. n |-> s[i]]
      BY <1>3, <2>11
    <3>2. \A i \in 1 .. n : s[i] \in PIDS
      BY <2>13 DEF Live
    <3> QED BY <3>1, <3>2
  <2>15. \A i \in 1 .. n - 1 : s[i] = pcb[s[i + 1]].lastpcb_ptr
    <3> SUFFICES ASSUME NEW i \in 1 .. n - 1
                 PROVE  s[i] = pcb[s[i + 1]].lastpcb_ptr
      OBVIOUS
    <3>1. i \in 1 .. n /\ i + 1 \in 1 .. n /\ (i + 1) - 1 = i
      OBVIOUS
    <3> QED BY <2>4, <2>12, <3>1
  <2>16. s[n] = pcb_loc[t]
    BY <1>5, <2>3, <2>12
  <2> QED BY <1>1, <2>11, <2>13, <2>14, <2>15, <2>16 DEF IsStack
<1> QED BY <1>4, <1>5
-----------------------------------------------------------------------------
(* What the chains of the terminals are as long as control is not lost.     *)
StacksOK == phase # "wild" => \A t \in TERMS : IsStack(t, StackOf[t])

LEMMA StacksFound == IInv => StacksOK
<1> QED BY StackFound DEF StacksOK

(* The n programs up to last along the parent pointers.                     *)
IsChain(f, n, last, pcbs) ==
  /\ f \in Seq(PIDS) /\ Len(f) = n
  /\ n # 0 => f[n] = last
  /\ \A i \in 1 .. n - 1 : f[i] = pcbs[f[i + 1]].lastpcb_ptr

(* A chain is determined by its last program and its length.                *)
LEMMA SameChain ==
  ASSUME NEW n \in Nat, NEW f, NEW g, NEW last, NEW pcbs,
         IsChain(f, n, last, pcbs), IsChain(g, n, last, pcbs)
  PROVE  f = g
<1> USE DEF IsChain
<1>1. PICK T : T = {j \in 0 .. n - 1 : f[n - j] # g[n - j]}
  OBVIOUS
<1>2. T \subseteq Nat
  BY <1>1
<1>3. T = {}
  <2> SUFFICES ASSUME T # {} PROVE FALSE
    OBVIOUS
  <2>1. PICK j \in T : \A i \in T : j <= i
    BY <1>2, Least
  <2>2. j \in 0 .. n - 1 /\ f[n - j] # g[n - j]
    BY <1>1, <2>1
  <2>3. j # 0
    <3>1. n - 0 = n /\ n # 0
      BY <2>2
    <3> QED BY <2>2, <3>1
  <2>4. j - 1 \in 0 .. n - 1 /\ j - 1 \notin T
    BY <2>1, <2>2, <2>3
  <2>5. n - j \in 1 .. n - 1 /\ n - (j - 1) = (n - j) + 1
    BY <2>2, <2>3
  <2>6. f[(n - j) + 1] = g[(n - j) + 1]
    BY <1>1, <2>4, <2>5
  <2>7. /\ f[n - j] = pcbs[f[(n - j) + 1]].lastpcb_ptr
        /\ g[n - j] = pcbs[g[(n - j) + 1]].lastpcb_ptr
    BY <2>5
  <2> QED BY <2>2, <2>6, <2>7
<1>4. ASSUME NEW i \in 1 .. n PROVE f[i] = g[i]
  <2>1. n - i \in 0 .. n - 1 /\ n - (n - i) = i
    OBVIOUS
  <2> QED BY <1>1, <1>3, <2>1
<1>5. DOMAIN f = 1 .. n /\ DOMAIN g = 1 .. n
  BY LenProperties
<1>6. f = [i \in 1 .. n |-> f[i]] /\ g = [i \in 1 .. n |-> g[i]]
  <2>1. f = [i \in DOMAIN f |-> f[i]] /\ g = [i \in DOMAIN g |-> g[i]]
    OBVIOUS
  <2> QED BY <1>5, <2>1, Zenon
<1> QED BY <1>4, <1>6

(* The chain of a terminal whose count and foreground program stay is the   *)
(* same when the parent pointers of the programs in use are.                *)
LEMMA KeepsStack ==
  ASSUME StacksOK, StacksOK', phase # "wild", phase' # "wild",
         NEW t \in TERMS, prog_count'[t] = prog_count[t],
         pcb_loc'[t] = pcb_loc[t], prog_count[t] \in Nat,
         \A q \in Live : pcb'[q].lastpcb_ptr = pcb[q].lastpcb_ptr
  PROVE  StackOf'[t] = StackOf[t]
<1>1. PICK n \in Nat : n = prog_count[t]
  OBVIOUS
<1>2. PICK s : s = StackOf[t]
  OBVIOUS
<1>3. PICK r : r = StackOf'[t]
  OBVIOUS
<1>4. /\ s \in Seq(PIDS) /\ Len(s) = n
      /\ \A i \in 1 .. n : s[i] \in Live
      /\ n # 0 => s[n] = pcb_loc[t]
      /\ \A i \in 1 .. n - 1 : s[i] = pcb[s[i + 1]].lastpcb_ptr
  BY <1>1, <1>2 DEF StacksOK, IsStack
<1>5. PICK b : b = pcb'
  OBVIOUS
<1>6. IsChain(r, n, pcb_loc[t], b)
  BY <1>1, <1>3, <1>5 DEF StacksOK, IsStack, IsChain
<1>7. ASSUME NEW i \in 1 .. n - 1
      PROVE  s[i] = b[s[i + 1]].lastpcb_ptr
  <2>1. i + 1 \in 1 .. n
    OBVIOUS
  <2> QED BY <1>4, <1>5, <2>1
<1>8. IsChain(s, n, pcb_loc[t], b)
  BY <1>4, <1>7 DEF IsChain
<1>9. r = s
  BY <1>6, <1>8, SameChain
<1> QED BY <1>2, <1>3, <1>9

(* Nothing that a chain is read from changes.                               *)
LEMMA StackOfSame ==
  ASSUME pcb' = pcb, NEW t \in TERMS, pcb_loc'[t] = pcb_loc[t],
         prog_count'[t] = prog_count[t]
  PROVE  StackOf'[t] = StackOf[t]
<1>1. Ancestry(t)' = Ancestry(t)
  BY Zenon DEF Ancestry
<1> QED BY <1>1 DEF StackOf

(* Two functions on the terminals are equal when they agree on each.        *)
LEMMA StacksEqual ==
  ASSUME \A t \in TERMS : StackOf'[t] = StackOf[t]
  PROVE  StackOf' = StackOf
<1>1. StackOf = [t \in TERMS |-> StackOf[t]] /\ StackOf' = [t \in TERMS |-> StackOf'[t]]
  BY DEF StackOf
<1> QED BY <1>1, Zenon

(* The shapes of the two steps that change a stack.                         *)
LEMMA StackChanged ==
  ASSUME NEW c \in TERMS, NEW r, StackOf'[c] = r,
         \A t \in TERMS \ {c} : StackOf'[t] = StackOf[t]
  PROVE  StackOf' = [StackOf EXCEPT ![c] = r]
<1>1. /\ StackOf = [t \in TERMS |-> StackOf[t]]
      /\ StackOf' = [t \in TERMS |-> StackOf'[t]]
  BY DEF StackOf
<1>2. PICK old, new : old = StackOf /\ new = StackOf'
  OBVIOUS
<1>3. old = [t \in TERMS |-> old[t]] /\ new = [t \in TERMS |-> new[t]]
  BY <1>1, <1>2, Zenon
<1>4. \A t \in TERMS : new[t] = IF t = c THEN r ELSE old[t]
  BY <1>2
<1>5. new = [old EXCEPT ![c] = r]
  BY <1>3, <1>4
<1> QED BY <1>2, <1>5, Zenon
-----------------------------------------------------------------------------
(* execute starts a program that is on no stack, on top of the one of the   *)
(* terminal on the screen.                                                  *)
LEMMA ExecuteStarts ==
  ASSUME IInv, StacksOK, StacksOK', phase # "wild",
         NEW s, NEW frames, NEW back, ExecuteOn(s, frames, back)
  PROVE  \E p \in Abstract!Programs : Abstract!Start(p)
<1>1. PICK c \in TERMS : c = current_terminal
  BY DEF IInv, TypeOK
<1>2. PICK p \in ScanResult :
        /\ prog_count' = [prog_count EXCEPT ![c] = @ + 1]
        /\ pcb_loc' = [pcb_loc EXCEPT ![c] = p]
        /\ pcb' = [pcb EXCEPT ![p] =
                     [lastpcb_ptr |-> PrevPcb(p),
                      esp |-> [stack |-> s, depth |-> Len(frames) + 1],
                      pagedir |-> cr3,
                      curr_esp |-> [stack |-> p, depth |-> 0],
                      curr_pd |-> p,
                      term_num |-> c]]
        /\ phase' = "user"
        /\ current_terminal' = current_terminal
  BY <1>1 DEF ExecuteOn
<1>3. TypeOK /\ TaskCount < MAX_PROCESSES
  BY DEF IInv, ExecuteOn
<1>4. p \in PIDS /\ p \notin Live
  BY <1>3, FreeNumber DEF IInv
<1>5. /\ \A q \in Live : pcb'[q] = pcb[q]
      /\ pcb'[p].lastpcb_ptr = PrevPcb(p)
  BY <1>2, <1>3, <1>4 DEF Live, TypeOK
<1>6. PICK m \in Nat : m = prog_count[c]
  BY <1>3 DEF TypeOK
<1>7. prog_count'[c] = m + 1 /\ pcb_loc'[c] = p
  BY <1>2, <1>3, <1>6 DEF TypeOK
<1>8. PICK g : g = StackOf[c]
  OBVIOUS
<1>9. /\ g \in Seq(PIDS) /\ Len(g) = m
      /\ \A i \in 1 .. m : g[i] \in Live
      /\ m # 0 => g[m] = pcb_loc[c]
      /\ \A i \in 1 .. m - 1 : g[i] = pcb[g[i + 1]].lastpcb_ptr
  BY <1>6, <1>8 DEF StacksOK, IsStack
<1>10. PICK r : r = StackOf'[c]
  OBVIOUS
<1>11. PICK b : b = pcb'
  OBVIOUS
<1>12. IsChain(r, m + 1, p, b)
  <2>1. IsStack(c, StackOf[c])'
    BY <1>2 DEF StacksOK
  <2> QED BY <1>7, <1>10, <1>11, <2>1 DEF IsStack, IsChain
<1>13. PICK h : h = Append(g, p)
  OBVIOUS
<1>14. /\ h \in Seq(PIDS) /\ Len(h) = m + 1 /\ h[m + 1] = p
       /\ \A i \in 1 .. m : h[i] = g[i]
  BY <1>4, <1>9, <1>13, AppendProperties
<1>15. ASSUME NEW i \in 1 .. (m + 1) - 1
       PROVE  h[i] = b[h[i + 1]].lastpcb_ptr
  <2>1. i \in 1 .. m /\ h[i] = g[i]
    BY <1>14
  <2>2. CASE i = m
    <3>1. h[i + 1] = p /\ m # 0 /\ m + 1 # 1
      BY <1>14, <2>1, <2>2
    <3>2. PrevPcb(p) = pcb_loc[c]
      BY <1>1, <1>6, <3>1 DEF PrevPcb, Foreground
    <3> QED BY <1>5, <1>9, <1>11, <2>1, <2>2, <3>1, <3>2
  <2>3. CASE i # m
    <3>1. i \in 1 .. m - 1 /\ i + 1 \in 1 .. m
      BY <2>1, <2>3
    <3>2. g[i] = pcb[g[i + 1]].lastpcb_ptr /\ g[i + 1] \in Live
          /\ h[i + 1] = g[i + 1]
      BY <1>9, <1>14, <3>1
    <3> QED BY <1>5, <1>11, <2>1, <3>2
  <2> QED BY <2>2, <2>3
<1>16. r = h
  <2>1. IsChain(h, m + 1, p, b)
    BY <1>14, <1>15 DEF IsChain
  <2> QED BY <1>12, <2>1, SameChain
<1>17. ASSUME NEW t \in TERMS \ {c} PROVE StackOf'[t] = StackOf[t]
  <2>1. /\ prog_count'[t] = prog_count[t] /\ pcb_loc'[t] = pcb_loc[t]
        /\ prog_count[t] \in Nat /\ t \in TERMS
    BY <1>2, <1>3 DEF TypeOK
  <2> QED BY <1>2, <1>5, <2>1, KeepsStack
<1>18. StackOf' = [StackOf EXCEPT ![c] = h]
  BY <1>10, <1>16, <1>17, StackChanged
<1>19. p \in Abstract!Programs
  BY <1>4 DEF Abstract!Programs, PIDS
<1>20. p \notin Abstract!InUse
  <2> SUFFICES ASSUME NEW t \in TERMS, p \in Abstract!ToSet(StackOf[t])
               PROVE  FALSE
    BY DEF Abstract!InUse, Abstract!Terminals, TERMS
  <2>1. PICK i \in DOMAIN StackOf[t] : p = StackOf[t][i]
    BY DEF Abstract!ToSet
  <2>2. IsStack(t, StackOf[t])
    BY DEF StacksOK
  <2>3. DOMAIN StackOf[t] = 1 .. Len(StackOf[t])
    BY <2>2, LenProperties DEF IsStack
  <2> QED BY <1>4, <2>1, <2>2, <2>3 DEF IsStack
<1>21. StackOf' = [StackOf EXCEPT ![current_terminal] =
                     Append(StackOf[current_terminal], p)]
  BY <1>1, <1>8, <1>13, <1>18
<1>22. Abstract!Start(p)
  BY <1>2, <1>20, <1>21 DEF Abstract!Start
<1> QED BY <1>19, <1>22

(* halt can lose its way back only from the last program of a terminal.     *)
LEMMA LastHaltWild ==
  ASSUME CInv, HaltWild
  PROVE  prog_count'[current_terminal] = 0
<1>1. PICK c \in TERMS : c = current_terminal
  BY DEF CInv, IInv, TypeOK
<1>2. PICK p : p = Foreground
  OBVIOUS
<1>3. /\ IInv /\ TypeOK /\ phase = "user" /\ p # NULL
      /\ prog_count' = [prog_count EXCEPT ![c] = @ - 1]
  BY <1>1, <1>2 DEF CInv, IInv, HaltWild, HaltEffect
<1>4. /\ prog_count[c] # 0 /\ p \in Live
      /\ EntryStack = p /\ PcbOK(p)
      /\ \A q \in Live : CallerFound(q) => pcb[q].esp.stack # p
  BY <1>1, <1>2, <1>3, NoCallerOnForeground
<1>5. PICK d \in [PIDS -> PIDS] : Levels(d) /\ ForegroundOK(d)
  BY <1>3 DEF IInv, ChainOK
<1>6. d[p] = prog_count[c] - 1
  BY <1>1, <1>2, <1>3, <1>5, HaltFinds
<1>7. pcb[p].lastpcb_ptr = p
  <2> SUFFICES ASSUME pcb[p].lastpcb_ptr # p PROVE FALSE
    OBVIOUS
  <2>1. CallerFound(p) /\ CallersOK
    BY <1>3, <1>4 DEF CInv, CallersOK, ReturnsTo
  <2>2. PICK k : k = pcb[p].esp
    OBVIOUS
  <2>3. k \in Context /\ k.stack \in Stacks /\ k.stack # EntryStack /\ k.depth = 1
    BY <1>4, <2>1, <2>2 DEF PcbOK, Context, CallerFound
  <2>4. KeepsBottom(AfterEntry, kstack, k.stack)
    BY <1>3, <2>3, EntryBottom
  <2>5. AtBottom(AfterEntry, k.stack, "execute", p)
    BY <2>1, <2>2, <2>4 DEF CallerFound, AtBottom, KeepsBottom
  <2>6. AfterEntry \in [Stacks -> Seq(Frame)]
    BY <1>3, Entry
  <2>7. Holds(AfterEntry, k, "execute", p)
    BY <2>3, <2>5, <2>6, HoldsBottom
  <2> QED BY <1>2, <2>2, <2>7 DEF HaltWild
<1>8. d[p] = 0
  BY <1>4, <1>5, <1>7 DEF Levels
<1> QED BY <1>1, <1>3, <1>6, <1>8 DEF TypeOK

(* halt removes the top program of the terminal on the screen.              *)
LEMMA HaltExits ==
  ASSUME CInv, StacksOK, StacksOK', Halt \/ HaltWild
  PROVE  Abstract!Exit
<1>1. PICK c \in TERMS : c = current_terminal
  BY DEF CInv, IInv, TypeOK
<1>2. PICK p : p = Foreground
  OBVIOUS
<1>3. /\ IInv /\ TypeOK /\ HaltEffect /\ phase = "user" /\ p # NULL
      /\ pcb' = pcb /\ current_terminal' = current_terminal
      /\ prog_count' = [prog_count EXCEPT ![c] = @ - 1]
      /\ p = pcb_loc[c]
  BY <1>1, <1>2 DEF CInv, IInv, Halt, HaltWild, HaltEffect, Foreground
<1>4. prog_count[c] # 0 /\ p \in Live /\ PcbOK(p)
  BY <1>1, <1>2, <1>3, NoCallerOnForeground
<1>5. PICK n \in Nat : prog_count[c] = n + 1
  <2>1. prog_count[c] \in Nat /\ prog_count[c] # 0
    BY <1>3, <1>4 DEF TypeOK
  <2>2. prog_count[c] - 1 \in Nat /\ prog_count[c] = (prog_count[c] - 1) + 1
    BY <2>1
  <2> QED BY <2>2
<1>6. prog_count'[c] = n
  BY <1>3, <1>5 DEF TypeOK
<1>7. PICK s : s = StackOf[c]
  OBVIOUS
<1>8. /\ s \in Seq(PIDS) /\ Len(s) = n + 1 /\ s[n + 1] = p
      /\ \A i \in 1 .. n : s[i] = pcb[s[i + 1]].lastpcb_ptr
  <2>1. /\ s \in Seq(PIDS) /\ Len(s) = n + 1
        /\ Len(s) # 0 => s[Len(s)] = p
        /\ \A i \in 1 .. Len(s) - 1 : s[i] = pcb[s[i + 1]].lastpcb_ptr
    BY <1>3, <1>5, <1>7 DEF StacksOK, IsStack
  <2>2. n + 1 # 0 /\ (n + 1) - 1 = n
    OBVIOUS
  <2> QED BY <2>1, <2>2
<1>9. PICK h : h = SubSeq(s, 1, n)
  OBVIOUS
<1>10. h \in Seq(PIDS) /\ Len(h) = n /\ \A i \in 1 .. n : h[i] = s[i]
  <2>1. 1 .. n \subseteq 1 .. Len(s)
    BY <1>8
  <2> QED BY <1>8, <1>9, <2>1
<1>11. ASSUME NEW t \in TERMS \ {c}
       PROVE  prog_count'[t] = prog_count[t] /\ pcb_loc'[t] = pcb_loc[t]
  BY <1>1, <1>3 DEF Halt, HaltWild, TypeOK
<1>12. \A t \in TERMS \ {c} : StackOf'[t] = StackOf[t]
  BY <1>3, <1>11, StackOfSame
<1>13. PICK r : r = StackOf'[c]
  OBVIOUS
<1>14. r = h
  <2>1. CASE n = 0
    <3>1. r = <<>>
      BY <1>6, <1>13, <2>1 DEF StackOf
    <3> QED BY <1>10, <2>1, <3>1
  <2>2. CASE n # 0
    <3>1. Halt
      BY <1>1, <1>6, <2>2, LastHaltWild
    <3>2. phase' # "wild"
      <4>1. PICK k : k = pcb[p].esp
        OBVIOUS
      <4>2. Holds(AfterEntry, k, "execute", p) /\ phase' = AfterEntry[k.stack][k.depth].back
        BY <1>2, <3>1, <4>1 DEF Halt
      <4>3. k.stack \in Stacks /\ AfterEntry \in [Stacks -> Seq(Frame)]
            /\ OnlyPops(AfterEntry, kstack)
        BY <1>3, <1>4, <4>1, Entry DEF PcbOK, Context
      <4>4. k.depth \in 1 .. Len(AfterEntry[k.stack])
        BY <4>2, <4>3, LenProperties DEF Holds
      <4>5. /\ AfterEntry[k.stack][k.depth] = kstack[k.stack][k.depth]
            /\ k.depth \in 1 .. Len(kstack[k.stack])
        BY <4>3, <4>4 DEF OnlyPops
      <4>6. Holds(kstack, k, "execute", p)
        <5>1. DOMAIN kstack[k.stack] = 1 .. Len(kstack[k.stack])
          BY <1>3, <4>3, LenProperties DEF TypeOK
        <5> QED BY <4>2, <4>5, <5>1 DEF Holds
      <4>7. CallerOK(p)
        BY <1>3, <1>4 DEF IInv, PcbsOK
      <4> QED BY <4>1, <4>2, <4>5, <4>6, <4>7 DEF CallerOK
    <3>3. pcb_loc'[c] = pcb[p].lastpcb_ptr
      BY <1>1, <1>2, <1>3, <1>6, <2>2, <3>1 DEF Halt, TypeOK
    <3>4. PICK b : b = pcb'
      OBVIOUS
    <3>5. IsChain(r, n, pcb_loc'[c], b)
      <4>1. IsStack(c, StackOf[c])'
        BY <3>2 DEF StacksOK
      <4> QED BY <1>6, <1>13, <3>4, <4>1 DEF IsStack, IsChain
    <3>6. IsChain(h, n, pcb_loc'[c], b)
      <4>1. n \in 1 .. n
        BY <2>2
      <4>2. h[n] = pcb[s[n + 1]].lastpcb_ptr
        BY <1>8, <1>10, <4>1
      <4>3. ASSUME NEW i \in 1 .. n - 1
            PROVE  h[i] = b[h[i + 1]].lastpcb_ptr
        <5>1. i \in 1 .. n /\ i + 1 \in 1 .. n
          OBVIOUS
        <5> QED BY <1>3, <1>8, <1>10, <3>4, <5>1
      <4> QED BY <1>8, <1>10, <3>3, <4>2, <4>3 DEF IsChain
    <3> QED BY <3>5, <3>6, SameChain
  <2> QED BY <2>1, <2>2
<1>15. StackOf' = [StackOf EXCEPT ![c] = h]
  BY <1>12, <1>13, <1>14, StackChanged
<1>16. StackOf[c] # <<>>
  <2>1. Len(s) # 0
    BY <1>8
  <2> QED BY <1>7, <2>1
<1>17. Abstract!Front(StackOf[c]) = h
  <2>1. (n + 1) - 1 = n
    OBVIOUS
  <2> QED BY <1>7, <1>8, <1>9, <2>1 DEF Abstract!Front
<1>18. StackOf' = [StackOf EXCEPT ![c] = Abstract!Front(StackOf[c])]
  BY <1>15, <1>17
<1> QED BY <1>1, <1>3, <1>16, <1>18 DEF Abstract!Exit

(* A terminal switch shows another terminal and moves no program.           *)
LEMMA SwitchShows ==
  ASSUME IInv, StacksOK, StacksOK', NEW t \in TERMS, SwitchOut(t)
  PROVE  Abstract!Show(t)
<1>1. PICK p : p = Foreground
  OBVIOUS
<1>2. PICK k : k = [stack |-> EntryStack, depth |-> Len(EntryFrames) + 1]
  OBVIOUS
<1>3. /\ TypeOK /\ phase # "wild" /\ phase' # "wild"
      /\ prog_count' = prog_count /\ pcb_loc' = pcb_loc
      /\ current_terminal' = t
      /\ pcb' = [pcb EXCEPT ![p] = [pcb[p] EXCEPT !.curr_esp = k]]
  BY <1>1, <1>2 DEF IInv, SwitchOut, KeyboardOpen
<1>4. \A q \in Live : pcb'[q].lastpcb_ptr = pcb[q].lastpcb_ptr
  <2>1. pcb \in [PIDS -> Pcb] /\ Live \subseteq PIDS
    BY <1>3 DEF TypeOK, Live
  <2> QED BY <1>3, <2>1 DEF Pcb
<1>5. \A u \in TERMS : StackOf'[u] = StackOf[u]
  <2> SUFFICES ASSUME NEW u \in TERMS PROVE StackOf'[u] = StackOf[u]
    OBVIOUS
  <2>1. /\ prog_count'[u] = prog_count[u] /\ pcb_loc'[u] = pcb_loc[u]
        /\ prog_count[u] \in Nat
    BY <1>3 DEF TypeOK
  <2> QED BY <1>3, <1>4, <2>1, KeepsStack
<1> QED BY <1>3, <1>5, StacksEqual DEF Abstract!Show

(* Every other step leaves the counts, the foreground programs and the PCBs *)
(* of all terminals, and so the stacks.                                     *)
LEMMA StacksStay ==
  ASSUME UNCHANGED <<current_terminal, prog_count, pcb_loc, pcb>>
  PROVE  UNCHANGED Abstract!stackVars
<1>1. \A t \in TERMS : StackOf'[t] = StackOf[t]
  BY StackOfSame
<1> QED BY <1>1, StacksEqual DEF Abstract!stackVars

(* Before the first shell no terminal has a program.                        *)
LEMMA InitStacks == Init => Abstract!StackInit
<1> SUFFICES ASSUME Init PROVE Abstract!StackInit
  OBVIOUS
<1>1. ASSUME NEW t \in TERMS PROVE StackOf[t] = <<>>
  <2>1. prog_count[t] = 0
    BY DEF Init
  <2> QED BY <2>1 DEF StackOf
<1>2. StackOf = [t \in TERMS |-> StackOf[t]]
  BY DEF StackOf
<1>3. StackOf = [t \in Abstract!Terminals |-> <<>>]
  BY <1>1, <1>2 DEF Abstract!Terminals, TERMS
<1> QED BY <1>3 DEF Init, Abstract!StackInit

(* A step of the kernel is a step of the process stacks, or leaves them.    *)
LEMMA StepStacks ==
  CInv /\ StacksOK /\ StacksOK' /\ [Next]_vars
    => [Abstract!StackNext]_(Abstract!stackVars)
<1> SUFFICES ASSUME CInv, StacksOK, StacksOK', [Next]_vars
             PROVE  [Abstract!StackNext]_(Abstract!stackVars)
  OBVIOUS
<1>1. IInv
  BY DEF CInv
<1>2. CASE Execute
  BY <1>1, <1>2, ExecuteStarts DEF Execute, Abstract!StackNext
<1>3. CASE Launch
  <2>1. phase # "wild" /\ ExecuteOn(running, kstack[running], "launch")
    BY <1>3 DEF Launch
  <2> QED BY <1>1, <2>1, ExecuteStarts DEF Abstract!StackNext
<1>4. CASE Halt \/ HaltWild
  BY <1>4, HaltExits DEF Abstract!StackNext
<1>5. CASE \E t \in TERMS : SwitchOut(t)
  BY <1>1, <1>5, SwitchShows
     DEF Abstract!StackNext, Abstract!Terminals, TERMS
<1>6. CASE WaitBegin \/ WaitEnd \/ Resume \/ ResumeWild \/ Strand \/ SwitchFault
           \/ Exception \/ Hang \/ UNCHANGED vars
  <2>1. UNCHANGED <<current_terminal, prog_count, pcb_loc, pcb>>
    BY <1>6 DEF WaitBegin, WaitEnd, Resume, ResumeWild, ResumeEffect, Strand,
                SwitchFault, Exception, Panic, Hang, vars
  <2> QED BY <2>1, StacksStay
<1> QED BY <1>2, <1>3, <1>4, <1>5, <1>6 DEF Next

(* The PCB pointers, the counts, the foreground pointers and the program    *)
(* numbers implement one stack of programs per terminal: execute puts a     *)
(* program that is on no stack on top of the one of the terminal on the     *)
(* screen, halt takes exactly the top one off, even when it then jumps to a *)
(* frame that is gone, and no other step moves a program.                   *)
THEOREM StacksImplemented == Spec => RefinesStacks
<1>1. Init => FInv
  BY InitFInv
<1>2. FInv /\ [Next]_vars => FInv'
  BY NextFInv
<1>3. FInv => StacksOK
  BY StacksFound DEF FInv, CInv
<1>4. Init => Abstract!StackInit
  BY InitStacks
<1>5. FInv /\ StacksOK /\ StacksOK' /\ [Next]_vars
        => [Abstract!StackNext]_(Abstract!stackVars)
  BY StepStacks DEF FInv
<1> QED BY <1>1, <1>2, <1>3, <1>4, <1>5, PTL
        DEF Spec, RefinesStacks, Abstract!StackSpec
=============================================================================
