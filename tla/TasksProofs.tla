----------------------------- MODULE TasksProofs -----------------------------
(***************************************************************************)
(* What module Tasks keeps true for every limit of processes and every     *)
(* depth of nested terminal switches.  IInv is the inductive invariant:    *)
(* besides the properties themselves it says what the PCBs of the programs *)
(* in use hold, that the parent pointers of a terminal form one chain, and *)
(* what the frames on the kernel stacks go back to.  Init and every action *)
(* have one lemma; Invariance puts them together.                          *)
(***************************************************************************)
EXTENDS Tasks, FiniteSetTheorems, SequenceTheorems, TLAPS

(* A program in use has a complete PCB.  One that is not the first of its   *)
(* terminal was executed on its parent's stack under its parent's page      *)
(* directory; the frame it returns to goes on as the caller's code did.     *)
PcbOK(p) ==
  /\ pcb[p].lastpcb_ptr \in PIDS
  /\ pcb[p].esp \in Context
  /\ pcb[p].pagedir \in Stacks
  /\ pcb[p].curr_esp \in Context
  /\ pcb[p].curr_pd = p
  /\ pcb[p].term_num \in TERMS
  /\ pcb[p].lastpcb_ptr # p =>
       /\ pcb[p].esp.stack = pcb[p].lastpcb_ptr
       /\ pcb[p].pagedir = pcb[p].lastpcb_ptr

(* The frame a program's execute call left on a stack, where it still is,   *)
(* goes on as a launching loop or as the parent's user code.                *)
CallerOK(p) ==
  Holds(kstack, pcb[p].esp, "execute", p) =>
    kstack[pcb[p].esp.stack][pcb[p].esp.depth].back =
      IF pcb[p].lastpcb_ptr = p THEN "launch" ELSE "user"

PcbsOK == \A p \in Live : PcbOK(p) /\ CallerOK(p)

(* d[p] is the number of ancestors of p: the parent pointers lead up to the *)
(* first program of the terminal through programs in use, one per level.    *)
Levels(d) ==
  /\ \A p \in Live : pcb[p].lastpcb_ptr = p <=> d[p] = 0
  /\ \A p \in Live : pcb[p].lastpcb_ptr # p =>
       /\ pcb[p].lastpcb_ptr \in Live
       /\ pcb[pcb[p].lastpcb_ptr].term_num = pcb[p].term_num
       /\ d[p] = d[pcb[p].lastpcb_ptr] + 1
  /\ \A p \in Live : d[p] < prog_count[pcb[p].term_num]
  /\ \A p, q \in Live :
       pcb[p].term_num = pcb[q].term_num /\ d[p] = d[q] => p = q

(* Each terminal with programs shows the deepest one of its chain.          *)
ForegroundOK(d) ==
  phase # "wild" =>
    \A t \in TERMS : prog_count[t] # 0 =>
      /\ pcb_loc[t] \in Live
      /\ pcb[pcb_loc[t]].term_num = t
      /\ d[pcb_loc[t]] = prog_count[t] - 1

ChainOK == \E d \in [PIDS -> PIDS] : Levels(d) /\ ForegroundOK(d)

(* The frames of terminal_switch: one that interrupted a program or its     *)
(* wait lies on that program's own stack, one that interrupted another      *)
(* terminal_switch is not the first of its stack.                           *)
FrameOK(s, i) ==
  /\ kstack[s][i].kind = "switch" =>
       kstack[s][i].back \in {"user", "wait", "switch"}
  /\ kstack[s][i].kind = "switch" /\ kstack[s][i].back # "switch" =>
       kstack[s][i].pid = s
  /\ kstack[s][i].back = "switch" => i >= 2

FramesOK == \A s \in Stacks : \A i \in 1 .. Len(kstack[s]) : FrameOK(s, i)

(* A terminal without programs: who can be executing while it is shown.     *)
EmptyOK ==
  /\ phase \in {"boot", "launch"} => prog_count[current_terminal] = 0
  /\ \A t \in TERMS : prog_count[t] = 0 =>
       \/ pcb_loc[t] = NULL
       \/ phase \in {"boot", "launch", "wild", "panic"} /\ t = current_terminal
  /\ phase \in {"user", "wait"} /\ prog_count[current_terminal] = 0 =>
       TaskCount = MAX_PROCESSES
  /\ phase = "switch" => kstack[running] # <<>>

(* There are never more programs than program numbers.                      *)
Limit == TaskCount <= MAX_PROCESSES

(* The inductive invariant.                                                 *)
IInv ==
  /\ TypeOK
  /\ Accounting
  /\ Limit
  /\ PcbsOK
  /\ ChainOK
  /\ FramesOK
  /\ EmptyOK
  /\ CurrentIsRunning
-----------------------------------------------------------------------------
(* The cardinality of a disjoint union.                                     *)
LEMMA DisjointUnion ==
  ASSUME NEW S, NEW T, IsFiniteSet(S), IsFiniteSet(T), S \cap T = {}
  PROVE  /\ IsFiniteSet(S \cup T)
         /\ Cardinality(S \cup T) = Cardinality(S) + Cardinality(T)
<1>1. Cardinality(S) \in Nat /\ Cardinality(T) \in Nat
  BY FS_CardinalityType
<1>2. Cardinality(S \cap T) = 0
  BY FS_EmptySet
<1>3. Cardinality(S \cup T)
        = Cardinality(S) + Cardinality(T) - Cardinality(S \cap T)
      /\ IsFiniteSet(S \cup T)
  BY FS_Union
<1> QED BY <1>1, <1>2, <1>3

(* The programs of a terminal are finitely many.                            *)
LEMMA FiniteTerminals == \A t : IsFiniteSet(InTerminal(t))
<1>1. IsFiniteSet(PIDS)
  BY MaxAssumption, FS_Interval DEF PIDS
<1>2. \A t : InTerminal(t) \subseteq PIDS
  BY DEF InTerminal, Live
<1> QED BY <1>1, <1>2, FS_Subset

(* While fewer than MAX_PROCESSES programs run, the pid scan of execute     *)
(* finds a number that is not in use.                                       *)
LEMMA FreeNumber ==
  ASSUME TypeOK, Accounting, PcbsOK, TaskCount < MAX_PROCESSES,
         NEW p \in ScanResult
  PROVE  p \in PIDS /\ p \notin Live
<1> USE MaxAssumption
<1>1. SUFFICES ASSUME \A q \in PIDS : memoryspace[q] # 0
              PROVE  FALSE
  BY DEF ScanResult, Live, PIDS, TypeOK
<1>2. Live = PIDS
  BY <1>1 DEF TypeOK, Live
<1>3. Cardinality(Live) = MAX_PROCESSES /\ IsFiniteSet(Live)
  BY <1>2, FS_Interval DEF PIDS
<1>4. \A t \in TERMS : IsFiniteSet(InTerminal(t))
  BY <1>3, FS_Subset DEF InTerminal
<1>5. Live = InTerminal(0) \cup (InTerminal(1) \cup InTerminal(2))
  BY DEF PcbsOK, PcbOK, InTerminal, TERMS
<1>6. /\ IsFiniteSet(InTerminal(1) \cup InTerminal(2))
      /\ Cardinality(InTerminal(1) \cup InTerminal(2))
           = Cardinality(InTerminal(1)) + Cardinality(InTerminal(2))
  <2>1. InTerminal(1) \cap InTerminal(2) = {}
    BY DEF InTerminal
  <2> QED BY <2>1, <1>4, DisjointUnion DEF TERMS
<1>7. Cardinality(Live) = Cardinality(InTerminal(0))
        + (Cardinality(InTerminal(1)) + Cardinality(InTerminal(2)))
  <2>1. InTerminal(0) \cap (InTerminal(1) \cup InTerminal(2)) = {}
    BY DEF InTerminal
  <2> QED BY <2>1, <1>4, <1>5, <1>6, DisjointUnion DEF TERMS
<1> QED BY <1>3, <1>7 DEF Accounting, TaskCount, TERMS, TypeOK

(* A stack that only lost frames: what is still there was there before.     *)
OnlyPops(new, old) ==
  \A r \in Stacks : \A i \in 1 .. Len(new[r]) :
    i \in 1 .. Len(old[r]) /\ new[r][i] = old[r][i]

(* Pushing a frame, on a stack or on its emptied form, adds that frame and  *)
(* no other.                                                                *)
LEMMA Push ==
  ASSUME NEW ks \in [Stacks -> Seq(Frame)], NEW s \in Stacks,
         NEW frames \in Seq(Frame), frames = ks[s] \/ frames = <<>>,
         NEW f \in Frame, NEW new,
         new = [ks EXCEPT ![s] = Append(frames, f)]
  PROVE  /\ new \in [Stacks -> Seq(Frame)]
         /\ Len(new[s]) = Len(frames) + 1
         /\ new[s][Len(frames) + 1] = f
         /\ \A r \in Stacks : \A i \in 1 .. Len(new[r]) :
              \/ r = s /\ i = Len(frames) + 1
              \/ i \in 1 .. Len(ks[r]) /\ new[r][i] = ks[r][i]
<1>1. /\ Append(frames, f) \in Seq(Frame)
      /\ Len(Append(frames, f)) = Len(frames) + 1
      /\ \A i \in 1 .. Len(frames) : Append(frames, f)[i] = frames[i]
      /\ Append(frames, f)[Len(frames) + 1] = f
  BY AppendProperties
<1>2. new[s] = Append(frames, f) /\ \A r \in Stacks : r # s => new[r] = ks[r]
  OBVIOUS
<1>3. new \in [Stacks -> Seq(Frame)]
  BY <1>1
<1>4. Len(frames) \in Nat /\ frames = <<>> => Len(frames) = 0
  BY LenProperties
<1>5. ASSUME NEW r \in Stacks, NEW i \in 1 .. Len(new[r])
      PROVE  \/ r = s /\ i = Len(frames) + 1
             \/ i \in 1 .. Len(ks[r]) /\ new[r][i] = ks[r][i]
  <2>1. CASE r # s
    BY <1>2, <2>1
  <2>2. CASE r = s /\ i # Len(frames) + 1
    <3>1. i \in 1 .. Len(frames)
      BY <1>1, <1>2, <2>2, LenProperties
    <3>2. frames = ks[s]
      BY <1>4, <3>1
    <3> QED BY <1>1, <1>2, <2>2, <3>1, <3>2
  <2> QED BY <2>1, <2>2
<1> QED BY <1>1, <1>2, <1>3, <1>5

(* Pushing a frame that is not of q's execute call leaves what q's frame    *)
(* goes on as.                                                              *)
LEMMA PushKeepsCaller ==
  ASSUME kstack \in [Stacks -> Seq(Frame)], NEW s \in Stacks,
         NEW frames \in Seq(Frame), frames = kstack[s] \/ frames = <<>>,
         NEW f \in Frame, kstack' = [kstack EXCEPT ![s] = Append(frames, f)],
         NEW q, CallerOK(q), pcb[q].esp \in Context,
         pcb'[q].esp = pcb[q].esp, pcb'[q].lastpcb_ptr = pcb[q].lastpcb_ptr,
         f.kind # "execute" \/ f.pid # q
  PROVE  CallerOK(q)'
<1>1. PICK c : c = pcb[q].esp
  OBVIOUS
<1>2. c \in Context /\ c.stack \in Stacks
  BY <1>1 DEF Context
<1>3. /\ kstack' \in [Stacks -> Seq(Frame)]
      /\ kstack'[s][Len(frames) + 1] = f
      /\ \A r \in Stacks : \A i \in 1 .. Len(kstack'[r]) :
           \/ r = s /\ i = Len(frames) + 1
           \/ i \in 1 .. Len(kstack[r]) /\ kstack'[r][i] = kstack[r][i]
  BY Push
<1> SUFFICES ASSUME Holds(kstack', c, "execute", q)
             PROVE  /\ Holds(kstack, c, "execute", q)
                    /\ kstack'[c.stack][c.depth] = kstack[c.stack][c.depth]
  BY <1>1 DEF CallerOK
<1>4. c.depth \in 1 .. Len(kstack'[c.stack])
  BY <1>2, <1>3, LenProperties DEF Holds
<1>5. ~ (c.stack = s /\ c.depth = Len(frames) + 1)
  BY <1>3 DEF Holds
<1>6. c.depth \in 1 .. Len(kstack[c.stack])
      /\ kstack'[c.stack][c.depth] = kstack[c.stack][c.depth]
  BY <1>2, <1>3, <1>4, <1>5
<1>7. DOMAIN kstack[c.stack] = 1 .. Len(kstack[c.stack])
  BY <1>2, LenProperties
<1> QED BY <1>6, <1>7 DEF Holds

(* Returning through a frame, and emptying a stack on entry, only lose      *)
(* frames.                                                                  *)
LEMMA Pop ==
  ASSUME NEW ks \in [Stacks -> Seq(Frame)], NEW s \in Stacks,
         NEW d \in 1 .. Len(ks[s])
  PROVE  /\ Returned(ks, s, d) \in [Stacks -> Seq(Frame)]
         /\ Len(Returned(ks, s, d)[s]) = d - 1
         /\ OnlyPops(Returned(ks, s, d), ks)
<1>1. Len(ks[s]) \in Nat
  BY LenProperties
<1>2. PICK n \in 0 .. Len(ks[s]) : n = d - 1
  BY <1>1
<1>3. \A i \in 1 .. n : ks[s][i] \in Frame
  BY <1>1
<1>4. /\ SubSeq(ks[s], 1, n) \in Seq(Frame)
      /\ Len(SubSeq(ks[s], 1, n)) = n
      /\ \A i \in 1 .. n : SubSeq(ks[s], 1, n)[i] = ks[s][i]
  BY <1>1, <1>3, SubSeqProperties
<1> DEFINE new == Returned(ks, s, d)
<1>5. /\ new[s] = SubSeq(ks[s], 1, n)
      /\ \A r \in Stacks : r # s => new[r] = ks[r]
      /\ new \in [Stacks -> Seq(Frame)]
  BY <1>2, <1>4 DEF Returned
<1> HIDE DEF new
<1>6. ASSUME NEW r \in Stacks, NEW i \in 1 .. Len(new[r])
      PROVE  i \in 1 .. Len(ks[r]) /\ new[r][i] = ks[r][i]
  <2>1. CASE r = s
    BY <1>1, <1>4, <1>5, <2>1
  <2>2. CASE r # s
    BY <1>5, <2>2
  <2> QED BY <2>1, <2>2
<1> QED BY <1>2, <1>4, <1>5, <1>6 DEF OnlyPops, new

(* Emptying a kernel stack, as an entry from ring 3 does, only loses frames.*)
LEMMA Empty ==
  ASSUME NEW ks \in [Stacks -> Seq(Frame)], NEW s \in Stacks,
         NEW frames, frames = ks[s] \/ frames = <<>>
  PROVE  /\ [ks EXCEPT ![s] = frames] \in [Stacks -> Seq(Frame)]
         /\ OnlyPops([ks EXCEPT ![s] = frames], ks)
<1>1. frames \in Seq(Frame)
  BY EmptySeq
<1>2. Len(<<>>) = 0
  OBVIOUS
<1> QED BY <1>1, <1>2 DEF OnlyPops

(* A new program p of the terminal on the screen, the child of its          *)
(* foreground program if it has one, keeps the accounts and the chains.     *)
LEMMA ProgramAdded ==
  ASSUME IInv, phase # "wild", TaskCount < MAX_PROCESSES,
         NEW t \in TERMS, t = current_terminal, NEW p \in ScanResult,
         prog_count' = [prog_count EXCEPT ![t] = @ + 1],
         memoryspace' = [memoryspace EXCEPT ![p] = 1],
         pcb_loc' = [pcb_loc EXCEPT ![t] = p],
         pcb'[p].lastpcb_ptr = PrevPcb(p), pcb'[p].term_num = t,
         \A q \in Live : /\ pcb'[q].lastpcb_ptr = pcb[q].lastpcb_ptr
                         /\ pcb'[q].term_num = pcb[q].term_num
  PROVE  /\ p \in PIDS /\ p \notin Live /\ Live' = Live \cup {p}
         /\ Accounting' /\ Limit' /\ ChainOK'
<1> USE MaxAssumption, NullAssumption, BootAssumption
<1>1. p \in PIDS /\ p \notin Live
  BY FreeNumber DEF IInv
<1>2. TypeOK /\ PIDS \subseteq Nat
  BY DEF IInv, PIDS
<1>3. Live' = Live \cup {p}
  BY <1>1, <1>2 DEF Live, TypeOK
<1>4. \A q \in Live : /\ q # p
                      /\ pcb'[q].lastpcb_ptr = pcb[q].lastpcb_ptr
                      /\ pcb'[q].term_num = pcb[q].term_num
  BY <1>1
<1>5. /\ prog_count'[t] = prog_count[t] + 1
      /\ \A u \in TERMS \ {t} : prog_count'[u] = prog_count[u]
  BY <1>2 DEF TypeOK
<1>6. Accounting'
  <2>1. InTerminal(t)' = InTerminal(t) \cup {p}
    BY <1>3, <1>4 DEF InTerminal
  <2>2. \A u \in TERMS \ {t} : InTerminal(u)' = InTerminal(u)
    BY <1>3, <1>4 DEF InTerminal
  <2>3. IsFiniteSet(InTerminal(t)) /\ p \notin InTerminal(t)
    BY <1>1, FiniteTerminals DEF InTerminal
  <2>4. Cardinality(InTerminal(t)') = Cardinality(InTerminal(t)) + 1
    BY <2>1, <2>3, FS_AddElement
  <2> QED
    <3> SUFFICES ASSUME NEW u \in TERMS
                 PROVE  prog_count'[u] = Cardinality(InTerminal(u)')
      BY DEF Accounting
    <3>1. prog_count[u] = Cardinality(InTerminal(u))
      BY DEF IInv, Accounting
    <3>2. CASE u = t
      BY <1>2, <1>5, <2>4, <3>1, <3>2
    <3>3. CASE u # t
      BY <1>5, <2>2, <3>1, <3>3
    <3> QED BY <3>2, <3>3
<1>7. Limit'
  <2>1. prog_count[0] \in Nat /\ prog_count[1] \in Nat /\ prog_count[2] \in Nat
    BY <1>2 DEF TypeOK, TERMS
  <2>2. prog_count'[0] + prog_count'[1] + prog_count'[2]
          = prog_count[0] + prog_count[1] + prog_count[2] + 1
    <3>1. PICK a \in Nat, b \in Nat, c \in Nat :
            prog_count[0] = a /\ prog_count[1] = b /\ prog_count[2] = c
      BY <2>1
    <3>2. \/ prog_count'[0] = a + 1 /\ prog_count'[1] = b /\ prog_count'[2] = c
          \/ prog_count'[0] = a /\ prog_count'[1] = b + 1 /\ prog_count'[2] = c
          \/ prog_count'[0] = a /\ prog_count'[1] = b /\ prog_count'[2] = c + 1
      BY <1>2, <1>5, <3>1 DEF TERMS
    <3>3. /\ (a + 1) + b + c = a + b + c + 1
          /\ a + (b + 1) + c = a + b + c + 1
          /\ a + b + (c + 1) = a + b + c + 1
      OBVIOUS
    <3> QED BY <3>1, <3>2, <3>3, Zenon
  <2> QED BY <2>1, <2>2 DEF Limit, TaskCount
<1>8. /\ pcb_loc'[t] = p
       /\ \A u \in TERMS \ {t} : pcb_loc'[u] = pcb_loc[u]
  BY <1>2 DEF TypeOK
<1>9. ChainOK'
  <2>1. PICK d \in [PIDS -> PIDS] : Levels(d) /\ ForegroundOK(d)
    BY DEF IInv, ChainOK
  <2>2. PICK n \in PIDS : n = prog_count[t]
    <3>1. t = 0 \/ t = 1 \/ t = 2
      BY <1>2 DEF TERMS
    <3>2. \A u \in TERMS : prog_count[u] \in Nat
      BY <1>2 DEF TypeOK
    <3>3. prog_count[t] \in 0 .. MAX_PROCESSES - 1
      BY <3>1, <3>2 DEF TaskCount, TERMS
    <3> QED BY <3>3 DEF PIDS
  <2> DEFINE e == [d EXCEPT ![p] = n]
  <2>3. e \in [PIDS -> PIDS] /\ e[p] = n /\ \A q \in Live : e[q] = d[q]
    BY <1>1, <2>1, <2>2 DEF Live
  <2> HIDE DEF e
  <2>4. Levels(e)'
    <3>0. /\ PIDS \subseteq Nat /\ prog_count \in [TERMS -> Nat]
          /\ d \in [PIDS -> PIDS] /\ n \in Nat
          /\ Live \subseteq PIDS
      BY <1>2, <2>2 DEF TypeOK, Live
    <3>1. pcb'[p].term_num = t /\ pcb'[p].lastpcb_ptr = PrevPcb(p)
      OBVIOUS
    <3>2. \/ n = 0 /\ PrevPcb(p) = p
          \/ /\ n # 0 /\ PrevPcb(p) = Foreground /\ Foreground \in Live
             /\ pcb[Foreground].term_num = t /\ d[Foreground] = n - 1
      BY <1>2, <2>1, <2>2, <3>0 DEF PrevPcb, ForegroundOK, Foreground
    <3>3. \A q \in Live : d[q] < prog_count[pcb[q].term_num]
                          /\ pcb[q].term_num \in TERMS
      BY <2>1 DEF Levels, IInv, PcbsOK, PcbOK
    <3>4. \A q \in Live' : pcb'[q].lastpcb_ptr = q <=> e[q] = 0
      <4> SUFFICES ASSUME NEW q \in Live'
                   PROVE  pcb'[q].lastpcb_ptr = q <=> e[q] = 0
        OBVIOUS
      <4>1. CASE q = p
        <5>1. n # 0 => PrevPcb(p) # p
          BY <1>1, <3>2
        <5> QED BY <2>3, <3>1, <3>2, <4>1, <5>1
      <4>2. CASE q \in Live
        <5>1. pcb[q].lastpcb_ptr = q <=> d[q] = 0
          BY <2>1, <4>2 DEF Levels
        <5>2. e[q] = d[q] /\ pcb'[q].lastpcb_ptr = pcb[q].lastpcb_ptr
          BY <1>4, <2>3, <4>2
        <5> QED BY <5>1, <5>2
      <4> QED BY <1>3, <4>1, <4>2
    <3>5. \A q \in Live' : pcb'[q].lastpcb_ptr # q =>
            /\ pcb'[q].lastpcb_ptr \in Live'
            /\ pcb'[pcb'[q].lastpcb_ptr].term_num = pcb'[q].term_num
            /\ e[q] = e[pcb'[q].lastpcb_ptr] + 1
      <4> SUFFICES ASSUME NEW q \in Live', pcb'[q].lastpcb_ptr # q
                   PROVE  /\ pcb'[q].lastpcb_ptr \in Live'
                          /\ pcb'[pcb'[q].lastpcb_ptr].term_num
                               = pcb'[q].term_num
                          /\ e[q] = e[pcb'[q].lastpcb_ptr] + 1
        OBVIOUS
      <4>1. CASE q = p
        <5>1. n # 0 /\ pcb'[p].lastpcb_ptr = Foreground /\ Foreground \in Live
              /\ pcb[Foreground].term_num = t /\ d[Foreground] = n - 1
          BY <3>1, <3>2, <4>1
        <5>2. pcb'[Foreground].term_num = t /\ e[Foreground] = n - 1
          BY <1>4, <2>3, <5>1
        <5> QED BY <1>3, <2>3, <3>0, <3>1, <4>1, <5>1, <5>2
      <4>2. CASE q \in Live
        BY <1>3, <1>4, <2>1, <2>3, <4>2 DEF Levels
      <4> QED BY <1>3, <4>1, <4>2
    <3>6. \A q \in Live' : e[q] < prog_count'[pcb'[q].term_num]
      <4> SUFFICES ASSUME NEW q \in Live'
                   PROVE  e[q] < prog_count'[pcb'[q].term_num]
        OBVIOUS
      <4>1. CASE q = p
        BY <1>5, <2>2, <2>3, <3>0, <3>1, <4>1
      <4>2. CASE q \in Live
        <5>1. \A u \in TERMS : prog_count[u] <= prog_count'[u]
          BY <1>5, <3>0
        <5>2. prog_count'[pcb[q].term_num] \in Nat
          BY <1>5, <3>0, <3>3, <4>2
        <5>3. pcb'[q].term_num = pcb[q].term_num /\ e[q] = d[q] /\ d[q] \in Nat
          BY <1>4, <2>3, <3>0, <4>2
        <5> QED BY <3>0, <3>3, <4>2, <5>1, <5>2, <5>3
      <4> QED BY <1>3, <4>1, <4>2
    <3>7. \A q \in Live : pcb[q].term_num = t => e[q] # n
      BY <2>2, <2>3, <3>0, <3>3
    <3>8. \A q, r \in Live' :
            pcb'[q].term_num = pcb'[r].term_num /\ e[q] = e[r] => q = r
      BY <1>3, <1>4, <2>1, <2>3, <3>1, <3>7 DEF Levels
    <3> QED BY <3>4, <3>5, <3>6, <3>8 DEF Levels
  <2>5. ForegroundOK(e)'
    <3> SUFFICES ASSUME NEW u \in TERMS, prog_count'[u] # 0
                 PROVE  /\ pcb_loc'[u] \in Live'
                        /\ pcb'[pcb_loc'[u]].term_num = u
                        /\ e[pcb_loc'[u]] = prog_count'[u] - 1
      BY DEF ForegroundOK
    <3>1. CASE u = t
      <4>1. prog_count'[t] - 1 = n
        BY <1>2, <1>5, <2>2
      <4>2. p \in Live' /\ pcb'[p].term_num = t /\ pcb_loc'[t] = p
        BY <1>3, <1>4, <1>8
      <4> QED BY <2>3, <3>1, <4>1, <4>2
    <3>2. CASE u # t
      BY <1>3, <1>4, <1>5, <1>8, <2>1, <2>3, <3>2 DEF ForegroundOK
    <3> QED BY <3>1, <3>2
  <2> QED BY <2>3, <2>4, <2>5 DEF ChainOK
<1> QED BY <1>1, <1>3, <1>6, <1>7, <1>9

(* execute keeps the invariant, both for the first program of a terminal    *)
(* and for the child of the foreground program.                             *)
LEMMA ExecuteStep ==
  ASSUME IInv, phase # "wild",
         NEW s \in Stacks, NEW frames \in Seq(Frame), NEW back \in Phases,
         frames = kstack[s] \/ frames = <<>>,
         \/ prog_count[current_terminal] = 0 /\ back = "launch"
         \/ /\ prog_count[current_terminal] # 0 /\ back = "user"
            /\ s = Foreground /\ cr3 = Foreground,
         ExecuteOn(s, frames, back)
  PROVE  IInv'
<1> USE MaxAssumption, NullAssumption, BootAssumption
<1>0. PICK t \in TERMS : t = current_terminal
  BY DEF IInv, TypeOK
<1> DEFINE entry(p) == [kind |-> "execute", pid |-> p, back |-> back]
           new(p) == [lastpcb_ptr |-> PrevPcb(p),
                      esp |-> [stack |-> s, depth |-> Len(frames) + 1],
                      pagedir |-> cr3,
                      curr_esp |-> [stack |-> p, depth |-> 0],
                      curr_pd |-> p,
                      term_num |-> t]
<1>1. PICK p \in ScanResult :
        /\ prog_count' = [prog_count EXCEPT ![t] = @ + 1]
        /\ memoryspace' = [memoryspace EXCEPT ![p] = 1]
        /\ pcb_loc' = [pcb_loc EXCEPT ![t] = p]
        /\ pcb' = [pcb EXCEPT ![p] = new(p)]
        /\ kstack' = [kstack EXCEPT ![s] = Append(frames, entry(p))]
        /\ cr3' = p
        /\ esp0' = p
        /\ running' = p
        /\ phase' = "user"
        /\ current_terminal' = t
  BY <1>0 DEF ExecuteOn, ProgInit
<1>2. TaskCount < MAX_PROCESSES
  BY DEF ExecuteOn, ProgInit
<1>3. p \in PIDS /\ p \notin Live
  BY <1>2, FreeNumber DEF IInv
<1>4. t = current_terminal /\ t \in TERMS /\ TypeOK /\ p \in Stacks /\ PIDS \subseteq Nat
  BY <1>0, <1>3 DEF IInv, TypeOK, Stacks, PIDS
<1>5. Live' = Live \cup {p}
  BY <1>1, <1>3, <1>4 DEF Live, TypeOK
<1>6. pcb'[p] = new(p) /\ \A q \in Live : pcb'[q] = pcb[q] /\ q # p
  BY <1>1, <1>3, <1>4 DEF TypeOK, Live
<1>7. /\ prog_count'[t] = prog_count[t] + 1
      /\ \A u \in TERMS \ {t} : prog_count'[u] = prog_count[u]
  BY <1>1, <1>4 DEF TypeOK
<1>8. PrevPcb(p) \in PIDS /\ new(p) \in Pcb /\ entry(p) \in Frame
  <2>1. prog_count[t] # 0 => Foreground \in PIDS
    BY <1>4 DEF IInv, ChainOK, ForegroundOK, Live, Foreground
  <2>2. PrevPcb(p) \in PIDS
    BY <1>3, <1>4, <2>1 DEF PrevPcb, TypeOK
  <2>3. Len(frames) + 1 \in Nat
    BY LenProperties
  <2> QED BY <1>3, <1>4, <2>2, <2>3
          DEF Pcb, Frame, Context, TypeOK, Phases
<1>9. TypeOK'
  <2>1. kstack' \in [Stacks -> Seq(Frame)]
    <3>1. Append(frames, entry(p)) \in Seq(Frame)
      BY <1>8, AppendProperties
    <3> QED BY <1>1, <1>4, <3>1 DEF TypeOK
  <2>2. pcb' \in [PIDS -> Pcb]
    BY <1>1, <1>4, <1>8 DEF TypeOK
  <2>3. prog_count' \in [TERMS -> Nat]
    BY <1>1, <1>4 DEF TypeOK
  <2>4. /\ memoryspace' \in [PIDS -> {0, 1}]
        /\ pcb_loc' \in [TERMS -> PIDS \cup {NULL}]
    BY <1>1, <1>3, <1>4 DEF TypeOK
  <2> QED BY <1>1, <1>4, <2>1, <2>2, <2>3, <2>4 DEF TypeOK, Phases
<1>10. Accounting' /\ Limit' /\ ChainOK'
  <2>1. phase # "wild" /\ t \in TERMS /\ t = current_terminal
    BY <1>4
  <2>2. \A q \in Live : /\ pcb'[q].lastpcb_ptr = pcb[q].lastpcb_ptr
                        /\ pcb'[q].term_num = pcb[q].term_num
    BY <1>6
  <2>3. pcb'[p].lastpcb_ptr = PrevPcb(p) /\ pcb'[p].term_num = t
    BY <1>6
  <2> QED BY <1>1, <1>2, <2>1, <2>2, <2>3, ProgramAdded
<1>11. /\ Foreground' = p
       /\ pcb_loc'[t] = p
       /\ \A u \in TERMS \ {t} : pcb_loc'[u] = pcb_loc[u]
  BY <1>1, <1>4 DEF TypeOK, Foreground
<1>12. /\ kstack' \in [Stacks -> Seq(Frame)]
       /\ kstack'[s][Len(frames) + 1] = entry(p)
       /\ \A r \in Stacks : \A i \in 1 .. Len(kstack'[r]) :
            \/ r = s /\ i = Len(frames) + 1
            \/ i \in 1 .. Len(kstack[r]) /\ kstack'[r][i] = kstack[r][i]
  BY <1>1, <1>4, <1>8, Push DEF TypeOK
<1> QED
  <2>1. PcbsOK'
    <3> SUFFICES ASSUME NEW q \in Live'
                 PROVE  PcbOK(q)' /\ CallerOK(q)'
      BY DEF PcbsOK
    <3>1. CASE q = p
      <4>1. PcbOK(p)'
        <5>1. pcb'[p] = new(p) /\ new(p) \in Pcb /\ PrevPcb(p) \in PIDS
          BY <1>6, <1>8
        <5>2. PrevPcb(p) # p => s = PrevPcb(p) /\ cr3 = PrevPcb(p)
          BY <1>4 DEF PrevPcb, TypeOK
        <5>3. Len(frames) + 1 \in Nat /\ cr3 \in Stacks
          BY <1>4, LenProperties DEF TypeOK
        <5> QED BY <5>1, <5>2, <5>3, <1>4, <1>3 DEF PcbOK, Context
      <4>2. CallerOK(p)'
        <5>1. back = IF PrevPcb(p) = p THEN "launch" ELSE "user"
          <6>1. prog_count[t] # 0 => Foreground \in Live
            BY <1>4 DEF IInv, ChainOK, ForegroundOK, Foreground
          <6> QED BY <1>3, <1>4, <6>1 DEF PrevPcb, TypeOK
        <5> QED BY <1>6, <1>12, <5>1 DEF CallerOK
      <4> QED BY <3>1, <4>1, <4>2
    <3>2. CASE q \in Live
      <4>1. PcbOK(q)'
        BY <1>6, <3>2 DEF PcbOK, IInv, PcbsOK
      <4>2. CallerOK(q)'
        <5>1. /\ CallerOK(q) /\ pcb[q].esp \in Context
              /\ q # p /\ pcb'[q] = pcb[q]
          BY <1>6, <3>2 DEF IInv, PcbsOK, PcbOK
        <5>2. kstack \in [Stacks -> Seq(Frame)] /\ entry(p).pid = p
          BY <1>4 DEF TypeOK
        <5> HIDE DEF entry
        <5> QED BY <1>1, <1>8, <5>1, <5>2, PushKeepsCaller
      <4> QED BY <4>1, <4>2
    <3> QED BY <1>5, <3>1, <3>2
  <2>2. FramesOK'
    <3> SUFFICES ASSUME NEW r \in Stacks, NEW i \in 1 .. Len(kstack'[r])
                 PROVE  FrameOK(r, i)'
      BY DEF FramesOK
    <3>1. CASE r = s /\ i = Len(frames) + 1
      BY <1>12, <3>1 DEF FrameOK
    <3>2. CASE i \in 1 .. Len(kstack[r]) /\ kstack'[r][i] = kstack[r][i]
      BY <3>2 DEF FrameOK, FramesOK, IInv
    <3> QED BY <1>12, <3>1, <3>2
  <2>3. EmptyOK'
    <3>1. \A u \in TERMS \ {t} : prog_count[u] = 0 => pcb_loc[u] = NULL
      BY <1>4 DEF IInv, EmptyOK
    <3>2. prog_count'[t] # 0
      BY <1>4, <1>7 DEF TypeOK
    <3> QED BY <1>1, <1>4, <1>7, <1>11, <3>1, <3>2 DEF EmptyOK
  <2>4. CurrentIsRunning'
    BY <1>1, <1>4, <1>5, <1>11 DEF CurrentIsRunning
  <2> QED BY <1>9, <1>10, <2>1, <2>2, <2>3, <2>4 DEF IInv

(* Losing frames disturbs neither what the PCBs say of their frames nor     *)
(* what the frames say.                                                     *)
LEMMA PopsKeep ==
  ASSUME TypeOK, PcbsOK, FramesOK,
         kstack' \in [Stacks -> Seq(Frame)], OnlyPops(kstack', kstack),
         pcb' = pcb, Live' \subseteq Live
  PROVE  PcbsOK' /\ FramesOK'
<1>1. \A r \in Stacks : /\ DOMAIN kstack[r] = 1 .. Len(kstack[r])
                        /\ DOMAIN kstack'[r] = 1 .. Len(kstack'[r])
  BY LenProperties DEF TypeOK
<1>2. ASSUME NEW p \in Live'
      PROVE  PcbOK(p)' /\ CallerOK(p)'
  <2>1. PcbOK(p) /\ CallerOK(p)
    BY <1>2 DEF PcbsOK
  <2>2. pcb[p].esp.stack \in Stacks
    BY <2>1 DEF PcbOK, Context
  <2> QED BY <1>1, <2>1, <2>2 DEF PcbOK, CallerOK, Holds, OnlyPops
<1>3. ASSUME NEW s \in Stacks, NEW i \in 1 .. Len(kstack'[s])
      PROVE  FrameOK(s, i)'
  BY <1>3 DEF OnlyPops, FramesOK, FrameOK
<1> QED BY <1>2, <1>3 DEF PcbsOK, FramesOK

(* A step that moves no program and leaves parents and terminals alone      *)
(* keeps the accounts and the chains of programs.                           *)
LEMMA ProgramsKeep ==
  ASSUME TypeOK, Accounting, Limit, ChainOK, phase # "wild",
         prog_count' = prog_count, memoryspace' = memoryspace,
         pcb_loc' = pcb_loc,
         \A p \in Live : /\ pcb'[p].lastpcb_ptr = pcb[p].lastpcb_ptr
                         /\ pcb'[p].term_num = pcb[p].term_num,
         PcbsOK
  PROVE  Live' = Live /\ Accounting' /\ Limit' /\ ChainOK'
<1>1. Live' = Live
  BY DEF Live
<1>2. \A t : InTerminal(t)' = InTerminal(t)
  BY <1>1 DEF InTerminal
<1>3. Accounting'
  BY <1>2 DEF Accounting
<1>4. Limit'
  BY DEF Limit, TaskCount
<1>5. PICK d \in [PIDS -> PIDS] : Levels(d) /\ ForegroundOK(d)
  BY DEF ChainOK
<1>6. Levels(d)'
  BY <1>1, <1>5 DEF Levels
<1>7. ForegroundOK(d)'
  BY <1>1, <1>5 DEF ForegroundOK
<1> QED BY <1>1, <1>3, <1>4, <1>5, <1>6, <1>7 DEF ChainOK

(* What halt finds: the program that calls it is in use, is the last one    *)
(* started of its terminal, and no program in use has it as its parent.     *)
LEMMA HaltFinds ==
  ASSUME IInv, phase = "user", Foreground # NULL,
         NEW d \in [PIDS -> PIDS], Levels(d), ForegroundOK(d)
  PROVE  /\ prog_count[current_terminal] # 0
         /\ Foreground \in Live
         /\ pcb[Foreground].term_num = current_terminal
         /\ d[Foreground] = prog_count[current_terminal] - 1
         /\ PcbOK(Foreground) /\ CallerOK(Foreground)
         /\ \A q \in Live \ {Foreground} :
              /\ pcb[q].lastpcb_ptr # Foreground
              /\ pcb[q].term_num = current_terminal =>
                   d[q] < prog_count[current_terminal] - 1
<1>1. current_terminal \in TERMS /\ prog_count \in [TERMS -> Nat]
      /\ PIDS \subseteq Nat /\ Live \subseteq PIDS
  BY MaxAssumption DEF IInv, TypeOK, PIDS, Live
<1>2. prog_count[current_terminal] # 0
  BY <1>1 DEF IInv, EmptyOK, Foreground
<1>3. /\ Foreground \in Live
      /\ pcb[Foreground].term_num = current_terminal
      /\ d[Foreground] = prog_count[current_terminal] - 1
  BY <1>1, <1>2 DEF ForegroundOK, Foreground
<1>4. PcbOK(Foreground) /\ CallerOK(Foreground)
  BY <1>3 DEF IInv, PcbsOK
<1>5. ASSUME NEW q \in Live \ {Foreground}
      PROVE  /\ pcb[q].lastpcb_ptr # Foreground
             /\ pcb[q].term_num = current_terminal =>
                  d[q] < prog_count[current_terminal] - 1
  <2>1. d[q] < prog_count[pcb[q].term_num] /\ d[q] \in Nat
        /\ prog_count[current_terminal] \in Nat
    BY <1>1, <1>5 DEF Levels
  <2>2. pcb[q].term_num = current_terminal => d[q] # d[Foreground]
    BY <1>3, <1>5 DEF Levels
  <2>3. pcb[q].lastpcb_ptr = Foreground =>
          /\ pcb[q].term_num = current_terminal
          /\ d[q] = d[Foreground] + 1
    BY <1>3, <1>5 DEF Levels
  <2> QED BY <1>3, <2>1, <2>2, <2>3
<1> QED BY <1>2, <1>3, <1>4, <1>5

(* Both ends of halt remove the program from the accounts.                  *)
LEMMA HaltEffectStep ==
  ASSUME IInv, HaltEffect,
         kstack' \in [Stacks -> Seq(Frame)], OnlyPops(kstack', kstack),
         phase' \in Phases, pcb_loc' \in [TERMS -> PIDS \cup {NULL}],
         NEW d \in [PIDS -> PIDS], Levels(d), ForegroundOK(d)
  PROVE  /\ Live' = Live \ {Foreground}
         /\ prog_count'[current_terminal] = prog_count[current_terminal] - 1
         /\ \A u \in TERMS \ {current_terminal} : prog_count'[u] = prog_count[u]
         /\ TypeOK' /\ Accounting' /\ Limit' /\ PcbsOK' /\ FramesOK'
         /\ Levels(d)'
<1>1. PICK t \in TERMS : t = current_terminal
  BY DEF IInv, TypeOK
<1>2. PICK p : p = Foreground
  OBVIOUS
<1>3. /\ prog_count[t] # 0 /\ p \in Live /\ pcb[p].term_num = t
      /\ d[p] = prog_count[t] - 1
      /\ PcbOK(p)
      /\ \A q \in Live \ {p} : /\ pcb[q].lastpcb_ptr # p
                               /\ pcb[q].term_num = t => d[q] < prog_count[t] - 1
  BY <1>1, <1>2, HaltFinds DEF HaltEffect
<1>4. TypeOK /\ PIDS \subseteq Stacks /\ Live \subseteq PIDS
  BY DEF IInv, Stacks, Live
<1>5. /\ prog_count' = [prog_count EXCEPT ![t] = @ - 1]
      /\ memoryspace' = [memoryspace EXCEPT ![p] = 0]
      /\ esp0' = pcb[p].lastpcb_ptr
      /\ cr3' = pcb[p].pagedir
      /\ running' = pcb[p].esp.stack
      /\ current_terminal' = t /\ pcb' = pcb
  BY <1>1, <1>2 DEF HaltEffect
<1>6. Live' = Live \ {p}
  BY <1>3, <1>4, <1>5 DEF Live, TypeOK
<1>7. /\ prog_count'[t] = prog_count[t] - 1 /\ prog_count[t] \in Nat \ {0}
      /\ \A u \in TERMS \ {t} : prog_count'[u] = prog_count[u]
  BY <1>3, <1>4, <1>5 DEF TypeOK
<1>8. TypeOK'
  <2>1. prog_count' \in [TERMS -> Nat]
    BY <1>4, <1>5, <1>7 DEF TypeOK
  <2>2. memoryspace' \in [PIDS -> {0, 1}]
    BY <1>4, <1>5 DEF TypeOK
  <2>3. esp0' \in Stacks /\ cr3' \in Stacks /\ running' \in Stacks
    BY <1>3, <1>4, <1>5 DEF PcbOK, Context
  <2> QED BY <1>4, <1>5, <2>1, <2>2, <2>3 DEF TypeOK
<1>9. Accounting'
  <2>1. InTerminal(t)' = InTerminal(t) \ {p}
    BY <1>5, <1>6 DEF InTerminal
  <2>2. \A u \in TERMS \ {t} : InTerminal(u)' = InTerminal(u)
    BY <1>3, <1>5, <1>6 DEF InTerminal
  <2>3. IsFiniteSet(InTerminal(t)) /\ p \in InTerminal(t)
    BY <1>3, FiniteTerminals DEF InTerminal
  <2>4. Cardinality(InTerminal(t)') = Cardinality(InTerminal(t)) - 1
    BY <2>1, <2>3, FS_RemoveElement
  <2> SUFFICES ASSUME NEW u \in TERMS
               PROVE  prog_count'[u] = Cardinality(InTerminal(u)')
    BY DEF Accounting
  <2>5. prog_count[u] = Cardinality(InTerminal(u))
    BY DEF IInv, Accounting
  <2>6. CASE u = t
    BY <1>7, <2>4, <2>5, <2>6
  <2>7. CASE u # t
    BY <1>7, <2>2, <2>5, <2>7
  <2> QED BY <2>6, <2>7
<1>10. Limit'
  <2>1. prog_count[0] \in Nat /\ prog_count[1] \in Nat /\ prog_count[2] \in Nat
    BY <1>4 DEF TypeOK, TERMS
  <2>2. prog_count'[0] + prog_count'[1] + prog_count'[2]
          = prog_count[0] + prog_count[1] + prog_count[2] - 1
    <3>1. PICK a \in Nat, b \in Nat, c \in Nat :
            prog_count[0] = a /\ prog_count[1] = b /\ prog_count[2] = c
      BY <2>1
    <3>2. \/ prog_count'[0] = a - 1 /\ prog_count'[1] = b /\ prog_count'[2] = c
          \/ prog_count'[0] = a /\ prog_count'[1] = b - 1 /\ prog_count'[2] = c
          \/ prog_count'[0] = a /\ prog_count'[1] = b /\ prog_count'[2] = c - 1
      BY <1>4, <1>7, <3>1 DEF TERMS
    <3>3. /\ (a - 1) + b + c = a + b + c - 1
          /\ a + (b - 1) + c = a + b + c - 1
          /\ a + b + (c - 1) = a + b + c - 1
      OBVIOUS
    <3> QED BY <3>1, <3>2, <3>3, Zenon
  <2> QED BY <2>1, <2>2, MaxAssumption DEF IInv, Limit, TaskCount
<1>11. PcbsOK' /\ FramesOK'
  BY <1>5, <1>6, PopsKeep DEF IInv
<1>12. Levels(d)'
  <2>1. \A q \in Live' : q \in Live /\ q # p
    BY <1>6
  <2>2. \A q \in Live' : pcb[q].lastpcb_ptr = q <=> d[q] = 0
    BY <2>1 DEF Levels
  <2>3. \A q \in Live' : pcb[q].lastpcb_ptr # q =>
          /\ pcb[q].lastpcb_ptr \in Live'
          /\ pcb[pcb[q].lastpcb_ptr].term_num = pcb[q].term_num
          /\ d[q] = d[pcb[q].lastpcb_ptr] + 1
    <3> SUFFICES ASSUME NEW q \in Live', pcb[q].lastpcb_ptr # q
                 PROVE  /\ pcb[q].lastpcb_ptr \in Live'
                        /\ pcb[pcb[q].lastpcb_ptr].term_num = pcb[q].term_num
                        /\ d[q] = d[pcb[q].lastpcb_ptr] + 1
      OBVIOUS
    <3>1. /\ pcb[q].lastpcb_ptr \in Live
          /\ pcb[pcb[q].lastpcb_ptr].term_num = pcb[q].term_num
          /\ d[q] = d[pcb[q].lastpcb_ptr] + 1
      BY <2>1 DEF Levels
    <3>2. pcb[q].lastpcb_ptr # p
      BY <1>3, <2>1
    <3> QED BY <1>6, <3>1, <3>2
  <2>4. \A q \in Live' : d[q] < prog_count'[pcb[q].term_num]
    <3> SUFFICES ASSUME NEW q \in Live'
                 PROVE  d[q] < prog_count'[pcb[q].term_num]
      OBVIOUS
    <3>1. pcb[q].term_num \in TERMS
      BY <2>1 DEF IInv, PcbsOK, PcbOK
    <3>2. CASE pcb[q].term_num = t
      BY <1>3, <1>7, <2>1, <3>2
    <3>3. CASE pcb[q].term_num # t
      BY <1>7, <2>1, <3>1, <3>3 DEF Levels
    <3> QED BY <3>2, <3>3
  <2>5. \A q, r \in Live' :
          pcb[q].term_num = pcb[r].term_num /\ d[q] = d[r] => q = r
    BY <2>1 DEF Levels
  <2> QED BY <1>5, <2>2, <2>3, <2>4, <2>5 DEF Levels
<1> QED BY <1>1, <1>2, <1>6, <1>7, <1>8, <1>9, <1>10, <1>11, <1>12

(* Entering the kernel from ring 3 empties the stack esp0 points to.        *)
LEMMA Entry ==
  ASSUME TypeOK
  PROVE  /\ EntryStack \in Stacks /\ EntryFrames \in Seq(Frame)
         /\ EntryFrames = kstack[EntryStack] \/ EntryFrames = <<>>
         /\ AfterEntry \in [Stacks -> Seq(Frame)]
         /\ OnlyPops(AfterEntry, kstack)
<1>1. EntryStack \in Stacks
  BY DEF TypeOK, EntryStack
<1>2. EntryFrames = kstack[EntryStack] \/ EntryFrames = <<>>
  BY DEF EntryFrames, EntryStack
<1>3. EntryFrames \in Seq(Frame)
  BY <1>1, <1>2, EmptySeq DEF TypeOK
<1>4. AfterEntry \in [Stacks -> Seq(Frame)] /\ OnlyPops(AfterEntry, kstack)
  BY <1>1, <1>2, Empty DEF TypeOK, AfterEntry
<1> QED BY <1>1, <1>2, <1>3, <1>4

(* halt that returns to the frame of its execute call keeps the invariant:  *)
(* the parent, alone on its stack and in its address space, goes on.        *)
LEMMA HaltStep ==
  ASSUME IInv, Halt
  PROVE  IInv'
<1>1. PICK d \in [PIDS -> PIDS] : Levels(d) /\ ForegroundOK(d)
  BY DEF IInv, ChainOK
<1>2. PICK t \in TERMS : t = current_terminal
  BY DEF IInv, TypeOK
<1>3. PICK p : p = Foreground
  OBVIOUS
<1>4. PICK c : c = pcb[p].esp
  OBVIOUS
<1>5. PICK f : f = pcb[p].lastpcb_ptr
  OBVIOUS
<1>6. /\ HaltEffect /\ phase = "user" /\ p # NULL
      /\ Holds(AfterEntry, c, "execute", p)
      /\ phase' = AfterEntry[c.stack][c.depth].back
      /\ kstack' = Returned(AfterEntry, c.stack, c.depth)
      /\ pcb_loc' = IF prog_count'[t] # 0
                    THEN [pcb_loc EXCEPT ![t] = f] ELSE pcb_loc
  BY <1>2, <1>3, <1>4, <1>5 DEF Halt, HaltEffect
<1>7. /\ prog_count[t] # 0 /\ p \in Live /\ pcb[p].term_num = t
      /\ d[p] = prog_count[t] - 1 /\ PcbOK(p) /\ CallerOK(p)
  BY <1>1, <1>2, <1>3, <1>6, HaltFinds
<1>8. /\ AfterEntry \in [Stacks -> Seq(Frame)] /\ OnlyPops(AfterEntry, kstack)
      /\ TypeOK /\ prog_count[t] \in Nat /\ d[p] \in Nat
  <2>1. TypeOK
    BY DEF IInv
  <2>2. AfterEntry \in [Stacks -> Seq(Frame)] /\ OnlyPops(AfterEntry, kstack)
    BY <2>1, Entry
  <2>3. prog_count[t] \in Nat /\ d[p] \in Nat
    BY <1>2, <1>7, <2>1, MaxAssumption DEF TypeOK, PIDS, Live
  <2> QED BY <2>1, <2>2, <2>3
<1>9. /\ c.stack \in Stacks /\ c.depth \in 1 .. Len(AfterEntry[c.stack])
      /\ c.depth \in 1 .. Len(kstack[c.stack])
      /\ AfterEntry[c.stack][c.depth] = kstack[c.stack][c.depth]
  <2>1. c \in Context
    BY <1>4, <1>7 DEF PcbOK
  <2>2. c.stack \in Stacks /\ c.depth \in 1 .. Len(AfterEntry[c.stack])
    BY <1>6, <1>8, <2>1, LenProperties DEF Holds, Context
  <2> QED BY <1>8, <2>2 DEF OnlyPops
<1>10. phase' = IF f = p THEN "launch" ELSE "user"
  <2>1. Holds(kstack, c, "execute", p)
    <3>1. DOMAIN kstack[c.stack] = 1 .. Len(kstack[c.stack])
      BY <1>8, <1>9, LenProperties DEF TypeOK
    <3> QED BY <1>6, <1>9, <3>1 DEF Holds
  <2> QED BY <1>4, <1>5, <1>6, <1>7, <1>9, <2>1 DEF CallerOK
<1>11. kstack' \in [Stacks -> Seq(Frame)] /\ OnlyPops(kstack', kstack)
  <2>2. kstack' \in [Stacks -> Seq(Frame)] /\ OnlyPops(kstack', AfterEntry)
    BY <1>6, <1>8, <1>9, Pop
  <2> QED BY <1>8, <2>2 DEF OnlyPops
<1>12. f \in PIDS /\ pcb_loc' \in [TERMS -> PIDS \cup {NULL}]
  BY <1>5, <1>6, <1>7, <1>8 DEF PcbOK, TypeOK
<1>13. /\ Live' = Live \ {p}
       /\ prog_count'[t] = prog_count[t] - 1
       /\ \A u \in TERMS \ {t} : prog_count'[u] = prog_count[u]
       /\ TypeOK' /\ Accounting' /\ Limit' /\ PcbsOK' /\ FramesOK'
       /\ Levels(d)'
  BY <1>1, <1>2, <1>3, <1>6, <1>10, <1>11, <1>12, HaltEffectStep DEF Phases
<1>14. /\ f = p <=> d[p] = 0
       /\ f # p => f \in Live' /\ pcb[f].term_num = t /\ d[p] = d[f] + 1
  BY <1>1, <1>5, <1>7, <1>13 DEF Levels
<1>15. f = p <=> prog_count'[t] = 0
  BY <1>7, <1>8, <1>13, <1>14
<1>16. /\ current_terminal' = t /\ pcb' = pcb
       /\ esp0' = f /\ cr3' = pcb[p].pagedir /\ running' = c.stack
  BY <1>2, <1>3, <1>4, <1>5, <1>6 DEF HaltEffect
<1>17. /\ prog_count'[t] # 0 => pcb_loc'[t] = f
       /\ \A u \in TERMS \ {t} : pcb_loc'[u] = pcb_loc[u]
  BY <1>6, <1>8 DEF TypeOK
<1>18. ForegroundOK(d)'
  <2> SUFFICES ASSUME NEW u \in TERMS, prog_count'[u] # 0
               PROVE  /\ pcb_loc'[u] \in Live'
                      /\ pcb'[pcb_loc'[u]].term_num = u
                      /\ d[pcb_loc'[u]] = prog_count'[u] - 1
    BY DEF ForegroundOK
  <2>1. CASE u = t
    <3>1. d[f] \in Nat
      BY <1>12, MaxAssumption DEF PIDS
    <3> QED BY <1>7, <1>8, <1>13, <1>14, <1>15, <1>16, <1>17, <2>1, <3>1
  <2>2. CASE u # t
    BY <1>1, <1>6, <1>7, <1>13, <1>16, <1>17, <2>2 DEF ForegroundOK
  <2> QED BY <2>1, <2>2
<1>19. EmptyOK'
  <2>1. \A u \in TERMS \ {t} : prog_count[u] = 0 => pcb_loc[u] = NULL
    BY <1>6 DEF IInv, EmptyOK
  <2> QED BY <1>10, <1>13, <1>15, <1>16, <1>17, <2>1 DEF EmptyOK
<1>20. CurrentIsRunning'
  <2>1. f # p => c.stack = f /\ pcb[p].pagedir = f
    BY <1>4, <1>5, <1>7 DEF PcbOK
  <2> QED BY <1>10, <1>14, <1>15, <1>16, <1>17, <2>1
          DEF CurrentIsRunning, Foreground
<1> QED BY <1>13, <1>18, <1>19, <1>20 DEF IInv, ChainOK

(* halt that jumps to a frame which is gone keeps the invariant: the        *)
(* program is removed from the accounts all the same.                       *)
LEMMA HaltWildStep ==
  ASSUME IInv, HaltWild
  PROVE  IInv'
<1>1. PICK d \in [PIDS -> PIDS] : Levels(d) /\ ForegroundOK(d)
  BY DEF IInv, ChainOK
<1>2. /\ HaltEffect /\ phase' = "wild" /\ kstack' = AfterEntry
      /\ pcb_loc' = pcb_loc /\ TypeOK
  BY DEF HaltWild, IInv
<1>3. /\ TypeOK' /\ Accounting' /\ Limit' /\ PcbsOK' /\ FramesOK'
      /\ Levels(d)'
      /\ \A u \in TERMS \ {current_terminal} : prog_count'[u] = prog_count[u]
  <2>1. kstack' \in [Stacks -> Seq(Frame)] /\ OnlyPops(kstack', kstack)
    BY <1>2, Entry
  <2>2. phase' \in Phases /\ pcb_loc' \in [TERMS -> PIDS \cup {NULL}]
    BY <1>2 DEF Phases, TypeOK
  <2> QED BY <1>1, <1>2, <2>1, <2>2, HaltEffectStep
<1>4. ForegroundOK(d)' /\ CurrentIsRunning'
  BY <1>2 DEF ForegroundOK, CurrentIsRunning
<1>5. EmptyOK'
  BY <1>2, <1>3 DEF EmptyOK, IInv, HaltEffect
<1> QED BY <1>3, <1>4, <1>5 DEF IInv, ChainOK

(* Beginning and ending the wait of a driver's read keep the invariant.     *)
LEMMA WaitStep ==
  ASSUME IInv, WaitBegin \/ WaitEnd
  PROVE  IInv'
<1>1. /\ UNCHANGED <<current_terminal, prog_count, memoryspace, pcb_loc, pcb,
                     cr3, esp0>>
      /\ phase \in {"user", "wait"} /\ phase' \in {"user", "wait"}
      /\ running' \in {running, esp0}
      /\ kstack' \in {AfterEntry, kstack}
  BY DEF WaitBegin, WaitEnd
<1>2. TypeOK'
  BY <1>1, Entry DEF IInv, TypeOK, Phases
<1>3. Live' = Live /\ Accounting' /\ Limit' /\ ChainOK'
  BY <1>1, ProgramsKeep DEF IInv
<1>4. PcbsOK' /\ FramesOK'
  <2>1. OnlyPops(kstack', kstack)
    BY <1>1, Entry DEF IInv, OnlyPops
  <2> QED BY <1>1, <1>2, <1>3, <2>1, PopsKeep DEF IInv, TypeOK
<1>5. EmptyOK'
  BY <1>1 DEF IInv, EmptyOK, TaskCount
<1>6. CurrentIsRunning'
  BY <1>1, <1>3 DEF IInv, CurrentIsRunning, Foreground
<1> QED BY <1>2, <1>3, <1>4, <1>5, <1>6 DEF IInv

(* An exception, spinning in its handler, keeps the invariant.              *)
LEMMA PanicStep ==
  ASSUME IInv, Panic, phase # "wild"
  PROVE  IInv'
<1>1. /\ UNCHANGED <<current_terminal, prog_count, memoryspace, pcb_loc, pcb,
                     cr3, esp0, running, kstack>>
      /\ phase' = "panic"
  BY DEF Panic
<1>2. TypeOK'
  BY <1>1 DEF IInv, TypeOK, Phases
<1>3. Live' = Live /\ Accounting' /\ Limit' /\ ChainOK'
  BY <1>1, ProgramsKeep DEF IInv
<1>4. PcbsOK' /\ FramesOK'
  <2>1. OnlyPops(kstack', kstack)
    BY <1>1 DEF OnlyPops
  <2> QED BY <1>1, <1>2, <1>3, <2>1, PopsKeep DEF IInv, TypeOK
<1>5. EmptyOK' /\ CurrentIsRunning'
  BY <1>1 DEF IInv, EmptyOK, CurrentIsRunning
<1> QED BY <1>2, <1>3, <1>4, <1>5 DEF IInv

(* Alt+Fn up to its EOI keeps the invariant: the context goes to the PCB of *)
(* the interrupted program, on whose own stack it was saved.                *)
LEMMA SwitchOutStep ==
  ASSUME IInv, NEW t \in TERMS, SwitchOut(t)
  PROVE  IInv'
<1>1. PICK p : p = Foreground
  OBVIOUS
<1>2. PICK s \in Stacks : s = EntryStack
  BY Entry DEF IInv
<1>3. PICK frames \in Seq(Frame) : frames = EntryFrames
  BY Entry DEF IInv
<1> DEFINE f == [kind |-> "switch", pid |-> p, back |-> phase]
<1>4. /\ KeyboardOpen /\ p # NULL
      /\ pcb' = [pcb EXCEPT ![p].curr_esp =
                   [stack |-> s, depth |-> Len(frames) + 1]]
      /\ kstack' = [kstack EXCEPT ![s] = Append(frames, f)]
      /\ running' = s /\ current_terminal' = t /\ phase' = "switch"
      /\ UNCHANGED <<prog_count, memoryspace, pcb_loc, cr3, esp0>>
  BY <1>1, <1>2, <1>3 DEF SwitchOut
<1>5. TypeOK /\ p \in PIDS /\ phase \in {"user", "wait", "switch"}
  BY <1>1, <1>4 DEF IInv, TypeOK, Foreground, KeyboardOpen
<1>6. f \in Frame /\ Len(frames) + 1 \in Nat
  BY <1>5, LenProperties DEF Frame, Phases
<1>7. /\ kstack' \in [Stacks -> Seq(Frame)]
      /\ Len(kstack'[s]) = Len(frames) + 1
      /\ kstack'[s][Len(frames) + 1] = f
      /\ \A r \in Stacks : \A i \in 1 .. Len(kstack'[r]) :
           \/ r = s /\ i = Len(frames) + 1
           \/ i \in 1 .. Len(kstack[r]) /\ kstack'[r][i] = kstack[r][i]
  <2>1. frames = kstack[s] \/ frames = <<>>
    BY <1>2, <1>3, <1>5, Entry
  <2>2. kstack \in [Stacks -> Seq(Frame)]
    BY <1>5 DEF TypeOK
  <2> HIDE DEF f
  <2> QED BY <1>4, <1>6, <2>1, <2>2, Push
<1>8. pcb' \in [PIDS -> Pcb]
      /\ \A q \in PIDS : /\ pcb'[q].lastpcb_ptr = pcb[q].lastpcb_ptr
                         /\ pcb'[q].esp = pcb[q].esp
                         /\ pcb'[q].pagedir = pcb[q].pagedir
                         /\ pcb'[q].curr_pd = pcb[q].curr_pd
                         /\ pcb'[q].term_num = pcb[q].term_num
                         /\ pcb'[q].curr_esp \in Context
                              \/ pcb'[q].curr_esp = pcb[q].curr_esp
  <2> DEFINE c == [stack |-> s, depth |-> Len(frames) + 1]
  <2>1. pcb \in [PIDS -> Pcb] /\ c \in Context
    BY <1>5, <1>6 DEF TypeOK, Context
  <2>2. \A b \in Pcb : /\ [b EXCEPT !.curr_esp = c] \in Pcb
                       /\ [b EXCEPT !.curr_esp = c].lastpcb_ptr = b.lastpcb_ptr
                       /\ [b EXCEPT !.curr_esp = c].esp = b.esp
                       /\ [b EXCEPT !.curr_esp = c].pagedir = b.pagedir
                       /\ [b EXCEPT !.curr_esp = c].curr_pd = b.curr_pd
                       /\ [b EXCEPT !.curr_esp = c].term_num = b.term_num
                       /\ [b EXCEPT !.curr_esp = c].curr_esp = c
    BY <2>1 DEF Pcb
  <2>3. pcb' = [pcb EXCEPT ![p] = [pcb[p] EXCEPT !.curr_esp = c]]
    BY <1>4
  <2> HIDE DEF c
  <2>4. \A q \in PIDS : pcb'[q] = IF q = p THEN [pcb[q] EXCEPT !.curr_esp = c]
                                   ELSE pcb[q]
    BY <2>1, <2>3
  <2>5. pcb' \in [PIDS -> Pcb]
    BY <1>5, <2>1, <2>2, <2>3
  <2> SUFFICES ASSUME NEW q \in PIDS
               PROVE  /\ pcb'[q].lastpcb_ptr = pcb[q].lastpcb_ptr
                      /\ pcb'[q].esp = pcb[q].esp
                      /\ pcb'[q].pagedir = pcb[q].pagedir
                      /\ pcb'[q].curr_pd = pcb[q].curr_pd
                      /\ pcb'[q].term_num = pcb[q].term_num
                      /\ pcb'[q].curr_esp \in Context
                           \/ pcb'[q].curr_esp = pcb[q].curr_esp
    BY <2>5
  <2>6. pcb[q] \in Pcb
    BY <2>1
  <2>7. CASE q = p
    BY <2>1, <2>2, <2>4, <2>6, <2>7
  <2>8. CASE q # p
    BY <2>4, <2>8
  <2> QED BY <2>7, <2>8
<1>9. TypeOK'
  BY <1>4, <1>5, <1>7, <1>8 DEF TypeOK, Phases
<1>10. Live' = Live /\ Accounting' /\ Limit' /\ ChainOK'
  <2>1. \A q \in Live : /\ pcb'[q].lastpcb_ptr = pcb[q].lastpcb_ptr
                        /\ pcb'[q].term_num = pcb[q].term_num
    BY <1>8 DEF Live
  <2>2. phase # "wild"
    BY <1>5
  <2> QED BY <1>4, <2>1, <2>2, ProgramsKeep DEF IInv
<1>11. PcbsOK'
  <2> SUFFICES ASSUME NEW q \in Live'
               PROVE  PcbOK(q)' /\ CallerOK(q)'
    BY DEF PcbsOK
  <2>1. q \in PIDS /\ PcbOK(q) /\ CallerOK(q)
    BY <1>10 DEF Live, IInv, PcbsOK
  <2>2. PcbOK(q)'
    BY <1>8, <2>1 DEF PcbOK
  <2>3. CallerOK(q)'
    <3>1. /\ CallerOK(q) /\ pcb[q].esp \in Context
          /\ pcb'[q].esp = pcb[q].esp
          /\ pcb'[q].lastpcb_ptr = pcb[q].lastpcb_ptr
      BY <1>8, <2>1 DEF PcbOK
    <3>2. /\ kstack \in [Stacks -> Seq(Frame)] /\ f.kind = "switch"
          /\ frames = kstack[s] \/ frames = <<>>
      BY <1>2, <1>3, <1>5, Entry DEF TypeOK
    <3> HIDE DEF f
    <3> QED BY <1>4, <1>6, <3>1, <3>2, PushKeepsCaller
  <2> QED BY <2>2, <2>3
<1>12. FramesOK'
  <2> SUFFICES ASSUME NEW r \in Stacks, NEW i \in 1 .. Len(kstack'[r])
               PROVE  FrameOK(r, i)'
    BY DEF FramesOK
  <2>1. CASE i \in 1 .. Len(kstack[r]) /\ kstack'[r][i] = kstack[r][i]
    BY <2>1 DEF FrameOK, FramesOK, IInv
  <2>2. CASE r = s /\ i = Len(frames) + 1
    <3>1. phase \in {"user", "wait"} => p = s
      <4>1. phase \in {"user", "wait"} => prog_count[current_terminal] # 0
        BY <1>1, <1>4, <1>5 DEF IInv, EmptyOK, Foreground, TypeOK
      <4> QED BY <1>1, <1>2, <4>1 DEF IInv, CurrentIsRunning, EntryStack
    <3>2. phase = "switch" => i >= 2
      <4>1. phase = "switch" => frames # <<>>
        BY <1>3 DEF IInv, EmptyOK, EntryFrames
      <4>2. frames # <<>> => Len(frames) \in Nat \ {0}
        BY EmptySeq
      <4> QED BY <2>2, <4>1, <4>2
    <3>3. kstack'[r][i] = f
      BY <1>7, <2>2
    <3> QED BY <1>5, <2>2, <3>1, <3>2, <3>3 DEF FrameOK
  <2> QED BY <1>7, <2>1, <2>2
<1>13. EmptyOK'
  <2>1. kstack'[s] # <<>>
    BY <1>6, <1>7, EmptySeq
  <2> QED BY <1>4, <1>5, <2>1 DEF IInv, EmptyOK
<1>14. CurrentIsRunning'
  BY <1>4 DEF CurrentIsRunning
<1> QED BY <1>9, <1>10, <1>11, <1>12, <1>13, <1>14 DEF IInv

(* What a terminal switch finds on a terminal with programs.                *)
LEMMA ResumeFinds ==
  ASSUME IInv, ResumeEffect
  PROVE  /\ Foreground \in Live /\ PcbOK(Foreground) /\ phase # "wild"
         /\ esp0' \in Stacks /\ cr3' \in Stacks /\ running' \in Stacks
         /\ UNCHANGED <<current_terminal, prog_count, memoryspace, pcb_loc, pcb>>
<1>1. Foreground \in Live
  BY DEF IInv, TypeOK, ChainOK, ForegroundOK, Foreground, ResumeEffect
<1>2. PcbOK(Foreground)
  BY <1>1 DEF IInv, PcbsOK
<1> QED BY <1>1, <1>2 DEF ResumeEffect, PcbOK, Context, Stacks, Live

(* Loading the foreground program of the new terminal keeps the invariant:  *)
(* esp0, cr3 and esp are set for the same program.                          *)
LEMMA ResumeStep ==
  ASSUME IInv, Resume
  PROVE  IInv'
<1>1. PICK p : p = Foreground
  OBVIOUS
<1>2. PICK c : c = pcb[p].curr_esp
  OBVIOUS
<1>3. /\ p \in Live /\ PcbOK(p)
      /\ esp0' \in Stacks /\ cr3' \in Stacks /\ running' \in Stacks
      /\ UNCHANGED <<current_terminal, prog_count, memoryspace, pcb_loc, pcb>>
      /\ phase # "wild" /\ c \in Context
  BY <1>1, <1>2, ResumeFinds DEF Resume, PcbOK
<1>4. /\ phase = "switch" /\ prog_count[current_terminal] # 0
      /\ esp0' = p /\ cr3' = p /\ running' = c.stack
      /\ Holds(kstack, c, "switch", p)
      /\ phase' = kstack[c.stack][c.depth].back
      /\ kstack' = Returned(kstack, c.stack, c.depth)
  BY <1>1, <1>2, <1>3 DEF Resume, ResumeEffect, PcbOK
<1>5. c.stack \in Stacks /\ c.depth \in 1 .. Len(kstack[c.stack])
  BY <1>3, <1>4, LenProperties DEF Holds, Context, IInv, TypeOK
<1>6. FrameOK(c.stack, c.depth)
  BY <1>5 DEF IInv, FramesOK
<1>7. /\ phase' \in {"user", "wait", "switch"}
      /\ phase' # "switch" => c.stack = p
      /\ phase' = "switch" => c.depth >= 2
  BY <1>4, <1>6 DEF FrameOK, Holds
<1>8. /\ kstack' \in [Stacks -> Seq(Frame)] /\ OnlyPops(kstack', kstack)
      /\ Len(kstack'[c.stack]) = c.depth - 1
  BY <1>4, <1>5, Pop DEF IInv, TypeOK
<1>9. TypeOK'
  BY <1>3, <1>7, <1>8 DEF IInv, TypeOK, Phases
<1>10. Live' = Live /\ Accounting' /\ Limit' /\ ChainOK'
  BY <1>3, ProgramsKeep DEF IInv
<1>11. PcbsOK' /\ FramesOK'
  BY <1>3, <1>8, <1>10, PopsKeep DEF IInv
<1>12. EmptyOK'
  <2>1. phase' = "switch" => kstack'[c.stack] # <<>>
    <3>1. phase' = "switch" => Len(kstack'[c.stack]) # 0
      BY <1>5, <1>7, <1>8
    <3>2. Len(<<>>) = 0
      OBVIOUS
    <3> QED BY <3>1, <3>2
  <2> QED BY <1>3, <1>4, <1>7, <2>1 DEF IInv, EmptyOK
<1>13. CurrentIsRunning'
  BY <1>1, <1>3, <1>4, <1>7, <1>10 DEF CurrentIsRunning, Foreground
<1> QED BY <1>9, <1>10, <1>11, <1>12, <1>13 DEF IInv

(* So does loading a context whose frame is gone.                           *)
LEMMA ResumeWildStep ==
  ASSUME IInv, ResumeWild
  PROVE  IInv'
<1>1. /\ esp0' \in Stacks /\ cr3' \in Stacks /\ running' \in Stacks
      /\ UNCHANGED <<current_terminal, prog_count, memoryspace, pcb_loc, pcb>>
      /\ phase = "switch" /\ phase' = "wild" /\ kstack' = kstack
  BY ResumeFinds DEF ResumeWild, ResumeEffect
<1>2. TypeOK'
  BY <1>1 DEF IInv, TypeOK, Phases
<1>3. Live' = Live /\ Accounting' /\ Limit' /\ ChainOK'
  BY <1>1, ProgramsKeep DEF IInv
<1>4. PcbsOK' /\ FramesOK'
  <2>1. OnlyPops(kstack', kstack)
    BY <1>1 DEF OnlyPops
  <2> QED BY <1>1, <1>2, <1>3, <2>1, PopsKeep DEF IInv, TypeOK
<1>5. EmptyOK' /\ CurrentIsRunning'
  BY <1>1 DEF IInv, EmptyOK, CurrentIsRunning
<1> QED BY <1>2, <1>3, <1>4, <1>5 DEF IInv

(* Giving up on an empty terminal keeps the invariant.                      *)
LEMMA StrandStep ==
  ASSUME IInv, Strand
  PROVE  IInv'
<1>1. PICK s \in Stacks : s = running
  BY DEF IInv, TypeOK
<1>2. PICK d : d = Len(kstack[s])
  OBVIOUS
<1>3. /\ phase = "switch" /\ prog_count[current_terminal] = 0
      /\ TaskCount >= MAX_PROCESSES
      /\ phase' = kstack[s][d].back
      /\ kstack' = Returned(kstack, s, d)
      /\ UNCHANGED <<current_terminal, prog_count, memoryspace, pcb_loc, pcb,
                     cr3, esp0, running>>
  BY <1>1, <1>2 DEF Strand
<1>4. d \in 1 .. Len(kstack[s])
  <2>1. kstack[s] # <<>> /\ kstack[s] \in Seq(Frame)
    BY <1>1, <1>3 DEF IInv, EmptyOK, TypeOK
  <2>2. Len(kstack[s]) \in Nat \ {0}
    BY <2>1, EmptySeq
  <2> QED BY <1>2, <2>2
<1>5. /\ kstack' \in [Stacks -> Seq(Frame)] /\ OnlyPops(kstack', kstack)
      /\ Len(kstack'[s]) = d - 1
  BY <1>3, <1>4, Pop DEF IInv, TypeOK
<1>6. /\ phase' \in Phases
      /\ phase' = "switch" => d >= 2
  <2>1. kstack[s][d] \in Frame
    BY <1>4, LenProperties DEF IInv, TypeOK
  <2>2. FrameOK(s, d)
    BY <1>4 DEF IInv, FramesOK
  <2> QED BY <1>3, <2>1, <2>2 DEF Frame, FrameOK
<1>7. TypeOK'
  BY <1>3, <1>5, <1>6 DEF IInv, TypeOK
<1>8. Live' = Live /\ Accounting' /\ Limit' /\ ChainOK'
  BY <1>3, ProgramsKeep DEF IInv
<1>9. PcbsOK' /\ FramesOK'
  BY <1>3, <1>5, <1>8, PopsKeep DEF IInv
<1>10. EmptyOK'
  <2>1. phase' = "switch" => kstack'[s] # <<>>
    <3>1. phase' = "switch" => Len(kstack'[s]) # 0
      BY <1>4, <1>5, <1>6
    <3>2. Len(<<>>) = 0
      OBVIOUS
    <3> QED BY <3>1, <3>2
  <2>2. TaskCount = MAX_PROCESSES /\ TaskCount' = TaskCount
    BY <1>3, MaxAssumption DEF IInv, Limit, TaskCount, TypeOK, TERMS
  <2> QED BY <1>1, <1>3, <2>1, <2>2 DEF IInv, EmptyOK
<1>11. CurrentIsRunning'
  BY <1>3 DEF CurrentIsRunning
<1> QED BY <1>7, <1>8, <1>9, <1>10, <1>11 DEF IInv

(* A user program's execute keeps the invariant.                            *)
LEMMA ExecuteActionStep ==
  ASSUME IInv, Execute
  PROVE  IInv'
<1>1. /\ phase = "user" /\ TypeOK
      /\ ExecuteOn(esp0, <<>>, "user") /\ TaskCount < MAX_PROCESSES
  BY DEF Execute, ExecuteOn, ProgInit, IInv
<1>2. prog_count[current_terminal] # 0
  BY <1>1, MaxAssumption DEF IInv, EmptyOK
<1>3. esp0 = Foreground /\ cr3 = Foreground /\ esp0 \in Stacks
  BY <1>1, <1>2 DEF IInv, CurrentIsRunning, TypeOK
<1>4. <<>> \in Seq(Frame) /\ "user" \in Phases
  BY EmptySeq DEF Phases
<1> QED BY <1>1, <1>2, <1>3, <1>4, ExecuteStep

(* Starting a terminal's first shell, or its next one, keeps the invariant. *)
LEMMA LaunchStep ==
  ASSUME IInv, Launch
  PROVE  IInv'
<1>1. /\ ExecuteOn(running, kstack[running], "launch")
      /\ phase # "wild" /\ prog_count[current_terminal] = 0
  BY DEF Launch, IInv, EmptyOK
<1>2. running \in Stacks /\ kstack[running] \in Seq(Frame)
      /\ "launch" \in Phases
  BY DEF IInv, TypeOK, Phases
<1> QED BY <1>1, <1>2, ExecuteStep

(* The invariant holds when entry is about to start the first shell.        *)
LEMMA InitIInv == Init => IInv
<1> SUFFICES ASSUME Init PROVE IInv
  OBVIOUS
<1> USE MaxAssumption DEF Init
<1>1. Live = {} /\ \A t : InTerminal(t) = {}
  BY DEF Live, InTerminal
<1>2. TypeOK
  <2>1. /\ 0 \in PIDS /\ 0 \in TERMS
        /\ <<>> \in Seq(Frame)
    BY EmptySeq DEF PIDS, TERMS
  <2>2. pcb \in [PIDS -> Pcb]
    BY DEF Pcb
  <2> QED BY <2>1, <2>2 DEF TypeOK, Stacks, Phases
<1>3. Accounting
  BY <1>1, FS_EmptySet DEF Accounting
<1>4. Limit
  BY DEF Limit, TaskCount, TERMS
<1>5. PcbsOK
  BY <1>1 DEF PcbsOK
<1>6. ChainOK
  <2>1. [p \in PIDS |-> 0] \in [PIDS -> PIDS]
    BY DEF PIDS
  <2>2. \A d : Levels(d) /\ ForegroundOK(d)
    BY <1>1 DEF Levels, ForegroundOK
  <2> QED BY <2>1, <2>2 DEF ChainOK
<1>7. FramesOK
  <2>1. Len(<<>>) = 0
    OBVIOUS
  <2> QED BY <2>1 DEF FramesOK
<1>8. EmptyOK /\ CurrentIsRunning
  BY DEF EmptyOK, CurrentIsRunning, TERMS
<1> QED BY <1>2, <1>3, <1>4, <1>5, <1>6, <1>7, <1>8 DEF IInv

(* Every step keeps the invariant.                                          *)
LEMMA NextIInv == IInv /\ [Next]_vars => IInv'
<1> SUFFICES ASSUME IInv, [Next]_vars PROVE IInv'
  OBVIOUS
<1>1. CASE Execute
  BY <1>1, ExecuteActionStep
<1>2. CASE Launch
  BY <1>2, LaunchStep
<1>3. CASE Halt
  BY <1>3, HaltStep
<1>4. CASE HaltWild
  BY <1>4, HaltWildStep
<1>5. CASE WaitBegin \/ WaitEnd
  BY <1>5, WaitStep
<1>6. CASE \E t \in TERMS : SwitchOut(t)
  BY <1>6, SwitchOutStep
<1>7. CASE Resume
  BY <1>7, ResumeStep
<1>8. CASE ResumeWild
  BY <1>8, ResumeWildStep
<1>9. CASE Strand
  BY <1>9, StrandStep
<1>10. CASE SwitchFault \/ Exception
  <2>1. Panic /\ phase # "wild"
    BY <1>10 DEF SwitchFault, Exception, KeyboardOpen
  <2> QED BY <2>1, PanicStep
<1>11. CASE Hang \/ UNCHANGED vars
  <2>1. UNCHANGED vars
    BY <1>11 DEF Hang
  <2> USE <2>1 DEF vars
  <2>2. Live' = Live /\ \A t : InTerminal(t)' = InTerminal(t)
    BY DEF Live, InTerminal
  <2>3. TypeOK' /\ Limit' /\ EmptyOK' /\ CurrentIsRunning' /\ Accounting'
    BY <2>2 DEF IInv, TypeOK, Limit, TaskCount, EmptyOK, CurrentIsRunning,
                Foreground, Accounting
  <2>4. PcbsOK' /\ FramesOK'
    <3>1. PcbsOK'
      BY <2>2 DEF IInv, PcbsOK, PcbOK, CallerOK, Holds
    <3>2. FramesOK'
      BY DEF IInv, FramesOK, FrameOK
    <3> QED BY <3>1, <3>2
  <2>5. \A d : (Levels(d)' <=> Levels(d)) /\ (ForegroundOK(d)' <=> ForegroundOK(d))
    BY <2>2 DEF Levels, ForegroundOK
  <2>6. ChainOK'
    BY <2>5 DEF IInv, ChainOK
  <2> QED BY <2>3, <2>4, <2>6 DEF IInv
<1> QED BY <1>1, <1>2, <1>3, <1>4, <1>5, <1>6, <1>7, <1>8, <1>9, <1>10, <1>11
        DEF Next

(* The invariant holds throughout, for every MAX_PROCESSES and NESTING.     *)
THEOREM Invariance == Spec => []IInv
<1> QED BY InitIInv, NextIInv, PTL DEF Spec

(* Type correctness: no count goes below zero, and halt and terminal_switch *)
(* never load a null or unwritten PCB field into esp0, cr3 or esp.          *)
THEOREM TypeCorrect == Spec => []TypeOK
<1>1. IInv => TypeOK
  BY DEF IInv
<1> QED BY <1>1, Invariance, PTL

(* However execute, halt, waits and Alt+Fn follow each other, even with     *)
(* Alt+Fn pressed inside terminal_switch, the code that runs on a terminal  *)
(* with programs is its foreground program, with its own PCB current, on    *)
(* its own kernel stack and in its own address space.                       *)
THEOREM RunsAsItself == Spec => []CurrentIsRunning
<1>1. IInv => CurrentIsRunning
  BY DEF IInv
<1> QED BY <1>1, Invariance, PTL

(* prog_count always equals the number of program numbers in use whose PCB  *)
(* names that terminal.                                                     *)
THEOREM CountsExact == Spec => []Accounting
<1>1. IInv => Accounting
  BY DEF IInv
<1> QED BY <1>1, Invariance, PTL

(* terminal_switch leaves the keyboard on a terminal without programs only  *)
(* when all program numbers are in use.                                     *)
THEOREM StrandsOnlyWhenFull == Spec => []StrandedOnlyWhenFull
<1>1. IInv => StrandedOnlyWhenFull
  BY DEF IInv, EmptyOK, StrandedOnlyWhenFull
<1> QED BY <1>1, Invariance, PTL
=============================================================================
