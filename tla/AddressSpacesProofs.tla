-------------------------- MODULE AddressSpacesProofs --------------------------
(***************************************************************************)
(* What module AddressSpaces keeps true for every limit of processes that   *)
(* leaves the programs below the background buffers, and every depth of     *)
(* nested terminal switches.  The steps are those of Tasks, so IInv holds;  *)
(* SpaceInv adds what the directories and the memory of the programs in use *)
(* hold.                                                                    *)
(***************************************************************************)
EXTENDS AddressSpaces, TasksProofs

(* A program in use has the directory execute filled for it, and its image  *)
(* is in its frame.                                                         *)
LoadedOK ==
  \A p \in Live : /\ page_directory[p] = ProgDirectory(p)
                  /\ memory[UserFrame(p)] = p

(* A program, its wait, or a terminal_switch that interrupted one runs      *)
(* under a directory execute has filled.                                    *)
FilledOK ==
  phase \in {"user", "wait", "switch"} =>
    cr3 \in PIDS /\ page_directory[cr3] = ProgDirectory(cr3)

SpaceInv ==
  /\ DOMAIN page_directory = Stacks
  /\ DOMAIN memory = Frames
  /\ LoadedOK
  /\ FilledOK
-----------------------------------------------------------------------------
(* What a filled directory maps.                                            *)
LEMMA Directory ==
  ASSUME NEW p \in PIDS
  PROVE  /\ DOMAIN ProgDirectory(p) = {LOW, KERNEL, PROGRAM, VIDEO, BUFFERS}
         /\ ProgDirectory(p)[LOW].frame = 0
         /\ ProgDirectory(p)[KERNEL].frame = KernelFrame
         /\ ProgDirectory(p)[PROGRAM].frame = UserFrame(p)
         /\ ProgDirectory(p)[VIDEO] = Page(0, TRUE)
         /\ ProgDirectory(p)[BUFFERS].frame = BufferFrame
         /\ {v \in DOMAIN ProgDirectory(p) \ {VIDEO} : ProgDirectory(p)[v].user}
              = {PROGRAM}
<1> USE DEF LOW, KERNEL, PROGRAM, VIDEO, BUFFERS
<1>1. /\ DOMAIN ProgDirectory(p) = {LOW, KERNEL, PROGRAM, VIDEO, BUFFERS}
      /\ ProgDirectory(p)[LOW] = Page(0, FALSE)
      /\ ProgDirectory(p)[KERNEL] = Page(KernelFrame, FALSE)
      /\ ProgDirectory(p)[PROGRAM] = Page(UserFrame(p), TRUE)
      /\ ProgDirectory(p)[VIDEO] = Page(0, TRUE)
      /\ ProgDirectory(p)[BUFFERS] = Page(BufferFrame, FALSE)
  BY DEF ProgDirectory, Mapped
<1>2. \A f : /\ Page(f, TRUE).frame = f /\ Page(f, TRUE).user
             /\ Page(f, FALSE).frame = f /\ ~ Page(f, FALSE).user
  BY DEF Page
<1> HIDE DEF LOW, KERNEL, PROGRAM, VIDEO, BUFFERS
<1>3. ~ ProgDirectory(p)[LOW].user /\ ~ ProgDirectory(p)[KERNEL].user
  BY <1>1, <1>2
<1>4. ProgDirectory(p)[PROGRAM].user /\ ~ ProgDirectory(p)[BUFFERS].user
  BY <1>1, <1>2
<1>5. PROGRAM # VIDEO
  BY DEF PROGRAM, VIDEO
<1>6. {v \in DOMAIN ProgDirectory(p) \ {VIDEO} : ProgDirectory(p)[v].user}
        = {PROGRAM}
  BY <1>1, <1>3, <1>4, <1>5, Zenon
<1> QED BY <1>1, <1>2, <1>6

(* Programs lie between the kernel and the buffers, each in its own frame.  *)
LEMMA OwnFrame ==
  ASSUME NEW p \in PIDS
  PROVE  /\ UserFrame(p) \in Frames
         /\ UserFrame(p) \notin {0, KernelFrame, BufferFrame}
         /\ \A q \in PIDS \ {p} : UserFrame(q) # UserFrame(p)
BY MaxAssumption, FramesAssumption
   DEF UserFrame, Frames, KernelFrame, BufferFrame, PIDS

(* The only page user code may use besides the screen is the program's.     *)
LEMMA UserPages ==
  ASSUME NEW p \in PIDS, page_directory[p] = ProgDirectory(p)
  PROVE  UserFrames(p) = {UserFrame(p)}
<1>1. {w \in DOMAIN page_directory[p] \ {VIDEO} : page_directory[p][w].user}
        = {PROGRAM}
  BY Directory
<1>2. page_directory[p][PROGRAM].frame = UserFrame(p)
  BY Directory
<1>3. UserFrames(p) = {page_directory[p][v].frame : v \in {PROGRAM}}
  BY <1>1 DEF UserFrames
<1> QED BY <1>2, <1>3

(* Every step is a step of Tasks.                                           *)
LEMMA StepsOfTasks == [SpaceNext]_spaceVars => [Next]_vars
BY DEF SpaceNext, spaceVars, Others, VidmapFault, Next, Exception

LEMMA SpaceInitInv == SpaceInit => SpaceInv
<1> SUFFICES ASSUME SpaceInit PROVE SpaceInv
  OBVIOUS
<1>1. Live = {} /\ phase = "boot"
  BY DEF SpaceInit, Init, Live
<1> QED BY <1>1 DEF SpaceInit, SpaceInv, LoadedOK, FilledOK

(* execute gives a free number its directory and image, and takes neither   *)
(* from a program in use.                                                   *)
LEMMA LoadStep ==
  ASSUME IInv, SpaceInv, Load,
         NEW s, NEW frames, NEW back, ExecuteOn(s, frames, back)
  PROVE  SpaceInv'
<1>1. PICK p \in ScanResult :
        /\ memoryspace' = [memoryspace EXCEPT ![p] = 1]
        /\ pcb_loc' = [pcb_loc EXCEPT ![current_terminal] = p]
        /\ cr3' = p
  BY DEF ExecuteOn, ProgInit
<1>2. TypeOK /\ Accounting /\ PcbsOK /\ TaskCount < MAX_PROCESSES
  BY DEF IInv, ExecuteOn
<1>3. p \in PIDS /\ p \notin Live
  BY <1>2, FreeNumber
<1>4. Live' \subseteq Live \cup {p} /\ Live \subseteq PIDS
  BY <1>1, <1>2 DEF Live, TypeOK
<1>5. pcb_loc'[current_terminal] = p
  BY <1>1, <1>2 DEF TypeOK
<1>6. page_directory' = [page_directory EXCEPT ![p] = ProgDirectory(p)]
  BY <1>5 DEF Load
<1>7. /\ DOMAIN page_directory' = Stacks
      /\ page_directory'[p] = ProgDirectory(p)
      /\ \A q \in Live : page_directory'[q] = page_directory[q]
  BY <1>3, <1>4, <1>6 DEF SpaceInv, Stacks
<1>8. CopiedInto = UserFrame(p)
  BY <1>1, <1>3, <1>7, Directory DEF CopiedInto
<1>9. memory' = [memory EXCEPT ![UserFrame(p)] = p]
  BY <1>5, <1>8 DEF Load
<1>10. /\ DOMAIN memory' = Frames
       /\ memory'[UserFrame(p)] = p
       /\ \A q \in Live : memory'[UserFrame(q)] = memory[UserFrame(q)]
  BY <1>3, <1>4, <1>9, OwnFrame DEF SpaceInv
<1>11. LoadedOK'
  BY <1>4, <1>7, <1>10 DEF SpaceInv, LoadedOK
<1> QED BY <1>1, <1>3, <1>7, <1>10, <1>11 DEF SpaceInv, FilledOK

(* A step that fills no directory, starts no program, and leaves CR3 alone  *)
(* or loads the directory of a program in use.                              *)
LEMMA OtherStep ==
  ASSUME SpaceInv, UNCHANGED <<page_directory, memory>>, Live' \subseteq Live,
         phase' \in {"user", "wait", "switch"} =>
           \/ phase \in {"user", "wait", "switch"} /\ cr3' = cr3
           \/ cr3' \in Live
  PROVE  SpaceInv'
<1>1. LoadedOK'
  BY DEF SpaceInv, LoadedOK
<1>2. FilledOK'
  BY DEF SpaceInv, LoadedOK, FilledOK, Live
<1> QED BY <1>1, <1>2 DEF SpaceInv

(* halt that goes back to user code goes back to the parent's, which is in  *)
(* use.                                                                     *)
LEMMA HaltLoads ==
  ASSUME IInv, Halt
  PROVE  Live' \subseteq Live /\ (phase' # "launch" => cr3' \in Live)
<1>1. PICK d \in [PIDS -> PIDS] : Levels(d) /\ ForegroundOK(d)
  BY DEF IInv, ChainOK
<1>2. HaltEffect /\ TypeOK /\ phase = "user" /\ Foreground # NULL
  BY DEF Halt, HaltEffect, IInv
<1>3. Foreground \in Live /\ PcbOK(Foreground) /\ CallerOK(Foreground)
  BY <1>1, <1>2, HaltFinds
<1>4. Live' \subseteq Live
  BY <1>2 DEF HaltEffect, TypeOK, Live
<1>5. pcb[Foreground].lastpcb_ptr = Foreground => phase' = "launch"
  <2>1. PICK c : c = pcb[Foreground].esp
    OBVIOUS
  <2>2. /\ Holds(AfterEntry, c, "execute", Foreground)
        /\ phase' = AfterEntry[c.stack][c.depth].back
    BY <2>1 DEF Halt
  <2>3. AfterEntry \in [Stacks -> Seq(Frame)] /\ OnlyPops(AfterEntry, kstack)
    BY <1>2, Entry
  <2>4. c.stack \in Stacks
    BY <1>3, <2>1 DEF PcbOK, Context
  <2>5. c.depth \in 1 .. Len(AfterEntry[c.stack])
    BY <2>2, <2>3, <2>4, LenProperties DEF Holds
  <2>6. c.depth \in 1 .. Len(kstack[c.stack])
        /\ AfterEntry[c.stack][c.depth] = kstack[c.stack][c.depth]
    BY <2>3, <2>4, <2>5 DEF OnlyPops
  <2>7. DOMAIN kstack[c.stack] = 1 .. Len(kstack[c.stack])
    BY <1>2, <2>4, LenProperties DEF TypeOK
  <2>8. Holds(kstack, c, "execute", Foreground)
    BY <2>2, <2>6, <2>7 DEF Holds
  <2> QED BY <1>3, <2>1, <2>2, <2>6, <2>8 DEF CallerOK
<1>6. pcb[Foreground].lastpcb_ptr # Foreground => cr3' \in Live
  BY <1>1, <1>2, <1>3 DEF HaltEffect, PcbOK, Levels
<1> QED BY <1>4, <1>5, <1>6

LEMMA SpaceNextInv == IInv /\ SpaceInv /\ [SpaceNext]_spaceVars => SpaceInv'
<1> SUFFICES ASSUME IInv, SpaceInv, [SpaceNext]_spaceVars PROVE SpaceInv'
  OBVIOUS
<1>1. CASE Execute /\ Load
  BY <1>1, LoadStep DEF Execute
<1>2. CASE Launch /\ Load
  BY <1>2, LoadStep DEF Launch
<1>3. CASE Halt /\ UNCHANGED <<page_directory, memory>>
  BY <1>3, HaltLoads, OtherStep
<1>4. CASE HaltWild /\ UNCHANGED <<page_directory, memory>>
  <2>1. Live' \subseteq Live /\ phase' = "wild"
    <3>1. memoryspace' = [memoryspace EXCEPT ![Foreground] = 0]
      BY <1>4 DEF HaltWild, HaltEffect
    <3> QED BY <1>4, <3>1 DEF HaltWild, IInv, TypeOK, Live
  <2> QED BY <1>4, <2>1, OtherStep
<1>5. CASE Resume /\ UNCHANGED <<page_directory, memory>>
  <2>1. Foreground \in Live /\ cr3' = pcb[Foreground].curr_pd
        /\ pcb[Foreground].curr_pd = Foreground /\ memoryspace' = memoryspace
    BY <1>5, ResumeFinds DEF Resume, ResumeEffect, PcbOK
  <2> QED BY <1>5, <2>1, OtherStep DEF Live
<1>6. CASE ResumeWild /\ UNCHANGED <<page_directory, memory>>
  <2>1. phase' = "wild" /\ memoryspace' = memoryspace
    BY <1>6 DEF ResumeWild, ResumeEffect
  <2> QED BY <1>6, <2>1, OtherStep DEF Live
<1>7. CASE /\ WaitBegin \/ WaitEnd \/ Strand \/ \E t \in TERMS : SwitchOut(t)
           /\ UNCHANGED <<page_directory, memory>>
  <2>1. /\ phase \in {"user", "wait", "switch"}
        /\ cr3' = cr3 /\ memoryspace' = memoryspace
    BY <1>7 DEF WaitBegin, WaitEnd, Strand, SwitchOut, KeyboardOpen
  <2> QED BY <1>7, <2>1, OtherStep DEF Live
<1>8. CASE /\ VidmapFault \/ SwitchFault \/ Exception
           /\ UNCHANGED <<page_directory, memory>>
  <2>1. phase' = "panic" /\ memoryspace' = memoryspace
    BY <1>8 DEF VidmapFault, SwitchFault, Exception, Panic
  <2> QED BY <1>8, <2>1, OtherStep DEF Live
<1>9. CASE UNCHANGED vars /\ UNCHANGED <<page_directory, memory>>
  BY <1>9, OtherStep DEF vars, Live
<1> QED BY <1>1, <1>2, <1>3, <1>4, <1>5, <1>6, <1>7, <1>8, <1>9
        DEF SpaceNext, Others, Hang, spaceVars
-----------------------------------------------------------------------------
(* The inductive invariant of Tasks and the one of the address spaces hold  *)
(* throughout.                                                              *)
THEOREM SpaceInvariance == SpaceSpec => [](IInv /\ SpaceInv)
<1>1. SpaceInit => IInv /\ SpaceInv
  BY InitIInv, SpaceInitInv DEF SpaceInit
<1>2. IInv /\ SpaceInv /\ [SpaceNext]_spaceVars => (IInv /\ SpaceInv)'
  BY NextIInv, SpaceNextInv, StepsOfTasks
<1> QED BY <1>1, <1>2, PTL DEF SpaceSpec

(* User code of one program reaches neither another program's memory nor    *)
(* the kernel nor a background buffer, for as many programs as fit below    *)
(* the buffers.                                                             *)
THEOREM ProgramsApart == SpaceSpec => []MemoryApart
<1>1. IInv /\ SpaceInv => MemoryApart
  <2> SUFFICES ASSUME SpaceInv,
                      NEW p \in Live
               PROVE  /\ UserFrames(p) \intersect
                           {0, KernelFrame, BufferFrame} = {}
                      /\ \A q \in Live \ {p} :
                           UserFrames(p) \intersect UserFrames(q) = {}
    BY DEF MemoryApart
  <2>1. \A q \in Live : q \in PIDS /\ UserFrames(q) = {UserFrame(q)}
    BY UserPages DEF SpaceInv, LoadedOK, Live
  <2> QED BY <2>1, OwnFrame
<1> QED BY <1>1, SpaceInvariance, PTL

(* The image of a program in use stays in its frame, and a program that     *)
(* runs, or waits, on a terminal with programs finds its own image mapped.  *)
THEOREM RunsOwnImage == SpaceSpec => []OwnImage
<1>1. IInv /\ SpaceInv => OwnImage
  <2> SUFFICES ASSUME IInv, SpaceInv PROVE OwnImage
    OBVIOUS
  <2>1. \A p \in Live : memory[page_directory[p][PROGRAM].frame] = p
    BY Directory DEF SpaceInv, LoadedOK, Live
  <2>2. phase \in {"user", "wait"} /\ prog_count[current_terminal] # 0 =>
          Foreground \in Live /\ cr3 = Foreground
    BY DEF IInv, CurrentIsRunning
  <2> QED BY <2>1, <2>2 DEF OwnImage, Loaded
<1> QED BY <1>1, SpaceInvariance, PTL

(* What terminal_switch copies between is mapped whenever Alt+Fn can come   *)
(* once there is a program, however the programs came and went.             *)
THEOREM SwitchFindsBuffers == SpaceSpec => []SwitchIsMapped
<1>1. IInv /\ SpaceInv => SwitchIsMapped
  <2> SUFFICES ASSUME SpaceInv, KeyboardOpen PROVE SwitchIsMapped
    BY DEF SwitchIsMapped
  <2>1. cr3 \in PIDS /\ Loaded = ProgDirectory(cr3)
    BY DEF KeyboardOpen, SpaceInv, FilledOK, Loaded
  <2> QED BY <2>1, Directory DEF SwitchIsMapped
<1> QED BY <1>1, SpaceInvariance, PTL
=============================================================================
