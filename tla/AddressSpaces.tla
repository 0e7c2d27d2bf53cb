---------------------------- MODULE AddressSpaces ----------------------------
(***************************************************************************)
(* The address spaces of Tasks: the page directories of paging.c and what   *)
(* is in the memory of the programs.                                        *)
(*                                                                         *)
(* A directory maps 4MB pages of virtual memory.  Of a page this module     *)
(* keeps the 4MB frame it is in, and whether user code may use it.  Page 0  *)
(* is mapped by a table that leaves out its first 4KB, and the video page   *)
(* by a table with one entry, which is in frame 0 as well.                  *)
(***************************************************************************)
EXTENDS Tasks

(* The virtual pages: below 4MB, the kernel's, and _128PDENTRY,             *)
(* _136PDENTRY and _144PDENTRY.                                             *)
LOW == 0
KERNEL == 1
PROGRAM == 32
VIDEO == 34
BUFFERS == 36

(* Physical memory: what is low, the kernel, the programs from 8MB on, and  *)
(* the background buffers of terminal_switch at 32MB.                       *)
KernelFrame == 1
UserFrame_TwoApart(p) == 2 + 2 * p
UserFrame(p) == 2 + p
BufferFrame == 8
Frames == 0 .. BufferFrame

(* There are as many frames between 8MB and 32MB as prog_init functions.    *)
ASSUME FramesAssumption == MAX_PROCESSES <= BufferFrame - UserFrame(0)

VARIABLES
  page_directory,   \* of boot and of each program number
  memory            \* frame -> the program whose image was last copied there

spaceVars == <<vars, page_directory, memory>>

Page(frame, user) == [frame |-> frame, user |-> user]

(* What a virtual page is mapped to in the directory of program p. *)
Mapped(v, p) ==
  CASE v = LOW     -> Page(0, FALSE)
    [] v = KERNEL  -> Page(KernelFrame, FALSE)
    [] v = PROGRAM -> Page(UserFrame(p), TRUE)
    [] v = VIDEO   -> Page(0, TRUE)
    [] v = BUFFERS -> Page(BufferFrame, FALSE)

(* paging_init.  The page of the first program is mapped already, the       *)
(* background buffers are not.                                              *)
BootDirectory == [v \in {LOW, KERNEL, PROGRAM, VIDEO} |-> Mapped(v, 0)]

ProgDirectory_AsAtBoot(p) ==
  [v \in {LOW, KERNEL, PROGRAM, VIDEO} |-> Mapped(v, p)]

(* prog1_init ... prog6_init: six copies of one function. *)
ProgDirectory(p) ==
  [v \in {LOW, KERNEL, PROGRAM, VIDEO, BUFFERS} |-> Mapped(v, p)]

SpaceInit ==
  /\ Init
  /\ page_directory = [s \in Stacks |-> IF s = BOOT THEN BootDirectory ELSE <<>>]
  /\ memory = [f \in Frames |-> NULL]
-----------------------------------------------------------------------------
CopiedInto_BeforeInit == page_directory[cr3][PROGRAM].frame

(* The frame the program is copied into: PROGADDR in the new directory.     *)
CopiedInto == page_directory'[cr3'][PROGRAM].frame

(* execute fills the directory of the new program, loads it and copies the  *)
(* program to PROGADDR.                                                     *)
Load ==
  LET p == pcb_loc'[current_terminal]
  IN /\ page_directory' = [page_directory EXCEPT ![p] = ProgDirectory(p)]
     /\ memory' = [memory EXCEPT ![CopiedInto] = p]

(* vidmap stores the address of the VIDEO page where the program says, from *)
(* PROGADDR up to 4MB above it: past the end of the program's page nothing  *)
(* is mapped, and the kernel page faults.                                   *)
VidmapFault ==
  /\ phase = "user"
  /\ \E v \in {PROGRAM, PROGRAM + 1} : v \notin DOMAIN page_directory[cr3]
  /\ Panic

(* The steps that touch no directory. *)
Others ==
  \/ VidmapFault
  \/ Halt
  \/ HaltWild
  \/ WaitBegin
  \/ WaitEnd
  \/ \E t \in TERMS : SwitchOut(t)
  \/ Resume
  \/ ResumeWild
  \/ Strand
  \/ SwitchFault
  \/ Exception
  \/ Hang

SpaceNext ==
  \/ Execute /\ Load
  \/ Launch /\ Load
  \/ Others /\ UNCHANGED <<page_directory, memory>>

SpaceSpec == SpaceInit /\ [][SpaceNext]_spaceVars
-----------------------------------------------------------------------------
Loaded == page_directory[cr3]

UserFrames(p) ==
  {page_directory[p][v].frame : v \in
     {w \in DOMAIN page_directory[p] \ {VIDEO} : page_directory[p][w].user}}

(* Whenever an Alt+Fn can come, once there is a program to leave: what      *)
(* terminal_switch uses is mapped, video memory and the buffers it copies   *)
(* between, the kernel it runs in; so only at boot does it page fault.  And *)
(* the page vidmap gave to a program is there when it draws.  The directory *)
(* was filled by an execute long before, and perhaps of another program.    *)
SwitchIsMapped ==
  KeyboardOpen /\ prog_count[current_terminal] # 0 =>
    /\ {LOW, KERNEL, VIDEO, BUFFERS} \subseteq DOMAIN Loaded
    /\ Loaded[LOW].frame = 0
    /\ Loaded[VIDEO] = Page(0, TRUE)
    /\ Loaded[KERNEL].frame = KernelFrame
    /\ Loaded[BUFFERS].frame = BufferFrame

(* The code of a program is not replaced while it is in use, whatever was   *)
(* started and halted in the other terminals; a program that runs finds its *)
(* own image at 128MB.                                                      *)
OwnImage ==
  /\ \A p \in Live : memory[page_directory[p][PROGRAM].frame] = p
  /\ phase \in {"user", "wait"} /\ prog_count[current_terminal] # 0 =>
       memory[Loaded[PROGRAM].frame] = Foreground

(* User code of one program can reach neither the memory of another, nor    *)
(* the kernel, nor a background buffer: only the screen is shared.          *)
MemoryApart ==
  \A p \in Live :
    /\ UserFrames(p) \intersect {0, KernelFrame, BufferFrame} = {}
    /\ \A q \in Live \ {p} : UserFrames(p) \intersect UserFrames(q) = {}
=============================================================================
