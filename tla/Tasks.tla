-------------------------------- MODULE Tasks --------------------------------
(***************************************************************************)
(* The process life cycle of the kernel: execute and halt (syscall.c), the *)
(* terminal switch of the keyboard interrupt (keyboard.c), the shell loop  *)
(* of entry (kernel.c) and the exception handlers (idt.c).                 *)
(*                                                                         *)
(* There is one CPU.  The kernel has one stack per process id and the boot *)
(* stack; a control transfer is a jump to an (esp, ebp) pair saved in a    *)
(* PCB, so what decides whether it lands well is whether the stack frame   *)
(* the pair was saved in is still on that stack.  kstack records, for each *)
(* stack, the frames control may be asked to come back to.                 *)
(***************************************************************************)
EXTENDS Integers, Sequences, FiniteSets

CONSTANTS MAX_PROCESSES,    \* size of memoryspace, limit of the prog_counts
          NULL,             \* the null pointer, and a field not yet written
          BOOT,             \* the boot stack; also the page_directory of boot
          NESTING           \* an Alt+Fn may interrupt an unfinished switch
                            \* while its stack holds at most NESTING frames

ASSUME MaxAssumption == MAX_PROCESSES \in Nat \ {0}
ASSUME NullAssumption == NULL \notin Nat
ASSUME BootAssumption == BOOT \notin Nat /\ BOOT # NULL
ASSUME NestingAssumption == NESTING \in Nat

TERMS == 0 .. 2                        \* TERM_1, TERM_2, TERM_3
PIDS == 0 .. MAX_PROCESSES - 1
Stacks == PIDS \cup {BOOT}             \* also names the page directories

VARIABLES
  current_terminal,   \* the terminal on the screen
  prog_count,         \* programs per terminal
  memoryspace,        \* 1 for a program number in use
  pcb_loc,            \* the PCB of each terminal's foreground program
  pcb,                \* the PCBs, at their fixed address for each pid
  cr3,                \* whose page directory is loaded
  esp0,               \* tss.esp0: whose stack the next ring 3 -> 0 entry takes
  running,            \* the kernel stack control is on, or last left by iret
  kstack,             \* the frames each kernel stack holds, oldest first
  phase               \* where control is

vars == <<current_terminal, prog_count, memoryspace, pcb_loc, pcb, cr3, esp0,
          running, kstack, phase>>

(***************************************************************************)
(* "boot": entry is about to start the first shell, interrupts enabled;    *)
(* "launch": a while(1) loop is about to execute a shell after a halt,     *)
(* interrupts disabled; "switch": terminal_switch has sent its EOI and not *)
(* yet loaded the target; "wait": a driver read spins with sti; "panic":   *)
(* an exception handler spins; "wild": control returned to a frame that is *)
(* no longer there, and anything may happen.                               *)
(***************************************************************************)
Phases == {"boot", "launch", "switch", "user", "wait", "panic", "wild"}

Frame == [kind : {"execute", "switch"}, pid : PIDS, back : Phases]
Context == [stack : Stacks, depth : Nat]       \* an (esp, ebp) pair
ASSUME ContextAssumption == NULL \notin Context

Pcb == [lastpcb_ptr : PIDS \cup {NULL}, esp : Context \cup {NULL},
        pagedir : Stacks \cup {NULL}, curr_esp : Context \cup {NULL},
        curr_pd : Stacks \cup {NULL}, term_num : TERMS \cup {NULL}]

Init ==
  /\ current_terminal = 0
  /\ prog_count = [t \in TERMS |-> 0]
  /\ memoryspace = [p \in PIDS |-> 0]
  /\ pcb_loc = [t \in TERMS |-> IF t = 0 THEN 0 ELSE NULL]
  /\ pcb = [p \in PIDS |->
              [lastpcb_ptr |-> NULL, esp |-> NULL, pagedir |-> NULL,
               curr_esp |-> NULL, curr_pd |-> NULL, term_num |-> NULL]]
  /\ cr3 = BOOT
  /\ esp0 = BOOT
  /\ running = BOOT
  /\ kstack = [s \in Stacks |-> <<>>]
  /\ phase = "boot"
-----------------------------------------------------------------------------
TaskCount == prog_count[0] + prog_count[1] + prog_count[2]

Foreground == pcb_loc[current_terminal]

(* A name of the form Definition_Bug is a broken variant of the definition *)
(* after it; the properties are shown to notice it.                         *)
ScanResult_NoReuseCheck == {0}

(* The pid scan of execute; a PCB keeps the 0 of pcb_init if none is free. *)
ScanResult ==
  {p \in PIDS : memoryspace[p] = 0 /\ \A q \in 0 .. p - 1 : memoryspace[q] = 1}
    \cup (IF \E p \in PIDS : memoryspace[p] = 0 THEN {} ELSE {0})

PrevPcb_AlwaysParent(p) == Foreground
PrevPcb_AlwaysSelf(p) == p

(* The parent a new PCB p gets: itself for the first program of a terminal. *)
PrevPcb(p) == IF prog_count[current_terminal] + 1 = 1 THEN p ELSE Foreground

(* The frames on the stack an interrupt or system call arrives on: from     *)
(* ring 3 the CPU starts at the top of esp0's stack, over whatever was      *)
(* there; from ring 0 it goes on below what is there.                       *)
EntryStack == IF phase = "user" THEN esp0 ELSE running
EntryFrames == IF phase = "user" THEN <<>> ELSE kstack[running]

(* The frame a context was saved in, for process p, is still on its stack.  *)
Holds(ks, c, kind, p) ==
  /\ c # NULL
  /\ c.depth \in DOMAIN ks[c.stack]
  /\ ks[c.stack][c.depth].kind = kind
  /\ ks[c.stack][c.depth].pid = p

(* What stack s holds once the frame at depth d has returned. *)
Returned(ks, s, d) == [ks EXCEPT ![s] = SubSeq(@, 1, d - 1)]
-----------------------------------------------------------------------------
(* prog1_init ... prog6_init: map the program's memory in the directory of  *)
(* its number, and load it.                                                 *)
ProgInit(p) == cr3' = p

(* execute, past its argument checks: run on stack s above the given frames *)
(* by code that goes on as "back" when the program halts.                   *)
ExecuteOn(s, frames, back) ==
  /\ TaskCount < MAX_PROCESSES
  /\ \E p \in ScanResult :
       /\ prog_count' = [prog_count EXCEPT ![current_terminal] = @ + 1]
       /\ memoryspace' = [memoryspace EXCEPT ![p] = 1]
       /\ pcb_loc' = [pcb_loc EXCEPT ![current_terminal] = p]
       /\ pcb' = [pcb EXCEPT ![p] =
                    [lastpcb_ptr |-> PrevPcb(p),
                     esp |-> [stack |-> s, depth |-> Len(frames) + 1],
                     pagedir |-> cr3,
                     curr_esp |-> [stack |-> p, depth |-> 0],
                     curr_pd |-> p,
                     term_num |-> current_terminal]]
       /\ kstack' = [kstack EXCEPT ![s] = Append(frames,
                       [kind |-> "execute", pid |-> p, back |-> back])]
       /\ ProgInit(p)
       /\ esp0' = p
       /\ running' = p
       /\ phase' = "user"
       /\ UNCHANGED current_terminal

(* A user program executes another one. *)
Execute ==
  /\ phase = "user"
  /\ ExecuteOn(esp0, <<>>, "user")

(* The shell loop of entry, and the one of terminal_switch that starts the  *)
(* first shell of a terminal and restarts it when it halts.                 *)
Launch ==
  /\ \/ phase \in {"boot", "launch"}
     \/ phase = "switch" /\ prog_count[current_terminal] = 0
  /\ ExecuteOn(running, kstack[running], "launch")

HaltEffect_KeepsNumber ==
  /\ phase = "user"
  /\ Foreground # NULL
  /\ prog_count' = [prog_count EXCEPT ![current_terminal] = @ - 1]
  /\ esp0' = pcb[Foreground].lastpcb_ptr
  /\ cr3' = pcb[Foreground].pagedir
  /\ running' = pcb[Foreground].esp.stack
  /\ UNCHANGED <<current_terminal, pcb, memoryspace>>

(* halt up to its jump to halt_ret. *)
HaltEffect ==
  /\ phase = "user"
  /\ Foreground # NULL
  /\ prog_count' = [prog_count EXCEPT ![current_terminal] = @ - 1]
  /\ memoryspace' = [memoryspace EXCEPT ![Foreground] = 0]
  /\ esp0' = pcb[Foreground].lastpcb_ptr
  /\ cr3' = pcb[Foreground].pagedir
  /\ running' = pcb[Foreground].esp.stack
  /\ UNCHANGED <<current_terminal, pcb>>

AfterEntry == [kstack EXCEPT ![EntryStack] = EntryFrames]

(* halt returning from the execute call that started the program. *)
Halt ==
  /\ HaltEffect
  /\ LET c == pcb[Foreground].esp
     IN /\ Holds(AfterEntry, c, "execute", Foreground)
        /\ phase' = AfterEntry[c.stack][c.depth].back
        /\ kstack' = Returned(AfterEntry, c.stack, c.depth)
        /\ pcb_loc' = IF prog_count'[current_terminal] # 0
                      THEN [pcb_loc EXCEPT ![current_terminal] =
                              pcb[Foreground].lastpcb_ptr]
                      ELSE pcb_loc

(* halt jumping to where that call's frame used to be. *)
HaltWild ==
  /\ HaltEffect
  /\ ~ Holds(AfterEntry, pcb[Foreground].esp, "execute", Foreground)
  /\ phase' = "wild"
  /\ kstack' = AfterEntry
  /\ UNCHANGED pcb_loc

(* read of the terminal or of the RTC: the driver enables interrupts and    *)
(* spins; it returns on a key or a tick.                                    *)
WaitBegin ==
  /\ phase = "user"
  /\ Foreground # NULL
  /\ phase' = "wait"
  /\ running' = esp0
  /\ kstack' = AfterEntry
  /\ UNCHANGED <<current_terminal, prog_count, memoryspace, pcb_loc, pcb, cr3,
                 esp0>>

WaitEnd ==
  /\ phase = "wait"
  /\ phase' = "user"
  /\ UNCHANGED <<current_terminal, prog_count, memoryspace, pcb_loc, pcb, cr3,
                 esp0, running, kstack>>
-----------------------------------------------------------------------------
(* Interrupts are enabled and the keyboard interrupt is not in service.     *)
KeyboardOpen ==
  \/ phase \in {"user", "wait"}
  \/ phase = "switch" /\ Len(kstack[running]) <= NESTING

SwitchOut_NotWhileWaiting(t) ==
  /\ KeyboardOpen
  /\ t # current_terminal
  /\ Foreground # NULL
  /\ pcb' = IF phase = "wait" THEN pcb
            ELSE [pcb EXCEPT ![Foreground].curr_esp =
                    [stack |-> EntryStack, depth |-> Len(EntryFrames) + 1]]
  /\ kstack' = [kstack EXCEPT ![EntryStack] = Append(EntryFrames,
                  [kind |-> "switch", pid |-> Foreground, back |-> phase])]
  /\ running' = EntryStack
  /\ current_terminal' = t
  /\ phase' = "switch"
  /\ UNCHANGED <<prog_count, memoryspace, pcb_loc, cr3, esp0>>

(* Alt+Fn, up to the EOI: the context is saved in the PCB of the old        *)
(* terminal's foreground program.                                           *)
SwitchOut(t) ==
  /\ KeyboardOpen
  /\ t # current_terminal
  /\ Foreground # NULL
  /\ pcb' = [pcb EXCEPT ![Foreground].curr_esp =
               [stack |-> EntryStack, depth |-> Len(EntryFrames) + 1]]
  /\ kstack' = [kstack EXCEPT ![EntryStack] = Append(EntryFrames,
                  [kind |-> "switch", pid |-> Foreground, back |-> phase])]
  /\ running' = EntryStack
  /\ current_terminal' = t
  /\ phase' = "switch"
  /\ UNCHANGED <<prog_count, memoryspace, pcb_loc, cr3, esp0>>

ResumeEffect_Esp0FromTerminal ==
  /\ phase = "switch"
  /\ prog_count[current_terminal] # 0
  /\ esp0' = current_terminal
  /\ cr3' = pcb[Foreground].curr_pd
  /\ running' = pcb[Foreground].curr_esp.stack
  /\ UNCHANGED <<current_terminal, prog_count, memoryspace, pcb_loc, pcb>>

(* Alt+Fn onto a terminal that has programs: load its foreground program.   *)
ResumeEffect ==
  /\ phase = "switch"
  /\ prog_count[current_terminal] # 0
  /\ esp0' = Foreground
  /\ cr3' = pcb[Foreground].curr_pd
  /\ running' = pcb[Foreground].curr_esp.stack
  /\ UNCHANGED <<current_terminal, prog_count, memoryspace, pcb_loc, pcb>>

Resume ==
  /\ ResumeEffect
  /\ LET c == pcb[Foreground].curr_esp
     IN /\ Holds(kstack, c, "switch", Foreground)
        /\ phase' = kstack[c.stack][c.depth].back
        /\ kstack' = Returned(kstack, c.stack, c.depth)

ResumeWild ==
  /\ ResumeEffect
  /\ ~ Holds(kstack, pcb[Foreground].curr_esp, "switch", Foreground)
  /\ phase' = "wild"
  /\ UNCHANGED kstack

Strand_OneTooEarly ==
  /\ phase = "switch"
  /\ prog_count[current_terminal] = 0
  /\ TaskCount >= MAX_PROCESSES - 1
  /\ LET d == Len(kstack[running])
     IN /\ phase' = kstack[running][d].back
        /\ kstack' = Returned(kstack, running, d)
  /\ UNCHANGED <<current_terminal, prog_count, memoryspace, pcb_loc, pcb, cr3,
                 esp0, running>>

(* Alt+Fn onto an empty terminal when no more programs are allowed: the     *)
(* helper text is printed and the interrupted code goes on, under the new   *)
(* current_terminal.                                                        *)
Strand ==
  /\ phase = "switch"
  /\ prog_count[current_terminal] = 0
  /\ TaskCount >= MAX_PROCESSES
  /\ LET d == Len(kstack[running])
     IN /\ phase' = kstack[running][d].back
        /\ kstack' = Returned(kstack, running, d)
  /\ UNCHANGED <<current_terminal, prog_count, memoryspace, pcb_loc, pcb, cr3,
                 esp0, running>>
-----------------------------------------------------------------------------
Panic ==
  /\ phase' = "panic"
  /\ UNCHANGED <<current_terminal, prog_count, memoryspace, pcb_loc, pcb, cr3,
                 esp0, running, kstack>>

(* Alt+Fn before the background buffers are mapped, or with no PCB to save  *)
(* the context in: page_fault.                                              *)
SwitchFault ==
  /\ phase = "boot" \/ (KeyboardOpen /\ Foreground = NULL)
  /\ Panic

(* A system call that follows the null PCB pointer, or any fault of a user  *)
(* program: every exception handler prints and spins.                       *)
Exception ==
  /\ phase = "user"
  /\ Panic

(* The handler's while(1); after a wild return nothing is modelled.         *)
Hang ==
  /\ phase \in {"panic", "wild"}
  /\ UNCHANGED vars

Next ==
  \/ Execute
  \/ Launch
  \/ Halt
  \/ HaltWild
  \/ WaitBegin
  \/ WaitEnd
  \/ \E t \in TERMS : SwitchOut(t)
  \/ Resume
  \/ ResumeWild
  \/ Strand
  \/ SwitchFault
  \/ Exception
  \/ Hang

Spec == Init /\ [][Next]_vars
-----------------------------------------------------------------------------
(* Every variable stays within its type: no count of programs goes below    *)
(* zero, no null pointer is loaded into esp0 or cr3.                        *)
TypeOK ==
  /\ current_terminal \in TERMS
  /\ prog_count \in [TERMS -> Nat]
  /\ memoryspace \in [PIDS -> {0, 1}]
  /\ pcb_loc \in [TERMS -> PIDS \cup {NULL}]
  /\ pcb \in [PIDS -> Pcb]
  /\ cr3 \in Stacks
  /\ esp0 \in Stacks
  /\ running \in Stacks
  /\ kstack \in [Stacks -> Seq(Frame)]
  /\ phase \in Phases

Live == {p \in PIDS : memoryspace[p] = 1}
InTerminal(t) == {p \in Live : pcb[p].term_num = t}

(* The program whose PCB the system calls and the next terminal switch use  *)
(* (pcb_loc[current_terminal]) is the one that is executing: alive, on its  *)
(* own kernel stack, in its own address space, its stack in the TSS.  Four  *)
(* pieces of state are set separately by execute, halt and terminal_switch. *)
CurrentIsRunning ==
  phase \in {"user", "wait"} /\ prog_count[current_terminal] # 0 =>
    /\ Foreground \in Live
    /\ running = Foreground
    /\ esp0 = Foreground
    /\ cr3 = Foreground

(* The counts the process limit and the "is this terminal empty" tests rely *)
(* on agree with the program numbers in use and the terminals in the PCBs.  *)
Accounting == \A t \in TERMS : prog_count[t] = Cardinality(InTerminal(t))

(* The execute call that started a program keeps its stack frame until the  *)
(* program halts.  The first shells of TERM_2 and TERM_3 are left out: they *)
(* are started from an interrupt on another program's stack.                *)
ReturnFrames ==
  phase # "wild" =>
    \A p \in Live :
      pcb[p].lastpcb_ptr # p \/ pcb[p].term_num = 0 =>
        Holds(kstack, pcb[p].esp, "execute", p)

(* A terminal in the background can be switched back to: the context saved  *)
(* for its foreground program is still on the stack it was saved on.        *)
ResumeFrames ==
  phase \notin {"wild", "panic"} /\ (phase = "switch" \/ prog_count[current_terminal] # 0) =>
    \A t \in TERMS :
      prog_count[t] # 0 /\ (t # current_terminal \/ phase = "switch") =>
        Holds(kstack, pcb[pcb_loc[t]].curr_esp, "switch", pcb_loc[t])

(* A program runs under an empty terminal, where its next system call       *)
(* follows a null PCB pointer, only after all programs were in use.         *)
StrandedOnlyWhenFull ==
  phase \in {"user", "wait"} /\ prog_count[current_terminal] = 0 =>
    TaskCount = MAX_PROCESSES

(* halt always returns to the execute call that started the program         *)
(* ("needed to correctly return after halt", pcb.h:36-41).  It does not.    *)
HaltReturnsToCaller == phase # "wild"

(* Ancestry(t)[n] is the PCB n parent pointers above t's foreground one.    *)
Ancestry(t) ==
  LET up[n \in 0 .. prog_count[t]] ==
        IF n = 0 THEN pcb_loc[t] ELSE pcb[up[n - 1]].lastpcb_ptr
  IN up

StackOf ==
  [t \in TERMS |->
     [i \in 1 .. prog_count[t] |-> Ancestry(t)[prog_count[t] - i]]]

Abstract == INSTANCE ProcessStacks
              WITH current <- current_terminal, stack <- StackOf

(* The PCB pointers, counts and program numbers implement one stack of      *)
(* programs per terminal: a new program is one not in use, on top of its    *)
(* terminal's stack; a halt removes exactly the top one of the terminal on  *)
(* the screen; a terminal switch moves none.                                *)
RefinesStacks == Abstract!StackSpec
=============================================================================
