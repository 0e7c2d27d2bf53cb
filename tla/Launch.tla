------------------------------- MODULE Launch -------------------------------
(***************************************************************************)
(* The first shell of a terminal, started with interrupts enabled.          *)
(*                                                                         *)
(* In module Tasks execute is one step.  That is right for the system call  *)
(* and for the restart of a shell after a halt, which run with interrupts   *)
(* disabled.  The loops of entry and of terminal_switch first call execute  *)
(* with interrupts enabled and no interrupt in service, so an Alt+Fn can    *)
(* suspend it between any two of the writes by which it builds the new      *)
(* program's state, and terminal_switch reads that state.                   *)
(*                                                                         *)
(* The unfinished execute is a frame of its kernel stack: it is being run   *)
(* when its frame is the last one, and it is suspended when the frame of a  *)
(* terminal switch lies above it.                                           *)
(***************************************************************************)
EXTENDS Tasks

VARIABLE stage      \* for each program number, how far its execute got

launchVars == <<vars, stage>>

(* "named": counted, and pcb_loc points at its PCB; "saved": the PCB is set *)
(* up and holds the way back; "loaded": its address space is loaded;        *)
(* "ready": its PCB can be switched to; "done": it has been started.        *)
Stages == {"named", "saved", "loaded", "ready", "done"}

LaunchInit == Init /\ stage = [p \in PIDS |-> "done"]
-----------------------------------------------------------------------------
Top == kstack[running][Len(kstack[running])]

(* Control is inside an execute that has interrupts enabled. *)
Launching ==
  /\ phase = "switch"
  /\ kstack[running] # <<>>
  /\ Top.kind = "execute"

At(s) == Launching /\ stage[Top.pid] = s

Reached(s) == stage' = [stage EXCEPT ![Top.pid] = s]

(* The argument checks, prog_count, memoryspace and pcb_loc.  An Alt+Fn     *)
(* between them follows the null pcb_loc of a terminal without programs:    *)
(* that is SwitchFault, before this step.                                   *)
LaunchBegin ==
  /\ phase = "boot" \/ (phase = "switch" /\ prog_count[current_terminal] = 0)
  /\ ~ Launching
  /\ TaskCount < MAX_PROCESSES
  /\ \E p \in ScanResult :
       /\ prog_count' = [prog_count EXCEPT ![current_terminal] = @ + 1]
       /\ memoryspace' = [memoryspace EXCEPT ![p] = 1]
       /\ pcb_loc' = [pcb_loc EXCEPT ![current_terminal] = p]
       /\ kstack' = [kstack EXCEPT ![running] = Append(@,
                       [kind |-> "execute", pid |-> p, back |-> "launch"])]
       /\ stage' = [stage EXCEPT ![p] = "named"]
  /\ phase' = "switch"
  /\ UNCHANGED <<current_terminal, pcb, cr3, esp0, running>>

(* A name of the form Definition_Bug is a broken variant of the definition *)
(* after it; the properties are shown to notice it.                         *)
SavedPcb_ParentBefore(parent) ==
  [lastpcb_ptr |-> NULL,
   esp |-> [stack |-> running, depth |-> Len(kstack[running])],
   pagedir |-> cr3,
   curr_esp |-> NULL, curr_pd |-> NULL, term_num |-> NULL]
SavedPcb_ContextTooEarly(parent) ==
  [lastpcb_ptr |-> parent,
   esp |-> [stack |-> running, depth |-> Len(kstack[running])],
   pagedir |-> cr3,
   curr_esp |-> NULL, curr_pd |-> cr3, term_num |-> NULL]

(* A fresh PCB with its parent and the stack and directory of execute.      *)
SavedPcb(parent) ==
  [lastpcb_ptr |-> parent,
   esp |-> [stack |-> running, depth |-> Len(kstack[running])],
   pagedir |-> cr3,
   curr_esp |-> NULL, curr_pd |-> NULL, term_num |-> NULL]

(* setup_pcb and the saving of esp, ebp and cr3.  The first program of a    *)
(* terminal is its own parent.                                              *)
LaunchSave ==
  /\ At("named")
  /\ Foreground # NULL
  /\ pcb' = [pcb EXCEPT ![Foreground] = SavedPcb(Foreground)]
  /\ Reached("saved")
  /\ UNCHANGED <<current_terminal, prog_count, memoryspace, pcb_loc, cr3, esp0,
                 running, kstack, phase>>

(* progN_init, the copy of the program and tss.esp0. *)
LaunchLoad ==
  /\ At("saved")
  /\ Foreground # NULL
  /\ ProgInit(Foreground)
  /\ esp0' = Foreground
  /\ Reached("loaded")
  /\ UNCHANGED <<current_terminal, prog_count, memoryspace, pcb_loc, pcb,
                 running, kstack, phase>>

(* curr_pd, curr_esp and curr_ebp. *)
LaunchContext ==
  /\ At("loaded")
  /\ Foreground # NULL
  /\ pcb' = [pcb EXCEPT ![Foreground].curr_pd = cr3,
                        ![Foreground].curr_esp = [stack |-> Foreground, depth |-> 0]]
  /\ Reached("ready")
  /\ UNCHANGED <<current_terminal, prog_count, memoryspace, pcb_loc, cr3, esp0,
                 running, kstack, phase>>

(* term_num, cli and iret. *)
LaunchEnd ==
  /\ At("ready")
  /\ Foreground # NULL
  /\ pcb' = [pcb EXCEPT ![Foreground].term_num = current_terminal]
  /\ running' = Foreground
  /\ phase' = "user"
  /\ Reached("done")
  /\ UNCHANGED <<current_terminal, prog_count, memoryspace, pcb_loc, cr3, esp0,
                 kstack>>

(* Every step of execute follows pcb_loc[current_terminal], which is null   *)
(* when execute goes on under a terminal it was not started for.            *)
LaunchFault ==
  /\ Launching
  /\ Foreground = NULL
  /\ Panic
  /\ UNCHANGED stage
-----------------------------------------------------------------------------
(* Bound: an unfinished execute is suspended while its stack holds at most  *)
(* one frame more than for an Alt+Fn inside terminal_switch.                *)
LaunchOpen == Launching /\ Len(kstack[running]) <= NESTING + 1

(* Alt+Fn inside execute: as SwitchOut. *)
LaunchSwitchOut(t) ==
  /\ LaunchOpen
  /\ t # current_terminal
  /\ cr3 # BOOT
  /\ Foreground # NULL
  /\ pcb' = [pcb EXCEPT ![Foreground].curr_esp =
               [stack |-> running, depth |-> Len(kstack[running]) + 1]]
  /\ kstack' = [kstack EXCEPT ![running] = Append(@,
                  [kind |-> "switch", pid |-> Foreground, back |-> "switch"])]
  /\ current_terminal' = t
  /\ UNCHANGED <<prog_count, memoryspace, pcb_loc, cr3, esp0, running, phase,
                 stage>>

(* The directory of boot has no background buffers. *)
LaunchSwitchFault ==
  /\ LaunchOpen
  /\ cr3 = BOOT
  /\ Panic
  /\ UNCHANGED stage

(* Alt+Fn back to a terminal whose shell has no curr_pd yet: 0 is loaded    *)
(* into CR3, and what the next instruction is nobody knows.                 *)
Unready == pcb[Foreground].curr_pd = NULL

ResumeUnready ==
  /\ phase = "switch"
  /\ ~ Launching
  /\ prog_count[current_terminal] # 0
  /\ Unready
  /\ phase' = "wild"
  /\ UNCHANGED <<current_terminal, prog_count, memoryspace, pcb_loc, pcb, cr3,
                 esp0, running, kstack, stage>>

(* The steps of Tasks; a launch that starts with interrupts disabled is     *)
(* still one of them.                                                       *)
Others ==
  \/ Execute
  \/ phase = "launch" /\ Launch
  \/ Halt
  \/ HaltWild
  \/ WaitBegin
  \/ WaitEnd
  \/ \E t \in TERMS : SwitchOut(t)
  \/ prog_count[current_terminal] # 0 /\ ~ Unready /\ (Resume \/ ResumeWild)
  \/ Strand
  \/ SwitchFault
  \/ Exception
  \/ Hang

LaunchNext ==
  \/ ~ Launching /\ Others /\ UNCHANGED stage
  \/ LaunchBegin
  \/ LaunchSave
  \/ LaunchLoad
  \/ LaunchContext
  \/ LaunchEnd
  \/ LaunchFault
  \/ \E t \in TERMS : LaunchSwitchOut(t)
  \/ LaunchSwitchFault
  \/ ResumeUnready

LaunchSpec == LaunchInit /\ [][LaunchNext]_launchVars
-----------------------------------------------------------------------------
(* Every variable stays within its type: also with executes suspended half  *)
(* way no null pointer gets into esp0 or cr3 but the one of ResumeUnready.  *)
LaunchTypeOK == TypeOK /\ stage \in [PIDS -> Stages]

(* The counts agree with the program numbers in use also while programs are *)
(* being started: a program number in use has been started in exactly one   *)
(* terminal, or is the foreground program of exactly one.                   *)
AccountingMidway ==
  \A t \in TERMS :
    prog_count[t] =
      Cardinality({p \in Live :
        IF stage[p] = "done" THEN pcb[p].term_num = t ELSE pcb_loc[t] = p})

(* The execute call of a program that was started keeps its stack frame     *)
(* (ReturnFrames), whatever was interrupted to start others.                *)
StartedReturn ==
  phase # "wild" =>
    \A p \in Live :
      stage[p] = "done" /\ (pcb[p].lastpcb_ptr # p \/ pcb[p].term_num = 0) =>
        Holds(kstack, pcb[p].esp, "execute", p)

(* The directory an Alt+Fn loads for a terminal with programs is the one of *)
(* its foreground program or, only before the execute of its first program  *)
(* got to write curr_pd, the null one: suspending an execute harms no other *)
(* terminal, and never makes one program run in the memory of another.      *)
LoadsOwnDirectory ==
  \A t \in TERMS : prog_count[t] # 0 =>
    LET p == pcb_loc[t]
    IN /\ p \in Live
       /\ pcb[p].curr_pd \in {p, NULL}
       /\ pcb[p].curr_pd = NULL => stage[p] \in {"named", "saved", "loaded"}
=============================================================================
