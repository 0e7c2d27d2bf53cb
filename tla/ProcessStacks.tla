---------------------------- MODULE ProcessStacks ----------------------------
(***************************************************************************)
(* What the process code promises, with no stacks, PCBs or page tables:    *)
(* each terminal has a stack of programs, the one on the screen acts, a    *)
(* program that executes another is suspended until that one halts, and a  *)
(* terminal keeps its programs while another one is on the screen.         *)
(***************************************************************************)
EXTENDS Integers, Sequences, SequencesExt

CONSTANT MAX_PROCESSES

VARIABLES current,     \* the terminal that is on the screen
          stack        \* for each terminal, its programs, parent first

stackVars == <<current, stack>>

Terminals == 0 .. 2
Programs == 0 .. MAX_PROCESSES - 1

InUse == UNION {ToSet(stack[t]) : t \in Terminals}

StackInit ==
  /\ current = 0
  /\ stack = [t \in Terminals |-> <<>>]

Start(p) ==
  /\ p \notin InUse
  /\ stack' = [stack EXCEPT ![current] = Append(@, p)]
  /\ UNCHANGED current

Exit ==
  /\ stack[current] # <<>>
  /\ stack' = [stack EXCEPT ![current] = Front(@)]
  /\ UNCHANGED current

Show(t) ==
  /\ current' = t
  /\ UNCHANGED stack

StackNext ==
  \/ \E p \in Programs : Start(p)
  \/ Exit
  \/ \E t \in Terminals : Show(t)

StackSpec == StackInit /\ [][StackNext]_stackVars
=============================================================================
