------------------------------- MODULE MCFiles -------------------------------
(***************************************************************************)
(* A small filesystem image for TLC: a directory, the RTC, a file whose    *)
(* last block is half full and one that fills its blocks exactly, whose    *)
(* next block number is out of range.                                      *)
(***************************************************************************)
EXTENDS Files

MCDirectory ==
  [i \in 0 .. 5 |->
     CASE i = 0 -> [name |-> "dot", length |-> 1, type |-> 1, inode |-> 0]
       [] i = 1 -> [name |-> "rtc", length |-> 3, type |-> 0, inode |-> 0]
       [] i = 2 -> [name |-> "frame0", length |-> 6, type |-> 2, inode |-> 2]
       [] i = 3 -> [name |-> "hello", length |-> 5, type |-> 2, inode |-> 1]
       [] OTHER -> [name |-> NULL, length |-> 0, type |-> 0, inode |-> 0]]

MCInodes ==
  [i \in 0 .. 2 |->
     CASE i = 0 -> [length |-> 0, blocks |-> [b \in 0 .. 1 |-> 0]]
       [] i = 1 -> [length |-> 3, blocks |-> [b \in 0 .. 2 |-> <<2, 1, 0>>[b + 1]]]
       [] i = 2 -> [length |-> 2, blocks |-> [b \in 0 .. 2 |-> <<0, 3, 0>>[b + 1]]]]

(* No argument, two, none with text behind it; a file that is no program,   *)
(* the empty command, and the name of an unused entry, whose inode is that  *)
(* of an empty file, with an argument getargs refuses.                      *)
MCCommands ==
  {<<"hello", Nul, Nul, Nul, Nul, Nul>>,
   <<"hello", Space, "x", "y", Nul, Nul>>,
   <<"hello", Nul, "x", Space, "y", Nul>>,
   <<"frame0", Space, "x", Nul, Nul, Nul>>,
   <<Nul, Nul, Nul, Nul, Nul, Nul>>,
   <<Space, Percent, Nul, Nul, Nul, Nul>>}

(* What the theorems that need a whole image assume holds of this one.      *)
ASSUME WholeImage == FilesInside /\ DirectoryDense
=============================================================================
