-------------------------------- MODULE Files --------------------------------
(***************************************************************************)
(* The file descriptors of a program (open, read, close of syscall.c, the   *)
(* descriptor array of pcb.c) over the read-only filesystem (filesys.c) and *)
(* its argument (the command line of execute, getargs).                     *)
(*                                                                         *)
(* Descriptors live in the PCB of the program that is executing (module    *)
(* Tasks), so one program at a time uses one array; execute starts the     *)
(* next one in the same PCB.  A byte is named by where it lies: the pair   *)
(* <<data block, offset in it>>.                                           *)
(***************************************************************************)
EXTENDS Integers, Sequences, SequencesExt, FiniteSets

CONSTANTS FOPS_NUM,        \* entries of a descriptor array
          DIRECTORY,       \* directory index -> [name, length, type, inode],
                           \* length the characters of the name; the name of
                           \* an unused entry is NULL
          INODES,          \* inode -> [length, blocks]
          BLOCK_SIZE,
          NUM_DATA_BLOCK,  \* data blocks of the filesystem image
          WORD,            \* 2^32: one more than the largest uint32_t
          NBYTES,          \* the sizes programs read
          BUFFASIZE,       \* characters execute looks at, and of an argument
          COMMANDS,        \* what is in memory where a command string starts
          ELF_SIZE,        \* bytes of an ELF header that execute checks
          EXECUTABLES,     \* the inodes of files that are an ELF header as
                           \* far as they reach
          NULL

NUM_INODES == Cardinality(DOMAIN INODES)
Lengths == {INODES[i].length : i \in DOMAIN INODES}

ASSUME NullAssumption == NULL \notin {"stdin", "stdout", "rtc", "dir", "fs"}
ASSUME FopsAssumption == FOPS_NUM \in Nat /\ FOPS_NUM > 2 /\ FOPS_NUM < WORD
ASSUME WordAssumption ==
  /\ BLOCK_SIZE \in Nat \ {0}
  /\ WORD \in Nat
  /\ NBYTES \subseteq 0 .. WORD - 1
  /\ ELF_SIZE \in 1 .. WORD - 1
  /\ \A len \in Lengths : len \in Nat /\ len + 1 < WORD
ASSUME ImageAssumption ==        \* the block table reaches past the last byte
  /\ IsFiniteSet(DOMAIN INODES) /\ NUM_DATA_BLOCK \in Nat
  /\ \A i \in DOMAIN INODES :
       0 .. INODES[i].length \div BLOCK_SIZE \subseteq DOMAIN INODES[i].blocks
ASSUME DirectoryAssumption ==    \* read_dentry_by_index accepts each inode,
  /\ \A i \in DOMAIN DIRECTORY :     \* and no index past the directory
       /\ DIRECTORY[i].inode \in DOMAIN INODES
       /\ DIRECTORY[i].length \in Nat
       /\ DIRECTORY[i].name # NULL => DIRECTORY[i].length > 0
  /\ 0 .. NUM_INODES \subseteq DOMAIN DIRECTORY

(* An image as the tools that write it leave it: the blocks of every file    *)
(* are in it, and the named entries of the directory come first.            *)
FilesInside ==
  \A i \in DOMAIN INODES : \A p \in 0 .. INODES[i].length - 1 :
    INODES[i].blocks[p \div BLOCK_SIZE] \in 0 .. NUM_DATA_BLOCK - 1
DirectoryDense ==
  \A i \in DOMAIN DIRECTORY : DIRECTORY[i].name # NULL =>
    i \in 0 .. NUM_INODES /\ \A j \in 0 .. i : DIRECTORY[j].name # NULL

(* Characters of a command; any other one is a letter, or a whole name.     *)
Nul == "nul"
Space == "space"
Percent == "percent"

ASSUME CommandAssumption ==
  \A c \in COMMANDS : c \in Seq(STRING) /\ Len(c) = BUFFASIZE

Characters == {c[i] : c \in COMMANDS, i \in 1 .. BUFFASIZE} \cup {Nul}
FDS == 0 .. FOPS_NUM - 1
FIRST_FDENTRY == 2
Names == {DIRECTORY[i].name : i \in DOMAIN DIRECTORY} \ {NULL}
Entry(name) ==
  DIRECTORY[CHOOSE i \in DOMAIN DIRECTORY : DIRECTORY[i].name = name]

VARIABLES
  file_desc,   \* the descriptor array of the program's PCB
  args,        \* the argument in the PCB, filled up with zeros
  command,     \* history: the command the program was started with
  result,      \* the last call, the size asked for and the return value
  opened,      \* history: the name each descriptor was opened for
  got          \* history: what was read through it since

vars == <<file_desc, args, command, result, opened, got>>

Closed == [fops_ptr |-> NULL, inode_ptr |-> 0, file_pos |-> 0, flags |-> 0]

(* pcb_init: descriptors 0 and 1 are the terminal, the others are closed.   *)
Fresh ==
  [fd \in FDS |->
     CASE fd = 0 -> [Closed EXCEPT !.fops_ptr = "stdin", !.flags = 1]
       [] fd = 1 -> [Closed EXCEPT !.fops_ptr = "stdout", !.flags = 1]
       [] OTHER  -> Closed]

Returned(call, fd, asked, value) ==
  [call |-> call, fd |-> fd, asked |-> asked, value |-> value]

-----------------------------------------------------------------------------
(* read_data, of at least one byte: how many bytes it copies.  The length   *)
(* is cut to that of the file when the sum, as a uint32_t, passes its end;  *)
(* the copy stops at a block out of range or past the end of the file.      *)
Cut(i, offset, length) ==
  IF (offset + length) % WORD > INODES[i].length THEN INODES[i].length
                                                 ELSE length

Stops_TooEarly(i, position) == position + 1 >= INODES[i].length
Stops_TooLate(i, position) == position > INODES[i].length + 1
Stops(i, position) ==
  \/ position > INODES[i].length
  \/ INODES[i].blocks[position \div BLOCK_SIZE] >= NUM_DATA_BLOCK

BytesRead(i, offset, length) ==
  IF offset > INODES[i].length THEN 0
  ELSE LET cut == Cut(i, offset, length)
       IN CHOOSE n \in 0 .. cut :
            /\ n = cut \/ Stops(i, offset + n)
            /\ \A m \in 0 .. n - 1 : ~ Stops(i, offset + m)

ByteAt(i, position) ==
  <<INODES[i].blocks[position \div BLOCK_SIZE], position % BLOCK_SIZE>>
-----------------------------------------------------------------------------
(* The command line of execute, its characters counted from 0.  The name    *)
(* ends at a space or at the end of the string; namelength is its length.   *)
EndsName(ch) == ch \in {Space, Nul}
NameLength(c) == SelectInSeq(c, EndsName) - 1

(* The entry of that name.  A name is one character here: a longer one is   *)
(* no file's.  The empty one, of a command that starts with a space, is     *)
(* that of the first unused entry.                                          *)
NameOf(c) == IF NameLength(c) = 0 THEN NULL ELSE c[1]
Named(c) ==
  /\ c[1] # Nul /\ NameLength(c) \in {0, 1}
  /\ \E i \in DOMAIN DIRECTORY : DIRECTORY[i].name = NameOf(c)

(* The check for an ELF header.  Of a file that is too short the bytes it   *)
(* does not have are what was on the stack, and may pass or not.            *)
Executable(c) == Named(c) /\ Entry(NameOf(c)).inode \in EXECUTABLES
HeaderUnread(c) == BytesRead(Entry(NameOf(c)).inode, 0, ELF_SIZE) < ELF_SIZE

(* Where the loop that stores the argument stops.                           *)
ArgumentEnd(c) ==
  CHOOSE i \in NameLength(c) + 1 .. BUFFASIZE :
    /\ i = BUFFASIZE \/ c[i + 1] = Nul
    /\ \A j \in NameLength(c) + 1 .. i - 1 : c[j + 1] # Nul

StoredArgs_NotCleared(c, before) ==
  [k \in 0 .. BUFFASIZE - 1 |->
     IF NameLength(c) + 1 + k < ArgumentEnd(c) THEN c[NameLength(c) + 2 + k]
                                               ELSE before[k]]
(* pcb_init clears what was there before. *)
StoredArgs(c, before) ==
  [k \in 0 .. BUFFASIZE - 1 |->
     IF NameLength(c) + 1 + k < ArgumentEnd(c) THEN c[NameLength(c) + 2 + k]
                                               ELSE Nul]

Init ==
  /\ file_desc = Fresh
  /\ \E c \in COMMANDS :
       /\ Executable(c)
       /\ command = c
       /\ args = StoredArgs(c, [k \in 0 .. BUFFASIZE - 1 |-> Nul])
  /\ result = Returned("none", 0, 0, 0)
  /\ opened = [fd \in FDS |-> NULL]
  /\ got = [fd \in FDS |-> <<>>]

(* The program halts, which closes its files, and the one that started it   *)
(* executes another, which gets the same PCB with pcb_init's array.         *)
NextProgram(c) ==
  /\ Executable(c)
  /\ file_desc' = Fresh
  /\ command' = c
  /\ args' = StoredArgs(c, args)
  /\ result' = Returned("none", 0, 0, 0)
  /\ opened' = [fd \in FDS |-> NULL]
  /\ got' = [fd \in FDS |-> <<>>]

(* An empty command, no file of that name, or not a program.  That all      *)
(* program numbers may be in use is module Tasks.                           *)
ExecuteFails(c) ==
  /\ Executable(c) => HeaderUnread(c)
  /\ result' = Returned("execute", 0, 0, -1)
  /\ UNCHANGED <<file_desc, args, command, opened, got>>

(* getargs.  A negative size, half of WORD and more as a size_t, copies     *)
(* until it faults, and the kernel stops.                                   *)
GetArgs(n) ==
  /\ n < WORD \div 2
  /\ result' = Returned("getargs", 0, n,
                        IF n = 0 \/ args[0] \in {Nul, Percent} THEN -1 ELSE 0)
  /\ UNCHANGED <<file_desc, args, command, opened, got>>
-----------------------------------------------------------------------------
InUse(fd) == file_desc[fd].flags = 1

(* The value of the local variable "empty" after the scan of open: with no  *)
(* descriptor free it was never written.  Only whether it happens to equal  *)
(* FOPS_NUM, where the scan ended, matters.                                 *)
Scanned_FirstAlways == {FIRST_FDENTRY}
Scanned ==
  IF \A fd \in FIRST_FDENTRY .. FOPS_NUM - 1 : InUse(fd)
  THEN {NULL, FOPS_NUM}
  ELSE {fd \in FIRST_FDENTRY .. FOPS_NUM - 1 :
          /\ ~ InUse(fd)
          /\ \A e \in FIRST_FDENTRY .. fd - 1 : InUse(e)}

(* What open puts in the descriptor, by the type of the file.               *)
Descriptor(entry) ==
  CASE entry.type = 0 -> [Closed EXCEPT !.fops_ptr = "rtc", !.flags = 1]
    [] entry.type = 1 -> [Closed EXCEPT !.fops_ptr = "dir", !.flags = 1]
    [] entry.type = 2 -> [Closed EXCEPT !.fops_ptr = "fs", !.flags = 1,
                                        !.inode_ptr = entry.inode]

Openable(name) == name \in Names /\ Entry(name).type \in 0 .. 2

OpenFails(name) ==
  /\ NULL \in Scanned \/ ~ Openable(name)
  /\ result' = Returned("open", 0, 0, -1)
  /\ UNCHANGED <<file_desc, args, command, opened, got>>

(* The descriptor past the array lies in the unused end of the program's    *)
(* kernel stack, where nothing reads it.                                    *)
OpenSucceeds(name) ==
  /\ Openable(name)
  /\ \E fd \in Scanned \ {NULL} :
       /\ result' = Returned("open", 0, 0, fd)
       /\ IF fd \in FDS
          THEN /\ file_desc' = [file_desc EXCEPT ![fd] = Descriptor(Entry(name))]
               /\ opened' = [opened EXCEPT ![fd] = name]
               /\ got' = [got EXCEPT ![fd] = <<>>]
          ELSE UNCHANGED <<file_desc, opened, got>>
  /\ UNCHANGED <<args, command>>

Closable(fd) == fd \in FIRST_FDENTRY .. FOPS_NUM - 1 /\ InUse(fd)

CloseFails(fd) ==
  /\ ~ Closable(fd)
  /\ result' = Returned("close", 0, 0, -1)
  /\ UNCHANGED <<file_desc, args, command, opened, got>>

CloseSucceeds_FlagStays(fd) ==
  /\ Closable(fd)
  /\ file_desc' = [file_desc EXCEPT ![fd] = [Closed EXCEPT !.flags = 1]]
  /\ opened' = [opened EXCEPT ![fd] = NULL]
  /\ got' = [got EXCEPT ![fd] = <<>>]
  /\ result' = Returned("close", 0, 0, 0)
  /\ UNCHANGED <<args, command>>

CloseSucceeds(fd) ==
  /\ Closable(fd)
  /\ file_desc' = [file_desc EXCEPT ![fd] = Closed]
  /\ opened' = [opened EXCEPT ![fd] = NULL]
  /\ got' = [got EXCEPT ![fd] = <<>>]
  /\ result' = Returned("close", 0, 0, 0)
  /\ UNCHANGED <<args, command>>
-----------------------------------------------------------------------------
(* fs_read. *)
FsRead_ForgetsPosition(fd, n) ==
  /\ file_desc[fd].fops_ptr = "fs" /\ n # 0
  /\ LET i == file_desc[fd].inode_ptr
         pos == file_desc[fd].file_pos
         count == BytesRead(i, pos, n)
     IN /\ result' = Returned("read", fd, n, count)
        /\ got' = [got EXCEPT ![fd] =
                     @ \o [k \in 1 .. count |-> ByteAt(i, pos + k - 1)]]
        /\ file_desc' = [file_desc EXCEPT ![fd].file_pos = count]

FsRead(fd, n) ==
  /\ file_desc[fd].fops_ptr = "fs" /\ n # 0
  /\ LET i == file_desc[fd].inode_ptr
         pos == file_desc[fd].file_pos
         count == BytesRead(i, pos, n)
     IN /\ result' = Returned("read", fd, n, count)
        /\ got' = [got EXCEPT ![fd] =
                     @ \o [k \in 1 .. count |-> ByteAt(i, pos + k - 1)]]
        /\ file_desc' = [file_desc EXCEPT ![fd].file_pos = @ + count]

(* A read of no bytes of a file is an error.                                *)
FsReadNothing(fd, n) ==
  /\ file_desc[fd].fops_ptr = "fs" /\ n = 0
  /\ result' = Returned("read", 0, n, -1)
  /\ UNCHANGED <<file_desc, got>>

(* dir_read: the next name, or its first n bytes, or 0 past the last one.   *)
(* With n = 0 the name is passed over, and NULL stands for it.              *)
DirRead(fd, n) ==
  /\ file_desc[fd].fops_ptr = "dir"
  /\ LET pos == file_desc[fd].file_pos
     IN IF pos > NUM_INODES \/ DIRECTORY[pos].name = NULL
        THEN /\ result' = Returned("read", fd, n, 0)
             /\ UNCHANGED <<file_desc, got>>
        ELSE /\ result' = Returned("read", fd, n, Min({n, DIRECTORY[pos].length}))
             /\ got' = [got EXCEPT ![fd] = Append(@, IF n = 0 THEN NULL ELSE DIRECTORY[pos].name)]
             /\ file_desc' = [file_desc EXCEPT ![fd].file_pos = pos + 1]

(* The terminal and the RTC: modules Terminal and Rtc.                      *)
DeviceRead(fd, n) ==
  /\ file_desc[fd].fops_ptr \in {"stdin", "rtc"}
  /\ result' = Returned("read", fd, n, 0)
  /\ UNCHANGED <<file_desc, got>>

Readable(fd) == fd \in FDS \ {1} /\ InUse(fd)

Read(fd, n) ==
  /\ Readable(fd)
  /\ FsRead(fd, n) \/ FsReadNothing(fd, n) \/ DirRead(fd, n) \/ DeviceRead(fd, n)
  /\ UNCHANGED <<args, command, opened>>

ReadFails(fd) ==
  /\ ~ Readable(fd)
  /\ result' = Returned("read", 0, 0, -1)
  /\ UNCHANGED <<file_desc, args, command, opened, got>>

(* write: the filesystem is read-only, and a descriptor not open, or that   *)
(* of stdin, is an error.                                                   *)
Writable(fd) == fd \in FDS \ {0} /\ InUse(fd)

WriteFails(fd) ==
  /\ Writable(fd) => file_desc[fd].fops_ptr \in {"fs", "dir"}
  /\ result' = Returned("write", 0, 0, -1)
  /\ UNCHANGED <<file_desc, args, command, opened, got>>

(* The screen and the RTC: modules Console and Rtc.                         *)
DeviceWrite(fd) ==
  /\ Writable(fd)
  /\ file_desc[fd].fops_ptr \in {"stdout", "rtc"}
  /\ result' = Returned("write", 0, 0, 0)
  /\ UNCHANGED <<file_desc, args, command, opened, got>>

Next ==
  \/ \E c \in COMMANDS : NextProgram(c) \/ ExecuteFails(c)
  \/ \E n \in NBYTES : GetArgs(n)
  \/ \E name \in Names \cup {NULL} : OpenFails(name) \/ OpenSucceeds(name)
  \/ \E fd \in -1 .. FOPS_NUM :
       \/ CloseFails(fd)
       \/ CloseSucceeds(fd)
       \/ ReadFails(fd)
       \/ WriteFails(fd)
       \/ DeviceWrite(fd)
       \/ \E n \in NBYTES : Read(fd, n)

Spec == Init /\ [][Next]_vars
-----------------------------------------------------------------------------
(* Every descriptor stays within its type, its position at most one past    *)
(* the end of its file.                                                     *)
TypeOK ==
  /\ file_desc \in [FDS -> [fops_ptr : {"stdin", "stdout", "rtc", "dir", "fs", NULL},
                            inode_ptr : DOMAIN INODES \cup {0},
                            file_pos : Nat, flags : {0, 1}]]
  /\ \A fd \in FDS : file_desc[fd].fops_ptr = "fs" =>
       file_desc[fd].file_pos <= INODES[file_desc[fd].inode_ptr].length + 1
  /\ args \in [0 .. BUFFASIZE - 1 -> Characters] /\ command \in COMMANDS
  /\ result.fd \in -1 .. FOPS_NUM /\ result.value \in -1 .. WORD - 1
  /\ opened \in [FDS -> Names \cup {NULL}]

(* The descriptors a program can use are the two of the terminal and those  *)
(* it opened and did not close, each meaning the file it was opened for:    *)
(* nothing is inherited from the program that had the PCB before.           *)
OnlyOwnFiles ==
  \A fd \in FDS :
    IF fd < FIRST_FDENTRY
    THEN InUse(fd) /\ file_desc[fd].fops_ptr = IF fd = 0 THEN "stdin" ELSE "stdout"
    ELSE IF opened[fd] = NULL
    THEN ~ InUse(fd)
    ELSE file_desc[fd] = [Descriptor(Entry(opened[fd])) EXCEPT
                            !.file_pos = file_desc[fd].file_pos]

(* Successive reads of a descriptor deliver its file in order from the      *)
(* start, and of a directory its names in order, whatever sizes are asked   *)
(* for and whatever is read through other descriptors in between.  Only a   *)
(* read of no bytes passes over a name.                                     *)
ReadsInOrder ==
  \A fd \in FDS :
    LET d == file_desc[fd]
    IN /\ d.fops_ptr = "fs" =>
            got[fd] = [k \in 1 .. d.file_pos |-> ByteAt(d.inode_ptr, k - 1)]
       /\ d.fops_ptr = "dir" =>
            /\ Len(got[fd]) = d.file_pos
            /\ \A k \in DOMAIN got[fd] :
                 got[fd][k] \in {DIRECTORY[k - 1].name, NULL}

(* A read of at least one byte that returns 0 tells the truth: the whole    *)
(* file, or every name of the directory not passed over, has been           *)
(* delivered.                                                               *)
ZeroMeansEnd ==
  result.call = "read" /\ result.value = 0 /\ result.asked # 0 =>
    LET d == file_desc[result.fd]
    IN /\ d.fops_ptr = "fs" => Len(got[result.fd]) >= INODES[d.inode_ptr].length
       /\ d.fops_ptr = "dir" => \A i \in DOMAIN DIRECTORY :
            DIRECTORY[i].name # NULL => i + 1 \in DOMAIN got[result.fd]

(* A read fits the buffer it was given: it copies no more bytes than it was *)
(* asked for, although near the end of a file read_data takes the length of *)
(* the whole file for what is left to copy.                                 *)
ReadFitsBuffer ==
  result.call = "read" => result.value <= result.asked

(* The reference: what follows the first space of the string.               *)
Argument(c) ==
  LET text == SubSeq(c, 1, SelectInSeq(c, LAMBDA ch : ch = Nul) - 1)
      space == SelectInSeq(text, LAMBDA ch : ch = Space)
  IN IF space = 0 THEN <<>> ELSE SubSeq(text, space + 1, Len(text))

(* execute looks one character behind the end of a command without          *)
(* argument.  What terminal_read fills is zero there.                       *)
ZeroBehind(c) ==
  LET nul == SelectInSeq(c, LAMBDA ch : ch = Nul)
  IN \A i \in nul .. BUFFASIZE : c[i] = Nul

(* A program finds in its PCB the argument of the command it was started    *)
(* with, whole, with nothing of another program's behind it; getargs says   *)
(* there is one exactly if there is, but for one that starts with a %.      *)
ArgumentIsTheCommands ==
  ZeroBehind(command) =>
    LET arg == Argument(command)
    IN /\ \A k \in DOMAIN args :
            args[k] = IF k < Len(arg) THEN arg[k + 1] ELSE Nul
       /\ result.call = "getargs" /\ result.asked # 0 =>
            (result.value = 0 <=> arg # <<>> /\ arg[1] # Percent)

(* A descriptor goes on meaning the file it was opened for until it is      *)
(* closed or the program ends: open never takes one in use.                 *)
OpenTakesAFreeOne ==
  [][\A fd \in FDS :
       opened[fd] # NULL /\ opened'[fd] # NULL => opened'[fd] = opened[fd]]_vars

(* "0 if reached end of file, otherwise [the] number of bytes read"         *)
(* (filesys.c:18): no read delivers a byte past the end.  One does.         *)
NothingPastEnd ==
  \A fd \in FDS : file_desc[fd].fops_ptr = "fs" =>
    Len(got[fd]) <= INODES[file_desc[fd].inode_ptr].length
=============================================================================
