----------------------------- MODULE FilesProofs -----------------------------
(***************************************************************************)
(* What module Files keeps true for every filesystem image, every set of   *)
(* commands, every size of the descriptor array and of reads.  The         *)
(* descriptors' properties are inductive with what a closed descriptor     *)
(* holds and what argument the PCB holds.                                  *)
(***************************************************************************)
EXTENDS Files, SequenceTheorems, FiniteSetTheorems, WellFoundedInduction, TLAPS

(* A set of natural numbers has a least element.                            *)
LEMMA Least ==
  ASSUME NEW T, T \subseteq Nat, T # {}
  PROVE  \E x \in T : \A y \in T : x <= y
<1>1. PICK R : R = {ss \in Nat \X Nat : ss[1] < ss[2]}
  OBVIOUS
<1>2. IsWellFoundedOn(R, Nat)
  BY <1>1, NatLessThanWellFounded DEF OpToRel
<1>3. PICK x \in T : \A y \in T : ~ (<<y, x>> \in R)
  BY <1>2, WFMin
<1>4. ASSUME NEW y \in T PROVE x <= y
  <2>1. x \in Nat /\ y \in Nat
    OBVIOUS
  <2>2. y < x => <<y, x>> \in R
    BY <1>1, <2>1
  <2> QED BY <1>3, <2>1, <2>2
<1> QED BY <1>4

LEMMA MinOfTwo ==
  ASSUME NEW a \in Nat, NEW b \in Nat
  PROVE  Min({a, b}) = IF a <= b THEN a ELSE b
<1>1. PICK m : m = Min({a, b})
  OBVIOUS
<1>2. \E x \in {a, b} : \A y \in {a, b} : x =< y
  OBVIOUS
<1>3. m \in {a, b} /\ \A y \in {a, b} : m =< y
  BY <1>1, <1>2, Zenon DEF Min
<1> QED BY <1>1, <1>3
-----------------------------------------------------------------------------
FopsPtrs == {"stdin", "stdout", "rtc", "dir", "fs", NULL}
Desc == [fops_ptr : FopsPtrs, inode_ptr : DOMAIN INODES \cup {0},
         file_pos : Nat, flags : {0, 1}]

(* What reads deliver: bytes of files, names, and NULL for a name passed    *)
(* over.                                                                    *)
Pieces == {ByteAt(i, p) : i \in DOMAIN INODES, p \in Nat}
            \cup {DIRECTORY[p].name : p \in Nat} \cup {NULL}

Shape ==
  /\ file_desc \in [FDS -> Desc]
  /\ got \in [FDS -> Seq(Pieces)]
  /\ opened \in [FDS -> Names \cup {NULL}]
  /\ args \in [0 .. BUFFASIZE - 1 -> Characters] /\ command \in COMMANDS
  /\ result.fd \in -1 .. FOPS_NUM /\ result.value \in -1 .. WORD - 1

(* One descriptor: it is what its name says or as pcb_init or close left    *)
(* it, its inode is one of the image, and what was read through it is what  *)
(* lies before its position.                                                *)
DescOK(fd) ==
  LET d == file_desc[fd]
  IN /\ fd = 0 => d.flags = 1 /\ d.fops_ptr = "stdin"
     /\ fd = 1 => d.flags = 1 /\ d.fops_ptr = "stdout"
     /\ fd >= FIRST_FDENTRY /\ opened[fd] = NULL => d = Closed
     /\ opened[fd] # NULL =>
          /\ fd >= FIRST_FDENTRY /\ Openable(opened[fd])
          /\ d = [Descriptor(Entry(opened[fd])) EXCEPT !.file_pos = d.file_pos]
     /\ d.fops_ptr = "fs" =>
          /\ d.inode_ptr \in DOMAIN INODES
          /\ d.file_pos <= INODES[d.inode_ptr].length + 1
          /\ got[fd] = [k \in 1 .. d.file_pos |-> ByteAt(d.inode_ptr, k - 1)]
     /\ d.fops_ptr = "dir" =>
          /\ Len(got[fd]) = d.file_pos
          /\ \A k \in 1 .. Len(got[fd]) :
               got[fd][k] \in {DIRECTORY[k - 1].name, NULL}

(* The argument in the PCB is the stored one of the program's command, and  *)
(* the last getargs looked at it.                                           *)
ArgsOK ==
  /\ Executable(command)
  /\ args = StoredArgs(command, args)
  /\ result.call = "getargs" =>
       result.value = IF result.asked = 0 \/ args[0] \in {Nul, Percent}
                      THEN -1 ELSE 0

(* The inductive invariant.                                                 *)
IInv == Shape /\ ArgsOK /\ \A fd \in FDS : DescOK(fd)
-----------------------------------------------------------------------------
(* What open puts in a descriptor is an open one, at its start.             *)
LEMMA DescriptorOK ==
  ASSUME NEW name, Openable(name)
  PROVE  /\ Descriptor(Entry(name)) \in Desc
         /\ Descriptor(Entry(name)).flags = 1
         /\ Descriptor(Entry(name)).file_pos = 0
         /\ Descriptor(Entry(name)).fops_ptr = "fs" =>
              Descriptor(Entry(name)).inode_ptr \in DOMAIN INODES
<1>1. PICK e : e = Entry(name)
  OBVIOUS
<1>2. e.inode \in DOMAIN INODES
  <2>1. name \in {DIRECTORY[i].name : i \in DOMAIN DIRECTORY}
    BY DEF Openable, Names
  <2>2. \E i \in DOMAIN DIRECTORY : DIRECTORY[i].name = name
    BY <2>1
  <2>3. PICK i : i = CHOOSE k \in DOMAIN DIRECTORY : DIRECTORY[k].name = name
    OBVIOUS
  <2>4. i \in DOMAIN DIRECTORY
    BY <2>2, <2>3, Zenon
  <2>5. e = DIRECTORY[i]
    BY <1>1, <2>3 DEF Entry
  <2> QED BY <2>4, <2>5, DirectoryAssumption
<1>3. e.type = 0 \/ e.type = 1 \/ e.type = 2
  BY <1>1 DEF Openable
<1>4. \A x \in FopsPtrs :
        LET d == [Closed EXCEPT !.fops_ptr = x, !.flags = 1]
        IN d \in Desc /\ d.flags = 1 /\ d.file_pos = 0 /\ d.fops_ptr = x
  BY DEF Desc, Closed, FopsPtrs
<1>5. LET d == [Closed EXCEPT !.fops_ptr = "fs", !.flags = 1,
                              !.inode_ptr = e.inode]
      IN /\ d \in Desc /\ d.flags = 1 /\ d.file_pos = 0
         /\ d.inode_ptr = e.inode
  BY <1>2 DEF Desc, Closed, FopsPtrs
<1>6. "rtc" \in FopsPtrs /\ "dir" \in FopsPtrs
  BY DEF FopsPtrs
<1>7. CASE e.type = 0
  <2>1. Descriptor(e) = [Closed EXCEPT !.fops_ptr = "rtc", !.flags = 1]
    BY <1>7 DEF Descriptor
  <2> QED BY <1>1, <1>4, <1>6, <2>1
<1>8. CASE e.type = 1
  <2>1. Descriptor(e) = [Closed EXCEPT !.fops_ptr = "dir", !.flags = 1]
    BY <1>8 DEF Descriptor
  <2> QED BY <1>1, <1>4, <1>6, <2>1
<1>9. CASE e.type = 2
  <2>1. Descriptor(e) = [Closed EXCEPT !.fops_ptr = "fs", !.flags = 1,
                                       !.inode_ptr = e.inode]
    BY <1>9 DEF Descriptor
  <2> QED BY <1>1, <1>2, <1>5, <2>1
<1> QED BY <1>3, <1>7, <1>8, <1>9

(* The scan of open takes a descriptor that is free, or the one past the    *)
(* array.                                                                   *)
LEMMA ScannedOK ==
  ASSUME NEW fd \in Scanned, fd # NULL
  PROVE  fd = FOPS_NUM \/ (fd \in FDS /\ fd >= FIRST_FDENTRY /\ ~ InUse(fd))
<1> QED BY FopsAssumption DEF Scanned, FIRST_FDENTRY, FDS

(* A new program's descriptors.                                             *)
LEMMA FreshOK ==
  /\ Fresh \in [FDS -> Desc]
  /\ Fresh[0].fops_ptr = "stdin" /\ Fresh[0].flags = 1
  /\ Fresh[1].fops_ptr = "stdout" /\ Fresh[1].flags = 1
  /\ \A fd \in FDS : fd >= FIRST_FDENTRY => Fresh[fd] = Closed
  /\ \A fd \in FDS : Fresh[fd].fops_ptr \notin {"fs", "dir"}
<1>1. PICK stdin : stdin = [Closed EXCEPT !.fops_ptr = "stdin", !.flags = 1]
  OBVIOUS
<1>2. PICK stdout : stdout = [Closed EXCEPT !.fops_ptr = "stdout", !.flags = 1]
  OBVIOUS
<1>3. /\ stdin \in Desc /\ stdout \in Desc /\ Closed \in Desc
      /\ stdin.fops_ptr = "stdin" /\ stdin.flags = 1
      /\ stdout.fops_ptr = "stdout" /\ stdout.flags = 1
  BY <1>1, <1>2 DEF Closed, Desc, FopsPtrs
<1>4. 0 \in FDS /\ 1 \in FDS /\ FDS \subseteq Nat
  BY FopsAssumption DEF FDS
<1>5. \A fd \in FDS : Fresh[fd] = IF fd = 0 THEN stdin
                                  ELSE IF fd = 1 THEN stdout ELSE Closed
  BY <1>1, <1>2 DEF Fresh
<1>6. Fresh \in [FDS -> Desc]
  <2>1. \A fd \in FDS : Fresh[fd] \in Desc
    BY <1>3, <1>5
  <2>2. Fresh = [fd \in FDS |-> Fresh[fd]]
    BY DEF Fresh
  <2> QED BY <2>1, <2>2
<1>7. \A fd \in FDS : fd >= FIRST_FDENTRY => Fresh[fd] = Closed
  BY <1>4, <1>5 DEF FIRST_FDENTRY
<1>8. \A fd \in FDS : Fresh[fd].fops_ptr \notin {"fs", "dir"}
  <2>1. Closed.fops_ptr \notin {"fs", "dir"}
    BY NullAssumption DEF Closed
  <2> QED BY <1>3, <1>5, <2>1
<1> QED BY <1>3, <1>4, <1>5, <1>6, <1>7, <1>8
-----------------------------------------------------------------------------
(* The lengths of files and the sizes asked for are machine words.          *)
LEMMA Words ==
  /\ \A i \in DOMAIN INODES :
       INODES[i].length \in Nat /\ INODES[i].length + 1 < WORD
  /\ NBYTES \subseteq Nat /\ \A n \in NBYTES : n < WORD
  /\ WORD \in Nat
<1>1. \A i \in DOMAIN INODES : INODES[i].length \in Lengths
  BY DEF Lengths
<1> QED BY <1>1, WordAssumption

LEMMA Remainder ==
  ASSUME NEW x \in Nat, NEW w \in Nat, w > 0
  PROVE  x % w <= x
<1>1. PICK q : q = x \div w
  OBVIOUS
<1>2. PICK r : r = x % w
  OBVIOUS
<1>3. q \in Nat /\ r \in Nat /\ x = w * q + r
  BY <1>1, <1>2
<1>4. PICK m : m = w * q
  OBVIOUS
<1>5. m \in Nat
  BY <1>3, <1>4
<1> QED BY <1>2, <1>3, <1>4, <1>5

(* read_data stops at the first byte it may not copy: never further than    *)
(* one byte past the end of the file, nor than was asked.  It copies        *)
(* nothing only at the end, or where a block number is out of range.        *)
LEMMA BytesReadOK ==
  ASSUME NEW i \in DOMAIN INODES, NEW offset \in Nat, NEW n \in NBYTES, n # 0,
         offset <= INODES[i].length + 1
  PROVE  /\ BytesRead(i, offset, n) \in Nat
         /\ BytesRead(i, offset, n) < WORD
         /\ BytesRead(i, offset, n) <= n
         /\ offset + BytesRead(i, offset, n) <= INODES[i].length + 1
         /\ BytesRead(i, offset, n) = 0 =>
              \/ offset >= INODES[i].length
              \/ INODES[i].blocks[offset \div BLOCK_SIZE] >= NUM_DATA_BLOCK
<1>1. PICK len \in Nat : len = INODES[i].length
  BY Words
<1>2. CASE offset > len
  BY <1>1, <1>2, Words DEF BytesRead
<1>3. CASE offset <= len
  <2>1. PICK cut : cut = Cut(i, offset, n)
    OBVIOUS
  <2>2. cut \in Nat /\ cut < WORD /\ (cut = 0 => len = 0)
    BY <1>1, <2>1, Words DEF Cut
  <2> DEFINE Ends(m) == m = cut \/ Stops(i, offset + m)
  <2>3. PICK T : T = {m \in 0 .. cut : Ends(m)}
    OBVIOUS
  <2>4. cut \in T /\ T \subseteq Nat
    BY <2>2, <2>3
  <2>5. PICK m \in T : \A k \in T : m <= k
    BY <2>4, Least
  <2>6. \A k \in 0 .. m - 1 : ~ Stops(i, offset + k)
    <3> SUFFICES ASSUME NEW k \in 0 .. m - 1, Stops(i, offset + k)
                 PROVE  FALSE
      OBVIOUS
    <3>1. m \in 0 .. cut /\ k \in 0 .. cut
      BY <2>2, <2>3, <2>5
    <3>2. k \in T
      BY <2>3, <3>1
    <3> QED BY <2>5, <3>1, <3>2
  <2>7. \E c \in 0 .. cut : /\ c = cut \/ Stops(i, offset + c)
                            /\ \A k \in 0 .. c - 1 : ~ Stops(i, offset + k)
    BY <2>3, <2>5, <2>6
  <2>8. PICK count : count = BytesRead(i, offset, n)
    OBVIOUS
  <2>9. count = CHOOSE c \in 0 .. cut :
                  /\ c = cut \/ Stops(i, offset + c)
                  /\ \A k \in 0 .. c - 1 : ~ Stops(i, offset + k)
    BY <1>1, <1>3, <2>1, <2>8 DEF BytesRead
  <2>10. /\ count \in 0 .. cut
         /\ count = cut \/ Stops(i, offset + count)
         /\ \A k \in 0 .. count - 1 : ~ Stops(i, offset + k)
    BY <2>7, <2>9, Zenon
  <2>11. offset + count <= len + 1
    <3>1. CASE count = 0
      BY <1>1, <1>3, <3>1
    <3>2. CASE count # 0
      <4>1. count - 1 \in 0 .. count - 1
        BY <2>2, <2>10, <3>2
      <4>2. ~ Stops(i, offset + (count - 1))
        BY <2>10, <4>1
      <4>3. ~ (offset + (count - 1) > len)
        BY <1>1, <4>2 DEF Stops
      <4> QED BY <1>1, <2>2, <2>10, <4>3
    <3> QED BY <3>1, <3>2
  <2>12. count = 0 => \/ offset >= len
                      \/ INODES[i].blocks[offset \div BLOCK_SIZE] >= NUM_DATA_BLOCK
    <3> SUFFICES ASSUME count = 0, cut # 0
                 PROVE  \/ offset >= len
                        \/ INODES[i].blocks[offset \div BLOCK_SIZE] >= NUM_DATA_BLOCK
      BY <2>2
    <3>1. Stops(i, offset + 0) /\ offset + 0 = offset
      BY <2>10
    <3> QED BY <1>1, <3>1 DEF Stops
  <2>13. count \in Nat /\ count < WORD
    BY <2>2, <2>10, Words
  <2>14. count <= n
    <3>1. CASE cut = n
      BY <2>10, <3>1, Words
    <3>2. CASE cut # n
      <4>1. (offset + n) % WORD > len
        BY <1>1, <2>1, <3>2 DEF Cut
      <4>2. (offset + n) % WORD <= offset + n
        <5>1. offset + n \in Nat /\ WORD \in Nat /\ WORD > 0
          BY Words
        <5> QED BY <5>1, Remainder
      <4>3. (offset + n) % WORD \in Nat /\ n \in Nat
        BY Words
      <4> QED BY <1>1, <2>11, <2>13, <4>1, <4>2, <4>3
    <3> QED BY <3>1, <3>2
  <2> QED BY <1>1, <2>8, <2>11, <2>12, <2>13, <2>14
<1> QED BY <1>1, <1>2, <1>3

(* The bytes delivered so far and the next ones, read from where the        *)
(* position stands, are the bytes up to the new position.                   *)
LEMMA BytesInOrder ==
  ASSUME NEW i \in DOMAIN INODES, NEW pos \in Nat, NEW count \in Nat
  PROVE  /\ [k \in 1 .. pos |-> ByteAt(i, k - 1)] \in Seq(Pieces)
         /\ [k \in 1 .. pos |-> ByteAt(i, k - 1)]
              \o [k \in 1 .. count |-> ByteAt(i, pos + k - 1)]
            = [k \in 1 .. pos + count |-> ByteAt(i, k - 1)]
<1>1. \A p \in Nat : ByteAt(i, p) \in Pieces
  BY DEF Pieces
<1>2. PICK b : b = [p \in Nat |-> ByteAt(i, p)]
  OBVIOUS
<1>3. /\ \A m \in Nat : [k \in 1 .. m |-> ByteAt(i, k - 1)]
                         = [k \in 1 .. m |-> b[k - 1]]
      /\ [k \in 1 .. count |-> ByteAt(i, pos + k - 1)]
           = [k \in 1 .. count |-> b[pos + k - 1]]
  BY <1>2
<1>4. \A p \in Nat : b[p] \in Pieces
  BY <1>1, <1>2
<1>5. PICK s1 : s1 = [k \in 1 .. pos |-> b[k - 1]]
  OBVIOUS
<1>6. PICK s2 : s2 = [k \in 1 .. count |-> b[pos + k - 1]]
  OBVIOUS
<1>7. PICK s3 : s3 = [k \in 1 .. pos + count |-> b[k - 1]]
  OBVIOUS
<1>8. s1 \in Seq(Pieces) /\ Len(s1) = pos
  BY <1>4, <1>5
<1>9. s2 \in Seq(Pieces) /\ Len(s2) = count
  BY <1>4, <1>6
<1>10. s3 \in Seq(Pieces) /\ Len(s3) = pos + count
  BY <1>4, <1>7
<1>11. s1 \o s2 = s3
  <2>1. /\ s1 \o s2 \in Seq(Pieces)
        /\ Len(s1 \o s2) = pos + count
        /\ \A k \in 1 .. pos + count :
             (s1 \o s2)[k] = IF k <= pos THEN s1[k] ELSE s2[k - pos]
    BY <1>8, <1>9, ConcatProperties
  <2>2. ASSUME NEW k \in 1 .. pos + count
        PROVE  (s1 \o s2)[k] = s3[k]
    <3>1. s3[k] = b[k - 1]
      BY <1>7
    <3>2. CASE k <= pos
      BY <1>5, <2>1, <3>1, <3>2
    <3>3. CASE k > pos
      <4>1. k - pos \in 1 .. count /\ pos + (k - pos) - 1 = k - 1
        BY <3>3
      <4>2. s2[k - pos] = b[k - 1]
        BY <1>6, <4>1
      <4> QED BY <2>1, <3>1, <3>3, <4>2
    <3>4. k <= pos \/ k > pos
      OBVIOUS
    <3> QED BY <3>2, <3>3, <3>4
  <2> QED BY <1>10, <2>1, <2>2, SeqEqual
<1>12. /\ [k \in 1 .. pos |-> ByteAt(i, k - 1)] = s1
       /\ [k \in 1 .. pos + count |-> ByteAt(i, k - 1)] = s3
       /\ [k \in 1 .. count |-> ByteAt(i, pos + k - 1)] = s2
  <2>1. pos + count \in Nat
    OBVIOUS
  <2> QED BY <1>3, <1>5, <1>6, <1>7, <2>1, Zenon
<1> QED BY <1>8, <1>11, <1>12, Zenon
-----------------------------------------------------------------------------
(* The place where the name of a command that is executed ends: the first   *)
(* one, of a space, or the second.                                          *)
NameEnd(c) == NameLength(c) + 1

LEMMA CommandName ==
  ASSUME NEW c \in COMMANDS, Executable(c)
  PROVE  /\ c \in Seq(STRING) /\ Len(c) = BUFFASIZE /\ BUFFASIZE \in Nat
         /\ NameEnd(c) \in {1, 2} /\ NameEnd(c) <= BUFFASIZE
         /\ c[NameEnd(c)] \in {Space, Nul} /\ c[1] # Nul
         /\ NameEnd(c) = 2 => c[1] # Space
<1>1. c \in Seq(STRING) /\ Len(c) = BUFFASIZE /\ BUFFASIZE \in Nat
  BY CommandAssumption, LenProperties
<1>2. PICK I : I = {i \in 1 .. Len(c) : EndsName(c[i])}
  OBVIOUS
<1>3. NameLength(c) \in {0, 1} /\ c[1] # Nul
  BY DEF Executable, Named
<1>4. NameLength(c) = (IF I # {} THEN Min(I) ELSE 0) - 1
  BY <1>2 DEF NameLength, SelectInSeq
<1>5. I # {} /\ I \subseteq Nat
  BY <1>2, <1>3, <1>4
<1>6. \E x \in I : \A y \in I : x =< y
  BY <1>5, Least
<1>7. PICK m : m = Min(I)
  OBVIOUS
<1>8. m \in I /\ \A y \in I : m <= y
  BY <1>6, <1>7, Zenon DEF Min
<1>9. m = NameEnd(c) /\ m \in {1, 2}
  <2>1. NameLength(c) = m - 1 /\ m \in Nat
    BY <1>4, <1>5, <1>7, <1>8
  <2> QED BY <1>3, <2>1 DEF NameEnd
<1>10. m <= BUFFASIZE /\ EndsName(c[m])
  BY <1>1, <1>2, <1>8
<1>11. m = 2 => ~ EndsName(c[1])
  BY <1>1, <1>2, <1>8, <1>10
<1> QED BY <1>1, <1>3, <1>9, <1>10, <1>11 DEF EndsName

(* The loop that stores the argument stops, at the end of the command or of *)
(* the buffer.                                                              *)
LEMMA ArgumentEnds ==
  ASSUME NEW c \in COMMANDS, Executable(c), NEW m, m = NameEnd(c)
  PROVE  /\ ArgumentEnd(c) \in m .. BUFFASIZE
         /\ ArgumentEnd(c) = BUFFASIZE \/ c[ArgumentEnd(c) + 1] = Nul
         /\ \A j \in m .. ArgumentEnd(c) - 1 : c[j + 1] # Nul
<1>1. BUFFASIZE \in Nat /\ m \in Nat /\ m <= BUFFASIZE
  BY CommandName
<1>2. PICK T : T = {i \in m .. BUFFASIZE : i = BUFFASIZE \/ c[i + 1] = Nul}
  OBVIOUS
<1>3. T \subseteq Nat /\ BUFFASIZE \in T
  BY <1>1, <1>2
<1>4. PICK e \in T : \A k \in T : e <= k
  BY <1>3, Least
<1>5. \A j \in m .. e - 1 : c[j + 1] # Nul
  <2> SUFFICES ASSUME NEW j \in m .. e - 1, c[j + 1] = Nul PROVE FALSE
    OBVIOUS
  <2>1. e \in m .. BUFFASIZE /\ j \in m .. BUFFASIZE
    BY <1>1, <1>2, <1>4
  <2>2. j \in T
    BY <1>2, <2>1
  <2> QED BY <1>1, <1>4, <2>1, <2>2
<1>6. \E i \in m .. BUFFASIZE : /\ i = BUFFASIZE \/ c[i + 1] = Nul
                                /\ \A j \in m .. i - 1 : c[j + 1] # Nul
  BY <1>2, <1>4, <1>5
<1>7. ArgumentEnd(c) = CHOOSE i \in m .. BUFFASIZE :
        /\ i = BUFFASIZE \/ c[i + 1] = Nul
        /\ \A j \in m .. i - 1 : c[j + 1] # Nul
  BY Zenon DEF ArgumentEnd, NameEnd
<1> QED BY <1>6, <1>7, Zenon

(* What execute stores of a command does not depend on what was there.      *)
LEMMA StoredArgsOK ==
  ASSUME NEW c \in COMMANDS, Executable(c), NEW before, NEW m, m = NameEnd(c)
  PROVE  /\ StoredArgs(c, before) \in [0 .. BUFFASIZE - 1 -> Characters]
         /\ StoredArgs(c, StoredArgs(c, before)) = StoredArgs(c, before)
         /\ \A k \in 0 .. BUFFASIZE - 1 : StoredArgs(c, before)[k] =
              IF m + k < ArgumentEnd(c) THEN c[m + 1 + k] ELSE Nul
<1>1. /\ c \in Seq(STRING) /\ Len(c) = BUFFASIZE /\ BUFFASIZE \in Nat
      /\ NameLength(c) = m - 1 /\ m \in {1, 2} /\ ArgumentEnd(c) \in m .. BUFFASIZE
  <2>1. NameLength(c) \in {0, 1}
    BY DEF Executable, Named
  <2> QED BY <2>1, CommandName, ArgumentEnds DEF NameEnd
<1>2. StoredArgs(c, StoredArgs(c, before)) = StoredArgs(c, before)
  BY Zenon DEF StoredArgs
<1>3. \A k \in 0 .. BUFFASIZE - 1 : StoredArgs(c, before)[k] =
        IF m + k < ArgumentEnd(c) THEN c[m + 1 + k] ELSE Nul
  BY <1>1 DEF StoredArgs
<1>4. \A k \in 0 .. BUFFASIZE - 1 : StoredArgs(c, before)[k] \in Characters
  <2> SUFFICES ASSUME NEW k \in 0 .. BUFFASIZE - 1
               PROVE  StoredArgs(c, before)[k] \in Characters
    OBVIOUS
  <2>1. CASE m + k < ArgumentEnd(c)
    <3>1. m + 1 + k \in 1 .. BUFFASIZE
      BY <1>1, <2>1
    <3> QED BY <1>3, <2>1, <3>1 DEF Characters
  <2>2. CASE ~ (m + k < ArgumentEnd(c))
    BY <1>3, <2>2 DEF Characters
  <2> QED BY <2>1, <2>2
<1>5. StoredArgs(c, before)
        = [k \in 0 .. BUFFASIZE - 1 |-> StoredArgs(c, before)[k]]
  BY DEF StoredArgs
<1> QED BY <1>2, <1>3, <1>4, <1>5
-----------------------------------------------------------------------------
LEMMA InitIInv == Init => IInv
<1> SUFFICES ASSUME Init PROVE IInv
  OBVIOUS
<1>1. \A fd \in FDS : DescOK(fd)
  BY FreshOK DEF Init, DescOK
<1>2. PICK c \in COMMANDS :
        /\ Executable(c) /\ command = c
        /\ args = StoredArgs(c, [k \in 0 .. BUFFASIZE - 1 |-> Nul])
  BY DEF Init
<1>3. args \in [0 .. BUFFASIZE - 1 -> Characters] /\ args = StoredArgs(c, args)
  BY <1>2, StoredArgsOK
<1>4. result.call = "none" /\ result.fd = 0 /\ result.value = 0
  BY DEF Init, Returned
<1>5. Shape
  <2>1. /\ file_desc = Fresh /\ opened = [fd \in FDS |-> NULL]
        /\ got = [fd \in FDS |-> <<>>]
    BY DEF Init
  <2>2. <<>> \in Seq(Pieces)
    BY EmptySeq
  <2>3. /\ file_desc \in [FDS -> Desc]
        /\ got \in [FDS -> Seq(Pieces)]
        /\ opened \in [FDS -> Names \cup {NULL}]
    BY <2>1, <2>2, FreshOK
  <2>4. result.fd \in -1 .. FOPS_NUM /\ result.value \in -1 .. WORD - 1
    BY <1>4, FopsAssumption, WordAssumption
  <2>5. command \in COMMANDS /\ args \in [0 .. BUFFASIZE - 1 -> Characters]
    BY <1>2, <1>3
  <2> QED BY <2>3, <2>4, <2>5 DEF Shape
<1> QED BY <1>1, <1>2, <1>3, <1>4, <1>5 DEF IInv, ArgsOK

(* A call that changes nothing but the result keeps the invariant.          *)
LEMMA ResultStep ==
  ASSUME IInv, UNCHANGED <<file_desc, args, command, opened, got>>,
         result'.fd \in -1 .. FOPS_NUM, result'.value \in -1 .. WORD - 1,
         result'.call = "getargs" =>
           result'.value = IF result'.asked = 0 \/ args[0] \in {Nul, Percent}
                           THEN -1 ELSE 0
  PROVE  IInv'
<1>1. Shape'
  BY DEF IInv, Shape
<1>2. \A fd \in FDS : DescOK(fd)'
  BY DEF IInv, DescOK
<1>3. ArgsOK'
  <2>1. Executable(command)' /\ args' = StoredArgs(command, args)'
    BY DEF IInv, ArgsOK
  <2> QED BY <2>1 DEF ArgsOK
<1> QED BY <1>1, <1>2, <1>3 DEF IInv

(* A program that starts finds the same as the first one.                   *)
LEMMA NextProgramStep ==
  ASSUME IInv, NEW c \in COMMANDS, NextProgram(c)
  PROVE  IInv'
<1>1. /\ file_desc' = Fresh /\ opened' = [fd \in FDS |-> NULL]
      /\ got' = [fd \in FDS |-> <<>>]
      /\ Executable(c) /\ command' = c /\ args' = StoredArgs(c, args)
      /\ result'.call = "none" /\ result'.fd = 0 /\ result'.value = 0
  BY DEF NextProgram, Returned
<1>2. /\ file_desc' \in [FDS -> Desc]
      /\ got' \in [FDS -> Seq(Pieces)]
      /\ opened' \in [FDS -> Names \cup {NULL}]
      /\ \A fd \in FDS : DescOK(fd)'
  <2>1. <<>> \in Seq(Pieces)
    BY EmptySeq
  <2>2. \A fd \in FDS : DescOK(fd)'
    BY <1>1, FreshOK DEF DescOK
  <2> QED BY <1>1, <2>1, <2>2, FreshOK
<1>3. args' \in [0 .. BUFFASIZE - 1 -> Characters]
      /\ args' = StoredArgs(command', args')
  BY <1>1, StoredArgsOK
<1>4. Shape'
  BY <1>1, <1>2, <1>3, FopsAssumption, WordAssumption DEF Shape
<1> QED BY <1>1, <1>2, <1>3, <1>4 DEF IInv, ArgsOK

(* A call that changes one descriptor leaves the others as they are.        *)
LEMMA OneDescriptor ==
  ASSUME IInv, NEW fd \in FDS, UNCHANGED <<args, command>>,
         NEW d \in Desc, file_desc' = [file_desc EXCEPT ![fd] = d],
         NEW s \in Seq(Pieces), got' = [got EXCEPT ![fd] = s],
         NEW name \in Names \cup {NULL}, opened' = [opened EXCEPT ![fd] = name],
         result'.fd \in -1 .. FOPS_NUM, result'.value \in -1 .. WORD - 1,
         result'.call # "getargs",
         DescOK(fd)'
  PROVE  IInv'
<1>1. Shape'
  BY DEF IInv, Shape
<1>2. ASSUME NEW e \in FDS PROVE DescOK(e)'
  <2>1. CASE e = fd
    BY <2>1
  <2>2. CASE e # fd
    <3>1. file_desc'[e] = file_desc[e] /\ got'[e] = got[e] /\ opened'[e] = opened[e]
      BY <2>2 DEF IInv, Shape
    <3> QED BY <3>1 DEF IInv, DescOK
  <2> QED BY <2>1, <2>2
<1>3. ArgsOK'
  BY DEF IInv, ArgsOK
<1> QED BY <1>1, <1>2, <1>3 DEF IInv

(* open takes a free descriptor, or writes past the array.                  *)
LEMMA OpenStep ==
  ASSUME IInv, NEW name, OpenSucceeds(name)
  PROVE  IInv'
<1>1. PICK fd \in Scanned \ {NULL} :
        /\ result' = Returned("open", 0, 0, fd)
        /\ IF fd \in FDS
           THEN /\ file_desc' = [file_desc EXCEPT ![fd] = Descriptor(Entry(name))]
                /\ opened' = [opened EXCEPT ![fd] = name]
                /\ got' = [got EXCEPT ![fd] = <<>>]
           ELSE UNCHANGED <<file_desc, opened, got>>
  BY DEF OpenSucceeds
<1>2. Openable(name) /\ UNCHANGED <<args, command>> /\ name \in Names
  BY DEF OpenSucceeds, Openable
<1>3. fd = FOPS_NUM \/ (fd \in FDS /\ fd >= FIRST_FDENTRY /\ ~ InUse(fd))
  BY <1>1, ScannedOK
<1>4. /\ result'.fd = 0 /\ result'.value = fd /\ result'.call = "open"
      /\ result'.fd \in -1 .. FOPS_NUM /\ result'.value \in -1 .. WORD - 1
  BY <1>1, <1>3, FopsAssumption, WordAssumption DEF Returned, FDS
<1>5. CASE fd \notin FDS
  BY <1>1, <1>2, <1>4, <1>5, ResultStep
<1>6. CASE fd \in FDS
  <2>1. PICK d : d = Descriptor(Entry(name))
    OBVIOUS
  <2>2. /\ d \in Desc /\ d.file_pos = 0 /\ d.flags = 1
        /\ d.fops_ptr = "fs" => d.inode_ptr \in DOMAIN INODES
    BY <1>2, <2>1, DescriptorOK
  <2>3. fd >= FIRST_FDENTRY /\ fd # FOPS_NUM
    BY <1>3, <1>6, FopsAssumption DEF FDS
  <2>4. file_desc'[fd] = d /\ opened'[fd] = name /\ got'[fd] = <<>>
    BY <1>1, <1>6, <2>1 DEF IInv, Shape
  <2>5. [d EXCEPT !.file_pos = 0] = d
    BY <2>2 DEF Desc
  <2>6. name # NULL
    BY <1>2 DEF Names
  <2>7. DescOK(fd)'
    <3>1. fd # 0 /\ fd # 1
      BY <2>3 DEF FIRST_FDENTRY
    <3>2. d.fops_ptr = "fs" =>
            /\ d.file_pos <= INODES[d.inode_ptr].length + 1
            /\ <<>> = [k \in 1 .. d.file_pos |-> ByteAt(d.inode_ptr, k - 1)]
      BY <2>2, Words
    <3>3. Len(<<>>) = d.file_pos
      BY <2>2
    <3>4. opened'[fd] # NULL =>
            /\ fd >= FIRST_FDENTRY /\ Openable(opened'[fd])
            /\ file_desc'[fd] = [Descriptor(Entry(opened'[fd])) EXCEPT
                                   !.file_pos = file_desc'[fd].file_pos]
      BY <1>2, <2>1, <2>2, <2>3, <2>4, <2>5
    <3>5. d.fops_ptr = "dir" =>
            /\ Len(got'[fd]) = d.file_pos
            /\ \A k \in 1 .. Len(got'[fd]) :
                 got'[fd][k] \in {DIRECTORY[k - 1].name, NULL}
      BY <2>2, <2>4, <3>3
    <3> QED BY <2>2, <2>4, <2>6, <3>1, <3>2, <3>4, <3>5 DEF DescOK
  <2>8. <<>> \in Seq(Pieces)
    BY EmptySeq
  <2> QED BY <1>1, <1>2, <1>4, <1>6, <2>1, <2>2, <2>7, <2>8, OneDescriptor
<1> QED BY <1>5, <1>6

(* close leaves a descriptor closed.                                        *)
LEMMA CloseStep ==
  ASSUME IInv, NEW fd, CloseSucceeds(fd)
  PROVE  IInv'
<1>1. /\ fd \in FDS /\ fd >= FIRST_FDENTRY
      /\ file_desc' = [file_desc EXCEPT ![fd] = Closed]
      /\ opened' = [opened EXCEPT ![fd] = NULL]
      /\ got' = [got EXCEPT ![fd] = <<>>]
      /\ UNCHANGED <<args, command>>
      /\ result'.fd = 0 /\ result'.value = 0 /\ result'.call = "close"
  BY FopsAssumption DEF CloseSucceeds, Closable, Returned, FDS, FIRST_FDENTRY
<1>2. <<>> \in Seq(Pieces)
  BY EmptySeq
<1>3. Closed \in Desc /\ Closed.fops_ptr \notin {"fs", "dir"}
  BY NullAssumption DEF Closed, Desc, FopsPtrs
<1>4. file_desc'[fd] = Closed /\ opened'[fd] = NULL
  BY <1>1 DEF IInv, Shape
<1>5. DescOK(fd)'
  BY <1>1, <1>3, <1>4 DEF DescOK, FIRST_FDENTRY
<1>6. result'.fd \in -1 .. FOPS_NUM /\ result'.value \in -1 .. WORD - 1
  BY <1>1, FopsAssumption, WordAssumption
<1> QED BY <1>1, <1>2, <1>3, <1>5, <1>6, OneDescriptor

(* Where a descriptor's file is.                                            *)
LEMMA FileOK ==
  ASSUME IInv, NEW fd \in FDS, file_desc[fd].fops_ptr = "fs"
  PROVE  /\ file_desc[fd] \in Desc /\ got[fd] \in Seq(Pieces)
         /\ file_desc[fd].inode_ptr \in DOMAIN INODES
         /\ file_desc[fd].file_pos \in Nat
         /\ file_desc[fd].file_pos
              <= INODES[file_desc[fd].inode_ptr].length + 1
         /\ got[fd] = [k \in 1 .. file_desc[fd].file_pos |->
                         ByteAt(file_desc[fd].inode_ptr, k - 1)]
<1>1. file_desc[fd] \in Desc /\ got[fd] \in Seq(Pieces)
  BY DEF IInv, Shape
<1>2. file_desc[fd].file_pos \in Nat
  BY <1>1 DEF Desc
<1> QED BY <1>1, <1>2 DEF IInv, DescOK

(* What changing only the position of a descriptor leaves.                  *)
LEMMA MovedOK ==
  ASSUME IInv, NEW fd \in FDS, NEW pos \in Nat, NEW d,
         d = [file_desc[fd] EXCEPT !.file_pos = pos],
         file_desc[fd].fops_ptr \in {"fs", "dir"}
  PROVE  /\ d \in Desc /\ d.file_pos = pos
         /\ d.fops_ptr = file_desc[fd].fops_ptr
         /\ d.inode_ptr = file_desc[fd].inode_ptr
         /\ fd # 0 /\ fd # 1
         /\ fd >= FIRST_FDENTRY => opened[fd] # NULL
         /\ opened[fd] # NULL =>
              /\ fd >= FIRST_FDENTRY /\ Openable(opened[fd])
              /\ d = [Descriptor(Entry(opened[fd])) EXCEPT !.file_pos = d.file_pos]
<1>1. file_desc[fd] \in Desc
  BY DEF IInv, Shape
<1>2. /\ d \in Desc /\ d.file_pos = pos
      /\ d.fops_ptr = file_desc[fd].fops_ptr
      /\ d.inode_ptr = file_desc[fd].inode_ptr
  BY <1>1 DEF Desc
<1>3. DescOK(fd)
  BY DEF IInv
<1>4. fd # 0 /\ fd # 1
  BY <1>3 DEF DescOK
<1>5. fd >= FIRST_FDENTRY => opened[fd] # NULL
  <2>1. Closed.fops_ptr \notin {"fs", "dir"}
    BY NullAssumption DEF Closed
  <2> QED BY <1>3, <2>1 DEF DescOK
<1>6. ASSUME opened[fd] # NULL
      PROVE  /\ fd >= FIRST_FDENTRY /\ Openable(opened[fd])
             /\ d = [Descriptor(Entry(opened[fd])) EXCEPT !.file_pos = d.file_pos]
  <2>1. PICK e : e = Descriptor(Entry(opened[fd]))
    OBVIOUS
  <2>2. /\ fd >= FIRST_FDENTRY /\ Openable(opened[fd])
        /\ file_desc[fd] = [e EXCEPT !.file_pos = file_desc[fd].file_pos]
    BY <1>3, <1>6, <2>1 DEF DescOK
  <2>3. e \in Desc
    BY <2>1, <2>2, DescriptorOK
  <2>4. \A p \in Nat : [[e EXCEPT !.file_pos = p] EXCEPT !.file_pos = pos]
                         = [e EXCEPT !.file_pos = pos]
    BY <2>3 DEF Desc
  <2>5. file_desc[fd].file_pos \in Nat
    BY <1>1 DEF Desc
  <2>6. d = [[e EXCEPT !.file_pos = file_desc[fd].file_pos] EXCEPT !.file_pos = pos]
    BY <2>2
  <2> QED BY <1>2, <2>1, <2>2, <2>4, <2>5, <2>6
<1> QED BY <1>2, <1>4, <1>5, <1>6

(* fs_read delivers the next bytes of the file.                             *)
LEMMA FsReadStep ==
  ASSUME IInv, NEW fd \in FDS, NEW n \in NBYTES, FsRead(fd, n),
         UNCHANGED <<args, command, opened>>
  PROVE  IInv'
<1>1. PICK i : i = file_desc[fd].inode_ptr
  OBVIOUS
<1>2. PICK pos : pos = file_desc[fd].file_pos
  OBVIOUS
<1>3. PICK count : count = BytesRead(i, pos, n)
  OBVIOUS
<1>4. /\ file_desc[fd].fops_ptr = "fs" /\ n # 0
      /\ result' = Returned("read", fd, n, count)
      /\ got' = [got EXCEPT ![fd] =
                   @ \o [k \in 1 .. count |-> ByteAt(i, pos + k - 1)]]
      /\ file_desc' = [file_desc EXCEPT ![fd].file_pos = @ + count]
  BY <1>1, <1>2, <1>3 DEF FsRead
<1>5. /\ i \in DOMAIN INODES /\ pos \in Nat /\ pos <= INODES[i].length + 1
      /\ got[fd] = [k \in 1 .. pos |-> ByteAt(i, k - 1)]
  BY <1>1, <1>2, <1>4, FileOK
<1>6. count \in Nat /\ count < WORD /\ pos + count <= INODES[i].length + 1
  BY <1>3, <1>4, <1>5, BytesReadOK
<1>7. PICK d : d = [file_desc[fd] EXCEPT !.file_pos = pos + count]
  OBVIOUS
<1>8. file_desc' = [file_desc EXCEPT ![fd] = d]
  BY <1>2, <1>4, <1>7
<1>9. PICK s : s = [k \in 1 .. pos + count |-> ByteAt(i, k - 1)]
  OBVIOUS
<1>10. got' = [got EXCEPT ![fd] = s] /\ s \in Seq(Pieces)
  <2>1. got[fd] \o [k \in 1 .. count |-> ByteAt(i, pos + k - 1)] = s
    BY <1>5, <1>6, <1>9, BytesInOrder
  <2>2. s \in Seq(Pieces)
    <3>1. pos + count \in Nat
      BY <1>5, <1>6
    <3> QED BY <1>5, <1>9, <3>1, BytesInOrder
  <2>3. got' = [got EXCEPT ![fd] =
                  got[fd] \o [k \in 1 .. count |-> ByteAt(i, pos + k - 1)]]
    BY <1>4
  <2> QED BY <2>1, <2>2, <2>3, Zenon
<1>11. pos + count \in Nat /\ file_desc[fd].fops_ptr \in {"fs", "dir"}
  BY <1>4, <1>5, <1>6
<1>12. /\ d \in Desc /\ d.file_pos = pos + count
       /\ d.fops_ptr = "fs" /\ d.inode_ptr = i
       /\ fd # 0 /\ fd # 1
       /\ fd >= FIRST_FDENTRY => opened[fd] # NULL
       /\ opened[fd] # NULL =>
            /\ fd >= FIRST_FDENTRY /\ Openable(opened[fd])
            /\ d = [Descriptor(Entry(opened[fd])) EXCEPT !.file_pos = d.file_pos]
  BY <1>1, <1>4, <1>7, <1>11, MovedOK
<1>13. file_desc'[fd] = d /\ got'[fd] = s /\ opened'[fd] = opened[fd]
       /\ opened' = [opened EXCEPT ![fd] = opened[fd]]
       /\ opened[fd] \in Names \cup {NULL}
  BY <1>8, <1>10 DEF IInv, Shape
<1>14. DescOK(fd)'
  <2>1. "fs" # "dir"
    OBVIOUS
  <2>2. s = [k \in 1 .. d.file_pos |-> ByteAt(d.inode_ptr, k - 1)]
    BY <1>9, <1>12
  <2> QED BY <1>5, <1>6, <1>12, <1>13, <2>1, <2>2 DEF DescOK
<1>15. /\ result'.fd \in -1 .. FOPS_NUM /\ result'.value \in -1 .. WORD - 1
       /\ result'.call # "getargs"
  <2>1. result'.fd = fd /\ result'.value = count /\ result'.call = "read"
    BY <1>4 DEF Returned
  <2> QED BY <1>6, <2>1, FopsAssumption, WordAssumption DEF FDS
<1> QED BY <1>8, <1>10, <1>12, <1>13, <1>14, <1>15, OneDescriptor

(* What dir_read returns of an entry: no more than was asked, and nothing   *)
(* only if nothing was.                                                     *)
LEMMA EntryRead ==
  ASSUME NEW pos \in Nat, ~ (pos > NUM_INODES \/ DIRECTORY[pos].name = NULL),
         NEW n \in Nat, NEW value, value = Min({n, DIRECTORY[pos].length})
  PROVE  value \in Nat /\ value <= n /\ (value = 0 => n = 0)
<1>1. NUM_INODES \in Nat
  BY ImageAssumption, FS_CardinalityType DEF NUM_INODES
<1>2. pos \in DOMAIN DIRECTORY
  BY <1>1, DirectoryAssumption
<1>3. DIRECTORY[pos].length \in Nat /\ DIRECTORY[pos].length > 0
  BY <1>2, DirectoryAssumption
<1> QED BY <1>3, MinOfTwo

(* dir_read delivers the next name, or passes over it.                      *)
LEMMA DirReadStep ==
  ASSUME IInv, NEW fd \in FDS, NEW n \in NBYTES, DirRead(fd, n),
         UNCHANGED <<args, command, opened>>
  PROVE  IInv'
<1>1. PICK pos : pos = file_desc[fd].file_pos
  OBVIOUS
<1>2. n \in Nat /\ n < WORD /\ WORD \in Nat
  BY Words
<1>3. CASE pos > NUM_INODES \/ DIRECTORY[pos].name = NULL
  <2>1. /\ result' = Returned("read", fd, n, 0)
        /\ UNCHANGED <<file_desc, got>>
    BY <1>1, <1>3 DEF DirRead
  <2>2. /\ result'.fd \in -1 .. FOPS_NUM /\ result'.value \in -1 .. WORD - 1
        /\ result'.call # "getargs"
    BY <1>2, <2>1, FopsAssumption DEF Returned, FDS
  <2> QED BY <2>1, <2>2, ResultStep
<1>4. CASE ~ (pos > NUM_INODES \/ DIRECTORY[pos].name = NULL)
  <2>1. PICK piece : piece = IF n = 0 THEN NULL ELSE DIRECTORY[pos].name
    OBVIOUS
  <2>0. PICK value : value = Min({n, DIRECTORY[pos].length})
    OBVIOUS
  <2>2. /\ file_desc[fd].fops_ptr = "dir"
        /\ result' = Returned("read", fd, n, value)
        /\ got' = [got EXCEPT ![fd] = Append(@, piece)]
        /\ file_desc' = [file_desc EXCEPT ![fd].file_pos = pos + 1]
    BY <1>1, <1>4, <2>0, <2>1 DEF DirRead
  <2>3. file_desc[fd] \in Desc /\ got[fd] \in Seq(Pieces) /\ pos \in Nat
    BY <1>1 DEF IInv, Shape, Desc
  <2>4. /\ Len(got[fd]) = pos
        /\ \A k \in 1 .. Len(got[fd]) :
             got[fd][k] \in {DIRECTORY[k - 1].name, NULL}
    BY <1>1, <2>2 DEF IInv, DescOK
  <2>5. PICK s : s = Append(got[fd], piece)
    OBVIOUS
  <2>6. piece \in Pieces
    BY <2>1, <2>3 DEF Pieces
  <2>7. /\ s \in Seq(Pieces) /\ Len(s) = pos + 1
        /\ \A k \in 1 .. pos : s[k] = got[fd][k]
        /\ s[pos + 1] = piece
    BY <2>3, <2>4, <2>5, <2>6, AppendProperties
  <2>8. \A k \in 1 .. Len(s) : s[k] \in {DIRECTORY[k - 1].name, NULL}
    <3> SUFFICES ASSUME NEW k \in 1 .. pos + 1
                 PROVE  s[k] \in {DIRECTORY[k - 1].name, NULL}
      BY <2>7
    <3>1. CASE k = pos + 1
      <4>1. k - 1 = pos
        BY <2>3, <3>1
      <4> QED BY <2>1, <2>7, <3>1, <4>1
    <3>2. CASE k # pos + 1
      <4>1. k \in 1 .. pos
        BY <2>3, <3>2
      <4> QED BY <2>4, <2>7, <4>1
    <3> QED BY <3>1, <3>2
  <2>9. PICK d : d = [file_desc[fd] EXCEPT !.file_pos = pos + 1]
    OBVIOUS
  <2>10. file_desc' = [file_desc EXCEPT ![fd] = d] /\ got' = [got EXCEPT ![fd] = s]
    BY <2>2, <2>5, <2>9
  <2>11. pos + 1 \in Nat /\ file_desc[fd].fops_ptr \in {"fs", "dir"}
    BY <2>2, <2>3
  <2>12. /\ d \in Desc /\ d.file_pos = pos + 1
         /\ d.fops_ptr = "dir"
         /\ fd # 0 /\ fd # 1
         /\ fd >= FIRST_FDENTRY => opened[fd] # NULL
         /\ opened[fd] # NULL =>
              /\ fd >= FIRST_FDENTRY /\ Openable(opened[fd])
              /\ d = [Descriptor(Entry(opened[fd])) EXCEPT !.file_pos = d.file_pos]
    BY <2>2, <2>9, <2>11, MovedOK
  <2>13. file_desc'[fd] = d /\ got'[fd] = s /\ opened'[fd] = opened[fd]
         /\ opened' = [opened EXCEPT ![fd] = opened[fd]]
         /\ opened[fd] \in Names \cup {NULL}
    BY <2>10 DEF IInv, Shape
  <2>14. DescOK(fd)'
    BY <2>7, <2>8, <2>12, <2>13 DEF DescOK
  <2>15. /\ result'.fd \in -1 .. FOPS_NUM /\ result'.value \in -1 .. WORD - 1
         /\ result'.call # "getargs"
    <3>1. value \in Nat /\ value <= n
      BY <1>2, <1>4, <2>0, <2>3, EntryRead
    <3> QED BY <1>2, <2>2, <3>1, FopsAssumption DEF Returned, FDS
  <2> QED BY <2>7, <2>10, <2>12, <2>13, <2>14, <2>15, OneDescriptor
<1> QED BY <1>3, <1>4

(* read of whatever the descriptor is.                                      *)
LEMMA ReadStep ==
  ASSUME IInv, NEW fd, NEW n \in NBYTES, Read(fd, n)
  PROVE  IInv'
<1>1. fd \in FDS /\ UNCHANGED <<args, command, opened>>
  BY DEF Read, Readable
<1>2. fd \in -1 .. FOPS_NUM /\ 0 \in -1 .. FOPS_NUM
  BY <1>1, FopsAssumption DEF FDS
<1>3. 0 \in -1 .. WORD - 1 /\ -1 \in -1 .. WORD - 1
  BY FopsAssumption, WordAssumption
<1>4. CASE FsRead(fd, n)
  BY <1>1, <1>4, FsReadStep
<1>5. CASE FsReadNothing(fd, n)
  <2>1. UNCHANGED <<file_desc, got>> /\ result' = Returned("read", 0, n, -1)
    BY <1>5 DEF FsReadNothing
  <2>2. result'.fd = 0 /\ result'.value = -1 /\ result'.call # "getargs"
    BY <2>1 DEF Returned
  <2> QED BY <1>1, <1>2, <1>3, <2>1, <2>2, ResultStep
<1>6. CASE DirRead(fd, n)
  BY <1>1, <1>6, DirReadStep
<1>7. CASE DeviceRead(fd, n)
  <2>1. UNCHANGED <<file_desc, got>> /\ result' = Returned("read", fd, n, 0)
    BY <1>7 DEF DeviceRead
  <2>2. result'.fd = fd /\ result'.value = 0 /\ result'.call # "getargs"
    BY <2>1 DEF Returned
  <2> QED BY <1>1, <1>2, <1>3, <2>1, <2>2, ResultStep
<1> QED BY <1>4, <1>5, <1>6, <1>7 DEF Read

(* Every step keeps the invariant.                                          *)
LEMMA NextIInv == IInv /\ [Next]_vars => IInv'
<1> SUFFICES ASSUME IInv, [Next]_vars PROVE IInv'
  OBVIOUS
<1>1. 0 \in -1 .. FOPS_NUM /\ 0 \in -1 .. WORD - 1 /\ -1 \in -1 .. WORD - 1
  BY FopsAssumption, WordAssumption
<1>2. ASSUME UNCHANGED <<file_desc, args, command, opened, got>>,
             result'.fd = 0, result'.value \in {0, -1}, result'.call # "getargs"
      PROVE  IInv'
  BY <1>1, <1>2, ResultStep
<1>3. ASSUME NEW c \in COMMANDS, NextProgram(c) PROVE IInv'
  BY <1>3, NextProgramStep
<1>4. ASSUME NEW c \in COMMANDS, ExecuteFails(c) PROVE IInv'
  BY <1>2, <1>4 DEF ExecuteFails, Returned
<1>5. ASSUME NEW n \in NBYTES, GetArgs(n) PROVE IInv'
  <2>1. /\ UNCHANGED <<file_desc, args, command, opened, got>>
        /\ result'.fd = 0 /\ result'.asked = n
        /\ result'.value = IF n = 0 \/ args[0] \in {Nul, Percent} THEN -1 ELSE 0
    BY <1>5 DEF GetArgs, Returned
  <2> QED BY <1>1, <2>1, ResultStep
<1>6. ASSUME NEW name, OpenFails(name) PROVE IInv'
  BY <1>2, <1>6 DEF OpenFails, Returned
<1>7. ASSUME NEW name, OpenSucceeds(name) PROVE IInv'
  BY <1>7, OpenStep
<1>8. ASSUME NEW fd, CloseFails(fd) PROVE IInv'
  BY <1>2, <1>8 DEF CloseFails, Returned
<1>9. ASSUME NEW fd, CloseSucceeds(fd) PROVE IInv'
  BY <1>9, CloseStep
<1>10. ASSUME NEW fd, ReadFails(fd) PROVE IInv'
  BY <1>2, <1>10 DEF ReadFails, Returned
<1>11. ASSUME NEW fd, WriteFails(fd) PROVE IInv'
  BY <1>2, <1>11 DEF WriteFails, Returned
<1>12. ASSUME NEW fd, DeviceWrite(fd) PROVE IInv'
  BY <1>2, <1>12 DEF DeviceWrite, Returned
<1>13. ASSUME NEW fd, NEW n \in NBYTES, Read(fd, n) PROVE IInv'
  BY <1>13, ReadStep
<1>14. CASE UNCHANGED vars
  <2>1. UNCHANGED <<file_desc, args, command, result, opened, got>>
    BY <1>14 DEF vars
  <2>2. Shape' /\ ArgsOK' /\ \A fd \in FDS : DescOK(fd)'
    BY <2>1 DEF IInv, Shape, ArgsOK, DescOK
  <2> QED BY <2>2 DEF IInv
<1> QED BY <1>3, <1>4, <1>5, <1>6, <1>7, <1>8, <1>9, <1>10, <1>11, <1>12, <1>13,
           <1>14 DEF Next

(* Descriptors, what was read through them and the argument stay as the     *)
(* calls of one program after the other leave them.                         *)
THEOREM Invariance == Spec => []IInv
<1> QED BY InitIInv, NextIInv, PTL DEF Spec
-----------------------------------------------------------------------------
(* Every descriptor stays within its type, its position at most one past    *)
(* the end of its file, and every call returns a value of its range.        *)
THEOREM TypeCorrect == Spec => []TypeOK
<1>1. IInv => TypeOK
  <2> SUFFICES ASSUME IInv PROVE TypeOK
    OBVIOUS
  <2>1. \A fd \in FDS : file_desc[fd].fops_ptr = "fs" =>
          file_desc[fd].file_pos <= INODES[file_desc[fd].inode_ptr].length + 1
    BY DEF IInv, DescOK
  <2> QED BY <2>1 DEF IInv, Shape, TypeOK, Desc, FopsPtrs
<1> QED BY <1>1, Invariance, PTL

(* A program can use the two descriptors of the terminal and those it       *)
(* opened and did not close, and each means the file it was opened for.     *)
THEOREM OwnFiles == Spec => []OnlyOwnFiles
<1>1. IInv => OnlyOwnFiles
  <2> SUFFICES ASSUME IInv, NEW fd \in FDS
               PROVE  IF fd < FIRST_FDENTRY
                      THEN InUse(fd) /\ file_desc[fd].fops_ptr
                                          = IF fd = 0 THEN "stdin" ELSE "stdout"
                      ELSE IF opened[fd] = NULL
                      THEN ~ InUse(fd)
                      ELSE file_desc[fd] = [Descriptor(Entry(opened[fd])) EXCEPT
                                              !.file_pos = file_desc[fd].file_pos]
    BY DEF OnlyOwnFiles
  <2>1. DescOK(fd)
    BY DEF IInv
  <2>2. fd \in Nat
    BY FopsAssumption DEF FDS
  <2>3. CASE fd < FIRST_FDENTRY
    <3>1. fd = 0 \/ fd = 1
      BY <2>2, <2>3 DEF FIRST_FDENTRY
    <3> QED BY <2>1, <2>3, <3>1 DEF DescOK, InUse
  <2>4. CASE ~ (fd < FIRST_FDENTRY) /\ opened[fd] = NULL
    <3>1. file_desc[fd] = Closed
      BY <2>1, <2>2, <2>4 DEF DescOK, FIRST_FDENTRY
    <3> QED BY <2>4, <3>1 DEF InUse, Closed
  <2>5. CASE ~ (fd < FIRST_FDENTRY) /\ opened[fd] # NULL
    BY <2>1, <2>5 DEF DescOK
  <2> QED BY <2>3, <2>4, <2>5
<1> QED BY <1>1, Invariance, PTL

(* Successive reads deliver a file, or a directory's names, in order from   *)
(* the start, whatever sizes are asked for.                                 *)
THEOREM InOrder == Spec => []ReadsInOrder
<1>1. IInv => ReadsInOrder
  <2> SUFFICES ASSUME IInv, NEW fd \in FDS
               PROVE  LET d == file_desc[fd]
                      IN /\ d.fops_ptr = "fs" =>
                              got[fd] = [k \in 1 .. d.file_pos |->
                                           ByteAt(d.inode_ptr, k - 1)]
                         /\ d.fops_ptr = "dir" =>
                              /\ Len(got[fd]) = d.file_pos
                              /\ \A k \in DOMAIN got[fd] :
                                   got[fd][k] \in {DIRECTORY[k - 1].name, NULL}
    BY DEF ReadsInOrder
  <2>1. DescOK(fd) /\ got[fd] \in Seq(Pieces)
    BY DEF IInv, Shape
  <2>2. DOMAIN got[fd] = 1 .. Len(got[fd])
    BY <2>1, LenProperties
  <2> QED BY <2>1, <2>2 DEF DescOK
<1> QED BY <1>1, Invariance, PTL

(* A descriptor goes on meaning the file it was opened for until it is      *)
(* closed or the program ends: open never takes one in use.                 *)
THEOREM OpenKeepsOthers == Spec => OpenTakesAFreeOne
<1>1. ASSUME IInv, Next, NEW fd \in FDS, opened[fd] # NULL, opened'[fd] # NULL
      PROVE  opened'[fd] = opened[fd]
  <2>1. InUse(fd)
    <3>1. PICK e : e = Descriptor(Entry(opened[fd]))
      OBVIOUS
    <3>2. /\ Openable(opened[fd])
          /\ file_desc[fd] = [e EXCEPT !.file_pos = file_desc[fd].file_pos]
      BY <1>1, <3>1 DEF IInv, DescOK
    <3>3. e \in Desc /\ e.flags = 1
      BY <3>1, <3>2, DescriptorOK
    <3> QED BY <3>2, <3>3 DEF Desc, InUse
  <2>2. opened \in [FDS -> Names \cup {NULL}]
    BY <1>1 DEF IInv, Shape
  <2>3. ASSUME NEW name, OpenSucceeds(name) PROVE opened'[fd] = opened[fd]
    <3>1. PICK e \in Scanned \ {NULL} :
            IF e \in FDS THEN opened' = [opened EXCEPT ![e] = name]
                         ELSE opened' = opened
      BY <2>3 DEF OpenSucceeds
    <3>2. e = FOPS_NUM \/ ~ InUse(e)
      BY <3>1, ScannedOK
    <3>3. FOPS_NUM \notin FDS
      BY FopsAssumption DEF FDS
    <3>4. e = fd => FALSE
      BY <2>1, <3>2, <3>3
    <3> QED BY <2>2, <3>1, <3>4
  <2>4. ASSUME NEW e, CloseSucceeds(e) PROVE opened'[fd] = opened[fd]
    <3>1. opened' = [opened EXCEPT ![e] = NULL]
      BY <2>4 DEF CloseSucceeds
    <3> QED BY <1>1, <2>2, <3>1
  <2>5. ASSUME NEW c, NextProgram(c) PROVE opened'[fd] = opened[fd]
    BY <1>1, <2>5 DEF NextProgram
  <2>6. \/ \E name : OpenSucceeds(name)
        \/ \E e : CloseSucceeds(e)
        \/ \E c : NextProgram(c)
        \/ opened' = opened
    BY <1>1 DEF Next, ExecuteFails, GetArgs, OpenFails, CloseFails, ReadFails,
                WriteFails, DeviceWrite, Read
  <2> QED BY <2>3, <2>4, <2>5, <2>6
<1>2. IInv /\ [Next]_vars =>
        [\A fd \in FDS :
           opened[fd] # NULL /\ opened'[fd] # NULL => opened'[fd] = opened[fd]]_vars
  BY <1>1
<1> QED BY <1>2, Invariance, PTL DEF Spec, OpenTakesAFreeOne

(* A read of at least one byte that returns 0 has the whole file, or every  *)
(* name of the directory, behind it: for every image whose files' blocks    *)
(* are in the image and whose directory has no gaps.                        *)
THEOREM ZeroIsTheEnd ==
  ASSUME FilesInside, DirectoryDense
  PROVE  Spec => []ZeroMeansEnd
<1>1. Init => ZeroMeansEnd
  BY DEF Init, Returned, ZeroMeansEnd
<1> DEFINE
      Told(fd) ==
        /\ file_desc[fd].fops_ptr = "fs" =>
             Len(got[fd]) >= INODES[file_desc[fd].inode_ptr].length
        /\ file_desc[fd].fops_ptr = "dir" => \A i \in DOMAIN DIRECTORY :
             DIRECTORY[i].name # NULL => i + 1 \in DOMAIN got[fd]
<1>2. ASSUME IInv, NEW fd \in FDS, NEW n \in NBYTES, n # 0, FsRead(fd, n),
             BytesRead(file_desc[fd].inode_ptr, file_desc[fd].file_pos, n) = 0
      PROVE  Told(fd)'
  <2>1. PICK i : i = file_desc[fd].inode_ptr
    OBVIOUS
  <2>2. PICK pos : pos = file_desc[fd].file_pos
    OBVIOUS
  <2>3. file_desc[fd].fops_ptr = "fs"
    BY <1>2 DEF FsRead
  <2>4. /\ file_desc[fd] \in Desc /\ got[fd] \in Seq(Pieces)
        /\ i \in DOMAIN INODES /\ pos \in Nat /\ pos <= INODES[i].length + 1
        /\ got[fd] = [k \in 1 .. pos |-> ByteAt(i, k - 1)]
    BY <1>2, <2>1, <2>2, <2>3, FileOK
  <2>5. \/ pos >= INODES[i].length
        \/ INODES[i].blocks[pos \div BLOCK_SIZE] >= NUM_DATA_BLOCK
    BY <1>2, <2>1, <2>2, <2>4, BytesReadOK
  <2>6. INODES[i].length \in Nat
    BY <2>4, Words
  <2>7. pos >= INODES[i].length
    <3> SUFFICES ASSUME ~ (pos >= INODES[i].length) PROVE FALSE
      OBVIOUS
    <3>1. pos \in 0 .. INODES[i].length - 1
      BY <2>4, <2>6
    <3>2. INODES[i].blocks[pos \div BLOCK_SIZE] \in 0 .. NUM_DATA_BLOCK - 1
      BY <2>4, <3>1 DEF FilesInside
    <3> QED BY <2>5, <3>2, ImageAssumption
  <2>8. /\ got' = [got EXCEPT ![fd] =
                     got[fd] \o [k \in 1 .. 0 |-> ByteAt(i, pos + k - 1)]]
        /\ file_desc' = [file_desc EXCEPT ![fd].file_pos = @ + 0]
    BY <1>2, <2>1, <2>2 DEF FsRead
  <2>9. /\ file_desc'[fd].inode_ptr = i /\ file_desc'[fd].fops_ptr = "fs"
    BY <1>2, <2>1, <2>3, <2>4, <2>8 DEF IInv, Shape, Desc
  <2>10. Len(got'[fd]) = pos
    <3>1. 0 \in Nat /\ pos + 0 = pos
      BY <2>4
    <3>2. got[fd] \o [k \in 1 .. 0 |-> ByteAt(i, pos + k - 1)] = got[fd]
      <4>1. [k \in 1 .. pos |-> ByteAt(i, k - 1)]
              \o [k \in 1 .. 0 |-> ByteAt(i, pos + k - 1)]
              = [k \in 1 .. pos + 0 |-> ByteAt(i, k - 1)]
        BY <2>4, <3>1, BytesInOrder
      <4> QED BY <2>4, <3>1, <4>1, Zenon
    <3>3. got'[fd] = got[fd]
      BY <1>2, <2>8, <3>2 DEF IInv, Shape
    <3> QED BY <2>4, <3>3
  <2>11. "fs" # "dir"
    OBVIOUS
  <2> QED BY <2>7, <2>9, <2>10, <2>11
<1>3. ASSUME IInv, NEW fd \in FDS, NEW n \in NBYTES, n # 0, DirRead(fd, n),
             result'.value = 0
      PROVE  Told(fd)'
  <2>1. PICK pos : pos = file_desc[fd].file_pos
    OBVIOUS
  <2>2. file_desc[fd].fops_ptr = "dir"
    BY <1>3 DEF DirRead
  <2>3. pos > NUM_INODES \/ DIRECTORY[pos].name = NULL
    <3> SUFFICES ASSUME ~ (pos > NUM_INODES \/ DIRECTORY[pos].name = NULL)
                 PROVE  FALSE
      OBVIOUS
    <3>1. result'.value = Min({n, DIRECTORY[pos].length})
      BY <1>3, <2>1 DEF DirRead, Returned
    <3>2. pos \in Nat /\ n \in Nat
      BY <1>3, <2>1, Words DEF IInv, Shape, Desc
    <3> QED BY <1>3, <3>1, <3>2, EntryRead
  <2>4. UNCHANGED <<file_desc, got>>
    BY <1>3, <2>1, <2>3 DEF DirRead
  <2>5. /\ got[fd] \in Seq(Pieces) /\ pos \in Nat /\ Len(got[fd]) = pos
    BY <1>3, <2>1, <2>2 DEF IInv, Shape, Desc, DescOK
  <2>6. NUM_INODES \in Nat
    BY ImageAssumption, FS_CardinalityType DEF NUM_INODES
  <2>7. ASSUME NEW i \in DOMAIN DIRECTORY, DIRECTORY[i].name # NULL
        PROVE  i + 1 \in DOMAIN got[fd]
    <3>1. /\ i \in Nat /\ i <= NUM_INODES
          /\ \A j \in 0 .. i : DIRECTORY[j].name # NULL
      BY <2>7 DEF DirectoryDense
    <3>2. pos > i
      <4>1. pos <= i => pos \in 0 .. i
        BY <2>5, <3>1
      <4> QED BY <2>3, <2>5, <2>6, <3>1, <4>1
    <3>3. DOMAIN got[fd] = 1 .. pos
      BY <2>5, LenProperties
    <3> QED BY <2>5, <3>1, <3>2, <3>3
  <2> QED BY <2>2, <2>4, <2>7
<1>4. ASSUME IInv, Next PROVE ZeroMeansEnd'
  <2> SUFFICES ASSUME NEW asked, asked = result'.fd, result'.call = "read",
                      result'.value = 0, result'.asked # 0
               PROVE  Told(asked)'
    BY DEF ZeroMeansEnd
  <2>1. PICK n \in NBYTES : \E fd : Read(fd, n)
    BY <1>4 DEF Next, NextProgram, ExecuteFails, GetArgs, OpenFails, OpenSucceeds,
                CloseFails, CloseSucceeds, ReadFails, WriteFails, DeviceWrite, Returned
  <2>2. PICK fd : Read(fd, n) /\ fd \in FDS
    BY <2>1 DEF Read, Readable
  <2>3. CASE FsRead(fd, n)
    <3>1. /\ n # 0 /\ result'.fd = fd
          /\ result'.value
               = BytesRead(file_desc[fd].inode_ptr, file_desc[fd].file_pos, n)
      BY <2>3 DEF FsRead, Returned
    <3> QED BY <1>2, <1>4, <2>2, <2>3, <3>1
  <2>4. CASE FsReadNothing(fd, n)
    BY <2>4 DEF FsReadNothing, Returned
  <2>5. CASE DirRead(fd, n)
    <3>1. n # 0 /\ result'.fd = fd
      BY <2>5 DEF DirRead, Returned
    <3> QED BY <1>3, <1>4, <2>2, <2>5, <3>1
  <2>6. CASE DeviceRead(fd, n)
    <3>1. /\ file_desc'[fd].fops_ptr \notin {"fs", "dir"} /\ result'.fd = fd
      BY <2>6 DEF DeviceRead, Returned
    <3> QED BY <3>1
  <2> QED BY <2>2, <2>3, <2>4, <2>5, <2>6 DEF Read
<1>5. ZeroMeansEnd /\ UNCHANGED vars => ZeroMeansEnd'
  BY DEF ZeroMeansEnd, vars
<1> QED BY <1>1, <1>4, <1>5, Invariance, PTL DEF Spec

(* A read fits the buffer it was given: whatever the position, the size and *)
(* the length of the file, it copies no more than it was asked for.         *)
THEOREM ReadsFit == Spec => []ReadFitsBuffer
<1>1. Init => ReadFitsBuffer
  BY DEF Init, Returned, ReadFitsBuffer
<1>2. ASSUME IInv, Next PROVE ReadFitsBuffer'
  <2> SUFFICES ASSUME result'.call = "read"
               PROVE  result'.value <= result'.asked
    BY DEF ReadFitsBuffer
  <2>1. CASE \E fd : ReadFails(fd)
    BY <2>1 DEF ReadFails, Returned
  <2>2. CASE \E n \in NBYTES : \E fd : Read(fd, n)
    <3>1. PICK n \in NBYTES : \E fd : Read(fd, n)
      BY <2>2
    <3>2. PICK fd : Read(fd, n) /\ fd \in FDS
      BY <3>1 DEF Read, Readable
    <3>3. n \in Nat
      BY Words
    <3>4. PICK pos : pos = file_desc[fd].file_pos
      OBVIOUS
    <3>5. CASE FsRead(fd, n)
      <4>1. PICK i : i = file_desc[fd].inode_ptr
        OBVIOUS
      <4>2. /\ file_desc[fd].fops_ptr = "fs" /\ n # 0
            /\ result'.asked = n /\ result'.value = BytesRead(i, pos, n)
        BY <3>4, <3>5, <4>1 DEF FsRead, Returned
      <4>3. i \in DOMAIN INODES /\ pos \in Nat /\ pos <= INODES[i].length + 1
        BY <1>2, <3>2, <3>4, <4>1, <4>2, FileOK
      <4> QED BY <4>2, <4>3, BytesReadOK
    <3>6. CASE FsReadNothing(fd, n)
      BY <3>3, <3>6 DEF FsReadNothing, Returned
    <3>7. CASE DirRead(fd, n)
      <4>1. CASE pos > NUM_INODES \/ DIRECTORY[pos].name = NULL
        BY <3>3, <3>4, <3>7, <4>1 DEF DirRead, Returned
      <4>2. CASE ~ (pos > NUM_INODES \/ DIRECTORY[pos].name = NULL)
        <5>1. result'.asked = n /\ result'.value = Min({n, DIRECTORY[pos].length})
          BY <3>4, <3>7, <4>2 DEF DirRead, Returned
        <5>2. pos \in Nat
          BY <1>2, <3>2, <3>4 DEF IInv, Shape, Desc
        <5> QED BY <3>3, <4>2, <5>1, <5>2, EntryRead
      <4> QED BY <4>1, <4>2
    <3>8. CASE DeviceRead(fd, n)
      BY <3>3, <3>8 DEF DeviceRead, Returned
    <3> QED BY <3>2, <3>5, <3>6, <3>7, <3>8 DEF Read
  <2> QED BY <1>2, <2>1, <2>2 DEF Next, NextProgram, ExecuteFails, GetArgs, OpenFails,
        OpenSucceeds, CloseFails, CloseSucceeds, WriteFails, DeviceWrite, Returned
<1>3. ReadFitsBuffer /\ UNCHANGED vars => ReadFitsBuffer'
  BY DEF ReadFitsBuffer, vars
<1> QED BY <1>1, <1>2, <1>3, Invariance, PTL DEF Spec
-----------------------------------------------------------------------------
(* The reference reads a command with zeros behind it as the loop does: the *)
(* argument lies between the space and the end of the string.               *)
LEMMA ArgumentIs ==
  ASSUME NEW c \in COMMANDS, Executable(c), ZeroBehind(c), NEW m, m = NameEnd(c)
  PROVE  /\ ArgumentEnd(c) - m = Len(Argument(c))
         /\ Argument(c) \in Seq(STRING)
         /\ \A k \in 1 .. Len(Argument(c)) : Argument(c)[k] = c[k + m] /\ c[k + m] # Nul
<1>1. /\ c \in Seq(STRING) /\ Len(c) = BUFFASIZE
      /\ BUFFASIZE \in Nat /\ m \in {1, 2} /\ m <= BUFFASIZE
      /\ c[m] \in {Space, Nul} /\ c[1] # Nul /\ (m = 2 => c[1] # Space)
  BY CommandName
<1>2. PICK e : e = ArgumentEnd(c)
  OBVIOUS
<1>3. /\ e \in m .. BUFFASIZE /\ (e = BUFFASIZE \/ c[e + 1] = Nul)
      /\ \A j \in m .. e - 1 : c[j + 1] # Nul
  BY <1>2, ArgumentEnds
<1>4. PICK nul : nul = SelectInSeq(c, LAMBDA ch : ch = Nul)
  OBVIOUS
<1>5. PICK text : text = SubSeq(c, 1, nul - 1)
  OBVIOUS
<1>6. PICK space : space = SelectInSeq(text, LAMBDA ch : ch = Space)
  OBVIOUS
<1>7. Argument(c) = IF space = 0 THEN <<>> ELSE SubSeq(text, space + 1, Len(text))
  BY <1>4, <1>5, <1>6 DEF Argument
<1>8. /\ nul \in m .. BUFFASIZE /\ nul > 1 /\ c[nul] = Nul
      /\ \A i \in 1 .. nul - 1 : c[i] # Nul
      /\ \A i \in nul .. BUFFASIZE : c[i] = Nul
  <2>1. PICK I : I = {i \in 1 .. Len(c) : c[i] = Nul}
    OBVIOUS
  <2>2. nul = IF I # {} THEN Min(I) ELSE 0
    BY <1>4, <2>1 DEF SelectInSeq
  <2>3. \A i \in nul .. BUFFASIZE : c[i] = Nul
    BY <1>4 DEF ZeroBehind
  <2>4. I # {}
    <3> SUFFICES ASSUME I = {} PROVE FALSE
      OBVIOUS
    <3>1. nul = 0 /\ 1 \in 0 .. BUFFASIZE
      BY <1>1, <2>2
    <3> QED BY <1>1, <2>3, <3>1
  <2>5. I \subseteq Nat
    BY <2>1
  <2>6. \E x \in I : \A y \in I : x =< y
    BY <2>4, <2>5, Least
  <2>7. nul = Min(I)
    BY <2>2, <2>4
  <2>8. nul \in I /\ \A y \in I : nul <= y
    BY <2>6, <2>7, Zenon DEF Min
  <2>9. nul \in 1 .. BUFFASIZE /\ c[nul] = Nul /\ nul # 1
    BY <1>1, <2>1, <2>8
  <2>10. ASSUME NEW i \in 1 .. nul - 1, c[i] = Nul PROVE FALSE
    <3>1. i \in I
      BY <1>1, <2>1, <2>9, <2>10
    <3> QED BY <2>8, <2>9, <3>1
  <2> QED BY <1>1, <2>3, <2>9, <2>10
<1>9. /\ text \in Seq(STRING) /\ Len(text) = nul - 1
      /\ \A i \in 1 .. nul - 1 : text[i] = c[i]
  BY <1>1, <1>5, <1>8, SubSeqProperties
<1>10. CASE nul = m
  <2>0. m = 2
    BY <1>1, <1>8, <1>10
  <2>1. e = m
    <3>1. e > m => m \in m .. e - 1 /\ m + 1 \in nul .. BUFFASIZE
      BY <1>1, <1>3, <1>10
    <3> QED BY <1>1, <1>3, <1>8, <3>1
  <2>2. space = 0
    <3>1. PICK I : I = {i \in 1 .. Len(text) : text[i] = Space}
      OBVIOUS
    <3>2. I = {}
      BY <1>1, <1>9, <1>10, <2>0, <3>1
    <3> QED BY <1>6, <3>1, <3>2 DEF SelectInSeq
  <2>3. Argument(c) = <<>>
    BY <1>7, <2>2
  <2> QED BY <1>1, <1>2, <2>1, <2>3
<1>11. CASE nul > m
  <2>1. e = nul - 1
    <3>1. e > nul - 1 => nul - 1 \in m .. e - 1 /\ (nul - 1) + 1 = nul
      BY <1>1, <1>3, <1>8, <1>11
    <3>2. e < nul - 1 => e # BUFFASIZE /\ e + 1 \in 1 .. nul - 1
      BY <1>1, <1>3, <1>8, <1>11
    <3> QED BY <1>1, <1>3, <1>8, <3>1, <3>2
  <2>2. c[m] = Space
    <3>1. m \in 1 .. nul - 1
      BY <1>1, <1>8, <1>11
    <3> QED BY <1>1, <1>8, <3>1
  <2>3. space = m
    <3>1. PICK I : I = {i \in 1 .. Len(text) : text[i] = Space}
      OBVIOUS
    <3>2. m \in I /\ I \subseteq Nat /\ (m = 2 => 1 \notin I)
      <4>1. m \in 1 .. nul - 1 /\ 1 \in 1 .. nul - 1 /\ 1 .. Len(text) = 1 .. nul - 1
        BY <1>1, <1>8, <1>9, <1>11
      <4>2. text[1] = c[1] /\ text[m] = Space
        BY <1>9, <2>2, <4>1
      <4>3. m = 2 => text[1] # Space
        BY <1>1, <4>2
      <4>4. m \in I
        BY <3>1, <4>1, <4>2
      <4>5. m = 2 => 1 \notin I
        BY <3>1, <4>3
      <4>6. I \subseteq Nat
        BY <3>1
      <4> QED BY <4>4, <4>5, <4>6
    <3>3. \E x \in I : \A y \in I : x =< y
      BY <3>2, Least
    <3>4. space = Min(I)
      BY <1>6, <3>1, <3>2 DEF SelectInSeq
    <3>5. space \in I /\ \A y \in I : space <= y
      BY <3>3, <3>4, Zenon DEF Min
    <3>6. space \in 1 .. Len(text) /\ space <= m
      BY <3>1, <3>2, <3>5
    <3> QED BY <1>1, <3>2, <3>5, <3>6
  <2>4. PICK arg : arg = SubSeq(text, m + 1, nul - 1)
    OBVIOUS
  <2>5. Argument(c) = arg
    <3>1. space # 0
      BY <1>1, <2>3
    <3>2. Argument(c) = SubSeq(text, space + 1, Len(text))
      BY <1>7, <3>1
    <3>3. Len(text) = nul - 1
      BY <1>9
    <3> QED BY <2>3, <2>4, <3>2, <3>3
  <2>6. /\ arg \in Seq(STRING) /\ Len(arg) = nul - 1 - m
        /\ \A k \in 1 .. nul - 1 - m : arg[k] = text[k + m]
    <3>1. /\ m + 1 \in 1 .. Len(text) + 1 /\ nul - 1 \in (m + 1) - 1 .. Len(text)
          /\ (nul - 1) - (m + 1) + 1 = nul - 1 - m
      <4>1. m \in Int /\ nul \in Int /\ m >= 1 /\ nul > m
        BY <1>1, <1>8, <1>11
      <4>2. PICK len : len = Len(text)
        OBVIOUS
      <4>3. len = nul - 1
        BY <1>9, <4>2
      <4>4. /\ m + 1 \in 1 .. len + 1 /\ nul - 1 \in (m + 1) - 1 .. len
            /\ (nul - 1) - (m + 1) + 1 = nul - 1 - m
        BY <4>1, <4>3
      <4> QED BY <4>2, <4>4
    <3>2. \A k \in 1 .. nul - 1 - m : (m + 1) + k - 1 = k + m
      BY <1>1, <1>8
    <3> QED BY <1>8, <1>9, <2>4, <3>1, <3>2, SubSeqProperties
  <2>7. \A k \in 1 .. nul - 1 - m : arg[k] = c[k + m] /\ c[k + m] # Nul
    <3> SUFFICES ASSUME NEW k \in 1 .. nul - 1 - m
                 PROVE  arg[k] = c[k + m] /\ c[k + m] # Nul
      OBVIOUS
    <3>1. k + m \in 1 .. nul - 1
      BY <1>1, <1>8
    <3> QED BY <1>8, <1>9, <2>6, <3>1
  <2> QED BY <1>1, <1>2, <1>8, <2>1, <2>5, <2>6, <2>7
<1> QED BY <1>1, <1>8, <1>10, <1>11

(* A program finds in its PCB the argument of its command, whole, with      *)
(* nothing of another program's behind it, and getargs reports it.          *)
THEOREM OwnArgument == Spec => []ArgumentIsTheCommands
<1>1. IInv => ArgumentIsTheCommands
  <2> SUFFICES ASSUME IInv, ZeroBehind(command)
               PROVE  /\ \A k \in DOMAIN args :
                           args[k] = IF k < Len(Argument(command))
                                     THEN Argument(command)[k + 1] ELSE Nul
                      /\ result.call = "getargs" /\ result.asked # 0 =>
                           (result.value = 0 <=>
                              /\ Argument(command) # <<>>
                              /\ Argument(command)[1] # Percent)
    BY DEF ArgumentIsTheCommands
  <2>1. /\ command \in COMMANDS /\ Executable(command)
        /\ args = StoredArgs(command, args)
        /\ args \in [0 .. BUFFASIZE - 1 -> Characters]
    BY DEF IInv, Shape, ArgsOK
  <2>2. PICK arg : arg = Argument(command)
    OBVIOUS
  <2>0. PICK m : m = NameEnd(command)
    OBVIOUS
  <2>3. /\ ArgumentEnd(command) - m = Len(arg) /\ arg \in Seq(STRING)
        /\ \A k \in 1 .. Len(arg) : arg[k] = command[k + m] /\ command[k + m] # Nul
    BY <2>0, <2>1, <2>2, ArgumentIs
  <2>4. /\ BUFFASIZE \in Nat /\ m \in {1, 2} /\ m <= BUFFASIZE
        /\ ArgumentEnd(command) \in m .. BUFFASIZE
    BY <2>0, <2>1, CommandName, ArgumentEnds
  <2>5. \A k \in 0 .. BUFFASIZE - 1 : args[k] =
          IF m + k < ArgumentEnd(command) THEN command[m + 1 + k] ELSE Nul
    BY <2>0, <2>1, StoredArgsOK
  <2>6. ASSUME NEW k \in 0 .. BUFFASIZE - 1
        PROVE  args[k] = IF k < Len(arg) THEN arg[k + 1] ELSE Nul
    <3>1. Len(arg) \in Nat /\ (m + k < ArgumentEnd(command) <=> k < Len(arg))
      BY <2>3, <2>4, LenProperties
    <3>2. k < Len(arg) => k + 1 \in 1 .. Len(arg) /\ (k + 1) + m = m + 1 + k
      BY <2>4, <3>1
    <3> QED BY <2>3, <2>5, <3>1, <3>2
  <2>7. ASSUME result.call = "getargs", result.asked # 0
        PROVE  result.value = 0 <=> arg # <<>> /\ arg[1] # Percent
    <3>1. result.value = IF args[0] \in {Nul, Percent} THEN -1 ELSE 0
      BY <2>7 DEF IInv, ArgsOK
    <3>2. args[0] = IF 0 < Len(arg) THEN arg[0 + 1] ELSE Nul
      <4>1. 0 \in 0 .. BUFFASIZE - 1
        BY <2>4
      <4> QED BY <2>6, <4>1
    <3>3. CASE arg = <<>>
      BY <3>1, <3>2, <3>3
    <3>4. CASE arg # <<>>
      <4>1. Len(arg) > 0
        BY <2>3, <3>4, EmptySeq, LenProperties
      <4>2. 1 \in 1 .. Len(arg)
        BY <2>3, <4>1, LenProperties
      <4>3. arg[1] # Nul
        BY <2>3, <4>2
      <4> QED BY <3>1, <3>2, <3>4, <4>1, <4>3
    <3> QED BY <3>3, <3>4
  <2> QED BY <2>1, <2>2, <2>6, <2>7
<1> QED BY <1>1, Invariance, PTL
====
