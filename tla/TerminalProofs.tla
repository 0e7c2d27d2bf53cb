---------------------------- MODULE TerminalProofs ----------------------------
(***************************************************************************)
(* What module Terminal keeps true for every number of terminals, size of  *)
(* the line buffer, set of keys and sizes of reads, with keys handled       *)
(* between any two accesses of terminal_read.                               *)
(***************************************************************************)
EXTENDS Terminal, SequenceTheorems, TLAPS

Labels == {"program", "called", "announce", "spin", "copy", "check", "clear",
           "reindex", "return"}

(* The characters keys type, and that the newline is none of them.          *)
LEMMA CharsDiffer ==
  /\ Newline \in Chars /\ Nothing \in Chars
  /\ \A k \in KEYS : <<k, Array>> \in Chars /\ <<k, Array>> # Newline
<1>1. Newline \in Chars /\ Nothing \in Chars
  BY DEF Chars
<1>2. Array \in Arrays /\ "newline" \notin Arrays
  BY DEF Array, Arrays
<1>3. ASSUME NEW k \in KEYS
      PROVE  <<k, Array>> \in Chars /\ <<k, Array>> # Newline
  BY <1>2 DEF Chars, Newline
<1> QED BY <1>1, <1>3

(* A line one character shorter, or as empty as before.                     *)
LEMMA Shorter ==
  ASSUME NEW S, NEW s \in Seq(S)
  PROVE  /\ SubSeq(s, 1, Len(s) - 1) \in Seq(S)
         /\ Len(SubSeq(s, 1, Len(s) - 1)) = IF Len(s) = 0 THEN 0 ELSE Len(s) - 1
         /\ \A i \in 1 .. Len(s) - 1 : SubSeq(s, 1, Len(s) - 1)[i] = s[i]
<1>1. CASE Len(s) = 0
  <2>1. SubSeq(s, 1, Len(s) - 1) = <<>>
    BY <1>1
  <2> QED BY <1>1, <2>1, EmptySeq
<1>2. CASE Len(s) # 0
  <2>1. PICK n : n = Len(s) - 1
    OBVIOUS
  <2>2. /\ Len(s) \in Nat /\ n \in 1 - 1 .. Len(s) /\ 1 \in 1 .. Len(s) + 1
        /\ n \in Nat /\ n - 1 + 1 = n
    BY <1>2, <2>1, LenProperties
  <2>3. /\ SubSeq(s, 1, n) \in Seq(S) /\ Len(SubSeq(s, 1, n)) = n - 1 + 1
        /\ \A i \in 1 .. n - 1 + 1 : SubSeq(s, 1, n)[i] = s[1 + i - 1]
    BY <2>2, SubSeqProperties
  <2>4. \A i \in 1 .. n : 1 + i - 1 = i
    BY <2>2
  <2> QED BY <1>2, <2>1, <2>2, <2>3, <2>4
<1> QED BY <1>1, <1>2

(* The bounds the proofs count with.                                        *)
LEMMA Bounds ==
  /\ BUFFERSIZE \in Nat /\ BUFFERSIZE > 0
  /\ LINE_ROOM \in Nat /\ LINE_ROOM > 0
  /\ 0 \in Terminals /\ NBYTES \subseteq Nat
<1> QED BY BufferAssumption, TerminalsAssumption, ReadAssumption DEF Terminals

(* The driver starts with empty rows.                                       *)
LEMMA InitType == Init => TypeOK
<1> SUFFICES ASSUME Init PROVE TypeOK
  OBVIOUS
<1>1. <<>> \in Seq(Chars)
  BY EmptySeq
<1> QED BY <1>1, Bounds, CharsDiffer DEF Init, TypeOK, LoopInBounds

(* What can be read anywhere is a character.                                *)
LEMMA MemoryChars ==
  ASSUME keyboardbuffer \in [Addresses -> Chars], NEW a, NEW c \in Memory(a)
  PROVE  c \in Chars
<1> QED BY DEF Memory

(* Every handler run of the keyboard keeps the types,                       *)
LEMMA KeysType ==
  ASSUME TypeOK,
         \/ \E m \in MODIFIERS : ModifierDown(m) \/ ModifierUp(m)
         \/ \E k \in KEYS : Key(k)
         \/ Backspace
         \/ Enter
         \/ EnterRelease
         \/ \E t \in Terminals : AltFn(t)
  PROVE  TypeOK'
<1>0. /\ bufferindex[shown] \in 0 .. LINE_ROOM
      /\ bufferindex[shown] < LINE_ROOM => bufferindex[shown] + 1 \in 0 .. LINE_ROOM
      /\ bufferindex[shown] < LINE_ROOM - 1 => bufferindex[shown] < LINE_ROOM
  <2>1. bufferindex[shown] \in 0 .. LINE_ROOM
    BY DEF TypeOK, shown
  <2>2. PICK n : n = bufferindex[shown]
    OBVIOUS
  <2>3. LINE_ROOM \in Nat
    BY BufferAssumption
  <2>4. /\ n < LINE_ROOM => n + 1 \in 0 .. LINE_ROOM
        /\ n < LINE_ROOM - 1 => n < LINE_ROOM
    BY <2>1, <2>2, <2>3
  <2> QED BY <2>1, <2>2, <2>4
<1> USE DEF TypeOK, LoopInBounds, shown, reader, history, typed
<1>1. ASSUME NEW m \in MODIFIERS, ModifierDown(m) PROVE TypeOK'
  BY <1>1 DEF ModifierDown
<1>2. ASSUME NEW m \in MODIFIERS, ModifierUp(m) PROVE TypeOK'
  BY <1>2 DEF ModifierUp
<1>3. ASSUME NEW k \in KEYS, Key(k) PROVE TypeOK'
  <2>1. PICK ch \in Chars : ch = <<k, Array>>
    BY CharsDiffer
  <2>2. bufferindex' \in [Terminals -> 0 .. LINE_ROOM]
    <3>1. bufferindex[shown] + 1 \in 0 .. LINE_ROOM
      BY <1>0, <1>3 DEF Key
    <3> QED BY <1>3, <3>1 DEF Key
  <2>3. keyboardbuffer' \in [Addresses -> Chars]
    BY <1>3, <2>1 DEF Key
  <2>4. line' \in [Terminals -> Seq(Chars)] /\ dragged' \subseteq Terminals
    <3>1. Append(line[shown], ch) \in Seq(Chars)
      BY AppendProperties
    <3> QED BY <1>3, <2>1, <3>1 DEF Key
  <2> QED BY <1>3, <2>2, <2>3, <2>4 DEF Key
<1>4. CASE Backspace
  <2>1. LastIndex \in 0 .. LINE_ROOM
    BY Bounds DEF LastIndex
  <2>2. bufferindex' \in [Terminals -> 0 .. LINE_ROOM]
    BY <1>4, <2>1 DEF Backspace
  <2>3. keyboardbuffer' \in [Addresses -> Chars]
    BY <1>4, CharsDiffer DEF Backspace, Erased
  <2>4. /\ line' \in [Terminals -> Seq(Chars)] /\ sent' \in [Terminals -> Seq(Chars)]
        /\ raced' \subseteq Terminals
    <3>1. /\ ButLast(line[shown]) \in Seq(Chars)
          /\ ButLast(sent[shown]) \in Seq(Chars) /\ <<>> \in Seq(Chars)
      BY Shorter, EmptySeq DEF ButLast
    <3>2. line' \in [Terminals -> Seq(Chars)]
      BY <1>4, <3>1 DEF Backspace, TakeBack
    <3>3. sent' \in [Terminals -> Seq(Chars)]
      BY <1>4, <3>1 DEF Backspace, TakeBack
    <3>4. raced' \subseteq Terminals
      BY <1>4 DEF Backspace, TakeBack
    <3> QED BY <3>2, <3>3, <3>4
  <2> QED BY <1>4, <2>2, <2>3, <2>4 DEF Backspace
<1>5. CASE EnterLine
  <2>1. keyboardbuffer' \in [Addresses -> Chars]
    BY <1>5, CharsDiffer DEF EnterLine
  <2>2. bufferindex' \in [Terminals -> 0 .. LINE_ROOM]
    <3>1. bufferindex[shown] + 1 \in 0 .. LINE_ROOM
      BY <1>0, <1>5 DEF EnterLine
    <3> QED BY <1>5, <3>1 DEF EnterLine
  <2>3. /\ line' \in [Terminals -> Seq(Chars)] /\ sent' \in [Terminals -> Seq(Chars)]
        /\ dragged' \subseteq Terminals
    <3>1. Append(line[shown], Newline) \in Seq(Chars) /\ <<>> \in Seq(Chars)
      BY AppendProperties, EmptySeq, CharsDiffer
    <3>2. /\ \/ line' = line
             \/ line' = [line EXCEPT ![shown] = <<>>]
             \/ line' = [line EXCEPT ![shown] = Append(line[shown], Newline)]
          /\ \/ sent' = sent
             \/ sent' = [sent EXCEPT ![shown] = Append(line[shown], Newline)]
      BY <1>5 DEF EnterLine
    <3>3. line' \in [Terminals -> Seq(Chars)] /\ sent' \in [Terminals -> Seq(Chars)]
      BY <3>1, <3>2
    <3>4. dragged' \subseteq Terminals
      BY <1>5 DEF EnterLine
    <3> QED BY <3>3, <3>4
  <2> QED BY <1>5, <2>1, <2>2, <2>3 DEF EnterLine
<1>6. CASE EnterNoReader
  <2>1. PICK b : b = [keyboardbuffer EXCEPT
                        ![Cell(shown, bufferindex[shown])] = Newline]
    OBVIOUS
  <2>2. b \in [Addresses -> Chars]
    BY <2>1, CharsDiffer
  <2>3. keyboardbuffer' = Cleared(shown, b)
    BY <1>6, <2>1 DEF EnterNoReader
  <2>4. keyboardbuffer' \in [Addresses -> Chars]
    BY <2>2, <2>3, CharsDiffer DEF Cleared
  <2>5. bufferindex' \in [Terminals -> 0 .. LINE_ROOM] /\ <<>> \in Seq(Chars)
    BY <1>6, Bounds, EmptySeq DEF EnterNoReader
  <2> QED BY <1>6, <2>4, <2>5 DEF EnterNoReader
<1>7. CASE EnterRelease
  BY <1>7 DEF EnterRelease
<1>8. ASSUME NEW t \in Terminals, AltFn(t) PROVE TypeOK'
  BY <1>8 DEF AltFn
<1> QED BY <1>1, <1>2, <1>3, <1>4, <1>5, <1>6, <1>7, <1>8 DEF Enter

LEMMA SizesCount ==
  ASSUME TypeOK, NEW t \in Terminals
  PROVE  nbytes[t] \in Nat /\ index[t] \in Nat /\ LoopInBounds(t)
<1>1. nbytes[t] \in NBYTES \cup {0} /\ index[t] \in Nat
  BY DEF TypeOK
<1>2. \A n \in NBYTES \cup {0} : n \in Nat
  BY ReadAssumption
<1>3. LoopInBounds(t)
  BY DEF TypeOK
<1> QED BY <1>1, <1>2, <1>3

(* and so does every part of terminal_read.                                 *)
LEMMA ReadType ==
  ASSUME TypeOK, ReadStep \/ \E n \in NBYTES : ReadCall(n)
  PROVE  TypeOK'
<1> USE Bounds DEF shown, unread, typed, At, Goto
<1>1. ASSUME \A u \in Terminals \ {shown} :
               pc'[u] = pc[u] /\ nbytes'[u] = nbytes[u] /\ index'[u] = index[u],
             LoopInBounds(shown)', current_terminal \in Terminals,
             UNCHANGED current_terminal
      PROVE  \A t \in Terminals : LoopInBounds(t)'
  <2> SUFFICES ASSUME NEW t \in Terminals PROVE LoopInBounds(t)'
    OBVIOUS
  <2>1. LoopInBounds(t)
    BY SizesCount
  <2> QED BY <1>1, <2>1 DEF LoopInBounds
<1>2. current_terminal \in Terminals /\ LoopInBounds(shown)
      /\ index[shown] \in Nat /\ nbytes[shown] \in Nat
  <2>1. current_terminal \in Terminals
    BY DEF TypeOK
  <2> QED BY <2>1, SizesCount
<1>3. ASSUME NEW n \in NBYTES, ReadCall(n) PROVE TypeOK'
  <2>1. \A t \in Terminals : LoopInBounds(t)'
    BY <1>1, <1>2, <1>3 DEF ReadCall, LoopInBounds, TypeOK
  <2> QED BY <1>3, <2>1 DEF ReadCall, TypeOK
<1>4. CASE ReadForgetEnter
  <2>1. \A t \in Terminals : LoopInBounds(t)'
    BY <1>1, <1>2, <1>4 DEF ReadForgetEnter, LoopInBounds, TypeOK
  <2> QED BY <1>4, <2>1 DEF ReadForgetEnter, TypeOK
<1>5. CASE ReadAnnounce
  <2>1. \A t \in Terminals : LoopInBounds(t)'
    BY <1>1, <1>2, <1>5 DEF ReadAnnounce, LoopInBounds, TypeOK
  <2> QED BY <1>5, <2>1 DEF ReadAnnounce, TypeOK
<1>6. CASE ReadWake
  <2>1. /\ UNCHANGED <<index, nbytes, current_terminal>>
        /\ index[shown] = 0 /\ shown \in Terminals
        /\ pc' = [pc EXCEPT ![shown] = IF nbytes[shown] = 0 THEN "clear" ELSE "copy"]
    BY <1>6, <1>2 DEF ReadWake, LoopInBounds, TypeOK, At, Goto, shown
  <2>2. LoopInBounds(shown)'
    <3>1. pc \in [Terminals -> {"program", "called", "announce", "spin", "copy",
                                "check", "clear", "reindex", "return"}]
      BY DEF TypeOK
    <3>2. pc'[shown] = IF nbytes[shown] = 0 THEN "clear" ELSE "copy"
      BY <2>1, <3>1
    <3>3. nbytes[shown] # 0 => 0 < nbytes[shown]
      BY <1>2
    <3> QED BY <2>1, <3>2, <3>3 DEF LoopInBounds
  <2>3. \A u \in Terminals \ {shown} :
          pc'[u] = pc[u] /\ nbytes'[u] = nbytes[u] /\ index'[u] = index[u]
    BY <2>1 DEF TypeOK
  <2>4. \A t \in Terminals : LoopInBounds(t)'
    BY <1>1, <2>1, <2>2, <2>3
  <2> QED BY <1>6, <2>4 DEF ReadWake, TypeOK
<1>7. CASE ReadCopy
  <2>1. PICK c \in Memory(Cell(shown, index[shown])) :
          buf' = [buf EXCEPT ![shown] = Append(@, c)]
    BY <1>7 DEF ReadCopy
  <2>2. Append(buf[shown], c) \in Seq(Chars)
    BY <1>2, MemoryChars, AppendProperties DEF TypeOK
  <2>3. buf' \in [Terminals -> Seq(Chars)]
    BY <2>1, <2>2 DEF TypeOK
  <2>4. \A t \in Terminals : LoopInBounds(t)'
    BY <1>1, <1>2, <1>7 DEF ReadCopy, LoopInBounds, TypeOK
  <2> QED BY <1>7, <2>3, <2>4 DEF ReadCopy, TypeOK
<1>8. CASE ReadCheck
  <2>1. \/ /\ pc' = [pc EXCEPT ![shown] = "clear"]
           /\ index' = [index EXCEPT ![shown] = 0]
        \/ /\ index[shown] + 1 # nbytes[shown]
           /\ pc' = [pc EXCEPT ![shown] = "copy"]
           /\ index' = [index EXCEPT ![shown] = index[shown] + 1]
    BY <1>8 DEF ReadCheck
  <2>2. /\ UNCHANGED <<unread, typed, enter_flag, read_flag, keyboardbuffer,
                       bufferindex, nbytes, buf>>
        /\ pc[shown] = "check"
    BY <1>8 DEF ReadCheck
  <2>3. /\ pc \in [Terminals -> Labels] /\ index \in [Terminals -> Nat]
        /\ 0 \in Nat /\ index[shown] + 1 \in Nat
        /\ index[shown] < nbytes[shown]
    BY <1>2, <2>2 DEF TypeOK, Labels, LoopInBounds
  <2>4. pc' \in [Terminals -> Labels] /\ index' \in [Terminals -> Nat]
    BY <1>2, <2>1, <2>3 DEF Labels
  <2>5. LoopInBounds(shown)'
    <3>1. CASE pc' = [pc EXCEPT ![shown] = "clear"]
      <4>1. index' = [index EXCEPT ![shown] = 0]
        BY <1>2, <2>1, <2>3, <3>1
      <4> QED BY <1>2, <2>2, <2>3, <3>1, <4>1, Bounds DEF LoopInBounds
    <3>2. CASE pc' = [pc EXCEPT ![shown] = "copy"]
      <4>1. /\ index' = [index EXCEPT ![shown] = index[shown] + 1]
            /\ index[shown] + 1 # nbytes[shown]
        BY <1>2, <2>1, <2>3, <3>2
      <4> QED BY <1>2, <2>2, <2>3, <3>2, <4>1 DEF LoopInBounds
    <3> QED BY <2>1, <3>1, <3>2
  <2>6. \A t \in Terminals : LoopInBounds(t)'
    BY <1>1, <1>2, <2>1, <2>2, <2>3, <2>5
  <2> QED BY <2>2, <2>4, <2>6 DEF TypeOK, Labels
<1>9. CASE ReadClear
  <2>1. keyboardbuffer' \in [Addresses -> Chars]
    BY <1>9, CharsDiffer DEF ReadClear, TypeOK
  <2>2. \/ /\ pc' = [pc EXCEPT ![shown] = "reindex"]
           /\ index' = [index EXCEPT ![shown] = 0]
        \/ /\ index[shown] + 1 # BUFFERSIZE /\ pc' = pc
           /\ index' = [index EXCEPT ![shown] = index[shown] + 1]
    BY <1>9 DEF ReadClear
  <2>3. /\ UNCHANGED <<unread, enter_flag, read_flag, bufferindex, nbytes, buf,
                       sent, line, raced>>
        /\ dragged' \subseteq dragged /\ pc[shown] = "clear"
    BY <1>9 DEF ReadClear
  <2>4. /\ pc \in [Terminals -> Labels] /\ index \in [Terminals -> Nat]
        /\ 0 \in Nat /\ index[shown] + 1 \in Nat
        /\ index[shown] < BUFFERSIZE /\ BUFFERSIZE \in Nat
    BY <1>2, <2>3 DEF TypeOK, Labels, LoopInBounds
  <2>5. pc' \in [Terminals -> Labels] /\ index' \in [Terminals -> Nat]
    BY <1>2, <2>2, <2>4 DEF Labels
  <2>6. LoopInBounds(shown)'
    BY <1>2, <2>2, <2>3, <2>4 DEF LoopInBounds
  <2>7. \A t \in Terminals : LoopInBounds(t)'
    BY <1>1, <1>2, <2>2, <2>3, <2>4, <2>6
  <2> QED BY <2>1, <2>3, <2>5, <2>7 DEF TypeOK, Labels
<1>10. CASE ReadReindex
  <2>1. \A t \in Terminals : LoopInBounds(t)'
    BY <1>1, <1>2, <1>10 DEF ReadReindex, LoopInBounds, TypeOK
  <2> QED BY <1>10, <2>1, EmptySeq DEF ReadReindex, TypeOK
<1>11. CASE ReadReturn
  <2>1. \A t \in Terminals : LoopInBounds(t)'
    BY <1>1, <1>2, <1>11 DEF ReadReturn, LoopInBounds, TypeOK
  <2> QED BY <1>11, <2>1, EmptySeq DEF ReadReturn, TypeOK
<1> QED BY <1>3, <1>4, <1>5, <1>6, <1>7, <1>8, <1>9, <1>10, <1>11 DEF ReadStep

(* Every variable of the driver stays within its type, wherever in          *)
(* terminal_read keys arrive and whatever size it is asked for: the loops   *)
(* stay within their bounds and no line outgrows its own.                   *)
THEOREM TypeCorrect == Spec => []TypeOK
<1>1. TypeOK /\ [Next]_vars => TypeOK'
  <2> SUFFICES ASSUME TypeOK, [Next]_vars PROVE TypeOK'
    OBVIOUS
  <2>1. CASE Next
    BY <2>1, KeysType, ReadType DEF Next
  <2>2. CASE UNCHANGED vars
    BY <2>2 DEF vars, reader, history, typed, TypeOK, LoopInBounds
  <2> QED BY <2>1, <2>2
<1> QED BY <1>1, InitType, PTL DEF Spec
-----------------------------------------------------------------------------
(* With the Alt key up the flag the handler looks at for F1-F3 is off,      *)
(* whichever keys arrive at any moment of terminal_read.                    *)
THEOREM AltFollows == Spec => []AltFollowsKey
<1>1. Init => AltFollowsKey
  BY TerminalsAssumption DEF Init, AltFollowsKey, Terminals
<1>2. ASSUME TypeOK, AltFollowsKey, Next PROVE AltFollowsKey'
  <2> USE DEF shown
  <2>1. ASSUME NEW m \in MODIFIERS, ModifierDown(m) PROVE AltFollowsKey'
    BY <1>2, <2>1 DEF TypeOK, AltFollowsKey, ModifierDown
  <2>2. ASSUME NEW m \in MODIFIERS, ModifierUp(m) PROVE AltFollowsKey'
    BY <1>2, <2>2 DEF TypeOK, AltFollowsKey, ModifierUp
  <2>3. ASSUME NEW t \in Terminals, AltFn(t) PROVE AltFollowsKey'
    BY <1>2, <2>3 DEF AltFollowsKey, AltFn, history
  <2>4. \/ \E m \in MODIFIERS : ModifierDown(m) \/ ModifierUp(m)
        \/ \E t \in Terminals : AltFn(t)
        \/ UNCHANGED <<current_terminal, functionflags, held>>
    BY <1>2 DEF Next, Key, Backspace, Enter, EnterLine, EnterNoReader,
                EnterRelease, ReadCall, ReadStep, ReadForgetEnter, ReadAnnounce,
                ReadWake, ReadCopy, ReadCheck, ReadClear, ReadReindex,
                ReadReturn, unread
  <2> QED BY <1>2, <2>1, <2>2, <2>3, <2>4 DEF AltFollowsKey
<1>3. AltFollowsKey /\ UNCHANGED vars => AltFollowsKey'
  BY DEF AltFollowsKey, vars, history
<1> QED BY <1>1, <1>2, <1>3, TypeCorrect, PTL DEF Spec
-----------------------------------------------------------------------------
(* The rows of the terminals do not overlap.                                *)
LEMMA Cells ==
  ASSUME NEW t \in Terminals, NEW i \in 0 .. BUFFERSIZE - 1
  PROVE  /\ Cell(t, i) \in Addresses /\ Cell(t, i) \in Row(t)
         /\ \A u \in Terminals, j \in 0 .. BUFFERSIZE - 1 :
              Cell(t, i) = Cell(u, j) => t = u /\ i = j
<1>1. /\ t \in Nat /\ t + 1 <= NUMTERMINALS /\ NUMTERMINALS \in Nat
      /\ BUFFERSIZE \in Nat /\ LINE_ROOM \in Nat
  BY TerminalsAssumption, BufferAssumption DEF Terminals
<1>2. \A a, b \in Nat : a + 1 <= b => a * BUFFERSIZE + BUFFERSIZE <= b * BUFFERSIZE
  <2> SUFFICES ASSUME NEW a \in Nat, NEW b \in Nat, a + 1 <= b
               PROVE  a * BUFFERSIZE + BUFFERSIZE <= b * BUFFERSIZE
    OBVIOUS
  <2>1. PICK c \in Nat : b = a + 1 + c
    <3>1. b - a - 1 \in Nat /\ b = a + 1 + (b - a - 1)
      OBVIOUS
    <3> QED BY <3>1
  <2>2. b * BUFFERSIZE = a * BUFFERSIZE + BUFFERSIZE + c * BUFFERSIZE
    BY <1>1, <2>1
  <2>3. c * BUFFERSIZE \in Nat /\ a * BUFFERSIZE \in Nat
    BY <1>1
  <2> QED BY <1>1, <2>2, <2>3
<1>3. Cell(t, i) \in Addresses /\ Cell(t, i) \in Row(t)
  <2>1. t * BUFFERSIZE + BUFFERSIZE <= NUMTERMINALS * BUFFERSIZE
    BY <1>1, <1>2
  <2>2. t * BUFFERSIZE \in Nat /\ NUMTERMINALS * BUFFERSIZE \in Nat
    BY <1>1
  <2> QED BY <1>1, <2>1, <2>2 DEF Cell, Addresses, Row
<1>4. ASSUME NEW u \in Terminals, NEW j \in 0 .. BUFFERSIZE - 1,
             Cell(t, i) = Cell(u, j)
      PROVE  t = u /\ i = j
  <2>1. u \in Nat /\ t * BUFFERSIZE \in Nat /\ u * BUFFERSIZE \in Nat
        /\ t * BUFFERSIZE + i = u * BUFFERSIZE + j
    BY <1>1, <1>4, TerminalsAssumption DEF Terminals, Cell
  <2>2. t + 1 <= u => FALSE
    BY <1>1, <1>2, <2>1
  <2>3. u + 1 <= t => FALSE
    BY <1>1, <1>2, <2>1
  <2>4. t = u
    BY <1>1, <2>1, <2>2, <2>3
  <2> QED BY <2>1, <2>4
<1> QED BY <1>3, <1>4

(* Only the row of the terminal on the screen changes.                      *)
RowsKept ==
  \A a \in Addresses \ Row(current_terminal) :
    keyboardbuffer'[a] = keyboardbuffer[a]

LEMMA NextKeepsRows ==
  ASSUME LINE_ROOM <= BUFFERSIZE, TypeOK, Next
  PROVE  RowsKept
<1> USE DEF shown
<1>1. PICK i : i = bufferindex[shown]
  OBVIOUS
<1>2. i \in Nat /\ shown \in Terminals /\ keyboardbuffer \in [Addresses -> Chars]
  BY <1>1, BufferAssumption DEF TypeOK
<1>3. ASSUME NEW b, NEW ch, NEW j \in 0 .. BUFFERSIZE - 1,
             b = [keyboardbuffer EXCEPT ![Cell(shown, j)] = ch]
      PROVE  \A a \in Addresses \ Row(shown) : b[a] = keyboardbuffer[a]
  BY <1>2, <1>3, Cells
<1>4. ASSUME NEW k \in KEYS, Key(k) PROVE RowsKept
  <2>1. i \in 0 .. BUFFERSIZE - 1
    BY <1>1, <1>2, <1>4, BufferAssumption DEF Key
  <2> QED BY <1>1, <1>3, <1>4, <2>1 DEF Key, RowsKept
<1>5. CASE Backspace
  <2>1. LastIndex \in 0 .. BUFFERSIZE - 1
    BY BufferAssumption DEF TypeOK, LastIndex
  <2> QED BY <1>3, <1>5, <2>1 DEF Backspace, Erased, RowsKept
<1>6. CASE Enter
  <2>1. i \in 0 .. BUFFERSIZE - 1
    BY <1>1, <1>2, <1>6, BufferAssumption DEF Enter, EnterLine, EnterNoReader
  <2>2. PICK ended : ended = [keyboardbuffer EXCEPT ![Cell(shown, i)] = Newline]
    OBVIOUS
  <2>3. keyboardbuffer' = ended \/ keyboardbuffer' = Cleared(shown, ended)
    BY <1>1, <1>6, <2>2 DEF Enter, EnterLine, EnterNoReader
  <2>4. \A a \in Addresses \ Row(shown) : ended[a] = keyboardbuffer[a]
    BY <1>3, <2>1, <2>2
  <2> QED BY <2>3, <2>4 DEF Cleared, RowsKept
<1>7. CASE ReadClear
  <2>1. index[shown] \in 0 .. BUFFERSIZE - 1
    BY <1>2, <1>7, SizesCount, Bounds DEF ReadClear, At, LoopInBounds
  <2> QED BY <1>3, <1>7, <2>1 DEF ReadClear, RowsKept
<1>8. \/ \E k \in KEYS : Key(k)
      \/ Backspace
      \/ Enter
      \/ ReadClear
      \/ UNCHANGED keyboardbuffer
  BY DEF Next, ModifierDown, ModifierUp, EnterRelease, AltFn, ReadCall, ReadStep,
         ReadForgetEnter, ReadAnnounce, ReadWake, ReadCopy, ReadCheck, ReadReindex,
         ReadReturn
<1>9. CASE UNCHANGED keyboardbuffer
  BY <1>9 DEF RowsKept
<1> QED BY <1>4, <1>5, <1>6, <1>7, <1>8, <1>9

(* Neither a key nor a read touches the line of a terminal that is not on   *)
(* the screen, or memory behind the buffers.                                *)
THEOREM OwnRow ==
  ASSUME LINE_ROOM <= BUFFERSIZE
  PROVE  Spec => OnlyOwnRow
<1>1. TypeOK /\ [Next]_vars =>
        [\A a \in Addresses \ Row(current_terminal) :
           keyboardbuffer'[a] = keyboardbuffer[a]]_vars
  BY NextKeepsRows DEF RowsKept
<1> QED BY <1>1, TypeCorrect, PTL DEF Spec, OnlyOwnRow
-----------------------------------------------------------------------------
(* A step leaves the line and the reader of a terminal as they are.         *)
SameLine(t) ==
  /\ pc'[t] = pc[t] /\ index'[t] = index[t] /\ bufferindex'[t] = bufferindex[t]
  /\ \A i \in 0 .. BUFFERSIZE - 1 :
       keyboardbuffer'[Cell(t, i)] = keyboardbuffer[Cell(t, i)]
  /\ sent'[t] = sent[t] /\ line'[t] = line[t]
  /\ t \in raced' <=> t \in raced
  /\ t \in dragged' <=> t \in dragged

SameReader(t) ==
  /\ nbytes'[t] = nbytes[t] /\ buf'[t] = buf[t]
  /\ enter_flag'[t] = enter_flag[t] /\ read_flag'[t] = read_flag[t]

(* Every step does, for the terminals that are not on the screen.           *)
LEMMA OthersKept ==
  ASSUME LINE_ROOM <= BUFFERSIZE, TypeOK, Next,
         NEW t \in Terminals, t # current_terminal
  PROVE  SameLine(t) /\ SameReader(t)
<1> USE DEF shown, reader, history, typed, unread, At, Goto
<1>1. \A i \in 0 .. BUFFERSIZE - 1 :
        keyboardbuffer'[Cell(t, i)] = keyboardbuffer[Cell(t, i)]
  <2> SUFFICES ASSUME NEW i \in 0 .. BUFFERSIZE - 1
               PROVE  keyboardbuffer'[Cell(t, i)] = keyboardbuffer[Cell(t, i)]
    OBVIOUS
  <2>1. current_terminal \in Terminals
    BY DEF TypeOK
  <2>2. Cell(t, i) \in Addresses \ Row(current_terminal)
    BY <2>1, Cells DEF Row
  <2> QED BY <2>2, NextKeepsRows DEF RowsKept
<1>2. ASSUME \/ \E m \in MODIFIERS : ModifierDown(m) \/ ModifierUp(m)
             \/ EnterRelease
             \/ \E u \in Terminals : AltFn(u)
      PROVE  SameLine(t) /\ SameReader(t)
  BY <1>1, <1>2 DEF TypeOK, SameLine, SameReader, ModifierDown, ModifierUp,
                    EnterRelease, AltFn
<1>3. ASSUME NEW k \in KEYS, Key(k) PROVE SameLine(t) /\ SameReader(t)
  BY <1>1, <1>3 DEF TypeOK, SameLine, SameReader, Key
<1>4. CASE Backspace
  BY <1>1, <1>4 DEF TypeOK, SameLine, SameReader, Backspace, TakeBack
<1>5. CASE EnterLine
  BY <1>1, <1>5 DEF TypeOK, SameLine, SameReader, EnterLine
<1>6. CASE EnterNoReader
  BY <1>1, <1>6 DEF TypeOK, SameLine, SameReader, EnterNoReader
<1>7. ASSUME NEW n \in NBYTES, ReadCall(n) PROVE SameLine(t) /\ SameReader(t)
  BY <1>1, <1>7 DEF TypeOK, SameLine, SameReader, ReadCall
<1>8. CASE ReadForgetEnter \/ ReadAnnounce \/ ReadWake \/ ReadReturn
  BY <1>1, <1>8 DEF TypeOK, SameLine, SameReader, ReadForgetEnter, ReadAnnounce,
                    ReadWake, ReadReturn
<1>9. CASE ReadCopy \/ ReadCheck
  BY <1>1, <1>9 DEF TypeOK, SameLine, SameReader, ReadCopy, ReadCheck
<1>10. CASE ReadClear \/ ReadReindex
  BY <1>1, <1>10 DEF TypeOK, SameLine, SameReader, ReadClear, ReadReindex
<1> QED BY <1>2, <1>3, <1>4, <1>5, <1>6, <1>7, <1>8, <1>9, <1>10
        DEF Next, Enter, ReadStep

(* Clearing a row leaves nothing in it.                                     *)
LEMMA RowCleared ==
  ASSUME NEW b, NEW t \in Terminals, NEW i \in 0 .. BUFFERSIZE - 1
  PROVE  Cleared(t, b)[Cell(t, i)] = Nothing
<1> QED BY Cells DEF Cleared

(* What is empty: the cells past what was typed; of a row being cleared,    *)
(* what the loop has passed; all of it before the index goes back to 0.     *)
TailOK(t) ==
  t \notin dragged =>
    /\ ~ Clearing(t) => \A i \in bufferindex[t] .. BUFFERSIZE - 1 :
                          keyboardbuffer[Cell(t, i)] = Nothing
    /\ pc[t] = "clear" => \A i \in 0 .. index[t] - 1 :
                            keyboardbuffer[Cell(t, i)] = Nothing
    /\ pc[t] = "reindex" => \A i \in 0 .. BUFFERSIZE - 1 :
                              keyboardbuffer[Cell(t, i)] = Nothing

LEMMA TailStep ==
  ASSUME LINE_ROOM <= BUFFERSIZE, TypeOK, Next, NEW t \in Terminals, TailOK(t)
  PROVE  TailOK(t)'
<1> USE DEF reader, history, typed, unread, At, Goto
<1>1. /\ BUFFERSIZE \in Nat /\ BUFFERSIZE > 0 /\ LINE_ROOM \in Nat
      /\ bufferindex[t] \in Nat /\ bufferindex[t] <= BUFFERSIZE
      /\ index[t] \in Nat /\ LoopInBounds(t)
  <2>1. bufferindex[t] \in 0 .. LINE_ROOM
    BY DEF TypeOK
  <2> QED BY <2>1, Bounds, SizesCount
<1>2. CASE SameLine(t)
  <2>1. Clearing(t)' <=> Clearing(t)
    BY <1>2 DEF SameLine, Clearing
  <2> QED BY <1>1, <1>2, <2>1 DEF TailOK, SameLine, LoopInBounds
<1>3. ASSUME t = current_terminal,
             \/ \E m \in MODIFIERS : ModifierDown(m) \/ ModifierUp(m)
             \/ EnterRelease
             \/ \E u \in Terminals : AltFn(u)
      PROVE  TailOK(t)'
  BY <1>3 DEF TailOK, Clearing, shown, ModifierDown, ModifierUp, EnterRelease, AltFn
<1>4. ASSUME t = current_terminal, NEW k \in KEYS, Key(k) PROVE TailOK(t)'
  <2>1. /\ bufferindex[t] \in 0 .. BUFFERSIZE - 1
        /\ keyboardbuffer' = [keyboardbuffer EXCEPT
                                ![Cell(t, bufferindex[t])] = <<k, Array>>]
        /\ bufferindex'[t] = bufferindex[t] + 1 /\ pc' = pc
        /\ Clearing(t) => t \in dragged'
        /\ ~ Clearing(t) => dragged' = dragged
    BY <1>1, <1>4 DEF Key, shown, TypeOK
  <2>2. \A i \in bufferindex[t] + 1 .. BUFFERSIZE - 1 :
          keyboardbuffer'[Cell(t, i)] = keyboardbuffer[Cell(t, i)]
    <3>1. keyboardbuffer \in [Addresses -> Chars]
      BY DEF TypeOK
    <3>2. \A i \in 0 .. BUFFERSIZE - 1 : i # bufferindex[t] =>
            keyboardbuffer'[Cell(t, i)] = keyboardbuffer[Cell(t, i)]
      BY <2>1, <3>1, Cells
    <3> QED BY <1>1, <3>2
  <2> QED BY <1>1, <2>1, <2>2 DEF TailOK, Clearing
<1>5. CASE t = current_terminal /\ Backspace
  <2>1. PICK j : j = LastIndex
    OBVIOUS
  <2>2. /\ j \in 0 .. BUFFERSIZE - 1 /\ bufferindex'[t] = j
        /\ keyboardbuffer' = [keyboardbuffer EXCEPT ![Cell(t, j)] = Nothing]
        /\ j + 1 >= bufferindex[t]
        /\ pc' = pc /\ index' = index /\ dragged' = dragged
    BY <1>1, <1>5, <2>1 DEF Backspace, LastIndex, Erased, shown, TypeOK
  <2>3. \A i \in 0 .. BUFFERSIZE - 1 :
          \/ keyboardbuffer'[Cell(t, i)] = Nothing
          \/ i # j /\ keyboardbuffer'[Cell(t, i)] = keyboardbuffer[Cell(t, i)]
    <3>1. keyboardbuffer \in [Addresses -> Chars]
      BY DEF TypeOK
    <3> QED BY <2>2, <3>1, Cells
  <2> QED BY <1>1, <2>2, <2>3 DEF TailOK, Clearing, LoopInBounds
<1>6. CASE t = current_terminal /\ EnterLine
  <2>1. /\ bufferindex[t] \in 0 .. BUFFERSIZE - 1
        /\ keyboardbuffer' = [keyboardbuffer EXCEPT
                                ![Cell(t, bufferindex[t])] = Newline]
        /\ bufferindex'[t] = bufferindex[t] + 1 /\ pc' = pc
        /\ Clearing(t) => t \in dragged'
        /\ ~ Clearing(t) => dragged' = dragged
    BY <1>1, <1>6 DEF EnterLine, shown, TypeOK
  <2>2. \A i \in bufferindex[t] + 1 .. BUFFERSIZE - 1 :
          keyboardbuffer'[Cell(t, i)] = keyboardbuffer[Cell(t, i)]
    <3>1. keyboardbuffer \in [Addresses -> Chars]
      BY DEF TypeOK
    <3>2. \A i \in 0 .. BUFFERSIZE - 1 : i # bufferindex[t] =>
            keyboardbuffer'[Cell(t, i)] = keyboardbuffer[Cell(t, i)]
      BY <2>1, <3>1, Cells
    <3> QED BY <1>1, <3>2
  <2> QED BY <1>1, <2>1, <2>2 DEF TailOK, Clearing
<1>7. CASE t = current_terminal /\ EnterNoReader
  <2>1. \A i \in 0 .. BUFFERSIZE - 1 : keyboardbuffer'[Cell(t, i)] = Nothing
    BY <1>7, RowCleared DEF EnterNoReader, shown
  <2>2. bufferindex'[t] = 0 /\ pc' = pc /\ index' = index
    BY <1>7 DEF EnterNoReader, shown, TypeOK
  <2> QED BY <1>1, <2>1, <2>2 DEF TailOK, LoopInBounds
<1>8. ASSUME t = current_terminal,
             \/ \E n \in NBYTES : ReadCall(n)
             \/ ReadForgetEnter \/ ReadAnnounce \/ ReadCopy \/ ReadReturn
      PROVE  TailOK(t)'
  <2>1. /\ ~ Clearing(t) /\ ~ Clearing(t)'
        /\ keyboardbuffer' = keyboardbuffer /\ bufferindex' = bufferindex
        /\ dragged' = dragged
    BY <1>8 DEF Clearing, shown, TypeOK, ReadCall, ReadForgetEnter, ReadAnnounce,
                ReadCopy, ReadReturn
  <2> QED BY <2>1 DEF TailOK, Clearing
<1>9. CASE t = current_terminal /\ (ReadWake \/ ReadCheck)
  <2>1. /\ ~ Clearing(t) /\ pc'[t] # "reindex"
        /\ pc'[t] = "clear" => index'[t] = 0
        /\ keyboardbuffer' = keyboardbuffer /\ bufferindex' = bufferindex
        /\ dragged' = dragged
    BY <1>1, <1>9 DEF Clearing, shown, TypeOK, ReadWake, ReadCheck, LoopInBounds
  <2> QED BY <2>1 DEF TailOK, Clearing
<1>10. CASE t = current_terminal /\ ReadClear
  <2>1. /\ index[t] \in 0 .. BUFFERSIZE - 1 /\ pc[t] = "clear"
        /\ keyboardbuffer' = [keyboardbuffer EXCEPT ![Cell(t, index[t])] = Nothing]
        /\ t \notin dragged' => t \notin dragged \/ index[t] = 0
        /\ \/ /\ index[t] + 1 = BUFFERSIZE /\ pc'[t] = "reindex"
           \/ /\ pc'[t] = "clear" /\ index'[t] = index[t] + 1
    BY <1>1, <1>10 DEF ReadClear, shown, TypeOK, LoopInBounds
  <2>2. \A i \in 0 .. BUFFERSIZE - 1 :
          \/ keyboardbuffer'[Cell(t, i)] = Nothing
          \/ i # index[t] /\ keyboardbuffer'[Cell(t, i)] = keyboardbuffer[Cell(t, i)]
    <3>1. keyboardbuffer \in [Addresses -> Chars]
      BY DEF TypeOK
    <3> QED BY <2>1, <3>1, Cells
  <2>3. t \notin dragged' => \A i \in 0 .. index[t] :
                               keyboardbuffer'[Cell(t, i)] = Nothing
    BY <1>1, <2>1, <2>2 DEF TailOK
  <2> QED BY <1>1, <2>1, <2>3 DEF TailOK, Clearing
<1>11. CASE t = current_terminal /\ ReadReindex
  <2>1. /\ pc[t] = "reindex" /\ pc'[t] = "return" /\ bufferindex'[t] = 0
        /\ keyboardbuffer' = keyboardbuffer /\ dragged' = dragged
    BY <1>11 DEF ReadReindex, shown, TypeOK
  <2> QED BY <2>1 DEF TailOK, Clearing
<1>12. CASE t # current_terminal
  BY <1>2, <1>12, OthersKept
<1> QED BY <1>3, <1>4, <1>5, <1>6, <1>7, <1>8, <1>9, <1>10, <1>11, <1>12
        DEF Next, Enter, ReadStep

(* The cells past what was typed are empty on every terminal, whatever is   *)
(* typed and erased at any moment, but after a key has come while           *)
(* terminal_read was clearing; a line that fits its row is needed, so that  *)
(* none runs into the next.                                                 *)
THEOREM EmptyTail ==
  ASSUME LINE_ROOM <= BUFFERSIZE
  PROVE  Spec => []TailIsEmpty
<1> DEFINE TailInv == \A t \in Terminals : TailOK(t)
<1>1. Init => TailInv
  <2> SUFFICES ASSUME Init, NEW t \in Terminals PROVE TailOK(t)
    OBVIOUS
  <2>1. \A i \in 0 .. BUFFERSIZE - 1 : keyboardbuffer[Cell(t, i)] = Nothing
    BY Cells DEF Init
  <2> QED BY <2>1 DEF Init, TailOK, Clearing
<1>2. TypeOK /\ TailInv /\ [Next]_vars => TailInv'
  <2> SUFFICES ASSUME TypeOK, TailInv, [Next]_vars, NEW t \in Terminals
               PROVE  TailOK(t)'
    OBVIOUS
  <2>1. CASE Next
    BY <2>1, TailStep
  <2>2. CASE UNCHANGED vars
    BY <2>2 DEF vars, reader, history, typed, TailOK, Clearing
  <2> QED BY <2>1, <2>2
<1>3. TailInv => TailIsEmpty
  BY DEF TailOK, TailIsEmpty
<1> QED BY <1>1, <1>2, <1>3, TypeCorrect, PTL DEF Spec
-----------------------------------------------------------------------------
(* What a terminal's row holds: the first line that was ended, then what    *)
(* was typed since.                                                         *)
TextAt(t, i) ==
  IF i < Len(sent[t]) THEN sent[t][i + 1] ELSE line[t][i - Len(sent[t]) + 1]

Holds(t) ==
  /\ bufferindex[t] = Len(sent[t]) + Len(line[t])
  /\ \A i \in 0 .. bufferindex[t] - 1 : keyboardbuffer[Cell(t, i)] = TextAt(t, i)

NoNewline(s) == \A i \in 1 .. Len(s) : s[i] # Newline
IsLine(s) ==
  Len(s) > 0 /\ s[Len(s)] = Newline /\ \A i \in 1 .. Len(s) - 1 : s[i] # Newline

(* The reader of t has the first n characters of the line.                  *)
Has(t, n) ==
  /\ n <= Len(sent[t]) /\ Len(buf[t]) = n
  /\ \A i \in 1 .. n : buf[t][i] = sent[t][i]

(* The number of characters a read gets.                                    *)
Delivered(t) == IF Len(sent[t]) < nbytes[t] THEN Len(sent[t]) ELSE nbytes[t]

Reading == {"spin", "copy", "check", "clear", "reindex", "return"}

(* The reader of t got where it is by an Enter on the line it finds, and    *)
(* has copied that line as far as its loop has come.                        *)
OnItsLine(t) ==
  /\ pc[t] = "announce" => ~ enter_flag[t]
  /\ pc[t] = "spin" /\ enter_flag[t] => sent[t] # <<>>
  /\ pc[t] = "copy" => index[t] < Len(sent[t]) /\ Has(t, index[t])
  /\ pc[t] = "check" => Has(t, index[t] + 1)
  /\ pc[t] = "clear" => Has(t, Delivered(t))

LineOK(t) ==
  /\ read_flag[t] <=> pc[t] \in Reading
  /\ ~ Clearing(t) => Holds(t)
  /\ sent[t] # <<>> => IsLine(sent[t])
  /\ sent[t] = <<>> => NoNewline(line[t])
  /\ pc[t] \notin Reading \ {"spin"} => buf[t] = <<>>
  /\ t \notin raced => OnItsLine(t)

(* What the proofs below count with.                                        *)
LEMMA LineFacts ==
  ASSUME LINE_ROOM <= BUFFERSIZE, TypeOK, NEW t \in Terminals
  PROVE  /\ sent[t] \in Seq(Chars) /\ line[t] \in Seq(Chars) /\ buf[t] \in Seq(Chars)
         /\ Len(sent[t]) \in Nat /\ Len(line[t]) \in Nat /\ Len(buf[t]) \in Nat
         /\ sent[t] = <<>> <=> Len(sent[t]) = 0
         /\ line[t] = <<>> <=> Len(line[t]) = 0
         /\ bufferindex[t] \in Nat /\ bufferindex[t] <= BUFFERSIZE
         /\ nbytes[t] \in Nat /\ index[t] \in Nat /\ LoopInBounds(t)
         /\ BUFFERSIZE \in Nat
<1>1. /\ sent[t] \in Seq(Chars) /\ line[t] \in Seq(Chars) /\ buf[t] \in Seq(Chars)
      /\ bufferindex[t] \in 0 .. LINE_ROOM
  BY DEF TypeOK
<1>2. bufferindex[t] \in Nat /\ bufferindex[t] <= BUFFERSIZE /\ BUFFERSIZE \in Nat
  BY <1>1, Bounds
<1>3. \A s \in Seq(Chars) : Len(s) \in Nat /\ (s = <<>> <=> Len(s) = 0)
  BY LenProperties, EmptySeq
<1> QED BY <1>1, <1>2, <1>3, SizesCount

(* A row that changes nowhere below the index holds what it did.            *)
LEMMA StillHolds ==
  ASSUME NEW t, Holds(t), sent'[t] = sent[t], line'[t] = line[t],
         bufferindex'[t] = bufferindex[t],
         \A i \in 0 .. bufferindex[t] - 1 :
           keyboardbuffer'[Cell(t, i)] = keyboardbuffer[Cell(t, i)]
  PROVE  Holds(t)'
<1>1. \A i \in 0 .. bufferindex[t] - 1 : TextAt(t, i)' = TextAt(t, i)
  BY DEF TextAt
<1> QED BY <1>1 DEF Holds

(* A character written at the index, as the next of what is typed.          *)
LEMMA OneMore ==
  ASSUME LINE_ROOM <= BUFFERSIZE, TypeOK, NEW t \in Terminals, Holds(t),
         bufferindex[t] < BUFFERSIZE, NEW ch \in Chars,
         keyboardbuffer' =
           [keyboardbuffer EXCEPT ![Cell(t, bufferindex[t])] = ch],
         bufferindex'[t] = bufferindex[t] + 1,
         \/ sent'[t] = sent[t] /\ line'[t] = Append(line[t], ch)
         \/ sent[t] = <<>> /\ sent'[t] = Append(line[t], ch) /\ line'[t] = <<>>
  PROVE  Holds(t)'
<1>1. PICK a \in Nat, b \in Nat : a = Len(sent[t]) /\ b = Len(line[t])
  BY LineFacts
<1>2. /\ bufferindex[t] = a + b /\ bufferindex'[t] = a + b + 1
      /\ \A i \in 0 .. a + b - 1 : keyboardbuffer[Cell(t, i)] =
           IF i < a THEN sent[t][i + 1] ELSE line[t][i - a + 1]
  <2>1. bufferindex[t] = a + b
    BY <1>1 DEF Holds
  <2>2. \A i \in 0 .. a + b - 1 : keyboardbuffer[Cell(t, i)] = TextAt(t, i)
    <3>1. \A i \in 0 .. bufferindex[t] - 1 : keyboardbuffer[Cell(t, i)] = TextAt(t, i)
      BY DEF Holds
    <3>2. ASSUME NEW i \in 0 .. a + b - 1 PROVE i \in 0 .. bufferindex[t] - 1
      BY <2>1
    <3> QED BY <3>1, <3>2
  <2>3. \A i \in 0 .. a + b - 1 :
          TextAt(t, i) = IF i < a THEN sent[t][i + 1] ELSE line[t][i - a + 1]
    BY <1>1 DEF TextAt
  <2> QED BY <2>1, <2>2, <2>3
<1>3. /\ keyboardbuffer'[Cell(t, a + b)] = ch
      /\ \A i \in 0 .. a + b - 1 :
           keyboardbuffer'[Cell(t, i)] = keyboardbuffer[Cell(t, i)]
  <2>1. /\ keyboardbuffer \in [Addresses -> Chars] /\ a + b \in 0 .. BUFFERSIZE - 1
        /\ \A i \in 0 .. a + b - 1 : i \in 0 .. BUFFERSIZE - 1 /\ i # a + b
    <3>1. a + b < BUFFERSIZE /\ BUFFERSIZE \in Nat
      BY <1>2, Bounds
    <3>2. keyboardbuffer \in [Addresses -> Chars]
      BY DEF TypeOK
    <3> QED BY <3>1, <3>2
  <2> QED BY <1>2, <2>1, Cells
<1>4. PICK more : more = Append(line[t], ch)
  OBVIOUS
<1>5. /\ Len(more) = b + 1 /\ more[b + 1] = ch
      /\ \A i \in 1 .. b : more[i] = line[t][i]
  BY <1>1, <1>4, LineFacts, AppendProperties
<1>6. CASE sent'[t] = sent[t] /\ line'[t] = more
  <2>1. Len(sent'[t]) = a /\ Len(line'[t]) = b + 1
    BY <1>1, <1>5, <1>6
  <2>2. \A i \in 0 .. a + b : keyboardbuffer'[Cell(t, i)] =
          IF i < a THEN sent[t][i + 1] ELSE more[i - a + 1]
    <3> SUFFICES ASSUME NEW i \in 0 .. a + b
                 PROVE  keyboardbuffer'[Cell(t, i)] =
                          IF i < a THEN sent[t][i + 1] ELSE more[i - a + 1]
      OBVIOUS
    <3>1. CASE i = a + b
      <4>1. ~ i < a /\ i - a + 1 = b + 1
        BY <3>1
      <4> QED BY <1>3, <1>5, <3>1, <4>1
    <3>2. CASE i # a + b /\ i < a
      BY <1>2, <1>3, <3>2
    <3>3. CASE i # a + b /\ ~ i < a
      <4>1. i \in 0 .. a + b - 1 /\ i - a + 1 \in 1 .. b
        BY <3>3
      <4> QED BY <1>2, <1>3, <1>5, <3>3, <4>1
    <3> QED BY <3>1, <3>2, <3>3
  <2> QED BY <1>2, <1>6, <2>1, <2>2 DEF Holds, TextAt
<1>7. CASE sent[t] = <<>> /\ sent'[t] = more /\ line'[t] = <<>>
  <2>1. Len(sent'[t]) = b + 1 /\ Len(line'[t]) = 0 /\ a = 0
    BY <1>1, <1>5, <1>7
  <2>2. \A i \in 0 .. b : keyboardbuffer'[Cell(t, i)] = more[i + 1]
    BY <1>2, <1>3, <1>5, <2>1
  <2> QED BY <1>2, <1>7, <2>1, <2>2 DEF Holds, TextAt
<1> QED BY <1>4, <1>6, <1>7

(* What one handler run of the keyboard does to the line of the terminal on *)
(* the screen.                                                              *)
LEMMA KeyLine ==
  ASSUME LINE_ROOM <= BUFFERSIZE, TypeOK, NEW t \in Terminals, t = current_terminal,
         LineOK(t), NEW k \in KEYS, Key(k)
  PROVE  LineOK(t)'
<1>1. PICK ch \in Chars : ch = <<k, Array>> /\ ch # Newline
  BY CharsDiffer
<1>2. /\ bufferindex[t] < BUFFERSIZE /\ pc' = pc /\ sent' = sent
      /\ keyboardbuffer' = [keyboardbuffer EXCEPT ![Cell(t, bufferindex[t])] = ch]
      /\ bufferindex'[t] = bufferindex[t] + 1
      /\ UNCHANGED <<read_flag, enter_flag, nbytes, index, buf, raced>>
      /\ ~ Clearing(t) => line'[t] = Append(line[t], ch)
      /\ Clearing(t) => line' = line
  BY <1>1 DEF Key, TypeOK, shown, reader
<1>3. ~ Clearing(t) => Holds(t)'
  BY <1>2, OneMore DEF LineOK
<1>4. sent[t] = <<>> => NoNewline(line'[t])
  <2>1. \A i \in 1 .. Len(line[t]) + 1 : Append(line[t], ch)[i] # Newline
        \/ ~ NoNewline(line[t])
    <3>1. /\ \A i \in 1 .. Len(line[t]) : Append(line[t], ch)[i] = line[t][i]
          /\ Append(line[t], ch)[Len(line[t]) + 1] = ch
      BY LineFacts, AppendProperties
    <3> QED BY <1>1, <3>1, LineFacts DEF NoNewline
  <2>2. Len(Append(line[t], ch)) = Len(line[t]) + 1
    BY LineFacts, AppendProperties
  <2> QED BY <1>2, <2>1, <2>2 DEF LineOK, NoNewline
<1>5. Clearing(t)' <=> Clearing(t)
  BY <1>2 DEF Clearing
<1> QED BY <1>2, <1>3, <1>4, <1>5 DEF LineOK, OnItsLine, Has, Delivered

(* The last character taken back: of what was typed, or else of the line    *)
(* that was ended.                                                          *)
LEMMA OneLess ==
  ASSUME LINE_ROOM <= BUFFERSIZE, TypeOK, NEW t \in Terminals, Holds(t),
         NEW j \in 0 .. BUFFERSIZE - 1,
         j = IF bufferindex[t] # 0 THEN bufferindex[t] - 1 ELSE 0,
         bufferindex'[t] = j,
         keyboardbuffer' = [keyboardbuffer EXCEPT ![Cell(t, j)] = Nothing],
         \/ /\ line[t] # <<>> \/ sent[t] = <<>>
            /\ sent'[t] = sent[t] /\ line'[t] = ButLast(line[t])
         \/ /\ line[t] = <<>> /\ sent[t] # <<>>
            /\ sent'[t] = <<>> /\ line'[t] = ButLast(sent[t])
  PROVE  Holds(t)'
<1>1. PICK a \in Nat, b \in Nat : a = Len(sent[t]) /\ b = Len(line[t])
  BY LineFacts
<1>2. /\ bufferindex[t] = a + b
      /\ \A i \in 0 .. bufferindex[t] - 1 :
           keyboardbuffer[Cell(t, i)] = TextAt(t, i)
      /\ \A i \in Nat :
           TextAt(t, i) = IF i < a THEN sent[t][i + 1] ELSE line[t][i - a + 1]
  BY <1>1 DEF Holds, TextAt
<1>3. \A i \in 0 .. j - 1 :
        keyboardbuffer'[Cell(t, i)] =
          IF i < a THEN sent[t][i + 1] ELSE line[t][i - a + 1]
  <2> SUFFICES ASSUME NEW i \in 0 .. j - 1
               PROVE  keyboardbuffer'[Cell(t, i)] = TextAt(t, i)
    BY <1>2
  <2>1. /\ i \in 0 .. BUFFERSIZE - 1 /\ i # j /\ i \in 0 .. bufferindex[t] - 1
        /\ BUFFERSIZE \in Nat
    BY <1>2, Bounds
  <2>2. keyboardbuffer \in [Addresses -> Chars]
    BY DEF TypeOK
  <2>3. keyboardbuffer'[Cell(t, i)] = keyboardbuffer[Cell(t, i)]
    BY <2>1, <2>2, Cells
  <2> QED BY <1>2, <2>1, <2>3
<1>4. \A s \in Seq(Chars) :
        /\ Len(ButLast(s)) = IF Len(s) = 0 THEN 0 ELSE Len(s) - 1
        /\ \A i \in 1 .. Len(s) - 1 : ButLast(s)[i] = s[i]
  BY Shorter DEF ButLast
<1>5. CASE /\ line[t] # <<>> \/ sent[t] = <<>>
           /\ sent'[t] = sent[t] /\ line'[t] = ButLast(line[t])
  <2>1. PICK c \in Nat : c = Len(line'[t]) /\ c = IF b = 0 THEN 0 ELSE b - 1
    <3>1. line[t] \in Seq(Chars)
      BY LineFacts
    <3>2. Len(line'[t]) = IF b = 0 THEN 0 ELSE b - 1
      BY <1>1, <1>4, <1>5, <3>1
    <3>3. (IF b = 0 THEN 0 ELSE b - 1) \in Nat
      OBVIOUS
    <3> QED BY <3>2, <3>3
  <2>2. Len(sent'[t]) = a /\ j = a + c
    <3>1. b # 0 \/ a = 0
      BY <1>1, <1>5, LineFacts
    <3>2. Len(sent'[t]) = a
      BY <1>1, <1>5
    <3>3. bufferindex[t] = a + b
      BY <1>2
    <3>4. j = IF a + b # 0 THEN a + b - 1 ELSE 0
      BY <3>3
    <3> QED BY <2>1, <3>1, <3>2, <3>4
  <2>3. \A i \in 1 .. c : line'[t][i] = line[t][i]
    BY <1>1, <1>4, <1>5, <2>1, LineFacts
  <2>4. \A i \in 0 .. j - 1 : keyboardbuffer'[Cell(t, i)] =
          IF i < a THEN sent'[t][i + 1] ELSE line'[t][i - a + 1]
    <3> SUFFICES ASSUME NEW i \in 0 .. j - 1
                 PROVE  keyboardbuffer'[Cell(t, i)] =
                          IF i < a THEN sent'[t][i + 1] ELSE line'[t][i - a + 1]
      OBVIOUS
    <3>1. CASE i < a
      BY <1>3, <1>5, <3>1
    <3>2. CASE ~ i < a
      <4>1. i - a + 1 \in 1 .. c
        BY <2>2, <3>2
      <4> QED BY <1>3, <2>3, <3>2, <4>1
    <3> QED BY <3>1, <3>2
  <2> QED BY <2>1, <2>2, <2>4 DEF Holds, TextAt
<1>6. CASE /\ line[t] = <<>> /\ sent[t] # <<>>
           /\ sent'[t] = <<>> /\ line'[t] = ButLast(sent[t])
  <2>1. b = 0 /\ a # 0 /\ j = a - 1
    BY <1>1, <1>2, <1>6, LineFacts
  <2>2. Len(line'[t]) = j /\ \A i \in 1 .. j : line'[t][i] = sent[t][i]
    <3>1. sent[t] \in Seq(Chars)
      BY LineFacts
    <3>2. /\ Len(line'[t]) = IF a = 0 THEN 0 ELSE a - 1
          /\ \A i \in 1 .. a - 1 : line'[t][i] = sent[t][i]
      BY <1>1, <1>4, <1>6, <3>1
    <3> QED BY <2>1, <3>2
  <2>3. Len(sent'[t]) = 0
    BY <1>6
  <2>4. \A i \in 0 .. j - 1 : keyboardbuffer'[Cell(t, i)] = line'[t][i + 1]
    <3> SUFFICES ASSUME NEW i \in 0 .. j - 1
                 PROVE  keyboardbuffer'[Cell(t, i)] = line'[t][i + 1]
      OBVIOUS
    <3>1. i < a /\ i + 1 \in 1 .. j
      BY <2>1
    <3> QED BY <1>3, <2>2, <3>1
  <2>5. \A i \in 0 .. j - 1 : TextAt(t, i)' = line'[t][i + 1]
    <3> SUFFICES ASSUME NEW i \in 0 .. j - 1
                 PROVE  TextAt(t, i)' = line'[t][i + 1]
      OBVIOUS
    <3>1. ~ i < 0 /\ i - 0 + 1 = i + 1
      OBVIOUS
    <3> QED BY <2>3, <3>1 DEF TextAt
  <2>6. bufferindex'[t] = Len(sent'[t]) + Len(line'[t])
    BY <2>2, <2>3
  <2>7. \A i \in 0 .. j - 1 : keyboardbuffer'[Cell(t, i)] = TextAt(t, i)'
    BY <2>4, <2>5
  <2> QED BY <2>6, <2>7 DEF Holds
<1> QED BY <1>5, <1>6

LEMMA BackspaceLine ==
  ASSUME LINE_ROOM <= BUFFERSIZE, TypeOK, NEW t \in Terminals, t = current_terminal,
         LineOK(t), Backspace
  PROVE  LineOK(t)'
<1>1. PICK j : j = LastIndex
  OBVIOUS
<1>2. /\ j \in 0 .. BUFFERSIZE - 1 /\ bufferindex'[t] = j
      /\ j = IF bufferindex[t] # 0 THEN bufferindex[t] - 1 ELSE 0
  <2>1. bufferindex[t] \in Nat /\ bufferindex[t] <= BUFFERSIZE /\ BUFFERSIZE > 0
        /\ BUFFERSIZE \in Nat
    BY LineFacts, Bounds
  <2>2. j = IF bufferindex[t] # 0 THEN bufferindex[t] - 1 ELSE 0
    BY <1>1 DEF LastIndex, shown
  <2>3. bufferindex'[t] = j
    BY <1>1 DEF Backspace, shown, TypeOK
  <2> QED BY <2>1, <2>2, <2>3
<1>3. /\ keyboardbuffer' = [keyboardbuffer EXCEPT ![Cell(t, j)] = Nothing]
      /\ pc' = pc
      /\ UNCHANGED <<read_flag, enter_flag, nbytes, index, buf>>
  BY <1>1 DEF Backspace, Erased, shown, reader
<1>4. CASE Clearing(t)
  <2>1. UNCHANGED <<line, sent, raced>>
    BY <1>4 DEF Backspace, TakeBack, shown
  <2> QED BY <1>3, <1>4, <2>1 DEF LineOK, OnItsLine, Has, Delivered, Clearing
<1>5. CASE ~ Clearing(t) /\ (line[t] # <<>> \/ sent[t] = <<>>)
  <2>1. sent' = sent /\ raced' = raced /\ line'[t] = ButLast(line[t])
    BY <1>5 DEF Backspace, TakeBack, shown, TypeOK
  <2>2. Holds(t)'
    BY <1>2, <1>3, <1>5, <2>1, OneLess DEF LineOK
  <2>3. sent[t] = <<>> => NoNewline(line'[t])
    <3>1. /\ Len(line'[t]) = IF Len(line[t]) = 0 THEN 0 ELSE Len(line[t]) - 1
          /\ \A i \in 1 .. Len(line[t]) - 1 : line'[t][i] = line[t][i]
      BY <2>1, LineFacts, Shorter DEF ButLast
    <3>2. Len(line[t]) \in Nat
      BY LineFacts
    <3> QED BY <3>1, <3>2 DEF LineOK, NoNewline
  <2> QED BY <1>3, <2>1, <2>2, <2>3 DEF LineOK, OnItsLine, Has, Delivered, Clearing
<1>6. CASE ~ Clearing(t) /\ line[t] = <<>> /\ sent[t] # <<>>
  <2>1. /\ sent'[t] = <<>> /\ line'[t] = ButLast(sent[t])
        /\ t \notin raced' => /\ t \notin raced
                              /\ pc[t] \notin {"copy", "check"}
                              /\ ~ (pc[t] = "spin" /\ enter_flag[t])
    BY <1>6 DEF Backspace, TakeBack, shown, TypeOK
  <2>2. Holds(t)'
    BY <1>2, <1>3, <1>6, <2>1, OneLess DEF LineOK
  <2>3. NoNewline(line'[t])
    <3>1. /\ Len(line'[t]) = IF Len(sent[t]) = 0 THEN 0 ELSE Len(sent[t]) - 1
          /\ \A i \in 1 .. Len(sent[t]) - 1 : line'[t][i] = sent[t][i]
      BY <2>1, LineFacts, Shorter DEF ButLast
    <3>2. Len(sent[t]) \in Nat
      BY LineFacts
    <3>3. IsLine(sent[t])
      BY <1>6 DEF LineOK
    <3> QED BY <3>1, <3>2, <3>3 DEF IsLine, NoNewline
  <2> QED BY <1>3, <1>6, <2>1, <2>2, <2>3 DEF LineOK, OnItsLine, Clearing
<1> QED BY <1>4, <1>5, <1>6

LEMMA EnterLineLine ==
  ASSUME LINE_ROOM <= BUFFERSIZE, TypeOK, NEW t \in Terminals, t = current_terminal,
         LineOK(t), EnterLine
  PROVE  LineOK(t)'
<1>1. /\ bufferindex[t] < BUFFERSIZE /\ pc' = pc /\ read_flag[t]
      /\ keyboardbuffer' =
           [keyboardbuffer EXCEPT ![Cell(t, bufferindex[t])] = Newline]
      /\ bufferindex'[t] = bufferindex[t] + 1
      /\ UNCHANGED <<read_flag, nbytes, index, buf>>
      /\ t \notin raced' => t \notin raced \/ pc[t] = "spin"
  <2>1. bufferindex[t] \in Nat /\ bufferindex[t] < LINE_ROOM /\ LINE_ROOM \in Nat
    BY LineFacts, Bounds DEF EnterLine, shown
  <2>2. bufferindex[t] < BUFFERSIZE
    BY <2>1, Bounds
  <2> QED BY <2>2 DEF EnterLine, shown, reader, TypeOK
<1>2. pc[t] \in Reading /\ Newline \in Chars
  BY <1>1, CharsDiffer DEF LineOK
<1>3. PICK ended : ended = Append(line[t], Newline)
  OBVIOUS
<1>4. /\ ended # <<>> /\ Len(ended) = Len(line[t]) + 1
      /\ ended[Len(line[t]) + 1] = Newline
      /\ \A i \in 1 .. Len(line[t]) : ended[i] = line[t][i]
      /\ Len(line[t]) \in Nat
  BY <1>2, <1>3, LineFacts, AppendProperties
<1>5. CASE Clearing(t)
  <2>1. UNCHANGED <<line, sent>>
    BY <1>5 DEF EnterLine, shown
  <2>2. t \notin raced' => t \notin raced
    BY <1>1, <1>5 DEF Clearing
  <2> QED BY <1>1, <1>5, <2>1, <2>2 DEF LineOK, OnItsLine, Has, Delivered, Clearing
<1>6. CASE ~ Clearing(t) /\ sent[t] = <<>>
  <2>1. sent'[t] = ended /\ line'[t] = <<>>
    BY <1>3, <1>6 DEF EnterLine, shown, TypeOK
  <2>2. Holds(t)'
    BY <1>1, <1>2, <1>3, <1>6, <2>1, OneMore DEF LineOK
  <2>3. IsLine(sent'[t])
    <3>1. NoNewline(line[t])
      BY <1>6 DEF LineOK
    <3> QED BY <1>4, <2>1, <3>1 DEF IsLine, NoNewline
  <2>4. ASSUME t \notin raced PROVE pc[t] \notin {"copy", "check"}
    <3>1. OnItsLine(t)
      BY <2>4 DEF LineOK
    <3>2. Len(sent[t]) = 0 /\ index[t] \in Nat
      BY <1>6, LineFacts
    <3> QED BY <3>1, <3>2 DEF OnItsLine, Has
  <2> QED BY <1>1, <1>2, <1>4, <1>6, <2>1, <2>2, <2>3, <2>4
          DEF LineOK, OnItsLine, Clearing, Reading
<1>7. CASE ~ Clearing(t) /\ sent[t] # <<>>
  <2>1. sent'[t] = sent[t] /\ line'[t] = ended
    BY <1>3, <1>7 DEF EnterLine, shown, TypeOK
  <2>2. Holds(t)'
    BY <1>1, <1>2, <1>3, <1>7, <2>1, OneMore DEF LineOK
  <2> QED BY <1>1, <1>2, <1>7, <2>1, <2>2
          DEF LineOK, OnItsLine, Has, Delivered, Clearing, Reading
<1> QED BY <1>5, <1>6, <1>7

LEMMA EnterNoReaderLine ==
  ASSUME LINE_ROOM <= BUFFERSIZE, TypeOK, NEW t \in Terminals, t = current_terminal,
         LineOK(t), EnterNoReader
  PROVE  LineOK(t)'
<1>1. /\ ~ read_flag[t] /\ pc' = pc
      /\ bufferindex'[t] = 0 /\ sent'[t] = <<>> /\ line'[t] = <<>>
      /\ UNCHANGED <<read_flag, nbytes, index, buf>>
      /\ t \notin raced' => pc[t] # "announce"
  BY DEF EnterNoReader, shown, reader, TypeOK
<1>2. pc[t] \notin Reading
  BY <1>1 DEF LineOK
<1>3. Holds(t)' /\ NoNewline(<<>>)
  BY <1>1 DEF Holds, NoNewline
<1> QED BY <1>1, <1>2, <1>3 DEF LineOK, OnItsLine, Reading

(* What the other keys do to it.                                            *)
LEMMA OtherKeysLine ==
  ASSUME TypeOK, NEW t \in Terminals, t = current_terminal, LineOK(t),
         \/ \E m \in MODIFIERS : ModifierDown(m) \/ ModifierUp(m)
         \/ EnterRelease
         \/ \E u \in Terminals : AltFn(u)
  PROVE  LineOK(t)'
<1>1. /\ UNCHANGED <<read_flag, keyboardbuffer, bufferindex, reader, sent, line>>
      /\ enter_flag'[t] => enter_flag[t]
      /\ t \notin raced' => t \notin raced \/ (pc[t] \in {"announce", "spin"} /\ ~ enter_flag'[t])
  BY DEF ModifierDown, ModifierUp, EnterRelease, AltFn, typed, history, shown, TypeOK
<1>2. Holds(t)' <=> Holds(t)
  BY <1>1 DEF Holds, TextAt, reader
<1> QED BY <1>1, <1>2 DEF LineOK, OnItsLine, Has, Delivered, Clearing, reader

(* The steps of terminal_read that leave the line as it is.                 *)
LEMMA ReaderLine ==
  ASSUME LINE_ROOM <= BUFFERSIZE, TypeOK, NEW t \in Terminals, t = current_terminal,
         LineOK(t),
         \/ \E n \in NBYTES : ReadCall(n)
         \/ ReadForgetEnter \/ ReadAnnounce \/ ReadWake \/ ReadReturn
  PROVE  LineOK(t)'
<1> USE DEF unread, typed, shown, At, Goto
<1>1. UNCHANGED <<keyboardbuffer, bufferindex, sent, line, raced>>
  BY DEF ReadCall, ReadForgetEnter, ReadAnnounce, ReadWake, ReadReturn
<1>2. Holds(t)' <=> Holds(t)
  BY <1>1 DEF Holds, TextAt
<1>3. Len(<<>>) = 0
  OBVIOUS
<1>4. CASE \E n \in NBYTES : ReadCall(n)
  <2>1. /\ pc[t] = "program" /\ pc'[t] = "called"
        /\ UNCHANGED <<read_flag, buf>>
    BY <1>4 DEF ReadCall, TypeOK
  <2> QED BY <1>1, <1>2, <2>1 DEF LineOK, OnItsLine, Clearing, Reading
<1>5. CASE ReadForgetEnter
  <2>1. /\ pc[t] = "called" /\ pc'[t] = "announce" /\ ~ enter_flag'[t]
        /\ UNCHANGED <<read_flag, buf>>
    BY <1>5 DEF ReadForgetEnter, TypeOK
  <2> QED BY <1>1, <1>2, <2>1 DEF LineOK, OnItsLine, Clearing, Reading
<1>6. CASE ReadAnnounce
  <2>1. /\ pc[t] = "announce" /\ pc'[t] = "spin" /\ read_flag'[t]
        /\ UNCHANGED <<enter_flag, buf>>
    BY <1>6 DEF ReadAnnounce, TypeOK
  <2> QED BY <1>1, <1>2, <2>1 DEF LineOK, OnItsLine, Clearing, Reading
<1>7. CASE ReadWake
  <2>1. /\ pc[t] = "spin" /\ enter_flag[t]
        /\ pc'[t] = IF nbytes[t] = 0 THEN "clear" ELSE "copy"
        /\ UNCHANGED <<read_flag, buf, nbytes, index>>
    BY <1>7 DEF ReadWake, TypeOK
  <2>2. buf[t] = <<>> /\ index[t] = 0
    BY <2>1, LineFacts DEF LineOK, LoopInBounds, Reading
  <2>3. t \notin raced => sent[t] # <<>> /\ Len(sent[t]) \in Nat /\ Len(sent[t]) > 0
    BY <2>1, LineFacts DEF LineOK, OnItsLine
  <2>4. t \notin raced => OnItsLine(t)'
    <3>1. CASE nbytes[t] = 0
      BY <1>1, <1>3, <2>1, <2>2, <2>3, <3>1 DEF OnItsLine, Has, Delivered
    <3>2. CASE nbytes[t] # 0
      BY <1>1, <1>3, <2>1, <2>2, <2>3, <3>2 DEF OnItsLine, Has
    <3> QED BY <3>1, <3>2
  <2> QED BY <1>1, <1>2, <2>1, <2>4 DEF LineOK, Clearing, Reading
<1>8. CASE ReadReturn
  <2>1. /\ pc[t] = "return" /\ pc'[t] = "program" /\ ~ read_flag'[t]
        /\ buf'[t] = <<>>
    BY <1>8 DEF ReadReturn, TypeOK
  <2> QED BY <1>1, <1>2, <2>1 DEF LineOK, OnItsLine, Clearing, Reading
<1> QED BY <1>4, <1>5, <1>6, <1>7, <1>8

(* The copying loop gets the line it woke up for, a cell at a time: what    *)
(* keys do behind it does not matter.                                       *)
LEMMA LoopLine ==
  ASSUME LINE_ROOM <= BUFFERSIZE, TypeOK, NEW t \in Terminals, t = current_terminal,
         LineOK(t), ReadCopy \/ ReadCheck
  PROVE  LineOK(t)'
<1> USE DEF unread, typed, shown, At, Goto
<1>1. /\ UNCHANGED <<keyboardbuffer, bufferindex, sent, line, raced, read_flag,
                     enter_flag, nbytes>>
      /\ pc[t] \in {"copy", "check"}
  BY DEF ReadCopy, ReadCheck
<1>2. Holds(t)' <=> Holds(t)
  BY <1>1 DEF Holds, TextAt
<1>3. PICK a \in Nat, n \in Nat : a = Len(sent[t]) /\ n = index[t]
  BY LineFacts
<1>4. ASSUME t \notin raced
      PROVE  /\ n < a /\ Memory(Cell(t, n)) = {sent[t][n + 1]}
             /\ IsLine(sent[t]) /\ n < nbytes[t] /\ nbytes[t] \in Nat
  <2>1. n < a
    BY <1>1, <1>3, <1>4 DEF LineOK, OnItsLine, Has
  <2>2. Holds(t) /\ IsLine(sent[t])
    BY <1>1, <1>3, <2>1 DEF LineOK, Clearing
  <2>3. n \in 0 .. bufferindex[t] - 1 /\ n \in 0 .. BUFFERSIZE - 1
    <3>1. /\ bufferindex[t] = a + Len(line[t]) /\ Len(line[t]) \in Nat
          /\ bufferindex[t] <= BUFFERSIZE /\ BUFFERSIZE \in Nat
      BY <1>3, <2>2, LineFacts DEF Holds
    <3> QED BY <2>1, <3>1
  <2>4. keyboardbuffer[Cell(t, n)] = sent[t][n + 1]
    BY <1>3, <2>1, <2>2, <2>3 DEF Holds, TextAt
  <2>5. Memory(Cell(t, n)) = {sent[t][n + 1]}
    BY <2>3, <2>4, Cells DEF Memory
  <2> QED BY <1>1, <1>3, <2>1, <2>2, <2>5, LineFacts DEF LoopInBounds
<1>5. CASE ReadCopy
  <2>1. PICK c \in Memory(Cell(t, n)) : buf' = [buf EXCEPT ![t] = Append(@, c)]
    BY <1>3, <1>5 DEF ReadCopy
  <2>2. pc[t] = "copy" /\ pc'[t] = "check" /\ index' = index
    BY <1>5 DEF ReadCopy, TypeOK
  <2>3. c \in Chars
    BY MemoryChars DEF TypeOK
  <2>4. /\ Len(buf'[t]) = Len(buf[t]) + 1
        /\ buf'[t][Len(buf[t]) + 1] = c
        /\ \A i \in 1 .. Len(buf[t]) : buf'[t][i] = buf[t][i]
    <3>1. buf'[t] = Append(buf[t], c)
      BY <2>1 DEF TypeOK
    <3> QED BY <2>3, <3>1, LineFacts, AppendProperties
  <2>5. ASSUME t \notin raced PROVE OnItsLine(t)'
    <3>1. /\ Len(buf[t]) = n /\ \A i \in 1 .. n : buf[t][i] = sent[t][i]
          /\ n < a /\ c = sent[t][n + 1]
      BY <1>3, <1>4, <2>2, <2>5 DEF LineOK, OnItsLine, Has
    <3>2. \A i \in 1 .. n + 1 : buf'[t][i] = sent[t][i]
      BY <2>4, <3>1
    <3> QED BY <1>1, <1>3, <2>2, <2>4, <3>1, <3>2 DEF OnItsLine, Has
  <2> QED BY <1>1, <1>2, <2>2, <2>5 DEF LineOK, Clearing, Reading
<1>6. CASE ReadCheck
  <2>1. /\ pc[t] = "check" /\ buf' = buf
        /\ \E c \in Memory(Cell(t, n)) :
             \/ /\ c = Newline \/ n + 1 = nbytes[t]
                /\ pc'[t] = "clear"
             \/ /\ ~ (c = Newline \/ n + 1 = nbytes[t])
                /\ pc'[t] = "copy" /\ index'[t] = n + 1
    BY <1>3, <1>6 DEF ReadCheck, TypeOK
  <2>2. pc'[t] \in {"clear", "copy"}
    BY <2>1
  <2>3. ASSUME t \notin raced PROVE OnItsLine(t)'
    <3>1. Has(t, n + 1)
      BY <1>3, <2>1, <2>3 DEF LineOK, OnItsLine
    <3>2. /\ n < a /\ n < nbytes[t] /\ nbytes[t] \in Nat
          /\ sent[t][n + 1] = Newline <=> n + 1 = a
      BY <1>3, <1>4, <2>3 DEF IsLine
    <3>3. CASE pc'[t] = "clear"
      <4>1. sent[t][n + 1] = Newline \/ n + 1 = nbytes[t]
        BY <1>4, <2>1, <2>3, <3>3
      <4>2. Delivered(t) = n + 1
        BY <1>3, <3>2, <4>1 DEF Delivered
      <4> QED BY <1>1, <2>1, <3>1, <3>3, <4>2 DEF OnItsLine, Has, Delivered
    <3>4. CASE pc'[t] = "copy"
      <4>1. sent[t][n + 1] # Newline /\ index'[t] = n + 1
        BY <1>4, <2>1, <2>3, <3>4
      <4>2. n + 1 < a
        BY <3>2, <4>1
      <4> QED BY <1>1, <1>3, <2>1, <3>1, <3>4, <4>1, <4>2 DEF OnItsLine, Has
    <3> QED BY <2>2, <3>3, <3>4
  <2> QED BY <1>1, <1>2, <2>1, <2>2, <2>3 DEF LineOK, Clearing, Reading
<1> QED BY <1>5, <1>6

(* Nothing of the line is looked at while it is cleared.                    *)
LEMMA ClearLine ==
  ASSUME LINE_ROOM <= BUFFERSIZE, TypeOK, NEW t \in Terminals, t = current_terminal,
         LineOK(t), ReadClear \/ ReadReindex
  PROVE  LineOK(t)'
<1> USE DEF unread, typed, shown, At, Goto
<1>1. CASE ReadClear
  <2>1. /\ UNCHANGED <<read_flag, enter_flag, nbytes, buf, sent, line, raced>>
        /\ pc[t] = "clear" /\ pc'[t] \in {"clear", "reindex"}
    BY <1>1 DEF ReadClear, TypeOK
  <2> QED BY <2>1 DEF LineOK, OnItsLine, Has, Delivered, Clearing, Reading
<1>2. CASE ReadReindex
  <2>1. /\ pc[t] = "reindex" /\ pc'[t] = "return"
        /\ sent'[t] = <<>> /\ line'[t] = <<>> /\ bufferindex'[t] = 0
        /\ UNCHANGED <<read_flag, enter_flag, buf>>
    BY <1>2 DEF ReadReindex, TypeOK
  <2>2. Holds(t)' /\ NoNewline(<<>>)
    BY <2>1 DEF Holds, NoNewline
  <2> QED BY <2>1, <2>2 DEF LineOK, OnItsLine, Clearing, Reading
<1> QED BY <1>1, <1>2

LEMMA LineStep ==
  ASSUME LINE_ROOM <= BUFFERSIZE, TypeOK, Next, NEW t \in Terminals, LineOK(t)
  PROVE  LineOK(t)'
<1>1. CASE t # current_terminal
  <2>1. SameLine(t) /\ SameReader(t)
    BY <1>1, OthersKept
  <2>2. Holds(t) => Holds(t)'
    <3>1. \A i \in 0 .. bufferindex[t] - 1 : i \in 0 .. BUFFERSIZE - 1
      BY LineFacts
    <3> QED BY <2>1, <3>1, StillHolds DEF SameLine
  <2> QED BY <2>1, <2>2 DEF LineOK, OnItsLine, Has, Delivered, Clearing, SameLine,
                            SameReader
<1>2. CASE t = current_terminal
  BY <1>2, KeyLine, BackspaceLine, EnterLineLine, EnterNoReaderLine, OtherKeysLine,
     ReaderLine, LoopLine, ClearLine DEF Next, Enter, ReadStep
<1> QED BY <1>1, <1>2

(* Every read gets the first line that was ended since the buffer was last  *)
(* cleared, cut at the size asked, on every terminal and whatever is typed  *)
(* at any moment of terminal_read, the two races of the comment apart; a    *)
(* line that fits its row is needed, so that none runs into the next.       *)
THEOREM LineRead ==
  ASSUME LINE_ROOM <= BUFFERSIZE
  PROVE  Spec => []ReadGetsTheLine
<1> DEFINE LineInv == \A t \in Terminals : LineOK(t)
<1>1. Init => LineInv
  BY DEF Init, LineOK, Holds, NoNewline, OnItsLine, Clearing, Reading
<1>2. TypeOK /\ LineInv /\ [Next]_vars => LineInv'
  <2> SUFFICES ASSUME TypeOK, LineInv, [Next]_vars, NEW t \in Terminals
               PROVE  LineOK(t)'
    OBVIOUS
  <2>1. CASE Next
    BY <2>1, LineStep
  <2>2. CASE UNCHANGED vars
    <3>1. Holds(t)' <=> Holds(t)
      BY <2>2 DEF vars, history, typed, Holds, TextAt
    <3>2. LineOK(t)
      OBVIOUS
    <3> QED BY <2>2, <3>1, <3>2
            DEF vars, reader, history, typed, LineOK, OnItsLine, Has, Delivered,
                Clearing
  <2> QED BY <2>1, <2>2
<1>3. TypeOK /\ LineInv => ReadGetsTheLine
  <2> SUFFICES ASSUME TypeOK, LineInv, NEW t \in Terminals,
                      pc[t] = "clear", t \notin raced
               PROVE  buf[t] = SubSeq(sent[t], 1, Delivered(t))
    BY DEF ReadGetsTheLine, Delivered
  <2>1. PICK d : d = Delivered(t)
    OBVIOUS
  <2>2. /\ sent[t] \in Seq(Chars) /\ buf[t] \in Seq(Chars)
        /\ Len(sent[t]) \in Nat /\ nbytes[t] \in Nat
    <3>1. sent[t] \in Seq(Chars) /\ buf[t] \in Seq(Chars)
      BY DEF TypeOK
    <3> QED BY <3>1, LenProperties, SizesCount
  <2>3. /\ d \in 1 - 1 .. Len(sent[t]) /\ 1 \in 1 .. Len(sent[t]) + 1
        /\ d - 1 + 1 = d /\ d \in Nat
    BY <2>1, <2>2 DEF Delivered
  <2>4. Len(buf[t]) = d /\ \A i \in 1 .. d : buf[t][i] = sent[t][i]
    BY <2>1 DEF LineOK, OnItsLine, Has
  <2>5. /\ SubSeq(sent[t], 1, d) \in Seq(Chars)
        /\ Len(SubSeq(sent[t], 1, d)) = d
        /\ \A i \in 1 .. d : SubSeq(sent[t], 1, d)[i] = sent[t][i]
    <3>1. /\ SubSeq(sent[t], 1, d) \in Seq(Chars)
          /\ Len(SubSeq(sent[t], 1, d)) = d - 1 + 1
          /\ \A i \in 1 .. d - 1 + 1 : SubSeq(sent[t], 1, d)[i] = sent[t][1 + i - 1]
      BY <2>2, <2>3, SubSeqProperties
    <3>2. \A i \in 1 .. d : 1 + i - 1 = i
      OBVIOUS
    <3> QED BY <2>3, <3>1, <3>2
  <2> QED BY <2>1, <2>2, <2>4, <2>5, SeqEqual
<1> QED BY <1>1, <1>2, <1>3, TypeCorrect, PTL DEF Spec
=============================================================================
