------------------------------- MODULE Terminal -------------------------------
(***************************************************************************)
(* The terminal driver (keyboard.c): the keyboard interrupt handler filling *)
(* one line buffer per terminal, against terminal_read, which spins with   *)
(* interrupts enabled and shares the buffer and two flags with it.         *)
(*                                                                         *)
(* One program per terminal calls terminal_read.  Its code runs only while *)
(* its terminal is on the screen (module Tasks).  The handler sends its    *)
(* EOI last, so one run of it is one step; it may come between any two     *)
(* accesses of terminal_read to what they share.                           *)
(***************************************************************************)
EXTENDS Integers, Sequences

CONSTANTS NUMTERMINALS,   \* terminals
          BUFFERSIZE,     \* characters of a line buffer
          KEYS,           \* the character keys
          MODIFIERS,      \* the modifier keys in use, "alt" among them
          NBYTES,         \* the sizes programs read
          READERS,        \* bound: the terminals whose program reads
          LINE_ROOM       \* bound: cells a line may take, its newline included

ASSUME TerminalsAssumption == NUMTERMINALS \in Nat \ {0}
ASSUME BufferAssumption == BUFFERSIZE \in Nat \ {0} /\ LINE_ROOM \in Nat \ {0}
ASSUME KeysAssumption == MODIFIERS \subseteq {"alt", "shift", "ctrl", "caps"}

Terminals == 0 .. NUMTERMINALS - 1
ASSUME ReadAssumption == NBYTES \subseteq Nat /\ READERS \subseteq Terminals

(* keyboardbuffer is one block of memory, row after row; the cells past its *)
(* end belong to other variables.                                           *)
Addresses == 0 .. NUMTERMINALS * BUFFERSIZE + LINE_ROOM
Cell(t, i) == t * BUFFERSIZE + i
Row(t) == {Cell(t, i) : i \in 0 .. BUFFERSIZE - 1}

(* A character is a key and the translation array it went through.          *)
Arrays == {"first", "second", "third", "fourth"}
Newline == <<"enter", "newline">>
Nothing == <<"none", "zero">>                      \* the byte 0
Chars == (KEYS \X Arrays) \cup {Newline, Nothing}

VARIABLES
  current_terminal,
  functionflags,     \* per terminal, the modifiers whose flag is ON
  enter_flag,
  read_flag,
  keyboardbuffer,    \* address -> character
  bufferindex,
  pc,                \* where each terminal's program is
  nbytes,            \* the size it is reading
  index,             \* the counter of terminal_read's current loop
  buf,               \* the bytes terminal_read has copied for it
  held,              \* the modifier keys that are down
  sent,              \* history: the first line ended since the buffer was
                     \* last cleared, with its newline; empty for none
  line,              \* history: what was typed since
  raced,             \* history: terminals where a key raced the reader
  dragged            \* history: terminals where one came while it cleared

reader == <<pc, nbytes, index, buf>>
typed == <<sent, line, raced, dragged>>
history == <<held, typed>>
vars == <<current_terminal, functionflags, enter_flag, read_flag,
          keyboardbuffer, bufferindex, reader, history>>

Init ==
  /\ current_terminal = 0
  /\ functionflags = [t \in Terminals |-> {}]
  /\ enter_flag = [t \in Terminals |-> FALSE]
  /\ read_flag = [t \in Terminals |-> FALSE]
  /\ keyboardbuffer = [a \in Addresses |-> Nothing]
  /\ bufferindex = [t \in Terminals |-> 0]
  /\ pc = [t \in Terminals |-> "program"]
  /\ nbytes = [t \in Terminals |-> 0]
  /\ index = [t \in Terminals |-> 0]
  /\ buf = [t \in Terminals |-> <<>>]
  /\ held = {}
  /\ sent = [t \in Terminals |-> <<>>]
  /\ line = [t \in Terminals |-> <<>>]
  /\ raced = {}
  /\ dragged = {}
-----------------------------------------------------------------------------
shown == current_terminal

(* terminal_read is clearing the line: what is typed now is lost.           *)
Clearing(t) == pc[t] \in {"clear", "reindex"}

Cleared_AllRows(t, b) == [a \in Addresses |-> Nothing]
Cleared(t, b) == [a \in Addresses |-> IF a \in Row(t) THEN Nothing ELSE b[a]]

(* Shift, Ctrl and Alt, going down and up: the flag of the terminal shown.  *)
ModifierDown(m) ==
  /\ m \in MODIFIERS \ held
  /\ held' = held \cup {m}
  /\ functionflags' =
       [functionflags EXCEPT ![shown] =
          IF m = "caps" /\ m \in @ THEN @ \ {m} ELSE @ \cup {m}]
  /\ UNCHANGED <<current_terminal, enter_flag, read_flag, keyboardbuffer,
                 bufferindex, reader, typed>>

ModifierUp_Ignored(m) ==
  /\ m \in held
  /\ held' = held \ {m}
  /\ UNCHANGED <<current_terminal, functionflags, enter_flag, read_flag,
                 keyboardbuffer, bufferindex, reader, typed>>

ModifierUp(m) ==
  /\ m \in held
  /\ held' = held \ {m}
  /\ functionflags' =
       [functionflags EXCEPT ![shown] = IF m = "caps" THEN @ ELSE @ \ {m}]
  /\ UNCHANGED <<current_terminal, enter_flag, read_flag, keyboardbuffer,
                 bufferindex, reader, typed>>

(* The translation array, by Caps Lock and Shift.                           *)
Array ==
  IF "caps" \in functionflags[shown]
  THEN IF "shift" \in functionflags[shown] THEN "fourth" ELSE "third"
  ELSE IF "shift" \in functionflags[shown] THEN "second" ELSE "first"

(* A key with a character, when the line is not full.                       *)
Key(k) ==
  /\ bufferindex[shown] < BUFFERSIZE
  /\ bufferindex[shown] < LINE_ROOM - 1
  /\ keyboardbuffer' =
       [keyboardbuffer EXCEPT ![Cell(shown, bufferindex[shown])] = <<k, Array>>]
  /\ bufferindex' = [bufferindex EXCEPT ![shown] = @ + 1]
  /\ IF Clearing(shown)
     THEN dragged' = dragged \cup {shown} /\ UNCHANGED line
     ELSE line' = [line EXCEPT ![shown] = Append(@, <<k, Array>>)]
          /\ UNCHANGED dragged
  /\ UNCHANGED <<current_terminal, functionflags, enter_flag, read_flag,
                 reader, held, sent, raced>>

(* The cell Backspace erases, and the buffer with it erased.                *)
LastIndex_Unchecked == bufferindex[shown] - 1
LastIndex == IF bufferindex[shown] # 0 THEN bufferindex[shown] - 1 ELSE 0

Erased_OneTooFar(i) ==
  [keyboardbuffer EXCEPT ![Cell(shown, i + 1)] = Nothing]
Erased(i) == [keyboardbuffer EXCEPT ![Cell(shown, i)] = Nothing]

(* Backspace takes back what was typed last, also the newline of a line     *)
(* that was ended; then a reader that has seen that Enter, or will, does    *)
(* not find it.                                                             *)
ButLast(s) == SubSeq(s, 1, Len(s) - 1)

TakeBack ==
  \/ /\ Clearing(shown)
     /\ UNCHANGED <<line, sent, raced>>
  \/ /\ ~ Clearing(shown)
     /\ line[shown] # <<>> \/ sent[shown] = <<>>
     /\ line' = [line EXCEPT ![shown] = ButLast(@)]
     /\ UNCHANGED <<sent, raced>>
  \/ /\ ~ Clearing(shown)
     /\ line[shown] = <<>> /\ sent[shown] # <<>>
     /\ line' = [line EXCEPT ![shown] = ButLast(sent[shown])]
     /\ sent' = [sent EXCEPT ![shown] = <<>>]
     /\ raced' = IF \/ pc[shown] \in {"copy", "check"}
                    \/ pc[shown] = "spin" /\ enter_flag[shown]
                 THEN raced \cup {shown} ELSE raced

Backspace ==
  /\ bufferindex' = [bufferindex EXCEPT ![shown] = LastIndex]
  /\ keyboardbuffer' = Erased(LastIndex)
  /\ TakeBack
  /\ UNCHANGED <<current_terminal, functionflags, enter_flag, read_flag,
                 reader, held, dragged>>

(* Enter ends the line, for the reader that has announced itself.           *)
EnterLine ==
  /\ read_flag[shown]
  /\ bufferindex[shown] < LINE_ROOM
  /\ keyboardbuffer' = [keyboardbuffer EXCEPT
                           ![Cell(shown, bufferindex[shown])] = Newline]
  /\ bufferindex' = [bufferindex EXCEPT ![shown] = @ + 1]
  /\ enter_flag' = [enter_flag EXCEPT ![shown] = TRUE]
  /\ IF Clearing(shown)
     THEN dragged' = dragged \cup {shown} /\ UNCHANGED <<line, sent>>
     ELSE LET ended == Append(line[shown], Newline)
          IN /\ IF sent[shown] = <<>>
                THEN /\ sent' = [sent EXCEPT ![shown] = ended]
                     /\ line' = [line EXCEPT ![shown] = <<>>]
                ELSE /\ line' = [line EXCEPT ![shown] = ended]
                     /\ UNCHANGED sent
             /\ UNCHANGED dragged
  /\ raced' = IF pc[shown] = "spin" THEN raced \ {shown} ELSE raced
  /\ UNCHANGED <<current_terminal, functionflags, read_flag, reader, held>>

(* With none announced the line is dropped at once.  A reader about to      *)
(* announce itself has lowered enter_flag already: it will find it up.      *)
EnterNoReader ==
  /\ ~ read_flag[shown]
  /\ bufferindex[shown] < LINE_ROOM
  /\ keyboardbuffer' =
       Cleared(shown, [keyboardbuffer EXCEPT
                         ![Cell(shown, bufferindex[shown])] = Newline])
  /\ bufferindex' = [bufferindex EXCEPT ![shown] = 0]
  /\ enter_flag' = [enter_flag EXCEPT ![shown] = TRUE]
  /\ line' = [line EXCEPT ![shown] = <<>>]
  /\ sent' = [sent EXCEPT ![shown] = <<>>]
  /\ dragged' = dragged \ {shown}
  /\ raced' = IF pc[shown] = "announce" THEN raced \cup {shown} ELSE raced
  /\ UNCHANGED <<current_terminal, functionflags, read_flag, reader, held>>

Enter == EnterLine \/ EnterNoReader

EnterRelease ==
  /\ enter_flag[shown]
  /\ enter_flag' = [enter_flag EXCEPT ![shown] = FALSE]
  /\ raced' = IF pc[shown] \in {"announce", "spin"} THEN raced \ {shown}
                                                    ELSE raced
  /\ UNCHANGED <<current_terminal, functionflags, read_flag, keyboardbuffer,
                 bufferindex, reader, held, sent, line, dragged>>

(* Alt+Fn: the code of the old terminal stays where it is, the new one's    *)
(* goes on where it was.                                                    *)
AltFn(t) ==
  /\ "alt" \in functionflags[shown]
  /\ t # current_terminal
  /\ current_terminal' = t
  /\ UNCHANGED <<functionflags, enter_flag, read_flag, keyboardbuffer,
                 bufferindex, reader, history>>
-----------------------------------------------------------------------------
(* terminal_read of the terminal on the screen, step by step.               *)
At(l) == pc[shown] = l
Goto(l) == pc' = [pc EXCEPT ![shown] = l]

(* What terminal_read leaves alone.                                         *)
unread == <<current_terminal, functionflags, held>>

ReadCall(n) ==
  /\ shown \in READERS
  /\ At("program")
  /\ nbytes' = [nbytes EXCEPT ![shown] = n]
  /\ Goto("called")
  /\ UNCHANGED <<unread, typed, enter_flag, read_flag, keyboardbuffer,
                 bufferindex, index, buf>>

ReadForgetEnter_Skipped ==
  /\ At("called")
  /\ Goto("announce")
  /\ UNCHANGED <<unread, typed, enter_flag, read_flag, keyboardbuffer,
                 bufferindex, nbytes, index, buf>>

ReadForgetEnter ==
  /\ At("called")
  /\ enter_flag' = [enter_flag EXCEPT ![shown] = FALSE]
  /\ Goto("announce")
  /\ UNCHANGED <<unread, typed, read_flag, keyboardbuffer, bufferindex, nbytes,
                 index, buf>>

ReadAnnounce ==
  /\ At("announce")
  /\ read_flag' = [read_flag EXCEPT ![shown] = TRUE]
  /\ Goto("spin")
  /\ UNCHANGED <<unread, typed, enter_flag, keyboardbuffer, bufferindex, nbytes,
                 index, buf>>

ReadWake_FirstTerminal ==
  /\ At("spin")
  /\ enter_flag[0]
  /\ Goto(IF nbytes[shown] = 0 THEN "clear" ELSE "copy")
  /\ UNCHANGED <<unread, typed, enter_flag, read_flag, keyboardbuffer,
                 bufferindex, nbytes, index, buf>>

ReadWake ==
  /\ At("spin")
  /\ enter_flag[shown]
  /\ Goto(IF nbytes[shown] = 0 THEN "clear" ELSE "copy")
  /\ UNCHANGED <<unread, typed, enter_flag, read_flag, keyboardbuffer,
                 bufferindex, nbytes, index, buf>>

(* What the loop finds at an address: what lies behind the buffers is up to *)
(* the linker.                                                              *)
Memory(a) == IF a \in Addresses THEN {keyboardbuffer[a]} ELSE Chars

(* One round of the copying loop: a byte is copied,                         *)
ReadCopy ==
  /\ At("copy")
  /\ \E c \in Memory(Cell(shown, index[shown])) :
       buf' = [buf EXCEPT ![shown] = Append(@, c)]
  /\ Goto("check")
  /\ UNCHANGED <<unread, typed, enter_flag, read_flag, keyboardbuffer,
                 bufferindex, nbytes, index>>

(* and its cell looked at again, to end after a newline or nbytes bytes.    *)
ReadCheck ==
  /\ At("check")
  /\ \E c \in Memory(Cell(shown, index[shown])) :
       IF c = Newline \/ index[shown] + 1 = nbytes[shown]
       THEN /\ Goto("clear")
            /\ index' = [index EXCEPT ![shown] = 0]
       ELSE /\ Goto("copy")
            /\ index' = [index EXCEPT ![shown] = @ + 1]
  /\ UNCHANGED <<unread, typed, enter_flag, read_flag, keyboardbuffer,
                 bufferindex, nbytes, buf>>

(* clear_keyboard_buffer, called by terminal_read: cell by cell,            *)
ReadClear ==
  /\ At("clear")
  /\ keyboardbuffer' = [keyboardbuffer EXCEPT
                           ![Cell(shown, index[shown])] = Nothing]
  /\ IF index[shown] + 1 = BUFFERSIZE
     THEN /\ Goto("reindex")
          /\ index' = [index EXCEPT ![shown] = 0]
     ELSE /\ index' = [index EXCEPT ![shown] = @ + 1]
          /\ UNCHANGED pc
  /\ dragged' = IF index[shown] = 0 THEN dragged \ {shown} ELSE dragged
  /\ UNCHANGED <<unread, enter_flag, read_flag, bufferindex, nbytes, buf, sent,
                 line, raced>>

(* then the index: the next line starts here.                               *)
ReadReindex ==
  /\ At("reindex")
  /\ bufferindex' = [bufferindex EXCEPT ![shown] = 0]
  /\ Goto("return")
  /\ sent' = [sent EXCEPT ![shown] = <<>>]
  /\ line' = [line EXCEPT ![shown] = <<>>]
  /\ raced' = raced \ {shown}
  /\ UNCHANGED <<unread, enter_flag, read_flag, keyboardbuffer, nbytes, index,
                 buf, dragged>>

ReadReturn ==
  /\ At("return")
  /\ read_flag' = [read_flag EXCEPT ![shown] = FALSE]
  /\ nbytes' = [nbytes EXCEPT ![shown] = 0]
  /\ buf' = [buf EXCEPT ![shown] = <<>>]
  /\ Goto("program")
  /\ UNCHANGED <<unread, typed, enter_flag, keyboardbuffer, bufferindex, index>>

ReadStep ==
  \/ ReadForgetEnter
  \/ ReadAnnounce
  \/ ReadWake
  \/ ReadCopy
  \/ ReadCheck
  \/ ReadClear
  \/ ReadReindex
  \/ ReadReturn

Next ==
  \/ \E m \in MODIFIERS : ModifierDown(m) \/ ModifierUp(m)
  \/ \E k \in KEYS : Key(k)
  \/ Backspace
  \/ Enter
  \/ EnterRelease
  \/ \E t \in Terminals : AltFn(t)
  \/ \E n \in NBYTES : ReadCall(n)
  \/ ReadStep

Spec == Init /\ [][Next]_vars

(* The CPU executes the code of the terminal on the screen.                 *)
FairSpec == Spec /\ WF_vars(ReadStep)
-----------------------------------------------------------------------------
LoopInBounds(t) ==
  /\ pc[t] \in {"copy", "check"} => index[t] < nbytes[t]
  /\ pc[t] = "clear" => index[t] < BUFFERSIZE
  /\ pc[t] \notin {"copy", "check", "clear"} => index[t] = 0

(* Every variable stays within its type; no line outgrows its bound, and no *)
(* loop of terminal_read its own.                                           *)
TypeOK ==
  /\ current_terminal \in Terminals
  /\ functionflags \in [Terminals -> SUBSET MODIFIERS]
  /\ enter_flag \in [Terminals -> BOOLEAN]
  /\ read_flag \in [Terminals -> BOOLEAN]
  /\ keyboardbuffer \in [Addresses -> Chars]
  /\ bufferindex \in [Terminals -> 0 .. LINE_ROOM]
  /\ pc \in [Terminals -> {"program", "called", "announce", "spin", "copy",
                           "check", "clear", "reindex", "return"}]
  /\ nbytes \in [Terminals -> NBYTES \cup {0}]
  /\ index \in [Terminals -> Nat]
  /\ \A t \in Terminals : LoopInBounds(t)
  /\ buf \in [Terminals -> Seq(Chars)]
  /\ held \subseteq MODIFIERS
  /\ sent \in [Terminals -> Seq(Chars)]
  /\ line \in [Terminals -> Seq(Chars)]
  /\ raced \subseteq Terminals
  /\ dragged \subseteq Terminals

(* A read gets the first line that was ended on its terminal since the      *)
(* buffer was last cleared, as edited, with its newline, cut at nbytes:     *)
(* whatever was typed before the read began, after Enter, or on other       *)
(* terminals meanwhile, wherever in terminal_read the keys come.  But for   *)
(* two races: an Enter between the two flags (keyboard.c:328) wakes the     *)
(* reader on a line that was dropped, and a Backspace takes back the        *)
(* newline that woke it.                                                    *)
ReadGetsTheLine ==
  \A t \in Terminals :
    pc[t] = "clear" /\ t \notin raced =>
      buf[t] = SubSeq(sent[t], 1,
                      IF Len(sent[t]) < nbytes[t] THEN Len(sent[t]) ELSE nbytes[t])

(* With the Alt key up, the flag the handler looks at for F1-F3 is off,     *)
(* though each switch leaves the flag of the old terminal on.               *)
AltFollowsKey == "alt" \notin held => "alt" \notin functionflags[current_terminal]

(* The cells past what was typed are empty, so that a short line never      *)
(* drags along the tail of a longer one, while nothing is being cleared and *)
(* unless a key came while it was.                                          *)
TailIsEmpty ==
  \A t \in Terminals \ dragged : ~ Clearing(t) =>
    \A i \in bufferindex[t] .. BUFFERSIZE - 1 :
      keyboardbuffer[Cell(t, i)] = Nothing

(* Keys change the line buffer of the terminal on the screen only; nothing  *)
(* is added once it holds BUFFERSIZE characters (keyboard.c:248).           *)
OnlyOwnRow ==
  [][\A a \in Addresses \ Row(current_terminal) :
       keyboardbuffer'[a] = keyboardbuffer[a]]_vars

(* The Enter a reader waits for ends its read while its terminal stays on   *)
(* the screen.  It need not.                                                *)
EnterAnswered ==
  \A t \in READERS :
    pc[t] = "spin" /\ enter_flag[t] ~> pc[t] = "program" \/ current_terminal # t

(* It does, whatever is typed while the line is copied and cleared, unless  *)
(* the release of Enter is handled before terminal_read looks at the flag.  *)
EnterAnsweredUnlessReleased ==
  \A t \in READERS :
    pc[t] = "spin" /\ enter_flag[t] ~>
      \/ pc[t] = "program"
      \/ current_terminal # t
      \/ pc[t] = "spin" /\ ~ enter_flag[t]
=============================================================================
