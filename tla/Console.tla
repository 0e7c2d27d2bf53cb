------------------------------- MODULE Console -------------------------------
(***************************************************************************)
(* The screen: the coordinates and drawing routines of lib.c, and their     *)
(* users, terminal_write and the keyboard handler, which redraws the whole  *)
(* line being typed at every key; and the copying of video memory by a      *)
(* terminal switch.                                                         *)
(*                                                                         *)
(* System calls run with interrupts disabled and the handler sends its EOI  *)
(* last, so each of them is one step here.  The one that draws after the    *)
(* EOI is a switch that finds all program numbers in use: keys come between *)
(* its clear and the characters of keyboard_helper.  The line buffer is a   *)
(* sequence: what happens to it inside terminal_read is module Terminal.    *)
(* Attributes are always the same and are left out.                         *)
(***************************************************************************)
EXTENDS Integers, Sequences, SequencesExt

CONSTANTS NUMTERMINALS,  \* terminals
          NUM_COLS,      \* columns
          NUM_ROWS,      \* rows
          SAVED_CELLS,   \* cells in the VID_MEM_SIZE bytes a switch copies
          BUFFERSIZE,    \* characters of a line
          KEYS,          \* the character keys
          WRITES,        \* what programs write, sequences of characters
          HELPER,        \* the text of keyboard_helper
          PAPER,         \* bound: characters printed per terminal
          SPOILED        \* bound: steps on a spoiled screen

Newline == "newline"
Blank == "blank"       \* a cell without text: a space, a 0, or what was in
                       \* memory before boot

Terminals == 0 .. NUMTERMINALS - 1

Chars == {Newline, Blank} \cup KEYS
           \cup UNION {{s[i] : i \in DOMAIN s} : s \in WRITES \cup {HELPER}}

ASSUME ScreenAssumption ==
  /\ NUMTERMINALS \in Nat \ {0}
  /\ NUM_COLS \in Nat \ {0}
  /\ NUM_ROWS \in Nat \ {0, 1}
  /\ SAVED_CELLS \in NUM_COLS * NUM_ROWS .. NUM_COLS * (NUM_ROWS + 1)
ASSUME TextAssumption ==
  /\ BUFFERSIZE \in Nat
  /\ NUM_COLS <= BUFFERSIZE
  /\ WRITES \cup {HELPER} \subseteq Seq(Chars)
  /\ \A s \in WRITES : Len(s) <= BUFFERSIZE
  /\ PAPER \in [Terminals -> Nat]
  /\ SPOILED \in Nat \ {0}
  /\ KEYS \intersect {Newline, Blank} = {}

(* Video memory: the screen, and what lies behind its last row, where       *)
(* scroll reads and clearline may write.                                    *)
ScreenCells == 0 .. NUM_COLS * NUM_ROWS - 1
Cells == 0 .. NUM_COLS * (NUM_ROWS + 1) - 1
SavedCells == 0 .. SAVED_CELLS - 1

VARIABLES
  current_terminal,
  video_mem,     \* cell -> character
  b_buf,         \* the background buffers, [SavedCells -> character] each
  screen_x,
  screen_y,
  line,          \* keyboardbuffer up to bufferindex
  writebuffer,
  writeindex,
  launched,      \* the terminals that have programs
  helping,       \* what keyboard_helper still has to do: its characters to
                 \* print, and one more for the clear before it
  paper,         \* history: the text printed since the screen was cleared
  top,           \* history: rows of it scrolled off the top
  spoiled        \* history: steps since the screen was spoiled, 0 if it is not

printer == <<paper, top, spoiled>>
vars == <<current_terminal, video_mem, b_buf, screen_x, screen_y, line,
          writebuffer, writeindex, launched, helping, printer>>

shown == current_terminal

Init ==
  /\ current_terminal = 0
  /\ video_mem = [a \in Cells |-> Blank]
  /\ b_buf = [t \in Terminals |-> [a \in SavedCells |-> Blank]]
  /\ screen_x = [t \in Terminals |-> 0]
  /\ screen_y = [t \in Terminals |-> 0]
  /\ line = [t \in Terminals |-> <<>>]
  /\ writebuffer = [t \in Terminals |-> [i \in 1 .. BUFFERSIZE |-> Blank]]
  /\ writeindex = [t \in Terminals |-> 0]
  /\ launched = {0}
  /\ helping = 0
  /\ paper = [t \in Terminals |-> <<>>]
  /\ top = [t \in Terminals |-> 0]
  /\ spoiled = [t \in Terminals |-> 0]
-----------------------------------------------------------------------------
(* The drawing routines.  A display d is the video memory with the          *)
(* coordinates of the terminal shown; a write outside the memory of the     *)
(* model is lost.                                                           *)
Display == [mem |-> video_mem, x |-> screen_x[shown], y |-> screen_y[shown]]

Put(d, c) ==
  [d EXCEPT !.mem = [a \in Cells |->
                       IF a = NUM_COLS * d.y + d.x THEN c ELSE d.mem[a]]]

Clear(d) ==
  [d EXCEPT !.mem = [a \in Cells |->
                       IF a \in ScreenCells THEN Blank ELSE d.mem[a]]]

ClearLine(d, x, y) ==
  LET first == NUM_COLS * y + x
  IN [d EXCEPT !.mem = [a \in Cells |->
                          IF a \in first .. first + NUM_COLS - 1
                          THEN Blank ELSE d.mem[a]]]

Scroll(d) ==
  [mem |-> [a \in Cells |-> IF a \in ScreenCells THEN d.mem[a + NUM_COLS]
                                                 ELSE d.mem[a]],
   x   |-> 0,
   y   |-> NUM_ROWS - 1]

(* A name of the form Definition_Bug is a broken variant of the definition *)
(* after it; the properties are shown to notice it.                         *)
SetCoords_LastRowFree(d, x, y) ==
  IF y > NUM_ROWS THEN Scroll(d) ELSE [d EXCEPT !.x = x, !.y = y]
SetCoords(d, x, y) ==
  IF y >= NUM_ROWS THEN Scroll(d) ELSE [d EXCEPT !.x = x, !.y = y]

(* screen_x after a character: C's remainder keeps the sign.                *)
NextColumn(x) ==
  IF x + 1 < 0 THEN -((-(x + 1)) % NUM_COLS) ELSE (x + 1) % NUM_COLS

(* putc: at the end of a row it goes back to the start of the same row.     *)
PutC(d, c) ==
  IF c = Newline
  THEN [d EXCEPT !.x = 0, !.y = @ + 1]
  ELSE [Put(d, c) EXCEPT !.x = NextColumn(@), !.y = @ % NUM_ROWS]

TermPutC_NoWrap(d, c) ==
  IF c = Newline
  THEN SetCoords(d, 0, d.y + 1)
  ELSE [Put(d, c) EXCEPT !.x = @ + 1]
TermPutC(d, c) ==
  IF c = Newline
  THEN SetCoords(d, 0, d.y + 1)
  ELSE IF d.x + 1 = NUM_COLS
  THEN SetCoords(Put(d, c), 0, d.y + 1)
  ELSE [Put(d, c) EXCEPT !.x = NextColumn(@)]

Printk(d, s) == FoldLeft(TermPutC, d, s)

(* The line, drawn from column x of the row of d; i counts from 0.  A key   *)
(* and Backspace write the move to the next row differently, with the same  *)
(* effect.                                                                  *)
Redrawn(d, s, x) ==
  LET Step(e, k) ==
        IF k - 1 >= NUM_COLS - x
        THEN LET f == PutC(SetCoords(e, e.x, e.y + 1), s[k])
             IN SetCoords(f, f.x, f.y - 1)
        ELSE PutC(e, s[k])
  IN FoldLeftDomain(Step, d, s)
-----------------------------------------------------------------------------
(* The reference: a printer with an endless roll of paper NUM_COLS wide.    *)
OnPaper(r, c) ==
  IF c = Newline
  THEN [r EXCEPT !.row = @ + 1, !.col = 0]
  ELSE [text |-> [q \in DOMAIN r.text \cup {<<r.row, r.col>>} |->
                    IF q = <<r.row, r.col>> THEN c ELSE r.text[q]],
        row  |-> IF r.col + 1 = NUM_COLS THEN r.row + 1 ELSE r.row,
        col  |-> IF r.col + 1 = NUM_COLS THEN 0 ELSE r.col + 1]

Roll(s) == FoldLeft(OnPaper, [text |-> <<>>, row |-> 0, col |-> 0], s)

(* A newline right after a character that filled its row is the end of that *)
(* row, not an empty one.                                                   *)
Written(p, s) ==
  LET Type(q, c) == IF c = Newline /\ Roll(q).col = 0 THEN q ELSE Append(q, c)
  IN FoldLeft(Type, p, s)
Entered(p, l) ==
  IF l # <<>> /\ Roll(p \o l).col = 0 THEN p \o l ELSE Append(p \o l, Newline)

(* The rows that must have left the screen for the last one to be on it.    *)
TopFor(p, l) ==
  LET r == Roll(p \o l)
      last == IF l # <<>> /\ r.col = 0 THEN r.row - 1 ELSE r.row
  IN Max({0, last - (NUM_ROWS - 1)})

(* Text behind the last row would be scrolled in.                           *)
Tidy == \A a \in Cells \ ScreenCells : video_mem[a] = Blank

Regular == spoiled[shown] = 0

(* A spoiled screen is followed for a few steps.                            *)
Followed == spoiled[shown] < SPOILED

Spoil(t, ok) == IF ok THEN spoiled[t] ELSE Max({spoiled[t], 1})

(* Print p, with the line l after it, on the paper of the terminal shown;   *)
(* ok: the step draws it the same way.                                      *)
Record(p, l, from, ok) ==
  /\ paper' = [paper EXCEPT ![shown] = p]
  /\ top' = [top EXCEPT ![shown] = Max({from, TopFor(p, l)})]
  /\ spoiled' = [t \in Terminals |->
                   IF t # shown THEN Spoil(t, Tidy')
                   ELSE IF ok /\ Tidy' THEN 0
                   ELSE IF Followed THEN spoiled[t] + 1 ELSE SPOILED]

Show(d) ==
  /\ video_mem' = d.mem
  /\ screen_x' = [screen_x EXCEPT ![shown] = d.x]
  /\ screen_y' = [screen_y EXCEPT ![shown] = d.y]
-----------------------------------------------------------------------------
(* terminal_write.                                                          *)
Write(s) ==
  /\ Followed
  /\ shown \in launched
  /\ Len(paper[shown]) + Len(line[shown]) + Len(s) <= PAPER[shown]
  /\ writebuffer' = [writebuffer EXCEPT ![shown] = s \o SubSeq(@, Len(s) + 1, BUFFERSIZE)]
  /\ writeindex' = [writeindex EXCEPT ![shown] = Len(s)]
  /\ LET Step(d, c) == IF c # Newline \/ d.x # 0 THEN TermPutC(d, c) ELSE d
     IN Show(FoldLeft(Step, Display, s))
  /\ Record(Written(paper[shown], s), line[shown], top[shown],
            Regular /\ line[shown] = <<>>)
  /\ UNCHANGED <<current_terminal, b_buf, line, launched, helping>>

(* A character key: the line is drawn again from where the cursor is.       *)
Key(c) ==
  /\ Followed
  /\ Len(line[shown]) < BUFFERSIZE
  /\ Len(paper[shown]) + Len(line[shown]) + 2 <= PAPER[shown]
  /\ LET l == Append(line[shown], c)
         x == screen_x[shown]
         drawn == Redrawn(Display, l, x)
     IN /\ line' = [line EXCEPT ![shown] = l]
        /\ writeindex' = [writeindex EXCEPT ![shown] = x]
        /\ Show(SetCoords(drawn, x, drawn.y))
        /\ Record(paper[shown], l, top[shown],
                  Regular /\ x + Len(l) <= 2 * NUM_COLS)
  /\ UNCHANGED <<current_terminal, b_buf, writebuffer, launched, helping>>

(* The column the handler takes the line to start in is not the cursor's.   *)
Stale == writeindex[shown] # screen_x[shown]

Backspace ==
  /\ Followed
  /\ LET l == IF line[shown] = <<>> THEN <<>> ELSE Front(line[shown])
         x == writeindex[shown]
         start == SetCoords(Display, x, screen_y[shown])
         cleared == IF Len(l) >= NUM_COLS - x
                    THEN ClearLine(start, 0, start.y + 1)
                    ELSE ClearLine(start, x, start.y)
         drawn == Redrawn(cleared, l, x)
     IN /\ line' = [line EXCEPT ![shown] = l]
        /\ Show(SetCoords(drawn, x, drawn.y))
        /\ Record(paper[shown], l, top[shown], Regular /\ ~ Stale)
  /\ UNCHANGED <<current_terminal, b_buf, writebuffer, writeindex, launched,
                 helping>>

EnterNewlines_OneRow(l) == <<Newline>>

(* The newlines of Enter: two when the line, with its own newline, takes    *)
(* more than one row.                                                       *)
EnterNewlines(l) ==
  IF Len(l) + 1 + writeindex[shown] > NUM_COLS + 1 THEN <<Newline, Newline>>
                                                   ELSE <<Newline>>

(* Enter.  The line is dropped, now or by the read that was waiting for it. *)
Enter ==
  /\ Followed
  /\ LET l == line[shown]
     IN /\ Len(paper[shown]) + Len(l) + 1 <= PAPER[shown]
        /\ Show(Printk(Display, EnterNewlines(l)))
        /\ Record(Entered(paper[shown], l), <<>>, top[shown],
                  Regular /\ (Stale => EnterNewlines(l) = <<Newline>>))
  /\ line' = [line EXCEPT ![shown] = <<>>]
  /\ UNCHANGED <<current_terminal, b_buf, writebuffer, writeindex, launched,
                 helping>>

(* The character behind the line, which Ctrl+L prints too: a 0, and behind  *)
(* a full line the next variable, here the next terminal's first character. *)
BehindLine ==
  IF Len(line[shown]) < BUFFERSIZE \/ shown + 1 \notin Terminals THEN Blank
  ELSE IF line[shown + 1] = <<>> THEN Blank ELSE line[shown + 1][1]

(* Everything Ctrl+L prints fits in one row.                                *)
ResetFits ==
  /\ writeindex[shown] >= 0
  /\ writeindex[shown] + Len(line[shown]) + 1 < NUM_COLS

(* Ctrl+L: clear the screen, print the start of writebuffer and the line.   *)
Reset ==
  /\ LET prompt == SubSeq(writebuffer[shown], 1, writeindex[shown])
         start == SetCoords(Clear(Display), 0, 0)
         drawn == FoldLeft(PutC, start, prompt \o Append(line[shown], BehindLine))
     IN /\ Show(SetCoords(drawn, drawn.x - Len(line[shown]) - 1, drawn.y))
        /\ Record(prompt, line[shown], 0,
                  ResetFits /\ Roll(prompt).row < NUM_ROWS)
  /\ UNCHANGED <<current_terminal, b_buf, line, writebuffer, writeindex,
                 launched, helping>>
-----------------------------------------------------------------------------
SavedScreens_LoadFirst(t) ==
  [b_buf EXCEPT ![shown] = b_buf[t], ![t] = [a \in SavedCells |-> Blank]]

(* The two memcpys of terminal_switch.  The copy of the terminal shown is   *)
(* not read before it is written again, and is forgotten.                   *)
SavedScreens(t) ==
  [b_buf EXCEPT ![shown] = [a \in SavedCells |-> video_mem[a]],
                ![t] = [a \in SavedCells |-> Blank]]
LoadedScreen(t) ==
  [a \in Cells |-> IF a \in SavedCells THEN b_buf[t][a] ELSE video_mem[a]]

(* What a switch does to the screens.                                       *)
Switch(t) ==
  /\ t # current_terminal
  /\ shown \in launched
  /\ current_terminal' = t
  /\ b_buf' = SavedScreens(t)
  /\ video_mem' = LoadedScreen(t)
  /\ spoiled' = [u \in Terminals |-> Spoil(u, Tidy')]
  /\ UNCHANGED <<screen_x, screen_y, line, writebuffer, writeindex, paper, top>>

(* Alt+Fn to a terminal with programs, or that gets its first one.          *)
AltFn(t) ==
  /\ Switch(t)
  /\ launched' = launched \cup {t}
  /\ UNCHANGED helping

(* Alt+Fn to an empty terminal with all program numbers in use: after the   *)
(* EOI of the switch, the screen is cleared, not the coordinates,           *)
AltFnStranded(t) ==
  /\ t \notin launched
  /\ Switch(t)
  /\ helping' = Len(HELPER) + 1
  /\ UNCHANGED launched

HelperClear ==
  /\ helping = Len(HELPER) + 1
  /\ helping' = Len(HELPER)
  /\ Show(Clear(Display))
  /\ Record(paper[shown], line[shown], top[shown],
            Regular /\ paper[shown] = <<>> /\ line[shown] = <<>>)
  /\ UNCHANGED <<current_terminal, b_buf, line, writebuffer, writeindex,
                 launched>>

(* and keyboard_helper prints its text.                                     *)
HelperPrint ==
  /\ helping \in 1 .. Len(HELPER)
  /\ helping' = helping - 1
  /\ LET c == HELPER[Len(HELPER) - helping + 1]
     IN /\ Show(TermPutC(Display, c))
        /\ Record(Append(paper[shown], c), line[shown], top[shown],
                  Regular /\ line[shown] = <<>>)
  /\ UNCHANGED <<current_terminal, b_buf, line, writebuffer, writeindex,
                 launched>>

Next ==
  \/ \E s \in WRITES : Write(s)
  \/ \E c \in KEYS : Key(c)
  \/ Backspace
  \/ Enter
  \/ Reset
  \/ \E t \in Terminals : AltFn(t)
  \/ \E t \in Terminals : AltFnStranded(t)
  \/ HelperClear
  \/ HelperPrint

Spec == Init /\ [][Next]_vars
-----------------------------------------------------------------------------
(* What terminal t shows, or will show.                                     *)
Screen(t) ==
  [a \in ScreenCells |-> IF t = current_terminal THEN video_mem[a]
                                                 ELSE b_buf[t][a]]

(* Every variable stays within its type; whatever was drawn, the next       *)
(* character goes to a row of the screen.                                   *)
TypeOK ==
  /\ current_terminal \in Terminals
  /\ video_mem \in [Cells -> Chars]
  /\ b_buf \in [Terminals -> [SavedCells -> Chars]]
  /\ screen_x \in [Terminals -> Int]
  /\ screen_y \in [Terminals -> 0 .. NUM_ROWS - 1]
  /\ line \in [Terminals -> Seq(KEYS)]
  /\ \A t \in Terminals : Len(line[t]) <= BUFFERSIZE
  /\ writebuffer \in [Terminals -> [1 .. BUFFERSIZE -> Chars]]
  /\ writeindex \in [Terminals -> Int]
  /\ launched \subseteq Terminals
  /\ helping \in 0 .. Len(HELPER) + 1
  /\ spoiled \in [Terminals -> 0 .. SPOILED]

(* Terminal t shows the end of what a printer would have printed: all that  *)
(* was written and entered, wrapped and scrolled, and the line being typed; *)
(* the cursor is where that line starts.                                    *)
ShowsText(t) ==
  LET r == Roll(paper[t])
      text == Roll(paper[t] \o line[t]).text
  IN /\ screen_x[t] = r.col
     /\ screen_y[t] = r.row - top[t]
     /\ \A x \in 0 .. NUM_COLS - 1, y \in 0 .. NUM_ROWS - 1 :
          LET c == Screen(t)[NUM_COLS * y + x]
          IN IF <<top[t] + y, x>> \in DOMAIN text
             THEN c = text[<<top[t] + y, x>>]
             ELSE c = Blank

(* Each screen shows its text, with nothing of the characters erased from   *)
(* the line.  It holds as long as none of these happened since the last     *)
(* Ctrl+L: output while a line is being typed; Backspace, or Enter's second *)
(* newline, with a writeindex left by output; a line of more than two rows; *)
(* a Ctrl+L that does not fit in one row, or with more newlines than the    *)
(* screen has rows; text behind the last row; keys before the clear of a    *)
(* stranded switch.                                                         *)
ScreenIsText == \A t \in Terminals : spoiled[t] = 0 => ShowsText(t)

OnScreen(t) ==
  screen_x[t] \in 0 .. NUM_COLS - 1 /\ screen_y[t] \in 0 .. NUM_ROWS - 1

(* The cursor leaves the screen, so that text is written elsewhere, in two  *)
(* ways only: a Ctrl+L that does not fit in one row, and Backspace with a   *)
(* writeindex that is no column: after a write of a row or more, or typing  *)
(* left of the screen.                                                      *)
CursorStaysOnScreen ==
  [][\A t \in Terminals :
       t = current_terminal /\ OnScreen(t) /\ ~ OnScreen(t)' =>
         \/ Reset /\ ~ ResetFits
         \/ Backspace /\ writeindex[t] \notin 0 .. NUM_COLS - 1]_vars

(* Typing and output change the terminal on the screen only, and a switch   *)
(* between terminals changes neither what they show nor their cursors.      *)
ScreensApart ==
  [][\A t \in Terminals :
       t # current_terminal \/ t # current_terminal'
       => /\ Screen(t)' = Screen(t)
          /\ <<screen_x[t], screen_y[t], line[t]>>' =
               <<screen_x[t], screen_y[t], line[t]>>]_vars
=============================================================================
