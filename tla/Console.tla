------------------------------- MODULE Console -------------------------------
(***************************************************************************)
(* The text console on the framebuffer: PSFPutChar, DrawSimplePSFText,     *)
(* TerminalTTYScrollUp and the cursor of fs/ext/psf.c, as the boot, the    *)
(* graphic terminal (shell/graphic_terminal.c), the command GRAPHIC and    *)
(* the two panics use them.                                                *)
(*                                                                         *)
(* Abstractions.  The screen is a grid of cells of one glyph; the pixels   *)
(* right of and below the last whole cell belong to none.  draw_glyph sets *)
(* pixels and clears none, so that a cell drawn twice shows OVERPRINT.     *)
(* Colours are left out.  Text is a sequence of characters; the callers'   *)
(* has no format directive, and no key gives '\r' or '\b'.  put_pixel      *)
(* leaves out what lies outside the screen.  The commands that print on    *)
(* the serial port are one.                                                *)
(***************************************************************************)
EXTENDS Integers, Sequences

CONSTANTS
  COLS, ROWS,             \* term_cols, term_rows
  Printable, Newline,     \* characters
  Copyright, Banner, Prompt, NotACommand, PanicText, \* texts
  CenteredLengths,        \* of the texts that PrintCentered gets
  BLANK, OVERPRINT,
  MaxKeys                 \* bound: keys pressed

Chars == Printable \cup {Newline}
Cells == [0 .. ROWS - 1 -> [0 .. COLS - 1 -> Printable \cup {BLANK, OVERPRINT}]]

ASSUME ScreenAssumption == COLS \in Nat \ {0} /\ ROWS \in Nat \ {0}
ASSUME TextAssumption ==
  /\ {Copyright, Banner, Prompt, NotACommand, PanicText} \subseteq Seq(Chars)
  /\ Newline \notin Printable /\ BLANK \notin Printable /\ OVERPRINT \notin Printable
  /\ CenteredLengths \subseteq Nat /\ MaxKeys \in Nat

VARIABLES
  ready,        \* GraphicOK: the font's sizes and glyphs are set
  screen, x, y, \* the framebuffer, term_cursor_x and _y
  saved,        \* temp_term_cursor_x and _y
  pc, text,     \* what the thread does, and the text it still has to draw
  back,         \* where it goes on when that is drawn
  line,         \* CharbufferG
  irqs_on,      \* false in the handler of an exception
  keys,         \* bound: keys pressed so far
  gone          \* history: the lines that were scrolled out since the last clearing

cursor == <<x, y, saved>>
thread == <<text, back, line, irqs_on, keys>>
vars   == <<ready, screen, cursor, pc, thread, gone>>

Clean == [r \in 0 .. ROWS - 1 |-> [c \in 0 .. COLS - 1 |-> BLANK]]

Init ==
  /\ ready = FALSE
  /\ screen = Clean /\ x = 0 /\ y = 0 /\ saved = <<0, 0>>
  /\ pc = "font" /\ text = <<>> /\ back = "middle"
  /\ line = <<>> /\ irqs_on = TRUE /\ keys = 0
  /\ gone = <<>>

(***************************************************************************)
(* Drawing.  PSFPutChar and a turn of DrawSimplePSFText do the same.       *)
(***************************************************************************)
Begin(t, where) == text' = t /\ back' = where /\ pc' = "draw"

OnScreen == x \in 0 .. COLS - 1 /\ y \in 0 .. ROWS - 1

Drawn(ch) ==
  IF ch = Newline \/ ~OnScreen THEN screen
  ELSE [screen EXCEPT ![y][x] = IF @ = BLANK THEN ch ELSE OVERPRINT]

Moved(ch) == IF ch = Newline THEN <<0, y + 1>> ELSE <<x + 1, y>>

\* (Mutant: the cursor goes one column too far.)
WrappedLate(to) == IF to[1] > COLS THEN <<0, to[2] + 1>> ELSE to
Wrapped(to) == IF to[1] >= COLS THEN <<0, to[2] + 1>> ELSE to

PSFPutChar ==
  /\ pc = "draw" /\ text # <<>>
  /\ text' = Tail(text)
  /\ screen' = Drawn(Head(text))
  /\ x' = Wrapped(Moved(Head(text)))[1] /\ y' = Wrapped(Moved(Head(text)))[2]
  /\ pc' = IF y' >= ROWS THEN "scroll" ELSE "draw"
  /\ UNCHANGED <<ready, saved, back, line, irqs_on, keys, gone>>

TextDrawn ==
  /\ pc = "draw" /\ text = <<>>
  /\ pc' = back
  /\ UNCHANGED <<ready, screen, cursor, thread, gone>>

\* What a row shows, up to its last cell that is not blank.
LineOf(row) ==
  LET used == {c \in 0 .. COLS - 1 : row[c] # BLANK}
      last == CHOOSE c \in used : \A d \in used : d <= c
  IN  IF used = {} THEN <<>> ELSE [c \in 1 .. last + 1 |-> row[c - 1]]

\* (Mutant: the last line is moved up, and not cleared.)
LastLineKept == screen[ROWS - 1]
LastLine == Clean[ROWS - 1]

TerminalTTYScrollUp ==
  /\ pc = "scroll"
  /\ screen' = [r \in 0 .. ROWS - 1 |-> IF r < ROWS - 1 THEN screen[r + 1] ELSE LastLine]
  /\ y' = ROWS - 1
  /\ gone' = Append(gone, LineOf(screen[0]))
  /\ pc' = "delay"
  /\ UNCHANGED <<ready, x, saved, thread>>

\* delay(50) waits for ticks, which only the timer's interrupt counts.
Delay ==
  /\ pc = "delay" /\ irqs_on
  /\ pc' = "draw"
  /\ UNCHANGED <<ready, screen, cursor, thread, gone>>

\* drawfullscreen, ResetCursorX and ResetCursorY.
\* (Mutant: the cursor stays in its row.)
ClearKeepsRow == screen' = Clean /\ x' = 0 /\ gone' = <<>> /\ UNCHANGED <<y, saved>>
Clear == screen' = Clean /\ x' = 0 /\ y' = 0 /\ gone' = <<>> /\ UNCHANGED saved

(***************************************************************************)
(* The boot.  Without a font PSFPutChar does nothing, and SetCursorMiddle  *)
(* divides by zero, whose handler halts.                                   *)
(***************************************************************************)
PreparingGlobalPSFFont ==
  /\ pc = "font"
  /\ ready' \in BOOLEAN
  /\ Begin(IF ready' THEN Copyright ELSE <<>>, "middle")
  /\ UNCHANGED <<screen, cursor, line, irqs_on, keys, gone>>

SetCursorMiddle ==
  /\ pc = "middle"
  /\ IF ready THEN saved' = <<x, y>> /\ y' = ROWS \div 2 /\ pc' = "centered"
              ELSE UNCHANGED <<saved, y>> /\ pc' = "halted"
  /\ UNCHANGED <<ready, screen, x, thread, gone>>

\* (max_charas_per_line - text_length) / 2 is negative for a longer text.
\* The text itself goes to the serial port.
PrintCentered ==
  /\ pc = "centered"
  /\ \E n \in CenteredLengths :
       x' = IF n <= COLS THEN (COLS - n) \div 2 ELSE -((n - COLS) \div 2)
  /\ pc' = "restore"
  /\ UNCHANGED <<ready, screen, y, saved, thread, gone>>

Restore == x' = saved[1] /\ y' = saved[2] /\ UNCHANGED saved

ResetLastCursorTTY ==
  /\ pc = "restore"
  /\ Restore
  /\ pc' = "serial"
  /\ UNCHANGED <<ready, screen, thread, gone>>

(***************************************************************************)
(* The terminals                                                           *)
(***************************************************************************)
GraphicOn ==
  /\ pc \in {"serial", "command"}
  /\ Clear
  /\ Begin(Banner \o Prompt, "key")
  /\ line' = <<>>
  /\ UNCHANGED <<ready, irqs_on, keys>>

GraphicOff ==
  /\ pc = "command"
  /\ Clear
  /\ line' = <<>>
  /\ pc' = "serial"
  /\ UNCHANGED <<ready, text, back, irqs_on, keys>>

Key(k) ==
  /\ pc = "key" /\ keys < MaxKeys
  /\ keys' = keys + 1
  /\ Begin(<<k>>, IF k = Newline THEN "command" ELSE "key")
  /\ line' = IF k = Newline THEN line ELSE Append(line, k)
  /\ UNCHANGED <<ready, screen, cursor, irqs_on, gone>>

\* RunCommandG, with or without a line of its own on the screen, and the prompt.
RunCommandG ==
  /\ pc = "command"
  /\ \E output \in {<<>>} \cup (IF line = <<>> THEN {} ELSE {line \o NotACommand}) :
       Begin(output \o <<Newline>> \o Prompt, "key")
  /\ line' = <<>>
  /\ UNCHANGED <<ready, screen, cursor, irqs_on, keys, gone>>

(***************************************************************************)
(* Exceptions, at any step but in their own handlers.  Panic clears the    *)
(* screen, prints on the serial port with the cursor in the middle, puts   *)
(* it back and resets the machine; RaiseKernelPanicError draws its text.   *)
(* Both divide by zero if there is no font.                                *)
(***************************************************************************)
Running == irqs_on /\ pc \notin {"reset", "halted"}

Panic ==
  /\ Running
  /\ Clear
  /\ pc' = IF ready THEN "reset" ELSE "halted"
  /\ text' = <<>> /\ irqs_on' = FALSE
  /\ UNCHANGED <<ready, back, line, keys>>

RaiseKernelPanicError ==
  /\ Running
  /\ Clear
  /\ IF ready THEN Begin(PanicText, "reset")
              ELSE pc' = "halted" /\ text' = <<>> /\ UNCHANGED back
  /\ irqs_on' = FALSE
  /\ UNCHANGED <<ready, line, keys>>

Work ==
  \/ PreparingGlobalPSFFont \/ SetCursorMiddle \/ PrintCentered \/ ResetLastCursorTTY
  \/ PSFPutChar \/ TextDrawn \/ TerminalTTYScrollUp \/ Delay
  \/ RunCommandG

Next ==
  \/ Work
  \/ GraphicOn \/ GraphicOff
  \/ \E k \in Chars : Key(k)
  \/ Panic \/ RaiseKernelPanicError

\* Fairness: the thread runs on, and the timer ticks while interrupts are on.
Spec == Init /\ [][Next]_vars /\ WF_vars(Work)

(***************************************************************************)
(* What is promised                                                        *)
(***************************************************************************)

\* Types; whenever something may be drawn the cursor is in a cell of the
\* screen, so that no glyph is lost or drawn in part.
TypeOK ==
  /\ ready \in BOOLEAN /\ irqs_on \in BOOLEAN
  /\ screen \in Cells
  /\ x \in Int /\ y \in 0 .. ROWS
  /\ saved \in (0 .. COLS - 1) \X (0 .. ROWS - 1)
  /\ text \in Seq(Chars) /\ line \in Seq(Printable)
  /\ pc \notin {"centered", "restore"} => x \in 0 .. COLS - 1
  /\ pc \notin {"scroll"} => y < ROWS

\* The lines of a screen down to row h, and any that were left below.  While
\* PrintCentered has the cursor, they end where it comes back to.
Lines(s, h) ==
  LET used == {r \in 0 .. ROWS - 1 : LineOf(s[r]) # <<>>} \cup {h}
      last == CHOOSE r \in used : \A q \in used : q <= r
  IN  [n \in 1 .. last + 1 |-> IF n <= ROWS THEN LineOf(s[n - 1]) ELSE <<>>]

Here == IF pc \in {"centered", "restore"} THEN saved[2] ELSE y

Sheet == INSTANCE Paper WITH lines <- gone \o Lines(screen, Here)

\* The screen is the last lines of a paper on which every character was put
\* in its turn since the last clearing: nothing is overprinted, skipped or
\* left over, through wrapping, scrolling, centering and clearing.
ShowsThePaper == Sheet!Spec

\* A panic with a font ends in the reset, although its text is drawn with
\* interrupts off, where a screen that scrolls would wait for ever: it begins
\* at the top of a screen that has room for it.
PanicResets == (~irqs_on /\ ready) ~> (pc = "reset")
=============================================================================
