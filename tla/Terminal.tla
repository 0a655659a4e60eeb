------------------------------ MODULE Terminal ------------------------------
(***************************************************************************)
(* The keyboard and the serial terminal: keyboard_handler and              *)
(* keyboard_get_char (drivers/keyboard.c), which share the one variable    *)
(* last_char, and terminal_queue_word (shell/terminal.c), which collects a *)
(* line and runs it.  GraphicTerminalQueueWord is the same loop over a     *)
(* buffer of its own.                                                      *)
(*                                                                         *)
(* The handler runs to completion between any two instructions of the      *)
(* terminal.  A key is pressed and later released; each sends a scancode,  *)
(* in order.  Keys are the printable ones, the newline and those that      *)
(* ascii_translator has no character for.  last_char holds the number of   *)
(* the key press it came from, and 0 when it is empty: the presses are     *)
(* numbered so that a character read twice can be told from one typed      *)
(* twice.                                                                  *)
(***************************************************************************)
EXTENDS Integers, Sequences

CONSTANTS Printable, Newline, Silent, \* the keys
          MAX_INDEX,                  \* 511 in terminal_queue_word
          MaxPresses                  \* bound: key presses

Keys == Printable \cup {Newline, Silent}

ASSUME KeysAssumption == Newline \notin Printable /\ Silent \notin Printable
ASSUME IndexAssumption == MAX_INDEX \in Nat /\ MaxPresses \in Nat

VARIABLES
  wire,       \* scancodes on their way: the number of a press, or minus it
  pressed,    \* the keys pressed so far, in order
  down,       \* the presses that have not been released
  last_char,
  pc, c,      \* keyboard_get_char: where it is, and the character it took
              \* (0 also where c is out of scope)
  charbuffer, \* the line being collected (index is its length)
  lines,      \* history: the lines run_command was called with
  taken,      \* history: what keyboard_get_char has returned, NULs left out
  stored,     \* history: the presses that put a character into last_char
  hasty       \* history: a scancode came before the last character was taken

user     == <<pressed, down>>
terminal == <<pc, c, charbuffer, lines, taken>>
vars     == <<wire, user, last_char, terminal, stored, hasty>>

Init ==
  /\ wire = <<>> /\ pressed = <<>> /\ down = {}
  /\ last_char = 0
  /\ pc = "spin" /\ c = 0
  /\ charbuffer = <<>> /\ lines = <<>>
  /\ taken = <<>> /\ stored = <<>>
  /\ hasty = FALSE

(***************************************************************************)
(* The user.  A key that is held repeats, which is one more press.         *)
(***************************************************************************)
Press(k) ==
  /\ Len(pressed) < MaxPresses
  /\ pressed' = Append(pressed, k)
  /\ down' = down \cup {Len(pressed) + 1}
  /\ wire' = Append(wire, Len(pressed) + 1)
  /\ UNCHANGED <<last_char, terminal, stored, hasty>>

Release(n) ==
  /\ n \in down
  /\ down' = down \ {n}
  /\ wire' = Append(wire, -n)
  /\ UNCHANGED <<pressed, last_char, terminal, stored, hasty>>

(***************************************************************************)
(* keyboard_handler.  A release has bit 7 set, for which ascii_translator  *)
(* gives 0; the if that tells the two apart is followed by the same        *)
(* assignment for both, so that a release empties last_char.               *)
(***************************************************************************)
ascii_translator(code) == IF code > 0 /\ pressed[code] # Silent THEN code ELSE 0

Interrupt ==
  /\ wire # <<>>
  /\ LET char == ascii_translator(Head(wire))
     IN  /\ last_char' = char
         /\ stored' = IF char # 0 THEN Append(stored, char) ELSE stored
  /\ hasty' = (hasty \/ last_char # 0)
  /\ wire' = Tail(wire)
  /\ UNCHANGED <<user, terminal>>

(***************************************************************************)
(* keyboard_get_char: three accesses to last_char                          *)
(***************************************************************************)
Spin ==
  /\ pc = "spin"
  /\ last_char # 0
  /\ pc' = "take"
  /\ UNCHANGED <<wire, user, last_char, c, charbuffer, lines, taken, stored, hasty>>

\* (Mutant: the two assignments the other way round.)
TakeCleared ==
  /\ pc = "take"
  /\ last_char' = 0
  /\ c' = last_char'
  /\ pc' = "clear"
  /\ UNCHANGED <<wire, user, charbuffer, lines, taken, stored, hasty>>

Take ==
  /\ pc = "take"
  /\ c' = last_char
  /\ pc' = "clear"
  /\ UNCHANGED <<wire, user, last_char, charbuffer, lines, taken, stored, hasty>>

\* (Mutant: last_char is not emptied.)
ClearNothing ==
  /\ pc = "clear"
  /\ taken' = IF c # 0 THEN Append(taken, c) ELSE taken
  /\ pc' = "line"
  /\ UNCHANGED <<wire, user, last_char, c, charbuffer, lines, stored, hasty>>

Clear ==
  /\ pc = "clear"
  /\ last_char' = 0
  /\ taken' = IF c # 0 THEN Append(taken, c) ELSE taken
  /\ pc' = "line"
  /\ UNCHANGED <<wire, user, c, charbuffer, lines, stored, hasty>>

(***************************************************************************)
(* terminal_queue_word                                                     *)
(***************************************************************************)
IsNewline(n) == n # 0 /\ pressed[n] = Newline

\* (Mutant: room for one character more.)
HasRoomOneMore == Len(charbuffer) <= MAX_INDEX
HasRoom == Len(charbuffer) < MAX_INDEX

Queue ==
  /\ pc = "line"
  /\ ~IsNewline(c)
  /\ charbuffer' = IF HasRoom THEN Append(charbuffer, c) ELSE charbuffer
  /\ pc' = "spin" /\ c' = 0
  /\ UNCHANGED <<wire, user, last_char, lines, taken, stored, hasty>>

\* The newline ends the line, which run_command gets.  The commands here are
\* those that return: GRAPHIC enters the loop of the graphic terminal and
\* stays there.
RunCommand ==
  /\ pc = "line"
  /\ IsNewline(c)
  /\ lines' = Append(lines, charbuffer)
  /\ pc' = "run"
  /\ UNCHANGED <<wire, user, last_char, c, charbuffer, taken, stored, hasty>>

\* (Mutant: index is not reset.)
CommandReturnsKeepingLine ==
  /\ pc = "run"
  /\ pc' = "spin" /\ c' = 0
  /\ UNCHANGED <<wire, user, last_char, charbuffer, lines, taken, stored, hasty>>

CommandReturns ==
  /\ pc = "run"
  /\ charbuffer' = <<>>
  /\ pc' = "spin" /\ c' = 0
  /\ UNCHANGED <<wire, user, last_char, lines, taken, stored, hasty>>

TerminalStep ==
  \/ Spin \/ Take \/ Clear \/ Queue \/ RunCommand \/ CommandReturns

Next ==
  \/ \E k \in Keys : Press(k)
  \/ \E n \in down : Release(n)
  \/ Interrupt
  \/ TerminalStep

\* Fairness: the terminal is the kernel's only thread, and interrupts are on
\* while it spins.
Spec == Init /\ [][Next]_vars /\ WF_vars(TerminalStep) /\ WF_vars(Interrupt)

(***************************************************************************)
(* What is promised                                                        *)
(***************************************************************************)
Presses == 1 .. MaxPresses

\* Types; charbuffer always keeps a byte for the terminating NUL.
TypeOK ==
  /\ wire \in Seq(Presses \cup {-n : n \in Presses})
  /\ pressed \in Seq(Keys) /\ down \subseteq Presses
  /\ last_char \in 0 .. Len(pressed)
  /\ pc \in {"spin", "take", "clear", "line", "run"}
  /\ c \in 0 .. Len(pressed)
  /\ charbuffer \in Seq(0 .. Len(pressed)) /\ Len(charbuffer) <= MAX_INDEX
  /\ hasty \in BOOLEAN

\* Wherever the handler comes between the three accesses to last_char, a
\* press is taken at most once, and presses are taken in their order.
TakenInOrder == \A i, j \in 1 .. Len(taken) : i < j => taken[i] < taken[j]

\* The lines that a sequence of presses makes: those ended by a newline, and
\* the one begun after them, each cut at MAX_INDEX characters.
LinesOf(s) ==
  LET split[i \in 0 .. Len(s)] ==
        IF i = 0 THEN [ended |-> <<>>, begun |-> <<>>]
        ELSE LET before == split[i - 1]
             IN  IF IsNewline(s[i])
                 THEN [ended |-> Append(before.ended, before.begun), begun |-> <<>>]
                 ELSE IF Len(before.begun) < MAX_INDEX
                      THEN [before EXCEPT !.begun = Append(@, s[i])]
                      ELSE before
  IN  split[Len(s)]

\* A user who is never faster than the terminal loses nothing: the commands
\* run are the lines typed.  (A faster one loses characters, and a release
\* that comes between two accesses puts a NUL into the line.)
SlowTypistServed ==
  (~hasty /\ pc = "spin" /\ last_char = 0) =>
     LinesOf(stored) = [ended |-> lines, begun |-> charbuffer]

Newlines(s) == Len(SelectSeq(s, IsNewline))

\* A newline that a slow typist enters runs its line.
NewlineRuns ==
  \A k \in Presses : (Newlines(stored) >= k) ~> (hasty \/ Len(lines) >= k)
=============================================================================
