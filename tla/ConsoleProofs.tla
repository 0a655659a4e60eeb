--------------------------- MODULE ConsoleProofs ---------------------------
(***************************************************************************)
(* Proofs about Console, for screens of any size and any texts.  The       *)
(* inductive invariant adds to TypeOK where the thread may be, and that    *)
(* the cursor lies on the screen whenever it may be saved, drawn at or     *)
(* scrolled from: wrapping and scrolling bring it back in the same call,   *)
(* and a centered text's column, which may be negative, is replaced before *)
(* the next character.  The refinement of Paper needs where the cells that *)
(* were written on are.                                                    *)
(***************************************************************************)
EXTENDS Console, TLAPS

Places == {"font", "draw", "scroll", "delay", "middle", "centered", "restore", "serial",
           "key", "command", "reset", "halted"}

IInv ==
  /\ TypeOK
  /\ pc \in Places /\ back \in Places \ {"scroll", "centered", "restore"}

LEMMA Bounds ==
  /\ COLS \in Nat /\ COLS > 0 /\ ROWS \in Nat /\ ROWS > 0
  /\ ROWS \div 2 \in Nat /\ ROWS \div 2 < ROWS
  /\ Copyright \in Seq(Chars) /\ Banner \in Seq(Chars) /\ Prompt \in Seq(Chars)
  /\ NotACommand \in Seq(Chars) /\ PanicText \in Seq(Chars)
  /\ CenteredLengths \subseteq Nat
<1>1. ROWS \in Nat /\ ROWS > 0
  BY ScreenAssumption
<1>2. ROWS \div 2 \in Nat /\ ROWS \div 2 < ROWS
  BY <1>1
<1>. QED
  BY <1>1, <1>2, ScreenAssumption, TextAssumption

LEMMA NoText == \A S : <<>> \in Seq(S)
OBVIOUS

LEMMA CleanIsAScreen == Clean \in Cells
BY DEF Clean, Cells

LEMMA InitIInv == Init => IInv
<1> SUFFICES ASSUME Init PROVE IInv
  OBVIOUS
<1>1. x \in 0 .. COLS - 1 /\ x \in Int /\ y \in 0 .. ROWS /\ y < ROWS
  BY Bounds DEF Init
<1>2. saved \in (0 .. COLS - 1) \X (0 .. ROWS - 1)
  BY Bounds DEF Init
<1>3. screen \in Cells
  BY CleanIsAScreen DEF Init
<1>4. text \in Seq(Chars) /\ line \in Seq(Printable)
  BY DEF Init
<1>. QED
  BY <1>1, <1>2, <1>3, <1>4 DEF Init, IInv, TypeOK, Places

\* A text that is begun where the cursor is on the screen.
LEMMA BegunText ==
  ASSUME IInv, pc \notin {"scroll", "centered", "restore"},
         NEW t \in Seq(Chars), NEW where \in Places \ {"scroll", "centered", "restore"},
         Begin(t, where), UNCHANGED <<screen, x, y, saved>>,
         ready' \in BOOLEAN, irqs_on' \in BOOLEAN, line' \in Seq(Printable)
  PROVE  IInv'
BY DEF IInv, TypeOK, Begin, Places

\* A screen that was cleared.
LEMMA Cleared ==
  ASSUME IInv, Clear, text' \in Seq(Chars), ready' \in BOOLEAN, irqs_on' \in BOOLEAN,
         line' \in Seq(Printable), pc' \in Places, pc' # "scroll",
         back' \in Places \ {"scroll", "centered", "restore"}
  PROVE  IInv'
<1>1. x' \in 0 .. COLS - 1 /\ x' \in Int /\ y' \in 0 .. ROWS /\ y' < ROWS
  BY Bounds DEF Clear
<1>2. screen' \in Cells /\ saved' \in (0 .. COLS - 1) \X (0 .. ROWS - 1)
  BY CleanIsAScreen DEF Clear, IInv, TypeOK
<1>. QED
  BY <1>1, <1>2 DEF IInv, TypeOK

LEMMA PutIInv ==
  ASSUME IInv, PSFPutChar
  PROVE  IInv'
<1>. DEFINE ch == Head(text)
            to == Moved(ch)
<1>1. ch \in Chars /\ text' \in Seq(Chars) /\ pc = "draw"
  BY DEF IInv, TypeOK, PSFPutChar
<1>2. x \in 0 .. COLS - 1 /\ y \in 0 .. ROWS - 1
  BY <1>1, Bounds DEF IInv, TypeOK
<1>3. screen' \in Cells
  BY <1>1, <1>2 DEF PSFPutChar, Drawn, IInv, TypeOK, Cells, Chars
<1>4. x' \in 0 .. COLS - 1 /\ y' \in 0 .. ROWS
  <2>1. to[1] \in 0 .. COLS /\ to[2] \in 0 .. ROWS /\ (to[1] = COLS => to[2] = y)
    BY <1>2, Bounds DEF Moved
  <2>2. Wrapped(to)[1] \in 0 .. COLS - 1 /\ Wrapped(to)[2] \in 0 .. ROWS
    BY <1>2, <2>1, Bounds DEF Wrapped, Moved
  <2>. QED
    BY <2>2 DEF PSFPutChar
<1>5. pc' \in {"scroll", "draw"} /\ (pc' # "scroll" => y' < ROWS)
  BY <1>4, Bounds DEF PSFPutChar
<1>6. UNCHANGED <<ready, saved, back, line, irqs_on>>
  BY DEF PSFPutChar
<1>. HIDE DEF ch, to
<1>. QED
  BY <1>1, <1>3, <1>4, <1>5, <1>6 DEF IInv, TypeOK, Places

LEMMA ScrollIInv ==
  ASSUME IInv, TerminalTTYScrollUp
  PROVE  IInv'
<1>1. screen' \in Cells
  <2>1. LastLine \in [0 .. COLS - 1 -> Printable \cup {BLANK, OVERPRINT}]
    BY Bounds DEF LastLine, Clean
  <2>2. \A r \in 0 .. ROWS - 1 : r < ROWS - 1 => r + 1 \in 0 .. ROWS - 1
    BY Bounds
  <2>. QED
    BY <2>1, <2>2 DEF TerminalTTYScrollUp, IInv, TypeOK, Cells
<1>2. y' \in 0 .. ROWS /\ y' < ROWS /\ x' = x /\ pc = "scroll" /\ pc' = "delay"
  BY Bounds DEF TerminalTTYScrollUp
<1>3. UNCHANGED <<ready, saved, text, back, line, irqs_on>>
  BY DEF TerminalTTYScrollUp, thread
<1>. QED
  BY <1>1, <1>2, <1>3 DEF IInv, TypeOK, Places

\* The cursor is taken to the middle, to any column, and put back.
LEMMA CenteredIInv ==
  ASSUME IInv, SetCursorMiddle \/ PrintCentered \/ ResetLastCursorTTY
  PROVE  IInv'
<1>1. UNCHANGED <<ready, screen, text, back, line, irqs_on>>
  BY DEF SetCursorMiddle, PrintCentered, ResetLastCursorTTY, thread
<1>2. CASE SetCursorMiddle
  <2>1. /\ x' = x /\ pc = "middle" /\ pc' \in {"centered", "halted"}
        /\ saved' \in {saved, <<x, y>>} /\ y' \in {y, ROWS \div 2}
    BY <1>2 DEF SetCursorMiddle
  <2>2. ROWS \div 2 \in 0 .. ROWS /\ ROWS \div 2 < ROWS
    BY Bounds
  <2>3. x \in 0 .. COLS - 1 /\ y \in 0 .. ROWS - 1 /\ y \in 0 .. ROWS /\ y < ROWS
    BY <2>1, Bounds DEF IInv, TypeOK
  <2>4. saved' \in (0 .. COLS - 1) \X (0 .. ROWS - 1)
    BY <2>1, <2>3 DEF IInv, TypeOK
  <2>5. y' \in 0 .. ROWS /\ y' < ROWS
    BY <2>1, <2>2, <2>3
  <2>. QED
    BY <1>1, <2>1, <2>4, <2>5 DEF IInv, TypeOK, Places
<1>3. CASE PrintCentered
  <2>1. x' \in Int
    BY <1>3, Bounds DEF PrintCentered
  <2>2. pc = "centered" /\ pc' = "restore" /\ UNCHANGED <<y, saved>>
    BY <1>3 DEF PrintCentered
  <2>. QED
    BY <1>1, <2>1, <2>2 DEF IInv, TypeOK, Places
<1>4. CASE ResetLastCursorTTY
  <2>1. saved[1] \in 0 .. COLS - 1 /\ saved[2] \in 0 .. ROWS - 1
    BY DEF IInv, TypeOK
  <2>2. x' \in 0 .. COLS - 1 /\ y' \in 0 .. ROWS /\ y' < ROWS /\ UNCHANGED saved /\ pc' = "serial"
    BY <1>4, <2>1, Bounds DEF ResetLastCursorTTY, Restore
  <2>. QED
    BY <1>1, <2>2 DEF IInv, TypeOK, Places
<1>. QED
  BY <1>2, <1>3, <1>4

LEMMA StepIInv ==
  ASSUME IInv, [Next]_vars
  PROVE  IInv'
<1>1. CASE PreparingGlobalPSFFont
  <2>1. PICK t \in {Copyright, <<>>} : Begin(t, "middle")
    BY <1>1 DEF PreparingGlobalPSFFont, Begin
  <2>2. t \in Seq(Chars)
    BY Bounds, NoText, Zenon
  <2>3. /\ pc = "font" /\ UNCHANGED <<screen, x, y, saved, line, irqs_on>>
        /\ ready' \in BOOLEAN
    BY <1>1 DEF PreparingGlobalPSFFont, cursor
  <2>4. irqs_on' \in BOOLEAN /\ line' \in Seq(Printable)
    BY <2>3 DEF IInv, TypeOK
  <2>5. "middle" \in Places \ {"scroll", "centered", "restore"}
    BY DEF Places
  <2>. QED
    BY <2>1, <2>2, <2>3, <2>4, <2>5, BegunText
<1>2. CASE TextDrawn
  BY <1>2 DEF TextDrawn, IInv, TypeOK, Places, cursor, thread
<1>3. CASE Delay
  BY <1>3 DEF Delay, IInv, TypeOK, Places, cursor, thread
<1>4. CASE RunCommandG
  <2>1. PICK output \in {<<>>} \cup (IF line = <<>> THEN {} ELSE {line \o NotACommand}) :
          Begin(output \o <<Newline>> \o Prompt, "key")
    BY <1>4 DEF RunCommandG
  <2>2. line \in Seq(Chars) /\ <<Newline>> \in Seq(Chars)
    BY DEF IInv, TypeOK, Chars
  <2>3. output \in Seq(Chars)
    <3>1. line \o NotACommand \in Seq(Chars)
      BY <2>2, Bounds
    <3>. QED
      BY <2>1, <3>1, NoText, Zenon
  <2>4. output \o <<Newline>> \in Seq(Chars)
    BY <2>2, <2>3
  <2>5. output \o <<Newline>> \o Prompt \in Seq(Chars)
    BY <2>4, Bounds
  <2>6. pc = "command" /\ UNCHANGED <<ready, screen, x, y, saved, irqs_on>> /\ line' \in Seq(Printable)
    BY <1>4 DEF RunCommandG, cursor
  <2>7. "key" \in Places \ {"scroll", "centered", "restore"} /\ ready' \in BOOLEAN /\ irqs_on' \in BOOLEAN
    BY <2>6 DEF Places, IInv, TypeOK
  <2>. QED
    BY <2>1, <2>5, <2>6, <2>7, BegunText
<1>5. CASE GraphicOn
  <2>1. Banner \o Prompt \in Seq(Chars)
    BY Bounds
  <2>. QED
    BY <1>5, <2>1, Cleared DEF GraphicOn, Begin, IInv, TypeOK, Places
<1>6. CASE GraphicOff
  BY <1>6, Cleared DEF GraphicOff, IInv, TypeOK, Places
<1>7. ASSUME NEW k \in Chars, Key(k) PROVE IInv'
  <2>1. <<k>> \in Seq(Chars) /\ line' \in Seq(Printable)
    BY <1>7 DEF Key, IInv, TypeOK, Chars
  <2>. QED
    BY <1>7, <2>1, BegunText DEF Key, cursor, IInv, TypeOK, Places
<1>8. CASE Panic
  <2>1. /\ Clear /\ text' = <<>> /\ irqs_on' = FALSE /\ UNCHANGED <<ready, back, line>>
        /\ pc' \in {"reset", "halted"}
    BY <1>8 DEF Panic
  <2>2. text' \in Seq(Chars) /\ irqs_on' \in BOOLEAN
    BY <2>1, NoText, Zenon
  <2>. QED
    BY <2>1, <2>2, Cleared DEF IInv, TypeOK, Places
<1>9. CASE RaiseKernelPanicError
  <2>1. /\ Clear /\ irqs_on' = FALSE /\ UNCHANGED <<ready, line>>
        /\ text' \in {PanicText, <<>>} /\ pc' \in {"draw", "halted"} /\ back' \in {"reset", back}
    BY <1>9 DEF RaiseKernelPanicError, Begin
  <2>2. text' \in Seq(Chars) /\ irqs_on' \in BOOLEAN
    BY <2>1, Bounds, NoText, Zenon
  <2>. QED
    BY <2>1, <2>2, Cleared DEF IInv, TypeOK, Places
<1>10. CASE UNCHANGED vars
  BY <1>10 DEF vars, cursor, thread, IInv, TypeOK, Places
<1>. QED
  BY <1>1, <1>2, <1>3, <1>4, <1>5, <1>6, <1>7, <1>8, <1>9, <1>10,
     PutIInv, ScrollIInv, CenteredIInv DEF Next, Work

\* Whenever something may be drawn the cursor is in a cell of the screen,
\* whatever is printed: no glyph is lost or drawn in part.
THEOREM CursorOnScreen == Spec => []TypeOK
<1>1. IInv /\ [Next]_vars => IInv'
  BY StepIInv
<1>2. IInv => TypeOK
  BY DEF IInv
<1>. QED
  BY InitIInv, <1>1, <1>2, PTL DEF Spec

(***************************************************************************)
(* The refinement of Paper.  A row that was written on is filled from the  *)
(* left, the row of the cursor up to the cursor, and those below it are    *)
(* blank; so the lines that are shown end with that of the cursor.         *)
(***************************************************************************)
Texts == Seq(Printable \cup {BLANK, OVERPRINT})
Row   == [0 .. COLS - 1 -> Printable \cup {BLANK, OVERPRINT}]

Filled(row, n) == \A c \in 0 .. COLS - 1 : row[c] # BLANK <=> c < n

\* The first n cells of a row.
Left(row, n) == [c \in 1 .. n |-> row[c - 1]]

Written(s, h, t) ==
  /\ \A r \in 0 .. ROWS - 1 : \E n \in 0 .. COLS : Filled(s[r], n)
  /\ h < ROWS => Filled(s[h], t)
  /\ \A r \in 0 .. ROWS - 1 : r > h => Filled(s[r], 0)

LEMMA Sizes == COLS \in Nat /\ COLS > 0 /\ ROWS \in Nat /\ ROWS > 0
BY ScreenAssumption

LEMMA LeftEmpty == ASSUME NEW row PROVE Left(row, 0) = <<>>
BY DEF Left

LEMMA LeftText ==
  ASSUME NEW row \in Row, NEW n \in 0 .. COLS
  PROVE  Left(row, n) \in Texts /\ Len(Left(row, n)) = n
<1>1. \A c \in 1 .. n : row[c - 1] \in Printable \cup {BLANK, OVERPRINT}
  BY Sizes DEF Row
<1>. QED
  BY <1>1, Sizes DEF Left, Texts

LEMMA LineIsLeft ==
  ASSUME NEW row, NEW n \in 0 .. COLS, Filled(row, n)
  PROVE  LineOf(row) = Left(row, n)
<1>. DEFINE used == {c \in 0 .. COLS - 1 : row[c] # BLANK}
            last == CHOOSE c \in used : \A d \in used : d <= c
<1>1. used = {c \in 0 .. COLS - 1 : c < n}
  BY DEF Filled
<1>2. CASE n = 0
  <2>1. used = {}
    BY <1>1, <1>2, Sizes
  <2>. QED
    BY <1>2, <2>1, LeftEmpty DEF LineOf
<1>3. CASE n # 0
  <2>1. n - 1 \in used /\ (\A d \in used : d <= n - 1) /\ used \subseteq Int
    <3>. HIDE DEF used
    <3>1. n \in Int /\ n >= 1 /\ n <= COLS
      BY <1>3, Sizes
    <3>. QED
      BY <1>1, <3>1, Sizes
  <2>2. last \in used /\ \A d \in used : d <= last
    <3>. HIDE DEF used
    <3>. QED
      BY <2>1
  <2>3. last = n - 1
    <3>. HIDE DEF used, last
    <3>. QED
      BY <2>1, <2>2
  <2>4. LineOf(row) = [c \in 1 .. last + 1 |-> row[c - 1]]
    BY <2>1 DEF LineOf
  <2>5. last + 1 = n
    <3>. HIDE DEF last
    <3>. QED
      BY <2>3
  <2>. QED
    BY <2>4, <2>5 DEF Left
<1>. QED
  BY <1>2, <1>3

LEMMA BlankLine ==
  ASSUME NEW row, Filled(row, 0)
  PROVE  LineOf(row) = <<>>
BY LineIsLeft, LeftEmpty, Sizes

LEMMA LineIsText ==
  ASSUME NEW row \in Row, NEW n \in 0 .. COLS, Filled(row, n)
  PROVE  LineOf(row) \in Texts
BY LineIsLeft, LeftText

\* The lines of a screen up to row h, where h may be the one behind the last.
LineAt(s, k) == IF k <= ROWS THEN LineOf(s[k - 1]) ELSE <<>>

LEMMA LinesEndHere ==
  ASSUME NEW s \in Cells, NEW h \in 0 .. ROWS, NEW t, Written(s, h, t)
  PROVE  /\ Lines(s, h) = [k \in 1 .. h + 1 |-> LineAt(s, k)]
         /\ Lines(s, h) \in Seq(Texts) /\ Len(Lines(s, h)) = h + 1
<1>. DEFINE used == {r \in 0 .. ROWS - 1 : LineOf(s[r]) # <<>>} \cup {h}
            last == CHOOSE r \in used : \A q \in used : q <= r
<1>1. \A r \in used : r <= h
  BY BlankLine, Sizes DEF Written
<1>2. h \in used /\ used \subseteq Int
  BY Sizes
<1>3. last = h
  <2>. HIDE DEF used
  <2>1. last \in used /\ \A q \in used : q <= last
    BY <1>1, <1>2
  <2>. HIDE DEF last
  <2>. QED
    BY <1>1, <1>2, <2>1
<1>4. Lines(s, h) = [k \in 1 .. h + 1 |-> LineAt(s, k)]
  <2>1. Lines(s, h) = [k \in 1 .. last + 1 |-> LineAt(s, k)]
    BY DEF Lines, LineAt
  <2>. HIDE DEF last
  <2>. QED
    BY <1>3, <2>1
<1>5. ASSUME NEW k \in 1 .. h + 1 PROVE LineAt(s, k) \in Texts
  <2>1. CASE k <= ROWS
    <3>1. k - 1 \in 0 .. ROWS - 1
      BY <2>1, Sizes
    <3>2. PICK n \in 0 .. COLS : Filled(s[k - 1], n)
      BY <3>1 DEF Written
    <3>3. s[k - 1] \in Row
      BY <3>1 DEF Cells, Row
    <3>. QED
      BY <2>1, <3>2, <3>3, LineIsText DEF LineAt
  <2>2. CASE ~(k <= ROWS)
    BY <2>2, NoText, Zenon DEF LineAt, Texts
  <2>. QED
    BY <2>1, <2>2
<1>6. h + 1 \in Nat
  BY Sizes
<1>. QED
  BY <1>4, <1>5, <1>6

(***************************************************************************)
(* The paper's operations on lines g that are gone and lines l on the      *)
(* screen                                                                  *)
(***************************************************************************)
LEMMA FirstLineGoes ==
  ASSUME NEW T, NEW g \in Seq(T), NEW l \in Seq(T), NEW m \in Seq(T),
         Len(l) = Len(m) + 1, \A k \in 1 .. Len(m) : m[k] = l[k + 1]
  PROVE  Append(g, l[1]) \o m = g \o l
<1>. DEFINE after  == Append(g, l[1]) \o m
            before == g \o l
<1>1. Append(g, l[1]) \in Seq(T) /\ Len(Append(g, l[1])) = Len(g) + 1
  OBVIOUS
<1>2. Len(Append(g, l[1]) \o m) = Len(g \o l)
  BY <1>1
<1>3. ASSUME NEW k \in 1 .. Len(g \o l) PROVE (Append(g, l[1]) \o m)[k] = (g \o l)[k]
  <2>1. k \in Int /\ k >= 1 /\ k <= Len(g) + Len(l)
    OBVIOUS
  <2>2. CASE k <= Len(g)
    BY <1>1, <2>1, <2>2
  <2>3. CASE k = Len(g) + 1
    BY <1>1, <2>1, <2>3
  <2>4. CASE k > Len(g) + 1
    <3>1. (Append(g, l[1]) \o m)[k] = m[k - (Len(g) + 1)]
      BY <1>1, <2>1, <2>4
    <3>2. m[k - (Len(g) + 1)] = l[k - (Len(g) + 1) + 1]
      BY <2>1, <2>4
    <3>3. (g \o l)[k] = l[k - Len(g)] /\ k - (Len(g) + 1) + 1 = k - Len(g)
      BY <2>1, <2>4
    <3>. QED
      BY <3>1, <3>2, <3>3
  <2>. QED
    BY <2>1, <2>2, <2>3, <2>4
<1>4. after \in Seq(T) /\ before \in Seq(T)
  BY <1>1
<1>. QED
  <2>. HIDE DEF after, before
  <2>1. Len(after) = Len(before) /\ \A k \in 1 .. Len(before) : after[k] = before[k]
    BY <1>2, <1>3 DEF after, before
  <2>2. after = before
    BY <1>4, <2>1
  <2>. QED
    BY <2>2 DEF after, before

LEMMA LineIsAdded ==
  ASSUME NEW T, NEW g \in Seq(T), NEW l \in Seq(T), NEW e \in T
  PROVE  g \o Append(l, e) = Append(g \o l, e)
OBVIOUS

LEMMA OneIsWritten ==
  ASSUME NEW T, NEW q \in Seq(T), NEW n \in 1 .. Len(q), NEW e \in T, NEW k \in 1 .. Len(q)
  PROVE  [q EXCEPT ![n] = e][k] = IF k = n THEN e ELSE q[k]
OBVIOUS

LastReplaced(g, l, e) ==
  /\ (g \o l)[Len(g \o l)] = l[Len(l)]
  /\ g \o [l EXCEPT ![Len(l)] = e] = [g \o l EXCEPT ![Len(g \o l)] = e]

LEMMA LineIsWritten ==
  ASSUME NEW T, NEW g \in Seq(T), NEW l \in Seq(T), NEW e \in T, Len(l) > 0
  PROVE  LastReplaced(g, l, e)
<1>. DEFINE m == [l EXCEPT ![Len(l)] = e]
            w == [g \o l EXCEPT ![Len(g \o l)] = e]
<1>1. m \in Seq(T) /\ Len(m) = Len(l)
  OBVIOUS
<1>2. g \o l \in Seq(T) /\ Len(g \o l) = Len(g) + Len(l)
  OBVIOUS
<1>3. w \in Seq(T) /\ Len(w) = Len(g) + Len(l)
  BY <1>2
<1>4. Len(g \o m) = Len(w) /\ g \o m \in Seq(T)
  BY <1>1, <1>3
<1>5. ASSUME NEW k \in 1 .. Len(w) PROVE (g \o m)[k] = w[k]
  <2>1. k \in Int /\ k >= 1 /\ k <= Len(g) + Len(l)
    BY <1>3
  <2>2. w[k] = IF k = Len(g) + Len(l) THEN e ELSE (g \o l)[k]
    <3>. DEFINE q == g \o l
                n == Len(q)
    <3>1. q \in Seq(T) /\ n = Len(g) + Len(l) /\ k \in 1 .. Len(q) /\ n \in 1 .. Len(q)
      BY <1>2, <2>1
    <3>2. w[k] = [q EXCEPT ![n] = e][k]
      OBVIOUS
    <3>. HIDE DEF q, n, w
    <3>3. [q EXCEPT ![n] = e][k] = IF k = n THEN e ELSE q[k]
      BY <3>1, OneIsWritten
    <3>. QED
      BY <3>1, <3>2, <3>3 DEF q
  <2>3. CASE k <= Len(g)
    <3>1. (g \o m)[k] = g[k] /\ (g \o l)[k] = g[k] /\ k # Len(g) + Len(l)
      BY <1>1, <2>1, <2>3
    <3>. QED
      BY <2>2, <3>1
  <2>4. CASE k > Len(g)
    <3>1. (g \o m)[k] = m[k - Len(g)] /\ (g \o l)[k] = l[k - Len(g)]
      BY <1>1, <2>1, <2>4
    <3>2. m[k - Len(g)] = IF k - Len(g) = Len(l) THEN e ELSE l[k - Len(g)]
      BY <2>1, <2>4
    <3>3. k - Len(g) = Len(l) <=> k = Len(g) + Len(l)
      BY <2>1
    <3>. QED
      BY <2>2, <3>1, <3>2, <3>3
  <2>. QED
    BY <2>1, <2>3, <2>4
<1>6. g \o m = w
  <2>. HIDE DEF m, w
  <2>. QED
    BY <1>3, <1>4, <1>5
<1>. QED
  BY <1>2, <1>6 DEF LastReplaced

(***************************************************************************)
(* What drawing, wrapping and scrolling do to the lines of a screen        *)
(***************************************************************************)
LEMMA CleanLines == Written(Clean, 0, 0) /\ Lines(Clean, 0) = << <<>> >>
<1>1. \A r \in 0 .. ROWS - 1 : Filled(Clean[r], 0)
  BY Sizes DEF Clean, Filled
<1>2. 0 \in 0 .. COLS /\ 0 \in 0 .. ROWS - 1 /\ 0 \in 0 .. ROWS
  BY Sizes
<1>3. Written(Clean, 0, 0)
  BY <1>1, <1>2 DEF Written
<1>4. /\ Lines(Clean, 0) = [k \in 1 .. 0 + 1 |-> LineAt(Clean, k)]
      /\ Lines(Clean, 0) \in Seq(Texts) /\ Len(Lines(Clean, 0)) = 0 + 1
  BY <1>2, <1>3, CleanIsAScreen, LinesEndHere
<1>5. LineAt(Clean, 1) = <<>>
  BY <1>1, <1>2, BlankLine, Sizes DEF LineAt
<1>6. Lines(Clean, 0)[1] = <<>>
  BY <1>4, <1>5
<1>. QED
  BY <1>3, <1>4, <1>6

\* The cursor goes to the next row.
LEMMA NextLine ==
  ASSUME NEW s \in Cells, NEW h \in 0 .. ROWS - 1, NEW t, Written(s, h, t)
  PROVE  /\ Written(s, h + 1, 0)
         /\ Lines(s, h + 1) = Append(Lines(s, h), <<>>)
<1>1. h \in 0 .. ROWS /\ h + 1 \in 0 .. ROWS /\ h + 1 > h
  BY Sizes
<1>2. Written(s, h + 1, 0)
  <2>1. h + 1 < ROWS => Filled(s[h + 1], 0)
    BY <1>1, Sizes DEF Written
  <2>2. \A r \in 0 .. ROWS - 1 : r > h + 1 => r > h
    BY Sizes
  <2>. QED
    BY <2>1, <2>2 DEF Written
<1>3. /\ Lines(s, h) = [k \in 1 .. h + 1 |-> LineAt(s, k)]
      /\ Lines(s, h) \in Seq(Texts) /\ Len(Lines(s, h)) = h + 1
  BY <1>1, LinesEndHere
<1>4. /\ Lines(s, h + 1) = [k \in 1 .. h + 1 + 1 |-> LineAt(s, k)]
      /\ Lines(s, h + 1) \in Seq(Texts) /\ Len(Lines(s, h + 1)) = h + 1 + 1
  BY <1>1, <1>2, LinesEndHere
<1>5. LineAt(s, h + 1 + 1) = <<>>
  <2>1. CASE h + 1 < ROWS
    <3>1. LineAt(s, h + 1 + 1) = LineOf(s[h + 1])
      BY <2>1, Sizes DEF LineAt
    <3>. QED
      BY <2>1, <3>1, <1>2, BlankLine DEF Written
  <2>2. CASE ~(h + 1 < ROWS)
    BY <2>2, Sizes DEF LineAt
  <2>. QED
    BY <2>1, <2>2
<1>6. <<>> \in Texts
  BY NoText DEF Texts
<1>7. Lines(s, h + 1) = Append(Lines(s, h), <<>>)
  BY <1>3, <1>4, <1>5, <1>6, Sizes
<1>. QED
  BY <1>2, <1>7

\* A character is drawn where the cursor is.
DrawnAt(s, h, t, ch, s2) == s2 = [s EXCEPT ![h][t] = ch]

LineGrows(s, h, t, ch, s2) ==
  /\ Written(s2, h, t + 1)
  /\ Lines(s, h)[h + 1] \in Texts /\ Len(Lines(s, h)[h + 1]) = t
  /\ Lines(s2, h) = [Lines(s, h) EXCEPT ![h + 1] = Append(Lines(s, h)[h + 1], ch)]

LEMMA CharacterDrawn ==
  ASSUME NEW s \in Cells, NEW h \in 0 .. ROWS - 1, NEW t \in 0 .. COLS - 1, Written(s, h, t),
         NEW ch \in Printable, NEW s2 \in Cells, DrawnAt(s, h, t, ch, s2)
  PROVE  LineGrows(s, h, t, ch, s2)
<1>1. h \in 0 .. ROWS /\ h < ROWS /\ t \in 0 .. COLS /\ t + 1 \in 0 .. COLS
  BY Sizes
<1>2. Filled(s[h], t) /\ s[h] \in Row /\ s2[h] \in Row
  BY <1>1 DEF Written, Cells, Row
<1>4. ch # BLANK
  BY TextAssumption
<1>5. s2[h] = [s[h] EXCEPT ![t] = ch] /\ \A r \in 0 .. ROWS - 1 : r # h => s2[r] = s[r]
  BY DEF Cells, DrawnAt
<1>6. Filled(s2[h], t + 1)
  <2>1. \A c \in 0 .. COLS - 1 : s2[h][c] = IF c = t THEN ch ELSE s[h][c]
    BY <1>2, <1>5 DEF Row
  <2>2. \A c \in 0 .. COLS - 1 : c < t + 1 <=> (c < t \/ c = t)
    BY Sizes
  <2>. QED
    BY <1>2, <1>4, <2>1, <2>2 DEF Filled
<1>7. Written(s2, h, t + 1)
  BY <1>1, <1>5, <1>6 DEF Written
<1>8. /\ Lines(s, h) = [k \in 1 .. h + 1 |-> LineAt(s, k)]
      /\ Lines(s, h) \in Seq(Texts) /\ Len(Lines(s, h)) = h + 1
  BY <1>1, LinesEndHere
<1>9. /\ Lines(s2, h) = [k \in 1 .. h + 1 |-> LineAt(s2, k)]
      /\ Lines(s2, h) \in Seq(Texts) /\ Len(Lines(s2, h)) = h + 1
  BY <1>1, <1>7, LinesEndHere
<1>10. LineAt(s, h + 1) = Left(s[h], t) /\ LineAt(s2, h + 1) = Left(s2[h], t + 1)
  <2>1. h + 1 - 1 = h /\ h + 1 <= ROWS
    BY Sizes
  <2>2. LineAt(s, h + 1) = LineOf(s[h]) /\ LineAt(s2, h + 1) = LineOf(s2[h])
    BY <2>1 DEF LineAt
  <2>. QED
    BY <1>1, <1>2, <1>6, <2>2, LineIsLeft
<1>11. Left(s[h], t) \in Texts /\ Len(Left(s[h], t)) = t
  BY <1>1, <1>2, LeftText
<1>12. Left(s2[h], t + 1) = Append(Left(s[h], t), ch)
  <2>1. Left(s2[h], t + 1) \in Texts /\ Len(Left(s2[h], t + 1)) = t + 1
    BY <1>1, <1>2, LeftText
  <2>2. Append(Left(s[h], t), ch) \in Seq(Printable \cup {BLANK, OVERPRINT})
        /\ Len(Append(Left(s[h], t), ch)) = t + 1
    BY <1>11 DEF Texts
  <2>3. ASSUME NEW k \in 1 .. t + 1 PROVE Left(s2[h], t + 1)[k] = Append(Left(s[h], t), ch)[k]
    <3>1. k - 1 \in 0 .. COLS - 1 /\ (k - 1 = t <=> k = t + 1)
      BY <1>1, Sizes
    <3>2. Left(s2[h], t + 1)[k] = IF k - 1 = t THEN ch ELSE s[h][k - 1]
      BY <1>2, <1>5, <3>1 DEF Left, Row
    <3>3. CASE k = t + 1
      BY <1>11, <3>1, <3>2, <3>3 DEF Texts
    <3>4. CASE k # t + 1
      <4>1. k \in 1 .. t
        BY <3>4, <1>1
      <4>2. Append(Left(s[h], t), ch)[k] = Left(s[h], t)[k]
        BY <1>11, <4>1 DEF Texts
      <4>. QED
        BY <3>1, <3>2, <3>4, <4>1, <4>2 DEF Left
    <3>. QED
      BY <3>3, <3>4
  <2>. DEFINE a == Left(s2[h], t + 1)
              b == Append(Left(s[h], t), ch)
  <2>4. a \in Seq(Printable \cup {BLANK, OVERPRINT}) /\ Len(a) = t + 1
    BY <2>1 DEF Texts
  <2>. HIDE DEF a, b
  <2>5. b \in Seq(Printable \cup {BLANK, OVERPRINT}) /\ Len(b) = t + 1
    BY <2>2 DEF b
  <2>6. \A k \in 1 .. t + 1 : a[k] = b[k]
    BY <2>3 DEF a, b
  <2>7. a = b
    BY <2>4, <2>5, <2>6
  <2>. QED
    BY <2>7 DEF a, b
<1>13. Lines(s, h)[h + 1] = Left(s[h], t)
  BY <1>1, <1>8, <1>10
<1>14. Lines(s2, h) = [Lines(s, h) EXCEPT ![h + 1] = Append(Lines(s, h)[h + 1], ch)]
  <2>1. ASSUME NEW k \in 1 .. h + 1
        PROVE  LineAt(s2, k) = IF k = h + 1 THEN Append(Left(s[h], t), ch) ELSE LineAt(s, k)
    <3>1. CASE k = h + 1
      BY <3>1, <1>10, <1>12
    <3>2. CASE k # h + 1
      <4>1. k - 1 \in 0 .. ROWS - 1 /\ k - 1 # h
        BY <3>2, <1>1, Sizes
      <4>. QED
        BY <1>5, <3>2, <4>1 DEF LineAt
    <3>. QED
      BY <3>1, <3>2
  <2>. QED
    BY <1>8, <1>9, <1>13, <2>1
<1>. QED
  BY <1>7, <1>11, <1>13, <1>14 DEF LineGrows

\* The screen is moved up, and the first line goes.
LEMMA MovedUp ==
  ASSUME NEW s \in Cells, NEW t, Written(s, ROWS, t), NEW s2 \in Cells,
         s2 = [r \in 0 .. ROWS - 1 |-> IF r < ROWS - 1 THEN s[r + 1] ELSE LastLine]
  PROVE  /\ Written(s2, ROWS - 1, 0)
         /\ Lines(s, ROWS)[1] = LineOf(s[0])
         /\ Lines(s, ROWS) \in Seq(Texts) /\ Lines(s2, ROWS - 1) \in Seq(Texts)
         /\ Len(Lines(s, ROWS)) = Len(Lines(s2, ROWS - 1)) + 1
         /\ \A k \in 1 .. Len(Lines(s2, ROWS - 1)) : Lines(s2, ROWS - 1)[k] = Lines(s, ROWS)[k + 1]
<1>1. ROWS \in 0 .. ROWS /\ ROWS - 1 \in 0 .. ROWS /\ ROWS - 1 \in 0 .. ROWS - 1 /\ 0 \in 0 .. COLS
  BY Sizes
<1>2. \A r \in 0 .. ROWS - 1 : r < ROWS - 1 => r + 1 \in 0 .. ROWS - 1 /\ s2[r] = s[r + 1]
  BY Sizes
<1>3. s2[ROWS - 1] = LastLine
  BY <1>1
<1>4. Filled(s2[ROWS - 1], 0)
  BY <1>1, <1>3 DEF LastLine, Clean, Filled
<1>5. Written(s2, ROWS - 1, 0)
  <2>1. \A r \in 0 .. ROWS - 1 : r < ROWS - 1 \/ r = ROWS - 1
    BY Sizes
  <2>2. \A r \in 0 .. ROWS - 1 : ~(r > ROWS - 1)
    BY Sizes
  <2>3. \A r \in 0 .. ROWS - 1 : \E n \in 0 .. COLS : Filled(s2[r], n)
    BY <1>1, <1>2, <1>4, <2>1 DEF Written
  <2>. QED
    BY <1>4, <2>2, <2>3 DEF Written
<1>6. /\ Lines(s, ROWS) = [k \in 1 .. ROWS + 1 |-> LineAt(s, k)]
      /\ Lines(s, ROWS) \in Seq(Texts) /\ Len(Lines(s, ROWS)) = ROWS + 1
  BY <1>1, LinesEndHere
<1>7. /\ Lines(s2, ROWS - 1) = [k \in 1 .. ROWS - 1 + 1 |-> LineAt(s2, k)]
      /\ Lines(s2, ROWS - 1) \in Seq(Texts) /\ Len(Lines(s2, ROWS - 1)) = ROWS - 1 + 1
  BY <1>1, <1>5, LinesEndHere
<1>8. ROWS - 1 + 1 = ROWS /\ 1 \in 1 .. ROWS + 1
  BY Sizes
<1>9. Lines(s, ROWS)[1] = LineOf(s[0])
  BY <1>6, <1>8, Sizes DEF LineAt
<1>10. ASSUME NEW k \in 1 .. ROWS PROVE LineAt(s2, k) = LineAt(s, k + 1)
  <2>1. CASE k < ROWS
    <3>1. k - 1 \in 0 .. ROWS - 1 /\ k - 1 < ROWS - 1 /\ k - 1 + 1 = k /\ k + 1 - 1 = k /\ k + 1 <= ROWS
      BY <2>1, Sizes
    <3>2. s2[k - 1] = s[k]
      BY <1>2, <3>1
    <3>. QED
      BY <2>1, <3>1, <3>2 DEF LineAt
  <2>2. CASE k = ROWS
    <3>1. LineAt(s2, k) = <<>>
      BY <1>4, <2>2, BlankLine, Sizes DEF LineAt
    <3>2. LineAt(s, k + 1) = <<>>
      BY <2>2, Sizes DEF LineAt
    <3>. QED
      BY <3>1, <3>2
  <2>. QED
    BY <2>1, <2>2, Sizes
<1>11. ASSUME NEW k \in 1 .. ROWS PROVE Lines(s2, ROWS - 1)[k] = Lines(s, ROWS)[k + 1]
  <2>1. k \in 1 .. ROWS - 1 + 1 /\ k + 1 \in 1 .. ROWS + 1
    BY Sizes
  <2>2. Lines(s2, ROWS - 1)[k] = LineAt(s2, k)
    BY <1>7, <2>1
  <2>3. Lines(s, ROWS)[k + 1] = LineAt(s, k + 1)
    BY <1>6, <2>1
  <2>. QED
    BY <1>10, <2>2, <2>3
<1>. QED
  BY <1>5, <1>6, <1>7, <1>8, <1>9, <1>11

(***************************************************************************)
(* The steps of the console as those of the paper                          *)
(***************************************************************************)
There == IF pc \in {"centered", "restore"} THEN saved[1] ELSE x

Tidy ==
  /\ gone \in Seq(Texts)
  /\ Written(screen, Here, There)
  /\ pc = "scroll" <=> y = ROWS
  /\ pc = "scroll" => x = 0

PaperStep ==
  [Sheet!Clear \/ \E ch \in Chars \cup {Newline} : Sheet!Put(ch)]_(gone \o Lines(screen, Here))

LEMMA HereOnPaper == ASSUME IInv PROVE Here \in 0 .. ROWS /\ (pc # "scroll" => Here < ROWS)
BY Sizes DEF IInv, TypeOK, Here

\* Whatever does not draw and leaves the cursor, or means to bring it back.
LEMMA QuietStep ==
  ASSUME Tidy, UNCHANGED <<screen, gone>>, Here' = Here, There' = There,
         pc' = "scroll" <=> y' = ROWS, pc' = "scroll" => x' = 0
  PROVE  Tidy' /\ PaperStep
<1>1. gone' = gone /\ screen' = screen
  OBVIOUS
<1>2. (gone \o Lines(screen, Here))' = gone \o Lines(screen, Here)
  BY <1>1
<1>. QED
  BY <1>1, <1>2 DEF Tidy, PaperStep

LEMMA ClearStep ==
  ASSUME Clear, pc' \notin {"centered", "restore", "scroll"}
  PROVE  Tidy' /\ PaperStep
<1>1. screen' = Clean /\ x' = 0 /\ y' = 0 /\ gone' = <<>>
  BY DEF Clear
<1>2. Here' = 0 /\ There' = 0
  BY <1>1 DEF Here, There
<1>3. Written(Clean, 0, 0) /\ Lines(Clean, 0) = << <<>> >>
  BY CleanLines
<1>4. gone' \in Seq(Texts)
  BY <1>1, NoText, Zenon
<1>5. y' # ROWS
  BY <1>1, Sizes
<1>6. (gone \o Lines(screen, Here))' = << <<>> >>
  <2>1. (gone \o Lines(screen, Here))' = <<>> \o << <<>> >>
    BY <1>1, <1>2, <1>3
  <2>. QED
    BY <2>1
<1>7. Written(screen, Here, There)'
  BY <1>1, <1>2, <1>3
<1>. QED
  BY <1>4, <1>5, <1>6, <1>7 DEF Tidy, PaperStep, Sheet!Clear

LEMMA ScrollStep ==
  ASSUME IInv, Tidy, TerminalTTYScrollUp
  PROVE  Tidy' /\ PaperStep
<1>1. /\ pc = "scroll" /\ pc' = "delay" /\ y = ROWS /\ x = 0 /\ y' = ROWS - 1 /\ x' = 0
      /\ screen' = [r \in 0 .. ROWS - 1 |-> IF r < ROWS - 1 THEN screen[r + 1] ELSE LastLine]
      /\ gone' = Append(gone, LineOf(screen[0]))
  BY DEF TerminalTTYScrollUp, Tidy
<1>2. Here = ROWS /\ Here' = ROWS - 1 /\ There' = 0
  BY <1>1 DEF Here, There
<1>3. screen \in Cells /\ screen' \in Cells /\ Written(screen, ROWS, There) /\ gone \in Seq(Texts)
  <2>1. IInv'
    BY ScrollIInv
  <2>. QED
    BY <1>2, <2>1 DEF IInv, TypeOK, Tidy
<1>. DEFINE s  == screen
            s2 == screen'
            l  == Lines(s, ROWS)
            m  == Lines(s2, ROWS - 1)
<1>4. /\ Written(s2, ROWS - 1, 0)
      /\ l[1] = LineOf(s[0])
      /\ l \in Seq(Texts) /\ m \in Seq(Texts)
      /\ Len(l) = Len(m) + 1
      /\ \A k \in 1 .. Len(m) : m[k] = l[k + 1]
  BY <1>1, <1>3, MovedUp
<1>5. Append(gone, l[1]) \o m = gone \o l
  <2>. HIDE DEF l, m
  <2>. QED
    BY <1>3, <1>4, FirstLineGoes
<1>6. (gone \o Lines(screen, Here))' = gone \o Lines(screen, Here)
  BY <1>1, <1>2, <1>4, <1>5
<1>7. gone' \in Seq(Texts)
  <2>1. 1 \in 1 .. Len(l)
    <3>. HIDE DEF l, m
    <3>. QED
      BY <1>4
  <2>2. l[1] \in Texts
    <3>. HIDE DEF l, m
    <3>. QED
      BY <1>4, <2>1
  <2>. QED
    BY <1>1, <1>3, <1>4, <2>2
<1>8. y' # ROWS
  BY <1>1, Sizes
<1>9. Written(screen, Here, There)'
  BY <1>2, <1>4
<1>. QED
  BY <1>1, <1>6, <1>7, <1>8, <1>9 DEF Tidy, PaperStep

LEMMA NewlineStep ==
  ASSUME IInv, Tidy, PSFPutChar, Head(text) = Newline
  PROVE  Tidy' /\ PaperStep
<1>1. /\ pc = "draw" /\ x \in 0 .. COLS - 1 /\ y \in 0 .. ROWS - 1 /\ screen \in Cells
      /\ y \in 0 .. ROWS /\ gone \in Seq(Texts) /\ Written(screen, y, x)
  BY Sizes DEF PSFPutChar, IInv, TypeOK, Tidy, Here, There
<1>2. /\ screen' = screen /\ gone' = gone /\ x' = 0 /\ y' = y + 1
      /\ pc' = IF y' >= ROWS THEN "scroll" ELSE "draw"
  <2>1. Wrapped(Moved(Newline)) = <<0, y + 1>>
    BY Sizes DEF Wrapped, Moved
  <2>. QED
    BY <2>1 DEF PSFPutChar, Drawn
<1>3. Here = y /\ Here' = y + 1 /\ There' = 0
  BY <1>1, <1>2 DEF Here, There
<1>. DEFINE l == Lines(screen, y)
<1>4. Written(screen, y + 1, 0) /\ Lines(screen, y + 1) = Append(l, <<>>)
  BY <1>1, NextLine
<1>5. l \in Seq(Texts) /\ <<>> \in Texts
  BY <1>1, LinesEndHere, NoText DEF Texts
<1>6. gone \o Append(l, <<>>) = Append(gone \o l, <<>>)
  <2>. HIDE DEF l
  <2>. QED
    BY <1>1, <1>5, LineIsAdded
<1>7. (gone \o Lines(screen, Here))' = Append(gone \o Lines(screen, Here), <<>>)
  BY <1>2, <1>3, <1>4, <1>6
<1>8. Sheet!Put(Newline)
  BY <1>7 DEF Sheet!Put
<1>9. Written(screen, Here, There)'
  BY <1>2, <1>3, <1>4
<1>10. pc' = "scroll" <=> y' = ROWS
  BY <1>1, <1>2, Sizes
<1>. QED
  BY <1>1, <1>2, <1>8, <1>9, <1>10 DEF Tidy, PaperStep, Chars

LEMMA CharacterStep ==
  ASSUME IInv, Tidy, PSFPutChar, Head(text) # Newline
  PROVE  Tidy' /\ PaperStep
<1>. DEFINE ch == Head(text)
            l  == Lines(screen, y)
            v  == Append(l[y + 1], ch)
            m  == Lines(screen', y)
            last == Len(gone \o l)
<1>1. /\ pc = "draw" /\ x \in 0 .. COLS - 1 /\ y \in 0 .. ROWS - 1 /\ screen \in Cells
      /\ y \in 0 .. ROWS /\ gone \in Seq(Texts) /\ Written(screen, y, x)
  BY Sizes DEF PSFPutChar, IInv, TypeOK, Tidy, Here, There
<1>2. ch \in Printable /\ ch \in Chars /\ ch # Newline
  BY DEF PSFPutChar, IInv, TypeOK, Chars
<1>3. screen[y][x] = BLANK
  BY <1>1, Sizes DEF Written, Filled
<1>4. screen' \in Cells
  BY PutIInv DEF IInv, TypeOK
<1>5. screen' = [screen EXCEPT ![y][x] = ch] /\ gone' = gone
  BY <1>1, <1>2, <1>3 DEF PSFPutChar, Drawn, OnScreen
<1>6. /\ x' = IF x + 1 = COLS THEN 0 ELSE x + 1
      /\ y' = IF x + 1 = COLS THEN y + 1 ELSE y
      /\ pc' = IF y' >= ROWS THEN "scroll" ELSE "draw"
  <2>1. Moved(ch) = <<x + 1, y>> /\ (x + 1 >= COLS <=> x + 1 = COLS)
    BY <1>1, <1>2, Sizes DEF Moved
  <2>2. Wrapped(Moved(ch)) = IF x + 1 = COLS THEN <<0, y + 1>> ELSE <<x + 1, y>>
    BY <2>1 DEF Wrapped
  <2>. QED
    BY <2>2 DEF PSFPutChar
<1>7. Here = y /\ Here' = y' /\ There' = x'
  BY <1>1, <1>6 DEF Here, There
<1>8. /\ Written(screen', y, x + 1)
      /\ l[y + 1] \in Texts /\ Len(l[y + 1]) = x
      /\ m = [l EXCEPT ![y + 1] = v]
  <2>. HIDE DEF ch
  <2>1. ch \in Printable /\ DrawnAt(screen, y, x, ch, screen')
    BY <1>2, <1>5 DEF DrawnAt
  <2>2. LineGrows(screen, y, x, ch, screen')
    BY <1>1, <1>4, <2>1, CharacterDrawn
  <2>. QED
    BY <2>2 DEF LineGrows
<1>9. l \in Seq(Texts) /\ Len(l) = y + 1 /\ m \in Seq(Texts) /\ <<>> \in Texts
  BY <1>1, <1>4, <1>8, LinesEndHere, NoText DEF Texts
<1>10. v \in Texts /\ Len(v) = x + 1
  BY <1>1, <1>2, <1>8 DEF Texts
<1>11. (gone \o l)[last] = l[y + 1] /\ gone \o m = [gone \o l EXCEPT ![last] = v]
  <2>. HIDE DEF l, v, m
  <2>1. Len(l) > 0 /\ Len(l) = y + 1
    BY <1>1, <1>9
  <2>2. m = [l EXCEPT ![Len(l)] = v] /\ l[Len(l)] = l[y + 1]
    BY <1>8, <2>1
  <2>3. gone \in Seq(Texts) /\ l \in Seq(Texts) /\ v \in Texts
    BY <1>1, <1>9, <1>10
  <2>4. LastReplaced(gone, l, v)
    BY <2>1, <2>3, LineIsWritten
  <2>. QED
    BY <2>2, <2>4 DEF LastReplaced
<1>12. CASE x + 1 # COLS
  <2>1. y' = y /\ x' = x + 1 /\ pc' = "draw"
    BY <1>1, <1>6, <1>12, Sizes
  <2>2. (gone \o Lines(screen, Here))' = [gone \o l EXCEPT ![last] = Append((gone \o l)[last], ch)]
    BY <1>5, <1>7, <1>11, <2>1
  <2>3. Len(Append((gone \o l)[last], ch)) # COLS
    BY <1>10, <1>11, <1>12
  <2>4. Sheet!Put(ch)
    BY <1>2, <1>7, <2>2, <2>3 DEF Sheet!Put, Sheet!Last
  <2>5. Written(screen, Here, There)'
    BY <1>7, <1>8, <2>1
  <2>6. y' # ROWS
    BY <1>1, <2>1, Sizes
  <2>. QED
    BY <1>1, <1>2, <1>5, <2>1, <2>4, <2>5, <2>6 DEF Tidy, PaperStep
<1>13. CASE x + 1 = COLS
  <2>1. y' = y + 1 /\ x' = 0 /\ pc' = IF y' >= ROWS THEN "scroll" ELSE "draw"
    BY <1>6, <1>13
  <2>2. Written(screen', y + 1, 0) /\ Lines(screen', y + 1) = Append(m, <<>>)
    BY <1>1, <1>4, <1>8, NextLine
  <2>3. gone \o Append(m, <<>>) = Append(gone \o m, <<>>)
    <3>. HIDE DEF m
    <3>. QED
      BY <1>1, <1>9, LineIsAdded
  <2>4. (gone \o Lines(screen, Here))'
          = Append([gone \o l EXCEPT ![last] = Append((gone \o l)[last], ch)], <<>>)
    BY <1>5, <1>7, <1>11, <2>1, <2>2, <2>3
  <2>5. Len(Append((gone \o l)[last], ch)) = COLS
    BY <1>10, <1>11, <1>13
  <2>6. Sheet!Put(ch)
    BY <1>2, <1>7, <2>4, <2>5 DEF Sheet!Put, Sheet!Last
  <2>7. Written(screen, Here, There)'
    BY <1>7, <2>1, <2>2
  <2>8. pc' = "scroll" <=> y' = ROWS
    BY <1>1, <2>1, Sizes
  <2>. QED
    BY <1>1, <1>2, <1>5, <2>1, <2>6, <2>7, <2>8 DEF Tidy, PaperStep
<1>. QED
  BY <1>12, <1>13

LEMMA StepTidy ==
  ASSUME IInv, Tidy, [Next]_vars
  PROVE  Tidy' /\ PaperStep
<1>1. IInv'
  BY StepIInv
<1>. DEFINE Quiet == /\ UNCHANGED <<screen, gone>> /\ Here' = Here /\ There' = There
                     /\ pc' = "scroll" <=> y' = ROWS
                     /\ pc' = "scroll" => x' = 0
<1>2. y' # ROWS \/ pc' = "scroll"
  BY <1>1, Sizes DEF IInv, TypeOK
<1>3. CASE PreparingGlobalPSFFont \/ TextDrawn \/ Delay \/ RunCommandG \/ \E k \in Chars : Key(k)
  <2>1. /\ UNCHANGED <<screen, x, y, saved, gone>>
        /\ pc \notin {"centered", "restore", "scroll"} /\ pc' \notin {"centered", "restore", "scroll"}
    BY <1>3 DEF PreparingGlobalPSFFont, TextDrawn, Delay, RunCommandG, Key, Begin, cursor,
                IInv, Places
  <2>. QED
    BY <1>2, <2>1, QuietStep DEF Here, There
<1>4. CASE SetCursorMiddle
  <2>1. /\ UNCHANGED <<screen, x, gone>> /\ pc = "middle" /\ pc' \in {"centered", "halted"}
        /\ pc' = "centered" => saved' = <<x, y>>
        /\ pc' = "halted" => UNCHANGED y
    BY <1>4 DEF SetCursorMiddle
  <2>. QED
    BY <1>2, <2>1, QuietStep DEF Here, There
<1>5. CASE PrintCentered
  <2>1. UNCHANGED <<screen, y, saved, gone>> /\ pc = "centered" /\ pc' = "restore"
    BY <1>5 DEF PrintCentered
  <2>. QED
    BY <1>2, <2>1, QuietStep DEF Here, There
<1>6. CASE ResetLastCursorTTY
  <2>1. UNCHANGED <<screen, saved, gone>> /\ pc = "restore" /\ pc' = "serial"
        /\ x' = saved[1] /\ y' = saved[2]
    BY <1>6 DEF ResetLastCursorTTY, Restore
  <2>. QED
    BY <1>2, <2>1, QuietStep DEF Here, There
<1>7. CASE PSFPutChar
  BY <1>7, NewlineStep, CharacterStep
<1>8. CASE TerminalTTYScrollUp
  BY <1>8, ScrollStep
<1>9. CASE GraphicOn \/ GraphicOff \/ Panic \/ RaiseKernelPanicError
  <2>1. Clear /\ pc' \notin {"centered", "restore", "scroll"}
    BY <1>9 DEF GraphicOn, GraphicOff, Panic, RaiseKernelPanicError, Begin
  <2>. QED
    BY <2>1, ClearStep
<1>10. CASE UNCHANGED vars
  <2>1. UNCHANGED <<screen, x, y, saved, pc, gone>>
    BY <1>10 DEF vars, cursor
  <2>. QED
    BY <2>1, QuietStep DEF Here, There, Tidy
<1>. QED
  BY <1>3, <1>4, <1>5, <1>6, <1>7, <1>8, <1>9, <1>10 DEF Next, Work

LEMMA InitTidy == Init => Tidy /\ Sheet!Init
<1> SUFFICES ASSUME Init PROVE Tidy /\ Sheet!Init
  OBVIOUS
<1>1. /\ screen = Clean /\ x = 0 /\ y = 0 /\ gone = <<>> /\ pc = "font"
      /\ Here = 0 /\ There = 0
  BY DEF Init, Here, There
<1>2. Written(Clean, 0, 0) /\ Lines(Clean, 0) = << <<>> >>
  BY CleanLines
<1>3. gone \in Seq(Texts)
  BY <1>1, NoText, Zenon
<1>4. <<>> \o << <<>> >> = << <<>> >>
  OBVIOUS
<1>5. y # ROWS
  BY <1>1, Sizes
<1>. QED
  BY <1>1, <1>2, <1>3, <1>4, <1>5 DEF Tidy, Sheet!Init

\* The screen always shows the end of a paper on which every character was
\* put in its turn: PSFPutChar puts one, clearing takes a new sheet, and
\* scrolling, centering and all the rest change nothing that was written.
THEOREM ScreenIsPaper == Spec => ShowsThePaper
<1>1. IInv /\ Tidy /\ [Next]_vars => IInv' /\ Tidy' /\ PaperStep
  BY StepIInv, StepTidy
<1>. QED
  BY InitIInv, InitTidy, <1>1, PTL DEF Spec, ShowsThePaper, Sheet!Spec, PaperStep
=============================================================================
