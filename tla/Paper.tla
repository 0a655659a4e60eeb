-------------------------------- MODULE Paper --------------------------------
(***************************************************************************)
(* What a text console promises (fs/ext/psf.c): writing on an endless      *)
(* paper COLS characters wide, of which the screen shows the last lines.   *)
(***************************************************************************)
EXTENDS Naturals, Sequences

CONSTANTS COLS, Chars, Newline

VARIABLE lines

Last == Len(lines)

Put(ch) ==
  lines' = IF ch = Newline THEN Append(lines, <<>>)
           ELSE LET line    == Append(lines[Last], ch)
                    written == [lines EXCEPT ![Last] = line]
                IN  IF Len(line) = COLS THEN Append(written, <<>>) ELSE written

Clear == lines' = << <<>> >>

Init == lines = << <<>> >>
Spec == Init /\ [][Clear \/ \E ch \in Chars \cup {Newline} : Put(ch)]_lines
=============================================================================
