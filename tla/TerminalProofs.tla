--------------------------- MODULE TerminalProofs ---------------------------
(***************************************************************************)
(* Proofs about Terminal, for any keys, lengths of a line and numbers of   *)
(* presses.  The inductive invariant follows a press on its way: presses   *)
(* lie on the wire in their order, behind the one in last_char, which is   *)
(* not older than the one in c, which is younger than those taken.         *)
(***************************************************************************)
EXTENDS Terminal, Induction

Types ==
  /\ wire \in Seq(Int) /\ pressed \in Seq(Keys)
  /\ down \subseteq Nat \ {0}
  /\ last_char \in Nat /\ c \in Nat
  /\ pc \in {"spin", "take", "clear", "line", "run"}
  /\ taken \in Seq(Nat)

\* No number is larger than that of the last press.
Numbers ==
  /\ last_char <= Len(pressed) /\ c <= Len(pressed)
  /\ \A k \in 1 .. Len(wire) : wire[k] <= Len(pressed)
  /\ \A k \in 1 .. Len(taken) : taken[k] <= Len(pressed)

\* A character that is not empty is younger than all that were taken.
Younger(n) == n # 0 => \A k \in 1 .. Len(taken) : taken[k] < n

\* What is on the wire is younger than n.
Behind(n) == \A k \in 1 .. Len(wire) : wire[k] > 0 => n < wire[k]

InOrder ==
  /\ TakenInOrder
  /\ Younger(last_char)
  /\ pc = "clear" => Younger(c) /\ (last_char # 0 => c <= last_char)
  /\ \A j, k \in 1 .. Len(wire) : j < k /\ wire[j] > 0 /\ wire[k] > 0 => wire[j] < wire[k]
  /\ Behind(last_char) /\ Behind(c)
  /\ \A k \in 1 .. Len(taken) : Behind(taken[k])

IInv == Types /\ Numbers /\ InOrder

LEMMA InitIInv == Init => IInv
BY DEF Init, IInv, Types, Numbers, InOrder, TakenInOrder, Younger, Behind

\* What is appended to a sequence of integers is its last element.
LEMMA Appended ==
  ASSUME NEW s \in Seq(Int), NEW e \in Int
  PROVE  /\ Append(s, e) \in Seq(Int)
         /\ Len(Append(s, e)) = Len(s) + 1 /\ Len(s) \in Nat
         /\ Append(s, e)[Len(s) + 1] = e
         /\ \A k \in 1 .. Len(s) : Append(s, e)[k] = s[k]
         /\ \A k \in 1 .. Len(s) + 1 : k \in 1 .. Len(s) \/ k = Len(s) + 1
OBVIOUS

\* A key is pressed: its number is the largest.
LEMMA PressIInv ==
  ASSUME IInv, NEW key \in Keys, Press(key)
  PROVE  IInv'
<1>1. /\ pressed' \in Seq(Keys) /\ Len(pressed') = Len(pressed) + 1
      /\ wire' = Append(wire, Len(pressed')) /\ Len(pressed) \in Nat
  BY DEF IInv, Types, Press
<1>2. UNCHANGED <<last_char, pc, c, taken>> /\ down' = down \cup {Len(pressed')}
  BY <1>1 DEF Press, terminal
<1>. DEFINE n == Len(pressed')
<1>3. /\ wire' \in Seq(Int) /\ Len(wire') = Len(wire) + 1 /\ wire'[Len(wire) + 1] = n
      /\ \A j \in 1 .. Len(wire) : wire'[j] = wire[j]
      /\ \A j \in 1 .. Len(wire') : j \in 1 .. Len(wire) \/ j = Len(wire) + 1
  <2>1. wire \in Seq(Int) /\ n \in Int /\ wire' = Append(wire, n)
    BY <1>1 DEF IInv, Types
  <2>. HIDE DEF n
  <2>. QED
    BY <2>1, Appended
<1>4. Types'
  <2>1. down' \subseteq Nat \ {0}
    <3>1. Len(pressed') \in Nat \ {0} /\ down \subseteq Nat \ {0}
      BY <1>1 DEF IInv, Types
    <3>. QED
      BY <1>2, <3>1
  <2>2. wire' \in Seq(Int)
    BY <1>3
  <2>. QED
    BY <1>1, <1>2, <2>1, <2>2 DEF IInv, Types
<1>. HIDE DEF n
<1>5. n \in Nat /\ n = Len(pressed) + 1 /\ Len(pressed) \in Nat
  BY <1>1 DEF n
<1>6. Numbers'
  BY <1>1, <1>2, <1>3, <1>5 DEF IInv, Types, Numbers, n
<1>7. /\ last_char < n /\ c < n
      /\ \A j \in 1 .. Len(wire) : wire[j] < n
      /\ \A j \in 1 .. Len(taken) : taken[j] < n
  BY <1>5 DEF IInv, Types, Numbers
<1>8. \A j \in 1 .. Len(wire') : j \in 1 .. Len(wire) \/ wire'[j] = n
  BY <1>3
<1>9. Behind(last_char)' /\ Behind(c)' /\ \A k \in 1 .. Len(taken') : Behind(taken[k])'
  BY <1>2, <1>3, <1>7, <1>8 DEF IInv, InOrder, Behind
<1>10. \A j, k \in 1 .. Len(wire') :
         j < k /\ wire'[j] > 0 /\ wire'[k] > 0 => wire'[j] < wire'[k]
  <2> SUFFICES ASSUME NEW j \in 1 .. Len(wire'), NEW k \in 1 .. Len(wire'),
                      j < k, wire'[j] > 0, wire'[k] > 0
               PROVE  wire'[j] < wire'[k]
    OBVIOUS
  <2>1. Len(wire) \in Nat
    BY DEF IInv, Types
  <2>2. j \in 1 .. Len(wire)
    BY <1>3, <2>1
  <2>. QED
    BY <1>3, <1>7, <2>2 DEF IInv, InOrder
<1>11. InOrder'
  BY <1>2, <1>9, <1>10 DEF IInv, InOrder, TakenInOrder, Younger
<1>. QED
  BY <1>4, <1>6, <1>11 DEF IInv

\* A release is on the wire as a number that is none of a press.
LEMMA ReleaseIInv ==
  ASSUME IInv, NEW n \in down, Release(n)
  PROVE  IInv'
<1>1. UNCHANGED <<pressed, last_char, pc, c, taken>> /\ down' \subseteq down
  BY DEF Release, terminal
<1>2. n \in Nat /\ n > 0 /\ -n \in Int /\ wire' = Append(wire, -n)
  BY DEF IInv, Types, Release
<1>3. /\ wire' \in Seq(Int) /\ Len(wire') = Len(wire) + 1 /\ wire'[Len(wire) + 1] = -n
      /\ \A j \in 1 .. Len(wire) : wire'[j] = wire[j]
  BY <1>2, Appended DEF IInv, Types
<1>4. Types'
  BY <1>1, <1>3 DEF IInv, Types
<1>5. Numbers'
  BY <1>1, <1>2, <1>3 DEF IInv, Types, Numbers
<1>6. InOrder'
  BY <1>1, <1>2, <1>3 DEF IInv, InOrder, TakenInOrder, Types, Younger, Behind
<1>. QED
  BY <1>4, <1>5, <1>6 DEF IInv

\* The handler puts the first of the wire into last_char: it is younger than
\* all in front of it, and the others on the wire are behind it.
LEMMA InterruptIInv ==
  ASSUME IInv, Interrupt
  PROVE  IInv'
<1>1. Head(wire) = wire[1] /\ wire[1] \in Int /\ 1 \in 1 .. Len(wire) /\ Len(wire) \in Nat
  BY DEF IInv, Types, Interrupt
<1>2. /\ wire' \in Seq(Int) /\ Len(wire') = Len(wire) - 1
      /\ \A j \in 1 .. Len(wire') : wire'[j] = wire[j + 1] /\ j + 1 \in 1 .. Len(wire)
  BY <1>1 DEF IInv, Types, Interrupt
<1>3. last_char' = 0 \/ (last_char' = wire[1] /\ wire[1] > 0)
  BY <1>1 DEF Interrupt, ascii_translator
<1>4. UNCHANGED <<pressed, down, pc, c, taken>>
  BY DEF Interrupt, user, terminal
<1>5. Types'
  BY <1>1, <1>2, <1>3, <1>4 DEF IInv, Types
<1>6. Numbers'
  <2>1. Len(pressed) \in Nat /\ wire[1] <= Len(pressed)
    BY <1>1 DEF IInv, Types, Numbers
  <2>2. last_char' <= Len(pressed)
    BY <1>3, <2>1
  <2>3. \A k \in 1 .. Len(wire') : wire'[k] <= Len(pressed)
    BY <1>2 DEF IInv, Numbers
  <2>. QED
    BY <1>4, <2>2, <2>3 DEF IInv, Numbers
<1>7. Younger(last_char)' /\ (last_char' # 0 => c < last_char')
  BY <1>1, <1>3, <1>4 DEF IInv, InOrder, Younger, Behind
<1>8. Behind(last_char)'
  <2> SUFFICES ASSUME NEW k \in 1 .. Len(wire'), wire'[k] > 0
               PROVE  last_char' < wire'[k]
    BY DEF Behind
  <2>1. wire'[k] = wire[k + 1] /\ k + 1 \in 1 .. Len(wire) /\ 1 < k + 1
    BY <1>1, <1>2
  <2>2. wire[1] > 0 => wire[1] < wire[k + 1]
    BY <1>1, <2>1 DEF IInv, InOrder
  <2>. QED
    BY <1>3, <2>1, <2>2
<1>9. Behind(c)' /\ \A k \in 1 .. Len(taken) : Behind(taken[k])'
  BY <1>2, <1>4 DEF IInv, InOrder, Behind
<1>10. \A j, k \in 1 .. Len(wire') :
         j < k /\ wire'[j] > 0 /\ wire'[k] > 0 => wire'[j] < wire'[k]
  <2> SUFFICES ASSUME NEW j \in 1 .. Len(wire'), NEW k \in 1 .. Len(wire'),
                      j < k, wire'[j] > 0, wire'[k] > 0
               PROVE  wire'[j] < wire'[k]
    OBVIOUS
  <2>1. j + 1 < k + 1
    BY <1>1, <1>2
  <2>. QED
    BY <1>2, <2>1 DEF IInv, InOrder
<1>11. (pc = "clear" => Younger(c) /\ (last_char # 0 => c <= last_char))'
  BY <1>4, <1>5, <1>7 DEF IInv, InOrder, Types, Younger
<1>12. TakenInOrder'
  BY <1>4 DEF IInv, InOrder, TakenInOrder
<1>. QED
  BY <1>4, <1>5, <1>6, <1>7, <1>8, <1>9, <1>10, <1>11, <1>12 DEF IInv, InOrder

\* The character that Clear adds is younger than those before it.
LEMMA ClearIInv ==
  ASSUME IInv, Clear
  PROVE  IInv'
<1>1. UNCHANGED <<wire, pressed, down, c>> /\ last_char' = 0 /\ pc = "clear" /\ pc' = "line"
  BY DEF Clear, user
<1>2. Behind(0)
  BY DEF IInv, Types, Behind
<1>3. CASE c = 0
  <2>1. taken' = taken
    BY <1>3 DEF Clear
  <2>. QED
    BY <1>1, <1>2, <2>1 DEF IInv, Types, Numbers, InOrder, TakenInOrder, Younger, Behind
<1>4. CASE c # 0
  <2>1. taken' = Append(taken, c)
    BY <1>4 DEF Clear
  <2>2. /\ taken' \in Seq(Nat) /\ Len(taken') = Len(taken) + 1 /\ Len(taken) \in Nat
        /\ taken'[Len(taken) + 1] = c
        /\ \A k \in 1 .. Len(taken) : taken'[k] = taken[k]
        /\ \A k \in 1 .. Len(taken') : k \in 1 .. Len(taken) \/ k = Len(taken) + 1
    BY <2>1 DEF IInv, Types
  <2>3. \A k \in 1 .. Len(taken) : taken[k] < c
    BY <1>1, <1>4 DEF IInv, InOrder, Younger
  <2>4. Types'
    BY <1>1, <2>2 DEF IInv, Types
  <2>5. Numbers'
    <3>1. c <= Len(pressed) /\ 0 <= Len(pressed)
      BY DEF IInv, Types, Numbers
    <3>2. \A k \in 1 .. Len(taken') : taken'[k] <= Len(pressed)
      BY <2>2, <3>1 DEF IInv, Numbers
    <3>. QED
      BY <1>1, <3>1, <3>2 DEF IInv, Numbers
  <2>6. TakenInOrder'
    <3> SUFFICES ASSUME NEW j \in 1 .. Len(taken'), NEW k \in 1 .. Len(taken'), j < k
                 PROVE  taken'[j] < taken'[k]
      BY DEF TakenInOrder
    <3>1. j \in 1 .. Len(taken)
      BY <2>2
    <3>. QED
      BY <2>2, <2>3, <3>1 DEF IInv, InOrder, TakenInOrder
  <2>7. ASSUME NEW k \in 1 .. Len(taken') PROVE Behind(taken[k])'
    BY <1>1, <2>2 DEF IInv, InOrder, Behind
  <2>8. Behind(last_char)' /\ Behind(c)' /\ Younger(last_char)'
    BY <1>1, <1>2 DEF IInv, InOrder, Behind, Younger
  <2>9. (\A j, k \in 1 .. Len(wire) : j < k /\ wire[j] > 0 /\ wire[k] > 0 => wire[j] < wire[k])'
    BY <1>1 DEF IInv, InOrder
  <2>. QED
    BY <1>1, <2>4, <2>5, <2>6, <2>7, <2>8, <2>9 DEF IInv, InOrder
<1>. QED
  BY <1>3, <1>4

LEMMA TerminalIInv ==
  ASSUME IInv, TerminalStep
  PROVE  IInv'
<1>. USE DEF IInv, Types, Numbers, InOrder, TakenInOrder, Younger, Behind
<1>1. CASE Spin
  BY <1>1 DEF Spin, user
<1>2. CASE Take
  BY <1>2 DEF Take, user
<1>3. ASSUME Queue \/ RunCommand \/ CommandReturns PROVE IInv'
  <2>1. /\ UNCHANGED <<wire, pressed, down, last_char, taken>>
        /\ c' \in {0, c} /\ pc' \in {"spin", "run"}
    BY <1>3 DEF Queue, RunCommand, CommandReturns, user
  <2>. QED
    BY <2>1
<1>. QED
  BY <1>1, <1>2, <1>3, ClearIInv DEF TerminalStep

LEMMA StepIInv ==
  ASSUME IInv, [Next]_vars
  PROVE  IInv'
<1>1. UNCHANGED vars => IInv'
  BY DEF IInv, Types, Numbers, InOrder, TakenInOrder, Younger, Behind, vars, user, terminal
<1>. QED
  BY <1>1, PressIInv, ReleaseIInv, InterruptIInv, TerminalIInv DEF Next

\* Wherever the handler comes between the accesses to last_char, a press is
\* taken at most once, and presses are taken in their order.
THEOREM PressesInOrder == Spec => []TakenInOrder
<1>1. IInv /\ [Next]_vars => IInv'
  BY StepIInv
<1>2. IInv => TakenInOrder
  BY DEF IInv, InOrder
<1>. QED
  BY InitIInv, <1>1, <1>2, PTL DEF Spec

(***************************************************************************)
(* The line                                                                *)
(***************************************************************************)
Codes == Presses \cup {-n : n \in Presses}

Line ==
  /\ wire \in Seq(Codes) /\ down \subseteq Presses /\ Len(pressed) <= MaxPresses
  /\ charbuffer \in Seq(0 .. Len(pressed)) /\ Len(charbuffer) <= MAX_INDEX
  /\ hasty \in BOOLEAN

LEMMA EmptySequence ==
  ASSUME NEW S
  PROVE  <<>> \in Seq(S) /\ Len(<<>>) = 0
OBVIOUS

LEMMA PressLine ==
  ASSUME IInv, Line, NEW key \in Keys, Press(key)
  PROVE  Line'
<1>1. /\ pressed' = Append(pressed, key) /\ down' = down \cup {Len(pressed) + 1}
      /\ wire' = Append(wire, Len(pressed) + 1) /\ Len(pressed) < MaxPresses
      /\ UNCHANGED <<charbuffer, hasty>>
  BY DEF Press, terminal
<1>2. Len(pressed') = Len(pressed) + 1 /\ Len(pressed) \in Nat
  BY <1>1 DEF IInv, Types
<1>3. Len(pressed) + 1 \in Presses /\ Len(pressed') <= MaxPresses
  BY <1>1, <1>2, IndexAssumption DEF Presses
<1>4. down' \subseteq Presses /\ Len(pressed) + 1 \in Codes
  BY <1>1, <1>3 DEF Line, Codes
<1>5. wire' \in Seq(Codes)
  BY <1>1, <1>4 DEF Line
<1>6. charbuffer' \in Seq(0 .. Len(pressed'))
  <2>1. 0 .. Len(pressed) \subseteq 0 .. Len(pressed')
    BY <1>2
  <2>. QED
    BY <1>1, <2>1 DEF Line
<1>. QED
  BY <1>1, <1>3, <1>4, <1>5, <1>6 DEF Line

LEMMA ReleaseLine ==
  ASSUME Line, NEW n \in down, Release(n)
  PROVE  Line'
<1>1. -n \in Codes /\ wire' = Append(wire, -n) /\ down' \subseteq Presses
      /\ UNCHANGED <<pressed, charbuffer, hasty>>
  BY DEF Release, terminal, Line, Codes
<1>2. wire' \in Seq(Codes)
  BY <1>1 DEF Line
<1>. QED
  BY <1>1, <1>2 DEF Line

LEMMA LineStep ==
  ASSUME IInv, Line, [Next]_vars
  PROVE  Line'
<1>1. CASE \E k \in Keys : Press(k)
  BY <1>1, PressLine
<1>2. CASE \E n \in down : Release(n)
  BY <1>2, ReleaseLine
<1>3. CASE Interrupt
  <2>1. wire' = Tail(wire) /\ wire # <<>> /\ UNCHANGED <<pressed, down, charbuffer>>
        /\ hasty' \in BOOLEAN
    BY <1>3 DEF Interrupt, terminal, user, Line
  <2>2. wire' \in Seq(Codes)
    BY <2>1 DEF Line
  <2>. QED
    BY <2>1, <2>2 DEF Line
<1>4. CASE Queue
  <2>1. /\ charbuffer' = IF HasRoom THEN Append(charbuffer, c) ELSE charbuffer
        /\ UNCHANGED <<wire, pressed, down, hasty>>
    BY <1>4 DEF Queue, user
  <2>2. c \in 0 .. Len(pressed)
    BY DEF IInv, Types, Numbers
  <2>3. charbuffer' \in Seq(0 .. Len(pressed)) /\ Len(charbuffer') <= MAX_INDEX
    <3>1. CASE HasRoom
      BY <2>1, <2>2, <3>1, IndexAssumption DEF Line, HasRoom
    <3>2. CASE ~HasRoom
      BY <2>1, <3>2 DEF Line
    <3>. QED
      BY <3>1, <3>2
  <2>. QED
    BY <2>1, <2>3 DEF Line
<1>5. CASE CommandReturns
  <2>1. charbuffer' = <<>> /\ UNCHANGED <<wire, pressed, down, hasty>>
    BY <1>5 DEF CommandReturns, user
  <2>2. charbuffer' \in Seq(0 .. Len(pressed)) /\ Len(charbuffer') = 0
    BY <2>1, EmptySequence, Zenon
  <2>. QED
    BY <2>1, <2>2, IndexAssumption DEF Line
<1>6. CASE Spin \/ Take \/ Clear \/ RunCommand \/ UNCHANGED vars
  BY <1>6 DEF Spin, Take, Clear, RunCommand, user, terminal, vars, Line
<1>. QED
  BY <1>1, <1>2, <1>3, <1>4, <1>5, <1>6 DEF Next, TerminalStep

\* However many characters are typed, and whatever they are, a line never
\* takes the byte that the terminating NUL needs.
THEOREM LineFits == Spec => []TypeOK
<1>1. ASSUME Init PROVE Line
  <2>1. wire = <<>> /\ down = {} /\ pressed = <<>> /\ charbuffer = <<>> /\ hasty = FALSE
    BY <1>1 DEF Init
  <2>2. wire \in Seq(Codes) /\ charbuffer \in Seq(0 .. Len(pressed)) /\ Len(charbuffer) = 0
    BY <2>1, EmptySequence, Zenon
  <2>3. Len(pressed) = 0
    BY <2>1, EmptySequence, Zenon
  <2>4. Len(pressed) <= MaxPresses /\ Len(charbuffer) <= MAX_INDEX
    BY <2>2, <2>3, IndexAssumption
  <2>5. down \subseteq Presses /\ hasty \in BOOLEAN
    BY <2>1, Zenon
  <2>. QED
    BY <2>2, <2>4, <2>5, Zenon DEF Line
<1>2. IInv /\ Line /\ [Next]_vars => (IInv /\ Line)'
  BY StepIInv, LineStep
<1>3. ASSUME IInv, Line PROVE TypeOK
  BY <1>3 DEF IInv, Types, Numbers, Line, Codes, TypeOK
<1>. QED
  BY InitIInv, <1>1, <1>2, <1>3, PTL DEF Spec

(***************************************************************************)
(* LinesOf.  Its recursion as a constant operator of the keys, so that it  *)
(* can be compared between a state and the next.                           *)
(***************************************************************************)
\* The lines after one more press: LinesOf's step, with the keys as a parameter.
AfterPress(split, n, keys) ==
  IF n # 0 /\ keys[n] = Newline
  THEN [ended |-> Append(split.ended, split.begun), begun |-> <<>>]
  ELSE IF Len(split.begun) < MAX_INDEX
       THEN [split EXCEPT !.begun = Append(@, n)]
       ELSE split

NoLines == [ended |-> <<>>, begun |-> <<>>]
Splits  == [ended : Seq(Seq(Nat)), begun : Seq(Nat)]

LinesIn(s, keys) ==
  LET split[i \in 0 .. Len(s)] ==
        IF i = 0 THEN NoLines ELSE AfterPress(split[i - 1], s[i], keys)
  IN  split[Len(s)]

LEMMA LinesOfIs == \A s : LinesOf(s) = LinesIn(s, pressed)
BY Zenon DEF LinesOf, LinesIn, AfterPress, NoLines, IsNewline

LEMMA AfterPressType ==
  ASSUME NEW split \in Splits, NEW n \in Nat, NEW keys
  PROVE  AfterPress(split, n, keys) \in Splits
<1>1. split.ended \in Seq(Seq(Nat)) /\ split.begun \in Seq(Nat)
  BY DEF Splits
<1>2. Append(split.ended, split.begun) \in Seq(Seq(Nat)) /\ Append(split.begun, n) \in Seq(Nat)
  BY <1>1
<1>3. <<>> \in Seq(Nat)
  BY EmptySequence
<1>4. [ended |-> Append(split.ended, split.begun), begun |-> <<>>] \in Splits
  BY <1>2, <1>3 DEF Splits
<1>5. [split EXCEPT !.begun = Append(split.begun, n)] \in Splits
  BY <1>2 DEF Splits
<1>. QED
  BY <1>4, <1>5 DEF AfterPress

\* What split maps the first i presses of s to.
Splitting(f, s, keys) ==
  /\ f \in [0 .. Len(s) -> Splits] /\ f[0] = NoLines
  /\ \A i \in 1 .. Len(s) : f[i] = AfterPress(f[i - 1], s[i], keys)

LEMMA NoLinesType == NoLines \in Splits
<1>1. <<>> \in Seq(Seq(Nat)) /\ <<>> \in Seq(Nat)
  BY EmptySequence
<1>. QED
  BY <1>1 DEF NoLines, Splits

LEMMA LinesInSplit ==
  ASSUME NEW s \in Seq(Nat), NEW keys
  PROVE  \E f : Splitting(f, s, keys) /\ LinesIn(s, keys) = f[Len(s)]
<1>. DEFINE next == [p \in Nat \X Splits |->
                       IF p[1] + 1 \in 1 .. Len(s) THEN AfterPress(p[2], s[p[1] + 1], keys) ELSE p[2]]
            Is(g) == g = [i \in 0 .. Len(s) |->
                            IF i = 0 THEN NoLines ELSE AfterPress(g[i - 1], s[i], keys)]
            split == CHOOSE g : Is(g)
<1>1. next \in [Nat \X Splits -> Splits]
  <2>1. ASSUME NEW n \in Nat, NEW b \in Splits, n + 1 \in 1 .. Len(s)
        PROVE  AfterPress(b, s[n + 1], keys) \in Splits
    BY <2>1, AfterPressType
  <2>. QED
    BY <2>1
<1>2. PICK f : Recursive(f, Splits, NoLines, next)
  <2>1. IsStep(next, Splits)
    BY <1>1 DEF IsStep
  <2>. HIDE DEF next
  <2>. QED
    BY <2>1, NoLinesType, Recursion
<1>3. ASSUME NEW i \in 1 .. Len(s) PROVE f[i] = AfterPress(f[i - 1], s[i], keys)
  <2>1. i - 1 \in Nat /\ i - 1 + 1 = i
    OBVIOUS
  <2>2. f[i - 1] \in Splits /\ f[i] = next[<<i - 1, f[i - 1]>>]
    BY <1>2, <2>1 DEF Recursive
  <2>. QED
    BY <2>1, <2>2
<1>. DEFINE h == [i \in 0 .. Len(s) |-> f[i]]
<1>4. Is(h)
  <2>1. ASSUME NEW i \in 0 .. Len(s)
        PROVE  h[i] = IF i = 0 THEN NoLines ELSE AfterPress(h[i - 1], s[i], keys)
    BY <1>2, <1>3 DEF Recursive
  <2>. QED
    BY <2>1
<1>. HIDE DEF h
<1>5. Is(split)
  BY <1>4, Zenon
<1>6. LinesIn(s, keys) = split[Len(s)]
  BY Zenon DEF LinesIn
<1>. HIDE DEF split
<1>7. split[0] = NoLines /\ \A i \in 1 .. Len(s) : split[i] = AfterPress(split[i - 1], s[i], keys)
  BY <1>5
<1>. DEFINE T == {i \in Nat : i \in 0 .. Len(s) => split[i] \in Splits}
<1>8. ASSUME NEW i \in Nat, i \in T PROVE i + 1 \in T
  <2>1. ASSUME i + 1 \in 0 .. Len(s) PROVE split[i + 1] \in Splits
    <3>1. i \in 0 .. Len(s) /\ i + 1 \in 1 .. Len(s) /\ s[i + 1] \in Nat /\ i + 1 - 1 = i
      BY <2>1
    <3>2. split[i] \in Splits
      BY <1>8, <3>1
    <3>3. split[i + 1] = AfterPress(split[i], s[i + 1], keys)
      BY <1>7, <3>1
    <3>. QED
      BY <3>1, <3>2, <3>3, AfterPressType
  <2>. QED
    BY <2>1
<1>9. 0 \in T
  BY <1>7, NoLinesType
<1>10. \A i \in Nat : i \in T
  <2>. HIDE DEF T
  <2>. QED
    BY <1>8, <1>9, Induction
<1>11. split \in [0 .. Len(s) -> Splits]
  <2>1. \A i \in 0 .. Len(s) : split[i] \in Splits
    BY <1>10
  <2>2. split = [i \in 0 .. Len(s) |-> split[i]]
    BY <1>5
  <2>. QED
    BY <2>1, <2>2
<1>. QED
  BY <1>6, <1>7, <1>11 DEF Splitting

\* Two sequences that begin alike are split alike so far.
LEMMA SplitAlike ==
  ASSUME NEW s \in Seq(Nat), NEW t \in Seq(Nat), NEW keys, NEW others, NEW f, NEW g,
         Splitting(f, s, keys), Splitting(g, t, others),
         NEW m \in Nat, m <= Len(s), m <= Len(t),
         \A i \in 1 .. m : s[i] = t[i] /\ (s[i] # 0 => keys[s[i]] = others[s[i]])
  PROVE  f[m] = g[m]
<1>. DEFINE T == {i \in Nat : i <= m => f[i] = g[i]}
<1>1. 0 \in T
  BY DEF Splitting
<1>2. ASSUME NEW i \in Nat, i \in T PROVE i + 1 \in T
  <2>1. ASSUME i + 1 <= m PROVE f[i + 1] = g[i + 1]
    <3>1. /\ f[i] = g[i] /\ i + 1 - 1 = i
          /\ i + 1 \in 1 .. m /\ i + 1 \in 1 .. Len(s) /\ i + 1 \in 1 .. Len(t)
      BY <1>2, <2>1
    <3>2. f[i + 1] = AfterPress(f[i], s[i + 1], keys)
      BY <3>1 DEF Splitting
    <3>3. g[i + 1] = AfterPress(g[i], t[i + 1], others)
      BY <3>1 DEF Splitting
    <3>4. s[i + 1] = t[i + 1] /\ (s[i + 1] # 0 => keys[s[i + 1]] = others[s[i + 1]])
      BY <3>1
    <3>5. AfterPress(f[i], s[i + 1], keys) = AfterPress(g[i], t[i + 1], others)
      BY <3>1, <3>4 DEF AfterPress
    <3>. QED
      BY <3>2, <3>3, <3>5
  <2>. QED
    BY <2>1
<1>3. \A i \in Nat : i \in T
  <2>. HIDE DEF T
  <2>. QED
    BY <1>1, <1>2, Induction
<1>. QED
  BY <1>3

\* LinesOf is what its recursion says: of no presses, of one press more, and
\* whatever keys are pressed later.
LEMMA LinesInType ==
  ASSUME NEW s \in Seq(Nat), NEW keys
  PROVE  LinesIn(s, keys) \in Splits
<1>1. PICK f : Splitting(f, s, keys) /\ LinesIn(s, keys) = f[Len(s)]
  BY LinesInSplit
<1>2. Len(s) \in 0 .. Len(s)
  OBVIOUS
<1>. QED
  BY <1>1, <1>2 DEF Splitting

LEMMA LinesInEmpty ==
  ASSUME NEW keys
  PROVE  LinesIn(<<>>, keys) = NoLines
<1>1. <<>> \in Seq(Nat) /\ Len(<<>>) = 0
  BY EmptySequence
<1>2. PICK f : Splitting(f, <<>>, keys) /\ LinesIn(<<>>, keys) = f[Len(<<>>)]
  BY <1>1, LinesInSplit
<1>. QED
  BY <1>1, <1>2 DEF Splitting

LEMMA LinesInAppend ==
  ASSUME NEW s \in Seq(Nat), NEW n \in Nat, NEW keys
  PROVE  LinesIn(Append(s, n), keys) = AfterPress(LinesIn(s, keys), n, keys)
<1>. DEFINE t == Append(s, n)
            m == Len(s)
<1>1. /\ t \in Seq(Nat) /\ Len(t) = m + 1 /\ t[m + 1] = n /\ m \in Nat
      /\ \A i \in 1 .. m : t[i] = s[i]
  OBVIOUS
<1>2. PICK f : Splitting(f, s, keys) /\ LinesIn(s, keys) = f[m]
  BY LinesInSplit
<1>. HIDE DEF t
<1>3. PICK g : Splitting(g, t, keys) /\ LinesIn(t, keys) = g[m + 1]
  BY <1>1, LinesInSplit
<1>4. f[m] = g[m]
  <2>1. m <= Len(s) /\ m <= Len(t)
    BY <1>1
  <2>. HIDE DEF m
  <2>. QED
    BY <1>1, <1>2, <1>3, <2>1, SplitAlike
<1>5. g[m + 1] = AfterPress(g[m], n, keys)
  <2>1. m + 1 \in 1 .. Len(t) /\ m + 1 - 1 = m
    BY <1>1
  <2>. QED
    BY <1>1, <1>3, <2>1 DEF Splitting
<1>. QED
  BY <1>2, <1>3, <1>4, <1>5 DEF t

LEMMA LinesInLater ==
  ASSUME NEW s \in Seq(Nat), NEW keys, NEW others,
         \A i \in 1 .. Len(s) : keys[s[i]] = others[s[i]]
  PROVE  LinesIn(s, keys) = LinesIn(s, others)
<1>1. PICK f : Splitting(f, s, keys) /\ LinesIn(s, keys) = f[Len(s)]
  BY LinesInSplit
<1>2. PICK g : Splitting(g, s, others) /\ LinesIn(s, others) = g[Len(s)]
  BY LinesInSplit
<1>3. Len(s) \in Nat /\ Len(s) <= Len(s)
  OBVIOUS
<1>4. f[Len(s)] = g[Len(s)]
  BY <1>1, <1>2, <1>3, SplitAlike
<1>. QED
  BY <1>1, <1>2, <1>4

(***************************************************************************)
(* The lines of a slow typist.  While the typist is not hasty, what was    *)
(* stored is what the terminal has dealt with and the character still in   *)
(* last_char.                                                              *)
(***************************************************************************)

\* The lines the terminal will have when it is done with c.
Dealt ==
  IF pc = "line" THEN AfterPress([ended |-> lines, begun |-> charbuffer], c, pressed)
  ELSE [ended |-> lines, begun |-> IF pc = "run" THEN <<>> ELSE charbuffer]

Waiting(s) == IF last_char = 0 THEN stored = s ELSE stored = Append(s, last_char)

LinesTypes ==
  /\ lines \in Seq(Seq(Nat)) /\ charbuffer \in Seq(Nat)
  /\ stored \in Seq(Nat)
  /\ \A i \in 1 .. Len(stored) : stored[i] \in 1 .. Len(pressed)

Served ==
  /\ pc \in {"take", "clear"} => last_char # 0
  /\ pc = "clear" => c = last_char
  /\ \E s \in Seq(Nat) : Waiting(s) /\ LinesIn(s, pressed) = Dealt

ServedUnlessHasty == ~hasty => Served

SInv == LinesTypes /\ ServedUnlessHasty

\* The numbers in wire, last_char and c are those of presses, or not positive.
LEMMA LinesTypesStep ==
  ASSUME IInv, LinesTypes, [Next]_vars
  PROVE  LinesTypes'
<1>1. Len(pressed) \in Nat /\ c \in Nat
  BY DEF IInv, Types
<1>2. CASE \E key \in Keys : Press(key)
  <2>1. PICK key \in Keys : Press(key)
    BY <1>2
  <2>2. Len(pressed') = Len(pressed) + 1 /\ UNCHANGED <<lines, charbuffer, stored>>
    BY <2>1 DEF Press, terminal, IInv, Types
  <2>. QED
    BY <1>1, <2>2 DEF LinesTypes
<1>3. CASE Interrupt
  <2>1. Head(wire) = wire[1] /\ wire[1] \in Int /\ wire[1] <= Len(pressed)
    BY <1>3 DEF Interrupt, IInv, Types, Numbers
  <2>2. last_char' = 0 \/ (last_char' = wire[1] /\ wire[1] > 0)
    BY <1>3, <2>1 DEF Interrupt, ascii_translator
  <2>3. /\ stored' = IF last_char' # 0 THEN Append(stored, last_char') ELSE stored
        /\ UNCHANGED <<lines, charbuffer, pressed>>
    BY <1>3 DEF Interrupt, user, terminal
  <2>4. CASE last_char' = 0
    BY <2>3, <2>4 DEF LinesTypes
  <2>5. CASE last_char' # 0
    <3>1. last_char' \in 1 .. Len(pressed) /\ stored' = Append(stored, last_char')
      BY <1>1, <2>1, <2>2, <2>3, <2>5
    <3>2. /\ stored' \in Seq(Nat) /\ Len(stored') = Len(stored) + 1 /\ Len(stored) \in Nat
          /\ stored'[Len(stored) + 1] = last_char'
          /\ \A i \in 1 .. Len(stored) : stored'[i] = stored[i]
      BY <3>1 DEF LinesTypes
    <3>3. \A i \in 1 .. Len(stored') : stored'[i] \in 1 .. Len(pressed)
      BY <3>1, <3>2 DEF LinesTypes
    <3>. QED
      BY <2>3, <3>2, <3>3 DEF LinesTypes
  <2>. QED
    BY <2>4, <2>5
<1>4. CASE Queue
  <2>1. /\ charbuffer' = IF HasRoom THEN Append(charbuffer, c) ELSE charbuffer
        /\ UNCHANGED <<lines, stored, pressed>>
    BY <1>4 DEF Queue, user
  <2>2. charbuffer' \in Seq(Nat)
    BY <1>1, <2>1 DEF LinesTypes
  <2>. QED
    BY <2>1, <2>2 DEF LinesTypes
<1>5. CASE RunCommand
  <2>1. lines' = Append(lines, charbuffer) /\ UNCHANGED <<charbuffer, stored, pressed>>
    BY <1>5 DEF RunCommand, user
  <2>2. lines' \in Seq(Seq(Nat))
    BY <2>1 DEF LinesTypes
  <2>. QED
    BY <2>1, <2>2 DEF LinesTypes
<1>6. CASE CommandReturns
  <2>1. charbuffer' = <<>> /\ UNCHANGED <<lines, stored, pressed>>
    BY <1>6 DEF CommandReturns, user
  <2>2. charbuffer' \in Seq(Nat)
    BY <2>1, EmptySequence, Zenon
  <2>. QED
    BY <2>1, <2>2 DEF LinesTypes
<1>7. CASE (\E n \in down : Release(n)) \/ Spin \/ Take \/ Clear \/ UNCHANGED vars
  <2>1. UNCHANGED <<lines, charbuffer, stored, pressed>>
    BY <1>7 DEF Release, Spin, Take, Clear, user, terminal, vars
  <2>. QED
    BY <2>1 DEF LinesTypes
<1>. QED
  BY <1>2, <1>3, <1>4, <1>5, <1>6, <1>7 DEF Next, TerminalStep

\* What the terminal has dealt with does not depend on the keys pressed later.
LEMMA PressServed ==
  ASSUME IInv, LinesTypes, Served, NEW key \in Keys, Press(key)
  PROVE  Served'
<1>1. PICK s \in Seq(Nat) : Waiting(s) /\ LinesIn(s, pressed) = Dealt
  BY DEF Served
<1>2. /\ \A i \in 1 .. Len(pressed) : pressed'[i] = pressed[i]
      /\ UNCHANGED <<last_char, pc, c, charbuffer, lines, stored>>
      /\ Len(pressed) \in Nat /\ last_char \in Nat
  BY DEF Press, terminal, IInv, Types
<1>3. ASSUME NEW i \in 1 .. Len(s) PROVE s[i] \in 1 .. Len(pressed)
  <2>1. s[i] = stored[i] /\ i \in 1 .. Len(stored)
    BY <1>1, <1>2 DEF Waiting
  <2>. QED
    BY <2>1 DEF LinesTypes
<1>4. LinesIn(s, pressed') = LinesIn(s, pressed)
  BY <1>2, <1>3, LinesInLater
<1>5. Dealt' = Dealt
  <2>1. pc = "line" /\ c # 0 => pressed'[c] = pressed[c]
    BY <1>2 DEF IInv, Types, Numbers
  <2>. QED
    BY <1>2, <2>1 DEF Dealt, AfterPress
<1>6. Waiting(s)'
  BY <1>1, <1>2 DEF Waiting
<1>. QED
  BY <1>1, <1>2, <1>4, <1>5, <1>6 DEF Served

\* A scancode comes when last_char is empty: what was stored is dealt with.
LEMMA InterruptServed ==
  ASSUME IInv, LinesTypes, Served, last_char = 0, Interrupt
  PROVE  Served'
<1>1. PICK s \in Seq(Nat) : Waiting(s) /\ LinesIn(s, pressed) = Dealt
  BY DEF Served
<1>2. s = stored /\ UNCHANGED <<pressed, pc, c, charbuffer, lines>>
  BY <1>1 DEF Waiting, Interrupt, user, terminal
<1>3. Waiting(s)'
  BY <1>2 DEF Waiting, Interrupt
<1>4. Dealt' = Dealt
  BY <1>2 DEF Dealt
<1>. QED
  BY <1>1, <1>2, <1>3, <1>4 DEF Served

\* The character leaves last_char: the terminal deals with it.
LEMMA ClearServed ==
  ASSUME IInv, LinesTypes, Served, Clear
  PROVE  Served'
<1>1. PICK s \in Seq(Nat) : Waiting(s) /\ LinesIn(s, pressed) = Dealt
  BY DEF Served
<1>2. /\ c = last_char /\ last_char # 0 /\ pc = "clear" /\ c \in Nat
      /\ last_char' = 0 /\ pc' = "line" /\ UNCHANGED <<pressed, c, charbuffer, lines, stored>>
  BY DEF Served, Clear, user, IInv, Types
<1>3. stored = Append(s, c) /\ stored \in Seq(Nat)
  BY <1>1, <1>2 DEF Waiting, LinesTypes
<1>4. LinesIn(stored, pressed) = AfterPress(Dealt, c, pressed)
  BY <1>1, <1>2, <1>3, LinesInAppend
<1>5. Dealt = [ended |-> lines, begun |-> charbuffer]
  BY <1>2 DEF Dealt
<1>6. Dealt' = AfterPress([ended |-> lines, begun |-> charbuffer], c, pressed)
  BY <1>2 DEF Dealt
<1>7. Waiting(stored)'
  BY <1>2 DEF Waiting
<1>8. LinesIn(stored, pressed)' = Dealt'
  BY <1>2, <1>4, <1>5, <1>6
<1>. QED
  BY <1>2, <1>3, <1>7, <1>8 DEF Served

\* Every other step of the terminal leaves what it has dealt with as it is.
LEMMA OtherServed ==
  ASSUME IInv, Served, UNCHANGED <<pressed, last_char, stored>>, Dealt' = Dealt,
         pc' \in {"spin", "run"} \/ UNCHANGED <<pc, c>>
  PROVE  Served'
<1>1. PICK s \in Seq(Nat) : Waiting(s) /\ LinesIn(s, pressed) = Dealt
  BY DEF Served
<1>2. Waiting(s)'
  BY <1>1 DEF Waiting
<1>3. LinesIn(s, pressed)' = Dealt'
  BY <1>1
<1>. QED
  BY <1>2, <1>3 DEF Served

LEMMA TerminalServed ==
  ASSUME IInv, LinesTypes, Served, TerminalStep
  PROVE  Served'
<1>1. CASE Spin \/ Take
  <2>1. PICK s \in Seq(Nat) : Waiting(s) /\ LinesIn(s, pressed) = Dealt
    BY DEF Served
  <2>2. /\ UNCHANGED <<pressed, last_char, stored, lines, charbuffer>>
        /\ last_char # 0 /\ pc \in {"spin", "take"} /\ pc' \in {"take", "clear"}
        /\ pc' = "clear" => c' = last_char
    BY <1>1 DEF Spin, Take, Served, user
  <2>3. Waiting(s)' /\ Dealt' = Dealt
    BY <2>1, <2>2 DEF Waiting, Dealt
  <2>4. LinesIn(s, pressed)' = Dealt'
    BY <2>1, <2>2, <2>3
  <2>. QED
    BY <2>2, <2>3, <2>4 DEF Served
<1>2. CASE Queue
  <2>1. Dealt' = Dealt
    <3>1. /\ pc = "line" /\ ~(c # 0 /\ pressed[c] = Newline) /\ pc' = "spin"
          /\ charbuffer' = (IF Len(charbuffer) < MAX_INDEX THEN Append(charbuffer, c) ELSE charbuffer)
          /\ lines' = lines
      BY <1>2 DEF Queue, IsNewline, HasRoom
    <3>. QED
      BY <3>1 DEF Dealt, AfterPress
  <2>. QED
    BY <1>2, <2>1, OtherServed DEF Queue, user
<1>3. CASE RunCommand
  <2>1. Dealt' = Dealt
    BY <1>3 DEF RunCommand, IsNewline, Dealt, AfterPress
  <2>. QED
    BY <1>3, <2>1, OtherServed DEF RunCommand, user
<1>4. CASE CommandReturns
  <2>1. Dealt' = Dealt
    BY <1>4 DEF CommandReturns, Dealt
  <2>. QED
    BY <1>4, <2>1, OtherServed DEF CommandReturns, user
<1>. QED
  BY <1>1, <1>2, <1>3, <1>4, ClearServed DEF TerminalStep

LEMMA ServedStep ==
  ASSUME IInv, SInv, [Next]_vars
  PROVE  SInv'
<1>1. LinesTypes'
  BY LinesTypesStep DEF SInv
<1>2. ASSUME ~hasty' PROVE Served'
  <2>1. ~hasty
    <3>1. CASE (\E key \in Keys : Press(key)) \/ (\E n \in down : Release(n)) \/ Interrupt
      BY <1>2, <3>1 DEF Press, Release, Interrupt, IInv, Types
    <3>2. CASE TerminalStep \/ UNCHANGED vars
      BY <1>2, <3>2 DEF TerminalStep, Spin, Take, Clear, Queue, RunCommand, CommandReturns, vars
    <3>. QED
      BY <3>1, <3>2 DEF Next
  <2>2. Served
    BY <2>1 DEF SInv, ServedUnlessHasty
  <2>3. CASE (\E n \in down : Release(n)) \/ UNCHANGED vars
    <3>1. UNCHANGED <<pressed, last_char, stored, terminal>>
      BY <2>3 DEF Release, vars, user
    <3>. QED
      BY <2>2, <3>1, OtherServed DEF terminal, Dealt
  <2>4. CASE Interrupt
    <3>1. last_char = 0
      BY <1>2, <2>4 DEF Interrupt, IInv, Types
    <3>. QED
      BY <2>2, <2>4, <3>1, InterruptServed DEF SInv
  <2>. QED
    BY <2>2, <2>3, <2>4, PressServed, TerminalServed DEF SInv, Next
<1>. QED
  BY <1>1, <1>2 DEF SInv, ServedUnlessHasty

LEMMA InitServed == Init => SInv
<1> SUFFICES ASSUME Init PROVE SInv
  OBVIOUS
<1>1. /\ lines = <<>> /\ charbuffer = <<>> /\ stored = <<>> /\ last_char = 0 /\ pc = "spin"
  BY DEF Init
<1>2. /\ lines \in Seq(Seq(Nat)) /\ charbuffer \in Seq(Nat) /\ stored \in Seq(Nat)
      /\ Len(stored) = 0
  BY <1>1, EmptySequence, Zenon
<1>3. LinesTypes
  BY <1>2 DEF LinesTypes
<1>4. LinesIn(stored, pressed) = Dealt
  BY <1>1, LinesInEmpty DEF Dealt, NoLines
<1>5. Waiting(stored)
  BY <1>1 DEF Waiting
<1>. QED
  BY <1>1, <1>2, <1>3, <1>4, <1>5 DEF SInv, ServedUnlessHasty, Served

\* A user who never sends a scancode before the terminal has taken the last
\* character loses nothing, wherever the interrupts come: the commands run are
\* the lines typed, cut at MAX_INDEX characters.
THEOREM SlowTypistLosesNothing == Spec => []SlowTypistServed
<1>1. IInv /\ SInv /\ [Next]_vars => (IInv /\ SInv)'
  BY StepIInv, ServedStep
<1>2. ASSUME SInv PROVE SlowTypistServed
  <2> SUFFICES ASSUME ~hasty, pc = "spin", last_char = 0
               PROVE  LinesOf(stored) = [ended |-> lines, begun |-> charbuffer]
    BY DEF SlowTypistServed
  <2>1. LinesIn(stored, pressed) = Dealt
    BY <1>2 DEF SInv, ServedUnlessHasty, Served, Waiting
  <2>. QED
    BY <2>1, LinesOfIs DEF Dealt
<1>. QED
  BY InitIInv, InitServed, <1>1, <1>2, PTL DEF Spec
=============================================================================
