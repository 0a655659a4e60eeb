------------------------ MODULE SchedulerClockProofs ------------------------
(***************************************************************************)
(* Proofs about the two parts of the kernel that count: Scheduler, for     *)
(* every size of the pool and number of rounds, and Clock, for every       *)
(* length of seconds, minutes, interrupts, boot and timeout.               *)
(*                                                                         *)
(* The inductive invariant of Scheduler says where CurrentTask can be:     *)
(* never ahead of the round, and, once it has left the list, in a round    *)
(* whose entry was never used.  PRIORITY tasks with a function are gone    *)
(* after the scan of the first round, so that they cannot run again.       *)
(*                                                                         *)
(* That of Clock relates the three counters, each interrupt's ticks by     *)
(* induction on their number, and the watchdog's counter to the ticks.     *)
(***************************************************************************)
EXTENDS Scheduler, Clock, Induction

\* Where dotask is in the list.
InStep ==
  /\ \A t \in Entries : t >= TaskCount => TaskPool[t] = Unused /\ runs[t] = 0
  /\ pc # "idle" => /\ CurrentTask = NULL => i >= TaskCount
                    /\ CurrentTask # NULL => CurrentTask <= i
                    /\ pc = "task" \/ i > 0 => Urgent = {}

\* How often tasks have run: those that have not been terminated only once,
\* before CurrentTask went past them.
Counted ==
  /\ \A t \in Entries :
       IF TaskPool[t].Task = "TERMINATED" THEN runs[t] <= 2
       ELSE /\ runs[t] <= 1
            /\ pc # "idle" /\ runs[t] > 0 => t < CurrentTask
  /\ pc = "scan" /\ i = 0 => \A t \in Entries : runs[t] = 0

IInv == TypeOK /\ InStep /\ Counted

\* The constants, as the proofs use them.
LEMMA Bounds == POOL \in Nat /\ ROUNDS \in Nat /\ ROUNDS >= 1 /\ ROUNDS <= POOL
BY RoundsAssumption

LEMMA InitIInv == Init => IInv
BY Bounds DEF Init, IInv, TypeOK, InStep, Counted, Unused, Entries, NULL, Levels,
              Functions, Urgent

(***************************************************************************)
(* Types.  The indices used are entries: a round's number because it is    *)
(* less than ROUNDS, CurrentTask because a task is only run while the      *)
(* round's entry has been used.                                            *)
(***************************************************************************)
\* The task that a round runs is in the list.
LEMMA CurrentInList ==
  ASSUME IInv, pc = "task", ~NoTask
  PROVE  i \in 0 .. TaskCount - 1 /\ CurrentTask \in 0 .. i
<1>1. i \in Entries
  BY Bounds DEF IInv, TypeOK, Entries
<1>2. TaskPool[i] # Unused
  BY DEF NoTask, Unused
<1>3. i < TaskCount
  BY <1>1, <1>2 DEF IInv, TypeOK, InStep, Entries
<1>. QED
  BY <1>1, <1>3 DEF IInv, TypeOK, InStep, Entries

LEMMA StepTypeOK ==
  ASSUME IInv, [Next]_vars
  PROVE  TypeOK'
<1>. USE Bounds DEF IInv, TypeOK, Entries, NULL
<1>1. ASSUME NEW f \in Functions, NEW l \in Levels, createtask(f, l)
      PROVE  TypeOK'
  BY <1>1 DEF createtask
<1>2. CASE dotask
  BY <1>2 DEF dotask
<1>3. CASE Scan
  <2>1. TaskPool' \in [Entries -> [Task : Levels, function : Functions]]
    BY <1>3 DEF Scan, Levels
  <2>2. runs' \in [Entries -> Nat]
    BY <1>3 DEF Scan
  <2>. QED
    BY <1>3, <2>1, <2>2 DEF Scan
<1>4. CASE Break
  BY <1>4 DEF Break
<1>5. CASE Continue
  BY <1>5 DEF Continue, NextRound
<1>6. CASE Run
  <2>1. CurrentTask \in Entries
    BY <1>6, CurrentInList DEF Run
  <2>2. CurrentTask' \in Entries \cup {NULL}
    BY <1>6, <2>1 DEF Run, NextOf
  <2>3. runs' \in [Entries -> Nat]
    BY <1>6, <2>1 DEF Run
  <2>. QED
    BY <1>6, <2>2, <2>3 DEF Run, NextRound
<1>7. CASE UNCHANGED vars
  BY <1>7 DEF vars
<1>. QED
  BY <1>1, <1>2, <1>3, <1>4, <1>5, <1>6, <1>7 DEF Next

(***************************************************************************)
(* The place in the list                                                   *)
(***************************************************************************)
LEMMA StepInStep ==
  ASSUME IInv, [Next]_vars
  PROVE  InStep'
<1>. USE Bounds DEF IInv, TypeOK, InStep, Entries, NULL
<1>1. ASSUME NEW f \in Functions, NEW l \in Levels, createtask(f, l)
      PROVE  InStep'
  BY <1>1 DEF createtask
<1>2. CASE dotask
  BY <1>2 DEF dotask
<1>3. CASE Scan
  <2>1. \A t \in Entries : t >= TaskCount => t \notin Urgent
    BY DEF Urgent
  <2>2. \A t \in Entries : t >= TaskCount' => TaskPool'[t] = Unused /\ runs'[t] = 0
    BY <1>3, <2>1 DEF Scan
  <2>3. Urgent' = {}
    <3>1. SUFFICES ASSUME NEW t \in 0 .. TaskCount - 1,
                          TaskPool'[t].Task = "PRIORITY", TaskPool'[t].function # "null"
                   PROVE  FALSE
      BY <1>3 DEF Urgent, Scan
    <3>2. t \in Entries
      OBVIOUS
    <3>3. CASE t \in Urgent
      BY <1>3, <3>1, <3>2, <3>3 DEF Scan
    <3>4. CASE t \notin Urgent
      BY <1>3, <3>1, <3>2, <3>4 DEF Scan, Urgent
    <3>. QED
      BY <3>3, <3>4
  <2>. QED
    BY <1>3, <2>2, <2>3 DEF Scan
<1>4. CASE Break
  BY <1>4 DEF Break
<1>5. CASE Continue
  <2>1. CurrentTask' = NULL => i' >= TaskCount'
    BY <1>5 DEF Continue, NextRound
  <2>2. Urgent' = {}
    BY <1>5 DEF Continue, Urgent
  <2>. QED
    BY <1>5, <2>1, <2>2 DEF Continue, NextRound
<1>6. CASE Run
  <2>1. i \in 0 .. TaskCount - 1 /\ CurrentTask \in 0 .. i
    BY <1>6, CurrentInList DEF Run
  <2>2. Urgent' = {}
    BY <1>6 DEF Run, Urgent
  <2>3. CurrentTask' = NULL => i' >= TaskCount'
    BY <1>6, <2>1 DEF Run, NextRound, NextOf
  <2>4. CurrentTask' # NULL => CurrentTask' <= i'
    BY <1>6, <2>1 DEF Run, NextRound, NextOf
  <2>5. \A t \in Entries : t >= TaskCount' => TaskPool'[t] = Unused /\ runs'[t] = 0
    BY <1>6, <2>1 DEF Run
  <2>. QED
    BY <1>6, <2>2, <2>3, <2>4, <2>5 DEF Run, NextRound
<1>7. CASE UNCHANGED vars
  BY <1>7 DEF vars, Urgent
<1>. QED
  BY <1>1, <1>2, <1>3, <1>4, <1>5, <1>6, <1>7 DEF Next

(***************************************************************************)
(* The number of runs                                                      *)
(***************************************************************************)
LEMMA StepCounted ==
  ASSUME IInv, [Next]_vars
  PROVE  Counted'
<1>. USE Bounds DEF IInv, TypeOK, Counted, Entries, NULL
<1>1. ASSUME NEW f \in Functions, NEW l \in Levels, createtask(f, l)
      PROVE  Counted'
  <2>1. runs[TaskCount] = 0
    BY <1>1 DEF createtask, InStep
  <2>. QED
    BY <1>1, <2>1 DEF createtask
<1>2. CASE dotask
  BY <1>2 DEF dotask
<1>3. CASE Scan
  <2>1. SUFFICES ASSUME NEW t \in Entries
                 PROVE  IF TaskPool'[t].Task = "TERMINATED" THEN runs'[t] <= 2
                        ELSE runs'[t] <= 1 /\ (runs'[t] > 0 => t < CurrentTask')
    BY <1>3 DEF Scan
  \* A task that the scan runs has not been run: the scan is the first.
  <2>2. CASE t \in Urgent
    <3>1. runs[t] = 0
      BY <1>3, <2>2 DEF Scan, InStep
    <3>2. TaskPool'[t].Task = "TERMINATED"
      BY <1>3, <2>2 DEF Scan
    <3>3. runs'[t] <= 2
      BY <1>3, <2>2, <3>1 DEF Scan
    <3>. QED
      BY <3>2, <3>3
  <2>3. CASE t \notin Urgent
    BY <1>3, <2>3 DEF Scan
  <2>. QED
    BY <2>2, <2>3
<1>4. CASE Break
  BY <1>4 DEF Break
<1>5. CASE Continue
  BY <1>5 DEF Continue, NextRound
<1>6. CASE Run
  <2>1. i \in 0 .. TaskCount - 1 /\ CurrentTask \in 0 .. i
    BY <1>6, CurrentInList DEF Run
  <2>2. TaskPool[CurrentTask].Task # "TERMINATED"
    BY <1>6 DEF Run, Skipped
  <2>3. runs[CurrentTask] = 0
    BY <1>6, <2>1, <2>2 DEF Run
  <2>4. CurrentTask' > CurrentTask
    BY <1>6, <2>1 DEF Run, NextOf
  <2>5. CurrentTask' \in Int
    BY <1>6, <2>1 DEF Run, NextOf
  <2>6. ASSUME NEW t \in Entries
        PROVE  IF TaskPool'[t].Task = "TERMINATED" THEN runs'[t] <= 2
               ELSE runs'[t] <= 1 /\ (runs'[t] > 0 => t < CurrentTask')
    <3>1. CASE t = CurrentTask
      BY <1>6, <2>1, <2>2, <2>3, <2>4, <3>1 DEF Run
    <3>2. CASE t # CurrentTask
      BY <1>6, <2>1, <2>4, <2>5, <3>2 DEF Run
    <3>. QED
      BY <3>1, <3>2
  <2>7. i' > 0
    BY <1>6 DEF Run, NextRound
  <2>. QED
    BY <1>6, <2>6, <2>7 DEF Run
<1>7. CASE UNCHANGED vars
  BY <1>7 DEF vars
<1>. QED
  BY <1>1, <1>2, <1>3, <1>4, <1>5, <1>6, <1>7 DEF Next

(***************************************************************************)
(* The theorems                                                            *)
(***************************************************************************)
\* The inductive invariant of createtask and dotask.
THEOREM IInvHolds == Spec => []IInv
<1>1. IInv /\ [Next]_vars => IInv'
  BY StepTypeOK, StepInStep, StepCounted DEF IInv
<1>. QED
  BY InitIInv, <1>1, PTL DEF Spec

\* createtask and dotask keep TaskPool, the round and CurrentTask in range,
\* for a pool of any size and no more rounds than it has entries.
THEOREM TypeCorrect == Spec => []TypeOK
BY IInvHolds, PTL DEF IInv

\* dotask never follows the NULL at the end of the list: the scan has nothing
\* to look it up for, and the round ends the loop before it would run it.
THEOREM EndIsNotFollowed == Spec => []NullNotFollowed
<1>1. IInv => NullNotFollowed
  <2>1. SUFFICES ASSUME IInv, CurrentTask = NULL
                 PROVE  (pc = "scan" => Urgent = {}) /\ (pc = "task" => NoTask)
    BY DEF NullNotFollowed
  <2>2. ASSUME pc = "scan" PROVE Urgent = {}
    <3>1. i >= TaskCount
      BY <2>1, <2>2 DEF IInv, InStep
    <3>2. CASE i > 0
      BY <2>1, <2>2, <3>2 DEF IInv, InStep
    <3>3. CASE i = 0
      BY <2>1, <3>1, <3>3 DEF IInv, TypeOK, Urgent
    <3>. QED
      BY <2>1, <3>2, <3>3 DEF IInv, TypeOK
  <2>3. ASSUME pc = "task" PROVE NoTask
    <3>1. i \in Entries /\ i >= TaskCount
      BY <2>1, <2>3, Bounds DEF IInv, InStep, TypeOK, Entries
    <3>. QED
      BY <2>1, <3>1 DEF IInv, InStep, NoTask, Unused
  <2>. QED
    BY <2>2, <2>3
<1>. QED
  BY <1>1, IInvHolds, PTL

\* However many tasks of whatever levels and functions there are, a dotask
\* runs a task at most once, or at most twice when it ends it.
THEOREM RunsAreBounded == Spec => []RunsBounded
<1>1. IInv => RunsBounded
  BY DEF IInv, Counted, RunsBounded
<1>. QED
  BY <1>1, IInvHolds, PTL

\* dotask runs a task that is not a PRIORITY one only after the scan has
\* left no PRIORITY task with a function.
THEOREM PriorityComesFirst == Spec => PriorityFirst
<1>. DEFINE A == \A t \in Entries :
                   runs'[t] > runs[t] /\ TaskPool[t].Task # "PRIORITY" =>
                     \A u \in 0 .. TaskCount - 1 :
                       TaskPool[u].Task = "PRIORITY" => TaskPool[u].function = "null"
<1>1. IInv /\ [Next]_vars => A
  <2>1. SUFFICES ASSUME IInv, [Next]_vars, NEW t \in Entries,
                        runs'[t] > runs[t], TaskPool[t].Task # "PRIORITY"
                 PROVE  Urgent = {}
    BY DEF Urgent
  <2>. USE <2>1 DEF IInv, TypeOK
  <2>2. ASSUME NEW f \in Functions, NEW l \in Levels, createtask(f, l) PROVE FALSE
    BY <2>2 DEF createtask
  <2>3. CASE dotask
    BY <2>3 DEF dotask
  <2>4. CASE Scan
    BY <2>4 DEF Scan, Urgent
  <2>5. CASE Break
    BY <2>5 DEF Break
  <2>6. CASE Continue
    BY <2>6 DEF Continue
  <2>7. CASE Run
    BY <2>7 DEF Run, InStep
  <2>8. CASE UNCHANGED vars
    BY <2>8 DEF vars
  <2>. QED
    BY <2>2, <2>3, <2>4, <2>5, <2>6, <2>7, <2>8 DEF Next
<1>. QED
  BY <1>1, IInvHolds, PTL DEF Spec, PriorityFirst

(***************************************************************************)
(* The clock                                                               *)
(***************************************************************************)
Times == [tick : Nat, second : 0 .. SECONDS - 1, minute : Nat]

\* The three counters agree.
InTime(c) == c \in Times /\ Uptime(c) = c.tick \div TICKS

LEMMA ClockBounds ==
  /\ SCALE_FACTOR \in Nat /\ SCALE_FACTOR >= 1 /\ TICKS \in Nat /\ TICKS >= 1
  /\ SECONDS \in Nat /\ SECONDS >= 1 /\ TIMEOUT \in Nat /\ TIMEOUT >= 1
  /\ STAGES \in Nat /\ STAGES >= 1 /\ FONT \in 1 .. STAGES /\ MaxTick \in Nat
BY ClockAssumption

LEMMA TickQuotient ==
  ASSUME NEW q \in Nat, NEW j \in 0 .. TICKS - 1
  PROVE  (q * TICKS + j) \div TICKS = q /\ (q * TICKS + j) % TICKS = j
BY ClockAssumption

LEMMA TickDivision ==
  ASSUME NEW t \in Nat
  PROVE  \E q \in Nat, j \in 0 .. TICKS - 1 :
           t = q * TICKS + j /\ t \div TICKS = q /\ t % TICKS = j
<1>. DEFINE q == t \div TICKS
            r == t % TICKS
<1>1. TICKS \in Nat /\ TICKS > 0
  BY ClockAssumption
<1>2. r \in 0 .. TICKS - 1
  BY <1>1
<1>3. q \in Int /\ t = TICKS * q + r
  BY <1>1
<1>. HIDE DEF q, r
<1>4. q >= 0
  <2>1. SUFFICES ASSUME q <= -1 PROVE FALSE
    BY <1>3
  <2>2. TICKS * q <= -TICKS
    BY <1>1, <1>3, <2>1
  <2>. QED
    BY <1>1, <1>2, <1>3, <2>2
<1>5. TICKS * q = q * TICKS
  BY <1>1, <1>3
<1>6. q \in Nat /\ r \in 0 .. TICKS - 1 /\ t = q * TICKS + r
  BY <1>2, <1>3, <1>4, <1>5
<1>. QED
  BY <1>6, Zenon DEF q, r

\* A whole second is over when tick is a multiple of TICKS.
LEMMA NextTick ==
  ASSUME NEW t \in Nat
  PROVE  (t + 1) \div TICKS = t \div TICKS + (IF (t + 1) % TICKS # 0 THEN 0 ELSE 1)
<1>1. PICK q \in Nat, j \in 0 .. TICKS - 1 : t = q * TICKS + j /\ t \div TICKS = q
  BY TickDivision
<1>2. TICKS \in Nat /\ TICKS >= 1 /\ q * TICKS \in Nat
  BY ClockBounds
<1>3. CASE j < TICKS - 1
  <2>1. j + 1 \in 0 .. TICKS - 1 /\ t + 1 = q * TICKS + (j + 1)
    BY <1>1, <1>2, <1>3
  <2>2. (t + 1) \div TICKS = q /\ (t + 1) % TICKS = j + 1
    BY <2>1, TickQuotient
  <2>. QED
    BY <1>1, <2>2
<1>4. CASE ~(j < TICKS - 1)
  <2>1. (q + 1) * TICKS = q * TICKS + TICKS
    BY <1>2
  <2>2. 0 \in 0 .. TICKS - 1 /\ t + 1 = (q + 1) * TICKS + 0
    BY <1>1, <1>2, <1>4, <2>1
  <2>3. (t + 1) \div TICKS = q + 1 /\ (t + 1) % TICKS = 0
    BY <2>2, TickQuotient
  <2>. QED
    BY <1>1, <2>3
<1>. QED
  BY <1>3, <1>4

LEMMA TickOnceInTime ==
  ASSUME NEW c, InTime(c)
  PROVE  /\ InTime(TickOnce(c)) /\ TickOnce(c).tick = c.tick + 1
         /\ TickOnce(c).minute >= c.minute
<1>1. /\ c.tick \in Nat /\ c.second \in 0 .. SECONDS - 1 /\ c.minute \in Nat
      /\ c = [tick |-> c.tick, second |-> c.second, minute |-> c.minute]
  BY DEF InTime, Times
<1>2. PICK t \in Nat, s \in 0 .. SECONDS - 1, m \in Nat :
        t = c.tick /\ s = c.second /\ m = c.minute
  BY <1>1
<1>3. m * SECONDS + s = t \div TICKS /\ m * SECONDS \in Nat
  BY <1>2, ClockBounds DEF InTime, Uptime
<1>4. (t + 1) \div TICKS = t \div TICKS + (IF (t + 1) % TICKS # 0 THEN 0 ELSE 1)
  BY NextTick
<1>5. SECONDS \in Nat /\ SECONDS >= 1
  BY ClockBounds
<1>6. CASE (t + 1) % TICKS # 0
  <2>1. TickOnce(c) = [tick |-> t + 1, second |-> s, minute |-> m]
    BY <1>1, <1>2, <1>6 DEF TickOnce
  <2>2. m * SECONDS + s = (t + 1) \div TICKS
    BY <1>3, <1>4, <1>6
  <2>. QED
    BY <1>2, <2>1, <2>2 DEF InTime, Times, Uptime
<1>7. CASE (t + 1) % TICKS = 0 /\ s + 1 = SECONDS
  <2>1. TickOnce(c) = [tick |-> t + 1, second |-> 0, minute |-> m + 1]
    BY <1>1, <1>2, <1>7 DEF TickOnce, MinuteOver
  <2>2. (m + 1) * SECONDS = m * SECONDS + SECONDS
    BY <1>5
  <2>3. t \div TICKS \in Int /\ (t + 1) \div TICKS = t \div TICKS + 1
    BY <1>3, <1>4, <1>7
  <2>4. (m + 1) * SECONDS + 0 = (t + 1) \div TICKS
    BY <1>3, <1>5, <1>7, <2>2, <2>3
  <2>5. TickOnce(c) \in Times
    BY <1>5, <2>1 DEF Times
  <2>6. Uptime(TickOnce(c)) = (m + 1) * SECONDS + 0
    BY <2>1 DEF Uptime
  <2>. QED
    BY <1>2, <2>1, <2>4, <2>5, <2>6 DEF InTime
<1>8. CASE (t + 1) % TICKS = 0 /\ s + 1 # SECONDS
  <2>1. TickOnce(c) = [tick |-> t + 1, second |-> s + 1, minute |-> m]
    BY <1>1, <1>2, <1>8 DEF TickOnce, MinuteOver
  <2>2. s + 1 \in 0 .. SECONDS - 1
    BY <1>5, <1>8
  <2>3. m * SECONDS + (s + 1) = (t + 1) \div TICKS
    BY <1>3, <1>4, <1>8
  <2>. QED
    BY <1>2, <2>1, <2>2, <2>3 DEF InTime, Times, Uptime
<1>. QED
  BY <1>6, <1>7, <1>8

\* One interrupt: SCALE_FACTOR ticks, by induction on their number.
LEMMA AdvancedInTime ==
  ASSUME NEW c, InTime(c)
  PROVE  /\ InTime(Advanced(c)) /\ Advanced(c).tick = c.tick + SCALE_FACTOR
         /\ Advanced(c).minute >= c.minute
<1>. DEFINE next == [p \in Nat \X Times |-> IF InTime(p[2]) THEN TickOnce(p[2]) ELSE p[2]]
            Is(g) == g = [n \in 0 .. SCALE_FACTOR |-> IF n = 0 THEN c ELSE TickOnce(g[n - 1])]
            after == CHOOSE g : Is(g)
            Good(x, n) == InTime(x) /\ x.tick = c.tick + n /\ x.minute >= c.minute
<1>0. SCALE_FACTOR \in Nat /\ SCALE_FACTOR >= 1 /\ c \in Times /\ c.minute \in Nat /\ c.tick \in Nat
  BY ClockBounds DEF InTime, Times
<1>1. ASSUME NEW x, NEW n \in Nat, Good(x, n) PROVE Good(TickOnce(x), n + 1)
  <2>1. /\ InTime(TickOnce(x)) /\ TickOnce(x).tick = x.tick + 1 /\ TickOnce(x).minute >= x.minute
    BY <1>1, TickOnceInTime
  <2>2. x.minute \in Nat /\ TickOnce(x).minute \in Nat
    BY <1>1, <2>1 DEF InTime, Times
  <2>. QED
    BY <1>0, <1>1, <2>1, <2>2
<1>2. PICK h : Recursive(h, Times, c, next)
  <2>1. IsStep(next, Times)
    <3>1. ASSUME NEW p \in Nat \X Times PROVE next[p] \in Times
      BY TickOnceInTime DEF InTime
    <3>2. next = [p \in Nat \X Times |-> next[p]]
      OBVIOUS
    <3>. HIDE DEF next
    <3>. QED
      BY <3>1, <3>2 DEF IsStep
  <2>. HIDE DEF next
  <2>. QED
    BY <1>0, <2>1, Recursion
<1>3. \A n \in Nat : Good(h[n], n)
  <2>. DEFINE T == {n \in Nat : Good(h[n], n)}
  <2>1. 0 \in T
    <3>1. h[0] = c /\ c.tick = c.tick + 0 /\ c.minute >= c.minute
      BY <1>0, <1>2 DEF Recursive
    <3>. QED
      BY <3>1
  <2>2. ASSUME NEW n \in Nat, n \in T PROVE n + 1 \in T
    <3>1. Good(h[n], n)
      BY <2>2
    <3>2. h[n] \in Times /\ InTime(h[n]) /\ h[n + 1] = next[<<n, h[n]>>]
      BY <1>2, <3>1 DEF Recursive
    <3>3. h[n + 1] = TickOnce(h[n])
      BY <3>2
    <3>. HIDE DEF Good
    <3>4. Good(h[n + 1], n + 1)
      BY <1>1, <3>1, <3>3
    <3>. QED
      BY <3>4
  <2>. HIDE DEF T
  <2>3. \A n \in Nat : n \in T
    BY <2>1, <2>2, Induction
  <2>. QED
    BY <2>3 DEF T
<1>. DEFINE g == [n \in 0 .. SCALE_FACTOR |-> h[n]]
<1>4. Is(g)
  <2>1. ASSUME NEW n \in 0 .. SCALE_FACTOR, n # 0 PROVE h[n] = TickOnce(g[n - 1])
    <3>1. n - 1 \in 0 .. SCALE_FACTOR /\ n - 1 \in Nat /\ n - 1 + 1 = n
      BY <1>0, <2>1
    <3>2. h[n - 1] \in Times /\ h[n] = next[<<n - 1, h[n - 1]>>]
      BY <1>2, <3>1 DEF Recursive
    <3>3. InTime(h[n - 1])
      BY <1>3, <3>1
    <3>. QED
      BY <3>1, <3>2, <3>3
  <2>2. h[0] = c
    BY <1>2 DEF Recursive
  <2>. QED
    BY <2>1, <2>2
<1>5. Is(after)
  <2>. HIDE DEF g
  <2>. QED
    BY <1>4, Zenon
<1>6. Advanced(c) = after[SCALE_FACTOR]
  BY Zenon DEF Advanced
<1>. HIDE DEF after
<1>7. ASSUME NEW n \in Nat PROVE n <= SCALE_FACTOR => after[n] = h[n]
  <2>. DEFINE T == {k \in Nat : k <= SCALE_FACTOR => after[k] = h[k]}
  <2>1. 0 \in T
    BY <1>0, <1>2, <1>5 DEF Recursive
  <2>2. ASSUME NEW k \in Nat, k \in T PROVE k + 1 \in T
    <3>1. ASSUME k + 1 <= SCALE_FACTOR PROVE after[k + 1] = h[k + 1]
      <4>1. k + 1 \in 0 .. SCALE_FACTOR /\ k + 1 # 0 /\ k + 1 - 1 = k /\ k <= SCALE_FACTOR
        BY <1>0, <3>1
      <4>2. after[k + 1] = TickOnce(after[k])
        BY <1>5, <4>1
      <4>3. after[k] = h[k]
        BY <2>2, <4>1
      <4>4. h[k] \in Times /\ InTime(h[k]) /\ h[k + 1] = next[<<k, h[k]>>]
        BY <1>2, <1>3 DEF Recursive
      <4>. QED
        BY <4>2, <4>3, <4>4
    <3>. QED
      BY <3>1
  <2>. HIDE DEF T
  <2>3. \A k \in Nat : k \in T
    BY <2>1, <2>2, Induction
  <2>. QED
    BY <2>3 DEF T
<1>8. Good(after[SCALE_FACTOR], SCALE_FACTOR)
  <2>1. after[SCALE_FACTOR] = h[SCALE_FACTOR]
    BY <1>0, <1>7
  <2>. HIDE DEF Good
  <2>. QED
    BY <1>0, <1>3, <2>1
<1>. QED
  BY <1>6, <1>8

(***************************************************************************)
(* The inductive invariant.  uptime has a minute that is no later than the *)
(* clock's; the watchdog counts interrupts from when it was started, and   *)
(* is active only while the kernel boots.                                  *)
(***************************************************************************)
Booting == {"setup", "sti", "boot", "hung", "check", "clear"}

Watching ==
  /\ wd.counter = TIMEOUT => Stopped
  /\ Stopped => ~irqs_on
  /\ wd.active => thread \in (Booting \ {"setup"}) \cup {"reset", "halted"}
  /\ wd.active => wd.counter * SCALE_FACTOR <= clock.tick
  /\ thread \in Booting => stage < Booted
  /\ wd.active => stage < Booted
  /\ OnlyASlowBootIsStopped

Telling ==
  /\ InTime(clock) /\ clock.tick <= MaxTick
  /\ then \in Times /\ then.minute <= clock.minute
  /\ thread # "uptime" => Uptime(then) <= Uptime(shown)

ClockIInv == ClockTypeOK /\ Telling /\ Watching

LEMMA InitClockIInv == ClockInit => ClockIInv
<1>. SUFFICES ASSUME ClockInit PROVE ClockIInv
  OBVIOUS
<1>1. /\ clock = Midnight /\ then = Midnight /\ shown = Nothing /\ thread = "setup" /\ stage = 1
      /\ wd = [active |-> FALSE, counter |-> 0] /\ irqs_on = FALSE /\ ready = FALSE
  BY DEF ClockInit
<1>2. Midnight \in Times /\ Uptime(Midnight) = 0 /\ Uptime(Nothing) = 0
  BY ClockBounds DEF Midnight, Nothing, Times, Uptime
<1>3. 0 \div TICKS = 0
  <2>1. 0 * TICKS + 0 = 0 /\ 0 \in 0 .. TICKS - 1
    BY ClockBounds
  <2>. QED
    BY <2>1, TickQuotient
<1>4. Telling
  BY <1>1, <1>2, <1>3, ClockBounds DEF Telling, InTime, Midnight
<1>5. ClockTypeOK
  <2>1. /\ Midnight \in [tick : 0 .. MaxTick, second : 0 .. SECONDS - 1, minute : Nat]
        /\ Nothing \in [second : 0 .. SECONDS - 1, minute : Nat]
    BY ClockBounds DEF Midnight, Nothing
  <2>2. wd \in [active : BOOLEAN, counter : 0 .. TIMEOUT] /\ wd.counter # TIMEOUT
    BY <1>1, ClockBounds
  <2>3. 1 \in 1 .. Booted
    BY ClockBounds DEF Booted
  <2>. QED
    BY <1>1, <2>1, <2>2, <2>3 DEF ClockTypeOK
<1>6. Watching
  BY <1>1, ClockBounds DEF Watching, Stopped, OnlyASlowBootIsStopped, Booting, Booted
<1>. QED
  BY <1>4, <1>5, <1>6 DEF ClockIInv

LEMMA InterruptStep ==
  ASSUME ClockIInv, Interrupt
  PROVE  ClockIInv'
<1>. ClockTypeOK /\ Telling /\ Watching
  BY DEF ClockIInv
<1>0. PICK c, d : c = clock /\ d = Advanced(c)
  OBVIOUS
<1>1. PICK tick \in Nat : c = clock /\ InTime(c) /\ tick = c.tick /\ d = Advanced(c)
  BY <1>0 DEF Telling, InTime, Times
<1>2. InTime(d) /\ d.tick = tick + SCALE_FACTOR /\ d.minute >= c.minute
  BY <1>1, AdvancedInTime
<1>3. /\ irqs_on /\ tick + SCALE_FACTOR <= MaxTick /\ clock' = d
      /\ wd' = WatchdogCountPlus(wd) /\ UNCHANGED <<ready, stage, then, shown>>
      /\ \/ TimedOut(wd') /\ thread' = Panicked /\ irqs_on' = FALSE
         \/ ~TimedOut(wd') /\ UNCHANGED <<thread, irqs_on>>
  BY <1>1 DEF Interrupt, output
<1>4. ~Stopped
  BY <1>3 DEF Watching
<1>5. PICK n \in 0 .. TIMEOUT - 1 : n = wd.counter
  BY <1>4, ClockBounds DEF ClockTypeOK
<1>6. /\ d \in [tick : 0 .. MaxTick, second : 0 .. SECONDS - 1, minute : Nat]
      /\ then.minute <= d.minute
  <2>1. d \in Times /\ c \in Times /\ then \in Times /\ then.minute <= c.minute
    BY <1>1, <1>2 DEF InTime, Telling
  <2>. QED
    BY <1>2, <1>3, <2>1, ClockBounds DEF Times
<1>7. /\ wd'.active = wd.active /\ wd' \in [active : BOOLEAN, counter : 0 .. TIMEOUT]
      /\ wd'.counter = IF wd.active THEN n + 1 ELSE 0
  <2>1. wd \in [active : BOOLEAN, counter : 0 .. TIMEOUT]
    BY DEF ClockTypeOK
  <2>2. wd' = [active |-> wd.active, counter |-> IF wd.active THEN n + 1 ELSE 0]
    BY <1>3, <1>5, <2>1 DEF WatchdogCountPlus
  <2>. QED
    BY <1>5, <2>1, <2>2, ClockBounds
<1>8. TimedOut(wd') => wd.active /\ n + 1 = TIMEOUT
  BY <1>5, <1>7, ClockBounds DEF TimedOut
<1>9. wd.active /\ n + 1 = TIMEOUT => TimedOut(wd')
  BY <1>7, ClockBounds DEF TimedOut
<1>10. Telling'
  <2>1. Uptime(then') <= Uptime(shown') \/ thread' = "uptime"
    BY <1>3, <1>8 DEF Telling, Watching, Booting, Uptime
  <2>. QED
    BY <1>2, <1>3, <1>6, <2>1, ClockBounds DEF Telling, InTime
<1>11. wd.active => (n + 1) * SCALE_FACTOR <= tick + SCALE_FACTOR
  <2>1. wd.active => n * SCALE_FACTOR <= tick
    BY <1>1, <1>5 DEF Watching
  <2>2. (n + 1) * SCALE_FACTOR = n * SCALE_FACTOR + SCALE_FACTOR /\ n * SCALE_FACTOR \in Nat
    BY <1>5, ClockBounds
  <2>. QED
    BY <2>1, <2>2, ClockBounds
<1>12. CASE TimedOut(wd')
  <2>1. /\ thread' \in {"reset", "halted"} /\ irqs_on' = FALSE /\ wd.active /\ n + 1 = TIMEOUT
        /\ stage < Booted
    BY <1>3, <1>8, <1>12 DEF Panicked, Watching
  <2>2. TIMEOUT * SCALE_FACTOR <= clock'.tick
    BY <1>2, <1>3, <1>11, <2>1
  <2>3. ClockTypeOK'
    BY <1>3, <1>6, <1>7, <2>1 DEF ClockTypeOK, Stopped
  <2>4. /\ wd'.counter = TIMEOUT /\ wd'.active
    BY <1>7, <2>1
  <2>5. clock'.tick \in Int /\ TIMEOUT * SCALE_FACTOR \in Int
    BY <1>2, <1>3, ClockBounds
  <2>6. Watching'
    BY <1>3, <2>1, <2>2, <2>4, <2>5 DEF Watching, OnlyASlowBootIsStopped, Stopped, Booting, Booted
  <2>. QED
    BY <1>10, <2>3, <2>6 DEF ClockIInv
<1>13. CASE ~TimedOut(wd')
  <2>1. UNCHANGED <<thread, irqs_on, stage, ready>>
    BY <1>3, <1>13
  <2>2. wd'.counter # TIMEOUT
    BY <1>7, <1>9, <1>13, ClockBounds
  <2>3. ~Stopped'
    BY <1>4, <2>1 DEF Stopped
  <2>4. ClockTypeOK'
    BY <1>3, <1>6, <1>7, <2>1, <2>2 DEF ClockTypeOK
  <2>5. wd'.active => wd'.counter * SCALE_FACTOR <= clock'.tick
    BY <1>2, <1>3, <1>7, <1>11
  <2>6. Watching'
    BY <1>7, <2>1, <2>2, <2>3, <2>5 DEF Watching, OnlyASlowBootIsStopped, Booted
  <2>. QED
    BY <1>10, <2>4, <2>6 DEF ClockIInv
<1>. QED
  BY <1>12, <1>13

\* The thread: all but uptime leave the times alone.
LEMMA SameTelling ==
  ASSUME Telling, UNCHANGED <<clock, then, shown>>, thread # "uptime"
  PROVE  Telling'
BY DEF Telling, InTime, Uptime

LEMMA BootStep ==
  ASSUME ClockIInv,
         InitWatchdog \/ EnableInterrupts \/ Boot \/ DivideByZero \/ Hang
           \/ CheckActive \/ ClearActive
  PROVE  ClockIInv'
<1>. ClockTypeOK /\ Telling /\ Watching
  BY DEF ClockIInv
<1>1. UNCHANGED <<clock, then, shown>> /\ thread # "uptime" /\ thread \in Booting
  BY DEF InitWatchdog, EnableInterrupts, Boot, DivideByZero, Hang, CheckActive, ClearActive,
         machine, output, Booting
<1>2. Telling'
  BY <1>1, SameTelling
<1>3. stage \in 1 .. STAGES /\ ~Stopped /\ wd.counter # TIMEOUT
  BY <1>1, ClockBounds DEF Watching, Booting, Booted, ClockTypeOK, Stopped
<1>4. CASE InitWatchdog
  <2>1. /\ thread' = "sti" /\ wd' = [active |-> TRUE, counter |-> 0]
        /\ UNCHANGED <<irqs_on, ready, stage>>
    BY <1>4 DEF InitWatchdog
  <2>2. ClockTypeOK'
    BY <1>1, <2>1, ClockBounds DEF ClockTypeOK
  <2>3. clock'.tick \in Nat
    BY <1>1 DEF Telling, InTime, Times
  <2>4. Watching'
    BY <1>3, <2>1, <2>3, ClockBounds DEF Watching, Stopped, OnlyASlowBootIsStopped, Booting, Booted
  <2>. QED
    BY <1>2, <2>2, <2>4 DEF ClockIInv
<1>5. CASE EnableInterrupts \/ Boot \/ Hang \/ CheckActive
  <2>1. /\ thread' \in {"boot", "check", "hung", "clear"} /\ UNCHANGED <<clock, wd, shown>>
        /\ stage' \in 1 .. STAGES /\ ready' \in BOOLEAN /\ irqs_on' \in BOOLEAN
    <3>1. CASE Boot
      <4>1. stage' \in 1 .. STAGES
        BY <1>3, <3>1, ClockBounds DEF Boot
      <4>. QED
        BY <3>1, <4>1 DEF Boot, machine, output, ClockTypeOK
    <3>2. CASE EnableInterrupts \/ Hang \/ CheckActive
      BY <1>3, <3>2 DEF EnableInterrupts, Hang, CheckActive, machine, output, ClockTypeOK
    <3>. QED
      BY <1>5, <3>1, <3>2
  <2>2. wd.active => wd'.active
    BY <2>1
  <2>3. stage' \in 1 .. Booted /\ stage' < Booted /\ ~Stopped'
    BY <2>1, ClockBounds DEF Booted, Stopped
  <2>4. ClockTypeOK'
    BY <1>3, <2>1, <2>3 DEF ClockTypeOK
  <2>5. Watching'
    BY <1>3, <2>1, <2>3 DEF Watching, OnlyASlowBootIsStopped, Booting, Booted
  <2>. QED
    BY <1>2, <2>4, <2>5 DEF ClockIInv
<1>6. CASE DivideByZero
  <2>1. /\ thread' = "halted" /\ irqs_on' = FALSE /\ UNCHANGED <<clock, wd, ready, stage, shown>>
        /\ Unfonted
    BY <1>6 DEF DivideByZero, output
  <2>2. stage' < Booted /\ Stopped' /\ Unfonted'
    BY <1>3, <2>1, ClockBounds DEF Booted, Stopped, Unfonted
  <2>3. ClockTypeOK'
    BY <2>1, <2>2 DEF ClockTypeOK
  <2>4. Watching'
    BY <2>1, <2>2 DEF Watching, OnlyASlowBootIsStopped, Booting, Booted
  <2>. QED
    BY <1>2, <2>3, <2>4 DEF ClockIInv
<1>7. CASE ClearActive
  <2>1. /\ thread' = "shell" /\ stage' = Booted /\ UNCHANGED <<clock, irqs_on, ready, shown>>
        /\ wd' = [wd EXCEPT !.active = FALSE]
    BY <1>7 DEF ClearActive, output
  <2>2. /\ wd' \in [active : BOOLEAN, counter : 0 .. TIMEOUT] /\ wd'.active = FALSE
        /\ wd'.counter = wd.counter
    BY <2>1 DEF ClockTypeOK
  <2>3. ClockTypeOK'
    BY <1>3, <2>1, <2>2, ClockBounds DEF ClockTypeOK, Booted
  <2>4. Watching'
    BY <1>3, <2>1, <2>2 DEF Watching, OnlyASlowBootIsStopped, Stopped, Booting
  <2>. QED
    BY <1>2, <2>3, <2>4 DEF ClockIInv
<1>. QED
  BY <1>4, <1>5, <1>6, <1>7

\* The commands: the watchdog is off.
LEMMA ShellStep ==
  ASSUME ClockIInv, UNCHANGED <<machine, ready, stage>>,
         {thread, thread'} \subseteq {"shell", "uptime", "passed?", "matching?", "delay"},
         shown' \in [second : 0 .. SECONDS - 1, minute : Nat]
  PROVE  ClockTypeOK' /\ Watching'
<1>. ClockTypeOK /\ Telling /\ Watching
  BY DEF ClockIInv
<1>1. UNCHANGED <<clock, wd, irqs_on, ready, stage>> /\ ~wd.active /\ wd.counter # TIMEOUT
  BY DEF Watching, Booting, Stopped, machine
<1>2. ClockTypeOK'
  BY <1>1 DEF ClockTypeOK
<1>3. Watching'
  BY <1>1 DEF Watching, OnlyASlowBootIsStopped, Stopped, Booting
<1>. QED
  BY <1>2, <1>3

LEMMA CommandStep ==
  ASSUME ClockIInv,
         UptimeMinute \/ LookIfPassed \/ LookIfMatching \/ DelayEnds \/ Command
  PROVE  ClockIInv'
<1>. ClockTypeOK /\ Telling /\ Watching
  BY DEF ClockIInv
<1>1. CASE UptimeSecond
  <2>1. /\ thread = "shell" /\ thread' = "uptime" /\ then' = clock
        /\ UNCHANGED <<machine, ready, stage, shown>>
    BY <1>1 DEF UptimeSecond, output
  <2>2. ClockTypeOK' /\ Watching'
    BY <2>1, ShellStep DEF ClockTypeOK
  <2>3. clock.minute \in Nat
    BY DEF Telling, InTime, Times
  <2>4. Telling'
    BY <2>1, <2>3 DEF Telling, InTime, machine, Uptime
  <2>. QED
    BY <2>2, <2>4 DEF ClockIInv
<1>2. CASE UptimeMinute
  <2>1. /\ thread = "uptime" /\ thread' = "shell" /\ shown' = Shown(then, clock)
        /\ UNCHANGED <<machine, ready, stage, then>>
    BY <1>2 DEF UptimeMinute
  <2>2. PICK s \in 0 .. SECONDS - 1, m \in Nat, n \in Nat :
          s = then.second /\ m = then.minute /\ n = clock.minute /\ m <= n
    BY DEF Telling, InTime, Times
  <2>3. shown' = [minute |-> n, second |-> s]
    BY <2>1, <2>2 DEF Shown
  <2>4. ClockTypeOK' /\ Watching'
    BY <2>1, <2>3, ShellStep
  <2>5. m * SECONDS + s <= n * SECONDS + s
    <3>1. n * SECONDS = m * SECONDS + (n - m) * SECONDS /\ (n - m) * SECONDS \in Nat
          /\ m * SECONDS \in Nat
      BY <2>2, ClockBounds
    <3>. QED
      BY <2>2, <3>1, ClockBounds
  <2>6. Uptime(then') <= Uptime(shown')
    BY <2>1, <2>2, <2>3, <2>5 DEF Uptime
  <2>7. Telling'
    BY <2>1, <2>6 DEF Telling, InTime, machine, Uptime
  <2>. QED
    BY <2>4, <2>7 DEF ClockIInv
<1>3. CASE LookIfPassed \/ LookIfMatching \/ DelayEnds \/ (\E n \in Requests : WaitForTick(n))
             \/ (\E n \in Delays : Delay(n))
  <2>1. /\ {thread, thread'} \subseteq {"shell", "passed?", "matching?", "delay"}
        /\ UNCHANGED <<machine, ready, stage, then, shown>>
    BY <1>3 DEF LookIfPassed, LookIfMatching, DelayEnds, WaitForTick, Delay, output
  <2>2. ClockTypeOK' /\ Watching'
    BY <2>1, ShellStep DEF ClockTypeOK
  <2>3. Telling'
    BY <2>1, SameTelling DEF machine
  <2>. QED
    BY <2>2, <2>3 DEF ClockIInv
<1>. QED
  BY <1>1, <1>2, <1>3 DEF Command

THEOREM ClockInvariance == ClockSpec => []ClockIInv
<1>1. ASSUME ClockIInv, [ClockNext]_clock_vars PROVE ClockIInv'
  <2>1. CASE UNCHANGED clock_vars
    BY <1>1, <2>1 DEF clock_vars, ClockIInv, ClockTypeOK, Telling, Watching, Stopped, InTime,
                      Uptime, OnlyASlowBootIsStopped, Unfonted
  <2>. QED
    BY <1>1, <2>1, InterruptStep, BootStep, CommandStep DEF ClockNext, Thread
<1>. QED
  BY <1>1, InitClockIInv, PTL DEF ClockSpec

\* tick, second and minute are one time, whatever SCALE_FACTOR, TICKS and
\* SECONDS are, and uptime never shows a time before it was called although
\* the interrupt comes between its two reads.
THEOREM OneTime == ClockSpec => []ClockConsistent
<1>1. ClockIInv => ClockConsistent
  BY DEF ClockIInv, Telling, InTime, ClockConsistent
<1>. QED
  BY <1>1, ClockInvariance, PTL

\* The watchdog stops the machine only while it boots, and not before its
\* timeout: for every timeout, number of stages and place of the font.
THEOREM BootTimeIsGranted == ClockSpec => []OnlyASlowBootIsStopped
<1>1. ClockIInv => OnlyASlowBootIsStopped
  BY DEF ClockIInv, Watching
<1>. QED
  BY <1>1, ClockInvariance, PTL
=============================================================================
