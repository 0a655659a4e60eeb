------------------------------- MODULE Clock -------------------------------
(***************************************************************************)
(* The timer interrupt and what it races with: irq_handler_c               *)
(* (kernel/idt/isr_handler_c.c) advances tick, second and minute and runs  *)
(* the boot watchdog (drivers/watchdog/wdsoft.c), while the kernel's only  *)
(* thread boots (KernelMain), disables the watchdog, and then runs the     *)
(* commands that read the clock or wait for it: uptime, waitfortick and    *)
(* the delay of a scrolling screen.                                        *)
(*                                                                         *)
(* The handler runs with interrupts off, so it is one action; the thread's *)
(* steps are the accesses the handler can come between.                    *)
(***************************************************************************)
EXTENDS Integers

CONSTANTS
  SCALE_FACTOR,       \* ticks an interrupt counts for (2)
  TICKS, SECONDS,     \* ticks of a second (100), seconds of a minute (60)
  TIMEOUT,            \* of the watchdog, in interrupts (200)
  STAGES,             \* what KernelMain does between sti and the watchdog's end
  STORAGE,            \* the stages among them that read the disk
  FONT,               \* the stage that prepares the font
  INT_MAX,            \* of the int that a tick to wait for goes through
  Requests,           \* ticks typed after waitfortick
  Delays,             \* lengths of a delay, in ticks
  MaxTick             \* bound: the run ends there

ASSUME ClockAssumption ==
  /\ {SCALE_FACTOR, TICKS, SECONDS, TIMEOUT, STAGES} \subseteq Nat \ {0}
  /\ FONT \in 1 .. STAGES /\ STORAGE \subseteq 1 .. STAGES
  /\ {INT_MAX, MaxTick} \subseteq Nat /\ Requests \cup Delays \subseteq Nat

VARIABLES
  clock,        \* tick, second, minute
  wd,           \* WatchdogUnOSKrnl: active, counter
  irqs_on,      \* whether interrupts are enabled
  ready,        \* whether glyph_width and the glyphs are set
  thread, stage, \* where the thread is, and the boot stage it is in
  then,         \* the clock when uptime read second
  target,       \* the tick waited for
  shown, said   \* the last output of uptime, and of waitfortick

clock_vars == <<clock, wd, irqs_on, ready, thread, stage, then, target, shown, said>>
machine == <<clock, wd, irqs_on>>
output  == <<shown, said>>

Booted   == STAGES + 1
Midnight == [tick |-> 0, second |-> 0, minute |-> 0]
Nothing  == [second |-> 0, minute |-> 0]

ClockInit ==
  /\ clock = Midnight
  /\ wd = [active |-> FALSE, counter |-> 0]
  /\ irqs_on = FALSE /\ ready = FALSE
  /\ thread = "setup" /\ stage = 1
  /\ then = Midnight /\ target = 0
  /\ shown = Nothing /\ said = ""

(***************************************************************************)
(* irq_handler_c                                                           *)
(***************************************************************************)
MinuteOver(s) == s = SECONDS

TickOnce(c) ==
  LET s == c.second + 1
  IN  IF (c.tick + 1) % TICKS # 0 THEN [c EXCEPT !.tick = @ + 1]
      ELSE IF MinuteOver(s)
           THEN [tick |-> c.tick + 1, second |-> 0, minute |-> c.minute + 1]
           ELSE [tick |-> c.tick + 1, second |-> s, minute |-> c.minute]

Advanced(c) ==
  LET after[n \in 0 .. SCALE_FACTOR] ==
        IF n = 0 THEN c ELSE TickOnce(after[n - 1])
  IN  after[SCALE_FACTOR]

WatchdogCountPlus(w) ==
  [w EXCEPT !.counter = IF w.active THEN @ + 1 ELSE 0]

TimedOut(w) == w.active /\ w.counter >= TIMEOUT

\* RaiseKernelPanicError draws the message and resets the machine.  Before
\* the font is ready DrawSimplePSFText divides by a glyph_width of 0, and
\* the handler of that exception halts.
Panicked == IF ready THEN "reset" ELSE "halted"

\* (Mutant: a handler that is left before the watchdog is looked at.)
InterruptWithoutDetect ==
  /\ irqs_on
  /\ clock.tick + SCALE_FACTOR <= MaxTick
  /\ clock' = Advanced(clock)
  /\ wd' = WatchdogCountPlus(wd)
  /\ UNCHANGED <<irqs_on, thread, ready, stage, then, target, output>>

Interrupt ==
  /\ irqs_on
  /\ clock.tick + SCALE_FACTOR <= MaxTick
  /\ clock' = Advanced(clock)
  /\ wd' = WatchdogCountPlus(wd)
  /\ IF TimedOut(wd') THEN thread' = Panicked /\ irqs_on' = FALSE
                       ELSE UNCHANGED <<thread, irqs_on>>
  /\ UNCHANGED <<ready, stage, then, target, output>>

(***************************************************************************)
(* KernelMain                                                              *)
(***************************************************************************)
InitWatchdog ==
  /\ thread = "setup"
  /\ wd' = [active |-> TRUE, counter |-> 0]
  /\ thread' = "sti"
  /\ UNCHANGED <<clock, irqs_on, ready, stage, then, target, output>>

EnableInterrupts ==
  /\ thread = "sti"
  /\ irqs_on' = TRUE
  /\ thread' = "boot"
  /\ UNCHANGED <<clock, wd, ready, stage, then, target, output>>

\* A stage after the font's writes to the screen; without a font it divides
\* by zero (SetCursorMiddle).
Unfonted == stage > FONT /\ ~ready

Boot ==
  /\ thread = "boot" /\ ~Unfonted
  /\ IF stage = FONT THEN ready' \in BOOLEAN ELSE UNCHANGED ready
  /\ IF stage < STAGES THEN stage' = stage + 1 /\ UNCHANGED thread
                       ELSE thread' = "check" /\ UNCHANGED stage
  /\ UNCHANGED <<machine, then, target, output>>

DivideByZero ==
  /\ thread = "boot" /\ Unfonted
  /\ thread' = "halted" /\ irqs_on' = FALSE
  /\ UNCHANGED <<clock, wd, ready, stage, then, target, output>>

\* ahci_read polls a port that never completes the command.
Hang ==
  /\ thread = "boot" /\ stage \in STORAGE
  /\ thread' = "hung"
  /\ UNCHANGED <<machine, ready, stage, then, target, output>>

\* DisableWatchdogWhile: the test, and then the assignment.  Nothing has
\* made the watchdog inactive before.
CheckActive ==
  /\ thread = "check"
  /\ wd.active
  /\ thread' = "clear"
  /\ UNCHANGED <<machine, ready, stage, then, target, output>>

\* (Mutant: the counter is cleared, and the watchdog left active.)
ResetInstead ==
  /\ thread = "clear"
  /\ wd' = [wd EXCEPT !.counter = 0]
  /\ thread' = "shell" /\ stage' = Booted
  /\ UNCHANGED <<clock, irqs_on, ready, then, target, output>>

ClearActive ==
  /\ thread = "clear"
  /\ wd' = [wd EXCEPT !.active = FALSE]
  /\ thread' = "shell" /\ stage' = Booted
  /\ UNCHANGED <<clock, irqs_on, ready, then, target, output>>

(***************************************************************************)
(* uptime reads second, and then minute.                                   *)
(***************************************************************************)
\* (Mutant: the minute is read first.)
ShownMinuteFirst(first, second) ==
  [minute |-> first.minute, second |-> second.second]
Shown(first, second) == [minute |-> second.minute, second |-> first.second]

UptimeSecond ==
  /\ thread = "shell"
  /\ then' = clock
  /\ thread' = "uptime"
  /\ UNCHANGED <<machine, ready, stage, target, output>>

UptimeMinute ==
  /\ thread = "uptime"
  /\ shown' = Shown(then, clock)
  /\ thread' = "shell"
  /\ UNCHANGED <<machine, ready, stage, then, target, said>>

(***************************************************************************)
(* The tick to wait for comes out of an int: atoi's, which wraps around at  *)
(* 2 * (INT_MAX + 1), and target_tick.  A negative one is sign-extended,   *)
(* and then, compared with the unsigned tick, one no clock reaches.        *)
(***************************************************************************)
Never == MaxTick + SCALE_FACTOR

AsInt(t) ==
  LET wrapped == t % (2 * (INT_MAX + 1))
  IN  IF wrapped <= INT_MAX THEN wrapped ELSE Never

\* waitfortick compares tick with the request twice in each turn.
WaitForTick(n) ==
  /\ thread = "shell"
  /\ target' = AsInt(n)
  /\ thread' = "passed?"
  /\ UNCHANGED <<machine, ready, stage, then, output>>

\* (Mutant: only a tick that matches ends the wait.)
PassedNever(n) == FALSE
Passed(n) == n < clock.tick

LookIfPassed ==
  /\ thread = "passed?"
  /\ IF Passed(target) THEN thread' = "shell" /\ said' = "passed"
                       ELSE thread' = "matching?" /\ UNCHANGED said
  /\ UNCHANGED <<machine, ready, stage, then, target, shown>>

LookIfMatching ==
  /\ thread = "matching?"
  /\ IF target = clock.tick THEN thread' = "shell" /\ said' = "matching"
                            ELSE thread' = "passed?" /\ UNCHANGED said
  /\ UNCHANGED <<machine, ready, stage, then, target, shown>>

\* delay, in the loop of a scrolling screen.
Delay(n) ==
  /\ thread = "shell"
  /\ target' = AsInt(clock.tick + n)
  /\ thread' = "delay"
  /\ UNCHANGED <<machine, ready, stage, then, output>>

DelayEnds ==
  /\ thread = "delay"
  /\ clock.tick >= target
  /\ thread' = "shell"
  /\ UNCHANGED <<machine, ready, stage, then, target, output>>

Thread ==
  \/ InitWatchdog \/ EnableInterrupts \/ Boot \/ DivideByZero
  \/ CheckActive \/ ClearActive
  \/ UptimeMinute \/ LookIfPassed \/ LookIfMatching \/ DelayEnds

Command ==
  \/ UptimeSecond
  \/ \E n \in Requests : WaitForTick(n)
  \/ \E n \in Delays : Delay(n)

ClockNext == Interrupt \/ Thread \/ Hang \/ Command

\* Fairness: the one thread runs whenever the handler does not, and the timer
\* is periodic.  Nothing makes the disk hang or the user enter a command.
ClockSpec ==
  ClockInit /\ [][ClockNext]_clock_vars /\ WF_clock_vars(Thread) /\ WF_clock_vars(Interrupt)

(***************************************************************************)
(* What is promised                                                        *)
(***************************************************************************)
Stopped == thread \in {"reset", "halted"}
Uptime(c) == c.minute * SECONDS + c.second

\* Types; a watchdog that has not fired has not reached its timeout.
ClockTypeOK ==
  /\ clock \in [tick : 0 .. MaxTick, second : 0 .. SECONDS - 1, minute : Nat]
  /\ wd \in [active : BOOLEAN, counter : 0 .. TIMEOUT]
  /\ irqs_on \in BOOLEAN /\ ready \in BOOLEAN
  /\ thread \in {"setup", "sti", "boot", "hung", "check", "clear", "shell", "uptime",
             "passed?", "matching?", "delay", "reset", "halted"}
  /\ stage \in 1 .. Booted
  /\ shown \in [second : 0 .. SECONDS - 1, minute : Nat]
  /\ wd.counter = TIMEOUT => Stopped

\* tick, second and minute are three counters of one time: the handler keeps
\* them together over every roll-over, whatever SCALE_FACTOR is; and what
\* uptime shows is no time that had passed before it was called, although it
\* reads two of them with interrupts on.
ClockConsistent ==
  /\ ClockTypeOK
  /\ Uptime(clock) = clock.tick \div TICKS
  /\ thread # "uptime" => Uptime(then) <= Uptime(shown)

\* The watchdog stops the machine only while it boots, and not before TIMEOUT
\* interrupts have come.
OnlyASlowBootIsStopped ==
  Stopped => stage < Booted /\ (Unfonted \/ clock.tick >= TIMEOUT * SCALE_FACTOR)

\* A boot that hangs in the disk driver is stopped by the watchdog.
HangIsCaught == (thread = "hung") ~> Stopped

\* A wait ends, whichever of the two looks at tick the handler comes between,
\* if the tick that was asked for got through the int as one the clock reaches.
\* (Otherwise it lasts for ever.)
WaitsEnd ==
  /\ (thread = "passed?" /\ target < MaxTick) ~> (thread \in {"shell", "reset", "halted"})
  /\ (thread = "delay" /\ target <= MaxTick) ~> (thread \in {"shell", "reset", "halted"})
=============================================================================
