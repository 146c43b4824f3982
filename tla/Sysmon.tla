------------------------------- MODULE Sysmon -------------------------------
(***************************************************************************)
(* The life of the sysmon process (cmd/sysmon/main.go): the main goroutine *)
(* in main and run, the signal goroutine, the signals of the outside world *)
(* and the terminal they both write to.                                    *)
(*                                                                         *)
(* What a tick samples is left out here; a sample succeeds, fails or never *)
(* returns (statfs on a hung mount).                                       *)
(***************************************************************************)
EXTENDS FiniteSets

CONSTANTS
  UseEBPF,      \* the values of the flag -ebpf that are considered
  GoodInterval  \* the values of "the flag -interval is positive"

ASSUME SysmonAssumption ==
  /\ UseEBPF \subseteq BOOLEAN
  /\ GoodInterval \subseteq BOOLEAN

VARIABLES
  ebpf,       \* the flag -ebpf
  positive,   \* whether the flag -interval is positive
  pc,         \* where the main goroutine is
  handler,    \* where the signal goroutine is
  notified,   \* whether signal.Notify has been called
  sigCh,      \* whether the channel's one-element buffer holds a signal
  deferred,   \* the calls run has deferred
  panicking,  \* whether run unwinds from a panic
  col,        \* the collector: "none", "open", or "closed" by Close
  out,        \* the goroutine that is writing to standard output
  cursor,     \* "visible" or "hidden", as the terminal was told last
  status,     \* "running", the exit status, or "killed" by a signal
  signalled,  \* history: a signal has come after signal.Notify
  failed      \* history: an acquisition or a sample has failed

vars == <<ebpf, positive, pc, handler, notified, sigCh, deferred, panicking,
          col, out, cursor, status, signalled, failed>>
flags == <<ebpf, positive>>
sigVars == <<handler, notified, sigCh, signalled>>

Running == status = "running"

Init ==
  /\ ebpf \in UseEBPF
  /\ positive \in GoodInterval
  /\ pc = "start"
  /\ handler = "none"
  /\ notified = FALSE
  /\ sigCh = FALSE
  /\ deferred = {}
  /\ panicking = FALSE
  /\ col = "none"
  /\ out = "free"
  /\ cursor = "visible"
  /\ status = "running"
  /\ signalled = FALSE
  /\ failed = FALSE

-----------------------------------------------------------------------------
(* Standard output: a write holds the lock of os.Stdout until the terminal  *)
(* has taken the text.                                                      *)

\* The main goroutine starts a write at from and is at during until it ends.
StartPrint(from, during) ==
  /\ Running
  /\ pc = from
  /\ out = "free"
  /\ out' = "main"
  /\ pc' = during
  /\ UNCHANGED <<flags, sigVars, deferred, panicking, col, cursor, status,
                 failed>>

-----------------------------------------------------------------------------
(* run, up to its loop *)

StartHide == StartPrint("start", "hiding")

\* The deferred showCursor follows at once.
FinishHide ==
  /\ Running
  /\ pc = "hiding"
  /\ pc' = "notify"
  /\ out' = "free"
  /\ cursor' = "hidden"
  /\ deferred' = {"show"}
  /\ UNCHANGED <<flags, sigVars, panicking, col, status, failed>>

Notify ==
  /\ Running
  /\ pc = "notify"
  /\ pc' = "go"
  /\ notified' = TRUE
  /\ UNCHANGED <<flags, handler, sigCh, signalled, deferred, panicking, col,
                 out, cursor, status, failed>>

StartHandler ==
  /\ Running
  /\ pc = "go"
  /\ pc' = IF ebpf THEN "collector" ELSE "baseline"
  /\ handler' = "waiting"
  /\ UNCHANGED <<flags, notified, sigCh, signalled, deferred, panicking, col,
                 out, cursor, status, failed>>

\* Mutant: Close is called where the loop fails, in place of being deferred.
OpenUndeferred ==
  /\ Running
  /\ pc = "collector"
  /\ pc' = "baseline"
  /\ col' = "open"
  /\ UNCHANGED <<flags, sigVars, deferred, panicking, out, cursor, status,
                 failed>>

\* NewCollector succeeds (only a build with the tag ebpf gets here).
OpenCollector ==
  /\ Running
  /\ pc = "collector"
  /\ pc' = "baseline"
  /\ col' = "open"
  /\ deferred' = deferred \cup {"close"}
  /\ UNCHANGED <<flags, sigVars, panicking, out, cursor, status, failed>>

\* The first CPU and network samples, and lastSample.
ReadBaseline ==
  /\ Running
  /\ pc = "baseline"
  /\ pc' = "ticker"
  /\ UNCHANGED <<flags, sigVars, deferred, panicking, col, out, cursor, status,
                 failed>>

\* time.NewTicker panics if the interval is not positive.
NewTicker ==
  /\ Running
  /\ pc = "ticker"
  /\ pc' = IF positive THEN "wait" ELSE "return"
  /\ panicking' = ~positive
  /\ deferred' = IF positive THEN deferred \cup {"stop"} ELSE deferred
  /\ UNCHANGED <<flags, sigVars, col, out, cursor, status, failed>>

-----------------------------------------------------------------------------
(* The loop of run *)

\* The ticker fires; the four samples, in order.
Tick ==
  /\ Running
  /\ pc \in {"wait", "cpu", "mem", "disk", "net"}
  /\ pc' = CASE pc = "wait" -> "cpu"
             [] pc = "cpu"  -> "mem"
             [] pc = "mem"  -> "disk"
             [] pc = "disk" -> "net"
             [] pc = "net"  -> "render"
  /\ UNCHANGED <<flags, sigVars, deferred, panicking, col, out, cursor, status,
                 failed>>

\* Mutant: the loop goes on with the next tick when a sample fails.
Ignore ==
  /\ Running
  /\ pc \in {"collector", "baseline", "cpu", "mem", "disk", "net"}
  /\ pc' = IF pc \in {"collector", "baseline"} THEN "return" ELSE "wait"
  /\ failed' = TRUE
  /\ UNCHANGED <<flags, sigVars, deferred, panicking, col, out, cursor, status>>

\* NewCollector, a first sample or a tick's sample fails: run returns.
Fail ==
  /\ Running
  /\ pc \in {"collector", "baseline", "cpu", "mem", "disk", "net"}
  /\ pc' = "return"
  /\ failed' = TRUE
  /\ UNCHANGED <<flags, sigVars, deferred, panicking, col, out, cursor, status>>

\* Rates, latencies and the text of the frame; then it is printed.
StartFrame == StartPrint("render", "printing")

\* Mutant: every frame hides the cursor again.
FinishFrameHiding ==
  /\ Running
  /\ pc = "printing"
  /\ pc' = "wait"
  /\ out' = "free"
  /\ cursor' = "hidden"
  /\ UNCHANGED <<flags, sigVars, deferred, panicking, col, status, failed>>

\* A frame moves the cursor and does not hide it.
FinishFrame ==
  /\ Running
  /\ pc = "printing"
  /\ pc' = "wait"
  /\ out' = "free"
  /\ UNCHANGED <<flags, sigVars, deferred, panicking, col, cursor, status,
                 failed>>

-----------------------------------------------------------------------------
(* run returns or panics: the deferred calls, last first, then main *)

StopTicker ==
  /\ Running
  /\ pc = "return" /\ "stop" \in deferred
  /\ deferred' = deferred \ {"stop"}
  /\ UNCHANGED <<flags, pc, sigVars, panicking, col, out, cursor, status,
                 failed>>

CloseCollector ==
  /\ Running
  /\ pc = "return" /\ "stop" \notin deferred /\ "close" \in deferred
  /\ deferred' = deferred \ {"close"}
  /\ col' = "closed"
  /\ UNCHANGED <<flags, pc, sigVars, panicking, out, cursor, status, failed>>

StartShow == deferred = {"show"} /\ StartPrint("return", "showing")

FinishShow ==
  /\ Running
  /\ pc = "showing"
  /\ pc' = "return"
  /\ out' = "free"
  /\ cursor' = "visible"
  /\ deferred' = {}
  /\ UNCHANGED <<flags, sigVars, panicking, col, status, failed>>

\* main reports the error and exits with 1; a panic ends with 2.
ExitMain ==
  /\ Running
  /\ pc = "return" /\ deferred = {}
  /\ status' = IF panicking THEN "2" ELSE "1"
  /\ UNCHANGED <<flags, pc, sigVars, deferred, panicking, col, out, cursor,
                 failed>>

-----------------------------------------------------------------------------
(* The signal goroutine *)

Receive ==
  /\ Running
  /\ handler = "waiting" /\ sigCh
  /\ handler' = "received"
  /\ sigCh' = FALSE
  /\ UNCHANGED <<flags, pc, notified, signalled, deferred, panicking, col, out,
                 cursor, status, failed>>

\* Mutant: the cursor is restored without the lock, by a plain system call.
StartRestoreUnlocked ==
  /\ Running
  /\ handler = "received"
  /\ handler' = "restoring"
  /\ out' = "handler"
  /\ UNCHANGED <<flags, pc, notified, sigCh, signalled, deferred, panicking,
                 col, cursor, status, failed>>

StartRestore ==
  /\ Running
  /\ handler = "received"
  /\ out = "free"
  /\ handler' = "restoring"
  /\ out' = "handler"
  /\ UNCHANGED <<flags, pc, notified, sigCh, signalled, deferred, panicking,
                 col, cursor, status, failed>>

FinishRestore ==
  /\ Running
  /\ handler = "restoring"
  /\ handler' = "restored"
  /\ out' = "free"
  /\ cursor' = "visible"
  /\ UNCHANGED <<flags, pc, notified, sigCh, signalled, deferred, panicking,
                 col, status, failed>>

\* os.Exit(0): no deferred call runs.
ExitHandler ==
  /\ Running
  /\ handler = "restored"
  /\ status' = "0"
  /\ UNCHANGED <<flags, pc, sigVars, deferred, panicking, col, out, cursor,
                 failed>>

-----------------------------------------------------------------------------
(* The outside world *)

\* Mutant: an unbuffered channel, into which the runtime cannot put a signal
\* that nobody waits for yet.
SignalUnbuffered ==
  /\ Running
  /\ status' = IF notified THEN status ELSE "killed"
  /\ signalled' = (signalled \/ notified)
  /\ sigCh' = (sigCh \/ handler = "waiting")
  /\ UNCHANGED <<flags, pc, handler, notified, deferred, panicking, col, out,
                 cursor, failed>>

\* SIGINT or SIGTERM: it kills the process before signal.Notify; after it, it
\* goes into the channel, or is dropped if the buffer is full.
Signal ==
  /\ Running
  /\ status' = IF notified THEN status ELSE "killed"
  /\ signalled' = (signalled \/ notified)
  /\ sigCh' = (sigCh \/ notified)
  /\ UNCHANGED <<flags, pc, handler, notified, deferred, panicking, col, out,
                 cursor, failed>>

-----------------------------------------------------------------------------
FinishPrint == FinishHide \/ FinishFrame \/ FinishShow

Unwind == StopTicker \/ CloseCollector \/ StartShow \/ ExitMain

MainStep ==
  \/ StartHide \/ Notify \/ StartHandler \/ OpenCollector \/ ReadBaseline
  \/ NewTicker \/ Tick \/ Fail \/ StartFrame \/ FinishPrint \/ Unwind

HandlerStep == Receive \/ FinishRestore \/ ExitHandler

Next == MainStep \/ HandlerStep \/ StartRestore \/ Signal

\* The terminal takes what is written to it; the goroutines are scheduled when
\* they can run; and the signal goroutine gets the lock of the output some
\* time, since the main goroutine leaves it free between frames.  A sample may
\* never return, and NewCollector neither: there is no fairness on Tick and
\* the steps before the loop, except that the handler is started once Notify
\* has been called.
Fairness ==
  /\ WF_vars(FinishPrint)
  /\ WF_vars(Unwind)
  /\ WF_vars(StartHandler)
  /\ WF_vars(HandlerStep)
  /\ SF_vars(StartRestore)

Spec == Init /\ [][Next]_vars /\ Fairness

-----------------------------------------------------------------------------
\* The types of the variables; the goroutine that holds the output's lock is
\* in a write, and one that is in a write holds the lock.
TypeOK ==
  /\ ebpf \in BOOLEAN /\ positive \in BOOLEAN
  /\ pc \in {"start", "hiding", "notify", "go", "collector", "baseline",
             "ticker", "wait", "cpu", "mem", "disk", "net", "render",
             "printing", "return", "showing"}
  /\ handler \in {"none", "waiting", "received", "restoring", "restored"}
  /\ notified \in BOOLEAN /\ sigCh \in BOOLEAN
  /\ deferred \in SUBSET {"show", "close", "stop"}
  /\ panicking \in BOOLEAN
  /\ col \in {"none", "open", "closed"}
  /\ out \in {"free", "main", "handler"}
  /\ cursor \in {"visible", "hidden"}
  /\ status \in {"running", "0", "1", "2", "killed"}
  /\ signalled \in BOOLEAN /\ failed \in BOOLEAN
  /\ (out = "main") <=> (pc \in {"hiding", "printing", "showing"})
  /\ (out = "handler") <=> (handler = "restoring")

\* However the process ends once signals are caught, by an error, a panic or a
\* signal in the middle of anything, even of a write, the cursor is visible
\* again (main.go:52-63).
CursorRestored == status \in {"0", "1", "2"} => cursor = "visible"

\* However run is left, by an error at any point or by the panic of NewTicker,
\* the collector that was opened has been closed (main.go:67-78).
ClosedOnReturn == status \in {"1", "2"} => col # "open"

\* A signal that comes after signal.Notify ends the process, whatever the main
\* goroutine is doing or hanging in (main.go:56-63).
SignalExits == signalled ~> ~Running

\* A failure of NewCollector or of a sample ends the process (main.go:70-115).
FailureExits == failed ~> ~Running

-----------------------------------------------------------------------------
(* The inductive invariant behind CursorRestored and ClosedOnReturn. *)

\* The signal goroutine exists only when the cursor will not be hidden again.
HandlerAfterHide ==
  handler # "none" => pc \notin {"start", "hiding", "notify", "go"}

\* A hidden cursor has a deferred call that will show it, and no goroutine that
\* has shown it already.
HiddenIsDeferred ==
  /\ pc \in {"start", "hiding"} => cursor = "visible" /\ deferred = {}
  /\ cursor = "hidden" => "show" \in deferred /\ handler # "restored"

\* An open collector has a deferred Close.
OpenIsDeferred == col = "open" => "close" \in deferred

\* The cursor is shown by the last deferred call.
ShowIsLast == pc = "showing" => deferred = {"show"}

\* The only ways to an exit status.
ExitsKnown ==
  /\ status = "0" => handler = "restored"
  /\ status \in {"1", "2"} => deferred = {}

\* A signal caught since signal.Notify is not lost, although none was waited for
\* when it came or the buffer of one was full: it is in the channel, or the
\* signal goroutine has begun to act on one (main.go:57-63).
SignalKept ==
  Running /\ signalled =>
    sigCh \/ handler \in {"received", "restoring", "restored"}

\* What has failed is not tried again: run only unwinds.
FailureUnwinds == failed => pc \in {"return", "showing"}

ProcessInv ==
  /\ HandlerAfterHide /\ HiddenIsDeferred /\ OpenIsDeferred /\ ShowIsLast
  /\ ExitsKnown /\ SignalKept /\ FailureUnwinds

-----------------------------------------------------------------------------
(* What a comment says that does not always hold; TLC refutes it. *)

\* "Hide the cursor while the program is running, and restore it on exit"
\* (main.go:52): a process that is gone has restored the cursor.
CursorAlwaysRestored == ~Running => cursor = "visible"
=============================================================================
