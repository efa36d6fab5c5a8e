------------------------------ MODULE Session -------------------------------
(***************************************************************************)
(* One run of the process, from main's argument check to its death: raw     *)
(* mode, its guard and the fatal-signal handlers (src/terminal.rs), main's  *)
(* set-up with an early return after every step, and the guards its locals  *)
(* drop on the way out (src/main.rs, src/memory.rs, the backends' core.rs). *)
(*                                                                          *)
(* Signals arrive, stdout breaks and calls fail at any step.  Whether and   *)
(* how the vCPU threads stop is the subject of Shutdown; here they may.     *)
(*                                                                          *)
(* main is at                                                               *)
(*   "check"   the --cpus test         "enter"   RawMode::enter_on          *)
(*   "save", "install"   inside install_signal_handlers                     *)
(*   "setup"   step `at` of Setup      "run"     thread::scope              *)
(*   "report"  printing the totals     "drop"    dropping its locals        *)
(*   "destroy"   inside the drop of BhyveVm                                 *)
(*   "drain", "retry", "disarm"         inside RawMode::restore             *)
(*   "abort"   a panic inside a panic  "gone"    the process is dead        *)
(***************************************************************************)
EXTENDS Naturals, Sequences

CONSTANTS
  MaxSignals,   \* bound: fatal signals sent to the process
  NumCpus       \* vCPU threads

ASSUME SessionAssumption ==
  MaxSignals \in Nat /\ NumCpus \in 1..255

VARIABLES
  main, at,     \* main's place, and its index in Setup or FATAL_SIGNALS
  termios,      \* the terminal's mode
  active,       \* RawMode::active
  saved,        \* SAVED_TERMIOS and SAVED_FD are set
  handlers,     \* signals whose disposition is `handler`
  hpc,          \* per signal: where its handler is
  onMain,       \* a handler has interrupted the main thread
  disarmed,     \* HANDLER_DISARMED
  held,         \* the guards main owns, in declaration order
  panicking,    \* main is unwinding
  native,       \* the hypervisor this build is for
  kernelVm,     \* the VM of this name in the host's /dev/vmm: "none", "stale"
                \* (of an earlier process with this pid) or "ours"
  failures,     \* calls that failed, of those whose failure leaves something behind
  stdoutOk,     \* writes to stdout succeed
  flag,         \* the shutdown flag
  guests,       \* vCPU threads that run
  reader,       \* the stdin reader: "unborn", "loop" or "gone"
  sent,         \* fatal signals sent so far
  death         \* how the process died

terminal == <<termios, active, saved, handlers, disarmed>>
signals  == <<hpc, onMain, sent>>
locals   == <<held, panicking, kernelVm, failures, native>>
threads  == <<flag, guests, reader>>
vars     == <<main, at, terminal, signals, locals, stdoutOk, threads, death>>

-----------------------------------------------------------------------------
(* What is fixed by the code.                                               *)

\* Mutant: the signal a failed assertion or an abort raises is not in the list.
FATAL_SIGNALS_NoAbort == <<"SIGTERM">>

\* Two of the eight: one that others send, one that abort raises.
FATAL_SIGNALS == <<"SIGTERM", "SIGABRT">>

Signals == {"SIGTERM", "SIGABRT"}

Step(op, gives, says) == [op |-> op, gives |-> gives, says |-> says]

\* main's steps after raw mode, each with an early return, the guard its result
\* puts in a local, and whether it prints.  First the VM, its memory, the boot
\* processor and the kernel; create_vm is two calls.
VmSetup == <<
  Step("kick_handler", "-", FALSE),   Step("hypervisor", "-", TRUE),
  Step("create_vm", "-", FALSE),      Step("open_vm", "vm", TRUE),
  Step("vm_setup", "-", FALSE),       Step("allocate", "mem", TRUE),
  Step("register_memory", "-", TRUE), Step("create_vcpu", "vcpus", TRUE),
  Step("vcpu_setup", "-", TRUE),      Step("load_kernel", "-", TRUE),
  Step("dump_state", "-", TRUE) >>

\* Then the devices, the stdin reader and the other processors.
DeviceSetup == <<
  Step("pci", "-", FALSE),            Step("rng", "-", FALSE),
  Step("disk", "-", FALSE),           Step("serial", "-", FALSE),
  Step("reader", "-", FALSE),         Step("register_serial", "-", FALSE),
  Step("aps", "-", TRUE),             Step("mptable", "-", TRUE) >>

Setup == VmSetup \o DeviceSetup

-----------------------------------------------------------------------------
Init ==
  /\ main = "check" /\ at = 1
  /\ termios = "cooked" /\ active = FALSE /\ saved = FALSE
  /\ handlers = {} /\ disarmed = FALSE
  /\ hpc = [s \in Signals |-> "idle"] /\ onMain = FALSE /\ sent = 0
  /\ held = <<>> /\ panicking = FALSE /\ failures = {}
  /\ native \in {"kvm", "bhyve"}
  /\ kernelVm \in IF native = "bhyve" THEN {"none", "stale"} ELSE {"none"}
  /\ stdoutOk = TRUE /\ flag = FALSE /\ guests = 0
  /\ reader = "unborn"
  /\ death = [how |-> "-", main |-> "-", again |-> FALSE]

Alive    == main # "gone"
MainRuns == Alive /\ ~onMain

\* The guard that a drop reaches first, and the ones it leaves.
Innermost == held[Len(held)]
Outer     == SubSeq(held, 1, Len(held) - 1)

\* The process ends: nothing in it moves again.
Dies(how, again) ==
  /\ main' = "gone"
  /\ death' = [how |-> how, main |-> main, again |-> again]

-----------------------------------------------------------------------------
(* Raw mode: RawMode::enter_on.                                             *)

\* The test of --cpus and the first message, before anything is touched.
CheckArguments ==
  /\ main = "check"
  /\ \/ main' = "enter" /\ UNCHANGED death
     \/ Dies("return", FALSE)
  /\ UNCHANGED <<at, terminal, signals, locals, stdoutOk, threads>>

\* stdin is not a terminal: an inert guard.  isatty, tcgetattr or tcsetattr
\* fails: no guard.  Otherwise the terminal is raw from here on.
EnterRaw ==
  /\ main = "enter" /\ MainRuns
  /\ \/ /\ main' = "setup" /\ at' = 1 /\ held' = <<"raw">>
        /\ UNCHANGED <<termios, death>>
     \/ Dies("return", FALSE) /\ UNCHANGED <<at, held, termios>>
     \/ /\ termios' = "raw" /\ main' = "save"
        /\ UNCHANGED <<at, held, death>>
  /\ UNCHANGED <<active, saved, handlers, disarmed, signals, panicking, kernelVm,
                 failures, native, stdoutOk, threads>>

SaveTermios ==
  /\ main = "save" /\ MainRuns
  /\ saved' = TRUE /\ main' = "install" /\ at' = 1
  /\ UNCHANGED <<termios, active, handlers, disarmed, signals, locals, stdoutOk,
                 threads, death>>

\* install_one for one signal; after the last, enter_on returns the guard.
InstallOne ==
  /\ main = "install" /\ MainRuns
  /\ handlers' = handlers \union {FATAL_SIGNALS[at]}
  /\ IF at = Len(FATAL_SIGNALS)
     THEN /\ active' = TRUE /\ held' = <<"raw">>
          /\ main' = "setup" /\ at' = 1
     ELSE at' = at + 1 /\ UNCHANGED <<active, held, main>>
  /\ UNCHANGED <<termios, saved, disarmed, signals, panicking, kernelVm, failures,
                 native, stdoutOk, threads, death>>

-----------------------------------------------------------------------------
(* RawMode::restore and its drop.                                           *)

RestoreStep(to) ==
  /\ main' = to
  /\ UNCHANGED <<at, active, saved, handlers, signals, held, panicking, kernelVm,
                 native, stdoutOk, threads, death>>

\* tcsetattr(TCSADRAIN): done, interrupted, or another error.
Drain ==
  /\ main = "drain" /\ MainRuns
  /\ \/ termios' = "cooked" /\ RestoreStep("disarm") /\ UNCHANGED failures
     \/ RestoreStep("retry") /\ UNCHANGED <<termios, failures>>
     \/ /\ failures' = failures \union {"restore"}
        /\ RestoreStep("disarm") /\ UNCHANGED termios
  /\ UNCHANGED disarmed


\* The one retry after EINTR.
Retry ==
  /\ main = "retry" /\ MainRuns
  /\ \/ termios' = "cooked" /\ RestoreStep("disarm") /\ UNCHANGED failures
     \/ /\ failures' = failures \union {"restore"}
        /\ RestoreStep("disarm") /\ UNCHANGED termios
  /\ UNCHANGED disarmed

\* tcflush, whose result is ignored; the handlers are disarmed, and the guard is
\* gone.
Disarm ==
  /\ main = "disarm" /\ MainRuns
  /\ active' = FALSE /\ disarmed' = TRUE
  /\ held' = Outer /\ main' = "drop"
  /\ UNCHANGED <<at, termios, saved, handlers, signals, panicking, kernelVm, failures,
                 native, stdoutOk, threads, death>>

-----------------------------------------------------------------------------
(* The fatal signals.                                                       *)

\* The effect of signal s on a thread: `handler` with SA_RESETHAND, or death.
Take(s, inMain) ==
  IF s \in handlers
  THEN /\ handlers' = handlers \ {s}
       /\ hpc' = [hpc EXCEPT ![s] = "check"]
       /\ onMain' = (onMain \/ inMain)
       /\ UNCHANGED <<main, death>>
  ELSE /\ Dies("signal", hpc[s] # "idle")
       /\ UNCHANGED <<handlers, hpc, onMain>>

\* Another process sends s.  While main is the only thread it is main that is
\* interrupted; later it may be any.
Deliver(s) ==
  /\ Alive /\ sent < MaxSignals
  /\ sent' = sent + 1
  /\ \E inMain \in IF reader = "unborn" THEN {TRUE} ELSE BOOLEAN : Take(s, inMain)
  /\ UNCHANGED <<at, termios, active, saved, disarmed, locals, stdoutOk, threads>>

\* A panic while main unwinds: abort raises SIGABRT in it.
Abort ==
  /\ main = "abort" /\ MainRuns
  /\ Take("SIGABRT", TRUE)
  /\ UNCHANGED <<at, termios, active, saved, disarmed, locals, stdoutOk, threads, sent>>

HandlerCheck(s) ==
  /\ Alive /\ hpc[s] = "check"
  /\ hpc' = [hpc EXCEPT ![s] = IF disarmed \/ ~saved THEN "raise" ELSE "restore"]
  /\ UNCHANGED <<main, at, terminal, onMain, sent, locals, stdoutOk, threads, death>>

\* tcsetattr(TCSANOW) with the saved attributes.
HandlerRestore(s) ==
  /\ Alive /\ hpc[s] = "restore"
  /\ termios' = "cooked" /\ hpc' = [hpc EXCEPT ![s] = "raise"]
  /\ UNCHANGED <<main, at, active, saved, handlers, disarmed, onMain, sent, locals,
                 stdoutOk, threads, death>>

\* The disposition is the default again: raise kills the process.
HandlerRaise(s) ==
  /\ Alive /\ hpc[s] = "raise"
  /\ Dies("signal", FALSE)
  /\ UNCHANGED <<at, terminal, signals, locals, stdoutOk, threads>>

Handler(s) == HandlerCheck(s) \/ HandlerRestore(s) \/ HandlerRaise(s)

-----------------------------------------------------------------------------
(* main's set-up.                                                           *)

\* print! panics when stdout cannot be written; a panic inside a panic aborts.
Panics(to) ==
  /\ panicking' = TRUE
  /\ main' = IF panicking THEN "abort" ELSE to

\* What the step changes besides the locals: create_vm leaves a VM in the host's
\* /dev/vmm on bhyve, after the stale one of this name, if any, is destroyed (on
\* KVM it is a descriptor), and the reader is a thread.
Effects(step) ==
  /\ kernelVm' = IF step.op = "create_vm" /\ native = "bhyve" THEN "ours" ELSE kernelVm
  /\ reader' = IF step.op = "reader" THEN "loop" ELSE reader

\* What a failed step leaves in the host: a stale VM is destroyed, or that fails
\* and it stays, before create_vm gives up.
Leaves(step) ==
  IF step.op = "create_vm" /\ kernelVm = "stale" THEN {"none", "stale"} ELSE {kernelVm}

\* Kvm prints between create_vm's two calls and KvmVm in its setup; on bhyve both
\* are silent.
Prints(step) == step.says \/ (step.op \in {"create_vm", "vm_setup"} /\ native = "kvm")

StepOk ==
  /\ main = "setup" /\ MainRuns
  /\ LET step == Setup[at] IN
       /\ Effects(step)
       /\ held' = IF step.gives = "-" THEN held ELSE Append(held, step.gives)
       /\ IF Prints(step) /\ ~stdoutOk
          THEN Panics("drop") /\ UNCHANGED <<at, guests>>
          ELSE IF at = Len(Setup)
          THEN main' = "run" /\ guests' = NumCpus /\ UNCHANGED <<at, panicking>>
          ELSE at' = at + 1 /\ UNCHANGED <<main, guests, panicking>>
  /\ UNCHANGED <<terminal, signals, failures, native, stdoutOk, flag, death>>

\* `?`: the step's Err ends main.  spawn's failure is an expect, so a panic; a
\* /dev/vmm device that does not open leaves the VM that was just created.
StepFails ==
  /\ main = "setup" /\ MainRuns
  /\ LET step == Setup[at] IN
       /\ failures' = failures \union ({step.op} \intersect {"open_vm"})
       /\ kernelVm' \in Leaves(step)
       /\ IF step.op = "reader" THEN Panics("drop")
          ELSE main' = "drop" /\ UNCHANGED panicking
  /\ UNCHANGED <<at, terminal, signals, held, native, stdoutOk, threads, death>>

-----------------------------------------------------------------------------
(* The vCPU threads, and the end of main.                                   *)

\* A vCPU thread ends: it saw the flag, or its guest stopped and it requested
\* shutdown, or it panicked and did not.  Its stats or error go to main.
VcpuEnds ==
  /\ Alive /\ guests > 0
  /\ guests' = guests - 1
  /\ flag' \in IF flag THEN {TRUE} ELSE BOOLEAN
  /\ UNCHANGED <<main, at, terminal, signals, locals, stdoutOk, reader, death>>

\* scope joins every thread, and consumes the vCPUs, the last of the guards.
ScopeEnds ==
  /\ main = "run" /\ MainRuns /\ guests = 0
  /\ main' = "report" /\ held' = Outer
  /\ UNCHANGED <<at, terminal, signals, panicking, kernelVm, failures, native,
                 stdoutOk, threads, death>>

\* The totals are printed, and main returns Ok or the run error.
Report ==
  /\ main = "report" /\ MainRuns
  /\ IF stdoutOk THEN main' = "drop" /\ UNCHANGED panicking ELSE Panics("drop")
  /\ UNCHANGED <<at, terminal, signals, held, kernelVm, failures, native, stdoutOk,
                 threads, death>>

\* The next local is dropped, the last declared first.  BhyveVm and RawMode say
\* so before they act; if they cannot, the rest of their drop does not happen.
DropLocal ==
  /\ main = "drop" /\ MainRuns /\ held # <<>>
  /\ LET destroys == Innermost = "vm" /\ native = "bhyve"
         restores == Innermost = "raw" /\ active
     IN IF (destroys \/ Innermost = "raw") /\ ~stdoutOk
        THEN Panics("drop") /\ held' = Outer
        ELSE /\ main' = IF destroys THEN "destroy" ELSE IF restores THEN "drain" ELSE "drop"
             /\ held' = IF destroys \/ restores THEN held ELSE Outer
             /\ UNCHANGED panicking
  /\ UNCHANGED <<at, terminal, signals, kernelVm, failures, native, stdoutOk, threads, death>>

\* Mutant: an unwinding thread leaves the VM to the next run.
DestroyedUnlessPanicking ==
  /\ kernelVm' = IF panicking THEN kernelVm ELSE "none"
  /\ UNCHANGED failures

\* VMM_DESTROY_VM; its failure is only a warning.
Destroyed ==
  \/ kernelVm' = "none" /\ UNCHANGED failures
  \/ failures' = failures \union {"destroy"} /\ UNCHANGED kernelVm

\* The rest of BhyveVm's drop: close, destroy, and a last message.
DestroyVm ==
  /\ main = "destroy" /\ MainRuns
  /\ Destroyed
  /\ held' = Outer
  /\ IF stdoutOk THEN main' = "drop" /\ UNCHANGED panicking ELSE Panics("drop")
  /\ UNCHANGED <<at, terminal, signals, native, stdoutOk, threads, death>>

\* main is over, and with it the process and the reader.
Exit ==
  /\ main = "drop" /\ MainRuns /\ held = <<>>
  /\ Dies(IF panicking THEN "unwind" ELSE "return", FALSE)
  /\ UNCHANGED <<at, terminal, signals, locals, stdoutOk, threads>>

StdoutBreaks ==
  /\ Alive /\ stdoutOk /\ stdoutOk' = FALSE
  /\ UNCHANGED <<main, at, terminal, signals, locals, threads, death>>

-----------------------------------------------------------------------------
(* The stdin reader.  What it reads is the subject of Console.              *)

\* The flag is set; or Ctrl-A x, the end of stdin or a failure of poll or read
\* makes it request shutdown.
ReaderStops ==
  /\ Alive /\ reader = "loop"
  /\ reader' = "gone" /\ flag' = TRUE
  /\ UNCHANGED <<main, at, terminal, signals, locals, stdoutOk, guests, death>>

-----------------------------------------------------------------------------
Dead == ~Alive /\ UNCHANGED vars

MainStep ==
  \/ CheckArguments \/ EnterRaw \/ SaveTermios \/ InstallOne
  \/ StepOk \/ StepFails \/ ScopeEnds \/ Report \/ DropLocal \/ DestroyVm \/ Exit
  \/ Drain \/ Retry \/ Disarm \/ Abort

Next ==
  \/ MainStep
  \/ \E s \in Signals : Deliver(s) \/ Handler(s)
  \/ VcpuEnds \/ ReaderStops \/ StdoutBreaks
  \/ Dead

Spec == Init /\ [][Next]_vars

\* main and the handlers run.  A vCPU thread need not end, also not when the flag
\* is set (Shutdown shows when it does not); nobody has to type, and no signal
\* has to come.
FairSpec ==
  /\ Spec
  /\ WF_vars(MainStep)
  /\ \A s \in Signals : WF_vars(Handler(s))

-----------------------------------------------------------------------------
(* Properties.                                                              *)

\* Every variable has its type.
TypeOK ==
  /\ main \in {"check", "enter", "save", "install", "setup", "run", "report", "drop",
               "destroy", "drain", "retry", "disarm", "abort", "gone"}
  /\ at \in Nat
  /\ termios \in {"cooked", "raw"} /\ handlers \subseteq Signals
  /\ hpc \in [Signals -> {"idle", "check", "restore", "raise"}]
  /\ held \in Seq({"raw", "vm", "mem", "vcpus"})
  /\ native \in {"kvm", "bhyve"} /\ guests \in 0..NumCpus
  /\ active \in BOOLEAN /\ saved \in BOOLEAN /\ disarmed \in BOOLEAN
  /\ kernelVm \in {"none", "stale", "ours"}
  /\ panicking \in BOOLEAN /\ stdoutOk \in BOOLEAN

\* However the process ends (an early return after any step, a panic, an abort
\* inside a panic, a fatal signal at any point, also one that overlaps RawMode's
\* own restore), the terminal has its attributes back, with four exceptions: a
\* signal between enter_on's tcsetattr and the installation of the handlers, a
\* signal that comes again before its handler has restored, a tcsetattr of
\* restore that failed, and RawMode's drop panicking at its own message.
TerminalIsRestored ==
  (~Alive /\ termios = "raw") =>
    \/ death.how = "signal" /\ death.main \in {"save", "install"}
    \/ death.how = "signal" /\ death.again
    \/ "restore" \in failures
    \/ death.how = "unwind" /\ ~stdoutOk

\* A VM made in the host's /dev/vmm is destroyed on every way out that runs
\* destructors, unless the device could not be opened after the VM was made, the
\* destroy call failed, or BhyveVm's drop could not print its first message.
VmIsDestroyed ==
  (~Alive /\ kernelVm = "ours") =>
    \/ death.how = "signal"
    \/ failures \intersect {"open_vm", "destroy"} # {}
    \/ death.how = "unwind" /\ ~stdoutOk

=============================================================================
