------------------------------- MODULE VmExit -------------------------------
(***************************************************************************)
(* The emulation of guest accesses: a vCPU thread's step_run on either      *)
(* backend (kvm/core.rs, kvm/exithandler.rs, bhyve/core.rs,                 *)
(* bhyve/exithandler.rs), around the loop of vcpu.rs, over the bus of       *)
(* module Bus, which main fills before it starts the thread.                *)
(*                                                                          *)
(* An instruction that accesses a port or an MMIO address leaves the guest, *)
(* is carried out on the bus, and completes when the vCPU enters again.  On *)
(* KVM the answer lies in the shared kvm_run page; on bhyve it is part of   *)
(* the next entry's command, next_cmd and next_entry_u, and an entry without *)
(* it raises the exit once more.  A kick may come at any time, and the run   *)
(* ioctl may fail.                                                          *)
(*                                                                          *)
(* The thread is at "check" (the flag), "run" (the ioctl), "handle" (an exit) *)
(* or "stopped".  pio_bus and mmio_bus are one map here.  Bytes are tokens: *)
(* the access an answer came from, ff where no device answered, or what was *)
(* in the buffer before.                                                    *)
(***************************************************************************)
EXTENDS Bus, Integers

CONSTANTS
  MaxInstrs,    \* bound: instructions that access a device
  MaxExits,     \* bound: other exits
  BufLen        \* bytes of kvm_run's data, or of eax

ASSUME VmExitAssumption == MaxInstrs \in Nat /\ MaxExits \in Nat /\ BufLen \in Nat \ {0}

VARIABLES
  native,       \* "kvm" or "bhyve"
  started,      \* main has started the thread
  vpc,          \* the thread
  flag,         \* shutdown requested
  kick,         \* SIGUSR1: "none", "pending" or "taken"
  instr,        \* the instruction that left the guest and is not complete
  exit,         \* the exit being handled
  buf,          \* the data area of the exit
  cmd,          \* next_cmd and next_entry_u (bhyve)
  issued,       \* instructions issued so far
  others,       \* other exits so far
  log,          \* the bus accesses made for instr, in order
  exact,        \* so far every completed instruction did and received what it should
  result,       \* what run_vcpu returns
  fault         \* the run ioctl failed other than by EINTR or EAGAIN

exitVars == <<devices, access, native, started, vpc, flag, kick, instr, exit, buf, cmd,
              issued, others, log, exact, result, fault>>

-----------------------------------------------------------------------------
Old == <<0, 0>>      \* whatever was there
FF  == <<0, 255>>    \* the bus fills a read nobody claims

NoInstr   == [kind |-> "none"]
NoCommand == [kind |-> "DEFAULT", data |-> [k \in 1..BufLen |-> Old]]

\* INS and OUTS reach user space with a count on KVM only.
Instrs ==
  [kind : {"INOUT", "MMIO"}, in : BOOLEAN, addr : Addr, size : Widths \ {0}, count : {1, 2}]

CanIssue(i) ==
  /\ i.count * i.size <= BufLen
  /\ i.count > 1 => native = "kvm" /\ i.kind = "INOUT"

OtherExits ==
  IF native = "kvm" THEN {"Hlt", "Shutdown", "FailEntry", "InternalError", "Unhandled"}
  ELSE {"Hlt", "Suspended", "Rdmsr", "Bogus"}

Stops(e) == e \in {"Shutdown", "FailEntry", "InternalError", "Suspended"}

ExitInit ==
  /\ Init
  /\ native \in {"kvm", "bhyve"}
  /\ started = FALSE /\ vpc = "check" /\ flag = FALSE /\ kick = "none"
  /\ instr = NoInstr /\ exit = "none" /\ buf = NoCommand.data /\ cmd = NoCommand
  /\ issued = 0 /\ others = 0
  /\ log = <<>> /\ exact = TRUE /\ result = "running" /\ fault = FALSE

-----------------------------------------------------------------------------
(* main, and the thread that requests shutdown.                             *)

MainRegisters ==
  /\ ~started
  /\ \E base \in Addr, len \in Lens : Register([base |-> base, len |-> len])
  /\ UNCHANGED <<native, started, vpc, flag, kick, instr, exit, buf, cmd, issued,
                 others, log, exact, result, fault>>

MainStarts ==
  /\ ~started /\ started' = TRUE
  /\ UNCHANGED <<devices, access, native, vpc, flag, kick, instr, exit, buf, cmd,
                 issued, others, log, exact, result, fault>>

\* Shutdown::request, by another thread: the flag, then the kick.
RequestShutdown ==
  /\ started /\ ~flag /\ vpc # "stopped"
  /\ flag' = TRUE /\ kick' = "pending"
  /\ UNCHANGED <<devices, access, native, started, vpc, instr, exit, buf, cmd, issued,
                 others, log, exact, result, fault>>

-----------------------------------------------------------------------------
(* The run loop.                                                            *)

\* run_vcpu requests shutdown whatever ended its loop.
Finish(outcome) == vpc' = "stopped" /\ flag' = TRUE /\ result' = outcome

CheckFlag ==
  /\ started /\ vpc = "check"
  /\ IF flag THEN Finish("ok") ELSE vpc' = "run" /\ UNCHANGED <<flag, result>>
  /\ UNCHANGED <<devices, access, native, started, kick, instr, exit, buf, cmd,
                 issued, others, log, exact, fault>>

\* Mutant: every error loops.
ErrsRetried(kind) == vpc' = "check" /\ UNCHANGED <<flag, result>>

\* step_run's Err: Interrupted and WouldBlock loop, anything else ends the thread.
Errs(kind) ==
  IF kind \in {"Interrupted", "WouldBlock"} THEN vpc' = "check" /\ UNCHANGED <<flag, result>>
  ELSE Finish("err")

\* Mutant: both backends make a new error.
KindOfLost(kind) == "Other"

\* The kind of a failed run ioctl: bhyve's step_run makes a new error of it.
KindOf(kind) == IF native = "bhyve" THEN "Other" ELSE kind

-----------------------------------------------------------------------------
(* The kernel's side of the run ioctl (external): it takes the entry        *)
(* command, completes the pending instruction and goes on with the guest.   *)

Pending == instr.kind # "none"

\* bhyve refuses a command that answers nothing, and without one raises the
\* pending exit again.
Rejected == native = "bhyve" /\ cmd.kind \notin {"DEFAULT", instr.kind}
Replays  == native = "bhyve" /\ Pending /\ cmd.kind = "DEFAULT"

\* What an instruction should have done and received: one access per element,
\* and byte for byte the answers to its own accesses.
Exact(i, accesses, data) ==
  /\ Len(accesses) = i.count
  /\ i.in => \A e \in 1..i.count, k \in 1..i.size : data[(e - 1) * i.size + k] = accesses[e]

\* The pending instruction, if any, receives its data and is over.
Completes ==
  exact' = (exact /\ (Pending => ~Replays /\ Exact(instr, log, IF native = "kvm" THEN buf
                                                               ELSE cmd.data)))

\* The ioctl returns at an instruction that accesses a device: the guest's next
\* one, or the pending one again.  The kernel leaves in kvm_run what is there.
CanAccess == vpc = "run" /\ ~Rejected /\ (Replays \/ issued < MaxInstrs)

RunsToAccess(i) ==
  /\ instr' = i /\ CanIssue(i)
  /\ Replays => i = instr
  /\ Completes
  /\ issued' = IF Replays THEN issued ELSE issued + 1
  /\ log' = <<>> /\ exit' = i.kind /\ vpc' = "handle"
  /\ buf' = IF native = "kvm" THEN buf ELSE NoCommand.data
  /\ UNCHANGED <<devices, access, native, started, flag, kick, cmd, others, result, fault>>

\* Or at an exit of another kind.
RunsToExit(e) ==
  /\ vpc = "run" /\ ~Rejected /\ ~Replays /\ others < MaxExits
  /\ Completes /\ instr' = NoInstr /\ log' = <<>>
  /\ others' = others + 1 /\ exit' = e /\ vpc' = "handle"
  /\ UNCHANGED <<devices, access, native, started, flag, kick, buf, cmd, issued, result, fault>>

\* Or with EINTR, on a pending signal.
RunInterrupted ==
  /\ vpc = "run" /\ ~Rejected /\ ~Replays /\ kick = "pending"
  /\ Completes /\ instr' = NoInstr /\ log' = <<>>
  /\ kick' = "taken"
  /\ Errs(KindOf("Interrupted"))
  /\ UNCHANGED <<devices, access, native, started, exit, buf, cmd, issued, others, fault>>

\* Or with EAGAIN, while an AP waits to be started, or another error.
RunFails(kind) ==
  /\ vpc = "run"
  /\ kind = "WouldBlock" => native = "kvm" /\ issued = 0 /\ others = 0
  /\ Errs(KindOf(kind)) /\ fault' = (fault \/ kind = "Other")
  /\ UNCHANGED <<devices, access, native, started, kick, instr, exit, buf, cmd,
                 issued, others, log, exact>>

-----------------------------------------------------------------------------
(* handle_exit.                                                             *)

\* Mutant: every element of a string access lands on the first.
SliceFirst(i, e) == 1..i.size

\* The bytes of element e in the data area.
Slice(i, e) == (e * i.size + 1)..((e + 1) * i.size)

\* One bus.read or bus.write of handle_io_exit or handle_mmio_exit.
HandleAccess ==
  /\ vpc = "handle" /\ exit = instr.kind /\ Len(log) < instr.count
  /\ Access(instr.addr, instr.size)
  /\ LET e      == Len(log)
         answer == IF access'.reached.hit THEN <<issued, e + 1>> ELSE FF
     IN /\ log' = Append(log, answer)
        /\ buf' = IF instr.in
                  THEN [k \in 1..BufLen |-> IF k \in Slice(instr, e) THEN answer ELSE buf[k]]
                  ELSE buf
  /\ UNCHANGED <<native, started, vpc, flag, kick, instr, exit, cmd, issued,
                 others, exact, result, fault>>

\* The command that answers the exit: VEC_FULFILL_INOUT or VEC_FULFILL_MMIO.
Answer == [kind |-> instr.kind, data |-> buf]

AccessHandled ==
  /\ vpc = "handle" /\ exit = instr.kind /\ Len(log) >= instr.count
  /\ cmd' = IF native = "bhyve" THEN Answer ELSE cmd
  /\ vpc' = "check" /\ exit' = "none"
  /\ UNCHANGED <<devices, access, native, started, flag, kick, instr, buf, issued,
                 others, log, exact, result, fault>>

\* Mutant: the last exit's command stays for the next entry.
NextCommandStale == cmd

\* Any other exit leaves VEC_DEFAULT.
NextCommand == NoCommand

HandleOther ==
  /\ vpc = "handle" /\ exit \in OtherExits
  /\ cmd' = NextCommand
  /\ IF Stops(exit) THEN Finish("ok") ELSE vpc' = "check" /\ UNCHANGED <<flag, result>>
  /\ exit' = "none"
  /\ UNCHANGED <<devices, access, native, started, kick, instr, buf, issued,
                 others, log, exact, fault>>

-----------------------------------------------------------------------------
VcpuStep ==
  \/ CheckFlag
  \/ CanAccess /\ (\E i \in Instrs : RunsToAccess(i))
  \/ \E e \in OtherExits : RunsToExit(e)
  \/ RunInterrupted
  \/ \E kind \in {"WouldBlock", "Other"} : RunFails(kind)
  \/ HandleAccess \/ AccessHandled \/ HandleOther

Idle == vpc = "stopped" /\ UNCHANGED exitVars

ExitNext == MainRegisters \/ MainStarts \/ RequestShutdown \/ VcpuStep \/ Idle

ExitSpec == ExitInit /\ [][ExitNext]_exitVars

\* The thread runs.
FairExitSpec == ExitSpec /\ WF_exitVars(VcpuStep)

-----------------------------------------------------------------------------
(* Properties.                                                              *)

\* Every variable has its type.
ExitTypeOK ==
  /\ vpc \in {"check", "run", "handle", "stopped"}
  /\ instr = NoInstr \/ instr \in Instrs
  /\ cmd.kind \in {"DEFAULT", "INOUT", "MMIO"}
  /\ DOMAIN buf = 1..BufLen /\ DOMAIN cmd.data = 1..BufLen
  /\ result \in {"running", "ok", "err"} /\ (result = "running" <=> vpc # "stopped")

\* An instruction that accesses a device reaches the bus exactly once per
\* element and in order, on both backends; an IN receives, byte for byte, the
\* answers to its own accesses, never those of an earlier exit or the rest of
\* the data area.
AnswersAreExact == exact

\* A failed run ioctl ends the vCPU with an error, never silently; and on KVM
\* nothing else does: neither a kick, wherever it interrupts the loop, nor an AP
\* that waits to be started (run_vcpu's two kinds that loop).
ErrorsAreReal ==
  /\ fault => result = "err"
  /\ native = "kvm" /\ result = "err" => fault

\* Every entry carries the command the last exit calls for: the answer to the
\* pending instruction, or none when nothing is pending, whatever exits lie
\* between (bhyve's next_cmd and next_entry_u outlive the ioctl).
CommandsAreWanted == vpc = "run" => ~Rejected /\ ~Replays

\* An instruction that left the guest completes, unless the vCPU stops: no exit
\* is answered in a way that raises it again for ever.
InstructionCompletes ==
  \A n \in 1..MaxInstrs :
    (issued = n /\ instr.kind # "none") ~> (issued > n \/ instr.kind = "none" \/ vpc = "stopped")
=============================================================================
