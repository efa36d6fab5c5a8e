------------------------------ MODULE Shutdown ------------------------------
(***************************************************************************)
(* How the VM stops: the Shutdown flag and its SIGUSR1 kicks (src/input.rs),*)
(* the vCPU run loop (src/vcpu.rs), the stdin reader's exit and main's      *)
(* spawning and joining of the vCPU threads (src/main.rs), on KVM.          *)
(*                                                                          *)
(* A thread's program counter:                                              *)
(*   "unborn"    not spawned yet            "spawned"  before add_kick_target *)
(*   "check"     at `if shutdown.requested()`                               *)
(*   "enter"     past the check, KVM_RUN not entered yet                    *)
(*   "guest"     in KVM_RUN (or handling the exit it returned)              *)
(*   "store", "lock", "kick"   the three stages of Shutdown::request        *)
(*   "done"      returned after its request                                 *)
(*   "panicked"  unwound out of the run loop, without a request             *)
(* and for the reader "loop", "poll" and "returned" (saw the flag).         *)
(***************************************************************************)
EXTENDS Naturals, Sequences

CONSTANTS
  NumCpus,    \* number of vCPUs (--cpus)
  MayPanic    \* whether exit handling may panic (a poisoned lock, closed stdout)

ASSUME ShutdownAssumption == NumCpus \in Nat \ {0} /\ MayPanic \in BOOLEAN

Cpus    == 0..(NumCpus - 1)
reader  == NumCpus          \* the reader's thread id, distinct from every vCPU's
Threads == Cpus \union {reader}
nobody  == NumCpus + 1      \* the lock is free

VARIABLES
  flag,         \* ShutdownInner::flag
  kickThreads,  \* ShutdownInner::kick_threads, in registration order
  holder,       \* who holds the kick_threads mutex
  pc,           \* per thread
  next,         \* per thread: index of the next target its request will kick
  signalled,    \* per vCPU thread: SIGUSR1 is pending
  missed,       \* per vCPU thread: the handler ran between its last check and KVM_RUN
  result,       \* per vCPU thread: what run_vcpu returns
  spawned,      \* number of vCPU threads main has spawned
  joined,       \* number of vCPU threads main has joined
  runError,     \* main's run_error: none, or the vCPU it came from
  stale         \* some pthread_kill was given the id of a joined thread

vars == <<flag, kickThreads, holder, pc, next, signalled, missed, result,
          spawned, joined, runError, stale>>

none == NumCpus + 2

Init ==
  /\ flag = FALSE /\ kickThreads = <<>> /\ holder = nobody
  /\ pc = [t \in Threads |-> IF t = reader THEN "loop" ELSE "unborn"]
  /\ next = [t \in Threads |-> 1]
  /\ signalled = [c \in Cpus |-> FALSE]
  /\ missed = [c \in Cpus |-> FALSE]
  /\ result = [c \in Cpus |-> "running"]
  /\ spawned = 0 /\ joined = 0 /\ runError = none /\ stale = FALSE

Goto(t, from, to) == pc[t] = from /\ pc' = [pc EXCEPT ![t] = to]

Ended(c) == pc[c] \in {"done", "panicked"}

-----------------------------------------------------------------------------
(* Shutdown::request, run by thread t.                                      *)

StoreFlag(t) ==
  /\ Goto(t, "store", "lock")
  /\ flag' = TRUE
  /\ UNCHANGED <<kickThreads, holder, next, signalled, missed, result, spawned,
                 joined, runError, stale>>

LockTargets(t) ==
  /\ holder = nobody
  /\ Goto(t, "lock", "kick")
  /\ holder' = t
  /\ next' = [next EXCEPT ![t] = 1]
  /\ UNCHANGED <<flag, kickThreads, signalled, missed, result, spawned, joined,
                 runError, stale>>

\* Mutant: the loop skips the last registered thread.
KickOneShort(t) ==
  /\ pc[t] = "kick" /\ next[t] <= Len(kickThreads)
  /\ LET c == kickThreads[next[t]] IN
       /\ signalled' = [signalled EXCEPT ![c] =
                          @ \/ (~Ended(c) /\ next[t] < Len(kickThreads))]
       /\ stale' = (stale \/ c < joined)
  /\ next' = [next EXCEPT ![t] = @ + 1]
  /\ UNCHANGED <<flag, kickThreads, holder, pc, missed, result, spawned, joined,
                 runError>>

\* One pthread_kill.  A thread that has ended takes no signal; once main has
\* joined it, its id is no longer a thread's.
Kick(t) ==
  /\ pc[t] = "kick" /\ next[t] <= Len(kickThreads)
  /\ LET c == kickThreads[next[t]] IN
       /\ signalled' = [signalled EXCEPT ![c] = @ \/ ~Ended(c)]
       /\ stale' = (stale \/ c < joined)
  /\ next' = [next EXCEPT ![t] = @ + 1]
  /\ UNCHANGED <<flag, kickThreads, holder, pc, missed, result, spawned, joined,
                 runError>>

\* Mutant: the guard is leaked, so nobody else can take the lock.
RequestDoneLeaksLock(t) ==
  /\ next[t] > Len(kickThreads)
  /\ Goto(t, "kick", "done")
  /\ UNCHANGED <<flag, kickThreads, holder, next, signalled, missed, result, spawned,
                 joined, runError, stale>>

\* The loop is over; the guard is dropped and the thread returns.
RequestDone(t) ==
  /\ next[t] > Len(kickThreads)
  /\ Goto(t, "kick", "done")
  /\ holder' = nobody
  /\ UNCHANGED <<flag, kickThreads, next, signalled, missed, result, spawned,
                 joined, runError, stale>>

Request(t) == StoreFlag(t) \/ LockTargets(t) \/ Kick(t) \/ RequestDone(t)

-----------------------------------------------------------------------------
(* A vCPU thread: add_kick_target, then run_vcpu.                           *)

AddKickTarget(c) ==
  /\ holder = nobody
  /\ Goto(c, "spawned", "check")
  /\ kickThreads' = Append(kickThreads, c)
  /\ UNCHANGED <<flag, holder, next, signalled, missed, result, spawned, joined,
                 runError, stale>>

\* `if shutdown.requested() { break Ok(()) }`
CheckFlag(c) ==
  /\ pc[c] = "check"
  /\ IF flag
     THEN /\ pc' = [pc EXCEPT ![c] = "store"]
          /\ result' = [result EXCEPT ![c] = "ok"]
          /\ UNCHANGED missed
     ELSE /\ pc' = [pc EXCEPT ![c] = "enter"]
          /\ missed' = [missed EXCEPT ![c] = FALSE]
          /\ UNCHANGED result
  /\ UNCHANGED <<flag, kickThreads, holder, next, signalled, spawned, joined,
                 runError, stale>>

EnterGuest(c) ==
  /\ Goto(c, "enter", "guest")
  /\ UNCHANGED <<flag, kickThreads, holder, next, signalled, missed, result,
                 spawned, joined, runError, stale>>

\* Mutant: the interrupted call is retried without looking at the flag again.
InterruptedRetries(c) ==
  /\ signalled[c]
  /\ Goto(c, "guest", "enter")
  /\ signalled' = [signalled EXCEPT ![c] = FALSE]
  /\ UNCHANGED <<flag, kickThreads, holder, next, missed, result, spawned, joined,
                 runError, stale>>

\* KVM_RUN returns EINTR because of a pending signal: Interrupted, continue.
Interrupted(c) ==
  /\ signalled[c]
  /\ Goto(c, "guest", "check")
  /\ signalled' = [signalled EXCEPT ![c] = FALSE]
  /\ UNCHANGED <<flag, kickThreads, holder, next, missed, result, spawned, joined,
                 runError, stale>>

\* The no-op handler runs while the thread is in user space.
HandleSignal(c) ==
  /\ signalled[c] /\ pc[c] # "guest" /\ ~Ended(c)
  /\ signalled' = [signalled EXCEPT ![c] = FALSE]
  /\ missed' = [missed EXCEPT ![c] = @ \/ pc[c] = "enter"]
  /\ UNCHANGED <<flag, kickThreads, holder, pc, next, result, spawned, joined,
                 runError, stale>>

\* An exit step_run handles: Ok(true), or EAGAIN while the AP awaits SIPI.
ExitHandled(c) ==
  /\ Goto(c, "guest", "check")
  /\ UNCHANGED <<flag, kickThreads, holder, next, signalled, missed, result,
                 spawned, joined, runError, stale>>

\* Shutdown, FailEntry, InternalError: Ok(false).  Any other error: Err.
ExitStops(c, outcome) ==
  /\ Goto(c, "guest", "store")
  /\ result' = [result EXCEPT ![c] = outcome]
  /\ UNCHANGED <<flag, kickThreads, holder, next, signalled, missed, spawned,
                 joined, runError, stale>>

\* Exit handling panics; the thread unwinds past shutdown.request().
Panic(c) ==
  /\ MayPanic
  /\ Goto(c, "guest", "panicked")
  /\ result' = [result EXCEPT ![c] = "panic"]
  /\ UNCHANGED <<flag, kickThreads, holder, next, signalled, missed, spawned,
                 joined, runError, stale>>

GuestExit(c) == ExitHandled(c) \/ \E o \in {"ok", "err"} : ExitStops(c, o)

VcpuStep(c) ==
  AddKickTarget(c) \/ CheckFlag(c) \/ EnterGuest(c) \/ Interrupted(c) \/ Request(c)

-----------------------------------------------------------------------------
(* The stdin reader.                                                        *)

ReaderCheck ==
  /\ pc[reader] = "loop"
  /\ pc' = [pc EXCEPT ![reader] = IF flag THEN "returned" ELSE "poll"]
  /\ UNCHANGED <<flag, kickThreads, holder, next, signalled, missed, result,
                 spawned, joined, runError, stale>>

\* A timeout, EINTR, or a batch without a quit: back to the top of the loop.
ReaderContinues ==
  /\ Goto(reader, "poll", "loop")
  /\ UNCHANGED <<flag, kickThreads, holder, next, signalled, missed, result,
                 spawned, joined, runError, stale>>

\* Ctrl-A x, EOF, or an error of poll or read.
ReaderQuits ==
  /\ Goto(reader, "poll", "store")
  /\ UNCHANGED <<flag, kickThreads, holder, next, signalled, missed, result,
                 spawned, joined, runError, stale>>

-----------------------------------------------------------------------------
(* main.                                                                    *)

SpawnVcpu ==
  /\ spawned < NumCpus
  /\ Goto(spawned, "unborn", "spawned")
  /\ spawned' = spawned + 1
  /\ UNCHANGED <<flag, kickThreads, holder, next, signalled, missed, result,
                 joined, runError, stale>>

\* Mutant: a later clean thread clears an earlier one's error.
JoinVcpuLastWins ==
  /\ spawned = NumCpus /\ joined < NumCpus
  /\ Ended(joined)
  /\ joined' = joined + 1
  /\ runError' = IF result[joined] # "ok" THEN joined ELSE none
  /\ UNCHANGED <<flag, kickThreads, holder, pc, next, signalled, missed, result,
                 spawned, stale>>

\* handle.join() in spawn order; run_error keeps the first failure.
JoinVcpu ==
  /\ spawned = NumCpus /\ joined < NumCpus
  /\ Ended(joined)
  /\ joined' = joined + 1
  /\ runError' = IF runError = none /\ result[joined] # "ok" THEN joined ELSE runError
  /\ UNCHANGED <<flag, kickThreads, holder, pc, next, signalled, missed, result,
                 spawned, stale>>

\* main returns and the process ends, the reader with it.
Exited == joined = NumCpus /\ UNCHANGED vars

-----------------------------------------------------------------------------
Next ==
  \/ \E c \in Cpus : VcpuStep(c) \/ HandleSignal(c) \/ GuestExit(c) \/ Panic(c)
  \/ ReaderCheck \/ ReaderContinues \/ ReaderQuits \/ Request(reader)
  \/ SpawnVcpu \/ JoinVcpu
  \/ Exited

Spec == Init /\ [][Next]_vars

\* Every thread runs; nobody has to type, and the guest may sit in KVM_RUN for
\* ever (an idle guest halts in the kernel's irqchip and never exits).
ThreadFairness ==
  /\ \A c \in Cpus : WF_vars(VcpuStep(c))
  /\ WF_vars(ReaderCheck) /\ WF_vars(Request(reader))
  /\ WF_vars(SpawnVcpu) /\ WF_vars(JoinVcpu)

FairSpec == Spec /\ ThreadFairness

\* A busy guest keeps exiting to user space (console, device I/O).
BusyGuests == \A c \in Cpus : WF_vars(ExitHandled(c))

-----------------------------------------------------------------------------
(* Properties.                                                              *)

\* Every variable has its type; a kicking thread's index is within its loop.
TypeOK ==
  /\ flag \in BOOLEAN /\ stale \in BOOLEAN
  /\ kickThreads \in Seq(Cpus)
  /\ holder \in Threads \union {nobody}
  /\ pc \in [Threads -> {"unborn", "spawned", "check", "enter", "guest", "store",
                         "lock", "kick", "done", "panicked", "loop", "poll",
                         "returned"}]
  /\ next \in [Threads -> Nat \ {0}]
  /\ signalled \in [Cpus -> BOOLEAN] /\ missed \in [Cpus -> BOOLEAN]
  /\ result \in [Cpus -> {"running", "ok", "err", "panic"}]
  /\ spawned \in 0..NumCpus /\ joined \in 0..NumCpus
  /\ runError \in Cpus \union {none}

InOrBeforeGuest(c) == pc[c] \in {"enter", "guest"}

\* Once any thread has completed Shutdown::request, a vCPU that is in KVM_RUN or
\* on its way there has a kick pending, or its handler consumed one in the
\* window between its flag check and KVM_RUN.  So the race between registering
\* a thread and kicking the registered ones loses nobody: that window is the
\* only gap of the protocol.
KicksCover ==
  (\E t \in Threads : pc[t] = "done")
    => \A c \in Cpus : InOrBeforeGuest(c) => signalled[c] \/ missed[c]

\* main reports failure exactly when some vCPU thread failed or panicked,
\* whatever the order in which the threads end and are joined.
ErrorsAreReported ==
  joined = NumCpus => (runError = none <=> \A c \in Cpus : result[c] = "ok")

AllJoined == joined = NumCpus

\* With guests that keep exiting to user space, a requested shutdown always
\* completes: every vCPU thread ends and main joins them all.
ShutdownCompletes == BusyGuests => (flag ~> AllJoined)

\* Even with guests that never exit by themselves the shutdown completes,
\* unless a vCPU lost a kick in the window before KVM_RUN.
ShutdownCompletesUnlessMissed ==
  flag ~> (AllJoined \/ \E c \in Cpus : InOrBeforeGuest(c) /\ missed[c])

\* The SAFETY comment in Shutdown::request: the ids that pthread_kill is given
\* are ids of threads that still exist.
KickTargetsValid == ~stale

\* "Ctrl-A x  quit ferrvm": once the reader's request has returned, the VM stops.
QuitStopsVm == pc[reader] = "done" ~> AllJoined
=============================================================================
