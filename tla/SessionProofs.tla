--------------------------- MODULE SessionProofs ----------------------------
(***************************************************************************)
(* Proofs about Session, for any number of signals and of vCPUs.            *)
(***************************************************************************)
EXTENDS Session, SequenceTheorems, TLAPS

\* How a leaf that names no prover is tried.
USE SMT, Zenon, SMTT(30)

\* How many guards main holds when it is about to take step n of Setup.
HeldBefore(n) == IF n <= 4 THEN 1 ELSE IF n <= 6 THEN 2 ELSE IF n <= 8 THEN 3 ELSE 4

\* The guards in the order main's locals are declared.
Guard(k) == CASE k = 1 -> "raw" [] k = 2 -> "vm" [] k = 3 -> "mem" [] k = 4 -> "vcpus"

\* What the proofs need to know of main's steps.
LEMMA SetupSteps ==
  /\ Len(Setup) = 19
  /\ \A n \in 1..19 :
       /\ Setup[n].gives = (IF n = 4 THEN "vm" ELSE IF n = 6 THEN "mem"
                            ELSE IF n = 8 THEN "vcpus" ELSE "-")
       /\ Setup[n].op = "create_vm" <=> n = 3
       /\ Setup[n].op = "open_vm" <=> n = 4
       /\ n = 3 => Setup[n].says = FALSE
<1> DEFINE T == {VmSetup[k] : k \in 1..11} \union {DeviceSetup[k] : k \in 1..8}
<1>1. VmSetup \in Seq(T) /\ Len(VmSetup) = 11
  <2>1. Len(VmSetup) = 11 /\ VmSetup = [k \in 1..11 |-> VmSetup[k]]
    BY DEF VmSetup
  <2>2. VmSetup \in Seq(T)
    BY <2>1, IsASeq
  <2> QED BY <2>1, <2>2
<1>2. DeviceSetup \in Seq(T) /\ Len(DeviceSetup) = 8
  <2>1. Len(DeviceSetup) = 8 /\ DeviceSetup = [k \in 1..8 |-> DeviceSetup[k]]
    BY DEF DeviceSetup
  <2>2. DeviceSetup \in Seq(T)
    BY <2>1, IsASeq
  <2> QED BY <2>1, <2>2
<1>3. /\ Len(Setup) = 19
      /\ \A n \in 1..19 : Setup[n] = IF n <= 11 THEN VmSetup[n] ELSE DeviceSetup[n - 11]
  <2> HIDE DEF T
  <2>1. /\ Len(Setup) = Len(VmSetup) + Len(DeviceSetup)
        /\ \A n \in 1..(Len(VmSetup) + Len(DeviceSetup)) :
             Setup[n] = IF n <= Len(VmSetup) THEN VmSetup[n]
                        ELSE DeviceSetup[n - Len(VmSetup)]
    BY <1>1, <1>2, ConcatProperties, Zenon DEF Setup
  <2> QED BY <1>1, <1>2, <2>1
<1> QED BY <1>3 DEF VmSetup, DeviceSetup, Step

-----------------------------------------------------------------------------
(* The invariant.                                                           *)

\* A signal that will be, or is being, handled.
Armed(s) == s \in handlers \/ hpc[s] # "idle"

RestoreFailed == "restore" \in failures

\* main's guards are a prefix of the four, and while main sets up or the guest
\* runs it is the one its place calls for.
Guards ==
  /\ Len(held) <= 4 /\ \A k \in 1..Len(held) : held[k] = Guard(k)
  /\ main \in {"check", "enter", "save", "install"} => held = <<>>
  /\ main = "setup" => at \in 1..19 /\ Len(held) = HeldBefore(at)
  /\ main = "run" => Len(held) = 4
  /\ main = "report" => Len(held) = 3
  /\ main = "destroy" => Len(held) = 2
  /\ main \in {"drain", "retry", "disarm"} => Len(held) = 1
  /\ (Alive /\ guests > 0) => main = "run"

\* What the handlers can rely on.
Handlers ==
  /\ main \in {"check", "enter"} => termios = "cooked" /\ ~saved /\ ~disarmed
  /\ main = "save" => ~saved
  /\ main = "install" => at \in {1, 2} /\ saved /\ (at = 2 => Armed("SIGTERM"))
  /\ ~saved => handlers = {} /\ \A s \in Signals : hpc[s] = "idle"
  /\ (termios = "raw" /\ main \notin {"save", "install", "gone"}) =>
       saved /\ \A s \in Signals : Armed(s)
  /\ disarmed => termios = "cooked" \/ RestoreFailed
  /\ \A s \in Signals : hpc[s] = "raise" => termios = "cooked" \/ RestoreFailed

\* Who will restore the terminal, when no handler does.
Restorer ==
  (termios = "raw" /\ Alive /\ main \notin {"save", "install", "abort"}) =>
    \/ RestoreFailed
    \/ main # "disarm" /\ active /\ Len(held) >= 1
    \/ main = "drop" /\ panicking /\ ~stdoutOk

\* Who will destroy the VM in the host.
Destroyer ==
  /\ kernelVm = "ours" =>
       native = "bhyve" /\ main \notin {"check", "enter", "save", "install"}
  /\ (Alive /\ kernelVm = "ours") =>
       \/ main = "setup" /\ at = 4
       \/ Len(held) >= 2
       \/ failures \intersect {"open_vm", "destroy"} # {}
       \/ panicking /\ ~stdoutOk

SessionInv ==
  TypeOK /\ Guards /\ Handlers /\ Restorer /\ Destroyer /\ TerminalIsRestored /\ VmIsDestroyed

\* A sequence without its last element keeps the others.
LEMMA AllButLast ==
  ASSUME NEW G, NEW seq \in Seq(G), Len(seq) >= 1
  PROVE  /\ SubSeq(seq, 1, Len(seq) - 1) \in Seq(G)
         /\ Len(SubSeq(seq, 1, Len(seq) - 1)) = Len(seq) - 1
         /\ \A k \in 1..(Len(seq) - 1) : SubSeq(seq, 1, Len(seq) - 1)[k] = seq[k]
<1>1. Len(seq) \in Nat /\ 1 \in 1..(Len(seq) + 1) /\ Len(seq) - 1 \in 0..Len(seq)
  BY LenProperties
<1>2. \A k \in 1..(Len(seq) - 1) : k \in 1..Len(seq) /\ 1 + k - 1 = k
  BY <1>1
<1>3. \A k \in 1..(Len(seq) - 1) : seq[k] \in G
  BY <1>2, ElementOfSeq
<1> DEFINE n == Len(seq) - 1
<1>4. 1 \in Int /\ n \in Int /\ \A k \in 1..n : seq[k] \in G
  BY <1>1, <1>3
<1>5. /\ SubSeq(seq, 1, n) \in Seq(G)
      /\ Len(SubSeq(seq, 1, n)) = IF 1 <= n THEN n - 1 + 1 ELSE 0
      /\ \A k \in 1..(n - 1 + 1) : SubSeq(seq, 1, n)[k] = seq[1 + k - 1]
  <2> HIDE DEF n
  <2> QED BY <1>4, SubSeqProperties
<1>6. /\ (IF 1 <= n THEN n - 1 + 1 ELSE 0) = n
      /\ \A k \in 1..n : k \in 1..(n - 1 + 1) /\ 1 + k - 1 = k
  <2>1. n \in Nat
    BY <1>1
  <2> HIDE DEF n
  <2> QED BY <2>1
<1>7. /\ Len(SubSeq(seq, 1, n)) = n
      /\ \A k \in 1..n : SubSeq(seq, 1, n)[k] = seq[k]
  <2> HIDE DEF n
  <2> QED BY <1>5, <1>6
<1>8. n = Len(seq) - 1
  OBVIOUS
<1> HIDE DEF n
<1> QED BY <1>5, <1>7, <1>8

\* In particular for the guards that are held.
LEMMA OuterGuards ==
  ASSUME held \in Seq({"raw", "vm", "mem", "vcpus"}), Len(held) >= 1
  PROVE  /\ Outer \in Seq({"raw", "vm", "mem", "vcpus"}) /\ Len(Outer) = Len(held) - 1
         /\ \A k \in 1..(Len(held) - 1) : Outer[k] = held[k]
<1> DEFINE G == {"raw", "vm", "mem", "vcpus"}
<1>1. held \in Seq(G)
  OBVIOUS
<1>2. /\ Outer \in Seq(G) /\ Len(Outer) = Len(held) - 1
      /\ \A k \in 1..(Len(held) - 1) : Outer[k] = held[k]
  <2> HIDE DEF G
  <2> QED BY <1>1, AllButLast DEF Outer
<1> QED BY <1>2

\* The list of fatal signals, as far as it is modelled.
LEMMA SignalList ==
  /\ Len(FATAL_SIGNALS) = 2 /\ FATAL_SIGNALS[1] = "SIGTERM" /\ FATAL_SIGNALS[2] = "SIGABRT"
  /\ \A s : s \in Signals <=> s = "SIGTERM" \/ s = "SIGABRT"
BY DEF FATAL_SIGNALS, Signals

\* How many guards main holds one step later.
LEMMA HeldStep ==
  /\ \A k \in 1..19 : HeldBefore(k) \in 1..4 /\ (k \in {4, 6, 8} => HeldBefore(k) \in 1..3)
  /\ \A k \in 1..18 : /\ k + 1 \in 1..19
                      /\ HeldBefore(k + 1) = IF k \in {4, 6, 8} THEN HeldBefore(k) + 1
                                             ELSE HeldBefore(k)
  /\ HeldBefore(1) = 1 /\ HeldBefore(19) = 4
BY DEF HeldBefore

\* The guards of a process that has just entered raw mode.
LEMMA RawOnly ==
  /\ <<"raw">> \in Seq({"raw", "vm", "mem", "vcpus"}) /\ Len(<<"raw">>) = 1
  /\ <<"raw">>[1] = Guard(1) /\ \A k \in 1..1 : <<"raw">>[k] = Guard(k)
BY DEF Guard

\* Nothing has happened when main starts.
LEMMA SessionInitInv == Init => SessionInv
<1> SUFFICES ASSUME Init PROVE SessionInv
  OBVIOUS
<1>1. TypeOK
  <2>1. guests \in 0..NumCpus
    BY SessionAssumption DEF Init
  <2>2. held \in Seq({"raw", "vm", "mem", "vcpus"})
    BY EmptySeq DEF Init
  <2> QED BY <2>1, <2>2, Zenon DEF Init, TypeOK
<1>2. Guards /\ Restorer /\ Destroyer
  BY DEF Init, Guards, Restorer, Destroyer
<1>3. Handlers
  BY DEF Init, Handlers
<1> QED
  BY <1>1, <1>2, <1>3 DEF Init, SessionInv, TerminalIsRestored, VmIsDestroyed, Alive

-----------------------------------------------------------------------------
(* Every step of main, of a handler and of the other threads keeps the      *)
(* invariant: a lemma for each action.                                      *)

\* The test of --cpus touches nothing.
LEMMA CheckArgumentsInv ==
  ASSUME SessionInv, CheckArguments PROVE SessionInv'
<1> USE DEF terminal, signals, locals, threads, Alive, RestoreFailed
<1>0. /\ TypeOK /\ Guards /\ Handlers /\ Restorer /\ Destroyer
      /\ TerminalIsRestored /\ VmIsDestroyed
  BY DEF SessionInv
<1>1. TypeOK'
  BY <1>0 DEF CheckArguments, Dies, MainRuns, TypeOK
<1>2. Guards' /\ Destroyer' /\ VmIsDestroyed'
  BY <1>0 DEF CheckArguments, Dies, MainRuns, TypeOK, Guards, HeldBefore, Guard,
              Destroyer, VmIsDestroyed
<1>3. Handlers'
  BY <1>0 DEF CheckArguments, Dies, MainRuns, TypeOK, Handlers, Armed
<1>4. Restorer' /\ TerminalIsRestored'
  BY <1>0 DEF CheckArguments, Dies, MainRuns, TypeOK, Guards, Restorer, Handlers, Armed,
              TerminalIsRestored
<1> QED BY <1>1, <1>2, <1>3, <1>4 DEF SessionInv

\* RawMode::enter either leaves the terminal alone or has just made it raw.
LEMMA EnterRawInv ==
  ASSUME SessionInv, EnterRaw PROVE SessionInv'
<1> USE DEF terminal, signals, locals, threads, Alive, RestoreFailed
<1>0. /\ TypeOK /\ Guards /\ Handlers /\ Restorer /\ Destroyer
      /\ TerminalIsRestored /\ VmIsDestroyed
  BY DEF SessionInv
<1>z. /\ main = "enter" /\ UNCHANGED <<active, saved, handlers, disarmed, hpc, panicking,
                                       kernelVm, failures, native, stdoutOk, guests>>
      /\ \/ main' = "setup" /\ at' = 1 /\ held' = <<"raw">> /\ UNCHANGED termios
         \/ main' = "gone" /\ UNCHANGED <<at, held, termios>>
         \/ main' = "save" /\ termios' = "raw" /\ UNCHANGED <<at, held>>
  BY DEF EnterRaw, Dies
<1>a. /\ UNCHANGED <<active, saved, handlers, disarmed, hpc, panicking, kernelVm, failures,
                     native, stdoutOk, guests>>
      /\ \/ main' = "setup" /\ at' = 1 /\ UNCHANGED termios
            /\ held' \in Seq({"raw", "vm", "mem", "vcpus"}) /\ Len(held') = 1
            /\ held'[1] = Guard(1)
         \/ main' = "gone" /\ UNCHANGED <<at, held, termios>>
         \/ main' = "save" /\ termios' = "raw" /\ UNCHANGED <<at, held>>
  BY <1>z, RawOnly, ZenonT(40)
<1>1. TypeOK'
  BY <1>0, <1>z, <1>a DEF TypeOK
<1>2. Guards'
  <2>1. CASE main' = "setup"
    <3>1. Len(held') = 1 /\ \A k \in 1..1 : held'[k] = Guard(k)
      BY <1>z, <1>a, <2>1
    <3>2. at' = 1 /\ HeldBefore(1) = 1
      BY <1>z, <1>a, <2>1, HeldStep
    <3> QED BY <1>0, <1>z, <1>a, <2>1, <3>1, <3>2 DEF Guards
  <2>2. CASE main' # "setup"
    BY <1>0, <1>z, <1>a, <2>2 DEF Guards
  <2> QED BY <2>1, <2>2
<1>3. Destroyer' /\ VmIsDestroyed'
  BY <1>0 DEF EnterRaw, Dies, MainRuns, TypeOK, Guards, Destroyer, VmIsDestroyed
<1>4. Handlers'
  BY <1>0, <1>z, <1>a DEF TypeOK, Handlers, Armed
<1>5. Restorer' /\ TerminalIsRestored'
  BY <1>0 DEF EnterRaw, Dies, MainRuns, TypeOK, Guards, Restorer, Handlers, Armed,
              TerminalIsRestored
<1> QED BY <1>1, <1>2, <1>3, <1>4, <1>5 DEF SessionInv

\* enter_on saves the attributes before any handler can need them.
LEMMA SaveTermiosInv ==
  ASSUME SessionInv, SaveTermios PROVE SessionInv'
<1> USE DEF terminal, signals, locals, threads, Alive, RestoreFailed
<1>0. /\ TypeOK /\ Guards /\ Handlers /\ Restorer /\ Destroyer
      /\ TerminalIsRestored /\ VmIsDestroyed
  BY DEF SessionInv
<1>1. TypeOK'
  BY <1>0 DEF SaveTermios, MainRuns, TypeOK
<1>2. Guards' /\ Destroyer' /\ VmIsDestroyed'
  BY <1>0 DEF SaveTermios, MainRuns, TypeOK, Guards, HeldBefore, Guard, Destroyer,
              VmIsDestroyed
<1>3. Handlers'
  BY <1>0 DEF SaveTermios, MainRuns, TypeOK, Handlers, Armed
<1>4. Restorer' /\ TerminalIsRestored'
  BY <1>0 DEF SaveTermios, MainRuns, TypeOK, Guards, Restorer, Handlers, Armed,
              TerminalIsRestored
<1> QED BY <1>1, <1>2, <1>3, <1>4 DEF SessionInv

\* enter_on arms one signal after the other, and only the last makes the guard.
LEMMA InstallOneInv ==
  ASSUME SessionInv, InstallOne PROVE SessionInv'
<1> USE DEF terminal, signals, locals, threads, Alive, RestoreFailed
<1>0. /\ TypeOK /\ Guards /\ Handlers /\ Restorer /\ Destroyer
      /\ TerminalIsRestored /\ VmIsDestroyed
  BY DEF SessionInv
<1>a. /\ main = "install" /\ handlers' = handlers \union {FATAL_SIGNALS[at]}
      /\ UNCHANGED <<termios, saved, disarmed, hpc, panicking, kernelVm, failures, native,
                     stdoutOk, guests>>
      /\ IF at = 2 THEN active' = TRUE /\ held' = <<"raw">> /\ main' = "setup" /\ at' = 1
         ELSE at' = at + 1 /\ UNCHANGED <<active, held, main>>
  BY SignalList DEF InstallOne
<1>b. at \in {1, 2} /\ FATAL_SIGNALS[at] \in Signals
  BY <1>0, <1>a, SignalList DEF Handlers
<1>c. at = 2 => /\ held' \in Seq({"raw", "vm", "mem", "vcpus"}) /\ Len(held') = 1
                /\ held'[1] = Guard(1)
  BY <1>a, RawOnly, Zenon
<1>1. TypeOK'
  <2>1. held' \in Seq({"raw", "vm", "mem", "vcpus"}) /\ at' \in Nat
    BY <1>0, <1>a, <1>b, <1>c DEF TypeOK
  <2>2. /\ active' \in BOOLEAN /\ main' \in {"install", "setup"} /\ handlers' \subseteq Signals
        /\ UNCHANGED <<termios, saved, disarmed, hpc, panicking, kernelVm, failures, native,
                       stdoutOk, guests>>
    BY <1>0, <1>a, <1>b, Zenon DEF TypeOK
  <2> QED BY <1>0, <2>1, <2>2 DEF TypeOK
<1>2. Guards'
  <2>1. CASE at = 2
    <3>1. Len(held') = 1 /\ \A k \in 1..1 : held'[k] = Guard(k)
      BY <1>c, <2>1
    <3>2. at' = 1 /\ main' = "setup" /\ HeldBefore(1) = 1
      BY <1>a, <2>1, HeldStep
    <3> QED BY <1>0, <1>a, <3>1, <3>2 DEF Guards
  <2>2. CASE at # 2
    BY <1>0, <1>a, <2>2 DEF Guards
  <2> QED BY <2>1, <2>2
<1>3. Destroyer' /\ VmIsDestroyed'
  BY <1>0 DEF InstallOne, FATAL_SIGNALS, MainRuns, TypeOK, Guards, Destroyer,
              VmIsDestroyed
<1>4. Handlers'
  <2>1. CASE at = 1
    BY <1>0, <1>a, <2>1, SignalList DEF TypeOK, Handlers, Armed
  <2>2. CASE at = 2
    <3>1. \A s \in Signals : s \in handlers' \/ hpc'[s] # "idle"
      BY <1>0, <1>a, <2>2, SignalList DEF TypeOK, Handlers, Armed
    <3> QED BY <1>0, <1>a, <2>2, <3>1 DEF TypeOK, Handlers, Armed
  <2> QED BY <1>b, <2>1, <2>2
<1>5. Restorer'
  <2>1. CASE at = 2
    <3>1. active' = TRUE /\ main' = "setup"
      BY <1>a, <2>1, Zenon
    <3>2. Len(held') >= 1
      BY <1>c, <2>1
    <3> QED BY <3>1, <3>2, Zenon DEF Restorer
  <2>2. CASE at # 2
    BY <1>a, <2>2 DEF Restorer
  <2> QED BY <2>1, <2>2
<1>6. TerminalIsRestored'
  BY <1>0 DEF InstallOne, FATAL_SIGNALS, MainRuns, TypeOK, Handlers, Armed, Restorer,
              TerminalIsRestored
<1> QED BY <1>1, <1>2, <1>3, <1>4, <1>5, <1>6 DEF SessionInv

\* RawMode::restore's first tcsetattr.
LEMMA DrainInv ==
  ASSUME SessionInv, Drain PROVE SessionInv'
<1> USE DEF terminal, signals, locals, threads, Alive, RestoreFailed
<1>0. /\ TypeOK /\ Guards /\ Handlers /\ Restorer /\ Destroyer
      /\ TerminalIsRestored /\ VmIsDestroyed
  BY DEF SessionInv
<1>1. TypeOK'
  BY <1>0 DEF Drain, RestoreStep, MainRuns, TypeOK
<1>2. Guards' /\ Destroyer' /\ VmIsDestroyed'
  BY <1>0 DEF Drain, RestoreStep, MainRuns, TypeOK, Guards, HeldBefore, Guard,
              Destroyer, VmIsDestroyed
<1>3. Handlers'
  BY <1>0 DEF Drain, RestoreStep, MainRuns, TypeOK, Handlers, Armed
<1>4. Restorer' /\ TerminalIsRestored'
  BY <1>0 DEF Drain, RestoreStep, MainRuns, TypeOK, Guards, Restorer, Handlers, Armed,
              TerminalIsRestored
<1> QED BY <1>1, <1>2, <1>3, <1>4 DEF SessionInv

\* RawMode::restore's second tcsetattr.
LEMMA RetryInv ==
  ASSUME SessionInv, Retry PROVE SessionInv'
<1> USE DEF terminal, signals, locals, threads, Alive, RestoreFailed
<1>0. /\ TypeOK /\ Guards /\ Handlers /\ Restorer /\ Destroyer
      /\ TerminalIsRestored /\ VmIsDestroyed
  BY DEF SessionInv
<1>1. TypeOK'
  BY <1>0 DEF Retry, RestoreStep, MainRuns, TypeOK
<1>2. Guards' /\ Destroyer' /\ VmIsDestroyed'
  BY <1>0 DEF Retry, RestoreStep, MainRuns, TypeOK, Guards, HeldBefore, Guard,
              Destroyer, VmIsDestroyed
<1>3. Handlers'
  BY <1>0 DEF Retry, RestoreStep, MainRuns, TypeOK, Handlers, Armed
<1>4. Restorer' /\ TerminalIsRestored'
  BY <1>0 DEF Retry, RestoreStep, MainRuns, TypeOK, Guards, Restorer, Handlers, Armed,
              TerminalIsRestored
<1> QED BY <1>1, <1>2, <1>3, <1>4 DEF SessionInv

\* RawMode::restore disarms the handlers only when the terminal is back or was given up.
LEMMA DisarmInv ==
  ASSUME SessionInv, Disarm PROVE SessionInv'
<1> USE DEF terminal, signals, locals, threads, Alive, RestoreFailed
<1>0. /\ TypeOK /\ Guards /\ Handlers /\ Restorer /\ Destroyer
      /\ TerminalIsRestored /\ VmIsDestroyed
  BY DEF SessionInv
<1>a. /\ main = "disarm" /\ main' = "drop" /\ active' = FALSE /\ disarmed' = TRUE
      /\ held' = Outer
      /\ UNCHANGED <<at, termios, saved, handlers, hpc, panicking, kernelVm, failures, native,
                     stdoutOk, guests>>
  BY DEF Disarm
<1>b. /\ Len(held) = 1 /\ Len(held') = 0
      /\ held' \in Seq({"raw", "vm", "mem", "vcpus"})
  <2>1. Len(held) = 1 /\ held \in Seq({"raw", "vm", "mem", "vcpus"})
    BY <1>0, <1>a DEF TypeOK, Guards
  <2>2. Len(held) >= 1 /\ Len(held) - 1 = 0
    BY <2>1
  <2> QED BY <1>a, <2>1, <2>2, OuterGuards
<1>1. TypeOK'
  BY <1>0, <1>a, <1>b, Zenon DEF TypeOK
<1>2. Guards'
  BY <1>0, <1>a, <1>b DEF Guards
<1>3. Destroyer' /\ VmIsDestroyed'
  BY <1>0 DEF Disarm, Outer, MainRuns, TypeOK, Guards, Destroyer, VmIsDestroyed
<1>4. Handlers'
  BY <1>0, <1>a DEF TypeOK, Handlers, Armed, Restorer
<1>5. Restorer' /\ TerminalIsRestored'
  BY <1>0 DEF Disarm, Outer, MainRuns, TypeOK, Guards, Restorer, Handlers, Armed,
              TerminalIsRestored
<1> QED BY <1>1, <1>2, <1>3, <1>4, <1>5 DEF SessionInv

\* A signal from outside starts the handler or kills the process.
LEMMA DeliverInv ==
  ASSUME SessionInv, NEW s \in Signals, Deliver(s) PROVE SessionInv'
<1> USE DEF terminal, signals, locals, threads, Alive, RestoreFailed
<1>0. /\ TypeOK /\ Guards /\ Handlers /\ Restorer /\ Destroyer
      /\ TerminalIsRestored /\ VmIsDestroyed
  BY DEF SessionInv
<1>1. TypeOK'
  BY <1>0 DEF Deliver, Take, Dies, MainRuns, TypeOK
<1>2. Guards' /\ Destroyer' /\ VmIsDestroyed'
  BY <1>0 DEF Deliver, Take, Dies, MainRuns, TypeOK, Guards, HeldBefore, Guard,
              Destroyer, VmIsDestroyed
<1>3. Handlers'
  <2>1. CASE s \in handlers
    <3>1. /\ handlers' = handlers \ {s} /\ hpc' = [hpc EXCEPT ![s] = "check"]
          /\ UNCHANGED <<main, at, termios, saved, disarmed, failures>>
      BY <2>1 DEF Deliver, Take
    <3>2. \A r \in Signals : /\ Armed(r) => Armed(r)'
                             /\ hpc'[r] = "raise" => hpc[r] = "raise"
      BY <1>0, <3>1 DEF Armed, TypeOK
    <3>3. saved
      BY <1>0, <2>1 DEF Handlers
    <3>4. "SIGTERM" \in Signals
      BY SignalList
    <3> QED BY <1>0, <3>1, <3>2, <3>3, <3>4 DEF Handlers
  <2>2. CASE s \notin handlers
    BY <1>0, <2>2 DEF Deliver, Take, Dies, TypeOK, Handlers, Armed
  <2> QED BY <2>1, <2>2
<1>4. Restorer' /\ TerminalIsRestored'
  BY <1>0 DEF Deliver, Take, Dies, MainRuns, TypeOK, Guards, Restorer, Handlers, Armed,
              TerminalIsRestored
<1> QED BY <1>1, <1>2, <1>3, <1>4 DEF SessionInv

\* abort raises SIGABRT, which is handled unless its handler already ran.
LEMMA AbortInv ==
  ASSUME SessionInv, Abort PROVE SessionInv'
<1> USE DEF terminal, signals, locals, threads, Alive, RestoreFailed
<1>0. /\ TypeOK /\ Guards /\ Handlers /\ Restorer /\ Destroyer
      /\ TerminalIsRestored /\ VmIsDestroyed
  BY DEF SessionInv
<1>1. TypeOK'
  BY <1>0, ZenonT(40) DEF Abort, Take, Dies, Signals, MainRuns, TypeOK
<1>2. Guards' /\ Destroyer' /\ VmIsDestroyed'
  BY <1>0 DEF Abort, Take, Dies, Signals, MainRuns, TypeOK, Guards, HeldBefore, Guard,
              Destroyer, VmIsDestroyed
<1>3. Handlers'
  BY <1>0, ZenonT(40) DEF Abort, Take, Dies, Signals, MainRuns, TypeOK, Handlers, Armed
<1>4. TerminalIsRestored'
  <2>1. "SIGABRT" \in Signals
    BY SignalList
  <2>2. CASE "SIGABRT" \in handlers
    <3>1. Alive'
      BY <2>2 DEF Abort, Take
    <3> QED BY <3>1 DEF TerminalIsRestored
  <2>3. CASE "SIGABRT" \notin handlers
    <3>1. /\ death'.how = "signal" /\ death'.again = (hpc["SIGABRT"] # "idle")
          /\ termios' = termios /\ main = "abort"
      BY <2>3 DEF Abort, Take, Dies
    <3>2. termios = "raw" => hpc["SIGABRT"] # "idle"
      BY <1>0, <2>1, <2>3, <3>1 DEF Handlers, Armed
    <3> QED BY <3>1, <3>2, Zenon DEF TerminalIsRestored
  <2> QED BY <2>2, <2>3
<1>5. Restorer'
  BY <1>0 DEF Abort, Take, Dies, Signals, MainRuns, TypeOK, Guards, Restorer
<1> QED BY <1>1, <1>2, <1>3, <1>4, <1>5 DEF SessionInv

\* The handler looks at the saved attributes.
LEMMA HandlerCheckInv ==
  ASSUME SessionInv, NEW s \in Signals, HandlerCheck(s) PROVE SessionInv'
<1> USE DEF terminal, signals, locals, threads, Alive, RestoreFailed
<1>0. /\ TypeOK /\ Guards /\ Handlers /\ Restorer /\ Destroyer
      /\ TerminalIsRestored /\ VmIsDestroyed
  BY DEF SessionInv
<1>1. TypeOK'
  BY <1>0 DEF HandlerCheck, MainRuns, TypeOK
<1>2. Guards' /\ Destroyer' /\ VmIsDestroyed'
  BY <1>0 DEF HandlerCheck, MainRuns, TypeOK, Guards, HeldBefore, Guard, Destroyer,
              VmIsDestroyed
<1>3. Handlers'
  BY <1>0 DEF HandlerCheck, MainRuns, TypeOK, Handlers, Armed
<1>4. Restorer' /\ TerminalIsRestored'
  BY <1>0 DEF HandlerCheck, MainRuns, TypeOK, Guards, Restorer, Handlers, Armed,
              TerminalIsRestored
<1> QED BY <1>1, <1>2, <1>3, <1>4 DEF SessionInv

\* The handler restores the terminal before it raises the signal again.
LEMMA HandlerRestoreInv ==
  ASSUME SessionInv, NEW s \in Signals, HandlerRestore(s) PROVE SessionInv'
<1> USE DEF terminal, signals, locals, threads, Alive, RestoreFailed
<1>0. /\ TypeOK /\ Guards /\ Handlers /\ Restorer /\ Destroyer
      /\ TerminalIsRestored /\ VmIsDestroyed
  BY DEF SessionInv
<1>1. TypeOK'
  BY <1>0 DEF HandlerRestore, MainRuns, TypeOK
<1>2. Guards' /\ Destroyer' /\ VmIsDestroyed'
  BY <1>0 DEF HandlerRestore, MainRuns, TypeOK, Guards, HeldBefore, Guard, Destroyer,
              VmIsDestroyed
<1>3. Handlers'
  BY <1>0 DEF HandlerRestore, MainRuns, TypeOK, Handlers, Armed
<1>4. Restorer' /\ TerminalIsRestored'
  BY <1>0 DEF HandlerRestore, MainRuns, TypeOK, Guards, Restorer, Handlers, Armed,
              TerminalIsRestored
<1> QED BY <1>1, <1>2, <1>3, <1>4 DEF SessionInv

\* The signal raised again kills the process.
LEMMA HandlerRaiseInv ==
  ASSUME SessionInv, NEW s \in Signals, HandlerRaise(s) PROVE SessionInv'
<1> USE DEF terminal, signals, locals, threads, Alive, RestoreFailed
<1>0. /\ TypeOK /\ Guards /\ Handlers /\ Restorer /\ Destroyer
      /\ TerminalIsRestored /\ VmIsDestroyed
  BY DEF SessionInv
<1>1. TypeOK'
  BY <1>0 DEF HandlerRaise, Dies, MainRuns, TypeOK
<1>2. Guards' /\ Destroyer' /\ VmIsDestroyed'
  BY <1>0 DEF HandlerRaise, Dies, MainRuns, TypeOK, Guards, HeldBefore, Guard,
              Destroyer, VmIsDestroyed
<1>3. Handlers'
  BY <1>0 DEF HandlerRaise, Dies, MainRuns, TypeOK, Handlers, Armed
<1>4. Restorer' /\ TerminalIsRestored'
  BY <1>0 DEF HandlerRaise, Dies, MainRuns, TypeOK, Guards, Restorer, Handlers, Armed,
              TerminalIsRestored
<1> QED BY <1>1, <1>2, <1>3, <1>4 DEF SessionInv

\* A step of main that succeeds adds the guard of its place, and no other.
LEMMA StepOkInv ==
  ASSUME SessionInv, StepOk PROVE SessionInv'
<1> USE DEF terminal, signals, locals, threads, Alive, RestoreFailed
<1>0. /\ TypeOK /\ Guards /\ Handlers /\ Restorer /\ Destroyer
      /\ TerminalIsRestored /\ VmIsDestroyed
  BY DEF SessionInv
<1>a. /\ main = "setup" /\ at \in 1..19 /\ Len(held) = HeldBefore(at)
      /\ held \in Seq({"raw", "vm", "mem", "vcpus"})
  BY <1>0 DEF StepOk, Guards, TypeOK
<1>b. /\ held' = IF Setup[at].gives = "-" THEN held ELSE Append(held, Setup[at].gives)
      /\ kernelVm' = IF Setup[at].op = "create_vm" /\ native = "bhyve" THEN "ours" ELSE kernelVm
      /\ UNCHANGED <<termios, active, saved, handlers, disarmed, hpc, failures, native,
                     stdoutOk>>
      /\ \/ main' = "drop" /\ panicking' = TRUE /\ UNCHANGED <<at, guests>>
            /\ ~stdoutOk /\ Prints(Setup[at])
         \/ main' = "abort" /\ panicking' = TRUE /\ UNCHANGED <<at, guests>>
            /\ ~stdoutOk /\ Prints(Setup[at])
         \/ at = 19 /\ main' = "run" /\ guests' = NumCpus /\ UNCHANGED <<at, panicking>>
         \/ at # 19 /\ at' = at + 1 /\ UNCHANGED <<main, guests, panicking>>
  BY SetupSteps DEF StepOk, Effects, Panics
<1>c. /\ held' \in Seq({"raw", "vm", "mem", "vcpus"})
      /\ Len(held') = IF at \in {4, 6, 8} THEN Len(held) + 1 ELSE Len(held)
      /\ \A k \in 1..Len(held') : held'[k] = Guard(k)
  <2>1. CASE at \in {4, 6, 8}
    <3>a. /\ Setup[at].gives = IF at = 4 THEN "vm" ELSE IF at = 6 THEN "mem" ELSE "vcpus"
          /\ Setup[at].gives # "-"
      BY <1>a, <2>1, SetupSteps
    <3>b. held' = Append(held, Setup[at].gives)
      BY <1>b, <3>a, Zenon
    <3>c. Setup[at].gives = Guard(Len(held) + 1)
      BY <1>a, <2>1, <3>a DEF HeldBefore, Guard
    <3>d. Setup[at].gives \in {"raw", "vm", "mem", "vcpus"}
      BY <3>a, Zenon
    <3>1. held' = Append(held, Setup[at].gives) /\ Setup[at].gives = Guard(Len(held) + 1)
          /\ Setup[at].gives \in {"raw", "vm", "mem", "vcpus"}
      BY <3>b, <3>c, <3>d
    <3>2. /\ held' \in Seq({"raw", "vm", "mem", "vcpus"}) /\ Len(held') = Len(held) + 1
          /\ \A k \in 1..Len(held) : held'[k] = held[k]
          /\ held'[Len(held) + 1] = Guard(Len(held) + 1)
      BY <1>a, <3>1, AppendProperties
    <3>3. Len(held) \in Nat /\ \A k \in 1..Len(held) : held[k] = Guard(k)
      BY <1>0, <1>a, LenProperties DEF Guards
    <3>4. ASSUME NEW k \in 1..Len(held') PROVE held'[k] = Guard(k)
      BY <3>2, <3>3
    <3> QED BY <2>1, <3>2, <3>4
  <2>2. CASE at \notin {4, 6, 8}
    <3>1. held' = held
      BY <1>a, <1>b, <2>2, SetupSteps, Zenon
    <3> QED BY <1>0, <1>a, <2>2, <3>1 DEF Guards
  <2> QED BY <2>1, <2>2
<1>1. TypeOK'
  <2>1. NumCpus \in 0..NumCpus
    BY SessionAssumption
  <2>2. at' \in Nat
    BY <1>a, <1>b
  <2> QED BY <1>0, <1>b, <1>c, <2>1, <2>2, ZenonT(40) DEF TypeOK
<1>2. Guards'
  <2>1. Len(held') <= 4
    <3>1. Len(held) \in 1..4 /\ (at \in {4, 6, 8} => Len(held) \in 1..3)
      BY <1>a, HeldStep, Zenon
    <3>2. CASE at \in {4, 6, 8}
      <4>1. Len(held') = Len(held) + 1
        BY <1>c, <3>2
      <4>2. PICK n \in 1..3 : n = Len(held)
        BY <3>1, <3>2
      <4>3. n + 1 <= 4
        OBVIOUS
      <4> QED BY <4>1, <4>2, <4>3, Zenon
    <3>3. CASE at \notin {4, 6, 8}
      BY <1>c, <3>1, <3>3
    <3> QED BY <3>2, <3>3
  <2>2. (main' = "setup" => at' \in 1..19 /\ Len(held') = HeldBefore(at'))
        /\ (main' = "run" => Len(held') = 4)
    <3>1. CASE at' = at + 1 /\ at # 19 /\ main' = "setup"
      <4>1. at \in 1..18
        BY <1>a, <3>1
      <4>2. at' \in 1..19 /\ HeldBefore(at') = IF at \in {4, 6, 8} THEN HeldBefore(at) + 1
                                               ELSE HeldBefore(at)
        BY <3>1, <4>1, HeldStep
      <4> QED BY <1>a, <1>c, <3>1, <4>2
    <3>2. CASE at = 19 /\ main' = "run"
      <4>1. Len(held') = Len(held) /\ Len(held) = 4
        BY <1>a, <1>c, <3>2, HeldStep
      <4> QED BY <3>2, <4>1
    <3>3. CASE main' \in {"drop", "abort"}
      BY <3>3
    <3> QED BY <1>a, <1>b, <3>1, <3>2, <3>3
  <2>3. (Alive' /\ guests' > 0) => main' = "run"
    BY <1>0, <1>a, <1>b DEF Guards
  <2> QED BY <1>a, <1>b, <1>c, <2>1, <2>2, <2>3 DEF Guards
<1>3. Destroyer'
  <2>1. Len(held') >= Len(held) /\ Len(held) \in Nat
    BY <1>a, <1>c DEF HeldBefore
  <2>2. CASE at = 3 /\ native = "bhyve"
    <3>1. ~Prints(Setup[at])
      BY <2>2, SetupSteps DEF Prints
    <3>2. main' = "setup" /\ at' = 4
      BY <1>a, <1>b, <2>2, <3>1
    <3> QED BY <1>0, <1>a, <1>b, <2>2, <3>2 DEF Destroyer, TypeOK
  <2>5. CASE at = 3 /\ native # "bhyve"
    BY <1>0, <1>b, <2>5 DEF Destroyer
  <2>3. CASE at = 4
    <3>1. Len(held') = 2
      BY <1>a, <1>c, <2>3 DEF HeldBefore
    <3>2. Setup[at].op # "create_vm"
      BY <2>3, SetupSteps
    <3> QED BY <1>0, <1>a, <1>b, <3>1, <3>2 DEF Destroyer, TypeOK
  <2>4. CASE at \notin {3, 4}
    <3>1. kernelVm' = kernelVm
      BY <1>0, <1>a, <1>b, <2>4, SetupSteps, ZenonT(40) DEF TypeOK
    <3>2. kernelVm = "ours" => \/ Len(held') >= 2
                               \/ failures \intersect {"open_vm", "destroy"} # {}
                               \/ panicking /\ ~stdoutOk
      BY <1>0, <1>a, <2>1, <2>4, <1>c DEF Destroyer
    <3> QED BY <1>0, <1>a, <1>b, <3>1, <3>2 DEF Destroyer
  <2> QED BY <2>2, <2>3, <2>4, <2>5
<1>4. VmIsDestroyed'
  BY <1>0 DEF StepOk, Effects, Prints, Panics, MainRuns, TypeOK, Destroyer, VmIsDestroyed
<1>5. Handlers'
  BY <1>0 DEF StepOk, Effects, Prints, Panics, MainRuns, TypeOK, Handlers, Armed
<1>6. Restorer' /\ TerminalIsRestored'
  BY <1>0 DEF StepOk, Effects, Prints, Panics, MainRuns, TypeOK, Guards, Restorer, Handlers,
              Armed, TerminalIsRestored
<1> QED BY <1>1, <1>2, <1>3, <1>4, <1>5, <1>6 DEF SessionInv

\* A step of main that fails starts the drops.
LEMMA StepFailsInv ==
  ASSUME SessionInv, StepFails PROVE SessionInv'
<1> USE DEF terminal, signals, locals, threads, Alive, RestoreFailed
<1>0. /\ TypeOK /\ Guards /\ Handlers /\ Restorer /\ Destroyer
      /\ TerminalIsRestored /\ VmIsDestroyed
  BY DEF SessionInv
<1>a. /\ main = "setup" /\ main' \in {"drop", "abort"} /\ at \in 1..19
      /\ failures' = failures \union ({Setup[at].op} \intersect {"open_vm"})
      /\ kernelVm' = kernelVm \/ (kernelVm = "stale" /\ kernelVm' = "none")
      /\ panicking => panicking'
      /\ UNCHANGED <<at, held, native, stdoutOk, guests>>
  BY <1>0 DEF StepFails, Leaves, Panics, Guards
<1>1. TypeOK'
  <2>1. kernelVm' \in {"none", "stale", "ours"}
    BY <1>0, <1>a DEF TypeOK
  <2> QED BY <1>0, <2>1, Zenon DEF StepFails, Panics, TypeOK
<1>2. Destroyer'
  <2>1. CASE at = 4
    <3>1. "open_vm" \in failures'
      BY <1>a, <2>1, SetupSteps, Zenon
    <3> QED BY <1>0, <1>a, <3>1 DEF Destroyer
  <2>2. CASE at # 4
    <3>1. failures \subseteq failures'
      BY <1>a
    <3> QED BY <1>0, <1>a, <2>2, <3>1 DEF Destroyer
  <2> QED BY <2>1, <2>2
<1>3. Guards' /\ VmIsDestroyed'
  BY <1>0 DEF StepFails, Panics, MainRuns, TypeOK, Guards, HeldBefore, Guard, Destroyer,
              VmIsDestroyed
<1>4. Handlers'
  BY <1>0 DEF StepFails, Panics, MainRuns, TypeOK, Handlers, Armed
<1>5. Restorer' /\ TerminalIsRestored'
  BY <1>0 DEF StepFails, Panics, MainRuns, TypeOK, Guards, Restorer, Handlers, Armed,
              TerminalIsRestored
<1> QED BY <1>1, <1>2, <1>3, <1>4, <1>5 DEF SessionInv

\* A vCPU thread returns.
LEMMA VcpuEndsInv ==
  ASSUME SessionInv, VcpuEnds PROVE SessionInv'
<1> USE DEF terminal, signals, locals, threads, Alive, RestoreFailed
<1>0. /\ TypeOK /\ Guards /\ Handlers /\ Restorer /\ Destroyer
      /\ TerminalIsRestored /\ VmIsDestroyed
  BY DEF SessionInv
<1>1. TypeOK'
  <2>1. guests' \in 0..NumCpus
    BY <1>0, SessionAssumption DEF VcpuEnds, TypeOK
  <2> QED BY <1>0, <2>1 DEF VcpuEnds, TypeOK
<1>2. Guards' /\ Destroyer' /\ VmIsDestroyed'
  BY <1>0 DEF VcpuEnds, MainRuns, TypeOK, Guards, HeldBefore, Guard, Destroyer,
              VmIsDestroyed
<1>3. Handlers'
  BY <1>0 DEF VcpuEnds, MainRuns, TypeOK, Handlers, Armed
<1>4. Restorer' /\ TerminalIsRestored'
  BY <1>0 DEF VcpuEnds, MainRuns, TypeOK, Guards, Restorer, Handlers, Armed,
              TerminalIsRestored
<1> QED BY <1>1, <1>2, <1>3, <1>4 DEF SessionInv

\* thread::scope returns with the vCPU threads joined.
LEMMA ScopeEndsInv ==
  ASSUME SessionInv, ScopeEnds PROVE SessionInv'
<1> USE DEF terminal, signals, locals, threads, Alive, RestoreFailed
<1>0. /\ TypeOK /\ Guards /\ Handlers /\ Restorer /\ Destroyer
      /\ TerminalIsRestored /\ VmIsDestroyed
  BY DEF SessionInv
<1>a. /\ main = "run" /\ main' = "report" /\ held' = Outer /\ guests = 0
      /\ UNCHANGED <<at, termios, active, saved, handlers, disarmed, hpc, panicking, kernelVm,
                     failures, native, stdoutOk, guests>>
  BY DEF ScopeEnds
<1>b. /\ Len(held) = 4 /\ Len(held') = 3 /\ \A k \in 1..3 : held'[k] = held[k]
      /\ held' \in Seq({"raw", "vm", "mem", "vcpus"})
  <2>1. Len(held) = 4 /\ held \in Seq({"raw", "vm", "mem", "vcpus"})
    BY <1>0, <1>a DEF TypeOK, Guards
  <2>2. Len(held) >= 1 /\ Len(held) - 1 = 3
    BY <2>1
  <2> QED BY <1>a, <2>1, <2>2, OuterGuards
<1>1. TypeOK'
  BY <1>0, <1>a, <1>b DEF TypeOK
<1>2. Guards'
  BY <1>0, <1>a, <1>b DEF Guards
<1>3. Destroyer'
  BY <1>0, <1>a, <1>b DEF Destroyer
<1>4. VmIsDestroyed'
  BY <1>0 DEF ScopeEnds, Outer, MainRuns, TypeOK, Destroyer, VmIsDestroyed
<1>5. Handlers'
  BY <1>0 DEF ScopeEnds, Outer, MainRuns, TypeOK, Handlers, Armed
<1>6. Restorer'
  BY <1>0, <1>a, <1>b DEF Restorer
<1>7. TerminalIsRestored'
  BY <1>0 DEF ScopeEnds, Outer, MainRuns, TypeOK, Handlers, Armed, Restorer,
              TerminalIsRestored
<1> QED BY <1>1, <1>2, <1>3, <1>4, <1>5, <1>6, <1>7 DEF SessionInv

\* main prints the result.
LEMMA ReportInv ==
  ASSUME SessionInv, Report PROVE SessionInv'
<1> USE DEF terminal, signals, locals, threads, Alive, RestoreFailed
<1>0. /\ TypeOK /\ Guards /\ Handlers /\ Restorer /\ Destroyer
      /\ TerminalIsRestored /\ VmIsDestroyed
  BY DEF SessionInv
<1>1. TypeOK'
  BY <1>0, ZenonT(40) DEF Report, Panics, MainRuns, TypeOK
<1>2. Guards' /\ Destroyer' /\ VmIsDestroyed'
  BY <1>0 DEF Report, Panics, MainRuns, TypeOK, Guards, HeldBefore, Guard, Destroyer,
              VmIsDestroyed
<1>3. Handlers'
  BY <1>0 DEF Report, Panics, MainRuns, TypeOK, Handlers, Armed
<1>4. Restorer' /\ TerminalIsRestored'
  BY <1>0 DEF Report, Panics, MainRuns, TypeOK, Guards, Restorer, Handlers, Armed,
              TerminalIsRestored
<1> QED BY <1>1, <1>2, <1>3, <1>4 DEF SessionInv

\* A drop takes the innermost guard; only the drop of the VM destroys it.
LEMMA DropLocalInv ==
  ASSUME SessionInv, DropLocal PROVE SessionInv'
<1> USE DEF terminal, signals, locals, threads, Alive, RestoreFailed
<1>0. /\ TypeOK /\ Guards /\ Handlers /\ Restorer /\ Destroyer
      /\ TerminalIsRestored /\ VmIsDestroyed
  BY DEF SessionInv
<1>a. /\ main = "drop" /\ held # <<>>
      /\ UNCHANGED <<at, termios, active, saved, handlers, disarmed, hpc, kernelVm, failures,
                     native, stdoutOk, guests>>
  BY DEF DropLocal
<1>b. Len(held) \in 1..4 /\ held \in Seq({"raw", "vm", "mem", "vcpus"})
  <2>1. held \in Seq({"raw", "vm", "mem", "vcpus"}) /\ Len(held) <= 4
    BY <1>0 DEF TypeOK, Guards
  <2>2. Len(held) \in Nat \ {0}
    BY <1>a, <2>1, EmptySeq, Zenon
  <2>3. PICK n \in Nat \ {0} : n = Len(held)
    BY <2>2, Zenon
  <2>4. n <= 4
    BY <2>1, <2>3, Zenon
  <2>5. n \in 1..4
    BY <2>4
  <2> QED BY <2>1, <2>3, <2>5, Zenon
<1>c. Innermost = Guard(Len(held))
  BY <1>0, <1>b DEF Guards, Innermost
<1>d. /\ Outer \in Seq({"raw", "vm", "mem", "vcpus"})
      /\ Len(Outer) = Len(held) - 1
      /\ \A k \in 1..(Len(held) - 1) : Outer[k] = held[k]
  <2>1. PICK n \in 1..4 : n = Len(held)
    BY <1>b, Zenon
  <2>2. n >= 1
    OBVIOUS
  <2> QED BY <1>b, <2>1, <2>2, OuterGuards, Zenon
<1>e. \/ /\ ~stdoutOk /\ panicking' = TRUE /\ held' = Outer
         /\ main' = (IF panicking THEN "abort" ELSE "drop")
      \/ /\ Len(held) = 1 /\ active /\ main' = "drain"
         /\ UNCHANGED <<held, panicking>> /\ stdoutOk
      \/ /\ Len(held) = 2 /\ main' = "destroy"
         /\ UNCHANGED <<held, panicking>> /\ stdoutOk
      \/ /\ Len(held) = 1 => ~active
         /\ Len(held) = 2 => native = "kvm"
         /\ main' = "drop" /\ held' = Outer /\ UNCHANGED panicking
  <2> DEFINE destroys == Innermost = "vm" /\ native = "bhyve"
             restores == Innermost = "raw" /\ active
  <2>1. /\ (Innermost = "raw" <=> Len(held) = 1) /\ (Innermost = "vm" <=> Len(held) = 2)
    <3>1. \A k \in 1..4 : (Guard(k) = "raw" <=> k = 1) /\ (Guard(k) = "vm" <=> k = 2)
      BY DEF Guard
    <3> QED BY <1>b, <1>c, <3>1, Zenon
  <2>2. native \in {"kvm", "bhyve"}
    BY <1>0 DEF TypeOK
  <2>3. IF (destroys \/ Innermost = "raw") /\ ~stdoutOk
        THEN Panics("drop") /\ held' = Outer
        ELSE /\ main' = IF destroys THEN "destroy" ELSE IF restores THEN "drain" ELSE "drop"
             /\ held' = IF destroys \/ restores THEN held ELSE Outer
             /\ UNCHANGED panicking
    BY DEF DropLocal
  <2>4. (destroys <=> Len(held) = 2 /\ native = "bhyve")
        /\ (restores <=> Len(held) = 1 /\ active)
    BY <2>1
  <2> HIDE DEF destroys, restores
  <2>5. CASE (destroys \/ Innermost = "raw") /\ ~stdoutOk
    BY <2>3, <2>5, Zenon DEF Panics
  <2>6. CASE ~((destroys \/ Innermost = "raw") /\ ~stdoutOk)
    BY <1>b, <2>1, <2>2, <2>3, <2>4, <2>6
  <2> QED BY <2>5, <2>6, Zenon
<1>1. TypeOK'
  BY <1>0, <1>a, <1>b, <1>d, <1>e, ZenonT(40) DEF TypeOK
<1>2. Guards'
  <2>1. \/ main' \in {"drop", "abort"} /\ held' = Outer
        \/ main' = "drain" /\ held' = held /\ Len(held) = 1
        \/ main' = "destroy" /\ held' = held /\ Len(held) = 2
    BY <1>e
  <2>2. Len(held') <= 4 /\ \A k \in 1..Len(held') : held'[k] = Guard(k)
    BY <1>0, <1>b, <1>d, <2>1 DEF Guards
  <2> QED BY <1>0, <1>a, <2>1, <2>2 DEF Guards
<1>3. Destroyer'
  <2>1. CASE kernelVm # "ours"
    BY <1>a, <2>1 DEF Destroyer
  <2>2. CASE kernelVm = "ours"
    <3>1. /\ native = "bhyve"
          /\ \/ Len(held) >= 2 \/ failures \intersect {"open_vm", "destroy"} # {}
             \/ panicking /\ ~stdoutOk
      BY <1>0, <1>a, <2>2 DEF Destroyer
    <3>2. (panicking => panicking') /\ main' \in {"drop", "abort", "drain", "destroy"}
      BY <1>0, <1>e DEF TypeOK
    <3>3. Len(held) >= 2 => Len(held') >= 2 \/ (panicking' /\ ~stdoutOk)
      BY <1>b, <1>d, <1>e, <3>1
    <3> QED BY <1>a, <3>1, <3>2, <3>3 DEF Destroyer
  <2> QED BY <2>1, <2>2
<1>4. VmIsDestroyed'
  BY <1>0 DEF DropLocal, Panics, Outer, Innermost, MainRuns, TypeOK,
              Destroyer, VmIsDestroyed
<1>5. Handlers'
  BY <1>0, <1>a, <1>e DEF Handlers, Armed
<1>6. Restorer'
  <2>1. CASE termios # "raw" \/ RestoreFailed
    BY <1>a, <2>1 DEF Restorer
  <2>2. CASE termios = "raw" /\ ~RestoreFailed
    <3>1. (active /\ Len(held) >= 1) \/ (panicking /\ ~stdoutOk)
      BY <1>0, <1>a, <2>2 DEF Restorer
    <3>2. CASE main' = "abort"
      BY <3>2 DEF Restorer
    <3>3. CASE panicking' /\ ~stdoutOk /\ main' = "drop"
      BY <1>a, <3>3, Zenon DEF Restorer
    <3>4. CASE main' \in {"drain", "destroy"} /\ held' = held /\ UNCHANGED panicking
      <4>1. active
        BY <1>e, <3>1, <3>4
      <4> QED BY <1>a, <1>b, <3>4, <4>1 DEF Restorer
    <3>5. CASE /\ main' = "drop" /\ held' = Outer /\ active /\ Len(held) > 1
      <4>1. Len(held') >= 1
        BY <1>b, <1>d, <3>5
      <4> QED BY <1>a, <3>5, <4>1 DEF Restorer
    <3>6. CASE ~stdoutOk /\ panicking' = TRUE /\ main' = (IF panicking THEN "abort" ELSE "drop")
      BY <3>2, <3>3, <3>6, Zenon
    <3>7. CASE /\ Len(held) = 1 => ~active
               /\ main' = "drop" /\ held' = Outer /\ UNCHANGED panicking
      <4>1. CASE panicking /\ ~stdoutOk
        BY <3>3, <3>7, <4>1, Zenon
      <4>2. CASE active /\ Len(held) >= 1
        <5>1. Len(held) \in 1..4 /\ Len(held) # 1
          BY <1>b, <3>7, <4>2, Zenon
        <5>2. \A n \in 1..4 : n # 1 => n > 1
          OBVIOUS
        <5> QED BY <3>5, <3>7, <4>2, <5>1, <5>2, Zenon
      <4> QED BY <3>1, <4>1, <4>2, Zenon
    <3>8. CASE main' \in {"drain", "destroy"} /\ UNCHANGED <<held, panicking>>
      BY <3>4, <3>8
    <3> QED BY <1>e, <3>6, <3>7, <3>8, Zenon
  <2> QED BY <2>1, <2>2
<1>7. TerminalIsRestored'
  BY <1>0 DEF DropLocal, Panics, Outer, Innermost, MainRuns, TypeOK,
              Handlers, Armed, Restorer, TerminalIsRestored
<1> QED BY <1>1, <1>2, <1>3, <1>4, <1>5, <1>6, <1>7 DEF SessionInv

\* The rest of the VM's drop destroys it or says that it could not.
LEMMA DestroyVmInv ==
  ASSUME SessionInv, DestroyVm PROVE SessionInv'
<1> USE DEF terminal, signals, locals, threads, Alive, RestoreFailed
<1>0. /\ TypeOK /\ Guards /\ Handlers /\ Restorer /\ Destroyer
      /\ TerminalIsRestored /\ VmIsDestroyed
  BY DEF SessionInv
<1>a. /\ main = "destroy" /\ held' = Outer
      /\ \/ kernelVm' = "none" /\ failures' = failures
         \/ kernelVm' = kernelVm /\ failures' = failures \union {"destroy"}
      /\ \/ main' = "drop" /\ UNCHANGED panicking
         \/ main' \in {"drop", "abort"} /\ panicking' = TRUE /\ ~stdoutOk
      /\ UNCHANGED <<at, termios, active, saved, handlers, disarmed, hpc, native, stdoutOk,
                     guests>>
  BY DEF DestroyVm, Destroyed, Panics
<1>b. /\ Len(held) = 2 /\ Len(held') = 1 /\ \A k \in 1..1 : held'[k] = held[k]
      /\ held' \in Seq({"raw", "vm", "mem", "vcpus"})
  <2>1. Len(held) = 2 /\ held \in Seq({"raw", "vm", "mem", "vcpus"})
    BY <1>0, <1>a DEF TypeOK, Guards
  <2>2. Len(held) >= 1 /\ Len(held) - 1 = 1
    BY <2>1
  <2> QED BY <1>a, <2>1, <2>2, OuterGuards
<1>1. TypeOK'
  BY <1>0, <1>a, <1>b, ZenonT(40) DEF TypeOK
<1>2. Guards'
  BY <1>0, <1>a, <1>b DEF Guards
<1>3. Destroyer'
  BY <1>0, <1>a DEF Destroyer
<1>4. Handlers'
  BY <1>0, <1>a DEF Handlers, Armed
<1>5. Restorer'
  BY <1>0, <1>a, <1>b DEF Restorer
<1>6. TerminalIsRestored' /\ VmIsDestroyed'
  BY <1>a DEF TerminalIsRestored, VmIsDestroyed
<1> QED BY <1>1, <1>2, <1>3, <1>4, <1>5, <1>6 DEF SessionInv

\* main is over once nothing is held.
LEMMA ExitInv ==
  ASSUME SessionInv, Exit PROVE SessionInv'
<1> USE DEF terminal, signals, locals, threads, Alive, RestoreFailed
<1>0. /\ TypeOK /\ Guards /\ Handlers /\ Restorer /\ Destroyer
      /\ TerminalIsRestored /\ VmIsDestroyed
  BY DEF SessionInv
<1>1. TypeOK'
  BY <1>0 DEF Exit, Dies, MainRuns, TypeOK
<1>2. Guards' /\ Destroyer' /\ VmIsDestroyed'
  BY <1>0 DEF Exit, Dies, MainRuns, TypeOK, Guards, HeldBefore, Guard, Destroyer,
              VmIsDestroyed
<1>3. Handlers'
  BY <1>0 DEF Exit, Dies, MainRuns, TypeOK, Handlers, Armed
<1>4. Restorer' /\ TerminalIsRestored'
  BY <1>0 DEF Exit, Dies, MainRuns, TypeOK, Guards, Restorer, Handlers, Armed,
              TerminalIsRestored
<1> QED BY <1>1, <1>2, <1>3, <1>4 DEF SessionInv

\* stdout breaks.
LEMMA StdoutBreaksInv ==
  ASSUME SessionInv, StdoutBreaks PROVE SessionInv'
<1> USE DEF terminal, signals, locals, threads, Alive, RestoreFailed
<1>0. /\ TypeOK /\ Guards /\ Handlers /\ Restorer /\ Destroyer
      /\ TerminalIsRestored /\ VmIsDestroyed
  BY DEF SessionInv
<1>1. TypeOK'
  BY <1>0, ZenonT(40) DEF StdoutBreaks, MainRuns, TypeOK
<1>2. Guards' /\ Destroyer' /\ VmIsDestroyed'
  BY <1>0 DEF StdoutBreaks, MainRuns, TypeOK, Guards, HeldBefore, Guard, Destroyer,
              VmIsDestroyed
<1>3. Handlers'
  BY <1>0 DEF StdoutBreaks, MainRuns, TypeOK, Handlers, Armed
<1>4. Restorer' /\ TerminalIsRestored'
  BY <1>0 DEF StdoutBreaks, MainRuns, TypeOK, Guards, Restorer, Handlers, Armed,
              TerminalIsRestored
<1> QED BY <1>1, <1>2, <1>3, <1>4 DEF SessionInv

\* The stdin reader ends.
LEMMA ReaderStopsInv ==
  ASSUME SessionInv, ReaderStops PROVE SessionInv'
<1> USE DEF terminal, signals, locals, threads, Alive, RestoreFailed
<1>0. /\ TypeOK /\ Guards /\ Handlers /\ Restorer /\ Destroyer
      /\ TerminalIsRestored /\ VmIsDestroyed
  BY DEF SessionInv
<1>1. TypeOK'
  BY <1>0 DEF ReaderStops, MainRuns, TypeOK
<1>2. Guards' /\ Destroyer' /\ VmIsDestroyed'
  BY <1>0 DEF ReaderStops, MainRuns, TypeOK, Guards, HeldBefore, Guard, Destroyer,
              VmIsDestroyed
<1>3. Handlers'
  BY <1>0 DEF ReaderStops, MainRuns, TypeOK, Handlers, Armed
<1>4. Restorer' /\ TerminalIsRestored'
  BY <1>0 DEF ReaderStops, MainRuns, TypeOK, Guards, Restorer, Handlers, Armed,
              TerminalIsRestored
<1> QED BY <1>1, <1>2, <1>3, <1>4 DEF SessionInv

\* Hence every step does, also the one that changes nothing.
LEMMA SessionStepInv == SessionInv /\ [Next]_vars => SessionInv'
<1> SUFFICES ASSUME SessionInv, [Next]_vars PROVE SessionInv'
  OBVIOUS
<1>1. CASE MainStep
  BY <1>1, CheckArgumentsInv, EnterRawInv, SaveTermiosInv, InstallOneInv, DrainInv,
     RetryInv, DisarmInv, AbortInv, StepOkInv, StepFailsInv, ScopeEndsInv, ReportInv,
     DropLocalInv, DestroyVmInv, ExitInv
  DEF MainStep
<1>3. CASE \E s \in Signals : Deliver(s) \/ Handler(s)
  <2>1. PICK s \in Signals : Deliver(s) \/ Handler(s)
    BY <1>3
  <2> QED BY <2>1, DeliverInv, HandlerCheckInv, HandlerRestoreInv, HandlerRaiseInv DEF Handler
<1>4. CASE VcpuEnds \/ ReaderStops \/ StdoutBreaks
  BY <1>4, VcpuEndsInv, ReaderStopsInv, StdoutBreaksInv
<1>2. CASE UNCHANGED vars
  <2>1. UNCHANGED <<main, at, termios, active, saved, handlers, hpc, disarmed, held, panicking,
                    native, kernelVm, failures, stdoutOk, guests, death>>
    BY <1>2 DEF vars, terminal, signals, locals, threads
  <2> USE DEF SessionInv, Alive, RestoreFailed
  <2>2. TypeOK'
    BY <2>1 DEF TypeOK
  <2>3. Guards' /\ Destroyer' /\ VmIsDestroyed'
    BY <2>1 DEF Guards, Destroyer, VmIsDestroyed
  <2>4. Handlers'
    BY <2>1 DEF Handlers, Armed
  <2>5. Restorer' /\ TerminalIsRestored'
    BY <2>1 DEF Restorer, TerminalIsRestored
  <2> QED BY <2>2, <2>3, <2>4, <2>5
<1> QED BY <1>1, <1>2, <1>3, <1>4 DEF Next, Dead

\* The invariant holds throughout every behaviour.
THEOREM SessionInvHolds == Spec => []SessionInv
BY SessionInitInv, SessionStepInv, PTL DEF Spec

-----------------------------------------------------------------------------
(* What main and its signal handlers keep, for every number of vCPUs and of *)
(* signals, with every step of setup failing, stdout breaking and every     *)
(* restore failing where they may.                                          *)

\* Every variable keeps its type.
THEOREM SessionTypeCorrect == Spec => []TypeOK
BY SessionInvHolds, PTL DEF SessionInv

\* The process leaves the terminal in raw mode only in the four ways that
\* TerminalIsRestored excepts.
THEOREM TerminalCorrect == Spec => []TerminalIsRestored
BY SessionInvHolds, PTL DEF SessionInv

\* The VM in the host outlives the process only in the ways VmIsDestroyed
\* excepts.
THEOREM VmCorrect == Spec => []VmIsDestroyed
BY SessionInvHolds, PTL DEF SessionInv
=============================================================================
