--------------------------- MODULE ShutdownProofs ---------------------------
(***************************************************************************)
(* Proofs about Shutdown, for every number of vCPUs.                        *)
(***************************************************************************)
EXTENDS Shutdown, SequenceTheorems, TLAPS

\* How a leaf that names no prover is tried.
USE SMT, Zenon, SMTT(30)

\* Every variable keeps its type.
THEOREM TypeCorrect == Spec => []TypeOK
<1> USE ShutdownAssumption DEF Cpus, Threads, reader, nobody, none
<1>1. Init => TypeOK
  <2> SUFFICES ASSUME Init PROVE TypeOK
    OBVIOUS
  <2>1. kickThreads \in Seq(Cpus)
    BY DEF Init
  <2>2. /\ pc \in [Threads -> {"loop", "unborn"}] /\ next \in [Threads -> Nat \ {0}]
        /\ result \in [Cpus -> {"running"}]
    BY DEF Init
  <2>3. /\ signalled \in [Cpus -> BOOLEAN] /\ missed \in [Cpus -> BOOLEAN]
        /\ flag \in BOOLEAN /\ stale \in BOOLEAN
    BY Zenon DEF Init
  <2>4. /\ holder \in Threads \union {nobody} /\ spawned \in 0..NumCpus
        /\ joined \in 0..NumCpus /\ runError \in Cpus \union {none}
    BY DEF Init
  <2> QED
    BY <2>1, <2>2, <2>3, <2>4 DEF TypeOK
<1>2. TypeOK /\ [Next]_vars => TypeOK'
  <2> SUFFICES ASSUME TypeOK, [Next]_vars PROVE TypeOK'
    OBVIOUS
  <2> USE DEF TypeOK
  <2>1. ASSUME NEW t \in Threads, Request(t) PROVE TypeOK'
    <3>1. CASE StoreFlag(t)
      BY <3>1 DEF StoreFlag, Goto
    <3>2. CASE LockTargets(t)
      BY <3>2 DEF LockTargets, Goto
    <3>3. CASE Kick(t)
      <4> DEFINE c == kickThreads[next[t]]
      <4>1. c \in Cpus
        <5>1. next[t] \in 1..Len(kickThreads)
          BY <3>3 DEF Kick
        <5> QED
          BY <5>1, ElementOfSeq
      <4>2. signalled' \in [Cpus -> BOOLEAN]
        <5>1. signalled' = [signalled EXCEPT ![c] = @ \/ ~Ended(c)]
          BY <3>3 DEF Kick
        <5> HIDE DEF c
        <5> QED
          BY <5>1, Zenon
      <4>3. stale' \in BOOLEAN /\ next' \in [Threads -> Nat \ {0}]
        BY <3>3 DEF Kick
      <4> QED
        BY <3>3, <4>2, <4>3, Zenon DEF Kick
    <3>4. CASE RequestDone(t)
      BY <3>4 DEF RequestDone, Goto
    <3> QED
      BY <2>1, <3>1, <3>2, <3>3, <3>4, Zenon DEF Request
  <2>2. ASSUME NEW c \in Cpus, AddKickTarget(c) PROVE TypeOK'
    <3>1. kickThreads' \in Seq(Cpus)
      BY <2>2 DEF AddKickTarget
    <3> QED
      BY <2>2, <3>1 DEF AddKickTarget, Goto
  <2>3. ASSUME NEW c \in Cpus, CheckFlag(c) PROVE TypeOK'
    BY <2>3, Zenon DEF CheckFlag
  <2>4. ASSUME NEW c \in Cpus, EnterGuest(c) PROVE TypeOK'
    BY <2>4 DEF EnterGuest, Goto
  <2>5. ASSUME NEW c \in Cpus, Interrupted(c) PROVE TypeOK'
    BY <2>5 DEF Interrupted, Goto
  <2>6. ASSUME NEW c \in Cpus, HandleSignal(c) PROVE TypeOK'
    <3>1. (pc[c] = "enter") \in BOOLEAN
      OBVIOUS
    <3>2. missed' \in [Cpus -> BOOLEAN] /\ signalled' \in [Cpus -> BOOLEAN]
      BY <2>6, <3>1 DEF HandleSignal
    <3> QED
      BY <2>6, <3>2 DEF HandleSignal
  <2>7. ASSUME NEW c \in Cpus, GuestExit(c) PROVE TypeOK'
    <3>1. CASE ExitHandled(c)
      BY <3>1 DEF ExitHandled, Goto
    <3>2. ASSUME NEW o \in {"ok", "err"}, ExitStops(c, o) PROVE TypeOK'
      BY <3>2 DEF ExitStops, Goto
    <3> QED
      BY <2>7, <3>1, <3>2, Zenon DEF GuestExit
  <2>8. ASSUME NEW c \in Cpus, Panic(c) PROVE TypeOK'
    BY <2>8 DEF Panic, Goto
  <2>9. CASE ReaderCheck \/ ReaderContinues \/ ReaderQuits
    BY <2>9, Zenon DEF ReaderCheck, ReaderContinues, ReaderQuits, Goto
  <2>10. CASE SpawnVcpu
    BY <2>10 DEF SpawnVcpu, Goto
  <2>11. CASE JoinVcpu
    BY <2>11 DEF JoinVcpu
  <2>12. CASE UNCHANGED vars
    BY <2>12 DEF vars
  <2>13. ASSUME NEW c \in Cpus, VcpuStep(c) PROVE TypeOK'
    BY <2>1, <2>2, <2>3, <2>4, <2>5, <2>13, Zenon DEF VcpuStep
  <2> QED
    BY <2>1, <2>6, <2>7, <2>8, <2>9, <2>10, <2>11, <2>12, <2>13, Zenon
       DEF Next, Exited
<1> QED
  BY <1>1, <1>2, PTL DEF Spec

-----------------------------------------------------------------------------
Registered(c) == \E i \in 1..Len(kickThreads) : kickThreads[i] = c

Covered(c) == InOrBeforeGuest(c) => signalled[c] \/ missed[c]

\* The strengthening that makes KicksCover inductive: a request past its store
\* has set the flag; a vCPU that can reach KVM_RUN is registered; only the lock
\* holder kicks, and what it has already visited is covered.
KickInv ==
  /\ \A t \in Threads : pc[t] \in {"lock", "kick", "done"} => flag
  /\ \A c \in Cpus : pc[c] \in {"check", "enter", "guest"} => Registered(c)
  /\ \A t \in Threads : pc[t] = "kick" => holder = t
  /\ \A t \in Threads : pc[t] = "kick" =>
       \A i \in 1..Len(kickThreads) : i < next[t] => Covered(kickThreads[i])
  /\ \A t \in Threads : pc[t] = "done" => \A c \in Cpus : Covered(c)

\* Initially no thread is registered, requesting or done.
LEMMA KickInvInit == Init => KickInv
BY ShutdownAssumption DEF Init, KickInv, Cpus, Threads, reader

\* A step that leaves the flag, the targets, the lock, the indices and the
\* signals alone, and moves one thread t to a place that is neither a stage of
\* a request nor in or before the guest unless it was there, keeps the invariant.
LEMMA QuietMove ==
  ASSUME TypeOK, KickInv, NEW t \in Threads, NEW to,
         pc' = [pc EXCEPT ![t] = to],
         to \in {"spawned", "store", "panicked", "loop", "poll", "returned"}
                \/ (to = "check" /\ pc[t] = "guest" /\ t \in Cpus)
                \/ (to = "guest" /\ pc[t] = "enter" /\ t \in Cpus),
         UNCHANGED <<flag, kickThreads, holder, next, missed>>,
         \A c \in Cpus : c # t => signalled'[c] = signalled[c],
         to = "guest" => signalled' = signalled
  PROVE  KickInv'
<1>1. \A u \in Threads : u # t => pc'[u] = pc[u]
  BY DEF TypeOK
<1>2. pc'[t] = to
  BY DEF TypeOK
<1>3. \A c \in Cpus : Registered(c) => Registered(c)'
  BY DEF Registered
<1>4. \A c \in Cpus : Covered(c) => Covered(c)'
  BY <1>1, <1>2 DEF Covered, InOrBeforeGuest, Threads
<1>5. (\A u \in Threads : pc[u] \in {"lock", "kick", "done"} => flag)'
  BY <1>1, <1>2 DEF KickInv
<1>6. (\A c \in Cpus : pc[c] \in {"check", "enter", "guest"} => Registered(c))'
  BY <1>1, <1>2, <1>3 DEF KickInv, Threads
<1>7. (\A u \in Threads : pc[u] = "kick" => holder = u)'
  BY <1>1, <1>2 DEF KickInv
<1>8. (\A u \in Threads : pc[u] = "kick" =>
         \A i \in 1..Len(kickThreads) : i < next[u] => Covered(kickThreads[i]))'
  <2> SUFFICES ASSUME NEW u \in Threads, pc'[u] = "kick",
                      NEW i \in 1..Len(kickThreads), i < next[u]
               PROVE  Covered(kickThreads[i])'
    BY DEF TypeOK
  <2>1. u # t /\ Covered(kickThreads[i])
    BY <1>1, <1>2 DEF KickInv
  <2>2. kickThreads[i] \in Cpus
    BY ElementOfSeq DEF TypeOK
  <2> DEFINE c == kickThreads[i]
  <2>3. Covered(c) => Covered(c)'
    <3> HIDE DEF c
    <3> QED
      BY <1>4, <2>2 DEF c
  <2> QED
    BY <2>1, <2>3
<1>9. (\A u \in Threads : pc[u] = "done" => \A c \in Cpus : Covered(c))'
  BY <1>1, <1>2, <1>4 DEF KickInv
<1> QED
  BY <1>5, <1>6, <1>7, <1>8, <1>9 DEF KickInv

\* The stages of Shutdown::request keep the invariant.
LEMMA RequestKeepsKickInv ==
  ASSUME TypeOK, KickInv, NEW t \in Threads, Request(t)
  PROVE  KickInv'
<1>0. \A c \in Cpus : c \in Threads
  BY DEF Threads
<1>1. CASE StoreFlag(t)
  <2>1. /\ flag' = TRUE /\ UNCHANGED <<kickThreads, holder, next, signalled, missed>>
        /\ pc[t] = "store" /\ pc' = [pc EXCEPT ![t] = "lock"]
    BY <1>1 DEF StoreFlag, Goto
  <2>2. \A u \in Threads : pc'[u] = IF u = t THEN "lock" ELSE pc[u]
    BY <2>1 DEF TypeOK
  <2>3. \A c \in Cpus : Covered(c) => Covered(c)'
    BY <2>1, <2>2, <1>0 DEF Covered, InOrBeforeGuest
  <2>4. \A i \in 1..Len(kickThreads) : kickThreads[i] \in Cpus
    BY ElementOfSeq DEF TypeOK
  <2>5. \A i \in 1..Len(kickThreads) : Covered(kickThreads[i]) => Covered(kickThreads[i])'
    BY <2>1, <2>2, <2>4, <1>0 DEF Covered, InOrBeforeGuest
  <2> QED
    BY <2>1, <2>2, <2>3, <2>5, <1>0 DEF KickInv, Registered
<1>2. CASE LockTargets(t)
  <2>1. /\ holder = nobody /\ holder' = t
        /\ next' = [next EXCEPT ![t] = 1]
        /\ UNCHANGED <<flag, kickThreads, signalled, missed>>
        /\ pc[t] = "lock" /\ pc' = [pc EXCEPT ![t] = "kick"]
    BY <1>2 DEF LockTargets, Goto
  <2>2. \A u \in Threads : pc'[u] = IF u = t THEN "kick" ELSE pc[u]
    BY <2>1 DEF TypeOK
  <2>3. \A u \in Threads : pc[u] # "kick"
    BY <2>1, ShutdownAssumption DEF KickInv, nobody, Threads, Cpus, reader
  <2>4. \A c \in Cpus : Covered(c) => Covered(c)'
    BY <2>1, <2>2, <1>0 DEF Covered, InOrBeforeGuest
  <2>5. next'[t] = 1
    BY <2>1 DEF TypeOK
  <2>6. (\A u \in Threads : pc[u] = "kick" =>
           \A i \in 1..Len(kickThreads) : i < next[u] => Covered(kickThreads[i]))'
    BY <2>1, <2>2, <2>3, <2>5
  <2> QED
    BY <2>1, <2>2, <2>3, <2>4, <2>6, <1>0 DEF KickInv, Registered
<1>3. CASE Kick(t)
  <2>0. next[t] \in 1..Len(kickThreads) /\ kickThreads[next[t]] \in Cpus
    BY <1>3, ElementOfSeq DEF TypeOK, Kick
  <2> PICK k \in Cpus : k = kickThreads[next[t]]
    BY <2>0
  <2>1. /\ pc[t] = "kick" /\ next[t] <= Len(kickThreads)
        /\ signalled' = [signalled EXCEPT ![k] = @ \/ ~Ended(k)]
        /\ next' = [next EXCEPT ![t] = @ + 1]
        /\ UNCHANGED <<flag, kickThreads, holder, pc, missed>>
    BY <1>3 DEF Kick
  <2>3. \A i \in 1..Len(kickThreads) : kickThreads[i] \in Cpus
    BY ElementOfSeq DEF TypeOK
  <2>4. Covered(k)'
    <3>1. InOrBeforeGuest(k) => ~Ended(k)
      BY DEF InOrBeforeGuest, Ended
    <3>2. signalled'[k] = (signalled[k] \/ ~Ended(k))
      BY <2>1 DEF TypeOK
    <3> QED
      BY <2>1, <3>1, <3>2, ZenonT(40) DEF Covered, InOrBeforeGuest
  <2>5. \A c \in Cpus : Covered(c) => Covered(c)'
    <3> SUFFICES ASSUME NEW c \in Cpus, Covered(c) PROVE Covered(c)'
      OBVIOUS
    <3>1. CASE c = k
      BY <2>4, <3>1
    <3>2. CASE c # k
      <4>1. signalled'[c] = signalled[c]
        BY <2>1, <3>2 DEF TypeOK
      <4> QED
        BY <2>1, <4>1 DEF Covered, InOrBeforeGuest
    <3> QED
      BY <3>1, <3>2
  <2>6. \A u \in Threads : u # t => pc[u] # "kick"
    BY <2>1 DEF KickInv
  <2>7. next'[t] = next[t] + 1 /\ next[t] \in Nat
    BY <2>1 DEF TypeOK
  <2>8. \A i \in 1..Len(kickThreads) : i < next'[t] => Covered(kickThreads[i])'
    <3> SUFFICES ASSUME NEW i \in 1..Len(kickThreads), i < next'[t]
                 PROVE  Covered(kickThreads[i])'
      OBVIOUS
    <3>1. CASE i = next[t]
      BY <2>1, <2>4, <3>1 DEF Covered, InOrBeforeGuest
    <3>2. CASE i # next[t]
      <4>1. i < next[t]
        BY <3>2, <2>7
      <4>2. Covered(kickThreads[i])
        BY <4>1, <2>1 DEF KickInv
      <4>3. \A c \in Cpus : Covered(c) => (InOrBeforeGuest(c)' => signalled'[c] \/ missed'[c])
        BY <2>5 DEF Covered
      <4> QED
        BY <4>2, <4>3, <2>3, <2>1 DEF Covered, InOrBeforeGuest
    <3> QED
      BY <3>1, <3>2
  <2>9. (\A u \in Threads : pc[u] = "kick" =>
           \A i \in 1..Len(kickThreads) : i < next[u] => Covered(kickThreads[i]))'
    BY <2>1, <2>6, <2>8
  <2>10. (\A c \in Cpus : pc[c] \in {"check", "enter", "guest"} => Registered(c))'
    BY <2>1 DEF KickInv, Registered
  <2> QED
    BY <2>1, <2>5, <2>9, <2>10 DEF KickInv
<1>4. CASE RequestDone(t)
  <2>1. /\ pc[t] = "kick" /\ next[t] > Len(kickThreads)
        /\ pc' = [pc EXCEPT ![t] = "done"] /\ holder' = nobody
        /\ UNCHANGED <<flag, kickThreads, next, signalled, missed>>
    BY <1>4 DEF RequestDone, Goto
  <2>2. \A u \in Threads : pc'[u] = IF u = t THEN "done" ELSE pc[u]
    BY <2>1 DEF TypeOK
  <2>3. \A u \in Threads : u # t => pc[u] # "kick"
    BY <2>1 DEF KickInv
  <2>4. \A i \in 1..Len(kickThreads) : Covered(kickThreads[i])
    BY <2>1 DEF KickInv, TypeOK
  <2>5. \A c \in Cpus : Covered(c)
    BY <2>4 DEF KickInv, Registered, Covered, InOrBeforeGuest
  <2>6. \A c \in Cpus : Covered(c)'
    BY <2>1, <2>2, <2>5, <1>0 DEF Covered, InOrBeforeGuest
  <2>7. \A u \in Threads : pc'[u] # "kick"
    BY <2>2, <2>3
  <2>8. flag'
    BY <2>1 DEF KickInv
  <2>9. \A c \in Cpus : pc'[c] \in {"check", "enter", "guest"} => Registered(c)'
    BY <2>1, <2>2, <1>0 DEF KickInv, Registered
  <2> QED
    BY <2>6, <2>7, <2>8, <2>9 DEF KickInv
<1> QED
  BY <1>1, <1>2, <1>3, <1>4 DEF Request

\* The steps of a vCPU thread outside its request keep it.
LEMMA VcpuKeepsKickInv ==
  ASSUME TypeOK, KickInv, NEW c \in Cpus,
         \/ AddKickTarget(c) \/ CheckFlag(c) \/ EnterGuest(c) \/ Interrupted(c)
         \/ HandleSignal(c) \/ GuestExit(c) \/ Panic(c)
  PROVE  KickInv'
<1>0. c \in Threads /\ \A d \in Cpus : d \in Threads
  BY DEF Threads
<1>1. CASE AddKickTarget(c)
  <2>1. /\ holder = nobody /\ kickThreads' = Append(kickThreads, c)
        /\ pc[c] = "spawned" /\ pc' = [pc EXCEPT ![c] = "check"]
        /\ UNCHANGED <<flag, holder, next, signalled, missed>>
    BY <1>1 DEF AddKickTarget, Goto
  <2>2. \A u \in Threads : pc'[u] = IF u = c THEN "check" ELSE pc[u]
    BY <2>1 DEF TypeOK
  <2>3. \A u \in Threads : pc[u] # "kick"
    BY <2>1, ShutdownAssumption DEF KickInv, nobody, Threads, Cpus, reader
  <2>4. \A d \in Cpus : Covered(d) => Covered(d)'
    BY <2>1, <2>2, <1>0 DEF Covered, InOrBeforeGuest
  <2>5. /\ Len(kickThreads') = Len(kickThreads) + 1 /\ Len(kickThreads) \in Nat
        /\ \A i \in 1..Len(kickThreads) : kickThreads'[i] = kickThreads[i]
        /\ kickThreads'[Len(kickThreads) + 1] = c
    BY <2>1, AppendProperties DEF TypeOK
  <2>6. Registered(c)' /\ \A d \in Cpus : Registered(d) => Registered(d)'
    BY <2>5 DEF Registered
  <2>7. \A u \in Threads : pc'[u] # "kick"
    BY <2>2, <2>3
  <2>8. \A u \in Threads : pc'[u] \in {"lock", "kick", "done"} => flag'
    BY <2>1, <2>2 DEF KickInv
  <2>9. \A d \in Cpus : pc'[d] \in {"check", "enter", "guest"} => Registered(d)'
    BY <2>2, <2>6, <1>0 DEF KickInv
  <2>10. \A u \in Threads : pc'[u] = "done" => \A d \in Cpus : Covered(d)'
    BY <2>2, <2>4 DEF KickInv
  <2> QED
    BY <2>7, <2>8, <2>9, <2>10 DEF KickInv
<1>2. CASE CheckFlag(c)
  <2>1. CASE flag
    <3>1. /\ pc' = [pc EXCEPT ![c] = "store"]
          /\ UNCHANGED <<flag, kickThreads, holder, next, signalled, missed>>
      BY <1>2, <2>1 DEF CheckFlag
    <3> QED
      BY <3>1, <1>0, QuietMove, Zenon
  <2>2. CASE ~flag
    <3>1. /\ pc[c] = "check" /\ pc' = [pc EXCEPT ![c] = "enter"]
          /\ UNCHANGED <<flag, kickThreads, holder, next, signalled>>
      BY <1>2, <2>2 DEF CheckFlag
    <3>2. \A u \in Threads : pc'[u] = IF u = c THEN "enter" ELSE pc[u]
      BY <3>1 DEF TypeOK
    <3>3. \A u \in Threads : pc[u] \notin {"lock", "kick", "done"}
      BY <2>2 DEF KickInv
    <3>4. \A u \in Threads : pc'[u] \notin {"lock", "kick", "done"}
      BY <3>2, <3>3
    <3>5. \A d \in Cpus : pc'[d] \in {"check", "enter", "guest"} => Registered(d)'
      BY <3>1, <3>2, <1>0 DEF KickInv, Registered
    <3> QED
      BY <3>4, <3>5 DEF KickInv
  <2> QED
    BY <2>1, <2>2
<1>3. CASE EnterGuest(c)
  <2>1. /\ pc[c] = "enter" /\ pc' = [pc EXCEPT ![c] = "guest"]
        /\ UNCHANGED <<flag, kickThreads, holder, next, signalled, missed>>
    BY <1>3 DEF EnterGuest, Goto
  <2> QED
    BY <2>1, <1>0, QuietMove, Zenon
<1>4. CASE Interrupted(c)
  <2>1. /\ pc[c] = "guest" /\ pc' = [pc EXCEPT ![c] = "check"]
        /\ signalled' = [signalled EXCEPT ![c] = FALSE]
        /\ UNCHANGED <<flag, kickThreads, holder, next, missed>>
    BY <1>4 DEF Interrupted, Goto
  <2>2. \A d \in Cpus : d # c => signalled'[d] = signalled[d]
    BY <2>1 DEF TypeOK
  <2> QED
    BY <2>1, <2>2, <1>0, QuietMove, Zenon
<1>5. CASE HandleSignal(c)
  <2>1. /\ pc[c] # "guest" /\ signalled' = [signalled EXCEPT ![c] = FALSE]
        /\ missed' = [missed EXCEPT ![c] = @ \/ pc[c] = "enter"]
        /\ UNCHANGED <<flag, kickThreads, holder, pc, next>>
    BY <1>5 DEF HandleSignal
  <2>2. \A d \in Cpus : d # c => signalled'[d] = signalled[d] /\ missed'[d] = missed[d]
    BY <2>1 DEF TypeOK
  <2>3. missed'[c] = (missed[c] \/ pc[c] = "enter")
    BY <2>1 DEF TypeOK
  <2>4. \A d \in Cpus : Covered(d) => Covered(d)'
    <3>1. Covered(c)'
      BY <2>1, <2>3, Zenon DEF Covered, InOrBeforeGuest
    <3>2. \A d \in Cpus : d # c /\ Covered(d) => Covered(d)'
      BY <2>1, <2>2 DEF Covered, InOrBeforeGuest
    <3> QED
      BY <3>1, <3>2
  <2>5. \A i \in 1..Len(kickThreads) : kickThreads[i] \in Cpus
    BY ElementOfSeq DEF TypeOK
  <2>6. (\A u \in Threads : pc[u] = "kick" =>
           \A i \in 1..Len(kickThreads) : i < next[u] => Covered(kickThreads[i]))'
    <3> SUFFICES ASSUME NEW u \in Threads, pc[u] = "kick",
                        NEW i \in 1..Len(kickThreads), i < next[u]
                 PROVE  Covered(kickThreads[i])'
      BY <2>1
    <3>1. PICK d \in Cpus : d = kickThreads[i]
      BY <2>5
    <3>2. Covered(d)'
      BY <2>4, <3>1 DEF KickInv
    <3> QED
      BY <2>1, <3>1, <3>2
  <2> QED
    BY <2>1, <2>4, <2>6, Zenon DEF KickInv, Registered
<1>6. CASE GuestExit(c) \/ Panic(c)
  <2>1. /\ pc[c] = "guest"
        /\ \/ pc' = [pc EXCEPT ![c] = "check"]
           \/ pc' = [pc EXCEPT ![c] = "store"]
           \/ pc' = [pc EXCEPT ![c] = "panicked"]
        /\ UNCHANGED <<flag, kickThreads, holder, next, signalled, missed>>
    BY <1>6 DEF GuestExit, ExitHandled, ExitStops, Panic, Goto
  <2> QED
    BY <2>1, <1>0, QuietMove
<1> QED
  BY <1>1, <1>2, <1>3, <1>4, <1>5, <1>6

\* Once a request has completed, every vCPU that is in or about to enter KVM_RUN
\* has a kick pending or consumed one in its check-to-enter window.
THEOREM KicksCoverCorrect == Spec => []KicksCover
<1>1. TypeOK /\ KickInv /\ [Next]_vars => KickInv'
  <2> SUFFICES ASSUME TypeOK, KickInv, [Next]_vars PROVE KickInv'
    OBVIOUS
  <2>1. reader \in Threads
    BY DEF Threads
  <2>2. ASSUME NEW c \in Cpus, VcpuStep(c) \/ HandleSignal(c) \/ GuestExit(c) \/ Panic(c)
        PROVE  KickInv'
    <3>1. c \in Threads
      BY DEF Threads
    <3> QED
      BY <2>2, <3>1, VcpuKeepsKickInv, RequestKeepsKickInv DEF VcpuStep
  <2>3. CASE ReaderCheck \/ ReaderContinues \/ ReaderQuits
    <3>1. /\ \/ pc' = [pc EXCEPT ![reader] = "returned"]
             \/ pc' = [pc EXCEPT ![reader] = "poll"]
             \/ pc' = [pc EXCEPT ![reader] = "loop"]
             \/ pc' = [pc EXCEPT ![reader] = "store"]
          /\ UNCHANGED <<flag, kickThreads, holder, next, signalled, missed>>
      BY <2>3 DEF ReaderCheck, ReaderContinues, ReaderQuits, Goto
    <3> QED
      BY <3>1, <2>1, QuietMove
  <2>4. CASE SpawnVcpu
    <3>1. /\ spawned \in Threads /\ pc' = [pc EXCEPT ![spawned] = "spawned"]
          /\ UNCHANGED <<flag, kickThreads, holder, next, signalled, missed>>
      BY <2>4, ShutdownAssumption DEF SpawnVcpu, Goto, TypeOK, Threads, Cpus
    <3> QED
      BY <3>1, QuietMove, Zenon
  <2>5. CASE JoinVcpu \/ UNCHANGED vars
    BY <2>5 DEF JoinVcpu, vars, KickInv, Registered, Covered, InOrBeforeGuest
  <2> QED
    BY <2>1, <2>2, <2>3, <2>4, <2>5, RequestKeepsKickInv DEF Next, Exited
<1>2. KickInv => KicksCover
  BY DEF KickInv, KicksCover, Covered
<1> QED
  BY KickInvInit, <1>1, <1>2, TypeCorrect, PTL DEF Spec

-----------------------------------------------------------------------------
\* The strengthening that makes ErrorsAreReported inductive: a joined thread has
\* ended, so its result is final; run_error is the first of the joined threads
\* that failed, and there is none exactly when all of them returned Ok.
ErrorInv ==
  /\ \A c \in Cpus : c < joined => Ended(c)
  /\ runError = none <=> \A c \in Cpus : c < joined => result[c] = "ok"
  /\ runError # none =>
       /\ runError < joined /\ result[runError] # "ok"
       /\ \A c \in Cpus : c < runError => result[c] = "ok"

\* A step that joins nobody and leaves the threads that have ended alone keeps
\* the invariant.
LEMMA NobodyJoined ==
  ASSUME TypeOK, ErrorInv, UNCHANGED <<joined, runError>>,
         \A c \in Cpus : Ended(c) => Ended(c)' /\ result'[c] = result[c]
  PROVE  ErrorInv'
<1>1. joined \in Nat /\ runError \in Cpus \union {none}
  BY ShutdownAssumption DEF TypeOK
<1>2. \A c \in Cpus : c < joined => Ended(c)' /\ result'[c] = result[c]
  BY DEF ErrorInv
<1>3. runError # none => \A c \in Cpus : c < runError => c < joined
  BY <1>1, ShutdownAssumption DEF ErrorInv, Cpus
<1> QED BY <1>1, <1>2, <1>3, Zenon DEF ErrorInv

\* A thread that has ended takes no further step: nothing moves it or changes
\* what it returned.
LEMMA EndedIsFinal ==
  ASSUME TypeOK, [Next]_vars, NEW c \in Cpus, Ended(c)
  PROVE  Ended(c)' /\ result'[c] = result[c]
<1> USE DEF Ended
<1>0. c \in Threads /\ reader \notin Cpus /\ pc[c] \in {"done", "panicked"}
  BY ShutdownAssumption DEF Threads, Cpus, reader
<1>1. ASSUME NEW t, NEW to, pc[t] \notin {"done", "panicked"},
             pc' = [pc EXCEPT ![t] = to]
      PROVE  pc'[c] = pc[c]
  BY <1>0, <1>1 DEF TypeOK
<1>2. ASSUME NEW t \in Threads, Request(t) PROVE pc'[c] = pc[c] /\ result' = result
  BY <1>1, <1>2, Zenon DEF Request, StoreFlag, LockTargets, Kick, RequestDone, Goto
<1>3. ASSUME NEW d \in Cpus, VcpuStep(d) \/ HandleSignal(d) \/ GuestExit(d) \/ Panic(d)
      PROVE  pc'[c] = pc[c] /\ result'[c] = result[c]
  <2>1. CASE Request(d)
    BY <1>2, <2>1 DEF Threads
  <2>2. CASE AddKickTarget(d) \/ EnterGuest(d) \/ Interrupted(d) \/ HandleSignal(d)
             \/ ExitHandled(d)
    BY <1>1, <2>2, Zenon
       DEF AddKickTarget, EnterGuest, Interrupted, HandleSignal, ExitHandled, Goto
  <2>3. CASE CheckFlag(d) \/ (\E o \in {"ok", "err"} : ExitStops(d, o)) \/ Panic(d)
    <3>1. /\ pc[d] \in {"check", "guest"}
          /\ \E to : pc' = [pc EXCEPT ![d] = to]
          /\ result' = result \/ \E o : result' = [result EXCEPT ![d] = o]
      BY <2>3, Zenon DEF CheckFlag, ExitStops, Panic, Goto
    <3>2. d # c /\ pc[d] \notin {"done", "panicked"}
      BY <1>0, <3>1
    <3>3. result'[c] = result[c]
      BY <3>1, <3>2 DEF TypeOK
    <3> QED BY <1>1, <3>1, <3>2, <3>3, Zenon
  <2> QED BY <1>3, <2>1, <2>2, <2>3, Zenon DEF VcpuStep, GuestExit
<1>4. CASE ReaderCheck \/ ReaderContinues \/ ReaderQuits
  BY <1>1, <1>4, ZenonT(40) DEF ReaderCheck, ReaderContinues, ReaderQuits, Goto
<1>5. CASE SpawnVcpu
  BY <1>1, <1>5, Zenon DEF SpawnVcpu, Goto
<1>6. CASE JoinVcpu \/ UNCHANGED vars
  BY <1>6, Zenon DEF JoinVcpu, vars
<1>7. CASE Request(reader)
  BY <1>2, <1>7 DEF Threads
<1> QED
  BY <1>3, <1>4, <1>5, <1>6, <1>7, Zenon DEF Next, Exited

\* main's exit status is right for every number of vCPUs: it reports an error
\* exactly when some vCPU thread failed or panicked, and the error is that of
\* the first such thread in spawn order.
THEOREM ErrorsAreReportedCorrect == Spec => [](ErrorsAreReported /\ ErrorInv)
<1>1. Init => ErrorInv
  BY ShutdownAssumption DEF Init, ErrorInv, Cpus, none
<1>2. TypeOK /\ ErrorInv /\ [Next]_vars => ErrorInv'
  <2> SUFFICES ASSUME TypeOK, ErrorInv, [Next]_vars PROVE ErrorInv'
    OBVIOUS
  <2>1. CASE JoinVcpu
    <3>1. /\ joined \in Cpus /\ joined' = joined + 1 /\ Ended(joined)
          /\ runError' = IF runError = none /\ result[joined] # "ok" THEN joined ELSE runError
          /\ UNCHANGED <<pc, result>>
      BY <2>1, ShutdownAssumption DEF JoinVcpu, TypeOK, Cpus
    <3>2. \A c \in Cpus : c < joined' <=> c < joined \/ c = joined
      BY <3>1, ShutdownAssumption DEF Cpus
    <3>3. none \notin Cpus /\ (runError # none => runError \in Cpus)
      BY ShutdownAssumption DEF TypeOK, Cpus, none
    <3>4. (\A c \in Cpus : c < joined => Ended(c))'
      BY <3>1, <3>2, Zenon DEF ErrorInv, Ended
    <3>5. CASE runError = none /\ result[joined] # "ok"
      BY <3>1, <3>2, <3>3, <3>4, <3>5, Zenon DEF ErrorInv
    <3>6. CASE ~(runError = none /\ result[joined] # "ok")
      <4>1. runError' = runError
        BY <3>1, <3>6, Zenon
      <4>2. runError # none => runError < joined'
        BY <3>1, <3>2, <3>3, Zenon DEF ErrorInv
      <4> QED BY <3>1, <3>2, <3>3, <3>4, <3>6, <4>1, <4>2, Zenon DEF ErrorInv
    <3> QED BY <3>5, <3>6
  <2>2. CASE ~JoinVcpu
    <3>1. UNCHANGED <<joined, runError>>
      BY <2>2, Zenon DEF Next, VcpuStep, HandleSignal, GuestExit, Panic, AddKickTarget,
         CheckFlag, EnterGuest, Interrupted, Request, StoreFlag, LockTargets, Kick,
         RequestDone, ExitHandled, ExitStops, ReaderCheck, ReaderContinues, ReaderQuits,
         SpawnVcpu, Exited, vars
    <3> QED BY <3>1, EndedIsFinal, NobodyJoined
  <2> QED BY <2>1, <2>2
<1>3. TypeOK /\ ErrorInv => ErrorsAreReported
  BY ShutdownAssumption DEF TypeOK, ErrorInv, ErrorsAreReported, Cpus
<1> QED
  BY <1>1, <1>2, <1>3, TypeCorrect, PTL DEF Spec
=============================================================================
