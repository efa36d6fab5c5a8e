----------------------------- MODULE DescChain ------------------------------
(***************************************************************************)
(* Collecting one descriptor chain: the inner loop of Virtqueue::process    *)
(* (src/virtio/mod.rs), over any descriptor table the guest may have set    *)
(* up, circular ones and ones that leave guest memory included.  Of a       *)
(* descriptor the loop looks at the NEXT flag and the next index.           *)
(***************************************************************************)
EXTENDS Naturals, Sequences

CONSTANTS
  Num,         \* Virtqueue::num, at least 1 here: process returns early on 0
  Readable,    \* number of descriptors that lie in guest memory
  Indices      \* the descriptor indices the guest uses

ASSUME DescChainAssumption ==
  Num \in Nat \ {0} /\ Readable \in Nat /\ Indices \subseteq Nat

InMemory == {i \in Indices : i < Readable}

VARIABLES
  table,       \* the descriptor table
  head,        \* head_idx, from the available ring
  descIdx, hasNext, chain,
  pc           \* "walk", then "done"

walkVars == <<table, head, descIdx, hasNext, chain, pc>>

WalkInit ==
  /\ table \in [InMemory -> [next : Indices, more : BOOLEAN]]
  /\ head \in Indices
  /\ descIdx = head /\ hasNext = TRUE /\ chain = <<>>
  /\ pc = "walk"

\* The descriptor is not in guest memory: the chain ends where it is.
ReadFails ==
  /\ pc = "walk" /\ hasNext /\ descIdx \notin InMemory
  /\ pc' = "done"
  /\ UNCHANGED <<table, head, descIdx, hasNext, chain>>

\* Mutant: index 0 is taken for the end of the chain.
PushDescZeroEnds ==
  /\ pc = "walk" /\ hasNext /\ descIdx \in InMemory
  /\ chain' = Append(chain, descIdx)
  /\ IF table[descIdx].more /\ table[descIdx].next # 0
     THEN descIdx' = table[descIdx].next /\ UNCHANGED hasNext
     ELSE hasNext' = FALSE /\ UNCHANGED descIdx
  /\ pc' = IF Len(chain') > Num \/ ~hasNext' THEN "done" ELSE "walk"
  /\ UNCHANGED <<table, head>>

\* Mutant: a descriptor already in the chain is not pushed again, so a circular
\* chain never grows to the cap.
PushDescOnce ==
  /\ pc = "walk" /\ hasNext /\ descIdx \in InMemory
  /\ chain' = IF \E i \in 1..Len(chain) : chain[i] = descIdx
              THEN chain ELSE Append(chain, descIdx)
  /\ IF table[descIdx].more
     THEN descIdx' = table[descIdx].next /\ UNCHANGED hasNext
     ELSE hasNext' = FALSE /\ UNCHANGED descIdx
  /\ pc' = IF Len(chain') > Num \/ ~hasNext' THEN "done" ELSE "walk"
  /\ UNCHANGED <<table, head>>

\* Push, follow NEXT, and stop once the chain is longer than the queue.
PushDesc ==
  /\ pc = "walk" /\ hasNext /\ descIdx \in InMemory
  /\ chain' = Append(chain, descIdx)
  /\ IF table[descIdx].more
     THEN descIdx' = table[descIdx].next /\ UNCHANGED hasNext
     ELSE hasNext' = FALSE /\ UNCHANGED descIdx
  /\ pc' = IF Len(chain') > Num \/ ~hasNext' THEN "done" ELSE "walk"
  /\ UNCHANGED <<table, head>>

Walk == ReadFails \/ PushDesc

-----------------------------------------------------------------------------
(* Properties.                                                              *)

\* What the guest means by the head it gave: it leads through c, all of it in
\* guest memory, each descriptor but the last naming the next one.
GuestChain(c) ==
  /\ c[1] = head
  /\ \A i \in 1..(Len(c) - 1) : table[c[i]].more /\ c[i + 1] = table[c[i]].next
  /\ ~table[c[Len(c)]].more

\* A chain that fits the queue reaches the backend whole: the cap and the
\* memory check of Virtqueue::process cut only chains that no driver may build.
FittingChainIsWhole ==
  pc = "done" =>
    \A n \in 1..Num : \A c \in [1..n -> InMemory] : GuestChain(c) => chain = c
=============================================================================
