------------------------------ MODULE Console -------------------------------
(***************************************************************************)
(* The stdin reader of src/input.rs and the escape machine of               *)
(* src/terminal.rs: keys are typed, read in batches wherever the reads cut  *)
(* them, decoded, and given to the UART.  Somebody else may request         *)
(* shutdown at any moment, stdin may end, poll and read may fail.           *)
(*                                                                          *)
(* The reader is at "loop" (the flag check, poll and read), "decode" (a byte *)
(* of the batch goes through the escape machine), "inject", "finish" (the    *)
(* bytes are injected) or "gone".                                           *)
(***************************************************************************)
EXTENDS Naturals, Sequences, FiniteSets

CONSTANTS
  MaxKeys,      \* bound: keys typed
  Batch         \* bytes one read returns at most (64 in the code)

ASSUME ConsoleAssumption == MaxKeys \in Nat /\ Batch \in Nat \ {0}

\* Ctrl-A, the two command letters, and a letter that is none.
Keys == {"^A", "x", "?", "a"}

VARIABLES
  tty,          \* bytes typed and not yet read
  reader,       \* where the reader is
  prefixSeen,   \* EscapeState::prefix_seen
  buf,          \* bytes read and not yet decoded
  batch,        \* what the batch decoded to: forward, help and quit
  flag,         \* the shutdown flag
  consumed,     \* every byte read
  injected      \* every byte given to inject_rx

consoleVars == <<tty, reader, prefixSeen, buf, batch, flag, consumed, injected>>

NewBatch == [forward |-> <<>>, help |-> FALSE, quit |-> FALSE]

ConsoleInit ==
  /\ tty = <<>> /\ reader = "loop" /\ prefixSeen = FALSE
  /\ buf = <<>> /\ batch = NewBatch /\ flag = FALSE
  /\ consumed = <<>> /\ injected = <<>>

-----------------------------------------------------------------------------
(* The reader.                                                              *)

Type(key) ==
  /\ Len(consumed) + Len(tty) < MaxKeys
  /\ tty' = Append(tty, key)
  /\ UNCHANGED <<reader, prefixSeen, buf, batch, flag, consumed, injected>>

\* A vCPU thread requests shutdown.
OthersRequest ==
  /\ ~flag /\ flag' = TRUE
  /\ UNCHANGED <<tty, reader, prefixSeen, buf, batch, consumed, injected>>

\* The flag is set.
ReaderReturns ==
  /\ reader = "loop" /\ flag
  /\ reader' = "gone"
  /\ UNCHANGED <<tty, prefixSeen, buf, batch, flag, consumed, injected>>

\* stdin is at its end, or poll or read fails.  (A timeout ticks the UART, see
\* Serial, and EINTR does nothing: back to the top.)
InputFails ==
  /\ reader = "loop" /\ ~flag
  /\ flag' = TRUE /\ reader' = "gone"
  /\ UNCHANGED <<tty, prefixSeen, buf, batch, consumed, injected>>

\* Mutant: a new escape machine for every batch.
ReadBatchAfresh ==
  /\ reader = "loop" /\ ~flag
  /\ \E n \in 1..Batch :
       /\ n <= Len(tty)
       /\ buf' = SubSeq(tty, 1, n)
       /\ tty' = SubSeq(tty, n + 1, Len(tty))
  /\ consumed' = consumed \o buf'
  /\ batch' = NewBatch /\ prefixSeen' = FALSE
  /\ reader' = "decode"
  /\ UNCHANGED <<flag, injected>>

\* poll finds input and read returns up to Batch bytes of it.
ReadBatch ==
  /\ reader = "loop" /\ ~flag
  /\ \E n \in 1..Batch :
       /\ n <= Len(tty)
       /\ buf' = SubSeq(tty, 1, n)
       /\ tty' = SubSeq(tty, n + 1, Len(tty))
  /\ consumed' = consumed \o buf'
  /\ batch' = NewBatch
  /\ reader' = "decode"
  /\ UNCHANGED <<prefixSeen, flag, injected>>

\* EscapeState::feed: what is to be done with a byte.
feed(prefix, byte) ==
  IF prefix
  THEN CASE byte = "x" -> "Quit" [] byte = "?" -> "Help" [] OTHER -> "Forward"
  ELSE IF byte = "^A" THEN "Swallowed" ELSE "Forward"

\* One turn of the loop over the batch, which a quit leaves.
DecodeByte ==
  /\ reader = "decode"
  /\ LET action == feed(prefixSeen, Head(buf)) IN
       /\ prefixSeen' = (action = "Swallowed")
       /\ batch' = [forward |-> IF action = "Forward"
                                THEN Append(batch.forward, Head(buf)) ELSE batch.forward,
                    help    |-> batch.help \/ action = "Help",
                    quit    |-> action = "Quit"]
       /\ buf' = IF action = "Quit" THEN <<>> ELSE Tail(buf)
  /\ reader' = IF buf' = <<>> THEN "inject" ELSE "decode"
  /\ UNCHANGED <<tty, flag, consumed, injected>>

\* One lock of the UART for the whole batch.
InjectBatch ==
  /\ reader = "inject"
  /\ injected' = injected \o batch.forward
  /\ reader' = "finish"
  /\ UNCHANGED <<tty, prefixSeen, buf, batch, flag, consumed>>

\* Mutant: a batch with a help command in it does not look at the quit.
FinishBatchHelpOrQuit ==
  /\ reader = "finish"
  /\ flag' = (flag \/ (batch.quit /\ ~batch.help))
  /\ reader' = IF batch.quit /\ ~batch.help THEN "gone" ELSE "loop"
  /\ UNCHANGED <<tty, prefixSeen, buf, batch, consumed, injected>>

\* The help text, if the batch asks for it, changes nothing; a quit does.
FinishBatch ==
  /\ reader = "finish"
  /\ flag' = (flag \/ batch.quit)
  /\ reader' = IF batch.quit THEN "gone" ELSE "loop"
  /\ UNCHANGED <<tty, prefixSeen, buf, batch, consumed, injected>>

ReaderStep == ReaderReturns \/ ReadBatch \/ DecodeByte \/ InjectBatch \/ FinishBatch

Returned == reader = "gone" /\ UNCHANGED consoleVars

ConsoleNext ==
  \/ \E key \in Keys : Type(key)
  \/ OthersRequest \/ ReaderStep \/ InputFails \/ Returned

ConsoleSpec == ConsoleInit /\ [][ConsoleNext]_consoleVars

\* The reader thread runs, and poll reports input that is there.
ConsoleFairSpec == ConsoleSpec /\ WF_consoleVars(ReaderStep)

-----------------------------------------------------------------------------
(* Properties.  The reference reads the stream as a whole.                  *)

\* Byte i is escaped when an odd number of ^A come right before it.
Escaped(stream, i) ==
  \E n \in 1..(i - 1) :
    /\ n % 2 = 1
    /\ \A j \in (i - n)..(i - 1) : stream[j] = "^A"
    /\ i - n = 1 \/ stream[i - n - 1] # "^A"

\* An escaped byte is a command or stands for itself.
ForGuest(stream, i) ==
  IF Escaped(stream, i) THEN stream[i] \notin {"x", "?"} ELSE stream[i] # "^A"

QuitsAt(stream, i) == Escaped(stream, i) /\ stream[i] = "x"

\* The places of the bytes that the stream means for the guest: those for it up
\* to the first quit.
Meant(stream) ==
  {i \in 1..Len(stream) :
     ForGuest(stream, i) /\ \A j \in 1..(i - 1) : ~QuitsAt(stream, j)}

\* However the reads cut the typed bytes, the guest is given exactly the ones
\* meant for it, in order: those typed ahead of a quit, also in the same read,
\* are not lost with it, and those typed after it are not delivered.
KeysReachGuest ==
  reader \notin {"decode", "inject"} =>
    LET places == Meant(consumed) IN
      /\ Len(injected) = Cardinality(places)
      /\ \A i \in places :
           injected[Cardinality({p \in places : p <= i})] = consumed[i]

\* A Ctrl-A x the reader has read leads to a shutdown, wherever its two keys
\* fell in the reads and whatever else the batch held; and unless the reader
\* stops for another reason, every typed Ctrl-A x is taken in.
QuitIsHonoured ==
  (\E i \in 1..Len(consumed \o tty) : QuitsAt(consumed \o tty, i)) ~> (flag /\ reader = "gone")
=============================================================================
