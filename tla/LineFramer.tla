----------------------------- MODULE LineFramer -----------------------------
(***************************************************************************)
(* The splitting of a byte stream into lines (framing.rs), which every     *)
(* transport uses.  `push` goes byte by byte, so that one action takes one *)
(* byte; how a read cuts the stream makes no difference.                   *)
(***************************************************************************)
EXTENDS Integers, Sequences

CONSTANTS
  MaxLine,   \* max: the longest line content
  MaxBytes   \* bound: bytes of a line

ASSUME FramerAssumption == MaxLine \in Nat \ {0} /\ MaxBytes \in Nat

\* A letter stands for every byte with no meaning of its own.
NL == "newline"
CR == "return"
Blanks == {"space", CR}
Bytes == {"letter", NL} \cup Blanks
Overflow == <<"Overflow">>
Line(content) == <<"Line", content>>

VARIABLES
  buffer, discarding, \* LineFramer
  line, yet,          \* history: the line begun and the frames it has given so far
  ended, gave          \* history: the line that has just ended, without newline, and its frames

framerVars == <<buffer, discarding, line, yet, ended, gave>>

FramerInit ==
  /\ buffer = <<>> /\ discarding = FALSE
  /\ line = <<>> /\ yet = <<>> /\ ended = <<>> /\ gave = <<>>

LastOf(s) == s[Len(s)]
AllBlank(s) == \A i \in 1..Len(s) : s[i] \in Blanks

\* One trailing return is taken off.
Chomped(s) == IF s # <<>> /\ LastOf(s) = CR THEN SubSeq(s, 1, Len(s) - 1) ELSE s

\* Mutant: bytes of a blank line stay where they are.
KeepsBlank == IF AllBlank(Chomped(buffer)) THEN buffer ELSE <<>>

Emptied == <<>>

EndLine ==
  /\ buffer' = Emptied /\ discarding' = FALSE
  /\ ended' = line /\ line' = <<>> /\ yet' = <<>>
  /\ gave' = IF discarding \/ AllBlank(Chomped(buffer)) THEN yet
            ELSE Append(yet, Line(Chomped(buffer)))

\* There is room, or it is the return of a line that fills the buffer.
Room(b) == Len(buffer) < MaxLine \/ (b = CR /\ Len(buffer) = MaxLine)

TakeByte(b) ==
  /\ line' = Append(line, b) /\ ended' = <<>> /\ gave' = <<>>
  /\ IF discarding THEN UNCHANGED <<buffer, discarding, yet>>
     ELSE IF Room(b) THEN buffer' = Append(buffer, b) /\ UNCHANGED <<discarding, yet>>
     ELSE buffer' = <<>> /\ discarding' = TRUE /\ yet' = Append(yet, Overflow)

PushByte == EndLine \/ (Len(line) < MaxBytes /\ \E b \in Bytes \ {NL} : TakeByte(b))

\* clear, after a disconnect: a new stream begins.
ClearFramer ==
  /\ buffer' = <<>> /\ discarding' = FALSE
  /\ line' = <<>> /\ yet' = <<>> /\ ended' = <<>> /\ gave' = <<>>

FramerNext == PushByte \/ ClearFramer

FramerSpec == FramerInit /\ [][FramerNext]_framerVars

-----------------------------------------------------------------------------
(* Properties. *)

\* Every variable holds a value of its type.
FramerTypeOK ==
  /\ buffer \in Seq(Bytes \ {NL}) /\ discarding \in BOOLEAN
  /\ line \in Seq(Bytes \ {NL}) /\ ended \in Seq(Bytes \ {NL})

\* The definition that needs no machine: what a line is ...
TooLong(l) == Len(l) > MaxLine /\ ~(Len(l) = MaxLine + 1 /\ LastOf(l) = CR)

\* ... and the frames it gives.
FramesOf(l) ==
  IF TooLong(l) THEN <<Overflow>>
  ELSE IF AllBlank(Chomped(l)) THEN <<>> ELSE <<Line(Chomped(l))>>

\* Whatever came before, every line of the stream gives its own frames: its content
\* without one trailing return, nothing if it is blank, or a single overflow, at once,
\* if it is too long (framing.rs:5-8, 46-75).
FramesAreLines ==
  /\ gave = FramesOf(ended)
  /\ yet = (IF TooLong(line) THEN <<Overflow>> ELSE <<>>)
=============================================================================
