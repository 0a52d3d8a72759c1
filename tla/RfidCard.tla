------------------------------ MODULE RfidCard ------------------------------
(***************************************************************************)
(* The RFID reader and writer (rfid.rs) and the record format it writes    *)
(* (rfid_record.rs).  A tick that finds a card works through its blocks    *)
(* one after the other while the card may leave the field; commands come   *)
(* between ticks.                                                          *)
(*                                                                         *)
(* A payload is a sequence of parts of one block each; the first block of  *)
(* a record also says how many parts there are.  A block is [n, part],     *)
(* with n = 0 when it does not begin with the magic, Foreign when another  *)
(* version does.                                                           *)
(***************************************************************************)
EXTENDS Integers, Sequences

CONSTANTS
  Cards,      \* uids
  Usable,     \* number of USABLE_BLOCKS; also the longest payload, in parts
  MaxParts,   \* bound: parts sent by the desktop
  MaxSwaps    \* bound: cards taken from the field or put on it

ASSUME RfidAssumption ==
  {Usable, MaxParts, MaxSwaps} \subseteq Nat /\ Usable > 0

VARIABLES
  rfidMode,    \* "Read", "Write"
  writeBuffer, \* temp_write_data
  writeState,  \* "Good", "Bad"
  rgb,         \* the status LED
  card,        \* the blocks of each card
  field,       \* the card before the reader, or NoCard
  selected,    \* it has been there since it was selected
  op,          \* the part of the tick: "None", "Writing", "Reading"
  uid,         \* the selected card of this tick
  block,       \* index of the next block of the loop
  got, wanted, \* temp_read_data, and the number of blocks to read
  report,      \* the last GetWriteState: result, card and payload
  shownCard,   \* the last GetCard
  attempts,    \* write attempts that are over
  parts, swaps \* what the bounds count

rfidVars == <<rfidMode, writeBuffer, writeState, rgb, card, field, selected, op, uid, block, got,
              wanted, report, shownCard, attempts, parts, swaps>>

NoCard == "NoCard"
Foreign == -1
NoPart == [attempt |-> 0, id |-> 0]
Parts == [attempt : 0..MaxParts, id : 0..MaxParts]
Blocks == [n : Foreign..Usable, part : Parts]
BlankBlocks == {[n |-> 0, part |-> NoPart], [n |-> Foreign, part |-> NoPart]}

\* encode, blocks_to_read and decode.
Encode(payload) ==
  [i \in 1..Len(payload) |-> [n |-> IF i = 1 THEN Len(payload) ELSE 0, part |-> payload[i]]]
BlocksToRead(first) == IF first.n > 0 THEN first.n ELSE 1
Unreadable == <<>>
Decode(blocks) ==
  IF blocks = <<>> \/ blocks[1].n = Foreign \/ blocks[1].n > Len(blocks) THEN Unreadable
  ELSE [i \in 1..BlocksToRead(blocks[1]) |-> blocks[i].part]

RfidInit ==
  /\ rfidMode = "Read" /\ writeBuffer = <<>> /\ writeState = "Good" /\ rgb = "Off"
  /\ \E b \in BlankBlocks : card = [c \in Cards |-> [i \in 1..Usable |-> b]]
  /\ field = NoCard /\ selected = FALSE
  /\ op = "None" /\ uid = NoCard /\ block = 1 /\ got = <<>> /\ wanted = 1
  /\ report = [state |-> "None", uid |-> NoCard, payload |-> <<>>]
  /\ shownCard = [uid |-> NoCard, data |-> <<>>]
  /\ attempts = 0 /\ parts = 0 /\ swaps = 0

\* The card is taken away, or another or the same one comes.
CardMoves ==
  /\ swaps < MaxSwaps /\ swaps' = swaps + 1
  /\ field' \in (Cards \cup {NoCard}) \ {field} /\ selected' = FALSE
  /\ UNCHANGED <<rfidMode, writeBuffer, writeState, rgb, card, op, uid, block, got, wanted, report,
                 shownCard, attempts, parts>>

-----------------------------------------------------------------------------
(* Commands. *)

ReadMode ==
  /\ op = "None"
  /\ rfidMode' = "Read" /\ writeBuffer' = <<>>
  /\ UNCHANGED <<writeState, rgb, card, field, selected, op, uid, block, got, wanted, report,
                 shownCard, attempts, parts, swaps>>

WriteMode ==
  /\ op = "None" /\ rfidMode' = "Write"
  /\ UNCHANGED <<writeBuffer, writeState, rgb, card, field, selected, op, uid, block, got, wanted,
                 report, shownCard, attempts, parts, swaps>>

\* A payload of k parts is appended; one that does not fit is refused as a whole.
WritePayload(k) ==
  /\ op = "None" /\ parts + k <= MaxParts
  /\ Len(writeBuffer) + k <= Usable
  /\ writeBuffer' = writeBuffer \o [i \in 1..k |-> [attempt |-> attempts, id |-> parts + i]]
  /\ parts' = parts + k /\ rfidMode' = "Write"
  /\ UNCHANGED <<writeState, rgb, card, field, selected, op, uid, block, got, wanted, report,
                 shownCard, attempts, swaps>>

-----------------------------------------------------------------------------
(* The tick up to the selection of a card. *)

\* No card, or the reader failed; the LED shows the mode.
NothingFound ==
  /\ op = "None"
  /\ rgb' = IF rfidMode = "Write" THEN "Green" ELSE "Off"
  /\ UNCHANGED <<rfidMode, writeBuffer, writeState, card, field, selected, op, uid, block, got, wanted,
                 report, shownCard, attempts, parts, swaps>>

SelectFails ==
  /\ op = "None" /\ field # NoCard
  /\ rgb' = "Red"
  /\ UNCHANGED <<rfidMode, writeBuffer, writeState, card, field, selected, op, uid, block, got, wanted,
                 report, shownCard, attempts, parts, swaps>>

\* Every attempt reports its own result, not an earlier one's.
Select ==
  /\ op = "None" /\ field # NoCard
  /\ selected' = TRUE /\ uid' = field /\ rgb' = "Blue" /\ block' = 1
  /\ \/ /\ rfidMode = "Read" /\ op' = "Reading" /\ got' = <<>> /\ wanted' = 1
        /\ UNCHANGED <<rfidMode, writeState, report>>
     \/ /\ rfidMode = "Write" /\ writeBuffer = <<>> /\ rfidMode' = "Read"
        /\ UNCHANGED <<op, got, wanted, writeState, report>>
     \/ /\ rfidMode = "Write" /\ writeBuffer # <<>> /\ op' = "Writing" /\ writeState' = "Good"
        /\ report' = [report EXCEPT !.state = IF report.uid = field THEN "None" ELSE @]
        /\ UNCHANGED <<rfidMode, got, wanted>>
  /\ UNCHANGED <<writeBuffer, card, field, shownCard, attempts, parts, swaps>>

-----------------------------------------------------------------------------
(* write_card, block by block. *)

ReadBack == op' = "Reading" /\ block' = 1 /\ got' = <<>> /\ wanted' = 1

WriteBlock ==
  /\ op = "Writing" /\ selected
  /\ card' = [card EXCEPT ![uid][block] = Encode(writeBuffer)[block]]
  /\ IF block >= Len(writeBuffer) THEN ReadBack
     ELSE block' = block + 1 /\ UNCHANGED <<op, got, wanted>>
  /\ UNCHANGED <<rfidMode, writeBuffer, writeState, rgb, field, selected, uid, report, shownCard,
                 attempts, parts, swaps>>

\* Mutant: the failure is only logged.
OnlyLogged == UNCHANGED writeState

BadWrite == writeState' = "Bad"

\* The authentication or the write failed; a card may have stored the block all the same.
WriteFails ==
  /\ op = "Writing"
  /\ \/ UNCHANGED card
     \/ selected /\ card' = [card EXCEPT ![uid][block] = Encode(writeBuffer)[block]]
  /\ BadWrite /\ ReadBack
  /\ UNCHANGED <<rfidMode, writeBuffer, rgb, field, selected, uid, report, shownCard,
                 attempts, parts, swaps>>

-----------------------------------------------------------------------------
(* read_card and send_card_data, and what the tick does after them. *)

\* Mutant: the data stay for a retry.
KeepData == UNCHANGED writeBuffer

\* A write attempt is over, whatever its result.
DropData == writeBuffer' = <<>>

EndTick(readable) ==
  /\ op' = "None"
  /\ \/ rfidMode = "Read" /\ UNCHANGED <<rfidMode, writeBuffer, writeState, rgb, report, attempts>>
     \/ /\ rfidMode = "Write" /\ rfidMode' = "Read"
        /\ writeState' = IF readable THEN writeState ELSE "Bad"
        /\ report' = [state |-> writeState', uid |-> uid, payload |-> writeBuffer]
        /\ rgb' = IF writeState' = "Good" THEN "Off" ELSE "Red"
        /\ DropData /\ attempts' = attempts + 1

Reading == op = "Reading" /\ Len(got) < wanted /\ block <= Usable

ReadBlock ==
  /\ Reading /\ selected
  /\ got' = Append(got, card[uid][block]) /\ block' = block + 1
  /\ wanted' = IF got = <<>> THEN BlocksToRead(card[uid][block]) ELSE wanted
  /\ UNCHANGED <<rfidMode, writeBuffer, writeState, rgb, card, field, selected, op, uid, report,
                 shownCard, attempts, parts, swaps>>

\* A block that cannot be authenticated is left out.
SkipBlock ==
  /\ Reading /\ block' = block + 1
  /\ UNCHANGED <<rfidMode, writeBuffer, writeState, rgb, card, field, selected, op, uid, got, wanted,
                 report, shownCard, attempts, parts, swaps>>

\* mf_read or stop_crypto1 failed; the latter after the block was read.
ReadBlockFails ==
  /\ Reading
  /\ \/ UNCHANGED got
     \/ selected /\ got' = Append(got, card[uid][block])
  /\ EndTick(FALSE)
  /\ UNCHANGED <<card, field, selected, uid, block, wanted, shownCard, parts, swaps>>

CardRead ==
  /\ op = "Reading" /\ ~Reading
  /\ shownCard' = IF Decode(got) = Unreadable THEN shownCard ELSE [uid |-> uid, data |-> Decode(got)]
  /\ EndTick(Decode(got) # Unreadable)
  /\ UNCHANGED <<card, field, selected, uid, block, got, wanted, parts, swaps>>

RfidNext ==
  \/ CardMoves \/ ReadMode \/ WriteMode \/ \E k \in 1..Usable : WritePayload(k)
  \/ NothingFound \/ SelectFails \/ Select
  \/ WriteBlock \/ WriteFails \/ ReadBlock \/ SkipBlock \/ ReadBlockFails \/ CardRead

RfidSpec == RfidInit /\ [][RfidNext]_rfidVars

-----------------------------------------------------------------------------
(* Properties. *)

\* Every variable holds a value of its type, and the write buffer fits on a card.
RfidTypeOK ==
  /\ rfidMode \in {"Read", "Write"} /\ writeState \in {"Good", "Bad"}
  /\ writeBuffer \in Seq(Parts) /\ Len(writeBuffer) <= Usable
  /\ card \in [Cards -> [1..Usable -> Blocks]] /\ field \in Cards \cup {NoCard}
  /\ op \in {"None", "Writing", "Reading"} /\ op # "None" => uid \in Cards
  /\ op = "Writing" => block \in 1..Len(writeBuffer)
  /\ got \in Seq(Blocks) /\ Len(got) <= Usable /\ block \in 1..(Usable + 1)

\* A write that was reported good is on the card, as long as nothing new is written to it
\* (rfid.rs:181-196, 299-362).
Holds(c, payload) == Decode(SubSeq(card[c], 1, BlocksToRead(card[c][1]))) = payload
GoodIsOnCard == report.state = "Good" => Holds(report.uid, report.payload)

\* The data of one attempt are never joined onto those of an earlier one
\* (rfid.rs:206-212).
NeverJoined == \A i \in 1..Len(writeBuffer) : writeBuffer[i].attempt = attempts
=============================================================================
