-------------------------- MODULE FirmwarePipeline --------------------------
(***************************************************************************)
(* The threads of the Bluetooth firmware image and the bounded queues that *)
(* connect them.  The main loop (runtime/mod.rs) ticks modules, handles    *)
(* commands and announces the modules; it emits into the emitter queue.    *)
(* The sender thread (manager.rs) moves messages to the work queue, which  *)
(* it shares with the SPP callbacks.  The Bluetooth worker takes work      *)
(* items and hands commands to the main loop through the incoming queue.   *)
(*                                                                         *)
(*   main --emitQ--> sender --work--> worker --incoming--> main            *)
(*                              ^                                          *)
(*                       SPP callbacks                                     *)
(*                                                                         *)
(* One connection, open from the start until a callback meets a full work  *)
(* queue: then the worker drops it, and the data that is still queued with *)
(* it.  What else the worker does with its connection (frames, writes,     *)
(* replay) is not part of this module.  Discovery messages and commands    *)
(* carry their number, so that loss and reordering show; telemetry does    *)
(* not.                                                                    *)
(***************************************************************************)
EXTENDS Naturals, Sequences, FiniteSets, SequencesExt

CONSTANTS
  Modules,         \* number of registered modules
  Budget,          \* MAX_COMMANDS_PER_PERIOD
  EmitterCap,      \* capacity of the emitter queue (128)
  WorkCap,         \* capacity of the work queue (128)
  IncomingCap,     \* capacity of the incoming queue (128)
  MaxCount,        \* u32::MAX, where a drop counter saturates
  MaxBatch,        \* bound: commands in one SPP data callback
  MaxCmd,          \* bound: numbered commands the peer sends
  MaxRediscover,   \* bound: how many of them are Rediscover
  MaxTelemetry,    \* bound: telemetry messages of ticks and handlers
  MaxReports,      \* bound: drop reports
  Flood            \* whether the peer goes on sending unnumbered commands forever

ASSUME CapacitiesAssumption ==
  {Modules, Budget, EmitterCap, WorkCap, IncomingCap, MaxCount, MaxBatch} \subseteq Nat \ {0}
ASSUME PipelineBoundsAssumption ==
  /\ {MaxCmd, MaxRediscover, MaxTelemetry, MaxReports} \subseteq Nat
  /\ Flood \in BOOLEAN

VARIABLES
  main,        \* what the main loop does: "Tick", "Drain" or "Wait"
  left,        \* commands it may still handle before it waits
  late,        \* the deadline of the current period has passed
  todo,        \* messages register_all and the snapshot have still to emit
  emitQ, work, incoming, \* the three queues
  held,        \* what the sender thread has taken and not yet handed on, <<>> or one
  batch,       \* commands of one data item the worker has still to deliver
  checked,     \* the worker has looked at `overflow` and receives next
  overflow,    \* a callback has lost data
  linked,      \* the worker's `connection` is Some
  drops,       \* DropCounters: [emitter, transport]
  announced,   \* discovery messages created so far
  learned,     \* the last discovery message the worker has remembered
  sent,        \* numbered commands the callback has received
  handled,     \* numbered commands the main loop has handled, in order
  arrived,     \* telemetry and reports the worker has received
  taken,       \* drops taken from the counters, for reports
  dropped,     \* drops that happened
  rediscovers, telemetry, reports \* what the bounds count

mainVars == <<main, left, late>>
workerVars == <<batch, checked, overflow, linked>>
counterVars == <<drops, taken, dropped, reports>>
vars == <<mainVars, todo, emitQ, work, incoming, held, workerVars, counterVars, announced,
          learned, arrived, sent, handled, rediscovers, telemetry>>

Discovery(n) == [kind |-> "Discovery", n |-> n]
Telemetry == [kind |-> "Telemetry", n |-> 0]
Report(n) == [kind |-> "Report", n |-> n]
Data(cmds) == [kind |-> "Data", cmds |-> cmds]
Command(op, n) == [op |-> op, n |-> n]

Reliable(m) == m.kind = "Discovery"

\* The system snapshot, then every module's registration and its first_emit event.
\* after is the number of the last discovery message before these.
Announcement(after) ==
  [i \in 1..(2 * Modules + 1) |->
     IF i = 1 THEN Discovery(after + 1)
     ELSE IF i % 2 = 0 THEN Discovery(after + 1 + i \div 2) ELSE Telemetry]

Init ==
  /\ main = "Tick" /\ left = 0 /\ late = FALSE
  /\ todo = Announcement(0) /\ announced = Modules + 1
  /\ emitQ = <<>> /\ work = <<>> /\ incoming = <<>>
  /\ held = <<>> /\ batch = <<>>
  /\ checked = FALSE /\ overflow = FALSE /\ linked = TRUE
  /\ drops = [emitter |-> 0, transport |-> 0] /\ taken = 0 /\ dropped = 0
  /\ learned = 0 /\ arrived = 0 /\ sent = 0 /\ handled = <<>>
  /\ rediscovers = 0 /\ telemetry = 0 /\ reports = 0

\* Mutant: a drop that is not counted.
RecordNothing(stage) == dropped' = dropped + 1 /\ UNCHANGED drops

\* DropCounters::record, saturating.
Record(stage) ==
  /\ drops' = [drops EXCEPT ![stage] = IF @ = MaxCount THEN @ ELSE @ + 1]
  /\ dropped' = dropped + 1

-----------------------------------------------------------------------------
(* The main loop. *)

\* TransportEmitter::emit_reliable, a blocking send.
EmitReliable(m) ==
  /\ Len(emitQ) < EmitterCap
  /\ emitQ' = Append(emitQ, m)
  /\ UNCHANGED <<drops, dropped>>

\* TransportEmitter::try_emit: a full queue drops the message.
TryEmit(m) ==
  IF Len(emitQ) < EmitterCap
    THEN emitQ' = Append(emitQ, m) /\ UNCHANGED <<drops, dropped>>
    ELSE Record("emitter") /\ UNCHANGED emitQ

\* Boot or rediscovery: emit the next message of the announcement.
Emit ==
  /\ todo # <<>>
  /\ todo' = Tail(todo)
  /\ IF Reliable(Head(todo)) THEN EmitReliable(Head(todo)) ELSE TryEmit(Head(todo))
  /\ UNCHANGED <<mainVars, work, incoming, held, workerVars, taken, reports, announced, learned, arrived,
                 sent, handled, rediscovers, telemetry>>

\* A module or the tick error reporter may emit an event or a SysLog.
MaybeTelemetry ==
  \/ UNCHANGED <<emitQ, drops, dropped, telemetry>>
  \/ /\ telemetry < MaxTelemetry
     /\ telemetry' = telemetry + 1
     /\ TryEmit(Telemetry)

\* Mutant: no budget.
Unlimited(n) == n

\* The commands that may still be handled in this period after one of n.
Spend(n) == n - 1

\* An iteration starts: tick every module, then drain the pending commands.
Tick ==
  /\ main = "Tick" /\ todo = <<>>
  /\ MaybeTelemetry
  /\ main' = "Drain" /\ left' = Budget
  /\ UNCHANGED <<late, todo, work, incoming, held, workerVars, taken, reports, announced, learned, arrived,
                 sent, handled, rediscovers>>

\* dispatch, and the handler of a module or the rediscovery.
Handle(cmd) ==
  /\ handled' = IF cmd.n = 0 THEN handled ELSE Append(handled, cmd.n)
  /\ IF cmd.op = "Rediscover"
       THEN /\ todo' = Announcement(announced)
            /\ announced' = announced + Modules + 1
            /\ UNCHANGED <<emitQ, drops, dropped, telemetry>>
       ELSE /\ MaybeTelemetry
            /\ UNCHANGED <<todo, announced>>

DrainCommand ==
  /\ main = "Drain" /\ todo = <<>> /\ left > 0 /\ incoming # <<>>
  /\ Handle(Head(incoming))
  /\ incoming' = Tail(incoming)
  /\ left' = Spend(left)
  /\ UNCHANGED <<main, late, work, held, workerVars, taken, reports, learned, arrived, sent, rediscovers>>

DrainDone ==
  /\ main = "Drain" /\ todo = <<>>
  /\ left = 0 \/ incoming = <<>>
  /\ main' = "Wait"
  /\ UNCHANGED <<left, late, todo, emitQ, work, incoming, held, workerVars, counterVars, announced,
                 learned, arrived, sent, handled, rediscovers, telemetry>>

\* A command wakes the waiting loop, which then checks the deadline again.
WaitCommand ==
  /\ main = "Wait" /\ todo = <<>> /\ ~late /\ incoming # <<>>
  /\ Handle(Head(incoming))
  /\ incoming' = Tail(incoming)
  /\ UNCHANGED <<mainVars, work, held, workerVars, taken, reports, learned, arrived, sent, rediscovers>>

\* The next deadline always lies in the future (next_deadline).
WaitOver ==
  /\ main = "Wait" /\ todo = <<>> /\ late
  /\ main' = "Tick" /\ late' = FALSE
  /\ UNCHANGED <<left, todo, emitQ, work, incoming, held, workerVars, counterVars, announced,
                 learned, arrived, sent, handled, rediscovers, telemetry>>

DeadlinePasses ==
  /\ ~late
  /\ late' = TRUE
  /\ UNCHANGED <<main, left, todo, emitQ, work, incoming, held, workerVars, counterVars, announced,
                 learned, arrived, sent, handled, rediscovers, telemetry>>

-----------------------------------------------------------------------------
(* The sender thread. *)

SenderTake ==
  /\ held = <<>> /\ emitQ # <<>>
  /\ held' = <<Head(emitQ)>>
  /\ emitQ' = Tail(emitQ)
  /\ UNCHANGED <<mainVars, todo, work, incoming, workerVars, counterVars, announced, learned, arrived, sent,
                 handled, rediscovers, telemetry>>

\* Every REPORT_INTERVAL: take and clear the counters; the report is sent next.
ReportDrops ==
  /\ held = <<>> /\ reports < MaxReports
  /\ drops.emitter + drops.transport > 0
  /\ held' = <<Report(drops.emitter + drops.transport)>>
  /\ taken' = taken + drops.emitter + drops.transport
  /\ drops' = [emitter |-> 0, transport |-> 0]
  /\ reports' = reports + 1
  /\ UNCHANGED <<mainVars, todo, emitQ, work, incoming, workerVars, dropped, announced, learned, arrived,
                 sent, handled, rediscovers, telemetry>>

\* Mutant: a blocked discovery message gives way.
HandOnTry(m) ==
  IF Len(work) < WorkCap
    THEN work' = Append(work, m) /\ UNCHANGED <<drops, dropped>>
    ELSE Record("transport") /\ UNCHANGED work

\* Bluetooth::event: discovery messages wait for room, anything else is dropped.
HandOn(m) ==
  \/ /\ Len(work) < WorkCap
     /\ work' = Append(work, m)
     /\ UNCHANGED <<drops, dropped>>
  \/ /\ ~Reliable(m) /\ Len(work) = WorkCap
     /\ Record("transport")
     /\ UNCHANGED work

SenderPut ==
  /\ held # <<>>
  /\ HandOn(held[1])
  /\ held' = <<>>
  /\ UNCHANGED <<mainVars, todo, emitQ, incoming, workerVars, taken, reports, announced, learned, arrived,
                 sent, handled, rediscovers, telemetry>>

-----------------------------------------------------------------------------
(* The Bluetooth worker and the callbacks that feed it. *)

\* Mutant: the flag is cleared and the connection kept.
Kept == linked

\* Lost data ends the connection.
Resynced == linked /\ ~overflow

\* The worker looks at the flag before it receives; a callback may set it between.
WorkerCheck ==
  /\ batch = <<>> /\ ~checked
  /\ checked' = TRUE /\ overflow' = FALSE
  /\ linked' = Resynced
  /\ UNCHANGED <<mainVars, todo, emitQ, work, incoming, held, batch, counterVars, announced,
                 learned, arrived, sent, handled, rediscovers, telemetry>>

Receive ==
  /\ batch = <<>> /\ checked
  /\ checked' = FALSE
  /\ UNCHANGED <<overflow, linked>>

\* recv_timeout finds nothing.
WorkerIdle ==
  /\ Receive /\ work = <<>>
  /\ UNCHANGED <<mainVars, todo, emitQ, work, incoming, held, batch, counterVars, announced,
                 learned, arrived, sent, handled, rediscovers, telemetry>>

\* Work::Message: remember() keeps discovery messages in the replay cache.
WorkerMessage ==
  /\ Receive /\ work # <<>> /\ Head(work).kind # "Data"
  /\ work' = Tail(work)
  /\ IF Reliable(Head(work))
       THEN learned' = Head(work).n /\ UNCHANGED arrived
       ELSE arrived' = arrived + 1 /\ UNCHANGED learned
  /\ UNCHANGED <<mainVars, todo, emitQ, incoming, held, batch, counterVars, announced, sent,
                 handled, rediscovers, telemetry>>

\* Work::Data: the lines of one callback, unless the connection was dropped.
WorkerData ==
  /\ Receive /\ work # <<>> /\ Head(work).kind = "Data"
  /\ work' = Tail(work)
  /\ batch' = IF linked THEN Head(work).cmds ELSE <<>>
  /\ UNCHANGED <<mainVars, todo, emitQ, incoming, held, counterVars, announced, learned, arrived, sent,
                 handled, rediscovers, telemetry>>

\* Mutant: the rest of the batch is forgotten.
OnlyFirst(cmds) == <<>>

\* What is left of a batch after its first command.
Remaining(cmds) == Tail(cmds)

\* incoming.send, which blocks while the main loop is behind.
WorkerDeliver ==
  /\ batch # <<>> /\ Len(incoming) < IncomingCap
  /\ incoming' = Append(incoming, Head(batch))
  /\ batch' = Remaining(batch)
  /\ UNCHANGED <<checked, overflow, linked, mainVars, todo, emitQ, work, held, counterVars, announced, learned, arrived, sent,
                 handled, rediscovers, telemetry>>

\* The SPP callback queues the data it received, or sets the flag. The stack is taken to
\* deliver some data, less than MAX_MESSAGE_BYTES at a time: less than 1 KiB.
Queue(cmds) ==
  IF Len(work) < WorkCap
    THEN work' = Append(work, Data(cmds)) /\ UNCHANGED overflow
    ELSE overflow' = TRUE /\ UNCHANGED work

Op == {"Module", "Rediscover"}
CountRediscover(ops) == Cardinality({i \in DOMAIN ops : ops[i] = "Rediscover"})

DataCallback ==
  /\ linked
  /\ \E n \in 1..MaxBatch : \E ops \in [1..n -> Op] :
       /\ sent + n <= MaxCmd
       /\ rediscovers + CountRediscover(ops) <= MaxRediscover
       /\ Queue([i \in 1..n |-> Command(ops[i], sent + i)])
       /\ sent' = sent + n
       /\ rediscovers' = rediscovers + CountRediscover(ops)
  /\ UNCHANGED <<mainVars, todo, emitQ, incoming, held, batch, checked, linked, counterVars,
                 announced, learned, arrived, handled, telemetry>>

\* A peer that never stops: module commands without a number.
FloodCallback ==
  /\ Flood /\ linked
  /\ Queue(<<Command("Module", 0)>>)
  /\ UNCHANGED <<mainVars, todo, emitQ, incoming, held, batch, checked, linked, counterVars,
                 announced, learned, arrived, sent, handled, rediscovers, telemetry>>

MainStep == Emit \/ Tick \/ DrainCommand \/ DrainDone \/ WaitCommand \/ WaitOver
SenderStep == SenderTake \/ ReportDrops \/ SenderPut
WorkerStep == WorkerCheck \/ WorkerIdle \/ WorkerMessage \/ WorkerData \/ WorkerDeliver

Next == MainStep \/ DeadlinePasses \/ SenderStep \/ WorkerStep \/ DataCallback \/ FloodCallback

Spec == Init /\ [][Next]_vars

\* Each thread runs whenever it is not blocked, and time passes.  Nothing is
\* assumed of the peer.
FairSpec ==
  Spec /\ WF_vars(MainStep) /\ WF_vars(DeadlinePasses)
       /\ WF_vars(SenderStep) /\ WF_vars(WorkerStep)
-----------------------------------------------------------------------------
(* Properties. *)

Message == [kind : {"Discovery", "Telemetry", "Report"}, n : Nat]
NumberedCommand == [op : Op, n : Nat]
Work == Message \cup [kind : {"Data"}, cmds : Seq(NumberedCommand)]

\* Every queue holds what its channel type allows and never more than its capacity.
TypeOK ==
  /\ main \in {"Tick", "Drain", "Wait"} /\ left \in 0..Budget /\ late \in BOOLEAN
  /\ todo \in Seq(Message)
  /\ emitQ \in Seq(Message) /\ Len(emitQ) <= EmitterCap
  /\ work \in Seq(Work) /\ Len(work) <= WorkCap
  /\ incoming \in Seq(NumberedCommand) /\ Len(incoming) <= IncomingCap
  /\ held \in Seq(Message) /\ Len(held) <= 1
  /\ batch \in Seq(NumberedCommand)
  /\ {checked, overflow, linked} \subseteq BOOLEAN
  /\ drops \in [{"emitter", "transport"} -> 0..MaxCount]
  /\ {announced, learned, arrived, sent, taken, dropped} \subseteq Nat
  /\ {rediscovers, telemetry, reports} \subseteq Nat
  /\ handled \in Seq(Nat)

\* Messages that have left the main loop's hands or wait in them, oldest first.
OnTheWay == work \o held \o emitQ \o todo
Discoveries == [kind : {"Discovery"}, n : Nat]
Telemetries == [kind : {"Telemetry", "Report"}, n : Nat]

\* The elements of s that are in S, in their order.
Only(s, S) == FlattenSeq([i \in 1..Len(s) |-> IF s[i] \in S THEN <<s[i]>> ELSE <<>>])

\* Discovery messages are never lost, repeated or reordered on their way through
\* two queues and the sender thread, whatever telemetry is dropped around them:
\* what lies between the worker's cache and the main loop is exactly the messages
\* not yet remembered (emitter.rs:4-5, manager.rs:5-7, bluetooth.rs:231-239).
DiscoveryInOrder ==
  LET flight == Only(OnTheWay, Discoveries)
  IN /\ Len(flight) = announced - learned
     /\ \A i \in 1..Len(flight) : flight[i].n = learned + i

\* Telemetry may be dropped, but it does not vanish: every event is waiting, has
\* arrived or was dropped, and every drop is in a counter or in a report, unless a
\* counter has saturated (drop_stats.rs:45-76).
TelemetryAccounted ==
  LET created == telemetry + reports + Modules * (announced \div (Modules + 1))
      counted == taken + drops.emitter + drops.transport
  IN /\ created = arrived + dropped + Len(Only(OnTheWay, Telemetries))
     /\ counted <= dropped
     /\ dropped < MaxCount => counted = dropped

\* The numbers of the commands on their way to the main loop.
CommandNumbers(w) == [i \in 1..Len(w) |-> w[i].n]
WorkNumbers(w) ==
  FlattenSeq([i \in 1..Len(w) |-> IF w[i].kind = "Data" THEN CommandNumbers(w[i].cmds) ELSE <<>>])

\* Commands reach their module in the order they arrived and each exactly once,
\* whether the loop is draining, waiting or rediscovering; after the first one that
\* a full queue loses, none of the same connection is handled (bluetooth.rs:286-294,
\* 340-375, runtime/mod.rs:89-119).
CommandsInOrder ==
  LET real(numbers) == Only(numbers, Nat \ {0})
      reached == real(handled \o CommandNumbers(incoming \o batch))
  IN /\ reached = [i \in 1..Len(reached) |-> i]
     /\ (linked /\ ~overflow) => reached \o real(WorkNumbers(work)) = [i \in 1..sent |-> i]

\* schedule.rs:16: the budget is there "so a command flood cannot starve ticks".
TicksGoOn == []<>(main = "Tick" /\ todo = <<>>)

\* Every command is handled in the end, unless its connection was dropped
\* (runtime/mod.rs:89-119).
CommandsHandled == (Len(handled) < sent) ~> (Len(handled) = sent \/ ~linked)
=============================================================================
