------------------------------- MODULE PadLink --------------------------------
(***************************************************************************)
(* The USB vendor interface of the master (firmware/master/master.ino) and *)
(* a program that uses it through the SDK (software/sdk/src/pad.rs,        *)
(* context.rs): the packet queue to the host, the sessions USB begins and  *)
(* ends, the two passthroughs, and in the SDK the manager that connects a  *)
(* pad, its reader thread and the thread a command is waited for in.       *)
(*                                                                         *)
(* The threads interleave at what they share: connected, pending and the   *)
(* channel.  A message is its packets; of what it says there is only which *)
(* call it answers.  The USB core, the host's HID queue and the program    *)
(* are external.                                                           *)
(***************************************************************************)
EXTENDS Naturals, Sequences, SequencesExt, FiniteSets

CONSTANTS
  TxQ,          \* VND_TXQ: packets the master queues
  Slots,        \* packets the core holds for the host to take
  Txns,         \* transaction numbers are 1 .. Txns
  Seeds,        \* those a connection may begin with; all of them in the code
  AppCodes,     \* commands the program gives a pad it has been handed
  Ids,          \* what a response says of the call it answers
  StreamMax,    \* STREAM_MAX_RECORDS
  Idle,         \* PT_IDLE_MS, in ticks
  Hold,         \* HOST_FRAME_HOLD_MS, in ticks
  MaxCalls,     \* bound: the program's commands
  MaxUpsets     \* bound: events, late answers, unplugs, failed reads, programs that end
                \* with the pad open and passthroughs others begin, together

\* Packets of a command's response, an error's too; LED frames are sent without one.
\* other: LED mode, self-test, counters, clock probe, bus frames.
Size == [info |-> 1, status |-> 2, stream |-> 1, mute |-> 1, enter |-> 1, leave |-> 1,
         reboot |-> 1, other |-> 1, frame |-> 0]

ASSUME PadLinkAssumption ==
  /\ TxQ \in Nat \ {0, 1} /\ Slots \in Nat \ {0} /\ Txns \in Nat \ {0}
  /\ Seeds \subseteq 1 .. Txns
  /\ AppCodes \subseteq DOMAIN Size
  /\ StreamMax \in Nat \ {0} /\ Idle \in Nat \ {0} /\ Hold \in Nat \ {0}
  /\ MaxCalls \in Nat /\ MaxUpsets \in Nat
  /\ Ids \in Nat \ {0}

VARIABLES
  \* USB
  usb_configuration,
  out,               \* commands on their way to the master
  tx,                \* packets to the host: [q |-> all, s |-> how many the core holds]
  \* the master
  vnd_usb_config, vnd_host, vnd_stream_on, vnd_stream_n,
  passthrough, vnd_passthrough,
  silent,            \* ticks with nothing from the passthrough's host
  frame_age,         \* ticks since the host's LED frame came; Hold when too long
  \* the SDK
  manager,           \* "scan", "info", "status", "register", "listed", "close"
  reader,            \* "none", "drain", "read", "ending", "finished"
  link,              \* its handle still reaches the pad
  stop, connected,
  pending,           \* the transaction number waited for, or NoTxn
  chan,              \* what the reader has sent the caller: Nothing, Gone or [code, id]
  next_txn,
  call,              \* [at, code, txn, id] of the command under way
  strays,            \* observer: ids that were under way when the pad was opened
  calls, upsets

usb     == <<usb_configuration, out, tx>>
master  == <<vnd_usb_config, vnd_host, vnd_stream_on, vnd_stream_n, passthrough,
             vnd_passthrough, silent, frame_age>>
threads == <<manager, reader, link, stop, connected, pending, chan, next_txn, call>>
bounds  == <<calls, upsets>>
vars    == <<usb, master, threads, strays, bounds>>

NoTxn   == 0
Nothing == [code |-> "nothing", id |-> 0]
Gone    == [code |-> "gone", id |-> 0]

NoCall == [at |-> "idle", code |-> "info", txn |-> NoTxn, id |-> 0]

Init ==
  /\ usb_configuration = 0 /\ out = <<>> /\ tx = [q |-> <<>>, s |-> 0]
  /\ vnd_usb_config = 0 /\ vnd_host = FALSE
  /\ vnd_stream_on = FALSE /\ vnd_stream_n = 0
  /\ passthrough = FALSE /\ vnd_passthrough = FALSE
  /\ silent = 0 /\ frame_age = Hold
  /\ manager = "scan" /\ reader = "none" /\ link = FALSE /\ stop = FALSE
  /\ connected = FALSE /\ pending = NoTxn /\ chan = Nothing /\ next_txn = 1
  /\ call = NoCall /\ strays = {}
  /\ calls = 0 /\ upsets = 0

Upset == upsets < MaxUpsets /\ upsets' = upsets + 1

Lesser(a, b) == IF a < b THEN a ELSE b

-----------------------------------------------------------------------------
(* The master's queue *)

Message(kind, code, txn, id, n) ==
  [k \in 1 .. n |-> [kind |-> kind, code |-> code, txn |-> txn, id |-> id, last |-> k = n]]

\* What a response says.
Says(m) == [code |-> m.code, id |-> m.id]

\* vndPump: into the slots that are free.
Pumped(t) == [t EXCEPT !.s = Lesser(Slots, Len(t.q))]

\* vnd_txq
Queued(t) == SubSeq(t.q, t.s + 1, Len(t.q))

\* vndSend: a message is queued whole or dropped.
Sent(t, message) ==
  IF Len(message) > TxQ - Len(Queued(Pumped(t))) THEN Pumped(t)
  ELSE Pumped([t EXCEPT !.q = @ \o message])

\* vndRespond
Responded(t, c) ==
  IF c.txn = NoTxn THEN t ELSE Sent(t, Message("resp", c.code, c.txn, c.id, Size[c.code]))

\* Mutant: telemetry is queued behind whatever there is.
MayFlushAlways(t) == TRUE

\* vndStreamFlush: telemetry takes no place in the queue while anything waits there.
MayFlush(t) == Queued(Pumped(t)) = <<>>

StreamFlush(t, n) ==
  IF n # 0 /\ MayFlush(t) THEN [tx |-> Sent(t, Message("stream", "stream", NoTxn, 0, 1)), n |-> 0]
                         ELSE [tx |-> IF n = 0 THEN t ELSE Pumped(t), n |-> n]

-----------------------------------------------------------------------------
(* The master: vndService *)

\* USB has configured afresh, or gone: nothing of the last session carries on.
Reset ==
  /\ usb_configuration # vnd_usb_config
  /\ vnd_usb_config' = usb_configuration
  /\ tx' = [tx EXCEPT !.q = SubSeq(@, 1, tx.s)]
  /\ vnd_host' = FALSE /\ vnd_stream_on' = FALSE /\ vnd_stream_n' = 0
  /\ vnd_passthrough' = FALSE /\ frame_age' = Hold
  /\ UNCHANGED <<usb_configuration, out, passthrough, silent, threads, strays, bounds>>

\* CMD_STREAM drops the records that wait.
StreamOn(code) == IF code = "stream" THEN TRUE ELSE IF code = "mute" THEN FALSE ELSE vnd_stream_on
StreamN(code)  == IF code \in {"stream", "mute"} THEN 0 ELSE vnd_stream_n

\* CMD_PASSTHROUGH: the console's comes first.
Enters(code) == code = "enter" /\ ~passthrough

\* CMD_LED_FRAME: the newest is kept.
FrameAge(code) == IF code = "frame" THEN 0 ELSE frame_age

\* vndCommand, of the next command; the flush and the pump follow.
Command ==
  LET c == Head(out)
      f == StreamFlush(Responded(tx, c), StreamN(c.code))
  IN
  /\ usb_configuration = vnd_usb_config /\ out # <<>> /\ c.code # "reboot"
  /\ out' = Tail(out)
  /\ vnd_host' = TRUE
  /\ vnd_stream_on' = StreamOn(c.code)
  /\ vnd_passthrough' = (c.code # "leave" /\ (vnd_passthrough \/ Enters(c.code)))
  /\ silent' = IF passthrough THEN silent ELSE 0
  /\ frame_age' = FrameAge(c.code)
  /\ tx' = Pumped(f.tx) /\ vnd_stream_n' = f.n
  /\ UNCHANGED <<usb_configuration, vnd_usb_config, passthrough, threads, strays, bounds>>

\* CMD_REBOOT_BOOTLOADER: the response may leave before USB goes; the master starts over.
RebootCommand ==
  LET c == Head(out) IN
  /\ usb_configuration = vnd_usb_config /\ out # <<>> /\ c.code = "reboot"
  /\ usb_configuration' = 0 /\ out' = <<>> /\ tx' = [q |-> <<>>, s |-> 0]
  /\ vnd_usb_config' = 0 /\ vnd_host' = FALSE
  /\ vnd_stream_on' = FALSE /\ vnd_stream_n' = 0
  /\ passthrough' = FALSE /\ vnd_passthrough' = FALSE /\ silent' = 0 /\ frame_age' = Hold
  /\ \/ /\ reader = "read" /\ link /\ ~stop /\ c.txn = pending
        /\ pending' = NoTxn /\ chan' = Says(c)
     \/ UNCHANGED <<pending, chan>>
  /\ link' = FALSE
  /\ UNCHANGED <<manager, reader, stop, connected, next_txn, call, strays, bounds>>

\* No command: what waits goes out as slots come free.
Pump ==
  LET f == StreamFlush(tx, vnd_stream_n) IN
  /\ usb_configuration = vnd_usb_config /\ usb_configuration # 0
  /\ tx' = Pumped(f.tx) /\ vnd_stream_n' = f.n
  /\ tx' # tx
  /\ UNCHANGED <<usb_configuration, out, vnd_usb_config, vnd_host, vnd_stream_on,
                 passthrough, vnd_passthrough, silent, frame_age, threads, strays, bounds>>

\* vndStreamRecord: a panel's 'f'.  The newest record is dropped when there are as many
\* as a packet takes.
Record ==
  /\ ~passthrough /\ ~vnd_passthrough
  /\ vnd_stream_on /\ vnd_stream_n < StreamMax
  /\ LET f == StreamFlush(tx, vnd_stream_n + 1) IN tx' = f.tx /\ vnd_stream_n' = f.n
  /\ UNCHANGED <<usb_configuration, out, vnd_usb_config, vnd_host, vnd_stream_on,
                 passthrough, vnd_passthrough, silent, frame_age, threads, strays, bounds>>

\* vndEvent: a panel's presence or config, or in passthrough a frame it heard.
Event ==
  /\ ~passthrough /\ vnd_host
  /\ Upset
  /\ tx' = Sent(tx, Message("event", "other", NoTxn, 0, 1))
  /\ UNCHANGED <<usb_configuration, out, master, threads, strays, calls>>

-----------------------------------------------------------------------------
(* The master: passthrough *)

\* The console's P.
EnterConsole ==
  /\ ~passthrough /\ ~vnd_passthrough
  /\ Upset
  /\ passthrough' = TRUE /\ silent' = 0
  /\ UNCHANGED <<usb, vnd_usb_config, vnd_host, vnd_stream_on, vnd_stream_n,
                 vnd_passthrough, frame_age, threads, strays, calls>>

\* Mutant: a passthrough does not end while telemetry is on.
OverStreaming(ticks) == ticks > Idle /\ ~vnd_stream_on

\* The host's LED frame came less than HOST_FRAME_HOLD_MS ago.
HostLeds == frame_age < Hold

\* What the panels show: in passthrough the master sends no frame.
Lights == IF passthrough \/ vnd_passthrough THEN "dark"
          ELSE IF HostLeds THEN "host" ELSE "own"

\* Nothing from the host for PT_IDLE_MS.
Over(ticks) == ticks > Idle

\* Time, for whoever has fallen silent.
Tick ==
  /\ passthrough \/ vnd_passthrough \/ HostLeds
  /\ silent' = IF passthrough \/ vnd_passthrough THEN Lesser(silent + 1, Idle + 1) ELSE silent
  /\ frame_age' = Lesser(frame_age + 1, Hold)
  /\ UNCHANGED <<usb, vnd_usb_config, vnd_host, vnd_stream_on, vnd_stream_n,
                 passthrough, vnd_passthrough, threads, strays, bounds>>

\* passthroughService: the host's word.
EndConsole ==
  /\ passthrough /\ passthrough' = FALSE
  /\ UNCHANGED <<usb, vnd_usb_config, vnd_host, vnd_stream_on, vnd_stream_n,
                 vnd_passthrough, silent, frame_age, threads, strays, bounds>>

\* passthroughService and vndPassthroughService: only one is ever on.
IdleOut ==
  /\ passthrough \/ vnd_passthrough
  /\ Over(silent)
  /\ passthrough' = FALSE /\ vnd_passthrough' = FALSE
  /\ UNCHANGED <<usb, vnd_usb_config, vnd_host, vnd_stream_on, vnd_stream_n, silent,
                 frame_age, threads, strays, bounds>>

-----------------------------------------------------------------------------
(* USB, and what else the host does *)

\* The loop has gone round since the pad was unplugged.
Plug ==
  /\ usb_configuration = 0 /\ vnd_usb_config = 0
  /\ usb_configuration' = 1
  /\ UNCHANGED <<out, tx, master, threads, strays, bounds>>

Unplug ==
  /\ usb_configuration = 1
  /\ Upset
  /\ usb_configuration' = 0 /\ out' = <<>> /\ tx' = [q |-> Queued(tx), s |-> 0]
  /\ link' = FALSE
  /\ UNCHANGED <<master, manager, reader, stop, connected, pending, chan, next_txn, call,
                 strays, calls>>

\* A tool begins a passthrough, and ends it or crashes.
ToolEnters ==
  /\ usb_configuration = 1 /\ manager = "scan"
  /\ Upset
  /\ \E codes \in {<<"enter">>, <<"enter", "leave">>} :
       out' = out \o [k \in DOMAIN codes |-> [code |-> codes[k], txn |-> 1, id |-> 0]]
  /\ UNCHANGED <<usb_configuration, tx, master, threads, strays, calls>>

\* The program is killed: its threads and its handles are gone.
Exit ==
  /\ manager # "scan"
  /\ Upset
  /\ manager' = "scan" /\ reader' = "none" /\ link' = FALSE /\ stop' = FALSE
  /\ connected' = FALSE /\ pending' = NoTxn /\ chan' = Nothing /\ call' = NoCall
  /\ UNCHANGED <<usb, master, next_txn, strays, calls>>

-----------------------------------------------------------------------------
(* The SDK: the manager *)

\* Commands and responses on their way.
UnderWay == ToSet(out) \cup ToSet(tx.q)

\* connect, PadShared::start: numbers begin where the clock says, whatever is under way.
Open ==
  /\ manager = "scan" /\ usb_configuration = 1
  /\ next_txn' \in Seeds
  /\ strays' = {m.id : m \in UnderWay}
  /\ manager' = "info" /\ reader' = "drain" /\ link' = TRUE /\ stop' = FALSE
  /\ connected' = TRUE /\ pending' = NoTxn /\ chan' = Nothing /\ call' = NoCall
  /\ UNCHANGED <<usb, master, bounds>>

\* register
Register ==
  /\ manager = "register" /\ manager' = "listed"
  /\ UNCHANGED <<usb, master, reader, link, stop, connected, pending, chan, next_txn,
                 call, strays, bounds>>

\* shutdown: the reader is told to stop and waited for.
Stop ==
  /\ manager = "close" /\ ~stop /\ stop' = TRUE
  /\ UNCHANGED <<usb, master, manager, reader, link, connected, pending, chan, next_txn,
                 call, strays, bounds>>

\* A pad that was shut down, or whose reader has ended, is forgotten: the next scan may
\* find it again.
Forget ==
  /\ manager \in {"close", "listed"} /\ reader = "finished"
  /\ manager = "listed" => call.at = "idle"
  /\ manager' = "scan" /\ reader' = "none"
  /\ UNCHANGED <<usb, master, link, stop, connected, pending, chan, next_txn, call, strays, bounds>>

-----------------------------------------------------------------------------
(* The SDK: a command *)

\* Mutant: a pad that failed to answer is refused until it is unplugged.
AfterFailureRefused == "refused"

\* A handshake that failed may pass: the pad is shut down, and the next scan tries again.
AfterFailure == "close"

\* The command is over; the handshake goes on when it was answered and is given up when
\* not.
Return(answered) ==
  /\ call' = NoCall
  /\ manager' = IF manager = "listed" THEN "listed"
                ELSE IF ~answered THEN AfterFailure
                ELSE IF manager = "info" THEN "status" ELSE "register"

\* Nothing under way has i; a command takes the lowest.
Fresh(i) == \A m \in UnderWay : m.id # i

\* The program may give a command.
Asks == manager = "listed" /\ calls < MaxCalls /\ calls' = calls + 1

\* connected is looked at, then the number taken and pending set.
Begin(code) ==
  /\ call.at = "idle" /\ reader # "drain" /\ connected
  /\ \/ manager \in {"info", "status"} /\ code = manager /\ UNCHANGED calls
     \/ Asks /\ code \in AppCodes \ {"frame"}
  /\ \E i \in 1 .. Ids :
       /\ Fresh(i) /\ \A j \in 1 .. i - 1 : ~Fresh(j)
       /\ call' = [at |-> "looked", code |-> code, txn |-> NoTxn, id |-> i]
       /\ strays' = strays \ {i}
  /\ UNCHANGED <<usb, master, manager, reader, link, stop, connected, pending, chan,
                 next_txn, upsets>>

\* send_frame: number 0, and no waiting.
SendFrame ==
  /\ call.at = "idle" /\ connected /\ link
  /\ "frame" \in AppCodes /\ Asks
  /\ out' = Append(out, [code |-> "frame", txn |-> NoTxn, id |-> 0])
  /\ UNCHANGED <<usb_configuration, tx, master, threads, strays, upsets>>

\* The handshake finds the pad gone already.
Refused ==
  /\ call.at = "idle" /\ manager \in {"info", "status"} /\ reader # "drain" /\ ~connected
  /\ Return(FALSE)
  /\ UNCHANGED <<usb, master, reader, link, stop, connected, pending, chan, next_txn,
                 strays, bounds>>

\* Mutant: every command has the same number.
AfterTxnSame(t) == t

\* alloc_txn
AfterTxn(t) == (t % Txns) + 1

SetPending ==
  /\ call.at = "looked"
  /\ call' = [call EXCEPT !.at = "set", !.txn = next_txn]
  /\ next_txn' = AfterTxn(next_txn)
  /\ pending' = next_txn /\ chan' = Nothing
  /\ UNCHANGED <<usb, master, manager, reader, link, stop, connected, strays, bounds>>

\* Mutant: connected is not looked at again.
MayWriteAlways == TRUE

\* The reader may have ended since connected was looked at.
MayWrite == connected

LookAgain ==
  /\ call.at = "set"
  /\ IF MayWrite THEN call' = [call EXCEPT !.at = "write"] /\ UNCHANGED <<manager, pending>>
                 ELSE pending' = NoTxn /\ Return(FALSE)
  /\ UNCHANGED <<usb, master, reader, link, stop, connected, chan, next_txn, strays, bounds>>

\* write_message fails when the handle reaches no pad.
Write ==
  /\ call.at = "write"
  /\ IF link
     THEN /\ out' = Append(out, [code |-> call.code, txn |-> call.txn, id |-> call.id])
          /\ call' = [call EXCEPT !.at = "wait"]
          /\ UNCHANGED <<manager, pending>>
     ELSE pending' = NoTxn /\ Return(FALSE) /\ UNCHANGED out
  /\ UNCHANGED <<usb_configuration, tx, master, reader, link, stop, connected, chan,
                 next_txn, strays, bounds>>

\* A response with the code of another command is an error.
Answered ==
  /\ call.at = "wait" /\ chan # Nothing
  /\ Return(chan.code = call.code)
  /\ chan' = Nothing
  /\ UNCHANGED <<usb, master, reader, link, stop, connected, pending, next_txn, strays, bounds>>

\* The answer is dropped or lost, or only late.
Timeout ==
  /\ call.at = "wait" /\ chan = Nothing
  /\ IF call.id \in {m.id : m \in UnderWay}
     THEN Upset
     ELSE UNCHANGED upsets
  /\ pending' = NoTxn /\ Return(FALSE)
  /\ UNCHANGED <<usb, master, reader, link, stop, connected, chan, next_txn, strays, calls>>

-----------------------------------------------------------------------------
(* The SDK: the reader *)

\* What an earlier program left comes within 20 ms of each other, in 200 ms all of it,
\* and is thrown away.
Drain ==
  /\ reader = "drain" /\ link
  /\ tx' = [q |-> <<>>, s |-> 0]
  /\ reader' = "read"
  /\ UNCHANGED <<usb_configuration, out, master, manager, link, stop, connected, pending,
                 chan, next_txn, call, strays, bounds>>

\* complete: only a response with the number waited for is the caller's.
Read ==
  LET p == Head(tx.q) IN
  /\ reader = "read" /\ link /\ ~stop /\ tx.s > 0
  /\ tx' = [q |-> Tail(tx.q), s |-> tx.s - 1]
  /\ IF p.kind = "resp" /\ p.last /\ p.txn = pending
     THEN pending' = NoTxn /\ chan' = Says(p)
     ELSE UNCHANGED <<pending, chan>>
  /\ UNCHANGED <<usb_configuration, out, master, manager, reader, link, stop, connected,
                 next_txn, call, strays, bounds>>

\* The pad cannot be read: it is gone, or a read fails while it could still be written
\* to.  Or the reader is to stop.
ReadFails ==
  /\ reader \in {"drain", "read"}
  /\ \/ (~link \/ (stop /\ reader = "read")) /\ UNCHANGED upsets
     \/ link /\ Upset
  /\ reader' = "ending" /\ connected' = FALSE
  /\ UNCHANGED <<usb, master, manager, link, stop, pending, chan, next_txn, call, strays, calls>>

\* fail_pending; the reader has finished.
FailPending ==
  /\ reader = "ending" /\ reader' = "finished"
  /\ IF pending # NoTxn THEN pending' = NoTxn /\ chan' = Gone
                        ELSE UNCHANGED <<pending, chan>>
  /\ UNCHANGED <<usb, master, manager, link, stop, connected, next_txn, call, strays, bounds>>

-----------------------------------------------------------------------------
Service == Reset \/ Command \/ RebootCommand
Master  == Service \/ Pump \/ IdleOut \/ Tick \/ Record \/ Event \/ EnterConsole \/ EndConsole
Outside == Plug \/ Unplug \/ ToolEnters \/ Exit
Manager == Open \/ Register \/ Stop \/ Forget
Caller  == (\E code \in DOMAIN Size : Begin(code)) \/ SendFrame \/ Refused \/ SetPending
           \/ LookAgain \/ Write \/ Answered \/ Timeout
Reader  == Drain \/ Read \/ ReadFails \/ FailPending

Next == Master \/ Outside \/ Manager \/ Caller \/ Reader

Spec == Init /\ [][Next]_vars

FairSpec ==
  /\ Spec
  /\ WF_vars(Service) /\ WF_vars(Pump) /\ WF_vars(IdleOut \/ Tick)
  /\ WF_vars(Manager \/ Caller) /\ WF_vars(Reader)

-----------------------------------------------------------------------------
(* Properties *)

Commands == [code : DOMAIN Size, txn : 0 .. Txns, id : 0 .. Ids]
Packets  == [kind : {"resp", "event", "stream"}, code : DOMAIN Size, txn : 0 .. Txns,
             id : 0 .. Ids, last : BOOLEAN]
Answers  == {Nothing, Gone} \cup [code : DOMAIN Size, id : 0 .. Ids]
Calls    == [at : {"idle", "looked", "set", "write", "wait"}, code : DOMAIN Size,
             txn : 0 .. Txns, id : 0 .. Ids]

IsBuffer(t) ==
  /\ t \in [q : Seq(Packets), s : 0 .. Slots]
  /\ t.s <= Len(t.q) /\ Len(t.q) - t.s <= TxQ

TypeOK ==
  /\ usb_configuration \in {0, 1} /\ vnd_usb_config \in {0, 1}
  /\ out \in Seq(Commands) /\ IsBuffer(tx)
  /\ vnd_host \in BOOLEAN /\ vnd_stream_on \in BOOLEAN /\ vnd_stream_n \in 0 .. StreamMax
  /\ passthrough \in BOOLEAN /\ vnd_passthrough \in BOOLEAN
  /\ silent \in 0 .. Idle + 1 /\ frame_age \in 0 .. Hold
  /\ manager \in {"scan", "info", "status", "register", "listed", "close"}
  /\ reader \in {"none", "drain", "read", "ending", "finished"}
  /\ link \in BOOLEAN /\ stop \in BOOLEAN /\ connected \in BOOLEAN
  /\ pending \in 0 .. Txns /\ next_txn \in 1 .. Txns /\ chan \in Answers
  /\ call \in Calls /\ strays \subseteq 0 .. Ids
  /\ calls \in 0 .. MaxCalls /\ upsets \in 0 .. MaxUpsets

\* What a caller is given answers its own command, or one that was under way when the
\* pad was opened: a command of this connection that was given up, however late its
\* answer comes, answers no other (complete, alloc_txn).
OwnOrStray ==
  call.at = "wait" /\ chan \notin {Nothing, Gone} => chan.id \in {call.id} \cup strays

\* Nobody waits for an answer no reader will give: a command set up while the reader
\* ends is refused or failed (command, fail_pending).
NoOrphan ==
  call.at = "wait" /\ reader = "finished" => chan # Nothing

\* At most one packet of telemetry takes a place in the queue from a response
\* (vndStreamFlush): "a slow host loses telemetry, not responses".
TelemetryYields ==
  Cardinality({k \in DOMAIN tx.q : k > tx.s /\ tx.q[k].kind = "stream"}) <= 1

\* A pad that stays plugged in is in the end one the program has, whenever its reader
\* ended and whatever an earlier program left behind (manager_loop, connect).
PadComesBack ==
  <>[](usb_configuration = 1) => <>[](manager = "listed" /\ connected)

\* A host that falls silent leaves the pad neither dark nor with the host's last frame:
\* its own lights come back (PT_IDLE_MS, HOST_FRAME_HOLD_MS).
OwnLightsReturn == []<>(Lights = "own")
=============================================================================
