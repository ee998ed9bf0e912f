---------------------------- MODULE PadLink_proofs ----------------------------
(***************************************************************************)
(* PadLink for any sizes of the queue, any commands and any number of      *)
(* upsets: nobody waits for a reader that has ended, telemetry does not    *)
(* fill the queue, and an answer is the caller's own or a stray.           *)
(***************************************************************************)
EXTENDS PadLink, SequenceTheorems, FiniteSetTheorems, TLAPS

-----------------------------------------------------------------------------
(* The packet queue *)

LEMMA SizeType == /\ \A c \in DOMAIN Size : Size[c] \in 0 .. 2
                  /\ {"info", "status", "stream", "mute", "enter", "leave", "frame", "other"}
                       \subseteq DOMAIN Size
BY DEF Size

\* A response is told from what the reader sends when it ends, and from nothing.
LEMMA AnswerType ==
  /\ Nothing \in Answers /\ Gone \in Answers /\ Nothing # Gone
  /\ \A m \in Commands \cup Packets :
       Says(m) \in Answers \ {Nothing, Gone} /\ Says(m).id = m.id /\ Says(m).code = m.code
<1>1. "nothing" \notin DOMAIN Size /\ "gone" \notin DOMAIN Size
  BY DEF Size
<1>2. ASSUME NEW m \in Commands \cup Packets
      PROVE  /\ Says(m) = [code |-> m.code, id |-> m.id]
             /\ m.code \in DOMAIN Size /\ m.id \in 0 .. Ids
  BY DEF Says, Commands, Packets
<1>3. Nothing # Gone /\ Nothing.code = "nothing" /\ Gone.code = "gone"
  BY DEF Nothing, Gone
<1> QED
  BY <1>1, <1>2, <1>3 DEF Answers

LEMMA MessageType ==
  ASSUME NEW kind \in {"resp", "event", "stream"}, NEW txn \in 0 .. Txns, NEW id \in 0 .. Ids,
         NEW code \in DOMAIN Size, NEW n \in Nat
  PROVE  /\ Message(kind, code, txn, id, n) \in Seq(Packets)
         /\ Len(Message(kind, code, txn, id, n)) = n
<1>1. \A k \in 1 .. n :
        [kind |-> kind, code |-> code, txn |-> txn, id |-> id, last |-> k = n] \in Packets
  BY DEF Packets
<1> QED
  BY <1>1 DEF Message

LEMMA PumpedType ==
  ASSUME PadLinkAssumption, NEW t, IsBuffer(t)
  PROVE  /\ IsBuffer(Pumped(t)) /\ Pumped(t).q = t.q
         /\ t.s <= Pumped(t).s /\ Pumped(t).s \in Nat
<1>1. Len(t.q) \in Nat /\ t.s \in 0 .. Slots /\ Slots \in Nat /\ TxQ \in Nat
      /\ t.s <= Len(t.q) /\ Len(t.q) - t.s <= TxQ
  BY DEF IsBuffer, PadLinkAssumption
<1>2. Pumped(t) = [q |-> t.q, s |-> Lesser(Slots, Len(t.q))]
  BY DEF Pumped, IsBuffer
<1>3. Lesser(Slots, Len(t.q)) \in 0 .. Slots /\ t.s <= Lesser(Slots, Len(t.q))
      /\ Lesser(Slots, Len(t.q)) <= Len(t.q)
  BY <1>1 DEF Lesser
<1> QED
  BY <1>1, <1>2, <1>3 DEF IsBuffer

LEMMA QueuedType ==
  ASSUME PadLinkAssumption, NEW t, IsBuffer(t)
  PROVE  Queued(t) \in Seq(Packets) /\ Len(Queued(t)) = Len(t.q) - t.s
<1>1. t.q \in Seq(Packets) /\ t.s \in Nat /\ Len(t.q) \in Nat /\ t.s <= Len(t.q)
  BY DEF IsBuffer, PadLinkAssumption
<1> QED
  BY <1>1, SubSeqProperties DEF Queued

LEMMA WithQueue ==
  ASSUME NEW Q, NEW S, NEW t \in [q : Q, s : S], NEW x
  PROVE  [t EXCEPT !.q = x] = [q |-> x, s |-> t.s]
OBVIOUS

LEMMA WithSlots ==
  ASSUME NEW a, NEW b, NEW x
  PROVE  [[q |-> a, s |-> b] EXCEPT !.s = x] = [q |-> a, s |-> x]
OBVIOUS

LEMMA SentType ==
  ASSUME PadLinkAssumption, NEW t, IsBuffer(t), NEW message \in Seq(Packets)
  PROVE  IsBuffer(Sent(t, message))
<1> DEFINE u == Pumped(t)
           v == [q |-> t.q \o message, s |-> t.s]
           w == Lesser(Slots, Len(v.q))
<1>1. /\ t.q \in Seq(Packets) /\ Len(t.q) \in Nat /\ t.s \in 0 .. Slots /\ t.s <= Len(t.q)
      /\ Len(t.q) - t.s <= TxQ /\ TxQ \in Nat /\ Slots \in Nat
  BY DEF IsBuffer, PadLinkAssumption
<1>2. IsBuffer(u) /\ u.q = t.q /\ u.s = Lesser(Slots, Len(t.q))
  BY PumpedType DEF Pumped, IsBuffer
<1>3. Len(Queued(u)) = Len(t.q) - u.s
  BY <1>2, QueuedType
<1>4. [t EXCEPT !.q = @ \o message] = v
  BY WithQueue DEF IsBuffer
<1>5. v.q \in Seq(Packets) /\ Len(v.q) = Len(t.q) + Len(message) /\ Len(message) \in Nat
  BY <1>1
<1>6. Pumped(v) = [q |-> v.q, s |-> w]
  <2>1. [v EXCEPT !.s = w] = [q |-> v.q, s |-> w]
    BY WithSlots
  <2> HIDE DEF v
  <2> QED
    BY <2>1 DEF Pumped
<1>7. CASE Len(message) > TxQ - Len(Queued(u))
  BY <1>2, <1>7 DEF Sent
<1>8. CASE ~(Len(message) > TxQ - Len(Queued(u)))
  <2>1. Sent(t, message) = Pumped(v)
    BY <1>4, <1>8 DEF Sent
  <2>2. u.s \in 0 .. Slots /\ u.s <= w /\ w \in 0 .. Slots /\ w <= Len(v.q)
    BY <1>1, <1>2, <1>5 DEF Lesser
  <2>3. Len(v.q) - w <= TxQ
    BY SMTT(30), <1>1, <1>3, <1>5, <1>8, <2>2
  <2> HIDE DEF u, v, w
  <2> QED
    BY <1>5, <1>6, <2>1, <2>2, <2>3 DEF IsBuffer
<1> QED
  BY <1>7, <1>8

LEMMA RespondedType ==
  ASSUME PadLinkAssumption, NEW t, IsBuffer(t), NEW c \in Commands
  PROVE  IsBuffer(Responded(t, c))
<1>1. Size[c.code] \in Nat /\ c.txn \in 0 .. Txns /\ c.id \in 0 .. Ids
  BY SizeType DEF Commands
<1>2. Message("resp", c.code, c.txn, c.id, Size[c.code]) \in Seq(Packets)
  BY <1>1, MessageType DEF Commands
<1> QED
  BY <1>2, SentType DEF Responded

LEMMA FlushType ==
  ASSUME PadLinkAssumption, NEW t, IsBuffer(t), NEW n \in 0 .. StreamMax
  PROVE  IsBuffer(StreamFlush(t, n).tx) /\ StreamFlush(t, n).n \in 0 .. StreamMax
<1>1. NoTxn \in 0 .. Txns /\ 0 \in 0 .. Ids /\ 0 \in 0 .. StreamMax
  BY DEF PadLinkAssumption, NoTxn
<1>2. Message("stream", "stream", NoTxn, 0, 1) \in Seq(Packets)
  BY <1>1, SizeType, MessageType
<1>3. IsBuffer(Sent(t, Message("stream", "stream", NoTxn, 0, 1))) /\ IsBuffer(Pumped(t))
  BY <1>2, SentType, PumpedType
<1> QED
  BY <1>1, <1>3 DEF StreamFlush

LEMMA EmptyBuffer == ASSUME PadLinkAssumption PROVE IsBuffer([q |-> <<>>, s |-> 0])
BY DEF IsBuffer, PadLinkAssumption

-----------------------------------------------------------------------------
(* Types *)

LEMMA InitType == ASSUME PadLinkAssumption, Init PROVE TypeOK
<1>1. IsBuffer(tx)
  BY EmptyBuffer DEF Init
<1>2. out \in Seq(Commands)
  BY DEF Init
<1>3. call \in Calls /\ pending \in 0 .. Txns /\ next_txn \in 1 .. Txns /\ chan \in Answers
  BY SizeType DEF Init, Calls, NoCall, NoTxn, Answers, PadLinkAssumption
<1>4. /\ vnd_stream_n \in 0 .. StreamMax /\ silent \in 0 .. Idle + 1 /\ frame_age \in 0 .. Hold
      /\ calls \in 0 .. MaxCalls /\ upsets \in 0 .. MaxUpsets
  BY DEF Init, PadLinkAssumption
<1>5. /\ vnd_host \in BOOLEAN /\ vnd_stream_on \in BOOLEAN /\ passthrough \in BOOLEAN
      /\ vnd_passthrough \in BOOLEAN /\ link \in BOOLEAN /\ stop \in BOOLEAN
      /\ connected \in BOOLEAN
  BY DEF Init
<1>6. usb_configuration = 0 /\ vnd_usb_config = 0 /\ manager = "scan" /\ reader = "none"
      /\ strays \subseteq 0 .. Ids
  BY DEF Init
<1> QED
  BY <1>1, <1>2, <1>3, <1>4, <1>5, <1>6 DEF TypeOK

\* Where the bounds are counted.
LEMMA CountsType ==
  ASSUME PadLinkAssumption, TypeOK
  PROVE  /\ Upset => upsets' \in 0 .. MaxUpsets
         /\ Asks => calls' \in 0 .. MaxCalls
BY DEF PadLinkAssumption, TypeOK, Upset, Asks

LEMMA MasterType == ASSUME PadLinkAssumption, TypeOK, Master PROVE TypeOK'
<1> USE DEF TypeOK
<1>a. /\ 0 \in 0 .. StreamMax /\ 0 \in 0 .. Idle + 1 /\ 0 \in 0 .. Hold /\ Hold \in 0 .. Hold
      /\ StreamMax \in Nat /\ Idle \in Nat /\ Hold \in Nat
  BY DEF PadLinkAssumption
<1>1. CASE Reset
  <2>1. tx' = [q |-> SubSeq(tx.q, 1, tx.s), s |-> tx.s]
    BY <1>1 DEF Reset, IsBuffer
  <2>2. SubSeq(tx.q, 1, tx.s) \in Seq(Packets) /\ Len(SubSeq(tx.q, 1, tx.s)) = tx.s
    BY SubSeqProperties DEF IsBuffer, PadLinkAssumption
  <2>3. IsBuffer(tx')
    BY <2>1, <2>2 DEF IsBuffer, PadLinkAssumption
  <2> QED
    BY ZenonT(40), <1>1, <1>a, <2>3 DEF Reset, threads, bounds
<1>2. CASE Command
  <2> DEFINE c == Head(out)
             f == StreamFlush(Responded(tx, c), StreamN(c.code))
  <2>1. c \in Commands /\ Tail(out) \in Seq(Commands)
    BY <1>2 DEF Command
  <2>2. StreamN(c.code) \in 0 .. StreamMax
    BY <1>a DEF StreamN
  <2>3. IsBuffer(f.tx) /\ f.n \in 0 .. StreamMax
    BY <2>1, <2>2, RespondedType, FlushType
  <2>4. IsBuffer(Pumped(f.tx))
    BY <2>3, PumpedType
  <2>5. /\ StreamOn(c.code) \in BOOLEAN
        /\ (c.code # "leave" /\ (vnd_passthrough \/ Enters(c.code))) \in BOOLEAN
        /\ FrameAge(c.code) \in 0 .. Hold
    BY <1>a DEF StreamOn, FrameAge
  <2> HIDE DEF f
  <2>6. /\ out' = Tail(out) /\ vnd_host' = TRUE /\ vnd_stream_on' = StreamOn(c.code)
        /\ vnd_passthrough' = (c.code # "leave" /\ (vnd_passthrough \/ Enters(c.code)))
        /\ silent' = (IF passthrough THEN silent ELSE 0) /\ frame_age' = FrameAge(c.code)
        /\ tx' = Pumped(f.tx) /\ vnd_stream_n' = f.n
        /\ UNCHANGED <<usb_configuration, vnd_usb_config, passthrough, threads, strays, bounds>>
    BY <1>2 DEF Command, f
  <2> QED
    BY <1>a, <2>1, <2>3, <2>4, <2>5, <2>6 DEF threads, bounds
<1>3. CASE RebootCommand
  <2>1. Head(out) \in Commands
    BY <1>3 DEF RebootCommand
  <2>2. IsBuffer(tx') /\ out' \in Seq(Commands)
    BY <1>3, EmptyBuffer DEF RebootCommand
  <2>3. pending' \in 0 .. Txns /\ chan' \in Answers
    <3>1. Head(out).txn \in 0 .. Txns /\ NoTxn \in 0 .. Txns
      BY <2>1 DEF Commands, NoTxn, PadLinkAssumption
    <3> QED
      BY <1>3, <2>1, <3>1, AnswerType DEF RebootCommand
  <2> QED
    BY <1>3, <1>a, <2>2, <2>3 DEF RebootCommand, bounds
<1>4. CASE Pump
  <2>1. /\ tx' = Pumped(StreamFlush(tx, vnd_stream_n).tx)
        /\ vnd_stream_n' = StreamFlush(tx, vnd_stream_n).n
    BY <1>4 DEF Pump
  <2>2. IsBuffer(tx') /\ vnd_stream_n' \in 0 .. StreamMax
    BY <2>1, FlushType, PumpedType
  <2> QED
    BY <1>4, <2>2 DEF Pump, threads, bounds
<1>5. CASE Record
  <2>1. /\ tx' = StreamFlush(tx, vnd_stream_n + 1).tx
        /\ vnd_stream_n' = StreamFlush(tx, vnd_stream_n + 1).n
        /\ vnd_stream_n + 1 \in 0 .. StreamMax
    BY <1>5, <1>a DEF Record
  <2>2. IsBuffer(tx') /\ vnd_stream_n' \in 0 .. StreamMax
    BY <2>1, FlushType
  <2> QED
    BY <1>5, <2>2 DEF Record, threads, bounds
<1>6. CASE Event
  <2>1. Message("event", "other", NoTxn, 0, 1) \in Seq(Packets)
    BY SizeType, MessageType DEF NoTxn, PadLinkAssumption
  <2>2. IsBuffer(tx')
    BY <1>6, <2>1, SentType DEF Event
  <2>3. upsets' \in 0 .. MaxUpsets
    BY <1>6, CountsType DEF Event
  <2> QED
    BY <1>6, <2>2, <2>3 DEF Event, master, threads
<1>7. CASE EnterConsole
  <2>1. upsets' \in 0 .. MaxUpsets
    BY <1>7, CountsType DEF EnterConsole
  <2> QED
    BY <1>7, <1>a, <2>1 DEF EnterConsole, usb, threads
<1>8. CASE Tick
  <2>1. silent' \in 0 .. Idle + 1 /\ frame_age' \in 0 .. Hold
    BY <1>8, <1>a DEF Tick, Lesser
  <2> QED
    BY <1>8, <2>1 DEF Tick, usb, threads, bounds
<1>9. CASE EndConsole
  <2>1. passthrough' \in BOOLEAN
    BY <1>9 DEF EndConsole
  <2>2. UNCHANGED <<usb, vnd_usb_config, vnd_host, vnd_stream_on, vnd_stream_n,
                    vnd_passthrough, silent, frame_age, threads, strays, bounds>>
    BY <1>9 DEF EndConsole
  <2> QED
    BY <2>1, <2>2 DEF usb, threads, bounds
<1>10. CASE IdleOut
  <2>1. passthrough' \in BOOLEAN /\ vnd_passthrough' \in BOOLEAN
    BY <1>10 DEF IdleOut
  <2>2. UNCHANGED <<usb, vnd_usb_config, vnd_host, vnd_stream_on, vnd_stream_n, silent,
                    frame_age, threads, strays, bounds>>
    BY <1>10 DEF IdleOut
  <2> QED
    BY <2>1, <2>2 DEF usb, threads, bounds
<1> QED
  BY <1>1, <1>2, <1>3, <1>4, <1>5, <1>6, <1>7, <1>8, <1>9, <1>10 DEF Master, Service

LEMMA OutsideType == ASSUME PadLinkAssumption, TypeOK, Outside PROVE TypeOK'
<1> USE DEF TypeOK
<1>1. CASE Plug
  BY <1>1 DEF Plug, master, threads, bounds
<1>2. CASE Unplug
  <2>1. Queued(tx) \in Seq(Packets) /\ Len(Queued(tx)) <= TxQ
    BY QueuedType DEF IsBuffer
  <2>2. tx' = [q |-> Queued(tx), s |-> 0] /\ out' = <<>>
    BY <1>2 DEF Unplug
  <2>3. IsBuffer(tx') /\ out' \in Seq(Commands)
    BY <2>1, <2>2 DEF IsBuffer, PadLinkAssumption
  <2>4. upsets' \in 0 .. MaxUpsets
    BY <1>2, CountsType DEF Unplug
  <2>5. usb_configuration' \in {0, 1} /\ link' \in BOOLEAN
    BY <1>2 DEF Unplug
  <2>6. UNCHANGED <<master, manager, reader, stop, connected, pending, chan, next_txn, call,
                    strays, calls>>
    BY <1>2 DEF Unplug
  <2> QED
    BY <2>3, <2>4, <2>5, <2>6 DEF master
<1>3. CASE ToolEnters
  <2>1. PICK codes \in {<<"enter">>, <<"enter", "leave">>} :
          out' = out \o [k \in DOMAIN codes |-> [code |-> codes[k], txn |-> 1, id |-> 0]]
    BY <1>3 DEF ToolEnters
  <2>2. [code |-> "enter", txn |-> 1, id |-> 0] \in Commands
        /\ [code |-> "leave", txn |-> 1, id |-> 0] \in Commands
    BY SizeType DEF Commands, PadLinkAssumption
  <2>3. [k \in DOMAIN codes |-> [code |-> codes[k], txn |-> 1, id |-> 0]] \in Seq(Commands)
    BY <2>2
  <2>4. out' \in Seq(Commands)
    BY <2>1, <2>3
  <2>5. upsets' \in 0 .. MaxUpsets
    BY <1>3, CountsType DEF ToolEnters
  <2> QED
    BY <1>3, <2>4, <2>5 DEF ToolEnters, master, threads
<1>4. CASE Exit
  <2>1. upsets' \in 0 .. MaxUpsets
    BY <1>4, CountsType DEF Exit
  <2>2. call' \in Calls /\ pending' \in 0 .. Txns /\ chan' \in Answers
    BY <1>4, SizeType DEF Exit, Calls, NoCall, NoTxn, Answers, PadLinkAssumption
  <2> QED
    BY <1>4, <2>1, <2>2 DEF Exit, usb, master
<1> QED
  BY <1>1, <1>2, <1>3, <1>4 DEF Outside

\* What is under way has a number, or none.
LEMMA UnderWayType ==
  ASSUME PadLinkAssumption, TypeOK, NEW m \in UnderWay
  PROVE  m.txn \in 0 .. Txns /\ m.id \in 0 .. Ids
<1>1. (\A i \in DOMAIN out : out[i] \in Commands)
      /\ (\A k \in DOMAIN tx.q : tx.q[k] \in Packets)
  BY DEF TypeOK, IsBuffer
<1>2. m \in Commands \/ m \in Packets
  BY <1>1 DEF UnderWay, ToSet
<1> QED
  BY <1>2 DEF Commands, Packets

LEMMA ManagerType == ASSUME PadLinkAssumption, TypeOK, Manager PROVE TypeOK'
<1> USE DEF TypeOK
<1>1. CASE Open
  <2>1. /\ call' \in Calls /\ pending' \in 0 .. Txns /\ chan' \in Answers
        /\ next_txn' \in 1 .. Txns
    BY <1>1, SizeType DEF Open, Calls, NoCall, NoTxn, Answers, PadLinkAssumption
  <2>2. strays' \subseteq 0 .. Ids
    BY <1>1, UnderWayType DEF Open
  <2> QED
    BY <1>1, <2>1, <2>2 DEF Open, usb, master, bounds
<1>2. CASE Register
  BY <1>2 DEF Register, usb, master, bounds
<1>3. CASE Stop
  <2>1. stop' \in BOOLEAN
    BY <1>3 DEF Stop
  <2> QED
    BY <1>3, <2>1 DEF Stop, usb, master, bounds
<1>4. CASE Forget
  BY <1>4 DEF Forget, usb, master, bounds
<1> QED
  BY <1>1, <1>2, <1>3, <1>4 DEF Manager

LEMMA CallAt ==
  ASSUME NEW c \in Calls, NEW at \in {"idle", "looked", "set", "write", "wait"},
         NEW n \in 0 .. Txns
  PROVE  /\ [c EXCEPT !.at = at] \in Calls
         /\ [c EXCEPT !.at = at, !.txn = n] \in Calls
BY DEF Calls

LEMMA ReturnType ==
  ASSUME PadLinkAssumption, TypeOK, NEW answered \in BOOLEAN, Return(answered)
  PROVE  /\ call' = NoCall /\ call' \in Calls
         /\ manager' \in {"scan", "info", "status", "register", "listed", "close"}
BY SizeType DEF Return, AfterFailure, NoCall, Calls, NoTxn, PadLinkAssumption

LEMMA CallerType == ASSUME PadLinkAssumption, TypeOK, Caller PROVE TypeOK'
<1> USE DEF TypeOK
<1>0. 0 \in 0 .. Txns /\ Txns \in Nat \ {0} /\ NoTxn \in 0 .. Txns /\ Nothing \in Answers
      /\ Ids \in Nat
  BY AnswerType DEF PadLinkAssumption, NoTxn
<1>1. ASSUME NEW code \in DOMAIN Size, Begin(code) PROVE TypeOK'
  <2>1. PICK i \in 1 .. Ids : call' = [at |-> "looked", code |-> code, txn |-> NoTxn, id |-> i]
    BY <1>1 DEF Begin
  <2>2. call' \in Calls
    BY <1>0, <2>1 DEF Calls
  <2>3. calls' \in 0 .. MaxCalls
    BY <1>1, CountsType DEF Begin
  <2> QED
    BY <1>1, <2>2, <2>3 DEF Begin, usb, master
<1>2. CASE SendFrame
  <2>1. [code |-> "frame", txn |-> NoTxn, id |-> 0] \in Commands
    BY <1>0, SizeType DEF Commands
  <2>2. out' \in Seq(Commands)
    BY <1>2, <2>1 DEF SendFrame
  <2>3. calls' \in 0 .. MaxCalls
    BY <1>2, CountsType DEF SendFrame
  <2> QED
    BY <1>2, <2>2, <2>3 DEF SendFrame, master, threads
<1>3. CASE Refused
  BY ZenonT(40), <1>3, ReturnType DEF Refused, usb, master, bounds
<1>4. CASE SetPending
  <2>1. call' \in Calls
    <3>1. next_txn \in 0 .. Txns /\ call' = [call EXCEPT !.at = "set", !.txn = next_txn]
      BY SMTT(30), <1>4 DEF SetPending
    <3> QED
      BY <3>1, CallAt
  <2>2. next_txn' \in 1 .. Txns /\ pending' \in 0 .. Txns /\ chan' \in Answers
    <3>1. next_txn % Txns \in 0 .. Txns - 1
      BY <1>0
    <3>2. next_txn' = (next_txn % Txns) + 1 /\ pending' = next_txn /\ chan' = Nothing
      BY <1>4 DEF SetPending, AfterTxn
    <3> QED
      BY <1>0, <3>1, <3>2 DEF Nothing
  <2> QED
    BY <1>4, <2>1, <2>2 DEF SetPending, usb, master, bounds
<1>5. CASE LookAgain
  <2>1. call' \in Calls /\ pending' \in 0 .. Txns
        /\ manager' \in {"scan", "info", "status", "register", "listed", "close"}
    <3>1. CASE MayWrite
      BY <1>5, <3>1 DEF LookAgain, Calls
    <3>2. CASE ~MayWrite
      BY <1>5, <1>0, <3>2, ReturnType DEF LookAgain
    <3> QED
      BY <3>1, <3>2
  <2> QED
    BY <1>5, <2>1 DEF LookAgain, usb, master, bounds
<1>6. CASE Write
  <2>1. call' \in Calls /\ pending' \in 0 .. Txns /\ out' \in Seq(Commands)
        /\ manager' \in {"scan", "info", "status", "register", "listed", "close"}
    <3>1. CASE link
      <4>1. [code |-> call.code, txn |-> call.txn, id |-> call.id] \in Commands
        BY DEF Calls, Commands
      <4> QED
        <5>1. /\ out' = Append(out, [code |-> call.code, txn |-> call.txn, id |-> call.id])
              /\ call' = [call EXCEPT !.at = "wait"] /\ UNCHANGED <<manager, pending>>
          BY <1>6, <3>1 DEF Write
        <5>2. out' \in Seq(Commands)
          BY <4>1, <5>1
        <5>3. call' \in Calls
          BY <5>1, CallAt
        <5> QED
          BY <5>1, <5>2, <5>3
    <3>2. CASE ~link
      BY <1>6, <1>0, <3>2, ReturnType DEF Write
    <3> QED
      BY <3>1, <3>2
  <2> QED
    BY <1>6, <2>1 DEF Write, master, bounds
<1>7. CASE Answered
  <2>1. call' \in Calls /\ chan' \in Answers
        /\ manager' \in {"scan", "info", "status", "register", "listed", "close"}
    <3>1. Return(chan.code = call.code)
      BY <1>7 DEF Answered
    <3> QED
      BY <1>7, <1>0, <3>1, ReturnType DEF Answered, Nothing
  <2> QED
    BY <1>7, <2>1 DEF Answered, usb, master, bounds
<1>8. CASE Timeout
  <2>1. upsets' \in 0 .. MaxUpsets
    BY <1>8, CountsType DEF Timeout
  <2>2. call' \in Calls /\ pending' \in 0 .. Txns
        /\ manager' \in {"scan", "info", "status", "register", "listed", "close"}
    BY <1>8, <1>0, ReturnType DEF Timeout
  <2> QED
    BY <1>8, <2>1, <2>2 DEF Timeout, usb, master
<1> QED
  BY <1>1, <1>2, <1>3, <1>4, <1>5, <1>6, <1>7, <1>8 DEF Caller

LEMMA ReaderType == ASSUME PadLinkAssumption, TypeOK, Reader PROVE TypeOK'
<1> USE DEF TypeOK
<1>1. CASE Drain
  <2>1. IsBuffer(tx')
    BY <1>1, EmptyBuffer DEF Drain
  <2> QED
    BY <1>1, <2>1 DEF Drain, master, bounds
<1>2. CASE Read
  <2>1. /\ tx.q \in Seq(Packets) /\ tx.s \in 0 .. Slots /\ tx.s <= Len(tx.q)
        /\ Len(tx.q) - tx.s <= TxQ /\ tx.s > 0 /\ tx' = [q |-> Tail(tx.q), s |-> tx.s - 1]
    BY <1>2 DEF Read, IsBuffer
  <2>2. /\ Slots \in Nat /\ TxQ \in Nat /\ Len(tx.q) \in Nat /\ tx.q # <<>>
        /\ tx.s \in Nat
    BY SMTT(30), <2>1 DEF PadLinkAssumption
  <2>3. Tail(tx.q) \in Seq(Packets) /\ Len(Tail(tx.q)) = Len(tx.q) - 1 /\ Head(tx.q) \in Packets
    BY <2>1, <2>2
  <2>4. IsBuffer(tx')
    BY <2>1, <2>2, <2>3 DEF IsBuffer
  <2>5. Says(Head(tx.q)) \in Answers /\ NoTxn \in 0 .. Txns
    BY <2>3, AnswerType DEF NoTxn, PadLinkAssumption
  <2>6. pending' \in 0 .. Txns /\ chan' \in Answers
    BY <1>2, <2>5 DEF Read
  <2> QED
    BY <1>2, <2>4, <2>6 DEF Read, master, bounds
<1>3. CASE ReadFails
  <2>1. upsets' \in 0 .. MaxUpsets
    BY <1>3, CountsType DEF ReadFails
  <2> QED
    BY ZenonT(40), <1>3, <2>1 DEF ReadFails, usb, master
<1>4. CASE FailPending
  <2>1. pending' \in 0 .. Txns /\ chan' \in Answers
    BY <1>4, AnswerType DEF FailPending, NoTxn, PadLinkAssumption
  <2> QED
    BY <1>4, <2>1 DEF FailPending, usb, master, bounds
<1> QED
  BY <1>1, <1>2, <1>3, <1>4 DEF Reader

LEMMA StepType == ASSUME PadLinkAssumption, TypeOK, [Next]_vars PROVE TypeOK'
<1>1. CASE UNCHANGED vars
  BY <1>1 DEF TypeOK, vars, usb, master, threads, bounds
<1> QED
  BY <1>1, MasterType, OutsideType, ManagerType, CallerType, ReaderType DEF Next

\* The variables keep their types: neither the queue nor the core's slots hold more than
\* they take, and every command and packet is one that somebody gave (vndSend, vndPump).
THEOREM TypeCorrect == ASSUME PadLinkAssumption PROVE Spec => []TypeOK
<1>1. Init => TypeOK
  BY InitType
<1>2. TypeOK /\ [Next]_vars => TypeOK'
  BY StepType
<1> QED
  BY <1>1, <1>2, PTL DEF Spec

-----------------------------------------------------------------------------
(* Nobody waits for ever *)

\* A reader that is ending has taken connected away, and a command that has passed its
\* second look is still pending, or has its answer, until the reader fails it.
WaitInv ==
  /\ reader \in {"ending", "finished"} => ~connected
  /\ call.at \in {"set", "write", "wait"} /\ chan = Nothing => pending # NoTxn
  /\ call.at \in {"write", "wait"} /\ reader = "finished" => chan # Nothing

LEMMA WaitStep ==
  ASSUME PadLinkAssumption, TypeOK, WaitInv, [Next]_vars
  PROVE  WaitInv'
<1> USE DEF WaitInv
<1>0. Gone # Nothing /\ \A m \in Commands \cup Packets : Says(m) # Nothing
  BY AnswerType
<1>1. ASSUME UNCHANGED <<reader, connected, call, chan, pending>> PROVE WaitInv'
  BY <1>1
<1>2. ASSUME call' = NoCall, UNCHANGED <<reader, connected>> PROVE WaitInv'
  BY <1>2 DEF NoCall
<1>3. CASE Reset \/ Command \/ Pump \/ IdleOut \/ Tick \/ Record \/ Event \/ EnterConsole
           \/ EndConsole \/ Plug \/ Unplug \/ ToolEnters \/ UNCHANGED vars
  <2>1. UNCHANGED <<reader, connected, call, chan, pending>>
    BY <1>3 DEF Reset, Command, Pump, IdleOut, Tick, Record, Event, EnterConsole, EndConsole,
                Plug, Unplug, ToolEnters, vars, threads
  <2> QED
    BY <1>1, <2>1
<1>4. CASE RebootCommand
  <2>1. Head(out) \in Commands
    BY <1>4 DEF RebootCommand, TypeOK
  <2> QED
    BY <1>0, <1>4, <2>1 DEF RebootCommand
<1>5. CASE Exit \/ Open
  BY <1>5 DEF Exit, Open, NoCall
<1>6. CASE Register \/ Stop \/ SendFrame
  <2>1. UNCHANGED <<reader, connected, call, chan, pending>>
    BY <1>6 DEF Register, Stop, SendFrame, threads
  <2> QED
    BY <1>1, <2>1
<1>7. CASE Forget
  BY <1>7 DEF Forget
<1>8. ASSUME NEW code \in DOMAIN Size, Begin(code) PROVE WaitInv'
  <2>1. call'.at = "looked" /\ UNCHANGED <<reader, connected, chan, pending>>
    BY <1>8 DEF Begin
  <2> QED
    BY <2>1
<1>9. CASE Refused \/ Answered \/ Timeout
  <2>1. call' = NoCall /\ UNCHANGED <<reader, connected>>
    BY <1>9 DEF Refused, Answered, Timeout, Return
  <2> QED
    BY <1>2, <2>1
<1>10. CASE SetPending
  <2>1. pending' # NoTxn /\ call'.at = "set" /\ UNCHANGED <<reader, connected>>
    BY <1>10 DEF SetPending, TypeOK, NoTxn, Calls, PadLinkAssumption
  <2> QED
    BY <2>1
<1>11. CASE LookAgain
  <2>1. CASE connected
    <3>1. call.at = "set" /\ call'.at = "write" /\ UNCHANGED <<reader, connected, chan, pending>>
      BY <1>11, <2>1 DEF LookAgain, MayWrite, TypeOK, Calls
    <3> QED
      BY <2>1, <3>1
  <2>2. CASE ~connected
    BY <1>2, <1>11, <2>2 DEF LookAgain, MayWrite, Return
  <2> QED
    BY <2>1, <2>2
<1>12. CASE Write
  <2>1. CASE link
    <3>1. call.at = "write" /\ call'.at = "wait" /\ UNCHANGED <<reader, connected, chan, pending>>
      BY <1>12, <2>1 DEF Write, TypeOK, Calls
    <3> QED
      BY <3>1
  <2>2. CASE ~link
    BY <1>2, <1>12, <2>2 DEF Write, Return
  <2> QED
    BY <2>1, <2>2
<1>13. CASE Drain
  BY <1>13 DEF Drain
<1>14. CASE Read
  <2>1. Head(tx.q) \in Packets
    <3>1. tx.q \in Seq(Packets) /\ tx.q # <<>>
      BY <1>14 DEF Read, TypeOK, IsBuffer, PadLinkAssumption
    <3> QED
      BY <3>1
  <2>2. UNCHANGED <<reader, connected, call>> /\ reader = "read"
    BY <1>14 DEF Read
  <2>3. chan' # Nothing \/ UNCHANGED <<pending, chan>>
    BY <1>0, <1>14, <2>1 DEF Read
  <2> QED
    BY <2>2, <2>3
<1>15. CASE ReadFails
  BY <1>15 DEF ReadFails
<1>16. CASE FailPending
  <2>1. reader = "ending" /\ reader' = "finished" /\ UNCHANGED <<connected, call>>
    BY <1>16 DEF FailPending
  <2>2. chan' = Gone \/ (pending = NoTxn /\ UNCHANGED <<pending, chan>>)
    BY <1>16 DEF FailPending
  <2> QED
    BY <1>0, <2>1, <2>2
<1> QED
  BY <1>3, <1>4, <1>5, <1>6, <1>7, <1>8, <1>9, <1>10, <1>11, <1>12, <1>13, <1>14, <1>15,
     <1>16 DEF Next, Master, Service, Outside, Manager, Caller, Reader

\* NoOrphan: nobody waits for an answer no reader will give, wherever the reader ends
\* while a command is set up (command, fail_pending).
THEOREM NoneOrphaned == ASSUME PadLinkAssumption PROVE Spec => []NoOrphan
<1>1. Init => WaitInv
  BY DEF Init, WaitInv, NoCall
<1>2. TypeOK /\ WaitInv /\ [Next]_vars => WaitInv'
  BY WaitStep
<1>3. WaitInv => NoOrphan
  BY DEF WaitInv, NoOrphan
<1>4. Spec => []TypeOK
  BY TypeCorrect
<1> QED
  BY <1>1, <1>2, <1>3, <1>4, PTL DEF Spec

-----------------------------------------------------------------------------
(* Telemetry *)

LEMMA MessageKind ==
  ASSUME NEW kind, NEW code, NEW txn, NEW id, NEW n \in Nat
  PROVE  \A k \in 1 .. n : Message(kind, code, txn, id, n)[k].kind = kind
BY DEF Message

LEMMA MessageLen ==
  ASSUME NEW kind, NEW code, NEW txn, NEW id, NEW n \in Nat
  PROVE  Len(Message(kind, code, txn, id, n)) = n
BY DEF Message

\* An event and a packet of telemetry.
LEMMA OnePacket ==
  ASSUME PadLinkAssumption, NEW kind \in {"event", "stream"}, NEW code \in DOMAIN Size
  PROVE  /\ Message(kind, code, NoTxn, 0, 1) \in Seq(Packets)
         /\ Len(Message(kind, code, NoTxn, 0, 1)) = 1
<1>1. /\ NoTxn \in 0 .. Txns /\ 0 \in 0 .. Ids /\ 1 \in Nat
      /\ kind \in {"resp", "event", "stream"}
  BY DEF NoTxn, PadLinkAssumption
<1>2. Message(kind, code, NoTxn, 0, 1) \in Seq(Packets)
  BY <1>1, MessageType
<1>3. Len(Message(kind, code, NoTxn, 0, 1)) = 1
  BY <1>1 DEF Message
<1> QED
  BY <1>2, <1>3

Waiting(t) == {k \in DOMAIN t.q : k > t.s /\ t.q[k].kind = "stream"}

OneStream(t) == \A k, l \in Waiting(t) : k = l

\* What has gone into the core's slots waits no more.
LEMMA PumpedOne ==
  ASSUME PadLinkAssumption, NEW t, IsBuffer(t), OneStream(t)
  PROVE  OneStream(Pumped(t))
<1>1. Pumped(t).q = t.q /\ t.s <= Pumped(t).s /\ Pumped(t).s \in Nat /\ t.s \in Nat
  BY PumpedType DEF IsBuffer, PadLinkAssumption
<1>2. DOMAIN t.q \subseteq Nat
  BY DEF IsBuffer
<1> QED
  BY <1>1, <1>2 DEF OneStream, Waiting

\* A message is dropped, or follows what there is.
LEMMA SentShape ==
  ASSUME PadLinkAssumption, NEW t, IsBuffer(t), NEW message \in Seq(Packets)
  PROVE  \/ Sent(t, message) = Pumped(t)
         \/ /\ Sent(t, message).q = t.q \o message
            /\ Sent(t, message).s \in Nat /\ Pumped(t).s <= Sent(t, message).s
<1> DEFINE v == [q |-> t.q \o message, s |-> t.s]
           w == Lesser(Slots, Len(v.q))
<1>1. /\ t.q \in Seq(Packets) /\ Len(t.q) \in Nat /\ Slots \in Nat /\ Len(message) \in Nat
      /\ Pumped(t).s = Lesser(Slots, Len(t.q))
  BY DEF IsBuffer, PadLinkAssumption, Pumped
<1>2. [t EXCEPT !.q = @ \o message] = v
  BY WithQueue DEF IsBuffer
<1>3. v.q = t.q \o message /\ Len(v.q) = Len(t.q) + Len(message)
  BY <1>1
<1>4. [v EXCEPT !.s = w] = [q |-> v.q, s |-> w]
  BY WithSlots
<1> HIDE DEF v
<1>5. Pumped(v) = [q |-> v.q, s |-> w]
  BY <1>4 DEF Pumped
<1>6. w \in Nat /\ Pumped(t).s <= w
  BY <1>1, <1>3 DEF Lesser
<1>7. Sent(t, message) \in {Pumped(t), Pumped(v)}
  BY <1>2 DEF Sent
<1> QED
  BY <1>3, <1>5, <1>6, <1>7

\* A message of another kind changes nothing of it.
LEMMA SentOne ==
  ASSUME PadLinkAssumption, NEW t, IsBuffer(t), OneStream(t), NEW message \in Seq(Packets),
         \A k \in 1 .. Len(message) : message[k].kind # "stream"
  PROVE  OneStream(Sent(t, message))
<1> DEFINE u == Sent(t, message)
<1>1. CASE u = Pumped(t)
  BY <1>1, PumpedOne
<1>2. CASE u.q = t.q \o message /\ u.s \in Nat /\ Pumped(t).s <= u.s
  <2>1. t.q \in Seq(Packets) /\ t.s \in Nat /\ t.s <= Pumped(t).s /\ Pumped(t).s \in Nat
    BY PumpedType DEF IsBuffer, PadLinkAssumption
  <2> HIDE DEF u
  <2>2. ASSUME NEW k \in Waiting(u) PROVE k \in Waiting(t)
    <3>1. k \in 1 .. Len(t.q) + Len(message) /\ k > u.s /\ u.q[k].kind = "stream"
      BY <1>2, <2>1 DEF Waiting
    <3>2. CASE k <= Len(t.q)
      <4>1. u.q[k] = t.q[k] /\ k \in DOMAIN t.q
        BY <1>2, <2>1, <3>1, <3>2
      <4> QED
        BY <1>2, <2>1, <3>1, <4>1 DEF Waiting
    <3>3. CASE k > Len(t.q)
      <4>1. u.q[k] = message[k - Len(t.q)] /\ k - Len(t.q) \in 1 .. Len(message)
        BY <1>2, <2>1, <3>1, <3>3
      <4> QED
        BY <3>1, <4>1
    <3> QED
      BY <2>1, <3>1, <3>2, <3>3
  <2>3. OneStream(u)
    BY <2>2 DEF OneStream
  <2> QED
    BY <2>3 DEF u
<1> QED
  BY <1>1, <1>2, SentShape

LEMMA RespondedOne ==
  ASSUME PadLinkAssumption, NEW t, IsBuffer(t), OneStream(t), NEW c \in Commands
  PROVE  OneStream(Responded(t, c))
<1> DEFINE message == Message("resp", c.code, c.txn, c.id, Size[c.code])
<1>1. Size[c.code] \in Nat /\ c.txn \in 0 .. Txns /\ c.id \in 0 .. Ids
  BY SizeType DEF Commands
<1>2. Message("resp", c.code, c.txn, c.id, Size[c.code]) \in Seq(Packets)
  BY <1>1, MessageType DEF Commands
<1>3. Len(Message("resp", c.code, c.txn, c.id, Size[c.code])) = Size[c.code]
  BY <1>1, MessageLen
<1>4. \A k \in 1 .. Len(message) : message[k].kind # "stream"
  <2>1. \A k \in 1 .. Size[c.code] : message[k].kind = "resp"
    BY <1>1, MessageKind
  <2> QED
    BY <1>3, <2>1
<1>5. message \in Seq(Packets)
  BY <1>2
<1> HIDE DEF message
<1>6. OneStream(Sent(t, message))
  BY <1>4, <1>5, SentOne
<1> QED
  BY <1>6 DEF Responded, message

LEMMA OneMore ==
  ASSUME NEW S, NEW s \in Seq(S), NEW more \in Seq(S), Len(more) = 1
  PROVE  DOMAIN (s \o more) = 1 .. Len(s) + 1 /\ Len(s) \in Nat
<1>1. Len(s \o more) = Len(s) + Len(more) /\ s \o more \in Seq(S)
  BY ConcatProperties
<1> QED
  BY <1>1

\* Telemetry goes out only when nothing waits, so it is the only packet that does.
LEMMA FlushOne ==
  ASSUME PadLinkAssumption, NEW t, IsBuffer(t), OneStream(t), NEW n \in 0 .. StreamMax
  PROVE  OneStream(StreamFlush(t, n).tx)
<1> DEFINE message == Message("stream", "stream", NoTxn, 0, 1)
           u == Sent(t, message)
<1>1. message \in Seq(Packets) /\ Len(message) = 1
  BY SizeType, OnePacket
<1>2. CASE n # 0 /\ MayFlush(t)
  <2>1. /\ IsBuffer(Pumped(t)) /\ Pumped(t).q = t.q /\ Pumped(t).s \in Nat
        /\ t.q \in Seq(Packets)
    BY PumpedType DEF IsBuffer
  <2>2. Len(t.q) = Pumped(t).s
    <3>1. Len(Queued(Pumped(t))) = Len(t.q) - Pumped(t).s
      BY <2>1, QueuedType
    <3>2. Len(Queued(Pumped(t))) = 0
      BY <1>2 DEF MayFlush
    <3> QED
      BY <2>1, <3>1, <3>2
  <2> HIDE DEF message
  <2>3. u = Pumped(t) \/ (u.q = t.q \o message /\ u.s \in Nat /\ Pumped(t).s <= u.s)
    BY <1>1, SentShape
  <2>4. OneStream(u)
    <3>1. CASE u = Pumped(t)
      BY <3>1, PumpedOne
    <3>2. CASE u.q = t.q \o message /\ u.s \in Nat /\ Pumped(t).s <= u.s
      <4> HIDE DEF u
      <4>1. DOMAIN u.q = 1 .. Len(t.q) + 1 /\ Len(t.q) \in Nat
        <5>1. t.q \in Seq(Packets) /\ message \in Seq(Packets) /\ Len(message) = 1
          BY <1>1, <2>1
        <5>2. DOMAIN (t.q \o message) = 1 .. Len(t.q) + 1 /\ Len(t.q) \in Nat
          BY <5>1, OneMore
        <5> QED
          BY <3>2, <5>2
      <4>2. ASSUME NEW k \in Waiting(u) PROVE k = Len(t.q) + 1
        BY <2>1, <2>2, <3>2, <4>1 DEF Waiting
      <4>3. OneStream(u)
        BY <4>2 DEF OneStream
      <4> QED
        BY <4>3 DEF u
    <3> QED
      BY <2>3, <3>1, <3>2
  <2> QED
    BY <1>2, <2>4 DEF StreamFlush, message
<1>3. CASE ~(n # 0 /\ MayFlush(t))
  BY <1>3, PumpedOne DEF StreamFlush
<1> QED
  BY <1>2, <1>3

LEMMA OneStep ==
  ASSUME PadLinkAssumption, TypeOK, OneStream(tx), [Next]_vars
  PROVE  OneStream(tx')
<1>0. IsBuffer(tx) /\ vnd_stream_n \in 0 .. StreamMax /\ out \in Seq(Commands)
      /\ tx.q \in Seq(Packets) /\ tx.s \in Nat /\ tx.s <= Len(tx.q)
  BY DEF TypeOK, IsBuffer, PadLinkAssumption
<1>1. CASE Reset
  <2>1. tx' = [q |-> SubSeq(tx.q, 1, tx.s), s |-> tx.s]
    BY <1>0, <1>1 DEF Reset, IsBuffer
  <2>2. DOMAIN SubSeq(tx.q, 1, tx.s) = 1 .. tx.s
    BY <1>0, SubSeqProperties
  <2> QED
    BY <1>0, <2>1, <2>2 DEF OneStream, Waiting
<1>2. CASE Command
  <2> DEFINE c == Head(out)
             r == Responded(tx, c)
             f == StreamFlush(r, StreamN(c.code))
  <2>1. c \in Commands /\ StreamN(c.code) \in 0 .. StreamMax
    BY <1>0, <1>2 DEF Command, StreamN, PadLinkAssumption
  <2>2. IsBuffer(r) /\ OneStream(r)
    BY <1>0, <2>1, RespondedType, RespondedOne
  <2> HIDE DEF r, c
  <2>3. IsBuffer(f.tx) /\ OneStream(f.tx)
    BY <2>1, <2>2, FlushType, FlushOne
  <2> HIDE DEF f
  <2>4. tx' = Pumped(f.tx)
    BY <1>2 DEF Command, f, r, c
  <2> QED
    BY <2>3, <2>4, PumpedOne
<1>3. CASE Pump
  <2>1. tx' = Pumped(StreamFlush(tx, vnd_stream_n).tx)
    BY <1>3 DEF Pump
  <2>2. IsBuffer(StreamFlush(tx, vnd_stream_n).tx) /\ OneStream(StreamFlush(tx, vnd_stream_n).tx)
    BY <1>0, FlushType, FlushOne
  <2> QED
    BY <2>1, <2>2, PumpedOne
<1>4. CASE Record
  <2>1. tx' = StreamFlush(tx, vnd_stream_n + 1).tx /\ vnd_stream_n + 1 \in 0 .. StreamMax
    BY <1>0, <1>4 DEF Record, PadLinkAssumption
  <2> QED
    BY <1>0, <2>1, FlushOne
<1>5. CASE Event
  <2> DEFINE message == Message("event", "other", NoTxn, 0, 1)
  <2>1. message \in Seq(Packets) /\ Len(message) = 1
    BY SizeType, OnePacket
  <2>2. \A k \in 1 .. Len(message) : message[k].kind # "stream"
    <3>1. \A k \in 1 .. 1 : message[k].kind = "event"
      BY MessageKind
    <3> QED
      BY <2>1, <3>1
  <2> HIDE DEF message
  <2>3. tx' = Sent(tx, message)
    BY <1>5 DEF Event, message
  <2> QED
    BY <1>0, <2>1, <2>2, <2>3, SentOne
<1>6. CASE RebootCommand \/ Drain
  <2>1. tx' = [q |-> <<>>, s |-> 0]
    BY <1>6 DEF RebootCommand, Drain
  <2> QED
    BY <2>1 DEF OneStream, Waiting
\* A disconnect gives up what the core holds: what waited waits still.
<1>7. CASE Unplug
  <2>1. tx' = [q |-> Queued(tx), s |-> 0]
    BY <1>7 DEF Unplug
  <2>2. Len(Queued(tx)) = Len(tx.q) - tx.s /\ Queued(tx) \in Seq(Packets)
        /\ \A k \in 1 .. Len(tx.q) - tx.s : Queued(tx)[k] = tx.q[k + tx.s]
    <3>1. Len(tx.q) \in Nat /\ tx.s + 1 \in 1 .. Len(tx.q) + 1
      BY <1>0
    <3>2. \A k \in 1 .. Len(tx.q) - (tx.s + 1) + 1 :
            SubSeq(tx.q, tx.s + 1, Len(tx.q))[k] = tx.q[tx.s + 1 + k - 1]
      BY <1>0, <3>1, SubSeqProperties
    <3>3. ASSUME NEW k \in 1 .. Len(tx.q) - tx.s PROVE Queued(tx)[k] = tx.q[k + tx.s]
      <4>1. k \in 1 .. Len(tx.q) - (tx.s + 1) + 1 /\ tx.s + 1 + k - 1 = k + tx.s
        <5> DEFINE a == Len(tx.q)
                   b == tx.s
        <5>1. a \in Nat /\ b \in Nat /\ k \in 1 .. a - b
          BY <1>0, <3>1
        <5> HIDE DEF a, b
        <5>2. k \in 1 .. a - (b + 1) + 1 /\ b + 1 + k - 1 = k + b
          BY <5>1
        <5> QED
          BY <5>2 DEF a, b
      <4>2. Queued(tx)[k] = tx.q[tx.s + 1 + k - 1]
        BY <3>2, <4>1 DEF Queued
      <4> QED
        BY <4>1, <4>2
    <3> QED
      BY <1>0, <3>3, QueuedType
  <2>3. ASSUME NEW k \in Waiting(tx') PROVE k \in Nat /\ k + tx.s \in Waiting(tx)
    <3>1. k \in 1 .. Len(tx.q) - tx.s /\ Queued(tx)[k].kind = "stream"
      BY <1>0, <2>1, <2>2 DEF Waiting
    <3>2. k + tx.s \in DOMAIN tx.q /\ k + tx.s > tx.s /\ tx.q[k + tx.s].kind = "stream"
      BY <1>0, <2>2, <3>1
    <3> QED
      BY <3>1, <3>2 DEF Waiting
  <2>4. ASSUME NEW k \in Waiting(tx'), NEW l \in Waiting(tx') PROVE k = l
    <3>1. k + tx.s = l + tx.s
      BY <2>3 DEF OneStream
    <3> QED
      BY <1>0, <2>3, <3>1
  <2> QED
    BY <2>4 DEF OneStream
<1>8. CASE Read
  <2>1. tx' = [q |-> Tail(tx.q), s |-> tx.s - 1] /\ tx.s > 0
    BY <1>8 DEF Read
  <2>2. Len(Tail(tx.q)) = Len(tx.q) - 1 /\ Len(tx.q) \in Nat /\ Tail(tx.q) \in Seq(Packets)
        /\ \A k \in 1 .. Len(tx.q) - 1 : Tail(tx.q)[k] = tx.q[k + 1]
    BY <1>0, <2>1
  <2>3. ASSUME NEW k \in Waiting(tx') PROVE k \in Nat /\ k + 1 \in Waiting(tx)
    <3>1. k \in 1 .. Len(tx.q) - 1 /\ k > tx.s - 1 /\ Tail(tx.q)[k].kind = "stream"
      BY <1>0, <2>1, <2>2 DEF Waiting
    <3>2. k + 1 \in DOMAIN tx.q /\ k + 1 > tx.s /\ tx.q[k + 1].kind = "stream"
      BY <1>0, <2>2, <3>1
    <3> QED
      BY <3>1, <3>2 DEF Waiting
  <2>4. ASSUME NEW k \in Waiting(tx'), NEW l \in Waiting(tx') PROVE k = l
    <3>1. k + 1 = l + 1
      BY <2>3 DEF OneStream
    <3> QED
      BY <2>3, <3>1
  <2> QED
    BY <2>4 DEF OneStream
<1>9. ASSUME tx' = tx PROVE OneStream(tx')
  BY <1>9
<1>10. CASE IdleOut \/ Tick \/ EnterConsole \/ EndConsole \/ Plug \/ ToolEnters \/ Exit
            \/ UNCHANGED vars
  <2>1. tx' = tx
    BY <1>10 DEF IdleOut, Tick, EnterConsole, EndConsole, Plug, ToolEnters, Exit, vars, usb
  <2> QED
    BY <1>9, <2>1
<1>11. CASE Manager \/ Caller
  <2>1. tx' = tx
    BY <1>11 DEF Manager, Open, Register, Stop, Forget, Caller, Begin, SendFrame, Refused,
                 SetPending, LookAgain, Write, Answered, Timeout, usb
  <2> QED
    BY <1>9, <2>1
<1>12. CASE ReadFails \/ FailPending
  <2>1. tx' = tx
    BY <1>12 DEF ReadFails, FailPending, usb
  <2> QED
    BY <1>9, <2>1
<1> QED
  BY <1>1, <1>2, <1>3, <1>4, <1>5, <1>6, <1>7, <1>8, <1>10, <1>11, <1>12
     DEF Next, Master, Service, Outside, Reader

\* TelemetryYields: at most one packet of telemetry waits in the queue, however full it
\* is (vndStreamFlush).
THEOREM TelemetryAlwaysYields == ASSUME PadLinkAssumption PROVE Spec => []TelemetryYields
<1>1. Init => OneStream(tx)
  BY DEF Init, OneStream, Waiting
<1>2. TypeOK /\ OneStream(tx) /\ [Next]_vars => OneStream(tx)'
  BY OneStep
<1>3. OneStream(tx) => TelemetryYields
  <2>1. ASSUME OneStream(tx), Waiting(tx) # {} PROVE Cardinality(Waiting(tx)) = 1
    <3>1. PICK k \in Waiting(tx) : TRUE
      BY <2>1
    <3>2. Waiting(tx) = {k}
      BY <2>1, <3>1 DEF OneStream
    <3> QED
      BY <3>2, FS_Singleton
  <2>2. Cardinality({}) = 0
    BY FS_EmptySet
  <2>3. OneStream(tx) => Cardinality(Waiting(tx)) <= 1
    BY <2>1, <2>2
  <2> QED
    BY <2>3 DEF TelemetryYields, Waiting
<1>4. Spec => []TypeOK
  BY TypeCorrect
<1> QED
  BY <1>1, <1>2, <1>3, <1>4, PTL DEF Spec
-----------------------------------------------------------------------------
(* An answer is the caller's own, where numbers begin as they are meant to *)

\* What a caller is given answers its own command.
ResponseOwn == call.at = "wait" /\ chan \notin {Nothing, Gone} => chan.id = call.id

\* A connection's numbers begin where none of an earlier program's is still under way, as
\* the comment at the seed (pad.rs:171) would have it and the seed does not guarantee.
SeedFree == Open => next_txn' \notin {m.txn : m \in UnderWay}

SeedsFree == [][SeedFree]_vars

\* The number a command takes is that of nothing still under way.  A number is a byte and
\* none is 0 (alloc_txn), so what was never read comes to matter again when 255 more
\* commands have been given.
NumberFree == SetPending => next_txn \notin {m.txn : m \in UnderWay}

NumbersFree == [][NumberFree]_vars

\* The numbers of one connection's commands, the handshake's two among them, are all
\* different.
NumbersFit == MaxCalls + 2 <= Txns

\* The last that is under way, of all that has a number, is what carries n.
OwnLast(n) ==
  /\ \A i \in DOMAIN out : out[i].txn = n => i = Len(out)
  /\ \A k \in DOMAIN tx.q : tx.q[k].txn = n =>
       /\ out = <<>>
       /\ \A l \in DOMAIN tx.q : l > k => tx.q[l].txn \in {NoTxn, n}

\* The numbers taken before the pad's next n - 1.
Ahead(n) == IF n >= next_txn THEN n - next_txn ELSE n + Txns - next_txn

\* The numbers the program may still take of this pad.
ToCome ==
  MaxCalls - calls
    + IF call.at = "looked" \/ (manager = "status" /\ call.at = "idle") THEN 1 ELSE 0

Numbered == call.at \in {"set", "write", "wait"}

\* While one is waited for, what carries its number is the call's own.
PendingOwn ==
  pending # NoTxn =>
    /\ Numbered /\ call.txn = pending /\ chan = Nothing
    /\ \A m \in UnderWay : m.txn = pending => call.at = "wait" /\ m.id = call.id

CallOwn ==
  Numbered =>
    /\ call.txn \in 1 .. Txns /\ next_txn = AfterTxn(call.txn)
    /\ chan \notin {Nothing, Gone} => chan.id = call.id

\* The handshake's first answer comes when what an earlier program left has gone by.
InfoOwn ==
  manager = "info" =>
    /\ ~Numbered => \A m \in UnderWay : m.txn # next_txn
    /\ pending # NoTxn => OwnLast(pending)
    /\ Numbered /\ chan \notin {Nothing, Gone} =>
         \A m \in UnderWay : m.txn \in {NoTxn, call.txn}

\* From then on nothing under way has a number that is still to be taken, when there are
\* numbers enough.
AheadFree ==
  NumbersFit /\ manager \in {"status", "register", "listed"} =>
    \A m \in UnderWay : m.txn = NoTxn \/ Ahead(m.txn) >= ToCome

\* What is answered has a number.
Tagged ==
  /\ \A i \in DOMAIN out : out[i].code # "frame" => out[i].txn # NoTxn
  /\ \A k \in DOMAIN tx.q : tx.q[k].kind = "resp" => tx.q[k].txn # NoTxn

OwnInv ==
  /\ call.at # "idle" => manager \in {"info", "status", "listed"}
  /\ Tagged
  /\ PendingOwn
  /\ CallOwn
  /\ InfoOwn
  /\ AheadFree

\* What a step leaves under way was under way before it, or has no number; and it is
\* still in order.
Keeps ==
  \A m \in UnderWay' :
    m.txn = NoTxn \/ \E l \in UnderWay : l.txn = m.txn /\ l.id = m.id

KeepsOrder == \A n \in 1 .. Txns : OwnLast(n) => OwnLast(n)'

Flows == Keeps /\ KeepsOrder /\ Tagged'

LEMMA UnderWayIs ==
  /\ UnderWay = {out[i] : i \in DOMAIN out} \cup {tx.q[k] : k \in DOMAIN tx.q}
  /\ UnderWay' = {out'[i] : i \in DOMAIN out'} \cup {tx'.q[k] : k \in DOMAIN tx'.q}
BY DEF UnderWay, ToSet

\* Part of the queue is left, and all commands or none.
LEMMA PartFlows ==
  ASSUME PadLinkAssumption, TypeOK, Tagged, NEW d \in Nat, out' \in {out, <<>>},
         DOMAIN tx'.q \subseteq Nat,
         \A k \in DOMAIN tx'.q : k + d \in DOMAIN tx.q /\ tx'.q[k] = tx.q[k + d]
  PROVE  Flows
<1>0. DOMAIN tx.q \subseteq Nat
  BY DEF TypeOK, IsBuffer
<1>1. DOMAIN out' \subseteq DOMAIN out /\ \A i \in DOMAIN out' : out'[i] = out[i] /\ out' = out
  OBVIOUS
<1>2. Keeps
  <2>1. UnderWay' \subseteq UnderWay
    BY <1>1, UnderWayIs
  <2> QED
    BY <2>1 DEF Keeps
<1>3. KeepsOrder
  <2> SUFFICES ASSUME NEW n \in 1 .. Txns, OwnLast(n) PROVE OwnLast(n)'
    BY DEF KeepsOrder
  <2>1. \A i \in DOMAIN out' : out'[i].txn = n => i = Len(out')
    BY <1>1 DEF OwnLast
  <2>2. ASSUME NEW k \in DOMAIN tx'.q, tx'.q[k].txn = n
        PROVE  out' = <<>> /\ \A l \in DOMAIN tx'.q : l > k => tx'.q[l].txn \in {NoTxn, n}
    <3>1. /\ k + d \in DOMAIN tx.q /\ tx.q[k + d].txn = n /\ k \in Nat
      BY <2>2
    <3>2. out = <<>> /\ \A l \in DOMAIN tx.q : l > k + d => tx.q[l].txn \in {NoTxn, n}
      BY <3>1 DEF OwnLast
    <3>3. ASSUME NEW l \in DOMAIN tx'.q, l > k PROVE tx'.q[l].txn \in {NoTxn, n}
      <4>1. l \in Nat /\ l + d > k + d /\ l + d \in DOMAIN tx.q /\ tx'.q[l] = tx.q[l + d]
        BY <3>1, <3>3
      <4> QED
        BY <3>2, <4>1
    <3> QED
      BY <3>2, <3>3
  <2> QED
    BY <2>1, <2>2 DEF OwnLast
<1>4. Tagged'
  BY <1>1 DEF Tagged
<1> QED
  BY <1>2, <1>3, <1>4 DEF Flows

\* Packets that answer nothing are queued.
LEMMA MoreFlows ==
  ASSUME PadLinkAssumption, TypeOK, Tagged, out' = out, NEW r \in Seq(Packets),
         tx'.q = tx.q \o r,
         \A k \in DOMAIN r : r[k].txn = NoTxn /\ r[k].kind # "resp"
  PROVE  Flows
<1>0. tx.q \in Seq(Packets) /\ Len(tx.q) \in Nat /\ Len(r) \in Nat
  BY DEF TypeOK, IsBuffer
<1>1. DOMAIN tx'.q = 1 .. Len(tx.q) + Len(r)
  BY <1>0
<1>2. ASSUME NEW k \in DOMAIN tx'.q
      PROVE  \/ k \in DOMAIN tx.q /\ tx'.q[k] = tx.q[k]
             \/ tx'.q[k].txn = NoTxn /\ tx'.q[k].kind # "resp"
  <2>1. CASE k <= Len(tx.q)
    BY <1>0, <1>1, <2>1
  <2>2. CASE k > Len(tx.q)
    <3>1. k - Len(tx.q) \in DOMAIN r /\ tx'.q[k] = r[k - Len(tx.q)]
      BY <1>0, <1>1, <2>2
    <3> QED
      BY <3>1
  <2> QED
    BY <1>0, <1>1, <2>1, <2>2
<1>3. Keeps
  BY <1>2, UnderWayIs DEF Keeps
<1>4. ASSUME NEW n \in 1 .. Txns, OwnLast(n) PROVE OwnLast(n)'
  BY <1>2, <1>4 DEF OwnLast, NoTxn, PadLinkAssumption
<1>5. Tagged'
  BY <1>2 DEF Tagged
<1> QED
  BY <1>3, <1>4, <1>5 DEF Flows, KeepsOrder

\* The first command is taken, and its response queued behind what there is.
LEMMA CommandFlows ==
  ASSUME PadLinkAssumption, TypeOK, Tagged, out # <<>>, out' = Tail(out),
         NEW r \in Seq(Packets), NEW u \in Seq(Packets), tx'.q = (tx.q \o r) \o u,
         \A k \in DOMAIN r : /\ r[k].txn = Head(out).txn /\ r[k].id = Head(out).id
                             /\ r[k].txn # NoTxn,
         \A k \in DOMAIN u : u[k].txn = NoTxn /\ u[k].kind # "resp"
  PROVE  Flows
<1>0. /\ tx.q \in Seq(Packets) /\ Len(tx.q) \in Nat /\ Len(r) \in Nat /\ Len(u) \in Nat
      /\ out \in Seq(Commands) /\ Len(out) \in Nat \ {0}
  BY DEF TypeOK, IsBuffer
<1>1. /\ DOMAIN out' = 1 .. Len(out) - 1 /\ Len(out') = Len(out) - 1
      /\ \A i \in 1 .. Len(out) - 1 : out'[i] = out[i + 1] /\ i + 1 \in DOMAIN out
      /\ 1 \in DOMAIN out /\ Head(out) = out[1]
  BY <1>0
<1>2. tx.q \o r \in Seq(Packets) /\ Len(tx.q \o r) = Len(tx.q) + Len(r)
      /\ DOMAIN tx'.q = 1 .. Len(tx.q) + Len(r) + Len(u)
  <2>1. tx.q \o r \in Seq(Packets) /\ Len(tx.q \o r) = Len(tx.q) + Len(r)
    BY <1>0
  <2>2. DOMAIN tx'.q = 1 .. Len(tx.q \o r) + Len(u)
    BY <1>0, <2>1
  <2> QED
    BY <2>1, <2>2
<1>3. ASSUME NEW k \in DOMAIN tx'.q
      PROVE  \/ k <= Len(tx.q) /\ k \in DOMAIN tx.q /\ tx'.q[k] = tx.q[k]
             \/ /\ k > Len(tx.q)
                /\ tx'.q[k].txn = Head(out).txn /\ tx'.q[k].id = Head(out).id
                /\ tx'.q[k].txn # NoTxn
             \/ k > Len(tx.q) /\ tx'.q[k].txn = NoTxn /\ tx'.q[k].kind # "resp"
  <2>1. CASE k <= Len(tx.q)
    <3>1. tx'.q[k] = (tx.q \o r)[k] /\ (tx.q \o r)[k] = tx.q[k] /\ k \in DOMAIN tx.q
      BY <1>0, <1>2, <2>1
    <3> QED
      BY <2>1, <3>1
  <2>2. CASE k > Len(tx.q) /\ k <= Len(tx.q) + Len(r)
    <3>1. /\ tx'.q[k] = (tx.q \o r)[k] /\ (tx.q \o r)[k] = r[k - Len(tx.q)]
          /\ k - Len(tx.q) \in DOMAIN r
      BY <1>0, <1>2, <2>2
    <3> QED
      BY <2>2, <3>1
  <2>3. CASE k > Len(tx.q) + Len(r)
    <3>1. /\ tx'.q[k] = u[k - Len(tx.q \o r)] /\ k - Len(tx.q \o r) \in DOMAIN u
          /\ k > Len(tx.q)
      BY <1>0, <1>2, <2>3
    <3> QED
      BY <3>1
  <2> QED
    BY SMTT(30), <1>0, <1>2, <2>1, <2>2, <2>3
<1>4. Keeps
  <2> SUFFICES ASSUME NEW m \in UnderWay', m.txn # NoTxn
               PROVE  \E l \in UnderWay : l.txn = m.txn /\ l.id = m.id
    BY DEF Keeps
  <2>1. CASE \E i \in DOMAIN out' : m = out'[i]
    BY <1>1, <2>1, UnderWayIs
  <2>2. ASSUME NEW k \in DOMAIN tx'.q, m = tx'.q[k]
        PROVE  \E l \in UnderWay : l.txn = m.txn /\ l.id = m.id
    <3>1. \/ k \in DOMAIN tx.q /\ m = tx.q[k]
          \/ m.txn = out[1].txn /\ m.id = out[1].id
      BY <1>1, <1>3, <2>2
    <3> QED
      BY <1>1, <3>1, UnderWayIs
  <2> QED
    BY <2>1, <2>2, UnderWayIs
<1>5. ASSUME NEW n \in 1 .. Txns, OwnLast(n) PROVE OwnLast(n)'
  <2>1. \A k \in DOMAIN tx.q : tx.q[k].txn # n
    BY <1>5 DEF OwnLast
  <2>2. ASSUME NEW i \in DOMAIN out', out'[i].txn = n PROVE i = Len(out')
    <3>1. i + 1 \in DOMAIN out /\ out[i + 1].txn = n /\ i \in Nat
      BY <1>0, <1>1, <2>2
    <3>2. i + 1 = Len(out)
      BY <1>5, <3>1 DEF OwnLast
    <3> QED
      BY <1>0, <1>1, <3>1, <3>2
  <2>3. ASSUME NEW k \in DOMAIN tx'.q, tx'.q[k].txn = n
        PROVE  out' = <<>> /\ \A l \in DOMAIN tx'.q : l > k => tx'.q[l].txn \in {NoTxn, n}
    <3>0. n # NoTxn
      BY DEF NoTxn, PadLinkAssumption
    <3>1. k > Len(tx.q) /\ Head(out).txn = n
      BY <1>3, <2>1, <2>3, <3>0
    <3>2. Len(out) = 1
      BY <1>1, <1>5, <3>1 DEF OwnLast
    <3>3. out' = <<>>
      BY <1>0, <3>2
    <3>4. ASSUME NEW l \in DOMAIN tx'.q, l > k PROVE tx'.q[l].txn \in {NoTxn, n}
      <4>1. ~(l <= Len(tx.q))
        BY <1>0, <1>2, <3>1, <3>4
      <4> QED
        BY <1>3, <3>1, <4>1
    <3> QED
      BY <3>3, <3>4
  <2> QED
    BY <2>2, <2>3 DEF OwnLast
<1>6. Tagged'
  <2>1. \A i \in DOMAIN out' : out'[i].code # "frame" => out'[i].txn # NoTxn
    BY <1>1 DEF Tagged
  <2>2. \A k \in DOMAIN tx'.q : tx'.q[k].kind = "resp" => tx'.q[k].txn # NoTxn
    BY <1>3 DEF Tagged
  <2> QED
    BY <2>1, <2>2 DEF Tagged
<1> QED
  BY <1>4, <1>5, <1>6 DEF Flows, KeepsOrder

LEMMA EmptyMore ==
  ASSUME NEW q \in Seq(Packets)
  PROVE  q \o <<>> = q /\ <<>> \in Seq(Packets) /\ DOMAIN <<>> = {}
OBVIOUS

\* What vndSend makes of the queue.
LEMMA SentMore ==
  ASSUME PadLinkAssumption, NEW t, IsBuffer(t), NEW message \in Seq(Packets)
  PROVE  Sent(t, message).q \in {t.q, t.q \o message}
BY SentShape, PumpedType

LEMMA RespondedMore ==
  ASSUME PadLinkAssumption, NEW t, IsBuffer(t), NEW c \in Commands
  PROVE  \E r \in Seq(Packets) :
           /\ Responded(t, c).q = t.q \o r
           /\ \A k \in DOMAIN r : r[k].txn = c.txn /\ r[k].id = c.id /\ r[k].txn # NoTxn
<1> DEFINE message == Message("resp", c.code, c.txn, c.id, Size[c.code])
<1>0. t.q \in Seq(Packets)
  BY DEF IsBuffer
<1>1. /\ Size[c.code] \in Nat /\ c.code \in DOMAIN Size
      /\ c.txn \in 0 .. Txns /\ c.id \in 0 .. Ids
  BY SizeType DEF Commands
<1>2. /\ message \in Seq(Packets)
      /\ \A k \in DOMAIN message : message[k].txn = c.txn /\ message[k].id = c.id
  <2>1. message \in Seq(Packets)
    BY <1>1, MessageType
  <2>2. \A k \in DOMAIN message : message[k].txn = c.txn /\ message[k].id = c.id
    BY DEF Message
  <2> QED
    BY <2>1, <2>2
<1> HIDE DEF message
<1>3. CASE c.txn # NoTxn /\ Sent(t, message).q = t.q \o message
  BY <1>2, <1>3 DEF Responded, message
<1>4. CASE c.txn = NoTxn \/ Sent(t, message).q = t.q
  <2>1. Responded(t, c).q = t.q \o <<>>
    BY <1>0, <1>4, EmptyMore DEF Responded, message
  <2> QED
    BY <1>0, <2>1, EmptyMore
<1> QED
  BY <1>2, <1>3, <1>4, SentMore

\* Telemetry, or nothing.
LEMMA FlushMore ==
  ASSUME PadLinkAssumption, NEW t, IsBuffer(t), NEW n \in 0 .. StreamMax
  PROVE  \E r \in Seq(Packets) :
           /\ StreamFlush(t, n).tx.q = t.q \o r
           /\ \A k \in DOMAIN r : r[k].txn = NoTxn /\ r[k].kind # "resp"
<1> DEFINE message == Message("stream", "stream", NoTxn, 0, 1)
<1>0. t.q \in Seq(Packets) /\ Pumped(t).q = t.q
  BY PumpedType DEF IsBuffer
<1>1. /\ message \in Seq(Packets)
      /\ \A k \in DOMAIN message : message[k].txn = NoTxn /\ message[k].kind # "resp"
  <2>1. message \in Seq(Packets)
    BY SizeType, OnePacket
  <2>2. \A k \in DOMAIN message : message[k].txn = NoTxn /\ message[k].kind # "resp"
    BY DEF Message
  <2> QED
    BY <2>1, <2>2
<1> HIDE DEF message
<1>2. StreamFlush(t, n).tx \in {Sent(t, message), t, Pumped(t)}
  BY DEF StreamFlush, message
<1>3. StreamFlush(t, n).tx.q \in {t.q, t.q \o message}
  BY <1>0, <1>1, <1>2, SentMore
<1>4. CASE StreamFlush(t, n).tx.q = t.q
  <2>1. StreamFlush(t, n).tx.q = t.q \o <<>>
    BY <1>0, <1>4, EmptyMore
  <2> QED
    BY <1>0, <2>1, EmptyMore
<1> QED
  BY <1>1, <1>3, <1>4

\* The master and USB take nothing's number and nothing's place.
LEMMA LinkFlows ==
  ASSUME PadLinkAssumption, TypeOK, Tagged,
         \/ Reset \/ Command \/ RebootCommand \/ Pump \/ Record \/ Event \/ Unplug \/ Drain
         \/ Read \/ UNCHANGED <<out, tx>>
  PROVE  Flows
<1>0. IsBuffer(tx) /\ vnd_stream_n \in 0 .. StreamMax /\ out \in Seq(Commands)
      /\ tx.q \in Seq(Packets) /\ tx.s \in Nat /\ tx.s <= Len(tx.q) /\ Len(tx.q) \in Nat
  BY DEF TypeOK, IsBuffer, PadLinkAssumption
<1>1. CASE Reset
  <2>1. tx' = [q |-> SubSeq(tx.q, 1, tx.s), s |-> tx.s] /\ out' = out
    BY <1>0, <1>1 DEF Reset, IsBuffer
  <2>2. DOMAIN tx'.q = 1 .. tx.s /\ \A k \in 1 .. tx.s : tx'.q[k] = tx.q[k]
    <3>1. /\ DOMAIN SubSeq(tx.q, 1, tx.s) = 1 .. tx.s
          /\ \A k \in 1 .. tx.s - 1 + 1 : SubSeq(tx.q, 1, tx.s)[k] = tx.q[1 + k - 1]
      BY <1>0, SubSeqProperties
    <3>2. ASSUME NEW k \in 1 .. tx.s PROVE SubSeq(tx.q, 1, tx.s)[k] = tx.q[k]
      <4>1. k \in 1 .. tx.s - 1 + 1 /\ 1 + k - 1 = k
        BY <1>0
      <4> QED
        BY <3>1, <4>1
    <3> QED
      BY <2>1, <3>1, <3>2
  <2>3. /\ DOMAIN tx'.q \subseteq Nat
        /\ \A k \in DOMAIN tx'.q : k + 0 \in DOMAIN tx.q /\ tx'.q[k] = tx.q[k + 0]
    BY <1>0, <2>2
  <2> QED
    BY <2>1, <2>3, PartFlows
<1>2. CASE Command
  <2> DEFINE c == Head(out)
             t == Responded(tx, c)
             f == StreamFlush(t, StreamN(c.code))
  <2>1. c \in Commands /\ StreamN(c.code) \in 0 .. StreamMax
    BY <1>0, <1>2 DEF Command, StreamN, PadLinkAssumption
  <2>2. IsBuffer(t)
    BY <1>0, <2>1, RespondedType
  <2>3. PICK r \in Seq(Packets) :
          /\ t.q = tx.q \o r
          /\ \A k \in DOMAIN r : r[k].txn = c.txn /\ r[k].id = c.id /\ r[k].txn # NoTxn
    BY <1>0, <2>1, RespondedMore
  <2> HIDE DEF t
  <2>4. PICK u \in Seq(Packets) :
          /\ f.tx.q = t.q \o u
          /\ \A k \in DOMAIN u : u[k].txn = NoTxn /\ u[k].kind # "resp"
    BY <2>1, <2>2, FlushMore
  <2>5. IsBuffer(f.tx)
    BY <2>1, <2>2, FlushType
  <2> HIDE DEF f
  <2>6. tx' = Pumped(f.tx) /\ out' = Tail(out) /\ out # <<>>
    BY <1>2 DEF Command, f, t
  <2>7. tx'.q = (tx.q \o r) \o u
    BY <2>3, <2>4, <2>5, <2>6, PumpedType
  <2> QED
    BY <2>3, <2>4, <2>6, <2>7, CommandFlows
<1>3. CASE Pump
  <2>1. tx' = Pumped(StreamFlush(tx, vnd_stream_n).tx) /\ out' = out
    BY <1>3 DEF Pump
  <2>2. tx'.q = StreamFlush(tx, vnd_stream_n).tx.q
    BY <1>0, <2>1, FlushType, PumpedType
  <2> QED
    BY ZenonT(40), <1>0, <2>1, <2>2, FlushMore, MoreFlows
<1>4. CASE Record
  <2>1. /\ tx' = StreamFlush(tx, vnd_stream_n + 1).tx /\ vnd_stream_n + 1 \in 0 .. StreamMax
        /\ out' = out
    BY <1>0, <1>4 DEF Record, PadLinkAssumption
  <2> QED
    BY <1>0, <2>1, FlushMore, MoreFlows
<1>5. CASE Event
  <2> DEFINE message == Message("event", "other", NoTxn, 0, 1)
  <2>1. message \in Seq(Packets)
    BY SizeType, OnePacket
  <2>2. \A k \in DOMAIN message : message[k].txn = NoTxn /\ message[k].kind # "resp"
    BY DEF Message
  <2> HIDE DEF message
  <2>3. tx' = Sent(tx, message) /\ out' = out
    BY <1>5 DEF Event, message
  <2>4. tx'.q \in {tx.q, tx.q \o message}
    BY <1>0, <2>1, <2>3, SentMore
  <2>5. CASE tx'.q = tx.q
    <3>1. tx'.q = tx.q \o <<>>
      BY <1>0, <2>5, EmptyMore
    <3> QED
      BY <1>0, <2>3, <3>1, EmptyMore, MoreFlows
  <2> QED
    BY <2>1, <2>2, <2>3, <2>4, <2>5, MoreFlows
<1>6. CASE RebootCommand \/ Drain
  <2>1. tx'.q = <<>> /\ out' \in {out, <<>>}
    BY <1>6 DEF RebootCommand, Drain
  <2>2. /\ DOMAIN tx'.q \subseteq Nat
        /\ \A k \in DOMAIN tx'.q : k + 0 \in DOMAIN tx.q /\ tx'.q[k] = tx.q[k + 0]
    BY <2>1
  <2> QED
    BY <2>1, <2>2, PartFlows
<1>7. CASE Unplug
  <2>1. tx'.q = Queued(tx) /\ out' = <<>>
    BY <1>7 DEF Unplug
  <2>2. Len(Queued(tx)) = Len(tx.q) - tx.s /\ Queued(tx) \in Seq(Packets)
    BY <1>0, QueuedType
  <2>3. tx.s + 1 \in 1 .. Len(tx.q) + 1
    BY <1>0
  <2>4. \A k \in 1 .. Len(tx.q) - (tx.s + 1) + 1 :
          SubSeq(tx.q, tx.s + 1, Len(tx.q))[k] = tx.q[tx.s + 1 + k - 1]
    BY <1>0, <2>3, SubSeqProperties
  <2>5. ASSUME NEW k \in DOMAIN tx'.q
        PROVE  k + tx.s \in DOMAIN tx.q /\ tx'.q[k] = tx.q[k + tx.s]
    <3>1. k \in 1 .. Len(tx.q) - tx.s
      BY <2>1, <2>2, <2>5
    <3>2. k \in 1 .. Len(tx.q) - (tx.s + 1) + 1 /\ tx.s + 1 + k - 1 = k + tx.s
          /\ k + tx.s \in 1 .. Len(tx.q)
      BY SMTT(30), <1>0, <3>1
    <3>3. tx'.q[k] = tx.q[tx.s + 1 + k - 1]
      BY <2>1, <2>4, <3>2 DEF Queued
    <3>4. k + tx.s \in DOMAIN tx.q
      BY <1>0, <3>2
    <3> QED
      BY <3>2, <3>3, <3>4
  <2>6. DOMAIN tx'.q \subseteq Nat
    BY <2>1, <2>2
  <2> QED
    BY <1>0, <2>1, <2>5, <2>6, PartFlows
<1>8. CASE Read
  <2>1. tx'.q = Tail(tx.q) /\ out' = out /\ Len(tx.q) > 0
    BY <1>0, <1>8 DEF Read
  <2>2. /\ DOMAIN tx'.q \subseteq Nat
        /\ \A k \in DOMAIN tx'.q : k + 1 \in DOMAIN tx.q /\ tx'.q[k] = tx.q[k + 1]
    BY <1>0, <2>1
  <2> QED
    BY <2>1, <2>2, PartFlows
<1>9. CASE UNCHANGED <<out, tx>>
  <2>1. /\ DOMAIN tx'.q \subseteq Nat
        /\ \A k \in DOMAIN tx'.q : k + 0 \in DOMAIN tx.q /\ tx'.q[k] = tx.q[k + 0]
    BY <1>0, <1>9
  <2> QED
    BY <1>9, <2>1, PartFlows
<1> QED
  BY <1>1, <1>2, <1>3, <1>4, <1>5, <1>6, <1>7, <1>8, <1>9

\* A step that leaves the program's threads as they are.
LEMMA OwnFlow ==
  ASSUME PadLinkAssumption, TypeOK, OwnInv, Flows,
         UNCHANGED <<manager, pending, chan, next_txn, call, calls>>
  PROVE  OwnInv'
<1>0. NoTxn \notin 1 .. Txns /\ next_txn \in 1 .. Txns /\ pending \in 0 .. Txns
      /\ (Numbered => call.txn # NoTxn)
  BY DEF NoTxn, TypeOK, OwnInv, CallOwn
<1>1. Numbered' = Numbered /\ ToCome' = ToCome /\ \A n \in 0 .. Txns : Ahead(n)' = Ahead(n)
  BY DEF Numbered, ToCome, Ahead
<1>2. ASSUME NEW m \in UnderWay', m.txn # NoTxn
      PROVE  \E l \in UnderWay : l.txn = m.txn /\ l.id = m.id
  BY <1>2 DEF Flows, Keeps
<1>3. PendingOwn'
  BY <1>1, <1>2 DEF OwnInv, PendingOwn
<1>4. CallOwn'
  BY <1>1 DEF OwnInv, CallOwn, AfterTxn
<1>5. InfoOwn'
  <2> SUFFICES ASSUME manager' = "info"
               PROVE  /\ ~Numbered' => \A m \in UnderWay' : m.txn # next_txn'
                      /\ pending' # NoTxn => OwnLast(pending)'
                      /\ Numbered' /\ chan' \notin {Nothing, Gone} =>
                           \A m \in UnderWay' : m.txn \in {NoTxn, call'.txn}
    BY DEF InfoOwn
  <2>1. ~Numbered' => \A m \in UnderWay' : m.txn # next_txn'
    BY <1>0, <1>1, <1>2 DEF OwnInv, InfoOwn
  <2>2. ASSUME pending' # NoTxn PROVE OwnLast(pending)'
    <3>1. PICK n \in 1 .. Txns : n = pending
      BY <1>0, <2>2 DEF NoTxn
    <3>2. OwnLast(n)'
      BY <2>2, <3>1 DEF OwnInv, InfoOwn, Flows, KeepsOrder
    <3> QED
      BY <3>1, <3>2 DEF OwnLast
  <2>3. Numbered' /\ chan' \notin {Nothing, Gone} =>
          \A m \in UnderWay' : m.txn \in {NoTxn, call'.txn}
    BY <1>1, <1>2 DEF OwnInv, InfoOwn
  <2> QED
    BY <2>1, <2>2, <2>3
<1>6. AheadFree'
  <2> SUFFICES ASSUME NumbersFit, manager' \in {"status", "register", "listed"},
                      NEW m \in UnderWay', m.txn # NoTxn
               PROVE  Ahead(m.txn)' >= ToCome'
    BY DEF AheadFree, NumbersFit
  <2>1. PICK l \in UnderWay : l.txn = m.txn
    BY <1>2
  <2>2. Ahead(l.txn) >= ToCome
    BY <2>1 DEF OwnInv, AheadFree
  <2>3. Ahead(m.txn)' = Ahead(l.txn)
    BY <2>1 DEF Ahead
  <2> QED
    BY <1>1, <2>2, <2>3
<1> QED
  BY <1>3, <1>4, <1>5, <1>6 DEF OwnInv, Flows

\* Nothing is waited for, and no pad is connected.
LEMMA OwnIdle ==
  ASSUME Tagged', manager' \in {"scan", "close"}, call'.at = "idle", pending' = NoTxn
  PROVE  OwnInv'
BY DEF OwnInv, PendingOwn, CallOwn, InfoOwn, AheadFree, Numbered

LEMMA NotWaiting ==
  ASSUME OwnInv, call.at \in {"idle", "looked"}
  PROVE  ~Numbered /\ pending = NoTxn
<1>1. ~Numbered
  BY DEF Numbered
<1>2. PendingOwn
  BY DEF OwnInv
<1> QED
  BY <1>1, <1>2 DEF PendingOwn

\* Numbers come round after Txns of them.
LEMMA AheadRange ==
  ASSUME PadLinkAssumption, TypeOK
  PROVE  (\A n \in 1 .. Txns : Ahead(n) \in 0 .. Txns - 1) /\ Ahead(next_txn) = 0
BY DEF PadLinkAssumption, TypeOK, Ahead

LEMMA AheadLast ==
  ASSUME PadLinkAssumption, NEW n \in 1 .. Txns, next_txn = AfterTxn(n)
  PROVE  Ahead(n) = Txns - 1
<1>0. Txns \in Nat \ {0} /\ next_txn = (n % Txns) + 1
  BY DEF PadLinkAssumption, AfterTxn
<1>1. CASE n = Txns
  <2>1. next_txn = 1
    BY <1>0, <1>1
  <2> QED
    BY <1>0, <1>1, <2>1 DEF Ahead
<1>2. CASE n # Txns
  <2>1. next_txn = n + 1
    BY <1>0, <1>2
  <2> QED
    BY <1>0, <2>1 DEF Ahead
<1> QED
  BY <1>1, <1>2

LEMMA AheadNext ==
  ASSUME PadLinkAssumption, TypeOK, next_txn' = AfterTxn(next_txn),
         NEW n \in 1 .. Txns, n # next_txn
  PROVE  Ahead(n)' = Ahead(n) - 1
<1>0. Txns \in Nat \ {0} /\ next_txn \in 1 .. Txns /\ next_txn' = (next_txn % Txns) + 1
  BY DEF PadLinkAssumption, TypeOK, AfterTxn
<1>1. CASE next_txn = Txns
  <2>1. next_txn' = 1
    BY <1>0, <1>1
  <2> QED
    BY <1>0, <1>1, <2>1 DEF Ahead
<1>2. CASE next_txn # Txns
  <2>1. next_txn' = next_txn + 1
    BY <1>0, <1>2
  <2> QED
    BY <1>0, <2>1 DEF Ahead
<1> QED
  BY <1>1, <1>2

LEMMA AheadFacts ==
  ASSUME PadLinkAssumption, TypeOK, OwnInv
  PROVE  /\ \A n \in 1 .. Txns : Ahead(n) \in 0 .. Txns - 1
         /\ ToCome \in Nat /\ ToCome <= MaxCalls + 1
         /\ Numbered => Ahead(call.txn) = Txns - 1
         /\ Ahead(next_txn) = 0
<1>1. ToCome \in Nat /\ ToCome <= MaxCalls + 1
  BY DEF PadLinkAssumption, TypeOK, ToCome
<1>2. Numbered => Ahead(call.txn) = Txns - 1
  BY AheadLast DEF OwnInv, CallOwn
<1> QED
  BY <1>1, <1>2, AheadRange

\* A step of the program that sends nothing.
LEMMA SameUnderWay ==
  ASSUME UNCHANGED <<out, tx>>
  PROVE  /\ UnderWay' = UnderWay
         /\ \A n : OwnLast(n)' = OwnLast(n)
         /\ Tagged' = Tagged
BY DEF UnderWay, OwnLast, Tagged

LEMMA OwnOpen ==
  ASSUME PadLinkAssumption, TypeOK, OwnInv, Open, SeedFree
  PROVE  OwnInv'
<1>1. UNCHANGED <<out, tx>> /\ manager' = "info" /\ pending' = NoTxn /\ call' = NoCall
      /\ next_txn' \notin {m.txn : m \in UnderWay}
  BY DEF Open, SeedFree, usb
<1>2. UnderWay' = UnderWay /\ Tagged'
  BY <1>1, SameUnderWay DEF OwnInv
<1>3. ~Numbered' /\ call'.at = "idle"
  BY <1>1 DEF NoCall, Numbered
<1> QED
  BY <1>1, <1>2, <1>3 DEF OwnInv, PendingOwn, CallOwn, InfoOwn, AheadFree

LEMMA OwnBegin ==
  ASSUME PadLinkAssumption, TypeOK, OwnInv, NEW code \in DOMAIN Size, Begin(code)
  PROVE  OwnInv'
<1>1. /\ UNCHANGED <<out, tx, manager, pending, next_txn>> /\ call.at = "idle"
      /\ call'.at = "looked"
      /\ \/ manager \in {"info", "status"} /\ calls' = calls
         \/ manager = "listed" /\ calls' = calls + 1
  BY DEF Begin, Asks, usb
<1>2. UnderWay' = UnderWay /\ Tagged'
  BY <1>1, SameUnderWay DEF OwnInv
<1>3. ~Numbered /\ pending = NoTxn /\ ~Numbered'
  <2>1. ~Numbered /\ pending = NoTxn
    BY <1>1, NotWaiting
  <2>2. ~Numbered'
    BY <1>1 DEF Numbered
  <2> QED
    BY <2>1, <2>2
<1>4. \A m \in UnderWay : Ahead(m.txn)' = Ahead(m.txn)
  BY <1>1 DEF Ahead
<1>5. manager \in {"status", "listed"} => ToCome' <= ToCome /\ ToCome \in Nat /\ ToCome' \in Int
  BY <1>1 DEF ToCome, TypeOK, PadLinkAssumption
<1>6. AheadFree'
  <2> SUFFICES ASSUME NumbersFit, manager \in {"status", "listed"}, NEW m \in UnderWay,
                      m.txn # NoTxn
               PROVE  Ahead(m.txn)' >= ToCome'
    BY <1>1, <1>2 DEF AheadFree, NumbersFit
  <2>1. Ahead(m.txn) >= ToCome
    BY DEF OwnInv, AheadFree
  <2>2. Ahead(m.txn) \in Int
    BY UnderWayType, AheadFacts DEF NoTxn
  <2> QED
    BY <1>4, <1>5, <2>1, <2>2
<1> QED
  BY <1>1, <1>2, <1>3, <1>6 DEF OwnInv, PendingOwn, CallOwn, InfoOwn

\* An LED frame has no number, and no response.
LEMMA FrameSent ==
  ASSUME PadLinkAssumption, TypeOK, Tagged, SendFrame
  PROVE  (\A m \in UnderWay' : m \in UnderWay \/ m.txn = NoTxn) /\ Tagged'
<1> DEFINE c == [code |-> "frame", txn |-> NoTxn, id |-> 0]
<1>1. /\ tx' = tx /\ out' = Append(out, c) /\ out \in Seq(Commands) /\ Len(out) \in Nat
  BY DEF SendFrame, TypeOK
<1>2. /\ DOMAIN out' = 1 .. Len(out) + 1
      /\ \A i \in 1 .. Len(out) + 1 : out'[i] = IF i = Len(out) + 1 THEN c ELSE out[i]
      /\ DOMAIN out = 1 .. Len(out)
  BY <1>1
<1>3. \A m \in UnderWay' : m \in UnderWay \/ m.txn = NoTxn
  <2>1. \A i \in DOMAIN out' : out'[i] = c \/ \E j \in DOMAIN out : out'[i] = out[j]
    BY <1>2
  <2> QED
    BY <1>1, <2>1, UnderWayIs
<1> QED
  BY <1>1, <1>2, <1>3 DEF Tagged

LEMMA OwnSendFrame ==
  ASSUME PadLinkAssumption, TypeOK, OwnInv, SendFrame
  PROVE  OwnInv'
<1>1. /\ UNCHANGED <<tx, manager, pending, chan, next_txn, call>> /\ call.at = "idle"
      /\ manager = "listed" /\ calls' = calls + 1
  BY DEF SendFrame, Asks, threads
<1>3. (\A m \in UnderWay' : m \in UnderWay \/ m.txn = NoTxn) /\ Tagged'
  BY FrameSent DEF OwnInv
<1>5. ~Numbered /\ pending = NoTxn /\ ~Numbered'
  <2>1. ~Numbered /\ pending = NoTxn
    BY <1>1, NotWaiting
  <2>2. ~Numbered'
    BY <1>1 DEF Numbered
  <2> QED
    BY <2>1, <2>2
<1>6. ToCome' <= ToCome /\ ToCome \in Nat /\ ToCome' \in Int
  BY <1>1 DEF ToCome, TypeOK, PadLinkAssumption
<1>7. AheadFree'
  <2> SUFFICES ASSUME NumbersFit, NEW m \in UnderWay, m.txn # NoTxn
               PROVE  Ahead(m.txn)' >= ToCome'
    BY <1>3 DEF AheadFree, NumbersFit
  <2>1. Ahead(m.txn) >= ToCome
    BY <1>1 DEF OwnInv, AheadFree
  <2>2. Ahead(m.txn) \in Int /\ Ahead(m.txn)' = Ahead(m.txn)
    BY <1>1, UnderWayType, AheadFacts DEF NoTxn, Ahead
  <2> QED
    BY <1>6, <2>1, <2>2
<1> QED
  BY <1>1, <1>3, <1>5, <1>7 DEF OwnInv, PendingOwn, CallOwn, InfoOwn

\* Of numbers enough the next is free.
LEMMA OwnFree ==
  ASSUME PadLinkAssumption, TypeOK, OwnInv, NumbersFit
  PROVE  NumberFree
<1> SUFFICES ASSUME SetPending, NEW m \in UnderWay, m.txn = next_txn PROVE FALSE
  BY DEF NumberFree
<1>0. next_txn \in 1 .. Txns /\ NoTxn \notin 1 .. Txns /\ call.at = "looked"
  BY DEF TypeOK, NoTxn, PadLinkAssumption, SetPending
<1>1. ~Numbered /\ manager \in {"info", "status", "listed"}
  BY <1>0 DEF Numbered, OwnInv
<1>2. CASE manager = "info"
  BY <1>1, <1>2 DEF OwnInv, InfoOwn
<1>3. CASE manager # "info"
  <2>1. ToCome \in Nat /\ ToCome >= 1
    BY <1>0 DEF ToCome, TypeOK, PadLinkAssumption
  <2>2. Ahead(m.txn) >= ToCome
    BY <1>0, <1>1, <1>3 DEF OwnInv, AheadFree
  <2> QED
    BY <2>1, <2>2, AheadFacts
<1> QED
  BY <1>2, <1>3

LEMMA OwnSetPending ==
  ASSUME PadLinkAssumption, TypeOK, OwnInv, SetPending, NumberFree
  PROVE  OwnInv'
<1>0. next_txn \in 1 .. Txns /\ NoTxn \notin 1 .. Txns /\ Txns \in Nat
  BY DEF TypeOK, NoTxn, PadLinkAssumption
<1>1. /\ UNCHANGED <<out, tx, manager, calls>> /\ call.at = "looked"
      /\ call'.at = "set" /\ call'.txn = next_txn /\ next_txn' = AfterTxn(next_txn)
      /\ pending' = next_txn /\ chan' = Nothing
  BY DEF SetPending, usb, bounds, TypeOK, Calls
<1>2. /\ UnderWay' = UnderWay /\ Tagged' /\ \A n : OwnLast(n)' = OwnLast(n)
  BY <1>1, SameUnderWay DEF OwnInv
<1>3. ~Numbered /\ Numbered' /\ manager \in {"info", "status", "listed"}
  BY <1>1 DEF Numbered, OwnInv
<1>4. ToCome \in Nat /\ (manager # "info" => ToCome' = ToCome - 1 /\ ToCome >= 1)
  BY <1>1, <1>3 DEF ToCome, TypeOK, PadLinkAssumption
<1>5. \A m \in UnderWay : m.txn # next_txn
  BY DEF NumberFree
<1>6. PendingOwn'
  BY <1>1, <1>2, <1>3, <1>5 DEF PendingOwn
<1>7. CallOwn'
  BY <1>0, <1>1, <1>3 DEF CallOwn
<1>8. InfoOwn'
  <2>1. OwnLast(next_txn)
    BY <1>5, UnderWayIs DEF OwnLast
  <2>2. OwnLast(pending)'
    BY <1>1, <2>1 DEF OwnLast
  <2> QED
    BY <1>1, <1>3, <2>2 DEF InfoOwn
<1>9. AheadFree'
  <2> SUFFICES ASSUME NumbersFit, manager \in {"status", "listed"}, NEW m \in UnderWay,
                      m.txn # NoTxn
               PROVE  Ahead(m.txn)' >= ToCome'
    BY <1>1, <1>2, <1>3 DEF AheadFree, NumbersFit
  <2>1. Ahead(m.txn) >= ToCome /\ m.txn \in 1 .. Txns /\ m.txn # next_txn
    BY <1>5, UnderWayType DEF OwnInv, AheadFree, NoTxn
  <2>2. Ahead(m.txn)' = Ahead(m.txn) - 1 /\ Ahead(m.txn) \in Int
    BY <1>1, <2>1, AheadNext, AheadRange
  <2> QED
    BY <1>4, <2>1, <2>2
<1> QED
  BY <1>1, <1>2, <1>3, <1>6, <1>7, <1>8, <1>9 DEF OwnInv

\* A command that is over before it was answered.
LEMMA OwnGivenUp ==
  ASSUME PadLinkAssumption, TypeOK, OwnInv, UNCHANGED <<out, tx, next_txn, calls>>,
         call.at # "looked", call.at = "idle" => manager \in {"info", "status"},
         Return(FALSE), pending' = NoTxn
  PROVE  OwnInv'
<1>1. call' = NoCall /\ manager' = IF manager = "listed" THEN "listed" ELSE "close"
  BY DEF Return, AfterFailure
<1>2. UnderWay' = UnderWay /\ Tagged'
  BY SameUnderWay DEF OwnInv
<1>3. call'.at = "idle" /\ ~Numbered'
  BY <1>1 DEF NoCall, Numbered
<1>4. CASE manager # "listed"
  BY <1>1, <1>2, <1>3, <1>4, OwnIdle
<1>5. CASE manager = "listed"
  <2>1. ToCome' = ToCome
    BY <1>1, <1>3, <1>5 DEF ToCome
  <2>2. AheadFree'
    BY <1>2, <1>5, <2>1 DEF OwnInv, AheadFree, Ahead, NumbersFit
  <2> QED
    BY <1>1, <1>2, <1>3, <1>5, <2>2 DEF OwnInv, PendingOwn, CallOwn, InfoOwn
<1> QED
  BY <1>4, <1>5

LEMMA OwnWrite ==
  ASSUME PadLinkAssumption, TypeOK, OwnInv, Write
  PROVE  OwnInv'
<1>1. UNCHANGED <<tx, chan, next_txn, calls>> /\ call.at = "write" /\ Numbered
  BY DEF Write, bounds, Numbered
<1>2. CASE ~link
  BY <1>1, <1>2, OwnGivenUp DEF Write
<1>3. CASE link
  <2> DEFINE c == [code |-> call.code, txn |-> call.txn, id |-> call.id]
  <2>1. /\ out' = Append(out, c) /\ UNCHANGED <<manager, pending>>
        /\ call'.at = "wait" /\ call'.txn = call.txn /\ call'.id = call.id
        /\ out \in Seq(Commands) /\ Len(out) \in Nat
    <3>1. /\ out' = Append(out, c) /\ UNCHANGED <<manager, pending>>
          /\ call' = [call EXCEPT !.at = "wait"]
      BY <1>3 DEF Write
    <3>2. call'.at = "wait" /\ call'.txn = call.txn /\ call'.id = call.id
      BY <3>1 DEF TypeOK, Calls
    <3>3. out \in Seq(Commands) /\ Len(out) \in Nat
      BY DEF TypeOK
    <3> QED
      BY <3>1, <3>2, <3>3
  <2>2. /\ DOMAIN out' = 1 .. Len(out) + 1 /\ Len(out') = Len(out) + 1
        /\ \A i \in 1 .. Len(out) + 1 : out'[i] = IF i = Len(out) + 1 THEN c ELSE out[i]
        /\ DOMAIN out = 1 .. Len(out)
    BY <2>1
  <2>3. call.txn \in 1 .. Txns /\ call.txn # NoTxn
        /\ manager \in {"info", "status", "listed"}
    BY <1>1 DEF OwnInv, CallOwn, NoTxn
  <2>4. \A m \in UnderWay' : m \in UnderWay \/ m = c
    <3>1. \A i \in DOMAIN out' : out'[i] = c \/ \E j \in DOMAIN out : out'[i] = out[j]
      BY <2>2
    <3> QED
      BY <1>1, <3>1, UnderWayIs
  <2>5. Tagged'
    BY <1>1, <2>2, <2>3 DEF OwnInv, Tagged
  <2>6. Numbered'
    BY <2>1 DEF Numbered
  <2>7. PendingOwn'
    BY <1>1, <2>1, <2>4, <2>6 DEF OwnInv, PendingOwn
  <2>8. CallOwn'
    BY <1>1, <2>1 DEF OwnInv, CallOwn, AfterTxn
  <2>9. InfoOwn'
    <3>1. ASSUME manager = "info", pending # NoTxn PROVE OwnLast(pending)'
      <4>1. \A m \in UnderWay : m.txn # pending
        BY <1>1, <3>1 DEF OwnInv, PendingOwn
      <4>2. \A i \in DOMAIN out' : out'[i].txn = pending => i = Len(out')
        BY <2>2, <4>1, UnderWayIs
      <4>3. \A k \in DOMAIN tx'.q : tx'.q[k].txn # pending
        BY <1>1, <4>1, UnderWayIs
      <4> QED
        BY <2>1, <4>2, <4>3 DEF OwnLast
    <3>2. pending' # NoTxn /\ manager' = "info" => OwnLast(pending)'
      BY <2>1, <3>1 DEF OwnLast
    <3>3. ASSUME manager = "info", chan \notin {Nothing, Gone}, NEW m \in UnderWay'
          PROVE  m.txn \in {NoTxn, call.txn}
      BY <1>1, <2>4, <3>3 DEF OwnInv, InfoOwn
    <3> QED
      BY <1>1, <2>1, <2>6, <3>2, <3>3 DEF InfoOwn
  <2>10. AheadFree'
    <3> SUFFICES ASSUME NumbersFit, manager \in {"status", "listed"}, NEW m \in UnderWay',
                        m.txn # NoTxn
                 PROVE  Ahead(m.txn)' >= ToCome'
      BY <2>1, <2>3 DEF AheadFree, NumbersFit
    <3>1. ToCome' = ToCome /\ Ahead(m.txn)' = Ahead(m.txn)
      BY <1>1, <2>1 DEF ToCome, Ahead
    <3>2. CASE m \in UnderWay
      BY <3>1, <3>2 DEF OwnInv, AheadFree
    <3>3. CASE m = c
      BY <1>1, <3>1, <3>3, AheadFacts DEF PadLinkAssumption, NumbersFit
    <3> QED
      BY <2>4, <3>2, <3>3
  <2> QED
    BY <2>1, <2>3, <2>5, <2>7, <2>8, <2>9, <2>10 DEF OwnInv
<1> QED
  BY <1>2, <1>3

LEMMA OwnAnswered ==
  ASSUME PadLinkAssumption, TypeOK, OwnInv, Answered
  PROVE  OwnInv'
<1>1. /\ UNCHANGED <<out, tx, pending, next_txn, calls>> /\ call.at = "wait" /\ Numbered
      /\ chan # Nothing /\ Return(chan.code = call.code)
  BY DEF Answered, usb, bounds, Numbered
<1>2. pending' = NoTxn /\ manager \in {"info", "status", "listed"}
  BY <1>1 DEF OwnInv, PendingOwn
<1>0. call.code \in DOMAIN Size /\ Gone.code \notin DOMAIN Size
  BY DEF TypeOK, Calls, Gone, Size
<1>3. CASE chan.code # call.code
  BY <1>1, <1>2, <1>3, OwnGivenUp
<1>4. CASE chan.code = call.code
  <2>1. /\ call' = NoCall
        /\ manager' = IF manager = "listed" THEN "listed"
                      ELSE IF manager = "info" THEN "status" ELSE "register"
    BY <1>1, <1>4 DEF Return
  <2>2. UnderWay' = UnderWay /\ Tagged' /\ call'.at = "idle" /\ ~Numbered'
    BY <1>1, <2>1, SameUnderWay DEF OwnInv, NoCall, Numbered
  <2>3. manager' # "info" /\ manager' \in {"status", "register", "listed"}
    BY <1>2, <2>1
  <2>4. AheadFree'
    <3> SUFFICES ASSUME NumbersFit, NEW m \in UnderWay, m.txn # NoTxn
                 PROVE  Ahead(m.txn)' >= ToCome'
      BY <2>2 DEF AheadFree, NumbersFit
    <3>1. Ahead(m.txn)' = Ahead(m.txn)
      BY <1>1 DEF Ahead
    <3>2. CASE manager = "info"
      <4>1. m.txn = call.txn
        BY <1>0, <1>1, <1>4, <3>2 DEF OwnInv, InfoOwn
      <4>2. ToCome' = MaxCalls - calls + 1
        BY <1>1, <2>1, <2>2, <3>2 DEF ToCome
      <4>3. calls \in Nat /\ MaxCalls \in Nat /\ Txns \in Nat
        BY DEF TypeOK, PadLinkAssumption
      <4> QED
        BY <1>1, <3>1, <4>1, <4>2, <4>3, AheadFacts DEF NumbersFit
    <3>3. CASE manager # "info"
      <4>1. ToCome' = ToCome
        BY <1>1, <1>2, <2>1, <2>2, <3>3 DEF ToCome
      <4> QED
        BY <1>2, <3>1, <3>3, <4>1 DEF OwnInv, AheadFree
    <3> QED
      BY <3>2, <3>3
  <2> QED
    BY <1>2, <2>2, <2>3, <2>4 DEF OwnInv, PendingOwn, CallOwn, InfoOwn
<1> QED
  BY <1>3, <1>4

\* A response that is delivered is the call's own; where nothing is waited for, none is.
LEMMA OwnDelivered ==
  ASSUME PadLinkAssumption, TypeOK, OwnInv, Flows, NEW m \in UnderWay,
         m.txn # NoTxn, m.txn = pending, pending' = NoTxn, chan' = Says(m),
         UNCHANGED <<manager, next_txn, call, calls>>,
         manager = "info" => \A l \in UnderWay' : l.txn \in {NoTxn, pending}
  PROVE  OwnInv'
<1>1. m.id = call.id /\ Numbered /\ call.txn = pending
  BY DEF OwnInv, PendingOwn
<1>2. Numbered' = Numbered /\ ToCome' = ToCome
  BY DEF Numbered, ToCome
<1>3. CallOwn'
  <2>1. Says(m).id = call.id
    BY <1>1 DEF Says
  <2> QED
    BY <1>1, <1>2, <2>1 DEF OwnInv, CallOwn, AfterTxn
<1>4. InfoOwn'
  BY <1>1, <1>2 DEF InfoOwn
<1>5. AheadFree'
  <2> SUFFICES ASSUME NumbersFit, manager \in {"status", "register", "listed"},
                      NEW n \in UnderWay', n.txn # NoTxn
               PROVE  Ahead(n.txn)' >= ToCome'
    BY DEF AheadFree, NumbersFit
  <2>1. PICK l \in UnderWay : l.txn = n.txn
    BY DEF Flows, Keeps
  <2>2. Ahead(l.txn) >= ToCome /\ Ahead(n.txn)' = Ahead(l.txn)
    BY <2>1 DEF OwnInv, AheadFree, Ahead, NumbersFit
  <2> QED
    BY <1>2, <2>2
<1> QED
  BY <1>3, <1>4, <1>5 DEF OwnInv, PendingOwn, Flows

LEMMA OwnRead ==
  ASSUME PadLinkAssumption, TypeOK, OwnInv, Read
  PROVE  OwnInv'
<1>0. Flows
  BY LinkFlows DEF OwnInv
<1>1. UNCHANGED <<out, manager, next_txn, call, calls>>
      /\ tx.q \in Seq(Packets) /\ tx.q # <<>> /\ tx'.q = Tail(tx.q)
  BY DEF Read, bounds, TypeOK, IsBuffer, PadLinkAssumption
<1>2. 1 \in DOMAIN tx.q /\ Head(tx.q) = tx.q[1] /\ Head(tx.q) \in UnderWay
  BY <1>1, UnderWayIs
<1>3. CASE UNCHANGED <<pending, chan>>
  BY <1>0, <1>1, <1>3, OwnFlow
<1>4. CASE /\ Head(tx.q).kind = "resp" /\ Head(tx.q).txn = pending
           /\ pending' = NoTxn /\ chan' = Says(Head(tx.q))
  <2>1. pending # NoTxn
    BY <1>2, <1>4 DEF OwnInv, Tagged
  <2>2. ASSUME manager = "info", NEW l \in UnderWay' PROVE l.txn \in {NoTxn, pending}
    <3>1. OwnLast(pending)
      BY <2>1, <2>2 DEF OwnInv, InfoOwn
    <3>2. /\ out = <<>> /\ DOMAIN tx.q \subseteq Nat
          /\ \A k \in DOMAIN tx.q : k > 1 => tx.q[k].txn \in {NoTxn, pending}
      BY <1>1, <1>2, <1>4, <3>1 DEF OwnLast
    <3>3. \A k \in DOMAIN tx'.q : k + 1 \in DOMAIN tx.q /\ k + 1 > 1 /\ tx'.q[k] = tx.q[k + 1]
      BY <1>1
    <3> QED
      BY <1>1, <3>2, <3>3, UnderWayIs
  <2> QED
    BY <1>0, <1>1, <1>2, <1>4, <2>1, <2>2, OwnDelivered
<1> QED
  BY <1>3, <1>4 DEF Read

LEMMA OwnReboot ==
  ASSUME PadLinkAssumption, TypeOK, OwnInv, RebootCommand
  PROVE  OwnInv'
<1>0. Flows
  BY LinkFlows DEF OwnInv
<1>1. /\ UNCHANGED <<manager, next_txn, call, calls>> /\ Head(out).code = "reboot"
      /\ out \in Seq(Commands) /\ out # <<>> /\ out' = <<>> /\ tx'.q = <<>>
  BY DEF RebootCommand, bounds, TypeOK
<1>2. 1 \in DOMAIN out /\ Head(out) = out[1] /\ Head(out) \in UnderWay
  BY <1>1, UnderWayIs
<1>3. CASE UNCHANGED <<pending, chan>>
  BY <1>0, <1>1, <1>3, OwnFlow
<1>4. CASE Head(out).txn = pending /\ pending' = NoTxn /\ chan' = Says(Head(out))
  <2>1. Head(out).txn # NoTxn
    BY <1>1, <1>2 DEF OwnInv, Tagged
  <2>2. UnderWay' = {}
    BY <1>1, UnderWayIs
  <2> QED
    BY <1>0, <1>1, <1>2, <1>4, <2>1, <2>2, OwnDelivered
<1> QED
  BY <1>3, <1>4 DEF RebootCommand

LEMMA OwnFailPending ==
  ASSUME PadLinkAssumption, TypeOK, OwnInv, FailPending
  PROVE  OwnInv'
<1>1. UNCHANGED <<out, tx, manager, next_txn, call, calls>>
  BY DEF FailPending, usb, bounds
<1>2. CASE UNCHANGED <<pending, chan>>
  BY <1>1, <1>2, LinkFlows, OwnFlow DEF OwnInv
<1>3. CASE pending' = NoTxn /\ chan' = Gone
  <2>1. UnderWay' = UnderWay /\ Tagged' /\ Numbered' = Numbered /\ ToCome' = ToCome
    BY <1>1, SameUnderWay DEF OwnInv, Numbered, ToCome
  <2>2. CallOwn' /\ InfoOwn'
    BY <1>1, <1>3, <2>1 DEF OwnInv, CallOwn, InfoOwn, AfterTxn
  <2>3. AheadFree'
    BY <1>1, <2>1 DEF OwnInv, AheadFree, Ahead, NumbersFit
  <2> QED
    BY <1>1, <1>3, <2>1, <2>2, <2>3 DEF OwnInv, PendingOwn
<1> QED
  BY <1>2, <1>3 DEF FailPending

\* A tool's commands have a number.
LEMMA ToolTagged ==
  ASSUME PadLinkAssumption, TypeOK, Tagged, ToolEnters
  PROVE  Tagged'
<1>1. PICK codes \in {<<"enter">>, <<"enter", "leave">>} :
        out' = out \o [k \in DOMAIN codes |-> [code |-> codes[k], txn |-> 1, id |-> 0]]
  BY DEF ToolEnters
<1> DEFINE more == [k \in DOMAIN codes |-> [code |-> codes[k], txn |-> 1, id |-> 0]]
<1>2. more \in Seq(Commands) /\ \A i \in DOMAIN more : more[i].txn = 1
  <2>1. [code |-> "enter", txn |-> 1, id |-> 0] \in Commands
        /\ [code |-> "leave", txn |-> 1, id |-> 0] \in Commands
    BY SizeType DEF Commands, PadLinkAssumption
  <2>2. more \in Seq(Commands)
    BY <2>1
  <2>3. \A i \in DOMAIN more : more[i].txn = 1
    OBVIOUS
  <2> QED
    BY <2>2, <2>3
<1>3. out \in Seq(Commands) /\ Len(out) \in Nat /\ Len(more) \in Nat
  BY <1>2 DEF TypeOK
<1> HIDE DEF more
<1>4. \A i \in DOMAIN out' : out'[i].txn = 1 \/ (i \in DOMAIN out /\ out'[i] = out[i])
  <2>1. DOMAIN out' = 1 .. Len(out) + Len(more)
    BY <1>1, <1>2, <1>3 DEF more
  <2>2. ASSUME NEW i \in DOMAIN out', i > Len(out) PROVE out'[i].txn = 1
    <3>1. i - Len(out) \in DOMAIN more /\ out'[i] = more[i - Len(out)]
      BY <1>1, <1>2, <1>3, <2>1, <2>2 DEF more
    <3> QED
      BY <1>2, <3>1
  <2>3. ASSUME NEW i \in DOMAIN out', i <= Len(out) PROVE i \in DOMAIN out /\ out'[i] = out[i]
    BY <1>1, <1>2, <1>3, <2>1, <2>3 DEF more
  <2> QED
    BY <1>3, <2>1, <2>2, <2>3
<1> QED
  BY <1>4 DEF ToolEnters, Tagged, NoTxn

LEMMA OwnToolEnters ==
  ASSUME PadLinkAssumption, TypeOK, OwnInv, ToolEnters
  PROVE  OwnInv'
<1>1. /\ manager = "scan" /\ UNCHANGED <<manager, call, pending>>
  BY DEF ToolEnters, threads
<1>2. call.at = "idle" /\ pending = NoTxn
  <2>1. call.at = "idle"
    BY <1>1 DEF OwnInv
  <2> QED
    BY <2>1, NotWaiting
<1>3. Tagged'
  BY ToolTagged DEF OwnInv
<1> QED
  BY <1>1, <1>2, <1>3, OwnIdle

LEMMA OwnStep ==
  ASSUME PadLinkAssumption, TypeOK, OwnInv, [Next]_vars, [NumberFree]_vars, [SeedFree]_vars
  PROVE  OwnInv'
<1>1. CASE \/ Reset \/ Command \/ Pump \/ IdleOut \/ Tick \/ Record \/ Event
           \/ EnterConsole \/ EndConsole \/ Plug \/ Unplug \/ Stop \/ ReadFails \/ Drain
           \/ UNCHANGED vars
  <2>1. /\ UNCHANGED <<manager, pending, chan, next_txn, call, calls>>
        /\ \/ Reset \/ Command \/ Pump \/ Record \/ Event \/ Unplug \/ Drain
           \/ UNCHANGED <<out, tx>>
    BY <1>1 DEF Reset, Command, Pump, IdleOut, Tick, Record, Event, EnterConsole, EndConsole,
                Plug, Unplug, Stop, ReadFails, Drain, vars, usb, threads, bounds
  <2>2. Flows
    BY <2>1, LinkFlows DEF OwnInv
  <2> QED
    BY <2>1, <2>2, OwnFlow
<1>2. CASE Register
  <2>1. /\ UNCHANGED <<out, tx, pending, chan, next_txn, call, calls>>
        /\ manager = "register" /\ manager' = "listed"
    BY <1>2 DEF Register, usb, bounds
  <2>2. call.at = "idle"
    BY <2>1 DEF OwnInv
  <2>3. UnderWay' = UnderWay /\ Tagged' /\ ~Numbered /\ ~Numbered' /\ ToCome' = ToCome
        /\ pending = NoTxn
    <3>1. ~Numbered /\ pending = NoTxn
      BY <2>2, NotWaiting
    <3>2. ~Numbered' /\ ToCome' = ToCome
      BY <2>1, <2>2 DEF Numbered, ToCome
    <3> QED
      BY <2>1, <3>1, <3>2, SameUnderWay DEF OwnInv
  <2>4. AheadFree'
    BY <2>1, <2>3 DEF OwnInv, AheadFree, Ahead, NumbersFit
  <2> QED
    BY <2>1, <2>2, <2>3, <2>4 DEF OwnInv, PendingOwn, CallOwn, InfoOwn
<1>3. CASE Forget \/ Exit
  <2>1. /\ UNCHANGED <<out, tx>> /\ manager' = "scan"
        /\ \/ call' = call /\ pending' = pending /\ call.at = "idle"
           \/ call' = NoCall /\ pending' = NoTxn
    BY <1>3 DEF Forget, Exit, usb, OwnInv
  <2>2. call'.at = "idle" /\ pending' = NoTxn /\ Tagged'
    <3>1. call.at = "idle" => pending = NoTxn
      BY NotWaiting
    <3>2. Tagged'
      BY <2>1, SameUnderWay DEF OwnInv
    <3> QED
      BY <2>1, <3>1, <3>2 DEF NoCall
  <2> QED
    BY <2>1, <2>2, OwnIdle
<1>4. CASE Refused
  <2>1. /\ UNCHANGED <<out, tx, next_txn, calls, pending>> /\ call.at = "idle"
        /\ manager \in {"info", "status"} /\ Return(FALSE)
    BY <1>4 DEF Refused, usb, bounds
  <2>2. pending' = NoTxn
    BY <2>1, NotWaiting
  <2> QED
    BY <2>1, <2>2, OwnGivenUp
<1>5. CASE Timeout
  <2>1. /\ UNCHANGED <<out, tx, next_txn, calls>> /\ call.at = "wait"
        /\ Return(FALSE) /\ pending' = NoTxn
    BY <1>5 DEF Timeout, usb
  <2> QED
    BY <2>1, OwnGivenUp
<1>6. CASE LookAgain
  <2>1. UNCHANGED <<out, tx, chan, next_txn, calls>> /\ call.at = "set"
    BY <1>6 DEF LookAgain, usb, bounds
  <2>2. CASE ~MayWrite
    BY <1>6, <2>1, <2>2, OwnGivenUp DEF LookAgain
  <2>3. CASE MayWrite
    <3>1. /\ UNCHANGED <<manager, pending>>
          /\ call'.at = "write" /\ call'.txn = call.txn /\ call'.id = call.id
      BY <1>6, <2>3 DEF LookAgain, TypeOK, Calls
    <3>2. UnderWay' = UnderWay /\ Tagged' /\ Numbered /\ Numbered' /\ ToCome' = ToCome
      BY <2>1, <3>1, SameUnderWay DEF OwnInv, Numbered, ToCome
    <3>3. PendingOwn' /\ CallOwn'
      BY <2>1, <3>1, <3>2 DEF OwnInv, PendingOwn, CallOwn, AfterTxn
    <3>4. InfoOwn'
      BY <2>1, <3>1, <3>2 DEF OwnInv, InfoOwn, OwnLast
    <3>5. AheadFree'
      BY <2>1, <3>1, <3>2 DEF OwnInv, AheadFree, Ahead, NumbersFit
    <3>6. manager' \in {"info", "status", "listed"}
      BY <2>1, <3>1 DEF OwnInv
    <3> QED
      BY <3>2, <3>3, <3>4, <3>5, <3>6 DEF OwnInv
  <2> QED
    BY <2>2, <2>3
<1> QED
  BY <1>1, <1>2, <1>3, <1>4, <1>5, <1>6, OwnOpen, OwnBegin, OwnSendFrame, OwnSetPending,
     OwnWrite, OwnAnswered, OwnRead, OwnReboot, OwnFailPending, OwnToolEnters
     DEF Next, Master, Service, Outside, Manager, Caller, Reader

LEMMA OwnInit == Init => OwnInv
BY DEF Init, OwnInv, Tagged, PendingOwn, CallOwn, InfoOwn, AheadFree, Numbered, NoCall

\* What a caller is given answers its own command, whatever has timed out and whichever
\* program's responses are still on their way, however often the numbers come round, as
\* long as no connection begins with a number that is still under way (SeedsFree) and none
\* is taken that is (NumbersFree; complete, alloc_txn).
THEOREM OwnWhileNumbersFree ==
  ASSUME PadLinkAssumption PROVE Spec /\ SeedsFree /\ NumbersFree => []ResponseOwn
<1>1. Init => OwnInv
  BY OwnInit
<1>2. TypeOK /\ OwnInv /\ [Next]_vars /\ [NumberFree]_vars /\ [SeedFree]_vars => OwnInv'
  BY OwnStep
<1>3. OwnInv => ResponseOwn
  BY DEF OwnInv, CallOwn, Numbered, ResponseOwn
<1>4. Spec => []TypeOK
  BY TypeCorrect
<1> QED
  BY <1>1, <1>2, <1>3, <1>4, PTL DEF Spec, NumbersFree, SeedsFree

\* Where the seed is free the first 253 commands of a connection need nothing else: their
\* numbers, and those of the handshake, differ from each other and, once it is over, from
\* whatever an earlier program left.
THEOREM OwnOnFreeSeeds ==
  ASSUME PadLinkAssumption, NumbersFit PROVE Spec /\ SeedsFree => []ResponseOwn
<1>1. Init => OwnInv
  BY OwnInit
<1>2. TypeOK /\ OwnInv /\ [Next]_vars /\ [SeedFree]_vars => OwnInv' /\ NumberFree
  BY OwnStep, OwnFree
<1>3. Spec => []TypeOK
  BY TypeCorrect
<1>4. Spec /\ SeedsFree => NumbersFree
  BY <1>1, <1>2, <1>3, PTL DEF Spec, NumbersFree, SeedsFree
<1> QED
  BY <1>4, OwnWhileNumbersFree

-----------------------------------------------------------------------------
(* An answer is the caller's own, or a stray *)

\* The number a command takes is that of nothing under way but strays.
OwnNumberFree == SetPending => \A m \in UnderWay : m.txn = next_txn => m.id \in strays

OwnNumbersFree == [][OwnNumberFree]_vars

\* The numbers this connection may still take.
Left ==
  MaxCalls - calls
    + IF manager = "info" THEN IF Numbered THEN 1 ELSE 2
      ELSE IF call.at = "looked" \/ (manager = "status" /\ call.at = "idle") THEN 1 ELSE 0

\* What carries the number waited for is the call's own, or a stray.
StrayPending ==
  pending # NoTxn =>
    /\ Numbered /\ call.txn = pending /\ chan = Nothing
    /\ \A m \in UnderWay :
         m.txn = pending => m.id \in strays \/ (call.at = "wait" /\ m.id = call.id)

StrayCall ==
  Numbered =>
    /\ call.txn \in 1 .. Txns /\ next_txn = AfterTxn(call.txn)
    /\ chan \notin {Nothing, Gone} => chan.id \in {call.id} \cup strays

\* Nothing under way but strays has a number that is still to be taken, when there are
\* numbers enough.
StrayAhead ==
  NumbersFit /\ manager \in {"info", "status", "register", "listed"} =>
    \A m \in UnderWay : m.txn = NoTxn \/ m.id \in strays \/ Ahead(m.txn) >= Left

StrayInv ==
  /\ call.at # "idle" => manager \in {"info", "status", "listed"}
  /\ Tagged
  /\ StrayPending
  /\ StrayCall
  /\ StrayAhead

LEMMA StrayWaiting ==
  ASSUME StrayInv, call.at \in {"idle", "looked"}
  PROVE  ~Numbered /\ pending = NoTxn
<1>1. ~Numbered
  BY DEF Numbered
<1>2. StrayPending
  BY DEF StrayInv
<1> QED
  BY <1>1, <1>2 DEF StrayPending

LEMMA StrayLeft ==
  ASSUME PadLinkAssumption, TypeOK
  PROVE  /\ Left \in Nat /\ Left <= MaxCalls + 2 /\ (Numbered => Left <= MaxCalls + 1)
         /\ call.at = "looked" => Left >= 1
BY DEF PadLinkAssumption, TypeOK, Left, Numbered

\* A step that leaves the program's threads as they are.
LEMMA StrayFlow ==
  ASSUME PadLinkAssumption, TypeOK, StrayInv, Flows,
         UNCHANGED <<manager, pending, chan, next_txn, call, calls, strays>>
  PROVE  StrayInv'
<1>1. Numbered' = Numbered /\ Left' = Left /\ \A n \in 0 .. Txns : Ahead(n)' = Ahead(n)
  BY DEF Numbered, Left, Ahead
<1>2. ASSUME NEW m \in UnderWay', m.txn # NoTxn
      PROVE  \E l \in UnderWay : l.txn = m.txn /\ l.id = m.id
  BY <1>2 DEF Flows, Keeps
<1>3. StrayPending'
  BY <1>1, <1>2 DEF StrayInv, StrayPending
<1>4. StrayCall'
  BY <1>1 DEF StrayInv, StrayCall, AfterTxn
<1>5. StrayAhead'
  <2> SUFFICES ASSUME NumbersFit, manager \in {"info", "status", "register", "listed"},
                      NEW m \in UnderWay', m.txn # NoTxn, m.id \notin strays
               PROVE  Ahead(m.txn)' >= Left'
    BY DEF StrayAhead, NumbersFit
  <2>1. PICK l \in UnderWay : l.txn = m.txn /\ l.id = m.id
    BY <1>2
  <2>2. Ahead(l.txn) >= Left
    BY <2>1 DEF StrayInv, StrayAhead
  <2>3. Ahead(m.txn)' = Ahead(l.txn)
    BY <2>1 DEF Ahead
  <2> QED
    BY <1>1, <2>2, <2>3
<1> QED
  BY <1>3, <1>4, <1>5 DEF StrayInv, Flows

\* Nothing is waited for, and no pad is connected.
LEMMA StrayIdle ==
  ASSUME Tagged', manager' \in {"scan", "close"}, call'.at = "idle", pending' = NoTxn
  PROVE  StrayInv'
BY DEF StrayInv, StrayPending, StrayCall, StrayAhead, Numbered

\* A step of the program that sends nothing and takes no number.
LEMMA StrayStays ==
  ASSUME PadLinkAssumption, TypeOK, StrayInv, UNCHANGED <<out, tx, next_txn>>,
         \A m \in UnderWay : m.id \in strays => m.id \in strays',
         Left' <= Left, Left' \in Int,
         manager \in {"info", "status", "register", "listed"}
  PROVE  StrayAhead'
<1> SUFFICES ASSUME NumbersFit, NEW m \in UnderWay, m.txn # NoTxn, m.id \notin strays
             PROVE  Ahead(m.txn)' >= Left'
  BY SameUnderWay DEF StrayAhead, NumbersFit
<1>1. Ahead(m.txn) >= Left /\ Left \in Int
  BY StrayLeft DEF StrayInv, StrayAhead
<1>2. Ahead(m.txn)' = Ahead(m.txn) /\ Ahead(m.txn) \in Int
  BY UnderWayType, AheadRange DEF Ahead, NoTxn
<1> QED
  BY <1>1, <1>2

LEMMA StrayOpen ==
  ASSUME PadLinkAssumption, TypeOK, StrayInv, Open
  PROVE  StrayInv'
<1>1. /\ UNCHANGED <<out, tx>> /\ manager' = "info" /\ pending' = NoTxn /\ call' = NoCall
      /\ strays' = {m.id : m \in UnderWay}
  BY DEF Open, usb
<1>2. UnderWay' = UnderWay /\ Tagged'
  BY <1>1, SameUnderWay DEF StrayInv
<1>3. ~Numbered' /\ call'.at = "idle"
  BY <1>1 DEF NoCall, Numbered
<1> QED
  BY <1>1, <1>2, <1>3 DEF StrayInv, StrayPending, StrayCall, StrayAhead

LEMMA StrayBegin ==
  ASSUME PadLinkAssumption, TypeOK, StrayInv, NEW code \in DOMAIN Size, Begin(code)
  PROVE  StrayInv'
<1>1. /\ UNCHANGED <<out, tx, manager, pending, next_txn>> /\ call.at = "idle"
      /\ call'.at = "looked"
      /\ \/ manager \in {"info", "status"} /\ calls' = calls
         \/ manager = "listed" /\ calls' = calls + 1
  BY DEF Begin, Asks, usb
<1>2. UnderWay' = UnderWay /\ Tagged'
  BY <1>1, SameUnderWay DEF StrayInv
<1>3. ~Numbered /\ pending = NoTxn /\ ~Numbered'
  <2>1. ~Numbered /\ pending = NoTxn
    BY <1>1, StrayWaiting
  <2>2. ~Numbered'
    BY <1>1 DEF Numbered
  <2> QED
    BY <2>1, <2>2
<1>4. \A m \in UnderWay : m.id \in strays => m.id \in strays'
  BY DEF Begin, Fresh
<1>5. Left' = Left /\ Left' \in Int
  <2>1. calls \in Int /\ MaxCalls \in Int
    BY DEF TypeOK, PadLinkAssumption
  <2> QED
    BY <1>1, <1>3, <2>1 DEF Left
<1>6. StrayAhead'
  BY <1>1, <1>4, <1>5, StrayStays
<1> QED
  BY <1>1, <1>2, <1>3, <1>6 DEF StrayInv, StrayPending, StrayCall

LEMMA StraySendFrame ==
  ASSUME PadLinkAssumption, TypeOK, StrayInv, SendFrame
  PROVE  StrayInv'
<1>1. /\ UNCHANGED <<tx, manager, pending, chan, next_txn, call, strays>> /\ call.at = "idle"
      /\ manager = "listed" /\ calls' = calls + 1
      /\ out' = Append(out, [code |-> "frame", txn |-> NoTxn, id |-> 0])
  BY DEF SendFrame, Asks, threads
<1>2. (\A m \in UnderWay' : m \in UnderWay \/ m.txn = NoTxn) /\ Tagged'
  BY FrameSent DEF StrayInv
<1>3. ~Numbered /\ pending = NoTxn /\ ~Numbered'
  <2>1. ~Numbered /\ pending = NoTxn
    BY <1>1, StrayWaiting
  <2>2. ~Numbered'
    BY <1>1 DEF Numbered
  <2> QED
    BY <2>1, <2>2
<1>4. Left' <= Left /\ Left \in Nat /\ Left' \in Int
  BY <1>1 DEF Left, TypeOK, PadLinkAssumption
<1>5. StrayAhead'
  <2> SUFFICES ASSUME NumbersFit, NEW m \in UnderWay, m.txn # NoTxn, m.id \notin strays
               PROVE  Ahead(m.txn)' >= Left'
    BY <1>1, <1>2 DEF StrayAhead, NumbersFit
  <2>1. Ahead(m.txn) >= Left
    BY <1>1 DEF StrayInv, StrayAhead
  <2>2. Ahead(m.txn) \in Int /\ Ahead(m.txn)' = Ahead(m.txn)
    BY <1>1, UnderWayType, AheadRange DEF NoTxn, Ahead
  <2> QED
    BY <1>4, <2>1, <2>2
<1> QED
  BY <1>1, <1>2, <1>3, <1>5 DEF StrayInv, StrayPending, StrayCall

\* Of numbers enough the next is free, strays apart.
LEMMA StrayFree ==
  ASSUME PadLinkAssumption, TypeOK, StrayInv, NumbersFit
  PROVE  OwnNumberFree
<1> SUFFICES ASSUME SetPending, NEW m \in UnderWay, m.txn = next_txn, m.id \notin strays
             PROVE  FALSE
  BY DEF OwnNumberFree
<1>1. next_txn \in 1 .. Txns /\ NoTxn \notin 1 .. Txns /\ call.at = "looked"
  BY DEF TypeOK, NoTxn, PadLinkAssumption, SetPending
<1>2. manager \in {"info", "status", "listed"}
  BY <1>1 DEF StrayInv
<1>3. Left \in Nat /\ Left >= 1
  BY <1>1, StrayLeft
<1>4. Ahead(m.txn) >= Left
  BY <1>1, <1>2 DEF StrayInv, StrayAhead
<1> QED
  BY <1>3, <1>4, AheadRange

LEMMA StraySetPending ==
  ASSUME PadLinkAssumption, TypeOK, StrayInv, SetPending, OwnNumberFree
  PROVE  StrayInv'
<1>0. next_txn \in 1 .. Txns /\ NoTxn \notin 1 .. Txns
  BY DEF TypeOK, NoTxn, PadLinkAssumption
<1>1. /\ UNCHANGED <<out, tx, manager, calls, strays>> /\ call.at = "looked"
      /\ call'.at = "set" /\ call'.txn = next_txn /\ next_txn' = AfterTxn(next_txn)
      /\ pending' = next_txn /\ chan' = Nothing
  BY DEF SetPending, usb, bounds, TypeOK, Calls
<1>2. UnderWay' = UnderWay /\ Tagged'
  BY <1>1, SameUnderWay DEF StrayInv
<1>3. ~Numbered /\ Numbered' /\ manager \in {"info", "status", "listed"}
  BY <1>1 DEF Numbered, StrayInv
<1>4. Left \in Nat /\ Left' = Left - 1
  BY <1>1, <1>3 DEF Left, TypeOK, PadLinkAssumption
<1>5. \A m \in UnderWay : m.txn = next_txn => m.id \in strays
  BY DEF OwnNumberFree
<1>6. StrayPending'
  BY <1>1, <1>2, <1>3, <1>5 DEF StrayPending
<1>7. StrayCall'
  BY <1>0, <1>1, <1>3 DEF StrayCall
<1>8. StrayAhead'
  <2> SUFFICES ASSUME NumbersFit, NEW m \in UnderWay, m.txn # NoTxn, m.id \notin strays
               PROVE  Ahead(m.txn)' >= Left'
    BY <1>1, <1>2, <1>3 DEF StrayAhead, NumbersFit
  <2>1. Ahead(m.txn) >= Left /\ m.txn \in 1 .. Txns /\ m.txn # next_txn
    BY <1>3, <1>5, UnderWayType DEF StrayInv, StrayAhead, NoTxn
  <2>2. Ahead(m.txn)' = Ahead(m.txn) - 1 /\ Ahead(m.txn) \in Int
    BY <1>1, <2>1, AheadNext, AheadRange
  <2> QED
    BY <1>4, <2>1, <2>2
<1> QED
  BY <1>1, <1>2, <1>3, <1>6, <1>7, <1>8 DEF StrayInv

\* A command that is over before it was answered.
LEMMA StrayGivenUp ==
  ASSUME PadLinkAssumption, TypeOK, StrayInv, UNCHANGED <<out, tx, next_txn, calls, strays>>,
         call.at # "looked", call.at = "idle" => manager \in {"info", "status"},
         Return(FALSE), pending' = NoTxn
  PROVE  StrayInv'
<1>1. call' = NoCall /\ manager' = IF manager = "listed" THEN "listed" ELSE "close"
  BY DEF Return, AfterFailure
<1>2. UnderWay' = UnderWay /\ Tagged'
  BY SameUnderWay DEF StrayInv
<1>3. call'.at = "idle" /\ ~Numbered'
  BY <1>1 DEF NoCall, Numbered
<1>4. CASE manager # "listed"
  BY <1>1, <1>2, <1>3, <1>4, StrayIdle
<1>5. CASE manager = "listed"
  <2>1. Left' = Left /\ Left \in Int
    BY <1>1, <1>3, <1>5, StrayLeft DEF Left
  <2>2. StrayAhead'
    BY <1>5, <2>1, StrayStays
  <2> QED
    BY <1>1, <1>2, <1>3, <1>5, <2>2 DEF StrayInv, StrayPending, StrayCall
<1> QED
  BY <1>4, <1>5

LEMMA StrayWrite ==
  ASSUME PadLinkAssumption, TypeOK, StrayInv, Write
  PROVE  StrayInv'
<1>1. UNCHANGED <<tx, chan, next_txn, calls, strays>> /\ call.at = "write" /\ Numbered
  BY DEF Write, bounds, Numbered
<1>2. CASE ~link
  BY <1>1, <1>2, StrayGivenUp DEF Write
<1>3. CASE link
  <2> DEFINE c == [code |-> call.code, txn |-> call.txn, id |-> call.id]
  <2>1. /\ out' = Append(out, c) /\ UNCHANGED <<manager, pending>>
        /\ call'.at = "wait" /\ call'.txn = call.txn /\ call'.id = call.id
        /\ out \in Seq(Commands) /\ Len(out) \in Nat
    <3>1. /\ out' = Append(out, c) /\ UNCHANGED <<manager, pending>>
          /\ call' = [call EXCEPT !.at = "wait"]
      BY <1>3 DEF Write
    <3>2. call'.at = "wait" /\ call'.txn = call.txn /\ call'.id = call.id
      BY <3>1 DEF TypeOK, Calls
    <3>3. out \in Seq(Commands) /\ Len(out) \in Nat
      BY DEF TypeOK
    <3> QED
      BY <3>1, <3>2, <3>3
  <2>2. /\ DOMAIN out' = 1 .. Len(out) + 1
        /\ \A i \in 1 .. Len(out) + 1 : out'[i] = IF i = Len(out) + 1 THEN c ELSE out[i]
        /\ DOMAIN out = 1 .. Len(out)
    BY <2>1
  <2>3. /\ call.txn \in 1 .. Txns /\ call.txn # NoTxn /\ next_txn = AfterTxn(call.txn)
        /\ manager \in {"info", "status", "listed"}
    BY <1>1 DEF StrayInv, StrayCall, NoTxn
  <2>4. \A m \in UnderWay' : m \in UnderWay \/ m = c
    <3>1. \A i \in DOMAIN out' : out'[i] = c \/ \E j \in DOMAIN out : out'[i] = out[j]
      BY <2>2
    <3> QED
      BY <1>1, <3>1, UnderWayIs
  <2>5. Tagged'
    BY <1>1, <2>2, <2>3 DEF StrayInv, Tagged
  <2>6. Numbered'
    BY <2>1 DEF Numbered
  <2>7. StrayPending'
    BY <1>1, <2>1, <2>4, <2>6 DEF StrayInv, StrayPending
  <2>8. StrayCall'
    BY <1>1, <2>1 DEF StrayInv, StrayCall, AfterTxn
  <2>9. StrayAhead'
    <3> SUFFICES ASSUME NumbersFit, NEW m \in UnderWay', m.txn # NoTxn, m.id \notin strays
                 PROVE  Ahead(m.txn)' >= Left'
      BY <1>1, <2>1, <2>3 DEF StrayAhead, NumbersFit
    <3>1. Left' = Left /\ Ahead(m.txn)' = Ahead(m.txn)
      BY <1>1, <2>1, <2>6 DEF Left, Ahead
    <3>2. CASE m \in UnderWay
      BY <2>3, <3>1, <3>2 DEF StrayInv, StrayAhead
    <3>3. CASE m = c
      <4>1. Ahead(m.txn) = Txns - 1
        BY <2>3, <3>3, AheadLast
      <4>2. Left <= MaxCalls + 1 /\ Left \in Nat
        BY <1>1, StrayLeft
      <4> QED
        BY <3>1, <4>1, <4>2 DEF PadLinkAssumption, NumbersFit
    <3> QED
      BY <2>4, <3>2, <3>3
  <2> QED
    BY <2>1, <2>3, <2>5, <2>7, <2>8, <2>9 DEF StrayInv
<1> QED
  BY <1>2, <1>3

LEMMA StrayAnswered ==
  ASSUME PadLinkAssumption, TypeOK, StrayInv, Answered
  PROVE  StrayInv'
<1>1. /\ UNCHANGED <<out, tx, pending, next_txn, calls, strays>>
      /\ call.at = "wait" /\ Numbered
      /\ chan # Nothing /\ Return(chan.code = call.code)
  BY DEF Answered, usb, bounds, Numbered
<1>2. pending' = NoTxn /\ manager \in {"info", "status", "listed"}
  BY <1>1 DEF StrayInv, StrayPending
<1>3. CASE chan.code # call.code
  BY <1>1, <1>2, <1>3, StrayGivenUp
<1>4. CASE chan.code = call.code
  <2>1. /\ call' = NoCall
        /\ manager' = IF manager = "listed" THEN "listed"
                      ELSE IF manager = "info" THEN "status" ELSE "register"
    BY <1>1, <1>4 DEF Return
  <2>2. UnderWay' = UnderWay /\ Tagged' /\ call'.at = "idle" /\ ~Numbered'
    BY <1>1, <2>1, SameUnderWay DEF StrayInv, NoCall, Numbered
  <2>3. Left' = Left /\ Left \in Int
    BY <1>1, <1>2, <2>1, <2>2, StrayLeft DEF Left
  <2>4. StrayAhead'
    BY <1>1, <1>2, <2>3, StrayStays
  <2> QED
    BY <1>2, <2>2, <2>4 DEF StrayInv, StrayPending, StrayCall
<1> QED
  BY <1>3, <1>4

\* A response is delivered.
LEMMA StrayDelivered ==
  ASSUME PadLinkAssumption, TypeOK, StrayInv, Flows, NEW m \in UnderWay,
         m.txn # NoTxn, m.txn = pending, pending' = NoTxn, chan' = Says(m),
         UNCHANGED <<manager, next_txn, call, calls, strays>>
  PROVE  StrayInv'
<1>1. Numbered /\ call.txn = pending /\ m.id \in {call.id} \cup strays
  BY DEF StrayInv, StrayPending
<1>2. Numbered' = Numbered /\ Left' = Left
  BY DEF Numbered, Left
<1>3. StrayCall'
  <2>1. Says(m).id \in {call.id} \cup strays
    BY <1>1 DEF Says
  <2> QED
    BY <1>1, <1>2, <2>1 DEF StrayInv, StrayCall, AfterTxn
<1>4. StrayAhead'
  <2> SUFFICES ASSUME NumbersFit, manager \in {"info", "status", "register", "listed"},
                      NEW n \in UnderWay', n.txn # NoTxn, n.id \notin strays
               PROVE  Ahead(n.txn)' >= Left'
    BY DEF StrayAhead, NumbersFit
  <2>1. PICK l \in UnderWay : l.txn = n.txn /\ l.id = n.id
    BY DEF Flows, Keeps
  <2>2. Ahead(l.txn) >= Left /\ Ahead(n.txn)' = Ahead(l.txn)
    BY <2>1 DEF StrayInv, StrayAhead, Ahead
  <2> QED
    BY <1>2, <2>2
<1> QED
  BY <1>3, <1>4 DEF StrayInv, StrayPending, Flows

LEMMA StrayRead ==
  ASSUME PadLinkAssumption, TypeOK, StrayInv, Read \/ RebootCommand
  PROVE  StrayInv'
<1>0. Flows
  BY LinkFlows DEF StrayInv
<1>1. UNCHANGED <<manager, next_txn, call, calls, strays>>
  BY DEF Read, RebootCommand, bounds
<1>2. CASE UNCHANGED <<pending, chan>>
  BY <1>0, <1>1, <1>2, StrayFlow
<1>3. CASE ~UNCHANGED <<pending, chan>>
  <2>1. \E m \in UnderWay :
          m.txn # NoTxn /\ m.txn = pending /\ pending' = NoTxn /\ chan' = Says(m)
    <3>1. CASE Read
      <4>1. /\ tx.q # <<>> /\ Head(tx.q).kind = "resp" /\ Head(tx.q).txn = pending
            /\ pending' = NoTxn /\ chan' = Says(Head(tx.q))
        BY <1>3, <3>1 DEF Read, TypeOK, IsBuffer, PadLinkAssumption
      <4>2. 1 \in DOMAIN tx.q /\ Head(tx.q) = tx.q[1] /\ Head(tx.q) \in UnderWay
        BY <4>1, UnderWayIs DEF TypeOK, IsBuffer
      <4> QED
        BY <4>1, <4>2 DEF StrayInv, Tagged
    <3>2. CASE RebootCommand
      <4>1. /\ out # <<>> /\ Head(out).code = "reboot" /\ Head(out).txn = pending
            /\ pending' = NoTxn /\ chan' = Says(Head(out))
        BY <1>3, <3>2 DEF RebootCommand
      <4>2. 1 \in DOMAIN out /\ Head(out) = out[1] /\ Head(out) \in UnderWay
        BY <4>1, UnderWayIs DEF TypeOK
      <4> QED
        BY <4>1, <4>2 DEF StrayInv, Tagged
    <3> QED
      BY <3>1, <3>2
  <2> QED
    BY <1>0, <1>1, <2>1, StrayDelivered
<1> QED
  BY <1>2, <1>3

LEMMA StrayFailPending ==
  ASSUME PadLinkAssumption, TypeOK, StrayInv, FailPending
  PROVE  StrayInv'
<1>1. UNCHANGED <<out, tx, manager, next_txn, call, calls, strays>>
  BY DEF FailPending, usb, bounds
<1>2. Flows
  BY <1>1, LinkFlows DEF StrayInv
<1>3. CASE UNCHANGED <<pending, chan>>
  BY <1>1, <1>2, <1>3, StrayFlow
<1>4. CASE pending' = NoTxn /\ chan' = Gone
  <2>1. UnderWay' = UnderWay /\ Tagged' /\ Numbered' = Numbered /\ Left' = Left
    BY <1>1, SameUnderWay DEF StrayInv, Numbered, Left
  <2>2. StrayCall'
    BY <1>1, <1>4, <2>1 DEF StrayInv, StrayCall, AfterTxn
  <2>3. StrayAhead'
    BY <1>1, <2>1 DEF StrayInv, StrayAhead, Ahead, NumbersFit
  <2> QED
    BY <1>1, <1>4, <2>1, <2>2, <2>3 DEF StrayInv, StrayPending
<1> QED
  BY <1>3, <1>4 DEF FailPending

LEMMA StrayStep ==
  ASSUME PadLinkAssumption, TypeOK, StrayInv, [Next]_vars, [OwnNumberFree]_vars
  PROVE  StrayInv'
<1>1. CASE \/ Reset \/ Command \/ Pump \/ IdleOut \/ Tick \/ Record \/ Event
           \/ EnterConsole \/ EndConsole \/ Plug \/ Unplug \/ Stop \/ ReadFails \/ Drain
           \/ UNCHANGED vars
  <2>1. /\ UNCHANGED <<manager, pending, chan, next_txn, call, calls, strays>>
        /\ \/ Reset \/ Command \/ Pump \/ Record \/ Event \/ Unplug \/ Drain
           \/ UNCHANGED <<out, tx>>
    BY <1>1 DEF Reset, Command, Pump, IdleOut, Tick, Record, Event, EnterConsole, EndConsole,
                Plug, Unplug, Stop, ReadFails, Drain, vars, usb, threads, bounds
  <2>2. Flows
    BY <2>1, LinkFlows DEF StrayInv
  <2> QED
    BY <2>1, <2>2, StrayFlow
<1>2. CASE Register
  <2>1. /\ UNCHANGED <<out, tx, pending, chan, next_txn, call, calls, strays>>
        /\ manager = "register" /\ manager' = "listed"
    BY <1>2 DEF Register, usb, bounds
  <2>2. call.at = "idle"
    BY <2>1 DEF StrayInv
  <2>3. Tagged' /\ ~Numbered /\ ~Numbered' /\ pending = NoTxn
    <3>1. ~Numbered /\ pending = NoTxn
      BY <2>2, StrayWaiting
    <3>2. ~Numbered'
      BY <2>1, <2>2 DEF Numbered
    <3> QED
      BY <2>1, <3>1, <3>2, SameUnderWay DEF StrayInv
  <2>4. Left' = Left /\ Left \in Int
    BY <2>1, <2>2, <2>3, StrayLeft DEF Left
  <2>5. StrayAhead'
    BY <2>1, <2>4, StrayStays
  <2> QED
    BY <2>1, <2>2, <2>3, <2>5 DEF StrayInv, StrayPending, StrayCall
<1>3. CASE Forget \/ Exit
  <2>1. /\ UNCHANGED <<out, tx>> /\ manager' = "scan"
        /\ \/ call' = call /\ pending' = pending /\ call.at = "idle"
           \/ call' = NoCall /\ pending' = NoTxn
    BY <1>3 DEF Forget, Exit, usb, StrayInv
  <2>2. call'.at = "idle" /\ pending' = NoTxn /\ Tagged'
    <3>1. call.at = "idle" => pending = NoTxn
      BY StrayWaiting
    <3>2. Tagged'
      BY <2>1, SameUnderWay DEF StrayInv
    <3> QED
      BY <2>1, <3>1, <3>2 DEF NoCall
  <2> QED
    BY <2>1, <2>2, StrayIdle
<1>4. CASE Refused
  <2>1. /\ UNCHANGED <<out, tx, next_txn, calls, strays, pending>> /\ call.at = "idle"
        /\ manager \in {"info", "status"} /\ Return(FALSE)
    BY <1>4 DEF Refused, usb, bounds
  <2>2. pending' = NoTxn
    BY <2>1, StrayWaiting
  <2> QED
    BY <2>1, <2>2, StrayGivenUp
<1>5. CASE Timeout
  <2>1. /\ UNCHANGED <<out, tx, next_txn, calls, strays>> /\ call.at = "wait"
        /\ Return(FALSE) /\ pending' = NoTxn
    BY <1>5 DEF Timeout, usb
  <2> QED
    BY <2>1, StrayGivenUp
<1>6. CASE LookAgain
  <2>1. UNCHANGED <<out, tx, chan, next_txn, calls, strays>> /\ call.at = "set"
    BY <1>6 DEF LookAgain, usb, bounds
  <2>2. CASE ~MayWrite
    BY <1>6, <2>1, <2>2, StrayGivenUp DEF LookAgain
  <2>3. CASE MayWrite
    <3>1. /\ UNCHANGED <<manager, pending>>
          /\ call'.at = "write" /\ call'.txn = call.txn /\ call'.id = call.id
      BY <1>6, <2>3 DEF LookAgain, TypeOK, Calls
    <3>2. UnderWay' = UnderWay /\ Tagged' /\ Numbered /\ Numbered' /\ Left' = Left
      BY <2>1, <3>1, SameUnderWay DEF StrayInv, Numbered, Left
    <3>3. StrayPending' /\ StrayCall'
      BY <2>1, <3>1, <3>2 DEF StrayInv, StrayPending, StrayCall, AfterTxn
    <3>4. StrayAhead'
      BY <2>1, <3>1, <3>2 DEF StrayInv, StrayAhead, Ahead, NumbersFit
    <3>5. manager' \in {"info", "status", "listed"}
      BY <2>1, <3>1 DEF StrayInv
    <3> QED
      BY <3>2, <3>3, <3>4, <3>5 DEF StrayInv
  <2> QED
    BY <2>2, <2>3
<1>7. CASE ToolEnters
  <2>1. /\ manager = "scan" /\ UNCHANGED <<manager, call, pending, tx>>
    BY <1>7 DEF ToolEnters, threads
  <2>2. call.at = "idle" /\ pending = NoTxn
    <3>1. call.at = "idle"
      BY <2>1 DEF StrayInv
    <3> QED
      BY <3>1, StrayWaiting
  <2>3. Tagged'
    BY <1>7, ToolTagged DEF StrayInv
  <2> QED
    BY <2>1, <2>2, <2>3, StrayIdle
<1> QED
  BY <1>1, <1>2, <1>3, <1>4, <1>5, <1>6, <1>7, StrayOpen, StrayBegin, StraySendFrame,
     StraySetPending, StrayWrite, StrayAnswered, StrayRead, StrayFailPending
     DEF Next, Master, Service, Outside, Manager, Caller, Reader

LEMMA StrayInit == Init => StrayInv
BY DEF Init, StrayInv, Tagged, StrayPending, StrayCall, StrayAhead, Numbered, NoCall

\* OwnOrStray: a caller is given the answer of its own command or one that was under way
\* when the pad was opened, wherever the numbers begin and however often they come round, as
\* long as none is taken that a command of this connection still has under way
\* (OwnNumbersFree; complete, alloc_txn).
THEOREM OwnOrStrayWhileFree ==
  ASSUME PadLinkAssumption PROVE Spec /\ OwnNumbersFree => []OwnOrStray
<1>1. Init => StrayInv
  BY StrayInit
<1>2. TypeOK /\ StrayInv /\ [Next]_vars /\ [OwnNumberFree]_vars => StrayInv'
  BY StrayStep
<1>3. StrayInv => OwnOrStray
  BY DEF StrayInv, StrayCall, Numbered, OwnOrStray
<1>4. Spec => []TypeOK
  BY TypeCorrect
<1> QED
  BY <1>1, <1>2, <1>3, <1>4, PTL DEF Spec, OwnNumbersFree

\* The first 253 commands of a connection need no such proviso: their numbers and those of
\* the handshake differ from each other, so whatever has timed out answers none of them.
THEOREM AlwaysOwnOrStray ==
  ASSUME PadLinkAssumption, NumbersFit PROVE Spec => []OwnOrStray
<1>1. Init => StrayInv
  BY StrayInit
<1>2. TypeOK /\ StrayInv /\ [Next]_vars => StrayInv' /\ OwnNumberFree
  BY StrayStep, StrayFree
<1>3. Spec => []TypeOK
  BY TypeCorrect
<1>4. Spec => OwnNumbersFree
  BY <1>1, <1>2, <1>3, PTL DEF Spec, OwnNumbersFree
<1> QED
  BY <1>4, OwnOrStrayWhileFree

-----------------------------------------------------------------------------
(* The lights *)

Passing == passthrough \/ vnd_passthrough

OnePassthrough == ~(passthrough /\ vnd_passthrough)

\* Ticks, and the end of a passthrough, until the panels show their own lights, if
\* nobody is heard.
LightsLeft == (IF Passing THEN Idle + 2 - silent ELSE 0) + Hold - frame_age

\* A command comes from the host, or the console begins a passthrough.
Heard == Command \/ EnterConsole

LightsNear ==
  ~Heard =>
    /\ LightsLeft' <= LightsLeft
    /\ (Tick \/ IdleOut \/ EndConsole) /\ vars' # vars => LightsLeft' < LightsLeft

\* The measure is used up exactly when the lights are the panels' own.
LEMMA LightsCount ==
  ASSUME PadLinkAssumption, TypeOK
  PROVE  LightsLeft \in Nat /\ (LightsLeft = 0 <=> Lights = "own")
<1>1. /\ Idle \in Nat /\ Hold \in Nat /\ silent \in 0 .. Idle + 1
      /\ frame_age \in 0 .. Hold
  BY DEF PadLinkAssumption, TypeOK
<1>2. CASE Passing
  <2>1. LightsLeft \in Nat /\ LightsLeft > 0
    BY <1>1, <1>2 DEF LightsLeft
  <2> QED
    BY <1>2, <2>1 DEF Lights, Passing
<1>3. CASE ~Passing
  <2>1. LightsLeft \in Nat /\ (LightsLeft = 0 <=> ~HostLeds)
    BY <1>1, <1>3 DEF LightsLeft, HostLeds
  <2> QED
    BY <1>3, <2>1 DEF Lights, Passing
<1> QED
  BY <1>2, <1>3

\* Only the master's own steps change what it knows.
LEMMA MasterStays ==
  ASSUME Outside \/ Manager \/ Caller \/ Reader \/ UNCHANGED vars
  PROVE  UNCHANGED master
<1>1. CASE Outside
  BY <1>1 DEF Outside, Plug, Unplug, ToolEnters, Exit
<1>2. CASE Manager
  BY <1>2 DEF Manager, Open, Register, Stop, Forget
<1>3. CASE Caller
  BY <1>3 DEF Caller, Begin, SendFrame, Refused, SetPending, LookAgain, Write, Answered,
              Timeout
<1>4. CASE Reader
  BY <1>4 DEF Reader, Drain, Read, ReadFails, FailPending
<1> QED
  BY <1>1, <1>2, <1>3, <1>4 DEF vars

LEMMA OneStays == ASSUME OnePassthrough, [Next]_vars PROVE OnePassthrough'
<1> USE DEF OnePassthrough
<1>1. CASE Reset \/ RebootCommand \/ IdleOut \/ EndConsole \/ EnterConsole
  BY <1>1 DEF Reset, RebootCommand, IdleOut, EndConsole, EnterConsole
<1>2. CASE Command
  BY <1>2 DEF Command, Enters
<1>3. CASE Pump \/ Tick \/ Record \/ Event
  BY <1>3 DEF Pump, Tick, Record, Event, master
<1>4. CASE Outside \/ Manager \/ Caller \/ Reader \/ UNCHANGED vars
  BY <1>4, MasterStays DEF master
<1> QED
  BY <1>1, <1>2, <1>3, <1>4 DEF Next, Master, Service

\* The console and a program never hold the bus at once, so the end of a passthrough,
\* whoever's it was, ends all there is (vndPassthroughService, passthroughService).
THEOREM OneHoldsTheBus == Spec => []OnePassthrough
<1>1. Init => OnePassthrough
  BY DEF Init, OnePassthrough
<1>2. OnePassthrough /\ [Next]_vars => OnePassthrough'
  BY OneStays
<1> QED
  BY <1>1, <1>2, PTL DEF Spec

LEMMA TimeTells ==
  ASSUME PadLinkAssumption, TypeOK, OnePassthrough, Tick \/ IdleOut \/ EndConsole
  PROVE  LightsLeft' <= LightsLeft /\ (vars' # vars => LightsLeft' < LightsLeft)
<1>0. /\ Idle \in Nat /\ Hold \in Nat /\ silent \in 0 .. Idle + 1
      /\ frame_age \in 0 .. Hold
  BY DEF PadLinkAssumption, TypeOK
<1>1. CASE Tick
  <2>1. /\ UNCHANGED <<passthrough, vnd_passthrough>>
        /\ silent' = IF Passing THEN Lesser(silent + 1, Idle + 1) ELSE silent
        /\ frame_age' = Lesser(frame_age + 1, Hold)
    BY <1>1 DEF Tick, Passing
  <2>2. silent' = silent /\ frame_age' = frame_age => vars' = vars
    BY <1>1 DEF Tick, vars, master
  <2>3. /\ LightsLeft' <= LightsLeft
        /\ silent' # silent \/ frame_age' # frame_age => LightsLeft' < LightsLeft
    BY <1>0, <2>1 DEF LightsLeft, Passing, Lesser
  <2> QED
    BY <2>2, <2>3
<1>2. CASE IdleOut \/ EndConsole
  <2>1. Passing /\ UNCHANGED <<silent, frame_age>>
    BY <1>2 DEF IdleOut, EndConsole, Passing
  <2>2. ~Passing'
    BY <1>2 DEF IdleOut, EndConsole, OnePassthrough, Passing
  <2> QED
    BY <1>0, <2>1, <2>2 DEF LightsLeft, Passing
<1> QED
  BY <1>1, <1>2

LEMMA LightsStep ==
  ASSUME PadLinkAssumption, TypeOK, OnePassthrough, [Next]_vars
  PROVE  LightsNear
<1>0. /\ Idle \in Nat /\ Hold \in Nat /\ silent \in 0 .. Idle + 1
      /\ frame_age \in 0 .. Hold
  BY DEF PadLinkAssumption, TypeOK
<1>1. ASSUME UNCHANGED master PROVE LightsLeft' <= LightsLeft
  BY <1>0, <1>1 DEF LightsLeft, Passing, master
<1>2. CASE Reset \/ RebootCommand
  <2>1. ~Passing' \/ (passthrough /\ UNCHANGED <<passthrough, silent>>)
    BY <1>2 DEF Reset, RebootCommand, Passing
  <2>2. frame_age' = Hold
    BY <1>2 DEF Reset, RebootCommand
  <2> QED
    BY <1>0, <2>1, <2>2, TimeTells DEF LightsLeft, LightsNear, Passing
<1>3. CASE Pump \/ Record \/ Event
  <2>1. UNCHANGED <<passthrough, vnd_passthrough, silent, frame_age>>
    BY <1>3 DEF Pump, Record, Event, master
  <2> QED
    BY <1>0, <2>1, TimeTells DEF LightsLeft, LightsNear, Passing
<1>4. CASE Tick \/ IdleOut \/ EndConsole
  BY <1>4, TimeTells DEF LightsNear
<1>5. CASE Heard
  BY <1>5 DEF LightsNear
<1>6. CASE Outside \/ Manager \/ Caller \/ Reader \/ UNCHANGED vars
  BY <1>1, <1>6, MasterStays, TimeTells DEF LightsNear
<1> QED
  BY <1>2, <1>3, <1>4, <1>5, <1>6 DEF Next, Master, Service, Heard

\* Nothing but the host or the console keeps the lights from coming back: every tick and
\* every end of a passthrough that changes anything lowers the measure, no other step
\* raises it, lost sessions, closed programs and full queues included, and at nought the
\* panels show their own (PT_IDLE_MS, HOST_FRAME_HOLD_MS).
THEOREM LightsComeBack ==
  ASSUME PadLinkAssumption
  PROVE  Spec => /\ [](LightsLeft \in Nat /\ (LightsLeft = 0 <=> Lights = "own"))
                 /\ [][LightsNear]_vars
<1>1. TypeOK => LightsLeft \in Nat /\ (LightsLeft = 0 <=> Lights = "own")
  BY LightsCount
<1>2. TypeOK /\ OnePassthrough /\ [Next]_vars => [LightsNear]_vars
  BY LightsStep
<1> QED
  BY <1>1, <1>2, TypeCorrect, OneHoldsTheBus, PTL DEF Spec
=============================================================================
